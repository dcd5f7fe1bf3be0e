----------------------------- MODULE AlertReads -----------------------------
(***************************************************************************)
(* The read repository over the alert history (read_repository.go,         *)
(* network_read_repository.go, analytics_read_repository.go) while         *)
(* ingestion goes on: read transactions of two queries, a client that      *)
(* walks the pages of the historical list, and the line analytics.  Which  *)
(* lines a revision concerns is looked up in the current network, old      *)
(* revisions too, so that a GTFS import changes it under them.             *)
(***************************************************************************)
EXTENDS AlertEpisodes, Integers, SequencesExt

CONSTANTS
  Line, NoLine,
  Network,     \* the imported networks, numbered in the order they come
  Impact,      \* Impact[n][c]: the lines of content c in network n
  Period,      \* Period[c]: its active periods, <<starts_at, ends_at>>
  Filter,      \* the filters a client may give to the historical list
  PageSize,
  DayLength,   \* instants in a day
  WeekLength,  \* days in a week
  FirstWeekday \* weekday of the day of instant 0; weekday 1 starts a week

MaybeTime == Time \cup {NoTime}

ASSUME ReadsAssumption ==
  /\ NoLine \notin Line /\ Network \subseteq Nat /\ Impact \in [Network -> [Content -> SUBSET Line]]
  /\ Period \in [Content -> SUBSET (MaybeTime \X MaybeTime)]
  /\ Filter \subseteq [line : Line \cup {NoLine}, from : MaybeTime, to : MaybeTime]
  /\ {PageSize, DayLength, WeekLength} \subseteq Nat \ {0} /\ FirstWeekday \in Nat

\* A response body, being bytes, lists finitely many alerts.
ASSUME BodyAssumption ==
  \A b \in Body : IsFiniteSet({e \in Entity : Feed[b].alerts[e] # Missing})

VARIABLES
  network, \* the current import's routes, stops and route_stations
  ids,   \* ids[n]: the source and entity of the alert with id n
  tx,    \* the read transaction between its two queries, or NoTx
  walk   \* the client's walk through the pages of the historical list

readVars == <<alerts, applied, feeds, network, ids, tx, walk>>

NoTx == [op |-> "none"]

NoWalk == [state |-> "none"]

\* The rows the queries read.
Database == [alerts |-> alerts, ids |-> ids, network |-> network]

Row(db, id) == db.alerts[db.ids[id][1]][db.ids[id][2]]

-----------------------------------------------------------------------------
(* The queries, over the database db.                                      *)

\* alert.is_present AND NOT revision.is_deleted.
IsLive(a) == a.is_present /\ ~ IsDeleted(CurrentRevision(a))

\* alert_revision_lines joins a revision's identifiers with the network.
LineContents(net, line) == {c \in Content : line \in Impact[net][c]}

\* The conditions of listHistoricalAlerts: line_id stands for station_id,
\* cause and effect too.  A revision without periods counts while observed.
Matches(net, v, filter) ==
  /\ filter.line # NoLine => v.content \in LineContents(net, filter.line)
  /\ \/ /\ Period[v.content] = {}
        /\ filter.from # NoTime /\ v.closed_at # NoTime => v.closed_at > filter.from
        /\ filter.to # NoTime => v.first_seen_at < filter.to
     \/ \E p \in Period[v.content] :
          /\ filter.from # NoTime /\ p[2] # NoTime => p[2] > filter.from
          /\ filter.to # NoTime /\ p[1] # NoTime => p[1] < filter.to

\* The last of some revisions, ORDER BY first_seen_at DESC, revision_number DESC.
LastOf(a, numbers) == CHOOSE n \in numbers : \A m \in numbers \ {n} : Precedes(a, m, n)

Selectable(net, a, filter) ==
  {n \in Numbers(a) : ~ IsDeleted(a.revisions[n]) /\ Matches(net, a.revisions[n], filter)}

\* Mutant: the current revision is the one listed.
ListedRevisionCurrent(net, a, filter) == a.current

\* The LATERAL subquery.
ListedRevision(net, a, filter) == LastOf(a, Selectable(net, a, filter))

Historical(db, filter) ==
  {id \in DOMAIN db.ids :
     ~ IsLive(Row(db, id)) /\ Selectable(db.network, Row(db, id), filter) # {}}

SortKey(a) == IF a.is_present THEN CurrentRevision(a).first_seen_at ELSE a.closed_at

\* ORDER BY: the alerts listed before id.
ListedBefore(db, filter, id) ==
  {j \in Historical(db, filter) :
     \/ SortKey(Row(db, j)) > SortKey(Row(db, id))
     \/ SortKey(Row(db, j)) = SortKey(Row(db, id)) /\ j > id}

HistoricalOrder(db, filter) ==
  LET listed == Historical(db, filter)
  IN  [n \in 1..Cardinality(listed) |->
         CHOOSE id \in listed : Cardinality(ListedBefore(db, filter, id)) = n - 1]

\* Mutant: the first page is page 0.
OffsetFromZero(page) == page * PageSize

Offset(page) == (page - 1) * PageSize

\* LIMIT and OFFSET.
HistoricalPage(db, filter, page) ==
  LET list == HistoricalOrder(db, filter)
  IN  SubSeq(list, Offset(page) + 1, Min({Offset(page) + PageSize, Len(list)}))

TotalPages(total) == (total + PageSize - 1) \div PageSize

ActiveAt(v, now) ==
  \/ Period[v.content] = {}
  \/ \E p \in Period[v.content] :
       (p[1] = NoTime \/ p[1] <= now) /\ (p[2] = NoTime \/ p[2] > now)

UpcomingAt(v, now) ==
  ~ ActiveAt(v, now) /\ \E p \in Period[v.content] : p[1] # NoTime /\ p[1] > now

\* queryImpactAlerts: the alerts a line page shows.
LineAlerts(db, line) ==
  {id \in DOMAIN db.ids :
     /\ IsLive(Row(db, id))
     /\ CurrentRevision(Row(db, id)).content \in LineContents(db.network, line)}

\* queryLines with statusCountsSQL.
LineCounts(db, line, now) ==
  LET Shows(id) == CurrentRevision(Row(db, id))
  IN  [present |-> Cardinality(LineAlerts(db, line)),
       current |-> Cardinality({id \in LineAlerts(db, line) : ActiveAt(Shows(id), now)}),
       upcoming |-> Cardinality({id \in LineAlerts(db, line) : UpcomingAt(Shows(id), now)})]

\* GetAlert, its first query.
AlertSummary(db, id) ==
  LET row == Row(db, id)
      v   == CurrentRevision(row)
  IN  [status |-> IF IsLive(row) THEN "present" ELSE "historical",
       closed_at |-> IF IsDeleted(v) THEN v.first_seen_at ELSE row.closed_at,
       revision_count |-> Len(row.revisions)]

\* loadAlertRevisions with LIMIT 1, GetAlert's second.
LatestRevision(db, id) == LastOf(Row(db, id), Numbers(Row(db, id)))

-----------------------------------------------------------------------------
(* Read transactions.                                                      *)

FirstQuery(op, arg, db) ==
  CASE op = "alert" -> AlertSummary(db, arg)
    [] op = "line" -> LineCounts(db, arg[1], arg[2])
    [] op = "page" -> Cardinality(Historical(db, arg[1]))

SecondQuery(op, arg, db) ==
  CASE op = "alert" -> LatestRevision(db, arg)
    [] op = "line" -> LineAlerts(db, arg[1])
    [] op = "page" -> HistoricalPage(db, arg[1], arg[2])

\* readTx: REPEATABLE READ takes its snapshot with the first query.
Begin(op, arg) ==
  /\ tx = NoTx
  /\ tx' = [op |-> op, arg |-> arg, snapshot |-> Database,
            first |-> FirstQuery(op, arg, Database)]

\* Mutant: READ COMMITTED, every query sees what is committed by then.
ViewCommitted == Database

\* What the queries after the first one see.
View == tx.snapshot

Answer == SecondQuery(tx.op, tx.arg, View)

Unread == UNCHANGED <<alerts, applied, feeds, network, ids>>

\* GetAlert.
ReadAlert(id) == walk.state = "none" /\ Begin("alert", id) /\ Unread /\ UNCHANGED walk

\* GetLine.
ReadLine(line, now) ==
  walk.state = "none" /\ Begin("line", <<line, now>>) /\ Unread /\ UNCHANGED walk

Finish ==
  /\ tx.op \in {"alert", "line"}
  /\ tx' = NoTx
  /\ Unread /\ UNCHANGED walk

-----------------------------------------------------------------------------
(* A client goes through all pages of the historical list, as             *)
(* handleAlerts serves them, while feeds are applied and networks are      *)
(* imported.  stayed: the alerts listed in the same place in time all      *)
(* along; left, came: some alert left the list, or came into it or to its  *)
(* front, meanwhile.                                                       *)

StartWalk(filter) ==
  /\ walk.state = "none"
  /\ Begin("page", <<filter, 1>>)
  /\ walk' = [state |-> "walking", filter |-> filter, page |-> 1, seen |-> <<>>,
              stayed |-> Historical(Database, filter), left |-> FALSE, came |-> FALSE]
  /\ Unread

NextPage ==
  /\ walk.state = "walking"
  /\ Begin("page", <<walk.filter, walk.page>>)
  /\ Unread /\ UNCHANGED walk

\* The page arrives; total_pages in it says whether there is another.
FinishPage ==
  /\ tx.op = "page"
  /\ walk' = [walk EXCEPT !.seen = @ \o Answer, !.page = @ + 1,
                          !.state = IF walk.page < TotalPages(tx.first) THEN @ ELSE "done"]
  /\ tx' = NoTx
  /\ Unread

\* What a feed or an import does to the list being walked.
Follow(w, old, new) ==
  LET before == Historical(old, w.filter)
      after  == Historical(new, w.filter)
      moved  == {id \in before \cap after : SortKey(Row(old, id)) # SortKey(Row(new, id))}
  IN  [w EXCEPT !.stayed = (@ \cap after) \ moved,
                !.left = @ \/ before \ after # {},
                !.came = @ \/ (after \ before) \cup moved # {}]

\* The alerts that feed f adds, in the order of the feed.
NewIds(f) ==
  SetToSeqs({<<f.source, e>> : e \in {e \in Entity : ~ Known(f.source, e) /\ Known(f.source, e)'}})

FeedArrives(f) ==
  /\ ApplyFeed(f)
  /\ \E new \in NewIds(f) : ids' = ids \o new
  /\ UNCHANGED <<network, tx>>
  /\ walk' = IF walk.state = "walking" THEN Follow(walk, Database, Database') ELSE walk

\* CompleteImport commits the tables of network n, all at once (GTFSImport).
ImportArrives(n) ==
  /\ n > network /\ network' = n
  /\ UNCHANGED <<alerts, applied, feeds, ids, tx>>
  /\ walk' = IF walk.state = "walking" THEN Follow(walk, Database, Database') ELSE walk

-----------------------------------------------------------------------------

InitReads ==
  /\ InitEpisodes /\ ids = <<>> /\ tx = NoTx /\ walk = NoWalk
  /\ network \in Network /\ \A n \in Network : network <= n

NextReads ==
  \/ \E f \in AppliedRun : FeedArrives(f)
  \/ \E n \in Network : ImportArrives(n)
  \/ \E id \in DOMAIN ids : ReadAlert(id)
  \/ \E line \in Line, now \in Time : ReadLine(line, now)
  \/ Finish
  \/ \E filter \in Filter : StartWalk(filter)
  \/ NextPage
  \/ FinishPage

ReadsSpec == InitReads /\ [][NextReads]_readVars

-----------------------------------------------------------------------------
(* Line analytics: the series of one line over [from, to).                 *)

\* date_trunc in UTC.
DayOf(t) == t \div DayLength

DateTrunc(interval, t) ==
  IF interval = "day" THEN DayOf(t) * DayLength
  ELSE LET IsMonday(day) == (FirstWeekday + day - 1) % WeekLength = 0
       IN  DayLength * Max({day \in (DayOf(t) - WeekLength)..DayOf(t) : IsMonday(day)})

Step(interval) == IF interval = "day" THEN DayLength ELSE WeekLength * DayLength

\* Mutant: a bucket starts at to as well.
AnalyticsBucketsTo(interval, from, to) ==
  LET start == DateTrunc(interval, from)
  IN  {b \in start..to : (b - start) % Step(interval) = 0}

\* analyticsBuckets: from the start of from's day, back to its Monday, on
\* while before to.
AnalyticsBuckets(interval, from, to) ==
  LET day     == DayOf(from)
      weekday == (FirstWeekday + day) % WeekLength
      back    == IF interval = "week" THEN (weekday + WeekLength - 1) % WeekLength ELSE 0
      start   == (day - back) * DayLength
  IN  {b \in start..(to - 1) : (b - start) % Step(interval) = 0}

\* generate_series in queryLineAnalytics.
GenerateSeries(interval, from, to) ==
  LET start == DateTrunc(interval, from)
  IN  {b \in start..DateTrunc(interval, to - 1) : (b - start) % Step(interval) = 0}

\* associated and categorized: every episode with a revision that is not
\* deleted and of the line in the current network, by the first such revision.
Categorized(s, line) ==
  LET OfLine(a, ep) == {n \in ep : /\ ~ IsDeleted(a.revisions[n])
                                   /\ a.revisions[n].content \in LineContents(network, line)}
      First(a, ep) == CHOOSE n \in OfLine(a, ep) :
                        \A m \in OfLine(a, ep) \ {n} : Precedes(a, n, m)
  IN  UNION {LET row == alerts[s][e]
             IN  {<<e, First(row, ep), row.revisions[First(row, ep)].first_seen_at>> :
                    ep \in {p \in Episodes(row) : OfLine(row, p) # {}}} :
               e \in {e \in Entity : Known(s, e)}}

\* Those seen in [from, to).
Within(counted, from, to) == {c \in counted : c[3] >= from /\ c[3] < to}

\* The points of a series, one per bucket.
Series(counted, interval, buckets) ==
  [b \in buckets |-> Cardinality({c \in counted : DateTrunc(interval, c[3]) = b})]

-----------------------------------------------------------------------------
(* Properties.                                                             *)

(***************************************************************************)
(* A response is of one moment: the count of a line's alerts is the number *)
(* of alerts shown with it, the total of a page fits its rows, and an      *)
(* alert's status, closing time and number of revisions are those of the   *)
(* latest revision shown, whatever feeds and imports commit between the    *)
(* queries (readTx).                                                       *)
(***************************************************************************)
Coherent ==
  CASE tx.op = "alert" ->
         LET latest == Row(View, tx.arg).revisions[Answer]
         IN  /\ Answer = tx.first.revision_count
             /\ tx.first.status = "present" <=> tx.first.closed_at = NoTime
             /\ tx.first.status = "present" <=> ~ IsDeleted(latest) /\ latest.closed_at = NoTime
    [] tx.op = "line" ->
         /\ tx.first.present = Cardinality(Answer)
         /\ tx.first.current + tx.first.upcoming <= tx.first.present
    [] tx.op = "page" ->
         Len(Answer) = Max({0, Min({PageSize, tx.first - Offset(tx.arg[2])})})
    [] tx.op = "none" -> TRUE

(***************************************************************************)
(* Walking the historical list while feeds and imports arrive misses an    *)
(* alert that stayed in its place only if some alert left the list, and    *)
(* shows it twice only if one came in or moved.  Imports let alerts in and *)
(* out anywhere, but an alert already listed moves to the front only,      *)
(* because observations are applied in order (listHistoricalAlerts, the    *)
(* stale check of CompleteAlertRun).                                       *)
(***************************************************************************)
WalkMissesOnlyLeavers ==
  walk.state = "done" =>
    \A id \in walk.stayed :
      LET times == Cardinality({n \in DOMAIN walk.seen : walk.seen[n] = id})
      IN  /\ ~ walk.left => times >= 1
          /\ ~ walk.came => times <= 1

(***************************************************************************)
(* What the historical list shows of an alert is what the last feed that   *)
(* showed it live said, also after changes and deletion notices that share *)
(* an observation time (the LATERAL subquery of listHistoricalAlerts).     *)
(***************************************************************************)
HistoricalShowsLastLive ==
  LET all == [line |-> NoLine, from |-> NoTime, to |-> NoTime]
  IN  \A id \in Historical(Database, all) :
        LET s == ids[id][1]
            e == ids[id][2]
            last == Max({i \in 1..Len(feeds[s]) : Live(s, e, i)})
            shown == ListedRevision(network, alerts[s][e], all)
        IN  alerts[s][e].revisions[shown].content = Says(s, e, last)

(***************************************************************************)
(* The two ways to compute a line's series agree, buckets made in Go for   *)
(* the list of lines and by generate_series for one line, and no counted   *)
(* episode falls between the buckets: the points add up to the episodes in *)
(* [from, to), which the breakdowns count.                                 *)
(***************************************************************************)
SeriesAddUp ==
  \A s \in Source, line \in Line :
    LET categorized == Categorized(s, line)
    IN  \A from \in Time, to \in Time, interval \in {"day", "week"} :
          from < to =>
            LET counted == Within(categorized, from, to)
                list    == Series(counted, interval, AnalyticsBuckets(interval, from, to))
            IN  /\ list = Series(counted, interval, GenerateSeries(interval, from, to))
                /\ MapThenSumSet(LAMBDA b : list[b], DOMAIN list) = Cardinality(counted)

(***************************************************************************)
(* Only the line list rewrites published counts: an episode that is newly  *)
(* counted for a line, or no longer counted, was not first seen before any *)
(* feed already applied, so the counts up to the newest feed are changed   *)
(* by no later one, however late a worker delivers what it fetched.  The   *)
(* exception is an import that changes which contents concern the line     *)
(* (analyticsMetricLimitations: "Older alerts use the current line list"). *)
(***************************************************************************)
PastChangesOnlyWithLines ==
  [][\A s \in Source, line \in Line :
       LET before == Categorized(s, line)
           after  == Categorized(s, line)'
       IN  /\ <<alerts, network>>' # <<alerts, network>>
           /\ LineContents(network', line) = LineContents(network, line)
           => \A c \in SymDiff(before, after), f \in AppliedTo(s) :
                c[3] >= ObservedAt(f)]_readVars

=============================================================================

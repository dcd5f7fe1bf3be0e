-------------------------- MODULE IngestionStatus ---------------------------
(***************************************************************************)
(* GetStatus (internal/database/status.go): what the status endpoint says  *)
(* about both ingestion tables.  The runs that fill the tables are reduced *)
(* to what status reads of them: when they started, when the transaction   *)
(* that ended them began (now() in PostgreSQL is the start of the          *)
(* transaction, before it waits for the advisory lock), when it committed  *)
(* and which verdict it recorded.  One clock is the database's and the     *)
(* API's; retrieved_at is by the workers' clocks.                          *)
(***************************************************************************)
EXTENDS Integers, FiniteSets

CONSTANTS
  Run,                 \* ids of rows, in either table
  MaxRuns,             \* bound of the attempts in both tables together
  MaxClock,            \* bound of the clock
  Response,            \* fetched: its feed timestamp or Last-Modified time, and
                       \* retrieved_at against the completing transaction's
                       \* start: fetched earlier, or by a clock ahead
  DataMaxAge,          \* AlertDataMaxAge, GTFSDataMaxAge, by table
  CheckMaxAge,         \* AlertCheckMaxAge, GTFSCheckMaxAge
  RunMaxDuration,      \* AlertRunMaxDuration, GTFSRunMaxDuration
  FutureTolerance,
  RecentFailureLimit,  \* 1 to 20 after GetStatus has clamped it
  NoTime, NoRun        \* null

Table == {"alerts", "gtfs"}

ASSUME StatusAssumption ==
  /\ Run \subseteq Nat \ {0} /\ NoRun \notin Run /\ MaxRuns \in Nat
  /\ Response \subseteq [offset : Int, stamp : Nat \cup {NoTime}]
  /\ MaxClock \in Nat /\ NoTime \notin Int
  /\ {DataMaxAge, CheckMaxAge, RunMaxDuration} \subseteq [Table -> Nat]
  /\ FutureTolerance \in Nat /\ RecentFailureLimit \in 1..20

VARIABLES
  clock,   \* now() and query.Now
  rows,    \* rows[t][r]: the row of run r, as far as status reads it
  ending,  \* ending[t][r]: the transaction about to end run r
  ended    \* ended[t][r]: when that transaction committed (history)

statusVars == <<clock, rows, ending, ended>>

NoRow ==
  [status |-> "absent", skip_code |-> "none", started_at |-> NoTime,
   completed_at |-> NoTime, retrieved_at |-> NoTime, stamp |-> NoTime,
   is_current |-> FALSE]

NotEnding == [kind |-> "none", began |-> NoTime]

StatusInit ==
  /\ clock = 0
  /\ rows = [t \in Table |-> [r \in Run |-> NoRow]]
  /\ ending = [t \in Table |-> [r \in Run |-> NotEnding]]
  /\ ended = [t \in Table |-> [r \in Run |-> NoTime]]

-----------------------------------------------------------------------------
(* Rows in the orders the queries use.                                     *)

With(t, status) == {r \in Run : rows[t][r].status = status}

\* ORDER BY key DESC, id DESC LIMIT 1 over the rows in S.
Latest(t, S, key) ==
  IF S = {} THEN NoRun
  ELSE CHOOSE r \in S : \A q \in S :
         \/ rows[t][q][key] < rows[t][r][key]
         \/ rows[t][q][key] = rows[t][r][key] /\ q <= r

\* COALESCE(feed_timestamp, retrieved_at) and its GTFS counterpart.
DataAsOf(row) == IF row.stamp = NoTime THEN row.retrieved_at ELSE row.stamp

\* The applied alert feed with the latest observation, then retrieval, then id.
NewestApplied ==
  LET S == With("alerts", "succeeded")
      top == {r \in S : \A q \in S : DataAsOf(rows["alerts"][q]) <= DataAsOf(rows["alerts"][r])}
  IN  Latest("alerts", top, "retrieved_at")

CurrentImport ==
  LET S == {r \in With("gtfs", "succeeded") : rows["gtfs"][r].is_current}
  IN  IF S = {} THEN NoRun ELSE CHOOSE r \in S : TRUE

Applied(t) == IF t = "alerts" THEN NewestApplied ELSE CurrentImport

-----------------------------------------------------------------------------
(* The runs.                                                               *)

Tick ==
  /\ clock < MaxClock
  /\ clock' = clock + 1
  /\ UNCHANGED <<rows, ending, ended>>

StartRun(t, r) ==
  /\ rows[t][r].status = "absent"
  /\ Cardinality({p \in Table \X Run : rows[p[1]][p[2]].status # "absent"}) < MaxRuns
  /\ \A q \in Run : q < r => rows[t][q].status # "absent"
  /\ rows' = [rows EXCEPT ![t][r] = [@ EXCEPT !.status = "running", !.started_at = clock]]
  /\ UNCHANGED <<clock, ending, ended>>

\* The worker has fetched, archived and decoded, and its transaction begins;
\* it may have to wait for others before it decides.
BeginComplete(t, r) ==
  /\ rows[t][r].status = "running" /\ ending[t][r] = NotEnding
  /\ ending' = [ending EXCEPT ![t][r] = [kind |-> "complete", began |-> clock]]
  /\ UNCHANGED <<clock, rows, ended>>

\* fail(): directly, or after the completing transaction was rolled back.
BeginFail(t, r) ==
  /\ rows[t][r].status = "running" /\ ending[t][r].kind # "fail"
  /\ ending' = [ending EXCEPT ![t][r] = [kind |-> "fail", began |-> clock]]
  /\ UNCHANGED <<clock, rows, ended>>

\* What a completing transaction brings along.
Fetched(began, d) == [retrieved_at |-> began + d.offset, stamp |-> d.stamp]

\* What a failing one fetched is recorded too, but status does not read it.
Nothing == [retrieved_at |-> NoTime, stamp |-> NoTime]

\* The verdicts CompleteAlertRun and CompleteImport can reach for e against
\* the applied row c.  An import's request time also counts; status does not
\* read it, so it is left open.
Verdicts(t, e, c) ==
  IF c = NoRun THEN {"succeeded"}
  ELSE LET cur == rows[t][c]
           older == IF t = "alerts"
                      THEN \/ DataAsOf(e) < DataAsOf(cur)
                           \/ DataAsOf(e) = DataAsOf(cur) /\ e.retrieved_at < cur.retrieved_at
                      ELSE e.stamp # NoTime /\ cur.stamp # NoTime /\ e.stamp < cur.stamp
           open == t = "gtfs" /\ (e.stamp = NoTime \/ cur.stamp = NoTime \/ e.stamp = cur.stamp)
       IN  IF older THEN {"stale"}
           ELSE {"succeeded", "duplicate"} \cup (IF open THEN {"stale"} ELSE {})

EndRow(t, r, status, code, e) ==
  LET installs == t = "gtfs" /\ status = "succeeded"
  IN  /\ rows' = [rows EXCEPT ![t] = [q \in Run |->
            IF q = r
              THEN [rows[t][q] EXCEPT
                      !.status = status, !.skip_code = code,
                      !.completed_at = ending[t][r].began,
                      !.retrieved_at = e.retrieved_at, !.stamp = e.stamp,
                      !.is_current = installs]
              ELSE [rows[t][q] EXCEPT !.is_current = @ /\ ~ installs]]]
      /\ ending' = [ending EXCEPT ![t][r] = NotEnding]
      /\ ended' = [ended EXCEPT ![t][r] = clock]

\* The advisory lock makes deciding and committing one step.  What the worker
\* had fetched before the transaction began is chosen here, where it first
\* matters.
CommitComplete(t, r) ==
  /\ ending[t][r].kind = "complete"
  /\ \E d \in Response :
       LET e == Fetched(ending[t][r].began, d)
       IN  \E v \in Verdicts(t, e, Applied(t)) :
             IF v = "succeeded" THEN EndRow(t, r, "succeeded", "none", e)
                                ELSE EndRow(t, r, "skipped", v, e)
  /\ UNCHANGED clock

CommitFail(t, r) ==
  /\ ending[t][r].kind = "fail"
  /\ EndRow(t, r, "failed", "none", Nothing)
  /\ UNCHANGED clock

StatusNext ==
  \/ Tick
  \/ \E t \in Table, r \in Run :
       StartRun(t, r) \/ BeginComplete(t, r) \/ BeginFail(t, r)
       \/ CommitComplete(t, r) \/ CommitFail(t, r)

StatusSpec == StatusInit /\ [][StatusNext]_statusVars

-----------------------------------------------------------------------------
(* GetStatus, on the snapshot its repeatable-read transaction sees.        *)

\* Data age against its limit.  Applied rows always have a time.
Freshness(t) ==
  IF Applied(t) = NoRun THEN "unavailable"
  ELSE LET age == clock - DataAsOf(rows[t][Applied(t)])
       IN  IF age < 0 - FutureTolerance THEN "unknown"
           ELSE IF age > DataMaxAge[t] THEN "stale" ELSE "fresh"

DataReasons(t) ==
  CASE Freshness(t) = "unavailable" -> {"data_unavailable"}
    [] Freshness(t) = "unknown" -> {"data_timestamp_in_future"}
    [] Freshness(t) = "stale" -> {"data_stale"}
    [] Freshness(t) = "fresh" -> {}

\* Mutant: only applied runs are accepted checks.
AcceptedAppliedOnly(t) == With(t, "succeeded")

\* Mutant: a skipped run is a check, whatever the reason.
AcceptedAnySkip(t) == With(t, "succeeded") \cup With(t, "skipped")

Accepted(t) ==
  With(t, "succeeded") \cup {r \in With(t, "skipped") : rows[t][r].skip_code = "duplicate"}

\* The check's time is the latest retrieval of an accepted run ...
CheckReasons(t) ==
  LET retrieved == {rows[t][r].retrieved_at : r \in Accepted(t)}
      checkAt == CHOOSE m \in retrieved : \A n \in retrieved : n <= m
  IN  IF Accepted(t) = {} THEN {"check_unavailable"}
      ELSE IF clock - checkAt < 0 - FutureTolerance THEN {"check_timestamp_in_future"}
      ELSE IF clock - checkAt > CheckMaxAge[t] THEN {"check_stale"}
      ELSE {}

\* ... while operationally the accepted run completed last counts.
AcceptedCheck(t) == Latest(t, Accepted(t), "completed_at")

AttemptAfterAccepted(t, time, r) ==
  LET check == AcceptedCheck(t)
  IN  \/ check = NoRun
      \/ time > rows[t][check].completed_at
      \/ time = rows[t][check].completed_at /\ r > check

LatestAttempt(t) ==
  Latest(t, {r \in Run : rows[t][r].status # "absent"}, "started_at")

Overdue(t, r) ==
  rows[t][r].status = "running" /\ clock - rows[t][r].started_at > RunMaxDuration[t]

\* Mutant: the failures of the latest starts.
RecentFailuresByStart(t) ==
  LET Before(q, r) == q > r
  IN  {r \in With(t, "failed") :
         Cardinality({q \in With(t, "failed") : Before(q, r)}) < RecentFailureLimit}

\* ORDER BY completed_at DESC, id DESC LIMIT RecentFailureLimit
RecentFailures(t) ==
  LET Before(q, r) ==
        \/ rows[t][q].completed_at > rows[t][r].completed_at
        \/ rows[t][q].completed_at = rows[t][r].completed_at /\ q > r
  IN  {r \in With(t, "failed") :
         Cardinality({q \in With(t, "failed") : Before(q, r)}) < RecentFailureLimit}

\* A failed latest attempt counts even when the limit hides it.
OperationalReasons(t) ==
  LET r == LatestAttempt(t)
      latest == {q \in With(t, "failed") : q = r}
  IN  (IF r # NoRun /\ Overdue(t, r) /\ AttemptAfterAccepted(t, rows[t][r].started_at, r)
         THEN {"run_overdue"} ELSE {})
      \cup
      (IF \E f \in latest \cup RecentFailures(t) :
            AttemptAfterAccepted(t, rows[t][f].completed_at, f)
         THEN {"recent_failure"} ELSE {})

Reasons(t) == DataReasons(t) \cup CheckReasons(t) \cup OperationalReasons(t)

OverallStatus ==
  IF \E t \in Table : Freshness(t) = "unavailable" THEN "unavailable"
  ELSE IF \E t \in Table : Freshness(t) # "fresh" \/ Reasons(t) # {} THEN "degraded"
  ELSE "ok"

-----------------------------------------------------------------------------

(***************************************************************************)
(* Trouble shows.  A failure recorded after every acceptance had committed *)
(* is reported however many failures and skips follow; so is the newest    *)
(* run when it hangs and nothing was accepted since it started.            *)
(***************************************************************************)
TroubleShown ==
  \A t \in Table :
    /\ \A f \in With(t, "failed") :
         (\A a \in Accepted(t) : ended[t][a] < rows[t][f].completed_at)
         => "recent_failure" \in Reasons(t)
    /\ \A r \in Run :
         /\ Overdue(t, r)
         /\ \A q \in Run : q > r => rows[t][q].status = "absent"
         /\ \A a \in Accepted(t) : ended[t][a] < rows[t][r].started_at
         => "run_overdue" \in Reasons(t)

(***************************************************************************)
(* An accepted check clears earlier trouble, a duplicate one too: once its *)
(* transaction began after every failure was recorded and every run still  *)
(* running had started, neither is reported any more.                      *)
(***************************************************************************)
AcceptanceClears ==
  \A t \in Table :
    LET reasons == Reasons(t)
    IN  \A r \in Run :
          LET at == rows[t][r].completed_at
              good == rows[t][r].status = "succeeded" \/ rows[t][r].skip_code = "duplicate"
          IN  /\ good /\ (\A f \in With(t, "failed") : ended[t][f] < at)
                => "recent_failure" \notin reasons
              /\ good /\ (\A q \in With(t, "running") : rows[t][q].started_at < at)
                => "run_overdue" \notin reasons

(***************************************************************************)
(* "ok" is never told of a pipeline that stopped: in both tables a run was *)
(* accepted within the check's age limit, give or take the workers' clock  *)
(* error, whatever was skipped as stale or failed since.                   *)
(***************************************************************************)
OkIsRecent ==
  OverallStatus = "ok" =>
    \A t \in Table : \E r \in Run, d \in Response :
      /\ rows[t][r].status = "succeeded" \/ rows[t][r].skip_code = "duplicate"
      /\ ended[t][r] + d.offset >= clock - CheckMaxAge[t]

=============================================================================

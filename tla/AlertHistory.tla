---------------------------- MODULE AlertHistory ----------------------------
(***************************************************************************)
(* What service-alert ingestion promises, with the workers, transactions   *)
(* and failures left out: accepted observations of a source are applied    *)
(* whole, one at a time, and never after a newer one; anything else leaves *)
(* the alerts alone.  AlertIngest implements this module.                  *)
(***************************************************************************)
EXTENDS AlertRevisions

VARIABLES
  alerts,   \* alerts[s][e]: the service_alerts row of entity e from source s
  applied   \* the runs whose feed was applied (alert_reconciliation_applied)

vars == <<alerts, applied>>

AppliedRun == [run : Run, source : Source, body : Body, retrieved_at : Time]

ObservedAt(f) == ObservationTime(f.body, f.retrieved_at)

Listed(f) == Feed[f.body].alerts

AppliedTo(s) == {f \in applied : f.source = s}

\* The order in which observations supersede each other: by observation
\* time, and by retrieval time when those are equal.
Newer(f, g) ==
  \/ ObservedAt(f) > ObservedAt(g)
  \/ ObservedAt(f) = ObservedAt(g) /\ f.retrieved_at > g.retrieved_at

-----------------------------------------------------------------------------

Init ==
  /\ alerts = [s \in Source |-> [e \in Entity |-> NoAlert]]
  /\ applied = {}

\* Mutant: no stale check.
ApplyAnyOrder(f) ==
  /\ \A g \in applied : g.run # f.run
  /\ Persistable(f.body)
  /\ alerts' = [alerts EXCEPT ![f.source] =
                  ReconcileFeed(@, Listed(f), f.run, ObservedAt(f))]
  /\ applied' = applied \cup {f}

\* CompleteAlertRun commits run r with alert_reconciliation_applied.
Apply(f) ==
  /\ \A g \in applied : g.run # f.run
  /\ Persistable(f.body)
  /\ \A g \in AppliedTo(f.source) : ~ Newer(g, f)
  /\ alerts' = [alerts EXCEPT ![f.source] =
                  ReconcileFeed(@, Listed(f), f.run, ObservedAt(f))]
  /\ applied' = applied \cup {f}

Next == \E f \in AppliedRun : Apply(f)

Spec == Init /\ [][Next]_vars

-----------------------------------------------------------------------------

TypeOK ==
  /\ alerts \in [Source -> [Entity -> Alert \cup {NoAlert}]]
  /\ applied \in SUBSET AppliedRun

Known(s, e) == alerts[s][e] # NoAlert

(***************************************************************************)
(* The alert row and its revisions agree: the current revision is the last *)
(* one, it is open exactly while the alert is present, every earlier one   *)
(* is closed, and the row's first and last sighting and closing time are   *)
(* those of its revisions (reconcileAlert, closeMissingAlerts).            *)
(***************************************************************************)
LifecycleOK(a) ==
  /\ a.current = Len(a.revisions) /\ a.current > 0
  /\ a.is_present <=> a.closed_at = NoTime
  /\ a.closed_at = CurrentRevision(a).closed_at
  /\ a.last_seen_at = CurrentRevision(a).last_seen_at
  /\ a.first_seen_at = a.revisions[1].first_seen_at
  /\ \A n \in 1..Len(a.revisions) :
       /\ n < Len(a.revisions) => a.revisions[n].closed_at # NoTime
       /\ (a.revisions[n].closed_at = NoTime) <=> (a.revisions[n].closed_run_id = NoRun)

RowsAgree == \A s \in Source, e \in Entity : Known(s, e) => LifecycleOK(alerts[s][e])

(***************************************************************************)
(* Revision windows never run backwards and never overlap, whatever the    *)
(* order in which runs were fetched and committed: each revision is first  *)
(* seen, last seen and closed in that order, and none opens before its     *)
(* predecessor closed.  The stale check of CompleteAlertRun is what makes  *)
(* this so.                                                                *)
(***************************************************************************)
WindowsOK(a) ==
  \A n \in 1..Len(a.revisions) :
    LET v == a.revisions[n] IN
      /\ v.first_seen_at <= v.last_seen_at
      /\ v.closed_at # NoTime => v.last_seen_at <= v.closed_at
      /\ n < Len(a.revisions) => v.closed_at <= a.revisions[n + 1].first_seen_at

WindowsOrdered == \A s \in Source, e \in Entity : Known(s, e) => WindowsOK(alerts[s][e])

(***************************************************************************)
(* Every revision can be traced to the feeds that opened and closed it:    *)
(* the opening run was applied to the same source, was observed when the   *)
(* revision was first seen and lists the revision's content; the closing   *)
(* run was observed at the closing time and lists something else for the   *)
(* entity, or nothing.                                                     *)
(***************************************************************************)
OpenedBy(f, e, v) ==
  /\ f.run = v.opened_run_id /\ ObservedAt(f) = v.first_seen_at
  /\ Listed(f)[e] = v.content

ClosedBy(f, e, v) ==
  /\ f.run = v.closed_run_id /\ ObservedAt(f) = v.closed_at
  /\ Listed(f)[e] # v.content

LastSeenBy(f, e, a) ==
  /\ f.run = a.last_seen_run_id /\ ObservedAt(f) = a.last_seen_at
  /\ Listed(f)[e] = CurrentRevision(a).content

RowTraceable(A, e, a) ==
  /\ \A n \in 1..Len(a.revisions) :
       /\ \E f \in A : OpenedBy(f, e, a.revisions[n])
       /\ a.revisions[n].closed_at # NoTime => \E f \in A : ClosedBy(f, e, a.revisions[n])
  /\ \E f \in A : LastSeenBy(f, e, a)

Traceable ==
  \A s \in Source, e \in Entity :
    Known(s, e) => RowTraceable(AppliedTo(s), e, alerts[s][e])

(***************************************************************************)
(* What the alerts of a source say is what the newest applied feed says:   *)
(* some applied run that no other applied run supersedes lists exactly the *)
(* contents shown (CompleteAlertRun: stale check, reconciliation and       *)
(* closing of missing alerts together).                                    *)
(***************************************************************************)
Newest(s) == {f \in AppliedTo(s) : \A g \in AppliedTo(s) : ~ Newer(g, f)}

ShowsNewestFeed ==
  \A s \in Source :
    IF AppliedTo(s) = {} THEN Shown(alerts[s]) = [e \in Entity |-> Missing]
    ELSE \E f \in Newest(s) : Shown(alerts[s]) = Listed(f)

(***************************************************************************)
(* The stored history replays the feeds.  A content listed by an applied   *)
(* feed is covered by a revision with that content that was first seen no  *)
(* later and last seen no earlier than the observation; and an observation *)
(* strictly inside a revision's window listed that revision's content.     *)
(***************************************************************************)
Covered(a, c, t) ==
  \E n \in 1..Len(a.revisions) :
    /\ a.revisions[n].content = c
    /\ a.revisions[n].first_seen_at <= t /\ t <= a.revisions[n].last_seen_at

RowReplays(A, e, a) ==
  \A f \in A :
    /\ Listed(f)[e] # Missing => a # NoAlert /\ Covered(a, Listed(f)[e], ObservedAt(f))
    /\ a # NoAlert => \A n \in 1..Len(a.revisions) :
         /\ a.revisions[n].first_seen_at < ObservedAt(f)
         /\ ObservedAt(f) < a.revisions[n].last_seen_at
         => Listed(f)[e] = a.revisions[n].content

HistoryReplays ==
  \A s \in Source, e \in Entity : RowReplays(AppliedTo(s), e, alerts[s][e])

(***************************************************************************)
(* The inductive invariant behind the five above.  While an alert is       *)
(* present, every observation after its current revision was first seen    *)
(* listed that content: this is what lets reconcileAlert extend            *)
(* last_seen_at over earlier observations it never compared.               *)
(***************************************************************************)
OpenReplays(A, e, a) ==
  a.is_present => \A f \in A :
    CurrentRevision(a).first_seen_at < ObservedAt(f) => Listed(f)[e] = CurrentRevision(a).content

RowOK(A, e, a) ==
  /\ LifecycleOK(a) /\ WindowsOK(a)
  /\ RowTraceable(A, e, a) /\ RowReplays(A, e, a) /\ OpenReplays(A, e, a)

\* An entity without a row was never listed.
NeverListed(A, e) == \A f \in A : Listed(f)[e] = Missing

EntityOK(A, e, a) == IF a = NoAlert THEN NeverListed(A, e) ELSE RowOK(A, e, a)

Inv ==
  /\ TypeOK
  /\ \A s \in Source, e \in Entity : EntityOK(AppliedTo(s), e, alerts[s][e])
  /\ ShowsNewestFeed

-----------------------------------------------------------------------------

\* A row that exists is never removed, and its first sighting is fixed.
AppendOnly(a, b) ==
  /\ b.first_seen_at = a.first_seen_at
  /\ b.first_seen_run_id = a.first_seen_run_id
  /\ Len(b.revisions) >= Len(a.revisions)
  /\ \A n \in 1..Len(a.revisions) :
       /\ b.revisions[n].content = a.revisions[n].content
       /\ b.revisions[n].first_seen_at = a.revisions[n].first_seen_at
       /\ a.revisions[n].closed_at # NoTime => b.revisions[n] = a.revisions[n]

(***************************************************************************)
(* No step rewrites the past: an alert keeps its identity and first        *)
(* sighting, a revision keeps its content and opening, and a closed        *)
(* revision never changes again, not even when the alert returns.          *)
(***************************************************************************)
HistoryAppendOnly ==
  [][\A s \in Source, e \in Entity :
       Known(s, e) => Known(s, e)' /\ AppendOnly(alerts[s][e], alerts'[s][e])]_vars

=============================================================================

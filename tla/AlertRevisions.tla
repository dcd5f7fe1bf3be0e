--------------------------- MODULE AlertRevisions ---------------------------
(***************************************************************************)
(* Reconciliation of one decoded service-alert feed with the stored alert  *)
(* lifecycle (internal/database/alerts.go): the rows of service_alerts     *)
(* with their service_alert_revisions, as values, and what reconcileAlert  *)
(* and closeMissingAlerts make of them.  No variables: AlertHistory and    *)
(* AlertIngest both build their steps from these operators.                *)
(***************************************************************************)
EXTENDS Naturals, Sequences

CONSTANTS
  Run,      \* ids of ingestion_runs rows; bounds the number of attempts
  Source,   \* configured feed URLs (source_url)
  Entity,   \* GTFS-Realtime entity ids (source_entity_id)
  Content,  \* alert contents up to the equality HashAlert decides
  Time,     \* instants: feed timestamps and local retrieval times
  Body,     \* response bodies; two bodies have the same SHA-256 iff equal
  Feed,     \* Feed[b]: what decoding and persisting body b meets
  Missing,  \* "the feed does not list this entity"
  NoTime,   \* a NULL timestamp
  NoRun,    \* a NULL run id
  NoAlert   \* the entity has no service_alerts row

(***************************************************************************)
(* decodes:     DecodeAlerts accepts the bytes                             *)
(* full:        incrementality FULL_DATASET and timestamps within int64,   *)
(*              both tested before the transaction begins                  *)
(* persistable: no duplicate or empty entity id, no unknown protobuf       *)
(*              field, no alert timestamp beyond int64                     *)
(***************************************************************************)
FeedSummary ==
  [decodes : BOOLEAN, full : BOOLEAN, persistable : BOOLEAN,
   timestamp : Time \cup {NoTime}, alerts : [Entity -> Content \cup {Missing}]]

ASSUME RunAssumption == NoRun \notin Run

ASSUME TimeAssumption == Time \subseteq Nat /\ NoTime \notin Time

ASSUME FeedAssumption == Feed \in [Body -> FeedSummary] /\ Missing \notin Content

Revision ==
  [content : Content, first_seen_at : Time, last_seen_at : Time,
   closed_at : Time \cup {NoTime}, opened_run_id : Run,
   closed_run_id : Run \cup {NoRun}]

\* revisions[n] is the row with revision_number n; current is
\* current_revision_id, kept as that number.
Alert ==
  [first_seen_at : Time, last_seen_at : Time, first_seen_run_id : Run,
   last_seen_run_id : Run, is_present : BOOLEAN, closed_at : Time \cup {NoTime},
   current : Nat, revisions : Seq(Revision)]

ASSUME AlertAssumption == NoAlert \notin Alert

-----------------------------------------------------------------------------

\* When the feed was observed: its own timestamp, or else the retrieval time.
ObservationTime(b, retrievedAt) ==
  IF Feed[b].timestamp = NoTime THEN retrievedAt ELSE Feed[b].timestamp

Persistable(b) == Feed[b].decodes /\ Feed[b].full /\ Feed[b].persistable

CurrentRevision(a) == a.revisions[a.current]

NewRevision(c, run, observedAt) ==
  [content |-> c, first_seen_at |-> observedAt, last_seen_at |-> observedAt,
   closed_at |-> NoTime, opened_run_id |-> run, closed_run_id |-> NoRun]

NewAlert(c, run, observedAt) ==
  [first_seen_at |-> observedAt, last_seen_at |-> observedAt,
   first_seen_run_id |-> run, last_seen_run_id |-> run,
   is_present |-> TRUE, closed_at |-> NoTime,
   current |-> 1, revisions |-> <<NewRevision(c, run, observedAt)>>]

Touch(v, observedAt) == [v EXCEPT !.last_seen_at = observedAt]

Close(v, run, observedAt) == [v EXCEPT !.closed_at = observedAt, !.closed_run_id = run]

ReplaceCurrent(a, v) == [a.revisions EXCEPT ![a.current] = v]

\* Mutants: the run is not updated; the revision is not.
SeenAgainKeepsRun(a, run, observedAt) ==
  [a EXCEPT !.last_seen_at = observedAt, !.closed_at = NoTime,
            !.revisions = ReplaceCurrent(a, Touch(CurrentRevision(a), observedAt))]

SeenAgainRowOnly(a, run, observedAt) ==
  [a EXCEPT !.last_seen_at = observedAt, !.last_seen_run_id = run, !.closed_at = NoTime]

\* The alert is present with an unchanged hash.
SeenAgain(a, run, observedAt) ==
  [a EXCEPT !.last_seen_at = observedAt, !.last_seen_run_id = run, !.closed_at = NoTime,
            !.revisions = ReplaceCurrent(a, Touch(CurrentRevision(a), observedAt))]

CloseRevision(a, run, observedAt) ==
  [a EXCEPT !.revisions = ReplaceCurrent(a, Close(CurrentRevision(a), run, observedAt))]

\* Mutant: a returning alert stays absent.
AddRevisionStaysAbsent(a, c, run, observedAt) ==
  [a EXCEPT !.last_seen_at = observedAt, !.last_seen_run_id = run, !.closed_at = NoTime,
            !.current = Len(a.revisions) + 1,
            !.revisions = Append(a.revisions, NewRevision(c, run, observedAt))]

\* The alert changed, or returned after being absent.
AddRevision(a, c, run, observedAt) ==
  [a EXCEPT !.last_seen_at = observedAt, !.last_seen_run_id = run,
            !.is_present = TRUE, !.closed_at = NoTime,
            !.current = Len(a.revisions) + 1,
            !.revisions = Append(a.revisions, NewRevision(c, run, observedAt))]

\* The UPDATE of a changed alert's current revision: WHERE closed_at IS NULL.
CloseIfOpen(a, run, observedAt) ==
  IF CurrentRevision(a).closed_at = NoTime THEN CloseRevision(a, run, observedAt) ELSE a

\* Mutant: an alert that returns unchanged reopens its old revision.
ReconcileAlertReopens(a, c, run, observedAt) ==
  CASE a = NoAlert ->
         NewAlert(c, run, observedAt)
    [] a # NoAlert /\ CurrentRevision(a).content = c ->
         [SeenAgain(a, run, observedAt) EXCEPT !.is_present = TRUE,
            !.revisions[a.current].closed_at = NoTime,
            !.revisions[a.current].closed_run_id = NoRun]
    [] a # NoAlert /\ CurrentRevision(a).content # c ->
         AddRevision(CloseIfOpen(a, run, observedAt), c, run, observedAt)

ReconcileAlert(a, c, run, observedAt) ==
  CASE a = NoAlert ->
         NewAlert(c, run, observedAt)
    [] a # NoAlert /\ a.is_present /\ CurrentRevision(a).content = c ->
         SeenAgain(a, run, observedAt)
    [] a # NoAlert /\ a.is_present /\ CurrentRevision(a).content # c ->
         AddRevision(CloseIfOpen(a, run, observedAt), c, run, observedAt)
    [] a # NoAlert /\ ~ a.is_present ->
         AddRevision(a, c, run, observedAt)

CloseMissingAlert(a, run, observedAt) ==
  IF a # NoAlert /\ a.is_present
    THEN [CloseRevision(a, run, observedAt) EXCEPT
            !.is_present = FALSE, !.closed_at = observedAt]
    ELSE a

\* The reconciliation loop of CompleteAlertRun and closeMissingAlerts over
\* one source's alerts.  Entity ids in a persistable feed are distinct, so
\* the loop's order does not matter.
ReconcileFeed(table, listed, run, observedAt) ==
  [e \in Entity |->
     IF listed[e] = Missing
       THEN CloseMissingAlert(table[e], run, observedAt)
       ELSE ReconcileAlert(table[e], listed[e], run, observedAt)]

\* What one source's alerts currently say, entity by entity: the content of
\* the current revision of a present alert.
Shown(table) ==
  [e \in Entity |-> IF table[e] # NoAlert /\ table[e].is_present
                      THEN CurrentRevision(table[e]).content ELSE Missing]

=============================================================================

---------------------------- MODULE AlertIngest -----------------------------
(***************************************************************************)
(* Service-alert ingestion as it runs: worker processes executing          *)
(* AlertService.Run (internal/ingest/alerts.go) against the archive store  *)
(* and PostgreSQL (internal/database/alerts.go, archive.go).  A worker has *)
(* one run, so run ids name workers too.  COMMIT is split into its request,*)
(* the server's decision and the client's learning of it, because the code *)
(* treats a lost reply specially: the client can be resolving, or failing  *)
(* the run, while the server has yet to decide.                            *)
(***************************************************************************)
EXTENDS AlertRevisions

CONSTANTS
  Faulty,   \* the runs that may meet faults (Run: all of them); a bound
  NoFetch,  \* no response was obtained
  NoKey     \* a NULL raw_archive_id

ASSUME RunIdAssumption == Run \subseteq Nat /\ Faulty \subseteq Run

Fetch == [body : Body, retrieved_at : Time]

\* ServiceAlertsKey: the object key spells out the retrieval time, to the
\* nanosecond, and the body's hash, so a key determines both.
Key == Fetch

ASSUME NullAssumption == NoFetch \notin Fetch /\ NoKey \notin Key

VARIABLES
  run,          \* run[r]: the ingestion_runs row with id r
  alerts,       \* service_alerts and service_alert_revisions, by source
  snapshots,    \* snapshots[r]: service_alert_snapshots rows of run r
  rawArchives,  \* object keys with a raw_archives row
  objects,      \* object keys present in the archive store
  lock,         \* holder of the reconciliation advisory lock, or NoRun
  txn,          \* txn[r]: the transaction of r's worker on the server
  worker        \* worker[r]: the process executing run r

dbVars == <<run, alerts, snapshots, rawArchives>>
vars == <<run, alerts, snapshots, rawArchives, objects, lock, txn, worker>>

Terminal == {"succeeded", "skipped", "failed"}
Stage == {"fetch", "archive", "decode", "persist"}
Verdict == {"apply", "stale", "duplicate"}

Row ==
  [status : {"absent", "running"} \cup Terminal, source_url : Source,
   archive_status : {"pending", "archived", "failed"},
   raw_archive : Key \cup {NoKey}, fetch : Fetch \cup {NoFetch},
   skip_code : {"none", "stale", "duplicate"}, failure_stage : Stage \cup {"none"}]

\* archive: recordArchive's COMMIT was sent.  reconcile: CompleteAlertRun
\* holds the advisory lock.  commit: its COMMIT was sent.
Transaction ==
  [state : {"none", "archive", "reconcile", "commit"}, verdict : Verdict \cup {"none"}]

\* The last line are the ways AlertService.Run ends: without error; with the
\* failure recorded; with the failure not recorded; with an unknown commit
\* outcome; or not at all, because the process died.
WorkerState ==
  [pc : {"none", "fetch", "archive", "record", "recording", "resolve_archive",
         "decode", "complete", "reconcile", "completing", "resolve_commit", "fail",
         "ok", "failed", "unrecorded", "unknown", "dead"},
   fetch : Fetch \cup {NoFetch}, stage : Stage \cup {"none"}]

Ended == {"ok", "failed", "unrecorded", "unknown", "dead"}

TypeOK ==
  /\ run \in [Run -> Row]
  /\ alerts \in [Source -> [Entity -> Alert \cup {NoAlert}]]
  /\ snapshots \in [Run -> [Entity -> Content \cup {Missing}]]
  /\ rawArchives \in SUBSET Key
  /\ objects \in SUBSET Key
  /\ lock \in Run \cup {NoRun}
  /\ txn \in [Run -> Transaction]
  /\ worker \in [Run -> WorkerState]

NoRow(s) ==
  [status |-> "absent", source_url |-> s, archive_status |-> "pending",
   raw_archive |-> NoKey, fetch |-> NoFetch, skip_code |-> "none",
   failure_stage |-> "none"]

Idle == [state |-> "none", verdict |-> "none"]

Init ==
  /\ run \in [Run -> {NoRow(s) : s \in Source}]
  /\ alerts = [s \in Source |-> [e \in Entity |-> NoAlert]]
  /\ snapshots = [r \in Run |-> [e \in Entity |-> Missing]]
  /\ rawArchives = {}
  /\ objects = {}
  /\ lock = NoRun
  /\ txn = [r \in Run |-> Idle]
  /\ worker = [r \in Run |-> [pc |-> "none", fetch |-> NoFetch, stage |-> "none"]]

-----------------------------------------------------------------------------
(* The worker: AlertService.Run.                                           *)

At(r, label) == worker[r].pc = label

Goto(r, label) == worker' = [worker EXCEPT ![r].pc = label]

\* return s.fail(...): the failure stage is fixed, the row not yet written.
GotoFail(r, stage) == worker' = [worker EXCEPT ![r].pc = "fail", ![r].stage = stage]

\* A refused INSERT leaves nothing behind, so only its success is a step.
\* The identity column hands out ids in increasing order.
StartAlertRun(r) ==
  /\ run[r].status = "absent"
  /\ \A q \in Run : q < r => run[q].status # "absent"
  /\ run' = [run EXCEPT ![r].status = "running"]
  /\ Goto(r, "fetch")
  /\ UNCHANGED <<alerts, snapshots, rawArchives, objects, lock, txn>>

FetchAlerts(r) ==
  /\ At(r, "fetch")
  /\ \E f \in Fetch : worker' = [worker EXCEPT ![r].pc = "archive", ![r].fetch = f]
  /\ UNCHANGED <<dbVars, objects, lock, txn>>

FetchFails(r) ==
  /\ At(r, "fetch")
  /\ GotoFail(r, "fetch")
  /\ UNCHANGED <<dbVars, objects, lock, txn>>

ArchivePut(r) ==
  /\ At(r, "archive")
  /\ objects' = objects \cup {worker[r].fetch}
  /\ Goto(r, "record")
  /\ UNCHANGED <<dbVars, lock, txn>>

\* Mutant: the error of Put is ignored.
ArchivePutErrorIgnored(r) ==
  /\ At(r, "archive")
  /\ Goto(r, "record")
  /\ UNCHANGED <<dbVars, objects, lock, txn>>

\* Put can fail before or after the object became visible.
ArchivePutFails(r) ==
  /\ At(r, "archive")
  /\ objects' \in {objects, objects \cup {worker[r].fetch}}
  /\ GotoFail(r, "archive")
  /\ UNCHANGED <<dbVars, lock, txn>>

\* recordArchive up to its COMMIT: insert or find the raw_archives row,
\* link it to a run that is running and pending.
RecordAlertArchive(r) ==
  /\ At(r, "record")
  /\ run[r].status = "running" /\ run[r].archive_status = "pending"
  /\ txn' = [txn EXCEPT ![r].state = "archive"]
  /\ Goto(r, "recording")
  /\ UNCHANGED <<dbVars, objects, lock>>

RecordArchiveFails(r) ==
  /\ At(r, "record")
  /\ GotoFail(r, "archive")
  /\ UNCHANGED <<dbVars, objects, lock, txn>>

ArchiveLinked(r) ==
  run[r].archive_status = "archived" /\ run[r].raw_archive = worker[r].fetch

RecordArchiveReturns(r) ==
  /\ At(r, "recording")
  /\ txn[r].state = "none" /\ ArchiveLinked(r)
  /\ Goto(r, "decode")
  /\ UNCHANGED <<dbVars, objects, lock, txn>>

\* Commit returned an error: the transaction may be decided or not.
RecordArchiveCommitLost(r) ==
  /\ r \in Faulty /\ At(r, "recording")
  /\ Goto(r, "resolve_archive")
  /\ UNCHANGED <<dbVars, objects, lock, txn>>

ResolveArchiveCommit(r) ==
  /\ At(r, "resolve_archive")
  /\ \/ ArchiveLinked(r) /\ Goto(r, "decode")
     \/ ~ ArchiveLinked(r) /\ GotoFail(r, "archive")
  /\ UNCHANGED <<dbVars, objects, lock, txn>>

\* The resolving query fails too: commitOutcomeUnknown, the run is left alone.
ResolveFails(r) ==
  /\ At(r, "resolve_archive") \/ At(r, "resolve_commit")
  /\ Goto(r, "unknown")
  /\ UNCHANGED <<dbVars, objects, lock, txn>>

\* Mutant: a decoding error is returned without fail().
DecodeUnrecorded(r) ==
  /\ At(r, "decode")
  /\ \/ Feed[worker[r].fetch.body].decodes /\ Goto(r, "complete")
     \/ ~ Feed[worker[r].fetch.body].decodes /\ Goto(r, "failed")
  /\ UNCHANGED <<dbVars, objects, lock, txn>>

Decode(r) ==
  /\ At(r, "decode")
  /\ \/ Feed[worker[r].fetch.body].decodes /\ Goto(r, "complete")
     \/ ~ Feed[worker[r].fetch.body].decodes /\ GotoFail(r, "decode")
  /\ UNCHANGED <<dbVars, objects, lock, txn>>

-----------------------------------------------------------------------------
(* CompleteAlertRun.                                                       *)

Observed(f) == ObservationTime(f.body, f.retrieved_at)

NewerFetch(f, g) ==
  \/ Observed(f) > Observed(g)
  \/ Observed(f) = Observed(g) /\ f.retrieved_at > g.retrieved_at

\* latestAppliedFeed: ORDER BY observation, retrieved_at, id, all DESC.
SortsBefore(p, q) ==
  \/ NewerFetch(run[p].fetch, run[q].fetch)
  \/ ~ NewerFetch(run[q].fetch, run[p].fetch) /\ p > q

AppliedIds(s) == {q \in Run : run[q].status = "succeeded" /\ run[q].source_url = s}

\* Mutant: skipped runs count as applied.
LatestTerminal(r) ==
  LET rows == {q \in Run \ {r} : /\ run[q].status \in {"succeeded", "skipped"}
                                 /\ run[q].source_url = run[r].source_url}
  IN  {q \in rows : \A p \in rows \ {q} : SortsBefore(q, p)}

\* LIMIT 1: at most one run.
LatestApplied(r) ==
  LET rows == AppliedIds(run[r].source_url) \ {r}
  IN  {q \in rows : \A p \in rows \ {q} : SortsBefore(q, p)}

Stale(r) == \E q \in LatestApplied(r) : NewerFetch(run[q].fetch, worker[r].fetch)

\* Mutant: compared with every applied feed, not the latest.
DuplicateOfAny(r) ==
  /\ Feed[worker[r].fetch.body].timestamp # NoTime
  /\ \E q \in AppliedIds(run[r].source_url) : run[q].fetch.body = worker[r].fetch.body

Duplicate(r) ==
  /\ Feed[worker[r].fetch.body].timestamp # NoTime
  /\ \E q \in LatestApplied(r) : run[q].fetch.body = worker[r].fetch.body

DecideVerdict(r) ==
  IF Stale(r) THEN "stale" ELSE IF Duplicate(r) THEN "duplicate" ELSE "apply"

\* Mutant: no advisory lock.
CompleteBeginUnlocked(r) ==
  /\ At(r, "complete")
  /\ Feed[worker[r].fetch.body].full
  /\ run[r].status = "running" /\ run[r].archive_status = "archived"
  /\ lock' = r
  /\ txn' = [txn EXCEPT ![r] = [state |-> "reconcile", verdict |-> DecideVerdict(r)]]
  /\ Goto(r, "reconcile")
  /\ UNCHANGED <<dbVars, objects>>

\* Begin, take the advisory lock, load the run and the latest applied feed.
CompleteBegin(r) ==
  /\ At(r, "complete")
  /\ Feed[worker[r].fetch.body].full
  /\ lock = NoRun
  /\ run[r].status = "running" /\ run[r].archive_status = "archived"
  /\ lock' = r
  /\ txn' = [txn EXCEPT ![r] = [state |-> "reconcile", verdict |-> DecideVerdict(r)]]
  /\ Goto(r, "reconcile")
  /\ UNCHANGED <<dbVars, objects>>

\* The feed is not FULL_DATASET, or a row of it is refused.
CompleteRejects(r) ==
  /\ \/ At(r, "complete") /\ ~ Feed[worker[r].fetch.body].full
     \/ /\ At(r, "reconcile") /\ txn[r].verdict = "apply"
        /\ ~ Feed[worker[r].fetch.body].persistable
  /\ GotoFail(r, "persist")
  /\ UNCHANGED <<dbVars, objects, lock, txn>>

\* A lost connection, a cancelled wait for the lock.  The end of an open
\* transaction is left to the server.
CompleteFails(r) ==
  /\ At(r, "complete") \/ At(r, "reconcile")
  /\ GotoFail(r, "persist")
  /\ UNCHANGED <<dbVars, objects, lock, txn>>

\* All statements succeeded and COMMIT is sent.
CompleteCommit(r) ==
  /\ At(r, "reconcile")
  /\ txn[r].verdict = "apply" => Feed[worker[r].fetch.body].persistable
  /\ txn' = [txn EXCEPT ![r].state = "commit"]
  /\ Goto(r, "completing")
  /\ UNCHANGED <<dbVars, objects, lock>>

ExpectedStatus(r) == IF txn[r].verdict = "apply" THEN "succeeded" ELSE "skipped"

CompleteReturns(r) ==
  /\ At(r, "completing")
  /\ txn[r].state = "none" /\ run[r].status = ExpectedStatus(r)
  /\ Goto(r, "ok")
  /\ UNCHANGED <<dbVars, objects, lock, txn>>

CompleteCommitLost(r) ==
  /\ r \in Faulty /\ At(r, "completing")
  /\ Goto(r, "resolve_commit")
  /\ UNCHANGED <<dbVars, objects, lock, txn>>

\* Mutant: a readable status is taken for success.
ResolveCommitOptimistic(r) ==
  /\ At(r, "resolve_commit")
  /\ Goto(r, "ok")
  /\ UNCHANGED <<dbVars, objects, lock, txn>>

\* commitRun reads the status back; an undecided commit still shows running.
ResolveCommit(r) ==
  /\ At(r, "resolve_commit")
  /\ \/ run[r].status = ExpectedStatus(r) /\ Goto(r, "ok")
     \/ run[r].status # ExpectedStatus(r) /\ GotoFail(r, "persist")
  /\ UNCHANGED <<dbVars, objects, lock, txn>>

-----------------------------------------------------------------------------
(* fail() and the end of a process.                                        *)

\* A transaction that updated the run's row and is not decided yet.
RowLocked(r) == txn[r].state \in {"archive", "commit"}

FailedRow(r) ==
  [run[r] EXCEPT !.status = "failed", !.fetch = worker[r].fetch,
                 !.failure_stage = worker[r].stage,
                 !.archive_status = IF @ = "archived" THEN "archived" ELSE "failed"]

\* The UPDATE waits for the row lock and then re-evaluates its WHERE.
FailAlertRun(r) ==
  /\ At(r, "fail")
  /\ ~ RowLocked(r)
  /\ IF run[r].status = "running"
       THEN run' = [run EXCEPT ![r] = FailedRow(r)] /\ Goto(r, "failed")
       ELSE UNCHANGED run /\ Goto(r, "unrecorded")
  /\ UNCHANGED <<alerts, snapshots, rawArchives, objects, lock, txn>>

\* The five-second limit passes, or the reply to a done UPDATE is lost.
FailUnrecorded(r) ==
  /\ At(r, "fail")
  /\ \/ UNCHANGED run
     \/ /\ ~ RowLocked(r) /\ run[r].status = "running"
        /\ run' = [run EXCEPT ![r] = FailedRow(r)]
  /\ Goto(r, "unrecorded")
  /\ UNCHANGED <<alerts, snapshots, rawArchives, objects, lock, txn>>

Crash(r) ==
  /\ worker[r].pc \notin Ended \cup {"none"}
  /\ Goto(r, "dead")
  /\ UNCHANGED <<dbVars, objects, lock, txn>>

-----------------------------------------------------------------------------
(* PostgreSQL: the transactions' ends.                                     *)

ServerCommitArchive(r) ==
  /\ txn[r].state = "archive"
  /\ run' = [run EXCEPT ![r].archive_status = "archived",
                        ![r].raw_archive = worker[r].fetch]
  /\ rawArchives' = rawArchives \cup {worker[r].fetch}
  /\ txn' = [txn EXCEPT ![r] = Idle]
  /\ UNCHANGED <<alerts, snapshots, objects, lock, worker>>

\* The applied case: snapshots, reconciliation and closing, with the row.
ReconcileWrites(r) ==
  LET f == worker[r].fetch
      s == run[r].source_url
  IN  /\ alerts' = [alerts EXCEPT ![s] =
                      ReconcileFeed(@, Feed[f.body].alerts, r, Observed(f))]
      /\ snapshots' = [snapshots EXCEPT ![r] = Feed[f.body].alerts]
      /\ run' = [run EXCEPT ![r].status = "succeeded", ![r].fetch = f]

\* updateSkippedRun.
SkipWrites(r) ==
  /\ run' = [run EXCEPT ![r].status = "skipped", ![r].fetch = worker[r].fetch,
                        ![r].skip_code = txn[r].verdict]
  /\ UNCHANGED <<alerts, snapshots>>

ServerCommitRun(r) ==
  /\ txn[r].state = "commit"
  /\ IF txn[r].verdict = "apply" THEN ReconcileWrites(r) ELSE SkipWrites(r)
  /\ lock' = NoRun
  /\ txn' = [txn EXCEPT ![r].state = "none"]
  /\ UNCHANGED <<rawArchives, objects, worker>>

\* Rollback, by the client's request, by an error, or when the server finds
\* the connection gone.
ServerAbort(r) ==
  /\ \/ RowLocked(r) /\ r \in Faulty
     \/ txn[r].state = "reconcile" /\ ~ At(r, "reconcile")
  /\ lock' = IF lock = r THEN NoRun ELSE lock
  /\ txn' = [txn EXCEPT ![r].state = "none"]
  /\ UNCHANGED <<dbVars, objects, worker>>

-----------------------------------------------------------------------------

\* What a worker does when nothing strikes it; a call to Commit returns.
WorkerStep(r) ==
  \/ FetchAlerts(r) \/ ArchivePut(r)
  \/ RecordAlertArchive(r) \/ RecordArchiveReturns(r)
  \/ RecordArchiveCommitLost(r) \/ ResolveArchiveCommit(r)
  \/ Decode(r)
  \/ CompleteBegin(r) \/ CompleteRejects(r) \/ CompleteCommit(r)
  \/ CompleteReturns(r) \/ CompleteCommitLost(r) \/ ResolveCommit(r)
  \/ FailAlertRun(r)

WorkerFault(r) ==
  /\ r \in Faulty
  /\ \/ FetchFails(r) \/ ArchivePutFails(r) \/ RecordArchiveFails(r)
     \/ CompleteFails(r) \/ ResolveFails(r) \/ FailUnrecorded(r) \/ Crash(r)

Server(r) == ServerCommitArchive(r) \/ ServerCommitRun(r) \/ ServerAbort(r)

Next == \E r \in Run : StartAlertRun(r) \/ WorkerStep(r) \/ WorkerFault(r) \/ Server(r)

Spec == Init /\ [][Next]_vars

\* A live worker keeps executing and PostgreSQL decides every transaction,
\* that of a vanished client included.  Nothing is assumed of the feed, of
\* new runs being started, or of the absence of faults.
Fairness == \A r \in Run : WF_vars(WorkerStep(r)) /\ WF_vars(Server(r))

FairSpec == Spec /\ Fairness

-----------------------------------------------------------------------------
(* Implementation of AlertHistory.                                         *)

AppliedRuns ==
  {[run |-> r, source |-> run[r].source_url, body |-> run[r].fetch.body,
    retrieved_at |-> run[r].fetch.retrieved_at] :
      r \in {q \in Run : run[q].status = "succeeded"}}

History == INSTANCE AlertHistory WITH applied <- AppliedRuns

(***************************************************************************)
(* Concurrent workers, lost commits and crashes never show: the alerts     *)
(* change only by whole feeds applied in observation order, each by the    *)
(* run that ends up succeeded.                                             *)
(***************************************************************************)
ImplementsHistory == History!Spec

-----------------------------------------------------------------------------
(* Properties.                                                             *)

(***************************************************************************)
(* A run that used its feed has it archived: a succeeded or skipped run    *)
(* links a raw_archives row whose object is in the store and holds the     *)
(* very bytes the run decoded, and no row links an archive that does not   *)
(* exist, however Put, the archive commit and fail() were interrupted      *)
(* (README: raw files are kept so that every import can be traced back).   *)
(***************************************************************************)
ArchivedBeforeUse ==
  \A r \in Run :
    /\ run[r].status \in {"succeeded", "skipped"} => run[r].raw_archive = run[r].fetch
    /\ run[r].archive_status = "archived" <=> run[r].raw_archive # NoKey
    /\ run[r].raw_archive # NoKey => run[r].raw_archive \in rawArchives \cap objects

(***************************************************************************)
(* What a worker reports is what the database holds, also after a commit   *)
(* whose reply was lost: no error means succeeded or skipped, a recorded   *)
(* failure means failed, and a run is succeeded or skipped only under a    *)
(* worker that sent the COMMIT and has not reported it failed.             *)
(***************************************************************************)
ReportMatchesRow ==
  \A r \in Run :
    /\ At(r, "ok") => run[r].status \in {"succeeded", "skipped"}
    /\ At(r, "failed") => run[r].status = "failed"
    /\ run[r].status \in {"succeeded", "skipped"} =>
         worker[r].pc \in {"completing", "resolve_commit", "ok", "unknown", "fail",
                          "unrecorded", "dead"}

(***************************************************************************)
(* A skip is justified by another run for good: a stale one by an applied  *)
(* run of the source that is strictly newer, a duplicate by an applied run *)
(* of the source with the same bytes.                                      *)
(***************************************************************************)
SkipJustified ==
  \A r \in Run : run[r].status = "skipped" =>
    \E q \in AppliedIds(run[r].source_url) :
      \/ run[r].skip_code = "stale" /\ NewerFetch(run[q].fetch, run[r].fetch)
      \/ run[r].skip_code = "duplicate" /\ run[q].fetch.body = run[r].fetch.body

(***************************************************************************)
(* Skipping a byte-identical feed loses nothing: when the run is skipped   *)
(* as a duplicate the alerts already show what its feed lists, provided    *)
(* the newest applied observation is unique (equal observation and         *)
(* retrieval times are ordered by run id, not by when they were applied).  *)
(***************************************************************************)
UniqueNewest(s) ==
  \E q \in AppliedIds(s) : \A p \in AppliedIds(s) \ {q} : NewerFetch(run[q].fetch, run[p].fetch)

DuplicateSkipLosesNothing ==
  [][\A r \in Run :
       /\ run[r].status = "running" /\ run'[r].skip_code = "duplicate"
       /\ UniqueNewest(run[r].source_url)
       => Shown(alerts[run[r].source_url]) = Feed[worker[r].fetch.body].alerts]_vars

(***************************************************************************)
(* Every run ends: it becomes succeeded, skipped or failed unless its      *)
(* process died, could not learn a commit's outcome or could not record    *)
(* its failure.                                                            *)
(***************************************************************************)
RunsSettle ==
  \A r \in Run : run[r].status = "running" ~>
    run[r].status \in Terminal \/ worker[r].pc \in {"dead", "unknown", "unrecorded"}

=============================================================================

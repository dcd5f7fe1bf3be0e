------------------------- MODULE AlertIngestProofs --------------------------
(***************************************************************************)
(* AlertIngest for any number of workers, sources, feeds and faults: what  *)
(* its runs check on small instances as invariants, that it implements     *)
(* AlertHistory, and what the theorems about AlertHistory therefore say of *)
(* the running system.                                                     *)
(***************************************************************************)
EXTENDS AlertIngest, TLAPS

-----------------------------------------------------------------------------
(* The inductive invariant.                                                *)

\* TypeOK without the alert rows, whose types follow from the refinement.
WorkTypeOK ==
  /\ run \in [Run -> Row]
  /\ snapshots \in [Run -> [Entity -> Content \cup {Missing}]]
  /\ rawArchives \in SUBSET Key
  /\ objects \in SUBSET Key
  /\ lock \in Run \cup {NoRun}
  /\ txn \in [Run -> Transaction]
  /\ worker \in [Run -> WorkerState]

\* The run's row links the archived bytes that its worker fetched.
Linked(r) ==
  /\ worker[r].fetch \in Fetch \cap rawArchives \cap objects
  /\ run[r].archive_status = "archived" /\ run[r].raw_archive = worker[r].fetch

\* The row and the archive.
RowOK(r) ==
  /\ run[r].archive_status # "archived" => run[r].raw_archive = NoKey
  /\ run[r].archive_status = "archived" => Linked(r)
  /\ run[r].status \in {"succeeded", "skipped"} =>
       Linked(r) /\ run[r].fetch = worker[r].fetch
  /\ run[r].status # "skipped" => run[r].skip_code = "none"

\* Where a worker can be, given its row, and what it has by then.
ProgressOK(r) ==
  /\ At(r, "none") <=> run[r].status = "absent"
  /\ worker[r].pc \in {"none", "fetch", "archive", "record"} =>
       run[r].archive_status = "pending" /\ txn[r].state = "none"
  /\ worker[r].pc \in {"archive", "record", "recording", "resolve_archive"} =>
       worker[r].fetch \in Fetch
  /\ worker[r].pc \in {"record", "recording", "resolve_archive"} => worker[r].fetch \in objects
  /\ worker[r].pc \in {"recording", "resolve_archive"} => txn[r].state \in {"none", "archive"}
  /\ worker[r].pc \in {"decode", "complete", "reconcile", "completing", "resolve_commit"} =>
       Linked(r)
  /\ worker[r].pc \in {"decode", "complete"} => txn[r].state = "none"
  /\ worker[r].pc \in {"complete", "reconcile"} => Feed[worker[r].fetch.body].decodes
  /\ worker[r].pc \in {"fetch", "archive", "record", "recording", "resolve_archive",
                       "decode", "complete", "reconcile"} => run[r].status = "running"
  /\ At(r, "reconcile") => txn[r].state = "reconcile" /\ Feed[worker[r].fetch.body].full
  /\ worker[r].pc \in {"completing", "resolve_commit"} => txn[r].state \in {"none", "commit"}

\* What the worker reports.
ReportOK(r) ==
  /\ At(r, "ok") => run[r].status \in {"succeeded", "skipped"}
  /\ At(r, "failed") <=> run[r].status = "failed" /\ ~ At(r, "unrecorded")
  /\ run[r].status \in {"succeeded", "skipped"} =>
       /\ txn[r].state = "none"
       /\ worker[r].pc \in {"completing", "resolve_commit", "ok", "unknown", "fail",
                            "unrecorded", "dead"}

\* Transactions on the server, which may outlive the call that began them.
TransactionOK(r) ==
  /\ lock = r <=> txn[r].state \in {"reconcile", "commit"}
  /\ txn[r].state = "archive" =>
       /\ run[r].status = "running" /\ run[r].archive_status = "pending"
       /\ worker[r].fetch \in Fetch \cap objects
       /\ worker[r].pc \in {"recording", "resolve_archive", "fail", "unrecorded",
                            "unknown", "dead"}
  /\ txn[r].state \in {"reconcile", "commit"} =>
       Linked(r) /\ txn[r].verdict # "none"
  /\ txn[r].state = "reconcile" =>
       worker[r].pc \in {"reconcile", "fail", "failed", "unrecorded", "dead"}
  /\ txn[r].state = "commit" =>
       /\ run[r].status = "running"
       /\ worker[r].pc \in {"completing", "resolve_commit", "fail", "unrecorded",
                            "unknown", "dead"}
       /\ txn[r].verdict = "apply" => Persistable(worker[r].fetch.body)

RunOK(r) == RowOK(r) /\ ProgressOK(r) /\ ReportOK(r) /\ TransactionOK(r)

\* A verdict reached under the advisory lock is still the right one.
VerdictOK ==
  \A r \in Run : txn[r].state \in {"reconcile", "commit"} => txn[r].verdict = DecideVerdict(r)

\* Some applied run sorts before all others: what ORDER BY ... LIMIT 1 returns.
LatestOK ==
  \A s \in Source : AppliedIds(s) # {} =>
    \E q \in AppliedIds(s) : \A p \in AppliedIds(s) \ {q} : SortsBefore(q, p)

IngestInv ==
  /\ WorkTypeOK
  /\ \A r \in Run : RunOK(r)
  /\ VerdictOK /\ LatestOK /\ SkipJustified

-----------------------------------------------------------------------------
(* One step of run r's worker or transaction.                              *)

\* Other runs keep their rows, workers, transactions and locks, and nothing
\* is ever removed from the archive.
OthersKept(r) ==
  /\ \A q \in Run \ {r} : /\ run'[q] = run[q] /\ worker'[q] = worker[q] /\ txn'[q] = txn[q]
                          /\ lock' = q <=> lock = q
  /\ objects \subseteq objects' /\ rawArchives \subseteq rawArchives'

\* No run becomes applied or skipped, no applied row changes, and the alerts
\* stay as they are.
NothingDecided(r) ==
  /\ alerts' = alerts
  /\ run'[r].source_url = run[r].source_url
  /\ \A v \in {"succeeded", "skipped"} : run'[r].status = v <=> run[r].status = v
  /\ run'[r].status \in {"succeeded", "skipped"} =>
       run'[r].fetch = run[r].fetch /\ run'[r].skip_code = run[r].skip_code

\* A transaction that holds the advisory lock held it before, with the same
\* verdict about the same response.
NothingJudged(r) ==
  txn'[r].state \in {"reconcile", "commit"} =>
    /\ txn[r].state \in {"reconcile", "commit"}
    /\ txn'[r].verdict = txn[r].verdict /\ worker'[r].fetch = worker[r].fetch

Quiet(r) == OthersKept(r) /\ NothingDecided(r) /\ NothingJudged(r)

Label ==
  {"none", "fetch", "archive", "record", "recording", "resolve_archive", "decode",
   "complete", "reconcile", "completing", "resolve_commit", "fail", "ok", "failed",
   "unrecorded", "unknown", "dead"}

\* Only the worker's pc, and its failure stage, change.
Moves(r, label) ==
  /\ UNCHANGED <<dbVars, objects, lock, txn>>
  /\ Goto(r, label) \/ \E stage \in Stage : label = "fail" /\ GotoFail(r, stage)

\* Goto changes one worker's pc and nothing else of any worker.
LEMMA GotoFacts ==
  ASSUME WorkTypeOK, NEW r \in Run, NEW label \in Label, Goto(r, label)
  PROVE  /\ worker' \in [Run -> WorkerState]
         /\ worker'[r].pc = label /\ worker'[r].fetch = worker[r].fetch
         /\ \A q \in Run \ {r} : worker'[q] = worker[q]
<1>1. worker[r] \in WorkerState /\ worker \in [Run -> WorkerState]
  BY DEF WorkTypeOK
<1>2. /\ [worker[r] EXCEPT !.pc = label] \in WorkerState
      /\ [worker[r] EXCEPT !.pc = label].pc = label
      /\ [worker[r] EXCEPT !.pc = label].fetch = worker[r].fetch
  BY <1>1 DEF WorkerState, Label
<1> QED BY <1>1, <1>2 DEF Goto

\* GotoFail changes one worker's pc and failure stage.
LEMMA GotoFailFacts ==
  ASSUME WorkTypeOK, NEW r \in Run, NEW stage \in Stage, GotoFail(r, stage)
  PROVE  /\ worker' \in [Run -> WorkerState]
         /\ worker'[r].pc = "fail" /\ worker'[r].fetch = worker[r].fetch
         /\ \A q \in Run \ {r} : worker'[q] = worker[q]
<1>1. worker[r] \in WorkerState /\ worker \in [Run -> WorkerState]
  BY DEF WorkTypeOK
<1> DEFINE w == [worker[r] EXCEPT !.pc = "fail", !.stage = stage]
<1>2. w \in WorkerState /\ w.pc = "fail" /\ w.fetch = worker[r].fetch
  BY <1>1 DEF WorkerState
<1>3. worker' = [worker EXCEPT ![r] = w]
  BY DEF GotoFail
<1> QED BY <1>1, <1>2, <1>3

\* A worker that only moves disturbs nobody, and nothing of its own but its pc.
LEMMA MoveFacts ==
  ASSUME WorkTypeOK, NEW r \in Run, NEW label \in Label, Moves(r, label)
  PROVE  /\ WorkTypeOK' /\ Quiet(r)
         /\ worker'[r].pc = label /\ worker'[r].fetch = worker[r].fetch
<1>1. /\ worker' \in [Run -> WorkerState]
      /\ worker'[r].pc = label /\ worker'[r].fetch = worker[r].fetch
      /\ \A q \in Run \ {r} : worker'[q] = worker[q]
  BY GotoFacts, GotoFailFacts DEF Moves
<1> QED
  BY <1>1 DEF Moves, dbVars, WorkTypeOK, Quiet, OthersKept, NothingDecided, NothingJudged

\* The actions that only move a worker.
Moving(r) ==
  \/ FetchFails(r) \/ RecordArchiveFails(r) \/ RecordArchiveReturns(r)
  \/ RecordArchiveCommitLost(r) \/ ResolveArchiveCommit(r) \/ ResolveFails(r)
  \/ Decode(r) \/ CompleteRejects(r) \/ CompleteFails(r) \/ CompleteReturns(r)
  \/ CompleteCommitLost(r) \/ ResolveCommit(r) \/ Crash(r)

\* A step that only moves the worker of r keeps r consistent: one step per action.
LEMMA MovingSteps ==
  ASSUME IngestInv, NEW r \in Run, Moving(r)
  PROVE  WorkTypeOK' /\ RunOK(r)' /\ Quiet(r)
<1>1. WorkTypeOK /\ RunOK(r)
  BY DEF IngestInv
<1> DEFINE Arrives(label) == Moves(r, label) /\ RunOK(r)'
<1> USE DEF At, Moves, dbVars, RunOK, RowOK, ProgressOK, ReportOK, TransactionOK, Linked
<1>2. ASSUME FetchFails(r) PROVE Arrives("fail")
  <2>1. Moves(r, "fail")
    BY <1>2 DEF FetchFails, Stage
  <2>2. worker'[r].pc = "fail" /\ worker'[r].fetch = worker[r].fetch
    BY <2>1, <1>1, MoveFacts DEF Label
  <2> QED BY <1>1, <1>2, <2>1, <2>2 DEF FetchFails
<1>3. ASSUME RecordArchiveFails(r) PROVE Arrives("fail")
  <2>1. Moves(r, "fail")
    BY <1>3 DEF RecordArchiveFails, Stage
  <2>2. worker'[r].pc = "fail" /\ worker'[r].fetch = worker[r].fetch
    BY <2>1, <1>1, MoveFacts DEF Label
  <2> QED BY <1>1, <1>3, <2>1, <2>2 DEF RecordArchiveFails
<1>4. ASSUME RecordArchiveReturns(r) PROVE Arrives("decode")
  <2>1. Moves(r, "decode")
    BY <1>4 DEF RecordArchiveReturns, Stage
  <2>2. worker'[r].pc = "decode" /\ worker'[r].fetch = worker[r].fetch
    BY <2>1, <1>1, MoveFacts DEF Label
  <2> QED BY <1>1, <1>4, <2>1, <2>2 DEF RecordArchiveReturns, ArchiveLinked
<1>5. ASSUME RecordArchiveCommitLost(r) PROVE Arrives("resolve_archive")
  <2>1. Moves(r, "resolve_archive")
    BY <1>5 DEF RecordArchiveCommitLost, Stage
  <2>2. worker'[r].pc = "resolve_archive" /\ worker'[r].fetch = worker[r].fetch
    BY <2>1, <1>1, MoveFacts DEF Label
  <2> QED BY <1>1, <1>5, <2>1, <2>2 DEF RecordArchiveCommitLost
<1>6. ASSUME ResolveArchiveCommit(r) PROVE Arrives("decode") \/ Arrives("fail")
  <2>1. (ArchiveLinked(r) /\ Moves(r, "decode")) \/ Moves(r, "fail")
    BY <1>6 DEF ResolveArchiveCommit, Stage
  <2>2. ASSUME ArchiveLinked(r), Moves(r, "decode") PROVE RunOK(r)'
    <3>1. worker'[r].pc = "decode" /\ worker'[r].fetch = worker[r].fetch
      BY <2>2, <1>1, MoveFacts DEF Label
    <3> QED BY <1>1, <1>6, <2>2, <3>1 DEF ResolveArchiveCommit, ArchiveLinked
  <2>3. ASSUME Moves(r, "fail") PROVE RunOK(r)'
    <3>1. worker'[r].pc = "fail" /\ worker'[r].fetch = worker[r].fetch
      BY <2>3, <1>1, MoveFacts DEF Label
    <3> QED BY <1>1, <1>6, <2>3, <3>1 DEF ResolveArchiveCommit
  <2> QED BY <2>1, <2>2, <2>3
<1>7. ASSUME ResolveFails(r) PROVE Arrives("unknown")
  <2>1. Moves(r, "unknown")
    BY <1>7 DEF ResolveFails, Stage
  <2>2. worker'[r].pc = "unknown" /\ worker'[r].fetch = worker[r].fetch
    BY <2>1, <1>1, MoveFacts DEF Label
  <2> QED BY <1>1, <1>7, <2>1, <2>2 DEF ResolveFails
<1>8. ASSUME Decode(r) PROVE Arrives("complete") \/ Arrives("fail")
  <2>1. (Feed[worker[r].fetch.body].decodes /\ Moves(r, "complete")) \/ Moves(r, "fail")
    BY <1>8 DEF Decode, Stage
  <2>2. ASSUME Feed[worker[r].fetch.body].decodes, Moves(r, "complete") PROVE RunOK(r)'
    <3>1. worker'[r].pc = "complete" /\ worker'[r].fetch = worker[r].fetch
      BY <2>2, <1>1, MoveFacts DEF Label
    <3> QED BY <1>1, <1>8, <2>2, <3>1 DEF Decode
  <2>3. ASSUME Moves(r, "fail") PROVE RunOK(r)'
    <3>1. worker'[r].pc = "fail" /\ worker'[r].fetch = worker[r].fetch
      BY <2>3, <1>1, MoveFacts DEF Label
    <3> QED BY <1>1, <1>8, <2>3, <3>1 DEF Decode
  <2> QED BY <2>1, <2>2, <2>3
<1>9. ASSUME CompleteRejects(r) PROVE Arrives("fail")
  <2>1. Moves(r, "fail")
    BY <1>9 DEF CompleteRejects, Stage
  <2>2. worker'[r].pc = "fail" /\ worker'[r].fetch = worker[r].fetch
    BY <2>1, <1>1, MoveFacts DEF Label
  <2> QED BY <1>1, <1>9, <2>1, <2>2 DEF CompleteRejects
<1>10. ASSUME CompleteFails(r) PROVE Arrives("fail")
  <2>1. Moves(r, "fail")
    BY <1>10 DEF CompleteFails, Stage
  <2>2. worker'[r].pc = "fail" /\ worker'[r].fetch = worker[r].fetch
    BY <2>1, <1>1, MoveFacts DEF Label
  <2> QED BY <1>1, <1>10, <2>1, <2>2 DEF CompleteFails
<1>11. ASSUME CompleteReturns(r) PROVE Arrives("ok")
  <2>1. Moves(r, "ok")
    BY <1>11 DEF CompleteReturns, Stage
  <2>2. worker'[r].pc = "ok" /\ worker'[r].fetch = worker[r].fetch
    BY <2>1, <1>1, MoveFacts DEF Label
  <2> QED BY <1>1, <1>11, <2>1, <2>2 DEF CompleteReturns, ExpectedStatus
<1>12. ASSUME CompleteCommitLost(r) PROVE Arrives("resolve_commit")
  <2>1. Moves(r, "resolve_commit")
    BY <1>12 DEF CompleteCommitLost, Stage
  <2>2. worker'[r].pc = "resolve_commit" /\ worker'[r].fetch = worker[r].fetch
    BY <2>1, <1>1, MoveFacts DEF Label
  <2> QED BY <1>1, <1>12, <2>1, <2>2 DEF CompleteCommitLost
<1>13. ASSUME ResolveCommit(r) PROVE Arrives("ok") \/ Arrives("fail")
  <2>1. (run[r].status = ExpectedStatus(r) /\ Moves(r, "ok")) \/ Moves(r, "fail")
    BY <1>13 DEF ResolveCommit, Stage
  <2>2. ASSUME run[r].status = ExpectedStatus(r), Moves(r, "ok") PROVE RunOK(r)'
    <3>1. worker'[r].pc = "ok" /\ worker'[r].fetch = worker[r].fetch
      BY <2>2, <1>1, MoveFacts DEF Label
    <3> QED BY <1>1, <1>13, <2>2, <3>1 DEF ResolveCommit, ExpectedStatus
  <2>3. ASSUME Moves(r, "fail") PROVE RunOK(r)'
    <3>1. worker'[r].pc = "fail" /\ worker'[r].fetch = worker[r].fetch
      BY <2>3, <1>1, MoveFacts DEF Label
    <3> QED BY <1>1, <1>13, <2>3, <3>1 DEF ResolveCommit
  <2> QED BY <2>1, <2>2, <2>3
<1>14. ASSUME Crash(r) PROVE Arrives("dead")
  <2>1. Moves(r, "dead")
    BY <1>14 DEF Crash, Stage
  <2>2. worker'[r].pc = "dead" /\ worker'[r].fetch = worker[r].fetch
    BY <2>1, <1>1, MoveFacts DEF Label
  <2> QED BY <1>1, <1>14, <2>1, <2>2 DEF Crash, Ended
<1>15. \E label \in Label : Arrives(label)
  BY <1>2, <1>3, <1>4, <1>5, <1>6, <1>7, <1>8, <1>9, <1>10, <1>11, <1>12, <1>13, <1>14
     DEF Moving, Label
<1> QED BY <1>1, <1>15, MoveFacts

-----------------------------------------------------------------------------
(* The actions that change more than a pc.                                 *)

\* StartAlertRun inserts the row as running and its worker begins.
LEMMA StartStep ==
  ASSUME IngestInv, NEW r \in Run, StartAlertRun(r)
  PROVE  WorkTypeOK' /\ RunOK(r)' /\ Quiet(r)
<1>1. WorkTypeOK /\ RunOK(r) /\ run[r] \in Row
  BY DEF IngestInv, WorkTypeOK
<1>2. /\ worker' \in [Run -> WorkerState]
      /\ worker'[r].pc = "fetch" /\ worker'[r].fetch = worker[r].fetch
      /\ \A q \in Run \ {r} : worker'[q] = worker[q]
  BY <1>1, GotoFacts DEF StartAlertRun, Label
<1> DEFINE row == [run[r] EXCEPT !.status = "running"]
<1>3. /\ row \in Row /\ row.status = "running" /\ row.source_url = run[r].source_url
      /\ row.archive_status = run[r].archive_status /\ row.raw_archive = run[r].raw_archive
      /\ row.skip_code = run[r].skip_code
  BY <1>1 DEF Row
<1>4. run' = [run EXCEPT ![r] = row] /\ run[r].status = "absent"
  BY DEF StartAlertRun
<1> HIDE DEF row
<1>5. run' \in [Run -> Row] /\ run'[r] = row /\ \A q \in Run \ {r} : run'[q] = run[q]
  BY <1>1, <1>3, <1>4 DEF WorkTypeOK
<1>6. WorkTypeOK'
  BY <1>1, <1>2, <1>5 DEF WorkTypeOK, StartAlertRun
<1>7. RunOK(r)'
  BY <1>1, <1>2, <1>3, <1>4, <1>5
  DEF StartAlertRun, At, RunOK, RowOK, ProgressOK, ReportOK, TransactionOK, Linked
<1>8. Quiet(r)
  BY <1>2, <1>3, <1>4, <1>5 DEF StartAlertRun, Quiet, OthersKept, NothingDecided, NothingJudged
<1> QED BY <1>6, <1>7, <1>8

\* FetchAlerts gives the worker a response.
LEMMA FetchStep ==
  ASSUME IngestInv, NEW r \in Run, FetchAlerts(r)
  PROVE  WorkTypeOK' /\ RunOK(r)' /\ Quiet(r)
<1>1. WorkTypeOK /\ RunOK(r) /\ worker[r] \in WorkerState
  BY DEF IngestInv, WorkTypeOK
<1>2. PICK f \in Fetch : worker' = [worker EXCEPT ![r].pc = "archive", ![r].fetch = f]
  BY DEF FetchAlerts
<1> DEFINE w == [worker[r] EXCEPT !.pc = "archive", !.fetch = f]
<1>3. w \in WorkerState /\ w.pc = "archive" /\ w.fetch = f
  BY <1>1 DEF WorkerState
<1>4. worker' = [worker EXCEPT ![r] = w]
  BY <1>2
<1> HIDE DEF w
<1>5. /\ worker' \in [Run -> WorkerState] /\ worker'[r] = w
      /\ \A q \in Run \ {r} : worker'[q] = worker[q]
  BY <1>1, <1>3, <1>4 DEF WorkTypeOK
<1>6. WorkTypeOK'
  BY <1>1, <1>5 DEF WorkTypeOK, FetchAlerts, dbVars
<1>7. RunOK(r)'
  BY <1>1, <1>3, <1>5
  DEF FetchAlerts, dbVars, At, RunOK, RowOK, ProgressOK, ReportOK, TransactionOK, Linked
<1>8. Quiet(r)
  BY <1>1, <1>5 DEF FetchAlerts, dbVars, At, RunOK, ProgressOK, Quiet, OthersKept,
                    NothingDecided, NothingJudged
<1> QED BY <1>6, <1>7, <1>8

\* Put stores the fetched bytes, and may do so even when it fails.
LEMMA PutStep ==
  ASSUME IngestInv, NEW r \in Run, ArchivePut(r) \/ ArchivePutFails(r)
  PROVE  WorkTypeOK' /\ RunOK(r)' /\ Quiet(r)
<1>1. WorkTypeOK /\ RunOK(r) /\ At(r, "archive") /\ worker[r].fetch \in Key
  BY DEF IngestInv, RunOK, ProgressOK, At, ArchivePut, ArchivePutFails, Key
<1>2. \/ worker'[r].pc = "record" /\ worker[r].fetch \in objects'
      \/ worker'[r].pc = "fail"
  BY <1>1, GotoFacts, GotoFailFacts DEF ArchivePut, ArchivePutFails, Label, Stage
<1>3. /\ worker' \in [Run -> WorkerState] /\ worker'[r].fetch = worker[r].fetch
      /\ \A q \in Run \ {r} : worker'[q] = worker[q]
  BY <1>1, GotoFacts, GotoFailFacts DEF ArchivePut, ArchivePutFails, Label, Stage
<1>4. objects \subseteq objects' /\ objects' \in SUBSET Key
  BY <1>1 DEF ArchivePut, ArchivePutFails, WorkTypeOK
<1>5. UNCHANGED <<run, alerts, snapshots, rawArchives, lock, txn>>
  BY DEF ArchivePut, ArchivePutFails, dbVars
<1>6. WorkTypeOK'
  BY <1>1, <1>3, <1>4, <1>5 DEF WorkTypeOK
<1>7. RunOK(r)'
  BY <1>1, <1>2, <1>3, <1>4, <1>5
  DEF At, RunOK, RowOK, ProgressOK, ReportOK, TransactionOK, Linked
<1>8. Quiet(r)
  BY <1>3, <1>4, <1>5 DEF Quiet, OthersKept, NothingDecided, NothingJudged
<1> QED BY <1>6, <1>7, <1>8

\* A COMMIT is sent: the worker waits, the transaction is up to the server.
LEMMA SendStep ==
  ASSUME IngestInv, NEW r \in Run, RecordAlertArchive(r) \/ CompleteCommit(r)
  PROVE  WorkTypeOK' /\ RunOK(r)' /\ Quiet(r)
<1>1. WorkTypeOK /\ RunOK(r) /\ txn[r] \in Transaction /\ txn \in [Run -> Transaction]
  BY DEF IngestInv, WorkTypeOK
<1>2. /\ worker' \in [Run -> WorkerState] /\ worker'[r].fetch = worker[r].fetch
      /\ \A q \in Run \ {r} : worker'[q] = worker[q]
      /\ RecordAlertArchive(r) => worker'[r].pc = "recording"
      /\ CompleteCommit(r) => worker'[r].pc = "completing"
  BY <1>1, GotoFacts DEF RecordAlertArchive, CompleteCommit, Label
<1>3. ASSUME NEW st \in {"archive", "commit"}, txn' = [txn EXCEPT ![r].state = st]
      PROVE  /\ txn' \in [Run -> Transaction]
             /\ txn'[r].state = st /\ txn'[r].verdict = txn[r].verdict
             /\ \A q \in Run \ {r} : txn'[q] = txn[q]
  <2>1. [txn[r] EXCEPT !.state = st] \in Transaction
    BY <1>1 DEF Transaction
  <2>2. /\ [txn[r] EXCEPT !.state = st].state = st
        /\ [txn[r] EXCEPT !.state = st].verdict = txn[r].verdict
    BY <1>1 DEF Transaction
  <2> QED BY <1>1, <1>3, <2>1, <2>2
<1>4. /\ txn' \in [Run -> Transaction] /\ txn'[r].verdict = txn[r].verdict
      /\ \A q \in Run \ {r} : txn'[q] = txn[q]
      /\ RecordAlertArchive(r) => txn'[r].state = "archive"
      /\ CompleteCommit(r) => txn'[r].state = "commit"
  BY <1>3 DEF RecordAlertArchive, CompleteCommit
<1>5. UNCHANGED <<run, alerts, snapshots, rawArchives, objects, lock>>
  BY DEF RecordAlertArchive, CompleteCommit, dbVars
<1>6. WorkTypeOK'
  BY <1>1, <1>2, <1>4, <1>5 DEF WorkTypeOK
<1>7. CASE RecordAlertArchive(r)
  <2>1. RunOK(r)'
    BY <1>7, <1>1, <1>2, <1>4, <1>5
    DEF RecordAlertArchive, At, RunOK, RowOK, ProgressOK, ReportOK, TransactionOK, Linked
  <2>2. Quiet(r)
    BY <1>7, <1>2, <1>4, <1>5 DEF Quiet, OthersKept, NothingDecided, NothingJudged
  <2> QED BY <1>6, <2>1, <2>2
<1>8. CASE CompleteCommit(r)
  <2>1. RunOK(r)'
    BY <1>8, <1>1, <1>2, <1>4, <1>5
    DEF CompleteCommit, At, RunOK, RowOK, ProgressOK, ReportOK, TransactionOK, Linked, Persistable
  <2>2. Quiet(r)
    BY <1>8, <1>1, <1>2, <1>4, <1>5
    DEF CompleteCommit, At, RunOK, ProgressOK, Quiet, OthersKept, NothingDecided, NothingJudged
  <2> QED BY <1>6, <2>1, <2>2
<1> QED BY <1>7, <1>8

\* fail() records the failure, finds the run ended, or gives up.
LEMMA FailStep ==
  ASSUME IngestInv, NEW r \in Run, FailAlertRun(r) \/ FailUnrecorded(r)
  PROVE  WorkTypeOK' /\ RunOK(r)' /\ Quiet(r)
<1>1. WorkTypeOK /\ RunOK(r) /\ run[r] \in Row /\ worker[r] \in WorkerState /\ At(r, "fail")
  BY DEF IngestInv, WorkTypeOK, FailAlertRun, FailUnrecorded
<1>2. /\ worker' \in [Run -> WorkerState] /\ worker'[r].fetch = worker[r].fetch
      /\ \A q \in Run \ {r} : worker'[q] = worker[q]
  BY <1>1, GotoFacts DEF FailAlertRun, FailUnrecorded, Label
<1>3. \/ worker'[r].pc = "unrecorded" /\ UNCHANGED run
      \/ /\ worker'[r].pc \in {"failed", "unrecorded"}
         /\ ~ RowLocked(r) /\ run[r].status = "running"
         /\ run' = [run EXCEPT ![r] = FailedRow(r)]
  BY <1>1, GotoFacts DEF FailAlertRun, FailUnrecorded, Label
<1>4. UNCHANGED <<alerts, snapshots, rawArchives, objects, lock, txn>>
  BY DEF FailAlertRun, FailUnrecorded
<1>5. CASE worker'[r].pc = "unrecorded" /\ UNCHANGED run
  <2>1. WorkTypeOK' /\ Quiet(r)
    BY <1>1, <1>2, <1>4, <1>5 DEF WorkTypeOK, Quiet, OthersKept, NothingDecided, NothingJudged
  <2>2. RunOK(r)'
    BY <1>1, <1>2, <1>4, <1>5
    DEF At, RunOK, RowOK, ProgressOK, ReportOK, TransactionOK, Linked
  <2> QED BY <2>1, <2>2
<1>6. CASE /\ worker'[r].pc \in {"failed", "unrecorded"}
           /\ ~ RowLocked(r) /\ run[r].status = "running"
           /\ run' = [run EXCEPT ![r] = FailedRow(r)]
  <2> DEFINE row == FailedRow(r)
  <2>1. /\ row \in Row /\ row.status = "failed" /\ row.source_url = run[r].source_url
        /\ row.archive_status = "archived" <=> run[r].archive_status = "archived"
        /\ row.raw_archive = run[r].raw_archive /\ row.skip_code = run[r].skip_code
    <3>1. worker[r].fetch \in Fetch \cup {NoFetch} /\ worker[r].stage \in Stage \cup {"none"}
      BY <1>1 DEF WorkerState
    <3>2. run[r].archive_status \in {"pending", "archived", "failed"}
      BY <1>1 DEF Row
    <3> DEFINE archive == IF run[r].archive_status = "archived" THEN "archived" ELSE "failed"
    <3>3. /\ archive \in {"pending", "archived", "failed"}
          /\ archive = "archived" <=> run[r].archive_status = "archived"
      BY <3>2
    <3>4. row = [run[r] EXCEPT !.status = "failed", !.fetch = worker[r].fetch,
                               !.failure_stage = worker[r].stage, !.archive_status = archive]
      BY DEF FailedRow
    <3> HIDE DEF row, archive
    <3>5. row \in Row
      BY <1>1, <3>1, <3>3, <3>4 DEF Row, Terminal
    <3>6. /\ row.status = "failed" /\ row.source_url = run[r].source_url
          /\ row.archive_status = archive /\ row.raw_archive = run[r].raw_archive
          /\ row.skip_code = run[r].skip_code
      BY <1>1, <3>4 DEF Row
    <3> QED BY <3>3, <3>5, <3>6
  <2> HIDE DEF row
  <2>2. run' \in [Run -> Row] /\ run'[r] = row /\ \A q \in Run \ {r} : run'[q] = run[q]
    BY <1>1, <1>6, <2>1 DEF WorkTypeOK, row
  <2>3. WorkTypeOK' /\ Quiet(r)
    BY <1>1, <1>2, <1>4, <1>6, <2>1, <2>2
    DEF WorkTypeOK, Quiet, OthersKept, NothingDecided, NothingJudged
  <2>4. RunOK(r)'
    BY <1>1, <1>2, <1>4, <1>6, <2>1, <2>2
    DEF At, RowLocked, RunOK, RowOK, ProgressOK, ReportOK, TransactionOK, Linked
  <2> QED BY <2>3, <2>4
<1> QED BY <1>3, <1>5, <1>6

\* The commit of recordArchive links the archived object.
LEMMA ArchiveCommitStep ==
  ASSUME IngestInv, NEW r \in Run, ServerCommitArchive(r)
  PROVE  WorkTypeOK' /\ RunOK(r)' /\ Quiet(r)
<1> DEFINE f == worker[r].fetch
<1>1. /\ WorkTypeOK /\ RunOK(r) /\ run[r] \in Row /\ txn \in [Run -> Transaction]
      /\ f \in Fetch \cap objects /\ f \in Key /\ run[r].status = "running"
  BY DEF IngestInv, WorkTypeOK, ServerCommitArchive, RunOK, TransactionOK, Key
<1> DEFINE row == [run[r] EXCEPT !.archive_status = "archived", !.raw_archive = f]
<1>2. /\ row \in Row /\ row.status = run[r].status /\ row.source_url = run[r].source_url
      /\ row.archive_status = "archived" /\ row.raw_archive = f
      /\ row.skip_code = run[r].skip_code
  BY <1>1 DEF Row
<1>3. run' = [run EXCEPT ![r] = row]
  BY DEF ServerCommitArchive
<1> HIDE DEF row
<1>4. run' \in [Run -> Row] /\ run'[r] = row /\ \A q \in Run \ {r} : run'[q] = run[q]
  BY <1>1, <1>2, <1>3 DEF WorkTypeOK
<1>5. /\ txn' \in [Run -> Transaction] /\ txn'[r].state = "none"
      /\ \A q \in Run \ {r} : txn'[q] = txn[q]
  BY <1>1 DEF ServerCommitArchive, Idle, Transaction
<1>6. /\ rawArchives' = rawArchives \cup {f}
      /\ UNCHANGED <<alerts, snapshots, objects, lock, worker>> /\ txn[r].state = "archive"
  BY DEF ServerCommitArchive
<1> HIDE DEF f
<1>7. WorkTypeOK'
  BY <1>1, <1>4, <1>5, <1>6 DEF WorkTypeOK
<1>8. RunOK(r)'
  BY <1>1, <1>2, <1>4, <1>5, <1>6
  DEF f, At, RunOK, RowOK, ProgressOK, ReportOK, TransactionOK, Linked
<1>9. Quiet(r)
  BY <1>1, <1>2, <1>4, <1>5, <1>6 DEF Quiet, OthersKept, NothingDecided, NothingJudged
<1> QED BY <1>7, <1>8, <1>9

\* A rollback releases the lock and leaves the row alone.
LEMMA AbortStep ==
  ASSUME IngestInv, NEW r \in Run, ServerAbort(r)
  PROVE  WorkTypeOK' /\ RunOK(r)' /\ Quiet(r)
<1>1. WorkTypeOK /\ RunOK(r) /\ txn \in [Run -> Transaction] /\ txn[r] \in Transaction
  BY DEF IngestInv, WorkTypeOK
<1> DEFINE t == [txn[r] EXCEPT !.state = "none"]
<1>2. t \in Transaction /\ t.state = "none"
  BY <1>1 DEF Transaction
<1>3. txn' = [txn EXCEPT ![r] = t]
  BY DEF ServerAbort
<1> HIDE DEF t
<1>4. /\ txn' \in [Run -> Transaction] /\ txn'[r].state = "none"
      /\ \A q \in Run \ {r} : txn'[q] = txn[q]
  BY <1>1, <1>2, <1>3
<1>5. /\ lock' = IF lock = r THEN NoRun ELSE lock
      /\ UNCHANGED <<run, alerts, snapshots, rawArchives, objects, worker>>
  BY DEF ServerAbort, dbVars
<1>6. lock' \in Run \cup {NoRun} /\ lock' # r /\ \A q \in Run \ {r} : lock' = q <=> lock = q
  BY <1>1, <1>5, RunAssumption DEF WorkTypeOK
<1>7. WorkTypeOK'
  BY <1>1, <1>4, <1>5, <1>6 DEF WorkTypeOK
<1>8. RunOK(r)'
  BY <1>1, <1>4, <1>5, <1>6
  DEF ServerAbort, RowLocked, At, RunOK, RowOK, ProgressOK, ReportOK, TransactionOK, Linked
<1>9. Quiet(r)
  BY <1>4, <1>5, <1>6 DEF Quiet, OthersKept, NothingDecided, NothingJudged
<1> QED BY <1>7, <1>8, <1>9

\* CompleteAlertRun's transaction begins under the lock, with its verdict.
LEMMA BeginStep ==
  ASSUME IngestInv, NEW r \in Run, CompleteBegin(r)
  PROVE  /\ WorkTypeOK' /\ RunOK(r)' /\ OthersKept(r) /\ NothingDecided(r)
         /\ worker'[r].fetch = worker[r].fetch /\ txn'[r].verdict = DecideVerdict(r)
         /\ lock = NoRun
<1>1. WorkTypeOK /\ RunOK(r) /\ txn \in [Run -> Transaction]
  BY DEF IngestInv, WorkTypeOK
<1>2. /\ worker' \in [Run -> WorkerState]
      /\ worker'[r].pc = "reconcile" /\ worker'[r].fetch = worker[r].fetch
      /\ \A q \in Run \ {r} : worker'[q] = worker[q]
  BY <1>1, GotoFacts DEF CompleteBegin, Label
<1>3. DecideVerdict(r) \in Verdict
  BY DEF DecideVerdict, Verdict
<1> DEFINE t == [state |-> "reconcile", verdict |-> DecideVerdict(r)]
<1>4. txn' = [txn EXCEPT ![r] = t]
  BY DEF CompleteBegin
<1>5. t \in Transaction /\ t.state = "reconcile" /\ t.verdict = DecideVerdict(r)
  BY <1>3 DEF Transaction
<1> HIDE DEF t
<1>6. /\ txn' \in [Run -> Transaction] /\ txn'[r] = t
      /\ \A q \in Run \ {r} : txn'[q] = txn[q]
  BY <1>1, <1>4, <1>5
<1>7. /\ lock = NoRun /\ lock' = r
      /\ UNCHANGED <<run, alerts, snapshots, rawArchives, objects>>
  BY DEF CompleteBegin, dbVars
<1>8. WorkTypeOK'
  BY <1>1, <1>2, <1>6, <1>7 DEF WorkTypeOK
<1>9. RunOK(r)'
  <2>1. txn'[r].verdict # "none"
    BY <1>3, <1>5, <1>6 DEF Verdict
  <2> QED
    BY <1>1, <1>2, <1>5, <1>6, <1>7, <2>1
    DEF CompleteBegin, At, RunOK, RowOK, ProgressOK, ReportOK, TransactionOK, Linked
<1>10. OthersKept(r) /\ NothingDecided(r)
  BY <1>2, <1>6, <1>7, RunAssumption DEF OthersKept, NothingDecided
<1> QED BY <1>2, <1>5, <1>6, <1>7, <1>8, <1>9, <1>10

\* CompleteAlertRun's commit: the feed is applied or the run is skipped.
Applies(r) == ServerCommitRun(r) /\ txn[r].verdict = "apply"

Skips(r) == ServerCommitRun(r) /\ txn[r].verdict # "apply"

\* What the commit does to the run's own row, transaction and lock.
Ends(r, status) ==
  /\ run'[r].status = status /\ run'[r].fetch = worker[r].fetch
  /\ run'[r].source_url = run[r].source_url
  /\ run[r].status = "running" /\ txn'[r].state = "none" /\ lock = r
  /\ worker[r].fetch \in Fetch /\ worker' = worker

\* The commit of CompleteAlertRun ends the run with what the worker fetched.
LEMMA CommitStep ==
  ASSUME IngestInv, NEW r \in Run, ServerCommitRun(r)
  PROVE  /\ WorkTypeOK' /\ RunOK(r)' /\ OthersKept(r)
         /\ Applies(r) => Ends(r, "succeeded")
         /\ Skips(r) => /\ Ends(r, "skipped") /\ UNCHANGED alerts
                        /\ run'[r].skip_code = txn[r].verdict
                        /\ txn[r].verdict \in {"stale", "duplicate"}
<1> DEFINE f == worker[r].fetch
           done == IF txn[r].verdict = "apply" THEN "succeeded" ELSE "skipped"
           code == IF txn[r].verdict = "apply" THEN run[r].skip_code ELSE txn[r].verdict
           row == [run[r] EXCEPT !.status = done, !.fetch = f, !.skip_code = code]
           t == [txn[r] EXCEPT !.state = "none"]
<1>1. /\ WorkTypeOK /\ RunOK(r) /\ run[r] \in Row /\ run \in [Run -> Row]
      /\ txn \in [Run -> Transaction] /\ txn[r] \in Transaction
      /\ txn[r].state = "commit" /\ Linked(r) /\ f \in Fetch
      /\ txn[r].verdict \in Verdict /\ run[r].status = "running" /\ lock = r
  BY DEF IngestInv, WorkTypeOK, ServerCommitRun, RunOK, TransactionOK, Linked, Transaction
<1>2. txn' = [txn EXCEPT ![r] = t] /\ lock' = NoRun /\ UNCHANGED <<rawArchives, objects, worker>>
  BY DEF ServerCommitRun
<1>3. run' = [run EXCEPT ![r] = row]
  <2>1. CASE txn[r].verdict = "apply"
    <3>1. run' = [run EXCEPT ![r].status = "succeeded", ![r].fetch = f]
      BY <2>1 DEF ServerCommitRun, ReconcileWrites
    <3>2. row = [run[r] EXCEPT !.status = "succeeded", !.fetch = f]
      BY <1>1, <2>1 DEF Row
    <3> QED BY <3>1, <3>2, <1>1
  <2>2. CASE txn[r].verdict # "apply"
    BY <2>2 DEF ServerCommitRun, SkipWrites
  <2> QED BY <2>1, <2>2
<1>4. /\ row \in Row /\ row.status = done /\ row.fetch = f /\ row.skip_code = code
      /\ row.source_url = run[r].source_url
      /\ row.archive_status = run[r].archive_status /\ row.raw_archive = run[r].raw_archive
  <2>1. done \in Terminal /\ code \in {"none", "stale", "duplicate"}
    BY <1>1 DEF Row, Verdict, Terminal
  <2> QED BY <1>1, <2>1 DEF Row
<1>5. t \in Transaction /\ t.state = "none"
  BY <1>1 DEF Transaction
<1> HIDE DEF row, t
<1>6. run' \in [Run -> Row] /\ run'[r] = row /\ \A q \in Run \ {r} : run'[q] = run[q]
  BY <1>1, <1>3, <1>4
<1>7. /\ txn' \in [Run -> Transaction] /\ txn'[r] = t
      /\ \A q \in Run \ {r} : txn'[q] = txn[q]
  BY <1>1, <1>2, <1>5
<1>8. snapshots' \in [Run -> [Entity -> Content \cup {Missing}]]
  <2>1. f.body \in Body
    BY <1>1 DEF Fetch
  <2>2. Feed[f.body].alerts \in [Entity -> Content \cup {Missing}]
    BY <2>1, FeedAssumption DEF FeedSummary
  <2>3. \/ snapshots' = [snapshots EXCEPT ![r] = Feed[f.body].alerts]
        \/ snapshots' = snapshots
    BY DEF ServerCommitRun, ReconcileWrites, SkipWrites
  <2> QED BY <1>1, <2>2, <2>3 DEF WorkTypeOK
<1>9. WorkTypeOK'
  BY <1>1, <1>2, <1>6, <1>7, <1>8 DEF WorkTypeOK
<1>10. RunOK(r)'
  BY <1>1, <1>2, <1>4, <1>5, <1>6, <1>7, RunAssumption
  DEF At, RunOK, RowOK, ProgressOK, ReportOK, TransactionOK, Linked
<1>11. OthersKept(r)
  BY <1>1, <1>2, <1>6, <1>7, RunAssumption DEF OthersKept
<1>12. Applies(r) => Ends(r, "succeeded")
  BY <1>1, <1>2, <1>4, <1>5, <1>6, <1>7 DEF Applies, Ends
<1>13. Skips(r) => /\ Ends(r, "skipped") /\ UNCHANGED alerts
                   /\ run'[r].skip_code = txn[r].verdict
                   /\ txn[r].verdict \in {"stale", "duplicate"}
  <2>1. Skips(r) => UNCHANGED alerts
    BY DEF Skips, ServerCommitRun, SkipWrites
  <2> QED BY <1>1, <1>2, <1>4, <1>5, <1>6, <1>7, <2>1 DEF Skips, Ends, Verdict
<1> QED BY <1>9, <1>10, <1>11, <1>12, <1>13

\* A step of r leaves every other run as consistent as it was.
LEMMA OthersFrame ==
  ASSUME NEW r \in Run, OthersKept(r), NEW q \in Run \ {r}, RunOK(q)
  PROVE  RunOK(q)'
BY DEF OthersKept, At, RunOK, RowOK, ProgressOK, ReportOK, TransactionOK, Linked

-----------------------------------------------------------------------------
(* Verdicts.                                                               *)

\* Two states have the same applied runs, with the same fetches.
SameApplied ==
  \A q \in Run :
    /\ run'[q].source_url = run[q].source_url
    /\ run'[q].status = "succeeded" <=> run[q].status = "succeeded"
    /\ run[q].status = "succeeded" => run'[q].fetch = run[q].fetch

\* What a verdict depends on: the applied runs and the worker's own response.
LEMMA VerdictStable ==
  ASSUME SameApplied
  PROVE  /\ \A s \in Source : AppliedIds(s)' = AppliedIds(s)
         /\ \A s \in Source : \A p, q \in AppliedIds(s) : SortsBefore(p, q)' <=> SortsBefore(p, q)
         /\ \A r \in Run : run[r].source_url \in Source /\ worker'[r].fetch = worker[r].fetch =>
              DecideVerdict(r)' = DecideVerdict(r)
<1>1. \A s \in Source : AppliedIds(s)' = AppliedIds(s)
  BY DEF SameApplied, AppliedIds
<1>2. ASSUME NEW s \in Source, NEW p \in AppliedIds(s), NEW q \in AppliedIds(s)
      PROVE  SortsBefore(p, q)' <=> SortsBefore(p, q)
  <2>1. run'[p].fetch = run[p].fetch /\ run'[q].fetch = run[q].fetch
    BY <1>2 DEF SameApplied, AppliedIds
  <2> QED BY <2>1 DEF SortsBefore
<1>3. ASSUME NEW r \in Run, run[r].source_url \in Source, worker'[r].fetch = worker[r].fetch
      PROVE  DecideVerdict(r)' = DecideVerdict(r)
  <2>1. run'[r].source_url = run[r].source_url
    BY DEF SameApplied
  <2>2. LatestApplied(r)' = LatestApplied(r)
    BY <1>1, <1>2, <1>3, <2>1 DEF LatestApplied
  <2>3. \A q \in LatestApplied(r) : run'[q].fetch = run[q].fetch
    BY DEF SameApplied, LatestApplied, AppliedIds
  <2>4. Stale(r)' <=> Stale(r)
    BY <1>3, <2>2, <2>3 DEF Stale
  <2>5. Duplicate(r)' <=> Duplicate(r)
    BY <1>3, <2>2, <2>3 DEF Duplicate
  <2> QED BY <2>4, <2>5 DEF DecideVerdict
<1> QED BY <1>1, <1>2, <1>3

\* While nothing is decided the applied runs stay what they are, so every
\* verdict, the order of the applied runs and the reasons for skips stand.
LEMMA UndecidedStep ==
  ASSUME IngestInv, NEW r \in Run, OthersKept(r), NothingDecided(r)
  PROVE  SameApplied /\ LatestOK' /\ SkipJustified'
<1>1. SameApplied
  BY DEF SameApplied, OthersKept, NothingDecided
<1>2. \A q \in Run : run[q].source_url \in Source /\ run'[q].source_url = run[q].source_url
  BY <1>1 DEF SameApplied, IngestInv, WorkTypeOK, Row
<1>3. LatestOK'
  BY <1>1, VerdictStable DEF IngestInv, LatestOK
<1>4. SkipJustified'
  <2> SUFFICES ASSUME NEW q \in Run, run'[q].status = "skipped"
               PROVE  \E p \in AppliedIds(run[q].source_url)' :
                        \/ /\ run'[q].skip_code = "stale"
                           /\ NewerFetch(run'[p].fetch, run'[q].fetch)
                        \/ /\ run'[q].skip_code = "duplicate"
                           /\ run'[p].fetch.body = run'[q].fetch.body
    BY DEF SkipJustified
  <2>1. /\ run[q].status = "skipped" /\ run'[q].fetch = run[q].fetch
        /\ run'[q].skip_code = run[q].skip_code
    BY DEF OthersKept, NothingDecided
  <2>2. PICK p \in AppliedIds(run[q].source_url) :
          \/ run[q].skip_code = "stale" /\ NewerFetch(run[p].fetch, run[q].fetch)
          \/ run[q].skip_code = "duplicate" /\ run[p].fetch.body = run[q].fetch.body
    BY <2>1 DEF IngestInv, SkipJustified
  <2>3. run'[p].fetch = run[p].fetch
    BY <1>1 DEF SameApplied, AppliedIds
  <2>4. p \in AppliedIds(run[q].source_url)'
    BY <1>1, <1>2, <2>2 DEF SameApplied, AppliedIds
  <2> QED BY <2>1, <2>2, <2>3, <2>4
<1> QED BY <1>1, <1>3, <1>4

\* A step that decides and judges nothing keeps the invariant.
LEMMA QuietStep ==
  ASSUME IngestInv, NEW r \in Run, WorkTypeOK', RunOK(r)', Quiet(r)
  PROVE  IngestInv'
<1>1. OthersKept(r) /\ NothingDecided(r) /\ NothingJudged(r)
  BY DEF Quiet
<1>2. SameApplied /\ LatestOK' /\ SkipJustified'
  BY <1>1, UndecidedStep
<1>3. \A q \in Run : RunOK(q)'
  BY <1>1, OthersFrame DEF IngestInv
<1>4. ASSUME NEW q \in Run, txn'[q].state \in {"reconcile", "commit"}
      PROVE  txn'[q].verdict = DecideVerdict(q)'
  <2>1. /\ txn[q].state \in {"reconcile", "commit"}
        /\ txn'[q].verdict = txn[q].verdict /\ worker'[q].fetch = worker[q].fetch
    BY <1>1, <1>4 DEF OthersKept, NothingJudged
  <2>2. run[q].source_url \in Source
    BY DEF IngestInv, WorkTypeOK, Row
  <2> QED BY <1>2, <2>1, <2>2, VerdictStable DEF IngestInv, VerdictOK
<1> QED BY <1>2, <1>3, <1>4 DEF IngestInv, VerdictOK

\* The lock is free while a verdict is reached: no other run has one pending.
LEMMA BeginInv ==
  ASSUME IngestInv, NEW r \in Run, CompleteBegin(r)
  PROVE  IngestInv' /\ NothingDecided(r) /\ OthersKept(r)
<1>1. /\ WorkTypeOK' /\ RunOK(r)' /\ OthersKept(r) /\ NothingDecided(r)
      /\ worker'[r].fetch = worker[r].fetch /\ txn'[r].verdict = DecideVerdict(r)
      /\ lock = NoRun
  BY BeginStep
<1>2. SameApplied /\ LatestOK' /\ SkipJustified'
  BY <1>1, UndecidedStep
<1>3. \A q \in Run : RunOK(q)'
  BY <1>1, OthersFrame DEF IngestInv
<1>4. ASSUME NEW q \in Run, txn'[q].state \in {"reconcile", "commit"}
      PROVE  txn'[q].verdict = DecideVerdict(q)'
  <2>1. CASE q = r
    <3>1. run[r].source_url \in Source
      BY DEF IngestInv, WorkTypeOK, Row
    <3> QED BY <1>1, <1>2, <2>1, <3>1, VerdictStable
  <2>2. CASE q # r
    BY <1>1, <1>4, <2>2, RunAssumption DEF OthersKept, IngestInv, RunOK, TransactionOK
  <2> QED BY <2>1, <2>2
<1> QED BY <1>1, <1>2, <1>3, <1>4 DEF IngestInv, VerdictOK

\* Fetches are ordered by two natural numbers.
LEMMA FetchTimes ==
  ASSUME NEW f \in Fetch
  PROVE  Observed(f) \in Nat /\ f.retrieved_at \in Nat /\ f.body \in Body
<1>1. f.body \in Body /\ f.retrieved_at \in Time
  BY DEF Fetch
<1>2. Feed[f.body].timestamp \in Time \cup {NoTime}
  BY <1>1, FeedAssumption DEF FeedSummary
<1> QED BY <1>1, <1>2, TimeAssumption DEF Observed, ObservationTime

\* An applied run has a row with a fetch, and an id.
LEMMA AppliedFacts ==
  ASSUME IngestInv, NEW s \in Source, NEW q \in AppliedIds(s)
  PROVE  q \in Run /\ q \in Nat /\ run[q].fetch \in Fetch
BY RunIdAssumption DEF IngestInv, AppliedIds, RunOK, RowOK, Linked

\* A feed that passed the stale check is superseded by no applied feed, not
\* only not by the latest one.
LEMMA ApplyIsNewest ==
  ASSUME IngestInv, NEW r \in Run, Applies(r)
  PROVE  \A q \in AppliedIds(run[r].source_url) :
           ~ NewerFetch(run[q].fetch, worker[r].fetch)
<1> DEFINE s == run[r].source_url
           f == worker[r].fetch
<1>1. s \in Source /\ Ends(r, "succeeded") /\ f \in Fetch
  BY CommitStep DEF IngestInv, WorkTypeOK, Row, Applies, Ends
<1>2. r \notin AppliedIds(s)
  BY <1>1 DEF Ends, AppliedIds
<1>3. ~ Stale(r)
  BY DEF IngestInv, VerdictOK, Applies, ServerCommitRun, DecideVerdict
<1>4. ASSUME NEW q \in AppliedIds(s), NewerFetch(run[q].fetch, f) PROVE FALSE
  <2>1. PICK m \in AppliedIds(s) : \A p \in AppliedIds(s) \ {m} : SortsBefore(m, p)
    BY <1>1, <1>4 DEF IngestInv, LatestOK
  <2>2. m \in LatestApplied(r)
    BY <1>2, <2>1 DEF LatestApplied
  <2>3. ~ NewerFetch(run[m].fetch, f)
    BY <1>3, <2>2 DEF Stale
  <2>4. q # m /\ SortsBefore(m, q)
    BY <1>4, <2>1, <2>3
  <2>5. /\ Observed(f) \in Nat /\ f.retrieved_at \in Nat
        /\ Observed(run[m].fetch) \in Nat /\ run[m].fetch.retrieved_at \in Nat
        /\ Observed(run[q].fetch) \in Nat /\ run[q].fetch.retrieved_at \in Nat
    BY <1>1, <1>4, AppliedFacts, FetchTimes
  <2> HIDE DEF f, s
  <2> QED BY <1>4, <2>3, <2>4, <2>5 DEF SortsBefore, NewerFetch
<1> QED BY <1>4

\* Whoever commits holds the lock, so no verdict of another run is pending.
LEMMA NoOtherVerdict ==
  ASSUME IngestInv, NEW r \in Run, ServerCommitRun(r)
  PROVE  VerdictOK' /\ \A q \in Run : RunOK(q)'
<1>1. OthersKept(r) /\ RunOK(r)' /\ txn'[r].state = "none" /\ lock = r
  BY CommitStep DEF Applies, Skips, Ends
<1>2. \A q \in Run \ {r} : txn'[q].state \notin {"reconcile", "commit"}
  BY <1>1 DEF OthersKept, IngestInv, RunOK, TransactionOK
<1> QED BY <1>1, <1>2, OthersFrame DEF VerdictOK, IngestInv

\* Applying a feed keeps the invariant: the run becomes the latest, or ties.
LEMMA ApplyInv ==
  ASSUME IngestInv, NEW r \in Run, Applies(r)
  PROVE  IngestInv'
<1> DEFINE s == run[r].source_url
<1>1. /\ WorkTypeOK' /\ OthersKept(r) /\ Ends(r, "succeeded")
      /\ VerdictOK' /\ \A q \in Run : RunOK(q)'
  BY CommitStep, NoOtherVerdict DEF Applies
<1>2. /\ s \in Source /\ r \in Nat
      /\ Observed(run'[r].fetch) \in Nat /\ run'[r].fetch.retrieved_at \in Nat
  BY <1>1, FetchTimes, RunIdAssumption DEF IngestInv, WorkTypeOK, Row, Ends
<1>3. /\ \A u \in Source :
           AppliedIds(u)' = IF u = s THEN AppliedIds(u) \cup {r} ELSE AppliedIds(u)
      /\ \A u \in Source : r \notin AppliedIds(u)
      /\ \A u \in Source : \A q \in AppliedIds(u) : run'[q] = run[q]
  BY <1>1 DEF OthersKept, Ends, AppliedIds
<1>4. ASSUME NEW u \in Source, AppliedIds(u)' # {}
      PROVE  \E q \in AppliedIds(u)' : \A p \in AppliedIds(u)' \ {q} : SortsBefore(q, p)'
  <2>1. \A p, q \in AppliedIds(u) : SortsBefore(p, q)' <=> SortsBefore(p, q)
    BY <1>3 DEF SortsBefore
  <2>2. CASE u # s
    BY <1>3, <1>4, <2>1, <2>2 DEF IngestInv, LatestOK
  <2>3. CASE u = s /\ AppliedIds(s) = {}
    BY <1>3, <2>3
  <2>4. CASE u = s /\ AppliedIds(s) # {}
    <3>1. PICK m \in AppliedIds(s) : \A p \in AppliedIds(s) \ {m} : SortsBefore(m, p)
      BY <1>2, <2>4 DEF IngestInv, LatestOK
    <3>2. ~ NewerFetch(run[m].fetch, run'[r].fetch)
      BY <1>1, ApplyIsNewest DEF Ends
    <3>3. \A q \in AppliedIds(s) :
            /\ Observed(run[q].fetch) \in Nat /\ run[q].fetch.retrieved_at \in Nat
            /\ q \in Nat /\ run'[q] = run[q] /\ q # r
      BY <1>2, <1>3, AppliedFacts, FetchTimes
    <3> HIDE DEF s
    <3>4. SortsBefore(m, r)' \/ SortsBefore(r, m)'
      BY <1>2, <3>2, <3>3 DEF SortsBefore, NewerFetch
    <3>5. ASSUME SortsBefore(r, m)', NEW p \in AppliedIds(s) PROVE SortsBefore(r, p)'
      <4>1. p = m \/ SortsBefore(m, p)
        BY <3>1
      <4> QED BY <1>2, <3>3, <3>5, <4>1 DEF SortsBefore, NewerFetch
    <3>6. \A p \in AppliedIds(s) \ {m} : SortsBefore(m, p)'
      BY <2>1, <2>4, <3>1
    <3>7. AppliedIds(u)' = AppliedIds(s) \cup {r}
      BY <1>3, <2>4
    <3> QED BY <3>4, <3>5, <3>6, <3>7
  <2> QED BY <2>2, <2>3, <2>4
<1>5. SkipJustified'
  <2> SUFFICES ASSUME NEW q \in Run, run'[q].status = "skipped"
               PROVE  \E p \in AppliedIds(run[q].source_url)' :
                        \/ /\ run'[q].skip_code = "stale"
                           /\ NewerFetch(run'[p].fetch, run'[q].fetch)
                        \/ /\ run'[q].skip_code = "duplicate"
                           /\ run'[p].fetch.body = run'[q].fetch.body
    BY DEF SkipJustified
  <2>1. q # r /\ run'[q] = run[q] /\ run[q].source_url \in Source
    BY <1>1 DEF OthersKept, Ends, IngestInv, WorkTypeOK, Row
  <2>2. PICK p \in AppliedIds(run[q].source_url) :
          \/ run[q].skip_code = "stale" /\ NewerFetch(run[p].fetch, run[q].fetch)
          \/ run[q].skip_code = "duplicate" /\ run[p].fetch.body = run[q].fetch.body
    BY <2>1 DEF IngestInv, SkipJustified
  <2>3. run'[p] = run[p] /\ p \in AppliedIds(run[q].source_url)'
    BY <1>3, <2>1, <2>2 DEF AppliedIds
  <2> QED BY <2>1, <2>2, <2>3
<1> QED BY <1>1, <1>4, <1>5 DEF IngestInv, LatestOK

\* Skipping keeps the invariant: the verdict under the lock names the reason.
LEMMA SkipInv ==
  ASSUME IngestInv, NEW r \in Run, Skips(r)
  PROVE  IngestInv' /\ SameApplied /\ UNCHANGED alerts
<1>1. /\ WorkTypeOK' /\ OthersKept(r) /\ Ends(r, "skipped") /\ UNCHANGED alerts
      /\ VerdictOK' /\ \A q \in Run : RunOK(q)'
      /\ run'[r].skip_code = txn[r].verdict /\ txn[r].verdict \in {"stale", "duplicate"}
  BY CommitStep, NoOtherVerdict DEF Skips
<1>2. SameApplied
  BY <1>1 DEF SameApplied, OthersKept, Ends
<1>3. \A q \in Run : run[q].source_url \in Source
  BY DEF IngestInv, WorkTypeOK, Row
<1>4. LatestOK'
  BY <1>2, VerdictStable DEF IngestInv, LatestOK
<1>5. SkipJustified'
  <2> SUFFICES ASSUME NEW q \in Run, run'[q].status = "skipped"
               PROVE  \E p \in AppliedIds(run[q].source_url)' :
                        \/ /\ run'[q].skip_code = "stale"
                           /\ NewerFetch(run'[p].fetch, run'[q].fetch)
                        \/ /\ run'[q].skip_code = "duplicate"
                           /\ run'[p].fetch.body = run'[q].fetch.body
    BY DEF SkipJustified
  <2>1. \E p \in AppliedIds(run[q].source_url) :
          \/ run'[q].skip_code = "stale" /\ NewerFetch(run[p].fetch, run'[q].fetch)
          \/ run'[q].skip_code = "duplicate" /\ run[p].fetch.body = run'[q].fetch.body
    <3>1. CASE q # r
      BY <1>1, <3>1 DEF OthersKept, IngestInv, SkipJustified
    <3>2. CASE q = r
      <4>1. txn[r].verdict = DecideVerdict(r)
        BY DEF Skips, ServerCommitRun, IngestInv, VerdictOK
      <4>2. LatestApplied(r) \subseteq AppliedIds(run[r].source_url)
        BY DEF LatestApplied
      <4> QED BY <1>1, <3>2, <4>1, <4>2 DEF Ends, DecideVerdict, Stale, Duplicate
    <3> QED BY <3>1, <3>2
  <2>2. PICK p \in AppliedIds(run[q].source_url) :
          \/ run'[q].skip_code = "stale" /\ NewerFetch(run[p].fetch, run'[q].fetch)
          \/ run'[q].skip_code = "duplicate" /\ run[p].fetch.body = run'[q].fetch.body
    BY <2>1
  <2>3. run'[p].fetch = run[p].fetch /\ p \in AppliedIds(run[q].source_url)'
    BY <1>2, <2>2 DEF SameApplied, AppliedIds
  <2> QED BY <2>2, <2>3
<1> QED BY <1>1, <1>2, <1>4, <1>5 DEF IngestInv

-----------------------------------------------------------------------------
(* The invariant.                                                          *)

\* The invariant holds before any run was started.
LEMMA InitInv ==
  ASSUME Init
  PROVE  IngestInv
<1>1. \A r \in Run : \E s \in Source : run[r] = NoRow(s)
  BY DEF Init
<1>2. \A s \in Source :
        /\ NoRow(s) \in Row /\ NoRow(s).status = "absent"
        /\ NoRow(s).archive_status = "pending" /\ NoRow(s).raw_archive = NoKey
        /\ NoRow(s).skip_code = "none"
  BY DEF NoRow, Row
<1>3. \A r \in Run : /\ run[r] \in Row /\ run[r].status = "absent"
                     /\ run[r].archive_status = "pending" /\ run[r].raw_archive = NoKey
                     /\ run[r].skip_code = "none"
  BY <1>1, <1>2
<1>4. /\ txn \in [Run -> Transaction]
      /\ \A r \in Run : txn[r].state = "none"
  BY DEF Init, Idle, Transaction
<1>5. /\ worker \in [Run -> WorkerState]
      /\ \A r \in Run : worker[r].pc = "none"
  BY DEF Init, WorkerState
<1>6. WorkTypeOK
  BY <1>3, <1>4, <1>5 DEF Init, WorkTypeOK
<1>7. \A r \in Run : RunOK(r)
  BY <1>3, <1>4, <1>5, RunAssumption
  DEF Init, At, RunOK, RowOK, ProgressOK, ReportOK, TransactionOK, Linked
<1>8. VerdictOK /\ LatestOK /\ SkipJustified
  BY <1>3, <1>4 DEF VerdictOK, LatestOK, SkipJustified, AppliedIds
<1> QED BY <1>6, <1>7, <1>8 DEF IngestInv

\* Every step keeps the invariant, and decides nothing unless it commits
\* CompleteAlertRun.
LEMMA NextStep ==
  ASSUME IngestInv, Next
  PROVE  /\ IngestInv'
         /\ \E r \in Run : (OthersKept(r) /\ NothingDecided(r)) \/ Applies(r) \/ Skips(r)
<1>1. PICK r \in Run : StartAlertRun(r) \/ WorkerStep(r) \/ WorkerFault(r) \/ Server(r)
  BY DEF Next
<1>2. CASE CompleteBegin(r)
  BY <1>2, BeginInv
<1>3. CASE Applies(r)
  BY <1>3, ApplyInv
<1>4. CASE Skips(r)
  BY <1>4, SkipInv
<1>5. CASE ~ CompleteBegin(r) /\ ~ ServerCommitRun(r)
  <2>1. \/ Moving(r) \/ StartAlertRun(r) \/ FetchAlerts(r)
        \/ ArchivePut(r) \/ ArchivePutFails(r)
        \/ RecordAlertArchive(r) \/ CompleteCommit(r)
        \/ FailAlertRun(r) \/ FailUnrecorded(r)
        \/ ServerCommitArchive(r) \/ ServerAbort(r)
    BY <1>1, <1>5 DEF WorkerStep, WorkerFault, Server, Moving
  <2>2. WorkTypeOK' /\ RunOK(r)' /\ Quiet(r)
    BY <2>1, MovingSteps, StartStep, FetchStep, PutStep, SendStep, FailStep,
       ArchiveCommitStep, AbortStep
  <2> QED BY <2>2, QuietStep DEF Quiet
<1> QED BY <1>2, <1>3, <1>4, <1>5 DEF Applies, Skips

\* A stuttering step keeps the invariant.
LEMMA StutterStep ==
  ASSUME IngestInv, UNCHANGED vars
  PROVE  IngestInv'
<1>1. UNCHANGED <<run, alerts, snapshots, rawArchives, objects, lock, txn, worker>>
  BY DEF vars
<1>2. WorkTypeOK'
  BY <1>1 DEF IngestInv, WorkTypeOK
<1>3. \A r \in Run : RunOK(r)'
  BY <1>1 DEF IngestInv, RunOK, RowOK, ProgressOK, ReportOK, TransactionOK, Linked, At
<1>4. SameApplied
  BY <1>1 DEF SameApplied
<1>5. LatestOK'
  BY <1>4, VerdictStable DEF IngestInv, LatestOK
<1>6. VerdictOK'
  BY <1>1, <1>4, VerdictStable DEF IngestInv, VerdictOK, WorkTypeOK, Row
<1>7. SkipJustified'
  BY <1>1 DEF IngestInv, SkipJustified, AppliedIds
<1> QED BY <1>2, <1>3, <1>5, <1>6, <1>7 DEF IngestInv

(***************************************************************************)
(* The inductive invariant holds throughout: row, worker and transaction   *)
(* of every run fit together, and a verdict reached under the advisory     *)
(* lock stays right until its commit is decided.                           *)
(***************************************************************************)
THEOREM IngestInvariant == Spec => []IngestInv
<1>1. IngestInv /\ [Next]_vars => IngestInv'
  BY NextStep, StutterStep
<1> QED BY InitInv, <1>1, PTL DEF Spec

(***************************************************************************)
(* ArchivedBeforeUse: a run that used its feed links the archived bytes it *)
(* decoded, whatever was interrupted (archive before database).            *)
(***************************************************************************)
THEOREM ArchivedBeforeUseHolds == Spec => []ArchivedBeforeUse
<1>1. IngestInv => ArchivedBeforeUse
  BY NullAssumption DEF IngestInv, RunOK, RowOK, Linked, ArchivedBeforeUse, Key
<1> QED BY IngestInvariant, <1>1, PTL

(***************************************************************************)
(* ReportMatchesRow: what AlertService.Run reports is what the row says,   *)
(* also after a commit whose reply was lost.                               *)
(***************************************************************************)
THEOREM ReportMatchesRowHolds == Spec => []ReportMatchesRow
<1>1. IngestInv => ReportMatchesRow
  BY DEF IngestInv, RunOK, ReportOK, ReportMatchesRow
<1> QED BY IngestInvariant, <1>1, PTL

(***************************************************************************)
(* SkipJustified: every skip has an applied run that justifies it.         *)
(***************************************************************************)
THEOREM SkipJustifiedHolds == Spec => []SkipJustified
<1>1. IngestInv => SkipJustified
  BY DEF IngestInv
<1> QED BY IngestInvariant, <1>1, PTL

-----------------------------------------------------------------------------
(* Implementation of AlertHistory.                                         *)

\* The applied run that AppliedRuns makes of the row of run r.
AppliedRecord(r, f) ==
  [run |-> r, source |-> run[r].source_url, body |-> f.body, retrieved_at |-> f.retrieved_at]

\* AlertHistory computes with its own instances of AlertRevisions' operators.
LEMMA SameOperators ==
  /\ \A b, t : History!ObservationTime(b, t) = ObservationTime(b, t)
  /\ \A b : History!Persistable(b) = Persistable(b)
  /\ \A rows, listed, r, t :
       History!ReconcileFeed(rows, listed, r, t) = ReconcileFeed(rows, listed, r, t)
<1>1. \A b, t : History!ObservationTime(b, t) = ObservationTime(b, t)
  BY DEF History!ObservationTime, ObservationTime
<1>2. \A b : History!Persistable(b) = Persistable(b)
  BY DEF History!Persistable, Persistable
<1>3. ASSUME NEW rows, NEW listed, NEW r, NEW t
      PROVE  History!ReconcileFeed(rows, listed, r, t) = ReconcileFeed(rows, listed, r, t)
  BY DEF ReconcileFeed, ReconcileAlert, CloseMissingAlert, NewAlert, NewRevision, SeenAgain,
         ReplaceCurrent, Touch, CurrentRevision, AddRevision, CloseIfOpen, CloseRevision, Close,
         History!ReconcileFeed, History!ReconcileAlert, History!CloseMissingAlert,
         History!NewAlert, History!NewRevision, History!SeenAgain, History!ReplaceCurrent,
         History!Touch, History!CurrentRevision, History!AddRevision, History!CloseIfOpen,
         History!CloseRevision, History!Close
<1> QED BY <1>1, <1>2, <1>3

\* A step that applies a feed is a step of AlertHistory.
LEMMA ApplyRefines ==
  ASSUME IngestInv, NEW r \in Run, Applies(r)
  PROVE  History!Next
<1> DEFINE f == worker[r].fetch
           s == run[r].source_url
           h == AppliedRecord(r, f)
<1>1. /\ OthersKept(r) /\ Ends(r, "succeeded") /\ f \in Fetch /\ s \in Source
      /\ f.body \in Body /\ f.retrieved_at \in Time
  BY CommitStep DEF Applies, Ends, IngestInv, WorkTypeOK, Row, Fetch
<1>2. /\ h \in History!AppliedRun
      /\ h.run = r /\ h.source = s /\ h.body = f.body /\ h.retrieved_at = f.retrieved_at
      /\ History!ObservedAt(h) = Observed(f)
  BY <1>1, SameOperators DEF AppliedRecord, History!AppliedRun, History!ObservedAt, Observed
<1>3. AppliedRuns' = AppliedRuns \cup {h}
  <2>1. {q \in Run : run'[q].status = "succeeded"} =
          {q \in Run : run[q].status = "succeeded"} \cup {r}
    BY <1>1 DEF OthersKept, Ends
  <2>2. \A q \in {p \in Run : run[p].status = "succeeded"} : run'[q] = run[q]
    BY <1>1 DEF OthersKept, Ends
  <2>3. run'[r].fetch = f /\ run'[r].source_url = s
    BY <1>1 DEF Ends
  <2> QED BY <2>1, <2>2, <2>3 DEF AppliedRuns, AppliedRecord
<1>4. \A g \in AppliedRuns : g.run # h.run
  BY <1>1, <1>2 DEF AppliedRuns, Ends
<1>5. History!Persistable(h.body)
  BY <1>2, SameOperators DEF Applies, ServerCommitRun, IngestInv, RunOK, TransactionOK
<1>6. ASSUME NEW g \in History!AppliedTo(h.source) PROVE ~ History!Newer(g, h)
  <2>1. PICK q \in AppliedIds(s) : /\ g.body = run[q].fetch.body
                                   /\ g.retrieved_at = run[q].fetch.retrieved_at
    BY <1>2, <1>6 DEF History!AppliedTo, AppliedRuns, AppliedIds
  <2>2. ~ NewerFetch(run[q].fetch, f)
    BY <2>1, ApplyIsNewest
  <2>3. History!ObservedAt(g) = Observed(run[q].fetch)
    BY <2>1, SameOperators DEF History!ObservedAt, Observed
  <2> QED BY <1>2, <2>1, <2>2, <2>3 DEF History!Newer, NewerFetch
<1>7. alerts' = [alerts EXCEPT ![h.source] =
                   History!ReconcileFeed(@, History!Listed(h), h.run, History!ObservedAt(h))]
  <2>1. alerts' = [alerts EXCEPT ![s] = ReconcileFeed(@, Feed[f.body].alerts, r, Observed(f))]
    BY DEF Applies, ServerCommitRun, ReconcileWrites
  <2> QED BY <1>2, <2>1, SameOperators DEF History!Listed
<1> HIDE DEF h, f, s
<1> QED BY <1>2, <1>3, <1>4, <1>5, <1>6, <1>7 DEF History!Next, History!Apply

\* Any other step leaves AlertHistory's variables unchanged.
LEMMA OtherStepsStutter ==
  ASSUME SameApplied, UNCHANGED alerts
  PROVE  UNCHANGED History!vars
<1>1. {q \in Run : run'[q].status = "succeeded"} = {q \in Run : run[q].status = "succeeded"}
  BY DEF SameApplied
<1>2. \A q \in {p \in Run : run[p].status = "succeeded"} :
        run'[q].fetch = run[q].fetch /\ run'[q].source_url = run[q].source_url
  BY DEF SameApplied
<1>3. AppliedRuns' = AppliedRuns
  BY <1>1, <1>2 DEF AppliedRuns
<1> QED BY <1>3 DEF History!vars

(***************************************************************************)
(* ImplementsHistory: with any number of workers, lost commits and crashes *)
(* the alerts change only as AlertHistory says: by whole feeds, each by a  *)
(* run that ends up succeeded, and never after a newer one was applied.    *)
(***************************************************************************)
THEOREM IngestImplementsHistory == Spec => ImplementsHistory
<1>1. Init => History!Init
  <2> SUFFICES ASSUME Init PROVE History!Init
    OBVIOUS
  <2>1. \A r \in Run : \E s \in Source : run[r] = NoRow(s)
    BY DEF Init
  <2>2. \A s \in Source : NoRow(s).status # "succeeded"
    BY DEF NoRow
  <2> QED BY <2>1, <2>2 DEF Init, History!Init, AppliedRuns
<1>2. IngestInv /\ [Next]_vars => [History!Next]_History!vars
  <2>1. CASE UNCHANGED vars
    <3>1. SameApplied /\ UNCHANGED alerts
      BY <2>1 DEF vars, SameApplied
    <3> QED BY <3>1, OtherStepsStutter
  <2>2. CASE IngestInv /\ Next
    <3>1. PICK r \in Run : (OthersKept(r) /\ NothingDecided(r)) \/ Applies(r) \/ Skips(r)
      BY <2>2, NextStep
    <3>2. CASE Applies(r)
      BY <2>2, <3>2, ApplyRefines
    <3>3. CASE Skips(r)
      BY <2>2, <3>3, SkipInv, OtherStepsStutter
    <3>4. CASE OthersKept(r) /\ NothingDecided(r)
      BY <2>2, <3>4, UndecidedStep, OtherStepsStutter DEF NothingDecided
    <3> QED BY <3>1, <3>2, <3>3, <3>4
  <2> QED BY <2>1, <2>2
<1> QED BY IngestInvariant, <1>1, <1>2, PTL DEF Spec, ImplementsHistory, History!Spec

-----------------------------------------------------------------------------
(* What the theorems about AlertHistory say of the running system.         *)

Proved == INSTANCE AlertHistoryProofs WITH applied <- AppliedRuns

\* The constants meet the assumptions under which those theorems are proved.
LEMMA HistoryAssumptions ==
  /\ Feed \in [Body -> Proved!FeedSummary] /\ Missing \notin Content
  /\ NoAlert \notin Proved!Alert
  /\ NoRun \notin Run
  /\ Time \subseteq Nat /\ NoTime \notin Time
<1>1. Feed \in [Body -> Proved!FeedSummary] /\ Missing \notin Content
  BY FeedAssumption DEF FeedSummary, Proved!FeedSummary
<1>2. NoAlert \notin Proved!Alert
  BY AlertAssumption DEF Alert, Proved!Alert, Revision, Proved!Revision
<1> QED BY <1>1, <1>2, RunAssumption, TimeAssumption

\* The refinement is of the specification those theorems are about.
LEMMA SameHistory == Spec => Proved!Spec
<1>1. History!Init => Proved!Init
  BY DEF History!Init, Proved!Init
<1>2. [History!Next]_History!vars => [Proved!Next]_Proved!vars
  <2>1. /\ \A b, t : Proved!ObservationTime(b, t) = History!ObservationTime(b, t)
        /\ \A b : Proved!Persistable(b) = History!Persistable(b)
        /\ Proved!AppliedRun = History!AppliedRun
    BY DEF Proved!ObservationTime, History!ObservationTime, Proved!Persistable,
           History!Persistable, Proved!AppliedRun, History!AppliedRun
  <2>2. ASSUME NEW rows, NEW listed, NEW r, NEW t
        PROVE  Proved!ReconcileFeed(rows, listed, r, t) =
                 History!ReconcileFeed(rows, listed, r, t)
    BY DEF Proved!ReconcileFeed, Proved!ReconcileAlert, Proved!CloseMissingAlert,
           Proved!NewAlert, Proved!NewRevision, Proved!SeenAgain, Proved!ReplaceCurrent,
           Proved!Touch, Proved!CurrentRevision, Proved!AddRevision, Proved!CloseIfOpen,
           Proved!CloseRevision, Proved!Close,
           History!ReconcileFeed, History!ReconcileAlert, History!CloseMissingAlert,
           History!NewAlert, History!NewRevision, History!SeenAgain, History!ReplaceCurrent,
           History!Touch, History!CurrentRevision, History!AddRevision, History!CloseIfOpen,
           History!CloseRevision, History!Close
  <2>3. \A f : Proved!ObservedAt(f) = History!ObservedAt(f) /\ Proved!Listed(f) = History!Listed(f)
    BY <2>1 DEF Proved!ObservedAt, History!ObservedAt, Proved!Listed, History!Listed
  <2>4. /\ \A f, g : Proved!Newer(f, g) <=> History!Newer(f, g)
        /\ \A s : Proved!AppliedTo(s) = History!AppliedTo(s)
    BY <2>3 DEF Proved!Newer, History!Newer, Proved!AppliedTo, History!AppliedTo
  <2>5. \A f : History!Apply(f) => Proved!Apply(f)
    BY <2>1, <2>2, <2>3, <2>4 DEF Proved!Apply, History!Apply
  <2> QED BY <2>1, <2>5 DEF History!Next, Proved!Next, History!vars, Proved!vars
<1> QED
  BY IngestImplementsHistory, <1>1, <1>2, PTL DEF ImplementsHistory, History!Spec, Proved!Spec

\* The history's inductive invariant holds of what the workers write.
LEMMA HistoryInvariant == Spec => []Proved!Inv
<1>1. Proved!Spec => []Proved!Inv
  BY Proved!Invariance, HistoryAssumptions
<1> QED BY SameHistory, <1>1, PTL

(***************************************************************************)
(* AlertIngest keeps its type, the alert rows it reconciles included.      *)
(***************************************************************************)
THEOREM IngestTypeCorrect == Spec => []TypeOK
<1>1. IngestInv /\ Proved!Inv => TypeOK
  BY DEF IngestInv, WorkTypeOK, TypeOK, Proved!Inv, Proved!TypeOK, Proved!Alert, Alert,
         Proved!Revision, Revision
<1> QED BY IngestInvariant, HistoryInvariant, <1>1, PTL

(***************************************************************************)
(* Whatever workers, commits and crashes interleave: an alert row agrees   *)
(* with its revisions, revision windows never overlap, every revision can  *)
(* be traced to the runs behind it, the alerts show the newest applied     *)
(* feed and the revisions replay every applied one (CompleteAlertRun).     *)
(***************************************************************************)
THEOREM IngestKeepsHistory ==
  Spec => [](/\ Proved!RowsAgree /\ Proved!WindowsOrdered /\ Proved!Traceable
             /\ Proved!ShowsNewestFeed /\ Proved!HistoryReplays)
<1>1. Proved!Inv => /\ Proved!RowsAgree /\ Proved!WindowsOrdered /\ Proved!Traceable
                    /\ Proved!ShowsNewestFeed /\ Proved!HistoryReplays
  <2> SUFFICES ASSUME Proved!Inv
               PROVE  /\ Proved!RowsAgree /\ Proved!WindowsOrdered /\ Proved!Traceable
                      /\ Proved!ShowsNewestFeed /\ Proved!HistoryReplays
    OBVIOUS
  <2> QED BY Proved!InvImplies, HistoryAssumptions
<1> QED BY HistoryInvariant, <1>1, PTL

(***************************************************************************)
(* No step of any worker, of the server for one that is gone, or of a late *)
(* commit rewrites a closed revision, a revision's content or an alert's   *)
(* first sighting (reconcileAlert, closeMissingAlerts).                    *)
(***************************************************************************)
THEOREM IngestNeverRewrites == Spec => Proved!HistoryAppendOnly
<1>1. Proved!Spec => Proved!HistoryAppendOnly
  BY Proved!NeverRewrites, HistoryAssumptions
<1> QED BY SameHistory, <1>1, PTL

(***************************************************************************)
(* DuplicateSkipLosesNothing: a feed skipped as a duplicate lists what the *)
(* alerts already show, when the newest applied observation is unique.     *)
(***************************************************************************)
THEOREM DuplicateSkipIsHarmless == Spec => DuplicateSkipLosesNothing
<1> DEFINE Harmless == \A r \in Run :
             /\ run[r].status = "running" /\ run'[r].skip_code = "duplicate"
             /\ UniqueNewest(run[r].source_url)
             => Shown(alerts[run[r].source_url]) = Feed[worker[r].fetch.body].alerts
<1>1. IngestInv /\ Proved!Inv /\ [Next]_vars => [Harmless]_vars
  <2> SUFFICES ASSUME IngestInv, Proved!Inv, Next, NEW r \in Run,
                      run[r].status = "running", run'[r].skip_code = "duplicate",
                      UniqueNewest(run[r].source_url)
               PROVE  Shown(alerts[run[r].source_url]) = Feed[worker[r].fetch.body].alerts
    OBVIOUS
  <2> DEFINE s == run[r].source_url
  <2>1. run'[r].status = "skipped" /\ s \in Source
    BY NextStep DEF IngestInv, RunOK, RowOK, WorkTypeOK, Row
  <2>2. Skips(r) /\ txn[r].verdict = "duplicate"
    <3>1. PICK q \in Run : (OthersKept(q) /\ NothingDecided(q)) \/ Applies(q) \/ Skips(q)
      BY NextStep
    <3>2. OthersKept(q) /\ (Applies(q) => run'[q].status = "succeeded")
      BY <3>1, CommitStep DEF Applies, Skips, Ends
    <3>3. q = r /\ Skips(q)
      BY <2>1, <3>1, <3>2 DEF OthersKept, NothingDecided
    <3> QED BY <3>3, CommitStep DEF Skips
  <2>3. PICK q \in LatestApplied(r) : run[q].fetch.body = worker[r].fetch.body
    BY <2>2 DEF Skips, ServerCommitRun, IngestInv, VerdictOK, DecideVerdict, Duplicate
  <2>4. q \in AppliedIds(s) /\ \A p \in AppliedIds(s) \ {q} : p = r \/ SortsBefore(q, p)
    BY DEF LatestApplied
  <2>5. PICK u \in AppliedIds(s) :
          \A p \in AppliedIds(s) \ {u} : NewerFetch(run[u].fetch, run[p].fetch)
    BY DEF UniqueNewest
  <2>6. r \notin AppliedIds(s)
    BY DEF AppliedIds
  <2>7. \A p \in AppliedIds(s) :
          Observed(run[p].fetch) \in Nat /\ run[p].fetch.retrieved_at \in Nat
    BY <2>1, AppliedFacts, FetchTimes
  <2>8. q = u
    <3> SUFFICES ASSUME q # u PROVE FALSE
      OBVIOUS
    <3>1. SortsBefore(q, u) /\ NewerFetch(run[u].fetch, run[q].fetch)
      BY <2>4, <2>5, <2>6
    <3> QED BY <2>4, <2>5, <2>7, <3>1 DEF SortsBefore, NewerFetch
  <2>9. PICK f \in Proved!Newest(s) : Proved!Shown(alerts[s]) = Proved!Listed(f)
    <3>1. AppliedRecord(q, run[q].fetch) \in Proved!AppliedTo(s)
      <4>1. q \in Run /\ run[q].status = "succeeded" /\ run[q].source_url = s
        BY <2>4 DEF AppliedIds
      <4>2. AppliedRecord(q, run[q].fetch) \in AppliedRuns
        BY <4>1 DEF AppliedRuns, AppliedRecord
      <4> QED BY <4>1, <4>2 DEF Proved!AppliedTo, AppliedRecord
    <3> QED BY <2>1, <3>1 DEF Proved!Inv, Proved!ShowsNewestFeed
  <2>10. PICK p \in AppliedIds(s) : f = AppliedRecord(p, run[p].fetch)
    BY DEF Proved!Newest, Proved!AppliedTo, AppliedRuns, AppliedIds, AppliedRecord
  <2>11. p = u
    <3> SUFFICES ASSUME p # u PROVE FALSE
      OBVIOUS
    <3> DEFINE g == AppliedRecord(u, run[u].fetch)
    <3>1. g \in Proved!AppliedTo(s)
      <4>1. u \in Run /\ run[u].status = "succeeded" /\ run[u].source_url = s
        BY <2>5 DEF AppliedIds
      <4>2. g \in AppliedRuns
        BY <4>1 DEF AppliedRuns, AppliedRecord
      <4> QED BY <4>1, <4>2 DEF Proved!AppliedTo, AppliedRecord
    <3>2. ~ Proved!Newer(g, f)
      BY <3>1 DEF Proved!Newest
    <3>3. NewerFetch(run[u].fetch, run[p].fetch)
      BY <2>5
    <3> QED BY <2>10, <3>2, <3>3
        DEF Proved!Newer, NewerFetch, Proved!ObservedAt, Observed, AppliedRecord,
            Proved!ObservationTime, ObservationTime
  <2>12. Proved!Listed(f) = Feed[worker[r].fetch.body].alerts
    BY <2>3, <2>8, <2>10, <2>11 DEF Proved!Listed, AppliedRecord
  <2>13. Proved!Shown(alerts[s]) = Shown(alerts[s])
    BY DEF Proved!Shown, Shown, Proved!CurrentRevision, CurrentRevision
  <2> QED BY <2>9, <2>12, <2>13
<1> QED BY IngestInvariant, HistoryInvariant, <1>1, PTL DEF Spec, DuplicateSkipLosesNothing

=============================================================================

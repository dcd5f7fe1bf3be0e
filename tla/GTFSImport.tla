----------------------------- MODULE GTFSImport -----------------------------
(***************************************************************************)
(* GTFS schedule ingestion as it runs: workers executing GTFSService.Run   *)
(* (internal/ingest/gtfs.go) against the archive store and PostgreSQL      *)
(* (internal/database/gtfs.go, archive.go).  The duplicate check runs in a *)
(* transaction of its own before the archive is parsed, and again in the   *)
(* transaction that installs the network; another worker can install in    *)
(* between.  COMMIT is split as in AlertIngest: the request, the server's  *)
(* decision, the client's learning of it.                                  *)
(***************************************************************************)
EXTENDS GTFSOrder

CONSTANTS
  Archive,     \* Archive[b]: what parsing and installing content b meets
  Faulty,      \* the imports that may meet faults (Import: all); a bound
  NoImport,    \* nobody holds the lock
  NoDownload,  \* nothing was downloaded
  NoKey        \* a NULL raw_archive_id

ASSUME ImportAssumption == Import \subseteq Nat /\ Faulty \subseteq Import /\ NoImport \notin Import

\* parses: ParseArchive accepts the file; installable: the schema's keys and
\* checks accept its rows.
ASSUME ArchiveAssumption == Archive \in [Body -> [parses : BOOLEAN, installable : BOOLEAN]]

\* GTFSKey: the retrieval time and the hash.
KeyOf(d) == [body |-> d.body, retrieved_at |-> d.retrieved_at]

Key == [body : Body, retrieved_at : Time]

ASSUME GTFSNullAssumption == NoDownload \notin Download /\ NoKey \notin Key

VARIABLES
  imports,      \* imports[i]: the gtfs_imports row with id i
  network,      \* routes, stops and route_stations: whose and what rows
  rawArchives,  \* object keys with a raw_archives row
  objects,      \* object keys present in the archive store
  lock,         \* holder of the import advisory lock, or NoImport
  txn,          \* txn[i]: the transaction of i's worker on the server
  worker        \* worker[i]: the process executing import i

dbVars == <<imports, network, rawArchives>>
vars == <<imports, network, rawArchives, objects, lock, txn, worker>>

Terminal == {"succeeded", "skipped", "failed"}
Stage == {"fetch", "archive", "parse", "persist"}

Row ==
  [status : {"absent", "running"} \cup Terminal,
   archive_status : {"pending", "archived", "failed"}, raw_archive : Key \cup {NoKey},
   download : Download \cup {NoDownload}, is_current : BOOLEAN,
   skip_code : {"none", "stale", "duplicate"}, failure_stage : Stage \cup {"none"}]

NetworkRows == [gtfs_import_id : Import, body : Body]

\* archive: recordArchive's COMMIT was sent.  open: the transaction holds
\* the advisory lock.  commit: its COMMIT was sent.  reason is what
\* skipGTFSReason answered in it.
Transaction ==
  [state : {"none", "archive", "open", "commit"},
   reason : {"none", "stale", "duplicate"}]

WorkerState ==
  [pc : {"none", "fetch", "archive", "record", "recording", "resolve_archive",
         "check", "checking", "parse", "complete", "installing", "committing",
         "resolve_commit", "fail", "ok", "failed", "unrecorded", "unknown", "dead"},
   download : Download \cup {NoDownload}, stage : Stage \cup {"none"},
   installs : BOOLEAN]  \* the open transaction is CompleteImport's

Ended == {"ok", "failed", "unrecorded", "unknown", "dead"}

TypeOK ==
  /\ imports \in [Import -> Row]
  /\ network \in NetworkRows \cup {NoNetwork}
  /\ rawArchives \in SUBSET Key
  /\ objects \in SUBSET Key
  /\ lock \in Import \cup {NoImport}
  /\ txn \in [Import -> Transaction]
  /\ worker \in [Import -> WorkerState]

NoRow ==
  [status |-> "absent", archive_status |-> "pending", raw_archive |-> NoKey,
   download |-> NoDownload, is_current |-> FALSE, skip_code |-> "none",
   failure_stage |-> "none"]

Idle == [state |-> "none", reason |-> "none"]

Init ==
  /\ imports = [i \in Import |-> NoRow]
  /\ network = NoNetwork
  /\ rawArchives = {}
  /\ objects = {}
  /\ lock = NoImport
  /\ txn = [i \in Import |-> Idle]
  /\ worker = [i \in Import |-> [pc |-> "none", download |-> NoDownload,
                                 stage |-> "none", installs |-> FALSE]]

-----------------------------------------------------------------------------
(* GTFSService.Run up to the archive.                                      *)

At(i, label) == worker[i].pc = label

Goto(i, label) == worker' = [worker EXCEPT ![i].pc = label]

GotoFail(i, stage) == worker' = [worker EXCEPT ![i].pc = "fail", ![i].stage = stage]

StartImport(i) ==
  /\ imports[i].status = "absent"
  /\ \A j \in Import : j < i => imports[j].status # "absent"
  /\ imports' = [imports EXCEPT ![i].status = "running"]
  /\ Goto(i, "fetch")
  /\ UNCHANGED <<network, rawArchives, objects, lock, txn>>

Fetch(i) ==
  /\ At(i, "fetch")
  /\ \E d \in Download : worker' = [worker EXCEPT ![i].pc = "archive", ![i].download = d]
  /\ UNCHANGED <<dbVars, objects, lock, txn>>

FetchFails(i) ==
  /\ At(i, "fetch")
  /\ GotoFail(i, "fetch")
  /\ UNCHANGED <<dbVars, objects, lock, txn>>

ArchivePut(i) ==
  /\ At(i, "archive")
  /\ objects' = objects \cup {KeyOf(worker[i].download)}
  /\ Goto(i, "record")
  /\ UNCHANGED <<dbVars, lock, txn>>

\* Mutant: the error of Put is ignored.
ArchivePutErrorIgnored(i) ==
  /\ At(i, "archive")
  /\ Goto(i, "record")
  /\ UNCHANGED <<dbVars, objects, lock, txn>>

\* Put can fail before or after the object became visible.
ArchivePutFails(i) ==
  /\ At(i, "archive")
  /\ objects' \in {objects, objects \cup {KeyOf(worker[i].download)}}
  /\ GotoFail(i, "archive")
  /\ UNCHANGED <<dbVars, lock, txn>>

RecordGTFSArchive(i) ==
  /\ At(i, "record")
  /\ imports[i].status = "running" /\ imports[i].archive_status = "pending"
  /\ txn' = [txn EXCEPT ![i].state = "archive"]
  /\ Goto(i, "recording")
  /\ UNCHANGED <<dbVars, objects, lock>>

RecordArchiveFails(i) ==
  /\ At(i, "record")
  /\ GotoFail(i, "archive")
  /\ UNCHANGED <<dbVars, objects, lock, txn>>

ArchiveLinked(i) ==
  /\ imports[i].archive_status = "archived"
  /\ imports[i].raw_archive = KeyOf(worker[i].download)

RecordArchiveReturns(i) ==
  /\ At(i, "recording")
  /\ txn[i].state = "none" /\ ArchiveLinked(i)
  /\ Goto(i, "check")
  /\ UNCHANGED <<dbVars, objects, lock, txn>>

RecordArchiveCommitLost(i) ==
  /\ i \in Faulty /\ At(i, "recording")
  /\ Goto(i, "resolve_archive")
  /\ UNCHANGED <<dbVars, objects, lock, txn>>

ResolveArchiveCommit(i) ==
  /\ At(i, "resolve_archive")
  /\ \/ ArchiveLinked(i) /\ Goto(i, "check")
     \/ ~ ArchiveLinked(i) /\ GotoFail(i, "archive")
  /\ UNCHANGED <<dbVars, objects, lock, txn>>

-----------------------------------------------------------------------------
(* SkipIfImported, Parse and CompleteImport.                               *)

\* loadCurrentGTFSImport.
CurrentImport ==
  IF \E i \in Import : imports[i].is_current
    THEN LET i == CHOOSE j \in Import : imports[j].is_current
         IN  [import |-> i, download |-> imports[i].download]
    ELSE NoNetwork

ReasonToSkip(i) == SkipReason(CurrentImport, worker[i].download)

\* Mutant: no advisory lock.
BeginUnlocked(i, label, installs) ==
  /\ lock' = i
  /\ txn' = [txn EXCEPT ![i] = [state |-> "open", reason |-> ReasonToSkip(i)]]
  /\ worker' = [worker EXCEPT ![i].pc = label, ![i].installs = installs]
  /\ UNCHANGED <<dbVars, objects>>

\* Begin, take the advisory lock, compare with the current import.
BeginLocked(i, label, installs) ==
  /\ lock = NoImport
  /\ lock' = i
  /\ txn' = [txn EXCEPT ![i] = [state |-> "open", reason |-> ReasonToSkip(i)]]
  /\ worker' = [worker EXCEPT ![i].pc = label, ![i].installs = installs]
  /\ UNCHANGED <<dbVars, objects>>

SkipIfImported(i) == At(i, "check") /\ BeginLocked(i, "checking", FALSE)

\* No reason to skip: the transaction is rolled back and the lock released.
CheckPasses(i) ==
  /\ At(i, "checking")
  /\ txn[i].reason = "none"
  /\ lock' = NoImport
  /\ txn' = [txn EXCEPT ![i] = Idle]
  /\ Goto(i, "parse")
  /\ UNCHANGED <<dbVars, objects>>

\* The rollback did not reach the server, which its caller ignores.
CheckRollbackLost(i) ==
  /\ At(i, "checking")
  /\ txn[i].reason = "none"
  /\ Goto(i, "parse")
  /\ UNCHANGED <<dbVars, objects, lock, txn>>

\* Mutant: a parse error is returned without fail().
ParseUnrecorded(i) ==
  /\ At(i, "parse")
  /\ \/ Archive[worker[i].download.body].parses /\ Goto(i, "complete")
     \/ ~ Archive[worker[i].download.body].parses /\ Goto(i, "failed")
  /\ UNCHANGED <<dbVars, objects, lock, txn>>

Parse(i) ==
  /\ At(i, "parse")
  /\ \/ Archive[worker[i].download.body].parses /\ Goto(i, "complete")
     \/ ~ Archive[worker[i].download.body].parses /\ GotoFail(i, "parse")
  /\ UNCHANGED <<dbVars, objects, lock, txn>>

CompleteImport(i) == At(i, "complete") /\ BeginLocked(i, "installing", TRUE)

Installs(i) == worker[i].installs /\ txn[i].reason = "none"

\* An inserted row is refused, a key violated.
CompleteRejects(i) ==
  /\ At(i, "installing") /\ Installs(i)
  /\ ~ Archive[worker[i].download.body].installable
  /\ GotoFail(i, "persist")
  /\ UNCHANGED <<dbVars, objects, lock, txn>>

\* A lost connection, a cancelled wait for the lock.
PersistFails(i) ==
  /\ worker[i].pc \in {"check", "checking", "complete", "installing"}
  /\ GotoFail(i, "persist")
  /\ UNCHANGED <<dbVars, objects, lock, txn>>

\* The statements that skip the import, or replace the network, succeeded
\* and COMMIT is sent.
SendCommit(i) ==
  /\ \/ At(i, "checking") /\ txn[i].reason # "none"
     \/ /\ At(i, "installing")
        /\ Installs(i) => Archive[worker[i].download.body].installable
  /\ imports[i].status = "running" /\ imports[i].archive_status = "archived"
  /\ txn' = [txn EXCEPT ![i].state = "commit"]
  /\ Goto(i, "committing")
  /\ UNCHANGED <<dbVars, objects, lock>>

ExpectedStatus(i) == IF Installs(i) THEN "succeeded" ELSE "skipped"

CommitReturns(i) ==
  /\ At(i, "committing")
  /\ txn[i].state = "none" /\ imports[i].status = ExpectedStatus(i)
  /\ Goto(i, "ok")
  /\ UNCHANGED <<dbVars, objects, lock, txn>>

CommitLost(i) ==
  /\ i \in Faulty /\ At(i, "committing")
  /\ Goto(i, "resolve_commit")
  /\ UNCHANGED <<dbVars, objects, lock, txn>>

\* Mutant: a readable status is taken for success.
ResolveCommitOptimistic(i) ==
  /\ At(i, "resolve_commit")
  /\ Goto(i, "ok")
  /\ UNCHANGED <<dbVars, objects, lock, txn>>

\* commitGTFS reads the status back.
ResolveCommit(i) ==
  /\ At(i, "resolve_commit")
  /\ \/ imports[i].status = ExpectedStatus(i) /\ Goto(i, "ok")
     \/ imports[i].status # ExpectedStatus(i) /\ GotoFail(i, "persist")
  /\ UNCHANGED <<dbVars, objects, lock, txn>>

\* The resolving query fails too: commitOutcomeUnknown.
ResolveFails(i) ==
  /\ At(i, "resolve_archive") \/ At(i, "resolve_commit")
  /\ Goto(i, "unknown")
  /\ UNCHANGED <<dbVars, objects, lock, txn>>

-----------------------------------------------------------------------------
(* fail() and the end of a process.                                        *)

RowLocked(i) == txn[i].state \in {"archive", "commit"}

FailedRow(i) ==
  [imports[i] EXCEPT !.status = "failed", !.download = worker[i].download,
                     !.failure_stage = worker[i].stage,
                     !.archive_status = IF @ = "archived" THEN "archived" ELSE "failed"]

FailImport(i) ==
  /\ At(i, "fail")
  /\ ~ RowLocked(i)
  /\ IF imports[i].status = "running"
       THEN imports' = [imports EXCEPT ![i] = FailedRow(i)] /\ Goto(i, "failed")
       ELSE UNCHANGED imports /\ Goto(i, "unrecorded")
  /\ UNCHANGED <<network, rawArchives, objects, lock, txn>>

\* The five-second limit passes, or the reply to a done UPDATE is lost.
FailUnrecorded(i) ==
  /\ At(i, "fail")
  /\ \/ UNCHANGED imports
     \/ /\ ~ RowLocked(i) /\ imports[i].status = "running"
        /\ imports' = [imports EXCEPT ![i] = FailedRow(i)]
  /\ Goto(i, "unrecorded")
  /\ UNCHANGED <<network, rawArchives, objects, lock, txn>>

Crash(i) ==
  /\ worker[i].pc \notin Ended \cup {"none"}
  /\ Goto(i, "dead")
  /\ UNCHANGED <<dbVars, objects, lock, txn>>

-----------------------------------------------------------------------------
(* PostgreSQL: the transactions' ends.                                     *)

ServerCommitArchive(i) ==
  LET k == KeyOf(worker[i].download)
  IN  /\ txn[i].state = "archive"
      /\ imports' = [imports EXCEPT ![i].archive_status = "archived", ![i].raw_archive = k]
      /\ rawArchives' = rawArchives \cup {k}
      /\ txn' = [txn EXCEPT ![i] = Idle]
      /\ UNCHANGED <<network, objects, lock, worker>>

\* Mutant: the old marker is not cleared.
InstallWritesKeepsMarker(i) ==
  /\ network' = [gtfs_import_id |-> i, body |-> worker[i].download.body]
  /\ imports' = [imports EXCEPT ![i].status = "succeeded", ![i].is_current = TRUE,
                                ![i].download = worker[i].download]

\* The old rows are deleted, the new ones inserted and the marker moved.
InstallWrites(i) ==
  /\ network' = [gtfs_import_id |-> i, body |-> worker[i].download.body]
  /\ imports' = [j \in Import |->
       IF j = i THEN [imports[i] EXCEPT !.status = "succeeded", !.is_current = TRUE,
                                        !.download = worker[i].download]
       ELSE [imports[j] EXCEPT !.is_current = FALSE]]

\* markGTFSSkipped.
SkipWrites(i) ==
  /\ imports' = [imports EXCEPT ![i].status = "skipped", ![i].skip_code = txn[i].reason,
                                ![i].download = worker[i].download]
  /\ UNCHANGED network

ServerCommit(i) ==
  /\ txn[i].state = "commit"
  /\ IF Installs(i) THEN InstallWrites(i) ELSE SkipWrites(i)
  /\ lock' = NoImport
  /\ txn' = [txn EXCEPT ![i].state = "none"]
  /\ UNCHANGED <<rawArchives, objects, worker>>

\* Rollback, by the client's request, by an error, or when the server finds
\* the connection gone.
ServerAbort(i) ==
  /\ \/ RowLocked(i) /\ i \in Faulty
     \/ txn[i].state = "open" /\ ~ At(i, "checking") /\ ~ At(i, "installing")
  /\ lock' = IF lock = i THEN NoImport ELSE lock
  /\ txn' = [txn EXCEPT ![i].state = "none"]
  /\ UNCHANGED <<dbVars, objects, worker>>

-----------------------------------------------------------------------------

WorkerStep(i) ==
  \/ Fetch(i) \/ ArchivePut(i)
  \/ RecordGTFSArchive(i) \/ RecordArchiveReturns(i)
  \/ RecordArchiveCommitLost(i) \/ ResolveArchiveCommit(i)
  \/ SkipIfImported(i) \/ CheckPasses(i) \/ Parse(i)
  \/ CompleteImport(i) \/ CompleteRejects(i)
  \/ SendCommit(i) \/ CommitReturns(i) \/ CommitLost(i) \/ ResolveCommit(i)
  \/ FailImport(i)

WorkerFault(i) ==
  /\ i \in Faulty
  /\ \/ FetchFails(i) \/ ArchivePutFails(i) \/ RecordArchiveFails(i)
     \/ CheckRollbackLost(i) \/ PersistFails(i) \/ ResolveFails(i)
     \/ FailUnrecorded(i) \/ Crash(i)

Server(i) == ServerCommitArchive(i) \/ ServerCommit(i) \/ ServerAbort(i)

Next == \E i \in Import : StartImport(i) \/ WorkerStep(i) \/ WorkerFault(i) \/ Server(i)

Spec == Init /\ [][Next]_vars

\* As in AlertIngest: live workers go on, the server decides transactions.
Fairness == \A i \in Import : WF_vars(WorkerStep(i)) /\ WF_vars(Server(i))

FairSpec == Spec /\ Fairness

-----------------------------------------------------------------------------
(* Implementation of GTFSNetwork.                                          *)

Succeeded == {i \in Import : imports[i].status = "succeeded"}

InstalledImports == {[import |-> i, download |-> imports[i].download] : i \in Succeeded}

Installed == INSTANCE GTFSNetwork WITH current <- CurrentImport, installed <- InstalledImports

(***************************************************************************)
(* Concurrent imports, the early duplicate check, lost commits and crashes *)
(* never show: the current network changes only by installing a whole      *)
(* archive that skipGTFSReason allows over the one it really replaces.     *)
(***************************************************************************)
ImplementsNetwork == Installed!Spec

(***************************************************************************)
(* Workers importing concurrently never take the network back: while the   *)
(* source always sends Last-Modified, or never does, the network that is   *)
(* current is the newest any of them installed (skipGTFSReason inside the  *)
(* locked transaction of CompleteImport).                                  *)
(***************************************************************************)
CurrentIsNewest == Installed!CurrentIsNewest

(***************************************************************************)
(* The network tables and the import history agree: at most one import is  *)
(* current, it succeeded, and the routes, stops and relations stored are   *)
(* that import's and come from the archive it recorded; without a current  *)
(* import the tables are empty.                                            *)
(***************************************************************************)
NetworkIsCurrent ==
  /\ \A i, j \in Import : imports[i].is_current /\ imports[j].is_current => i = j
  /\ \A i \in Import : imports[i].is_current => imports[i].status = "succeeded"
  /\ network = IF CurrentImport = NoNetwork THEN NoNetwork
               ELSE [gtfs_import_id |-> CurrentImport.import,
                     body |-> CurrentImport.download.body]

(***************************************************************************)
(* An import that was used is archived: a succeeded or skipped import      *)
(* links a raw_archives row whose object is in the store under the key of  *)
(* the very download it interpreted.                                       *)
(***************************************************************************)
ArchivedBeforeUse ==
  \A i \in Import :
    /\ imports[i].status \in {"succeeded", "skipped"} =>
         imports[i].raw_archive = KeyOf(imports[i].download)
    /\ imports[i].raw_archive # NoKey => imports[i].raw_archive \in rawArchives \cap objects

(***************************************************************************)
(* What a worker reports is what the database holds: an import reported    *)
(* without error is succeeded or skipped, one reported failed is failed.   *)
(***************************************************************************)
ReportMatchesRow ==
  \A i \in Import :
    /\ At(i, "ok") => imports[i].status \in {"succeeded", "skipped"}
    /\ At(i, "failed") => imports[i].status = "failed"

(***************************************************************************)
(* Every import ends, unless its process died, could not learn a commit's  *)
(* outcome or could not record its failure; and no worker waits for the    *)
(* lock for ever, whatever became of its holder.                           *)
(***************************************************************************)
ImportsSettle ==
  \A i \in Import : imports[i].status = "running" ~>
    imports[i].status \in Terminal \/ worker[i].pc \in {"dead", "unknown", "unrecorded"}

=============================================================================

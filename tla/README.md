# Verification of transit-observatory

transit-observatory collects a transit agency's service alerts (GTFS-Realtime)
and network (GTFS), keeps every raw response in an archive, and serves current
alerts, their history and analytics.  This directory models the two ingestion
pipelines, the archive they write to, the history they build, the parser of the
network, the queries, views and status report that read meaning back out, and
the way of a page's request through the API.  Names follow the source.  Paths
are relative to the repository.

## 1. The system

| Part | State it keeps | Operations | Talks to |
|---|---|---|---|
| Alert worker, `internal/ingest/alerts.go` | local: the fetched body, the decoded summary | `AlertService.Run`: start, fetch, archive, record archive, decode, complete, or `fail` | feed, archive store, PostgreSQL |
| Alert store, `internal/database/alerts.go` | `ingestion_runs`, `service_alert_snapshots`, `service_alerts`, `service_alert_revisions` | `StartAlertRun`, `CompleteAlertRun` (stale and duplicate checks, reconciliation, closing), `FailAlertRunWithFailure` | advisory lock, row locks |
| GTFS worker, `internal/ingest/gtfs.go` | local: the downloaded file | `GTFSService.Run`: start, fetch, archive, record archive, early duplicate check, parse, complete, or `fail` | download server, archive store, PostgreSQL |
| GTFS store, `internal/database/gtfs.go` | `gtfs_imports` with one `is_current`, `routes`, `stops`, `route_stations` | `StartImport`, `SkipIfImported`, `CompleteImport`, `FailImportWithFailure` | advisory lock |
| Archive recording, `internal/database/archive.go` | `raw_archives`, the link columns of both run tables | `RecordAlertArchive`, `RecordGTFSArchive` | |
| Archive stores, `internal/storage` | objects in a directory or a bucket | `Put`, create-only and verified | file system, S3 |
| Episode views, `internal/database/migrations/00005_api_read_model.sql` | none, derived from the revisions | `alert_revision_episode_membership`, `alert_episodes` | read by analytics |
| Status, `internal/database/status.go` | none, derived from the run tables | `GetStatus` | read by the API |
| GTFS parser, `internal/gtfs/parse.go` | the dataset being built | `ParseArchive`, file by file; `recordLimitReader` | its dataset is inserted by the GTFS store |
| Read repositories, `internal/database/*read_repository.go` | none | read transactions of one to four queries: alert lists, pages, details, lines, analytics | the tables ingestion writes |
| HTTP API, `internal/api/server.go`, `cmd/api/main.go` | running handlers, their contexts, the pool | handlers under a deadline; shutdown on a signal | read repositories, clients |
| Web client, `web/src/api/client.ts`, `web/src/app/query-client.ts` | one call: timer, abort signal, promise | `getJson`, `shouldRetryRequest` (called by React Query, which pauses offline and on hidden pages) | API |
| Deployment, `deploy/` | | cron: alerts every five minutes, GTFS daily; no restarts; manual runs possible | starts workers |

Each worker process executes one run and exits.  Nothing stops two of them from
running at once (a slow run meets the next cron tick, or an operator starts one
by hand), so PostgreSQL and the archive are shared by concurrent writers that
can die at any point.

What is hard here:

* **Concurrency.**  Fetch order, observation order and commit order are three
  different orders.  An advisory lock makes the completing transactions
  exclusive, but a worker decides and prepares outside it.
* **Lost commits.**  `Commit` may return an error although the server committed,
  or will.  The code reads the row back, reports an unknown outcome if it
  cannot, and otherwise fails the run, possibly while the commit is still
  undecided.
* **History.**  Revisions are derived incrementally from full snapshots.  Windows,
  current revision, row and runs must agree after any sequence of changes,
  closings and returns.
* **Derived meaning.**  Episodes are inferred from equalities between times in
  the revision rows.
* **Durability.**  The archive is written by several processes at once; a put is
  acknowledged after files, links and directories were synced one by one, or
  after an HTTP reply that may be lost, late or about somebody else's object.
* **Reading while writing.**  A response takes several queries, and a list several
  requests, between which feeds are applied and networks imported.  What past
  alerts mean for a line is read through the current network.
* **Two programs for one rule.**  Parent rules are in the parser and in the tables,
  stations are resolved in Go and in SQL, time buckets are computed in Go and in
  SQL, records end where `encoding/csv` says and where the limiter thinks.
* **Who was first.**  A call's deadline, its caller's abort and its answer race in
  the browser; a signal, running handlers and the closing of the pool race in the
  server.
* **Partial order of downloads.**  Last-Modified is optional, so the rule for
  "newer network" is not an order in general.

What correctness means, part by part: the alerts of a source are what its newest
applied feed says, and its revisions replay all of them; a run's row and its archive
link agree, and so does what the worker reports, unless it reports that it could not
record or learn the outcome; a terminal row is final; every run ends
and no lock stays held; the network tables are those of the one current import
and do not go back in time; an archived object is written once, whole, and stays
where the store's root does; an episode is an appearance; what the parser accepts can be stored and means the
same to both sides; an answer is of one moment and a walk over pages misses only
what left; a call ends, by the first cause that decides it, and a page gives up
only over errors that are real.

## 2. Modules

| Module | Models | Lines of the source |
|---|---|---|
| `AlertRevisions` | pure operators: one feed against the stored rows | `reconcileAlert`, `insertAlertRevision`, `closeMissingAlerts`, `observationTime` |
| `AlertHistory` | abstract specification: feeds applied whole and in observation order | the effect of `CompleteAlertRun` |
| `AlertHistoryProofs` | TLAPS proofs about `AlertHistory` | |
| `AlertIngest` | workers, transactions, lock, archive and faults; implements `AlertHistory` | `AlertService.Run`, `CompleteAlertRun`, `recordArchive`, `FailAlertRunWithFailure` |
| `AlertIngestProofs` | TLAPS proofs about `AlertIngest`, its refinement included | |
| `AlertEpisodes` | the SQL views over an `AlertHistory` state, with the feeds kept as a history variable | `00005_api_read_model.sql`, the series query of analytics |
| `AlertReads` | read transactions, page walks and line analytics over `AlertEpisodes`, while feeds and imports arrive | `read_repository.go`, `network_read_repository.go`, `analytics_read_repository.go`, `alert_revision_lines`, paging of `handleAlerts` |
| `AlertReadsProofs` | TLAPS proofs about `AlertEpisodes` and `AlertReads` | |
| `GTFSOrder` | pure operators: when a download is skipped | `skipGTFSReason` |
| `GTFSNetwork` | abstract specification: which download may replace which | the effect of `CompleteImport` |
| `GTFSImport` | workers, transactions, lock, archive and faults; implements `GTFSNetwork` | `GTFSService.Run`, `SkipIfImported`, `CompleteImport`, `recordArchive`, `FailImportWithFailure` |
| `GTFSParse` | the parser record by record, the tables' constraints, the view over parents | `ParseArchive` and what it calls, `insertRoutes`, `insertStops`, `insertRouteStations`, migrations 00003 and 00005 |
| `RecordLimit` | the record limiter byte by byte beside the CSV reader it guards | `recordLimitReader` |
| `GTFSProofs` | TLAPS proofs about `GTFSParse`, `RecordLimit`, `GTFSImport` and `GTFSNetwork`, the refinement included | |
| `StoreObjects` | calls, keys and contents shared by the three store modules | |
| `ObjectStore` | abstract specification: what `Store.Put` promises, power loss included, in a firm place or not | `Store`, `PutRequest`, `Object` of `storage.go` |
| `ObjectStoreProofs` | TLAPS proofs about `ObjectStore` | |
| `LocalStore` | `Put` by file operations; implements `ObjectStore` | `local.go` |
| `LocalStoreProofs` | TLAPS proofs about `LocalStore`, its refinement included | |
| `S3Store` | `Put` by requests; implements `ObjectStore` | `s3.go` |
| `S3StoreProofs` | TLAPS proofs about `S3Store`, its refinement included | |
| `IngestionStatus` | the verdicts of the status endpoint over both run tables, with the clock | `status.go` |
| `RequestPath` | a page's call and its retry, the handlers behind it, the process that shuts down | `client.ts`, `query-client.ts`, the handlers' common skeleton, `cmd/api/main.go` |
| `ApiProofs` | TLAPS proofs about `RequestPath` and `IngestionStatus` | |
| `MC...` | instances for TLC | |

`AlertRevisions` has no variables, so that the abstract and the detailed
specification apply the very same reconciliation.  `AlertIngest` and
`GTFSImport` name the abstract modules with `INSTANCE ... WITH`; the refinement
mappings (`AppliedRuns`, `InstalledImports`, `CurrentImport`) read the succeeded
rows of the run tables.  Their `ArchivePut` stands for a put that answered created
or existing and `ArchivePutFails` for one that answered conflict or failed, with
the object possibly stored, which is what `ObjectStore` allows.  They take a created
object to stay, as a firm store promises.

Operators named in a comment `Mutant:` are wrong versions of the definition that
follows them, each a plausible slip in that code; every property below is
violated when one of them is put in place.  No specification uses them.

### State and actions against the code

* A run id also names its worker.  `worker[r].pc` is the place in `Run` (or, after
  `fail`, how `Run` returned); `run[r]` / `imports[i]` is the table row; `txn[r]`
  is the server's side of the worker's open transaction.
* A transaction's statements take effect at its commit.  This is sound because
  the transactions that read and write shared rows hold the advisory lock, and
  the others touch only the run's own row, whose lock `RowLocked` models.
* COMMIT is three steps: sent (`CompleteCommit`, `SendCommit`, `RecordAlertArchive`),
  decided by the server (`ServerCommit...`, `ServerAbort`), learnt (`...Returns`,
  or `...CommitLost` followed by a resolving query).  Between the first two the
  worker may already be resolving or failing the run.
* `fail` is one UPDATE guarded by `status = 'running'` that waits for the row's
  lock; its five-second limit is `FailUnrecorded`, with or without effect.
* A body is identified with its SHA-256.  `Feed[b]` and `Archive[b]` say what
  decoding, parsing and inserting that body meets; everything refused between
  two points of the code with the same consequence is one flag.
* `Time` is instants at the database's resolution.  A feed's own timestamp and the
  worker's clock are unrelated, as in the code.
* `recordArchive` accepts a run that is already linked to the same archive.  A
  worker records once per run, so that branch cannot be reached and has no
  action.  A refused `INSERT` of a run leaves nothing, so it is no step.
* In `LocalStore`, `linked` holds the files under their final names and `temp` each
  call's temporary one; `named` and `rooted` are the names and directories that
  were synced.  A power loss keeps what is synced and any part of the rest; a file
  whose bytes were not synced may come back torn.  `Put` begins by making the root
  and its missing parents (`MkdirRoot`), and no call syncs the directory that holds
  the root's name, so a root the calls made themselves (`root = "made"`) may be lost
  with everything synced below it (`RootLost`).  `Init` lets the root be in place or
  absent, and no step changes the first (`InPlace`): it decides whether the tree is a
  firm `ObjectStore`.
* In `S3Store`, one PUT is sent, decided by the service and answered in three
  steps.  The SDK may resend it, and a copy whose call was given up may be decided
  at any later time.  Objects written by others may carry any metadata.
* `ObjectStore` promises survival only to the call that created the object, and
  only where the place itself stays (`firm`): a bucket, or a directory whose root was
  in place.
  `verifyExisting` of the local store acknowledges an object that another process
  linked without syncing the directory itself, so "existing" may be lost with the
  power.  An object whose metadata differ is a conflict on S3, whatever its body.
* In `IngestionStatus` a run is reduced to the times and the verdict that status
  reads.  `completed_at` is `now()`, the start of the ending transaction, which may
  wait for the lock long before it commits: `ending` holds the transaction and
  `ended` the time of its commit.  An acceptance that began before a failure and
  committed after it does not clear the failure, and the reverse; the properties
  therefore compare an acceptance's commit with a failure's beginning.  Only the
  latest attempt is examined for being overdue; a hung run behind a newer one is
  not reported.
* Deletion notices (`is_deleted`) are part of an alert's content and are told
  apart only in `AlertEpisodes` and `AlertReads`.
* In `AlertReads` a transaction keeps the snapshot of its first query
  (`REPEATABLE READ`) and its second query reads that; feeds may be applied
  between the two and between pages.  `ids` gives alerts their serial numbers, by
  which ties are ordered.  A walk records which alerts stayed listed all along
  (`stayed`); OFFSET pages may skip one of those only after another left the list
  before it, and show one twice only after another came, which is what
  `WalkMissesOnlyLeavers` says.  The filter by line stands for those by station,
  cause and effect, which have the same form.  Which alerts concern a line follows
  from the current network (`LineContents`), which `ImportArrives` replaces: a filtered
  list and the counts of past days may change with it.
* Durations follow the view: an appearance that ends by a notice of deletion ends
  with its first notice (`ObservedSpan`), one that ends by vanishing with the last feed
  that showed the alert.
* In `GTFSParse` each file is read record by record and any record may be the
  last; a record's remaining fields are reduced to the first defect the code would
  reject, and to whether the columns can hold them.  `Load` then inserts under the
  constraints of migration 00003.  Archives whose values do not fit the columns
  are refused there; `AcceptedIsLoadable` says that this is the only reason.
* In `RecordLimit` both machines see the same bytes.  `Csv` is `encoding/csv` with the
  settings of `csvRows`, modelled from its documentation and its use here.
* In `RequestPath` a request is a query with the number of its attempt, so a first
  attempt's handler can still run beside the second's.  A promise that settled and
  the code awaiting it are two steps, between which timers and aborts may fire.
  `createQueryClient` leaves React Query's defaults alone, so a first fetch waits while
  the browser is offline (`PauseFetch`) and a retry, or a paused fetch, until it is
  online and the page visible (`MayStart`); `browser` holds these conditions.
  "aborted" is any error thrown at a caller that gave up, whatever its kind.  A
  connection the server has may bring a request after `Shutdown` began, or after
  `Serve` failed, until the process ends (`HasConnections`).
  Handlers share one skeleton (validate, ask the repository under a deadline,
  write the answer or the error), which `Answers` and `Handle` model once.

## 3. Runs

| Run | Instance | States | Shows |
|---|---|---|---|
| `alert_history` | 4 feeds, 2 sources, 2 entities, contents a, b and deleted, times 0..3, stamped and unstamped | 79k | rows, windows, traceability, replay, append-only; the views recover appearances and durations |
| `alert_episodes_return` | 3 feeds with one timestamp | | **violated**: see section 6 |
| `alert_durations` | 2 feeds, 2 entities, times 0..2 | | **violated**: see section 6 |
| `alert_reads` | 4 feeds, 2 alerts, 2 networks, pages of one, two filters, one line, times 0..2 | 492k | answers of one moment, complete walks, last live revisions, series that add up, past counts that change only with the line list |
| `alert_ingest_order` | 3 workers, 2 sources, no faults, 3 feeds, 2 times | 881k | skips are justified and lose nothing |
| `alert_ingest_faults` | 2 workers, 1 source, every fault at every step, 5 feeds, one refused at each stage | 301k | archive and report; `AlertHistory` is implemented; every run ends |
| `gtfs_import` | 2 imports, every fault, 8 downloads with orders that disagree and refused archives | 354k | `GTFSNetwork` is implemented and never goes back; tables, marker, archive and report agree; every import ends |
| `gtfs_parse` | 2 routes, 3 stops of every type and parent, 2 trips, limits of 1 to 3 records; all streams over 5 kinds of bytes, records of up to 40 | 70k | accepted archives load; both station walks agree; the limiter fails on long records and on nothing else |
| `local_store` | 3 puts of one key, 2 of them failing or killed anywhere, power losses, with the root in place or not | 198k | implements `ObjectStore`, a firm one below a root in place; no temporary files left; losers of a race verify the winner |
| `s3_store` | 2 puts of one key, one with lost replies, resends and late copies | 383k | implements `ObjectStore`; own writes are recognised; every put ends |
| `ingestion_status` | 3 attempts in either table, clock 0..2, 3 kinds of response, one failure listed | 1.0M | trouble shows, acceptance clears it, "ok" means a recent accepted run |
| `request_path` | one query and its retry, one API process, a browser that goes offline and hides the page | 898k | the first abort decides, final errors are real, handlers are cancelled before the pool closes, every call ends unless it waits for the network or the page |

In `local_store` each of the three syncs and the create-only link is needed:
leaving out any one of `SyncChain`, `SyncTemp` and `SyncDir`, or linking over an
existing name, violates `ImplementsStore`.

Some facts need no property of their own because a refinement or a liveness
property already fails without them: recording a failure over a terminal row, or
deciding a verdict outside the advisory lock, violates `ImplementsHistory` (or
`NetworkIsCurrent` and `ImplementsNetwork`); a lock that outlives its transaction
violates `RunsSettle`; a second creator violates `ImplementsStore`.

**Bounds.**  The ids in `Run` and `Import` are the only counters, and they bound
the number of attempts.  Two workers are needed for any race.  Three are needed
where a verdict depends on a run that a third one overtook (`alert_ingest_order`);
there faults are switched off (`Faulty = {}`), because two workers with faults
already cover them.  A revision needs three feeds to open, close and be followed,
and a fourth to show that the closed one is left alone.  `alert_history` and
`alert_ingest_order` have two sources, so that one could close or overtake the
other's alerts.  Two times suffice for before, equal and after
between two runs; `alert_history` uses four so that a window has an inside and
the appearances around it do too.  A page walk needs two alerts and pages of one;
a week of two days has an inside and a boundary; two networks that disagree on both
live contents move alerts into a line's list and out of it.  Three stops suffice for the
longest legal chain (boarding area, platform, station) and for a cycle; each
limit of the parser is reached and passed.  The parser and the limiter share no variable
and no property is about both, so `MCGTFSParse` explores each while the other is at its
start.  The limiter's behaviour does not
depend on its limit beyond a few bytes, and `RecordLimitHolds` is proved for all.
The stores need two writers of one key for a race; the third in `local_store` is
free of faults, so that it can lose to a writer that fails after publishing.
`MaxPutAttempts` is the code's 3; one resend (`MaxResends`) makes a put meet its
own object, and more repeat that.  `ingestion_status` needs an acceptance and two
failures, hence three attempts, and three instants, for before, during and after.
In `request_path` calls of different pages share nothing but the process, and the
two attempts of one already give it two handlers at once.  Symmetry is used only
on model values that no property orders, and never in the runs with liveness.
Deadlock checking is off where every behaviour ends when its attempts, or its
files, are used up.

**Fairness.**  `alert_ingest_faults` and `gtfs_import` assume weak fairness of
each worker's own steps and of each transaction on the server.  A Go process
that is not dead keeps running, its calls have deadlines, and PostgreSQL decides
every transaction, also that of a client that is gone.  Nothing is assumed about
the feed, about new runs or about faults ceasing.  Waiting for the advisory lock
needs no strong fairness in these runs since each run takes it a bounded number
of times.  `s3_store` assumes weak fairness of each caller's steps and of the
service's decision on a request in flight, and nothing of late copies.
`request_path` assumes that the browser runs its timers and settled promises (weak
fairness), and that React Query starts a fetch or retry it held back when the event of
the network's or the page's return lets it: strong fairness of `GetJson`, since the
conditions may fail again, and the events resume a paused call each time they hold.  Nothing
is assumed of the server, nor that the network or the page ever comes back: `PagesSettle` is
about behaviours in which the browser is online and the page visible again and again,
and a page that the browser froze or discarded is one that never is.  A worker
that died, could not learn its commit's outcome or could not
record its failure may leave its row `running` for ever; the properties say
exactly that, and the code has no step that repairs such a row.

## 4. Proofs

The theorems hold for every value of the constants: any number of runs, imports,
calls, queries, keys and faults.  Where a theorem names a property, a run of
section 3 checks it on a small instance.  Every invariant and every action
property of the passing runs is proved; what is left to the runs is liveness.

| Module | Inductive invariant | Proves |
|---|---|---|
| `AlertHistoryProofs` | `Inv` | `WindowsOrdered`, `Traceable`, `ShowsNewestFeed`, `HistoryReplays`, `HistoryAppendOnly`, and `RowsAgree` |
| `AlertIngestProofs` | `IngestInv` | `ArchivedBeforeUse`, `ReportMatchesRow`, `SkipJustified`, `ImplementsHistory`, `DuplicateSkipLosesNothing`, types, and the history's invariants and append-only steps |
| `AlertReadsProofs` | `EpisodeInv`, `RowsSpan`, `ReadsInv`, `WalkInv`, `FiniteRows` | `EpisodesAreAppearances`, `SpansAreObserved`, `HistoricalShowsLastLive`, `PastChangesOnlyWithLines`, `Coherent`, `WalkMissesOnlyLeavers`, `SeriesAddUp` |
| `GTFSProofs` | `ImportInv`, `NetworkInv`, `ParseInv`, `LimitInv` | `NetworkIsCurrent`, `ArchivedBeforeUse`, `ReportMatchesRow`, `ImplementsNetwork`, `CurrentIsNewest`, `AcceptedIsLoadable`, `StationsAgree`, `FailsOnLongRecords` |
| `ObjectStoreProofs` | `StoreInv` | in a firm place: one creator per key, created objects stay; anywhere: none is replaced |
| `LocalStoreProofs` | `LocalInv` | `NoTemporaryFiles`, `LoserVerifies`, `ImplementsStore`, and the store's promises of files |
| `S3StoreProofs` | `S3Inv` | `OwnObjectsRecognised`, `ImplementsStore`, and the store's promises of objects |
| `ApiProofs` | `PathInv`, `StatusInv` | `FirstAbortDecides`, `OnlyRealErrorsAreFinal`, `NoHandlerIsSurprised`, `TroubleShown`, `AcceptanceClears`, `OkIsRecent` |

**Assumptions** are the named `ASSUME`s of the modules, which TLC evaluates in
every run that extends them: times are naturals, run and import ids are naturals
(serial numbers), null values lie outside the sets they stand beside, `Feed` and
`Archive` map bodies to what they hold, a body lists finitely many alerts
(`BodyAssumption`), limits, pages, days and weeks are positive.  None restricts the
order of events, who fails, or what feeds and downloads contain.

**The alert history.**  None of the five invariants is inductive.  `SeenAgain`
moves `last_seen_at` over observations it never compares with, so
`HistoryReplays` needs to know that while an alert is present every applied feed
observed after its current revision began listed that content (`OpenReplays`);
that in turn needs `NeverListed` for entities without a row and
`ShowsNewestFeed` to relate the row to the feed applied last.  `Inv` is their
conjunction per entity (`EntityOK`), and the proof follows `ReconcileFeed` case by
case: new alert, seen again, changed, returned, missing while present, missing
while absent; each case has a lemma per conjunct.  `NeverRewrites` is the action
property, from the same invariant.

**Alert ingestion.**  A row, a worker and a transaction on the server are three
views of one run that a lost commit or a crash leaves at different stages.
`RunOK` says which combinations occur: `RowOK` (row and archive), `ProgressOK`
(how far the worker can be, and what it holds by then), `ReportOK` (what it
reports) and `TransactionOK` (transactions that outlive the call that began
them).  `ReportMatchesRow` needs all four: that a worker in `fail` finds a
succeeded row only if its own commit was decided late depends on where its
transaction can be.  The refinement needs `VerdictOK`: a verdict reached under
the advisory lock is still the right one when the server decides the commit.
It is preserved because a commit of another run would need the same lock.
`LatestOK` gives `ORDER BY ... LIMIT 1` a definite answer.  Most actions only move
a worker to another place; one lemma classifies those moves (`Moving`), and the
rest have one lemma each.  `ImplementsHistory` then maps each server-side commit of
an applying run to `Apply` and every other step to a stutter.  Through it
`Inv` and the append-only steps of `AlertHistoryProofs` carry over
(`IngestKeepsHistory`, `IngestNeverRewrites`), which also gives the
type of the alert rows and `DuplicateSkipLosesNothing`.

**GTFS import.**  `ImportInv` has the same shape.  Here two transactions may hold
the advisory lock, the early duplicate check and the installation, and the check's
transaction may still be open while its worker parses; `ReasonOK` says that the
reason found under the lock stays right.  `NetworkIsCurrent` is itself inductive
beside it.  `NetworkNeverRegresses` is about the abstract `GTFSNetwork`: the rule
compares with the current import only, and the proof shows that it is transitive
when Last-Modified is always or never present.  With a mixture it is not: a
network without a stamp can replace a stamped one and be replaced in turn by an
older stamped one requested later.  `CurrentIsNewest` states the condition; the
downloads of `gtfs_import` include mixtures.  `ImportsNeverRegress` carries it over
to the concurrent imports by `ImportImplementsNetwork`.

**The archive stores.**  `CreatedIsStored` of `ObjectStore` is not inductive: a
call becomes "created" from "stored", so the invariant speaks of every
confirmable write (stored or created): it is there, and it is the only one of its
key.  A power loss fails every unconfirmed write, which keeps the second part.
`LocalInv` says, for each place in `Put`, what is synced by then: the temporary file
before it is linked (`TempOK`), the directory before a file is put into it and the
entry before the caller hears of it (`DirOK`), so that after a power loss a created
object is whole (`KeyOK`); `FilesOK` excludes torn files under final names.
`S3Inv` ties each object this store wrote to the request that wrote it
(`WrittenOK`), so a reply "ok", also to a resent or late copy, is about the caller's
own object.  Both refinements are proved step by step (`LocalImplementsStore`,
`S3ImplementsStore`); a power loss of the local store maps to one of `ObjectStore`
with the calls that lost their names.  The theorems of `ObjectStoreProofs`, taken
through `INSTANCE`, then give `CreatedFileStays`, `FilesNeverReplaced`,
`CreatedObjectStays` and `S3ObjectsNeverReplaced`.  What `LocalInv` says of a call that
answered "created" holds only if the root was in place (`InPlace`), which no step
changes (`InPlaceStays`) and which rules `RootLost` out.  `LocalImplementsStore` covers both
cases, with `firm <- InPlace`; `CreatedFileStays` is conditional on it, and
`FilesNeverReplaced` is not.  Below a root that `Put` made, an acknowledged object may be
lost with the root: that is what the code does, and the contract says no more.

**The request path.**  The run checks one query; the theorems hold for any number
of queries sharing one API process.  The three properties are about ended calls,
so `PathInv` adds what leads there: while a call lasts its timer and promise are its
own and an abort has set a reason (`CallOK`); a body is read only after a status
arrived, and a status says what is so (`ExchangeOK`); the pool closes only after
every request was cancelled (`ServerOK`).

**Episodes.**  The views see revisions, the properties speak of feeds.  `EpisodeInv`
adds to the history's `Inv` what every row remembers of the feeds applied so far
(`RowTells`): revisions are in order of their times, the row shows what the last
feed said, there are as many live episodes as appearances (at most as many when
feeds share a time), and the last live revision says what the last live feed said.
Each is a statement about a sequence of feeds, and applying one more is the
induction step, so no induction over data is needed: `ReconciledStep` reduces what
a feed does to a row to six cases (`RowStep`), and each part of `RowTells` has a
lemma on those.  That membership numbers episodes by counting starts is
`EpisodeNumberOrder`; `CountedEpisodesCount` and `AppearancesCount` turn both counts
into cardinalities of sets of starting points.  `SpansAreObserved` needs more than
the completed episodes, since a feed completes the open one: `SpansAgree` adds that the
open episode began with the open appearance and was last seen with the last feed.
`PastChangesOnlyWithLines` is an action property; `FirstConcernStep` shows that a feed
changes what a line counts only at its own time or later, and an import that gives the
line the same contents leaves the count as it was.

**Reads.**  `ReadsInv` says that a transaction holds a database that was committed
when it began and what its first query read there; `Coherent` then compares two
queries on one database.  `WalkInv` says where the walk is: an alert that stayed is
seen or not before the next page as long as none left, and seen once and before it
as long as none came (`PlaceOK`).  During a page's transaction this is so in its
snapshot, and between snapshot and database alerts moved forward only if one left
and back only if one came (`MovesOK`), because a feed stamps what it changes with a
time at or after every earlier one (`SortKeyGrows`), and because an
import only puts alerts on the list or takes them off (`DataMovesRanks`).  A position in the
list is a rank: how many are listed before it (`RankFacts`, `OrderFacts`).

**Series.**  Go counts back from a day to its Monday, `date_trunc` takes the last
Monday not after it, and both multiply by the length of a day; `LastMultiple` says
that these agree, for any lengths.  So intervals start one step apart and every instant
is in its own (`TruncFacts`), and the buckets made in Go are those of `generate_series`
and cover the window (`BucketsAgree`).  `CountsAddUp` is about the sum itself, a
recursive function on sets of buckets.  `FiniteRows` is the invariant that makes the
counts numbers: a feed adds finitely many alerts.

**Recursion and induction.**  The library's induction theorems cannot be used, but
well-foundedness can: a non-empty family of subsets of a finite set has a minimal
member (`FiniteMinimal`), and a non-empty set of naturals a least one
(`LeastNatural`), which gives arguments by least counterexample.  A recursive function
is a `CHOOSE` of a solution of its equation; the proofs exhibit a solution
(the size of the union of the buckets, the station a stop's type leads to) and show that
there is no other where it is used.

**Ingestion status.**  `StatusInv` says of each table that the times of a row are in the
order of the database's clock, an accepted one fetched within the worker's clock error
(`TimesOK`), that ids are given out in the order of the starts (`StartsInOrder`), and that
every set of rows a query orders has a first one (`TopsExist`); the last is what makes
`ORDER BY ... LIMIT 1` mean something for infinitely many ids, and it survives each step
because at most one row joins (`TopGrows`).  The three properties follow from it without
a further step.

**The parser.**  `AcceptedIsLoadable` is about the end of a parse.  `ParseInv` says
what holds on the way: ids stay distinct, which makes the stop found by an id the
stop itself; parents were checked once `stops.txt` ended and stops do not change
afterwards; relations are made only then, from routes and stations that were read.
The constraints of migration 00003 follow rule by rule (`CheckedStopsAccepted`).
For `StationsAgree`, `ParentsChecked` bounds the way up: a boarding area's parent is a
platform, an entrance's is a station, a platform's is one if it has any, and a station
has none.
So `resolveStation` never meets a cycle and ends at `StationAbove`
(`ResolveFindsStation`), and so does the recursive view (`ViewFindsStation`).

**The record limiter.**  `FailsOnLongRecords` alone does not say where in a record
the two machines are: `InStep` adds that the limiter is between quotes exactly when
the CSV reader is, waits for a second quote exactly when it does, and that
`remaining` is the limit less the bytes of the record read so far, or the whole
limit where a record starts.

**Only model-checked:**

* `RunsSettle`, `ImportsSettle`, `PutsEnd` and `PagesSettle`: liveness under
  fairness is outside what the prover can do.
* `ReturnsAreCountedAgain`, the documented claim of section 6, which is refuted.
  `EpisodesAlwaysAppearances` is what holds in its place.
* `DurationsEndAtLastAppearance`, refuted likewise; `SpansAlwaysObserved` is what holds.
* That the instances reach the cases they are meant for, which the mutants show.

## 5. Not modelled

The field-by-field decoding of protobuf, the feed client's single retry and the
temporary files of a download; queries of the same form as the modelled ones
(enrichment, station search, breakdowns, medians); the syntax of each query
parameter, CORS, health checks and rendering of the API; the envelopes' validators
and the pages of the web client; configuration and migrations.  `PROJECT.json` lists each part with its
reason and the hazards no property covers.

A feed stamped far in the future makes all later feeds stale.  The code bounds
timestamps only by `int64`, so this is how it behaves; it is listed as a hazard
and no property excludes it.

Two feeds with equal observation and retrieval times are ordered by run id, so the run
a duplicate check compares with need not be the one applied last.
`DuplicateSkipLosesNothing` excludes that tie (`UniqueNewest`).  Status does not look at
`source_url`: with two alert sources an accepted run of one would hide a failure of the
other; one source is deployed, and `IngestionStatus` has none.  A hung run behind a newer
attempt is not reported as trouble, and `TroubleShown` does not claim it.

Two edges of the reading side are left out.  `total_pages` counts the whole list
while pages above `maxHistoricalAlertPage` (1000) are refused, a bound one agency's
alerts do not reach.  `generate_series` steps in the session's time zone, which the
code does not set; the model has UTC, the server's default.

## 6. Where documentation and code disagree

`internal/database/analytics_read_repository.go` tells users: "An alert is counted
once each time it appears. If it disappears and later returns, it is counted
again."  `alert_episodes_return` shows the exception.  Three different bodies
with the same feed timestamp list an alert, drop it and list it again.  All are
observed at the same time, so the first revision's `closed_at` equals the second's
`first_seen_at`, the membership view sees no gap, and one episode is counted.
`EpisodesAreAppearances` shows that this is the only way: with distinct
observation times counts are exact, and no appearance is ever invented.

The same list says: "For alerts that ended, duration runs from the first to the last
time the alert appeared. It does not include the time needed to confirm that the alert
had ended."  `alert_durations` shows an alert in one feed and its notice of deletion in
the next.  The view `alert_episodes` ends such an episode at the first notice, and
`read_repository_integration_test.go` expects that, so the duration includes the time
between the last appearance and the notice.  `SpansAreObserved` says what durations are
instead; for alerts that end by vanishing from the feed the text is right.

## 7. Plan

1. Done: all modules of section 2, and the proofs of every safety property the
   runs check, refinements included.
2. Smaller extensions of the model: the feed client's retry; the outcomes of the
   download's temporary file.
3. Liveness stays with TLC.

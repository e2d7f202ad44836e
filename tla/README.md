# Formal model of Identity Access Graph

TLA+ specifications of Identity Access Graph, model-checked with TLC, with theorems about the core proved with
TLAPS.  Source paths below are relative to `apps/backend/src/` unless they start with `apps/`, `docs/` or
`packages/`; a path that starts with `frontend/` is relative to `apps/frontend/src/`.

Contents: [1 The system](#1-the-system) · [2 Modules](#2-modules-and-the-code-they-model) ·
[3 Runs](#3-what-the-runs-check) · [4 Proofs](#4-what-is-proved) · [5 Disagreements](#5-where-code-and-documents-disagree) ·
[6 Not modelled](#6-what-is-not-modelled) · [7 Plan](#7-plan)

To check everything by hand, in this directory:

    tlc -workers 2 -config ImportCrash.cfg MCImportProcessing.tla     # one run; section 3 lists them
    tlapm ImportProcessingProofs.tla                                  # one module of proofs; section 4

## 1. The system

A NestJS backend (one or several instances over one PostgreSQL and one Neo4j database), a React frontend and
shared packages.  The backend imports identity data from files and directories, correlates it, builds a graph of
identities and access, and analyses it; the browser loads this graph and answers questions about it by itself.

JavaScript runs a handler without interruption between two `await`s; at every `await` any other handler, timer or
worker may run.  Writes to PostgreSQL are *tracked*: the promise is put in a set and a later `flush` awaits it, or
nobody does.  A statement is serialised when it is *sent*, which may be after the object it carries has changed.
Instances share only the databases; each keeps its own sessions, findings, identities and pipeline in memory and
reads them back when it starts.  In the browser the graph of a view and its caches are variables of a module: they
outlive the page.

| Component | State it keeps | Operations | Interacts with | What makes it correct |
|---|---|---|---|---|
| Import queue (`imports/import-queue.service.ts`) | table `import_jobs`: status, attempts, lease, checkpoint | enqueue, claim, checkpoint, complete, fail, failPermanent, requeueRecovered, cancel, retry | sessions and workers of all instances | a job is given up only after its attempts are used, is taken over when its worker dies, and every job ends |
| Import sessions (`imports/imports.service.ts`) | per instance: sessions, timers, caches of results; table `import_sessions` (a snapshot) | uploadAsync, upload, cancel, retryFile, removeFile, processQueuedJob, startup recovery, expiry | queue, chunks, operational store | a file is shown as inspected only when its rows are stored; no session stays in parsing; what failed can be retried |
| Import worker (`imports/import-worker.service.ts`) | number of active runs, poll timer | tick, runJob | queue, sessions | a checkpoint never runs ahead of the rows |
| Parsers and row chunks (`imports/parsers/`, `imports/import-chunk.service.ts`) | table `import_row_chunks` | parseCsv, parseExcel, parseJson, the chunked ones; append (upsert), rows | the run of a job | every row is stored or the sheet is marked as truncated |
| Mapping, classification, validation (`imports/mapping/`, `imports/validation/`) | – (computed per request) | suggest, override, validate, duplicates, references, normalised preview | derived results | a column reaches the records or is reported; duplicates are marked |
| Correlation, conversion (`imports/correlation/`, `imports/graph-conversion/`) | index of keys, groups; nodes, index of references | correlate, convert | derived results | records of one person meet, those of two do not; a relationship has the ends its reference names |
| Derived results (`imports/imports.controller.ts`, `imports/import-*.service.ts`) | caches in the session, tables of issues and graph chunks | setMappings, classify, validate, correlate, convert, persist | sessions, graph context, Neo4j | a result belongs to the rows and mappings the session has now |
| Graph context, enterprise graph (`graph/`) | current graph in memory and row, versions, snapshots | setImportedGraph, refresh, apply, diff, queries | imports, connectors, Neo4j | memory and row are the same graph; a COMPLETED version is wholly in Neo4j; all queries show the same graph |
| Operational store (`database/operational-store.service.ts`) | set of pending writes, list of write errors | save* (tracked), flush | every service | who was answered with success has had its writes stored |
| Connectors (`connectors/`) | configurations, sync runs, `active` set, own write list | create, update, delete, test, sync of AD, FreeIPA, Entra ID and Linux | directories, graph, risk | one sync per connector; no older reading of an object replaces a newer one; its end does not undo a change of the configuration |
| Identity resolution (`identity/`) | enterprise identities and rows | merge, previewMerge, create | graph, operational store | a source belongs to an identity for a reason; conflicts are shown; the preview shows what a merge does |
| Pipeline (`pipeline/`) | run, snapshots, current output and timer in memory; a row | start, pause, resume, next, previous, replay, reset | graph, operational store | data in hand matches the completed stages; RUNNING means that somebody runs it |
| Risk engine (`risk/`) | findings, scans, `scanning` flag, rows | scan, setStatus, reconcile | graph, operational store | analysts' decisions survive scans |
| Attack paths (`attack-path/`) | runs and their paths | search, reachable, choke points | graph context | every path returned exists, and no path within the limits is missed |
| Views in the browser (`frontend/services/`, `frontend/hooks/`) | a graph and a cache per view, the filter, expansions, traversals | business questions, Linux hosts, user profiles, graph workspace | REST interface | what is shown belongs to the graph of the chosen source; the views agree with each other |
| Settings, notifications, authentication, rate limiting (`settings/`, `notifications/`, `auth/`, `common/`) | settings, notifications, a bucket per client | read and write, guards | all requests | no more requests pass than the bucket grants |
| Neo4j, configuration, health, migrations (`neo4j/`, `database/`, `app/`) | – | wiring, schema | all | – |
| Other pages, shared packages (`frontend/pages/`, `packages/`) | answers of the REST interface | – | REST interface | – |

The hard behaviours, each at its line under `hazards` in `PROJECT.json`: a crash between the rows, the progress and
the checkpoint; two runs of one job after a lease ran out or a recovery requeued it; timers of sessions that are
still at work; objects that change between a save and its statement; errors of writes thrown at the wrong request;
requests that overlap in the pipeline's delays; results that are computed across an `await` and stored when they are
stale; keys that bring two persons together through a third record; limits of rows that cut silently; a directory
that changes while it is read, by runs that follow on each other; answers that reach the browser out of order; and
caches that outlive the graph they were filled from.

## 2. Modules and the code they model

| Module | Models | Uses |
|---|---|---|
| `ImportQueue` | one row of `import_jobs` per file and each operation of `ImportQueueService` on it | – |
| `ImportProcessing` | sessions, asynchronous uploads, runs of jobs, chunks, cancel, retry, timers, crash and recovery, on several instances | `ImportQueue` |
| `ImportContract` | abstract: what an import promises about its files | – |
| `CellText`, `FileParsers` | what is read off a cell; five parsers with their limits | – |
| `SheetRows` | suggestion and override of mappings, validation, normalised records | `FileParsers` |
| `RecordCorrelation`, `RecordConversion` | the loop of `correlate`, record by record; the two loops of `convert` | `CellText` |
| `ImportRows` | an import from its files to its graph, request by request | `SheetRows`, `RecordConversion` |
| `OperationalStore` | `track` and `flush` | – |
| `GraphStores` | graph chunks, risk source, graph context, versions in Neo4j | `OperationalStore` |
| `ImportResults` | uploads, mappings, classification, removal, validation, correlation, conversion and persist as requests that overlap | `GraphStores` |
| `DirectoryGraphs` | the four mappers of directories to graphs | – |
| `Connectors` | `ConnectorsService`, `ConnectorRepository` and the four sync services against a directory that changes | `DirectoryGraphs` |
| `IdentityRecords`, `IdentityResolution` | scores, conflicts and merged fields; merges and previews that overlap | `OperationalStore` |
| `Pipeline` | `PipelineEngine` and `PipelineService` with the requests that drive them | – |
| `RiskScan` | `RiskService` and `FindingRepository` with their writes | `OperationalStore` |
| `GraphView` | the graph as the browser holds it | – |
| `BusinessQuestions`, `LinuxHosts`, `UserProfiles` | what three views compute from a graph | `GraphView` |
| `GraphInvestigation` | filters, view modes, clusters, neighbourhoods, traversals of the graph page | `GraphView` |
| `AttackPaths` | the search of the backend's attack path engine | `GraphView` |
| `GraphQueries` | what the backend answers of the stored graph, versions and their comparison | `GraphView` |
| `GraphAgreement` | what the above have to agree on | all of them |
| `GraphScreens` | the pages that show a graph: loads, effects, caches, filter, expansion, traversals | `GraphInvestigation`, `GraphQueries` |
| `MC...` | instances for TLC | the module they are named for |
| `...Proofs` | theorems (section 4) | the module they are named for |

Definitions whose comment starts with "Slip" are plausible mistakes in the code (a dropped guard, a reset that is
forgotten); the mutants of `PROJECT.json` put each in place of the definition it follows and see a property fail.

### Imports: queue, sessions and runs (`ImportProcessing`)

`jobs[f]` is the row of file *f*: its status, attempts and checkpoint (`rows`, in chunks), and `stale` for a lease
that has run out.  `chunks[f]` are the stored chunk indices, `saved` the snapshot in `import_sessions`.  Per instance:
`session` (the object in memory, with `listed` for being in the map), `timer`, `upload` (where `uploadAsync` is),
`writes` (tracked `saveImport` calls under way, in `MaxWrites` slots), `cancelling` (`void queue.cancel`), `retry`
(the request between its check, `queue.retry`'s read and its save) and `recovery` (what the startup has left to do).
`run[w]` is a call of `runJob`: its step is named for the statement that comes next.

A run is claimed (`Claim`), starts or finds no session or source (`Start`), opens with a checkpoint
(`SaveCheckpoint`), reads over the rows that were stored before (`SkipRows`), and then goes round: parse a chunk
(`ParseRows`), upsert it (`AppendChunk`), report progress in the session (`ReportProgress`), checkpoint.  Both loops
look at the cancellation.  At the end the tracked writes are flushed, the file becomes inspected (`Finish`), the
session is flushed (`FinalFlush`) and checkpointed again and the job completed (`Complete`).  Any statement may fail
(`FaultInRun`), upon which `fail` reads and reschedules the job or gives it up (`FailReads`, `FailWrites`), or a
permanent error rejects it (`RejectJob`), and the file is marked (`MarkRunFailed`).  CSV and Excel differ in when the
last chunk is reported and in the checkpoint of an exactly full last chunk (`EvenFiles`).  A write of the snapshot has
three moments: it is called, with the cancelled flag of then; it is *sent* with the session as it is then
(`WriteSent`); and it lands (`WriteLands`), after writes sent later if it was slow, as each goes over a connection of
its own.  A retry checks the file, awaits the queue, and marks the file it found before (`RetryStarts`, `AcceptRetry`,
`RefuseRetry`).

`Crash` loses an instance's memory and its runs; `Restart` loads the snapshot, and `Recover*` requeue, give up or
mark each job that was unfinished.  `LeaseExpires` lets the lease of a job pass that no run holds; `RunStalls` that
of a live run.

### Imports: what is computed (`FileParsers` to `ImportRows`)

A file is the sequence of lines after its header, each a row of cells, blank or malformed; how a line is split into
cells is data.  The text of a cell is a model value, and `CellText` gives what the code reads off it: lower case, the
user part of a login, the parts of a list, the pattern it conforms to.  `ParseCsv`, `ParseExcel`, `ParseJson` and the
chunked parsers each apply the limit of rows in the code's own order, and what else they cut: long cells, in chunks
the columns after the first ones (`Beyond`), and the sheets of a workbook after the first ones (`OutOfPlace`).
`SheetRows` suggests a field for each column, applies an override, and computes issues, the list cut at `MaxIssues`,
and records.  Sheets are validated one by one, and may be left out: `BuildRecords`, as `correlate` and `convert`,
refuses a sheet that is truncated but not one that nobody validated.  `Correlate` takes one record per step: it looks
its keys up, the strongest first, joins the group found or opens one (a group that would get a second GUID or SID is
left, with a conflict recorded on both), and indexes the record's keys.  `Convert` makes a node per record and then
follows the references of each.  The code runs these loops in one handler; the steps are there to state invariants
between them.

### Imports: results across requests (`ImportResults`, `GraphStores`)

A result is abstracted to what it was computed from: the set of pairs of a file and the configuration (mapping,
classification) it had.  `req[c]` is a request with the `await` it is in and what it has read so far; `torn` is a
history variable that says that the configuration changed under it.  Every change saves the session without waiting
(`pending`), so an older row may land last and a restart restore it (`late`).  The issues of a validation are replaced
by a delete and an insert, each of which may fail (`IssuesFail`).  `lost` is a history variable too: whether the
conversion shown may not be the stored one since a restart, and the sheets whose last validation was cut off between
its statements.  A file may be processed by a worker beside the requests, in one go or in chunks (`parses`), and
removed (`RemoveFile`).  `persist` hands the graph to the risk source, the graph context and, when Neo4j is in use, to
a version, each a write that may fail; a graph is named by the conversions its nodes and its links were read from.
`split` is a history variable: what the persists since the last undisturbed one have met (another persist, a
conversion between their reads, a fault, a restart).

### Connectors (`Connectors`, `DirectoryGraphs`)

A directory has a user, a group and a device, each there or not, with the time of its last change; it may change
between the reading of two collections.  A run extracts collection by collection, maps, applies to Neo4j, scans,
completes and flushes.  The watermark of an incremental run is the connector's `lastSuccessfulSyncAt`; Active
Directory and FreeIPA compare it with `whenChanged` in a form that no entry matches (`ChangedSince`), Entra ID with
the time of creation.  The connector is *one* object that the repository lists and each request holds; a write carries
it as it is when sent, and writes land in any order.  The list of failed writes is that of all connectors
(`OtherFails`, `OtherFlushes`).  `decided` is a history variable: what the last administrator's request made of the
connector, and whether any write that says otherwise was then under way or has failed since.  The Linux part has the
list of allowed commands, the time limit and the parsing of accounts, groups and rules.

### Identity resolution (`IdentityRecords`, `IdentityResolution`)

Identities are objects in `heap`; `known` is the map of the service, `rows` the table.  A merge looks the identity up,
awaits the graph node (`reading`), merges and persists, and so does a preview up to the merge, on a clone.  A node may
change in the graph at any time among its `Versions`.  `IdentityFields` is the code's table of fields with their
scores; values are abstracted to themselves and their normalised form.

### Pipeline

Data is where it comes from: a version of the graph and the sequence of stages applied to it.  `exec` is
`executionId`, which a loop compares when its delay ends; `timer` is `timerId`; `req[c]` is a request with the
`await` it is in (seeding, delay, saving).  A row that has been handed to TypeORM but not sent (`saving`) shares
`run` and `snapshots` with the engine, as the payload does in the code, and is copied when it is sent (`Copied`).
`GraphChanges` is the rest of the application importing another graph.

### Risk engine and operational store

`pending` holds the writes under way with their owner (the request that tracked them; the code keeps no such record,
and the model needs it only to state properties), `errors` is `writeErrors`.  A flush awaits what was pending when it
was called and then throws the *first* error of the shared list.  A write of a finding carries the finding object: a
decision that changes this object while the write has not been serialised gets into it (`shared`), whereas a finding
detected again is a new object.  A scan is the sequence open – load – evaluate – close, or fail; rules are abstracted
to the findings they detect.

### Views of the graph

A graph is a function from node ids to nodes and a sequence of links; where two graphs meet, a node keeps the
properties it had under those it gets (`MergeGraphs`).  The answers of `BusinessQuestions`, `LinuxHosts` and
`UserProfiles` are sets of nodes (or of pairs), computed the way each service computes them: with its own depth
limits, its own visited sets, and its own choice of link types.  `AttackPaths` runs the queue of the search as a
recursive operator over the state of the code's loop.  `GraphQueries` has the queries of a store that keeps deleted
nodes and links, marked.

`GraphScreens` is a state machine of one browser: a page is opened or left, a source or a filter chosen, and the loads
this starts are answered in any order or fail, while the backend's graph changes.  `held` is the graph of each source,
`engine[v]` the module variables of view *v* (graph, cache), `shown` and `workspace` what the page displays.
`Compute` is what a view computes, so that "shown" can be compared with "computed from the graph that the module has"
(`FromModule`, `Answered`) and that with "the graph held" (`Follows`).

## 3. What the runs check

All configurations set `CHECK_DEADLOCK FALSE`: with the bounded budgets used up and every request answered the
system rightly stops.  Bounds are constants named `Max…` or fields of a budget; each is decremented by the action it
bounds.  Where scenarios differ, the budget is chosen in the initial state from a set, so that one run has them all.

| Run | Instance | Checked |
|---|---|---|
| `import_crash` | 2 instances, 1 worker each, 1 file of 2 chunks, 2 attempts, 1 crash at any point with recovery, 1 lease lost by a live run, 3 writes under way | types; a checkpoint stands for stored rows (`CheckpointCovered`); a COMPLETED job and an inspected file are whole (`CompletedWhole`, `InspectedWhole`), in memory and in the snapshot; a job that was given up has all its attempts on its row, or has lost its source (`GivesUpWhenExhausted`); refinement of `ImportContract` |
| `import_user` | 1 instance, 2 slots, a workbook; cancel, retry, timer and loss of the source once each | `FailedIsRetriable`: a given-up job leaves its file in error, where the retry request accepts it |
| `import_live` | 2 instances; a crash, a failed statement, a lost source; fairness | `EveryJobSettles` |
| `import_session` | 1 instance, a full last chunk, a crash, 6 firings of the timer; fairness | `EverySessionSettles`; `FinishedIsShown`: no crash leaves a finished import behind as unfinished |
| `import_rows` | 3 users of 9 kinds, or 2 and a sheet of groups, or one with groups and others; files of up to 5 lines around a limit of 3 rows in each format, with a column beyond the limit and a long cell; a second sheet where 1 is read; one of 4 overrides, before or after any of the sheets is validated; 3 issues | `RowsAreRead`: no row is lost at the limit without the mark; `ColumnsReachRecords`: a column that does not reach the records is in none, and is reported if its sheet was validated; `DuplicatesAreMarked` of validated sheets; `StrongIdsApart` and `IdentitiesApart`: two GUIDs or SIDs never meet in a group, two groups never share a canonical id unless both are up for review; `LinksAreUnambiguous` |
| `import_workbook` | the same files as a workbook, in ranges of 2 rows | violation of `RowsAreRead`, section 5 |
| `import_results` | 2 requests at a time on up to 2 of 3 offered files, 16 scenarios: changes against computations, computations against each other and a restart, validations whose statements fail or are cut off by a restart, persists with a failed write and a restart, with and without Neo4j, a file processed late, refused and unreadable uploads | `ValidationIsCurrent`, `ResultsAreCurrent`: a result shown is the one of the configuration in effect, but for requests that overlapped with the change and rows sent late; `GraphOfConversion`: a conversion shown is stored, or a later one, and it is the very one unless it overlapped or a restart came between; `ReportOfValidation`: the same of the issues of a validation, but for statements that failed; when the last persists met no other and no fault, the risk engine holds the graph a restart finds (`PersistedIsKept`) and Neo4j the one its history names (`HistoryOfGraph`) |
| `connectors` | 2 requests on a connector: full, incremental and partial runs of each of the 4 kinds, with and without unique ids, while the directory changes once; Entra ID with 3 times and 2 changes; administration with 3 writes that are late, one that fails, and a restart | `NothingGoesBack`: an object in the graph never goes back to an older version; `FullSyncIsWhole`; `AdministrationIsKept`: a run or test that ends undoes no decision; `AnsweredIsStored`: who had the connector alone finds his completed run in the row, or one still shown as synchronising |
| `identity_merge` | 2 requests at a time on nodes of AD, Entra ID and FreeIPA that agree and disagree in fields, under several names of one field, and change; 5 scenarios: previews against merges, merges that overlap, identities created again, failures and a restart | `SourcesAreLinked`: a source joined an identity for a strong field whose value an earlier source has, if under another name of the field; `ConflictsAreShown`; `ConfirmedIsKept`; `PreviewIsKept` |
| `pipeline_requests` | 3 stages, a graph that builds and one with a dangling edge; a careful client with 6 requests, a failed save and a restart; 3 clients with 4 requests that overlap in any way | `OutputMatches`: the data in hand is the input with exactly the completed stages applied; `CompletedIsWhole`; `RunningIsDriven`: RUNNING means that a current loop exists; `ReadyHasData` |
| `risk_overlap` | 2 requests overlapping in any way; 3 scans, 3 decisions, a failed write, a restart, 1 finding, 2 rules | `AnsweredIsWritten`; `SuppressionIsKept`: no scan lifts a suppression or sends a write against it, and its row is only overwritten by a write that was under way at the decision |
| `graph_views` | 14 nodes; 512 graphs for the agreement; 2 graphs, 2 visits and 3 requests for the pages | `ViewsAgree`; `AnswersFollowTheGraph`: a view's module has the graph the page holds, and what it shows was computed from it; `LatestLoadWins`; `TraversalsAreFresh` |

Why the bounds are enough.

- *Imports.* Files do not interact except through the session's status, so one file meets every race of a run with the
  queue; a second chunk makes the difference between a first, a middle and a last checkpoint; two attempts separate a
  retry from the last one; two runs are what a duplicate needs.  Two writes under way are what a wrong order needs,
  and `import_crash` and `import_session` have a third.  For the invariants of `import_crash` the proofs of section 4
  remove the bounds altogether.
- *Rows.* Three records are the shortest chain in which two that share no key meet through a third; the nine kinds
  pair every key with a weaker one, in two spellings.  Two sheets are what one needs that was left out of the
  validation.  Five lines are two more than the limit, with rows that are empty, blank or malformed before and after
  it.  The proofs remove the bound on records.
- *Results.*  Two requests are what an overlap needs, a second file what a result over all files needs.  The scenarios bound
  each kind of request so that every pair of kinds occurs in one.
- *Connectors.* One object of each collection suffices, since the mappers treat objects alone and links in pairs; two
  requests are two runs, one after the other, or a run and what an administrator does meanwhile; three times are one
  before, at and after a watermark.
- *Identities.*  Three sources have two pairs of neighbours that may differ where the outer two agree.
- *Pipeline.* A stage before, at and after the one that checks the graph; two loops and a request that disturbs them.
  `CarefulClient` waits for answers, starts only an empty pipeline, does not step back when a full run ended with
  snapshots and completed stages out of step, and does not pause when a restart is to come.  Each restriction stands
  for a disagreement of section 5; the properties hold for everything else.
- *Risk.*  A finding and two rules let a scan run the finding's rule or not; findings do not interact.
- *Views.* The eight optional links make memberships direct and nested, with a cycle, and open or cut the ways over
  roles, permissions, Linux groups and hosts.  The constraint `Explored` keeps the state space in reach without losing
  a case: only the shown graphs are worked on, both visits of a run are of one page as the views share no state, and
  the third request, which only makes a third load overtake, is left to one page.

**Fairness** (`ImportProcessing!Fairness`) is weak and only on what runs by itself: the steps of a run and the claims
of a polling worker (`setInterval` and the continuation in `tick`), statements that PostgreSQL answers, the startup's
recovery, the calls an upload or a retry has begun, session timers and the passing of the lease of a dead run.
Requests, crashes, faults, stalls and restarts are not fair.  In particular a crashed instance need not come back:
`EveryJobSettles` holds because the other one takes over.

## 4. What is proved

For every value of the constants, under the assumptions that the modules state:

- `QueueAssumption`, `ProcessingAssumption`: at least one file, a host for every worker, chunk and attempt counts and bounds
  that are numbers.
- `RiskAssumption`, `PipelineAssumption`, `ResultsAssumption`: bounds are numbers, budgets are records of them; the row of
  the scan is no finding, at least one stage and one graph, uploads that are lists of sheets.
- `TextAssumption`: a text in lower or upper case is a text, and empty only if the text is; an empty one has no parts; logins
  that are equal in lower case have the same user part.
- `ParserAssumption`, `SheetAssumption`, `ImportAssumption`: finitely many columns, named by strings, some of them
  beyond the limit; limits that are numbers, ranges of at least one row; files of the three types, with the kinds of
  lines their formats have; overrides of columns.
- `ConnectorsAssumption`: each scenario has one of the four kinds, objects that are there, and requests with a mode, a
  limit and flags.
- `ResolutionAssumption`: finitely many nodes, whose properties are values and whose source is one the code knows;
  identities that are stored at first were made from a node.

A theorem with a hypothesis of its own states it (`ASSUME ... PROVE`); the third column names it.

| Theorem | Property | Argument |
|---|---|---|
| `ImportProcessingProofs!TypeCorrect` | `TypeOK` | inductive with `RowsRemain`: a run parses a chunk only while rows remain, else its position would leave its range |
| `ImportProcessingProofs!Inductive` | – | `IndInv`, below |
| `ImportProcessingProofs!CheckpointsAreCovered`, `CompletedIsWhole`, `InspectedIsWhole` | `CheckpointCovered`, `CompletedWhole`, `InspectedWhole` | conjuncts of `IndInv` |
| `ImportProcessingProofs!ImportImplementsContract` | `ImplementsContract` | initial states map to initial states, and each action to one of the contract's or to a stutter, in states of `IndInv` |
| `ImportProcessingProofs!AttemptsAreUsed` | `GivesUpWhenExhausted`, when no statement fails and no user retries | `AInv`, below |
| `ImportProcessingProofs!FailedFilesAreRetriable` | `FailedIsRetriable`, in one instance without crashes and failed statements | `FInv`, below |
| `ImportProcessingProofs!FinishedImportsAreShown` | `FinishedIsShown`, in one instance that may crash and works on one file at a time, without failed statements, stalls, lost sources and cancellations | `Calm`, below |
| `ImportRowsProofs!CorrelationInvariant`, `RecordsAreGrouped`, `GroupsHaveOneStrongId`, `IdentitiesAreApart` | `StrongIdsApart`, `IdentitiesApart` | `CorrelationInv`, below; of `CorrelationSpec`, the correlation of any records in any order |
| `ImportRowsProofs!ImportInvariant`, `ImportedIdsAreApart`, `ImportedIdentitiesAreApart` | the same two | `ImportInv`, below; of the whole import, whose records come from files |
| `ImportRowsProofs!ReferencesAreUnambiguous` | `LinksAreUnambiguous` | `LinkInv`, below |
| `ImportRowsProofs!RowsAreReadInFull` | `RowsAreRead`, if no workbook is read in ranges; the cuts that leave no mark are in the property | `SheetsInv`: each sheet is what its parser makes of its file; each parser by itself |
| `ImportRowsProofs!ColumnsReachTheRecords`, `ColumnsReachWhenFew` | `ColumnsReachRecords`, where the reports of duplicates of the validated sheets are all listed; hence where there are no more columns than issues are listed | `SheetsInv` |
| `ImportRowsProofs!DuplicatesAreInvalid` | `DuplicatesAreMarked`, which speaks of the validated sheets | `SheetsInv` |
| `ImportResultsProofs!ValidationsAreCurrent` | `ValidationIsCurrent` | `IInv`: the session, its row and every write under way each hold validations of their own configuration, or torn ones, or were sent late; a validation under way is torn or has read the current one |
| `ImportResultsProofs!ConversionIsStored` | `GraphOfConversion` | `OInv`: nowhere is there a conversion of which the chunks were not stored, whatever overlaps; `GInv`: a conversion that replaces the chunks has withdrawn the one shown, two that overlap are torn, and a shown one that is neither torn nor lost is the stored one |
| `ImportResultsProofs!ReportsAreWhole` | `ReportOfValidation` | `VInv`: of two validations of a sheet that overlap both are torn; one that is alone replaces the issues after it has shown itself, in two statements, and if one of them fails or is cut off the sheet is in `lost` until its next validation |
| `ImportResultsProofs!ResultsCover` | `ResultsAreCurrent` | `CInv`, below |
| `ImportResultsProofs!GraphIsKept`, `HistoryIsTrue` | `PersistedIsKept`, `HistoryOfGraph` | `MInv` and `HInv`, below |
| `ConnectorsProofs!TypeCorrect` | `TypeOK` | `CInv`: the shapes of requests, writes and the connector; at most one run, as the `active` set says |
| `ConnectorsProofs!AnsweredAreStored` | `AnsweredIsStored` | `AnswerInv`, below; an action property |
| `ConnectorsProofs!DecisionsAreKept` | `AdministrationIsKept` | `Kept`, below |
| `ConnectorsProofs!NothingEverGoesBack` | `NothingGoesBack` | `Newest`, below; an action property |
| `ConnectorsProofs!FullSyncsAreWhole` | `FullSyncIsWhole` | `FullInv`, below; an action property |
| `IdentityResolutionProofs!TypeCorrect` | `TypeOK` | with the sizes of what `merge` appends |
| `IdentityResolutionProofs!SourcesLinked`, `ConflictsListed` | `SourcesAreLinked`, `ConflictsAreShown` | of every identity in memory, in a row or in a write (`AllJoined`, `AllFormed`), below |
| `IdentityResolutionProofs!MergesAreKept`, `PreviewsAreKept` | `ConfirmedIsKept`, `PreviewIsKept` | `KeptInv`, below |
| `PipelineProofs!RunsAreDriven`, `ReadyMeansData` | `RunningIsDriven`, `ReadyHasData`, without a restart among overlapping requests | `PInv`, below |
| `PipelineProofs!OutputsMatch`, `CompletedRunsAreWhole` | `OutputMatches`, `CompletedIsWhole` | `QInv`, below |
| `RiskScanProofs!WritesAreAwaited` | – | inductive: who tracked a write under way awaits a flush that includes it |
| `RiskScanProofs!TypeCorrect`, `AnsweredAreWritten` | `TypeOK`, `AnsweredIsWritten` | from `WritesAreAwaited` |
| `RiskScanProofs!SuppressionsAreKept` | `SuppressionIsKept` | by the actions that change findings or send writes of them: evaluation skips suppressed ones, so that no scan adds a contrary write; a write that lands on a suppressed row is contrary only if one was under way; a restart reads the stored row.  An action property |
| `GraphScreensProofs!TheLatestLoadDecides` | `LatestLoadWins`, if "no graph" is not a graph | `LoadInv`, below |
| `GraphScreensProofs!AnswersAreOfTheGraph` | `AnswersFollowTheGraph`, under the same assumption | `ViewInv`, below |
| `GraphScreensProofs!CachedTraversalsAreFresh` | `TraversalsAreFresh`, while the workspace shows only graphs among which the key tells traversals apart | `FreshInv`: what is cached was found in one of these graphs, under its key |

*Why `IndInv`.*  That checkpoints are covered is not inductive: a checkpoint is written from the mark of a run, which
came from the progress of a session, which may have come from the snapshot at a restart; a retry saves a row it
read earlier.  `IndInv` therefore says of *each* of these numbers that as many chunks are stored, that the chunks of
a file are a prefix (`ChunksPrefix`), and that a run past its last chunk has stored them all.  It is preserved
because chunks are only ever added (`AppendChunk` upserts): every number that was covered stays covered
(`Grows`), and each action only copies covered numbers, or counts a chunk that it has just stored.  `IndInv` does not
mention leases or attempts: the safety of rows does not rest on claims being exclusive, which section 5 shows that
they are not.

*Why `AInv`.*  A run carries a copy of its row, and `fail` compares the attempts of this copy.  `AInv` says that no copy
has seen more attempts than the row has, and that a source that is missing stays missing, since an upload happens once
and before any job.  Two parts of the code break it and are excluded by the assumptions `MaxRetries = 0` and
`MaxFaults = 0`: a retry sets the attempts to 0, and a recovery that fails gives the job up whatever its attempts.

*Why `FInv`.*  The row of a job and the file of the session are written one after the other.  `FailedIsSeen` says that the
file of a job that was given up is in error, or that a run of the file stands between the two (`Settling`): about to
mark it, or a second run about to complete the job after all.  Its hypotheses are what the code needs: a crash or a failed
statement between the two writes leaves the file unmarked for good, and a worker of an instance that has no session for
the job gives it up and marks nothing (section 5), hence one instance.  Stalls, timers, retries, cancellations and lost
sources are allowed in any number.

*Why `Calm`.* A crash takes the session and the runs with it, and what is shown afterwards comes from the snapshot,
whose writes carry the session as it was when they were sent.  `Calm` follows each file through it: what the snapshot
says of the files (`SavedCalm`), what a session says (`SessionCalm`), and what a run may find when it opens, waits for
its flush and completes its job (`RunCalm`), so that a job is COMPLETED only once the snapshot has the file
inspected.  Since snapshots land in any order, it also says that no two are under way at once (`WritesCalm`) and no
two runs (`RunsAlone`).  It holds until a timer fires, of which the property speaks.  Stalls, and two files that are
worked on at once, are excluded since they break it (section 5).

*Why `CorrelationInv`.* Groups are formed by the strongest key a record shares, but the index is filled with *all* its
keys, first come first served.  The invariant says that every key of a record is in the index and leads to a group
with a record that has it (`Indexed`), and that the *strongest* key of a record leads to its own group or to one in
conflict with it (`Placed`).  Hence two groups that derive the same canonical id have met in the index, and were put
up for review then.

*Why `ImportInv`.* An import goes through phases, and what a later one computes is about what the earlier ones left.
`SheetsInv` keeps the equations: in every phase after parsing the sheets are the parsers' results of the files, the
issues of a validated sheet are those of its rows under the mapping of now and those of any other are none, and while
records are correlated they are the records of all sheets, joined.  So the three properties of rows become statements
about the operators: a parser loses no row with a value unless it says so, a column that is not ignored and not
reported is the only one of its field, and a duplicate of a strong value is an issue that makes a record invalid.
These go over sequences of any length by induction.  The library's induction theorems take a predicate as a parameter,
which the provers cannot instantiate; `AllNaturals` therefore states induction of a *set* of numbers and follows from
the least element of its complement, and `FlattenSeq`, which joins the rows of a file and the records of its sheets,
is unrolled with it.  `LinkInv` says that the links made so far belong to nodes of the graph and that each end is the
only node its reference may mean; the nodes are complete before the first link, so a reference that was unambiguous
stays so.

*Why the invariants of `ImportResultsProofs`.* All stand on `RInv`: the await a request is in suits its kind.  A
correlation or conversion reads the files one by one with an await between; `CInv` says of one under way that it is
torn or that what it has read is, for each file before its place, the configuration of now, because every change
either tears it or touches no file it has passed.  A worker that joins a file in chunks invalidates nothing, so its
file is left out (section 5).  For the persists, `Alone` says that while `split` is free of overlaps only one is under
way, and `Moded` that it takes the way its mode has (Neo4j or memory).  Then the versions are applied in their order
(`LastIsLatest`), and the risk source, the row and the writes under way of it are one graph (`Settled`, `MemoryKept`).

*Why `Kept`, `AnswerInv` and `Newest`.* The connector is one object that requests hold across awaits.  `Kept` says
that a decision of an administrator stands in the object and in the list, and that, after a deletion that met no run,
none is under way that would save it again (`Decided`); and, while no write has failed or was contrary to begin with,
that each write says what was decided once it is sent, and so does the row when none is left (`Firm`), from which the
next process starts.  What a deletion during a run or a contested write leaves is in section 5. `AnswerInv` follows a
request that has the connector to itself: no other request holds it, whatever is under way are the first and the last
write of its run, and once the last has landed the row is like the connector (`Lone`).  The last lands before the
answer since the flush awaits it; the first need not, so the row may say SYNCING.  `Newest` says that what a run has
found of an object is at least as new as what the graph shows of it, and that nothing shown is newer than the
directory.  It survives the steps of the others because there are none that apply: the `active` set excludes them from
the start of a run, before its first search, to its last write in Neo4j.

*Why `FullInv`.* What a full run leaves in the graph depends on what earlier runs left there, since nodes are merged
by id and links are only ever added.  `Named` says that no node goes by the name of the user or the group but its own,
and that a membership in the graph is one the directory has; it rests on the directory of the model never losing one
(section 6). `ReadOf` says of a run under way that it has found what it saw, and everything there is if it reads in
full; when the directory has the versions it began with, also the membership it saw is the one of now.  `DrawnOf` says
that what it has applied is drawn.  Each mapper has its lemma (`AdDraws`, `FreeipaDraws`, `EntraDraws`, `LinuxDraws`):
of entries like these it makes one node per object that it tells apart, with the object's own id, and the membership
exactly when an entry tells of it.

*Why `KeptInv`.*  A merge holds an object over two awaits, and a failed or overlapping write may leave the row behind.
`KeptInv` says that whoever has an id holds the object the map has (`Attached`), that the object has each source that was
confirmed (`Remembered`), and that the row has it, or a write that is awaited (`Written`), unless writes of this id
overlapped or failed (`unsafe`) or the id was created again (`replaced`).  That sources are linked is stated of every
object, row and value of a write, with the reason that a later source was linked by: a field whose value an earlier
source has, under this or under another of the field's names (`FieldsHeld`).

*Why `PInv`.*  That a RUNNING pipeline is driven follows from every action that sets RUNNING also making its loop the
current one, and from old loops never doing more than to end as COMPLETED or FAILED.  A restart may restore a RUNNING
row that nobody runs (section 5), which the assumption excludes: it admits restarts only in budgets of the careful client.

*Why `QInv`.* For the careful client (of whom the two properties speak) a pipeline with data is `InStep` with some
number of stages: so many are completed, the output is the input after exactly these, the snapshots are those outputs,
and a run that is RUNNING or PAUSED stands at the next one.  A failed run may have one snapshot more.  `Turns` says
which requests can be under way together, and `RowsOk`, when a restart is to come, that each row on its way and the
stored one are in step.

*Why `LoadInv` and `ViewInv`.* Each load makes those before it obsolete, so of the loads under way at most one is
wanted; it is of the source and the filter chosen now, and while there is one the page shows that it loads.  `ViewInv`
says that the module of a view has the graph the page holds, that a cache holds only what is computed from the
module's graph, and hence that an answer taken from it is current.  The property lets the two answers stand that the
code does not take back (section 5).  Each way a page can come by another graph (a load, an expansion, a change of the
source) runs the effects that set it.  An expansion is merged without looking whether it is still wanted, which harms
neither.

Only model-checked:

- The liveness properties `EveryJobSettles` and `EverySessionSettles`: they need fairness and ENABLED, out of the
  prover's reach.
- `ViewsAgree`: the views and the attack paths are recursive operators, in modules the prover's arithmetic backend
  does not work in.
- `RowsAreRead` of a workbook read in ranges is false (section 5), and `TraversalsAreFresh` of all graphs: the key of
  the cache counts nodes and names the first links only.  `SmallGraphsAreTold` proves that the key suffices for graphs
  over the same nodes with no more links than it names; the instance also changes the nodes.

## 5. Where code and documents disagree

`import_workbook` finds this one.  `parseExcelChunked` (`imports/parsers/chunked-parser.ts:54`) reads a workbook in ranges
without telling the library the headers, so the first row of every range is lost and names the columns of the others.
`docs/ENTERPRISE_IMPORT_ENGINE.md:9` says "CSV and Excel rows are persisted in bounded PostgreSQL JSONB chunks."

The others were met while modelling.  Where a bound of a run shows one when it is relaxed, it is named; those that
contradict a document quote it.

*Import queue and sessions*

- Snapshots of a session go over several connections, so an older one may land last (`imports.service.ts:573`).  With two
  files worked on at once this may be the one that still says `parsing`: after a crash the restored session is in parsing and
  all its jobs are COMPLETED (`FinishedIsShown` with two files and two workers).
- `recoverStaleSessions` (`imports.service.ts:84`) requeues every PROCESSING job of a restored session whatever its
  lease, so two workers process one job; `docs/ENTERPRISE_IMPORT_ENGINE.md:7` promises none of them twice.  The rows
  survive it (section 4).
- `complete` (`import-queue.service.ts:42`) does not look at the row: a job that is cancelled while it ends is COMPLETED.
- A worker of an instance that did not receive the upload has no session for the job (`imports.service.ts:365`) and
  uses up its attempts.
- A crash between the update that gives a job up and the marking of its file leaves the file `uploaded`; the retry
  request refuses it (`FailedIsRetriable` with `MaxCrashes = 1`).
- A second run of a file, after the lease of the first ran out, reports its progress over what the first has reached;
  if the instance crashes after the first has completed the job, the import is shown as parsing although every job is
  COMPLETED (`FinishedIsShown` with `MaxStalls = 1`).  Such a run, like a claim by an instance without the session,
  uses up attempts that the job would have had.
- A flush that fails inside `uploadAsync` (`imports.service.ts:239`) leaves a session in parsing without a timer
  (`EverySessionSettles` with `MaxFaults = 1`).
- `retryFile` uses an index of the file found before an await (`imports.service.ts:298`), and a run keeps the file object
  of before the retry.  `queue.cancel` is not awaited; the worker compares its limit before the claim.

*Import results*

- Beside the rows beyond the limit, of which there is a mark, more is cut off without one: columns after the first
  `IMPORT_PREVIEW_COLUMNS` of a file that is read in chunks (`imports/parsers/chunked-parser.ts:69`), the end of long
  cells (`imports/parsers/csv-parser.ts:138`), and sheets after the first `maxSheetsPerWorkbook`
  (`imports/parsers/excel-parser.ts:22`).
- `correlate` and `convert` do not ask for a validation (`imports/imports.controller.ts:386`), and the wizard
  validates the selected sheet only (`frontend/pages/Imports.tsx:233`).  Columns and identifiers that occur twice in
  the other sheets are reported nowhere, and all their records are VALID.
- A request that overlapped with a change, or with another of its kind, stores what it has read; a row that is sent
  late mixes the files and types of now with older results.  After conversions that overlapped, or one that a restart
  interrupted, the previews of the graph with limits and without differ until the next conversion.  A validation whose
  second statement failed (`imports/import-reporting.service.ts:26`) is shown, and its report has no issues until the
  next one.
- A file that is parsed in chunks invalidates no result, so a correlation or conversion may lack it; a validation that is
  stored after a correlation does not drop it.
- A preview of the graph with limits reads the stored chunks although the conversion was invalidated; the normalised
  preview uses preview rows with the mappings of now.
- JSON rows beyond the limit are cut off without a mark when elements are malformed.  Only the first of duplicate rows
  becomes INVALID (the others are reported).  A second column for `id` or `externalId` is dropped without a report,
  and no field of the table of fields is required.
- Duplicates are compared in exact spelling, correlation folds case.  A login that is a realm only (`@x`) is no login;
  a login spelled like the email of another record gives one node with the fields of the last group.

*Pipeline, risk, operational store*

- `start` (`pipeline/pipeline-engine.ts:60`) does not reset `completedStages`: after a completed run it runs nothing and
  completes with the raw input.
- A pause and a resume within one delay of 50 ms leave two loops; the older one finds nothing to do and marks the
  run COMPLETED (`pipeline-engine.ts:78`, `:137`).
- `previous` after a full run that failed pops a snapshot of a stage that is not the last completed (`:220`).
- The row of a pause holds `run` and `snapshots` by reference and the output by value (`:266`); a restart from it may
  list a completed stage whose output it lacks, or be RUNNING with nobody to run it.
- A `start` that is refused has already replaced the data (`pipeline.service.ts:29`).  A run that is reset never answers
  its start request.
- `flush` (`database/operational-store.service.ts:48`) throws one error of a list that all requests share: another
  request than the one whose write failed may get it (`docs/POSTGRESQL.md:67`).
- Writes of a finding are not ordered: one that a scan has sent when an analyst suppresses the finding may land after
  the decision's own, and the row then says OPEN, which the next start reads
  (`database/operational-store.service.ts:53`).
- `RiskService.scan` flushes its first row before the `try` (`risk/risk.service.ts:29`): an error leaves `scanning` set and
  every later scan is refused.  The graph is read with a limit of 5000 nodes; findings beyond it count as resolved.

*Identities*

- A preview of a node that is a source already shows no change, its merge replaces the merged fields and adds to the
  timeline.
- A match on the user principal name gives the source confidence 0.  A value of white space of the source with priority hides
  the others'.  Merging a node again keeps properties that it no longer has.
- `findCandidate` looks only the best candidate up, and lists its fields even if no identity has them.

*Connectors*

- Incremental runs read on from `lastSuccessfulSyncAt`, the *end* of the last successful run of any mode, previews and runs
  without persisting included; `docs/ACTIVE_DIRECTORY_CONNECTOR.md:33` says "Incremental mode uses the previous
  `whenChanged` watermark".  What changes between the reading and the end of a run is not asked for again.
- The time in the filter of Active Directory and FreeIPA keeps a `T` that GeneralizedTime has not, so that it matches
  nothing: an incremental run finds no object, completes, and moves the watermark on.  FreeIPA filters by
  `whenChanged` where `apps/backend/docs/FREEIPA_CONNECTOR.md:76` says `modifyTimestamp`.  Entra ID filters only
  created and deleted objects and never reads `members@odata.bind`.
- Memberships are resolved only among the objects of the extraction: an incremental run loses those to groups that did not
  change.  Active Directory reads `memberOf` of users only; `HAS_GPO` never resolves.
- FreeIPA objects without unique id share one node.  Linux keys and members that are system accounts link to no node;
  the commands for `authorized_keys` and for addresses are not in the list of allowed ones
  (`apps/backend/docs/LINUX_SSH_CONNECTOR.md:50`, `:65`), an unrecognised sudo rule becomes ALL, and a command that
  ran out of time goes on on the host.
- A connector that is deleted while it is synchronised or tested comes back when that ends
  (`connectors/linux/linux-sync.service.ts:142`).  The two writes of a run are not ordered: the row of a run that was
  answered may still say SYNCING.  A run may end with the error of another connector's write.

*Graph, attack paths and views*

- `getNeighbors` of the Neo4j graph context answers every relation with the asked node as its source
  (`graph/graph-context.service.ts:128`).  `relationshipCount` of the dashboard counts deleted links, `getGraphStats`
  does not; `shortestPath` and `blastRadius` follow them.  A subgraph in memory is wider than its depth; in memory a
  filter ignores risk and status, and `partial` is never true.
- `shortest` also records paths that are longer and cheaper; `docs/ENTERPRISE_ATTACK_PATH_ENGINE.md:7` says
  "`shortest` uses breadth-first traversal to find minimum-hop paths".  `weighted` prunes by cost, so a cheap long
  path may hide one within the limit of hops.
- Business questions follow groups to a depth of 8 with one visited set, profiles without a limit; `who-access-host`
  counts Linux users twice; a host question lists users that are not among its nodes; a policy with its own list of
  groups hides the linked ones.
- While the page of business questions holds no graph, as the other source is loading or has failed, the effect that
  sets the answer aside returns before it does (`frontend/pages/BusinessQuestions.tsx:57`), and the answer of the
  earlier graph stays, as do the hosts.  A host that is not in the new graph is noted as missing, but the detail of
  the host before stays in place (`frontend/hooks/useLinuxHostAccess.ts:18`).
- Traversals are cached under the counts of nodes and links and the first 20 link ids
  (`frontend/services/graphInvestigation.ts:10`): two graphs that agree in these share results.
- Replies to the expansion of a node are not checked against the graph shown now; an expansion that fails replaces the
  page by an error; hidden nodes reappear; of several values the remote filter takes the first.
- The import wizard keeps results of a mapping that was changed, shows the persist of an import after "New import",
  lets an older reply overwrite a newer one, and stops polling at the first failed request.

## 6. What is not modelled

Inside modelled components, with the reason:

- In `ImportProcessing`: several sheets of a workbook, file sizes and names, which are data.  The worker's limit
  (`active`, which overlapping ticks may exceed) is replaced by a fixed set of workers.  A checkpoint statement that
  lands after its run has failed, and a retry of a file without a job, cannot be told apart from states the model
  reaches.  A recovery that fails stops the startup, which `Crash` covers.  The synchronous upload, JSON files and the
  removal of files are in `ImportResults`.
- In `ImportRows`: the splitting of lines into cells, patterns of headers and values and the scores of the classification
  (constants of `CellText`), samples, confidences and wording.  In `ImportResults`: the removal of a session, lists of jobs
  and audit entries.
- In `Connectors`: the configuration and its validation, an update of `connectorType`, which would run the connector
  in two services at once, the protocols (LDAP, Graph API, SSH), the list of runs that is displayed. Nothing is
  deleted from a directory: the connectors declare `deletionDetection: 'UNSUPPORTED'`
  (`connectors/connectors.service.ts:9`), Entra ID `'SOFT_DELETE'`, for which a mapper only copies `deletedDateTime`;
  what was removed stays in the graph.
- In `IdentityResolution`: `correlate` and the reads, which change nothing.
- In `Pipeline`: progress, metrics, warnings, times; the content of the data.
- In `RiskScan`: scores, severities, `firstDetected`, the history of scans, the notification at the end of a scan.
- In `AttackPaths`: how targets are found, scores, stored runs and their rows; ties in the order of the queue are broken by
  place, where the code compares ids.
- In the views: rendering, layouts, saved views, the details of a selected node, wording and statistics of answers.
  In `GraphQueries`: text search, sessions of the driver, orders other than by name.
- In `OperationalStore`: direct loads and saves, which are single statements of the services that call them; what
  TypeORM selects or compares before it writes.

Whole components, listed in `PROJECT.json`: settings (a record with two rows written in one request), notifications
(single statements), authentication (checks of a token), rate limiting (a counter read and written by one handler
without an await), wiring and migrations, the pages that only show answers of the REST interface, shared packages
(types and demonstration data).

`TypeOK` documents the types of the state machines.  It is checked for `ImportProcessing` and proved for it, `RiskScan`,
`Connectors` and `IdentityResolution`; elsewhere the properties of section 3 say more, and the invariants of section 4
type what their theorems depend on.

## 7. Plan

Done: imports from the queue to the graph, pipeline, risk engine, connectors, identities, graph queries, attack paths and
the views of the browser.  What would add most next:

1. Stored runs of attack paths, which stay RUNNING after a crash, and the reports on an import, as state machines of
   their own.
2. The import wizard as a client of `ImportResults`, with the polling hook and replies out of order (the list in section 5
   says what it would meet).
3. A contract of the operational store (an answered request is stored) that `RiskScan`, `Connectors` and
   `IdentityResolution` implement, in place of three properties.
4. Theorems: agreement of the views (`ViewsAgree`), once their searches are recursive functions instead of operators; types
   of the remaining state machines.

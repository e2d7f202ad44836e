------------------------------ MODULE ImportResults ------------------------------
(***************************************************************************)
(* What is derived from the rows of an import once they are parsed: the    *)
(* mappings and classifications of its sheets, their validation, the       *)
(* correlation of identities, the conversion to a graph and its way to the *)
(* stores.  ImportsController computes every result across awaits, the     *)
(* caches of ImportsService are changed by others meanwhile, and every     *)
(* change saves the whole session without waiting for the row.             *)
(*                                                                         *)
(* Each file has one sheet, once it is parsed.  The rows of a sheet never  *)
(* change; a result is abstracted to the classifications and mappings it   *)
(* was computed with.                                                      *)
(***************************************************************************)
EXTENDS GraphStores

CONSTANTS Clients,    \* requests that may be in flight at the same time
          FileSet,    \* the names of files
          MaxFiles,   \* maxFilesPerSession
          Truncated,  \* the files of which rows were cut off
          Budgets     \* what is uploaded (name, allowed, fits, readable) and the bounds of what
                      \*   happens then: changes, requests by kind, faults, crashes, modes

Upload == [name : FileSet, allowed : BOOLEAN, fits : BOOLEAN, readable : BOOLEAN]

\* What is uploaded are files, and what may happen then is bounded.
ASSUME ResultsAssumption ==
    /\ Truncated \subseteq FileSet /\ MaxFiles \in Nat
    /\ \A b \in Budgets :
           /\ DOMAIN b = {"changes", "validate", "correlate", "convert", "persist", "faults",
                          "crashes", "neo4j", "parses", "offered"}
           /\ b.neo4j \in BOOLEAN /\ b.offered \in Seq(Upload)

VARIABLES
    session,    \* the caches of the import in ImportsService
    issues,     \* the rows of import_validation_issues: file -> their validations
    req,        \* client -> its request
    worker,     \* the file the worker is at, and its place in the list when it began
    split,      \* history: what the last persists met: "persist", "convert", "fault"
    lost,       \* history: what a restart or a failed statement left behind (Lost)
    budget

vars == <<pending, errors, rows, chunks, risk, context, versions, applied,
          session, issues, req, worker, split, lost, budget>>

------------------------------------------------------------------------------
None == [of |-> {}, n |-> 0, torn |-> FALSE]
Kinds == {"validate", "correlate", "convert", "persist"}

\* The mapping 0 is the one that is suggested for the headers and the classification.
Config(f) == <<session.class[f], session.mapping[f]>>
Present == ToSet(session.files)

\* The files that have sheets: what is mapped, validated and converted.  The others were
\* refused, could not be parsed, or are not processed yet.
Parsed == Present \cap session.parsed
WithoutSheets == Present \ session.parsed
NoWork == [file |-> "none", at |-> 0]

\* Whether the conversion that is shown may not be the stored one since a restart, and
\* the sheets whose last validation was interrupted or could not save its issues.
Lost(graph, reports) == [graph |-> graph, reports |-> reports]

\* The result of a request: the configurations it was computed with, the number of the
\* conversion, and whether its request overlapped with a change of what it read.
Result(of, n, torn) == [of |-> of, n |-> n, torn |-> torn]

Idle == [pc |-> "idle", kind |-> "none", file |-> "none", at |-> 0, n |-> 0, of |-> {},
         graph |-> NoGraph, torn |-> FALSE, awaits |-> {}]
Free(c) == req[c].pc \in {"idle", "answered", "refused"}
Busy(kind) == {c \in Clients : ~Free(c) /\ req[c].kind = kind}
Goes(c, pc) == req' = [req EXCEPT ![c].pc = pc]

\* The requests in flight, those of cs marked as overlapped.
Torn(cs) == [c \in Clients |-> IF c \in cs /\ ~Free(c) THEN [req[c] EXCEPT !.torn = TRUE]
                               ELSE req[c]]

Faulty == split' = split \cup {"fault"}

Flushing(c, r, pc) ==
    req' = [r EXCEPT ![c].pc = pc, ![c].awaits = {Key(w) : w \in pending'}]
Ended(c, pc) == req[c].pc = pc /\ Flushed(req[c].awaits)

\* persistSnapshot: the write carries all caches of the import.
Snapshot(owner) == Save(owner, "import", session')

\* Whether an uploaded file gets its sheets: by its extension, its size and the parser.
Inspected(upload) == upload.allowed /\ upload.fits /\ upload.readable

\* upload: files beyond the limit are not taken, those without sheets stay in the list.
Uploaded ==
    LET offered == budget.offered
        taken == SubSeq(offered, 1, Min({MaxFiles, Len(offered)}))
    IN [files |-> [i \in DOMAIN taken |-> taken[i].name],
        parsed |-> {u.name : u \in {v \in ToSet(taken) : Inspected(v)}},
        class |-> [f \in FileSet |-> 0], mapping |-> [f \in FileSet |-> 0],
        validation |-> [f \in FileSet |-> None],
        correlation |-> None, conversion |-> None, late |-> FALSE]

Init ==
    /\ budget \in Budgets
    /\ session = Uploaded
    /\ worker = NoWork
    /\ pending = {} /\ errors = <<>>
    /\ rows = [import |-> session, imported |-> NoGraph]
    /\ GraphInit
    /\ issues = [f \in FileSet |-> {}]
    /\ req = [c \in Clients |-> Idle]
    /\ split = {} /\ lost = Lost(FALSE, {})

------------------------------------------------------------------------------
(* Changes of the session: each one is a single step, its row is not awaited *)

\* Slip: the validation of the sheet stays when its mapping changes.
KeepsValidation(s, f) == [s EXCEPT !.correlation = None, !.conversion = None]

\* Slip: the correlation stays when a mapping changes.
KeepsCorrelation(s, f) == [s EXCEPT !.validation[f] = None, !.conversion = None]

\* invalidateValidationResult and clearDerivedResults.
Invalidated(s, f) == [s EXCEPT !.validation[f] = None, !.correlation = None,
                               !.conversion = None]

Change(next) ==
    /\ budget.changes > 0
    /\ budget' = [budget EXCEPT !.changes = @ - 1]
    /\ session' = next
    /\ Snapshot(<<"change", budget.changes>>)
    /\ req' = Torn(Clients)
    /\ UNCHANGED <<errors, rows, graphVars, issues, split, lost>>

\* setMappings: the overrides of the client on what is in effect.
ApplyMappings(f) ==
    /\ f \in Parsed
    /\ Change(Invalidated([session EXCEPT !.mapping[f] = budget.changes], f))

\* classify: a changed type drops the mapping of the sheet.
Classify(f) ==
    /\ f \in Parsed
    /\ Change(Invalidated([session EXCEPT !.class[f] = 1 - @, !.mapping[f] = 0], f))

\* invalidateAllDerived
AllInvalidated(s) == [s EXCEPT !.validation = [g \in FileSet |-> None],
                               !.correlation = None, !.conversion = None]

\* findIndex: a file may be in the list twice (ParsedInline).
FoundAt(f, i) == session.files[i] = f /\ \A j \in 1..(i - 1) : session.files[j] # f

\* removeFile: the mapping of the file goes, and every validation.
RemoveFile(f) ==
    \E i \in DOMAIN session.files :
        /\ FoundAt(f, i)
        /\ Change(AllInvalidated([session EXCEPT !.files = RemoveAt(@, i), !.mapping[f] = 0]))

------------------------------------------------------------------------------
(* The worker processes a file that has no sheets (ImportProcessing has its *)
(* jobs), while the others are already being worked with.                  *)

WorkerStarts(f) ==
    /\ budget.parses # "none" /\ worker = NoWork
    /\ f \in WithoutSheets
    /\ \E i \in DOMAIN session.files :
           FoundAt(f, i) /\ worker' = [file |-> f, at |-> i]
    /\ UNCHANGED <<storeVars, graphVars, session, issues, req, split, budget, lost>>

\* A CSV or Excel file: the sheets are set in its object, and no result is dropped.
ParsedInChunks ==
    /\ budget.parses = "chunks" /\ worker # NoWork
    /\ session' = [session EXCEPT !.parsed = @ \cup {worker.file}]
    /\ Snapshot(<<"worker", 1>>)
    /\ worker' = NoWork
    /\ UNCHANGED <<errors, rows, graphVars, issues, req, split, budget, lost>>

\* retryFile, for JSON: a new object is put at the place that was found before the await,
\* wherever the files are by now.
ParsedInline ==
    LET at == worker.at
        files == [i \in 1..Max({at, Len(session.files)}) |->
                     IF i = at THEN worker.file ELSE session.files[i]]
    IN  /\ budget.parses = "inline" /\ worker # NoWork /\ at <= Len(session.files) + 1
        /\ session' = AllInvalidated([session EXCEPT !.files = files, !.parsed = @ \cup {worker.file},
                                                     !.mapping[worker.file] = 0])
        /\ Snapshot(<<"worker", 1>>)
        /\ worker' = NoWork /\ req' = Torn(Clients)
        /\ UNCHANGED <<errors, rows, graphVars, issues, split, budget, lost>>

------------------------------------------------------------------------------
(* Requests that compute results                                           *)

Asked(c, kind) ==
    /\ Free(c) /\ budget[kind] > 0
    /\ budget' = [budget EXCEPT ![kind] = @ - 1]

\* validate reads the mapping and then awaits the rows.
ValidateStarts(c, f) ==
    /\ Asked(c, "validate") /\ f \in Parsed
    /\ LET others == {d \in Busy("validate") : req[d].file = f}
       IN  req' = [Torn(others) EXCEPT
                     ![c] = [Idle EXCEPT !.pc = "validating", !.kind = "validate", !.file = f,
                                         !.of = {<<f, Config(f)>>}, !.torn = others # {}]]
    /\ UNCHANGED <<storeVars, graphVars, session, issues, split, lost>>

\* setValidationResult replaces the result of this sheet among those of the others.
ValidateStores(c) ==
    /\ req[c].pc = "validating"
    /\ session' = [session EXCEPT !.validation[req[c].file] =
                                      Result(req[c].of, 0, req[c].torn)]
    /\ Snapshot(<<c, "validation">>)
    /\ Goes(c, "clearing")
    /\ UNCHANGED <<errors, rows, graphVars, issues, split, budget, lost>>

\* Slip: the rows of earlier validations are kept.
ClearedNone(old) == old

Cleared(old) == {}

\* saveValidation: the rows of the last validation are deleted, then those of this one
\* are saved, in two statements.
IssuesDeleted(c) ==
    /\ req[c].pc = "clearing"
    /\ issues' = [issues EXCEPT ![req[c].file] = Cleared(@)]
    /\ Goes(c, "reporting")
    /\ UNCHANGED <<storeVars, graphVars, session, split, budget, lost>>

IssuesSaved(c) ==
    /\ req[c].pc = "reporting"
    /\ issues' = [issues EXCEPT ![req[c].file] = @ \cup {<<c, req[c].of>>}]
    /\ lost' = Lost(lost.graph, lost.reports \ {req[c].file})
    /\ Goes(c, "answered")
    /\ UNCHANGED <<storeVars, graphVars, session, split, budget>>

\* One of the statements fails, and the request with it: the issues of before stay, or
\* none are left.  The result it has set stays in the session.
IssuesFail(c) ==
    /\ req[c].pc \in {"clearing", "reporting"} /\ budget.faults > 0
    /\ budget' = [budget EXCEPT !.faults = @ - 1]
    /\ lost' = Lost(lost.graph, lost.reports \cup {req[c].file})
    /\ Goes(c, "refused")
    /\ UNCHANGED <<storeVars, graphVars, session, issues, split>>

\* buildCorrelationRecords refuses sheets that were truncated.
GatherStarts(c, kind) ==
    /\ Asked(c, kind)
    /\ LET others == IF kind = "convert" THEN Busy(kind) ELSE {}
       IN  req' = [Torn(others) EXCEPT
                     ![c] = [Idle EXCEPT !.pc = IF Parsed \cap Truncated = {} THEN "gathering"
                                                ELSE "refused",
                                         !.kind = kind, !.at = 1, !.torn = others # {}]]
    /\ UNCHANGED <<storeVars, graphVars, session, issues, split, lost>>

\* The mapping of a sheet is read just before its rows are awaited.
Gathered(c, f) == req[c].of \cup {<<g, Config(g)>> : g \in {f} \cap session.parsed}

\* The loop runs over the live list of files, from which others may remove some.
Gather(c) ==
    /\ req[c].pc = "gathering" /\ req[c].at <= Len(session.files)
    /\ req' = [req EXCEPT ![c].of = Gathered(c, session.files[req[c].at]), ![c].at = @ + 1]
    /\ UNCHANGED <<storeVars, graphVars, session, issues, split, budget, lost>>

AllGathered(c, kind) ==
    /\ req[c].pc = "gathering" /\ req[c].kind = kind /\ req[c].at > Len(session.files)

\* Slip: the conversion of an earlier correlation stays.
CorrelatedOnly(s, result) == [s EXCEPT !.correlation = result]

\* setCorrelationResult
Correlated(s, result) == [s EXCEPT !.correlation = result, !.conversion = None]

Correlate(c) ==
    /\ AllGathered(c, "correlate")
    /\ session' = Correlated(session, Result(req[c].of, 0, req[c].torn))
    /\ Snapshot(<<c, "correlation">>)
    /\ Goes(c, "answered")
    /\ UNCHANGED <<errors, rows, graphVars, issues, split, budget, lost>>

\* convert takes the correlation that is there, or computes one.
Convert(c) ==
    /\ AllGathered(c, "convert")
    /\ LET known == session.correlation
           used  == IF known.of # {} THEN known ELSE Result(req[c].of, 0, req[c].torn)
       IN  /\ session' = Correlated(session, used)
           /\ req' = [req EXCEPT ![c].pc = "replacing", ![c].torn = @ \/ used.torn]
    /\ Snapshot(<<c, "correlation">>)
    /\ UNCHANGED <<errors, rows, graphVars, issues, split, budget, lost>>

\* graphChunks.replace: one transaction.  A graph that is being read becomes a mixed one.
ChunksReplaced(c) ==
    /\ req[c].pc = "replacing"
    /\ chunks' = chunks + 1
    /\ req' = [req EXCEPT ![c].pc = "converted", ![c].n = chunks']
    /\ split' = IF \E d \in Clients : req[d].pc = "linking" THEN split \cup {"convert"} ELSE split
    /\ UNCHANGED <<storeVars, memories, neo, session, issues, budget, lost>>

\* The continuation of convert once its chunks are in PostgreSQL.
HasReplaced(c) == req[c].pc = "converted"

ConversionStored(c) ==
    /\ HasReplaced(c)
    /\ session' = [session EXCEPT !.conversion = Result(req[c].of, req[c].n, req[c].torn)]
    /\ Snapshot(<<c, "conversion">>)
    /\ Flushing(c, req, "saving")
    /\ lost' = Lost(lost.graph /\ req[c].torn, lost.reports)
    /\ UNCHANGED <<errors, rows, graphVars, issues, split, budget>>

ConvertEnds(c) ==
    /\ Ended(c, "saving")
    /\ \/ FlushReturns /\ Goes(c, "answered")
       \/ FlushThrows /\ Goes(c, "refused")
    /\ UNCHANGED <<pending, rows, graphVars, session, issues, split, budget, lost>>

------------------------------------------------------------------------------
(* persist, with or without Neo4j                                          *)

PersistStarts(c) ==
    /\ Asked(c, "persist") /\ session.conversion # None
    /\ split' = IF Busy("persist") = {} THEN {} ELSE split \cup {"persist"}
    /\ req' = [req EXCEPT ![c] = [Idle EXCEPT !.pc = IF budget.neo4j THEN "opening" ELSE "loading",
                                              !.kind = "persist"]]
    /\ UNCHANGED <<storeVars, graphVars, session, issues, lost>>

\* The chunks of the nodes are read, then those of the links, without a transaction.
LoadNodes(c) ==
    /\ req[c].pc = "loading"
    /\ req' = [req EXCEPT ![c].pc = "linking", ![c].graph.nodes = chunks]
    /\ UNCHANGED <<storeVars, graphVars, session, issues, split, budget, lost>>

LoadLinks(c) ==
    LET g == [req[c].graph EXCEPT !.links = chunks]
        r == [req EXCEPT ![c].graph = g]
    IN  /\ req[c].pc = "linking"
        /\ IF budget.neo4j
           THEN UNCHANGED <<risk, pending, lost>> /\ req' = [r EXCEPT ![c].pc = "committing"]
           ELSE SetMemoryGraph(c, g) /\ Flushing(c, r, "flushing")
        /\ UNCHANGED <<errors, rows, chunks, context, neo, session, issues, split, budget, lost>>

\* The risk engine has the graph; a write that fails keeps it from the graph context.
RiskSaved(c) ==
    /\ Ended(c, "flushing")
    /\ \/ /\ FlushReturns
          /\ SetImportedGraph(c, req[c].graph)
          /\ Goes(c, "refreshing") /\ UNCHANGED split
       \/ /\ FlushThrows
          /\ Goes(c, "refused") /\ Faulty
          /\ UNCHANGED <<context, pending, lost>>
    /\ UNCHANGED <<rows, chunks, risk, neo, session, issues, budget, lost>>

\* refresh, once the row "active_import" is written.
Refresh(c) ==
    /\ req[c].pc = "refreshing"
    /\ LoadImported
    /\ Goes(c, "answered")
    /\ UNCHANGED <<storeVars, chunks, risk, neo, session, issues, split, budget, lost>>

VersionOpens(c) ==
    /\ req[c].pc = "opening"
    /\ VersionSaved([status |-> "APPLYING"])
    /\ req' = [req EXCEPT ![c].pc = "loading", ![c].n = Len(versions')]
    /\ UNCHANGED <<storeVars, chunks, memories, applied, session, issues, split, budget, lost>>

TransactionCommits(c) ==
    /\ req[c].pc = "committing"
    /\ Commits(req[c].n, req[c].graph)
    /\ Goes(c, "completing")
    /\ UNCHANGED <<storeVars, chunks, memories, versions, session, issues, split, budget, lost>>

\* The transaction rolls back, or the row cannot be completed after it has committed.
ApplyFails(c) ==
    /\ req[c].pc \in {"committing", "completing"} /\ budget.faults > 0
    /\ budget' = [budget EXCEPT !.faults = @ - 1]
    /\ VersionEnds(req[c].n, "FAILED")
    /\ Goes(c, "refused") /\ Faulty
    /\ UNCHANGED <<storeVars, chunks, memories, applied, session, issues, lost>>

\* Slip: the row is completed before the transaction commits.
CompletesEarly(c) == req[c].pc \in {"committing", "completing"}

HasCommitted(c) == req[c].pc = "completing"

ApplyCompletes(c) ==
    /\ HasCommitted(c)
    /\ VersionEnds(req[c].n, "COMPLETED")
    /\ Goes(c, "answered")
    /\ UNCHANGED <<storeVars, chunks, memories, applied, session, issues, split, budget, lost>>

------------------------------------------------------------------------------
(* The rows, faults and restarts                                           *)

\* The session object is written as it is when the statement is sent, which may be
\* after a later change; the results are those of the call.
Late(w) == [w.value EXCEPT !.files = session.files, !.parsed = session.parsed, !.class = session.class,
                           !.late = @ \/ w.value.files # session.files
                                      \/ w.value.parsed # session.parsed
                                      \/ w.value.class # session.class]

WriteLands(w) ==
    /\ \/ Lands(w)
       \/ /\ w.row = "import" /\ Late(w) # w.value
          /\ pending' = pending \ {w}
          /\ rows' = [rows EXCEPT !["import"] = Late(w)]
          /\ UNCHANGED errors
    /\ UNCHANGED <<graphVars, session, issues, req, split, budget, lost>>

WriteFails(w) ==
    /\ budget.faults > 0
    /\ budget' = [budget EXCEPT !.faults = @ - 1]
    /\ Fails(w)
    /\ Faulty
    /\ UNCHANGED <<graphVars, session, issues, req, lost>>

\* The backend comes up again with its rows.
Restart ==
    /\ budget.crashes > 0
    /\ budget' = [budget EXCEPT !.crashes = @ - 1]
    /\ session' = rows["import"]
    /\ lost' = Lost(\/ lost.graph \/ Busy("convert") # {}
                    \/ rows["import"].conversion # session.conversion,
                    lost.reports \cup
                      {f \in FileSet : \/ \E c \in Busy("validate") : req[c].file = f
                                       \/ rows["import"].validation[f] # session.validation[f]})
    /\ pending' = {} /\ errors' = <<>>
    /\ risk' = rows["imported"] /\ context' = rows["imported"]
    /\ req' = [c \in Clients |-> Idle] /\ worker' = NoWork
    /\ Faulty
    /\ UNCHANGED <<rows, chunks, neo, issues>>

RequestStarts(c) ==
    \/ \E f \in FileSet : ValidateStarts(c, f)
    \/ \E kind \in {"correlate", "convert"} : GatherStarts(c, kind)
    \/ PersistStarts(c)

RequestGoesOn(c) ==
    \/ ValidateStores(c) \/ IssuesDeleted(c) \/ IssuesSaved(c) \/ IssuesFail(c)
    \/ Gather(c) \/ Correlate(c) \/ Convert(c)
    \/ ChunksReplaced(c) \/ ConversionStored(c) \/ ConvertEnds(c)
    \/ LoadNodes(c) \/ LoadLinks(c) \/ RiskSaved(c) \/ Refresh(c)
    \/ VersionOpens(c) \/ TransactionCommits(c) \/ ApplyFails(c) \/ ApplyCompletes(c)

Next ==
    \/ /\ \/ \E f \in FileSet : ApplyMappings(f) \/ Classify(f) \/ RemoveFile(f)
          \/ \E c \in Clients : RequestStarts(c) \/ RequestGoesOn(c)
          \/ \E w \in pending : WriteLands(w) \/ WriteFails(w)
       /\ UNCHANGED worker
    \/ \E f \in FileSet : WorkerStarts(f)
    \/ ParsedInChunks \/ ParsedInline
    \/ Restart

Spec == Init /\ [][Next]_vars

------------------------------------------------------------------------------
(* Properties                                                              *)

Outcome(r) == /\ r.of \subseteq FileSet \X (({0, 1}) \X Nat)
              /\ r.n \in Nat /\ r.torn \in BOOLEAN

\* The caches of the import, its requests and the graphs have their types.
TypeOK ==
    /\ Present \subseteq FileSet /\ session.parsed \subseteq FileSet
    /\ session.class \in [FileSet -> {0, 1}] /\ session.mapping \in [FileSet -> Nat]
    /\ \A f \in FileSet : Outcome(session.validation[f])
    /\ Outcome(session.correlation) /\ Outcome(session.conversion)
    /\ \A c \in Clients : req[c].kind \in Kinds \cup {"none"} /\ req[c].torn \in BOOLEAN
    /\ chunks \in Nat /\ risk \in [nodes : Nat, links : Nat]
    /\ \A v \in DOMAIN versions :
           versions[v].status \in {"APPLYING", "COMPLETED", "FAILED"}

\* A validation that is shown was computed with the mapping and the classification in
\* effect: no change leaves one that was computed before it, no restart brings one back,
\* and none is left of a file that was removed and may come back.  Two things do leave
\* one, and are let through: a request that overlapped with a change, or with another
\* validation of the sheet, stores what it has read (torn), and a row that was sent
\* after a later change mixes its files and types with older results (late).
ValidationIsCurrent ==
    \A f \in FileSet :
        LET v == session.validation[f]
        IN  v # None => v.torn \/ session.late \/ v.of = {<<f, Config(f)>>}

\* A correlation covers exactly the files that have sheets, each with the mapping in
\* effect, and so does the conversion; only a file that is parsed in chunks drops no
\* result, and may be missing from those before it.  As above, a request that overlapped
\* with a change (torn) and a row that mixes two states (late) may leave an older one.
ResultsAreCurrent ==
    LET current(files) == {<<f, Config(f)>> : f \in files}
        uploaded == IF budget.parses = "chunks" THEN Parsed \cap Uploaded.parsed ELSE Parsed
    IN \A r \in {session.correlation, session.conversion} :
           r # None => \/ r.torn \/ session.late
                       \/ current(uploaded) \subseteq r.of /\ r.of \subseteq current(Parsed)

\* graph-preview: with limits, the graph in PostgreSQL while there is one.
Preview(limited) == IF limited /\ chunks # 0 THEN chunks ELSE session.conversion.n

\* A conversion is never shown before its graph is in PostgreSQL, and what is there is
\* this graph or that of a later conversion, whatever requests overlap or a restart
\* interrupts.  It is this very graph, in the previews with and without limits too,
\* unless the conversion overlapped with a change or with another conversion (torn), or
\* a restart interrupted a conversion or did not find the row of the last one (lost);
\* then the previews differ, until a conversion that overlaps with none is done.
GraphOfConversion ==
    LET r == session.conversion
    IN r # None => /\ r.n \in 1..chunks
                   /\ \/ r.torn \/ lost.graph
                      \/ \A limited \in BOOLEAN : r.n = chunks /\ Preview(limited) = r.n

\* While no validation of a sheet is under way, the durable report holds the issues of
\* the validation shown and no others, whatever an earlier one left there.  A statement
\* that fails or a restart in between leaves older issues or none (lost), but only until
\* the sheet is validated again; so do validations that overlap (torn).
ReportOfValidation ==
    \A f \in FileSet :
        LET v == session.validation[f]
        IN  v # None /\ (\A c \in Busy("validate") : req[c].file # f)
              => \/ v.torn \/ f \in lost.reports
                 \/ \E c \in Clients : issues[f] = {<<c, v.of>>}

\* The last persists were answered one after the other, without a fault.
Undisturbed == Busy("persist") = {} /\ split \subseteq {"convert"}

\* When every persist has been answered and every write has landed, the risk engine
\* holds the graph that it finds again after a restart, and it is mixed only when a
\* conversion replaced the chunks while they were read.
PersistedIsKept ==
    Undisturbed /\ pending = {}
        => /\ risk = rows["imported"]
           /\ risk.nodes # risk.links => "convert" \in split

\* Neo4j holds what its version history says: only recorded versions are applied, a
\* completed one has been, and the latest of them was applied last.
HistoryOfGraph ==
    /\ \A i \in DOMAIN applied : applied[i].version \in DOMAIN versions
    /\ \A v \in DOMAIN versions :
           versions[v].status = "COMPLETED" => \E i \in DOMAIN applied : applied[i].version = v
    /\ applied # <<>> /\ Undisturbed => Last(applied).version = LatestVersion
==================================================================================

--------------------------- MODULE ImportProcessing ---------------------------
(***************************************************************************)
(* The life of one asynchronous import: ImportsService (a session object   *)
(* in the memory of each backend instance, and its snapshot in the table   *)
(* import_sessions), ImportWorkerService (the runs that claim and process  *)
(* jobs), ImportChunkService (the parsed rows in PostgreSQL) and the queue *)
(* of module ImportQueue.                                                  *)
(*                                                                         *)
(* JavaScript runs to completion between two awaits, so an action here is  *)
(* either the code between two awaits of one handler or the effect of one  *)
(* awaited statement on the database.  Everything else (other runs,        *)
(* requests, timers, the other instance, a crash) may happen in between.   *)
(***************************************************************************)
EXTENDS ImportQueue

CONSTANTS Instances,    \* backend processes
          Workers,      \* concurrent runJob calls, over all instances
          HostOf,       \* the instance a worker runs in
          ExcelFiles,   \* files parsed by parseExcelChunked, the rest are CSV
          EvenFiles,    \* files whose last chunk is full
          MaxFaults,    \* bound: database statements that fail
          MaxCrashes,   \* bound: crashes of an instance
          MaxRetries,   \* bound: retry requests of the user
          MaxStalls,    \* bound: leases that run out under a live run
          MaxTimers,    \* bound: session timers that fire
          MaxLosses,    \* bound: source files that disappear
          MaxCancels,   \* bound: cancel requests of the user
          MaxWrites     \* bound: tracked writes of an instance under way at once

ASSUME ProcessingAssumption ==
    /\ Files # {}
    /\ HostOf \in [Workers -> Instances]
    /\ ExcelFiles \subseteq Files /\ EvenFiles \subseteq Files
    /\ MaxFaults \in Nat /\ MaxCrashes \in Nat /\ MaxRetries \in Nat
    /\ MaxStalls \in Nat /\ MaxTimers \in Nat /\ MaxLosses \in Nat
    /\ MaxCancels \in Nat /\ MaxWrites \in Nat \ {0}

VARIABLES
    chunks,     \* import_row_chunks: file -> the chunk indices stored
    saved,      \* import_sessions: the snapshot and its cancelled column
    source,     \* the files that are still in IMPORT_UPLOAD_DIR
    phase,      \* instance -> down, starting, recovering or up
    session,    \* instance -> its session object
    timer,      \* instance -> the cleanup timer of the session is armed
    upload,     \* instance -> where its uploadAsync call is
    writes,     \* instance -> tracked saveImport writes under way
    cancelling, \* instances with a queue.cancel under way
    retry,      \* instance -> file -> where queue.retry is, and the row it read
    recovery,   \* instance -> file -> what its startup still has to do
    run,        \* worker -> its runJob call
    budget      \* what is left of the bounds

procVars == <<chunks, saved, source, phase, session, timer, upload, writes,
              cancelling, retry, recovery, run, budget>>
vars == <<jobs, chunks, saved, source, phase, session, timer, upload, writes,
          cancelling, retry, recovery, run, budget>>

------------------------------------------------------------------------------
(* Types                                                                   *)

Chunks        == 0..(NumChunks - 1)
FileStatus    == {"uploaded", "inspected", "error"}
SessionStatus == {"parsing", "completed", "failed", "cancelled"}
Settled       == {"completed", "failed", "cancelled"}

\* listed: the object is in the sessions map (a run may hold it afterwards);
\* rows: progress.rowsProcessed of each file, in chunks.
Session == [listed : BOOLEAN, status : SessionStatus, cancelled : BOOLEAN,
            files  : [Files -> FileStatus], rows : [Files -> 0..NumChunks]]

NoSession == [listed |-> FALSE, status |-> "parsing", cancelled |-> FALSE,
              files  |-> [f \in Files |-> "uploaded"],
              rows   |-> [f \in Files |-> 0]]

\* A tracked saveImport: called with the cancelled flag of the moment, sent with
\* the session as it is then.  Several are under way at once, on connections of
\* their own.
Slots     == 1..MaxWrites
WriteStep == {"none", "called", "sent"}
Write     == [step : WriteStep, cancelled : BOOLEAN, session : Session]

NoWrite == [step |-> "none", cancelled |-> FALSE, session |-> NoSession]

\* Steps of runJob and processQueuedJob, named for what comes next.
RunStep == {"idle", "starting", "opening", "skipping", "parsing", "appending",
            "reporting", "checkpointing", "flushing", "finishing", "finalFlush",
            "finalCheckpoint", "completing", "failing", "rescheduling",
            "rejecting", "marking"}

\* attempts: of the row as claimed; pos: chunks parsed so far; mark: the
\* rowsProcessed that the next saveCheckpoint writes; awaits: the tracked
\* writes that its flush waits for; last: it found no file left to do.
Run == [pc : RunStep, file : Files, attempts : Nat, pos : 0..NumChunks,
        mark : 0..NumChunks, awaits : SUBSET Slots, last : BOOLEAN]

NoRun == [pc |-> "idle", file |-> CHOOSE f \in Files : TRUE, attempts |-> 0,
          pos |-> 0, mark |-> 0, awaits |-> {}, last |-> FALSE]

NoRetry == [step |-> "idle", row |-> NoJob]

Budget == [faults : Nat, crashes : Nat, retries : Nat, stalls : Nat,
           timers : Nat, losses : Nat, cancels : Nat]

Up(i) == phase[i] = "up"
Live(w) == Up(HostOf[w]) /\ run[w].pc # "idle"
At(w, step) == Up(HostOf[w]) /\ run[w].pc = step
Goto(w, step) == run' = [run EXCEPT ![w].pc = step]
EndRun(w) == run' = [run EXCEPT ![w] = NoRun]
Held(f) == \E w \in Workers : Live(w) /\ run[w].file = f

UnderWay(i) == {s \in Slots : writes[i][s].step # "none"}

\* The store tracks one more write.
Track(i, cancelled) ==
    \E s \in Slots :
        /\ writes[i][s].step = "none"
        /\ \A t \in 1..(s - 1) : writes[i][t].step # "none"
        /\ writes' = [writes EXCEPT ![i][s] = [NoWrite EXCEPT !.step = "called",
                                                            !.cancelled = cancelled]]

\* persistSnapshot.
Persist(i, ses) ==
    IF ses.listed THEN Track(i, ses.cancelled) ELSE UNCHANGED writes

\* markFailed, and markFileFailed when files is the updated map.
FailedSession(ses, files) ==
    IF ses.listed THEN [ses EXCEPT !.status = "failed", !.files = files] ELSE ses

MarkFailed(i, files) ==
    /\ session' = [session EXCEPT ![i] = FailedSession(@, files)]
    /\ Persist(i, session[i])
    /\ timer' = [timer EXCEPT ![i] = @ \/ session[i].listed]

\* Slip: the session is marked and the file forgotten.
MarkSessionOnly(i, f) == MarkFailed(i, session[i].files)

MarkFileFailed(i, f) == MarkFailed(i, [session[i].files EXCEPT ![f] = "error"])

------------------------------------------------------------------------------
Init ==
    /\ jobs = [f \in Files |-> NoJob]
    /\ chunks = [f \in Files |-> {}]
    /\ saved = [session |-> NoSession, cancelled |-> FALSE]
    /\ source = {}
    /\ phase = [i \in Instances |-> "up"]
    /\ session = [i \in Instances |-> NoSession]
    /\ timer = [i \in Instances |-> FALSE]
    /\ upload = [i \in Instances |-> "none"]
    /\ writes = [i \in Instances |-> [s \in Slots |-> NoWrite]]
    /\ cancelling = {}
    /\ retry = [i \in Instances |-> [f \in Files |-> NoRetry]]
    /\ recovery = [i \in Instances |-> [f \in Files |-> "done"]]
    /\ run = [w \in Workers |-> NoRun]
    /\ budget = [faults |-> MaxFaults, crashes |-> MaxCrashes,
                 retries |-> MaxRetries, stalls |-> MaxStalls,
                 timers |-> MaxTimers, losses |-> MaxLosses,
                 cancels |-> MaxCancels]

------------------------------------------------------------------------------
(* Upload: POST /imports/upload-async                                      *)

\* The source files are written and the session is created; then its snapshot
\* is flushed, before any job exists.
Upload(i) ==
    /\ Up(i) /\ upload[i] = "none" /\ ~session[i].listed
    /\ ~saved.session.listed
    /\ \A k \in Instances : upload[k] = "none"
    /\ session' = [session EXCEPT ![i] = [NoSession EXCEPT !.listed = TRUE]]
    /\ source' = Files
    /\ Track(i, FALSE)
    /\ upload' = [upload EXCEPT ![i] = "flushing"]
    /\ UNCHANGED <<jobs, chunks, saved, phase, timer, cancelling, retry,
                   recovery, run, budget>>

\* Until its flush ends, only a cancellation tracks another write.
UploadFlushed(i) ==
    /\ Up(i) /\ upload[i] = "flushing"
    /\ \A s \in UnderWay(i) : writes[i][s].cancelled
    /\ upload' = [upload EXCEPT ![i] = "enqueueing"]
    /\ timer' = [timer EXCEPT ![i] = TRUE]
    /\ UNCHANGED <<jobs, chunks, saved, source, phase, session, writes,
                   cancelling, retry, recovery, run, budget>>

UploadEnqueues(i, f) ==
    /\ Up(i) /\ upload[i] = "enqueueing" /\ jobs[f].status = "NONE"
    /\ EnqueueJob(f)
    /\ UNCHANGED procVars

\* A statement of uploadAsync fails: the request is answered with an error, the
\* session stays in the map (before the flush: without a timer).
UploadFails(i) ==
    /\ Up(i) /\ upload[i] # "none" /\ upload[i] # "failed"
    /\ budget.faults > 0
    /\ upload' = [upload EXCEPT ![i] = "failed"]
    /\ budget' = [budget EXCEPT !.faults = @ - 1]
    /\ UNCHANGED <<jobs, chunks, saved, source, phase, session, timer, writes,
                   cancelling, retry, recovery, run>>

------------------------------------------------------------------------------
(* The tracked writes of OperationalStoreService                           *)

\* The session is serialised when the statement is sent, after a look at the row.
WriteSent(i, s) ==
    /\ writes[i][s].step = "called"
    /\ writes' = [writes EXCEPT ![i][s].step = "sent",
                    ![i][s].session = [session[i] EXCEPT !.listed = TRUE]]
    /\ UNCHANGED <<jobs, chunks, saved, source, phase, session, timer, upload,
                   cancelling, retry, recovery, run, budget>>

WriteEnds(i, s) ==
    /\ writes' = [writes EXCEPT ![i][s] = NoWrite]
    /\ run' = [w \in Workers |-> IF HostOf[w] = i
                                 THEN [run[w] EXCEPT !.awaits = @ \ {s}]
                                 ELSE run[w]]

\* In any order: a snapshot may land after one that was sent later.
WriteLands(i, s) ==
    /\ writes[i][s].step = "sent"
    /\ WriteEnds(i, s)
    /\ saved' = [session   |-> writes[i][s].session,
                 cancelled |-> writes[i][s].cancelled]
    /\ UNCHANGED <<jobs, chunks, source, phase, session, timer, upload,
                   cancelling, retry, recovery, budget>>

\* The error goes to whichever flush comes next: FaultInRun, UploadFails.
WriteFails(i, s) ==
    /\ writes[i][s].step # "none"
    /\ WriteEnds(i, s)
    /\ budget.faults > 0
    /\ budget' = [budget EXCEPT !.faults = @ - 1]
    /\ UNCHANGED <<jobs, chunks, saved, source, phase, session, timer, upload,
                   cancelling, retry, recovery>>

------------------------------------------------------------------------------
(* A run: ImportWorkerService.runJob and ImportsService.processQueuedJob   *)

\* Slip: a resumed run starts one chunk too far.
ClaimSkips(w, f) ==
    /\ At(w, "idle")
    /\ ClaimJob(f)
    /\ run' = [run EXCEPT ![w] = [NoRun EXCEPT
                   !.pc = "starting", !.file = f, !.attempts = jobs[f].attempts + 1,
                   !.pos = IF jobs[f].rows < NumChunks THEN jobs[f].rows + 1
                                                       ELSE NumChunks]]
    /\ UNCHANGED <<chunks, saved, source, phase, session, timer, upload, writes,
                   cancelling, retry, recovery, budget>>

Claim(w, f) ==
    /\ At(w, "idle")
    /\ ClaimJob(f)
    /\ run' = [run EXCEPT ![w] = [pc |-> "starting", file |-> f,
                                  attempts |-> jobs[f].attempts + 1,
                                  pos |-> IF f \in ExcelFiles THEN 0
                                                              ELSE jobs[f].rows,
                                  mark |-> 0, awaits |-> {}, last |-> FALSE]]
    /\ UNCHANGED <<chunks, saved, source, phase, session, timer, upload, writes,
                   cancelling, retry, recovery, budget>>

\* The guards of processQueuedJob; the first checkpoint repeats the progress
\* that this instance remembers, not the one of the claimed row.
Start(w) ==
    LET ses == session[HostOf[w]]
        f   == run[w].file
    IN  /\ At(w, "starting")
        /\ \/ /\ ~ses.listed \/ ses.cancelled
              /\ Goto(w, "failing")
           \/ /\ ses.listed /\ ~ses.cancelled /\ f \notin source
              /\ Goto(w, "rejecting")
           \/ /\ ses.listed /\ ~ses.cancelled /\ f \in source
              /\ run' = [run EXCEPT ![w] = [@ EXCEPT !.pc = "opening",
                                                     !.mark = ses.rows[f]]]
        /\ UNCHANGED <<jobs, chunks, saved, source, phase, session, timer,
                       upload, writes, cancelling, retry, recovery, budget>>

\* Every saveCheckpoint of a run: opening, after a chunk, at the end.
SaveCheckpoint(w, from, to) ==
    /\ At(w, from)
    /\ CheckpointJob(run[w].file, run[w].mark)
    /\ Goto(w, to)
    /\ UNCHANGED <<chunks, saved, source, phase, session, timer, upload, writes,
                   cancelling, retry, recovery, budget>>

\* The rows that were stored before are read again, and each looks at the flag.
SkipRows(w) ==
    /\ At(w, "skipping")
    /\ Goto(w, IF session[HostOf[w]].cancelled THEN "failing" ELSE "parsing")
    /\ UNCHANGED <<jobs, chunks, saved, source, phase, session, timer, upload,
                   writes, cancelling, retry, recovery, budget>>

\* Slip: the end of the file is not noticed.
ParseRowsUnbounded(w) ==
    /\ At(w, "parsing")
    /\ Goto(w, "appending")
    /\ UNCHANGED <<jobs, chunks, saved, source, phase, session, timer, upload,
                   writes, cancelling, retry, recovery, budget>>

\* Slip: the loop ends one chunk early.
ParseRowsShort(w) ==
    /\ At(w, "parsing")
    /\ Goto(w, IF run[w].pos + 1 >= NumChunks THEN "finishing" ELSE "appending")
    /\ UNCHANGED <<jobs, chunks, saved, source, phase, session, timer, upload,
                   writes, cancelling, retry, recovery, budget>>

\* The row loop up to the next full chunk or the end of the file.
ParseRows(w) ==
    /\ At(w, "parsing")
    /\ \/ run[w].pos = NumChunks /\ Goto(w, "finishing")
       \/ /\ run[w].pos < NumChunks
          /\ Goto(w, IF session[HostOf[w]].cancelled THEN "failing"
                                                     ELSE "appending")
    /\ UNCHANGED <<jobs, chunks, saved, source, phase, session, timer, upload,
                   writes, cancelling, retry, recovery, budget>>

\* parseCsvChunked does not report a last chunk that is not full.
Reported(f, pos) == pos < NumChunks \/ f \in ExcelFiles \/ f \in EvenFiles

\* Slip: the upsert conflicts on the file alone and replaces the last chunk.
AppendReplaces(w) ==
    LET f == run[w].file
    IN  /\ At(w, "appending")
        /\ chunks' = [chunks EXCEPT ![f] = {run[w].pos}]
        /\ run' = [run EXCEPT ![w] =
                        [@ EXCEPT !.pos = run[w].pos + 1,
                                  !.pc = IF Reported(f, run[w].pos + 1)
                                         THEN "reporting" ELSE "finishing"]]
        /\ UNCHANGED <<jobs, saved, source, phase, session, timer, upload,
                       writes, cancelling, retry, recovery, budget>>

AppendChunk(w) ==
    LET f == run[w].file
    IN  /\ At(w, "appending")
        /\ chunks' = [chunks EXCEPT ![f] = @ \union {run[w].pos}]
        /\ run' = [run EXCEPT ![w] =
                        [@ EXCEPT !.pos = run[w].pos + 1,
                                  !.pc = IF Reported(f, run[w].pos + 1)
                                         THEN "reporting" ELSE "finishing"]]
        /\ UNCHANGED <<jobs, saved, source, phase, session, timer, upload,
                       writes, cancelling, retry, recovery, budget>>

\* Slip: the progress counts the chunk that is about to be parsed.
ReportProgressAhead(w) ==
    LET i     == HostOf[w]
        ahead == IF run[w].pos < NumChunks THEN run[w].pos + 1 ELSE NumChunks
    IN  /\ At(w, "reporting")
        /\ session' = [session EXCEPT ![i].rows[run[w].file] = ahead,
                                      ![i].status = "parsing"]
        /\ Persist(i, session[i])
        /\ run' = [run EXCEPT ![w] = [@ EXCEPT !.pc = "checkpointing",
                                               !.mark = ahead,
                                               !.awaits = UnderWay(i)']]
        /\ UNCHANGED <<jobs, chunks, saved, source, phase, timer, upload,
                       cancelling, retry, recovery, budget>>

\* onProgress, up to its Promise.all.
ReportProgress(w) ==
    LET i == HostOf[w]
    IN  /\ At(w, "reporting")
        /\ session' = [session EXCEPT ![i].rows[run[w].file] = run[w].pos,
                                      ![i].status = "parsing"]
        /\ Persist(i, session[i])
        /\ run' = [run EXCEPT ![w] = [@ EXCEPT !.pc = "checkpointing",
                                               !.mark = run[w].pos,
                                               !.awaits = UnderWay(i)']]
        /\ UNCHANGED <<jobs, chunks, saved, source, phase, timer, upload,
                       cancelling, retry, recovery, budget>>

\* Slip: the flush is not awaited.
FlushNotAwaited(w, from, to) ==
    /\ At(w, from)
    /\ Goto(w, to)
    /\ UNCHANGED <<jobs, chunks, saved, source, phase, session, timer, upload,
                   writes, cancelling, retry, recovery, budget>>

\* store.flush waits for the writes that were tracked when it was called.
Flush(w, from, to) ==
    /\ At(w, from) /\ run[w].awaits = {}
    /\ Goto(w, to)
    /\ UNCHANGED <<jobs, chunks, saved, source, phase, session, timer, upload,
                   writes, cancelling, retry, recovery, budget>>

\* The file is inspected; the session is completed when no file is left.
Finish(w) ==
    LET i     == HostOf[w]
        files == [session[i].files EXCEPT ![run[w].file] = "inspected"]
        done  == \A g \in Files : files[g] \in {"inspected", "error"}
    IN  /\ At(w, "finishing")
        /\ session' = [session EXCEPT ![i].files = files,
                           ![i].status = IF done THEN "completed" ELSE "parsing"]
        /\ Persist(i, session[i])
        /\ run' = [run EXCEPT ![w] = [@ EXCEPT !.pc = "finalFlush",
                                               !.mark = NumChunks,
                                               !.awaits = UnderWay(i)',
                                               !.last = done]]
        /\ UNCHANGED <<jobs, chunks, saved, source, phase, timer, upload,
                       cancelling, retry, recovery, budget>>

\* The run that found no file left then arms the timer.
FinalFlush(w) ==
    /\ At(w, "finalFlush") /\ run[w].awaits = {}
    /\ Goto(w, "finalCheckpoint")
    /\ timer' = [timer EXCEPT ![HostOf[w]] = @ \/ run[w].last]
    /\ UNCHANGED <<jobs, chunks, saved, source, phase, session, upload, writes,
                   cancelling, retry, recovery, budget>>

Complete(w) ==
    /\ At(w, "completing")
    /\ CompleteJob(run[w].file)
    /\ EndRun(w)
    /\ UNCHANGED <<chunks, saved, source, phase, session, timer, upload, writes,
                   cancelling, retry, recovery, budget>>

\* queue.fail reads the row first and does nothing to a cancelled job.
FailReads(w) ==
    /\ At(w, "failing")
    /\ Goto(w, IF jobs[run[w].file].status = "CANCELLED" THEN "marking"
                                                         ELSE "rescheduling")
    /\ UNCHANGED <<jobs, chunks, saved, source, phase, session, timer, upload,
                   writes, cancelling, retry, recovery, budget>>

FailWrites(w) ==
    /\ At(w, "rescheduling")
    /\ RescheduleJob(run[w].file, run[w].attempts)
    /\ Goto(w, "marking")
    /\ UNCHANGED <<chunks, saved, source, phase, session, timer, upload, writes,
                   cancelling, retry, recovery, budget>>

RejectJob(w) ==
    /\ At(w, "rejecting")
    /\ FailJobPermanently(run[w].file)
    /\ Goto(w, "marking")
    /\ UNCHANGED <<chunks, saved, source, phase, session, timer, upload, writes,
                   cancelling, retry, recovery, budget>>

\* runJob marks the file failed whatever queue.fail decided.
MarkRunFailed(w) ==
    /\ At(w, "marking")
    /\ MarkFileFailed(HostOf[w], run[w].file)
    /\ EndRun(w)
    /\ UNCHANGED <<jobs, chunks, saved, source, phase, upload, cancelling,
                   retry, recovery, budget>>

\* A statement fails.  In the body of the run it leads to queue.fail; in the
\* catch clause it is logged and the run ends, its job left as it is.
FaultInRun(w) ==
    /\ Up(HostOf[w]) /\ budget.faults > 0
    /\ \/ /\ run[w].pc \in {"opening", "appending", "checkpointing", "flushing",
                            "finalFlush", "finalCheckpoint", "completing"}
          /\ run' = [run EXCEPT ![w] = [@ EXCEPT !.pc = "failing",
                                                 !.awaits = {}]]
       \/ /\ run[w].pc \in {"failing", "rescheduling", "rejecting"}
          /\ EndRun(w)
    /\ budget' = [budget EXCEPT !.faults = @ - 1]
    /\ UNCHANGED <<jobs, chunks, saved, source, phase, session, timer, upload,
                   writes, cancelling, retry, recovery>>

\* queue.complete updates the row and then fails to write its audit record.
CompleteUnaudited(w) ==
    /\ At(w, "completing") /\ budget.faults > 0
    /\ CompleteJob(run[w].file)
    /\ Goto(w, "failing")
    /\ budget' = [budget EXCEPT !.faults = @ - 1]
    /\ UNCHANGED <<chunks, saved, source, phase, session, timer, upload, writes,
                   cancelling, retry, recovery>>

\* queue.fail or queue.failPermanent does the same: the run ends with its file
\* not marked.
FailUnaudited(w) ==
    /\ Up(HostOf[w]) /\ budget.faults > 0
    /\ \/ run[w].pc = "rescheduling" /\ RescheduleJob(run[w].file, run[w].attempts)
       \/ run[w].pc = "rejecting" /\ FailJobPermanently(run[w].file)
    /\ EndRun(w)
    /\ budget' = [budget EXCEPT !.faults = @ - 1]
    /\ UNCHANGED <<chunks, saved, source, phase, session, timer, upload, writes,
                   cancelling, retry, recovery>>

------------------------------------------------------------------------------
(* Requests of the user                                                    *)

\* The session is cancelled at once; queue.cancel is not awaited.
Cancel(i) ==
    /\ Up(i) /\ session[i].listed /\ budget.cancels > 0
    /\ session' = [session EXCEPT ![i].cancelled = TRUE, ![i].status = "cancelled"]
    /\ Track(i, TRUE)
    /\ timer' = [timer EXCEPT ![i] = TRUE]
    /\ cancelling' = cancelling \union {i}
    /\ budget' = [budget EXCEPT !.cancels = @ - 1]
    /\ UNCHANGED <<jobs, chunks, saved, source, phase, upload, retry, recovery,
                   run>>

CancelLands(i) ==
    /\ i \in cancelling
    /\ CancelJobs
    /\ cancelling' = cancelling \ {i}
    /\ UNCHANGED <<chunks, saved, source, phase, session, timer, upload, writes,
                   retry, recovery, run, budget>>

\* POST /imports/:id/files/:fileId/retry: only a file in error may be retried.
\* (One request for a file at a time.)
RetryStarts(i, f) ==
    /\ Up(i) /\ session[i].listed /\ session[i].files[f] = "error"
    /\ retry[i][f].step = "idle" /\ budget.retries > 0
    /\ retry' = [retry EXCEPT ![i][f].step = "checking"]
    /\ budget' = [budget EXCEPT !.retries = @ - 1]
    /\ UNCHANGED <<jobs, chunks, saved, source, phase, session, timer, upload,
                   writes, cancelling, recovery, run>>

\* The source was looked at; what the file is by now is not.
AcceptRetry(i, f) ==
    /\ Up(i) /\ retry[i][f].step = "checking" /\ f \in source
    /\ session' = [session EXCEPT ![i].files[f] = "uploaded"]
    /\ Persist(i, session[i])
    /\ retry' = [retry EXCEPT ![i][f].step = "reading"]
    /\ UNCHANGED <<jobs, chunks, saved, source, phase, timer, upload,
                   cancelling, recovery, run, budget>>

RefuseRetry(i, f) ==
    /\ Up(i) /\ retry[i][f].step = "checking" /\ f \notin source
    /\ MarkFileFailed(i, f)
    /\ retry' = [retry EXCEPT ![i][f] = NoRetry]
    /\ UNCHANGED <<jobs, chunks, saved, source, phase, upload, cancelling,
                   recovery, run, budget>>

RetryReads(i, f) ==
    /\ Up(i) /\ retry[i][f].step = "reading" /\ jobs[f].status # "NONE"
    /\ retry' = [retry EXCEPT ![i][f] = [step |-> "writing", row |-> jobs[f]]]
    /\ UNCHANGED <<jobs, chunks, saved, source, phase, session, timer, upload,
                   writes, cancelling, recovery, run, budget>>

RetryWrites(i, f) ==
    /\ Up(i) /\ retry[i][f].step = "writing"
    /\ SaveRetried(f, retry[i][f].row)
    /\ retry' = [retry EXCEPT ![i][f] = NoRetry]
    /\ UNCHANGED <<chunks, saved, source, phase, session, timer, upload, writes,
                   cancelling, recovery, run, budget>>

------------------------------------------------------------------------------
(* Timers and the environment                                              *)

\* The timer of scheduleCleanup.
TimerDue(i) ==
    /\ Up(i) /\ timer[i] /\ session[i].listed /\ budget.timers > 0
    /\ budget' = [budget EXCEPT !.timers = @ - 1]

\* An unsettled session has expired and is marked failed.
ExpireSession(i) ==
    /\ TimerDue(i) /\ session[i].status \notin Settled
    /\ MarkFailed(i, session[i].files)
    /\ UNCHANGED <<jobs, chunks, saved, source, phase, upload, cancelling,
                   retry, recovery, run>>

\* A settled one leaves the map and its source files are deleted.
CleanUpSession(i) ==
    /\ TimerDue(i) /\ session[i].status \in Settled
    /\ session' = [session EXCEPT ![i].listed = FALSE]
    /\ timer' = [timer EXCEPT ![i] = FALSE]
    /\ source' = {}
    /\ UNCHANGED <<jobs, chunks, saved, phase, upload, writes, cancelling,
                   retry, recovery, run>>

\* A lease runs out: for certain once nobody works on the job, and under a
\* live run when it does not reach a checkpoint in time.
LeaseExpires(f) ==
    /\ ~Held(f)
    /\ LeaseRunsOut(f)
    /\ UNCHANGED procVars

RunStalls(f) ==
    /\ Held(f) /\ budget.stalls > 0
    /\ LeaseRunsOut(f)
    /\ budget' = [budget EXCEPT !.stalls = @ - 1]
    /\ UNCHANGED <<chunks, saved, source, phase, session, timer, upload, writes,
                   cancelling, retry, recovery, run>>

LoseSource(f) ==
    /\ f \in source /\ budget.losses > 0
    /\ source' = source \ {f}
    /\ budget' = [budget EXCEPT !.losses = @ - 1]
    /\ UNCHANGED <<jobs, chunks, saved, phase, session, timer, upload, writes,
                   cancelling, retry, recovery, run>>

------------------------------------------------------------------------------
(* Crash and startup                                                       *)

Crash(i) ==
    /\ phase[i] # "down" /\ budget.crashes > 0
    /\ budget' = [budget EXCEPT !.crashes = @ - 1]
    /\ phase' = [phase EXCEPT ![i] = "down"]
    /\ session' = [session EXCEPT ![i] = NoSession]
    /\ timer' = [timer EXCEPT ![i] = FALSE]
    /\ upload' = [upload EXCEPT ![i] = IF @ = "none" THEN @ ELSE "failed"]
    /\ writes' = [writes EXCEPT ![i] = [s \in Slots |-> NoWrite]]
    /\ cancelling' = cancelling \ {i}
    /\ retry' = [retry EXCEPT ![i] = [f \in Files |-> NoRetry]]
    /\ recovery' = [recovery EXCEPT ![i] = [f \in Files |-> "done"]]
    /\ run' = [w \in Workers |-> IF HostOf[w] = i THEN NoRun ELSE run[w]]
    /\ UNCHANGED <<jobs, chunks, saved, source>>

\* Slip: a restored session gets no cleanup timer.
RestartUntimed(i) ==
    /\ phase[i] = "down"
    /\ phase' = [phase EXCEPT ![i] = IF saved.session.status = "parsing"
                                     THEN "starting" ELSE "up"]
    /\ session' = [session EXCEPT ![i] = saved.session]
    /\ UNCHANGED <<jobs, chunks, saved, source, timer, upload, writes, cancelling,
                   retry, recovery, run, budget>>

\* onModuleInit loads the sessions that are not cancelled; a session past its
\* lifetime is not restored.
Restart(i) ==
    /\ phase[i] = "down"
    /\ \/ /\ saved.session.listed /\ ~saved.cancelled
          /\ session' = [session EXCEPT ![i] = saved.session]
          /\ timer' = [timer EXCEPT ![i] = TRUE]
          /\ phase' = [phase EXCEPT ![i] = IF saved.session.status = "parsing"
                                           THEN "starting" ELSE "up"]
          /\ UNCHANGED budget
       \/ /\ ~saved.session.listed \/ saved.cancelled \/ budget.timers > 0
          /\ phase' = [phase EXCEPT ![i] = "up"]
          /\ budget' = IF saved.session.listed /\ ~saved.cancelled
                       THEN [budget EXCEPT !.timers = @ - 1] ELSE budget
          /\ UNCHANGED <<session, timer>>
    /\ UNCHANGED <<jobs, chunks, saved, source, upload, writes, cancelling,
                   retry, recovery, run>>

\* recoverStaleSessions reads the jobs of the import once, and decides on that
\* copy.
RecoverReads(i) ==
    LET todo == {f \in Files : jobs[f].status \in Unfinished}
        over == todo = {} /\ \E f \in Files : jobs[f].status = "FAILED"
    IN  /\ phase[i] = "starting"
        /\ recovery' = [recovery EXCEPT ![i] =
                            [f \in Files |-> IF f \in todo THEN "requeue" ELSE "done"]]
        /\ phase' = [phase EXCEPT ![i] = IF todo = {} THEN "up" ELSE "recovering"]
        /\ IF over THEN MarkFailed(i, session[i].files)
                   ELSE UNCHANGED <<session, writes, timer>>
        /\ UNCHANGED <<jobs, chunks, saved, source, upload, cancelling, retry,
                       run, budget>>

\* Workers start polling when the startup has nothing left to recover.
Recovered(i, f) ==
    /\ recovery' = [recovery EXCEPT ![i][f] = "done"]
    /\ phase' = [phase EXCEPT ![i] =
                     IF \A g \in Files \ {f} : recovery[i][g] = "done"
                     THEN "up" ELSE "recovering"]

RecoverJob(i, f) ==
    /\ phase[i] = "recovering" /\ recovery[i][f] = "requeue"
    /\ \/ /\ f \in source
          /\ RequeueJob(f)
          /\ Recovered(i, f)
       \/ /\ f \notin source
          /\ FailJobPermanently(f)
          /\ recovery' = [recovery EXCEPT ![i][f] = "mark"]
          /\ UNCHANGED phase
    /\ UNCHANGED <<chunks, saved, source, session, timer, upload, writes,
                   cancelling, retry, run, budget>>

\* The catch clause of the recovery also gets the error of requeueRecovered.
RecoverFaults(i, f) ==
    /\ phase[i] = "recovering" /\ recovery[i][f] = "requeue"
    /\ budget.faults > 0
    /\ FailJobPermanently(f)
    /\ recovery' = [recovery EXCEPT ![i][f] = "mark"]
    /\ budget' = [budget EXCEPT !.faults = @ - 1]
    /\ UNCHANGED <<chunks, saved, source, phase, session, timer, upload, writes,
                   cancelling, retry, run>>

RecoverMarks(i, f) ==
    /\ phase[i] = "recovering" /\ recovery[i][f] = "mark"
    /\ MarkFileFailed(i, f)
    /\ Recovered(i, f)
    /\ UNCHANGED <<jobs, chunks, saved, source, upload, cancelling, retry, run,
                   budget>>

------------------------------------------------------------------------------
\* What a run does next, faults apart.
Step(w) ==
    \/ Start(w)
    \/ SaveCheckpoint(w, "opening", "skipping")
    \/ SkipRows(w)
    \/ ParseRows(w)
    \/ AppendChunk(w)
    \/ ReportProgress(w)
    \/ SaveCheckpoint(w, "checkpointing", "flushing")
    \/ Flush(w, "flushing", "parsing")
    \/ Finish(w)
    \/ FinalFlush(w)
    \/ SaveCheckpoint(w, "finalCheckpoint", "completing")
    \/ Complete(w)
    \/ FailReads(w)
    \/ FailWrites(w)
    \/ RejectJob(w)
    \/ MarkRunFailed(w)

Work(w) ==
    \/ Step(w)
    \/ FaultInRun(w) \/ CompleteUnaudited(w) \/ FailUnaudited(w)
    \/ \E f \in Files : Claim(w, f)

Startup(i) ==
    \/ RecoverReads(i)
    \/ \E f \in Files : \/ RecoverJob(i, f) \/ RecoverFaults(i, f)
                        \/ RecoverMarks(i, f)

Request(i) ==
    \/ Upload(i) \/ UploadFlushed(i) \/ UploadFails(i)
    \/ Cancel(i) \/ CancelLands(i)
    \/ \E f \in Files : \/ UploadEnqueues(i, f)
                        \/ RetryStarts(i, f)
                        \/ AcceptRetry(i, f) \/ RefuseRetry(i, f)
                        \/ RetryReads(i, f) \/ RetryWrites(i, f)

Environment ==
    \/ \E i \in Instances : \/ ExpireSession(i) \/ CleanUpSession(i)
                            \/ Crash(i) \/ Restart(i)
    \/ \E i \in Instances, s \in Slots :
            WriteSent(i, s) \/ WriteLands(i, s) \/ WriteFails(i, s)
    \/ \E f \in Files : LeaseExpires(f) \/ RunStalls(f) \/ LoseSource(f)

Next ==
    \/ \E w \in Workers : Work(w)
    \/ \E i \in Instances : Startup(i) \/ Request(i)
    \/ Environment

Spec == Init /\ [][Next]_vars

\* Processes that run keep running, statements are answered, timers of crashed
\* leases pass.  Requests, crashes, faults, stalls and restarts are not fair.
Fairness ==
    /\ \A w \in Workers : /\ WF_vars(Step(w))
                          /\ WF_vars(\E f \in Files : Claim(w, f))
    /\ \A i \in Instances : /\ WF_vars(Startup(i))
                            /\ WF_vars(CancelLands(i))
                            /\ \A s \in Slots :
                                  WF_vars(WriteSent(i, s) \/ WriteLands(i, s))
                            /\ WF_vars(UploadFlushed(i))
                            /\ WF_vars(ExpireSession(i) \/ CleanUpSession(i))
    /\ \A i \in Instances, f \in Files : /\ WF_vars(UploadEnqueues(i, f))
                                        /\ WF_vars(RetryReads(i, f))
                                        /\ WF_vars(RetryWrites(i, f))
    /\ \A f \in Files : WF_vars(LeaseExpires(f))

FairSpec == Spec /\ Fairness

------------------------------------------------------------------------------
(* Properties                                                              *)

\* The rows, the sessions and every step of the instances and the workers have
\* their types.
TypeOK ==
    /\ jobs \in [Files -> JobRow]
    /\ chunks \in [Files -> SUBSET Chunks]
    /\ saved \in [session : Session, cancelled : BOOLEAN]
    /\ source \in SUBSET Files
    /\ phase \in [Instances -> {"down", "starting", "recovering", "up"}]
    /\ session \in [Instances -> Session]
    /\ timer \in [Instances -> BOOLEAN]
    /\ upload \in [Instances -> {"none", "flushing", "enqueueing", "failed"}]
    /\ writes \in [Instances -> [Slots -> Write]]
    /\ cancelling \in SUBSET Instances
    /\ retry \in [Instances -> [Files ->
                     [step : {"idle", "checking", "reading", "writing"},
                      row  : JobRow]]]
    /\ recovery \in [Instances -> [Files -> {"done", "requeue", "mark"}]]
    /\ run \in [Workers -> Run]
    /\ budget \in Budget

\* The first n chunks of f are stored.
Stored(f, n) == \A k \in 0..(n - 1) : k \in chunks[f]

\* A checkpoint never runs ahead of the rows it stands for, whichever instance,
\* run or recovery wrote it last: resuming from it skips only stored chunks.
CheckpointCovered == \A f \in Files : Stored(f, jobs[f].rows)

\* A job is COMPLETED only when every chunk of its file is stored, whatever
\* crashes, duplicate runs and retries there were on the way.
CompletedWhole ==
    \A f \in Files : jobs[f].status = "COMPLETED" => Stored(f, NumChunks)

\* A file shown as inspected, in any instance or in the snapshot a restart
\* would read, is entirely stored.
InspectedWhole ==
    \A f \in Files :
        (saved.session.files[f] = "inspected"
         \/ \E i \in Instances : session[i].files[f] = "inspected")
            => Stored(f, NumChunks)

\* What makes the three inductive: the chunks of a file are a prefix, and every
\* number a checkpoint may be taken from (the progress kept by the instances and
\* the snapshot, the rows that retries have read, the position and the mark of a
\* run) stands for stored chunks; a run that closes its file has stored it all.
Closing == {"finishing", "finalFlush", "finalCheckpoint", "completing"}

ChunksPrefix ==
    \A f \in Files : \E n \in 0..NumChunks : chunks[f] = 0..(n - 1)

SessionSound(ses) ==
    \A f \in Files : /\ Stored(f, ses.rows[f])
                     /\ ses.files[f] = "inspected" => Stored(f, NumChunks)

RunSound(r) ==
    /\ Stored(r.file, r.pos) /\ Stored(r.file, r.mark)
    /\ r.pc = "appending" => r.pos < NumChunks
    /\ r.pc \in Closing => Stored(r.file, NumChunks)

IndInv ==
    /\ ChunksPrefix
    /\ CheckpointCovered
    /\ CompletedWhole
    /\ SessionSound(saved.session)
    /\ \A i \in Instances : SessionSound(session[i])
    /\ \A i \in Instances, s \in Slots : SessionSound(writes[i][s].session)
    /\ \A i \in Instances, f \in Files : Stored(f, retry[i][f].row.rows)
    /\ \A w \in Workers : RunSound(run[w])

\* The import as a contract on its files (module ImportContract): the rows are
\* stored in order and without a gap, and no file is reported done early.
OutcomeOf(status) ==
    CASE status = "COMPLETED" -> "done"
      [] status = "FAILED"    -> "failed"
      [] status = "CANCELLED" -> "cancelled"
      [] OTHER                -> "open"

Contract == INSTANCE ImportContract
                WITH stored  <- chunks,
                     outcome <- [f \in Files |-> OutcomeOf(jobs[f].status)]

ImplementsContract == Contract!Spec

\* A job that was given up has MaxAttempts claims on its row, or its source is gone:
\* the copies that queue.fail and the recovery decide on, read before, never count
\* more claims than the row does.  Whose claims they were is not said: a second run,
\* or one that found no session, uses attempts up like any other.  (Until the user
\* retries, which resets the count.)
GivesUpWhenExhausted ==
    \A f \in Files : jobs[f].status = "FAILED"
                         => jobs[f].attempts >= MaxAttempts \/ f \notin source

\* With every job COMPLETED and nobody at work, a running instance shows the
\* import completed, unless its timer has ended the session: no crash leaves a
\* finished import behind as unfinished.
Quiet(i) ==
    /\ Up(i) /\ UnderWay(i) = {} /\ cancelling = {}
    /\ \A w \in Workers : run[w].pc = "idle"

FinishedIsShown ==
    (\A f \in Files : jobs[f].status = "COMPLETED")
        => \A i \in Instances : Quiet(i) /\ session[i].listed
                                    => \/ session[i].status = "completed"
                                       \/ budget.timers < MaxTimers

\* A file whose job was given up, source and all still there, is shown as an error
\* once nobody is at work on it: only then does the retry request accept it.
FailedIsRetriable ==
    \A f \in Files, i \in Instances :
        (/\ jobs[f].status = "FAILED" /\ f \in source
         /\ Quiet(i) /\ session[i].listed /\ retry[i][f].step = "idle")
            => session[i].files[f] = "error"

\* A job that is queued is eventually finished, if crashes and faults stop:
\* another instance takes over the lease of a dead one.
EveryJobSettles ==
    \A f \in Files : (jobs[f].status \in Unfinished)
                         ~> (jobs[f].status \in Finished)

\* A session does not stay in parsing for ever, also when a crash left it without
\* any job: its timer ends it.  (A failed flush of the upload leaves a session
\* without a timer, so the run that checks this lets no statement fail.)
EverySessionSettles ==
    \A i \in Instances :
        (session[i].listed /\ session[i].status = "parsing")
            ~> (session[i].status \in Settled \/ phase[i] = "down")
==============================================================================

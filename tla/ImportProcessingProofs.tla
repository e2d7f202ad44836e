----------------------- MODULE ImportProcessingProofs -----------------------
(***************************************************************************)
(* Proofs about ImportProcessing.                                          *)
(*                                                                         *)
(* 1. Type correctness, that checkpoints, completed jobs and inspected     *)
(*    files stand for stored rows, and that the model implements           *)
(*    ImportContract: for every number of instances, workers, files and    *)
(*    chunks and every bound on crashes, faults, stalls, retries,          *)
(*    cancellations, timers and losses.                                    *)
(*                                                                         *)
(* 2. Where no statement fails and the user retries nothing, a job that    *)
(*    was given up has MaxAttempts claims on its row, or its source is     *)
(*    gone, whatever crashes, stalled leases, recoveries and               *)
(*    cancellations there are.  queue.fail decides on the attempts of the  *)
(*    row as its worker claimed it, while other workers may have claimed   *)
(*    the job since.  The invariant says that the row has never fewer      *)
(*    attempts than any run that works on it has seen, and that a source   *)
(*    that was found missing stays missing.                                *)
(*                                                                         *)
(* 3. In one instance that neither crashes nor has a statement fail, a     *)
(*    file whose job was given up is shown as an error, which is what the  *)
(*    retry request asks for.  The row and the session are written one     *)
(*    after the other, so the invariant names the runs that may stand      *)
(*    between the two.                                                     *)
(*                                                                         *)
(* 4. In one instance that may crash and restart at any point and works on *)
(*    one file at a time, an import whose jobs are all COMPLETED is shown  *)
(*    completed until its timer has fired.  A crash takes the session and  *)
(*    the runs with it: the invariant follows what the snapshot says of    *)
(*    each file while a run inspects it, waits for its flush and completes *)
(*    its job, and says that no second write is under way that could land  *)
(*    after it.                                                            *)
(***************************************************************************)
EXTENDS ImportProcessing, TLAPS

\* A run stores a chunk only while rows remain, so its position stays in range.
RowsRemain == \A w \in Workers : run[w].pc = "appending" => run[w].pos < NumChunks

------------------------------------------------------------------------------
(* Types                                                                   *)

\* The initial values have their types.
LEMMA NoSessionType == NoSession \in Session
BY QueueAssumption DEF NoSession, Session, SessionStatus, FileStatus

LEMMA NoWriteType == NoWrite \in Write
BY NoSessionType DEF NoWrite, Write, WriteStep

LEMMA NoJobType == NoJob \in JobRow
BY QueueAssumption DEF NoJob, JobRow, Unfinished, Pending, Finished

LEMMA NoRunType == NoRun \in Run
BY QueueAssumption, ProcessingAssumption DEF NoRun, Run, RunStep

LEMMA NoRunFields == /\ NoRun.pc = "idle" /\ NoRun.pos = 0 /\ NoRun.mark = 0
                     /\ NoRun.file \in Files
BY ProcessingAssumption DEF NoRun

LEMMA NoRetryType ==
    NoRetry \in [step : {"idle", "checking", "reading", "writing"}, row : JobRow]
BY NoJobType DEF NoRetry

LEMMA InitType == Init => TypeOK
BY QueueAssumption, ProcessingAssumption, NoSessionType, NoWriteType, NoJobType,
   NoRunType, NoRetryType DEF Init, TypeOK, Budget

\* Tracking a write takes a slot that was free.
LEMMA TrackKeeps ==
    ASSUME writes \in [Instances -> [Slots -> Write]], NEW i \in Instances,
           NEW c \in BOOLEAN, Track(i, c)
    PROVE  \E s \in Slots :
              /\ writes[i][s].step = "none"
              /\ [NoWrite EXCEPT !.step = "called", !.cancelled = c] \in Write
              /\ writes' = [writes EXCEPT ![i] = [writes[i] EXCEPT ![s] =
                                [NoWrite EXCEPT !.step = "called", !.cancelled = c]]]
<1>1. [NoWrite EXCEPT !.step = "called", !.cancelled = c] \in Write
  BY NoWriteType DEF Write, WriteStep
<1>. QED
  BY <1>1 DEF Track

LEMMA TrackType ==
    ASSUME writes \in [Instances -> [Slots -> Write]], NEW i \in Instances,
           NEW c \in BOOLEAN, Track(i, c)
    PROVE  writes' \in [Instances -> [Slots -> Write]]
<1>. DEFINE w == [NoWrite EXCEPT !.step = "called", !.cancelled = c]
<1>1. PICK s \in Slots : /\ w \in Write
                         /\ writes' = [writes EXCEPT ![i] = [writes[i] EXCEPT ![s] = w]]
  BY TrackKeeps
<1>. HIDE DEF w
<1>2. [writes[i] EXCEPT ![s] = w] \in [Slots -> Write]
  BY <1>1
<1>. QED
  BY <1>1, <1>2

LEMMA PersistType ==
    ASSUME writes \in [Instances -> [Slots -> Write]], NEW i \in Instances,
           NEW ses \in Session, Persist(i, ses)
    PROVE  writes' \in [Instances -> [Slots -> Write]]
<1>1. ses.cancelled \in BOOLEAN
  BY DEF Session
<1>. QED
  BY <1>1, TrackType DEF Persist

\* Marking a session failed keeps its type.
LEMMA FailedType ==
    ASSUME NEW ses \in Session, NEW files \in [Files -> FileStatus]
    PROVE  FailedSession(ses, files) \in Session
BY DEF FailedSession, Session, SessionStatus

LEMMA MarkFailedType ==
    ASSUME TypeOK, NEW i \in Instances, NEW files \in [Files -> FileStatus],
           MarkFailed(i, files)
    PROVE  /\ session' \in [Instances -> Session]
           /\ writes' \in [Instances -> [Slots -> Write]]
           /\ timer' \in [Instances -> BOOLEAN]
<1>1. session[i] \in Session
  BY DEF TypeOK
<1>2. session[i].listed \in BOOLEAN /\ session[i].cancelled \in BOOLEAN
  BY <1>1 DEF Session
<1>3. FailedSession(session[i], files) \in Session
  BY <1>1, FailedType
<1>. QED
  BY <1>1, <1>2, <1>3, PersistType DEF TypeOK, MarkFailed

\* The updates of one row, one run and one session that the actions are made of.
LEMMA GotoType ==
    ASSUME run \in [Workers -> Run], NEW w \in Workers, NEW step \in RunStep,
           Goto(w, step)
    PROVE  run' \in [Workers -> Run]
BY DEF Goto, Run

LEMMA RunUpdateType ==
    ASSUME run \in [Workers -> Run], NEW w \in Workers, NEW r \in Run,
           run' = [run EXCEPT ![w] = r]
    PROVE  run' \in [Workers -> Run]
OBVIOUS

LEMMA EndRunType ==
    ASSUME run \in [Workers -> Run], NEW w \in Workers, EndRun(w)
    PROVE  run' \in [Workers -> Run]
BY NoRunType DEF EndRun

LEMMA StatusType ==
    ASSUME jobs \in [Files -> JobRow], NEW f \in Files,
           NEW st \in Unfinished \union Finished,
           jobs' = [jobs EXCEPT ![f].status = st, ![f].stale = FALSE]
    PROVE  jobs' \in [Files -> JobRow]
BY DEF JobRow

LEMMA LeaseType ==
    ASSUME jobs \in [Files -> JobRow], NEW f \in Files, LeaseRunsOut(f)
    PROVE  jobs' \in [Files -> JobRow]
<1>1. [jobs[f] EXCEPT !.stale = TRUE] \in JobRow
  BY DEF JobRow
<1>2. jobs' = [jobs EXCEPT ![f] = [jobs[f] EXCEPT !.stale = TRUE]]
  BY DEF LeaseRunsOut
<1>. QED
  BY <1>1, <1>2

LEMMA SpendType ==
    ASSUME budget \in Budget
    PROVE  /\ budget.faults > 0 =>
                  [budget EXCEPT !.faults = @ - 1] \in Budget
           /\ budget.crashes > 0 =>
                  [budget EXCEPT !.crashes = @ - 1] \in Budget
           /\ budget.retries > 0 =>
                  [budget EXCEPT !.retries = @ - 1] \in Budget
           /\ budget.stalls > 0 =>
                  [budget EXCEPT !.stalls = @ - 1] \in Budget
           /\ budget.timers > 0 =>
                  [budget EXCEPT !.timers = @ - 1] \in Budget
           /\ budget.losses > 0 =>
                  [budget EXCEPT !.losses = @ - 1] \in Budget
           /\ budget.cancels > 0 =>
                  [budget EXCEPT !.cancels = @ - 1] \in Budget
BY DEF Budget

\* Every step of a run keeps the types.
LEMMA RunStepType ==
    ASSUME TypeOK, RowsRemain, NEW w \in Workers, Work(w)
    PROVE  TypeOK'
<1>. USE QueueAssumption, ProcessingAssumption
<1>a. /\ HostOf[w] \in Instances
      /\ run[w] \in Run
      /\ run[w].file \in Files
      /\ run[w].pos \in 0..NumChunks
      /\ run[w].mark \in 0..NumChunks
      /\ session[HostOf[w]] \in Session
  BY DEF TypeOK, Run
<1>b. /\ session[HostOf[w]].listed \in BOOLEAN
      /\ session[HostOf[w]].cancelled \in BOOLEAN
      /\ session[HostOf[w]].files \in [Files -> FileStatus]
      /\ session[HostOf[w]].rows \in [Files -> 0..NumChunks]
  BY <1>a DEF Session
<1>c. /\ run \in [Workers -> Run]
      /\ jobs \in [Files -> JobRow]
      /\ session \in [Instances -> Session]
      /\ chunks \in [Files -> SUBSET Chunks]
      /\ writes \in [Instances -> [Slots -> Write]]
      /\ budget \in Budget
  BY DEF TypeOK
<1>1. CASE Start(w)
  <2>1. session[HostOf[w]].rows[run[w].file] \in 0..NumChunks
    BY <1>a, <1>b
  <2>2. [run[w] EXCEPT !.pc = "opening",
                       !.mark = session[HostOf[w]].rows[run[w].file]] \in Run
    BY <2>1, <1>a DEF Run, RunStep
  <2>3. "failing" \in RunStep /\ "rejecting" \in RunStep
    BY DEF RunStep
  <2>4. run' \in [Workers -> Run]
    BY <2>2, <2>3, <1>1, <1>c, GotoType, RunUpdateType DEF Start
  <2>. QED
    BY <2>4, <1>1 DEF Start, TypeOK
<1>2. ASSUME NEW from, NEW to \in RunStep, SaveCheckpoint(w, from, to)
      PROVE  TypeOK'
  <2>1. run' \in [Workers -> Run]
    BY <1>2, <1>c, GotoType DEF SaveCheckpoint
  <2>2. jobs' \in [Files -> JobRow]
    BY <1>2, <1>a, <1>c DEF SaveCheckpoint, CheckpointJob, JobRow
  <2>. QED
    BY <2>1, <2>2, <1>2 DEF SaveCheckpoint, TypeOK
<1>3. CASE ParseRows(w)
  <2>1. run' \in [Workers -> Run]
    BY <1>3, <1>c, GotoType DEF ParseRows, RunStep
  <2>. QED
    BY <2>1, <1>3 DEF ParseRows, TypeOK
<1>4. CASE AppendChunk(w)
  <2>1. run[w].pos \in Chunks /\ run[w].pos + 1 \in 0..NumChunks
    BY <1>4, <1>a, RowsRemain DEF AppendChunk, At, Chunks, RowsRemain
  <2>2. chunks' \in [Files -> SUBSET Chunks]
    BY <2>1, <1>4, <1>a, <1>c DEF AppendChunk
  <2>. DEFINE next == IF Reported(run[w].file, run[w].pos + 1)
                      THEN "reporting" ELSE "finishing"
              r    == [run[w] EXCEPT !.pos = @ + 1, !.pc = next]
  <2>3. r \in Run
    <3>1. next \in RunStep
      BY DEF RunStep
    <3>. HIDE DEF next
    <3>. QED
      BY <3>1, <2>1, <1>a DEF Run
  <2>4. run' = [run EXCEPT ![w] = r]
    BY <1>4, <1>c DEF AppendChunk
  <2>5. run' \in [Workers -> Run]
    BY <2>3, <2>4, <1>c, RunUpdateType
  <2>. QED
    BY <2>2, <2>5, <1>4 DEF AppendChunk, TypeOK
<1>5. CASE ReportProgress(w)
  <2>1. session' \in [Instances -> Session]
    BY <1>5, <1>a, <1>b, <1>c DEF ReportProgress, Session, SessionStatus
  <2>2. writes' \in [Instances -> [Slots -> Write]]
    BY <1>5, <1>a, <1>c, PersistType DEF ReportProgress
  <2>3. [run[w] EXCEPT !.pc = "checkpointing", !.mark = run[w].pos,
                       !.awaits = UnderWay(HostOf[w])'] \in Run
    BY <2>2, <1>a DEF Run, RunStep, UnderWay
  <2>4. run' \in [Workers -> Run]
    BY <2>3, <1>5, <1>c, RunUpdateType DEF ReportProgress
  <2>. QED
    BY <2>1, <2>2, <2>4, <1>5 DEF ReportProgress, TypeOK
<1>6. ASSUME NEW from, NEW to \in RunStep, Flush(w, from, to)
      PROVE  TypeOK'
  <2>1. run' \in [Workers -> Run]
    BY <1>6, <1>c, GotoType DEF Flush
  <2>. QED
    BY <2>1, <1>6 DEF Flush, TypeOK
<1>7. CASE Finish(w)
  <2>1. [session[HostOf[w]].files EXCEPT ![run[w].file] = "inspected"]
            \in [Files -> FileStatus]
    BY <1>a, <1>b DEF FileStatus
  <2>2. session' \in [Instances -> Session]
    BY <2>1, <1>7, <1>a, <1>b, <1>c DEF Finish, Session, SessionStatus
  <2>3. writes' \in [Instances -> [Slots -> Write]]
    BY <1>7, <1>a, <1>c, PersistType DEF Finish
  <2>6. ASSUME NEW done \in BOOLEAN
        PROVE  [run[w] EXCEPT !.pc = "finalFlush", !.mark = NumChunks,
                    !.awaits = UnderWay(HostOf[w])', !.last = done] \in Run
    <3>1. UnderWay(HostOf[w])' \in SUBSET Slots /\ NumChunks \in 0..NumChunks
      BY DEF UnderWay
    <3>. QED
      BY <3>1, <1>a DEF Run, RunStep
  <2>4. run' \in [Workers -> Run]
    BY <2>6, <1>7, <1>c, RunUpdateType DEF Finish
  <2>. QED
    BY <2>2, <2>3, <2>4, <1>7 DEF Finish, TypeOK
<1>17. CASE FinalFlush(w)
  <2>1. run' \in [Workers -> Run]
    BY <1>17, <1>c, GotoType DEF FinalFlush, RunStep
  <2>2. timer' \in [Instances -> BOOLEAN]
    BY <1>17, <1>a DEF FinalFlush, TypeOK, Run
  <2>. QED
    BY <2>1, <2>2, <1>17 DEF FinalFlush, TypeOK
<1>18. CASE SkipRows(w)
  <2>1. run' \in [Workers -> Run]
    BY <1>18, <1>c, GotoType DEF SkipRows, RunStep
  <2>. QED
    BY <2>1, <1>18 DEF SkipRows, TypeOK
<1>8. CASE Complete(w)
  <2>1. run' \in [Workers -> Run]
    BY <1>8, <1>c, EndRunType DEF Complete
  <2>2. jobs' \in [Files -> JobRow]
    BY <1>8, <1>a, <1>c, StatusType DEF Complete, CompleteJob, Finished
  <2>. QED
    BY <2>1, <2>2, <1>8 DEF Complete, TypeOK
<1>9. CASE FailReads(w)
  <2>1. run' \in [Workers -> Run]
    BY <1>9, <1>c, GotoType DEF FailReads, RunStep
  <2>. QED
    BY <2>1, <1>9 DEF FailReads, TypeOK
<1>10. CASE FailWrites(w)
  <2>1. run' \in [Workers -> Run]
    BY <1>10, <1>c, GotoType DEF FailWrites, RunStep
  <2>2. jobs' \in [Files -> JobRow]
    BY <1>10, <1>a, <1>c, StatusType
       DEF FailWrites, RescheduleJob, Finished, Unfinished, Pending
  <2>. QED
    BY <2>1, <2>2, <1>10 DEF FailWrites, TypeOK
<1>11. CASE RejectJob(w)
  <2>1. run' \in [Workers -> Run]
    BY <1>11, <1>c, GotoType DEF RejectJob, RunStep
  <2>2. jobs' \in [Files -> JobRow]
    BY <1>11, <1>a, <1>c, StatusType DEF RejectJob, FailJobPermanently, Finished
  <2>. QED
    BY <2>1, <2>2, <1>11 DEF RejectJob, TypeOK
<1>12. CASE MarkRunFailed(w)
  <2>1. [session[HostOf[w]].files EXCEPT ![run[w].file] = "error"]
            \in [Files -> FileStatus]
    BY <1>a, <1>b DEF FileStatus
  <2>2. /\ session' \in [Instances -> Session]
        /\ writes' \in [Instances -> [Slots -> Write]]
        /\ timer' \in [Instances -> BOOLEAN]
    BY <2>1, <1>12, <1>a, MarkFailedType DEF MarkRunFailed, MarkFileFailed
  <2>3. run' \in [Workers -> Run]
    BY <1>12, <1>c, EndRunType DEF MarkRunFailed
  <2>. QED
    BY <2>2, <2>3, <1>12 DEF MarkRunFailed, TypeOK
<1>13. CASE FaultInRun(w)
  <2>1. run' \in [Workers -> Run]
    <3>1. [run[w] EXCEPT !.pc = "failing", !.awaits = {}] \in Run
      BY <1>a DEF Run, RunStep
    <3>. QED
      BY <3>1, <1>13, <1>c, EndRunType, RunUpdateType DEF FaultInRun
  <2>2. budget' \in Budget
    BY <1>13, <1>c, SpendType DEF FaultInRun
  <2>. QED
    BY <2>1, <2>2, <1>13 DEF FaultInRun, TypeOK
<1>14. CASE CompleteUnaudited(w)
  <2>1. run' \in [Workers -> Run]
    BY <1>14, <1>c, GotoType DEF CompleteUnaudited, RunStep
  <2>2. jobs' \in [Files -> JobRow]
    BY <1>14, <1>a, <1>c, StatusType DEF CompleteUnaudited, CompleteJob, Finished
  <2>3. budget' \in Budget
    BY <1>14, <1>c, SpendType DEF CompleteUnaudited
  <2>. QED
    BY <2>1, <2>2, <2>3, <1>14 DEF CompleteUnaudited, TypeOK
<1>15. CASE FailUnaudited(w)
  <2>1. run' \in [Workers -> Run]
    BY <1>15, <1>c, EndRunType DEF FailUnaudited
  <2>2. jobs' \in [Files -> JobRow]
    BY <1>15, <1>a, <1>c, StatusType
       DEF FailUnaudited, RescheduleJob, FailJobPermanently, Finished,
           Unfinished, Pending
  <2>3. budget' \in Budget
    BY <1>15, <1>c, SpendType DEF FailUnaudited
  <2>. QED
    BY <2>1, <2>2, <2>3, <1>15 DEF FailUnaudited, TypeOK
<1>16. ASSUME NEW g \in Files, Claim(w, g)
       PROVE  TypeOK'
  <2>1. jobs[g].rows \in 0..NumChunks /\ jobs[g].attempts \in Nat
    BY <1>c DEF JobRow
  <2>2. run' \in [Workers -> Run]
    BY <2>1, <1>16, <1>c DEF Claim, Run, RunStep
  <2>3. jobs' \in [Files -> JobRow]
    BY <2>1, <1>16, <1>c DEF Claim, ClaimJob, JobRow, Unfinished
  <2>. QED
    BY <2>2, <2>3, <1>16 DEF Claim, TypeOK
<1>. QED
  BY <1>1, <1>2, <1>3, <1>4, <1>5, <1>6, <1>7, <1>8, <1>9, <1>10, <1>11, <1>12,
     <1>13, <1>14, <1>15, <1>16, <1>17, <1>18 DEF Work, Step, RunStep

\* Every step of a startup keeps the types.
LEMMA StartupType ==
    ASSUME TypeOK, NEW i \in Instances, Startup(i)
    PROVE  TypeOK'
<1>. USE QueueAssumption, ProcessingAssumption
<1>a. /\ session \in [Instances -> Session] /\ jobs \in [Files -> JobRow]
      /\ budget \in Budget
      /\ phase \in [Instances -> {"down", "starting", "recovering", "up"}]
      /\ recovery \in [Instances -> [Files -> {"done", "requeue", "mark"}]]
      /\ session[i].files \in [Files -> FileStatus]
  BY DEF TypeOK, Session
<1>1. CASE RecoverReads(i)
  <2>. DEFINE todo == {f \in Files : jobs[f].status \in Unfinished}
  <2>1. [f \in Files |-> IF f \in todo THEN "requeue" ELSE "done"]
            \in [Files -> {"done", "requeue", "mark"}]
    OBVIOUS
  <2>2. recovery' \in [Instances -> [Files -> {"done", "requeue", "mark"}]]
    BY <2>1, <1>1, <1>a DEF RecoverReads
  <2>3. phase' \in [Instances -> {"down", "starting", "recovering", "up"}]
    BY <1>1, <1>a DEF RecoverReads
  <2>4. /\ session' \in [Instances -> Session]
        /\ writes' \in [Instances -> [Slots -> Write]]
        /\ timer' \in [Instances -> BOOLEAN]
    <3>1. CASE MarkFailed(i, session[i].files)
      BY <3>1, <1>a, MarkFailedType
    <3>2. CASE UNCHANGED <<session, writes, timer>>
      BY <3>2 DEF TypeOK
    <3>. QED
      BY <3>1, <3>2, <1>1 DEF RecoverReads
  <2>. QED
    BY <2>2, <2>3, <2>4, <1>1 DEF RecoverReads, TypeOK
<1>2. ASSUME NEW f \in Files, RecoverJob(i, f) \/ RecoverFaults(i, f)
      PROVE  TypeOK'
  <2>1. jobs' \in [Files -> JobRow]
    BY <1>2, <1>a, StatusType
       DEF RecoverJob, RecoverFaults, RequeueJob, FailJobPermanently, Finished,
           Unfinished, Pending
  <2>4. recovery' \in [Instances -> [Files -> {"done", "requeue", "mark"}]]
    <3>1. \E s \in {"done", "mark"} : recovery' = [recovery EXCEPT ![i][f] = s]
      BY <1>2 DEF RecoverJob, RecoverFaults, Recovered
    <3>. QED
      BY <3>1, <1>a
  <2>5. phase' \in [Instances -> {"down", "starting", "recovering", "up"}]
    <3>1. phase' = phase
          \/ \E s \in {"recovering", "up"} : phase' = [phase EXCEPT ![i] = s]
      BY <1>2 DEF RecoverJob, RecoverFaults, Recovered
    <3>. QED
      BY <3>1, <1>a
  <2>3. budget' \in Budget
    BY <1>2, <1>a, SpendType DEF RecoverJob, RecoverFaults
  <2>. QED
    BY <2>1, <2>3, <2>4, <2>5, <1>2 DEF RecoverJob, RecoverFaults, TypeOK
<1>3. ASSUME NEW f \in Files, RecoverMarks(i, f)
      PROVE  TypeOK'
  <2>1. [session[i].files EXCEPT ![f] = "error"] \in [Files -> FileStatus]
    BY <1>a DEF FileStatus
  <2>2. /\ session' \in [Instances -> Session]
        /\ writes' \in [Instances -> [Slots -> Write]]
        /\ timer' \in [Instances -> BOOLEAN]
    BY <2>1, <1>3, MarkFailedType DEF RecoverMarks, MarkFileFailed
  <2>3. /\ recovery' \in [Instances -> [Files -> {"done", "requeue", "mark"}]]
        /\ phase' \in [Instances -> {"down", "starting", "recovering", "up"}]
    BY <1>3, <1>a DEF RecoverMarks, Recovered
  <2>. QED
    BY <2>2, <2>3, <1>3 DEF RecoverMarks, TypeOK
<1>. QED
  BY <1>1, <1>2, <1>3 DEF Startup

\* Every request keeps the types.
LEMMA RequestType ==
    ASSUME TypeOK, NEW i \in Instances, Request(i)
    PROVE  TypeOK'
<1>. USE QueueAssumption, ProcessingAssumption
<1>a. /\ session \in [Instances -> Session] /\ jobs \in [Files -> JobRow]
      /\ budget \in Budget
      /\ writes \in [Instances -> [Slots -> Write]]
      /\ session[i] \in Session
      /\ session[i].files \in [Files -> FileStatus]
      /\ retry \in [Instances -> [Files ->
                      [step : {"idle", "checking", "reading", "writing"}, row : JobRow]]]
  BY DEF TypeOK, Session
<1>1. CASE Upload(i)
  <2>1. [NoSession EXCEPT !.listed = TRUE] \in Session
    BY NoSessionType DEF Session
  <2>2. writes' \in [Instances -> [Slots -> Write]]
    BY <1>1, <1>a, TrackType DEF Upload
  <2>. QED
    BY <2>1, <2>2, <1>1 DEF Upload, TypeOK
<1>2. CASE UploadFlushed(i)
  BY <1>2 DEF UploadFlushed, TypeOK
<1>3. CASE UploadFails(i)
  <2>1. budget' \in Budget
    BY <1>3, <1>a, SpendType DEF UploadFails
  <2>. QED
    BY <2>1, <1>3 DEF UploadFails, TypeOK
<1>4. CASE Cancel(i)
  <2>1. session' \in [Instances -> Session]
    BY <1>4, <1>a DEF Cancel, Session, SessionStatus
  <2>2. budget' \in Budget
    BY <1>4, <1>a, SpendType DEF Cancel
  <2>3. writes' \in [Instances -> [Slots -> Write]]
    BY <1>4, <1>a, TrackType DEF Cancel
  <2>. QED
    BY <2>1, <2>2, <2>3, <1>4 DEF Cancel, TypeOK
<1>5. CASE CancelLands(i)
  <2>1. \A row \in JobRow :
            [row EXCEPT !.status = "CANCELLED", !.stale = FALSE] \in JobRow
    BY DEF JobRow, Finished
  <2>2. \A f \in Files : jobs[f] \in JobRow
    BY <1>a
  <2>3. jobs' \in [Files -> JobRow]
    BY <2>1, <2>2, <1>5 DEF CancelLands, CancelJobs
  <2>. QED
    BY <2>3, <1>5 DEF CancelLands, TypeOK
<1>6. ASSUME NEW f \in Files, UploadEnqueues(i, f)
      PROVE  TypeOK'
  <2>1. [NoJob EXCEPT !.status = "QUEUED"] \in JobRow
    BY NoJobType DEF JobRow, Unfinished, Pending
  <2>. QED
    BY <2>1, <1>6, <1>a DEF UploadEnqueues, EnqueueJob, procVars, TypeOK
<1>7. ASSUME NEW f \in Files, AcceptRetry(i, f)
      PROVE  TypeOK'
  <2>1. session' \in [Instances -> Session]
    BY <1>7, <1>a DEF AcceptRetry, Session, FileStatus
  <2>2. writes' \in [Instances -> [Slots -> Write]]
    BY <1>7, <1>a, PersistType DEF AcceptRetry
  <2>3. retry' \in [Instances -> [Files ->
                      [step : {"idle", "checking", "reading", "writing"}, row : JobRow]]]
    <3>0. retry[i][f] \in [step : {"idle", "checking", "reading", "writing"}, row : JobRow]
      BY DEF TypeOK
    <3>1. [retry[i][f] EXCEPT !.step = "reading"] \in [step : {"idle", "checking", "reading", "writing"}, row : JobRow]
      BY <3>0
    <3>2. retry' = [retry EXCEPT ![i] = [retry[i] EXCEPT ![f] =
                        [retry[i][f] EXCEPT !.step = "reading"]]]
      BY <1>7 DEF AcceptRetry
    <3>. QED
      BY <3>1, <3>2, <1>a
  <2>. QED
    BY <2>1, <2>2, <2>3, <1>7 DEF AcceptRetry, TypeOK
<1>10. ASSUME NEW f \in Files, RefuseRetry(i, f)
       PROVE  TypeOK'
  <2>1. retry' \in [Instances -> [Files ->
                      [step : {"idle", "checking", "reading", "writing"}, row : JobRow]]]
    BY <1>10, <1>a, NoRetryType DEF RefuseRetry
  <2>2. [session[i].files EXCEPT ![f] = "error"] \in [Files -> FileStatus]
    BY <1>a DEF FileStatus
  <2>3. /\ session' \in [Instances -> Session]
        /\ writes' \in [Instances -> [Slots -> Write]]
        /\ timer' \in [Instances -> BOOLEAN]
    BY <2>2, <1>10, MarkFailedType DEF RefuseRetry, MarkFileFailed
  <2>. QED
    BY <2>1, <2>3, <1>10 DEF RefuseRetry, TypeOK
<1>11. ASSUME NEW f \in Files, RetryStarts(i, f)
       PROVE  TypeOK'
  <2>1. budget' \in Budget
    BY <1>11, <1>a, SpendType DEF RetryStarts
  <2>2. retry' \in [Instances -> [Files ->
                      [step : {"idle", "checking", "reading", "writing"}, row : JobRow]]]
    <3>0. retry[i][f] \in [step : {"idle", "checking", "reading", "writing"}, row : JobRow]
      BY DEF TypeOK
    <3>1. [retry[i][f] EXCEPT !.step = "checking"] \in [step : {"idle", "checking", "reading", "writing"}, row : JobRow]
      BY <3>0
    <3>2. retry' = [retry EXCEPT ![i] = [retry[i] EXCEPT ![f] =
                        [retry[i][f] EXCEPT !.step = "checking"]]]
      BY <1>11 DEF RetryStarts
    <3>. QED
      BY <3>1, <3>2, <1>a
  <2>. QED
    BY <2>1, <2>2, <1>11 DEF RetryStarts, TypeOK
<1>8. ASSUME NEW f \in Files, RetryReads(i, f)
      PROVE  TypeOK'
  <2>1. [step |-> "writing", row |-> jobs[f]]
            \in [step : {"idle", "checking", "reading", "writing"}, row : JobRow]
    BY <1>a
  <2>2. retry' \in [Instances -> [Files ->
                      [step : {"idle", "checking", "reading", "writing"}, row : JobRow]]]
    BY <2>1, <1>8, <1>a DEF RetryReads
  <2>. QED
    BY <2>2, <1>8 DEF RetryReads, TypeOK
<1>9. ASSUME NEW f \in Files, RetryWrites(i, f)
      PROVE  TypeOK'
  <2>1. retry[i][f].row \in JobRow
    BY <1>a
  <2>2. [retry[i][f].row EXCEPT !.status = "QUEUED", !.attempts = 0] \in JobRow
    BY <2>1 DEF JobRow, Unfinished, Pending
  <2>3. jobs' \in [Files -> JobRow]
    BY <2>2, <1>9, <1>a DEF RetryWrites, SaveRetried
  <2>4. retry' \in [Instances -> [Files ->
                      [step : {"idle", "checking", "reading", "writing"}, row : JobRow]]]
    BY <1>9, <1>a, NoRetryType DEF RetryWrites
  <2>. QED
    BY <2>3, <2>4, <1>9 DEF RetryWrites, TypeOK
<1>. QED
  BY <1>1, <1>2, <1>3, <1>4, <1>5, <1>6, <1>7, <1>8, <1>9, <1>10, <1>11 DEF Request

\* A write that ends only shortens what the flushes of its instance wait for.
LEMMA WriteEndsType ==
    ASSUME TypeOK, NEW i \in Instances, NEW s \in Slots, WriteEnds(i, s)
    PROVE  /\ run' \in [Workers -> Run]
           /\ writes' \in [Instances -> [Slots -> Write]]
<1>1. \A r \in Run : [r EXCEPT !.awaits = @ \ {s}] \in Run
  BY DEF Run
<1>2. run' \in [Workers -> Run]
  BY <1>1 DEF WriteEnds, TypeOK
<1>3. writes' \in [Instances -> [Slots -> Write]]
  BY NoWriteType DEF WriteEnds, TypeOK
<1>. QED
  BY <1>2, <1>3

\* Timers, leases, tracked writes, crashes and restarts keep the types.
LEMMA EnvironmentType ==
    ASSUME TypeOK, Environment
    PROVE  TypeOK'
<1>. USE QueueAssumption, ProcessingAssumption
<1>a. /\ session \in [Instances -> Session] /\ jobs \in [Files -> JobRow]
      /\ budget \in Budget
      /\ saved \in [session : Session, cancelled : BOOLEAN]
      /\ saved.session \in Session
      /\ phase \in [Instances -> {"down", "starting", "recovering", "up"}]
  BY DEF TypeOK
<1>1. ASSUME NEW i \in Instances, ExpireSession(i)
      PROVE  TypeOK'
  <2>1. budget' \in Budget
    BY <1>1, <1>a, SpendType DEF ExpireSession, TimerDue
  <2>2. session[i].files \in [Files -> FileStatus]
    BY <1>a DEF Session
  <2>3. /\ session' \in [Instances -> Session]
        /\ writes' \in [Instances -> [Slots -> Write]]
        /\ timer' \in [Instances -> BOOLEAN]
    BY <2>2, <1>1, MarkFailedType DEF ExpireSession
  <2>. QED
    BY <2>1, <2>3, <1>1 DEF ExpireSession, TypeOK
<1>9. ASSUME NEW i \in Instances, CleanUpSession(i)
      PROVE  TypeOK'
  <2>1. budget' \in Budget
    BY <1>9, <1>a, SpendType DEF CleanUpSession, TimerDue
  <2>2. session' \in [Instances -> Session]
    BY <1>9, <1>a DEF CleanUpSession, Session
  <2>. QED
    BY <2>1, <2>2, <1>9 DEF CleanUpSession, TypeOK
<1>2. ASSUME NEW i \in Instances, Crash(i)
      PROVE  TypeOK'
  <2>1. budget' \in Budget
    BY <1>2, <1>a, SpendType DEF Crash
  <2>2. run' \in [Workers -> Run]
    BY <1>2, NoRunType DEF Crash, TypeOK
  <2>3. session' \in [Instances -> Session]
    BY <1>2, <1>a, NoSessionType DEF Crash
  <2>4. retry' \in [Instances -> [Files ->
                      [step : {"idle", "checking", "reading", "writing"}, row : JobRow]]]
    BY <1>2, NoRetryType DEF Crash, TypeOK
  <2>5. recovery' \in [Instances -> [Files -> {"done", "requeue", "mark"}]]
    BY <1>2 DEF Crash, TypeOK
  <2>6. writes' \in [Instances -> [Slots -> Write]]
    BY <1>2, NoWriteType DEF Crash, TypeOK
  <2>. QED
    BY <2>1, <2>2, <2>3, <2>4, <2>5, <2>6, <1>2 DEF Crash, TypeOK
<1>3. ASSUME NEW i \in Instances, Restart(i)
      PROVE  TypeOK'
  <2>1. session' \in [Instances -> Session]
    BY <1>3, <1>a DEF Restart
  <2>2. budget' \in Budget
    <3>1. budget' = budget
          \/ (budget.timers > 0 /\ budget' = [budget EXCEPT !.timers = @ - 1])
      BY <1>3, Zenon DEF Restart
    <3>. QED
      BY <3>1, <1>a, SpendType
  <2>3. phase' \in [Instances -> {"down", "starting", "recovering", "up"}]
    BY <1>3, <1>a DEF Restart
  <2>4. timer' \in [Instances -> BOOLEAN]
    BY <1>3 DEF Restart, TypeOK
  <2>. QED
    BY <2>1, <2>2, <2>3, <2>4, <1>3 DEF Restart, TypeOK
<1>4. ASSUME NEW i \in Instances, NEW s \in Slots, WriteLands(i, s)
      PROVE  TypeOK'
  <2>1. writes[i][s] \in Write
    BY DEF TypeOK
  <2>2. saved' \in [session : Session, cancelled : BOOLEAN]
    BY <2>1, <1>4 DEF WriteSent, WriteLands, Write
  <2>. QED
    BY <2>2, <1>4, WriteEndsType DEF WriteSent, WriteLands, TypeOK
<1>10. ASSUME NEW i \in Instances, NEW s \in Slots, WriteSent(i, s)
      PROVE  TypeOK'
  <2>1. [session[i] EXCEPT !.listed = TRUE] \in Session
    BY <1>a DEF Session
  <2>2. writes' \in [Instances -> [Slots -> Write]]
    <3>. DEFINE ses == [session[i] EXCEPT !.listed = TRUE]
                u   == [writes[i][s] EXCEPT !.step = "sent", !.session = ses]
    <3>1. writes \in [Instances -> [Slots -> Write]] /\ writes[i][s] \in Write
      BY DEF TypeOK
    <3>2. u \in Write
      BY <2>1, <3>1 DEF Write, WriteStep
    <3>3. writes' = [writes EXCEPT ![i] = [writes[i] EXCEPT ![s] = u]]
      BY <1>10, <3>1 DEF WriteSent
    <3>. HIDE DEF u
    <3>. QED
      BY <3>1, <3>2, <3>3
  <2>. QED
    BY <2>2, <1>10 DEF WriteSent, TypeOK
<1>5. ASSUME NEW i \in Instances, NEW s \in Slots, WriteFails(i, s)
      PROVE  TypeOK'
  <2>1. budget' \in Budget
    BY <1>5, <1>a, SpendType DEF WriteFails
  <2>. QED
    BY <2>1, <1>5, WriteEndsType DEF WriteFails, TypeOK
<1>6. ASSUME NEW f \in Files, LeaseExpires(f)
      PROVE  TypeOK'
  <2>1. jobs' \in [Files -> JobRow]
    BY <1>6, <1>a, LeaseType DEF LeaseExpires
  <2>. QED
    BY <2>1, <1>6 DEF LeaseExpires, procVars, TypeOK
<1>7. ASSUME NEW f \in Files, RunStalls(f)
      PROVE  TypeOK'
  <2>1. jobs' \in [Files -> JobRow]
    BY <1>7, <1>a, LeaseType DEF RunStalls
  <2>2. budget' \in Budget
    BY <1>7, <1>a, SpendType DEF RunStalls
  <2>. QED
    BY <2>1, <2>2, <1>7 DEF RunStalls, TypeOK
<1>8. ASSUME NEW f \in Files, LoseSource(f)
      PROVE  TypeOK'
  <2>1. budget' \in Budget
    BY <1>8, <1>a, SpendType DEF LoseSource
  <2>. QED
    BY <2>1, <1>8 DEF LoseSource, TypeOK
<1>. QED
  BY <1>1, <1>2, <1>3, <1>4, <1>5, <1>6, <1>7, <1>8, <1>9, <1>10 DEF Environment

LEMMA NextType == TypeOK /\ RowsRemain /\ [Next]_vars => TypeOK'
<1>. SUFFICES ASSUME TypeOK, RowsRemain, [Next]_vars
              PROVE  TypeOK'
  OBVIOUS
<1>1. CASE UNCHANGED vars
  BY <1>1 DEF vars, TypeOK
<1>2. ASSUME NEW w \in Workers, Work(w)
      PROVE  TypeOK'
  BY <1>2, RunStepType
<1>3. ASSUME NEW i \in Instances, Startup(i) \/ Request(i)
      PROVE  TypeOK'
  BY <1>3, StartupType, RequestType
<1>4. CASE Environment
  BY <1>4, EnvironmentType
<1>. QED
  BY <1>1, <1>2, <1>3, <1>4 DEF Next

------------------------------------------------------------------------------
(* Positions                                                               *)

\* What a step does to the runs: one worker takes a step of its run, the writes
\* that end shorten what runs wait for, a crash ends the runs of an instance.
LEMMA RunsChange ==
    ASSUME TypeOK, [Next]_vars
    PROVE  \/ \E w \in Workers : Work(w)
           \/ \A w \in Workers : \/ run'[w] = NoRun
                                 \/ /\ run'[w].pc = run[w].pc
                                    /\ run'[w].file = run[w].file
                                    /\ run'[w].pos = run[w].pos
                                    /\ run'[w].mark = run[w].mark
<1>. DEFINE Same == run' = run
            Kept == \A w \in Workers : \/ run'[w] = NoRun
                                       \/ /\ run'[w].pc = run[w].pc
                                          /\ run'[w].file = run[w].file
                                          /\ run'[w].pos = run[w].pos
                                          /\ run'[w].mark = run[w].mark
<1>1. Same => Kept
  OBVIOUS
<1>2. ASSUME NEW i \in Instances, NEW s \in Slots, WriteEnds(i, s)
      PROVE  Kept
  <2>1. \A r \in Run : LET q == [r EXCEPT !.awaits = @ \ {s}]
                       IN  /\ q.pc = r.pc /\ q.file = r.file
                           /\ q.pos = r.pos /\ q.mark = r.mark
    BY DEF Run
  <2>2. \A w \in Workers : run[w] \in Run
    BY DEF TypeOK
  <2>3. \A w \in Workers : run'[w] = run[w]
                           \/ run'[w] = [run[w] EXCEPT !.awaits = @ \ {s}]
    BY <1>2 DEF WriteEnds
  <2>. QED
    BY <2>1, <2>2, <2>3
<1>3. ASSUME NEW i \in Instances, Crash(i)
      PROVE  Kept
  BY <1>3 DEF Crash
<1>4. CASE Environment
  BY <1>1, <1>2, <1>3, <1>4
     DEF Environment, ExpireSession, CleanUpSession, Restart, WriteSent, WriteLands,
         WriteFails, LeaseExpires, RunStalls, LoseSource, procVars
<1>5. ASSUME NEW i \in Instances, Startup(i) \/ Request(i)
      PROVE  Same
  BY <1>5 DEF Startup, Request, RecoverReads, RecoverJob, RecoverFaults,
              RecoverMarks, Upload, UploadFlushed, UploadEnqueues, UploadFails,
              Cancel, CancelLands, RetryStarts, AcceptRetry, RefuseRetry, RetryReads,
              RetryWrites, procVars
<1>6. CASE UNCHANGED vars
  BY <1>6 DEF vars
<1>. QED
  BY <1>1, <1>4, <1>5, <1>6 DEF Next

LEMMA PositionStep == TypeOK /\ RowsRemain /\ [Next]_vars => RowsRemain'
<1>. SUFFICES ASSUME TypeOK, RowsRemain, [Next]_vars
              PROVE  RowsRemain'
  OBVIOUS
<1>1. ASSUME NEW w \in Workers, Work(w)
      PROVE  RowsRemain'
  <2>2. run[w] \in Run /\ run \in [Workers -> Run]
    BY DEF TypeOK
  <2>. DEFINE Others == \A v \in Workers \ {w} : run'[v] = run[v]
              Off    == Others /\ run'[w].pc # "appending"
  <2>3. ASSUME NEW from, NEW to, SaveCheckpoint(w, from, to), to # "appending"
        PROVE  Off
    BY <2>2, <2>3 DEF SaveCheckpoint, Goto
  <2>4. ASSUME NEW from, NEW to, Flush(w, from, to), to # "appending"
        PROVE  Off
    BY <2>2, <2>4 DEF Flush, Goto
  <2>5. Start(w) => Off
    <3>1. ASSUME NEW n, run' = [run EXCEPT ![w] = [@ EXCEPT !.pc = "opening",
                                                           !.mark = n]]
          PROVE  Off
      BY <2>2, <3>1 DEF Run
    <3>2. Goto(w, "failing") \/ Goto(w, "rejecting") => Off
      BY <2>2 DEF Goto, Run
    <3>. QED
      BY <3>1, <3>2, Zenon DEF Start
  <2>6. AppendChunk(w) => Off
    <3>1. ASSUME NEW n, NEW step, step # "appending",
                 run' = [run EXCEPT ![w] = [@ EXCEPT !.pos = n, !.pc = step]]
          PROVE  Off
      BY <2>2, <3>1 DEF Run
    <3>2. AppendChunk(w) =>
              \E n, step : /\ step # "appending"
                          /\ run' = [run EXCEPT ![w] = [@ EXCEPT !.pos = n,
                                                                !.pc = step]]
      BY DEF AppendChunk
    <3>. QED
      BY <3>1, <3>2
  <2>7. ReportProgress(w) => Off
    BY <2>2 DEF ReportProgress, Run
  <2>8. Finish(w) => Off
    BY <2>2 DEF Finish, Run
  <2>9. Complete(w) \/ MarkRunFailed(w) \/ FailUnaudited(w) => Off
    BY <2>2, NoRunFields DEF Complete, MarkRunFailed, FailUnaudited, EndRun
  <2>10. FailReads(w) \/ FailWrites(w) \/ RejectJob(w) \/ CompleteUnaudited(w) => Off
    BY <2>2 DEF FailReads, FailWrites, RejectJob, CompleteUnaudited, Goto, Run
  <2>11. FaultInRun(w) => Off
    BY <2>2, NoRunFields DEF FaultInRun, EndRun, Run
  <2>12. ASSUME NEW f \in Files, Claim(w, f)
         PROVE  Off
    BY <2>2, <2>12 DEF Claim
  <2>13. ParseRows(w) => Others
    BY <2>2 DEF ParseRows, Goto
  <2>16. SkipRows(w) \/ FinalFlush(w) => Off
    BY <2>2 DEF SkipRows, FinalFlush, Goto, Run
  <2>14. ParseRows(w) \/ Off
    BY <1>1, <2>3, <2>4, <2>5, <2>6, <2>7, <2>8, <2>9, <2>10, <2>11, <2>12, <2>16
       DEF Work, Step
  <2>15. ParseRows(w) /\ run'[w].pc = "appending" => run'[w].pos < NumChunks
    <3>1. \A step : Goto(w, step) => /\ run'[w].pc = step
                                     /\ run'[w].pos = run[w].pos
      BY <2>2 DEF Goto, Run
    <3>. QED
      BY <3>1 DEF ParseRows
  <2>. QED
    BY <2>13, <2>14, <2>15 DEF RowsRemain
<1>2. CASE \A w \in Workers : \/ run'[w] = NoRun
                              \/ /\ run'[w].pc = run[w].pc
                                 /\ run'[w].file = run[w].file
                                 /\ run'[w].pos = run[w].pos
                                 /\ run'[w].mark = run[w].mark
  BY <1>2, NoRunFields DEF RowsRemain
<1>. QED
  BY <1>1, <1>2, RunsChange

\* Every variable keeps its type, for every number of instances, workers, files
\* and chunks: no position, mark or checkpoint of a run leaves its file.
THEOREM TypeCorrect == Spec => []TypeOK
<1>1. Init => TypeOK /\ RowsRemain
  BY InitType, NoRunFields DEF Init, RowsRemain
<1>2. TypeOK /\ RowsRemain /\ [Next]_vars => TypeOK' /\ RowsRemain'
  BY NextType, PositionStep
<1>. QED
  BY <1>1, <1>2, PTL DEF Spec

------------------------------------------------------------------------------
(***************************************************************************)
(* Checkpoints, completed jobs and inspected files stand for stored rows,  *)
(* and the import as a whole implements ImportContract.  IndInv is         *)
(* preserved by every step: one lemma per part of the state says which     *)
(* actions change it and why what they write is sound.                     *)
(***************************************************************************)

Grows == \A f \in Files : chunks[f] \subseteq chunks'[f]

SessionsSound == \A i \in Instances : SessionSound(session[i])

WritesSound == \A i \in Instances, s \in Slots : SessionSound(writes[i][s].session)
RetriesSound  == \A i \in Instances, f \in Files : Stored(f, retry[i][f].row.rows)
RunsSound     == \A w \in Workers : RunSound(run[w])

------------------------------------------------------------------------------
(* The stored rows                                                         *)

\* Only AppendChunk writes rows.
LEMMA ChunksChange ==
    ASSUME [Next]_vars
    PROVE  UNCHANGED chunks \/ \E w \in Workers : AppendChunk(w)
<1>1. ASSUME NEW w \in Workers, Work(w)
      PROVE  UNCHANGED chunks \/ AppendChunk(w)
  BY <1>1 DEF Work, Step, Start, SaveCheckpoint, SkipRows, ParseRows, ReportProgress,
              Flush, FinalFlush, Finish, Complete, FailReads, FailWrites, RejectJob,
              MarkRunFailed, FaultInRun, CompleteUnaudited, FailUnaudited,
              Claim
<1>2. ASSUME NEW i \in Instances, Startup(i) \/ Request(i)
      PROVE  UNCHANGED chunks
  BY <1>2 DEF Startup, Request, RecoverReads, RecoverJob, RecoverFaults,
              RecoverMarks, Upload, UploadFlushed, UploadEnqueues, UploadFails,
              Cancel, CancelLands, RetryStarts, AcceptRetry, RefuseRetry, RetryReads,
              RetryWrites, procVars
<1>3. Environment => UNCHANGED chunks
  BY DEF Environment, ExpireSession, CleanUpSession, Restart, WriteSent, WriteLands, Crash,
         WriteFails, LeaseExpires, RunStalls, LoseSource, procVars
<1>4. UNCHANGED vars => UNCHANGED chunks
  BY DEF vars
<1>. QED
  BY <1>1, <1>2, <1>3, <1>4 DEF Next

\* Rows are stored in order: a run stores the chunk right after a stored prefix,
\* or one that another run has stored before.
LEMMA AppendInOrder ==
    ASSUME TypeOK, RowsRemain, IndInv, NEW w \in Workers, AppendChunk(w)
    PROVE  LET f == run[w].file
               p == run[w].pos
           IN  /\ f \in Files /\ p \in Chunks
               /\ chunks' = [chunks EXCEPT ![f] = @ \union {p}]
               /\ \E n \in 0..NumChunks : chunks[f] = 0..(n - 1) /\ p <= n
<1>. USE QueueAssumption
<1>. DEFINE f == run[w].file
            p == run[w].pos
<1>1. f \in Files /\ p \in 0..NumChunks
  BY DEF TypeOK, Run
<1>2. p \in Chunks
  BY <1>1 DEF AppendChunk, At, RowsRemain, Chunks
<1>3. PICK n \in 0..NumChunks : chunks[f] = 0..(n - 1)
  BY <1>1 DEF IndInv, ChunksPrefix
<1>4. Stored(f, p)
  BY DEF IndInv, RunSound
<1>5. p <= n
  <2>1. SUFFICES ASSUME n < p PROVE FALSE
    BY <1>1, <1>3
  <2>2. n \in 0..(p - 1)
    BY <2>1, <1>1
  <2>3. n \in chunks[f]
    BY <2>2, <1>4 DEF Stored
  <2>. QED
    BY <2>3, <1>3
<1>. QED
  BY <1>1, <1>2, <1>3, <1>5 DEF AppendChunk

LEMMA ChunksStep ==
    ASSUME TypeOK, RowsRemain, IndInv, [Next]_vars
    PROVE  Grows /\ ChunksPrefix'
<1>. USE QueueAssumption
<1>1. CASE UNCHANGED chunks
  BY <1>1 DEF Grows, ChunksPrefix, IndInv
<1>2. ASSUME NEW w \in Workers, AppendChunk(w)
      PROVE  Grows /\ ChunksPrefix'
  <2>. DEFINE f == run[w].file
              p == run[w].pos
  <2>1. /\ f \in Files /\ p \in Chunks
        /\ chunks' = [chunks EXCEPT ![f] = @ \union {p}]
    BY <1>2, AppendInOrder
  <2>2. PICK n \in 0..NumChunks : chunks[f] = 0..(n - 1) /\ p <= n
    BY <1>2, AppendInOrder
  <2>3. chunks \in [Files -> SUBSET Chunks]
    BY DEF TypeOK
  <2>4. Grows
    BY <2>1, <2>3 DEF Grows
  <2>5. \E m \in 0..NumChunks : chunks'[f] = 0..(m - 1)
    <3>. HIDE DEF p, f
    <3>1. chunks'[f] = 0..(n - 1) \union {p}
      BY <2>1, <2>2, <2>3
    <3>2. CASE p = n
      <4>1. chunks'[f] = 0..((n + 1) - 1)
        BY <3>1, <3>2, <2>1 DEF Chunks
      <4>2. n + 1 \in 0..NumChunks
        BY <3>2, <2>1 DEF Chunks
      <4>. QED
        BY <4>1, <4>2
    <3>3. CASE p < n
      <4>1. p \in 0..(n - 1)
        BY <3>3, <2>1 DEF Chunks
      <4>2. chunks'[f] = 0..(n - 1)
        BY <3>1, <4>1
      <4>. QED
        BY <4>2
    <3>4. p = n \/ p < n
      BY <2>1, <2>2 DEF Chunks
    <3>. QED
      BY <3>2, <3>3, <3>4
  <2>6. \A g \in Files \ {f} : chunks'[g] = chunks[g]
    BY <2>1, <2>3
  <2>7. \A g \in Files \ {f} : \E m \in 0..NumChunks : chunks'[g] = 0..(m - 1)
    BY <2>6 DEF IndInv, ChunksPrefix
  <2>. QED
    BY <2>4, <2>5, <2>7 DEF ChunksPrefix
<1>. QED
  BY <1>1, <1>2, ChunksChange

------------------------------------------------------------------------------
(* The jobs                                                                *)

\* A queue operation that takes no new checkpoint and completes nothing is
\* sound, as the stored rows only grow.
LEMMA JobsKept ==
    ASSUME IndInv, Grows,
           \A f \in Files : /\ jobs'[f].rows = jobs[f].rows
                            /\ jobs'[f].status = "COMPLETED"
                                   => jobs[f].status = "COMPLETED"
    PROVE  CheckpointCovered' /\ CompletedWhole'
BY DEF IndInv, CheckpointCovered, CompletedWhole, Stored, Grows

LEMMA JobsChange ==
    ASSUME [Next]_vars
    PROVE  \/ UNCHANGED jobs
           \/ \E w \in Workers :
                 \/ \E from, to : SaveCheckpoint(w, from, to)
                 \/ Complete(w) \/ CompleteUnaudited(w)
                 \/ FailWrites(w) \/ RejectJob(w) \/ FailUnaudited(w)
                 \/ \E f \in Files : Claim(w, f)
           \/ \E i \in Instances :
                 \/ CancelLands(i)
                 \/ \E f \in Files : \/ RecoverJob(i, f) \/ RecoverFaults(i, f)
                                     \/ UploadEnqueues(i, f) \/ RetryWrites(i, f)
           \/ \E f \in Files : LeaseExpires(f) \/ RunStalls(f)
<1>1. ASSUME NEW w \in Workers, Work(w)
      PROVE  \/ UNCHANGED jobs
             \/ \E from, to : SaveCheckpoint(w, from, to)
             \/ Complete(w) \/ CompleteUnaudited(w)
             \/ FailWrites(w) \/ RejectJob(w) \/ FailUnaudited(w)
             \/ \E f \in Files : Claim(w, f)
  BY <1>1 DEF Work, Step, Start, SkipRows, ParseRows, AppendChunk, ReportProgress, Flush,
              FinalFlush, Finish, FailReads, MarkRunFailed, FaultInRun
<1>2. ASSUME NEW i \in Instances, Startup(i) \/ Request(i)
      PROVE  \/ UNCHANGED jobs
             \/ CancelLands(i)
             \/ \E f \in Files : \/ RecoverJob(i, f) \/ RecoverFaults(i, f)
                                 \/ UploadEnqueues(i, f) \/ RetryWrites(i, f)
  BY <1>2 DEF Startup, Request, RecoverReads, RecoverMarks, Upload,
              UploadFlushed, UploadFails, Cancel, RetryStarts, AcceptRetry, RefuseRetry,
              RetryReads
<1>3. Environment => \/ UNCHANGED jobs
                     \/ \E f \in Files : LeaseExpires(f) \/ RunStalls(f)
  BY DEF Environment, ExpireSession, CleanUpSession, Restart, WriteSent, WriteLands, Crash,
         WriteFails, LoseSource
<1>4. UNCHANGED vars => UNCHANGED jobs
  BY DEF vars
<1>. QED
  BY <1>1, <1>2, <1>3, <1>4 DEF Next

\* A run writes the position it has stored, and completes a job it has stored
\* entirely; nothing else writes a new checkpoint except a retry, which repeats
\* one that it has read.
LEMMA JobsStep ==
    ASSUME TypeOK, IndInv, Grows, [Next]_vars
    PROVE  CheckpointCovered' /\ CompletedWhole'
<1>a. /\ jobs \in [Files -> JobRow]
      /\ \A w \in Workers : run[w] \in Run /\ run[w].file \in Files
  BY DEF TypeOK, Run
<1>1. CASE UNCHANGED jobs
  BY <1>1, JobsKept
<1>2. ASSUME NEW w \in Workers, NEW from, NEW to, SaveCheckpoint(w, from, to)
      PROVE  CheckpointCovered' /\ CompletedWhole'
  <2>. DEFINE g == run[w].file
              n == run[w].mark
  <2>1. g \in Files /\ Stored(g, n)
    BY <1>a DEF IndInv, RunSound
  <2>2. \A f \in Files : /\ jobs'[f].status = jobs[f].status
                         /\ jobs'[f].rows = IF f = g THEN n ELSE jobs[f].rows
    BY <1>2, <1>a DEF SaveCheckpoint, CheckpointJob, JobRow
  <2>3. CheckpointCovered'
    BY <2>1, <2>2 DEF CheckpointCovered, IndInv, Stored, Grows
  <2>4. CompletedWhole'
    BY <2>2 DEF CompletedWhole, IndInv, Stored, Grows
  <2>. QED
    BY <2>3, <2>4
<1>3. ASSUME NEW w \in Workers, Complete(w) \/ CompleteUnaudited(w)
      PROVE  CheckpointCovered' /\ CompletedWhole'
  <2>. DEFINE g == run[w].file
  <2>1. g \in Files /\ Stored(g, NumChunks)
    BY <1>3, <1>a DEF IndInv, RunSound, Complete, CompleteUnaudited, At, Closing
  <2>2. \A f \in Files : /\ jobs'[f].rows = jobs[f].rows
                         /\ f # g => jobs'[f].status = jobs[f].status
    BY <1>3, <1>a DEF Complete, CompleteUnaudited, CompleteJob, JobRow
  <2>3. CheckpointCovered'
    BY <2>2 DEF CheckpointCovered, IndInv, Stored, Grows
  <2>4. CompletedWhole'
    BY <2>1, <2>2 DEF CompletedWhole, IndInv, Stored, Grows
  <2>. QED
    BY <2>3, <2>4
<1>4. ASSUME NEW w \in Workers,
             FailWrites(w) \/ RejectJob(w) \/ FailUnaudited(w)
      PROVE  CheckpointCovered' /\ CompletedWhole'
  <2>1. \A f \in Files : /\ jobs'[f].rows = jobs[f].rows
                         /\ jobs'[f].status = "COMPLETED"
                                => jobs[f].status = "COMPLETED"
    BY <1>4, <1>a DEF FailWrites, RejectJob, FailUnaudited, RescheduleJob,
                      FailJobPermanently, JobRow
  <2>. QED
    BY <2>1, JobsKept
<1>5. ASSUME NEW w \in Workers, NEW g \in Files, Claim(w, g)
      PROVE  CheckpointCovered' /\ CompletedWhole'
  <2>1. \A f \in Files : /\ jobs'[f].rows = jobs[f].rows
                         /\ jobs'[f].status = "COMPLETED"
                                => jobs[f].status = "COMPLETED"
    BY <1>5, <1>a DEF Claim, ClaimJob, JobRow
  <2>. QED
    BY <2>1, JobsKept
<1>6. ASSUME NEW i \in Instances, CancelLands(i)
      PROVE  CheckpointCovered' /\ CompletedWhole'
  <2>1. \A f \in Files : /\ jobs'[f].rows = jobs[f].rows
                         /\ jobs'[f].status = "COMPLETED"
                                => jobs[f].status = "COMPLETED"
    BY <1>6, <1>a DEF CancelLands, CancelJobs, JobRow
  <2>. QED
    BY <2>1, JobsKept
<1>7. ASSUME NEW i \in Instances, NEW g \in Files,
             RecoverJob(i, g) \/ RecoverFaults(i, g)
      PROVE  CheckpointCovered' /\ CompletedWhole'
  <2>1. \A f \in Files : /\ jobs'[f].rows = jobs[f].rows
                         /\ jobs'[f].status = "COMPLETED"
                                => jobs[f].status = "COMPLETED"
    BY <1>7, <1>a DEF RecoverJob, RecoverFaults, RequeueJob, FailJobPermanently,
                      JobRow
  <2>. QED
    BY <2>1, JobsKept
<1>8. ASSUME NEW i \in Instances, NEW g \in Files,
             UploadEnqueues(i, g) \/ RetryWrites(i, g)
      PROVE  CheckpointCovered' /\ CompletedWhole'
  <2>. DEFINE n == jobs'[g].rows
  <2>1. /\ \A f \in Files \ {g} : jobs'[f] = jobs[f]
        /\ jobs'[g].status = "QUEUED"
        /\ n = 0 \/ n = retry[i][g].row.rows
    <3>1. CASE UploadEnqueues(i, g)
      BY <3>1, <1>a DEF UploadEnqueues, EnqueueJob, NoJob
    <3>2. CASE RetryWrites(i, g)
      <4>1. \A r \in JobRow : LET s == [r EXCEPT !.status = "QUEUED",
                                                !.attempts = 0]
                              IN  s.status = "QUEUED" /\ s.rows = r.rows
        BY DEF JobRow
      <4>2. retry[i][g].row \in JobRow
        BY DEF TypeOK
      <4>3. jobs' = [jobs EXCEPT ![g] = [retry[i][g].row EXCEPT
                                             !.status = "QUEUED", !.attempts = 0]]
        BY <3>2 DEF RetryWrites, SaveRetried
      <4>. QED
        BY <4>1, <4>2, <4>3, <1>a
    <3>. QED
      BY <3>1, <3>2, <1>8
  <2>2. \A k \in 0..(n - 1) : k \in chunks[g]
    BY <2>1 DEF IndInv, Stored
  <2>3. CheckpointCovered'
    BY <2>1, <2>2 DEF CheckpointCovered, IndInv, Stored, Grows
  <2>4. CompletedWhole'
    BY <2>1 DEF CompletedWhole, IndInv, Stored, Grows
  <2>. QED
    BY <2>3, <2>4
<1>9. ASSUME NEW g \in Files, LeaseExpires(g) \/ RunStalls(g)
      PROVE  CheckpointCovered' /\ CompletedWhole'
  <2>1. \A f \in Files : /\ jobs'[f].rows = jobs[f].rows
                         /\ jobs'[f].status = "COMPLETED"
                                => jobs[f].status = "COMPLETED"
    BY <1>9, <1>a DEF LeaseExpires, RunStalls, LeaseRunsOut, JobRow
  <2>. QED
    BY <2>1, JobsKept
<1>. QED
  BY <1>1, <1>2, <1>3, <1>4, <1>5, <1>6, <1>7, <1>8, <1>9, JobsChange

------------------------------------------------------------------------------
(* The sessions and their snapshot                                         *)

\* A session that takes over its progress and its inspected files from itself,
\* from the snapshot or from an empty session is as sound as that one.
Follows(s, t) ==
    \A f \in Files : /\ s.rows[f] = t.rows[f]
                     /\ s.files[f] = "inspected" => t.files[f] = "inspected"

LEMMA SessionsKept ==
    ASSUME IndInv, Grows,
           \A i \in Instances : \/ Follows(session'[i], session[i])
                                \/ Follows(session'[i], saved.session)
                                \/ Follows(session'[i], NoSession)
    PROVE  SessionsSound'
<1>1. ASSUME NEW i \in Instances, Follows(session'[i], session[i])
      PROVE  SessionSound(session[i])'
  BY <1>1 DEF IndInv, Grows, SessionSound, Stored, Follows
<1>2. ASSUME NEW i \in Instances, Follows(session'[i], saved.session)
      PROVE  SessionSound(session[i])'
  BY <1>2 DEF IndInv, Grows, SessionSound, Stored, Follows
<1>3. ASSUME NEW i \in Instances, Follows(session'[i], NoSession)
      PROVE  SessionSound(session[i])'
  BY <1>3 DEF SessionSound, Stored, Follows, NoSession
<1>. QED
  BY <1>1, <1>2, <1>3 DEF SessionsSound

\* Marking a session failed inspects no file.
LEMMA MarkFailedFollows ==
    ASSUME TypeOK, NEW i \in Instances, NEW files \in [Files -> FileStatus],
           \A f \in Files : files[f] = "inspected"
                                => session[i].files[f] = "inspected",
           MarkFailed(i, files)
    PROVE  \A k \in Instances : Follows(session'[k], session[k])
<1>1. session[i] \in Session /\ session \in [Instances -> Session]
  BY DEF TypeOK
<1>2. Follows(FailedSession(session[i], files), session[i])
  BY <1>1 DEF FailedSession, Follows, Session
<1>. QED
  BY <1>1, <1>2 DEF MarkFailed, Follows

LEMMA MarkFileFailedFollows ==
    ASSUME TypeOK, NEW i \in Instances, NEW f \in Files, MarkFileFailed(i, f)
    PROVE  \A k \in Instances : Follows(session'[k], session[k])
<1>. DEFINE files == [session[i].files EXCEPT ![f] = "error"]
<1>1. session[i].files \in [Files -> FileStatus]
  BY DEF TypeOK, Session
<1>2. files \in [Files -> FileStatus]
  BY <1>1 DEF FileStatus
<1>3. \A g \in Files : files[g] = "inspected"
                           => session[i].files[g] = "inspected"
  BY <1>1
<1>. QED
  BY <1>2, <1>3, MarkFailedFollows DEF MarkFileFailed

LEMMA SessionsChange ==
    ASSUME [Next]_vars
    PROVE  \/ UNCHANGED session
           \/ \E w \in Workers : ReportProgress(w) \/ Finish(w) \/ MarkRunFailed(w)
           \/ \E i \in Instances :
                 \/ RecoverReads(i)
                 \/ \E f \in Files : RecoverMarks(i, f) \/ RefuseRetry(i, f)
                                     \/ AcceptRetry(i, f)
                 \/ Upload(i) \/ Cancel(i) \/ ExpireSession(i)
                 \/ CleanUpSession(i) \/ Crash(i) \/ Restart(i)
<1>1. ASSUME NEW w \in Workers, Work(w)
      PROVE  \/ UNCHANGED session
             \/ ReportProgress(w) \/ Finish(w) \/ MarkRunFailed(w)
  BY <1>1 DEF Work, Step, Start, SaveCheckpoint, SkipRows, ParseRows, AppendChunk, Flush,
              FinalFlush, Complete, FailReads, FailWrites, RejectJob, FaultInRun,
              CompleteUnaudited, FailUnaudited, Claim
<1>2. ASSUME NEW i \in Instances, Startup(i) \/ Request(i)
      PROVE  \/ UNCHANGED session
             \/ RecoverReads(i)
             \/ \E f \in Files : RecoverMarks(i, f) \/ RefuseRetry(i, f)
                                 \/ AcceptRetry(i, f)
             \/ Upload(i) \/ Cancel(i)
  BY <1>2 DEF Startup, Request, RecoverJob, RecoverFaults, UploadFlushed,
              UploadFails, UploadEnqueues, CancelLands, RetryStarts, RetryReads, RetryWrites,
              procVars
<1>3. Environment =>
          \/ UNCHANGED session
          \/ \E i \in Instances : \/ ExpireSession(i) \/ CleanUpSession(i)
                                  \/ Crash(i) \/ Restart(i)
  BY DEF Environment, WriteSent, WriteLands, WriteFails, LeaseExpires, RunStalls,
         LoseSource, procVars
<1>4. UNCHANGED vars => UNCHANGED session
  BY DEF vars
<1>. QED
  BY <1>1, <1>2, <1>3, <1>4 DEF Next

\* Progress is the position of a run, a file is inspected by a run that has
\* stored all of it; everything else follows.
LEMMA SessionsStep ==
    ASSUME TypeOK, IndInv, Grows, [Next]_vars
    PROVE  SessionsSound'
<1>a. /\ session \in [Instances -> Session]
      /\ \A i \in Instances : session[i] \in Session
      /\ \A i \in Instances : session[i].files \in [Files -> FileStatus]
      /\ \A w \in Workers : /\ run[w].file \in Files /\ HostOf[w] \in Instances
                            /\ RunSound(run[w])
  BY ProcessingAssumption DEF TypeOK, Run, Session, IndInv
<1>b. (\A i \in Instances : Follows(session'[i], session[i])) => SessionsSound'
  BY SessionsKept
<1>1. CASE UNCHANGED session
  BY <1>1, <1>b DEF Follows
<1>2. ASSUME NEW w \in Workers, ReportProgress(w)
      PROVE  SessionsSound'
  <2>. DEFINE i == HostOf[w]
              f == run[w].file
  <2>1. /\ \A k \in Instances \ {i} : session'[k] = session[k]
        /\ \A g \in Files : session'[i].files[g] = session[i].files[g]
        /\ \A g \in Files \ {f} : session'[i].rows[g] = session[i].rows[g]
        /\ session'[i].rows[f] = run[w].pos
    BY <1>2, <1>a DEF ReportProgress, Session
  <2>2. Stored(f, run[w].pos)
    BY <1>a DEF RunSound
  <2>. QED
    BY <2>1, <2>2, <1>a DEF SessionsSound, SessionSound, IndInv, Stored, Grows
<1>3. ASSUME NEW w \in Workers, Finish(w)
      PROVE  SessionsSound'
  <2>. DEFINE i == HostOf[w]
              f == run[w].file
  <2>1. /\ \A k \in Instances \ {i} : session'[k] = session[k]
        /\ \A g \in Files : session'[i].rows[g] = session[i].rows[g]
        /\ \A g \in Files \ {f} : session'[i].files[g] = session[i].files[g]
    <3>. DEFINE files == [session[i].files EXCEPT ![f] = "inspected"]
    <3>1. \E st : session' = [session EXCEPT ![i] =
                   [session[i] EXCEPT !.files = files, !.status = st]]
      BY <1>3, <1>a DEF Finish
    <3>2. \A st : LET t == [session[i] EXCEPT !.files = files, !.status = st]
                  IN  t.rows = session[i].rows /\ t.files = files
      BY <1>a DEF Session
    <3>. QED
      BY <3>1, <3>2, <1>a
  <2>2. Stored(f, NumChunks)
    BY <1>3, <1>a DEF RunSound, Finish, At, Closing
  <2>. QED
    BY <2>1, <2>2, <1>a DEF SessionsSound, SessionSound, IndInv, Stored, Grows
<1>4. ASSUME NEW w \in Workers, MarkRunFailed(w)
      PROVE  SessionsSound'
  BY <1>4, <1>a, <1>b, MarkFileFailedFollows DEF MarkRunFailed
<1>5. ASSUME NEW i \in Instances, RecoverReads(i) \/ ExpireSession(i)
      PROVE  SessionsSound'
  <2>1. UNCHANGED session \/ MarkFailed(i, session[i].files)
    BY <1>5 DEF RecoverReads, ExpireSession
  <2>. QED
    BY <2>1, <1>1, <1>a, <1>b, MarkFailedFollows
<1>6. ASSUME NEW i \in Instances, NEW f \in Files,
             RecoverMarks(i, f) \/ RefuseRetry(i, f)
      PROVE  SessionsSound'
  BY <1>6, <1>b, MarkFileFailedFollows DEF RecoverMarks, RefuseRetry
<1>7. ASSUME NEW i \in Instances, NEW f \in Files, AcceptRetry(i, f)
      PROVE  SessionsSound'
  <2>1. \A k \in Instances : Follows(session'[k], session[k])
    BY <1>7, <1>a DEF AcceptRetry, Follows, Session
  <2>. QED
    BY <2>1, <1>b
<1>8. ASSUME NEW i \in Instances, Upload(i) \/ Crash(i)
      PROVE  SessionsSound'
  <2>1. Follows([NoSession EXCEPT !.listed = TRUE], NoSession)
    BY DEF Follows, NoSession
  <2>2. \A k \in Instances : \/ Follows(session'[k], session[k])
                             \/ Follows(session'[k], NoSession)
    <3>1. \A k \in Instances : \/ session'[k] = session[k]
                               \/ session'[k] = NoSession
                               \/ session'[k] = [NoSession EXCEPT !.listed = TRUE]
      BY <1>8, <1>a DEF Upload, Crash
    <3>. QED
      BY <2>1, <3>1 DEF Follows
  <2>. QED
    BY <2>2, SessionsKept
<1>9. ASSUME NEW i \in Instances, Cancel(i) \/ CleanUpSession(i)
      PROVE  SessionsSound'
  <2>1. \A k \in Instances : Follows(session'[k], session[k])
    <3>1. CASE Cancel(i)
      BY <3>1, <1>a DEF Cancel, Follows, Session
    <3>2. CASE CleanUpSession(i)
      BY <3>2, <1>a DEF CleanUpSession, Follows, Session
    <3>. QED
      BY <3>1, <3>2, <1>9
  <2>. QED
    BY <2>1, <1>b
<1>10. ASSUME NEW i \in Instances, Restart(i)
       PROVE  SessionsSound'
  <2>1. \A k \in Instances : \/ Follows(session'[k], session[k])
                             \/ Follows(session'[k], saved.session)
    BY <1>10, <1>a DEF Restart, Follows
  <2>. QED
    BY <2>1, SessionsKept
<1>. QED
  BY <1>1, <1>2, <1>3, <1>4, <1>5, <1>6, <1>7, <1>8, <1>9, <1>10, SessionsChange

\* The snapshot is what a write was sent with; only WriteLands writes it.
LEMMA SavedStep ==
    ASSUME TypeOK, IndInv, Grows, [Next]_vars
    PROVE  SessionSound(saved.session)'
<1>1. ASSUME NEW w \in Workers, Work(w)
      PROVE  UNCHANGED saved
  BY <1>1 DEF Work, Step, Start, SaveCheckpoint, SkipRows, ParseRows, AppendChunk,
              ReportProgress, Flush, FinalFlush, Finish, Complete, FailReads, FailWrites,
              RejectJob, MarkRunFailed, FaultInRun, CompleteUnaudited,
              FailUnaudited, Claim
<1>2. ASSUME NEW i \in Instances, Startup(i) \/ Request(i)
      PROVE  UNCHANGED saved
  BY <1>2 DEF Startup, Request, RecoverReads, RecoverJob, RecoverFaults,
              RecoverMarks, Upload, UploadFlushed, UploadEnqueues, UploadFails,
              Cancel, CancelLands, RetryStarts, AcceptRetry, RefuseRetry, RetryReads,
              RetryWrites, procVars
<1>3. Environment =>
          \/ UNCHANGED saved
          \/ \E i \in Instances, s \in Slots : WriteLands(i, s)
  BY DEF Environment, ExpireSession, CleanUpSession, Restart, Crash, WriteSent,
         WriteFails, LeaseExpires, RunStalls, LoseSource, procVars
<1>4. UNCHANGED vars => UNCHANGED saved
  BY DEF vars
<1>5. CASE UNCHANGED saved
  BY <1>5 DEF IndInv, SessionSound, Stored, Grows
<1>6. ASSUME NEW i \in Instances, NEW s \in Slots, WriteLands(i, s)
      PROVE  SessionSound(saved.session)'
  <2>1. saved'.session = writes[i][s].session /\ SessionSound(writes[i][s].session)
    BY <1>6 DEF WriteLands, IndInv
  <2>. QED
    BY <2>1 DEF SessionSound, Stored, Grows
<1>. QED
  BY <1>1, <1>2, <1>3, <1>4, <1>5, <1>6 DEF Next

\* A write is called without a session and sent with the one of its instance.
LEMMA TracksKeep ==
    ASSUME TypeOK, NEW i \in Instances, NEW c \in BOOLEAN, Track(i, c)
    PROVE  \A k \in Instances, s \in Slots :
              writes'[k][s].session \in {writes[k][s].session, NoSession}
<1>. DEFINE w == [NoWrite EXCEPT !.step = "called", !.cancelled = c]
<1>1. writes \in [Instances -> [Slots -> Write]]
  BY DEF TypeOK
<1>2. PICK t \in Slots : writes' = [writes EXCEPT ![i] = [writes[i] EXCEPT ![t] = w]]
  BY <1>1, TrackKeeps
<1>3. w.session = NoSession
  BY DEF NoWrite
<1>. HIDE DEF w
<1>. QED
  BY <1>1, <1>2, <1>3

LEMMA PersistKeeps ==
    ASSUME TypeOK, NEW i \in Instances, Persist(i, session[i])
    PROVE  \A k \in Instances, s \in Slots :
              writes'[k][s].session \in {writes[k][s].session, NoSession}
<1>1. session[i].cancelled \in BOOLEAN
  BY DEF TypeOK, Session
<1>. QED
  BY <1>1, TracksKeep DEF Persist

LEMMA WritesStep ==
    ASSUME TypeOK, IndInv, Grows, [Next]_vars
    PROVE  WritesSound'
<1>. DEFINE Kept == \A k \in Instances, s \in Slots :
                        writes'[k][s].session \in {writes[k][s].session, NoSession}
<1>a. writes \in [Instances -> [Slots -> Write]]
  BY DEF TypeOK
<1>b. UNCHANGED writes => Kept
  OBVIOUS
<1>c. \A i \in Instances, f \in [Files -> FileStatus] : MarkFailed(i, f) => Kept
  BY PersistKeeps DEF MarkFailed
<1>d. \A i \in Instances : Persist(i, session[i]) => Kept
  BY PersistKeeps
<1>e. \A i \in Instances : Track(i, TRUE) \/ Track(i, FALSE) => Kept
  BY TracksKeep
<1>f. NoWrite.session = NoSession
  BY DEF NoWrite
<1>1. CASE Kept
  <2>1. ASSUME NEW k \in Instances, NEW s \in Slots PROVE SessionSound(writes[k][s].session)'
    <3>1. SessionSound(writes[k][s].session)
      BY DEF IndInv
    <3>2. CASE writes'[k][s].session = writes[k][s].session
      BY <3>1, <3>2 DEF SessionSound, Stored, Grows
    <3>3. CASE writes'[k][s].session = NoSession
      BY <3>3 DEF SessionSound, NoSession, Stored
    <3>. QED
      BY <1>1, <3>2, <3>3
  <2>. QED
    BY <2>1 DEF WritesSound
<1>. HIDE DEF Kept
<1>2. ASSUME NEW w \in Workers, Work(w) PROVE Kept
  <2>0. HostOf[w] \in Instances
    BY ProcessingAssumption
  <2>1. CASE ReportProgress(w) \/ Finish(w)
    BY <2>0, <2>1, <1>d DEF ReportProgress, Finish
  <2>2. CASE MarkRunFailed(w)
    BY <2>0, <2>2, <1>d DEF MarkRunFailed, MarkFileFailed, MarkFailed
  <2>3. CASE UNCHANGED writes
    BY <2>3, <1>b
  <2>. QED
    BY <1>2, <2>1, <2>2, <2>3 DEF Work, Step, Start, SaveCheckpoint, SkipRows, ParseRows,
       AppendChunk, Flush, FinalFlush, Complete, FailReads, FailWrites, RejectJob, FaultInRun,
       CompleteUnaudited, FailUnaudited, Claim
<1>3. ASSUME NEW i \in Instances, Startup(i) \/ Request(i) PROVE Kept
  <2>1. CASE RecoverReads(i)
    BY <2>1, <1>b, <1>d DEF RecoverReads, MarkFailed
  <2>2. ASSUME NEW f \in Files, RecoverMarks(i, f) \/ RefuseRetry(i, f) \/ AcceptRetry(i, f)
        PROVE  Kept
    BY <2>2, <1>d DEF RecoverMarks, RefuseRetry, AcceptRetry, MarkFileFailed, MarkFailed
  <2>3. CASE Upload(i) \/ Cancel(i)
    BY <2>3, <1>e DEF Upload, Cancel
  <2>4. CASE UNCHANGED writes
    BY <2>4, <1>b
  <2>. QED
    BY <1>3, <2>1, <2>2, <2>3, <2>4 DEF Startup, Request, RecoverJob, RecoverFaults,
       UploadFlushed, UploadEnqueues, UploadFails, CancelLands, RetryStarts, RetryReads,
       RetryWrites, procVars
<1>4. ASSUME NEW i \in Instances, NEW s \in Slots, WriteSent(i, s) PROVE WritesSound'
  <2>1. /\ writes'[i][s].session = [session[i] EXCEPT !.listed = TRUE]
        /\ \A k \in Instances, t \in Slots :
              k # i \/ t # s => writes'[k][t].session = writes[k][t].session
    BY <1>4, <1>a DEF WriteSent, Write
  <2>2. Follows([session[i] EXCEPT !.listed = TRUE], session[i])
    BY DEF Follows, TypeOK, Session
  <2>3. SessionSound(writes[i][s].session)'
    BY <2>1, <2>2 DEF IndInv, SessionSound, Follows, Stored, Grows
  <2>4. ASSUME NEW k \in Instances, NEW t \in Slots, k # i \/ t # s
        PROVE  SessionSound(writes[k][t].session)'
    <3>1. writes'[k][t].session = writes[k][t].session /\ SessionSound(writes[k][t].session)
      BY <2>1, <2>4 DEF IndInv
    <3>. QED
      BY <3>1 DEF SessionSound, Stored, Grows
  <2>. QED
    BY <2>3, <2>4 DEF WritesSound
<1>5. ASSUME NEW i \in Instances, NEW s \in Slots, WriteEnds(i, s) PROVE Kept
  <2>1. writes' = [writes EXCEPT ![i][s] = NoWrite]
    BY <1>5 DEF WriteEnds
  <2>. QED
    BY <2>1, <1>a, <1>f DEF Kept
<1>6. ASSUME NEW i \in Instances, Crash(i) PROVE Kept
  <2>1. writes' = [writes EXCEPT ![i] = [s \in Slots |-> NoWrite]]
    BY <1>6 DEF Crash
  <2>. QED
    BY <2>1, <1>a, <1>f DEF Kept
<1>7. ASSUME NEW i \in Instances, ExpireSession(i) PROVE Kept
  BY <1>7, <1>d DEF ExpireSession, MarkFailed
<1>8. Environment => \/ Kept
                     \/ \E i \in Instances, s \in Slots : WriteSent(i, s)
  BY <1>b, <1>5, <1>6, <1>7 DEF Environment, CleanUpSession, Restart, WriteLands,
     WriteFails, LeaseExpires, RunStalls, LoseSource, procVars
<1>9. UNCHANGED vars => Kept
  BY <1>b DEF vars
<1>. QED
  BY <1>1, <1>2, <1>3, <1>4, <1>8, <1>9 DEF Next

------------------------------------------------------------------------------
(* The rows that retries have read                                         *)

LEMMA RetriesStep ==
    ASSUME TypeOK, IndInv, Grows, [Next]_vars
    PROVE  RetriesSound'
<1>a. NoRetry.row.rows = 0 /\ NoJob.rows = 0
  BY DEF NoRetry, NoJob
<1>b. retry \in [Instances -> [Files ->
                    [step : {"idle", "checking", "reading", "writing"}, row : JobRow]]]
  BY DEF TypeOK
<1>1. ASSUME NEW w \in Workers, Work(w)
      PROVE  UNCHANGED retry
  BY <1>1 DEF Work, Step, Start, SaveCheckpoint, SkipRows, ParseRows, AppendChunk,
              ReportProgress, Flush, FinalFlush, Finish, Complete, FailReads, FailWrites,
              RejectJob, MarkRunFailed, FaultInRun, CompleteUnaudited,
              FailUnaudited, Claim
<1>2. ASSUME NEW i \in Instances, Startup(i) \/ Request(i)
      PROVE  \/ UNCHANGED retry
             \/ \E f \in Files : \/ RetryStarts(i, f) \/ AcceptRetry(i, f)
                                 \/ RefuseRetry(i, f)
                                 \/ RetryReads(i, f) \/ RetryWrites(i, f)
  BY <1>2 DEF Startup, Request, RecoverReads, RecoverJob, RecoverFaults,
              RecoverMarks, Upload, UploadFlushed, UploadEnqueues, UploadFails,
              Cancel, CancelLands, procVars
<1>3. Environment => UNCHANGED retry \/ \E i \in Instances : Crash(i)
  BY DEF Environment, ExpireSession, CleanUpSession, Restart, WriteSent, WriteLands,
         WriteFails, LeaseExpires, RunStalls, LoseSource, procVars
<1>4. UNCHANGED vars => UNCHANGED retry
  BY DEF vars
<1>5. CASE UNCHANGED retry
  BY <1>5 DEF RetriesSound, IndInv, Stored, Grows
<1>6. ASSUME NEW i \in Instances, NEW f \in Files,
             \/ RetryStarts(i, f) \/ AcceptRetry(i, f) \/ RefuseRetry(i, f)
             \/ RetryReads(i, f) \/ RetryWrites(i, f)
      PROVE  RetriesSound'
  <2>1. \A k \in Instances, g \in Files :
            retry'[k][g].row.rows = retry[k][g].row.rows
            \/ retry'[k][g].row.rows = 0
            \/ retry'[k][g].row.rows = jobs[g].rows
    <3>1. ASSUME NEW r, retry' = [retry EXCEPT ![i][f] = r]
          PROVE  \A k \in Instances, g \in Files :
                     retry'[k][g] = IF k = i /\ g = f THEN r ELSE retry[k][g]
      BY <3>1, <1>b
    <3>2. CASE RetryStarts(i, f)
      <4>. DEFINE r == [retry[i][f] EXCEPT !.step = "checking"]
      <4>1. r.row = retry[i][f].row /\ retry' = [retry EXCEPT ![i][f] = r]
        BY <3>2, <1>b DEF RetryStarts
      <4>. HIDE DEF r
      <4>. QED
        BY <3>1, <4>1
    <3>3. CASE AcceptRetry(i, f)
      <4>. DEFINE r == [retry[i][f] EXCEPT !.step = "reading"]
      <4>1. r.row = retry[i][f].row /\ retry' = [retry EXCEPT ![i][f] = r]
        BY <3>3, <1>b DEF AcceptRetry
      <4>. HIDE DEF r
      <4>. QED
        BY <3>1, <4>1
    <3>4. CASE RetryReads(i, f)
      BY <3>1, <3>4 DEF RetryReads
    <3>5. CASE RefuseRetry(i, f) \/ RetryWrites(i, f)
      BY <3>1, <3>5, <1>a DEF RefuseRetry, RetryWrites
    <3>. QED
      BY <3>2, <3>3, <3>4, <3>5, <1>6
  <2>. QED
    BY <2>1 DEF RetriesSound, IndInv, CheckpointCovered, Stored, Grows
<1>7. ASSUME NEW i \in Instances, Crash(i)
      PROVE  RetriesSound'
  <2>1. \A k \in Instances, g \in Files :
            retry'[k][g].row.rows = retry[k][g].row.rows
            \/ retry'[k][g].row.rows = 0
    BY <1>7, <1>a, <1>b DEF Crash
  <2>. QED
    BY <2>1 DEF RetriesSound, IndInv, Stored, Grows
<1>. QED
  BY <1>1, <1>2, <1>3, <1>4, <1>5, <1>6, <1>7 DEF Next

------------------------------------------------------------------------------
(* The runs                                                                *)

\* A run that keeps its place, or goes on to a step that asks for nothing, is
\* as sound as before.
LEMMA RunKept ==
    ASSUME IndInv, Grows, NEW w \in Workers, run[w].file \in Files,
           run'[w].file = run[w].file, run'[w].pos = run[w].pos,
           \/ run'[w].mark = run[w].mark
           \/ Stored(run[w].file, run'[w].mark),
           \/ run'[w].pc = run[w].pc
           \/ run'[w].pc \notin Closing \union {"appending"}
           \/ run[w].pc \in Closing /\ run'[w].pc \in Closing
    PROVE  RunSound(run[w])'
BY DEF IndInv, Grows, RunSound, Stored, Closing

\* The step of a run moves its own worker only.
LEMMA OneRun ==
    ASSUME TypeOK, NEW w \in Workers, Work(w)
    PROVE  \A v \in Workers \ {w} : run'[v] = run[v]
<1>a. run \in [Workers -> Run]
  BY DEF TypeOK
<1>1. ASSUME NEW r, run' = [run EXCEPT ![w] = r]
      PROVE  \A v \in Workers \ {w} : run'[v] = run[v]
  BY <1>1, <1>a
<1>2. ASSUME NEW step, Goto(w, step)
      PROVE  \A v \in Workers \ {w} : run'[v] = run[v]
  BY <1>2, <1>a DEF Goto
<1>3. EndRun(w) => \A v \in Workers \ {w} : run'[v] = run[v]
  BY <1>a DEF EndRun
<1>. QED
  BY <1>1, <1>2, <1>3
     DEF Work, Step, Start, SaveCheckpoint, SkipRows, ParseRows, AppendChunk,
         ReportProgress, Flush, FinalFlush, Finish, Complete, FailReads, FailWrites,
         RejectJob, MarkRunFailed, FaultInRun, CompleteUnaudited,
              FailUnaudited, Claim

\* What a run is after each of its own steps.
LEMMA OwnRunStep ==
    ASSUME TypeOK, RowsRemain, IndInv, Grows, NEW w \in Workers, Work(w)
    PROVE  RunSound(run[w])'
<1>. USE QueueAssumption, ProcessingAssumption
<1>a. /\ run \in [Workers -> Run] /\ run[w] \in Run /\ run[w].file \in Files
      /\ run[w].pos \in 0..NumChunks
      /\ HostOf[w] \in Instances
      /\ RunSound(run[w])
  BY DEF TypeOK, Run, IndInv
<1>b. ASSUME NEW step, Goto(w, step)
      PROVE  /\ run'[w].pc = step /\ run'[w].file = run[w].file
             /\ run'[w].pos = run[w].pos /\ run'[w].mark = run[w].mark
  BY <1>a, <1>b DEF Goto, Run
<1>c. ASSUME NEW step, step \notin Closing \union {"appending"}, Goto(w, step)
      PROVE  RunSound(run[w])'
  BY <1>b, <1>c, <1>a, RunKept
<1>d. EndRun(w) => RunSound(run[w])'
  <2>1. EndRun(w) => run'[w] = NoRun
    BY <1>a DEF EndRun
  <2>. QED
    BY <2>1, NoRunFields DEF RunSound, Stored, Closing
<1>1. CASE Start(w)
  <2>1. CASE Goto(w, "failing") \/ Goto(w, "rejecting")
    BY <2>1, <1>c DEF Closing
  <2>. DEFINE n == session[HostOf[w]].rows[run[w].file]
  <2>2. CASE run' = [run EXCEPT ![w] = [@ EXCEPT !.pc = "opening", !.mark = n]]
    <3>1. Stored(run[w].file, n)
      BY <1>a DEF IndInv, SessionSound
    <3>2. /\ run'[w].pc = "opening" /\ run'[w].file = run[w].file
          /\ run'[w].pos = run[w].pos /\ run'[w].mark = n
      BY <2>2, <1>a DEF Run
    <3>. QED
      BY <3>1, <3>2, <1>a, RunKept DEF Closing
  <2>. QED
    BY <2>1, <2>2, <1>1, Zenon DEF Start
<1>2. CASE \/ SaveCheckpoint(w, "opening", "skipping")
           \/ SaveCheckpoint(w, "checkpointing", "flushing")
           \/ Flush(w, "flushing", "parsing")
           \/ FailReads(w) \/ FailWrites(w) \/ RejectJob(w)
           \/ CompleteUnaudited(w) \/ SkipRows(w)
  <2>1. \E step : step \notin Closing \union {"appending"} /\ Goto(w, step)
    BY <1>2 DEF SaveCheckpoint, SkipRows, Flush, FailReads, FailWrites, RejectJob,
                CompleteUnaudited, Closing
  <2>. QED
    BY <2>1, <1>c
<1>3. CASE \/ SaveCheckpoint(w, "finalCheckpoint", "completing")
           \/ FinalFlush(w)
  <2>1. \E step \in Closing : Goto(w, step) /\ run[w].pc \in Closing
    BY <1>3 DEF SaveCheckpoint, FinalFlush, At, Closing
  <2>. QED
    BY <2>1, <1>a, <1>b, RunKept
<1>4. CASE ParseRows(w)
  <2>1. CASE run[w].pos = NumChunks /\ Goto(w, "finishing")
    <3>1. Stored(run[w].file, NumChunks)
      BY <2>1, <1>a DEF RunSound
    <3>. QED
      BY <2>1, <3>1, <1>a, <1>b DEF RunSound, Stored, Grows
  <2>2. CASE run[w].pos < NumChunks /\ Goto(w, "appending")
    BY <2>2, <1>a, <1>b DEF RunSound, Stored, Grows, Closing
  <2>3. CASE Goto(w, "failing")
    BY <2>3, <1>c DEF Closing
  <2>. QED
    BY <2>1, <2>2, <2>3, <1>4 DEF ParseRows
<1>5. CASE AppendChunk(w)
  <2>. DEFINE f == run[w].file
              p == run[w].pos
  <2>1. /\ f \in Files /\ p \in 0..(NumChunks - 1)
        /\ chunks' = [chunks EXCEPT ![f] = @ \union {p}]
    BY <1>5, AppendInOrder DEF Chunks
  <2>2. p \in chunks'[f]
    BY <2>1 DEF TypeOK
  <2>3. \A k \in 0..p : k \in chunks'[f]
    <3>1. \A k \in 0..(p - 1) : k \in chunks'[f]
      BY <1>a DEF RunSound, Stored, Grows
    <3>. QED
      BY <3>1, <2>1, <2>2
  <2>4. \E step \in {"reporting", "finishing"} :
            /\ run' = [run EXCEPT ![w] = [@ EXCEPT !.pos = p + 1, !.pc = step]]
            /\ step = "finishing" => ~Reported(f, p + 1)
    BY <1>5 DEF AppendChunk
  <2>5. /\ run'[w].file = f /\ run'[w].pos = p + 1 /\ run'[w].mark = run[w].mark
        /\ run'[w].pc \in {"reporting", "finishing"}
        /\ run'[w].pc = "finishing" => p + 1 = NumChunks
    BY <2>4, <2>1, <1>a DEF Run, Reported
  <2>. QED
    BY <2>1, <2>3, <2>5, <1>a DEF RunSound, Stored, Grows, Closing
<1>6. CASE ReportProgress(w)
  <2>1. \E a : run' = [run EXCEPT ![w] = [@ EXCEPT !.pc = "checkpointing",
                                                  !.mark = run[w].pos,
                                                  !.awaits = a]]
    BY <1>6 DEF ReportProgress
  <2>2. /\ run'[w].pc = "checkpointing" /\ run'[w].file = run[w].file
        /\ run'[w].pos = run[w].pos /\ run'[w].mark = run[w].pos
    BY <2>1, <1>a DEF Run
  <2>. QED
    BY <2>2, <1>a, RunKept DEF RunSound, Closing
<1>7. CASE Finish(w)
  <2>1. \E a, l : run' = [run EXCEPT ![w] = [@ EXCEPT !.pc = "finalFlush",
                                                     !.mark = NumChunks,
                                                     !.awaits = a, !.last = l]]
    BY <1>7 DEF Finish
  <2>2. /\ run'[w].pc = "finalFlush" /\ run'[w].file = run[w].file
        /\ run'[w].pos = run[w].pos /\ run'[w].mark = NumChunks
    BY <2>1, <1>a DEF Run
  <2>3. Stored(run[w].file, NumChunks) /\ run[w].pc \in Closing
    BY <1>7, <1>a DEF RunSound, Finish, At, Closing
  <2>. QED
    BY <2>2, <2>3, <1>a, RunKept DEF Closing
<1>8. CASE Complete(w) \/ MarkRunFailed(w) \/ FailUnaudited(w)
  BY <1>8, <1>d DEF Complete, MarkRunFailed, FailUnaudited
<1>9. CASE FaultInRun(w)
  <2>1. CASE run' = [run EXCEPT ![w] = [@ EXCEPT !.pc = "failing", !.awaits = {}]]
    <3>1. /\ run'[w].pc = "failing" /\ run'[w].file = run[w].file
          /\ run'[w].pos = run[w].pos /\ run'[w].mark = run[w].mark
      BY <2>1, <1>a DEF Run
    <3>. QED
      BY <3>1, <1>a, RunKept DEF Closing
  <2>. QED
    BY <2>1, <1>9, <1>d DEF FaultInRun
<1>10. ASSUME NEW f \in Files, Claim(w, f)
       PROVE  RunSound(run[w])'
  <2>1. /\ run'[w].pc = "starting" /\ run'[w].file = f /\ run'[w].mark = 0
        /\ run'[w].pos = 0 \/ run'[w].pos = jobs[f].rows
    BY <1>10, <1>a DEF Claim
  <2>. QED
    BY <2>1 DEF RunSound, IndInv, CheckpointCovered, Stored, Grows, Closing
<1>. QED
  BY <1>1, <1>2, <1>3, <1>4, <1>5, <1>6, <1>7, <1>8, <1>9, <1>10 DEF Work, Step

LEMMA RunsStep ==
    ASSUME TypeOK, RowsRemain, IndInv, Grows, [Next]_vars
    PROVE  RunsSound'
<1>a. \A w \in Workers : run[w].file \in Files
  BY DEF TypeOK, Run
<1>1. ASSUME NEW w \in Workers, Work(w)
      PROVE  RunsSound'
  <2>1. RunSound(run[w])'
    BY <1>1, OwnRunStep
  <2>2. ASSUME NEW v \in Workers \ {w}
        PROVE  RunSound(run[v])'
    <3>1. run'[v] = run[v]
      BY <1>1, OneRun
    <3>. QED
      BY <3>1, <1>a, RunKept
  <2>. QED
    BY <2>1, <2>2 DEF RunsSound
<1>2. CASE \A w \in Workers : \/ run'[w] = NoRun
                              \/ /\ run'[w].pc = run[w].pc
                                 /\ run'[w].file = run[w].file
                                 /\ run'[w].pos = run[w].pos
                                 /\ run'[w].mark = run[w].mark
  <2>1. ASSUME NEW w \in Workers, run'[w] = NoRun
        PROVE  RunSound(run[w])'
    BY <2>1, NoRunFields DEF RunSound, Stored, Closing
  <2>. QED
    BY <2>1, <1>2, <1>a, RunKept DEF RunsSound
<1>. QED
  BY <1>1, <1>2, RunsChange

------------------------------------------------------------------------------
(* The theorems                                                            *)

LEMMA InitSound == Init => IndInv
<1>. SUFFICES ASSUME Init PROVE IndInv
  OBVIOUS
<1>. USE QueueAssumption
<1>1. ChunksPrefix
  <2>1. 0..(0 - 1) = {} /\ 0 \in 0..NumChunks
    OBVIOUS
  <2>. QED
    BY <2>1 DEF Init, ChunksPrefix
<1>2. CheckpointCovered /\ CompletedWhole
  BY DEF Init, CheckpointCovered, CompletedWhole, NoJob, Stored
<1>3. SessionSound(NoSession)
  BY DEF SessionSound, NoSession, Stored
<1>4. \A i \in Instances, f \in Files : Stored(f, retry[i][f].row.rows)
  BY DEF Init, NoRetry, NoJob, Stored
<1>5. RunSound(NoRun)
  BY NoRunFields DEF RunSound, Stored, Closing
<1>6. \A i \in Instances, s \in Slots : writes[i][s].session = NoSession
  BY DEF Init, NoWrite
<1>. QED
  BY <1>1, <1>2, <1>3, <1>4, <1>5, <1>6 DEF IndInv, Init

LEMMA NextSound ==
    TypeOK /\ RowsRemain /\ IndInv /\ [Next]_vars => IndInv'
<1>. SUFFICES ASSUME TypeOK, RowsRemain, IndInv, [Next]_vars
              PROVE  IndInv'
  OBVIOUS
<1>1. Grows /\ ChunksPrefix'
  BY ChunksStep
<1>2. CheckpointCovered' /\ CompletedWhole'
  BY <1>1, JobsStep
<1>3. /\ SessionsSound' /\ SessionSound(saved.session)' /\ WritesSound'
      /\ RetriesSound' /\ RunsSound'
  BY <1>1, SessionsStep, SavedStep, WritesStep, RetriesStep, RunsStep
<1>. QED
  BY <1>1, <1>2, <1>3 DEF IndInv, SessionsSound, WritesSound, RetriesSound, RunsSound

\* The inductive invariant, with the types it rests on.
THEOREM Inductive == Spec => [](TypeOK /\ RowsRemain /\ IndInv)
<1>1. Init => TypeOK /\ RowsRemain /\ IndInv
  BY InitType, InitSound, NoRunFields DEF Init, RowsRemain
<1>2. TypeOK /\ RowsRemain /\ IndInv /\ [Next]_vars
          => TypeOK' /\ RowsRemain' /\ IndInv'
  BY NextType, PositionStep, NextSound
<1>. QED
  BY <1>1, <1>2, PTL DEF Spec

\* A job resumed from its checkpoint skips only rows that are stored, after any
\* number of crashes, duplicate claims, retries and recoveries.
THEOREM CheckpointsAreCovered == Spec => []CheckpointCovered
<1>1. IndInv => CheckpointCovered
  BY DEF IndInv
<1>. QED
  BY <1>1, Inductive, PTL

\* A job is COMPLETED only when every chunk of its file is stored.
THEOREM CompletedIsWhole == Spec => []CompletedWhole
<1>1. IndInv => CompletedWhole
  BY DEF IndInv
<1>. QED
  BY <1>1, Inductive, PTL

\* A file shown as inspected, by any instance or after any restart, is entirely
\* stored.
THEOREM InspectedIsWhole == Spec => []InspectedWhole
<1>1. IndInv => InspectedWhole
  BY DEF IndInv, InspectedWhole, SessionSound
<1>. QED
  BY <1>1, Inductive, PTL

------------------------------------------------------------------------------
(* The contract                                                            *)

Outcomes == [f \in Files |-> OutcomeOf(jobs[f].status)]

\* An update of one job that does not cancel it, and completes it only when its
\* rows are stored, is a step of the contract.
LEMMA OutcomeStep ==
    ASSUME UNCHANGED chunks, NEW g \in Files,
           \A f \in Files \ {g} : jobs'[f].status = jobs[f].status,
           \/ jobs'[g].status \in Unfinished \union {"FAILED"}
           \/ jobs'[g].status = "COMPLETED" /\ chunks[g] = 0..(NumChunks - 1)
    PROVE  Contract!Next
<1>. DEFINE o == OutcomeOf(jobs'[g].status)
<1>1. Outcomes' = [Outcomes EXCEPT ![g] = o]
  BY DEF Outcomes
<1>2. CASE jobs'[g].status \in Unfinished
  <2>1. o = "open"
    BY <1>2 DEF OutcomeOf, Unfinished, Pending
  <2>2. Contract!Reopen(g)
    BY <1>1, <2>1 DEF Contract!Reopen, Outcomes
  <2>. QED
    BY <2>2 DEF Contract!Next
<1>3. CASE jobs'[g].status = "FAILED"
  <2>1. o = "failed"
    BY <1>3 DEF OutcomeOf
  <2>2. Contract!GiveUp(g)
    BY <1>1, <2>1 DEF Contract!GiveUp, Outcomes
  <2>. QED
    BY <2>2 DEF Contract!Next
<1>4. CASE jobs'[g].status = "COMPLETED" /\ chunks[g] = 0..(NumChunks - 1)
  <2>1. o = "done"
    BY <1>4 DEF OutcomeOf
  <2>2. Contract!Report(g)
    BY <1>1, <1>4, <2>1 DEF Contract!Report, Outcomes
  <2>. QED
    BY <2>2 DEF Contract!Next
<1>. QED
  BY <1>2, <1>3, <1>4

LEMMA OutcomesKept ==
    ASSUME UNCHANGED chunks, \A f \in Files : jobs'[f].status = jobs[f].status
    PROVE  UNCHANGED Contract!contractVars
<1>1. Outcomes' = Outcomes
  BY DEF Outcomes
<1>. QED
  BY <1>1 DEF Outcomes, Contract!contractVars

\* Rows stored: the next chunk of the file, or one it has already.
LEMMA AppendImplements ==
    ASSUME TypeOK, RowsRemain, IndInv, NEW w \in Workers, AppendChunk(w)
    PROVE  Contract!Next \/ UNCHANGED Contract!contractVars
<1>. USE QueueAssumption
<1>. DEFINE f == run[w].file
            p == run[w].pos
<1>1. /\ f \in Files /\ p \in Chunks
      /\ chunks' = [chunks EXCEPT ![f] = @ \union {p}]
  BY AppendInOrder
<1>2. PICK n \in 0..NumChunks : chunks[f] = 0..(n - 1) /\ p <= n
  BY AppendInOrder
<1>3. UNCHANGED jobs
  BY DEF AppendChunk
<1>4. chunks \in [Files -> SUBSET Chunks]
  BY DEF TypeOK
<1>. HIDE DEF f, p
<1>5. CASE p = n
  <2>1. n \in 0..(NumChunks - 1)
    BY <1>1, <1>5 DEF Chunks
  <2>2. 0..(n - 1) \union {n} = 0..n
    BY <2>1
  <2>3. chunks' = [chunks EXCEPT ![f] = 0..n]
    BY <1>1, <1>2, <1>4, <1>5, <2>2
  <2>4. UNCHANGED Outcomes
    BY <1>3 DEF Outcomes
  <2>5. Contract!StoreNext(f)
    BY <2>1, <2>3, <2>4, <1>2 DEF Contract!StoreNext, Outcomes
  <2>. QED
    BY <2>5, <1>1 DEF Contract!Next
<1>6. CASE p < n
  <2>1. p \in chunks[f]
    BY <1>1, <1>2, <1>6 DEF Chunks
  <2>2. UNCHANGED chunks
    BY <2>1, <1>1, <1>4
  <2>. QED
    BY <2>2, <1>3, OutcomesKept
<1>7. p = n \/ p < n
  BY <1>1, <1>2 DEF Chunks
<1>. QED
  BY <1>5, <1>6, <1>7

LEMMA StepImplements ==
    ASSUME TypeOK, RowsRemain, IndInv, [Next]_vars
    PROVE  Contract!Next \/ UNCHANGED Contract!contractVars
<1>. USE QueueAssumption
<1>a. /\ jobs \in [Files -> JobRow]
      /\ \A w \in Workers : run[w].file \in Files
  BY DEF TypeOK, Run
<1>1. ASSUME NEW w \in Workers, AppendChunk(w)
      PROVE  Contract!Next \/ UNCHANGED Contract!contractVars
  BY <1>1, AppendImplements
<1>2. CASE UNCHANGED jobs /\ UNCHANGED chunks
  BY <1>2, OutcomesKept
<1>3. ASSUME NEW w \in Workers, NEW from, NEW to, SaveCheckpoint(w, from, to)
      PROVE  UNCHANGED Contract!contractVars
  <2>1. \A f \in Files : jobs'[f].status = jobs[f].status
    BY <1>3, <1>a DEF SaveCheckpoint, CheckpointJob, JobRow
  <2>. QED
    BY <2>1, <1>3, OutcomesKept DEF SaveCheckpoint
<1>4. ASSUME NEW w \in Workers, Complete(w) \/ CompleteUnaudited(w)
      PROVE  Contract!Next
  <2>. DEFINE g == run[w].file
  <2>1. UNCHANGED chunks /\ CompleteJob(g)
    BY <1>4 DEF Complete, CompleteUnaudited
  <2>2. Stored(g, NumChunks)
    BY <1>4 DEF IndInv, RunSound, Complete, CompleteUnaudited, At, Closing
  <2>3. chunks[g] = 0..(NumChunks - 1)
    BY <2>2, <1>a DEF Stored, TypeOK, Chunks
  <2>4. /\ \A f \in Files \ {g} : jobs'[f].status = jobs[f].status
        /\ jobs'[g].status = "COMPLETED"
    BY <2>1, <1>a DEF CompleteJob, JobRow
  <2>. QED
    BY <2>1, <2>3, <2>4, <1>a, OutcomeStep
<1>5. ASSUME NEW w \in Workers,
             FailWrites(w) \/ RejectJob(w) \/ FailUnaudited(w)
      PROVE  Contract!Next
  <2>. DEFINE g == run[w].file
  <2>1. /\ \A f \in Files \ {g} : jobs'[f].status = jobs[f].status
        /\ jobs'[g].status \in Unfinished \union {"FAILED"}
    BY <1>5, <1>a DEF FailWrites, RejectJob, FailUnaudited, RescheduleJob,
                      FailJobPermanently, JobRow, Unfinished, Pending
  <2>. QED
    BY <2>1, <1>5, <1>a, OutcomeStep DEF FailWrites, RejectJob, FailUnaudited
<1>6. ASSUME NEW w \in Workers, NEW g \in Files, Claim(w, g)
      PROVE  Contract!Next
  <2>1. /\ \A f \in Files \ {g} : jobs'[f].status = jobs[f].status
        /\ jobs'[g].status \in Unfinished
    BY <1>6, <1>a DEF Claim, ClaimJob, JobRow, Unfinished
  <2>. QED
    BY <2>1, <1>6, OutcomeStep DEF Claim
<1>7. ASSUME NEW i \in Instances, CancelLands(i)
      PROVE  Contract!Next
  <2>. DEFINE S == {f \in Files : jobs[f].status \in Unfinished}
  <2>1. \A f \in Files : jobs'[f].status = IF f \in S THEN "CANCELLED"
                                                     ELSE jobs[f].status
    BY <1>7, <1>a DEF CancelLands, CancelJobs, JobRow
  <2>2. \A f \in S : Outcomes[f] = "open"
    BY DEF Outcomes, OutcomeOf, Unfinished, Pending
  <2>3. Outcomes' = [f \in Files |-> IF f \in S THEN "cancelled" ELSE Outcomes[f]]
    BY <2>1 DEF Outcomes, OutcomeOf
  <2>4. S \in SUBSET {f \in Files : Outcomes[f] = "open"}
    BY <2>2
  <2>5. UNCHANGED chunks
    BY <1>7 DEF CancelLands
  <2>6. Contract!Cancel
    BY <2>3, <2>4, <2>5 DEF Contract!Cancel, Outcomes
  <2>. QED
    BY <2>6 DEF Contract!Next
<1>8. ASSUME NEW i \in Instances, NEW g \in Files,
             \/ RecoverJob(i, g) \/ RecoverFaults(i, g)
             \/ UploadEnqueues(i, g) \/ RetryWrites(i, g)
      PROVE  Contract!Next
  <2>1. /\ \A f \in Files \ {g} : jobs'[f].status = jobs[f].status
        /\ jobs'[g].status \in {"QUEUED", "FAILED"}
    <3>1. CASE RecoverJob(i, g) \/ RecoverFaults(i, g)
      BY <3>1, <1>a DEF RecoverJob, RecoverFaults, RequeueJob,
                        FailJobPermanently, JobRow
    <3>2. CASE UploadEnqueues(i, g)
      BY <3>2, <1>a DEF UploadEnqueues, EnqueueJob, NoJob
    <3>3. CASE RetryWrites(i, g)
      <4>1. \A r \in JobRow :
                [r EXCEPT !.status = "QUEUED", !.attempts = 0].status = "QUEUED"
        BY DEF JobRow
      <4>2. retry[i][g].row \in JobRow
        BY DEF TypeOK
      <4>3. jobs' = [jobs EXCEPT ![g] = [retry[i][g].row EXCEPT
                                             !.status = "QUEUED", !.attempts = 0]]
        BY <3>3 DEF RetryWrites, SaveRetried
      <4>. QED
        BY <4>1, <4>2, <4>3, <1>a
    <3>. QED
      BY <3>1, <3>2, <3>3, <1>8
  <2>2. UNCHANGED chunks
    BY <1>8 DEF RecoverJob, RecoverFaults, UploadEnqueues, RetryWrites, procVars
  <2>. QED
    BY <2>1, <2>2, OutcomeStep DEF Unfinished, Pending
<1>9. ASSUME NEW g \in Files, LeaseExpires(g) \/ RunStalls(g)
      PROVE  UNCHANGED Contract!contractVars
  <2>1. \A f \in Files : jobs'[f].status = jobs[f].status
    BY <1>9, <1>a DEF LeaseExpires, RunStalls, LeaseRunsOut, JobRow
  <2>. QED
    BY <2>1, <1>9, OutcomesKept DEF LeaseExpires, RunStalls, procVars
<1>. QED
  BY <1>1, <1>2, <1>3, <1>4, <1>5, <1>6, <1>7, <1>8, <1>9, ChunksChange,
     JobsChange

\* The whole machinery of queue, sessions, workers, recovery and retries
\* implements the contract of an import on its files.
THEOREM ImportImplementsContract == Spec => ImplementsContract
<1>1. Init => Contract!Init
  BY DEF Init, Contract!Init, OutcomeOf, NoJob
<1>2. TypeOK /\ RowsRemain /\ IndInv /\ [Next]_vars
          => [Contract!Next]_(Contract!contractVars)
  BY StepImplements
<1>. QED
  BY <1>1, <1>2, Inductive, PTL DEF Spec, ImplementsContract, Contract!Spec

------------------------------------------------------------------------------
(* Jobs that are given up: the attempts of the row and of the runs          *)

Uploading == \E i \in Instances : upload[i] # "none"
Unqueued  == \A f \in Files : jobs[f].status = "NONE"

\* A run works on a job that exists and that has been claimed as often as the run
\* has seen, or more often; a run that rejects its job has missed the source.
RunCounted(r) ==
    r.pc # "idle" => /\ jobs[r.file].status # "NONE"
                     /\ r.attempts <= jobs[r.file].attempts
                     /\ r.pc = "rejecting" => r.file \notin source

RunsCounted == \A w \in Workers : RunCounted(run[w])

NoneRetried == \A i \in Instances, f \in Files : retry[i][f].step = "idle"

RecoversJobs ==
    \A i \in Instances, f \in Files : recovery[i][f] = "requeue" => jobs[f].status # "NONE"

Unspent == budget.faults = 0 /\ budget.retries = 0

AInv ==
    /\ TypeOK /\ RowsRemain /\ Unspent
    /\ Uploading \/ Unqueued
    /\ RunsCounted /\ NoneRetried /\ RecoversJobs
    /\ GivesUpWhenExhausted

------------------------------------------------------------------------------
(* What a step may do                                                      *)

\* A bound that is used up stays used up.
LEMMA UnspentStep == ASSUME TypeOK, Unspent, [Next]_vars PROVE Unspent'
<1>a. budget \in Budget
  BY DEF TypeOK
<1>1. CASE UNCHANGED vars
  BY <1>1 DEF vars, Unspent
<1>2. ASSUME NEW w \in Workers, Work(w) PROVE Unspent'
  <2>1. ASSUME FaultInRun(w) \/ CompleteUnaudited(w) \/ FailUnaudited(w) PROVE FALSE
    BY <2>1 DEF FaultInRun, CompleteUnaudited, FailUnaudited, Unspent
  <2>2. UNCHANGED budget
    BY <1>2, <2>1 DEF Work, Step, Start, SaveCheckpoint, SkipRows, ParseRows, AppendChunk,
       ReportProgress, Flush, FinalFlush, Finish, Complete, FailReads, FailWrites, RejectJob,
       MarkRunFailed, Claim
  <2> QED BY <2>2 DEF Unspent
<1>3. ASSUME NEW i \in Instances, Startup(i) PROVE Unspent'
  BY <1>3, <1>a DEF Startup, RecoverReads, RecoverJob, RecoverFaults, RecoverMarks, Unspent
<1>4. ASSUME NEW i \in Instances, Request(i) PROVE Unspent'
  <2>1. ASSUME NEW f \in Files, RetryStarts(i, f) PROVE FALSE
    BY <2>1 DEF RetryStarts, Unspent
  <2>2. CASE UploadFails(i)
    BY <2>2 DEF UploadFails, Unspent
  <2>3. CASE Cancel(i)
    BY <2>3, <1>a DEF Cancel, Budget, Unspent
  <2>4. CASE \/ Upload(i) \/ UploadFlushed(i) \/ CancelLands(i)
             \/ \E f \in Files : \/ UploadEnqueues(i, f) \/ AcceptRetry(i, f) \/ RefuseRetry(i, f)
                                 \/ RetryReads(i, f) \/ RetryWrites(i, f)
    <3>1. UNCHANGED budget
      BY <2>4 DEF Upload, UploadFlushed, CancelLands, UploadEnqueues, procVars, AcceptRetry,
         RefuseRetry, RetryReads, RetryWrites
    <3> QED BY <3>1 DEF Unspent
  <2> QED BY <1>4, <2>1, <2>2, <2>3, <2>4 DEF Request
<1>5. CASE Environment
  <2>1. ASSUME NEW i \in Instances,
               ExpireSession(i) \/ CleanUpSession(i) \/ Crash(i) \/ Restart(i)
        PROVE  Unspent'
    BY <2>1, <1>a DEF ExpireSession, CleanUpSession, TimerDue, Crash, Restart, Budget, Unspent
  <2>2. ASSUME NEW i \in Instances, NEW s \in Slots, WriteSent(i, s) \/ WriteLands(i, s) \/ WriteFails(i, s)
        PROVE  Unspent'
    BY <2>2, <1>a DEF WriteSent, WriteLands, WriteFails, Unspent
  <2>3. ASSUME NEW f \in Files, LeaseExpires(f) \/ RunStalls(f) \/ LoseSource(f)
        PROVE  Unspent'
    BY <2>3, <1>a DEF LeaseExpires, procVars, RunStalls, LoseSource, Budget, Unspent
  <2> QED BY <1>5, <2>1, <2>2, <2>3 DEF Environment
<1> QED BY <1>1, <1>2, <1>3, <1>4, <1>5 DEF Next

\* Without a retry no request of the user touches a job.
LEMMA NoneRetriedStep == ASSUME AInv, [Next]_vars PROVE NoneRetried'
<1>1. ASSUME NEW i \in Instances, Crash(i) PROVE NoneRetried'
  BY <1>1 DEF Crash, AInv, TypeOK, NoneRetried, NoRetry
<1>2. ASSUME NEW i \in Instances, NEW f \in Files,
             \/ RetryStarts(i, f) \/ AcceptRetry(i, f) \/ RefuseRetry(i, f)
             \/ RetryReads(i, f) \/ RetryWrites(i, f)
      PROVE  FALSE
  BY <1>2 DEF RetryStarts, AcceptRetry, RefuseRetry, RetryReads, RetryWrites, AInv,
     NoneRetried, Unspent
<1>3. (\E i \in Instances : Crash(i)) \/ UNCHANGED retry
  <2>1. ASSUME NEW w \in Workers, Work(w) PROVE UNCHANGED retry
    BY <2>1 DEF Work, Step, Start, SaveCheckpoint, SkipRows, ParseRows, AppendChunk,
       ReportProgress, Flush, FinalFlush, Finish, Complete, FailReads, FailWrites, RejectJob,
       MarkRunFailed, FaultInRun, CompleteUnaudited, FailUnaudited, Claim
  <2>2. ASSUME NEW i \in Instances, Startup(i) \/ Request(i) PROVE UNCHANGED retry
    BY <2>2, <1>2 DEF Startup, RecoverReads, RecoverJob, RecoverFaults, RecoverMarks,
       Request, Upload, UploadFlushed, UploadFails, UploadEnqueues, procVars, Cancel, CancelLands
  <2>3. Environment => (\E i \in Instances : Crash(i)) \/ UNCHANGED retry
    BY DEF Environment, ExpireSession, CleanUpSession, Restart, WriteSent, WriteLands, WriteFails,
       LeaseExpires, procVars, RunStalls, LoseSource
  <2>4. UNCHANGED vars => UNCHANGED retry
    BY DEF vars
  <2> QED BY <2>1, <2>2, <2>3, <2>4 DEF Next
<1> QED BY <1>1, <1>3 DEF AInv, NoneRetried

\* Only an upload brings sources back, and there is one only before any job.
LEMMA SourcesShrink ==
    ASSUME AInv, [Next]_vars
    PROVE  source' \subseteq source \/ (Unqueued /\ UNCHANGED <<jobs, run, recovery>>)
<1>1. ASSUME NEW i \in Instances, Upload(i) PROVE Unqueued /\ UNCHANGED <<jobs, run, recovery>>
  BY <1>1 DEF Upload, AInv, Uploading
<1>2. (\E i \in Instances : Upload(i)) \/ source' \subseteq source
  <2>1. ASSUME NEW w \in Workers, Work(w) PROVE UNCHANGED source
    BY <2>1 DEF Work, Step, Start, SaveCheckpoint, SkipRows, ParseRows, AppendChunk,
       ReportProgress, Flush, FinalFlush, Finish, Complete, FailReads, FailWrites, RejectJob,
       MarkRunFailed, FaultInRun, CompleteUnaudited, FailUnaudited, Claim
  <2>2. ASSUME NEW i \in Instances, Startup(i) \/ Request(i)
        PROVE  Upload(i) \/ UNCHANGED source
    BY <2>2 DEF Startup, RecoverReads, RecoverJob, RecoverFaults, RecoverMarks,
       Request, UploadFlushed, UploadFails, UploadEnqueues, procVars, Cancel, CancelLands,
       RetryStarts, AcceptRetry, RefuseRetry, RetryReads, RetryWrites
  <2>3. Environment => source' \subseteq source
    BY DEF Environment, ExpireSession, CleanUpSession, Crash, Restart, WriteSent, WriteLands, WriteFails,
       LeaseExpires, procVars, RunStalls, LoseSource
  <2>4. UNCHANGED vars => UNCHANGED source
    BY DEF vars
  <2> QED BY <2>1, <2>2, <2>3, <2>4 DEF Next
<1> QED BY <1>1, <1>2

\* An upload stays on record, whether it is answered, fails or is lost.
LEMMA UploadingStep == ASSUME TypeOK, [Next]_vars, Uploading PROVE Uploading'
<1>1. \A i \in Instances : upload[i] # "none" => upload'[i] # "none"
  <2>1. ASSUME NEW w \in Workers, Work(w) PROVE UNCHANGED upload
    BY <2>1 DEF Work, Step, Start, SaveCheckpoint, SkipRows, ParseRows, AppendChunk,
       ReportProgress, Flush, FinalFlush, Finish, Complete, FailReads, FailWrites, RejectJob,
       MarkRunFailed, FaultInRun, CompleteUnaudited, FailUnaudited, Claim
  <2>2. ASSUME NEW k \in Instances, Startup(k) PROVE UNCHANGED upload
    BY <2>2 DEF Startup, RecoverReads, RecoverJob, RecoverFaults, RecoverMarks
  <2>3. ASSUME NEW k \in Instances, Request(k)
        PROVE  \A i \in Instances : upload[i] # "none" => upload'[i] # "none"
    BY <2>3 DEF Request, Upload, UploadFlushed, UploadFails, UploadEnqueues, procVars, Cancel,
       CancelLands, RetryStarts, AcceptRetry, RefuseRetry, RetryReads, RetryWrites, TypeOK
  <2>6. ASSUME NEW k \in Instances, Crash(k)
        PROVE  \A i \in Instances : upload[i] # "none" => upload'[i] # "none"
    BY <2>6 DEF Crash, TypeOK
  <2>4. Environment => UNCHANGED upload \/ \E k \in Instances : Crash(k)
    BY DEF Environment, ExpireSession, CleanUpSession, Restart, WriteSent, WriteLands, WriteFails,
       LeaseExpires, procVars, RunStalls, LoseSource
  <2>5. UNCHANGED vars => UNCHANGED upload
    BY DEF vars
  <2> QED BY <2>1, <2>2, <2>3, <2>4, <2>5, <2>6 DEF Next
<1> QED BY <1>1 DEF Uploading
------------------------------------------------------------------------------
(* The jobs                                                                *)

\* The job f after a step that does not enqueue it: no attempt is forgotten, and it is
\* given up only when none is left or the source is gone.
Counted(f) ==
    /\ jobs[f].status # "NONE" => jobs'[f].status # "NONE"
    /\ jobs'[f].attempts >= jobs[f].attempts
    /\ jobs'[f].status = "FAILED" =>
           \/ jobs[f].status = "FAILED"
           \/ jobs'[f].attempts >= MaxAttempts \/ f \notin source

LEMMA JobsCounted ==
    ASSUME AInv, [Next]_vars
    PROVE  \/ \A f \in Files : Counted(f)
           \/ \E i \in Instances, g \in Files : UploadEnqueues(i, g)
<1>a. /\ jobs \in [Files -> JobRow]
      /\ \A w \in Workers : run[w] \in Run /\ run[w].file \in Files
      /\ MaxAttempts \in Nat
  BY QueueAssumption DEF AInv, TypeOK, Run
<1>b. \A f \in Files : jobs[f].attempts \in Nat
  BY <1>a DEF JobRow
<1>1. CASE UNCHANGED jobs
  BY <1>1, <1>b DEF Counted
<1>2. ASSUME NEW w \in Workers, NEW from, NEW to, SaveCheckpoint(w, from, to)
      PROVE  \A f \in Files : Counted(f)
  <2>1. \A f \in Files : /\ jobs'[f].status = jobs[f].status
                         /\ jobs'[f].attempts = jobs[f].attempts
    BY <1>2, <1>a DEF SaveCheckpoint, CheckpointJob, JobRow
  <2> QED BY <2>1, <1>b DEF Counted
<1>3. ASSUME NEW w \in Workers, Complete(w) \/ CompleteUnaudited(w)
      PROVE  \A f \in Files : Counted(f)
  <2>1. \A f \in Files : /\ jobs'[f].attempts = jobs[f].attempts
                         /\ jobs'[f].status \in {jobs[f].status, "COMPLETED"}
    BY <1>3, <1>a DEF Complete, CompleteUnaudited, CompleteJob, JobRow
  <2> QED BY <2>1, <1>b DEF Counted
<1>4. ASSUME NEW w \in Workers, FailWrites(w)
      PROVE  \A f \in Files : Counted(f)
  <2> DEFINE g == run[w].file
  <2>1. g \in Files /\ run[w].attempts <= jobs[g].attempts /\ run[w].attempts \in Nat
    BY <1>4, <1>a DEF FailWrites, At, AInv, RunsCounted, RunCounted, Run
  <2>2. \A f \in Files : /\ jobs'[f].attempts = jobs[f].attempts
                         /\ f # g => jobs'[f].status = jobs[f].status
    BY <1>4, <1>a DEF FailWrites, RescheduleJob, JobRow
  <2>3. /\ jobs'[g].status \in {"RETRY", "FAILED"}
        /\ jobs'[g].status = "FAILED" => ~(run[w].attempts < MaxAttempts)
    BY <1>4, <1>a, <2>1 DEF FailWrites, RescheduleJob, JobRow
  <2>4. jobs'[g].status = "FAILED" => jobs'[g].attempts >= MaxAttempts
    BY <2>1, <2>2, <2>3, <1>a, <1>b
  <2> QED BY <2>2, <2>3, <2>4, <1>b DEF Counted
<1>5. ASSUME NEW w \in Workers, RejectJob(w)
      PROVE  \A f \in Files : Counted(f)
  <2> DEFINE g == run[w].file
  <2>1. g \in Files /\ g \notin source
    BY <1>5, <1>a DEF RejectJob, At, AInv, RunsCounted, RunCounted
  <2>2. \A f \in Files : /\ jobs'[f].attempts = jobs[f].attempts
                         /\ f # g => jobs'[f].status = jobs[f].status
    BY <1>5, <1>a DEF RejectJob, FailJobPermanently, JobRow
  <2>3. jobs'[g].status = "FAILED"
    BY <1>5, <1>a, <2>1 DEF RejectJob, FailJobPermanently, JobRow
  <2> QED BY <2>1, <2>2, <2>3, <1>b DEF Counted
<1>6. ASSUME NEW w \in Workers, NEW g \in Files, Claim(w, g)
      PROVE  \A f \in Files : Counted(f)
  <2>1. \A f \in Files : /\ jobs'[f].attempts \in {jobs[f].attempts, jobs[f].attempts + 1}
                         /\ jobs'[f].status \in {jobs[f].status, "PROCESSING"}
    BY <1>6, <1>a DEF Claim, ClaimJob, JobRow
  <2> QED BY <2>1, <1>b DEF Counted
<1>7. ASSUME NEW i \in Instances, CancelLands(i)
      PROVE  \A f \in Files : Counted(f)
  <2>1. \A f \in Files : /\ jobs'[f].attempts = jobs[f].attempts
                         /\ jobs'[f].status \in {jobs[f].status, "CANCELLED"}
    BY <1>7, <1>a DEF CancelLands, CancelJobs, JobRow
  <2> QED BY <2>1, <1>b DEF Counted
<1>8. ASSUME NEW i \in Instances, NEW g \in Files, RecoverJob(i, g)
      PROVE  \A f \in Files : Counted(f)
  <2>1. \A f \in Files : jobs'[f].attempts = jobs[f].attempts
    BY <1>8, <1>a DEF RecoverJob, RequeueJob, FailJobPermanently, JobRow
  <2>2. \A f \in Files : \/ jobs'[f].status = jobs[f].status
                         \/ jobs'[f].status = "QUEUED"
                         \/ jobs'[f].status = "FAILED" /\ f \notin source
    BY <1>8, <1>a DEF RecoverJob, RequeueJob, FailJobPermanently, JobRow
  <2> QED BY <2>1, <2>2, <1>b DEF Counted
<1>9. ASSUME NEW g \in Files, LeaseExpires(g) \/ RunStalls(g)
      PROVE  \A f \in Files : Counted(f)
  <2>1. \A f \in Files : /\ jobs'[f].status = jobs[f].status
                         /\ jobs'[f].attempts = jobs[f].attempts
    BY <1>9, <1>a DEF LeaseExpires, RunStalls, LeaseRunsOut, JobRow
  <2> QED BY <2>1, <1>b DEF Counted
<1>10. ASSUME NEW w \in Workers, FailUnaudited(w) PROVE FALSE
  BY <1>10 DEF FailUnaudited, AInv, Unspent
<1>11. ASSUME NEW i \in Instances, NEW f \in Files, RecoverFaults(i, f) \/ RetryWrites(i, f)
       PROVE  FALSE
  BY <1>11 DEF RecoverFaults, RetryWrites, AInv, Unspent, NoneRetried
<1> QED BY <1>1, <1>2, <1>3, <1>4, <1>5, <1>6, <1>7, <1>8, <1>9, <1>10, <1>11, JobsChange

\* A file is enqueued once, and no run works on it before.
LEMMA EnqueueKeeps ==
    ASSUME AInv, NEW i \in Instances, NEW g \in Files, UploadEnqueues(i, g)
    PROVE  RunsCounted' /\ RecoversJobs' /\ GivesUpWhenExhausted' /\ Uploading
<1>a. jobs \in [Files -> JobRow] /\ UNCHANGED <<run, recovery, source, upload>>
      /\ jobs[g].status = "NONE" /\ upload[i] # "none"
  BY DEF AInv, TypeOK, UploadEnqueues, procVars
<1>b. \A w \in Workers : run[w].file \in Files
  BY DEF AInv, TypeOK, Run
<1>1. jobs'[g].status = "QUEUED" /\ \A f \in Files \ {g} : jobs'[f] = jobs[f]
  BY <1>a DEF UploadEnqueues, EnqueueJob, NoJob
<1>2. \A w \in Workers : run[w].pc # "idle" => run[w].file # g
  BY <1>a DEF AInv, RunsCounted, RunCounted
<1>3. RunsCounted'
  BY <1>a, <1>b, <1>1, <1>2 DEF AInv, RunsCounted, RunCounted
<1>4. RecoversJobs'
  BY <1>a, <1>1 DEF AInv, RecoversJobs
<1>5. GivesUpWhenExhausted'
  BY <1>a, <1>1 DEF AInv, GivesUpWhenExhausted
<1> QED BY <1>3, <1>4, <1>5, <1>a DEF Uploading

------------------------------------------------------------------------------
(* The runs and the recoveries                                             *)

\* The run of w after a step: gone, or of the same claim and not newly rejecting.
Followed(w) ==
    \/ run'[w].pc = "idle"
    \/ /\ run[w].pc # "idle" /\ run'[w].file = run[w].file
       /\ run'[w].attempts = run[w].attempts
       /\ run'[w].pc = "rejecting" =>
              run[w].pc = "rejecting" \/ run[w].file \notin source

LEMMA OneFollowed ==
    ASSUME NEW w \in Workers, NEW r, run \in [Workers -> Run],
           run' = [run EXCEPT ![w] = r],
           \/ r.pc = "idle"
           \/ /\ run[w].pc # "idle" /\ r.file = run[w].file /\ r.attempts = run[w].attempts
              /\ r.pc = "rejecting" => run[w].file \notin source
    PROVE  \A v \in Workers : Followed(v)
BY DEF Followed

LEMMA GotoFollowed ==
    ASSUME NEW w \in Workers, NEW step \in RunStep, run \in [Workers -> Run], Goto(w, step),
           run[w].pc # "idle", step = "rejecting" => run[w].file \notin source
    PROVE  \A v \in Workers : Followed(v)
<1> DEFINE r == [run[w] EXCEPT !.pc = step]
<1>1. run' = [run EXCEPT ![w] = r]
  BY DEF Goto
<1>2. r.pc = step /\ r.file = run[w].file /\ r.attempts = run[w].attempts
  BY DEF Run
<1> HIDE DEF r
<1> QED BY <1>1, <1>2, OneFollowed

LEMMA EndFollowed ==
    ASSUME NEW w \in Workers, run \in [Workers -> Run], EndRun(w)
    PROVE  \A v \in Workers : Followed(v)
BY NoRunFields, OneFollowed DEF EndRun

LEMMA StepFollowed ==
    ASSUME TypeOK, NEW w \in Workers, Step(w)
    PROVE  \A v \in Workers : Followed(v)
<1>a. run \in [Workers -> Run] /\ run[w] \in Run
  BY DEF TypeOK
<1>1. CASE Start(w)
  <2>1. CASE Goto(w, "failing") \/ (Goto(w, "rejecting") /\ run[w].file \notin source)
    BY <1>1, <1>a, <2>1, GotoFollowed DEF Start, At, RunStep
  <2>2. CASE run' = [run EXCEPT ![w] = [@ EXCEPT !.pc = "opening",
                                            !.mark = session[HostOf[w]].rows[run[w].file]]]
    <3> DEFINE r == [run[w] EXCEPT !.pc = "opening",
                                   !.mark = session[HostOf[w]].rows[run[w].file]]
    <3>1. run' = [run EXCEPT ![w] = r] BY <2>2
    <3>2. r.pc = "opening" /\ r.file = run[w].file /\ r.attempts = run[w].attempts
      BY <1>a DEF Run
    <3>3. run[w].pc # "idle" BY <1>1 DEF Start, At
    <3> HIDE DEF r
    <3> QED BY <1>a, <3>1, <3>2, <3>3, OneFollowed
  <2> QED BY <1>1, <2>1, <2>2 DEF Start
<1>2. CASE \/ SaveCheckpoint(w, "opening", "skipping")
           \/ SaveCheckpoint(w, "checkpointing", "flushing")
           \/ SaveCheckpoint(w, "finalCheckpoint", "completing")
  BY <1>2, <1>a, GotoFollowed DEF SaveCheckpoint, At, RunStep
<1>3. CASE Flush(w, "flushing", "parsing") \/ FinalFlush(w)
  BY <1>3, <1>a, GotoFollowed DEF Flush, FinalFlush, At, RunStep
<1>11. CASE SkipRows(w)
  <2>1. \E step \in {"failing", "parsing"} : Goto(w, step)
    BY <1>11 DEF SkipRows
  <2>2. run[w].pc # "idle" BY <1>11 DEF SkipRows, At
  <2> QED BY <1>a, <2>1, <2>2, GotoFollowed DEF RunStep
<1>4. CASE ParseRows(w)
  <2>1. \E step \in {"finishing", "failing", "appending"} : Goto(w, step)
    BY <1>4 DEF ParseRows
  <2>2. run[w].pc # "idle" BY <1>4 DEF ParseRows, At
  <2> QED BY <1>a, <2>1, <2>2, GotoFollowed DEF RunStep
<1>5. CASE AppendChunk(w)
  <2> DEFINE r == [run[w] EXCEPT !.pos = run[w].pos + 1,
                                 !.pc = IF Reported(run[w].file, run[w].pos + 1)
                                        THEN "reporting" ELSE "finishing"]
  <2>1. run' = [run EXCEPT ![w] = r] /\ run[w].pc # "idle"
    BY <1>5 DEF AppendChunk, At
  <2>2. r.pc # "rejecting" /\ r.file = run[w].file /\ r.attempts = run[w].attempts
    BY <1>a DEF Run
  <2> HIDE DEF r
  <2> QED BY <1>a, <2>1, <2>2, OneFollowed
<1>6. CASE ReportProgress(w)
  <2> DEFINE r == [run[w] EXCEPT !.pc = "checkpointing", !.mark = run[w].pos,
                                 !.awaits = UnderWay(HostOf[w])']
  <2>1. run' = [run EXCEPT ![w] = r] /\ run[w].pc # "idle"
    BY <1>6 DEF ReportProgress, At
  <2>2. r.pc # "rejecting" /\ r.file = run[w].file /\ r.attempts = run[w].attempts
    BY <1>a DEF Run
  <2> HIDE DEF r
  <2> QED BY <1>a, <2>1, <2>2, OneFollowed
<1>7. CASE Finish(w)
  <2>1. PICK l : run' = [run EXCEPT ![w] = [run[w] EXCEPT !.pc = "finalFlush", !.mark = NumChunks,
                                     !.awaits = UnderWay(HostOf[w])', !.last = l]]
    BY <1>7 DEF Finish
  <2> DEFINE r == [run[w] EXCEPT !.pc = "finalFlush", !.mark = NumChunks,
                                 !.awaits = UnderWay(HostOf[w])', !.last = l]
  <2>2. r.pc # "rejecting" /\ r.file = run[w].file /\ r.attempts = run[w].attempts
    BY <1>a DEF Run
  <2>3. run' = [run EXCEPT ![w] = r] /\ run[w].pc # "idle"
    BY <1>7, <2>1 DEF Finish, At
  <2> HIDE DEF r
  <2> QED BY <1>a, <2>2, <2>3, OneFollowed
<1>8. CASE Complete(w) \/ MarkRunFailed(w)
  BY <1>8, <1>a, EndFollowed DEF Complete, MarkRunFailed
<1>9. CASE FailReads(w)
  <2>1. \E step \in {"marking", "rescheduling"} : Goto(w, step)
    BY <1>9 DEF FailReads
  <2>2. run[w].pc # "idle" BY <1>9 DEF FailReads, At
  <2> QED BY <1>a, <2>1, <2>2, GotoFollowed DEF RunStep
<1>10. CASE FailWrites(w) \/ RejectJob(w)
  BY <1>10, <1>a, GotoFollowed DEF FailWrites, RejectJob, At, RunStep
<1> QED BY <1>1, <1>2, <1>3, <1>4, <1>5, <1>6, <1>7, <1>8, <1>9, <1>10, <1>11 DEF Step

LEMMA RunsFollowed ==
    ASSUME AInv, [Next]_vars
    PROVE  \/ \A w \in Workers : Followed(w)
           \/ \E w \in Workers, f \in Files : Claim(w, f)
<1>a. run \in [Workers -> Run]
  BY DEF AInv, TypeOK
<1>1. CASE UNCHANGED run
  BY <1>1 DEF Followed
<1>2. ASSUME NEW w \in Workers, Work(w)
      PROVE  (\A v \in Workers : Followed(v)) \/ \E f \in Files : Claim(w, f)
  <2>1. ASSUME FaultInRun(w) \/ CompleteUnaudited(w) \/ FailUnaudited(w) PROVE FALSE
    BY <2>1 DEF FaultInRun, CompleteUnaudited, FailUnaudited, AInv, Unspent
  <2> QED BY <1>2, <2>1, StepFollowed DEF Work, AInv
<1>3. ASSUME NEW i \in Instances, NEW s \in Slots, WriteEnds(i, s)
      PROVE  \A w \in Workers : Followed(w)
  <2>1. \A r \in Run : LET q == [r EXCEPT !.awaits = @ \ {s}]
                       IN  q.pc = r.pc /\ q.file = r.file /\ q.attempts = r.attempts
    BY DEF Run
  <2>2. \A w \in Workers : run'[w] = run[w]
                           \/ run'[w] = [run[w] EXCEPT !.awaits = @ \ {s}]
    BY <1>3 DEF WriteEnds
  <2> QED BY <1>a, <2>1, <2>2 DEF Followed
<1>4. ASSUME NEW i \in Instances, Crash(i)
      PROVE  \A w \in Workers : Followed(w)
  BY <1>4, NoRunFields DEF Crash, Followed
<1>5. ASSUME NEW i \in Instances, Startup(i) \/ Request(i) PROVE UNCHANGED run
  BY <1>5 DEF Startup, RecoverReads, RecoverJob, RecoverFaults, RecoverMarks,
     Request, Upload, UploadFlushed, UploadFails, UploadEnqueues, procVars, Cancel, CancelLands,
     RetryStarts, AcceptRetry, RefuseRetry, RetryReads, RetryWrites
<1>6. Environment => \/ UNCHANGED run
                     \/ \E i \in Instances, s \in Slots : WriteEnds(i, s)
                     \/ \E i \in Instances : Crash(i)
  BY DEF Environment, ExpireSession, CleanUpSession, Restart, WriteSent, WriteLands, WriteFails,
     LeaseExpires, procVars, RunStalls, LoseSource
<1>7. UNCHANGED vars => UNCHANGED run
  BY DEF vars
<1> QED BY <1>1, <1>2, <1>3, <1>4, <1>5, <1>6, <1>7 DEF Next

LEMMA RecoveriesChange ==
    ASSUME AInv, [Next]_vars
    PROVE  \A i \in Instances, f \in Files :
               recovery'[i][f] = "requeue" =>
                   recovery[i][f] = "requeue" \/ jobs[f].status \in Unfinished
<1>a. recovery \in [Instances -> [Files -> {"done", "requeue", "mark"}]]
  BY DEF AInv, TypeOK
<1>1. ASSUME NEW i \in Instances, Startup(i)
      PROVE  \A k \in Instances, f \in Files :
                 recovery'[k][f] = "requeue" =>
                     recovery[k][f] = "requeue" \/ jobs[f].status \in Unfinished
  BY <1>1, <1>a DEF Startup, RecoverReads, RecoverJob, RecoverFaults, RecoverMarks, Recovered
<1>2. ASSUME NEW i \in Instances, Crash(i)
      PROVE  \A k \in Instances, f \in Files :
                 recovery'[k][f] = "requeue" => recovery[k][f] = "requeue"
  BY <1>2, <1>a DEF Crash
<1>3. \/ UNCHANGED recovery
      \/ \E i \in Instances : Startup(i) \/ Crash(i)
  <2>1. ASSUME NEW w \in Workers, Work(w) PROVE UNCHANGED recovery
    BY <2>1 DEF Work, Step, Start, SaveCheckpoint, SkipRows, ParseRows, AppendChunk,
       ReportProgress, Flush, FinalFlush, Finish, Complete, FailReads, FailWrites, RejectJob,
       MarkRunFailed, FaultInRun, CompleteUnaudited, FailUnaudited, Claim
  <2>2. ASSUME NEW i \in Instances, Request(i) PROVE UNCHANGED recovery
    BY <2>2 DEF Request, Upload, UploadFlushed, UploadFails, UploadEnqueues, procVars, Cancel,
       CancelLands, RetryStarts, AcceptRetry, RefuseRetry, RetryReads, RetryWrites
  <2>3. Environment => UNCHANGED recovery \/ \E i \in Instances : Crash(i)
    BY DEF Environment, ExpireSession, CleanUpSession, Restart, WriteSent, WriteLands, WriteFails,
       LeaseExpires, procVars, RunStalls, LoseSource
  <2>4. UNCHANGED vars => UNCHANGED recovery
    BY DEF vars
  <2> QED BY <2>1, <2>2, <2>3, <2>4 DEF Next
<1> QED BY <1>1, <1>2, <1>3

------------------------------------------------------------------------------
(* The invariant                                                           *)

LEMMA ClaimKeeps ==
    ASSUME AInv, NEW w \in Workers, NEW g \in Files, Claim(w, g) PROVE RunsCounted'
<1>a. /\ jobs \in [Files -> JobRow] /\ run \in [Workers -> Run]
      /\ \A v \in Workers : run[v].file \in Files /\ run[v].attempts \in Nat
      /\ UNCHANGED source
  BY DEF AInv, TypeOK, Run, Claim
<1>1. /\ jobs'[g].status = "PROCESSING" /\ jobs'[g].attempts = jobs[g].attempts + 1
      /\ jobs[g].attempts \in Nat
      /\ \A f \in Files \ {g} : jobs'[f] = jobs[f]
  BY <1>a DEF Claim, ClaimJob, JobRow
<1>2. /\ run'[w].file = g /\ run'[w].attempts = jobs[g].attempts + 1
      /\ run'[w].pc = "starting"
      /\ \A v \in Workers \ {w} : run'[v] = run[v]
  BY <1>a DEF Claim
<1>3. RunCounted(run[w])'
  BY <1>1, <1>2 DEF RunCounted
<1>4. \A v \in Workers \ {w} : RunCounted(run[v])'
  BY <1>a, <1>1, <1>2 DEF AInv, RunsCounted, RunCounted
<1> QED BY <1>3, <1>4 DEF RunsCounted

LEMMA RunsCountedStep ==
    ASSUME AInv, [Next]_vars, \A f \in Files : Counted(f) PROVE RunsCounted'
<1>a. \A w \in Workers : run[w].file \in Files /\ run[w].attempts \in Nat
  BY DEF AInv, TypeOK, Run
<1>b. \A f \in Files : jobs[f].attempts \in Nat /\ jobs'[f].attempts \in Nat
  <2>1. TypeOK'
    BY NextType DEF AInv
  <2> QED BY <2>1 DEF AInv, TypeOK, JobRow
<1>1. CASE \A w \in Workers : Followed(w)
  <2>1. CASE source' \subseteq source
    BY <1>1, <1>a, <1>b, <2>1 DEF AInv, RunsCounted, RunCounted, Followed, Counted
  <2>2. CASE Unqueued /\ UNCHANGED <<jobs, run>>
    BY <1>a, <2>2 DEF AInv, RunsCounted, RunCounted, Unqueued
  <2> QED BY <2>1, <2>2, SourcesShrink
<1>2. CASE \E w \in Workers, f \in Files : Claim(w, f)
  BY <1>2, ClaimKeeps
<1> QED BY <1>1, <1>2, RunsFollowed

LEMMA RecoversJobsStep ==
    ASSUME AInv, [Next]_vars, \A f \in Files : Counted(f) PROVE RecoversJobs'
BY RecoveriesChange DEF AInv, RecoversJobs, Counted, Unfinished, Pending

LEMMA GivesUpStep ==
    ASSUME AInv, [Next]_vars, \A f \in Files : Counted(f) PROVE GivesUpWhenExhausted'
<1>a. /\ MaxAttempts \in Nat
      /\ \A f \in Files : jobs[f].attempts \in Nat /\ jobs'[f].attempts \in Nat
  <2>1. TypeOK'
    BY NextType DEF AInv
  <2> QED BY <2>1, QueueAssumption DEF AInv, TypeOK, JobRow
<1>1. CASE source' \subseteq source
  BY <1>a, <1>1 DEF AInv, GivesUpWhenExhausted, Counted
<1>2. CASE Unqueued /\ UNCHANGED jobs
  BY <1>2 DEF Unqueued, GivesUpWhenExhausted
<1> QED BY <1>1, <1>2, SourcesShrink

LEMMA UnqueuedStep ==
    ASSUME AInv, [Next]_vars, Unqueued, \A f \in Files : Counted(f), ~Uploading
    PROVE  Uploading' \/ Unqueued'
<1>1. \A w \in Workers : run[w].pc = "idle"
  BY DEF AInv, RunsCounted, RunCounted, Unqueued, TypeOK, Run
<1>2. \A i \in Instances, f \in Files : recovery[i][f] # "requeue"
  BY DEF AInv, RecoversJobs, Unqueued
<1>3. UNCHANGED jobs => Unqueued'
  BY DEF Unqueued
<1>4. ASSUME NEW w \in Workers, NEW f \in Files, Claim(w, f) PROVE FALSE
  BY <1>4 DEF Claim, ClaimJob, Claimable, Pending, Unqueued
<1>5. ASSUME NEW w \in Workers,
             \/ Complete(w) \/ CompleteUnaudited(w) \/ FailWrites(w) \/ RejectJob(w)
             \/ FailUnaudited(w)
      PROVE  FALSE
  BY <1>1, <1>5 DEF Complete, CompleteUnaudited, FailWrites, RejectJob,
     FailUnaudited, At
<1>6. ASSUME NEW i \in Instances, NEW f \in Files, 
             RecoverJob(i, f) \/ RecoverFaults(i, f) \/ UploadEnqueues(i, f) \/ RetryWrites(i, f)
      PROVE  FALSE
  BY <1>2, <1>6 DEF RecoverJob, RecoverFaults, UploadEnqueues, RetryWrites, Uploading, AInv,
     NoneRetried
<1>7. ASSUME NEW i \in Instances, CancelLands(i) PROVE UNCHANGED jobs
  BY <1>7 DEF CancelLands, CancelJobs, AInv, TypeOK, Unqueued, Unfinished, Pending
<1>8. ASSUME NEW f \in Files, LeaseExpires(f) \/ RunStalls(f) PROVE FALSE
  BY <1>8 DEF LeaseExpires, RunStalls, LeaseRunsOut, Unqueued
<1>9. ASSUME NEW w \in Workers, NEW from, NEW to, SaveCheckpoint(w, from, to)
      PROVE  Unqueued'
  <2>1. \A f \in Files : jobs'[f].status = jobs[f].status
    BY <1>9 DEF SaveCheckpoint, CheckpointJob, AInv, TypeOK, JobRow
  <2> QED BY <2>1 DEF Unqueued
<1> QED BY <1>3, <1>4, <1>5, <1>6, <1>7, <1>8, <1>9, JobsChange

LEMMA InvariantStep == ASSUME AInv, [Next]_vars PROVE AInv'
<1>1. TypeOK' /\ RowsRemain' /\ Unspent' /\ NoneRetried'
  BY NextType, PositionStep, UnspentStep, NoneRetriedStep DEF AInv
<1>2. ASSUME NEW i \in Instances, NEW g \in Files, UploadEnqueues(i, g) PROVE AInv'
  <2>1. RunsCounted' /\ RecoversJobs' /\ GivesUpWhenExhausted' /\ Uploading
    BY <1>2, EnqueueKeeps
  <2> QED BY <1>1, <2>1, UploadingStep DEF AInv
<1>3. CASE \A f \in Files : Counted(f)
  <2>1. RunsCounted' /\ RecoversJobs' /\ GivesUpWhenExhausted'
    BY <1>3, RunsCountedStep, RecoversJobsStep, GivesUpStep
  <2>2. Uploading' \/ Unqueued'
    BY <1>3, UploadingStep, UnqueuedStep DEF AInv
  <2> QED BY <1>1, <2>1, <2>2 DEF AInv
<1> QED BY <1>2, <1>3, JobsCounted

LEMMA InitCounted ==
    ASSUME MaxFaults = 0, MaxRetries = 0, Init PROVE AInv
<1>1. TypeOK /\ RowsRemain
  BY InitType, NoRunFields DEF Init, RowsRemain
<1>2. Unspent
  BY DEF Init, Unspent
<1>3. Unqueued /\ GivesUpWhenExhausted
  BY DEF Init, Unqueued, GivesUpWhenExhausted, NoJob
<1>4. RunsCounted /\ NoneRetried /\ RecoversJobs
  BY NoRunFields DEF Init, RunsCounted, RunCounted, NoneRetried, NoRetry, RecoversJobs
<1> QED BY <1>1, <1>2, <1>3, <1>4 DEF AInv

------------------------------------------------------------------------------
\* Without failed statements and retries of the user, a job that queue.fail or
\* failPermanent gave up has MaxAttempts claims on its row or no source: none of them
\* decides on a copy that counts more claims than the row, whatever crashes, stalled
\* leases, second runs and recoveries there are.
THEOREM AttemptsAreUsed ==
    ASSUME MaxFaults = 0, MaxRetries = 0
    PROVE  Spec => []GivesUpWhenExhausted
<1>1. AInv => GivesUpWhenExhausted
  BY DEF AInv
<1> QED BY <1>1, InitCounted, InvariantStep, PTL DEF Spec

------------------------------------------------------------------------------
(***************************************************************************)
(* A job that was given up, with the session still there and no retry      *)
(* under way: its file is shown as an error, or a run is about to mark it, *)
(* or a second run of the file is about to complete the job.               *)
(***************************************************************************)
Settling == {"marking", "finalFlush", "finalCheckpoint", "completing"}

GivenUp(f, i) == jobs[f].status = "FAILED" /\ session[i].listed /\ retry[i][f].step = "idle"

Seen(f, i) ==
    \/ session[i].files[f] = "error"
    \/ \E w \in Workers : run[w].file = f /\ run[w].pc \in Settling

FailedIsSeen == \A f \in Files, i \in Instances : GivenUp(f, i) => Seen(f, i)

\* Before the upload there is nothing.
Untouched ==
    /\ Unqueued /\ NoneRetried
    /\ \A w \in Workers : run[w].pc = "idle"
    /\ \A i \in Instances : ~session[i].listed

Sound ==
    /\ budget.faults = 0 /\ budget.crashes = 0
    /\ \A i \in Instances : phase[i] = "up"

OneInstance == \A i, k \in Instances : i = k

FInv ==
    /\ TypeOK /\ RowsRemain /\ Sound
    /\ Uploading \/ Untouched
    /\ FailedIsSeen

------------------------------------------------------------------------------
LEMMA SoundStep == ASSUME TypeOK, Sound, [Next]_vars PROVE Sound'
<1>a. budget \in Budget
  BY DEF TypeOK
<1>1. CASE UNCHANGED vars
  BY <1>1 DEF vars, Sound
<1>2. ASSUME NEW w \in Workers, Work(w) PROVE Sound'
  <2>1. ASSUME FaultInRun(w) \/ CompleteUnaudited(w) \/ FailUnaudited(w) PROVE FALSE
    BY <2>1 DEF FaultInRun, CompleteUnaudited, FailUnaudited, Sound
  <2>2. UNCHANGED <<budget, phase>>
    BY <1>2, <2>1 DEF Work, Step, Start, SaveCheckpoint, SkipRows, ParseRows, AppendChunk,
       ReportProgress, Flush, FinalFlush, Finish, Complete, FailReads, FailWrites, RejectJob,
       MarkRunFailed, Claim
  <2> QED BY <2>2 DEF Sound
<1>3. ASSUME NEW i \in Instances, Startup(i) PROVE FALSE
  BY <1>3 DEF Startup, RecoverReads, RecoverJob, RecoverFaults, RecoverMarks, Sound
<1>4. ASSUME NEW i \in Instances, Request(i) PROVE Sound'
  <2>1. UNCHANGED phase
    BY <1>4 DEF Request, Upload, UploadFlushed, CancelLands, UploadEnqueues, procVars, RetryReads,
       RetryWrites, RetryStarts, AcceptRetry, RefuseRetry, Cancel, UploadFails
  <2>2. ASSUME NEW f \in Files, RetryStarts(i, f) PROVE Sound'
    BY <2>1, <2>2, <1>a DEF RetryStarts, Budget, Sound
  <2>3. CASE UploadFails(i)
    BY <2>3 DEF UploadFails, Sound
  <2>4. CASE Cancel(i)
    BY <2>1, <2>4, <1>a DEF Cancel, Budget, Sound
  <2>5. CASE \/ Upload(i) \/ UploadFlushed(i) \/ CancelLands(i)
             \/ \E f \in Files : \/ UploadEnqueues(i, f) \/ AcceptRetry(i, f) \/ RefuseRetry(i, f)
                                 \/ RetryReads(i, f) \/ RetryWrites(i, f)
    <3>1. UNCHANGED budget
      BY <2>5 DEF Upload, UploadFlushed, CancelLands, UploadEnqueues, procVars, AcceptRetry,
         RefuseRetry, RetryReads, RetryWrites
    <3> QED BY <2>1, <3>1 DEF Sound
  <2> QED BY <1>4, <2>2, <2>3, <2>4, <2>5 DEF Request
<1>5. CASE Environment
  <2>1. ASSUME NEW i \in Instances, ExpireSession(i) \/ CleanUpSession(i) PROVE Sound'
    BY <2>1, <1>a DEF ExpireSession, CleanUpSession, TimerDue, Budget, Sound
  <2>2. ASSUME NEW i \in Instances, Crash(i) \/ Restart(i) PROVE FALSE
    BY <2>2 DEF Crash, Restart, Sound
  <2>3. ASSUME NEW i \in Instances, NEW s \in Slots, WriteSent(i, s) \/ WriteLands(i, s) \/ WriteFails(i, s)
        PROVE  Sound'
    BY <2>3, <1>a DEF WriteSent, WriteLands, WriteFails, Sound
  <2>4. ASSUME NEW f \in Files, LeaseExpires(f) \/ RunStalls(f) \/ LoseSource(f)
        PROVE  Sound'
    BY <2>4, <1>a DEF LeaseExpires, procVars, RunStalls, LoseSource, Budget, Sound
  <2> QED BY <1>5, <2>1, <2>2, <2>3, <2>4 DEF Environment
<1> QED BY <1>1, <1>2, <1>3, <1>4, <1>5 DEF Next

\* What may happen without a failed statement and without a crash.
LEMMA SoundNext ==
    ASSUME Sound, Next
    PROVE  \/ \E w \in Workers : Step(w) \/ \E f \in Files : Claim(w, f)
           \/ \E i \in Instances :
                 \/ Upload(i) \/ UploadFlushed(i) \/ Cancel(i) \/ CancelLands(i)
                 \/ ExpireSession(i) \/ CleanUpSession(i)
                 \/ \E f \in Files : \/ UploadEnqueues(i, f)
                                     \/ RetryStarts(i, f) \/ AcceptRetry(i, f) \/ RefuseRetry(i, f)
                                     \/ RetryReads(i, f) \/ RetryWrites(i, f)
                 \/ \E s \in Slots : WriteSent(i, s) \/ WriteLands(i, s)
           \/ \E f \in Files : LeaseExpires(f) \/ RunStalls(f) \/ LoseSource(f)
<1>1. ASSUME NEW w \in Workers, Work(w) PROVE Step(w) \/ \E f \in Files : Claim(w, f)
  BY <1>1 DEF Work, FaultInRun, CompleteUnaudited, FailUnaudited, Sound
<1>2. ASSUME NEW i \in Instances, Startup(i) PROVE FALSE
  BY <1>2 DEF Startup, RecoverReads, RecoverJob, RecoverFaults, RecoverMarks, Sound
<1>3. ASSUME NEW i \in Instances, Crash(i) \/ Restart(i) \/ UploadFails(i) PROVE FALSE
  BY <1>3 DEF Crash, Restart, UploadFails, Sound
<1>4. ASSUME NEW i \in Instances, NEW s, WriteFails(i, s) PROVE FALSE
  BY <1>4 DEF WriteFails, Sound
<1> QED BY <1>1, <1>2, <1>3, <1>4 DEF Next, Request, Environment

\* Nothing happens before the upload.
LEMMA UntouchedStep == ASSUME TypeOK, Sound, Untouched, ~Uploading, [Next]_vars PROVE Uploading' \/ Untouched'
<1>1. CASE UNCHANGED vars
  BY <1>1 DEF vars, Untouched, Unqueued, NoneRetried
<1>2. ASSUME NEW w \in Workers, Step(w) PROVE FALSE
  BY <1>2 DEF Step, Start, SaveCheckpoint, SkipRows, ParseRows, AppendChunk, ReportProgress, Flush, FinalFlush, Finish,
     Complete, FailReads, FailWrites, RejectJob, MarkRunFailed, At, Untouched
<1>3. ASSUME NEW w \in Workers, NEW f \in Files, Claim(w, f) PROVE FALSE
  BY <1>3 DEF Claim, ClaimJob, Claimable, Pending, Untouched, Unqueued
<1>4. ASSUME NEW i \in Instances, Upload(i) PROVE Uploading'
  BY <1>4 DEF Upload, Uploading, TypeOK
<1>5. ASSUME NEW i \in Instances,
             UploadFlushed(i) \/ Cancel(i) \/ ExpireSession(i) \/ CleanUpSession(i) PROVE FALSE
  BY <1>5 DEF UploadFlushed, Cancel, ExpireSession, CleanUpSession, TimerDue, Untouched, Uploading
<1>6. ASSUME NEW i \in Instances, CancelLands(i) PROVE Untouched'
  <2>1. \A f \in Files : jobs'[f] = jobs[f]
    BY <1>6 DEF CancelLands, CancelJobs, Untouched, Unqueued, Unfinished, Pending
  <2> QED BY <1>6, <2>1 DEF CancelLands, Untouched, Unqueued, NoneRetried
<1>7. ASSUME NEW i \in Instances, NEW f \in Files,
             \/ UploadEnqueues(i, f)
             \/ RetryStarts(i, f) \/ AcceptRetry(i, f) \/ RefuseRetry(i, f)
             \/ RetryReads(i, f) \/ RetryWrites(i, f)
      PROVE  FALSE
  BY <1>7 DEF UploadEnqueues, RetryStarts, AcceptRetry, RefuseRetry, RetryReads, RetryWrites,
     Untouched, NoneRetried, Uploading
<1>8. ASSUME NEW i \in Instances, NEW s \in Slots, WriteLands(i, s) PROVE Untouched'
  <2>1. \A w \in Workers : run'[w].pc = run[w].pc
    <3>1. \A w \in Workers : run[w] \in Run
      BY DEF TypeOK
    <3> QED BY <1>8, <3>1 DEF WriteSent, WriteLands, WriteEnds, Run
  <2> QED BY <1>8, <2>1 DEF WriteSent, WriteLands, Untouched, Unqueued, NoneRetried
<1>11. ASSUME NEW i \in Instances, NEW s \in Slots, WriteSent(i, s) PROVE Untouched'
  BY <1>11 DEF WriteSent, Untouched, Unqueued, NoneRetried
<1>9. ASSUME NEW f \in Files, LeaseExpires(f) \/ RunStalls(f) PROVE FALSE
  BY <1>9 DEF LeaseExpires, RunStalls, LeaseRunsOut, Untouched, Unqueued
<1>10. ASSUME NEW f \in Files, LoseSource(f) PROVE Untouched'
  BY <1>10 DEF LoseSource, Untouched, Unqueued, NoneRetried
<1> QED BY <1>1, <1>2, <1>3, <1>4, <1>5, <1>6, <1>7, <1>8, <1>9, <1>10, <1>11, SoundNext

------------------------------------------------------------------------------
(* Given up and seen                                                       *)

\* Where nothing is given up anew, no file loses its error and the runs that are
\* about to settle the file still are, what was seen is seen.
Settles(f) ==
    \A w \in Workers : run[w].file = f /\ run[w].pc \in Settling
        => run'[w].file = f /\ run'[w].pc \in Settling

LEMMA SeenKept ==
    ASSUME NEW f \in Files, NEW i \in Instances, FailedIsSeen, Settles(f),
           jobs'[f].status = "FAILED" => jobs[f].status = "FAILED",
           session'[i].listed => session[i].listed,
           session[i].files[f] = "error" => session'[i].files[f] = "error",
           retry'[i][f].step = "idle" => retry[i][f].step = "idle"
    PROVE  GivenUp(f, i)' => Seen(f, i)'
BY DEF FailedIsSeen, GivenUp, Seen, Settles

\* A worker that only goes from one step to another.
LEMMA GoesOn ==
    ASSUME NEW w \in Workers, TypeOK, \A v \in Workers \ {w} : run'[v] = run[v],
           run'[w].file = run[w].file, run[w].pc \in Settling => run'[w].pc \in Settling
    PROVE  \A f \in Files : Settles(f)
BY DEF Settles

LEMMA GotoIs ==
    ASSUME NEW w \in Workers, TypeOK, NEW step, Goto(w, step)
    PROVE  /\ \A v \in Workers \ {w} : run'[v] = run[v]
           /\ run'[w].file = run[w].file /\ run'[w].pc = step
BY DEF Goto, TypeOK, Run

\* The runs that end do not settle anything.
LEMMA RunEnds ==
    ASSUME NEW w \in Workers, TypeOK, EndRun(w)
    PROVE  \A f \in Files : f # run[w].file \/ run[w].pc \notin Settling => Settles(f)
BY DEF EndRun, Settles, TypeOK

\* A file of the session fails, in the session alone.
LEMMA FileFails ==
    ASSUME TypeOK, NEW i \in Instances, NEW g \in Files, MarkFileFailed(i, g)
    PROVE  /\ session'[i].listed => session'[i].files[g] = "error"
           /\ \A k \in Instances, f \in Files :
                 /\ session'[k].listed = session[k].listed
                 /\ session[k].files[f] = "error" => session'[k].files[f] = "error"
<1>. DEFINE files == [session[i].files EXCEPT ![g] = "error"]
            ses == FailedSession(session[i], files)
<1>1. session[i] \in Session /\ session \in [Instances -> Session]
  BY DEF TypeOK
<1>2. files[g] = "error" /\ \A f \in Files : session[i].files[f] = "error" => files[f] = "error"
  BY <1>1 DEF Session
<1>3. /\ ses.listed = session[i].listed
      /\ ses.files = IF session[i].listed THEN files ELSE session[i].files
  BY <1>1 DEF FailedSession, Session
<1>4. session' = [session EXCEPT ![i] = ses]
  BY DEF MarkFileFailed, MarkFailed
<1>. HIDE DEF files, ses
<1>. QED
  BY <1>1, <1>2, <1>3, <1>4

LEMMA SessionFails ==
    ASSUME TypeOK, NEW i \in Instances, MarkFailed(i, session[i].files)
    PROVE  \A k \in Instances, f \in Files :
               /\ session'[k].listed = session[k].listed
               /\ session'[k].files[f] = session[k].files[f]
<1>. DEFINE ses == FailedSession(session[i], session[i].files)
<1>1. session[i] \in Session /\ session \in [Instances -> Session]
  BY DEF TypeOK
<1>2. ses.listed = session[i].listed /\ ses.files = session[i].files
  BY <1>1 DEF FailedSession, Session
<1>3. session' = [session EXCEPT ![i] = ses]
  BY DEF MarkFailed
<1>. HIDE DEF ses
<1>. QED
  BY <1>1, <1>2, <1>3

\* What a step of a run leaves behind is seen.
LEMMA RunSeen ==
    ASSUME FInv, OneInstance, NEW w \in Workers, Step(w),
           NEW f \in Files, NEW i \in Instances
    PROVE  GivenUp(f, i)' => Seen(f, i)'
<1>. DEFINE g == run[w].file
<1>a. /\ TypeOK /\ FailedIsSeen
      /\ jobs \in [Files -> JobRow] /\ session \in [Instances -> Session]
      /\ run \in [Workers -> Run] /\ g \in Files /\ HostOf[w] \in Instances
      /\ i = HostOf[w]
  BY ProcessingAssumption DEF FInv, TypeOK, Run, OneInstance
<1>. DEFINE SameJob == jobs'[f].status = jobs[f].status
            SameSession == session'[i].listed = session[i].listed /\ session'[i].files[f] = session[i].files[f]
<1>1. ASSUME UNCHANGED <<jobs, session, retry>>, NEW step, Goto(w, step),
             run[w].pc \in Settling => step \in Settling
      PROVE  GivenUp(f, i)' => Seen(f, i)'
  <2>1. Settles(f)
    BY <1>a, <1>1, GotoIs, GoesOn
  <2>. QED
    BY <1>a, <1>1, <2>1, SeenKept
<1>2. CASE Start(w)
  <2>1. UNCHANGED <<jobs, session, retry>> /\ run[w].pc = "starting"
    BY <1>2 DEF Start, At
  <2>2. ASSUME NEW n, run' = [run EXCEPT ![w] = [@ EXCEPT !.pc = "opening", !.mark = n]]
        PROVE  GivenUp(f, i)' => Seen(f, i)'
    <3>1. Settles(f)
      BY <1>a, <2>1, <2>2, GoesOn DEF Run, Settling
    <3>. QED
      BY <1>a, <2>1, <3>1, SeenKept
  <2>. QED
    BY <1>1, <1>2, <2>1, <2>2 DEF Start, Settling
<1>3. ASSUME NEW from, NEW to, SaveCheckpoint(w, from, to), from \in Settling => to \in Settling
      PROVE  GivenUp(f, i)' => Seen(f, i)'
  <2>1. SameJob /\ UNCHANGED <<session, retry>>
    BY <1>3, <1>a DEF SaveCheckpoint, CheckpointJob, JobRow
  <2>2. Settles(f)
    BY <1>3, <1>a, GotoIs, GoesOn DEF SaveCheckpoint, At
  <2>. QED
    BY <1>a, <2>1, <2>2, SeenKept
<1>4. CASE ParseRows(w)
  BY <1>1, <1>4 DEF ParseRows, At, Settling
<1>5. ASSUME NEW from, NEW to, Flush(w, from, to), from \in Settling => to \in Settling
      PROVE  GivenUp(f, i)' => Seen(f, i)'
  BY <1>1, <1>5 DEF Flush, At
<1>14. CASE SkipRows(w)
  BY <1>1, <1>14 DEF SkipRows, At, Settling
<1>15. CASE FinalFlush(w)
  BY <1>1, <1>15 DEF FinalFlush, Settling
<1>6. CASE AppendChunk(w)
  <2>1. UNCHANGED <<jobs, session, retry>> /\ run[w].pc = "appending"
    BY <1>6 DEF AppendChunk, At
  <2>2. Settles(f)
    BY <1>a, <1>6, <2>1, GoesOn DEF AppendChunk, Run, Settling
  <2>. QED
    BY <1>a, <2>1, <2>2, SeenKept
<1>7. CASE ReportProgress(w)
  <2>1. UNCHANGED <<jobs, retry>> /\ run[w].pc = "reporting"
    BY <1>7 DEF ReportProgress, At
  <2>2. SameSession
    BY <1>a, <1>7 DEF ReportProgress, Session
  <2>3. Settles(f)
    BY <1>a, <1>7, <2>1, GoesOn DEF ReportProgress, Run, Settling
  <2>. QED
    BY <1>a, <2>1, <2>2, <2>3, SeenKept
<1>8. CASE Finish(w)
  <2>1. UNCHANGED <<jobs, retry>> /\ run[w].pc = "finishing"
    BY <1>8 DEF Finish, At
  <2>2. /\ \A v \in Workers \ {w} : run'[v] = run[v]
        /\ run'[w].file = g /\ run'[w].pc = "finalFlush"
    <3>1. PICK l : run' = [run EXCEPT ![w] = [run[w] EXCEPT !.pc = "finalFlush",
                     !.mark = NumChunks, !.awaits = UnderWay(HostOf[w])', !.last = l]]
      BY <1>8 DEF Finish
    <3>. QED
      BY <1>a, <3>1 DEF Run
  <2>3. Settles(f)
    BY <1>a, <2>1, <2>2, GoesOn DEF Settling
  <2>4. CASE f = g
    BY <2>2, <2>4 DEF Seen, Settling
  <2>5. CASE f # g
    <3>1. SameSession
      BY <1>a, <1>8, <2>5 DEF Finish, Session
    <3>. QED
      BY <1>a, <2>1, <2>3, <3>1, SeenKept
  <2>. QED
    BY <2>4, <2>5
<1>9. CASE Complete(w)
  <2>1. UNCHANGED <<session, retry>> /\ jobs'[g].status = "COMPLETED"
        /\ \A h \in Files \ {g} : jobs'[h] = jobs[h]
    BY <1>a, <1>9 DEF Complete, CompleteJob, JobRow
  <2>2. CASE f = g
    BY <2>1, <2>2 DEF GivenUp
  <2>3. CASE f # g
    <3>1. Settles(f)
      BY <1>a, <1>9, <2>3, RunEnds DEF Complete
    <3>. QED
      BY <1>a, <2>1, <2>3, <3>1, SeenKept
  <2>. QED
    BY <2>2, <2>3
<1>10. CASE FailReads(w)
  BY <1>1, <1>10 DEF FailReads, At, Settling
<1>11. CASE FailWrites(w) \/ RejectJob(w)
  <2>1. UNCHANGED <<session, retry>> /\ \A h \in Files \ {g} : jobs'[h] = jobs[h]
    BY <1>a, <1>11 DEF FailWrites, RescheduleJob, RejectJob, FailJobPermanently
  <2>2. /\ \A v \in Workers \ {w} : run'[v] = run[v]
        /\ run'[w].file = g /\ run'[w].pc = "marking"
    BY <1>a, <1>11, GotoIs DEF FailWrites, RejectJob
  <2>3. Settles(f)
    BY <1>a, <2>2, GoesOn DEF Settling
  <2>4. CASE f = g
    BY <2>2, <2>4 DEF Seen, Settling
  <2>5. CASE f # g
    BY <1>a, <2>1, <2>3, <2>5, SeenKept
  <2>. QED
    BY <2>4, <2>5
<1>12. CASE MarkRunFailed(w)
  <2>1. UNCHANGED <<jobs, retry>> /\ MarkFileFailed(i, g) /\ EndRun(w)
    BY <1>a, <1>12 DEF MarkRunFailed
  <2>2. /\ session'[i].listed => session'[i].files[g] = "error"
        /\ session'[i].listed = session[i].listed
        /\ session[i].files[f] = "error" => session'[i].files[f] = "error"
    BY <1>a, <2>1, FileFails
  <2>3. CASE f = g
    BY <2>2, <2>3 DEF GivenUp, Seen
  <2>4. CASE f # g
    <3>1. Settles(f)
      BY <1>a, <2>1, <2>4, RunEnds
    <3>. QED
      BY <1>a, <2>1, <2>2, <3>1, SeenKept
  <2>. QED
    BY <2>3, <2>4
<1>13. /\ "opening" \notin Settling /\ "checkpointing" \notin Settling /\ "flushing" \notin Settling
       /\ "finalCheckpoint" \in Settling /\ "completing" \in Settling
  BY DEF Settling
<1>. QED
  BY <1>2, <1>3, <1>4, <1>5, <1>6, <1>7, <1>8, <1>9, <1>10, <1>11, <1>12, <1>13, <1>14, <1>15 DEF Step

LEMMA RequestSeen ==
    ASSUME FInv, OneInstance, NEW k \in Instances, NEW f \in Files, NEW i \in Instances,
           \/ Upload(k) \/ UploadFlushed(k) \/ Cancel(k) \/ CancelLands(k)
           \/ ExpireSession(k) \/ CleanUpSession(k)
           \/ \E g \in Files : \/ UploadEnqueues(k, g)
                               \/ RetryStarts(k, g) \/ AcceptRetry(k, g) \/ RefuseRetry(k, g)
                               \/ RetryReads(k, g) \/ RetryWrites(k, g)
    PROVE  GivenUp(f, i)' => Seen(f, i)'
<1>a. /\ TypeOK /\ FailedIsSeen /\ jobs \in [Files -> JobRow] /\ session \in [Instances -> Session]
      /\ retry \in [Instances -> [Files -> [step : {"idle", "checking", "reading", "writing"}, row : JobRow]]]
      /\ i = k
  BY DEF FInv, TypeOK, OneInstance
<1>b. UNCHANGED run => Settles(f)
  BY DEF Settles
<1>1. CASE Upload(k)
  <2>1. Untouched /\ UNCHANGED jobs
    BY <1>1 DEF Upload, FInv, Uploading
  <2>. QED
    BY <2>1 DEF GivenUp, Untouched, Unqueued
<1>2. CASE UploadFlushed(k)
  BY <1>a, <1>b, <1>2, SeenKept DEF UploadFlushed
<1>3. CASE Cancel(k)
  <2>1. UNCHANGED <<jobs, retry, run>>
    BY <1>3 DEF Cancel
  <2>2. session'[i].listed = session[i].listed /\ session'[i].files = session[i].files
    BY <1>a, <1>3 DEF Cancel, Session
  <2>. QED
    BY <1>a, <1>b, <2>1, <2>2, SeenKept
<1>4. CASE CancelLands(k)
  <2>1. UNCHANGED <<session, retry, run>>
    BY <1>4 DEF CancelLands
  <2>2. jobs'[f].status = "FAILED" => jobs[f].status = "FAILED"
    BY <1>a, <1>4 DEF CancelLands, CancelJobs, JobRow
  <2>. QED
    BY <1>a, <1>b, <2>1, <2>2, SeenKept
<1>5. CASE ExpireSession(k)
  <2>1. UNCHANGED <<jobs, retry, run>> /\ MarkFailed(k, session[k].files)
    BY <1>5 DEF ExpireSession
  <2>. QED
    BY <1>a, <1>b, <2>1, SessionFails, SeenKept
<1>6. CASE CleanUpSession(k)
  <2>1. ~session'[i].listed
    BY <1>a, <1>6 DEF CleanUpSession, Session
  <2>. QED
    BY <2>1 DEF GivenUp
<1>7. ASSUME NEW g \in Files, UploadEnqueues(k, g) PROVE GivenUp(f, i)' => Seen(f, i)'
  <2>1. UNCHANGED <<session, retry, run>>
    BY <1>7 DEF UploadEnqueues, procVars
  <2>2. jobs'[f].status = "FAILED" => jobs[f].status = "FAILED"
    BY <1>a, <1>7 DEF UploadEnqueues, EnqueueJob, NoJob
  <2>. QED
    BY <1>a, <1>b, <2>1, <2>2, SeenKept
<1>12. ASSUME NEW g \in Files, RetryStarts(k, g) PROVE GivenUp(f, i)' => Seen(f, i)'
  <2>1. UNCHANGED <<jobs, run, session>>
    BY <1>12 DEF RetryStarts
  <2>2. retry'[i][f].step = "idle" => retry[i][f].step = "idle"
    BY <1>a, <1>12 DEF RetryStarts
  <2>. QED
    BY <1>a, <1>b, <2>1, <2>2, SeenKept
<1>8. ASSUME NEW g \in Files, AcceptRetry(k, g) PROVE GivenUp(f, i)' => Seen(f, i)'
  <2>1. UNCHANGED <<jobs, run>>
    BY <1>8 DEF AcceptRetry
  <2>2. CASE f = g
    <3>1. retry'[i][f].step = "reading"
      BY <1>a, <1>8, <2>2 DEF AcceptRetry
    <3>. QED
      BY <3>1 DEF GivenUp
  <2>3. CASE f # g
    <3>1. retry'[i][f] = retry[i][f]
      BY <1>a, <1>8, <2>3 DEF AcceptRetry
    <3>2. session'[i].listed = session[i].listed /\ session'[i].files[f] = session[i].files[f]
      BY <1>a, <1>8, <2>3 DEF AcceptRetry, Session
    <3>. QED
      BY <1>a, <1>b, <2>1, <3>1, <3>2, SeenKept
  <2>. QED
    BY <2>2, <2>3
<1>9. ASSUME NEW g \in Files, RefuseRetry(k, g) PROVE GivenUp(f, i)' => Seen(f, i)'
  <2>1. UNCHANGED <<jobs, run>> /\ MarkFileFailed(i, g)
    BY <1>a, <1>9 DEF RefuseRetry
  <2>2. /\ session'[i].listed => session'[i].files[g] = "error"
        /\ session'[i].listed = session[i].listed
        /\ session[i].files[f] = "error" => session'[i].files[f] = "error"
    BY <1>a, <2>1, FileFails
  <2>3. CASE f = g
    BY <2>2, <2>3 DEF GivenUp, Seen
  <2>4. CASE f # g
    <3>1. retry'[i][f] = retry[i][f]
      BY <1>a, <1>9, <2>4 DEF RefuseRetry
    <3>. QED
      BY <1>a, <1>b, <2>1, <2>2, <3>1, SeenKept
  <2>. QED
    BY <2>3, <2>4
<1>10. ASSUME NEW g \in Files, RetryReads(k, g) PROVE GivenUp(f, i)' => Seen(f, i)'
  <2>1. UNCHANGED <<jobs, session, run>>
    BY <1>10 DEF RetryReads
  <2>2. retry'[i][f].step = "idle" => retry[i][f].step = "idle"
    BY <1>a, <1>10 DEF RetryReads
  <2>. QED
    BY <1>a, <1>b, <2>1, <2>2, SeenKept
<1>11. ASSUME NEW g \in Files, RetryWrites(k, g) PROVE GivenUp(f, i)' => Seen(f, i)'
  <2>1. UNCHANGED <<session, run>>
    BY <1>11 DEF RetryWrites
  <2>2. CASE f = g
    <3>1. retry[k][g].row \in JobRow
      BY <1>a
    <3>2. jobs'[f].status = "QUEUED"
      BY <1>a, <1>11, <2>2, <3>1 DEF RetryWrites, SaveRetried, JobRow
    <3>. QED
      BY <3>2 DEF GivenUp
  <2>3. CASE f # g
    <3>1. retry'[i][f] = retry[i][f] /\ jobs'[f] = jobs[f]
      BY <1>a, <1>11, <2>3 DEF RetryWrites, SaveRetried
    <3>. QED
      BY <1>a, <1>b, <2>1, <3>1, SeenKept
  <2>. QED
    BY <2>2, <2>3
<1>. QED
  BY <1>1, <1>2, <1>3, <1>4, <1>5, <1>6, <1>7, <1>8, <1>9, <1>10, <1>11, <1>12

LEMMA SeenStep == ASSUME FInv, OneInstance, [Next]_vars PROVE FailedIsSeen'
<1>. SUFFICES ASSUME NEW f \in Files, NEW i \in Instances PROVE GivenUp(f, i)' => Seen(f, i)'
  BY DEF FailedIsSeen
<1>a. /\ TypeOK /\ Sound /\ FailedIsSeen /\ jobs \in [Files -> JobRow] /\ run \in [Workers -> Run]
  BY DEF FInv, TypeOK
<1>1. CASE UNCHANGED vars
  <2>1. UNCHANGED <<jobs, session, retry, run>>
    BY <1>1 DEF vars
  <2>. QED
    BY <1>a, <2>1, SeenKept DEF Settles
<1>2. ASSUME NEW w \in Workers, NEW g \in Files, Claim(w, g) PROVE GivenUp(f, i)' => Seen(f, i)'
  <2>1. UNCHANGED <<session, retry>> /\ run[w].pc = "idle"
    BY <1>2 DEF Claim, At
  <2>2. jobs'[f].status = "FAILED" => jobs[f].status = "FAILED"
    BY <1>a, <1>2 DEF Claim, ClaimJob, JobRow
  <2>3. Settles(f)
    BY <1>a, <1>2, <2>1 DEF Claim, Settles, Settling
  <2>. QED
    BY <1>a, <2>1, <2>2, <2>3, SeenKept
<1>3. ASSUME NEW k \in Instances, NEW s \in Slots, WriteLands(k, s) PROVE GivenUp(f, i)' => Seen(f, i)'
  <2>1. UNCHANGED <<jobs, session, retry>>
    BY <1>3 DEF WriteLands
  <2>2. \A w \in Workers : run'[w].pc = run[w].pc /\ run'[w].file = run[w].file
    <3>1. \A r \in Run : LET q == [r EXCEPT !.awaits = @ \ {s}] IN q.pc = r.pc /\ q.file = r.file
      BY DEF Run
    <3>2. \A w \in Workers : run[w] \in Run
      BY <1>a
    <3>3. \A w \in Workers : run'[w] = run[w] \/ run'[w] = [run[w] EXCEPT !.awaits = @ \ {s}]
      BY <1>3 DEF WriteSent, WriteLands, WriteEnds
    <3>. QED
      BY <3>1, <3>2, <3>3
  <2>. QED
    BY <1>a, <2>1, <2>2, SeenKept DEF Settles
<1>4. ASSUME NEW g \in Files, LeaseExpires(g) \/ RunStalls(g) \/ LoseSource(g)
      PROVE  GivenUp(f, i)' => Seen(f, i)'
  <2>1. UNCHANGED <<session, retry, run>>
    BY <1>4 DEF LeaseExpires, procVars, RunStalls, LoseSource
  <2>2. jobs'[f].status = jobs[f].status
    BY <1>a, <1>4 DEF LeaseExpires, RunStalls, LoseSource, LeaseRunsOut, JobRow
  <2>. QED
    BY <1>a, <2>1, <2>2, SeenKept DEF Settles
<1>5. ASSUME NEW k \in Instances, NEW s \in Slots, WriteSent(k, s) PROVE GivenUp(f, i)' => Seen(f, i)'
  <2>1. UNCHANGED <<jobs, session, retry, run>>
    BY <1>5 DEF WriteSent
  <2>. QED
    BY <1>a, <2>1, SeenKept DEF Settles
<1>. QED
  BY <1>a, <1>1, <1>2, <1>3, <1>4, <1>5, SoundNext, RunSeen, RequestSeen

LEMMA FailedStep == ASSUME FInv, OneInstance, [Next]_vars PROVE FInv'
<1>1. TypeOK' /\ RowsRemain' /\ Sound' /\ FailedIsSeen'
  BY NextType, PositionStep, SoundStep, SeenStep DEF FInv
<1>2. Uploading' \/ Untouched'
  BY UploadingStep, UntouchedStep DEF FInv
<1>. QED
  BY <1>1, <1>2 DEF FInv

LEMMA FailedStart == ASSUME MaxFaults = 0, MaxCrashes = 0, Init PROVE FInv
<1>1. TypeOK /\ RowsRemain
  BY InitType, NoRunFields DEF Init, RowsRemain
<1>2. Sound
  BY DEF Init, Sound
<1>3. Untouched /\ FailedIsSeen
  BY NoRunFields DEF Init, Untouched, Unqueued, NoneRetried, NoJob, NoSession, NoRetry, FailedIsSeen, GivenUp
<1>. QED
  BY <1>1, <1>2, <1>3 DEF FInv

------------------------------------------------------------------------------
\* Where no statement fails and the one backend does not crash, the file of a job that
\* was given up is shown as an error once nobody is at work, so that the user may retry
\* it: whatever leases stall and whatever the user retries, cancels or lets expire.
THEOREM FailedFilesAreRetriable ==
    ASSUME MaxFaults = 0, MaxCrashes = 0, OneInstance
    PROVE  Spec => []FailedIsRetriable
<1>1. FInv => FailedIsRetriable
  BY DEF FInv, FailedIsSeen, GivenUp, Seen, Settling, FailedIsRetriable, Quiet
<1>. QED
  BY <1>1, FailedStart, FailedStep, PTL DEF Spec

------------------------------------------------------------------------------
(* A finished import is shown finished, in one instance that may crash and  *)
(* restart at any point and works on one file at a time.                    *)

\* A run that has inspected its file; one whose flush has also written it.
Ending == {"finalFlush", "finalCheckpoint", "completing"}

Landed(w) == \/ run[w].pc = "finalFlush" /\ run[w].awaits = {}
             \/ run[w].pc \in {"finalCheckpoint", "completing"}

\* A file that neither its job nor a run reports finished to the session, and
\* to the snapshot.
Open(f) ==
    /\ jobs[f].status # "COMPLETED"
    /\ \A w \in Workers : run[w].file = f => run[w].pc \notin Ending

Unsaved(f) ==
    /\ jobs[f].status # "COMPLETED"
    /\ \A w \in Workers : run[w].file = f => ~Landed(w)

\* A session that nothing has gone wrong in.
Plain(s) ==
    /\ ~s.cancelled /\ s.status \in {"parsing", "completed"}
    /\ \A f \in Files : /\ s.files[f] # "error"
                        /\ jobs[f].status = "COMPLETED" => s.files[f] = "inspected"

JobsCalm ==
    \A f \in Files : /\ jobs[f].status \in {"NONE", "QUEUED", "PROCESSING", "COMPLETED"}
                     /\ jobs[f].status # "NONE" => saved.session.listed

\* A run that has reported to the session and waits for the snapshot.
Awaiting(w) == run[w].pc \in {"checkpointing", "flushing", "finalFlush"}

\* At most one write is under way: that of the upload, or one that the run waits
\* for.  The session stays as it was when the write was sent.
WritesCalm(i) ==
    /\ \A s, t \in UnderWay(i) : s = t
    /\ \A s \in UnderWay(i) :
          /\ ~writes[i][s].cancelled
          /\ writes[i][s].step = "sent" => writes[i][s].session = session[i]
    /\ UnderWay(i) # {} =>
          /\ session[i].listed
          /\ \/ ~saved.session.listed
             \/ \E w \in Workers : Awaiting(w) /\ UnderWay(i) \subseteq run[w].awaits

InstanceCalm(i) ==
    /\ session[i].listed => source = Files
    /\ saved.session.listed => source = Files
    /\ phase[i] = "up" /\ saved.session.listed => session[i].listed
    /\ phase[i] \in {"starting", "recovering"} => session[i].listed /\ saved.session.listed
    /\ phase[i] = "down" => ~session[i].listed
    /\ upload[i] = "flushing" => UnderWay(i) # {} \/ saved.session.listed
    /\ upload[i] = "enqueueing" => saved.session.listed
    /\ \A f \in Files : retry[i][f].step = "idle" /\ recovery[i][f] # "mark"

\* Shown completed, or not finished.
SavedCalm ==
    /\ ~saved.cancelled
    /\ saved.session.listed =>
          /\ Plain(saved.session)
          /\ saved.session.status = "completed" \/ \E f \in Files : Unsaved(f)

SessionCalm(i) ==
    session[i].listed =>
        /\ Plain(session[i])
        /\ session[i].status = "completed" \/ \E f \in Files : Open(f)

\* A run holds the lease of its job and has the session at hand.
RunCalm(w) ==
    run[w].pc # "idle" =>
        /\ run[w].pc \notin {"failing", "rescheduling", "rejecting", "marking"}
        /\ Up(HostOf[w]) /\ session[HostOf[w]].listed
        /\ jobs[run[w].file].status = "PROCESSING" /\ ~jobs[run[w].file].stale
        /\ run[w].pc \in Ending => session[HostOf[w]].files[run[w].file] = "inspected"
        /\ Landed(w) => saved.session.files[run[w].file] = "inspected"

RunsAlone ==
    \A v, w \in Workers : run[v].pc # "idle" /\ run[w].pc # "idle" => v = w

\* One file, or one worker.
OneAtATime == (\A f, g \in Files : f = g) \/ (\A v, w \in Workers : v = w)

Calm ==
    /\ JobsCalm /\ SavedCalm /\ RunsAlone
    /\ \A i \in Instances : InstanceCalm(i) /\ WritesCalm(i) /\ SessionCalm(i)
    /\ \A w \in Workers : RunCalm(w)

Spared ==
    /\ budget.faults = 0 /\ budget.stalls = 0 /\ budget.losses = 0 /\ budget.cancels = 0
    /\ budget.timers <= MaxTimers /\ cancelling = {}

CInv ==
    /\ TypeOK /\ RowsRemain /\ Spared
    /\ budget.timers = MaxTimers => Calm

------------------------------------------------------------------------------
LEMMA SparedStep == ASSUME TypeOK, Spared, [Next]_vars PROVE Spared'
<1>a. budget \in Budget /\ MaxTimers \in Nat
  BY ProcessingAssumption DEF TypeOK
<1>1. CASE UNCHANGED vars
  BY <1>1 DEF vars, Spared
<1>2. ASSUME NEW w \in Workers, Work(w) PROVE Spared'
  <2>1. ASSUME FaultInRun(w) \/ CompleteUnaudited(w) \/ FailUnaudited(w) PROVE FALSE
    BY <2>1 DEF FaultInRun, CompleteUnaudited, FailUnaudited, Spared
  <2>2. UNCHANGED <<budget, cancelling>>
    BY <1>2, <2>1 DEF Work, Step, Start, SaveCheckpoint, SkipRows, ParseRows, AppendChunk,
       ReportProgress, Flush, FinalFlush, Finish, Complete, FailReads, FailWrites, RejectJob,
       MarkRunFailed, Claim
  <2> QED BY <2>2 DEF Spared
<1>3. ASSUME NEW i \in Instances, Startup(i) PROVE Spared'
  <2>1. ASSUME NEW f \in Files, RecoverFaults(i, f) PROVE FALSE
    BY <2>1 DEF RecoverFaults, Spared
  <2>2. UNCHANGED <<budget, cancelling>>
    BY <1>3, <2>1 DEF Startup, RecoverReads, RecoverJob, RecoverMarks
  <2> QED BY <2>2 DEF Spared
<1>4. ASSUME NEW i \in Instances, Request(i) PROVE Spared'
  <2>1. ASSUME UploadFails(i) \/ Cancel(i) PROVE FALSE
    BY <2>1 DEF UploadFails, Cancel, Spared
  <2>2. ASSUME NEW f \in Files, RetryStarts(i, f) PROVE Spared'
    <3>1. budget' = [budget EXCEPT !.retries = @ - 1] /\ UNCHANGED cancelling
      BY <2>2 DEF RetryStarts
    <3> QED BY <1>a, <3>1 DEF Budget, Spared
  <2>3. CASE CancelLands(i)
    BY <2>3 DEF CancelLands, Spared
  <2>4. CASE \/ Upload(i) \/ UploadFlushed(i)
             \/ \E f \in Files : \/ UploadEnqueues(i, f) \/ AcceptRetry(i, f) \/ RefuseRetry(i, f)
                                 \/ RetryReads(i, f) \/ RetryWrites(i, f)
    <3>1. UNCHANGED <<budget, cancelling>>
      BY <2>4 DEF Upload, UploadFlushed, UploadEnqueues, procVars, AcceptRetry, RefuseRetry,
         RetryReads, RetryWrites
    <3> QED BY <3>1 DEF Spared
  <2> QED BY <1>4, <2>1, <2>2, <2>3, <2>4 DEF Request
<1>5. CASE Environment
  <2>1. ASSUME NEW i \in Instances, ExpireSession(i) \/ CleanUpSession(i) PROVE Spared'
    BY <2>1, <1>a DEF ExpireSession, CleanUpSession, TimerDue, Budget, Spared
  <2>2. ASSUME NEW i \in Instances, Crash(i) PROVE Spared'
    BY <2>2, <1>a DEF Crash, Budget, Spared
  <2>3. ASSUME NEW i \in Instances, Restart(i) PROVE Spared'
    <3>1. UNCHANGED cancelling
      BY <2>3 DEF Restart
    <3>2. budget' = budget \/ budget' = [budget EXCEPT !.timers = @ - 1]
      BY <2>3 DEF Restart
    <3> QED BY <1>a, <3>1, <3>2 DEF Budget, Spared
  <2>4. ASSUME NEW i \in Instances, NEW s \in Slots, WriteSent(i, s) \/ WriteLands(i, s) \/ WriteFails(i, s)
        PROVE  Spared'
    BY <2>4, <1>a DEF WriteSent, WriteLands, WriteFails, Spared
  <2>5. ASSUME NEW f \in Files, LeaseExpires(f) \/ RunStalls(f) \/ LoseSource(f)
        PROVE  Spared'
    BY <2>5, <1>a DEF LeaseExpires, procVars, RunStalls, LoseSource, Spared
  <2> QED BY <1>5, <2>1, <2>2, <2>3, <2>4, <2>5 DEF Environment
<1> QED BY <1>1, <1>2, <1>3, <1>4, <1>5 DEF Next

\* A timer that has fired stays counted.
LEMMA TimersAreSpent ==
    ASSUME TypeOK, Spared, [Next]_vars, budget'.timers = MaxTimers
    PROVE  /\ budget.timers = MaxTimers
           /\ \A i \in Instances : /\ ~ExpireSession(i) /\ ~CleanUpSession(i)
                                   /\ Restart(i) => UNCHANGED budget
<1>a. budget \in Budget /\ MaxTimers \in Nat
  BY ProcessingAssumption DEF TypeOK
<1>. DEFINE Others == {"faults", "crashes", "retries", "stalls", "losses", "cancels"}
            Spends == \/ budget' = budget
                      \/ \E k \in Others : budget' = [budget EXCEPT ![k] = @ - 1]
                      \/ budget' = [budget EXCEPT !.timers = @ - 1]
<1>1. Spends
  <2>1. budget' = [budget EXCEPT !.faults = @ - 1] => Spends
    OBVIOUS
  <2>2. budget' = [budget EXCEPT !.crashes = @ - 1] => Spends
    OBVIOUS
  <2>3. budget' = [budget EXCEPT !.retries = @ - 1] => Spends
    OBVIOUS
  <2>4. budget' = [budget EXCEPT !.stalls = @ - 1] => Spends
    OBVIOUS
  <2>5. budget' = [budget EXCEPT !.losses = @ - 1] => Spends
    OBVIOUS
  <2>6. budget' = [budget EXCEPT !.cancels = @ - 1] => Spends
    OBVIOUS
  <2>7. budget' = budget => Spends
    OBVIOUS
  <2>8. budget' = [budget EXCEPT !.timers = @ - 1] => Spends
    OBVIOUS
  <2>. HIDE DEF Spends
  <2>9. UNCHANGED vars => Spends
    BY <2>7 DEF vars
  <2>10. ASSUME NEW w \in Workers, Work(w) PROVE Spends
    BY <2>1, <2>7, <2>10 DEF Work, Step, Start, SaveCheckpoint, SkipRows, ParseRows, AppendChunk,
       ReportProgress, Flush, FinalFlush, Finish, Complete, FailReads, FailWrites, RejectJob,
       MarkRunFailed, Claim, FaultInRun, CompleteUnaudited, FailUnaudited
  <2>11. ASSUME NEW i \in Instances, Startup(i) PROVE Spends
    BY <2>1, <2>7, <2>11 DEF Startup, RecoverReads, RecoverJob, RecoverMarks, RecoverFaults
  <2>12. ASSUME NEW i \in Instances, Request(i) PROVE Spends
    BY <2>1, <2>3, <2>6, <2>7, <2>12 DEF Request, Upload, UploadFlushed, UploadEnqueues, procVars,
       RetryReads, RetryWrites, RetryStarts, AcceptRetry, RefuseRetry, Cancel, CancelLands,
       UploadFails
  <2>13. CASE Environment
    <3>1. ASSUME NEW i \in Instances, Restart(i) PROVE Spends
      BY <2>7, <2>8, <3>1 DEF Restart
    <3>. QED
      BY <2>1, <2>2, <2>4, <2>5, <2>7, <2>8, <2>13, <3>1 DEF Environment, ExpireSession, CleanUpSession,
         TimerDue, Crash, WriteSent, WriteLands, WriteFails, LeaseExpires, procVars, RunStalls, LoseSource
  <2>. QED
    BY <2>9, <2>10, <2>11, <2>12, <2>13 DEF Next
<1>2. budget.timers = MaxTimers
  BY <1>a, <1>1 DEF Budget, Spared
<1>3. budget' # [budget EXCEPT !.timers = @ - 1]
  BY <1>a, <1>2 DEF Budget
<1>4. ASSUME NEW i \in Instances PROVE ~ExpireSession(i) /\ ~CleanUpSession(i)
  BY <1>3 DEF ExpireSession, CleanUpSession, TimerDue
<1>5. ASSUME NEW i \in Instances, Restart(i) PROVE UNCHANGED budget
  BY <1>3, <1>5 DEF Restart
<1>. QED
  BY <1>2, <1>4, <1>5

------------------------------------------------------------------------------
(* What may happen while nothing has gone wrong                            *)

LEMMA CalmNext ==
    ASSUME TypeOK, Spared, Calm, OneInstance, Next, budget'.timers = MaxTimers
    PROVE  \/ \E w \in Workers :
                 \/ Start(w) /\ run'[w].pc = "opening"
                 \/ SaveCheckpoint(w, "opening", "skipping")
                 \/ SkipRows(w) /\ run'[w].pc # "failing"
                 \/ ParseRows(w) /\ run'[w].pc # "failing"
                 \/ AppendChunk(w)
                 \/ ReportProgress(w)
                 \/ SaveCheckpoint(w, "checkpointing", "flushing")
                 \/ Flush(w, "flushing", "parsing")
                 \/ Finish(w)
                 \/ FinalFlush(w)
                 \/ SaveCheckpoint(w, "finalCheckpoint", "completing")
                 \/ Complete(w)
                 \/ \E f \in Files : Claim(w, f)
           \/ \E i \in Instances :
                 \/ RecoverReads(i) /\ UNCHANGED <<session, writes>>
                 \/ \E f \in Files : RecoverJob(i, f) /\ RequeueJob(f) /\ Recovered(i, f)
                 \/ Upload(i) \/ UploadFlushed(i)
                 \/ \E f \in Files : UploadEnqueues(i, f)
                 \/ Crash(i)
                 \/ Restart(i) /\ UNCHANGED budget
                 \/ \E s \in Slots : WriteSent(i, s) \/ WriteLands(i, s)
           \/ \E f \in Files : LeaseExpires(f)
<1>a. /\ run \in [Workers -> Run] /\ session \in [Instances -> Session]
      /\ HostOf \in [Workers -> Instances]
  BY ProcessingAssumption DEF TypeOK
<1>1. ASSUME NEW w \in Workers, Start(w) PROVE run'[w].pc = "opening"
  <2>1. At(w, "starting") /\ run[w].pc = "starting" /\ RunCalm(w)
    BY <1>1 DEF Start, At, Calm
  <2>2. /\ session[HostOf[w]].listed /\ InstanceCalm(HostOf[w]) /\ SessionCalm(HostOf[w])
        /\ run[w].file \in Files
    BY <1>a, <2>1 DEF RunCalm, Calm, Run
  <2>3. ~session[HostOf[w]].cancelled /\ run[w].file \in source
    BY <2>2 DEF SessionCalm, InstanceCalm, Plain
  <2>4. run' = [run EXCEPT ![w] = [@ EXCEPT !.pc = "opening", !.mark = session[HostOf[w]].rows[run[w].file]]]
    BY <1>1, <2>2, <2>3 DEF Start
  <2>. QED
    BY <1>a, <2>4 DEF Run
<1>2. ASSUME NEW w \in Workers, SkipRows(w) \/ ParseRows(w) PROVE run'[w].pc # "failing"
  <2>1. run[w].pc \in {"skipping", "parsing"} /\ RunCalm(w)
    BY <1>2 DEF SkipRows, ParseRows, At, Calm
  <2>2. session[HostOf[w]].listed /\ SessionCalm(HostOf[w])
    BY <1>a, <2>1 DEF RunCalm, Calm
  <2>3. ~session[HostOf[w]].cancelled
    BY <2>2 DEF SessionCalm, Plain
  <2>4. Goto(w, "parsing") \/ Goto(w, "finishing") \/ Goto(w, "appending")
    BY <1>2, <2>3 DEF SkipRows, ParseRows
  <2>. QED
    BY <2>4, GotoIs
<1>3. ASSUME NEW w \in Workers, \/ FailReads(w) \/ FailWrites(w) \/ RejectJob(w) \/ MarkRunFailed(w)
                               \/ FaultInRun(w) \/ CompleteUnaudited(w) \/ FailUnaudited(w)
      PROVE  FALSE
  <2>1. RunCalm(w)
    BY DEF Calm
  <2>. QED
    BY <1>3, <2>1 DEF FailReads, FailWrites, RejectJob, MarkRunFailed, At, FaultInRun, CompleteUnaudited,
       FailUnaudited, RunCalm, Spared
<1>4. ASSUME NEW i \in Instances, RecoverReads(i) PROVE UNCHANGED <<session, writes>>
  <2>1. \A f \in Files : jobs[f].status # "FAILED"
    BY DEF Calm, JobsCalm
  <2>. QED
    BY <1>4, <2>1 DEF RecoverReads
<1>5. ASSUME NEW i \in Instances, NEW f \in Files, RecoverJob(i, f) PROVE RequeueJob(f) /\ Recovered(i, f)
  <2>1. phase[i] = "recovering" /\ InstanceCalm(i)
    BY <1>5 DEF RecoverJob, Calm
  <2>2. f \in source
    BY <2>1 DEF InstanceCalm
  <2>. QED
    BY <1>5, <2>2 DEF RecoverJob
<1>6. ASSUME NEW i \in Instances, NEW f \in Files, \/ RecoverFaults(i, f) \/ RecoverMarks(i, f)
             \/ RetryStarts(i, f) \/ AcceptRetry(i, f) \/ RefuseRetry(i, f)
             \/ RetryReads(i, f) \/ RetryWrites(i, f)
      PROVE  FALSE
  <2>1. InstanceCalm(i) /\ SessionCalm(i)
    BY DEF Calm
  <2>. QED
    BY <1>6, <2>1 DEF RecoverFaults, RecoverMarks, RetryStarts, AcceptRetry, RefuseRetry, RetryReads,
       RetryWrites, InstanceCalm, SessionCalm, Plain, Spared
<1>7. ASSUME NEW i \in Instances, UploadFails(i) \/ Cancel(i) \/ CancelLands(i) PROVE FALSE
  BY <1>7 DEF UploadFails, Cancel, CancelLands, Spared
<1>8. ASSUME NEW i \in Instances, NEW s \in Slots, WriteFails(i, s) PROVE FALSE
  BY <1>8 DEF WriteFails, Spared
<1>9. ASSUME NEW f \in Files, RunStalls(f) \/ LoseSource(f) PROVE FALSE
  BY <1>9 DEF RunStalls, LoseSource, Spared
<1>10. \A i \in Instances : ~ExpireSession(i) /\ ~CleanUpSession(i) /\ (Restart(i) => UNCHANGED budget)
  BY TimersAreSpent
<1>11. ASSUME NEW w \in Workers, Work(w)
       PROVE  \/ Start(w)
              \/ SaveCheckpoint(w, "opening", "skipping")
              \/ SkipRows(w)
              \/ ParseRows(w)
              \/ AppendChunk(w)
              \/ ReportProgress(w)
              \/ SaveCheckpoint(w, "checkpointing", "flushing")
              \/ Flush(w, "flushing", "parsing")
              \/ Finish(w)
              \/ FinalFlush(w)
              \/ SaveCheckpoint(w, "finalCheckpoint", "completing")
              \/ Complete(w)
              \/ \E f \in Files : Claim(w, f)
  BY <1>3, <1>11 DEF Work, Step
<1>12. ASSUME NEW i \in Instances, Startup(i) \/ Request(i)
       PROVE  \/ RecoverReads(i)
              \/ \E f \in Files : RecoverJob(i, f) \/ UploadEnqueues(i, f)
              \/ Upload(i) \/ UploadFlushed(i)
  BY <1>6, <1>7, <1>12 DEF Startup, Request
<1>13. Environment => \/ \E i \in Instances : Crash(i) \/ Restart(i)
                      \/ \E i \in Instances, s \in Slots : WriteSent(i, s) \/ WriteLands(i, s)
                      \/ \E f \in Files : LeaseExpires(f)
  BY <1>8, <1>9, <1>10 DEF Environment
<1>14. CASE \E w \in Workers : Work(w)
  BY <1>1, <1>2, <1>11, <1>14
<1>15. CASE \E i \in Instances : Startup(i) \/ Request(i)
  BY <1>4, <1>5, <1>12, <1>15
<1>16. CASE Environment
  BY <1>10, <1>13, <1>16
<1>. QED
  BY <1>14, <1>15, <1>16 DEF Next

------------------------------------------------------------------------------
(* Steps of a run                                                          *)

\* The session, the snapshot and what else an instance keeps stay as they are.
Rest == UNCHANGED <<saved, source, phase, session, upload, writes, retry, recovery>>

JobsStay ==
    \A f \in Files : jobs'[f].status = jobs[f].status /\ (jobs'[f].stale => jobs[f].stale)

\* A run goes from one step to another that settles no more and no less.
LEMMA RunMoves ==
    ASSUME TypeOK, Calm, Rest, JobsStay, NEW w \in Workers, run[w].pc # "idle",
           \A v \in Workers \ {w} : run'[v] = run[v],
           run'[w].file = run[w].file, run'[w].awaits = run[w].awaits,
           run'[w].pc \notin {"idle", "failing", "rescheduling", "rejecting", "marking"},
           run[w].pc \in Ending <=> run'[w].pc \in Ending, Landed(w) <=> Landed(w)',
           Awaiting(w) => Awaiting(w)' \/ run[w].awaits = {}
    PROVE  Calm'
<1>a. HostOf \in [Workers -> Instances] /\ \A v \in Workers : run[v].file \in Files
  BY ProcessingAssumption DEF TypeOK, Run
<1>b. saved' = saved /\ source' = source /\ phase' = phase /\ session' = session
      /\ upload' = upload /\ writes' = writes /\ retry' = retry /\ recovery' = recovery
  BY DEF Rest
<1>1. \A v \in Workers : /\ run'[v].file = run[v].file /\ run'[v].awaits = run[v].awaits
                         /\ run'[v].pc = "idle" <=> run[v].pc = "idle"
                         /\ run'[v].pc \in Ending <=> run[v].pc \in Ending
                         /\ Landed(v)' <=> Landed(v)
  BY DEF Landed
<1>2. JobsCalm'
  BY <1>b DEF Calm, JobsCalm, JobsStay
<1>3. \A f \in Files : (Open(f) => Open(f)') /\ (Unsaved(f) => Unsaved(f)')
  BY <1>1 DEF Open, Unsaved, JobsStay
<1>4. \A s : Plain(s) => Plain(s)'
  BY DEF Plain, JobsStay
<1>5. SavedCalm'
  <2>1. ASSUME saved.session.listed
        PROVE  /\ Plain(saved.session)'
               /\ saved.session.status = "completed" \/ (\E f \in Files : Unsaved(f))'
    BY <1>b, <1>3, <1>4, <2>1 DEF Calm, SavedCalm
  <2>. QED
    BY <1>b, <2>1 DEF Calm, SavedCalm
<1>6. ASSUME NEW i \in Instances PROVE InstanceCalm(i)' /\ WritesCalm(i)' /\ SessionCalm(i)'
  <2>1. UnderWay(i)' = UnderWay(i)
    BY <1>b DEF UnderWay
  <2>2. InstanceCalm(i)'
    BY <1>b, <2>1 DEF Calm, InstanceCalm
  <2>3. SessionCalm(i)'
    BY <1>b, <1>3, <1>4 DEF Calm, SessionCalm
  <2>4. \A v \in Workers : Awaiting(v) /\ UnderWay(i) \subseteq run[v].awaits
            => (Awaiting(v)' /\ UnderWay(i) \subseteq run'[v].awaits) \/ UnderWay(i) = {}
    BY <1>1 DEF Awaiting
  <2>5. WritesCalm(i)'
    BY <1>b, <2>1, <2>4 DEF Calm, WritesCalm
  <2>. QED
    BY <2>2, <2>3, <2>5
<1>7. ASSUME NEW v \in Workers PROVE RunCalm(v)'
  BY <1>a, <1>b, <1>1, <1>7 DEF Calm, RunCalm, JobsStay, Up
<1>8. RunsAlone'
  BY <1>1 DEF Calm, RunsAlone
<1>. QED
  BY <1>2, <1>5, <1>6, <1>7, <1>8 DEF Calm

LEMMA MovesCalm ==
    ASSUME TypeOK, Calm, NEW w \in Workers,
           \/ Start(w) /\ run'[w].pc = "opening"
           \/ SaveCheckpoint(w, "opening", "skipping")
           \/ SkipRows(w) /\ run'[w].pc # "failing"
           \/ ParseRows(w) /\ run'[w].pc # "failing"
           \/ AppendChunk(w)
           \/ SaveCheckpoint(w, "checkpointing", "flushing")
           \/ Flush(w, "flushing", "parsing")
           \/ FinalFlush(w)
           \/ SaveCheckpoint(w, "finalCheckpoint", "completing")
    PROVE  Calm'
<1>a. run \in [Workers -> Run] /\ jobs \in [Files -> JobRow]
  BY DEF TypeOK
<1>b. Rest
  BY DEF Rest, Start, SaveCheckpoint, SkipRows, ParseRows, AppendChunk, Flush, FinalFlush
<1>1. ASSUME NEW from, NEW to, At(w, from), Goto(w, to), JobsStay,
             \/ /\ from \in {"opening", "skipping", "parsing"}
                /\ to \in {"skipping", "parsing", "finishing", "appending"}
             \/ from = "checkpointing" /\ to = "flushing"
             \/ from = "flushing" /\ to = "parsing" /\ run[w].awaits = {}
             \/ from = "finalCheckpoint" /\ to = "completing"
             \/ from = "finalFlush" /\ to = "finalCheckpoint" /\ run[w].awaits = {}
      PROVE  Calm'
  <2>1. /\ \A v \in Workers \ {w} : run'[v] = run[v]
        /\ run'[w].file = run[w].file /\ run'[w].pc = to /\ run[w].pc = from
        /\ run'[w].awaits = run[w].awaits
    BY <1>a, <1>1, GotoIs DEF Goto, Run, At
  <2>2. /\ from # "idle" /\ to \notin {"idle", "failing", "rescheduling", "rejecting", "marking"}
        /\ from \in Ending <=> to \in Ending
        /\ Landed(w) <=> Landed(w)'
        /\ Awaiting(w) => Awaiting(w)' \/ run[w].awaits = {}
    BY <1>1, <2>1 DEF Ending, Landed, Awaiting
  <2>. QED
    BY <1>b, <1>1, <2>1, <2>2, RunMoves
<1>2. UNCHANGED jobs => JobsStay
  BY DEF JobsStay
<1>3. ASSUME NEW from, NEW to, SaveCheckpoint(w, from, to) PROVE JobsStay
  BY <1>3, <1>a DEF SaveCheckpoint, CheckpointJob, JobsStay, JobRow
<1>4. CASE (Start(w) /\ run'[w].pc = "opening") \/ AppendChunk(w)
  <2>1. run[w].pc \in {"starting", "appending"} /\ UNCHANGED jobs
    BY <1>4 DEF Start, AppendChunk, At
  <2>2. /\ \A v \in Workers \ {w} : run'[v] = run[v]
        /\ run'[w].file = run[w].file /\ run'[w].awaits = run[w].awaits
        /\ run'[w].pc \in {"opening", "reporting", "finishing"}
    <3>1. CASE AppendChunk(w)
      BY <1>a, <3>1 DEF AppendChunk, Run
    <3>2. CASE Start(w) /\ run'[w].pc = "opening"
      <4>1. ~Goto(w, "failing") /\ ~Goto(w, "rejecting")
        BY <3>2, GotoIs
      <4>2. run' = [run EXCEPT ![w] = [@ EXCEPT !.pc = "opening",
                                                !.mark = session[HostOf[w]].rows[run[w].file]]]
        BY <3>2, <4>1 DEF Start
      <4>. QED
        BY <1>a, <4>2 DEF Run
    <3>. QED
      BY <1>4, <3>1, <3>2
  <2>3. /\ ~Landed(w) /\ ~Landed(w)' /\ run[w].pc \notin Ending /\ run'[w].pc \notin Ending
        /\ ~Awaiting(w)
    BY <2>1, <2>2 DEF Landed, Ending, Awaiting
  <2>. QED
    BY <1>b, <1>2, <2>1, <2>2, <2>3, RunMoves
<1>8. CASE SkipRows(w) /\ run'[w].pc # "failing"
  <2>1. At(w, "skipping") /\ UNCHANGED jobs
    BY <1>8 DEF SkipRows
  <2>2. Goto(w, "parsing")
    BY <1>8, GotoIs DEF SkipRows
  <2>. QED
    BY <1>1, <1>2, <2>1, <2>2
<1>5. CASE ParseRows(w) /\ run'[w].pc # "failing"
  <2>1. At(w, "parsing") /\ UNCHANGED jobs
    BY <1>5 DEF ParseRows
  <2>2. Goto(w, "finishing") \/ Goto(w, "appending")
    BY <1>5, GotoIs DEF ParseRows
  <2>. QED
    BY <1>1, <1>2, <2>1, <2>2
<1>6. ASSUME NEW from, NEW to, SaveCheckpoint(w, from, to) \/ Flush(w, from, to)
      PROVE  At(w, from) /\ Goto(w, to) /\ JobsStay
  BY <1>2, <1>3, <1>6 DEF SaveCheckpoint, Flush
<1>7. ASSUME NEW from, NEW to, Flush(w, from, to) PROVE run[w].awaits = {}
  BY <1>7 DEF Flush
<1>9. CASE FinalFlush(w)
  BY <1>1, <1>2, <1>9 DEF FinalFlush
<1>10. CASE SaveCheckpoint(w, "opening", "skipping")
  BY <1>1, <1>6, <1>10
<1>11. CASE SaveCheckpoint(w, "checkpointing", "flushing")
  BY <1>1, <1>6, <1>11
<1>12. CASE SaveCheckpoint(w, "finalCheckpoint", "completing")
  BY <1>1, <1>6, <1>12
<1>13. CASE Flush(w, "flushing", "parsing")
  BY <1>1, <1>6, <1>7, <1>13
<1>. QED
  BY <1>4, <1>5, <1>8, <1>9, <1>10, <1>11, <1>12, <1>13

LEMMA TrackAlone ==
    ASSUME TypeOK, NEW i \in Instances, UnderWay(i) = {}, Track(i, FALSE)
    PROVE  \E s \in Slots : /\ UnderWay(i)' = {s}
                            /\ writes'[i][s].step = "called" /\ ~writes'[i][s].cancelled
<1>. DEFINE u == [NoWrite EXCEPT !.step = "called", !.cancelled = FALSE]
<1>a. writes \in [Instances -> [Slots -> Write]]
  BY DEF TypeOK
<1>1. PICK s \in Slots : /\ u \in Write
                         /\ writes' = [writes EXCEPT ![i] = [writes[i] EXCEPT ![s] = u]]
  BY <1>a, TrackKeeps
<1>2. u.step = "called" /\ u.cancelled = FALSE
  BY DEF NoWrite
<1>. HIDE DEF u
<1>3. /\ writes'[i][s] = u
      /\ \A t \in Slots \ {s} : writes'[i][t] = writes[i][t]
  BY <1>a, <1>1
<1>4. UnderWay(i)' = {s}
  BY <1>2, <1>3 DEF UnderWay
<1>. QED
  BY <1>2, <1>3, <1>4

\* A run that waits for nothing has no write under way beside it.
LEMMA NoneUnderWay ==
    ASSUME TypeOK, Calm, NEW i \in Instances, NEW w \in Workers, run[w].pc # "idle", ~Awaiting(w)
    PROVE  UnderWay(i) = {}
<1>1. saved.session.listed
  BY DEF TypeOK, Run, Calm, JobsCalm, RunCalm
<1>2. \A v \in Workers : Awaiting(v) => v = w
  BY DEF Awaiting, Calm, RunsAlone
<1>. QED
  BY <1>1, <1>2 DEF Calm, WritesCalm

LEMMA ReportCalm == ASSUME TypeOK, Calm, OneInstance, NEW w \in Workers, ReportProgress(w) PROVE Calm'
<1>. DEFINE i == HostOf[w]
            f == run[w].file
<1>a. /\ run \in [Workers -> Run] /\ session \in [Instances -> Session]
      /\ writes \in [Instances -> [Slots -> Write]]
      /\ HostOf \in [Workers -> Instances] /\ i \in Instances /\ f \in Files
      /\ \A k \in Instances : k = i
  BY ProcessingAssumption DEF TypeOK, Run, OneInstance
<1>b. /\ saved' = saved /\ source' = source /\ phase' = phase /\ jobs' = jobs
      /\ upload' = upload /\ retry' = retry /\ recovery' = recovery
      /\ run[w].pc = "reporting"
  BY DEF ReportProgress, At
<1>c. RunCalm(w) /\ SessionCalm(i) /\ InstanceCalm(i)
  BY <1>a DEF Calm
<1>d. session[i].listed /\ jobs[f].status = "PROCESSING" /\ session[i].cancelled = FALSE
  BY <1>a, <1>b, <1>c DEF RunCalm, SessionCalm, Plain, Session
<1>1. /\ session'[i].listed /\ ~session'[i].cancelled /\ session'[i].status = "parsing"
      /\ session'[i].files = session[i].files
  BY <1>a, <1>d DEF ReportProgress, Session
<1>f. UnderWay(i) = {}
  BY <1>a, <1>b, NoneUnderWay DEF Awaiting
<1>2. PICK s \in Slots : /\ UnderWay(i)' = {s}
                         /\ writes'[i][s].step = "called" /\ ~writes'[i][s].cancelled
  BY <1>a, <1>d, <1>f, TrackAlone DEF ReportProgress, Persist
<1>3. /\ \A v \in Workers \ {w} : run'[v] = run[v]
      /\ run'[w].file = f /\ run'[w].pc = "checkpointing" /\ run'[w].awaits = UnderWay(i)'
  BY <1>a, <1>2 DEF ReportProgress, Run
<1>4. \A v \in Workers : /\ run'[v].file = run[v].file
                         /\ run'[v].pc = "idle" <=> run[v].pc = "idle"
                         /\ run'[v].pc \in Ending <=> run[v].pc \in Ending
                         /\ Landed(v)' <=> Landed(v)
  BY <1>b, <1>3 DEF Landed, Ending
<1>5. \A g \in Files : (Open(g) => Open(g)') /\ (Unsaved(g) => Unsaved(g)')
  BY <1>b, <1>4 DEF Open, Unsaved
<1>6. Open(f)
  <2>1. \A v \in Workers : run[v].file = f /\ run[v].pc # "idle" => v = w
    BY <1>b DEF Calm, RunsAlone
  <2>. QED
    BY <1>b, <1>d, <2>1 DEF Open, Ending
<1>7. JobsCalm' /\ RunsAlone'
  BY <1>b, <1>4 DEF Calm, JobsCalm, RunsAlone
<1>8. SavedCalm'
  BY <1>b, <1>5 DEF Calm, SavedCalm, Plain
<1>9. InstanceCalm(i)' /\ WritesCalm(i)' /\ SessionCalm(i)'
  <2>1. InstanceCalm(i)'
    BY <1>b, <1>c, <1>d, <1>1, <1>2 DEF InstanceCalm
  <2>2. SessionCalm(i)'
    BY <1>a, <1>b, <1>c, <1>d, <1>1, <1>5, <1>6 DEF SessionCalm, Plain
  <2>3. WritesCalm(i)'
    <3>1. Awaiting(w)'
      BY <1>3 DEF Awaiting
    <3>2. \A t \in UnderWay(i)' : t = s
      BY <1>2
    <3>. QED
      BY <1>1, <1>2, <1>3, <3>1, <3>2 DEF WritesCalm
  <2>. QED
    BY <2>1, <2>2, <2>3
<1>10. ASSUME NEW v \in Workers PROVE RunCalm(v)'
  <2>1. HostOf[v] = i /\ RunCalm(v) /\ RunCalm(w)
    BY <1>a DEF Calm
  <2>2. CASE v = w
    BY <1>b, <1>d, <1>1, <1>3, <1>4, <2>1, <2>2 DEF RunCalm, Up, Ending, Landed
  <2>3. CASE v # w
    BY <1>b, <1>3, <2>3 DEF Calm, RunsAlone, RunCalm
  <2>. QED
    BY <2>2, <2>3
<1>. QED
  BY <1>a, <1>7, <1>8, <1>9, <1>10 DEF Calm

LEMMA FinishCalm == ASSUME TypeOK, Calm, OneInstance, NEW w \in Workers, Finish(w) PROVE Calm'
<1>. DEFINE i == HostOf[w]
            f == run[w].file
            files == [session[i].files EXCEPT ![f] = "inspected"]
            done == \A g \in Files : files[g] \in {"inspected", "error"}
<1>a. /\ run \in [Workers -> Run] /\ session \in [Instances -> Session]
      /\ writes \in [Instances -> [Slots -> Write]]
      /\ HostOf \in [Workers -> Instances] /\ i \in Instances /\ f \in Files
      /\ \A k \in Instances : k = i
  BY ProcessingAssumption DEF TypeOK, Run, OneInstance
<1>b. /\ saved' = saved /\ source' = source /\ phase' = phase /\ jobs' = jobs
      /\ upload' = upload /\ retry' = retry /\ recovery' = recovery
      /\ run[w].pc = "finishing"
  BY DEF Finish, At
<1>c. RunCalm(w) /\ SessionCalm(i) /\ InstanceCalm(i)
  BY <1>a DEF Calm
<1>d. /\ session[i].listed /\ jobs[f].status = "PROCESSING" /\ session[i].cancelled = FALSE
      /\ session[i].files \in [Files -> FileStatus]
  BY <1>a, <1>b, <1>c DEF RunCalm, SessionCalm, Plain, Session
<1>1. /\ session'[i].listed /\ ~session'[i].cancelled
      /\ session'[i].status = IF done THEN "completed" ELSE "parsing"
      /\ session'[i].files = files
  BY <1>a, <1>d DEF Finish, Session
<1>f. UnderWay(i) = {}
  BY <1>a, <1>b, NoneUnderWay DEF Awaiting
<1>2. PICK s \in Slots : /\ UnderWay(i)' = {s}
                         /\ writes'[i][s].step = "called" /\ ~writes'[i][s].cancelled
  BY <1>a, <1>d, <1>f, TrackAlone DEF Finish, Persist
<1>3. /\ \A v \in Workers \ {w} : run'[v] = run[v]
      /\ run'[w].file = f /\ run'[w].pc = "finalFlush" /\ run'[w].awaits = UnderWay(i)'
  BY <1>a, <1>2 DEF Finish, Run
<1>4. \A v \in Workers : /\ run'[v].file = run[v].file
                         /\ run'[v].pc = "idle" <=> run[v].pc = "idle"
                         /\ Landed(v)' <=> Landed(v)
  BY <1>b, <1>2, <1>3 DEF Landed
<1>5. \A g \in Files : (g # f /\ Open(g) => Open(g)') /\ (Unsaved(g) => Unsaved(g)')
  BY <1>b, <1>3, <1>4 DEF Open, Unsaved
<1>e. /\ files[f] = "inspected" /\ \A g \in Files \ {f} : files[g] = session[i].files[g]
      /\ \A g \in Files : session[i].files[g] = "inspected" => files[g] = "inspected"
  BY <1>a, <1>d
<1>. HIDE DEF files
\* A file that is left over has neither a finished job nor a run that has inspected it.
<1>6. ASSUME ~done PROVE \E g \in Files : Open(g)'
  <2>1. PICK g \in Files : files[g] \notin {"inspected", "error"}
    BY <1>6
  <2>2. g # f /\ session[i].files[g] # "inspected"
    BY <1>e, <2>1
  <2>3. jobs[g].status # "COMPLETED"
    BY <1>c, <1>d, <2>2 DEF SessionCalm, Plain
  <2>4. ASSUME NEW v \in Workers, run[v].file = g PROVE run[v].pc \notin Ending
    <3>1. RunCalm(v) /\ HostOf[v] = i
      BY <1>a DEF Calm
    <3>. QED
      BY <2>2, <2>4, <3>1 DEF RunCalm, Ending
  <2>. QED
    BY <1>5, <2>2, <2>3, <2>4 DEF Open
<1>7. JobsCalm' /\ RunsAlone'
  BY <1>b, <1>4 DEF Calm, JobsCalm, RunsAlone
<1>8. SavedCalm'
  BY <1>b, <1>5 DEF Calm, SavedCalm, Plain
<1>9. InstanceCalm(i)' /\ WritesCalm(i)' /\ SessionCalm(i)'
  <2>1. InstanceCalm(i)'
    BY <1>b, <1>c, <1>d, <1>1, <1>2 DEF InstanceCalm
  <2>2. Plain(session[i])'
    <3>1. \A g \in Files : /\ files[g] # "error"
                           /\ jobs[g].status = "COMPLETED" => files[g] = "inspected"
      BY <1>c, <1>d, <1>e DEF SessionCalm, Plain
    <3>. QED
      BY <1>b, <1>1, <3>1 DEF Plain
  <2>3. session'[i].status = "completed" \/ \E g \in Files : Open(g)'
    BY <1>1, <1>6
  <2>4. SessionCalm(i)'
    BY <2>2, <2>3 DEF SessionCalm
  <2>5. WritesCalm(i)'
    <3>1. Awaiting(w)'
      BY <1>3 DEF Awaiting
    <3>2. \A t \in UnderWay(i)' : t = s
      BY <1>2
    <3>. QED
      BY <1>1, <1>2, <1>3, <3>1, <3>2 DEF WritesCalm
  <2>. QED
    BY <2>1, <2>4, <2>5
<1>10. ASSUME NEW v \in Workers PROVE RunCalm(v)'
  <2>1. HostOf[v] = i /\ RunCalm(v) /\ RunCalm(w) /\ run[v].file \in Files
    BY <1>a DEF Calm, Run
  <2>2. CASE v = w
    BY <1>b, <1>d, <1>e, <1>1, <1>3, <1>4, <2>1, <2>2 DEF RunCalm, Up, Ending, Landed
  <2>3. CASE v # w
    BY <1>b, <1>3, <2>3 DEF Calm, RunsAlone, RunCalm
  <2>. QED
    BY <2>2, <2>3
<1>. QED
  BY <1>a, <1>7, <1>8, <1>9, <1>10 DEF Calm

LEMMA CompleteCalm == ASSUME TypeOK, Calm, OneInstance, NEW w \in Workers, Complete(w) PROVE Calm'
<1>. DEFINE i == HostOf[w]
            f == run[w].file
<1>a. /\ run \in [Workers -> Run] /\ jobs \in [Files -> JobRow]
      /\ HostOf \in [Workers -> Instances] /\ i \in Instances /\ f \in Files
      /\ \A k \in Instances : k = i
  BY ProcessingAssumption DEF TypeOK, Run, OneInstance
<1>b. /\ saved' = saved /\ source' = source /\ phase' = phase /\ session' = session
      /\ upload' = upload /\ retry' = retry /\ recovery' = recovery /\ writes' = writes
      /\ run[w].pc = "completing" /\ run' = [run EXCEPT ![w] = NoRun]
  BY DEF Complete, At, EndRun
<1>c. RunCalm(w) /\ SessionCalm(i) /\ InstanceCalm(i) /\ SavedCalm /\ JobsCalm
  BY <1>a DEF Calm
<1>d. Landed(w) /\ run[w].pc \in Ending
  BY <1>b DEF Landed, Ending
<1>1. /\ session[i].listed /\ jobs[f].status = "PROCESSING" /\ saved.session.listed
      /\ session[i].files[f] = "inspected" /\ saved.session.files[f] = "inspected"
  BY <1>a, <1>b, <1>c, <1>d DEF RunCalm, JobsCalm
<1>2. /\ jobs'[f].status = "COMPLETED"
      /\ \A g \in Files \ {f} : jobs'[g] = jobs[g]
  BY <1>a DEF Complete, CompleteJob, JobRow
<1>3. /\ \A v \in Workers \ {w} : run'[v] = run[v]
      /\ run'[w].pc = "idle" /\ run'[w].pc \notin Ending /\ ~Landed(w)'
  BY <1>a, <1>b, NoRunFields DEF Ending, Landed
<1>4. \A g \in Files : (Open(g) => Open(g)') /\ (Unsaved(g) => Unsaved(g)')
  <2>1. \A v \in Workers : (v # w) => run'[v] = run[v] /\ (Landed(v) <=> Landed(v)')
    BY <1>3 DEF Landed
  <2>2. ~Open(f) /\ ~Unsaved(f)
    BY <1>d DEF Open, Unsaved
  <2>. QED
    BY <1>2, <1>3, <2>1, <2>2 DEF Open, Unsaved
<1>5. JobsCalm' /\ RunsAlone'
  BY <1>a, <1>b, <1>1, <1>2, <1>3 DEF Calm, JobsCalm, RunsAlone
<1>6. Plain(session[i])' /\ Plain(saved.session)'
  BY <1>b, <1>c, <1>1, <1>2 DEF SessionCalm, SavedCalm, Plain
<1>7. SavedCalm' /\ SessionCalm(i)'
  BY <1>b, <1>c, <1>1, <1>4, <1>6 DEF SavedCalm, SessionCalm
<1>10. UnderWay(i) = {}
  BY <1>a, <1>b, NoneUnderWay DEF Awaiting
<1>8. InstanceCalm(i)' /\ WritesCalm(i)'
  <2>1. UnderWay(i)' = {}
    BY <1>b, <1>10 DEF UnderWay
  <2>. QED
    BY <1>b, <1>c, <1>10, <2>1 DEF InstanceCalm, WritesCalm
<1>9. ASSUME NEW v \in Workers PROVE RunCalm(v)'
  <2>1. CASE v = w
    BY <1>3, <2>1 DEF RunCalm
  <2>2. CASE v # w
    BY <1>b, <1>3, <2>2 DEF Calm, RunsAlone, RunCalm
  <2>. QED
    BY <2>1, <2>2
<1>. QED
  BY <1>a, <1>5, <1>7, <1>8, <1>9 DEF Calm

LEMMA ClaimCalm ==
    ASSUME TypeOK, Calm, OneInstance, OneAtATime, NEW w \in Workers, NEW f \in Files,
           Claim(w, f)
    PROVE  Calm'
<1>. DEFINE i == HostOf[w]
<1>a. /\ run \in [Workers -> Run] /\ jobs \in [Files -> JobRow]
      /\ HostOf \in [Workers -> Instances] /\ i \in Instances
      /\ \A k \in Instances : k = i
  BY ProcessingAssumption DEF TypeOK, Run, OneInstance
<1>b. /\ saved' = saved /\ source' = source /\ phase' = phase /\ session' = session
      /\ upload' = upload /\ retry' = retry /\ recovery' = recovery /\ writes' = writes
      /\ run[w].pc = "idle" /\ Up(i) /\ Claimable(f)
  BY DEF Claim, At, ClaimJob
<1>c. SessionCalm(i) /\ InstanceCalm(i) /\ SavedCalm /\ JobsCalm
  BY <1>a DEF Calm
<1>d. jobs[f].status \in {"QUEUED", "PROCESSING"} /\ (jobs[f].status = "PROCESSING" => jobs[f].stale)
  BY <1>b, <1>c DEF Claimable, Pending, JobsCalm
<1>e. session[i].listed
  BY <1>b, <1>c, <1>d DEF JobsCalm, InstanceCalm, Up
<1>1. /\ jobs'[f].status = "PROCESSING" /\ ~jobs'[f].stale
      /\ \A g \in Files \ {f} : jobs'[g] = jobs[g]
  BY <1>a DEF Claim, ClaimJob, JobRow
<1>2. /\ \A v \in Workers \ {w} : run'[v] = run[v]
      /\ run'[w].pc = "starting" /\ run'[w].file = f /\ run'[w].awaits = {}
  BY <1>a DEF Claim
<1>3. \A v \in Workers : run[v].pc = "idle"
  <2>1. \A v \in Workers : run[v].file = f => run[v].pc = "idle"
    BY <1>d DEF Calm, RunCalm
  <2>2. \A v \in Workers : run[v].file \in Files
    BY <1>a DEF Run
  <2>. QED
    BY <1>b, <2>1, <2>2 DEF OneAtATime
<1>4. \A g \in Files : (Open(g) => Open(g)') /\ (Unsaved(g) => Unsaved(g)')
  <2>1. \A v \in Workers \ {w} : /\ run'[v].pc = run[v].pc /\ run'[v].file = run[v].file
                                 /\ Landed(v)' <=> Landed(v)
    BY <1>2 DEF Landed
  <2>2. run'[w].pc \notin Ending /\ ~Landed(w)'
    BY <1>2 DEF Landed, Ending
  <2>3. \A g \in Files : jobs[g].status # "COMPLETED" => jobs'[g].status # "COMPLETED"
    BY <1>1
  <2>4. \A g \in Files : Open(g) => Open(g)'
    BY <2>1, <2>2, <2>3 DEF Open
  <2>5. \A g \in Files : Unsaved(g) => Unsaved(g)'
    BY <2>1, <2>2, <2>3 DEF Unsaved
  <2>. QED
    BY <2>4, <2>5
<1>5. JobsCalm'
  BY <1>b, <1>c, <1>d, <1>1 DEF JobsCalm
<1>6. RunsAlone'
  BY <1>2, <1>3 DEF Calm, RunsAlone
<1>7. \A s : Plain(s) => Plain(s)'
  BY <1>1 DEF Plain
<1>8. SavedCalm' /\ SessionCalm(i)'
  <2>1. SavedCalm'
    BY <1>b, <1>c, <1>4, <1>7 DEF SavedCalm
  <2>2. SessionCalm(i)'
    BY <1>b, <1>c, <1>4, <1>7 DEF SessionCalm
  <2>. QED
    BY <2>1, <2>2
<1>9. InstanceCalm(i)' /\ WritesCalm(i)'
  <2>1. UnderWay(i)' = UnderWay(i)
    BY <1>b DEF UnderWay
  <2>2. saved.session.listed
    BY <1>c, <1>d DEF JobsCalm
  <2>3. UnderWay(i) = {}
    BY <1>a, <1>3, <2>2 DEF Calm, WritesCalm, Awaiting
  <2>. QED
    BY <1>b, <1>c, <2>1, <2>3 DEF InstanceCalm, WritesCalm
<1>10. ASSUME NEW v \in Workers PROVE RunCalm(v)'
  <2>1. CASE v = w
    BY <1>b, <1>e, <1>1, <1>2, <2>1 DEF RunCalm, Ending, Landed, Up
  <2>2. CASE v # w
    BY <1>2, <1>3, <2>2 DEF RunCalm
  <2>. QED
    BY <2>1, <2>2
<1>. QED
  BY <1>a, <1>5, <1>6, <1>8, <1>9, <1>10 DEF Calm

------------------------------------------------------------------------------
(* Startup, upload and the environment                                     *)

\* Nobody works on the job that is written.
LEMMA RunsStay ==
    ASSUME TypeOK, Calm, UNCHANGED <<run, saved, session, writes>>,
           \A f \in Files : \/ jobs'[f] = jobs[f]
                           \/ /\ \A w \in Workers : run[w].file = f => run[w].pc = "idle"
                              /\ jobs'[f].status \in {"QUEUED", "PROCESSING"}
                              /\ saved.session.listed,
           \A i \in Instances : Up(i) => Up(i)',
           \A i \in Instances : InstanceCalm(i)'
    PROVE  Calm'
<1>a. HostOf \in [Workers -> Instances] /\ \A v \in Workers : run[v].file \in Files
  BY ProcessingAssumption DEF TypeOK, Run
<1>1. JobsCalm'
  BY DEF Calm, JobsCalm
<1>2. RunsAlone'
  BY DEF Calm, RunsAlone
<1>3. \A f \in Files : (Open(f) => Open(f)') /\ (Unsaved(f) => Unsaved(f)')
  BY DEF Open, Unsaved, Landed
<1>4. \A s : Plain(s) => Plain(s)'
  BY DEF Plain
<1>5. SavedCalm'
  BY <1>3, <1>4 DEF Calm, SavedCalm
<1>6. ASSUME NEW i \in Instances PROVE SessionCalm(i)' /\ WritesCalm(i)'
  <2>1. SessionCalm(i)'
    BY <1>3, <1>4 DEF Calm, SessionCalm
  <2>2. WritesCalm(i)'
    BY DEF Calm, WritesCalm, UnderWay, Awaiting
  <2>. QED
    BY <2>1, <2>2
<1>7. ASSUME NEW v \in Workers PROVE RunCalm(v)'
  <2>1. Landed(v)' <=> Landed(v)
    BY DEF Landed
  <2>2. RunCalm(v) /\ run[v].file \in Files /\ HostOf[v] \in Instances
    BY <1>a DEF Calm
  <2>3. Up(HostOf[v]) => Up(HostOf[v])'
    BY <1>a
  <2>4. run[v].pc # "idle" => jobs'[run[v].file] = jobs[run[v].file]
    BY <2>2
  <2>. QED
    BY <2>1, <2>2, <2>3, <2>4 DEF RunCalm
<1>. QED
  BY <1>1, <1>2, <1>5, <1>6, <1>7 DEF Calm

\* A run is in an instance that is up and on a job that is PROCESSING.
LEMMA NoRunOf ==
    ASSUME Calm, NEW f, jobs[f].status # "PROCESSING" \/ jobs[f].stale
    PROVE  \A w \in Workers : run[w].file = f => run[w].pc = "idle"
BY DEF Calm, RunCalm

LEMMA NoRunIn ==
    ASSUME Calm, OneInstance, NEW i \in Instances, ~Up(i)
    PROVE  \A w \in Workers : run[w].pc = "idle"
BY ProcessingAssumption DEF Calm, RunCalm, OneInstance

LEMMA StartupCalm ==
    ASSUME TypeOK, Calm, OneInstance, NEW i \in Instances,
           \/ RecoverReads(i) /\ UNCHANGED <<session, writes>>
           \/ \E f \in Files : RecoverJob(i, f) /\ RequeueJob(f) /\ Recovered(i, f)
    PROVE  Calm'
<1>a. /\ jobs \in [Files -> JobRow] /\ phase \in [Instances -> {"down", "starting", "recovering", "up"}]
      /\ recovery \in [Instances -> [Files -> {"done", "requeue", "mark"}]]
      /\ \A k \in Instances : k = i
  BY DEF TypeOK, OneInstance
<1>b. InstanceCalm(i)
  BY DEF Calm
<1>1. CASE RecoverReads(i) /\ UNCHANGED <<session, writes>>
  <2>1. /\ UNCHANGED <<run, saved, session, writes, jobs, source, upload, retry>>
        /\ phase[i] = "starting" /\ phase'[i] \in {"up", "recovering"}
    BY <1>1, <1>a DEF RecoverReads
  <2>2. \A f \in Files : recovery'[i][f] # "mark"
    BY <1>1, <1>a DEF RecoverReads
  <2>3. InstanceCalm(i)'
    BY <1>b, <2>1, <2>2 DEF InstanceCalm, UnderWay
  <2>4. ~Up(i)
    BY <2>1 DEF Up
  <2>. QED
    BY <1>a, <2>1, <2>3, <2>4, RunsStay
<1>2. ASSUME NEW f \in Files, RecoverJob(i, f), RequeueJob(f), Recovered(i, f) PROVE Calm'
  <2>1. /\ UNCHANGED <<run, saved, session, writes, source, upload, retry>>
        /\ phase[i] = "recovering" /\ phase'[i] \in {"up", "recovering"}
    BY <1>2, <1>a DEF RecoverJob, Recovered
  <2>2. \A g \in Files : recovery'[i][g] = recovery[i][g] \/ recovery'[i][g] = "done"
    BY <1>2, <1>a DEF Recovered
  <2>3. InstanceCalm(i)'
    BY <1>b, <2>1, <2>2 DEF InstanceCalm, UnderWay
  <2>4. ~Up(i)
    BY <2>1 DEF Up
  <2>5. /\ jobs'[f].status = "QUEUED" /\ \A g \in Files \ {f} : jobs'[g] = jobs[g]
        /\ saved.session.listed
    BY <1>2, <1>a, <1>b, <2>1 DEF RequeueJob, JobRow, InstanceCalm
  <2>. QED
    BY <1>a, <2>1, <2>3, <2>4, <2>5, NoRunIn, RunsStay
<1>. QED
  BY <1>1, <1>2

LEMMA LeaseCalm == ASSUME TypeOK, Calm, NEW f \in Files, LeaseExpires(f) PROVE Calm'
<1>1. UNCHANGED <<chunks, saved, source, phase, session, timer, upload, writes, retry, recovery, run>>
  BY DEF LeaseExpires, procVars
<1>2. \A w \in Workers : run[w].file = f => run[w].pc = "idle"
  BY DEF LeaseExpires, Held, Live, Calm, RunCalm
<1>3. /\ jobs'[f].status = "PROCESSING" /\ saved.session.listed
      /\ \A g \in Files \ {f} : jobs'[g] = jobs[g]
  BY DEF LeaseExpires, LeaseRunsOut, Calm, JobsCalm, TypeOK, JobRow
<1>4. \A i \in Instances : InstanceCalm(i)' /\ (Up(i) => Up(i)')
  BY <1>1 DEF Calm, InstanceCalm, UnderWay, Up
<1>. QED
  BY <1>1, <1>2, <1>3, <1>4, RunsStay

LEMMA UploadCalm ==
    ASSUME TypeOK, Calm, OneInstance, NEW i \in Instances,
           Upload(i) \/ UploadFlushed(i) \/ \E f \in Files : UploadEnqueues(i, f)
    PROVE  Calm'
<1>a. /\ jobs \in [Files -> JobRow] /\ session \in [Instances -> Session]
      /\ upload \in [Instances -> {"none", "flushing", "enqueueing", "failed"}]
      /\ writes \in [Instances -> [Slots -> Write]]
      /\ \A k \in Instances : k = i
  BY DEF TypeOK, OneInstance
<1>b. InstanceCalm(i) /\ SavedCalm /\ JobsCalm
  BY DEF Calm
<1>1. CASE UploadFlushed(i)
  <2>1. /\ UNCHANGED <<run, saved, session, writes, jobs, source, retry, phase, recovery>>
        /\ upload[i] = "flushing" /\ upload'[i] = "enqueueing" /\ UnderWay(i) = {}
    BY <1>1, <1>a DEF UploadFlushed, Calm, WritesCalm
  <2>2. InstanceCalm(i)'
    BY <1>b, <2>1 DEF InstanceCalm, UnderWay
  <2>. QED
    BY <1>a, <2>1, <2>2, RunsStay DEF Up
<1>2. ASSUME NEW f \in Files, UploadEnqueues(i, f) PROVE Calm'
  <2>1. /\ UNCHANGED <<run, saved, session, writes, source, retry, phase, recovery, upload>>
        /\ upload[i] = "enqueueing" /\ jobs[f].status = "NONE"
    BY <1>2, <1>a DEF UploadEnqueues, procVars
  <2>2. /\ jobs'[f].status = "QUEUED" /\ \A g \in Files \ {f} : jobs'[g] = jobs[g]
        /\ saved.session.listed
    BY <1>2, <1>a, <1>b, <2>1 DEF UploadEnqueues, EnqueueJob, NoJob, InstanceCalm
  <2>3. InstanceCalm(i)'
    BY <1>b, <2>1 DEF InstanceCalm, UnderWay
  <2>. QED
    BY <1>a, <2>1, <2>2, <2>3, NoRunOf, RunsStay DEF Up
<1>3. CASE Upload(i)
  <2>1. /\ UNCHANGED <<run, saved, jobs, retry, phase, recovery>>
        /\ ~session[i].listed /\ ~saved.session.listed /\ source' = Files /\ Up(i)
        /\ upload'[i] = "flushing" /\ Track(i, FALSE)
        /\ session'[i] = [NoSession EXCEPT !.listed = TRUE]
    BY <1>3, <1>a DEF Upload
  <2>2. /\ session'[i].listed /\ ~session'[i].cancelled
        /\ session'[i].status = "parsing" /\ \A f \in Files : session'[i].files[f] = "uploaded"
    BY <2>1 DEF NoSession
  <2>3. \A f \in Files : jobs[f].status = "NONE"
    BY <1>b, <2>1 DEF JobsCalm
  <2>4. \A w \in Workers : run[w].pc = "idle"
    BY <2>3, NoRunOf DEF TypeOK, Run
  <2>5. \A f \in Files : Open(f)'
    BY <2>1, <2>3, <2>4 DEF Open, Ending
  <2>10. UnderWay(i) = {}
    BY <2>1 DEF Calm, WritesCalm
  <2>11. PICK s \in Slots : /\ UnderWay(i)' = {s}
                            /\ writes'[i][s].step = "called" /\ ~writes'[i][s].cancelled
    BY <2>1, <2>10, TrackAlone
  <2>6. InstanceCalm(i)'
    BY <1>b, <2>1, <2>2, <2>11 DEF InstanceCalm, Up
  <2>12. WritesCalm(i)'
    BY <2>1, <2>2, <2>11 DEF WritesCalm
  <2>7. SessionCalm(i)'
    BY <2>1, <2>2, <2>3, <2>5, ProcessingAssumption DEF SessionCalm, Plain
  <2>8. JobsCalm' /\ SavedCalm' /\ RunsAlone'
    BY <1>b, <2>1, <2>4 DEF JobsCalm, SavedCalm, RunsAlone
  <2>9. \A w \in Workers : RunCalm(w)'
    BY <2>1, <2>4 DEF RunCalm
  <2>. QED
    BY <1>a, <2>6, <2>7, <2>8, <2>9, <2>12 DEF Calm
<1>. QED
  BY <1>1, <1>2, <1>3

LEMMA CrashCalm == ASSUME TypeOK, Calm, OneInstance, NEW i \in Instances, Crash(i) PROVE Calm'
<1>a. /\ session \in [Instances -> Session] /\ phase \in [Instances -> {"down", "starting", "recovering", "up"}]
      /\ upload \in [Instances -> {"none", "flushing", "enqueueing", "failed"}]
      /\ writes \in [Instances -> [Slots -> Write]]
      /\ retry \in [Instances -> [Files -> [step : {"idle", "checking", "reading", "writing"}, row : JobRow]]]
      /\ recovery \in [Instances -> [Files -> {"done", "requeue", "mark"}]]
      /\ HostOf \in [Workers -> Instances]
      /\ \A k \in Instances : k = i
  BY ProcessingAssumption DEF TypeOK, OneInstance
<1>b. InstanceCalm(i) /\ SavedCalm /\ JobsCalm
  BY DEF Calm
<1>1. /\ UNCHANGED <<jobs, saved, source>> /\ phase'[i] = "down" /\ session'[i] = NoSession
      /\ upload'[i] \in {"none", "failed"} /\ writes'[i] = [s \in Slots |-> NoWrite]
      /\ \A f \in Files : retry'[i][f] = NoRetry /\ recovery'[i][f] = "done"
      /\ \A w \in Workers : run'[w] = NoRun
  BY <1>a DEF Crash
<1>2. ~session'[i].listed /\ NoRetry.step = "idle"
  BY <1>1 DEF NoSession, NoRetry
<1>3. \A w \in Workers : run'[w].pc = "idle" /\ ~Landed(w)'
  BY <1>1, NoRunFields DEF Landed
<1>4. JobsCalm' /\ RunsAlone' /\ \A w \in Workers : RunCalm(w)'
  BY <1>b, <1>1, <1>3 DEF JobsCalm, RunsAlone, RunCalm
<1>8. UnderWay(i)' = {}
  BY <1>1 DEF UnderWay, NoWrite
<1>5. InstanceCalm(i)' /\ WritesCalm(i)' /\ SessionCalm(i)'
  BY <1>b, <1>1, <1>2, <1>8 DEF InstanceCalm, WritesCalm, SessionCalm
<1>6. \A f \in Files : Unsaved(f) => Unsaved(f)'
  BY <1>1, <1>3 DEF Unsaved
<1>7. SavedCalm'
  BY <1>b, <1>1, <1>6 DEF SavedCalm, Plain
<1>. QED
  BY <1>a, <1>4, <1>5, <1>7 DEF Calm

LEMMA RestartCalm ==
    ASSUME TypeOK, Calm, OneInstance, NEW i \in Instances, Restart(i), UNCHANGED budget
    PROVE  Calm'
<1>a. /\ session \in [Instances -> Session] /\ phase \in [Instances -> {"down", "starting", "recovering", "up"}]
      /\ writes \in [Instances -> [Slots -> Write]] /\ budget \in Budget
      /\ saved \in [session : Session, cancelled : BOOLEAN]
      /\ \A k \in Instances : k = i
  BY DEF TypeOK, OneInstance
<1>b. InstanceCalm(i) /\ SavedCalm /\ JobsCalm /\ RunsAlone
  BY DEF Calm
<1>1. /\ UNCHANGED <<jobs, saved, source, upload, writes, retry, recovery, run>>
      /\ phase[i] = "down" /\ ~session[i].listed
  BY <1>b DEF Restart, InstanceCalm
<1>2. UnderWay(i) = {} /\ UnderWay(i)' = {}
  BY <1>1 DEF Calm, WritesCalm, UnderWay
<1>3. \A w \in Workers : run[w].pc = "idle"
  BY <1>1, NoRunIn DEF Up
<1>4. \/ /\ saved.session.listed /\ session'[i] = saved.session
         /\ phase'[i] \in {"up", "starting"}
      \/ /\ ~saved.session.listed /\ session'[i] = session[i] /\ phase'[i] = "up"
  <2>1. CASE saved.session.listed
    <3>1. ~saved.cancelled /\ budget' # [budget EXCEPT !.timers = @ - 1]
      BY <1>a, <1>b, <2>1 DEF SavedCalm, Budget
    <3>2. session' = [session EXCEPT ![i] = saved.session]
          /\ phase' = [phase EXCEPT ![i] = IF saved.session.status = "parsing" THEN "starting" ELSE "up"]
      BY <2>1, <3>1 DEF Restart
    <3>. QED
      BY <1>a, <2>1, <3>2
  <2>2. CASE ~saved.session.listed
    <3>1. session' = session /\ phase' = [phase EXCEPT ![i] = "up"]
      BY <2>2 DEF Restart
    <3>. QED
      BY <1>a, <2>2, <3>1
  <2>. QED
    BY <2>1, <2>2
<1>5. InstanceCalm(i)' /\ WritesCalm(i)'
  BY <1>b, <1>1, <1>2, <1>4 DEF InstanceCalm, WritesCalm
<1>6. \A f \in Files : (Unsaved(f) => Unsaved(f)') /\ (Unsaved(f) => Open(f)')
  BY <1>1, <1>3 DEF Unsaved, Open, Landed, Ending
<1>7. SessionCalm(i)'
  BY <1>b, <1>1, <1>4, <1>6 DEF SessionCalm, SavedCalm, Plain
<1>8. JobsCalm' /\ RunsAlone' /\ \A w \in Workers : RunCalm(w)'
  BY <1>b, <1>1, <1>3 DEF JobsCalm, RunsAlone, RunCalm
<1>9. SavedCalm'
  BY <1>b, <1>1, <1>6 DEF SavedCalm, Plain
<1>. QED
  BY <1>a, <1>5, <1>7, <1>8, <1>9 DEF Calm

LEMMA SendCalm ==
    ASSUME TypeOK, Calm, OneInstance, NEW i \in Instances, NEW s \in Slots, WriteSent(i, s)
    PROVE  Calm'
<1>. DEFINE ses == [session[i] EXCEPT !.listed = TRUE]
            u   == [writes[i][s] EXCEPT !.step = "sent", !.session = ses]
<1>a. /\ writes \in [Instances -> [Slots -> Write]] /\ writes[i][s] \in Write
      /\ session[i] \in Session /\ \A k \in Instances : k = i
      /\ HostOf \in [Workers -> Instances]
  BY ProcessingAssumption DEF TypeOK, OneInstance
<1>b. InstanceCalm(i) /\ WritesCalm(i) /\ SavedCalm /\ JobsCalm /\ SessionCalm(i) /\ RunsAlone
  BY DEF Calm
<1>1. /\ UNCHANGED <<jobs, saved, source, phase, session, upload, retry, recovery, run>>
      /\ writes' = [writes EXCEPT ![i] = [writes[i] EXCEPT ![s] = u]]
      /\ writes[i][s].step = "called"
  BY <1>a DEF WriteSent
<1>2. /\ u.step = "sent" /\ u.cancelled = writes[i][s].cancelled /\ u.session = ses
  BY <1>a DEF Write
<1>. HIDE DEF u
<1>3. /\ writes'[i][s] = u
      /\ \A t \in Slots \ {s} : writes'[i][t] = writes[i][t]
  BY <1>a, <1>1
<1>4. UnderWay(i)' = UnderWay(i) /\ s \in UnderWay(i)
  BY <1>1, <1>2, <1>3 DEF UnderWay
<1>5. session[i].listed /\ \A t \in UnderWay(i) : t = s
  BY <1>b, <1>4 DEF WritesCalm
<1>6. ses = session[i]
  BY <1>a, <1>5 DEF Session
<1>7. WritesCalm(i)'
  <2>1. ~writes'[i][s].cancelled /\ writes'[i][s].session = session'[i]
    BY <1>b, <1>1, <1>2, <1>3, <1>4, <1>6 DEF WritesCalm
  <2>2. \/ ~saved.session.listed
        \/ \E w \in Workers : Awaiting(w) /\ UnderWay(i) \subseteq run[w].awaits
    BY <1>b, <1>4 DEF WritesCalm
  <2>3. \A w \in Workers : Awaiting(w)' <=> Awaiting(w)
    BY <1>1 DEF Awaiting
  <2>. QED
    BY <1>1, <1>4, <1>5, <2>1, <2>2, <2>3 DEF WritesCalm
<1>8. InstanceCalm(i)' /\ SessionCalm(i)' /\ SavedCalm' /\ JobsCalm' /\ RunsAlone'
  BY <1>b, <1>1, <1>4 DEF InstanceCalm, SessionCalm, SavedCalm, JobsCalm, RunsAlone, Open, Unsaved,
     Plain, Landed
<1>9. \A w \in Workers : RunCalm(w)'
  BY <1>a, <1>1 DEF Calm, RunCalm, Up, Landed
<1>. QED
  BY <1>a, <1>7, <1>8, <1>9 DEF Calm

LEMMA WriteCalm ==
    ASSUME TypeOK, Calm, OneInstance, NEW i \in Instances, NEW s \in Slots, WriteLands(i, s)
    PROVE  Calm'
<1>a. /\ run \in [Workers -> Run] /\ writes \in [Instances -> [Slots -> Write]]
      /\ session \in [Instances -> Session]
      /\ HostOf \in [Workers -> Instances]
      /\ \A k \in Instances : k = i
  BY ProcessingAssumption DEF TypeOK, OneInstance
<1>b. InstanceCalm(i) /\ WritesCalm(i) /\ SavedCalm /\ JobsCalm /\ SessionCalm(i) /\ RunsAlone
  BY DEF Calm
<1>1. /\ UNCHANGED <<jobs, source, phase, session, upload, retry, recovery>>
      /\ s \in UnderWay(i) /\ UnderWay(i)' = {} /\ writes[i][s].step = "sent"
  <2>1. /\ UNCHANGED <<jobs, source, phase, session, upload, retry, recovery>>
        /\ writes[i][s].step = "sent" /\ s \in UnderWay(i)
    BY DEF WriteLands, UnderWay
  <2>2. \A t \in Slots : writes[i][t].step # "none" => t = s
    BY <1>b, <2>1 DEF WritesCalm, UnderWay
  <2>3. /\ writes'[i][s] = NoWrite
        /\ \A t \in Slots : t # s => writes'[i][t] = writes[i][t]
    BY <1>a DEF WriteLands, WriteEnds
  <2>4. UnderWay(i)' = {}
    BY <2>2, <2>3 DEF UnderWay, NoWrite
  <2>. QED
    BY <2>1, <2>4
<1>2. session[i].listed /\ source = Files
  BY <1>b, <1>1 DEF InstanceCalm, WritesCalm
<1>3. /\ saved'.cancelled = FALSE /\ saved'.session.listed
      /\ saved'.session.cancelled = session[i].cancelled
      /\ saved'.session.status = session[i].status /\ saved'.session.files = session[i].files
  BY <1>b, <1>1, <1>2 DEF WriteLands, WritesCalm
<1>4. \A w \in Workers : /\ run'[w].pc = run[w].pc /\ run'[w].file = run[w].file
                         /\ run'[w].awaits = run[w].awaits \ {s}
  <2>1. \A w \in Workers : run[w] \in Run /\ HostOf[w] = i
    BY <1>a
  <2>2. \A r \in Run : LET q == [r EXCEPT !.awaits = @ \ {s}]
                       IN  q.pc = r.pc /\ q.file = r.file /\ q.awaits = r.awaits \ {s}
    BY DEF Run
  <2>3. \A w \in Workers : run'[w] = [run[w] EXCEPT !.awaits = @ \ {s}]
    BY <2>1 DEF WriteLands, WriteEnds
  <2>. QED
    BY <2>1, <2>2, <2>3
<1>5. \A w \in Workers : Landed(w)' => run[w].pc \in Ending
  BY <1>4 DEF Landed, Ending
<1>6. \A f \in Files : (Open(f) => Open(f)') /\ (Open(f) => Unsaved(f)')
  BY <1>1, <1>4, <1>5 DEF Open, Unsaved, Ending
<1>7. JobsCalm' /\ RunsAlone'
  <2>1. JobsCalm'
    BY <1>b, <1>1, <1>3 DEF JobsCalm
  <2>2. RunsAlone'
    BY <1>b, <1>4 DEF RunsAlone
  <2>. QED
    BY <2>1, <2>2
<1>8. \A ses : Plain(ses) => Plain(ses)'
  BY <1>1 DEF Plain
<1>9. InstanceCalm(i)' /\ WritesCalm(i)' /\ SessionCalm(i)'
  <2>1. InstanceCalm(i)'
    BY <1>b, <1>1, <1>2, <1>3 DEF InstanceCalm
  <2>2. SessionCalm(i)'
    BY <1>b, <1>1, <1>6, <1>8 DEF SessionCalm
  <2>3. WritesCalm(i)'
    BY <1>1 DEF WritesCalm
  <2>. QED
    BY <2>1, <2>2, <2>3
<1>10. SavedCalm'
  <2>1. Plain(saved.session)'
    BY <1>b, <1>1, <1>2, <1>3 DEF SessionCalm, Plain
  <2>. QED
    BY <1>b, <1>2, <1>3, <1>6, <2>1 DEF SavedCalm, SessionCalm
<1>11. ASSUME NEW w \in Workers PROVE RunCalm(w)'
  <2>1. RunCalm(w) /\ HostOf[w] = i
    BY <1>a DEF Calm
  <2>2. run[w].pc # "idle" /\ Landed(w)' => saved'.session.files[run[w].file] = "inspected"
    BY <1>3, <1>5, <2>1 DEF RunCalm
  <2>. QED
    BY <1>1, <1>4, <2>1, <2>2 DEF RunCalm, Up
<1>. QED
  BY <1>a, <1>7, <1>9, <1>10, <1>11 DEF Calm

LEMMA CalmStep ==
    ASSUME CInv, OneInstance, OneAtATime, [Next]_vars PROVE CInv'
<1>1. TypeOK' /\ RowsRemain' /\ Spared'
  BY NextType, PositionStep, SparedStep DEF CInv
<1>2. ASSUME budget'.timers = MaxTimers PROVE Calm'
  <2>1. TypeOK /\ Spared /\ Calm
    BY <1>2, TimersAreSpent DEF CInv
  <2>2. CASE UNCHANGED vars
    <3>1. /\ UNCHANGED <<run, saved, session, writes, jobs>>
          /\ UNCHANGED <<source, phase, upload, retry, recovery>>
      BY <2>2 DEF vars
    <3>2. \A i \in Instances : InstanceCalm(i)' /\ (Up(i) => Up(i)')
      BY <2>1, <3>1 DEF Calm, InstanceCalm, UnderWay, Up
    <3>. QED
      BY <2>1, <3>1, <3>2, RunsStay
  <2>3. CASE Next
    BY <1>2, <2>1, <2>3, CalmNext, MovesCalm, ReportCalm, FinishCalm, CompleteCalm, ClaimCalm,
       StartupCalm, UploadCalm, CrashCalm, RestartCalm, SendCalm, WriteCalm, LeaseCalm
  <2>. QED
    BY <2>2, <2>3
<1>. QED
  BY <1>1, <1>2 DEF CInv

LEMMA CalmStart ==
    ASSUME MaxFaults = 0, MaxStalls = 0, MaxLosses = 0, MaxCancels = 0, Init PROVE CInv
<1>1. TypeOK /\ RowsRemain
  BY InitType, NoRunFields DEF Init, RowsRemain
<1>2. Spared
  BY ProcessingAssumption DEF Init, Spared
<1>3. /\ \A f \in Files : jobs[f].status = "NONE"
      /\ \A w \in Workers : run[w].pc = "idle"
      /\ ~saved.session.listed /\ saved.cancelled = FALSE
      /\ \A i \in Instances : /\ ~session[i].listed /\ phase[i] = "up" /\ upload[i] = "none"
                              /\ UnderWay(i) = {}
                              /\ \A f \in Files : retry[i][f].step = "idle" /\ recovery[i][f] = "done"
  BY NoRunFields DEF Init, NoJob, NoSession, NoRetry, UnderWay, NoWrite
<1>4. Calm
  BY <1>3 DEF Calm, JobsCalm, SavedCalm, RunsAlone, InstanceCalm, WritesCalm, SessionCalm, RunCalm
<1>. QED
  BY <1>1, <1>2, <1>4 DEF CInv

------------------------------------------------------------------------------
\* In one instance that works on one file at a time, where no statement fails, no lease
\* stalls, no file is lost and nobody cancels: whatever crashes and restarts there are,
\* an import whose jobs are all COMPLETED is shown completed, until the timer of its
\* session has fired.  With two files at a time it is not so: two snapshots are under
\* way at once, and the older may land last.
THEOREM FinishedImportsAreShown ==
    ASSUME MaxFaults = 0, MaxStalls = 0, MaxLosses = 0, MaxCancels = 0, OneInstance, OneAtATime
    PROVE  Spec => []FinishedIsShown
<1>1. CInv => FinishedIsShown
  <2>. SUFFICES ASSUME CInv, \A f \in Files : jobs[f].status = "COMPLETED",
                       NEW i \in Instances, session[i].listed, ~(budget.timers < MaxTimers)
                PROVE  session[i].status = "completed"
    BY DEF FinishedIsShown
  <2>1. budget.timers = MaxTimers
    <3>1. budget \in Budget /\ budget.timers <= MaxTimers
      BY DEF CInv, Spared, TypeOK
    <3>. QED
      BY <3>1, ProcessingAssumption DEF Budget
  <2>2. SessionCalm(i)
    BY <2>1 DEF CInv, Calm
  <2>. QED
    BY <2>2 DEF SessionCalm, Open
<1>. QED
  BY <1>1, CalmStart, CalmStep, PTL DEF Spec
==============================================================================

----------------------------- MODULE ImportQueue -----------------------------
(***************************************************************************)
(* The PostgreSQL table import_jobs and the operations that                *)
(* ImportQueueService performs on it.  Every operation is one SQL          *)
(* statement or one transaction, hence one atomic update of the row;       *)
(* the code between two statements belongs to ImportProcessing.            *)
(*                                                                         *)
(* There is one job per uploaded file (queue.retry reuses the newest job   *)
(* of the file), so a row is identified by its file.  Row positions are    *)
(* counted in chunks: rowsProcessed is always a multiple of                *)
(* IMPORT_CHUNK_SIZE_ROWS or the number of rows of the file                *)
(* (ChunkedParser relates the two units).  Clock readings appear as what   *)
(* they decide: "stale" says that locked_at is older than the lease and    *)
(* the stale-job timeout.  locked_by, error and completed_at are written   *)
(* by the code and read by nothing that decides.                           *)
(***************************************************************************)
EXTENDS Naturals

CONSTANTS Files,        \* the files of the import, one job each
          NumChunks,    \* chunks of parsed rows in a file
          MaxAttempts   \* IMPORT_MAX_JOB_ATTEMPTS

ASSUME QueueAssumption ==
    /\ NumChunks \in Nat \ {0}
    /\ MaxAttempts \in Nat \ {0}

VARIABLE jobs           \* the table: file -> row

Pending    == {"QUEUED", "RETRY"}
Unfinished == Pending \union {"PROCESSING"}
Finished   == {"COMPLETED", "FAILED", "CANCELLED"}

\* status "NONE": the file has no job yet.
JobRow == [status   : {"NONE"} \union Unfinished \union Finished,
           attempts : Nat,
           stale    : BOOLEAN,
           rows     : 0..NumChunks]

NoJob == [status |-> "NONE", attempts |-> 0, stale |-> FALSE, rows |-> 0]

------------------------------------------------------------------------------
EnqueueJob(f) ==
    jobs' = [jobs EXCEPT ![f] = [NoJob EXCEPT !.status = "QUEUED"]]

\* Slip: the lease of a dead worker is never taken over.
ClaimableNoLease(f) == jobs[f].status \in Pending

\* The claim transaction takes a due job, or a PROCESSING one whose lease ran
\* out; FOR UPDATE SKIP LOCKED makes it atomic with respect to other claims.
Claimable(f) ==
    \/ jobs[f].status \in Pending
    \/ jobs[f].status = "PROCESSING" /\ jobs[f].stale

ClaimJob(f) ==
    /\ Claimable(f)
    /\ jobs' = [jobs EXCEPT ![f].status = "PROCESSING",
                            ![f].attempts = @ + 1,
                            ![f].stale = FALSE]

\* No check of the status or of who holds the lease.
CheckpointJob(f, n) ==
    jobs' = [jobs EXCEPT ![f].rows = n, ![f].stale = FALSE]

CompleteJob(f) ==
    jobs' = [jobs EXCEPT ![f].status = "COMPLETED", ![f].stale = FALSE]

\* Slip: the last attempt is given away.
RescheduleJobEarly(f, attempts) ==
    jobs' = [jobs EXCEPT ![f].status =
                 IF attempts + 1 < MaxAttempts THEN "RETRY" ELSE "FAILED",
                         ![f].stale = FALSE]

\* attempts is the number the caller's copy of the row had when it was claimed.
RescheduleJob(f, attempts) ==
    jobs' = [jobs EXCEPT ![f].status =
                 IF attempts < MaxAttempts THEN "RETRY" ELSE "FAILED",
                         ![f].stale = FALSE]

FailJobPermanently(f) ==
    jobs' = [jobs EXCEPT ![f].status = "FAILED", ![f].stale = FALSE]

RequeueJob(f) ==
    jobs' = [jobs EXCEPT ![f].status = "QUEUED", ![f].stale = FALSE]

CancelJobs ==
    jobs' = [f \in Files |-> IF jobs[f].status \in Unfinished
                             THEN [jobs[f] EXCEPT !.status = "CANCELLED",
                                                  !.stale = FALSE]
                             ELSE jobs[f]]

\* queue.retry saves a row it has read before: the columns it does not set are
\* written back as they were.
SaveRetried(f, row) ==
    jobs' = [jobs EXCEPT ![f] = [row EXCEPT !.status = "QUEUED",
                                            !.attempts = 0]]

\* External: the clock passes locked_at + max(lease, stale timeout).
LeaseRunsOut(f) ==
    /\ jobs[f].status = "PROCESSING" /\ ~jobs[f].stale
    /\ jobs' = [jobs EXCEPT ![f].stale = TRUE]
==============================================================================

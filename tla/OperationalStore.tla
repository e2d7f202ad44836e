--------------------------- MODULE OperationalStore ---------------------------
(***************************************************************************)
(* OperationalStoreService: every service of a backend instance tracks its *)
(* writes to PostgreSQL here and awaits them with flush.  The writes under *)
(* way and the errors are shared by all requests; the writes run on        *)
(* separate connections and land in any order.                             *)
(***************************************************************************)
EXTENDS Naturals, Sequences, FiniteSets

VARIABLES
    pending,    \* writes under way: who tracked them, their row and its value
    errors,     \* writeErrors: who tracked the writes that failed
    rows        \* row -> its value in PostgreSQL

storeVars == <<pending, errors, rows>>

\* track: the promise ends, and is no longer pending.
Lands(w) ==
    /\ pending' = pending \ {w}
    /\ rows' = [rows EXCEPT ![w.row] = w.value]
    /\ UNCHANGED errors

Fails(w) ==
    /\ pending' = pending \ {w}
    /\ errors' = Append(errors, w.owner)
    /\ UNCHANGED rows

\* A request has at most one write of a row under way.
Key(w) == <<w.owner, w.row>>

\* Slip: flush does not wait for what is pending.
FlushAtOnce(awaits) == TRUE

\* flush: every write that was pending when it was called has ended.
Flushed(awaits) == \A w \in pending : Key(w) \notin awaits

\* What flush then does: it throws the first error of all, if there is one.
FlushReturns == errors = <<>> /\ UNCHANGED errors
FlushThrows  == errors # <<>> /\ errors' = Tail(errors)
===============================================================================

---------------------------- MODULE ImportContract ----------------------------
(***************************************************************************)
(* What an asynchronous import promises about each file, whatever happens  *)
(* to the processes that work on it: the parsed rows are stored in order   *)
(* without a gap and never go away, and the import of a file is reported   *)
(* done only when all of them are stored.                                  *)
(***************************************************************************)
EXTENDS Naturals

CONSTANTS Files, NumChunks

VARIABLES stored,   \* file -> the chunks stored, a prefix of 0..NumChunks-1
          outcome   \* file -> what the job table says of it

Outcome == {"open", "done", "failed", "cancelled"}

contractVars == <<stored, outcome>>

Init ==
    /\ stored = [f \in Files |-> {}]
    /\ outcome = [f \in Files |-> "open"]

StoreNext(f) ==
    /\ \E n \in 0..(NumChunks - 1) :
           /\ stored[f] = 0..(n - 1)
           /\ stored' = [stored EXCEPT ![f] = 0..n]
    /\ UNCHANGED outcome

Report(f) ==
    /\ stored[f] = 0..(NumChunks - 1)
    /\ outcome' = [outcome EXCEPT ![f] = "done"]
    /\ UNCHANGED stored

GiveUp(f) ==
    /\ outcome' = [outcome EXCEPT ![f] = "failed"]
    /\ UNCHANGED stored

Reopen(f) ==
    /\ outcome' = [outcome EXCEPT ![f] = "open"]
    /\ UNCHANGED stored

\* A cancellation ends what is open, as far as it is queued already; a file that
\* is done or failed is not cancelled any more.
Cancel ==
    /\ \E S \in SUBSET {f \in Files : outcome[f] = "open"} :
           outcome' = [f \in Files |-> IF f \in S THEN "cancelled" ELSE outcome[f]]
    /\ UNCHANGED stored

Next ==
    \/ \E f \in Files : StoreNext(f) \/ Report(f) \/ GiveUp(f) \/ Reopen(f)
    \/ Cancel

Spec == Init /\ [][Next]_contractVars
==============================================================================

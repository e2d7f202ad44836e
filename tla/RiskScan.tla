------------------------------- MODULE RiskScan -------------------------------
(***************************************************************************)
(* RiskService and FindingRepository: scans of the graph by the rules, the *)
(* decisions of analysts on the findings, and the rows of the findings,    *)
(* written through the OperationalStore.                                   *)
(*                                                                         *)
(* A rule is abstracted to the findings it detects in a graph; scores,     *)
(* severities, times and the notification of the result are left out.      *)
(***************************************************************************)
EXTENDS OperationalStore

CONSTANTS Clients,        \* requests that may be in flight at the same time
          Findings, Rules,
          RuleOf,         \* the rule that a finding belongs to
          MaxScans,       \* bound: scans
          MaxDecisions,   \* bound: decisions of analysts
          MaxFaults,      \* bound: writes that fail
          MaxCrashes      \* bound: restarts of the backend

\* The row of the scan and the metadata of the latest one, without their values.
ScanRow == "scan"
Rows == Findings \cup {ScanRow}

ASSUME RiskAssumption ==
    /\ ScanRow \notin Findings
    /\ RuleOf \in [Findings -> Rules]
    /\ MaxScans \in Nat /\ MaxDecisions \in Nat
    /\ MaxFaults \in Nat /\ MaxCrashes \in Nat

VARIABLES
    findings,   \* finding -> its status in the memory of the backend
    scanning,   \* a scan is under way
    req,        \* client -> its request
    budget

vars == <<pending, errors, rows, findings, scanning, req, budget>>

------------------------------------------------------------------------------
Decisions == {"OPEN", "ACKNOWLEDGED", "RESOLVED", "SUPPRESSED"}
Status == Decisions \cup {"NONE"}

\* A write carries the finding object itself: while it is shared with the memory, a
\* change of the object may still get into the statement.
Write(c, row, value) == [owner |-> c, row |-> row, value |-> value,
                         shared |-> row \in Findings]

\* The writes after the findings fs got the values next: of the writes under way,
\* those picked carry the new value, all others the object that was replaced.
Renewed(fs, next, picked) ==
    {IF w.row \notin fs THEN w
     ELSE [w EXCEPT !.shared = FALSE, !.value = IF w \in picked THEN next[w.row] ELSE @] :
        w \in pending}
Shared(fs) == {w \in pending : w.shared /\ w.row \in fs}

Idle == [pc |-> "idle", rules |-> {}, loaded |-> {}, awaits |-> {}, lost |-> FALSE]
Free(c) == req[c].pc \in {"idle", "answered", "refused"}
Goes(c, pc) == req' = [req EXCEPT ![c].pc = pc]

\* The request c calls flush, as r and with the writes of pending'.
Flushing(c, r, pc) ==
    req' = [req EXCEPT ![c] = [r EXCEPT !.pc = pc, !.awaits = {Key(w) : w \in pending'}]]

Ended(c, pc) == req[c].pc = pc /\ Flushed(req[c].awaits)

Init ==
    /\ pending = {} /\ errors = <<>> /\ rows = [r \in Rows |-> "NONE"]
    /\ findings = [f \in Findings |-> "NONE"]
    /\ scanning = FALSE
    /\ req = [c \in Clients |-> Idle]
    /\ budget = [scans |-> MaxScans, decisions |-> MaxDecisions,
                 faults |-> MaxFaults, crashes |-> MaxCrashes]

------------------------------------------------------------------------------
(* Scans                                                                   *)

ScanStarts(c) ==
    /\ Free(c) /\ ~scanning /\ budget.scans > 0
    /\ budget' = [budget EXCEPT !.scans = @ - 1]
    /\ scanning' = TRUE
    /\ pending' = pending \cup {Write(c, ScanRow, "NONE")}
    /\ \E selected \in SUBSET Rules :
           Flushing(c, [Idle EXCEPT !.rules = selected], "opening")
    /\ UNCHANGED <<errors, rows, findings>>

\* The row of the scan is flushed before the try: an error leaves scanning set.
ScanOpens(c) ==
    /\ Ended(c, "opening")
    /\ \/ FlushReturns /\ Goes(c, "loading")
       \/ FlushThrows /\ Goes(c, "refused")
    /\ UNCHANGED <<pending, rows, findings, scanning, budget>>

\* External: the graph, in which the rules detect any of the findings.
ScanLoads(c) ==
    /\ req[c].pc = "loading"
    /\ \E found \in SUBSET {f \in Findings : RuleOf[f] \in req[c].rules} :
           req' = [req EXCEPT ![c].pc = "evaluating", ![c].loaded = found]
    /\ UNCHANGED <<storeVars, findings, scanning, budget>>

\* upsert of a finding that a rule detects.
Detected(old) == IF old \in {"NONE", "RESOLVED"} THEN "OPEN" ELSE old

\* Slip: the suppressed findings are resolved as well.
ResolvableAll(f) == findings[f] \notin {"NONE", "RESOLVED"}

\* reconcile: a finding that was not detected again is resolved.
Resolvable(f) == findings[f] \notin {"NONE", "RESOLVED", "SUPPRESSED"}

ScanEvaluates(c) ==
    LET ran(f) == RuleOf[f] \in req[c].rules
        hits   == req[c].loaded
        gone   == {f \in Findings \ hits : ran(f) /\ Resolvable(f)}
        next   == [f \in Findings |-> IF f \in hits THEN Detected(findings[f])
                                      ELSE IF f \in gone THEN "RESOLVED"
                                      ELSE findings[f]]
    IN  /\ req[c].pc = "evaluating"
        /\ findings' = next
        /\ \E picked \in SUBSET Shared(gone) :
               pending' = Renewed(hits \cup gone, next, picked)
                            \cup {Write(c, f, next[f]) : f \in hits \cup gone}
                            \cup {Write(c, ScanRow, "NONE")}
        /\ Flushing(c, req[c], "closing")
        /\ UNCHANGED <<errors, rows, scanning, budget>>

ScanCloses(c) ==
    /\ Ended(c, "closing") /\ FlushReturns
    /\ Goes(c, "answered")
    /\ scanning' = FALSE
    /\ UNCHANGED <<pending, rows, findings, budget>>

\* The graph cannot be loaded, or the flush of the results throws: the scan is
\* saved as failed, the findings stay as they are.
ScanFails(c) ==
    /\ \/ req[c].pc = "loading" /\ UNCHANGED errors
       \/ Ended(c, "closing") /\ FlushThrows
    /\ pending' = pending \cup {Write(c, ScanRow, "NONE")}
    /\ Flushing(c, req[c], "failing")
    /\ UNCHANGED <<rows, findings, scanning, budget>>

ScanFailed(c) ==
    /\ Ended(c, "failing")
    /\ FlushReturns \/ FlushThrows
    /\ Goes(c, "refused")
    /\ scanning' = FALSE
    /\ UNCHANGED <<pending, rows, findings, budget>>

------------------------------------------------------------------------------
(* Decisions, writes, the rest of the world                                *)

\* setStatus changes the finding object, which a write of it under way may still
\* pick up, and saves it.
Decide(c, f, status) ==
    /\ Free(c) /\ findings[f] # "NONE" /\ budget.decisions > 0
    /\ budget' = [budget EXCEPT !.decisions = @ - 1]
    /\ findings' = [findings EXCEPT ![f] = status]
    /\ \E picked \in SUBSET Shared({f}) :
           pending' = Renewed({f}, findings', picked) \cup {Write(c, f, status)}
    /\ Flushing(c, Idle, "deciding")
    /\ UNCHANGED <<errors, rows, scanning>>

Decided(c) ==
    /\ Ended(c, "deciding")
    /\ \/ FlushReturns /\ Goes(c, "answered")
       \/ FlushThrows /\ Goes(c, "refused")
    /\ UNCHANGED <<pending, rows, findings, scanning, budget>>

WriteLands(w) ==
    /\ Lands(w)
    /\ UNCHANGED <<findings, scanning, req, budget>>

WriteFails(w) ==
    /\ budget.faults > 0
    /\ budget' = [budget EXCEPT !.faults = @ - 1]
    /\ Fails(w)
    /\ req' = [req EXCEPT ![w.owner].lost = TRUE]
    /\ UNCHANGED <<findings, scanning>>

\* The backend stops and comes up again, with the findings of PostgreSQL.
Restart ==
    /\ budget.crashes > 0
    /\ budget' = [budget EXCEPT !.crashes = @ - 1]
    /\ findings' = [f \in Findings |-> rows[f]]
    /\ scanning' = FALSE /\ pending' = {} /\ errors' = <<>>
    /\ req' = [c \in Clients |-> Idle]
    /\ UNCHANGED <<rows>>

ScanStep(c) ==
    \/ ScanOpens(c) \/ ScanLoads(c) \/ ScanEvaluates(c) \/ ScanCloses(c)
    \/ ScanFails(c) \/ ScanFailed(c)

Next ==
    \/ \E c \in Clients : \/ ScanStarts(c) \/ ScanStep(c) \/ Decided(c)
                          \/ \E f \in Findings, d \in Decisions : Decide(c, f, d)
    \/ \E w \in pending : WriteLands(w) \/ WriteFails(w)
    \/ Restart

Spec == Init /\ [][Next]_vars

------------------------------------------------------------------------------
(* Properties                                                              *)

\* Every part of the memory, the rows and the requests has its type, and a write of a
\* finding carries a decision: a detected finding never keeps the status "NONE".
TypeOK ==
    /\ findings \in [Findings -> Status]
    /\ rows \in [Rows -> Status]
    /\ \A w \in pending : /\ w.owner \in Clients /\ w.row \in Rows
                          /\ w.shared \in BOOLEAN
                          /\ w.row \in Findings => w.value \in Decisions
    /\ errors \in Seq(Clients) /\ scanning \in BOOLEAN
    /\ \A c \in Clients :
           /\ req[c].pc \in {"idle", "opening", "loading", "evaluating", "closing",
                             "failing", "deciding", "answered", "refused"}
           /\ req[c].rules \subseteq Rules /\ req[c].loaded \subseteq Findings
           /\ req[c].awaits \subseteq Clients \X Rows /\ req[c].lost \in BOOLEAN

\* What the writes of f under way say against its suppression, and whose they are.
Contrary(f) == {<<w.owner, w.value>> : w \in {v \in pending : v.row = f /\ v.value # "SUPPRESSED"}}

\* While a finding is suppressed and no analyst decides on it, no step of a scan lifts
\* the suppression and none sends a write of the finding that says something else; its
\* row, once it says so too, is only overwritten by a write that was already under way
\* when the analyst decided; and a restart brings back what the row says.  Such an
\* older write may land after the decision's, and then the row has lost the decision.
SuppressionIsKept ==
    [][\A f \in Findings : findings[f] = "SUPPRESSED" =>
           \/ \E c \in Clients, d \in Decisions : Decide(c, f, d)
           \/ Restart /\ rows[f] # "SUPPRESSED"
           \/ /\ findings'[f] = "SUPPRESSED" /\ Contrary(f)' \subseteq Contrary(f)
              /\ rows[f] = "SUPPRESSED" /\ Contrary(f) = {} => rows'[f] = "SUPPRESSED"]_vars

\* A request that was answered with success has none of its writes under way.
AnsweredIsWritten ==
    \A c \in Clients : req[c].pc = "answered" => \A w \in pending : w.owner # c
=============================================================================

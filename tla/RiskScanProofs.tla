---------------------------- MODULE RiskScanProofs ----------------------------
(***************************************************************************)
(* Proofs about RiskScan for every number of clients, rules and findings   *)
(* and for every bound: its types, that a request that was answered has    *)
(* none of its writes under way, and that neither a scan nor a restart     *)
(* lifts a suppression.                                                    *)
(***************************************************************************)
EXTENDS RiskScan, TLAPS

\* The requests that await a flush.
Waiting == {"opening", "closing", "failing", "deciding"}
Steps == Waiting \cup {"idle", "loading", "evaluating", "answered", "refused"}

Request == [pc : Steps, rules : SUBSET Rules, loaded : SUBSET Findings,
            awaits : SUBSET (Clients \X Rows), lost : BOOLEAN]
WriteRecord == [owner : Clients, row : Rows, value : Status, shared : BOOLEAN]

\* A write of a finding never carries "NONE".
CarryDecisions(ws) == \A w \in ws : w.row \in Findings => w.value \in Decisions

Typed ==
    /\ findings \in [Findings -> Status]
    /\ rows \in [Rows -> Status]
    /\ pending \subseteq WriteRecord /\ CarryDecisions(pending)
    /\ errors \in Seq(Clients)
    /\ scanning \in BOOLEAN
    /\ req \in [Clients -> Request]

\* The owner of a write under way awaits a flush, and that write with it.
Awaited ==
    \A w \in pending : /\ req[w.owner].pc \in Waiting
                       /\ Key(w) \in req[w.owner].awaits

IInv == Typed /\ Awaited

------------------------------------------------------------------------------
(* What the operators of a step do                                         *)

LEMMA NoErrors == <<>> \in Seq(Clients)
OBVIOUS

LEMMA IdleType == Idle \in Request
BY DEF Idle, Request, Steps

\* A new write has its type, and belongs to the request and the row.
LEMMA WriteType ==
    ASSUME NEW c \in Clients, NEW row \in Rows, NEW value \in Status
    PROVE  /\ Write(c, row, value) \in WriteRecord
           /\ Write(c, row, value).owner = c
           /\ Write(c, row, value).row = row
           /\ Write(c, row, value).value = value
BY DEF Write, WriteRecord

\* Renewed changes the values of writes, never whose writes they are or of what.
LEMMA RenewedWrites ==
    ASSUME Typed, NEW fs \in SUBSET Findings, NEW next \in [Findings -> Status],
           \A f \in fs : next[f] \in Decisions, NEW picked
    PROVE  /\ Renewed(fs, next, picked) \subseteq WriteRecord
           /\ CarryDecisions(Renewed(fs, next, picked))
           /\ \A v \in Renewed(fs, next, picked) :
                  \E w \in pending : v.owner = w.owner /\ v.row = w.row
<1> DEFINE new(w) == IF w.row \notin fs THEN w
                     ELSE [w EXCEPT !.shared = FALSE,
                                    !.value = IF w \in picked THEN next[w.row] ELSE @]
<1>1. ASSUME NEW w \in pending
      PROVE  /\ new(w) \in WriteRecord
             /\ new(w).owner = w.owner /\ new(w).row = w.row
             /\ new(w).row \in Findings => new(w).value \in Decisions
  <2>1. w \in WriteRecord /\ (w.row \in Findings => w.value \in Decisions)
    BY DEF Typed, CarryDecisions
  <2>2. CASE w.row \notin fs
    BY <2>1, <2>2
  <2>3. CASE w.row \in fs
    <3>1. next[w.row] \in Decisions /\ w.row \in Findings
      BY <2>3
    <3>. QED
      BY <2>1, <2>3, <3>1 DEF WriteRecord, Status
  <2>. QED
    BY <2>2, <2>3
<1>2. Renewed(fs, next, picked) = {new(w) : w \in pending}
  BY DEF Renewed
<1>. HIDE DEF new
<1>. QED
  BY <1>1, <1>2 DEF CarryDecisions

\* The request c calls flush with writes of its own and those that were under way.
LEMMA FlushingAwaits ==
    ASSUME IInv, NEW c \in Clients, NEW r \in Request, NEW pc \in Waiting,
           pending' \subseteq WriteRecord,
           \A v \in pending' : \/ v.owner = c
                               \/ \E w \in pending : v.owner = w.owner /\ v.row = w.row,
           Flushing(c, r, pc)
    PROVE  req' \in [Clients -> Request] /\ Awaited'
<1> DEFINE awaits == {Key(w) : w \in pending'}
<1>1. awaits \subseteq Clients \X Rows
  BY DEF Key, WriteRecord
<1>2. DEFINE flushing == [r EXCEPT !.pc = pc, !.awaits = awaits]
<1>3. flushing \in Request /\ flushing.pc = pc /\ flushing.awaits = awaits
  BY <1>1 DEF Request, Steps
<1>4. req' = [req EXCEPT ![c] = flushing] /\ req \in [Clients -> Request]
  BY DEF Flushing, IInv, Typed
<1>. HIDE DEF flushing
<1>5. req' \in [Clients -> Request]
  BY <1>3, <1>4
<1>6. ASSUME NEW v \in pending'
      PROVE  req'[v.owner].pc \in Waiting /\ Key(v) \in req'[v.owner].awaits
  <2>1. v.owner \in Clients /\ Key(v) \in awaits
    BY DEF WriteRecord
  <2>2. CASE v.owner = c
    BY <1>3, <1>4, <2>1, <2>2
  <2>3. CASE v.owner # c
    <3>1. PICK w \in pending : v.owner = w.owner /\ v.row = w.row
      BY <2>3
    <3>2. req'[v.owner] = req[w.owner] /\ Key(v) = Key(w)
      BY <1>4, <2>1, <2>3, <3>1 DEF Key
    <3>. QED
      BY <3>2 DEF IInv, Awaited
  <2>. QED
    BY <2>2, <2>3
<1>. QED
  BY <1>5, <1>6 DEF Awaited, Key

\* A request has no write under way once its flush has ended, or outside of a flush.
LEMMA NothingAwaited ==
    ASSUME IInv, NEW c \in Clients,
           req[c].pc \notin Waiting \/ Flushed(req[c].awaits)
    PROVE  \A w \in pending : w.owner # c
BY DEF IInv, Awaited, Flushed

\* Such a request may go on, as long as no write is added.
LEMMA GoesOn ==
    ASSUME IInv, NEW c \in Clients, NEW r \in Request, pending' = pending,
           req[c].pc \notin Waiting \/ Flushed(req[c].awaits),
           req' = [req EXCEPT ![c] = r]
    PROVE  req' \in [Clients -> Request] /\ Awaited'
<1>1. req' \in [Clients -> Request]
  BY DEF IInv, Typed
<1>2. ASSUME NEW w \in pending
      PROVE  req'[w.owner] = req[w.owner]
  BY NothingAwaited DEF IInv, Typed, WriteRecord
<1>. QED
  BY <1>1, <1>2 DEF IInv, Awaited, Key

LEMMA GoesType ==
    ASSUME Typed, NEW c \in Clients, NEW pc \in Steps, Goes(c, pc)
    PROVE  \E r \in Request : req' = [req EXCEPT ![c] = r]
<1>1. [req[c] EXCEPT !.pc = pc] \in Request
  BY DEF Typed, Request
<1>2. req' = [req EXCEPT ![c] = [req[c] EXCEPT !.pc = pc]]
  BY DEF Goes
<1>. QED
  BY <1>1, <1>2

\* What flush does to the errors keeps their type.
LEMMA FlushErrors ==
    ASSUME errors \in Seq(Clients), FlushReturns \/ FlushThrows
    PROVE  errors' \in Seq(Clients)
BY DEF FlushReturns, FlushThrows

------------------------------------------------------------------------------
(* One lemma per step of a request that has more to it than its new place  *)

LEMMA ScanStartsKeeps ==
    ASSUME IInv, NEW c \in Clients, ScanStarts(c)
    PROVE  IInv'
<1>1. /\ Write(c, ScanRow, "NONE") \in WriteRecord
      /\ Write(c, ScanRow, "NONE").owner = c /\ Write(c, ScanRow, "NONE").row = ScanRow
  BY WriteType DEF Rows, Status
<1>2. pending' = pending \cup {Write(c, ScanRow, "NONE")}
  BY DEF ScanStarts
<1>3. pending' \subseteq WriteRecord /\ CarryDecisions(pending')
  BY <1>1, <1>2, RiskAssumption DEF IInv, Typed, CarryDecisions
<1>4. PICK selected \in SUBSET Rules :
          Flushing(c, [Idle EXCEPT !.rules = selected], "opening")
  BY DEF ScanStarts
<1>5. [Idle EXCEPT !.rules = selected] \in Request
  BY IdleType DEF Request
<1>6. req' \in [Clients -> Request] /\ Awaited'
  BY <1>1, <1>2, <1>3, <1>4, <1>5, FlushingAwaits DEF Waiting
<1>. QED
  BY <1>3, <1>6 DEF ScanStarts, IInv, Typed

LEMMA ScanFailsKeeps ==
    ASSUME IInv, NEW c \in Clients, ScanFails(c)
    PROVE  IInv'
<1>1. /\ Write(c, ScanRow, "NONE") \in WriteRecord
      /\ Write(c, ScanRow, "NONE").owner = c /\ Write(c, ScanRow, "NONE").row = ScanRow
  BY WriteType DEF Rows, Status
<1>2. pending' = pending \cup {Write(c, ScanRow, "NONE")}
  BY DEF ScanFails
<1>3. pending' \subseteq WriteRecord /\ CarryDecisions(pending')
  BY <1>1, <1>2, RiskAssumption DEF IInv, Typed, CarryDecisions
<1>4. req[c] \in Request /\ Flushing(c, req[c], "failing")
  BY DEF ScanFails, IInv, Typed
<1>5. req' \in [Clients -> Request] /\ Awaited'
  BY <1>1, <1>2, <1>3, <1>4, FlushingAwaits DEF Waiting
<1>6. errors' \in Seq(Clients)
  BY FlushErrors DEF ScanFails, IInv, Typed
<1>. QED
  BY <1>3, <1>5, <1>6 DEF ScanFails, IInv, Typed

LEMMA DecideKeeps ==
    ASSUME IInv, NEW c \in Clients, NEW f \in Findings, NEW d \in Decisions,
           Decide(c, f, d)
    PROVE  IInv'
<1>1. findings' \in [Findings -> Status] /\ findings'[f] = d
  BY DEF Decide, IInv, Typed, Status
<1>2. /\ Write(c, f, d) \in WriteRecord /\ Write(c, f, d).owner = c
      /\ Write(c, f, d).value = d
  BY WriteType DEF Rows, Status
<1>3. PICK picked : pending' = Renewed({f}, findings', picked) \cup {Write(c, f, d)}
  BY DEF Decide
<1>4. /\ Renewed({f}, findings', picked) \subseteq WriteRecord
      /\ CarryDecisions(Renewed({f}, findings', picked))
      /\ \A v \in Renewed({f}, findings', picked) :
             \E w \in pending : v.owner = w.owner /\ v.row = w.row
  BY <1>1, RenewedWrites DEF IInv
<1>5. pending' \subseteq WriteRecord /\ CarryDecisions(pending')
  BY <1>2, <1>3, <1>4 DEF CarryDecisions
<1>6. req' \in [Clients -> Request] /\ Awaited'
  BY <1>2, <1>3, <1>4, <1>5, IdleType, FlushingAwaits DEF Decide, Waiting
<1>. QED
  BY <1>1, <1>5, <1>6 DEF Decide, IInv, Typed

\* The findings that a rule detects and those that are resolved carry a decision.
LEMMA ScanEvaluatesKeeps ==
    ASSUME IInv, NEW c \in Clients, ScanEvaluates(c)
    PROVE  IInv'
<1> DEFINE hits == req[c].loaded
           gone == {f \in Findings \ hits : RuleOf[f] \in req[c].rules /\ Resolvable(f)}
           fs   == hits \cup gone
           news == {Write(c, f, findings'[f]) : f \in fs}
<1>1. req[c] \in Request /\ hits \subseteq Findings /\ gone \subseteq Findings
  BY DEF IInv, Typed, Request
<1>2. findings' = [f \in Findings |-> IF f \in hits THEN Detected(findings[f])
                                     ELSE IF f \in gone THEN "RESOLVED" ELSE findings[f]]
  BY DEF ScanEvaluates
<1>3. \A f \in Findings : findings[f] \in Status /\ Detected(findings[f]) \in Decisions
  BY DEF IInv, Typed, Status, Decisions, Detected
<1>4. findings' \in [Findings -> Status] /\ \A f \in fs : findings'[f] \in Decisions
  <2>. HIDE DEF gone, hits
  <2>1. "RESOLVED" \in Decisions
    BY DEF Decisions
  <2>. QED
    BY <1>1, <1>2, <1>3, <2>1 DEF Status
<1>5. PICK picked : pending' = Renewed(fs, findings', picked) \cup news
                                 \cup {Write(c, ScanRow, "NONE")}
  BY <1>2 DEF ScanEvaluates
<1>6. /\ Renewed(fs, findings', picked) \subseteq WriteRecord
      /\ CarryDecisions(Renewed(fs, findings', picked))
      /\ \A v \in Renewed(fs, findings', picked) :
             \E w \in pending : v.owner = w.owner /\ v.row = w.row
  <2>1. fs \in SUBSET Findings
    BY <1>1
  <2>. HIDE DEF fs
  <2>. QED
    BY <1>4, <2>1, RenewedWrites DEF IInv
<1>7. \A v \in news : v \in WriteRecord /\ v.owner = c /\ v.value \in Decisions
  <2>1. fs \subseteq Rows
    BY <1>1 DEF Rows
  <2>. HIDE DEF fs
  <2>. QED
    BY <1>4, <2>1, WriteType DEF Status
<1>8. /\ Write(c, ScanRow, "NONE") \in WriteRecord
      /\ Write(c, ScanRow, "NONE").owner = c /\ Write(c, ScanRow, "NONE").row = ScanRow
  BY WriteType DEF Rows, Status
<1>. HIDE DEF fs, news
<1>9. pending' \subseteq WriteRecord /\ CarryDecisions(pending')
  BY <1>5, <1>6, <1>7, <1>8, RiskAssumption DEF CarryDecisions
<1>10. Flushing(c, req[c], "closing")
  BY DEF ScanEvaluates
<1>11. req' \in [Clients -> Request] /\ Awaited'
  BY <1>1, <1>5, <1>6, <1>7, <1>8, <1>9, <1>10, FlushingAwaits DEF Waiting
<1>. QED
  BY <1>4, <1>9, <1>11 DEF ScanEvaluates, IInv, Typed

\* The steps that add no write: the request had none under way, or none any more.
LEMMA ScanGoesOnKeeps ==
    ASSUME IInv, NEW c \in Clients,
           \/ ScanOpens(c) \/ ScanLoads(c) \/ ScanCloses(c) \/ ScanFailed(c) \/ Decided(c)
    PROVE  IInv'
<1>1. req[c].pc \notin Waiting \/ Flushed(req[c].awaits)
  BY DEF ScanOpens, ScanLoads, ScanCloses, ScanFailed, Decided, Ended, Waiting
<1>2. \E r \in Request : req' = [req EXCEPT ![c] = r]
  <2>1. ASSUME NEW pc \in {"loading", "refused", "answered"}, Goes(c, pc)
        PROVE  \E r \in Request : req' = [req EXCEPT ![c] = r]
    BY <2>1, GoesType DEF IInv, Steps
  <2>2. CASE ScanLoads(c)
    <3>1. PICK found \in SUBSET {f \in Findings : RuleOf[f] \in req[c].rules} :
              req' = [req EXCEPT ![c].pc = "evaluating", ![c].loaded = found]
      BY <2>2 DEF ScanLoads
    <3>2. [req[c] EXCEPT !.pc = "evaluating", !.loaded = found] \in Request
      BY DEF IInv, Typed, Request, Steps
    <3>3. req' = [req EXCEPT ![c] = [req[c] EXCEPT !.pc = "evaluating", !.loaded = found]]
      BY <3>1 DEF IInv, Typed
    <3>. QED
      BY <3>2, <3>3
  <2>. QED
    BY <2>1, <2>2 DEF ScanOpens, ScanCloses, ScanFailed, Decided
<1>3. errors' \in Seq(Clients)
  <2>1. CASE ScanLoads(c)
    BY <2>1 DEF ScanLoads, storeVars, IInv, Typed
  <2>2. CASE ~ScanLoads(c)
    <3>1. FlushReturns \/ FlushThrows
      BY <2>2 DEF ScanOpens, ScanCloses, ScanFailed, Decided
    <3>. QED
      BY <3>1, FlushErrors DEF IInv, Typed
  <2>. QED
    BY <2>1, <2>2
<1>4. UNCHANGED <<pending, rows, findings>> /\ scanning' \in BOOLEAN
  BY DEF ScanOpens, ScanLoads, ScanCloses, ScanFailed, Decided, storeVars, IInv, Typed
<1>5. req' \in [Clients -> Request] /\ Awaited'
  BY <1>1, <1>2, <1>4, GoesOn
<1>. QED
  BY <1>3, <1>4, <1>5 DEF IInv, Typed

LEMMA WriteLandsKeeps ==
    ASSUME IInv, NEW w \in pending, WriteLands(w)
    PROVE  IInv'
<1>1. w.row \in Rows /\ w.value \in Status
  BY DEF IInv, Typed, WriteRecord
<1>2. rows' \in [Rows -> Status] /\ pending' \subseteq pending
  BY <1>1 DEF WriteLands, Lands, IInv, Typed
<1>. QED
  BY <1>2 DEF WriteLands, Lands, IInv, Typed, CarryDecisions, Awaited, Key

LEMMA WriteFailsKeeps ==
    ASSUME IInv, NEW w \in pending, WriteFails(w)
    PROVE  IInv'
<1>1. w.owner \in Clients /\ pending' \subseteq pending
  BY DEF WriteFails, Fails, IInv, Typed, WriteRecord
<1>2. errors' \in Seq(Clients)
  BY <1>1 DEF WriteFails, Fails, IInv, Typed
<1>3. /\ req' \in [Clients -> Request]
      /\ \A c \in Clients : req'[c].pc = req[c].pc /\ req'[c].awaits = req[c].awaits
  <2>1. req \in [Clients -> Request]
    BY DEF IInv, Typed
  <2>2. \A r \in Request : /\ [r EXCEPT !.lost = TRUE] \in Request
                           /\ [r EXCEPT !.lost = TRUE].pc = r.pc
                           /\ [r EXCEPT !.lost = TRUE].awaits = r.awaits
    BY DEF Request
  <2>3. req' = [req EXCEPT ![w.owner] = [req[w.owner] EXCEPT !.lost = TRUE]]
    BY DEF WriteFails
  <2>. QED
    BY <1>1, <2>1, <2>2, <2>3
<1>4. Awaited'
  BY <1>1, <1>3 DEF IInv, Typed, Awaited, WriteRecord, Key
<1>. QED
  BY <1>1, <1>2, <1>3, <1>4 DEF WriteFails, Fails, IInv, Typed, CarryDecisions

LEMMA RestartKeeps ==
    ASSUME IInv, Restart
    PROVE  IInv'
<1>1. findings' \in [Findings -> Status]
  BY DEF Restart, IInv, Typed, Rows
<1>2. errors' \in Seq(Clients) /\ scanning' \in BOOLEAN /\ UNCHANGED rows
  BY NoErrors DEF Restart
<1>3. req' \in [Clients -> Request]
  BY IdleType DEF Restart
<1>4. pending' = {}
  BY DEF Restart
<1>. QED
  BY <1>1, <1>2, <1>3, <1>4 DEF IInv, Typed, CarryDecisions, Awaited

------------------------------------------------------------------------------
(* The theorems                                                            *)

\* Every write under way is awaited by the request that it belongs to, whatever the
\* requests, the writes that fail and the restarts: the inductive invariant.
THEOREM WritesAreAwaited == Spec => []IInv
<1>1. Init => IInv
  <2>. SUFFICES ASSUME Init PROVE IInv
    OBVIOUS
  <2>1. errors \in Seq(Clients) /\ scanning \in BOOLEAN /\ pending = {}
    BY NoErrors DEF Init
  <2>2. findings \in [Findings -> Status] /\ rows \in [Rows -> Status]
    BY DEF Init, Status
  <2>3. req \in [Clients -> Request]
    BY IdleType DEF Init
  <2>. QED
    BY <2>1, <2>2, <2>3 DEF IInv, Typed, CarryDecisions, Awaited
<1>2. IInv /\ [Next]_vars => IInv'
  <2>. SUFFICES ASSUME IInv, [Next]_vars PROVE IInv'
    OBVIOUS
  <2>1. CASE UNCHANGED vars
    BY <2>1 DEF vars, IInv, Typed, CarryDecisions, Awaited, Key
  <2>2. ASSUME NEW c \in Clients, ScanStarts(c) PROVE IInv'
    BY <2>2, ScanStartsKeeps
  <2>3. ASSUME NEW c \in Clients, ScanStep(c) PROVE IInv'
    BY <2>3, ScanGoesOnKeeps, ScanEvaluatesKeeps, ScanFailsKeeps DEF ScanStep
  <2>4. ASSUME NEW c \in Clients, Decided(c) PROVE IInv'
    BY <2>4, ScanGoesOnKeeps
  <2>5. ASSUME NEW c \in Clients, NEW f \in Findings, NEW d \in Decisions, Decide(c, f, d)
        PROVE  IInv'
    BY <2>5, DecideKeeps
  <2>6. ASSUME NEW w \in pending, WriteLands(w) \/ WriteFails(w) PROVE IInv'
    BY <2>6, WriteLandsKeeps, WriteFailsKeeps
  <2>7. CASE Restart
    BY <2>7, RestartKeeps
  <2>. QED
    BY <2>1, <2>2, <2>3, <2>4, <2>5, <2>6, <2>7 DEF Next
<1>. QED
  BY <1>1, <1>2, PTL DEF Spec

\* TypeOK: the memory, the rows, the writes and the requests keep their types.
THEOREM TypeCorrect == Spec => []TypeOK
<1>1. IInv => TypeOK
  <2>. SUFFICES ASSUME IInv PROVE TypeOK
    OBVIOUS
  <2>1. \A w \in pending : /\ w.owner \in Clients /\ w.row \in Rows /\ w.shared \in BOOLEAN
                           /\ w.row \in Findings => w.value \in Decisions
    BY DEF IInv, Typed, WriteRecord, CarryDecisions
  <2>2. \A c \in Clients : /\ req[c].pc \in Steps /\ req[c].rules \subseteq Rules
                           /\ req[c].loaded \subseteq Findings
                           /\ req[c].awaits \subseteq Clients \X Rows
                           /\ req[c].lost \in BOOLEAN
    BY DEF IInv, Typed, Request
  <2>. QED
    BY <2>1, <2>2 DEF IInv, Typed, TypeOK, Steps, Waiting
<1>. QED
  BY <1>1, WritesAreAwaited, PTL

\* AnsweredIsWritten: RiskService answers a request only after flush has seen the end
\* of each of its writes.
THEOREM AnsweredAreWritten == Spec => []AnsweredIsWritten
<1>1. IInv => AnsweredIsWritten
  BY DEF IInv, Awaited, AnsweredIsWritten, Waiting
<1>. QED
  BY <1>1, WritesAreAwaited, PTL

\* SuppressionIsKept: while a finding is suppressed no scan lifts that or sends a write
\* that says something else, and a stored suppression survives every write and restart
\* unless a contrary write was already under way when the analyst decided.
THEOREM SuppressionsAreKept == Spec => SuppressionIsKept
<1> DEFINE Keeps(f) ==
        \/ \E c \in Clients, d \in Decisions : Decide(c, f, d)
        \/ Restart /\ rows[f] # "SUPPRESSED"
        \/ /\ findings'[f] = "SUPPRESSED" /\ Contrary(f)' \subseteq Contrary(f)
           /\ (rows[f] = "SUPPRESSED" /\ Contrary(f) = {}) => rows'[f] = "SUPPRESSED"
           Stays(f) == \A v \in pending' : v.row = f /\ v.value # "SUPPRESSED" => v \in pending
<1>1. IInv /\ [Next]_vars => \A f \in Findings : findings[f] = "SUPPRESSED" => Keeps(f)
  <2>. SUFFICES ASSUME IInv, [Next]_vars, NEW f \in Findings, findings[f] = "SUPPRESSED"
                PROVE  Keeps(f)
    OBVIOUS
  <2>0. /\ findings \in [Findings -> Status] /\ rows \in [Rows -> Status]
        /\ f \in Rows /\ f # ScanRow
    BY RiskAssumption DEF IInv, Typed, Rows
  <2>1. ASSUME findings'[f] = "SUPPRESSED", Stays(f), UNCHANGED rows PROVE Keeps(f)
    <3>1. Contrary(f)' \subseteq Contrary(f)
      BY <2>1 DEF Contrary
    <3>. QED
      BY <2>1, <3>1
  <2>2. ASSUME NEW c \in Clients, ScanEvaluates(c) PROVE Keeps(f)
    <3> DEFINE hits == req[c].loaded
               gone == {g \in Findings \ hits : RuleOf[g] \in req[c].rules /\ Resolvable(g)}
               news == {Write(c, g, findings'[g]) : g \in hits \cup gone}
    <3>1. ~Resolvable(f) /\ Detected(findings[f]) = findings[f]
      BY DEF Resolvable, Detected
    <3>2. findings'[f] = "SUPPRESSED" /\ UNCHANGED rows
      BY <2>2, <3>1 DEF ScanEvaluates
    <3>3. PICK picked : pending' = Renewed(hits \cup gone, findings', picked) \cup news
                                     \cup {Write(c, ScanRow, "NONE")}
      BY <2>2 DEF ScanEvaluates
    <3>4. ASSUME NEW v \in Renewed(hits \cup gone, findings', picked),
                 v.row = f, v.value # "SUPPRESSED"
          PROVE  <<v.owner, v.value>> \in Contrary(f)
      <4>1. PICK w \in pending :
                v = IF w.row \notin hits \cup gone THEN w
                    ELSE [w EXCEPT !.shared = FALSE,
                                   !.value = IF w \in picked THEN findings'[w.row] ELSE @]
        BY <3>4 DEF Renewed
      <4>2. w \in WriteRecord
        BY DEF IInv, Typed
      <4>3. v.row = w.row /\ v.owner = w.owner
            /\ (v.value = w.value \/ v.value = findings'[w.row])
        BY <4>1, <4>2 DEF WriteRecord
      <4>. QED
        BY <3>2, <3>4, <4>3 DEF Contrary
    <3>5. ASSUME NEW v \in news \cup {Write(c, ScanRow, "NONE")}, v.row = f
          PROVE  v.value = "SUPPRESSED"
      BY <2>0, <3>2, <3>5 DEF Write
    <3>. HIDE DEF news, gone, hits
    <3>6. Contrary(f)' \subseteq Contrary(f)
      <4>. SUFFICES ASSUME NEW v \in pending', v.row = f, v.value # "SUPPRESSED"
                    PROVE  <<v.owner, v.value>> \in Contrary(f)
        BY DEF Contrary
      <4>. QED
        BY <3>3, <3>4, <3>5
    <3>. QED
      BY <3>2, <3>6
  <2>3. ASSUME NEW c \in Clients, NEW g \in Findings, NEW d \in Decisions, Decide(c, g, d)
        PROVE  Keeps(f)
    <3>1. CASE g = f
      BY <2>3, <3>1
    <3>2. CASE g # f
      <4>1. findings'[f] = "SUPPRESSED" /\ UNCHANGED rows
        BY <2>0, <2>3, <3>2 DEF Decide
      <4>2. PICK picked : pending' = Renewed({g}, findings', picked) \cup {Write(c, g, d)}
        BY <2>3 DEF Decide
      <4>3. Write(c, g, d).row = g
        BY DEF Write
      <4>4. ASSUME NEW v \in Renewed({g}, findings', picked), v.row = f
            PROVE  v \in pending
        <5>1. PICK w \in pending :
                  v = IF w.row \notin {g} THEN w
                      ELSE [w EXCEPT !.shared = FALSE,
                                     !.value = IF w \in picked THEN findings'[w.row] ELSE @]
          BY <4>4 DEF Renewed
        <5>2. w \in WriteRecord
          BY DEF IInv, Typed
        <5>3. CASE w.row = g
          <6>1. v.row = g
            BY <5>1, <5>2, <5>3 DEF WriteRecord
          <6>. QED
            BY <3>2, <4>4, <6>1
        <5>. QED
          BY <5>1, <5>3
      <4>5. Stays(f)
        BY <3>2, <4>2, <4>3, <4>4
      <4>. HIDE DEF Keeps, Stays
      <4>. QED
        BY <2>1, <4>1, <4>5
    <3>. QED
      BY <3>1, <3>2
  <2>4. CASE Restart
    <3>1. /\ findings' = [g \in Findings |-> rows[g]] /\ pending' = {} /\ UNCHANGED rows
      BY <2>4 DEF Restart
    <3>. QED
      BY <2>0, <2>4, <3>1 DEF Contrary
  <2>5. ASSUME NEW c \in Clients, ScanOpens(c) \/ ScanLoads(c) \/ ScanCloses(c)
                  \/ ScanFailed(c) \/ Decided(c)
        PROVE  Keeps(f)
    <3>1. UNCHANGED <<findings, pending, rows>>
      BY <2>5 DEF ScanOpens, ScanLoads, ScanCloses, ScanFailed, Decided, storeVars
    <3>. HIDE DEF Keeps
    <3>. QED
      BY <2>1, <3>1
  <2>6. ASSUME NEW c \in Clients, ScanStarts(c) \/ ScanFails(c) PROVE Keeps(f)
    <3>1. /\ UNCHANGED <<findings, rows>>
          /\ pending' = pending \cup {Write(c, ScanRow, "NONE")}
      BY <2>6 DEF ScanStarts, ScanFails
    <3>2. Stays(f)
      BY <2>0, <3>1 DEF Write
    <3>. HIDE DEF Keeps, Stays
    <3>. QED
      BY <2>1, <3>1, <3>2
  <2>7. ASSUME NEW w \in pending, WriteLands(w) PROVE Keeps(f)
    <3>1. /\ UNCHANGED findings /\ pending' = pending \ {w}
          /\ rows' = [rows EXCEPT ![w.row] = w.value]
      BY <2>7 DEF WriteLands, Lands
    <3>2. Contrary(f)' \subseteq Contrary(f)
      BY <3>1 DEF Contrary
    <3>3. ASSUME Contrary(f) = {}, rows[f] = "SUPPRESSED" PROVE rows'[f] = "SUPPRESSED"
      <4>1. w.row = f => w.value = "SUPPRESSED"
        BY <3>3 DEF Contrary
      <4>. QED
        BY <2>0, <3>1, <3>3, <4>1
    <3>. QED
      BY <3>1, <3>2, <3>3
  <2>8. ASSUME NEW w \in pending, WriteFails(w) PROVE Keeps(f)
    <3>1. UNCHANGED <<findings, rows>> /\ pending' = pending \ {w}
      BY <2>8 DEF WriteFails, Fails
    <3>2. Stays(f)
      BY <3>1
    <3>. HIDE DEF Keeps, Stays
    <3>. QED
      BY <2>1, <3>1, <3>2
  <2>9. CASE UNCHANGED vars
    <3>1. UNCHANGED <<findings, pending, rows>>
      BY <2>9 DEF vars
    <3>. HIDE DEF Keeps
    <3>. QED
      BY <2>1, <3>1
  <2>. HIDE DEF Keeps
  <2>. QED
    BY <2>2, <2>3, <2>4, <2>5, <2>6, <2>7, <2>8, <2>9 DEF Next, ScanStep
<1>. QED
  BY <1>1, WritesAreAwaited, PTL DEF Spec, SuppressionIsKept
===============================================================================

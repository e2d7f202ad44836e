---------------------------- MODULE ConnectorsProofs ----------------------------
(***************************************************************************)
(* Proofs about Connectors for every number of requests, every directory   *)
(* and all bounds: that a connector is run at most once at a time, that a  *)
(* run without competition is answered when the connector is stored, that  *)
(* what an administrator decided is kept, that no node of the graph goes   *)
(* back to an older version, and that a full run leaves the whole          *)
(* directory in the graph.                                                 *)
(*                                                                         *)
(* A decision is undone in three ways if at all: by a run or a test that   *)
(* holds the object and saves it, by a statement that was asked for before *)
(* and lands after, and by the row a restart finds.  The invariant says of *)
(* each why it is not.  The invariant of the answer is of a request alone: *)
(* all writes under way are its own, carry what an administrator decided,  *)
(* and the row is like the connector once its last write has landed.  No   *)
(* node goes back because whatever a run has found is at least as new as   *)
(* what the graph shows of the object, and stays so: there is no other     *)
(* run that would apply a newer version meanwhile.                         *)
(*                                                                         *)
(* That a full run is whole goes through what each mapper draws of what    *)
(* the run has found (Draws), and needs that no node of an earlier run     *)
(* goes by the name of an object and that no earlier membership is stale.  *)
(***************************************************************************)
EXTENDS Connectors, TLAPS

Record == [status : Statuses, enabled : BOOLEAN, synced : 0 .. bounds.time]

WriteRecord ==
    [deletes : BOOLEAN, by : Requests, step : {"only", "first", "last"},
     value : {Unsent} \cup [sent : {TRUE}, of : ConnectorObjects]]

Typed ==
    /\ bounds \in Instances /\ clock \in 1 .. bounds.time
    /\ connector \in ConnectorObjects /\ row \in ConnectorObjects
    /\ listed \in BOOLEAN /\ active \in BOOLEAN
    /\ pending \subseteq WriteRecord
    /\ errors \in 0 .. bounds.errors
    /\ DOMAIN calls = Requests /\ \A r \in Requests : "pc" \in DOMAIN calls[r]

\* Who may save the object has it, and the service runs it once.
Held ==
    /\ listed => connector # None
    /\ \A r \in Requests : UnderWay(r) => connector # None
    /\ \A r, q \in Requests : Running(r) /\ Running(q) => r = q
    /\ active <=> \E r \in Requests : Running(r)

\* A request that is not made has written nothing, one that awaits its writes awaits all.
Awaited ==
    \A r \in Requests, w \in pending : w.by = r =>
        /\ calls[r].pc # "idle"
        /\ calls[r].pc = "flush" => Key(w) \in calls[r].waits
        /\ ~(calls[r].pc = "ok" /\ calls[r].status = "COMPLETED")

CInv == Typed /\ Held /\ Awaited

-----------------------------------------------------------------------------
(* The records *)

\* No record of a connector is None.
LEMMA NoneIsApart == ASSUME NEW b \in Instances, bounds = b PROVE None \notin Record
<1>1. b.time \in Nat
  BY ConnectorsAssumption
<1>2. Record \subseteq [status : Statuses, enabled : BOOLEAN, synced : Nat]
  BY <1>1 DEF Record
<1>. QED
  BY <1>2, ConnectorsAssumption

\* An object that is there is a record, and stays one when its fields are set.
LEMMA ObjectThere ==
    ASSUME Typed, connector # None
    PROVE  /\ connector \in Record /\ None \notin Record
           /\ Record \subseteq ConnectorObjects /\ None \in ConnectorObjects
<1>1. None \notin Record
  BY NoneIsApart DEF Typed
<1>. QED
  BY <1>1 DEF Typed, ConnectorObjects, Record

LEMMA StatusSet ==
    ASSUME NEW c \in Record, NEW status \in Statuses
    PROVE  [c EXCEPT !.status = status] \in Record
BY DEF Record

LEMMA EnabledSet ==
    ASSUME NEW c \in Record, NEW status \in Statuses, NEW enabled \in BOOLEAN
    PROVE  [c EXCEPT !.enabled = enabled, !.status = status] \in Record
BY DEF Record

LEMMA SyncedSet ==
    ASSUME NEW c \in Record, NEW status \in Statuses, NEW synced \in 0 .. bounds.time
    PROVE  [c EXCEPT !.status = status, !.synced = synced] \in Record
BY DEF Record

LEMMA BoundsKept ==
    ASSUME UNCHANGED bounds
    PROVE  Record' = Record /\ ConnectorObjects' = ConnectorObjects /\ WriteRecord' = WriteRecord
<1>1. ConnectorObjects' = ConnectorObjects
  BY DEF ConnectorObjects
<1>. QED
  BY <1>1 DEF Record, WriteRecord

\* What is tracked.
LEMMA WritesTyped ==
    ASSUME NEW r \in Requests, NEW step \in {"only", "first", "last"}
    PROVE  SaveWrite(r, step) \in WriteRecord /\ DeleteWrite(r) \in WriteRecord
BY DEF SaveWrite, DeleteWrite, WriteRecord

-----------------------------------------------------------------------------
(* The writes *)

LEMMA SendKeeps == ASSUME CInv, NEW w \in pending, Send(w) PROVE CInv'
<1> DEFINE v == [w EXCEPT !.value = Sent(Payload(w))]
<1>1. w \in WriteRecord /\ pending' = (pending \ {w}) \cup {v}
      /\ UNCHANGED <<bounds, clock, memory, calls, errors, row>>
  BY DEF Send, CInv, Typed
<1>2. Payload(w) \in ConnectorObjects
  BY DEF Payload, CInv, Typed, ConnectorObjects
<1>3. v \in WriteRecord /\ v.by = w.by /\ Key(v) = Key(w)
  BY <1>1, <1>2 DEF WriteRecord, Sent, Key
<1> HIDE DEF v
<1>4. Typed'
  BY <1>1, <1>3, BoundsKept DEF CInv, Typed, memory
<1>5. Held'
  BY <1>1 DEF CInv, Held, memory, Running, UnderWay
<1>6. Awaited'
  BY <1>1, <1>3 DEF CInv, Awaited, Key
<1>. QED
  BY <1>4, <1>5, <1>6 DEF CInv

\* A row under way.
LEMMA SentTyped ==
    ASSUME NEW w \in WriteRecord, w.value.sent
    PROVE  w.value.of \in ConnectorObjects
<1>1. w.value \in {Unsent} \cup [sent : {TRUE}, of : ConnectorObjects]
  BY DEF WriteRecord
<1>2. w.value # Unsent
  BY DEF Unsent
<1>. QED
  BY <1>1, <1>2

LEMMA LandKeeps == ASSUME CInv, NEW w \in pending, Land(w) PROVE CInv'
<1>1. w \in WriteRecord /\ w.value.sent /\ pending' = pending \ {w} /\ row' = w.value.of
      /\ UNCHANGED <<bounds, clock, memory, calls, errors>>
  BY DEF Land, CInv, Typed
<1>2. row' \in ConnectorObjects
  BY <1>1, SentTyped
<1>. QED
  BY <1>1, <1>2, BoundsKept DEF CInv, Typed, Held, Awaited, memory, Running, UnderWay, Key

LEMMA FailKeeps == ASSUME CInv, NEW w \in pending, Fail(w) PROVE CInv'
<1>1. /\ pending' = pending \ {w} /\ errors' \in 0 .. bounds.errors
      /\ UNCHANGED <<bounds, clock, memory, row>>
  BY ConnectorsAssumption DEF Fail, CInv, Typed
<1>2. /\ DOMAIN calls' = Requests
      /\ \A r \in Requests :
            \/ calls'[r] = calls[r]
            \/ calls[r].pc = "flush" /\ calls'[r] = Ended("error", calls[r].status)
  BY DEF Fail
<1>3. \A r \in Requests : /\ Running(r)' <=> Running(r)
                          /\ UnderWay(r)' <=> UnderWay(r)
                          /\ "pc" \in DOMAIN calls'[r]
  BY <1>2 DEF Running, UnderWay, Ended, CInv, Typed
<1>4. Awaited'
  BY <1>1, <1>2 DEF CInv, Awaited, Key, Ended
<1>. QED
  BY <1>1, <1>2, <1>3, <1>4, BoundsKept DEF CInv, Typed, Held, memory

-----------------------------------------------------------------------------
(* The run *)

Steps == {"extract", "apply", "scan", "complete", "throws"}

\* A run goes on with its next step.
LEMMA GoesOnKeeps ==
    ASSUME CInv, NEW r \in Requests, NEW x, "pc" \in DOMAIN x, x.pc \in Steps,
           Running(r), calls' = [calls EXCEPT ![r] = x],
           UNCHANGED <<bounds, clock, memory, store>>
    PROVE  CInv'
<1>1. /\ DOMAIN calls' = Requests /\ calls'[r] = x
      /\ \A q \in Requests : q # r => calls'[q] = calls[q]
  BY DEF CInv, Typed
<1>2. \A q \in Requests : /\ Running(q)' <=> Running(q)
                          /\ UnderWay(q)' <=> UnderWay(q)
                          /\ "pc" \in DOMAIN calls'[q]
  BY <1>1 DEF Running, UnderWay, Steps, CInv, Typed
<1>3. Awaited'
  BY <1>1 DEF CInv, Awaited, Steps, store, Key, Running
<1>. QED
  BY <1>1, <1>2, <1>3, BoundsKept DEF CInv, Typed, Held, memory, store

LEMMA ReachedStep ==
    ASSUME NEW call, "pc" \in DOMAIN call
    PROVE  "pc" \in DOMAIN Reached(call) /\ Reached(call).pc \in Steps
BY DEF Reached, Steps

LEMMA ExtractKeeps ==
    ASSUME CInv, NEW r \in Requests, Search(r) \/ Skip(r) \/ Command(r) \/ Applies(r)
    PROVE  CInv'
<1>1. "pc" \in DOMAIN calls[r]
  BY DEF CInv, Typed
<1>2. Running(r) /\ UNCHANGED <<bounds, clock, memory, store>>
  BY DEF Search, Skip, Command, Applies, Running
<1>3. ASSUME NEW call, "pc" \in DOMAIN call, calls' = [calls EXCEPT ![r] = Reached(call)]
      PROVE  CInv'
  BY <1>2, <1>3, ReachedStep, GoesOnKeeps
<1>4. CASE Search(r)
  <2> DEFINE i == calls[r].next
             entry == IF Exists(i) /\ Matches(i, calls[r].mark) THEN {Entry(i, dir.ver[i], dir.member)} ELSE {}
             call == [calls[r] EXCEPT !.next = i + 1, !.seen[i] = dir.ver[i],
                                      !.found = calls[r].found \cup entry]
  <2>1. calls' = [calls EXCEPT ![r] = Reached(call)]
    BY <1>4 DEF Search
  <2>2. "pc" \in DOMAIN call
    BY <1>1
  <2> HIDE DEF call
  <2>. QED
    BY <1>3, <2>1, <2>2
<1>5. CASE Skip(r)
  <2>1. "pc" \in DOMAIN [calls[r] EXCEPT !.next = calls[r].next + 1]
    BY <1>1
  <2>. QED
    BY <1>3, <1>5, <2>1 DEF Skip
<1>6. CASE Command(r)
  <2> DEFINE i == calls[r].next
             printed == IF Exists(i) THEN {Entry(i, dir.ver[i], dir.member)} ELSE {}
             call(result) ==
                 IF result = None THEN [calls[r] EXCEPT !.next = i + 1]
                 ELSE [calls[r] EXCEPT !.next = i + 1, !.seen[i] = dir.ver[i],
                                       !.found = calls[r].found \cup result]
  <2>1. PICK result \in Exec(Commands[i], printed) : calls' = [calls EXCEPT ![r] = Reached(call(result))]
    BY <1>6 DEF Command
  <2>2. "pc" \in DOMAIN call(result)
    BY <1>1
  <2> HIDE DEF call
  <2>. QED
    BY <1>3, <2>1, <2>2
<1>7. CASE Applies(r)
  <2>1. PICK next \in Steps : calls' = [calls EXCEPT ![r].pc = next]
    BY <1>7 DEF Applies, Steps
  <2>2. calls' = [calls EXCEPT ![r] = [calls[r] EXCEPT !.pc = next]]
    BY <2>1 DEF CInv, Typed
  <2>3. "pc" \in DOMAIN [calls[r] EXCEPT !.pc = next] /\ [calls[r] EXCEPT !.pc = next].pc = next
    BY <1>1
  <2>. QED
    BY <1>2, <2>2, <2>3, GoesOnKeeps
<1>. QED
  BY <1>4, <1>5, <1>6, <1>7

LEMMA SyncKeeps == ASSUME CInv, NEW r \in Requests, NEW o, Sync(r, o) PROVE CInv'
<1>1. /\ calls[r].pc = "idle" /\ listed /\ ~active /\ active' = TRUE
      /\ connector' = [connector EXCEPT !.status = "SYNCING"]
      /\ pending' = pending \cup {SaveWrite(r, "first")}
      /\ UNCHANGED <<bounds, clock, listed, errors, row>>
  BY DEF Sync, MayRun, Track, Idle
<1>2. connector' \in Record /\ connector' # None /\ Record \subseteq ConnectorObjects
  BY <1>1, ObjectThere, StatusSet DEF CInv, Held, Statuses
<1>3. /\ DOMAIN calls' = Requests /\ "pc" \in DOMAIN calls'[r] /\ calls'[r].pc = "extract"
      /\ \A q \in Requests : q # r => calls'[q] = calls[q]
  BY DEF Sync, CInv, Typed
<1>4. \A q \in Requests : ~Running(q) /\ (Running(q)' <=> q = r)
                          /\ (q # r => (UnderWay(q)' <=> UnderWay(q)))
  BY <1>1, <1>3 DEF CInv, Held, Running, UnderWay
<1>5. Typed'
  BY <1>1, <1>2, <1>3, WritesTyped, BoundsKept DEF CInv, Typed
<1>6. Held'
  BY <1>1, <1>2, <1>4 DEF CInv, Held
<1>7. Awaited'
  BY <1>1, <1>3 DEF CInv, Awaited, SaveWrite, Key
<1>. QED
  BY <1>5, <1>6, <1>7 DEF CInv

LEMMA FinallyKeeps ==
    ASSUME CInv, NEW r \in Requests, NEW status, Running(r), connector' \in Record,
           clock' = clock,
           Finally(r, status, connector')
    PROVE  CInv'
<1>1. /\ listed' = TRUE /\ active' = FALSE /\ pending' = pending \cup {SaveWrite(r, "last")}
      /\ UNCHANGED <<bounds, errors, row>>
      /\ calls' = [calls EXCEPT ![r] = [pc |-> "flush", status |-> status, waits |-> Waited,
                                              quiet |-> calls[r].quiet, made |-> calls[r].made]]
  BY DEF Finally, Track
<1>2. connector' # None /\ Record \subseteq ConnectorObjects
  BY NoneIsApart DEF CInv, Typed, ConnectorObjects, Record
<1>3. /\ DOMAIN calls' = Requests /\ calls'[r].pc = "flush" /\ calls'[r].waits = Waited
      /\ "pc" \in DOMAIN calls'[r]
      /\ \A q \in Requests : q # r => calls'[q] = calls[q]
  BY <1>1 DEF CInv, Typed
<1>4. \A q \in Requests : ~Running(q)' /\ (UnderWay(q)' => UnderWay(q))
  BY <1>3 DEF CInv, Held, Running, UnderWay
<1>5. Typed'
  BY <1>1, <1>2, <1>3, WritesTyped, BoundsKept DEF CInv, Typed
<1>6. Held'
  BY <1>1, <1>2, <1>4 DEF CInv, Held
<1>7. \A w \in pending' : Key(w) \in Waited
  BY DEF Waited
<1>8. Awaited'
  <2> SUFFICES ASSUME NEW q \in Requests, NEW w \in pending', w.by = q
               PROVE  /\ calls'[q].pc # "idle"
                      /\ calls'[q].pc = "flush" => Key(w) \in calls'[q].waits
                      /\ ~(calls'[q].pc = "ok" /\ calls'[q].status = "COMPLETED")
    BY DEF Awaited, Key
  <2>1. CASE q = r
    BY <1>3, <1>7, <2>1
  <2>2. CASE q # r
    <3>1. w \in pending
      BY <1>1, <2>2 DEF SaveWrite
    <3>. QED
      BY <1>3, <2>2, <3>1 DEF CInv, Awaited
  <2>. QED
    BY <2>1, <2>2
<1>. QED
  BY <1>5, <1>6, <1>8 DEF CInv

LEMMA EndsKeep == ASSUME CInv, NEW r \in Requests, Completes(r) \/ Throws(r) PROVE CInv'
<1>1. connector \in Record
  BY ObjectThere DEF CInv, Held, Completes, Throws, Running, UnderWay
<1>2. CASE Completes(r)
  <2> DEFINE c == [connector EXCEPT !.status = "CONNECTED", !.synced = clock]
  <2>1. clock \in 0 .. bounds.time
    BY DEF CInv, Typed
  <2>2. c \in Record
    BY <1>1, <2>1, SyncedSet DEF Statuses
  <2>3. connector' = c /\ clock' = clock /\ Finally(r, "COMPLETED", c) /\ Running(r)
    BY <1>2 DEF Completes, Finally, Running
  <2>. QED
    BY <2>2, <2>3, FinallyKeeps
<1>3. CASE Throws(r)
  <2> DEFINE c == [connector EXCEPT !.status = "FAILED"]
  <2>1. c \in Record
    BY <1>1, StatusSet DEF Statuses
  <2>2. connector' = c /\ clock' = clock /\ Finally(r, "FAILED", c) /\ Running(r)
    BY <1>3 DEF Throws, Finally, Running
  <2>. QED
    BY <2>1, <2>2, FinallyKeeps
<1>. QED
  BY <1>2, <1>3

LEMMA FlushEndsKeeps == ASSUME CInv, NEW r \in Requests, FlushEnds(r) PROVE CInv'
<1>1. /\ errors' \in 0 .. bounds.errors /\ UNCHANGED <<bounds, clock, memory, pending, row>>
      /\ calls[r].pc = "flush" /\ \A w \in pending : Key(w) \notin calls[r].waits
  BY ConnectorsAssumption DEF FlushEnds, CInv, Typed
<1>2. /\ DOMAIN calls' = Requests /\ "pc" \in DOMAIN calls'[r] /\ calls'[r].pc \in {"ok", "error"}
      /\ \A q \in Requests : q # r => calls'[q] = calls[q]
  BY DEF FlushEnds, Ended, CInv, Typed
<1>3. \A q \in Requests : (Running(q)' <=> Running(q)) /\ (UnderWay(q)' <=> UnderWay(q))
  BY <1>1, <1>2 DEF Running, UnderWay
<1>4. \A w \in pending : w.by # r
  BY <1>1 DEF CInv, Awaited
<1>5. Awaited'
  BY <1>1, <1>2, <1>4 DEF CInv, Awaited, Key
<1>. QED
  BY <1>1, <1>2, <1>3, <1>5, BoundsKept DEF CInv, Typed, Held, memory

-----------------------------------------------------------------------------
(* The other requests *)

\* A request that is answered, or tests the connector, saves the object or deletes it.
LEMMA AdministersKeeps ==
    ASSUME CInv, NEW r \in Requests, NEW x, "pc" \in DOMAIN x, x.pc \in {"ok", "error", "test"},
           x.status # "COMPLETED", calls' = [calls EXCEPT ![r] = x],
           calls[r].pc \in {"idle", "test"},
           NEW w \in WriteRecord, w.by = r, pending' = pending \cup {w},
           connector' \in ConnectorObjects, connector # None => connector' # None,
           listed' \in BOOLEAN, listed' \/ x.pc = "test" => connector' # None,
           UNCHANGED <<bounds, clock, active, errors, row>>
    PROVE  CInv'
<1>1. /\ DOMAIN calls' = Requests /\ calls'[r] = x /\ "pc" \in DOMAIN calls'[r]
      /\ \A q \in Requests : q # r => calls'[q] = calls[q]
  BY DEF CInv, Typed
<1>2. \A q \in Requests : /\ Running(q)' <=> Running(q)
                          /\ UnderWay(q)' => UnderWay(q) \/ (q = r /\ x.pc = "test")
  BY <1>1 DEF Running, UnderWay
<1>3. Awaited'
  BY <1>1 DEF CInv, Awaited, Key
<1>4. Held'
  BY <1>2 DEF CInv, Held
<1>. QED
  BY <1>1, <1>3, <1>4, BoundsKept DEF CInv, Typed

LEMMA EndedFields ==
    ASSUME NEW pc, NEW status
    PROVE  /\ Ended(pc, status).pc = pc /\ Ended(pc, status).status = status
           /\ "pc" \in DOMAIN Ended(pc, status)
BY DEF Ended

LEMMA AnsweredOk ==
    LET x == Ended("ok", None) IN "pc" \in DOMAIN x /\ x.pc = "ok" /\ x.status # "COMPLETED"
BY EndedFields, ConnectorsAssumption

LEMMA CreateKeeps == ASSUME CInv, NEW r \in Requests, NEW enabled \in BOOLEAN, Create(r, enabled) PROVE CInv'
<1> DEFINE c == [status |-> IF enabled THEN "CONFIGURED" ELSE "DISABLED", enabled |-> enabled, synced |-> 0]
<1>1. c \in Record
  BY ConnectorsAssumption DEF Record, Statuses, CInv, Typed
<1>2. connector = None /\ connector' = c
  BY DEF Create
<1>3. c # None /\ c \in ConnectorObjects
  BY <1>1, NoneIsApart DEF CInv, Typed, Record, ConnectorObjects
<1> HIDE DEF c
<1>4. pending' = pending \cup {SaveWrite(r, "only")} /\ SaveWrite(r, "only").by = r
  BY DEF Create, Track, SaveWrite
<1>5. /\ calls' = [calls EXCEPT ![r] = Ended("ok", None)] /\ calls[r].pc = "idle" /\ listed' = TRUE
      /\ UNCHANGED <<bounds, clock, active, errors, row>>
  BY DEF Create, Idle
<1>6. SaveWrite(r, "only") \in WriteRecord
  BY WritesTyped
<1>. QED
  BY <1>2, <1>3, <1>4, <1>5, <1>6, AnsweredOk, AdministersKeeps

LEMMA UpdateKeeps == ASSUME CInv, NEW r \in Requests, NEW enabled \in BOOLEAN, Update(r, enabled) PROVE CInv'
<1> DEFINE c == [connector EXCEPT !.enabled = enabled, !.status = IF enabled THEN "CONFIGURED" ELSE "DISABLED"]
<1>1. connector \in Record /\ None \notin Record /\ Record \subseteq ConnectorObjects
  BY ObjectThere DEF CInv, Held, Update
<1>2. c \in Record
  BY <1>1, EnabledSet DEF Statuses
<1>3. connector' = c
  BY DEF Update
<1> HIDE DEF c
<1>4. pending' = pending \cup {SaveWrite(r, "only")} /\ SaveWrite(r, "only").by = r
  BY DEF Update, Track, SaveWrite
<1>5. /\ calls' = [calls EXCEPT ![r] = Ended("ok", None)] /\ calls[r].pc = "idle" /\ listed' \in BOOLEAN
      /\ UNCHANGED <<bounds, clock, active, errors, row>>
  BY DEF Update, Idle, CInv, Typed
<1>6. SaveWrite(r, "only") \in WriteRecord
  BY WritesTyped
<1>. QED
  BY <1>1, <1>2, <1>3, <1>4, <1>5, <1>6, AnsweredOk, AdministersKeeps

LEMMA DeleteKeeps == ASSUME CInv, NEW r \in Requests, Delete(r) PROVE CInv'
<1>1. pending' = pending \cup {DeleteWrite(r)} /\ DeleteWrite(r).by = r
  BY DEF Delete, DeleteRow, Track, DeleteWrite
<1>2. /\ calls' = [calls EXCEPT ![r] = Ended("ok", None)] /\ calls[r].pc = "idle" /\ listed' = FALSE
      /\ UNCHANGED <<bounds, clock, connector, active, errors, row>>
      /\ connector \in ConnectorObjects
  BY DEF Delete, Idle, CInv, Typed
<1>3. DeleteWrite(r) \in WriteRecord
  BY WritesTyped
<1>. QED
  BY <1>1, <1>2, <1>3, AnsweredOk, AdministersKeeps

LEMMA TestKeeps == ASSUME CInv, NEW r \in Requests, Test(r) PROVE CInv'
<1> DEFINE x == [pc |-> "test", status |-> None]
<1>1. connector \in Record /\ None \notin Record /\ Record \subseteq ConnectorObjects
  BY ObjectThere DEF CInv, Held, Test
<1>2. connector' \in Record
  BY <1>1, StatusSet DEF Test, Statuses
<1>3. pending' = pending \cup {SaveWrite(r, "first")} /\ SaveWrite(r, "first").by = r
  BY DEF Test, Track, SaveWrite
<1>4. "pc" \in DOMAIN x /\ x.pc = "test" /\ x.status # "COMPLETED" /\ calls' = [calls EXCEPT ![r] = x]
  BY ConnectorsAssumption DEF Test
<1> HIDE DEF x
<1>5. /\ calls[r].pc = "idle" /\ listed' \in BOOLEAN
      /\ UNCHANGED <<bounds, clock, active, errors, row>>
  BY DEF Test, Idle, CInv, Typed
<1>6. SaveWrite(r, "first") \in WriteRecord
  BY WritesTyped
<1>. QED
  BY <1>1, <1>2, <1>3, <1>4, <1>5, <1>6, AdministersKeeps

LEMMA TestedKeeps ==
    ASSUME CInv, NEW r \in Requests, NEW status \in {"CONNECTED", "FAILED"}, Tested(r, status)
    PROVE  CInv'
<1>1. connector \in Record /\ None \notin Record /\ Record \subseteq ConnectorObjects
  BY ObjectThere DEF CInv, Held, Tested, UnderWay
<1>2. connector' \in Record
  BY <1>1, StatusSet DEF Tested, Statuses
<1>3. pending' = pending \cup {SaveWrite(r, "last")} /\ SaveWrite(r, "last").by = r
  BY DEF Tested, Track, SaveWrite
<1> DEFINE x == Ended(IF status = "CONNECTED" THEN "ok" ELSE "error", None)
<1>4. "pc" \in DOMAIN x /\ x.pc \in {"ok", "error"} /\ x.status # "COMPLETED"
  BY EndedFields, ConnectorsAssumption
<1>5. /\ calls' = [calls EXCEPT ![r] = x] /\ calls[r].pc = "test" /\ listed' = TRUE
      /\ UNCHANGED <<bounds, clock, active, errors, row>>
  BY DEF Tested
<1>6. SaveWrite(r, "last") \in WriteRecord
  BY WritesTyped
<1> HIDE DEF x
<1>. QED
  BY <1>1, <1>2, <1>3, <1>4, <1>5, <1>6, AdministersKeeps

LEMMA RestartKeeps == ASSUME CInv, Restart PROVE CInv'
<1>1. /\ DOMAIN calls' = Requests
      /\ \A r \in Requests : \/ calls'[r] = calls[r] /\ calls[r].pc \in {"idle", "ok", "error"}
                             \/ calls'[r] = Ended("gone", calls[r].status)
  BY DEF Restart, Idle
<1>2. \A r \in Requests : ~Running(r)' /\ ~UnderWay(r)' /\ "pc" \in DOMAIN calls'[r]
  BY <1>1, EndedFields DEF Running, UnderWay, CInv, Typed
<1>3. errors' \in 0 .. bounds.errors
  BY ConnectorsAssumption DEF Restart, CInv, Typed
<1>. QED
  BY <1>1, <1>2, <1>3, BoundsKept DEF Restart, CInv, Typed, Held, Awaited

-----------------------------------------------------------------------------
(* The specification *)

LEMMA InitHolds == ASSUME Init PROVE CInv
<1>1. /\ bounds \in Instances /\ bounds.time \in Nat \ {0} /\ bounds.errors \in Nat
  BY ConnectorsAssumption DEF Init
<1>2. /\ connector \in {None, [status |-> "CONFIGURED", enabled |-> TRUE, synced |-> 0]}
      /\ row = connector /\ listed = (connector # None) /\ active = FALSE
      /\ pending = {} /\ errors = 0 /\ clock = 1
      /\ DOMAIN calls = Requests /\ \A r \in Requests : calls[r] = Idle
  BY DEF Init
<1>3. 0 \in 0 .. bounds.time /\ 1 \in 1 .. bounds.time /\ 0 \in 0 .. bounds.errors
  BY <1>1
<1>4. connector \in ConnectorObjects
  <2>1. [status |-> "CONFIGURED", enabled |-> TRUE, synced |-> 0] \in ConnectorObjects
    BY <1>3 DEF ConnectorObjects, Statuses
  <2>2. None \in ConnectorObjects
    BY DEF ConnectorObjects
  <2>. QED
    BY <1>2, <2>1, <2>2
<1>6. Typed
  <2>1. \A r \in Requests : "pc" \in DOMAIN calls[r]
    BY <1>2 DEF Idle
  <2>. QED
    BY <1>1, <1>2, <1>3, <1>4, <2>1 DEF Typed
<1>5. \A r \in Requests : ~Running(r) /\ ~UnderWay(r)
  BY <1>2 DEF Idle, Running, UnderWay
<1>. QED
  BY <1>2, <1>5, <1>6 DEF CInv, Held, Awaited

LEMMA StepKeeps == ASSUME CInv, [Next]_vars PROVE CInv'
<1>1. CASE UNCHANGED vars
  BY <1>1, BoundsKept DEF vars, memory, store, CInv, Typed, Held, Awaited, Running, UnderWay, Key
<1>2. CASE OtherFails \/ OtherFlushes
  <2>1. errors' \in 0 .. bounds.errors
    BY <1>2, ConnectorsAssumption DEF OtherFails, OtherFlushes, CInv, Typed
  <2>. QED
    BY <1>2, <2>1, BoundsKept DEF OtherFails, OtherFlushes, memory, CInv, Typed, Held, Awaited, Running, UnderWay, Key
<1>3. CASE DirectoryNext
  <2>1. bounds.time \in Nat /\ clock \in 1 .. bounds.time
    BY ConnectorsAssumption DEF CInv, Typed
  <2>2. /\ UNCHANGED <<bounds, memory, calls, store>>
        /\ clock' = clock \/ (clock < bounds.time /\ clock' = clock + 1)
    BY <1>3 DEF DirectoryNext, Joins, Tick, Changes
  <2>3. clock' \in 1 .. bounds.time
    BY <2>1, <2>2
  <2>. QED
    BY <2>2, <2>3, BoundsKept DEF memory, store, CInv, Typed, Held, Awaited, Running, UnderWay, Key
<1>4. ASSUME NEW r \in Requests, RunNext(r) PROVE CInv'
  BY <1>4, SyncKeeps, ExtractKeeps, EndsKeep, FlushEndsKeeps DEF RunNext
<1>5. ASSUME NEW r \in Requests, AdministrationNext(r) PROVE CInv'
  BY <1>5, CreateKeeps, UpdateKeeps, DeleteKeeps, TestKeeps, TestedKeeps DEF AdministrationNext
<1>. QED
  BY <1>1, <1>2, <1>3, <1>4, <1>5, SendKeeps, LandKeeps, FailKeeps, RestartKeeps DEF Next, WriteNext

-----------------------------------------------------------------------------
(* What an administrator decided *)

Decisions == {"any", "enabled", "disabled", "deleted"}

\* What is listed is as it was decided, and nobody holds what was deleted.
Decided ==
    /\ decided \in [what : Decisions, firm : BOOLEAN]
    /\ decided.what = "enabled" => listed /\ connector.enabled
    /\ decided.what = "disabled" => listed /\ ~connector.enabled
    /\ decided.what = "deleted" => ~listed /\ \A r \in Requests : ~UnderWay(r)

\* A row as it was decided.
Obeys(v) ==
    /\ decided.what = "enabled" => v # None /\ v.enabled
    /\ decided.what = "disabled" => v # None /\ ~v.enabled
    /\ decided.what = "deleted" => v = None

\* When no write said otherwise: what is written is what was decided, and so is the row
\* once it has landed.
Firm ==
    decided.firm =>
        /\ \A w \in pending :
              /\ decided.what \in {"enabled", "disabled"} => ~w.deletes
              /\ decided.what = "deleted" => w.deletes
              /\ w.value.sent => Obeys(w.value.of)
        /\ pending = {} => Obeys(row)

Kept == Decided /\ Firm

\* A step that has nothing to do with it.
LEMMA ElsewhereKept ==
    ASSUME Kept, UNCHANGED <<decided, listed, connector, pending, row>>,
           \A r \in Requests : UnderWay(r)' => UnderWay(r)
    PROVE  Kept'
BY DEF Kept, Decided, Firm, Obeys

\* Who holds the connector, or finds it on the list, saves it as it was decided.
LEMMA HolderKept ==
    ASSUME CInv, Kept, UNCHANGED <<decided, row>>, NEW r \in Requests, listed \/ UnderWay(r),
           NEW step, pending' = pending \cup {SaveWrite(r, step)},
           connector'.enabled = connector.enabled, listed'
    PROVE  Kept'
<1>1. decided.what # "deleted"
  BY DEF Kept, Decided
<1>2. Decided'
  BY <1>1 DEF Kept, Decided
<1>3. ~SaveWrite(r, step).deletes /\ ~SaveWrite(r, step).value.sent
  BY DEF SaveWrite, Unsent
<1>4. Firm'
  BY <1>1, <1>3 DEF Kept, Firm, Obeys
<1>. QED
  BY <1>2, <1>4 DEF Kept

\* The administrator decides anew.
LEMMA DecidesKept ==
    ASSUME CInv, NEW r \in Requests, NEW w, NEW what \in Decisions, NEW firm \in BOOLEAN,
           decided' = [what |-> what, firm |-> firm], pending' = pending \cup {w},
           \A v \in pending : firm =>
              /\ ~v.value.sent
              /\ what \in {"enabled", "disabled"} => ~v.deletes
              /\ what = "deleted" => v.deletes,
           w.value = Unsent, w.deletes <=> what \in {"deleted", "any"},
           what = "enabled" => listed' /\ connector'.enabled,
           what = "disabled" => listed' /\ ~connector'.enabled,
           what = "deleted" => ~listed' /\ Free,
           \A q \in Requests : UnderWay(q)' => UnderWay(q)
    PROVE  Kept'
<1>1. Free => \A q \in Requests : ~UnderWay(q)
  BY DEF Free
<1> HIDE DEF Free
<1>2. decided' \in [what : Decisions, firm : BOOLEAN] /\ decided'.what = what /\ decided'.firm = firm
  OBVIOUS
<1>3. Decided'
  BY <1>1, <1>2 DEF Decided
<1>4. ~w.value.sent
  BY DEF Unsent
<1>5. Firm'
  <2>1. pending' # {}
    OBVIOUS
  <2>2. ASSUME firm, NEW v \in pending'
        PROVE  /\ ~v.value.sent
               /\ what \in {"enabled", "disabled"} => ~v.deletes
               /\ what = "deleted" => v.deletes
    <3>1. CASE v \in pending
      BY <2>2, <3>1
    <3>2. CASE v = w
      BY <1>4, <3>2
    <3>. QED
      BY <3>1, <3>2
  <2>. QED
    BY <1>2, <2>1, <2>2 DEF Firm
<1>. QED
  BY <1>3, <1>5 DEF Kept

LEMMA WritesKept ==
    ASSUME CInv, Kept, NEW w \in pending, Send(w) \/ Land(w) \/ Fail(w)
    PROVE  Kept'
<1>1. w \in WriteRecord
  BY DEF CInv, Typed
<1>2. CASE Send(w)
  <2> DEFINE v == [w EXCEPT !.value = Sent(Payload(w))]
  <2>1. v.deletes = w.deletes /\ v.value.sent /\ v.value.of = Payload(w)
    BY <1>1 DEF WriteRecord, Sent
  <2>2. pending' = (pending \ {w}) \cup {v} /\ UNCHANGED <<decided, listed, connector, row, calls>>
    BY <1>2 DEF Send, memory
  <2> HIDE DEF v
  <2>3. Decided'
    BY <2>2 DEF Kept, Decided, UnderWay, Running
  <2>4. ASSUME decided.firm PROVE Obeys(Payload(w))
    <3>1. w.deletes => Payload(w) = None
      BY DEF Payload
    <3>2. ~w.deletes => Payload(w) = connector
      BY DEF Payload
    <3>3. listed => connector # None
      BY DEF CInv, Held
    <3>4. w.deletes \in BOOLEAN
      BY <1>1 DEF WriteRecord
    <3>. QED
      BY <2>4, <3>1, <3>2, <3>3, <3>4 DEF Kept, Decided, Firm, Obeys
  <2>5. Firm'
    BY <2>1, <2>2, <2>4 DEF Kept, Firm, Obeys
  <2>. QED
    BY <2>3, <2>5 DEF Kept
<1>3. CASE Land(w)
  <2>1. w.value.sent /\ pending' = pending \ {w} /\ row' = w.value.of
        /\ UNCHANGED <<decided, listed, connector, calls>>
    BY <1>3 DEF Land, memory
  <2>. QED
    BY <2>1 DEF Kept, Decided, Firm, Obeys, UnderWay, Running
<1>4. CASE Fail(w)
  <2>1. decided' = [decided EXCEPT !.firm = FALSE] /\ UNCHANGED memory
    BY <1>4 DEF Fail
  <2>2. \A r \in Requests : calls'[r] = calls[r] \/ calls'[r] = Ended("error", calls[r].status)
    BY <1>4 DEF Fail
  <2>3. \A r \in Requests : UnderWay(r)' => UnderWay(r)
    BY <2>2, EndedFields DEF UnderWay, Running
  <2>4. decided'.what = decided.what /\ decided'.firm = FALSE /\ decided' \in [what : Decisions, firm : BOOLEAN]
    BY <2>1 DEF Kept, Decided
  <2>. QED
    BY <2>1, <2>3, <2>4 DEF Kept, Decided, Firm, memory
<1>. QED
  BY <1>2, <1>3, <1>4

LEMMA RunKept ==
    ASSUME CInv, Kept, NEW r \in Requests, RunNext(r)
    PROVE  Kept'
<1>1. DOMAIN calls = Requests
  BY DEF CInv, Typed
<1>2. ASSUME NEW o, Sync(r, o) PROVE Kept'
  <2>1. connector'.enabled = connector.enabled
    BY <1>2, ObjectThere DEF Sync, CInv, Held, Record
  <2>2. /\ listed /\ listed' /\ pending' = pending \cup {SaveWrite(r, "first")}
        /\ UNCHANGED <<decided, row>>
    BY <1>2 DEF Sync, Track
  <2>. QED
    BY <2>1, <2>2, HolderKept
<1>3. CASE Search(r) \/ Skip(r) \/ Command(r) \/ Applies(r)
  <2>1. UnderWay(r) /\ UNCHANGED <<decided, listed, connector, pending, row>>
    BY <1>3 DEF Search, Skip, Command, Applies, UnderWay, Running, memory, store
  <2>2. \A q \in Requests : q # r => calls'[q] = calls[q]
    BY <1>1, <1>3 DEF Search, Skip, Command, Applies
  <2>3. \A q \in Requests : UnderWay(q)' => UnderWay(q)
    BY <2>1, <2>2 DEF UnderWay, Running
  <2>. QED
    BY <2>1, <2>3, ElsewhereKept
<1>4. CASE Completes(r) \/ Throws(r)
  <2>1. connector \in Record /\ UnderWay(r)
    BY <1>4, ObjectThere DEF CInv, Held, Completes, Throws, Running, UnderWay
  <2>2. connector'.enabled = connector.enabled
    BY <1>4, <2>1 DEF Completes, Throws, Finally, Record
  <2>3. /\ listed' /\ pending' = pending \cup {SaveWrite(r, "last")}
        /\ UNCHANGED <<decided, row>>
    BY <1>4 DEF Completes, Throws, Finally, Track
  <2>. QED
    BY <2>1, <2>2, <2>3, HolderKept
<1>5. CASE FlushEnds(r)
  <2>1. UNCHANGED <<decided, listed, connector, pending, row>>
    BY <1>5 DEF FlushEnds, memory
  <2>2. \A q \in Requests : calls'[q] = calls[q] \/ calls'[q].pc \in {"ok", "error"}
    BY <1>1, <1>5, EndedFields DEF FlushEnds
  <2>3. \A q \in Requests : UnderWay(q)' => UnderWay(q)
    BY <2>2 DEF UnderWay, Running
  <2>. QED
    BY <2>1, <2>3, ElsewhereKept
<1>. QED
  BY <1>2, <1>3, <1>4, <1>5 DEF RunNext

LEMMA AdministrationKept ==
    ASSUME CInv, Kept, NEW r \in Requests, AdministrationNext(r)
    PROVE  Kept'
<1>1. ASSUME calls' = [calls EXCEPT ![r] = Ended("ok", None)]
      PROVE  \A q \in Requests : UnderWay(q)' => UnderWay(q)
  <2>1. \A q \in Requests : calls'[q] = calls[q] \/ calls'[q].pc = "ok"
    BY <1>1, EndedFields DEF CInv, Typed
  <2>. QED
    BY <2>1 DEF UnderWay, Running
<1>2. ASSUME NEW enabled \in BOOLEAN, Create(r, enabled) \/ Update(r, enabled) PROVE Kept'
  <2>1. connector'.enabled = enabled /\ listed'
    <3>1. CASE Create(r, enabled)
      BY <3>1 DEF Create
    <3>2. CASE Update(r, enabled)
      BY <3>2, ObjectThere DEF Update, CInv, Held, Record
    <3>. QED
      BY <1>2, <3>1, <3>2
  <2>2. /\ decided' = [what |-> Decision(enabled), firm |-> Uncontested]
        /\ pending' = pending \cup {SaveWrite(r, "only")}
        /\ calls' = [calls EXCEPT ![r] = Ended("ok", None)]
    BY <1>2 DEF Create, Update, Track
  <2>3. SaveWrite(r, "only").value = Unsent /\ ~SaveWrite(r, "only").deletes
    BY DEF SaveWrite
  <2>4. /\ Decision(enabled) \in {"enabled", "disabled"}
        /\ Decision(enabled) = "enabled" <=> enabled
    BY DEF Decision
  <2>5. Uncontested \in BOOLEAN /\ (Uncontested => \A v \in pending : ~v.value.sent /\ ~v.deletes)
    BY DEF Uncontested
  <2> HIDE DEF Uncontested, Decision
  <2>. QED
    BY <1>1, <2>1, <2>2, <2>3, <2>4, <2>5, DecidesKept DEF Decisions
<1>3. CASE Delete(r)
  <2>1. /\ decided' = [what |-> IF Free THEN "deleted" ELSE "any", firm |-> pending = {}]
        /\ pending' = pending \cup {DeleteWrite(r)} /\ listed' = FALSE
        /\ calls' = [calls EXCEPT ![r] = Ended("ok", None)]
    BY <1>3 DEF Delete, DeleteRow, Track
  <2>2. DeleteWrite(r).value = Unsent /\ DeleteWrite(r).deletes
    BY DEF DeleteWrite
  <2>3. PICK what \in {"deleted", "any"} : /\ what = IF Free THEN "deleted" ELSE "any"
                                           /\ what = "deleted" => Free
    OBVIOUS
  <2>4. PICK firm \in BOOLEAN : firm = (pending = {}) /\ (firm => pending = {})
    OBVIOUS
  <2>5. decided' = [what |-> what, firm |-> firm]
    BY <2>1, <2>3, <2>4
  <2>. QED
    BY <1>1, <2>1, <2>2, <2>3, <2>4, <2>5, DecidesKept DEF Decisions
<1>4. CASE Test(r)
  <2>1. connector'.enabled = connector.enabled
    BY <1>4, ObjectThere DEF Test, CInv, Held, Record
  <2>2. /\ listed /\ listed' /\ pending' = pending \cup {SaveWrite(r, "first")}
        /\ UNCHANGED <<decided, row>>
    BY <1>4 DEF Test, Track
  <2>. QED
    BY <2>1, <2>2, HolderKept
<1>5. ASSUME NEW status, Tested(r, status) PROVE Kept'
  <2>1. UnderWay(r)
    BY <1>5 DEF Tested, UnderWay
  <2>2. connector'.enabled = connector.enabled
    BY <1>5, <2>1, ObjectThere DEF Tested, CInv, Held, Record
  <2>3. /\ listed' /\ pending' = pending \cup {SaveWrite(r, "last")} /\ UNCHANGED <<decided, row>>
    BY <1>5 DEF Tested, Track
  <2>. QED
    BY <2>1, <2>2, <2>3, HolderKept
<1>. QED
  BY <1>2, <1>3, <1>4, <1>5 DEF AdministrationNext

\* What the next process finds is what was decided, or nothing is said of it.
LEMMA RestartKept == ASSUME CInv, Kept, Restart PROVE Kept'
<1>1. /\ listed' = (row # None) /\ connector' = row /\ row' = row /\ pending' = {}
      /\ decided' = [decided EXCEPT !.what = IF decided.firm /\ pending = {} THEN decided.what ELSE "any"]
  BY DEF Restart
<1>2. \A r \in Requests : \/ calls'[r] = calls[r] /\ calls[r].pc \in {"idle", "ok", "error"}
                          \/ calls'[r] = Ended("gone", calls[r].status)
  BY DEF Restart, Idle
<1>3. \A r \in Requests : ~UnderWay(r)'
  BY <1>2, EndedFields DEF UnderWay, Running
<1>4. /\ decided' \in [what : Decisions, firm : BOOLEAN]
      /\ decided'.what = "any" \/ (decided' = decided /\ decided.firm /\ pending = {})
  BY <1>1 DEF Kept, Decided, Decisions
<1>5. CASE decided'.what = "any"
  BY <1>4, <1>5 DEF Kept, Decided, Firm, Obeys
<1>6. CASE decided' = decided /\ decided.firm /\ pending = {}
  BY <1>1, <1>3, <1>4, <1>6 DEF Kept, Decided, Firm, Obeys
<1>. QED
  BY <1>4, <1>5, <1>6

LEMMA InitKept == ASSUME Init PROVE Kept
BY DEF Init, Kept, Decided, Decisions, Firm, Obeys

LEMMA StepKept == ASSUME CInv, Kept, [Next]_vars PROVE Kept'
<1>1. CASE UNCHANGED vars \/ OtherFails \/ OtherFlushes \/ DirectoryNext
  <2>1. UNCHANGED <<decided, listed, connector, pending, row, calls>>
    BY <1>1 DEF vars, memory, store, OtherFails, OtherFlushes, DirectoryNext, Joins, Tick, Changes
  <2>. QED
    BY <2>1, ElsewhereKept DEF UnderWay, Running
<1>. QED
  BY <1>1, WritesKept, RunKept, AdministrationKept, RestartKept DEF Next, WriteNext

-----------------------------------------------------------------------------
(* What runs have read *)

Entries == {Entry(i, v, m) : i \in Objects, v \in Nat, m \in BOOLEAN}

Directory == [ver : [Objects -> Nat], born : [Objects -> Nat], member : BOOLEAN, changes : Nat]

Runs ==
    [pc : Steps, status : {"RUNNING"}, mode : Modes, persist : BOOLEAN, scan : BOOLEAN, limit : Nat, mark : Nat,
     next : Nat, seen : [Objects -> Nat], found : SUBSET Entries, began : [Objects -> Nat],
     quiet : BOOLEAN, made : SUBSET Requests]

LEMMA RunsFixed == ASSUME UNCHANGED bounds PROVE Runs' = Runs
BY DEF Runs, Entries, Entry, Refs, kind, plain, Steps, Modes

LEMMA NamesDiffer ==
    /\ \A i, j \in Objects : Names[i] = Names[j] => i = j
    /\ \A i \in Objects : Names[i] # "forest" /\ i \in Nat /\ i > 0
    /\ Forest.name = "forest" /\ Forest.pos = 0 /\ AdNode(Forest) = <<"ad", "forest">>
BY DEF Objects, User, Group, Device, Names, Forest, AdNode

\* What a change makes of the directory.
LEMMA JoinsTyped ==
    ASSUME dir \in Directory, Joins
    PROVE  /\ dir' \in Directory /\ dir'.member
           /\ dir'.ver = [dir.ver EXCEPT ![Group] = dir.ver[Group] + 1]
<1>1. dir' = [dir EXCEPT !.member = TRUE, !.ver[Group] = dir.ver[Group] + 1, !.changes = dir.changes + 1]
  BY DEF Joins
<1>2. dir' = [ver |-> [dir.ver EXCEPT ![Group] = dir.ver[Group] + 1], born |-> dir.born, member |-> TRUE,
              changes |-> dir.changes + 1]
  BY <1>1 DEF Directory
<1>3. /\ [dir.ver EXCEPT ![Group] = dir.ver[Group] + 1] \in [Objects -> Nat]
      /\ dir.born \in [Objects -> Nat] /\ dir.changes + 1 \in Nat
  BY DEF Directory, Objects
<1>. QED
  BY <1>2, <1>3 DEF Directory

LEMMA ChangesTyped ==
    ASSUME dir \in Directory, clock \in Nat, NEW j \in Objects, Changes(j)
    PROVE  /\ dir' \in Directory /\ dir'.member = dir.member
           /\ dir'.ver = [dir.ver EXCEPT ![j] = dir.ver[j] + 1]
<1> DEFINE b == IF Exists(j) THEN dir.born[j] ELSE clock
<1>1. dir' = [dir EXCEPT !.ver[j] = dir.ver[j] + 1, !.changes = dir.changes + 1, !.born[j] = b]
  BY DEF Changes
<1>2. b \in Nat
  BY DEF Directory
<1> HIDE DEF b
<1>3. dir' = [ver |-> [dir.ver EXCEPT ![j] = dir.ver[j] + 1], born |-> [dir.born EXCEPT ![j] = b],
              member |-> dir.member, changes |-> dir.changes + 1]
  BY <1>1 DEF Directory
<1>4. /\ [dir.ver EXCEPT ![j] = dir.ver[j] + 1] \in [Objects -> Nat]
      /\ [dir.born EXCEPT ![j] = b] \in [Objects -> Nat]
      /\ dir.member \in BOOLEAN /\ dir.changes + 1 \in Nat
  BY <1>2 DEF Directory
<1>. QED
  BY <1>3, <1>4 DEF Directory

-----------------------------------------------------------------------------
(* Full runs *)

\* What the node of an object is called: see the four mappers.
LinuxTypes == <<"user", "group", "host">>
IdOf(i) ==
    CASE kind = "ACTIVE_DIRECTORY" -> <<"ad", Names[i]>>
      [] kind = "FREEIPA" -> <<"ipa", Names[i]>>
      [] kind = "ENTRA_ID" -> <<"entra", Types[i], Names[i]>>
      [] kind = "LINUX_SSH" -> <<"linux", LinuxTypes[i], Names[i]>>

\* Where memberships are drawn, and between which nodes.
Together == kind # "ENTRA_ID" /\ \A i \in {User, Group} : Mappable(i)
Membership == Link("MEMBER_OF", IdOf(User), IdOf(Group))

\* Who is called like the user or the group is the node of it, and there is no membership
\* but the one of the directory.
Named ==
    Together =>
        /\ \A n \in graph.nodes, i \in {User, Group} : n.of.name = Names[i] => n.id = IdOf(i)
        /\ \A l \in graph.links : l.type = "MEMBER_OF" => dir.member /\ l = Membership

\* An object as a run saw it.
Saw(e, c, i, m) == i \in Objects /\ m \in BOOLEAN /\ e = Entry(i, c.seen[i], m)

\* What a run has found is what it saw, as it still is when nothing has changed since it
\* began; one that reads in full finds whatever is there.
ReadOf(c) ==
    /\ c \in Runs /\ (c.pc = "extract" => c.next \in Objects)
    /\ \A i \in Objects : c.began[i] <= dir.ver[i] /\ (i >= c.next => c.seen[i] = 0)
    /\ \A e \in c.found : \E i \in Objects, m \in BOOLEAN :
          /\ Saw(e, c, i, m) /\ i < c.next /\ (m => dir.member)
          /\ c.began = dir.ver => m = dir.member
    /\ c.mode = "FULL" => /\ c.mark = 0 /\ c.limit = 0
                          /\ \A i \in Objects : c.seen[i] > 0 => \E e \in c.found : e.pos = i

\* What it has applied is drawn.
DrawnOf(c) ==
    c.pc \in {"scan", "complete"} /\ c.persist /\ c.limit = 0 =>
        /\ \A e \in c.found : Mappable(e.pos) =>
              \E n \in graph.nodes : n.id = IdOf(e.pos) /\ n.of.name = e.name /\ n.of.ver = e.ver
        /\ Together /\ c.began = dir.ver /\ dir.member /\ {User, Group} \subseteq {e.pos : e \in c.found}
              => Membership \in graph.links

\* A membership is one of objects that exist, and the graph and every run are as above.
FullInv ==
    /\ dir \in Directory /\ (dir.member => Exists(User) /\ Exists(Group))
    /\ Named
    /\ \A r \in Requests : Running(r) => ReadOf(calls[r]) /\ DrawnOf(calls[r])

-----------------------------------------------------------------------------
(* The mappers *)

LEMMA EntryIs ==
    ASSUME NEW i \in Objects, NEW v, NEW m
    PROVE  /\ Entry(i, v, m).pos = i /\ Entry(i, v, m).ver = v /\ Entry(i, v, m).name = Names[i]
           /\ Entry(i, v, m).type = Types[i] /\ Entry(i, v, m).refs = Refs(i, m)
           /\ (kind \in {"ACTIVE_DIRECTORY", "FREEIPA"} /\ ~plain) \/ Entry(i, v, m).guid = Names[i]
BY DEF Entry

\* What the user tells of the membership, and the group.
LEMMA UserRefs ==
    ASSUME NEW m \in BOOLEAN, m, kind # "ENTRA_ID"
    PROVE  <<"memberOf", "g">> \in Refs(User, m)
BY Z3 DEF Refs, User, Group, Device

LEMMA GroupRefs ==
    ASSUME NEW m \in BOOLEAN
    PROVE  Refs(Group, m) = IF m /\ kind # "ENTRA_ID" THEN {<<"member", "u">>} ELSE {}
BY Z3 DEF Refs, User, Group, Device

\* The entry tells of the membership.
TellsOfIt(entries, i) == \E v : \E m \in BOOLEAN : m /\ Entry(i, v, m) \in entries

\* What a mapper makes of what a run has found.
Draws(g, entries) ==
    /\ Together => \A n \in g.nodes, i \in {User, Group} : n.of.name = Names[i] => n.id = IdOf(i)
    /\ \A e \in entries : e # Forest /\ Mappable(e.pos) =>
          \E n \in g.nodes : n.id = IdOf(e.pos) /\ n.of.name = e.name /\ n.of.ver = e.ver /\ n.of.pos = e.pos
    /\ \A i \in Objects, n \in g.nodes : Mappable(i) /\ n.id = IdOf(i) => n.of.pos = i
    /\ Together => \A l \in g.links : l.type = "MEMBER_OF" =>
          l = Membership /\ (TellsOfIt(entries, User) \/ TellsOfIt(entries, Group))
    /\ Together /\ TellsOfIt(entries, User) /\ TellsOfIt(entries, Group) => Membership \in g.links

Entered(entries, c) == \A e \in entries : e = Forest \/ \E i \in Objects, m \in BOOLEAN : Saw(e, c, i, m)

LEMMA AdDraws ==
    ASSUME kind = "ACTIVE_DIRECTORY", NEW entries, NEW c, Entered(entries, c)
    PROVE  Draws(MapAd(entries), entries)
<1> DEFINE g == MapAd(entries)
<1>1. IdOf(User) = <<"ad", "u">> /\ IdOf(Group) = <<"ad", "g">> /\ IdOf(Device) = <<"ad", "h">>
  BY DEF IdOf, Names, User, Group, Device
<1>2. \A i \in Objects : IdOf(i) = <<"ad", Names[i]>>
  BY DEF IdOf
<1>3. \A i \in Objects : \A v, m : AdNode(Entry(i, v, m)) = IdOf(i)
  BY <1>2 DEF AdNode, Entry
<1>4. ASSUME NEW e \in entries
      PROVE  \/ e = Forest /\ AdNode(e) = <<"ad", "forest">> /\ e.name = "forest"
             \/ \E i \in Objects, m \in BOOLEAN : Saw(e, c, i, m) /\ e.pos = i /\ e.name = Names[i] /\ AdNode(e) = IdOf(i)
                                                     /\ e.refs = Refs(i, m)
  BY <1>3, EntryIs, NamesDiffer DEF Entered, Saw
<1>5. g.nodes = {[id |-> AdNode(o), of |-> o] : o \in entries}
  BY DEF MapAd
<1>6. ASSUME NEW n \in g.nodes
      PROVE  n.of \in entries /\ n.id = AdNode(n.of)
  BY <1>5
<1>7. ASSUME NEW n \in g.nodes, NEW i \in Objects, n.of.name = Names[i] PROVE n.id = IdOf(i)
  BY <1>4, <1>6, <1>7, NamesDiffer
<1>8. ASSUME NEW e \in entries, e # Forest
      PROVE  \E n \in g.nodes : n.id = IdOf(e.pos) /\ n.of = e
  <2>1. [id |-> AdNode(e), of |-> e] \in g.nodes
    BY <1>5
  <2>2. AdNode(e) = IdOf(e.pos)
    BY <1>4, <1>8
  <2> HIDE DEF g
  <2>. QED
    BY <2>1, <2>2
<1>9. ASSUME NEW i \in Objects, NEW n \in g.nodes, n.id = IdOf(i) PROVE n.of.pos = i
  BY <1>2, <1>4, <1>6, <1>9, NamesDiffer
<1>10. ASSUME NEW l \in g.links, l.type = "MEMBER_OF"
       PROVE  l = Membership /\ TellsOfIt(entries, User)
  <2>1. PICK o \in entries : l \in AdLinksOf(entries, o)
    BY DEF MapAd
  <2>2. PICK ref \in o.refs :
           l \in CASE ref[1] \in DOMAIN AdNames -> Resolved(AdNames[ref[1]], {AdNode(o)}, AdNamed(entries, ref[2]))
             [] ref[1] \in DOMAIN AdSids -> Resolved(AdSids[ref[1]], {AdNode(o)}, AdWithSid(entries, ref[2]))
             [] ref[1] = "servicePrincipalName" -> {Link("HAS_SPN", AdNode(o), AdNode(o))}
             [] ref[1] = "trustPartner" -> Resolved("TRUSTS", {AdNode(o)}, AdNamed(entries, ref[2]))
             [] ref[1] = "parent" -> Resolved(AdParent(o), {AdNode(o)}, AdNamed(entries, ref[2]))
             [] OTHER -> {}
    BY <2>1 DEF AdLinksOf
  <2>3. o # Forest
    BY DEF Forest
  <2>4. PICK i \in Objects, m \in BOOLEAN : Saw(o, c, i, m) /\ AdNode(o) = IdOf(i) /\ o.refs = Refs(i, m)
    BY <1>4, <2>3
  <2>5. \/ i = User /\ m /\ ref = <<"memberOf", "g">>
        \/ ref[1] \in {"primaryGroupID", "member", "managedBy"}
    BY <2>2, <2>4 DEF Refs, Objects
  <2>6. ref[1] # "primaryGroupID"
    <3> SUFFICES ASSUME ref[1] = "primaryGroupID" PROVE FALSE
      OBVIOUS
    <3>1. l \in Resolved("HAS_PRIMARY_GROUP", {AdNode(o)}, AdWithSid(entries, ref[2]))
      BY <2>2 DEF AdNames, AdSids
    <3>. QED
      BY <1>10, <3>1 DEF Resolved, Link
  <2>7. ref[1] # "member"
    BY <2>2 DEF AdNames, AdSids
  <2>8. ref[1] # "managedBy"
    <3> SUFFICES ASSUME ref[1] = "managedBy" PROVE FALSE
      OBVIOUS
    <3>1. l \in Resolved("MANAGED_BY", {AdNode(o)}, AdNamed(entries, ref[2]))
      BY <2>2 DEF AdNames, AdSids
    <3>. QED
      BY <1>10, <3>1 DEF Resolved, Link
  <2>9. i = User /\ m /\ ref = <<"memberOf", "g">>
    BY <2>5, <2>6, <2>7, <2>8
  <2>10. l \in Resolved("MEMBER_OF", {IdOf(User)}, AdNamed(entries, "g"))
    BY <2>2, <2>4, <2>9 DEF AdNames, AdSids
  <2>11. \A t \in AdNamed(entries, "g") : t = IdOf(Group)
    <3> SUFFICES ASSUME NEW p \in entries, p.name = "g" PROVE AdNode(p) = IdOf(Group)
      BY DEF AdNamed
    <3>1. Names[Group] = "g" /\ Group \in Objects
      BY DEF Names, Group, Objects
    <3>. QED
      BY <1>4, <3>1, NamesDiffer
  <2>12. l = Membership
    BY <2>10, <2>11 DEF Resolved, Membership
  <2>. QED
    BY <2>4, <2>9, <2>12 DEF Saw, TellsOfIt
<1>11. ASSUME NEW v, NEW m \in BOOLEAN, m, Entry(User, v, m) \in entries,
              NEW w, NEW k \in BOOLEAN, Entry(Group, w, k) \in entries
       PROVE  Membership \in g.links
  <2> DEFINE o == Entry(User, v, m)
             p == Entry(Group, w, k)
  <2>1. User \in Objects /\ Group \in Objects
    BY DEF Objects
  <2>2. /\ o.refs = Refs(User, m) /\ p.name = Names[Group]
        /\ AdNode(o) = IdOf(User) /\ AdNode(p) = IdOf(Group)
    <3>1. AdNode(o) = IdOf(User) /\ AdNode(p) = IdOf(Group)
      BY <1>3, <2>1
    <3>2. o.refs = Refs(User, m)
      BY <2>1, EntryIs
    <3>3. p.name = Names[Group]
      BY <2>1, EntryIs
    <3>. QED
      BY <3>1, <3>2, <3>3
  <2>3. <<"memberOf", "g">> \in Refs(User, m) /\ Names[Group] = "g"
    <3>1. <<"memberOf", "g">> \in Refs(User, m)
      BY <1>11, UserRefs
    <3>2. Names[Group] = "g"
      BY DEF Group, Names
    <3>. QED
      BY <3>1, <3>2
  <2> HIDE DEF o, p
  <2>4. IdOf(Group) \in AdNamed(entries, "g")
    BY <1>11, <2>2, <2>3 DEF AdNamed, p
  <2>5. Membership \in Resolved("MEMBER_OF", {AdNode(o)}, AdNamed(entries, "g"))
    BY <2>2, <2>4 DEF Resolved, Membership
  <2>6. Membership \in AdLinksOf(entries, o)
    <3> DEFINE ref == <<"memberOf", "g">>
    <3>1. /\ ref[1] \in DOMAIN AdNames /\ AdNames[ref[1]] = "MEMBER_OF" /\ ref[2] = "g"
          /\ ref[1] \notin DOMAIN AdSids
          /\ ref[1] \notin {"servicePrincipalName", "trustPartner", "parent"}
      BY DEF AdNames, AdSids
    <3> HIDE DEF ref
    <3>2. Membership \in Resolved(AdNames[ref[1]], {AdNode(o)}, AdNamed(entries, ref[2]))
      BY <2>5, <3>1
    <3>3. ref \in o.refs
      BY <2>2, <2>3 DEF ref
    <3> DEFINE drawn(x) ==
           CASE x[1] \in DOMAIN AdNames -> Resolved(AdNames[x[1]], {AdNode(o)}, AdNamed(entries, x[2]))
             [] x[1] \in DOMAIN AdSids -> Resolved(AdSids[x[1]], {AdNode(o)}, AdWithSid(entries, x[2]))
             [] x[1] = "servicePrincipalName" -> {Link("HAS_SPN", AdNode(o), AdNode(o))}
             [] x[1] = "trustPartner" -> Resolved("TRUSTS", {AdNode(o)}, AdNamed(entries, x[2]))
             [] x[1] = "parent" -> Resolved(AdParent(o), {AdNode(o)}, AdNamed(entries, x[2]))
             [] OTHER -> {}
    <3>4. Membership \in drawn(ref)
      <4> HIDE DEF Membership
      <4>. QED
        BY <3>1, <3>2
    <3>5. AdLinksOf(entries, o) = UNION {drawn(x) : x \in o.refs}
      BY DEF AdLinksOf
    <3> HIDE DEF drawn
    <3>. QED
      BY <3>3, <3>4, <3>5
  <2>. QED
    BY <1>11, <2>6 DEF MapAd, o
<1> HIDE DEF g
<1>12. User \in Objects /\ Group \in Objects
  BY DEF Objects
<1>13. Together => \A l \in g.links : l.type = "MEMBER_OF" =>
          l = Membership /\ (TellsOfIt(entries, User) \/ TellsOfIt(entries, Group))
  BY <1>10
<1>14. TellsOfIt(entries, User) /\ TellsOfIt(entries, Group) => Membership \in g.links
  BY <1>11 DEF TellsOfIt
<1>. QED
  BY <1>7, <1>8, <1>9, <1>12, <1>13, <1>14 DEF Draws, g

LEMMA FreeipaDraws ==
    ASSUME kind = "FREEIPA", NEW entries, NEW c, Entered(entries, c), Forest \notin entries
    PROVE  Draws(MapFreeipa(entries), entries)
<1>1. CASE ~plain
  <2>1. ~Together /\ \A i : ~Mappable(i)
    BY <1>1 DEF Together, Mappable
  <2>. QED
    BY <2>1 DEF Draws
<1> SUFFICES ASSUME plain PROVE Draws(MapFreeipa(entries), entries)
  BY <1>1
<1> DEFINE g == MapFreeipa(entries)
<1>2. \A i \in Objects : IdOf(i) = <<"ipa", Names[i]>>
  BY DEF IdOf
<1>3. \A i \in Objects : \A v, m : FreeipaNode(Entry(i, v, m)) = IdOf(i)
  BY <1>2, EntryIs DEF FreeipaNode
<1>4. ASSUME NEW e \in entries
      PROVE  \E i \in Objects, m \in BOOLEAN : Saw(e, c, i, m) /\ e.pos = i /\ e.name = Names[i]
                                                  /\ FreeipaNode(e) = IdOf(i) /\ e.refs = Refs(i, m)
  BY <1>3, EntryIs DEF Entered, Saw
<1>5. g.nodes = {[id |-> FreeipaNode(o), of |-> o] : o \in entries}
      /\ g.links = {l \in UNION {FreeipaLinksOf(entries, o) : o \in entries} : l.source # l.target}
  BY DEF MapFreeipa
<1>6. ASSUME NEW n \in g.nodes
      PROVE  n.of \in entries /\ n.id = FreeipaNode(n.of)
  BY <1>5
<1>7. ASSUME NEW n \in g.nodes, NEW i \in Objects, n.of.name = Names[i] PROVE n.id = IdOf(i)
  BY <1>4, <1>6, <1>7, NamesDiffer
<1>8. ASSUME NEW e \in entries
      PROVE  \E n \in g.nodes : n.id = IdOf(e.pos) /\ n.of = e
  <2>1. [id |-> FreeipaNode(e), of |-> e] \in g.nodes
    BY <1>5
  <2>2. FreeipaNode(e) = IdOf(e.pos)
    BY <1>4
  <2> HIDE DEF g
  <2>. QED
    BY <2>1, <2>2
<1>9. ASSUME NEW i \in Objects, NEW n \in g.nodes, n.id = IdOf(i) PROVE n.of.pos = i
  BY <1>2, <1>4, <1>6, <1>9, NamesDiffer
<1>10. User \in Objects /\ Group \in Objects /\ Names[User] = "u" /\ Names[Group] = "g"
  BY DEF Objects, User, Group, Names
<1>11. \A i \in Objects : \A t \in FreeipaNamed(entries, Names[i]) : t = IdOf(i)
  <2> SUFFICES ASSUME NEW i \in Objects, NEW p \in entries, p.name = Names[i] PROVE FreeipaNode(p) = IdOf(i)
    BY DEF FreeipaNamed
  <2>. QED
    BY <1>4, NamesDiffer
<1> DEFINE drawn(o, x) ==
       CASE x[1] \in DOMAIN FreeipaOut -> Resolved(FreeipaOut[x[1]], {FreeipaNode(o)}, FreeipaNamed(entries, x[2]))
         [] x[1] \in FreeipaIn -> Resolved("MEMBER_OF", FreeipaNamed(entries, x[2]), {FreeipaNode(o)})
         [] x[1] = "sshPublicKey" -> {Link("HAS_SSH_KEY", FreeipaNode(o), <<"ssh", x[2]>>)}
         [] OTHER -> {}
<1>12. \A o : FreeipaLinksOf(entries, o) = UNION {drawn(o, x) : x \in o.refs}
  BY DEF FreeipaLinksOf
<1>13. /\ \A o : drawn(o, <<"memberOf", "g">>) = Resolved("MEMBER_OF", {FreeipaNode(o)}, FreeipaNamed(entries, "g"))
       /\ \A o : drawn(o, <<"managedBy", "u">>) = Resolved("MANAGED_BY", {FreeipaNode(o)}, FreeipaNamed(entries, "u"))
       /\ \A o : drawn(o, <<"member", "u">>) = Resolved("MEMBER_OF", FreeipaNamed(entries, "u"), {FreeipaNode(o)})
  BY DEF FreeipaOut, FreeipaIn
<1> HIDE DEF drawn
<1>14. ASSUME NEW l \in g.links, l.type = "MEMBER_OF"
       PROVE  l = Membership /\ (TellsOfIt(entries, User) \/ TellsOfIt(entries, Group))
  <2>1. PICK o \in entries : l \in FreeipaLinksOf(entries, o)
    BY <1>5
  <2>2. PICK ref \in o.refs : l \in drawn(o, ref)
    BY <1>12, <2>1
  <2>3. PICK i \in Objects, m \in BOOLEAN : Saw(o, c, i, m) /\ FreeipaNode(o) = IdOf(i) /\ o.refs = Refs(i, m)
    BY <1>4
  <2>4. \/ i = User /\ m /\ ref = <<"memberOf", "g">>
        \/ i = Group /\ m /\ ref = <<"member", "u">>
        \/ ref = <<"managedBy", "u">>
    BY <2>3 DEF Refs, Objects
  <2>5. CASE i = User /\ m /\ ref = <<"memberOf", "g">>
    <3>1. l \in Resolved("MEMBER_OF", {IdOf(User)}, FreeipaNamed(entries, "g"))
      BY <1>13, <2>2, <2>3, <2>5
    <3>2. l = Membership
      BY <1>10, <1>11, <3>1 DEF Resolved, Membership
    <3>. QED
      BY <2>3, <2>5, <3>2 DEF Saw, TellsOfIt
  <2>6. CASE i = Group /\ m /\ ref = <<"member", "u">>
    <3>1. l \in Resolved("MEMBER_OF", FreeipaNamed(entries, "u"), {IdOf(Group)})
      BY <1>13, <2>2, <2>3, <2>6
    <3>2. l = Membership
      BY <1>10, <1>11, <3>1 DEF Resolved, Membership
    <3>. QED
      BY <2>3, <2>6, <3>2 DEF Saw, TellsOfIt
  <2>7. ref # <<"managedBy", "u">>
    <3> SUFFICES ASSUME ref = <<"managedBy", "u">> PROVE FALSE
      OBVIOUS
    <3>1. l \in Resolved("MANAGED_BY", {FreeipaNode(o)}, FreeipaNamed(entries, "u"))
      BY <1>13, <2>2
    <3>. QED
      BY <1>14, <3>1 DEF Resolved, Link
  <2>. QED
    BY <2>4, <2>5, <2>6, <2>7
<1>15. ASSUME NEW v, NEW m \in BOOLEAN, m, Entry(User, v, m) \in entries,
              NEW w, NEW k \in BOOLEAN, Entry(Group, w, k) \in entries
       PROVE  Membership \in g.links
  <2> DEFINE o == Entry(User, v, m)
             p == Entry(Group, w, k)
  <2>1. FreeipaNode(o) = IdOf(User) /\ FreeipaNode(p) = IdOf(Group)
    BY <1>3, <1>10
  <2>2. o.refs = Refs(User, m) /\ p.name = Names[Group]
    BY <1>10, EntryIs
  <2>3. <<"memberOf", "g">> \in Refs(User, m)
    BY <1>15, UserRefs
  <2> HIDE DEF o, p
  <2>4. IdOf(Group) \in FreeipaNamed(entries, "g")
    BY <1>10, <1>15, <2>1, <2>2 DEF FreeipaNamed, p
  <2>5. Membership \in drawn(o, <<"memberOf", "g">>)
    BY <1>13, <2>1, <2>4 DEF Resolved, Membership
  <2>6. Membership \in FreeipaLinksOf(entries, o)
    BY <1>12, <2>2, <2>3, <2>5
  <2>7. Membership.source # Membership.target
    BY <1>2, <1>10 DEF Membership, Link
  <2>. QED
    BY <1>5, <1>15, <2>6, <2>7 DEF o
<1> HIDE DEF g
<1>16. Together => \A l \in g.links : l.type = "MEMBER_OF" =>
          l = Membership /\ (TellsOfIt(entries, User) \/ TellsOfIt(entries, Group))
  BY <1>14
<1>17. TellsOfIt(entries, User) /\ TellsOfIt(entries, Group) => Membership \in g.links
  BY <1>15 DEF TellsOfIt
<1>. QED
  BY <1>7, <1>8, <1>9, <1>10, <1>16, <1>17 DEF Draws, g

LEMMA EntraDraws ==
    ASSUME kind = "ENTRA_ID", NEW entries, NEW c, Entered(entries, c), Forest \notin entries
    PROVE  Draws(MapEntra(entries), entries)
<1> DEFINE g == MapEntra(entries)
<1>1. \A i \in Objects : IdOf(i) = <<"entra", Types[i], Names[i]>>
  BY DEF IdOf
<1>2. \A i \in Objects : \A v, m : EntraNode(Entry(i, v, m)) = IdOf(i)
  BY <1>1, EntryIs DEF EntraNode
<1>3. ASSUME NEW e \in entries
      PROVE  \E i \in Objects, m \in BOOLEAN : Saw(e, c, i, m) /\ e.pos = i /\ EntraNode(e) = IdOf(i)
  BY <1>2, EntryIs DEF Entered, Saw
<1>4. g.nodes = {[id |-> EntraNode(o), of |-> o] : o \in entries}
  BY DEF MapEntra
<1>5. ASSUME NEW n \in g.nodes
      PROVE  n.of \in entries /\ n.id = EntraNode(n.of)
  BY <1>4
<1>6. ASSUME NEW e \in entries
      PROVE  \E n \in g.nodes : n.id = IdOf(e.pos) /\ n.of = e
  <2>1. [id |-> EntraNode(e), of |-> e] \in g.nodes
    BY <1>4
  <2>2. EntraNode(e) = IdOf(e.pos)
    BY <1>3
  <2> HIDE DEF g
  <2>. QED
    BY <2>1, <2>2
<1>7. ASSUME NEW i \in Objects, NEW n \in g.nodes, n.id = IdOf(i) PROVE n.of.pos = i
  BY <1>1, <1>3, <1>5, <1>7, NamesDiffer
<1> HIDE DEF g
<1>8. ~Together
  BY DEF Together
<1>. QED
  BY <1>6, <1>7, <1>8 DEF Draws, g

\* What is known of the host: what was printed, or nothing.
LEMMA HostIs ==
    ASSUME NEW entries, NEW c, Entered(entries, c), Forest \notin entries
    PROVE  LET h == HostIdentity(entries)
           IN  /\ h.pos = Device /\ h.name \in {"", "h"}
               /\ \A e \in entries : e.pos = Device => h.name = "h" /\ h.ver = e.ver
<1> DEFINE found == {x \in entries : x.pos = Device}
           hosts == {[pos |-> e.pos, ver |-> e.ver, name |-> e.name, os |-> "os"] : e \in found}
           known == [pos |-> Device, ver |-> c.seen[Device], name |-> "h", os |-> "os"]
           h == HostIdentity(entries)
<1>1. CASE found = {}
  <2>1. h = [pos |-> Device, ver |-> 0, name |-> "", os |-> None]
    BY <1>1 DEF HostIdentity
  <2> HIDE DEF h
  <2>2. h.pos = Device /\ h.name = ""
    BY <2>1
  <2>. QED
    BY <1>1, <2>2 DEF h
<1>2. CASE found # {}
  <2>1. ASSUME NEW e \in entries, e.pos = Device
        PROVE  e.name = "h" /\ e.ver = c.seen[Device]
    <3>1. PICK i \in Objects, m \in BOOLEAN : Saw(e, c, i, m)
      BY DEF Entered
    <3>2. i = Device /\ Device \in Objects
      BY <2>1, <3>1, EntryIs DEF Saw, Objects
    <3>3. Names[Device] = "h"
      BY DEF Names, Device
    <3>. QED
      BY <3>1, <3>2, <3>3, EntryIs DEF Saw
  <2>2. \A x \in hosts : x = known
    BY <2>1
  <2>3. \E x : x \in hosts
    BY <1>2
  <2>4. h = CHOOSE x \in hosts : TRUE
    BY <1>2 DEF HostIdentity
  <2> HIDE DEF hosts, h
  <2>5. h = known
    BY <2>2, <2>3, <2>4
  <2>6. h.pos = Device /\ h.name = "h" /\ h.ver = c.seen[Device]
    BY <2>5
  <2>. QED
    BY <2>1, <2>6 DEF h
<1>. QED
  BY <1>1, <1>2

\* The script that prints the keys is on no list of allowed commands.
LEMMA NoKeys == ASSUME NEW entries PROVE Keys(entries) = {}
<1>1. "for u in $(getent passwd)" \notin AllowedCommands
  BY DEF AllowedCommands
<1>2. \A x : Exec("for u in $(getent passwd)", x) \ {None} = {}
  BY <1>1 DEF Exec, Allowed
<1>. QED
  BY <1>2 DEF Keys

LEMMA LinuxDraws ==
    ASSUME kind = "LINUX_SSH", NEW entries, NEW c, Entered(entries, c), Forest \notin entries
    PROVE  Draws(LinuxGraph(LinuxExtract(entries)), entries)
<1> DEFINE g == LinuxGraph(LinuxExtract(entries))
           host == HostIdentity(entries)
<1>1. /\ User \in Objects /\ Group \in Objects /\ Device \in Objects
      /\ Names[User] = "u" /\ Names[Group] = "g" /\ Names[Device] = "h"
      /\ User # Group /\ User # Device /\ Group # Device
  BY DEF Objects, User, Group, Device, Names
<1>2. /\ IdOf(User) = LinuxUser("u") /\ IdOf(Group) = LinuxGroup("g")
      /\ IdOf(Device) = <<"linux", "host", "h">>
  BY DEF IdOf, LinuxTypes, LinuxUser, LinuxGroup, Names, User, Group, Device
<1>3. ASSUME NEW e \in entries
      PROVE  \E m \in BOOLEAN : e.pos \in Objects /\ e.name = Names[e.pos] /\ e.refs = Refs(e.pos, m) /\ Saw(e, c, e.pos, m)
  BY EntryIs DEF Entered, Saw
<1>4. /\ g.nodes = PasswdNodes(Passwd(entries)) \cup GroupNodes(Groups(entries)) \cup SudoNodes(Rules(entries))
                     \cup KeyNodes(Keys(entries)) \cup HostNodes(host)
      /\ g.links = GroupLinks(Groups(entries)) \cup KeyLinks(Keys(entries), Passwd(entries)) \cup HostLinks(host)
  BY DEF LinuxGraph, LinuxExtract, BuildLinuxGraph
<1>5. KeyNodes(Keys(entries)) = {} /\ KeyLinks(Keys(entries), Passwd(entries)) = {}
  BY NoKeys DEF KeyNodes, KeyLinks
<1>6. /\ host.pos = Device /\ host.name \in {"", "h"}
      /\ \A e \in entries : e.pos = Device => host.name = "h" /\ host.ver = e.ver
  BY HostIs
<1> HIDE DEF g, host
<1>7. ASSUME NEW n \in PasswdNodes(Passwd(entries))
      PROVE  n.id = IdOf(User) /\ n.of.name = "u" /\ n.of.pos = User
  <2>1. PICK x \in Passwd(entries) : n = [id |-> LinuxUser(x.name), of |-> x]
    BY DEF PasswdNodes, Humans
  <2>2. PICK e \in entries : e.pos = User /\ x.pos = e.pos /\ x.name = e.name
    BY DEF Passwd
  <2>. QED
    BY <1>1, <1>2, <1>3, <2>1, <2>2
<1>8. ASSUME NEW n \in GroupNodes(Groups(entries))
      PROVE  n.id = IdOf(Group) /\ n.of.name = "g" /\ n.of.pos = Group
  <2>1. PICK x \in Groups(entries) : n = [id |-> LinuxGroup(x.name), of |-> x]
    BY DEF GroupNodes
  <2>2. PICK e \in entries : e.pos = Group /\ x.pos = e.pos /\ x.name = e.name
    BY DEF Groups
  <2>. QED
    BY <1>1, <1>2, <1>3, <2>1, <2>2
<1>9. ASSUME NEW n \in SudoNodes(Rules(entries))
      PROVE  n.id = <<"linux", "sudo", "rule">> /\ n.of.name = "rule"
  BY DEF SudoNodes, Rules
<1>10. ASSUME NEW n \in HostNodes(host)
       PROVE  /\ n.of = host
              /\ n.id = <<"linux", "host", host.name>> \/ n.id = <<"linux", "os", host.os>>
  BY DEF HostNodes
<1>11. ASSUME NEW n \in g.nodes, NEW i \in {User, Group}, n.of.name = Names[i] PROVE n.id = IdOf(i)
  BY <1>1, <1>4, <1>5, <1>6, <1>7, <1>8, <1>9, <1>10, <1>11
<1>12. ASSUME NEW e \in entries, Mappable(e.pos)
       PROVE  \E n \in g.nodes : n.id = IdOf(e.pos) /\ n.of.name = e.name /\ n.of.ver = e.ver /\ n.of.pos = e.pos
  <2>1. e.pos \in Objects /\ e.name = Names[e.pos]
    BY <1>3
  <2>2. CASE e.pos = User
    <3> DEFINE x == [pos |-> e.pos, ver |-> e.ver, name |-> e.name, uid |-> HumanUid]
               n == [id |-> LinuxUser(x.name), of |-> x]
    <3>1. plain
      BY <1>12, <2>2 DEF Mappable
    <3>2. x \in Passwd(entries)
      BY <2>2, <3>1 DEF Passwd
    <3>3. x \in Humans(Passwd(entries))
      BY <3>2 DEF Humans, HumanUid
    <3>4. n \in g.nodes
      BY <1>4, <3>3 DEF PasswdNodes
    <3>5. n.id = IdOf(User) /\ n.of.name = e.name /\ n.of.ver = e.ver /\ n.of.pos = e.pos
      BY <1>1, <1>2, <2>1, <2>2
    <3> HIDE DEF n
    <3>. QED
      BY <2>2, <3>4, <3>5
  <2>3. CASE e.pos = Group
    <3> DEFINE x == [pos |-> e.pos, ver |-> e.ver, name |-> e.name, members |-> {ref[2] : ref \in e.refs}]
               n == [id |-> LinuxGroup(x.name), of |-> x]
    <3>1. x \in Groups(entries)
      BY <2>3 DEF Groups
    <3>2. n \in g.nodes
      BY <1>4, <3>1 DEF GroupNodes
    <3>3. n.id = IdOf(Group) /\ n.of.name = e.name /\ n.of.ver = e.ver /\ n.of.pos = e.pos
      BY <1>1, <1>2, <2>1, <2>3
    <3> HIDE DEF n
    <3>. QED
      BY <2>3, <3>2, <3>3
  <2>4. CASE e.pos = Device
    <3> DEFINE n == [id |-> <<"linux", "host", host.name>>, of |-> host]
    <3>1. n \in g.nodes
      BY <1>4 DEF HostNodes
    <3>2. n.id = IdOf(Device) /\ n.of.name = e.name /\ n.of.ver = e.ver /\ n.of.pos = e.pos
      BY <1>1, <1>2, <1>6, <2>1, <2>4
    <3> HIDE DEF n
    <3>. QED
      BY <2>4, <3>1, <3>2
  <2>. QED
    BY <2>1, <2>2, <2>3, <2>4 DEF Objects
<1>13. ASSUME NEW i \in Objects, NEW n \in g.nodes, n.id = IdOf(i) PROVE n.of.pos = i
  <2>1. n.id[2] = LinuxTypes[i]
    BY <1>13 DEF IdOf
  <2>2. /\ LinuxTypes[User] = "user" /\ LinuxTypes[Group] = "group" /\ LinuxTypes[Device] = "host"
        /\ IdOf(User)[2] = "user" /\ IdOf(Group)[2] = "group"
    BY <1>2 DEF LinuxTypes, User, Group, Device, LinuxUser, LinuxGroup
  <2>3. i = User \/ i = Group \/ i = Device
    BY DEF Objects
  <2>4. \/ n.id[2] = "user" /\ n.of.pos = User
        \/ n.id[2] = "group" /\ n.of.pos = Group
        \/ n.id[2] = "sudo" \/ n.id[2] = "os"
        \/ n.id[2] = "host" /\ n.of.pos = Device
    <3>1. CASE n \in PasswdNodes(Passwd(entries)) \/ n \in GroupNodes(Groups(entries))
      BY <1>7, <1>8, <2>2, <3>1
    <3>2. CASE n \in SudoNodes(Rules(entries))
      BY <1>9, <3>2
    <3>3. CASE n \in HostNodes(host)
      <4>1. n.id[2] = "host" \/ n.id[2] = "os"
        BY <1>10, <3>3
      <4>2. n.of.pos = Device
        BY <1>6, <1>10, <3>3
      <4>. QED
        BY <4>1, <4>2
    <3>. QED
      BY <1>4, <1>5, <3>1, <3>2, <3>3
  <2>. QED
    BY <2>1, <2>2, <2>3, <2>4
<1>14. \A m \in BOOLEAN : {ref[2] : ref \in Refs(Group, m)} = IF m THEN {"u"} ELSE {}
  <2>1. kind # "ENTRA_ID" /\ <<"member", "u">>[2] = "u"
    OBVIOUS
  <2>2. ASSUME NEW m \in BOOLEAN PROVE {ref[2] : ref \in Refs(Group, m)} = IF m THEN {"u"} ELSE {}
    <3>1. CASE m
      <4>1. Refs(Group, m) = {<<"member", "u">>}
        BY <2>1, <3>1, GroupRefs
      <4>. QED
        BY <2>1, <3>1, <4>1
    <3>2. CASE ~m
      <4>1. Refs(Group, m) = {}
        BY <3>2, GroupRefs
      <4>. QED
        BY <3>2, <4>1
    <3>. QED
      BY <3>1, <3>2
  <2>. QED
    BY <2>2
<1>15. ASSUME NEW l \in g.links, l.type = "MEMBER_OF"
       PROVE  l = Membership /\ TellsOfIt(entries, Group)
  <2>1. l \in GroupLinks(Groups(entries))
    BY <1>4, <1>5, <1>15 DEF HostLinks, Link
  <2>2. PICK x \in Groups(entries) : l \in Resolved("MEMBER_OF", {LinuxUser(m) : m \in x.members}, {LinuxGroup(x.name)})
    BY <2>1 DEF GroupLinks
  <2>3. PICK e \in entries : e.pos = Group /\ x.name = e.name /\ x.members = {ref[2] : ref \in e.refs}
    BY DEF Groups
  <2>4. PICK m \in BOOLEAN : e.name = "g" /\ e.refs = Refs(Group, m) /\ Saw(e, c, Group, m)
    BY <1>1, <1>3, <2>3
  <2>5. x.members = IF m THEN {"u"} ELSE {}
    BY <1>14, <2>3, <2>4
  <2>6. PICK member \in x.members : l = Link("MEMBER_OF", LinuxUser(member), LinuxGroup(x.name))
    BY <2>2 DEF Resolved
  <2>7. m /\ member = "u"
    BY <2>5, <2>6
  <2>8. l = Membership
    BY <1>2, <2>3, <2>4, <2>6, <2>7 DEF Membership
  <2>. QED
    BY <2>4, <2>7, <2>8 DEF Saw, TellsOfIt
<1>16. ASSUME NEW v, NEW m \in BOOLEAN, m, Entry(Group, v, m) \in entries
       PROVE  Membership \in g.links
  <2> DEFINE e == Entry(Group, v, m)
             x == [pos |-> e.pos, ver |-> e.ver, name |-> e.name, members |-> {ref[2] : ref \in e.refs}]
  <2>1. e.pos = Group /\ e.refs = Refs(Group, m) /\ e.name = "g"
    BY <1>1, EntryIs
  <2> HIDE DEF e
  <2>2. x \in Groups(entries)
    BY <1>16, <2>1 DEF Groups, e
  <2>3. x.members = {"u"} /\ x.name = "g"
    BY <1>14, <1>16, <2>1
  <2> HIDE DEF x
  <2>4. Membership \in Resolved("MEMBER_OF", {LinuxUser(y) : y \in x.members}, {LinuxGroup(x.name)})
    BY <1>2, <2>3 DEF Resolved, Membership
  <2>. QED
    BY <1>4, <2>2, <2>4 DEF GroupLinks
<1>17. Together => \A l \in g.links : l.type = "MEMBER_OF" =>
          l = Membership /\ (TellsOfIt(entries, User) \/ TellsOfIt(entries, Group))
  BY <1>15
<1>18. TellsOfIt(entries, User) /\ TellsOfIt(entries, Group) => Membership \in g.links
  BY <1>16 DEF TellsOfIt
<1>. QED
  BY <1>11, <1>12, <1>13, <1>17, <1>18 DEF Draws, g

\* So does what the run applies, of the objects it has cut off at the limit.
LEMMA MappedDraws ==
    ASSUME NEW c, kind \in Kinds, Entered(c.found, c), Forest \notin c.found
    PROVE  Draws(Mapped(c), Extracted(c))
<1>1. /\ kind = "ACTIVE_DIRECTORY" => Entered(Extracted(c), c)
      /\ kind # "ACTIVE_DIRECTORY" => Extracted(c) = c.found
  BY DEF Extracted, Cut, Entered
<1>2. CASE kind = "ACTIVE_DIRECTORY"
  BY <1>1, <1>2, AdDraws DEF Mapped
<1>3. CASE kind = "FREEIPA"
  BY <1>1, <1>3, FreeipaDraws DEF Mapped
<1>4. CASE kind = "ENTRA_ID"
  BY <1>1, <1>4, EntraDraws DEF Mapped
<1>5. CASE kind = "LINUX_SSH"
  BY <1>1, <1>5, LinuxDraws DEF Mapped
<1>. QED
  BY <1>2, <1>3, <1>4, <1>5 DEF Kinds

-----------------------------------------------------------------------------
(* A full run is whole *)

LEMMA BoundsNamed ==
    ASSUME UNCHANGED bounds
    PROVE  /\ kind' = kind /\ plain' = plain /\ \A i : IdOf(i)' = IdOf(i) /\ (Mappable(i)' <=> Mappable(i))
           /\ Membership' = Membership /\ (Together' <=> Together)
           /\ \A i, v, m : Entry(i, v, m)' = Entry(i, v, m)
<1>1. kind' = kind /\ plain' = plain
  BY DEF kind, plain
<1>. QED
  BY <1>1 DEF IdOf, Mappable, Membership, Together, Entry, Refs

\* A run that goes on as it was, of a directory that has at most grown.
LEMMA ReadKept ==
    ASSUME UNCHANGED bounds, dir \in Directory, dir' \in Directory,
           NEW r \in Requests, calls'[r] = calls[r], ReadOf(calls[r]),
           dir.member => dir'.member,
           \A i \in Objects : dir.ver[i] <= dir'.ver[i],
           dir'.ver = dir.ver => dir'.member = dir.member
    PROVE  ReadOf(calls[r])' /\ (calls[r].began = dir'.ver => dir'.ver = dir.ver /\ dir'.member = dir.member)
<1> DEFINE c == calls[r]
<1>1. c \in Runs /\ c' = c /\ Runs' = Runs
  BY RunsFixed DEF ReadOf
<1>2. c.began \in [Objects -> Nat] /\ dir.ver \in [Objects -> Nat] /\ dir'.ver \in [Objects -> Nat]
  BY <1>1 DEF Runs, Directory
<1>3. \A i \in Objects : c.began[i] <= dir.ver[i] /\ c.began[i] <= dir'.ver[i]
  BY <1>2 DEF ReadOf
<1>4. c.began = dir'.ver => c.began = dir.ver /\ dir'.member = dir.member
  <2> SUFFICES ASSUME c.began = dir'.ver PROVE c.began = dir.ver
    OBVIOUS
  <2>1. \A i \in Objects : dir.ver[i] = c.began[i]
    BY <1>2, <1>3
  <2>. QED
    BY <1>2, <2>1
<1>5. \A e, i, m : Saw(e, c, i, m)' <=> Saw(e, c, i, m)
  BY <1>1, BoundsNamed DEF Saw
<1>. QED
  BY <1>1, <1>3, <1>4, <1>5 DEF ReadOf

LEMMA DrawnKept ==
    ASSUME UNCHANGED <<bounds, graph>>, NEW r \in Requests, calls'[r] = calls[r], DrawnOf(calls[r]),
           calls[r].began = dir'.ver => dir'.ver = dir.ver /\ dir'.member = dir.member
    PROVE  DrawnOf(calls[r])'
<1>1. /\ \A i : IdOf(i)' = IdOf(i) /\ (Mappable(i)' <=> Mappable(i))
      /\ Membership' = Membership /\ (Together' <=> Together)
  BY BoundsNamed
<1>. QED
  BY <1>1 DEF DrawnOf

\* Who is called what does not depend on a step that draws nothing.
LEMMA NamedKept ==
    ASSUME UNCHANGED <<bounds, graph>>, Named, dir.member => dir'.member
    PROVE  Named'
<1>1. (\A i : IdOf(i)' = IdOf(i)) /\ Membership' = Membership /\ (Together' <=> Together)
  BY BoundsNamed
<1>. QED
  BY <1>1 DEF Named

\* A step in which every run goes on as it was, or ends.
LEMMA RunsGoOn ==
    ASSUME FullInv, UNCHANGED <<bounds, graph>>, dir' \in Directory,
           dir.member => dir'.member,
           \A i \in Objects : dir.ver[i] <= dir'.ver[i],
           dir'.ver = dir.ver => dir'.member = dir.member,
           dir'.member => Exists(User)' /\ Exists(Group)',
           \A r \in Requests : Running(r)' => Running(r) /\ calls'[r] = calls[r]
    PROVE  FullInv'
<1>1. ASSUME NEW r \in Requests, Running(r)' PROVE ReadOf(calls[r])' /\ DrawnOf(calls[r])'
  <2>1. Running(r) /\ calls'[r] = calls[r] /\ ReadOf(calls[r]) /\ DrawnOf(calls[r])
    BY <1>1 DEF FullInv
  <2>2. ReadOf(calls[r])' /\ (calls[r].began = dir'.ver => dir'.ver = dir.ver /\ dir'.member = dir.member)
    BY <2>1, ReadKept DEF FullInv
  <2>. QED
    BY <2>1, <2>2, DrawnKept
<1>2. Named'
  BY NamedKept DEF FullInv
<1>. QED
  BY <1>1, <1>2 DEF FullInv

LEMMA SameDirectory ==
    ASSUME FullInv, UNCHANGED <<bounds, graph, dir>>,
           \A r \in Requests : Running(r)' => Running(r) /\ calls'[r] = calls[r]
    PROVE  FullInv'
<1>1. dir' \in Directory /\ \A i \in Objects : dir.ver[i] <= dir'.ver[i]
  BY DEF FullInv, Directory
<1>2. dir'.member => Exists(User)' /\ Exists(Group)'
  BY DEF FullInv, Exists
<1>. QED
  BY <1>1, <1>2, RunsGoOn

\* A change of the directory is a version of its own; a membership is never taken away.
LEMMA DirectoryWhole == ASSUME CInv, FullInv, DirectoryNext PROVE FullInv'
<1>1. UNCHANGED <<bounds, graph, calls>>
  BY DEF DirectoryNext, Joins, Tick, Changes
<1>2. \A r \in Requests : Running(r)' => Running(r) /\ calls'[r] = calls[r]
  BY <1>1 DEF Running
<1>3. CASE Tick
  BY <1>1, <1>2, <1>3, SameDirectory DEF Tick
<1>4. dir \in Directory
  BY DEF FullInv
<1>5. ASSUME NEW i \in Objects, dir' \in Directory, dir'.ver = [dir.ver EXCEPT ![i] = dir.ver[i] + 1],
             dir'.member = dir.member \/ (dir'.member /\ Exists(User) /\ Exists(Group))
      PROVE  FullInv'
  <2>1. \A j \in Objects : dir.ver[j] \in Nat /\ dir'.ver[j] >= dir.ver[j]
    BY <1>4, <1>5 DEF Directory
  <2>2. dir'.ver # dir.ver
    BY <1>4, <1>5 DEF Directory
  <2>3. \A j \in Objects : Exists(j) => Exists(j)'
    BY <2>1, <1>5 DEF Exists, Directory
  <2>4. User \in Objects /\ Group \in Objects
    BY DEF Objects
  <2>5. (dir.member => dir'.member) /\ (dir'.member => Exists(User)' /\ Exists(Group)')
    BY <1>5, <2>3, <2>4 DEF FullInv
  <2>6. \A j \in Objects : dir.ver[j] <= dir'.ver[j]
    BY <1>5, <2>1 DEF Directory
  <2>. QED
    BY <1>1, <1>2, <1>5, <2>2, <2>5, <2>6, RunsGoOn
<1>6. clock \in Nat
  BY ConnectorsAssumption DEF CInv, Typed
<1>7. CASE Joins
  <2>1. Group \in Objects /\ Exists(User) /\ Exists(Group)
    BY <1>7 DEF Joins, Objects
  <2>. QED
    BY <1>4, <1>5, <1>6, <1>7, <2>1, JoinsTyped
<1>8. ASSUME NEW j \in Objects, Changes(j) PROVE FullInv'
  BY <1>4, <1>5, <1>6, <1>8, ChangesTyped
<1>. QED
  BY <1>3, <1>7, <1>8 DEF DirectoryNext

\* Only the connector that is run has a run.
LEMMA OneRunWhole ==
    ASSUME CInv', FullInv, UNCHANGED <<bounds, dir>>, Named', NEW r \in Requests, Running(r)',
           ReadOf(calls[r])', DrawnOf(calls[r])'
    PROVE  FullInv'
<1>1. dir' \in Directory /\ (dir'.member => Exists(User)' /\ Exists(Group)')
  BY DEF FullInv, Exists, Directory
<1>. QED
  BY <1>1 DEF CInv, Held, FullInv

LEMMA SyncWhole ==
    ASSUME CInv, CInv', FullInv, NEW r \in Requests, NEW o \in bounds.bodies, Sync(r, o)
    PROVE  FullInv'
<1>1. clock \in Nat /\ bounds.time \in Nat /\ o \in [mode : Modes, limit : Nat, persist : BOOLEAN, scan : BOOLEAN]
  BY ConnectorsAssumption DEF CInv, Typed
<1>2. connector \in Record
  BY ObjectThere DEF CInv, Held, Sync
<1>3. UNCHANGED <<bounds, dir, graph>> /\ connector.synced \in Nat
  BY <1>1, <1>2 DEF Sync, Record
<1> DEFINE mark == IF o.mode = "INCREMENTAL" /\ kind # "LINUX_SSH" THEN connector.synced ELSE 0
           limit == IF o.mode = "PREVIEW" THEN o.limit ELSE 0
           c == [pc |-> "extract", status |-> "RUNNING", mode |-> o.mode, persist |-> o.persist, scan |-> o.scan,
                 limit |-> limit, mark |-> mark,
                 next |-> User, seen |-> [i \in Objects |-> 0], found |-> {}, began |-> dir.ver,
                 quiet |-> Quiet, made |-> Made]
<1>4. calls'[r] = c
  BY DEF Sync, CInv, Typed
<1>5. mark \in Nat /\ limit \in Nat /\ (o.mode = "FULL" => mark = 0 /\ limit = 0)
  BY <1>1, <1>3
<1> HIDE DEF mark, limit
<1>6. dir.ver \in [Objects -> Nat]
  BY DEF FullInv, Directory
<1>7. c \in Runs
  <2>1. o.mode \in Modes /\ o.persist \in BOOLEAN /\ o.scan \in BOOLEAN
    BY <1>1
  <2>2. Quiet \in BOOLEAN /\ Made \in SUBSET Requests
    BY DEF Quiet, Made
  <2>. QED
    BY <1>5, <1>6, <2>1, <2>2 DEF Runs, Steps, User
<1>8. /\ c.pc = "extract" /\ c.next = User /\ c.found = {} /\ c.began = dir.ver
      /\ \A i \in Objects : c.seen[i] = 0
      /\ c.mode = "FULL" => c.mark = 0 /\ c.limit = 0
  BY <1>5
<1> HIDE DEF c
<1>9. ReadOf(calls[r])'
  <2>1. \A i \in Objects : dir.ver[i] <= dir.ver[i]
    BY <1>6
  <2>. QED
    BY <1>3, <1>4, <1>7, <1>8, <2>1, RunsFixed DEF ReadOf, Objects
<1>10. DrawnOf(calls[r])'
  BY <1>4, <1>8 DEF DrawnOf
<1>11. Running(r)'
  BY <1>4, <1>8 DEF Running
<1>12. Named'
  BY <1>3, NamedKept DEF FullInv
<1>. QED
  BY <1>3, <1>9, <1>10, <1>11, <1>12, OneRunWhole

\* Reading one more collection, with what it has, or without an answer.
LEMMA ReadsOne ==
    ASSUME CInv, FullInv, NEW r \in Requests, Search(r) \/ Skip(r) \/ Command(r)
    PROVE  \E seen, found :
              /\ calls'[r] = Reached([calls[r] EXCEPT !.next = calls[r].next + 1, !.seen = seen, !.found = found])
              /\ \/ seen = calls[r].seen /\ found = calls[r].found
                 \/ \E entry \in SUBSET {Entry(calls[r].next, dir.ver[calls[r].next], dir.member)} :
                       /\ seen = [calls[r].seen EXCEPT ![calls[r].next] = dir.ver[calls[r].next]]
                       /\ found = calls[r].found \cup entry
                       /\ Exists(calls[r].next) /\ calls[r].mark = 0 => entry # {}
<1> DEFINE c == calls[r]
           i == c.next
           e == Entry(i, dir.ver[i], dir.member)
<1>1. c \in Runs /\ DOMAIN calls = Requests
  BY DEF Search, Skip, Command, Running, FullInv, ReadOf, CInv, Typed
<1>2. CASE Search(r)
  <2> DEFINE entry == IF Exists(i) /\ Matches(i, c.mark) THEN {e} ELSE {}
  <2>1. calls'[r] = Reached([c EXCEPT !.next = i + 1, !.seen[i] = dir.ver[i], !.found = c.found \cup entry])
    BY <1>1, <1>2 DEF Search
  <2>2. Exists(i) /\ c.mark = 0 => entry # {}
    BY DEF Matches
  <2>3. entry \in SUBSET {e}
    OBVIOUS
  <2> DEFINE seen == [c.seen EXCEPT ![i] = dir.ver[i]]
             found == c.found \cup entry
  <2>4. calls'[r] = Reached([c EXCEPT !.next = i + 1, !.seen = seen, !.found = found])
    BY <2>1
  <2> HIDE DEF entry, c, e
  <2>. QED
    BY <2>2, <2>3, <2>4 DEF c, e
<1>3. CASE Skip(r)
  <2>1. calls'[r] = Reached([c EXCEPT !.next = i + 1])
    BY <1>1, <1>3 DEF Skip
  <2>2. [c EXCEPT !.next = i + 1] = [c EXCEPT !.next = i + 1, !.seen = c.seen, !.found = c.found]
    <3> HIDE DEF c
    <3>. QED
      BY <1>1 DEF Runs
  <2>. QED
    BY <2>1, <2>2
<1>4. CASE Command(r)
  <2> DEFINE printed == IF Exists(i) THEN {e} ELSE {}
  <2>1. PICK result \in Exec(Commands[i], printed) :
           calls' = [calls EXCEPT ![r] = Reached(
                 IF result = None THEN [c EXCEPT !.next = i + 1]
                 ELSE [c EXCEPT !.next = i + 1, !.seen[i] = dir.ver[i], !.found = c.found \cup result])]
    BY <1>4 DEF Command
  <2>2. CASE result = None
    <3>1. calls'[r] = Reached([c EXCEPT !.next = i + 1])
      BY <1>1, <2>1, <2>2
    <3>2. [c EXCEPT !.next = i + 1] = [c EXCEPT !.next = i + 1, !.seen = c.seen, !.found = c.found]
      <4> HIDE DEF c
      <4>. QED
        BY <1>1 DEF Runs
    <3>. QED
      BY <3>1, <3>2
  <2>3. CASE result # None
    <3>1. result = printed
      BY <2>1, <2>3 DEF Exec
    <3> DEFINE seen == [c.seen EXCEPT ![i] = dir.ver[i]]
               found == c.found \cup result
    <3>2. calls'[r] = Reached([c EXCEPT !.next = i + 1, !.seen = seen, !.found = found])
      BY <1>1, <2>1, <2>3
    <3>3. result \in SUBSET {e} /\ (Exists(i) => result # {})
      BY <3>1
    <3> HIDE DEF c, e
    <3>. QED
      BY <3>2, <3>3 DEF c, e
  <2>. QED
    BY <2>2, <2>3
<1>. QED
  BY <1>2, <1>3, <1>4

LEMMA ReadsWhole ==
    ASSUME CInv, CInv', FullInv, NEW r \in Requests, Search(r) \/ Skip(r) \/ Command(r)
    PROVE  FullInv'
<1> DEFINE c == calls[r]
           i == c.next
           d == calls'[r]
           e == Entry(i, dir.ver[i], dir.member)
<1>1. UNCHANGED <<bounds, dir, graph>> /\ c.pc = "extract" /\ Running(r)
  BY DEF Search, Skip, Command, Running
<1>2. ReadOf(c) /\ c \in Runs /\ i \in Objects
  BY <1>1 DEF FullInv, ReadOf
<1>3. i \in Nat /\ dir.ver \in [Objects -> Nat] /\ dir.member \in BOOLEAN
  BY <1>2 DEF FullInv, Directory, Objects, User, Group, Device
<1>4. e \in Entries /\ e.pos = i
  <2>1. e.pos = i
    BY <1>2, EntryIs
  <2>2. dir.ver[i] \in Nat
    BY <1>2, <1>3
  <2>. QED
    BY <1>2, <1>3, <2>1, <2>2 DEF Entries
<1>5. PICK seen, found :
        /\ d = Reached([c EXCEPT !.next = i + 1, !.seen = seen, !.found = found])
        /\ \/ seen = c.seen /\ found = c.found
           \/ \E entry \in SUBSET {e} :
                 /\ seen = [c.seen EXCEPT ![i] = dir.ver[i]] /\ found = c.found \cup entry
                 /\ Exists(i) /\ c.mark = 0 => entry # {}
  <2> HIDE DEF FullInv, CInv, Search, Skip, Command
  <2>1. \E seen, found :
              /\ calls'[r] = Reached([calls[r] EXCEPT !.next = calls[r].next + 1, !.seen = seen, !.found = found])
              /\ \/ seen = calls[r].seen /\ found = calls[r].found
                 \/ \E entry \in SUBSET {Entry(calls[r].next, dir.ver[calls[r].next], dir.member)} :
                       /\ seen = [calls[r].seen EXCEPT ![calls[r].next] = dir.ver[calls[r].next]]
                       /\ found = calls[r].found \cup entry
                       /\ Exists(calls[r].next) /\ calls[r].mark = 0 => entry # {}
    BY ReadsOne
  <2>. QED
    BY <2>1, Zenon
<1> HIDE DEF e, d, c
<1>6. seen \in [Objects -> Nat] /\ found \in SUBSET Entries
  BY <1>2, <1>3, <1>4, <1>5 DEF Runs
<1> DEFINE b == [c EXCEPT !.next = i + 1, !.seen = seen, !.found = found]
<1>7. /\ b \in Runs /\ b.next = i + 1 /\ b.seen = seen /\ b.found = found
      /\ b.mark = c.mark /\ b.limit = c.limit /\ b.mode = c.mode /\ b.began = c.began
  <2> DEFINE next == i + 1
  <2>1. next \in Nat
    BY <1>3
  <2>2. b = [c EXCEPT !.next = next, !.seen = seen, !.found = found]
    OBVIOUS
  <2> HIDE DEF next, b
  <2>3. b \in Runs /\ b.next = next
    BY <1>2, <1>6, <2>1, <2>2 DEF Runs
  <2>4. b.seen = seen /\ b.found = found
    BY <1>2, <2>2 DEF Runs
  <2>5. b.mark = c.mark /\ b.limit = c.limit /\ b.mode = c.mode /\ b.began = c.began
    BY <1>2, <2>2 DEF Runs
  <2>. QED
    BY <2>3, <2>4, <2>5 DEF next
<1> HIDE DEF b
<1>8. PICK pc \in Steps : /\ d = [b EXCEPT !.pc = pc]
                          /\ pc = "extract" => b.next \in Objects
                          /\ pc \in {"scan", "complete"} => ~b.persist
  BY <1>5 DEF Reached, Steps, More, b
<1>9. /\ d \in Runs /\ d.next = i + 1 /\ d.seen = seen /\ d.found = found
      /\ d.mark = c.mark /\ d.limit = c.limit /\ d.mode = c.mode /\ d.began = c.began
      /\ d.pc \in Steps /\ (d.pc = "extract" => d.next \in Objects)
      /\ d.pc \in {"scan", "complete"} => ~d.persist
  BY <1>7, <1>8 DEF Runs
<1>10. Running(r)'
  BY <1>9 DEF Running, Steps, d
<1>11. DrawnOf(calls[r])'
  BY <1>9 DEF DrawnOf, d
<1>12. \A j \in Objects : /\ seen[j] # c.seen[j] => j = i
                          /\ c.began[j] <= dir.ver[j] /\ (j >= i => c.seen[j] = 0)
                          /\ j \in Nat
  <2>1. \A j \in Objects : seen[j] # c.seen[j] => j = i
    BY <1>2, <1>5 DEF Runs
  <2>2. \A j \in Objects : j \in Nat
    BY DEF Objects, User, Group, Device
  <2>. QED
    BY <1>2, <2>1, <2>2 DEF ReadOf
<1>13. \A j \in Objects : j >= i + 1 => seen[j] = 0
  BY <1>3, <1>12
<1>14. ASSUME NEW x \in found
       PROVE  \E j \in Objects, m \in BOOLEAN :
                 /\ x = Entry(j, seen[j], m) /\ j < i + 1 /\ (m => dir.member)
                 /\ c.began = dir.ver => m = dir.member
  <2>1. CASE x \in c.found
    <3>1. PICK j \in Objects, m \in BOOLEAN :
             /\ Saw(x, c, j, m) /\ j < i /\ (m => dir.member)
             /\ c.began = dir.ver => m = dir.member
      BY <1>2, <2>1 DEF ReadOf
    <3>2. seen[j] = c.seen[j] /\ j < i + 1
      BY <1>3, <1>12, <3>1
    <3>. QED
      BY <3>1, <3>2 DEF Saw
  <2>2. CASE x \notin c.found
    <3>1. x = e /\ seen = [c.seen EXCEPT ![i] = dir.ver[i]]
      BY <1>5, <2>2
    <3>2. seen[i] = dir.ver[i]
      BY <1>2, <3>1 DEF Runs
    <3>3. x = Entry(i, seen[i], dir.member) /\ i < i + 1
      BY <1>3, <3>1, <3>2 DEF e
    <3>. QED
      BY <1>2, <1>3, <3>3
  <2>. QED
    BY <2>1, <2>2
<1>15. ASSUME c.mode = "FULL"
       PROVE  c.mark = 0 /\ c.limit = 0 /\ \A j \in Objects : seen[j] > 0 => \E x \in found : x.pos = j
  <2>1. c.mark = 0 /\ c.limit = 0 /\ \A j \in Objects : c.seen[j] > 0 => \E x \in c.found : x.pos = j
    BY <1>2, <1>15 DEF ReadOf
  <2>2. c.found \subseteq found
    BY <1>5
  <2> SUFFICES ASSUME NEW j \in Objects, seen[j] > 0 PROVE \E x \in found : x.pos = j
    BY <2>1
  <2>3. CASE seen[j] = c.seen[j]
    BY <2>1, <2>2, <2>3
  <2>4. CASE seen[j] # c.seen[j]
    <3>1. j = i
      BY <1>12, <2>4
    <3>2. PICK entry \in SUBSET {e} :
             /\ seen = [c.seen EXCEPT ![i] = dir.ver[i]] /\ found = c.found \cup entry
             /\ Exists(i) /\ c.mark = 0 => entry # {}
      BY <1>5, <2>4
    <3>3. Exists(i)
      BY <1>2, <3>1, <3>2 DEF Exists, Runs
    <3>4. e \in found
      BY <2>1, <3>2, <3>3
    <3>. QED
      BY <1>4, <3>1, <3>4
  <2>. QED
    BY <2>3, <2>4
<1>16. ReadOf(calls[r])'
  <2>1. /\ calls'[r].next = i + 1 /\ calls'[r].seen = seen /\ calls'[r].found = found
        /\ calls'[r].mark = c.mark /\ calls'[r].limit = c.limit /\ calls'[r].mode = c.mode
        /\ calls'[r].began = c.began
        /\ calls'[r] \in Runs' /\ (calls'[r].pc = "extract" => calls'[r].next \in Objects)
    BY <1>1, <1>9, RunsFixed DEF d
  <2>2. dir' = dir /\ \A x, j, m : Entry(j, x, m)' = Entry(j, x, m)
    BY <1>1, BoundsNamed
  <2>3. \A x, j, m : Saw(x, calls[r], j, m)' <=> j \in Objects /\ m \in BOOLEAN /\ x = Entry(j, seen[j], m)
    BY <2>1, <2>2 DEF Saw
  <2>. QED
    BY <1>12, <1>13, <1>14, <1>15, <2>1, <2>2, <2>3 DEF ReadOf
<1>17. Named'
  BY <1>1, NamedKept DEF FullInv
<1>. QED
  BY <1>1, <1>10, <1>11, <1>16, <1>17, OneRunWhole

LEMMA RefsTell ==
    ASSUME NEW i \in {User, Group}, NEW m \in BOOLEAN, NEW k \in BOOLEAN, kind # "ENTRA_ID",
           m, Refs(i, m) = Refs(i, k)
    PROVE  k
<1>1. CASE i = User
  <2>1. <<"memberOf", "g">> \in Refs(User, k)
    BY <1>1, UserRefs
  <2>. QED
    BY <2>1, Z3 DEF Refs, User, Group, Device
<1>2. CASE i = Group
  BY <1>2, GroupRefs
<1>. QED
  BY <1>1, <1>2

LEMMA AppliesWhole ==
    ASSUME CInv, CInv', FullInv, NEW r \in Requests, Applies(r)
    PROVE  FullInv'
<1> DEFINE c == calls[r]
           g == Mapped(c)
           entries == Extracted(c)
<1>1. UNCHANGED <<bounds, dir>> /\ c.pc = "apply" /\ Running(r) /\ graph' = Merge(graph, g)
  BY DEF Applies, Running
<1>2. ReadOf(c) /\ c \in Runs
  BY <1>1 DEF FullInv, ReadOf
<1>3. PICK next \in {"scan", "complete", "throws"} : calls'[r] = [c EXCEPT !.pc = next]
  BY DEF Applies, CInv, Typed
<1>4. kind \in Kinds
  BY ConnectorsAssumption DEF CInv, Typed, kind
<1> HIDE DEF c
<1>5. ASSUME NEW e \in c.found
      PROVE  \E i \in Objects, m \in BOOLEAN :
                /\ Saw(e, c, i, m) /\ (m => dir.member) /\ e.pos = i /\ e # Forest /\ e.refs = Refs(i, m)
                /\ c.began = dir.ver => m = dir.member
  <2>1. PICK i \in Objects, m \in BOOLEAN :
           /\ Saw(e, c, i, m) /\ (m => dir.member)
           /\ c.began = dir.ver => m = dir.member
    BY <1>2 DEF ReadOf
  <2>2. e.pos = i /\ e.refs = Refs(i, m)
    BY <2>1, EntryIs DEF Saw
  <2>3. e # Forest
    BY <2>2, NamesDiffer
  <2>. QED
    BY <2>1, <2>2, <2>3
<1>6. Draws(g, entries)
  BY <1>4, <1>5, MappedDraws DEF Entered
<1>7. entries \subseteq c.found \cup {Forest} /\ (c.limit = 0 => c.found \subseteq entries)
  BY DEF Extracted, Cut
<1> HIDE DEF g, entries
<1>8. /\ graph'.nodes = {n \in graph.nodes : \A m \in g.nodes : m.id # n.id} \cup Last(g.nodes)
      /\ Last(g.nodes) \subseteq g.nodes
      /\ graph'.links = graph.links \cup {l \in g.links : /\ l.source \in {n.id : n \in graph.nodes \cup g.nodes}
                                                         /\ l.target \in {n.id : n \in graph.nodes \cup g.nodes}}
  BY <1>1 DEF Merge, Last
<1>9. ASSUME kind # "ENTRA_ID", NEW i \in {User, Group}, TellsOfIt(entries, i) PROVE dir.member
  <2>0. PICK v : \E m \in BOOLEAN : m /\ Entry(i, v, m) \in entries
    BY <1>9 DEF TellsOfIt
  <2>1. PICK m \in BOOLEAN : m /\ Entry(i, v, m) \in entries
    BY <2>0
  <2> DEFINE e == Entry(i, v, m)
  <2>2. i \in Objects
    BY DEF Objects
  <2>3. e.pos = i /\ e.refs = Refs(i, m)
    BY <2>2, EntryIs
  <2>4. e \in entries
    BY <2>1
  <2> HIDE DEF e
  <2>5. e # Forest
    BY <2>2, <2>3, NamesDiffer
  <2>6. PICK j \in Objects, k \in BOOLEAN : (k => dir.member) /\ e.pos = j /\ e.refs = Refs(j, k)
    BY <1>5, <1>7, <2>4, <2>5
  <2>7. Refs(i, m) = Refs(i, k)
    BY <2>3, <2>6
  <2>8. k
    BY <1>9, <2>1, <2>7, RefsTell
  <2>. QED
    BY <2>6, <2>8
<1>10. Named'
  <2> SUFFICES ASSUME Together
               PROVE  /\ \A n \in graph'.nodes, i \in {User, Group} : n.of.name = Names[i] => n.id = IdOf(i)
                      /\ \A l \in graph'.links : l.type = "MEMBER_OF" => dir.member /\ l = Membership
    BY <1>1, BoundsNamed DEF Named
  <2>1. /\ \A n \in graph.nodes, i \in {User, Group} : n.of.name = Names[i] => n.id = IdOf(i)
        /\ \A l \in graph.links : l.type = "MEMBER_OF" => dir.member /\ l = Membership
    BY DEF FullInv, Named
  <2>2. /\ \A n \in g.nodes, i \in {User, Group} : n.of.name = Names[i] => n.id = IdOf(i)
        /\ \A l \in g.links : l.type = "MEMBER_OF" =>
              l = Membership /\ (TellsOfIt(entries, User) \/ TellsOfIt(entries, Group))
    BY <1>6 DEF Draws
  <2>3. \A l \in g.links : l.type = "MEMBER_OF" => dir.member /\ l = Membership
    BY <1>9, <2>2 DEF Together
  <2>. QED
    BY <1>8, <2>1, <2>2, <2>3
<1>11. /\ calls'[r] \in Runs /\ calls'[r].pc = next /\ calls'[r].found = c.found /\ calls'[r].next = c.next
       /\ calls'[r].seen = c.seen /\ calls'[r].mark = c.mark /\ calls'[r].limit = c.limit
       /\ calls'[r].mode = c.mode /\ calls'[r].persist = c.persist /\ calls'[r].began = c.began
  <2>1. next \in Steps
    BY DEF Steps
  <2>. QED
    BY <1>2, <1>3, <2>1 DEF Runs
<1>12. Running(r)'
  BY <1>11 DEF Running
<1>13. ReadOf(calls[r])'
  <2>1. \A e, i, m : Saw(e, calls[r], i, m)' <=> Saw(e, c, i, m)
    BY <1>1, <1>11, BoundsNamed DEF Saw
  <2>. QED
    BY <1>1, <1>2, <1>11, <2>1, RunsFixed DEF ReadOf
<1>14. ASSUME c.limit = 0, NEW e \in c.found, Mappable(e.pos)
       PROVE  /\ \E n \in graph'.nodes : n.id = IdOf(e.pos) /\ n.of.name = e.name /\ n.of.ver = e.ver
              /\ \E n \in g.nodes : n.id = IdOf(e.pos)
  <2>1. e # Forest /\ e.pos \in Objects /\ e.pos \in Nat
    BY <1>5, NamesDiffer
  <2>2. e \in entries
    BY <1>7, <1>14
  <2>3. PICK n \in g.nodes : n.id = IdOf(e.pos) /\ n.of.name = e.name /\ n.of.ver = e.ver /\ n.of.pos = e.pos
    BY <1>6, <1>14, <2>1, <2>2 DEF Draws
  <2>4. \A m \in g.nodes : m.id = n.id => m.of.pos = e.pos
    BY <1>6, <1>14, <2>1, <2>3 DEF Draws
  <2>5. n \in Last(g.nodes)
    BY <2>1, <2>3, <2>4 DEF Last
  <2>. QED
    BY <1>8, <2>3, <2>5
<1>15. ASSUME c.limit = 0, Together, c.began = dir.ver, dir.member, {User, Group} \subseteq {e.pos : e \in c.found}
       PROVE  Membership \in graph'.links
  <2>1. ASSUME NEW i \in {User, Group}
        PROVE  TellsOfIt(entries, i) /\ IdOf(i) \in {n.id : n \in graph.nodes \cup g.nodes}
    <3>1. PICK e \in c.found : e.pos = i
      BY <1>15
    <3>2. PICK j \in Objects, m \in BOOLEAN : Saw(e, c, j, m) /\ e.pos = j /\ m = dir.member
      BY <1>5, <1>15
    <3>3. TellsOfIt(entries, i)
      BY <1>7, <1>15, <3>1, <3>2 DEF Saw, TellsOfIt
    <3>4. Mappable(e.pos)
      BY <1>15, <3>1 DEF Together
    <3>5. \E n \in g.nodes : n.id = IdOf(i)
      BY <1>14, <1>15, <3>1, <3>4
    <3>. QED
      BY <3>3, <3>5
  <2>2. Membership \in g.links
    BY <1>6, <1>15, <2>1 DEF Draws
  <2>3. Membership.source = IdOf(User) /\ Membership.target = IdOf(Group)
    BY DEF Membership, Link
  <2>. QED
    BY <1>8, <2>1, <2>2, <2>3
<1>16. DrawnOf(calls[r])'
  <2>1. /\ \A i : IdOf(i)' = IdOf(i) /\ (Mappable(i)' <=> Mappable(i))
        /\ Membership' = Membership /\ (Together' <=> Together)
    BY <1>1, BoundsNamed
  <2>. QED
    BY <1>1, <1>11, <1>14, <1>15, <2>1 DEF DrawnOf
<1>. QED
  BY <1>1, <1>10, <1>12, <1>13, <1>16, OneRunWhole

\* A run ends, and every other request goes on as it was, or nothing runs any more.
LEMMA OthersEnd ==
    ASSUME CInv, NEW r \in Requests, Completes(r) \/ Throws(r) \/ FlushEnds(r) \/ AdministrationNext(r)
    PROVE  \A q \in Requests : Running(q)' => Running(q) /\ calls'[q] = calls[q]
<1>2. PICK x : calls' = [calls EXCEPT ![r] = x] /\ x.pc \notin Steps
  <2>1. CASE Completes(r) \/ Throws(r)
    <3>1. \A status, quiet, made :
             [pc |-> "flush", status |-> status, waits |-> Waited, quiet |-> quiet, made |-> made].pc \notin Steps
      BY DEF Steps
    <3>2. PICK status : calls' = [calls EXCEPT ![r] = [pc |-> "flush", status |-> status, waits |-> Waited,
                                                        quiet |-> calls[r].quiet, made |-> calls[r].made]]
      BY <2>1 DEF Completes, Throws, Finally
    <3>. QED
      BY <3>1, <3>2
  <2>2. CASE FlushEnds(r)
    <3>1. \A status, of : Ended(IF status THEN "error" ELSE "ok", of).pc \notin Steps
      BY DEF Steps, Ended
    <3>. QED
      BY <2>2, <3>1 DEF FlushEnds
  <2>3. CASE AdministrationNext(r)
    <3>1. /\ Ended("ok", None).pc \notin Steps /\ Ended("error", None).pc \notin Steps
          /\ [pc |-> "test", status |-> None].pc \notin Steps
      BY DEF Steps, Ended
    <3>. QED
      BY <2>3, <3>1 DEF AdministrationNext, Create, Update, Delete, Test, Tested
  <2>. QED
    BY <2>1, <2>2, <2>3
<1>3. DOMAIN calls = Requests
  BY DEF CInv, Typed
<1>4. calls'[r].pc \notin Steps
  BY <1>2, <1>3
<1>5. ~Running(r)'
  BY <1>4 DEF Running, Steps
<1>6. \A q \in Requests : q # r => calls'[q] = calls[q]
  BY <1>2, <1>3
<1>. QED
  BY <1>5, <1>6 DEF Running

LEMMA OthersWhole ==
    ASSUME CInv, FullInv, NEW r \in Requests, Completes(r) \/ Throws(r) \/ FlushEnds(r) \/ AdministrationNext(r)
    PROVE  FullInv'
<1>1. UNCHANGED <<bounds, graph, dir>>
  BY DEF Completes, Throws, Finally, FlushEnds, AdministrationNext, Create, Update, Delete, Test, Tested
<1>. QED
  BY <1>1, OthersEnd, SameDirectory

LEMMA WritesWhole ==
    ASSUME CInv, FullInv, OtherFails \/ OtherFlushes \/ Restart \/ \E w \in pending : Send(w) \/ Land(w) \/ Fail(w)
    PROVE  FullInv'
<1>1. UNCHANGED <<bounds, graph, dir>>
  BY DEF OtherFails, OtherFlushes, Restart, Send, Land, Fail
<1>2. \A q \in Requests : Running(q)' => Running(q) /\ calls'[q] = calls[q]
  <2>1. CASE OtherFails \/ OtherFlushes \/ \E w \in pending : Send(w) \/ Land(w) \/ Fail(w)
    BY <2>1, EndedFields DEF OtherFails, OtherFlushes, Send, Land, Fail, Running
  <2>2. CASE Restart
    BY <2>2, EndedFields DEF Restart, Running, Idle
  <2>. QED
    BY <2>1, <2>2
<1>. QED
  BY <1>1, <1>2, SameDirectory

LEMMA InitWhole == ASSUME Init PROVE FullInv
<1>1. dir \in Directory /\ ~dir.member
  <2>1. /\ [i \in Objects |-> IF i \in bounds.there THEN 1 ELSE 0] \in [Objects -> Nat]
        /\ [i \in Objects |-> 0] \in [Objects -> Nat] /\ FALSE \in BOOLEAN /\ 0 \in Nat
    OBVIOUS
  <2>. QED
    BY <2>1 DEF Init, Directory
<1>2. \A r \in Requests : ~Running(r)
  BY DEF Init, Idle, Running
<1>3. Named
  BY DEF Init, Named
<1>. QED
  BY <1>1, <1>2, <1>3 DEF FullInv

LEMMA StepWhole == ASSUME CInv, CInv', FullInv, [Next]_vars PROVE FullInv'
<1>1. CASE UNCHANGED vars
  <2>1. UNCHANGED <<bounds, graph, dir, calls>>
    BY <1>1 DEF vars
  <2>. QED
    BY <2>1, SameDirectory DEF Running
<1>2. ASSUME NEW r \in Requests, RunNext(r) PROVE FullInv'
  BY <1>2, SyncWhole, ReadsWhole, AppliesWhole, OthersWhole DEF RunNext
<1>3. ASSUME NEW r \in Requests, AdministrationNext(r) PROVE FullInv'
  BY <1>3, OthersWhole
<1>. QED
  BY <1>1, <1>2, <1>3, DirectoryWhole, WritesWhole DEF Next, WriteNext

\* Only one step ends a run that completes.
LEMMA CompletedBy ==
    ASSUME CInv, FullInv, NEW r \in Requests, Running(r), calls'[r].pc = "flush", calls'[r].status = "COMPLETED", [Next]_vars
    PROVE  calls[r].pc \in {"scan", "complete"}
<1>1. calls' # calls /\ calls[r].pc # "flush" /\ DOMAIN calls = Requests
  BY DEF Running, CInv, Typed
<1>2. ~OtherFails /\ ~OtherFlushes /\ ~DirectoryNext /\ \A w \in pending : ~Send(w) /\ ~Land(w)
  BY <1>1 DEF OtherFails, OtherFlushes, DirectoryNext, Joins, Tick, Changes, Send, Land
<1>3. ASSUME NEW w \in pending, Fail(w) PROVE FALSE
  BY <1>1, <1>3, EndedFields DEF Fail
<1>4. ~Restart
  BY <1>1, EndedFields DEF Restart, Running, Idle
<1>5. ASSUME NEW q \in Requests, q # r, RunNext(q) \/ AdministrationNext(q) PROVE FALSE
  <2>1. calls'[r] = calls[r]
    BY <1>1, <1>5 DEF RunNext, Sync, Search, Skip, Command, Applies, Completes, Throws, Finally, FlushEnds,
              AdministrationNext, Create, Update, Delete, Test, Tested
  <2>. QED
    BY <1>1, <2>1
<1>6. CASE AdministrationNext(r)
  <2>1. calls[r] # Idle /\ calls[r].pc # "test"
    BY DEF Running, Idle
  <2>. QED
    BY <1>6, <2>1 DEF AdministrationNext, Create, Update, Delete, Test, Tested
<1>7. CASE RunNext(r)
  <2>1. ~FlushEnds(r) /\ (\A o : ~Sync(r, o))
    BY <1>1 DEF FlushEnds, Sync, Running, Idle
  <2>2. ~Throws(r)
    BY <1>1 DEF Throws, Finally
  <2>3. ~Applies(r)
    BY <1>1 DEF Applies, CInv, Typed
  <2>4. ~Search(r) /\ ~Skip(r) /\ ~Command(r)
    <3>1. "pc" \in DOMAIN calls[r]
      BY DEF CInv, Typed
    <3>2. \A next, seen, found : "pc" \in DOMAIN [calls[r] EXCEPT !.next = next, !.seen = seen, !.found = found]
      BY <3>1
    <3>3. \A next, seen, found : Reached([calls[r] EXCEPT !.next = next, !.seen = seen, !.found = found]).pc \in Steps
      BY <3>2, ReachedStep
    <3> SUFFICES ASSUME Search(r) \/ Skip(r) \/ Command(r) PROVE FALSE
      OBVIOUS
    <3>4. calls'[r].pc \in Steps
      <4> DEFINE next == calls[r].next + 1
      <4>1. PICK seen, found : calls'[r] = Reached([calls[r] EXCEPT !.next = next, !.seen = seen, !.found = found])
        BY ReadsOne
      <4> HIDE DEF next
      <4>2. Reached([calls[r] EXCEPT !.next = next, !.seen = seen, !.found = found]).pc \in Steps
        BY <3>3
      <4>. QED
        BY <4>1, <4>2
    <3>. QED
      BY <1>1, <3>4 DEF Steps
  <2>. QED
    BY <1>7, <2>1, <2>2, <2>3, <2>4 DEF RunNext, Completes
<1>. QED
  BY <1>1, <1>2, <1>3, <1>4, <1>5, <1>6, <1>7 DEF Next, WriteNext, vars

\* What such a run has found is all there is, and the graph has it.
LEMMA ShownWhole ==
    ASSUME CInv, FullInv, NEW r \in Requests, Running(r), calls[r].pc \in {"scan", "complete"},
           calls[r].mode = "FULL", calls[r].persist, calls[r].began = dir.ver, calls[r].seen = dir.ver
    PROVE  \A i \in Objects : Exists(i) /\ Mappable(i) =>
              \E n \in graph.nodes : n.id = IdOf(i) /\ n.of.name = Names[i] /\ n.of.ver = dir.ver[i]
<1> DEFINE c == calls[r]
<1>1. ReadOf(c) /\ DrawnOf(c)
  BY DEF FullInv
<1> SUFFICES ASSUME NEW i \in Objects, Exists(i), Mappable(i)
             PROVE  \E n \in graph.nodes : n.id = IdOf(i) /\ n.of.name = Names[i] /\ n.of.ver = dir.ver[i]
  OBVIOUS
<1>2. PICK e \in c.found : e.pos = i
  BY <1>1 DEF ReadOf, Exists
<1>3. PICK j \in Objects, m \in BOOLEAN : Saw(e, c, j, m)
  BY <1>1 DEF ReadOf
<1>4. j = i /\ e.name = Names[i] /\ e.ver = dir.ver[i]
  BY <1>2, <1>3, EntryIs DEF Saw
<1>5. c.limit = 0
  BY <1>1 DEF ReadOf
<1>. QED
  BY <1>1, <1>2, <1>4, <1>5 DEF DrawnOf

\* And the membership.
LEMMA MembersWhole ==
    ASSUME CInv, FullInv, NEW r \in Requests, Running(r), calls[r].pc \in {"scan", "complete"},
           calls[r].mode = "FULL", calls[r].persist, calls[r].began = dir.ver, calls[r].seen = dir.ver, Together
    PROVE  {<<l.source, l.target>> : l \in {k \in graph.links : k.type = "MEMBER_OF"}}
               = IF dir.member THEN NodeOf(User) \X NodeOf(Group) ELSE {}
<1> DEFINE c == calls[r]
           members == {k \in graph.links : k.type = "MEMBER_OF"}
<1>1. ReadOf(c) /\ DrawnOf(c) /\ Named /\ dir.member \in BOOLEAN /\ (dir.member => Exists(User) /\ Exists(Group))
  BY DEF FullInv, Directory
<1>2. CASE ~dir.member
  BY <1>1, <1>2 DEF Named
<1>3. CASE dir.member
  <2>1. c.limit = 0 /\ \A i \in {User, Group} : i \in Objects /\ \E e \in c.found : e.pos = i
    BY <1>1, <1>3 DEF ReadOf, Exists, Objects
  <2>2. Membership \in graph.links
    BY <1>1, <1>3, <2>1 DEF DrawnOf
  <2>3. Membership.type = "MEMBER_OF" /\ Membership.source = IdOf(User) /\ Membership.target = IdOf(Group)
    BY DEF Membership, Link
  <2>4. members = {Membership}
    BY <1>1, <2>2, <2>3 DEF Named
  <2>5. ASSUME NEW i \in {User, Group} PROVE NodeOf(i) = {IdOf(i)}
    <3>1. \E n \in graph.nodes : n.id = IdOf(i) /\ n.of.name = Names[i]
      BY <1>1, <1>3, <2>1, ShownWhole DEF Together
    <3>2. \A n \in graph.nodes : n.of.name = Names[i] => n.id = IdOf(i)
      BY <1>1 DEF Named
    <3>. QED
      BY <3>1, <3>2 DEF NodeOf
  <2>6. NodeOf(User) \X NodeOf(Group) = {<<IdOf(User), IdOf(Group)>>}
    BY <2>5
  <2>7. {<<l.source, l.target>> : l \in members} = {<<IdOf(User), IdOf(Group)>>}
    BY <2>3, <2>4
  <2>. QED
    BY <1>3, <2>6, <2>7
<1>. QED
  BY <1>1, <1>2, <1>3

-----------------------------------------------------------------------------
(* What the answer of a run is worth *)

\* What a row may be when the run of a request without competition is answered.
Like(v) == v # None /\ v.enabled = connector.enabled /\ (v = connector \/ v.status = "SYNCING")

\* The run has the connector to itself: what is under way is its own, and once its last
\* write has landed the row is like the connector.
Lone(r) ==
    /\ connector # None
    /\ \A q \in Requests : q # r => ~UnderWay(q)
    /\ \A w \in pending : w.by = r /\ ~w.deletes /\ (w.value.sent => Like(w.value.of))
    /\ Running(r) => connector.status = "SYNCING" /\ \A w \in pending : w.step = "first"
    /\ calls[r].pc = "flush" /\ (\A w \in pending : w.step # "last") => Like(row)

\* While it runs, and until it is answered.
Ends(r) == Running(r) \/ calls[r].pc = "flush"

AnswerInv ==
    \A r \in Requests : Ends(r) =>
        /\ calls[r].quiet \in BOOLEAN /\ calls[r].made \subseteq Made \ {r}
        /\ Alone(r) => Lone(r)

\* A request that is made ends that the others are alone.
LEMMA AnotherMade ==
    ASSUME CInv, AnswerInv, NEW q \in Requests, calls[q] = Idle, NEW x, x.pc # "idle",
           calls' = [calls EXCEPT ![q] = x],
           Ends(q)' => x.quiet \in BOOLEAN /\ x.made \subseteq Made /\ (Alone(q)' => Lone(q)'),
           q \notin x.made \/ ~Ends(q)'
    PROVE  AnswerInv'
<1>1. /\ DOMAIN calls' = Requests /\ calls'[q] = x
      /\ \A r \in Requests : r # q => calls'[r] = calls[r]
  BY DEF CInv, Typed
<1>2. x # Idle
  BY DEF Idle
<1>3. Made' = Made \cup {q} /\ q \notin Made
  BY <1>1, <1>2 DEF Made
<1>4. ASSUME NEW r \in Requests, Ends(r)', r # q
      PROVE  calls'[r].quiet \in BOOLEAN /\ calls'[r].made \subseteq Made' \ {r} /\ ~Alone(r)'
  <2>1. Ends(r) /\ calls'[r] = calls[r]
    BY <1>1, <1>4 DEF Ends, Running
  <2>2. calls[r].quiet \in BOOLEAN /\ calls[r].made \subseteq Made \ {r}
    BY <2>1 DEF AnswerInv
  <2>3. q \in (Made \ {r})' /\ q \notin calls'[r].made
    BY <1>3, <1>4, <2>1, <2>2
  <2>. QED
    BY <1>3, <2>1, <2>2, <2>3 DEF Alone
<1>5. ASSUME Ends(q)'
      PROVE  calls'[q].quiet \in BOOLEAN /\ calls'[q].made \subseteq Made' \ {q} /\ (Alone(q)' => Lone(q)')
  <2>1. x.quiet \in BOOLEAN /\ x.made \subseteq Made /\ (Alone(q)' => Lone(q)') /\ q \notin x.made
    BY <1>5
  <2>2. x.made \subseteq Made' \ {q}
    BY <1>3, <2>1
  <2>. QED
    BY <1>1, <2>1, <2>2
<1>. QED
  BY <1>4, <1>5 DEF AnswerInv

\* A step of what is under way already: who is alone after it was so before.
LEMMA SameMade ==
    ASSUME CInv, AnswerInv, NEW q \in Requests, calls[q] # Idle, NEW x, x.pc # "idle",
           calls' = [calls EXCEPT ![q] = x],
           Ends(q)' => Ends(q) /\ x.quiet = calls[q].quiet /\ x.made = calls[q].made
    PROVE  /\ Made' = Made /\ calls'[q] = x
           /\ \A r \in Requests : r # q => calls'[r] = calls[r]
           /\ \A r \in Requests : Ends(r)' =>
                 /\ Ends(r) /\ calls'[r].quiet = calls[r].quiet /\ calls'[r].made = calls[r].made
                 /\ calls'[r].quiet \in BOOLEAN /\ calls'[r].made \subseteq Made' \ {r}
                 /\ (Alone(r)' <=> Alone(r)) /\ (Alone(r)' => Lone(r))
<1>1. /\ DOMAIN calls' = Requests /\ calls'[q] = x
      /\ \A r \in Requests : r # q => calls'[r] = calls[r]
  BY DEF CInv, Typed
<1>2. x # Idle
  BY DEF Idle
<1>3. Made' = Made
  BY <1>1, <1>2 DEF Made
<1>4. ASSUME NEW r \in Requests, Ends(r)'
      PROVE  Ends(r) /\ calls'[r].quiet = calls[r].quiet /\ calls'[r].made = calls[r].made
  BY <1>1, <1>4 DEF Ends, Running
<1>5. ASSUME NEW r \in Requests, Ends(r)'
      PROVE  /\ calls'[r].quiet \in BOOLEAN /\ calls'[r].made \subseteq Made' \ {r}
             /\ (Alone(r)' <=> Alone(r)) /\ (Alone(r)' => Lone(r))
  <2>1. Ends(r) /\ calls'[r].quiet = calls[r].quiet /\ calls'[r].made = calls[r].made
    BY <1>4, <1>5
  <2>2. calls[r].quiet \in BOOLEAN /\ calls[r].made \subseteq Made \ {r} /\ (Alone(r) => Lone(r))
    BY <2>1 DEF AnswerInv
  <2>3. Alone(r)' <=> Alone(r)
    BY <1>3, <2>1 DEF Alone
  <2>. QED
    BY <1>3, <2>1, <2>2, <2>3
<1>. QED
  BY <1>1, <1>3, <1>4, <1>5

LEMMA SendAnswer == ASSUME CInv, AnswerInv, NEW w \in pending, Send(w) PROVE AnswerInv'
<1> DEFINE v == [w EXCEPT !.value = Sent(Payload(w))]
<1>1. w \in WriteRecord /\ ~w.value.sent /\ pending' = (pending \ {w}) \cup {v}
      /\ UNCHANGED <<calls, connector, row>>
  BY DEF Send, CInv, Typed, memory
<1>2. v.by = w.by /\ v.step = w.step /\ v.deletes = w.deletes /\ v.value.sent /\ v.value.of = Payload(w)
  BY <1>1 DEF WriteRecord, Sent
<1> HIDE DEF v
<1>3. ASSUME NEW r \in Requests, Lone(r) PROVE Lone(r)'
  <2>1. ~w.deletes => Payload(w) = connector
    BY DEF Payload
  <2>2. w.by = r /\ ~w.deletes /\ Like(connector)
    BY <1>3 DEF Lone, Like
  <2>. QED
    BY <1>1, <1>2, <1>3, <2>1, <2>2 DEF Lone, Like, Running, UnderWay
<1>. QED
  BY <1>1, <1>3 DEF AnswerInv, Ends, Alone, Made, Running

LEMMA LandAnswer == ASSUME CInv, AnswerInv, NEW w \in pending, Land(w) PROVE AnswerInv'
<1>1. w.value.sent /\ pending' = pending \ {w} /\ row' = w.value.of
      /\ UNCHANGED <<calls, connector>>
  BY DEF Land, memory
<1>2. ASSUME NEW r \in Requests, Lone(r) PROVE Lone(r)'
  <2>1. Like(w.value.of)
    BY <1>1, <1>2 DEF Lone
  <2>. QED
    BY <1>1, <1>2, <2>1 DEF Lone, Like, Running, UnderWay
<1>. QED
  BY <1>1, <1>2 DEF AnswerInv, Ends, Alone, Made, Running

LEMMA FailAnswer == ASSUME CInv, AnswerInv, NEW w \in pending, Fail(w) PROVE AnswerInv'
<1>1. /\ pending' = pending \ {w} /\ UNCHANGED <<connector, row>>
      /\ DOMAIN calls' = Requests
  BY DEF Fail, memory
<1>2. \A r \in Requests :
         \/ calls'[r] = calls[r] /\ ~(calls[r].pc = "flush" /\ Key(w) \in calls[r].waits)
         \/ calls[r].pc = "flush" /\ calls'[r] = Ended("error", calls[r].status)
  BY DEF Fail
<1>3. Made' = Made
  <2>1. \A r \in Requests : calls'[r] # Idle <=> calls[r] # Idle
    BY <1>2, EndedFields DEF Idle
  <2>. QED
    BY <2>1 DEF Made
<1>4. \A r \in Requests : UnderWay(r)' <=> UnderWay(r)
  BY <1>2, EndedFields DEF UnderWay, Running
<1>5. ASSUME NEW r \in Requests, Ends(r)'
      PROVE  Ends(r) /\ calls'[r] = calls[r] /\ ~(calls[r].pc = "flush" /\ Key(w) \in calls[r].waits)
  BY <1>2, <1>5, EndedFields DEF Ends, Running
<1>6. ASSUME NEW r \in Requests, Ends(r)', Lone(r) PROVE Lone(r)'
  <2>1. w.by = r
    BY <1>6 DEF Lone
  <2>2. calls[r].pc # "flush"
    BY <1>5, <1>6, <2>1 DEF CInv, Awaited
  <2>. QED
    BY <1>1, <1>4, <1>5, <1>6, <2>2 DEF Lone, Like, Running
<1>. QED
  BY <1>3, <1>5, <1>6 DEF AnswerInv, Alone

LEMMA SyncAnswer ==
    ASSUME CInv, CInv', AnswerInv, NEW r \in Requests, NEW o, Sync(r, o)
    PROVE  AnswerInv'
<1> DEFINE x == [pc |-> "extract", status |-> "RUNNING", mode |-> o.mode, persist |-> o.persist, scan |-> o.scan,
                 limit |-> IF o.mode = "PREVIEW" THEN o.limit ELSE 0,
                 mark |-> IF o.mode = "INCREMENTAL" /\ kind # "LINUX_SSH" THEN connector.synced ELSE 0,
                 next |-> User, seen |-> [i \in Objects |-> 0], found |-> {},
                 began |-> dir.ver, quiet |-> Quiet, made |-> Made]
<1>1. calls' = [calls EXCEPT ![r] = x] /\ x.pc = "extract" /\ x.quiet = Quiet /\ x.made = Made
  BY DEF Sync
<1> HIDE DEF x
<1>2. calls[r] = Idle /\ ~active /\ pending' = pending \cup {SaveWrite(r, "first")} /\ r \notin Made
      /\ connector' = [connector EXCEPT !.status = "SYNCING"] /\ listed
  BY DEF Sync, MayRun, Track, Made
<1>3. connector \in Record /\ connector' # None
  BY <1>2, ObjectThere, StatusSet DEF CInv, Held, Statuses
<1>4. calls'[r] = x /\ \A q \in Requests : q # r => calls'[q] = calls[q]
  BY <1>1 DEF CInv, Typed
<1>5. Quiet \in BOOLEAN
  BY DEF Quiet
<1>6. ASSUME Quiet PROVE Lone(r)'
  <2>1. pending = {} /\ \A q \in Requests : ~UnderWay(q)
    BY <1>6 DEF Quiet, Free
  <2>2. SaveWrite(r, "first").by = r /\ ~SaveWrite(r, "first").deletes /\ SaveWrite(r, "first").step = "first"
        /\ ~SaveWrite(r, "first").value.sent
    BY DEF SaveWrite, Unsent
  <2>3. connector'.status = "SYNCING"
    BY <1>2, <1>3 DEF Record
  <2>. QED
    BY <1>1, <1>2, <1>3, <1>4, <2>1, <2>2, <2>3 DEF Lone, UnderWay, Running
<1>7. Alone(r)' => Quiet
  BY <1>1, <1>4 DEF Alone
<1>. QED
  BY <1>1, <1>2, <1>5, <1>6, <1>7, AnotherMade

LEMMA ReadAnswer ==
    ASSUME CInv, CInv', FullInv, FullInv', AnswerInv, NEW r \in Requests, Search(r) \/ Skip(r) \/ Command(r) \/ Applies(r)
    PROVE  AnswerInv'
<1>0. calls[r].pc \in {"extract", "apply"} /\ UNCHANGED memory /\ UNCHANGED <<pending, errors, row>>
  BY DEF Search, Skip, Command, Applies, store
<1>1. /\ Running(r) /\ calls[r] # Idle
      /\ UNCHANGED <<connector, pending, row>>
  BY <1>0 DEF Running, Idle, memory
<1>2. calls[r] \in Runs
  BY <1>1 DEF FullInv, ReadOf
<1>3. PICK x : calls' = [calls EXCEPT ![r] = x]
  BY DEF Search, Skip, Command, Applies
<1>4. calls'[r] = x
  BY <1>3 DEF CInv, Typed
<1>5. x.pc \in Steps /\ x.quiet = calls[r].quiet /\ x.made = calls[r].made
  <2>1. CASE Search(r) \/ Skip(r) \/ Command(r)
    <3>1. PICK seen, found : x = Reached([calls[r] EXCEPT !.next = calls[r].next + 1, !.seen = seen, !.found = found])
      BY <1>4, <2>1, ReadsOne
    <3> DEFINE b == [calls[r] EXCEPT !.next = calls[r].next + 1, !.seen = seen, !.found = found]
    <3>2. "pc" \in DOMAIN b /\ b.quiet = calls[r].quiet /\ b.made = calls[r].made
      BY <1>2 DEF Runs
    <3>3. x = Reached(b)
      BY <3>1
    <3> HIDE DEF b
    <3>4. Reached(b).quiet = b.quiet /\ Reached(b).made = b.made /\ Reached(b).pc \in Steps
      BY <3>2, ReachedStep DEF Reached
    <3>. QED
      BY <3>2, <3>3, <3>4
  <2>2. CASE Applies(r)
    <3>1. PICK next \in Steps : calls' = [calls EXCEPT ![r].pc = next]
      BY <2>2 DEF Applies, Steps
    <3>2. x = [calls[r] EXCEPT !.pc = next]
      BY <1>4, <3>1 DEF CInv, Typed
    <3>. QED
      BY <1>2, <3>2 DEF Runs
  <2>. QED
    BY <2>1, <2>2
<1>6. Running(r)' /\ x.pc # "idle"
  BY <1>4, <1>5 DEF Running, Steps
<1>7. /\ Made' = Made /\ \A q \in Requests : q # r => calls'[q] = calls[q]
      /\ \A q \in Requests : Ends(q)' =>
            /\ Ends(q) /\ calls'[q].quiet \in BOOLEAN /\ calls'[q].made \subseteq Made' \ {q}
            /\ (Alone(q)' => Lone(q))
  BY <1>1, <1>3, <1>5, <1>6, SameMade DEF Ends
<1>8. \A q \in Requests : (UnderWay(q)' <=> UnderWay(q)) /\ (Running(q)' <=> Running(q))
  BY <1>1, <1>6, <1>7 DEF UnderWay, Running
<1>9. \A q \in Requests : calls'[q].pc = "flush" => calls[q].pc = "flush"
  BY <1>4, <1>5, <1>7 DEF Steps
<1>10. ASSUME NEW q \in Requests, Lone(q) PROVE Lone(q)'
  BY <1>1, <1>8, <1>9, <1>10 DEF Lone, Like
<1>. QED
  BY <1>7, <1>10 DEF AnswerInv

LEMMA EndAnswer ==
    ASSUME CInv, CInv', AnswerInv, NEW r \in Requests, Completes(r) \/ Throws(r)
    PROVE  AnswerInv'
<1>1. /\ Running(r) /\ calls[r] # Idle /\ connector \in Record
      /\ pending' = pending \cup {SaveWrite(r, "last")} /\ row' = row
  BY ObjectThere DEF Completes, Throws, Finally, Track, Running, Idle, CInv, Held, UnderWay
<1>2. PICK status : calls' = [calls EXCEPT ![r] = [pc |-> "flush", status |-> status, waits |-> Waited,
                                                    quiet |-> calls[r].quiet, made |-> calls[r].made]]
  BY DEF Completes, Throws, Finally
<1> DEFINE x == [pc |-> "flush", status |-> status, waits |-> Waited, quiet |-> calls[r].quiet, made |-> calls[r].made]
<1>3. calls' = [calls EXCEPT ![r] = x] /\ x.pc = "flush" /\ x.quiet = calls[r].quiet /\ x.made = calls[r].made
  BY <1>2
<1> HIDE DEF x
<1>4. /\ Made' = Made /\ calls'[r] = x /\ \A q \in Requests : q # r => calls'[q] = calls[q]
      /\ \A q \in Requests : Ends(q)' =>
            /\ Ends(q) /\ calls'[q].quiet \in BOOLEAN /\ calls'[q].made \subseteq Made' \ {q}
            /\ (Alone(q)' => Lone(q))
  BY <1>1, <1>3, SameMade DEF Ends
<1>5. connector' \in Record /\ connector'.enabled = connector.enabled
  <2>1. clock \in 0 .. bounds.time
    BY DEF CInv, Typed
  <2>2. \/ connector' = [connector EXCEPT !.status = "CONNECTED", !.synced = clock]
        \/ connector' = [connector EXCEPT !.status = "FAILED"]
    BY DEF Completes, Throws, Finally
  <2>. QED
    BY <1>1, <2>1, <2>2 DEF Record, Statuses
<1>6. connector' # None
  BY <1>5, NoneIsApart DEF CInv, Typed, ConnectorObjects, Record
<1>7. SaveWrite(r, "last").by = r /\ ~SaveWrite(r, "last").deletes /\ SaveWrite(r, "last").step = "last"
      /\ ~SaveWrite(r, "last").value.sent
  BY DEF SaveWrite, Unsent
<1>8. ASSUME Lone(r) PROVE Lone(r)'
  <2>1. \A q \in Requests : q # r => ~UnderWay(q)'
    BY <1>4, <1>8 DEF Lone, UnderWay, Running
  <2>2. ASSUME NEW w \in pending'
        PROVE  w.by = r /\ ~w.deletes /\ (w.value.sent => Like(w.value.of)')
    <3>1. CASE w \in pending
      <4>1. w.by = r /\ ~w.deletes /\ w.step = "first"
        BY <1>1, <1>8, <3>1 DEF Lone
      <4>2. ASSUME w.value.sent PROVE Like(w.value.of)'
        <5>1. Like(w.value.of) /\ connector.status = "SYNCING"
          BY <1>1, <1>8, <3>1, <4>2 DEF Lone
        <5>. QED
          BY <1>5, <5>1 DEF Like
      <4>. QED
        BY <4>1, <4>2
    <3>2. CASE w = SaveWrite(r, "last")
      BY <1>7, <3>2
    <3>. QED
      BY <1>1, <2>2, <3>1, <3>2
  <2>3. \E w \in pending' : w.step = "last"
    BY <1>1, <1>7
  <2>4. ~Running(r)'
    BY <1>3, <1>4 DEF Running
  <2>. QED
    BY <1>6, <2>1, <2>2, <2>3, <2>4 DEF Lone
<1>9. ASSUME NEW q \in Requests, q # r, Ends(q)' PROVE ~Alone(q)'
  <2>1. ASSUME Alone(q)' PROVE FALSE
    BY <1>1, <1>4, <1>9, <2>1 DEF Lone, UnderWay
  <2>. QED
    BY <2>1
<1>. QED
  BY <1>4, <1>8, <1>9 DEF AnswerInv

LEMMA FlushAnswer ==
    ASSUME CInv, AnswerInv, NEW r \in Requests, FlushEnds(r)
    PROVE  AnswerInv'
<1>1. /\ calls[r].pc = "flush" /\ calls[r] # Idle
      /\ UNCHANGED <<connector, pending, row>>
  BY DEF FlushEnds, Idle, memory
<1>2. PICK pc \in {"ok", "error"} : calls' = [calls EXCEPT ![r] = Ended(pc, calls[r].status)]
  BY DEF FlushEnds
<1> DEFINE status == calls[r].status
<1>3. calls'[r] = Ended(pc, status)
  BY <1>2 DEF CInv, Typed
<1>4. ~Ends(r)' /\ Ended(pc, status).pc # "idle" /\ ~UnderWay(r)' /\ ~Running(r)'
  BY <1>2, <1>3, EndedFields DEF Ends, Running, UnderWay
<1>5. /\ Made' = Made /\ \A q \in Requests : q # r => calls'[q] = calls[q]
      /\ \A q \in Requests : Ends(q)' =>
            /\ Ends(q) /\ calls'[q].quiet \in BOOLEAN /\ calls'[q].made \subseteq Made' \ {q}
            /\ (Alone(q)' => Lone(q))
  BY <1>1, <1>2, <1>4, SameMade
<1>6. ASSUME NEW q \in Requests, q # r, Lone(q) PROVE Lone(q)'
  BY <1>1, <1>4, <1>5, <1>6 DEF Lone, Like, UnderWay, Running
<1>. QED
  BY <1>4, <1>5, <1>6 DEF AnswerInv

LEMMA AdministrationAnswer ==
    ASSUME CInv, AnswerInv, NEW r \in Requests, AdministrationNext(r)
    PROVE  AnswerInv'
<1>1. ASSUME \E x : x.pc \in {"ok", "error", "test"} /\ calls[r] = Idle /\ calls' = [calls EXCEPT ![r] = x]
      PROVE  AnswerInv'
  <2>1. PICK x : x.pc \in {"ok", "error", "test"} /\ calls[r] = Idle /\ calls' = [calls EXCEPT ![r] = x]
    BY <1>1
  <2>2. calls'[r] = x
    BY <2>1 DEF CInv, Typed
  <2>3. ~Ends(r)' /\ x.pc # "idle"
    BY <2>1, <2>2 DEF Ends, Running
  <2>. QED
    BY <2>1, <2>3, AnotherMade
<1>2. CASE (\E enabled \in BOOLEAN : Create(r, enabled) \/ Update(r, enabled)) \/ Delete(r)
  <2> DEFINE x == Ended("ok", None)
  <2>1. calls[r] = Idle /\ calls' = [calls EXCEPT ![r] = x]
    BY <1>2 DEF Create, Update, Delete
  <2>2. x.pc = "ok"
    BY EndedFields
  <2> HIDE DEF x
  <2>3. \E y : y.pc \in {"ok", "error", "test"} /\ calls[r] = Idle /\ calls' = [calls EXCEPT ![r] = y]
    BY <2>1, <2>2
  <2>. QED
    BY <1>1, <2>3
<1>4. CASE Test(r)
  <2> DEFINE x == [pc |-> "test", status |-> None]
  <2>1. calls[r] = Idle /\ calls' = [calls EXCEPT ![r] = x] /\ x.pc = "test"
    BY <1>4 DEF Test
  <2> HIDE DEF x
  <2>2. \E y : y.pc \in {"ok", "error", "test"} /\ calls[r] = Idle /\ calls' = [calls EXCEPT ![r] = y]
    BY <2>1
  <2>. QED
    BY <1>1, <2>2
<1>5. ASSUME NEW status \in {"CONNECTED", "FAILED"}, Tested(r, status)
      PROVE  AnswerInv'
  <2>1. calls[r].pc = "test" /\ calls[r] # Idle
    BY <1>5 DEF Tested, Idle
  <2>2. PICK pc \in {"ok", "error"} : calls' = [calls EXCEPT ![r] = Ended(pc, None)]
    BY <1>5 DEF Tested
  <2>3. calls'[r] = Ended(pc, None)
    BY <2>2 DEF CInv, Typed
  <2>4. ~Ends(r)' /\ Ended(pc, None).pc # "idle"
    BY <2>2, <2>3, EndedFields DEF Ends, Running
  <2>5. \A q \in Requests : Ends(q)' =>
            /\ Ends(q) /\ calls'[q].quiet \in BOOLEAN /\ calls'[q].made \subseteq Made' \ {q}
            /\ (Alone(q)' => Lone(q))
    BY <2>1, <2>2, <2>4, SameMade
  <2>6. ASSUME NEW q \in Requests, Ends(q)' PROVE ~Lone(q)
    BY <2>1, <2>4, <2>6 DEF Lone, UnderWay
  <2>. QED
    BY <2>5, <2>6 DEF AnswerInv
<1>. QED
  BY <1>2, <1>4, <1>5 DEF AdministrationNext

LEMMA StepAnswer ==
    ASSUME CInv, CInv', FullInv, FullInv', AnswerInv, [Next]_vars
    PROVE  AnswerInv'
<1>1. CASE UNCHANGED <<calls, connector, pending, row>>
  BY <1>1 DEF AnswerInv, Ends, Alone, Made, Lone, Like, Running, UnderWay
<1>2. CASE UNCHANGED vars \/ OtherFails \/ OtherFlushes \/ DirectoryNext
  BY <1>1, <1>2 DEF vars, memory, store, OtherFails, OtherFlushes, DirectoryNext, Joins, Tick, Changes
<1>3. CASE Restart
  <2>1. \A r \in Requests : ~Ends(r)'
    <3>1. \A r \in Requests : \/ calls'[r] = Idle \/ calls'[r].pc \in {"ok", "error"}
                              \/ calls'[r] = Ended("gone", calls[r].status)
      BY <1>3 DEF Restart
    <3>. QED
      BY <3>1, EndedFields DEF Ends, Running, Idle
  <2>. QED
    BY <2>1 DEF AnswerInv
<1>4. ASSUME NEW r \in Requests, RunNext(r) PROVE AnswerInv'
  BY <1>4, SyncAnswer, ReadAnswer, EndAnswer, FlushAnswer DEF RunNext
<1>. QED
  BY <1>2, <1>3, <1>4, SendAnswer, LandAnswer, FailAnswer, AdministrationAnswer DEF Next, WriteNext

LEMMA InitAnswer == ASSUME Init PROVE AnswerInv
<1>1. \A r \in Requests : calls[r] = Idle
  BY DEF Init
<1>. QED
  BY <1>1 DEF AnswerInv, Ends, Running, Idle

\* Who is alone and answered has no write under way, and so the row is like the connector.
LEMMA StepAnswersStored ==
    ASSUME CInv, AnswerInv, [Next]_vars, NEW r \in Requests,
           calls[r].pc = "flush", calls'[r].pc = "ok", Alone(r)
    PROVE  row.enabled = connector.enabled /\ (row = connector \/ row.status = "SYNCING")
<1>1. Lone(r)
  BY DEF AnswerInv, Ends
<1>2. FlushEnds(r)
  <2>1. ASSUME calls'[r] = calls[r] PROVE FALSE
    BY <2>1
  <2>2. ASSUME NEW q \in Requests, NEW x, calls' = [calls EXCEPT ![q] = x], q # r PROVE FALSE
    BY <2>1, <2>2 DEF CInv, Typed
  <2>3. ~\E w \in pending : Send(w) \/ Land(w)
    BY <2>1 DEF Send, Land
  <2>4. ~\E w \in pending : Fail(w)
    <3>1. ASSUME NEW w \in pending, Fail(w) PROVE FALSE
      <4>1. calls'[r] = calls[r] \/ calls'[r] = Ended("error", calls[r].status)
        BY <3>1 DEF Fail
      <4>. QED
        BY <2>1, <4>1, EndedFields
    <3>. QED
      BY <3>1
  <2>5. ~(OtherFails \/ OtherFlushes \/ DirectoryNext \/ UNCHANGED vars)
    BY <2>1 DEF OtherFails, OtherFlushes, DirectoryNext, Joins, Tick, Changes, vars
  <2>6. ~Restart
    <3>1. ASSUME Restart PROVE FALSE
      <4>1. calls'[r] = calls[r] \/ calls'[r] = Ended("gone", calls[r].status)
        BY <3>1 DEF Restart
      <4>. QED
        BY <2>1, <4>1, EndedFields
    <3>. QED
      BY <3>1
  <2>7. ASSUME NEW q \in Requests, AdministrationNext(q) PROVE FALSE
    <3>1. calls[q] = Idle \/ calls[q].pc = "test"
      BY <2>7 DEF AdministrationNext, Create, Update, Delete, Test, Tested
    <3>2. q # r
      BY <3>1 DEF Idle
    <3>3. \E x : calls' = [calls EXCEPT ![q] = x]
      BY <2>7 DEF AdministrationNext, Create, Update, Delete, Test, Tested
    <3>. QED
      BY <2>2, <3>2, <3>3
  <2>8. ASSUME NEW q \in Requests, RunNext(q), ~FlushEnds(q) PROVE FALSE
    <3>1. calls[q] = Idle \/ Running(q)
      BY <2>8 DEF RunNext, Sync, Search, Skip, Command, Applies, Completes, Throws, Running
    <3>2. q # r
      BY <3>1 DEF Idle, Running
    <3>3. \E x : calls' = [calls EXCEPT ![q] = x]
      <4>1. ASSUME Applies(q) PROVE \E x : calls' = [calls EXCEPT ![q] = x]
        <5>1. PICK next : calls' = [calls EXCEPT ![q].pc = next]
          BY <4>1 DEF Applies
        <5>. QED
          BY <5>1
      <4>2. CASE Completes(q) \/ Throws(q)
        BY <4>2 DEF Completes, Throws, Finally
      <4>3. ASSUME NEW o, Sync(q, o) PROVE \E x : calls' = [calls EXCEPT ![q] = x]
        BY <4>3 DEF Sync
      <4>4. CASE Search(q) \/ Skip(q)
        BY <4>4 DEF Search, Skip
      <4>5. CASE Command(q)
        BY <4>5 DEF Command
      <4>. QED
        BY <2>8, <4>1, <4>2, <4>3, <4>4, <4>5 DEF RunNext
    <3>. QED
      BY <2>2, <3>2, <3>3
  <2>9. ASSUME NEW q \in Requests, FlushEnds(q), q # r PROVE FALSE
    BY <2>2, <2>9 DEF FlushEnds
  <2>. QED
    BY <2>3, <2>4, <2>5, <2>6, <2>7, <2>8, <2>9 DEF Next, WriteNext
<1>3. \A w \in pending : Key(w) \notin calls[r].waits
  BY <1>2 DEF FlushEnds
<1>4. pending = {}
  BY <1>1, <1>3 DEF Lone, CInv, Awaited
<1>. QED
  BY <1>1, <1>4 DEF Lone, Like

-----------------------------------------------------------------------------
(* What the nodes of the graph show is never older than before *)

\* The names of the nodes that are made of an object.
Called == <<{"u"}, {"g"}, {"h", "rule"}>>

\* A node is of no object, or of one as it is or was.
Shows(d) ==
    \/ d.name \in {"forest", ""} /\ d.ver = 0
    \/ d.pos \in Objects /\ d.name \in Called[d.pos] /\ d.ver \in Nat /\ d.ver <= dir.ver[d.pos]

\* What a run has found is at least as new as what the graph shows of the object.
Newest ==
    /\ \A n \in graph.nodes : Shows(n.of)
    /\ \A r \in Requests : Running(r) =>
          /\ \A e \in calls[r].found : e.ver <= dir.ver[e.pos]
          /\ \A e \in calls[r].found, n \in graph.nodes : n.of.pos = e.pos => n.of.ver <= e.ver

LEMMA CalledApart ==
    /\ \A i \in Objects : Names[i] \in Called[i] /\ \A name \in Called[i] : name # "forest" /\ name # ""
    /\ \A i, j \in Objects : \A name : name \in Called[i] /\ name \in Called[j] => i = j
    /\ "rule" \in Called[Device] /\ "h" \in Called[Device] /\ "u" \in Called[User] /\ "g" \in Called[Group]
<1>1. Called[1] = {"u"} /\ Called[2] = {"g"} /\ Called[3] = {"h", "rule"}
  BY DEF Called
<1>2. /\ Names[1] = "u" /\ Names[2] = "g" /\ Names[3] = "h"
      /\ User = 1 /\ Group = 2 /\ Device = 3 /\ Objects = {1, 2, 3}
  BY DEF Objects, User, Group, Device, Names
<1>3. \A i \in Objects : \A name \in Called[i] : name \in {"u", "g", "h", "rule"}
  BY <1>1, <1>2
<1>4. \A name \in {"u", "g", "h", "rule"} : name # "forest" /\ name # ""
  OBVIOUS
<1>. QED
  BY <1>1, <1>2, <1>3, <1>4

\* A node is made of what the run has found, whichever mapper makes it.
MadeOf(n, entries) ==
    \/ n.of.name \in {"forest", ""} /\ n.of.ver = 0
    \/ \E e \in entries : e.pos \in Objects /\ n.of.pos = e.pos /\ n.of.ver = e.ver /\ n.of.name \in Called[e.pos]

LEMMA EntriesMade ==
    ASSUME NEW entries, NEW c, Entered(entries, c), NEW n, n.of \in entries
    PROVE  MadeOf(n, entries)
<1>1. CASE n.of = Forest
  <2>1. Forest.name = "forest" /\ Forest.ver = 0
    BY DEF Forest
  <2>. QED
    BY <1>1, <2>1 DEF MadeOf
<1>2. CASE n.of # Forest
  <2>1. PICK i \in Objects, m \in BOOLEAN : Saw(n.of, c, i, m)
    BY <1>2 DEF Entered
  <2>2. n.of.pos = i /\ n.of.name = Names[i]
    BY <2>1, EntryIs DEF Saw
  <2>. QED
    BY <2>2, CalledApart DEF MadeOf
<1>. QED
  BY <1>1, <1>2

LEMMA LinuxMade ==
    ASSUME kind = "LINUX_SSH", NEW entries, NEW c, Entered(entries, c), Forest \notin entries,
           NEW n \in LinuxGraph(LinuxExtract(entries)).nodes
    PROVE  MadeOf(n, entries)
<1> DEFINE host == HostIdentity(entries)
<1>1. n \in PasswdNodes(Passwd(entries)) \cup GroupNodes(Groups(entries)) \cup SudoNodes(Rules(entries))
               \cup HostNodes(host)
  BY NoKeys DEF LinuxGraph, LinuxExtract, BuildLinuxGraph, KeyNodes
<1>2. ASSUME NEW e \in entries
      PROVE  \E i \in Objects : e.pos = i /\ e.name = Names[i] /\ Names[i] \in Called[i]
  <2>1. PICK i \in Objects, m \in BOOLEAN : Saw(e, c, i, m)
    BY <1>2 DEF Entered
  <2>2. e.pos = i /\ e.name = Names[i]
    BY <2>1, EntryIs DEF Saw
  <2>. QED
    BY <2>2, CalledApart
<1>3. CASE n \in PasswdNodes(Passwd(entries)) \cup GroupNodes(Groups(entries))
  <2>1. PICK e \in entries : n.of.pos = e.pos /\ n.of.ver = e.ver /\ n.of.name = e.name
    BY <1>3 DEF PasswdNodes, GroupNodes, Humans, Passwd, Groups
  <2>. QED
    BY <1>2, <2>1 DEF MadeOf
<1>4. CASE n \in SudoNodes(Rules(entries))
  <2>1. PICK e \in entries : n.of.pos = e.pos /\ n.of.ver = e.ver /\ n.of.name = "rule" /\ e.pos = Device
    BY <1>4 DEF SudoNodes, Rules
  <2>2. Device \in Objects
    BY DEF Objects
  <2>. QED
    BY <2>1, <2>2, CalledApart DEF MadeOf
<1>5. CASE n \in HostNodes(host)
  <2>1. n.of = host
    BY <1>5 DEF HostNodes
  <2>2. CASE {x \in entries : x.pos = Device} = {}
    <3>1. host = [pos |-> Device, ver |-> 0, name |-> "", os |-> None]
      BY <2>2 DEF HostIdentity
    <3> HIDE DEF host
    <3>2. host.name = "" /\ host.ver = 0
      BY <3>1
    <3>. QED
      BY <2>1, <3>2 DEF MadeOf
  <2>3. ASSUME NEW e \in entries, e.pos = Device PROVE MadeOf(n, entries)
    <3>1. host.pos = Device /\ host.name = "h" /\ host.ver = e.ver
      BY <2>3, HostIs
    <3>2. Device \in Objects /\ "h" \in Called[Device]
      BY CalledApart DEF Objects
    <3> HIDE DEF host
    <3>3. n.of.pos = e.pos /\ n.of.ver = e.ver /\ n.of.name \in Called[e.pos] /\ e.pos \in Objects
      BY <2>1, <2>3, <3>1, <3>2
    <3>. QED
      BY <2>3, <3>3 DEF MadeOf
  <2>. QED
    BY <2>2, <2>3
<1>. QED
  BY <1>1, <1>3, <1>4, <1>5

LEMMA MappedMade ==
    ASSUME NEW c, kind \in Kinds, Entered(c.found, c), Forest \notin c.found, NEW n \in Mapped(c).nodes
    PROVE  MadeOf(n, c.found)
<1>1. Extracted(c) \subseteq c.found \cup {Forest} /\ Entered(Extracted(c), c)
      /\ (kind # "ACTIVE_DIRECTORY" => Extracted(c) = c.found)
  BY DEF Extracted, Cut, Entered
<1>2. Forest.pos \notin Objects
  BY NamesDiffer DEF Objects
<1>3. CASE kind = "LINUX_SSH"
  BY <1>1, <1>3, LinuxMade DEF Mapped
<1>4. CASE kind # "LINUX_SSH"
  <2>1. n.of \in Extracted(c)
    BY <1>4 DEF Kinds, Mapped, MapAd, MapFreeipa, MapEntra
  <2>2. MadeOf(n, Extracted(c))
    BY <1>1, <2>1, EntriesMade
  <2>. QED
    BY <1>1, <1>2, <2>2 DEF MadeOf
<1>. QED
  BY <1>3, <1>4

\* What a run has found is what it saw of one of the objects.
LEMMA FoundIs ==
    ASSUME FullInv, NEW r \in Requests, Running(r), NEW e \in calls[r].found
    PROVE  /\ e.pos \in Objects /\ e.ver = calls[r].seen[e.pos] /\ e.ver \in Nat /\ e # Forest
           /\ \E i \in Objects, m \in BOOLEAN : Saw(e, calls[r], i, m)
<1> DEFINE c == calls[r]
<1>1. ReadOf(c) /\ c \in Runs
  BY DEF FullInv, ReadOf
<1> HIDE DEF c
<1>2. PICK i \in Objects, m \in BOOLEAN : Saw(e, c, i, m)
  BY <1>1 DEF ReadOf, c
<1>3. e.pos = i /\ e.ver = c.seen[i] /\ c.seen[i] \in Nat
  BY <1>1, <1>2, EntryIs DEF Saw, Runs
<1>. QED
  BY <1>2, <1>3, NamesDiffer DEF c

\* A step that leaves the graph, and lets the directory only grow.
LEMMA NewestKept ==
    ASSUME Newest, FullInv, UNCHANGED graph, dir' \in Directory,
           \A i \in Objects : dir.ver[i] <= dir'.ver[i],
           \A r \in Requests : Running(r)' => Running(r) /\ calls'[r].found \subseteq calls[r].found
    PROVE  Newest'
<1>1. ASSUME NEW n \in graph.nodes PROVE Shows(n.of)'
  <2>1. Shows(n.of)
    BY DEF Newest
  <2>2. CASE n.of.name \in {"forest", ""} /\ n.of.ver = 0
    BY <2>2 DEF Shows
  <2>3. CASE n.of.pos \in Objects /\ n.of.name \in Called[n.of.pos] /\ n.of.ver \in Nat /\ n.of.ver <= dir.ver[n.of.pos]
    <3>1. dir.ver[n.of.pos] \in Nat /\ dir'.ver[n.of.pos] \in Nat /\ dir.ver[n.of.pos] <= dir'.ver[n.of.pos]
      BY <2>3 DEF FullInv, Directory
    <3>2. n.of.ver <= dir'.ver[n.of.pos]
      BY <2>3, <3>1
    <3>. QED
      BY <2>3, <3>2 DEF Shows
  <2>. QED
    BY <2>1, <2>2, <2>3 DEF Shows
<1>2. ASSUME NEW r \in Requests, Running(r)', NEW e \in calls'[r].found
      PROVE  /\ e.ver <= dir'.ver[e.pos]
             /\ \A n \in graph.nodes : n.of.pos = e.pos => n.of.ver <= e.ver
  <2>1. Running(r) /\ e \in calls[r].found
    BY <1>2
  <2>2. e.ver <= dir.ver[e.pos] /\ \A n \in graph.nodes : n.of.pos = e.pos => n.of.ver <= e.ver
    BY <2>1 DEF Newest
  <2>3. e.ver \in Nat /\ e.pos \in Objects
    BY <2>1, FoundIs
  <2>4. dir.ver[e.pos] \in Nat /\ dir'.ver[e.pos] \in Nat /\ dir.ver[e.pos] <= dir'.ver[e.pos]
    BY <2>3 DEF FullInv, Directory
  <2>. QED
    BY <2>2, <2>3, <2>4
<1>. QED
  BY <1>1, <1>2 DEF Newest

LEMMA ReadsNewest ==
    ASSUME CInv, FullInv, Newest, NEW r \in Requests, Search(r) \/ Skip(r) \/ Command(r)
    PROVE  Newest'
<1> DEFINE c == calls[r]
<1>1. UNCHANGED <<dir, graph>> /\ Running(r) /\ c \in Runs /\ c.next \in Objects
      /\ \A q \in Requests : q # r => calls'[q] = calls[q]
  BY DEF Search, Skip, Command, Running, FullInv, ReadOf, CInv, Typed
<1>2. PICK seen, found :
              /\ calls'[r] = Reached([c EXCEPT !.next = c.next + 1, !.seen = seen, !.found = found])
              /\ \/ seen = c.seen /\ found = c.found
                 \/ \E entry \in SUBSET {Entry(c.next, dir.ver[c.next], dir.member)} :
                       /\ seen = [c.seen EXCEPT ![c.next] = dir.ver[c.next]]
                       /\ found = c.found \cup entry
                       /\ Exists(c.next) /\ c.mark = 0 => entry # {}
  BY ReadsOne
<1> DEFINE b == [c EXCEPT !.next = c.next + 1, !.seen = seen, !.found = found]
<1> HIDE DEF c
<1>3. "pc" \in DOMAIN b /\ b.found = found
  BY <1>1 DEF Runs
<1>4. calls'[r] = Reached(b)
  BY <1>2
<1> HIDE DEF b
<1>5. Reached(b).found = b.found
  BY <1>3 DEF Reached
<1>6. calls'[r].found = found
  BY <1>3, <1>4, <1>5
<1>7. ASSUME NEW e \in found
      PROVE  e.ver <= dir.ver[e.pos] /\ \A n \in graph.nodes : n.of.pos = e.pos => n.of.ver <= e.ver
  <2>1. CASE e \in c.found
    BY <1>1, <1>7, <2>1 DEF Newest, c
  <2>2. CASE e = Entry(c.next, dir.ver[c.next], dir.member)
    <3>1. e.pos = c.next /\ e.ver = dir.ver[c.next]
      BY <1>1, <2>2, EntryIs
    <3>2. dir.ver[c.next] \in Nat
      BY <1>1 DEF FullInv, Directory
    <3>3. ASSUME NEW n \in graph.nodes, n.of.pos = e.pos PROVE n.of.ver <= e.ver
      <4>1. Shows(n.of)
        BY DEF Newest
      <4>2. CASE n.of.ver = 0
        BY <3>1, <3>2, <4>2
      <4>3. CASE n.of.ver <= dir.ver[n.of.pos]
        BY <3>1, <3>3, <4>3
      <4>. QED
        BY <4>1, <4>2, <4>3 DEF Shows
    <3>4. e.ver <= dir.ver[e.pos]
      BY <3>1, <3>2
    <3>. QED
      BY <3>3, <3>4
  <2>. QED
    BY <1>2, <2>1, <2>2
<1>8. \A q \in Requests : q # r /\ Running(q)' => Running(q)
  BY <1>1 DEF Running
<1>9. \A n : Shows(n)' <=> Shows(n)
  BY <1>1 DEF Shows
<1>. QED
  BY <1>1, <1>6, <1>7, <1>8, <1>9 DEF Newest

\* What a run applies, against what the graph shows.
LEMMA AppliesMade ==
    ASSUME CInv, FullInv, Newest, NEW r \in Requests, Applies(r)
    PROVE  /\ UNCHANGED dir /\ Running(r) /\ Running(r)'
           /\ calls'[r].found = calls[r].found
           /\ \A q \in Requests : q # r => ~Running(q) /\ ~Running(q)'
           /\ \A m \in graph'.nodes : m \in graph.nodes \/ MadeOf(m, calls[r].found)
           /\ \A e \in calls[r].found :
                 /\ e.pos \in Objects /\ e.ver \in Nat /\ e.ver <= dir.ver[e.pos]
                 /\ \A k \in calls[r].found : k.pos = e.pos => k.ver = e.ver
<1> DEFINE c == calls[r]
           g == Mapped(c)
<1>1. UNCHANGED dir /\ c.pc = "apply" /\ Running(r) /\ graph' = Merge(graph, g)
  BY DEF Applies, Running
<1>2. ReadOf(c) /\ c \in Runs
  BY <1>1 DEF FullInv, ReadOf
<1>3. PICK next \in {"scan", "complete", "throws"} : calls'[r] = [c EXCEPT !.pc = next]
  BY DEF Applies, CInv, Typed
<1>4. kind \in Kinds
  BY ConnectorsAssumption DEF CInv, Typed, kind
<1>5. \A q \in Requests : q # r => ~Running(q) /\ calls'[q] = calls[q]
  BY <1>1 DEF Applies, CInv, Held, Typed
<1> HIDE DEF c
<1>6. calls'[r].pc = next /\ calls'[r].found = c.found
  BY <1>2, <1>3 DEF Runs
<1>7. Running(r)' /\ \A q \in Requests : q # r => ~Running(q)'
  BY <1>5, <1>6 DEF Running
<1>8. ASSUME NEW e \in c.found
      PROVE  /\ e.pos \in Objects /\ e.ver = c.seen[e.pos] /\ e.ver \in Nat /\ e # Forest
             /\ \E i \in Objects, m \in BOOLEAN : Saw(e, c, i, m)
             /\ e.ver <= dir.ver[e.pos]
  BY <1>1, FoundIs DEF Newest, c
<1>9. Entered(c.found, c) /\ Forest \notin c.found
  BY <1>8 DEF Entered
<1>10. \A m \in g.nodes : MadeOf(m, c.found)
  BY <1>4, <1>9, MappedMade
<1> HIDE DEF g
<1>11. \A m \in graph'.nodes : m \in graph.nodes \/ m \in g.nodes
  BY <1>1 DEF Merge, Last
<1>12. /\ calls'[r].found = calls[r].found
       /\ \A q \in Requests : q # r => ~Running(q) /\ ~Running(q)'
       /\ \A m \in graph'.nodes : m \in graph.nodes \/ MadeOf(m, calls[r].found)
  BY <1>5, <1>6, <1>7, <1>10, <1>11 DEF c
<1>13. ASSUME NEW e \in calls[r].found
       PROVE  /\ e.pos \in Objects /\ e.ver \in Nat /\ e.ver <= dir.ver[e.pos]
              /\ \A k \in calls[r].found : k.pos = e.pos => k.ver = e.ver
  BY <1>8 DEF c
<1>. QED
  BY <1>1, <1>7, <1>12, <1>13

\* What is made of what a run has found is no older than what the graph shows by its name.
LEMMA MadeNewer ==
    ASSUME FullInv, Newest, NEW r \in Requests, Running(r),
           NEW n \in graph.nodes, NEW m, MadeOf(m, calls[r].found), m.of.name = n.of.name
    PROVE  n.of.ver <= m.of.ver
<1>1. Shows(n.of)
  BY DEF Newest
<1>0. \A i \in Objects : n.of.name \in Called[i] => n.of.name # "forest" /\ n.of.name # ""
  BY CalledApart
<1>2. CASE m.of.name \in {"forest", ""} /\ m.of.ver = 0
  <2>1. n.of.ver = 0 /\ m.of.ver = 0
    BY <1>0, <1>1, <1>2 DEF Shows
  <2>2. 0 <= 0
    OBVIOUS
  <2>. QED
    BY <2>1, <2>2, Zenon
<1>3. CASE \E e \in calls[r].found : e.pos \in Objects /\ m.of.pos = e.pos /\ m.of.ver = e.ver /\ m.of.name \in Called[e.pos]
  <2>1. PICK e \in calls[r].found : e.pos \in Objects /\ m.of.ver = e.ver /\ m.of.name \in Called[e.pos]
    BY <1>3
  <2>2. n.of.name \in Called[e.pos] /\ n.of.name \notin {"forest", ""}
    BY <1>0, <2>1
  <2>3. n.of.pos = e.pos
    BY <1>1, <2>1, <2>2, CalledApart DEF Shows
  <2>. QED
    BY <2>1, <2>3 DEF Newest
<1>. QED
  BY <1>2, <1>3 DEF MadeOf

LEMMA AppliesNewest ==
    ASSUME CInv, FullInv, Newest, NEW r \in Requests, Applies(r)
    PROVE  Newest'
<1>1. /\ UNCHANGED dir /\ Running(r) /\ calls'[r].found = calls[r].found
      /\ \A q \in Requests : q # r => ~Running(q)'
      /\ \A m \in graph'.nodes : m \in graph.nodes \/ MadeOf(m, calls[r].found)
      /\ \A e \in calls[r].found :
            /\ e.pos \in Objects /\ e.ver \in Nat /\ e.ver <= dir.ver[e.pos]
            /\ \A k \in calls[r].found : k.pos = e.pos => k.ver = e.ver
  BY AppliesMade
<1>2. ASSUME NEW m \in graph'.nodes PROVE Shows(m.of)
  <2>1. CASE m \in graph.nodes
    BY <2>1 DEF Newest
  <2>2. CASE MadeOf(m, calls[r].found)
    BY <1>1, <2>2 DEF MadeOf, Shows
  <2>. QED
    BY <1>1, <2>1, <2>2
<1>3. ASSUME NEW e \in calls[r].found, NEW m \in graph'.nodes, m.of.pos = e.pos PROVE m.of.ver <= e.ver
  <2>1. CASE m \in graph.nodes
    BY <1>1, <1>3, <2>1 DEF Newest
  <2>2. CASE m.of.ver = 0
    BY <1>1, <2>2
  <2>3. CASE \E k \in calls[r].found : m.of.pos = k.pos /\ m.of.ver = k.ver
    <3>1. PICK k \in calls[r].found : m.of.pos = k.pos /\ m.of.ver = k.ver
      BY <2>3
    <3>2. k.ver = e.ver /\ e.ver \in Nat
      BY <1>1, <1>3, <3>1
    <3>. QED
      BY <3>1, <3>2
  <2>. QED
    BY <1>1, <2>1, <2>2, <2>3 DEF MadeOf
<1>4. \A d : Shows(d)' <=> Shows(d)
  BY <1>1 DEF Shows
<1>. QED
  BY <1>1, <1>2, <1>3, <1>4 DEF Newest

LEMMA StepNewest == ASSUME CInv, CInv', FullInv, FullInv', Newest, [Next]_vars PROVE Newest'
<1>1. ASSUME UNCHANGED <<dir, graph>>,
             \A q \in Requests : Running(q)' => Running(q) /\ calls'[q].found \subseteq calls[q].found
      PROVE  Newest'
  <2>1. dir' \in Directory /\ \A i \in Objects : dir.ver[i] <= dir'.ver[i]
    BY <1>1 DEF FullInv, Directory
  <2>. QED
    BY <1>1, <2>1, NewestKept
<1>2. CASE UNCHANGED vars \/ OtherFails \/ OtherFlushes \/ \E w \in pending : Send(w) \/ Land(w)
  <2>1. UNCHANGED <<dir, graph, calls>>
    BY <1>2 DEF vars, OtherFails, OtherFlushes, Send, Land
  <2>. QED
    BY <1>1, <2>1 DEF Running
<1>3. CASE Restart \/ \E w \in pending : Fail(w)
  <2>1. UNCHANGED <<dir, graph>>
    BY <1>3 DEF Restart, Fail
  <2>2. \A q \in Requests : Running(q)' => Running(q) /\ calls'[q] = calls[q]
    <3>1. CASE Restart
      BY <3>1, EndedFields DEF Restart, Running, Idle
    <3>2. CASE \E w \in pending : Fail(w)
      BY <3>2, EndedFields DEF Fail, Running
    <3>. QED
      BY <1>3, <3>1, <3>2
  <2>. QED
    BY <1>1, <2>1, <2>2
<1>4. CASE DirectoryNext
  <2>1. UNCHANGED <<graph, calls>>
    BY <1>4 DEF DirectoryNext, Joins, Tick, Changes
  <2>2. clock \in Nat
    BY ConnectorsAssumption DEF CInv, Typed
  <2>3. dir \in Directory /\ dir' \in Directory
    BY DEF FullInv
  <2>4. \/ dir' = dir
        \/ \E i \in Objects : dir'.ver = [dir.ver EXCEPT ![i] = dir.ver[i] + 1]
    <3>1. Group \in Objects
      BY DEF Objects
    <3>. QED
      BY <1>4, <2>2, <2>3, <3>1, JoinsTyped, ChangesTyped DEF DirectoryNext, Tick
  <2>5. \A i \in Objects : dir.ver[i] <= dir'.ver[i]
    BY <2>3, <2>4 DEF Directory
  <2>. QED
    BY <2>1, <2>3, <2>5, NewestKept DEF Running
<1>5. ASSUME NEW r \in Requests, Completes(r) \/ Throws(r) \/ FlushEnds(r) \/ AdministrationNext(r)
      PROVE  Newest'
  <2>1. UNCHANGED <<dir, graph>>
    BY <1>5 DEF Completes, Throws, Finally, FlushEnds, AdministrationNext, Create, Update, Delete, Test, Tested
  <2>2. \A q \in Requests : Running(q)' => Running(q) /\ calls'[q] = calls[q]
    BY <1>5, OthersEnd
  <2>. QED
    BY <1>1, <2>1, <2>2
<1>6. ASSUME NEW r \in Requests, NEW o \in bounds.bodies, Sync(r, o) PROVE Newest'
  <2>1. UNCHANGED <<dir, graph>> /\ calls'[r].found = {} /\ Running(r)'
        /\ \A q \in Requests : q # r => calls'[q] = calls[q]
    BY <1>6 DEF Sync, Running, CInv, Typed
  <2>2. \A n : Shows(n)' <=> Shows(n)
    BY <2>1 DEF Shows
  <2>. QED
    BY <2>1, <2>2 DEF Newest, Running
<1>7. ASSUME NEW r \in Requests, RunNext(r) PROVE Newest'
  BY <1>5, <1>6, <1>7, ReadsNewest, AppliesNewest DEF RunNext
<1>. QED
  BY <1>2, <1>3, <1>4, <1>5, <1>7 DEF Next, WriteNext

LEMMA InitNewest == ASSUME Init PROVE Newest
BY DEF Init, Newest, Idle, Running

\* Only a run that applies what it has found makes new nodes.
LEMMA OnlyApplies ==
    ASSUME [Next]_vars, graph' # graph
    PROVE  \E r \in Requests : Applies(r)
<1>1. ASSUME NEW r \in Requests, RunNext(r) PROVE Applies(r)
  BY <1>1 DEF RunNext, Sync, Search, Skip, Command, Completes, Throws, Finally, FlushEnds
<1>2. ASSUME NEW r \in Requests, AdministrationNext(r) PROVE FALSE
  BY <1>2 DEF AdministrationNext, Create, Update, Delete, Test, Tested
<1>3. CASE UNCHANGED vars \/ WriteNext \/ DirectoryNext \/ Restart
  BY <1>3 DEF vars, WriteNext, OtherFails, OtherFlushes, Send, Land, Fail, DirectoryNext, Joins, Tick, Changes, Restart
<1>. QED
  BY <1>1, <1>2, <1>3 DEF Next

LEMMA StepNewer ==
    ASSUME CInv, FullInv, Newest, [Next]_vars, NEW n \in graph.nodes, NEW m \in graph'.nodes \ graph.nodes,
           m.id = n.id, m.of.name = n.of.name
    PROVE  n.of.ver <= m.of.ver
<1>1. PICK r \in Requests : Applies(r)
  BY OnlyApplies
<1>2. Running(r) /\ MadeOf(m, calls[r].found)
  BY <1>1, AppliesMade
<1>. QED
  BY <1>2, MadeNewer

-----------------------------------------------------------------------------
(* Theorems *)

\* The object, its row and what is under way have their types, and the service never runs a
\* connector twice at a time: its set of active connectors is right (SyncService.run).
THEOREM TypeCorrect == Spec => []TypeOK
<1>1. ASSUME CInv PROVE TypeOK
  <2>1. kind \in Kinds
    BY <1>1, ConnectorsAssumption DEF CInv, Typed, kind
  <2>. QED
    BY <1>1, <2>1 DEF CInv, Typed, Held, TypeOK
<1>. QED
  BY <1>1, InitHolds, StepKeeps, PTL DEF Spec

\* What an administrator decided is kept, through the runs and tests that hold the
\* connector, the writes under way and restarts.
THEOREM DecisionsAreKept == Spec => []AdministrationIsKept
<1>1. CInv /\ Kept => AdministrationIsKept
  BY DEF Kept, Decided, AdministrationIsKept
<1>2. Init => CInv /\ Kept
  BY InitHolds, InitKept
<1>3. CInv /\ Kept /\ [Next]_vars => (CInv /\ Kept)'
  BY StepKeeps, StepKept
<1>. QED
  BY <1>1, <1>2, <1>3, PTL DEF Spec

\* A sync request that had the connector to itself and answers a completed run left it in
\* PostgreSQL: save, track and flush of the repository, whichever errors others leave or take.
THEOREM AnsweredAreStored == Spec => AnsweredIsStored
<1>1. Init => CInv /\ FullInv /\ AnswerInv
  BY InitHolds, InitWhole, InitAnswer
<1>2. CInv /\ FullInv /\ AnswerInv /\ [Next]_vars => (CInv /\ FullInv /\ AnswerInv)'
  BY StepKeeps, StepWhole, StepAnswer
<1>3. CInv /\ AnswerInv /\ [Next]_vars =>
         [\A r \in Requests :
             calls[r].pc = "flush" /\ calls'[r].pc = "ok" /\ calls[r].status = "COMPLETED" /\ Alone(r)
             => /\ row.enabled = connector.enabled
                /\ row = connector \/ row.status = "SYNCING"]_vars
  BY StepAnswersStored
<1>. QED
  BY <1>1, <1>2, <1>3, PTL DEF Spec, AnsweredIsStored

\* No node is replaced by an older version of its object: the set of active connectors lets
\* no two runs read and apply at a time (SyncService.run, writeVersion).
THEOREM NothingEverGoesBack == Spec => NothingGoesBack
<1>1. Init => CInv /\ FullInv /\ Newest
  BY InitHolds, InitWhole, InitNewest
<1>2. CInv /\ FullInv /\ Newest /\ [Next]_vars => (CInv /\ FullInv /\ Newest)'
  BY StepKeeps, StepWhole, StepNewest
<1>3. CInv /\ FullInv /\ Newest /\ [Next]_vars =>
         [\A n \in graph.nodes, m \in graph'.nodes \ graph.nodes :
             m.id = n.id /\ m.of.name = n.of.name => n.of.ver <= m.of.ver]_vars
  BY StepNewer
<1>. QED
  BY <1>1, <1>2, <1>3, PTL DEF Spec, NothingGoesBack

\* A full run that persists and completes, of a directory that did not change, leaves the
\* directory in the graph: every search of the connector and every one of the four
\* mappers, and Merge (SyncService.run, the writer of Neo4j).
THEOREM FullSyncsAreWhole == Spec => FullSyncIsWhole
<1> DEFINE A == \A r \in Requests :
          /\ Running(r) /\ calls'[r].pc = "flush" /\ calls'[r].status = "COMPLETED"
          /\ calls[r].mode = "FULL" /\ calls[r].persist
          /\ calls[r].began = dir.ver /\ calls[r].seen = dir.ver
          => /\ \A i \in Objects : Exists(i) /\ Mappable(i) => NodeShown(i)
             /\ (\A i \in {User, Group} : Mappable(i)) /\ kind # "ENTRA_ID" =>
                   {<<l.source, l.target>> : l \in {k \in graph.links : k.type = "MEMBER_OF"}}
                       = IF dir.member THEN NodeOf(User) \X NodeOf(Group) ELSE {}
<1>1. CInv /\ FullInv /\ [Next]_vars => A
  <2> SUFFICES ASSUME CInv, FullInv, [Next]_vars, NEW r \in Requests,
                      Running(r), calls'[r].pc = "flush", calls'[r].status = "COMPLETED",
                      calls[r].mode = "FULL", calls[r].persist, calls[r].began = dir.ver, calls[r].seen = dir.ver
               PROVE  /\ \A i \in Objects : Exists(i) /\ Mappable(i) => NodeShown(i)
                      /\ (\A i \in {User, Group} : Mappable(i)) /\ kind # "ENTRA_ID" =>
                            {<<l.source, l.target>> : l \in {k \in graph.links : k.type = "MEMBER_OF"}}
                                = IF dir.member THEN NodeOf(User) \X NodeOf(Group) ELSE {}
    OBVIOUS
  <2>1. calls[r].pc \in {"scan", "complete"}
    BY CompletedBy
  <2>2. \A i \in Objects : Exists(i) /\ Mappable(i) => NodeShown(i)
    BY <2>1, ShownWhole DEF NodeShown
  <2>3. Together =>
            {<<l.source, l.target>> : l \in {k \in graph.links : k.type = "MEMBER_OF"}}
                = IF dir.member THEN NodeOf(User) \X NodeOf(Group) ELSE {}
    BY <2>1, MembersWhole
  <2>. QED
    BY <2>2, <2>3 DEF Together
<1>2. Init => CInv /\ FullInv
  BY InitHolds, InitWhole
<1>3. CInv /\ FullInv /\ [Next]_vars => (CInv /\ FullInv)'
  BY StepKeeps, StepWhole
<1>4. FullSyncIsWhole <=> [][A]_vars
  BY DEF FullSyncIsWhole
<1> HIDE DEF A
<1>. QED
  BY <1>1, <1>2, <1>3, <1>4, PTL DEF Spec
=============================================================================

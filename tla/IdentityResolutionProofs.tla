------------------------ MODULE IdentityResolutionProofs ------------------------
(***************************************************************************)
(* Proofs about IdentityResolution for every set of nodes and requests and *)
(* all that the graph may say: that the conflicts of an identity are shown,*)
(* that a later source is linked to an earlier one, that a merge does what *)
(* its preview showed, and that an answered merge is kept by the memory    *)
(* and the row.                                                            *)
(*                                                                         *)
(* An object is reached by its id, by the requests that hold it, by the    *)
(* statements that carry it and by the rows it was written to. The         *)
(* invariant says that these agree for an id that was not created again,   *)
(* and of a merge that awaits its statements that the row has its source   *)
(* or will have it when one of those it awaits has landed.                 *)
(***************************************************************************)
EXTENDS IdentityResolution, TLAPS, FiniteSetTheorems, WellFoundedInduction

IsSeq(s) == s \in Seq(ToSet(s))

ActiveStates == {"reading", "merge", "preview", "persisting"}
Active(c) == req[c].pc \in ActiveStates

RequestShape(r, objects) ==
    /\ DOMAIN r = {"pc", "kind", "id", "object", "node", "read", "awaits"}
    /\ r.kind \in {"none", "merge", "preview", "register"}
    /\ r.pc \in {"idle", "answered", "failed"} \cup ActiveStates
    /\ r.pc \in ActiveStates => r.id \in Nodes /\ r.node \in Nodes /\ r.object \in objects
    /\ r.object \in objects \cup {0}
    /\ r.pc = "reading" => r.kind \in {"merge", "preview"}
    /\ r.pc \in {"merge", "preview"} => r.read \subseteq Versions[r.node]

WriteShape(w, objects) ==
    /\ DOMAIN w = {"owner", "row", "object", "value"}
    /\ w.owner \in Clients /\ w.row \in Nodes /\ w.object \in objects

\* The tables refer to objects and nodes that there are.
Shape ==
    /\ DOMAIN graph = Nodes /\ \A n \in Nodes : graph[n] \in Versions[n]
    /\ IsSeq(heap) /\ known \in [Nodes -> 0..Len(heap)] /\ DOMAIN rows = Nodes
    /\ \A w \in pending : WriteShape(w, DOMAIN heap)
    /\ DOMAIN req = Clients /\ \A c \in Clients : RequestShape(req[c], DOMAIN heap)
    /\ \A p \in confirmed : p[1] \in Nodes

\* Who has an id that was not created again has its object.
Attached ==
    /\ \A c \in Clients : Active(c) /\ req[c].id \notin replaced =>
          known[req[c].id] = req[c].object
    /\ \A w \in pending : w.row \notin replaced => known[w.row] = w.object

\* The memory has what was merged.
Remembered ==
    /\ \A c \in Clients : req[c].pc = "persisting" => req[c].node \in NodesOf(heap[req[c].object])
    /\ \A p \in confirmed : p[1] \notin replaced =>
          known[p[1]] # 0 /\ p[2] \in NodesOf(heap[known[p[1]]])

\* The rows of the identities whose last writes neither overlapped nor failed.
Stored(id) ==
    /\ \A v, w \in pending : v.row = id /\ w.row = id => v = w
    /\ \A p \in confirmed : p[1] = id =>
          /\ p[2] \in NodesOf(rows[id])
          /\ \A w \in pending : w.row = id => p[2] \in NodesOf(w.value)
    /\ \A c \in Clients : req[c].pc = "persisting" /\ req[c].id = id =>
          /\ \A w \in pending : w.row = id => req[c].node \in NodesOf(w.value)
          /\ \/ req[c].node \in NodesOf(rows[id])
             \/ \E w \in pending : w.row = id /\ Key(w) \in req[c].awaits

Written == \A id \in Nodes \ (unsafe \cup replaced) : Stored(id)

KeptInv == Shape /\ Attached /\ Remembered /\ Written

\* What a preview showed is what it computed.
Shown == \A p \in shown : p.proposed = Proposed(p.current, p.n, p.node)

\* A source of a node the graph had.
Source(e) ==
    /\ DOMAIN e = {"node", "system", "confidence", "props"}
    /\ e.system \in ToSet(Sources) /\ \A key \in DOMAIN e.props : e.props[key] \in Values

IsIdentity(X) ==
    X = [sources |-> X.sources, confidence |-> X.confidence, matched |-> X.matched,
         conflicts |-> X.conflicts, timeline |-> X.timeline, fields |-> X.fields,
         accounts |-> X.accounts, groups |-> X.groups]

\* An identity, with the conflicts that its sources have.
Formed(X) ==
    /\ IsIdentity(X)
    /\ IsSeq(X.sources) /\ \A i \in DOMAIN X.sources : Source(X.sources[i])
    /\ X.conflicts = Conflicts(X.sources)

AllFormed == \A X \in Objects : Formed(X)

Linked(s) ==
    \A i \in DOMAIN s :
        /\ \A j \in 1..(i - 1) : s[j].node # s[i].node
        /\ i > 1 => \E j \in 1..(i - 1), f \in FieldIndices :
                      /\ IdentityFields[f].score >= CONFIDENCE_THRESHOLD
                      /\ Matches(Value(s[i].props, f), Named(s[j].props, f))

FieldsHeld(X) ==
    \A f \in FieldIndices : \A v \in Value(X.fields, f) :
        \E j \in DOMAIN X.sources : v \in Named(X.sources[j].props, f)

Joined(X) == Linked(X.sources) /\ FieldsHeld(X)

AllJoined == \A X \in Objects : Joined(X)

------------------------------------------------------------------------------
(* Sequences, least elements and the objects that are loaded               *)

LEMMA SeqLen == ASSUME NEW s, IsSeq(s) PROVE Len(s) \in Nat /\ DOMAIN s = 1..Len(s)
  BY DEF IsSeq

LEMMA OwnSeq == ASSUME NEW S, NEW s \in Seq(S) PROVE IsSeq(s)
<1>1. Len(s) \in Nat /\ DOMAIN s = 1..Len(s) /\ \A i \in 1..Len(s) : s[i] \in ToSet(s)
  BY DEF ToSet
<1>2. s = [i \in 1..Len(s) |-> s[i]]
  OBVIOUS
<1>3. [i \in 1..Len(s) |-> s[i]] \in Seq(ToSet(s))
  BY <1>1
<1> QED BY <1>2, <1>3 DEF IsSeq

LEMMA AppendSeq ==
    ASSUME NEW s, IsSeq(s), NEW e
    PROVE  /\ IsSeq(Append(s, e)) /\ Len(Append(s, e)) = Len(s) + 1
           /\ DOMAIN Append(s, e) = (DOMAIN s) \cup {Len(s) + 1}
           /\ \A i \in DOMAIN s : Append(s, e)[i] = s[i]
           /\ Append(s, e)[Len(s) + 1] = e
           /\ ToSet(Append(s, e)) = ToSet(s) \cup {e}
<1> DEFINE S == ToSet(s) \cup {e}
           t == Append(s, e)
<1>1. s \in Seq(S) /\ Len(s) \in Nat /\ DOMAIN s = 1..Len(s)
  BY DEF IsSeq
<1>2. /\ t \in Seq(S) /\ Len(t) = Len(s) + 1 /\ DOMAIN t = 1..(Len(s) + 1)
      /\ \A i \in 1..Len(s) : t[i] = s[i]
      /\ t[Len(s) + 1] = e
  BY <1>1
<1>3. DOMAIN t = (DOMAIN s) \cup {Len(s) + 1}
  BY <1>1, <1>2
<1>4. ToSet(t) = S
  BY <1>1, <1>2, <1>3 DEF ToSet
<1> QED BY <1>1, <1>2, <1>3, <1>4 DEF IsSeq

LEMMA ChangedSeq ==
    ASSUME NEW s, IsSeq(s), NEW i \in DOMAIN s, NEW e, NEW t, t = [s EXCEPT ![i] = e]
    PROVE  /\ IsSeq(t) /\ DOMAIN t = DOMAIN s /\ Len(t) = Len(s)
           /\ t[i] = e /\ \A j \in DOMAIN s : j # i => t[j] = s[j]
<1>1. s \in Seq(ToSet(s) \cup {e})
  BY DEF IsSeq
<1>2. t \in Seq(ToSet(s) \cup {e}) /\ Len(t) = Len(s)
  BY <1>1
<1>3. IsSeq(t)
  BY <1>2, OwnSeq
<1>4. DOMAIN s = 1..Len(s) /\ DOMAIN t = DOMAIN s
  BY DEF IsSeq
<1> QED BY <1>2, <1>3, <1>4

LEMMA LeastExists ==
    ASSUME NEW S \in SUBSET Nat, S # {}
    PROVE  \E m \in S : \A x \in S : m <= x
<1>1. PICK m \in S : \A x \in S : ~(<<x, m>> \in OpToRel(<, Nat))
  BY NatLessThanWellFounded, WFMin
<1>2. ASSUME NEW x \in S PROVE ~(x < m)
  <2>1. <<x, m>> \in Nat \X Nat /\ <<x, m>>[1] = x /\ <<x, m>>[2] = m
    OBVIOUS
  <2> QED BY <1>1, <2>1 DEF OpToRel
<1> QED BY <1>2

LEMMA LeastIsMember ==
    ASSUME NEW S \in SUBSET Nat, S # {}
    PROVE  Min(S) \in S /\ \A x \in S : Min(S) <= x
  BY LeastExists DEF Min

\* The rows that hold an identity, in some order.
LEMMA IdsOfRows ==
    ASSUME NEW found, NEW S, S = {id \in Nodes : found[id] # NoIdentity}
    PROVE  /\ Ids(found) \in [1..Cardinality(S) -> S] /\ Cardinality(S) \in Nat
           /\ \A id \in S : \E o \in 1..Cardinality(S) : Ids(found)[o] = id
<1> DEFINE n == Cardinality(S)
<1>1. IsFiniteSet(S)
  BY ResolutionAssumption, FS_Subset
<1>2. n \in Nat /\ ExistsBijection(1..n, S)
  BY <1>1, FS_CardinalityType
<1>3. PICK f : f \in [1..n -> S] /\ IsInjective(f)
  BY <1>2 DEF ExistsBijection, Bijection, Injection, IsInjective
<1>4. Ids(found) \in [1..n -> S] /\ IsInjective(Ids(found))
  BY <1>3 DEF Ids, SetToSeq
<1>5. Ids(found) \in Injection(1..n, S)
  BY <1>4 DEF Injection, IsInjective
<1>6. Cardinality(1..n) = n
  BY <1>2, FS_Interval
<1>7. Ids(found) \in Surjection(1..n, S)
  BY <1>1, <1>2, <1>5, <1>6, FS_Injection
<1> QED BY <1>2, <1>4, <1>7 DEF Surjection

\* After a restart the memory has what the rows have.
LEMMA LoadedRows ==
    ASSUME NEW found, DOMAIN found = Nodes
    PROVE  /\ IsSeq(LoadedHeap(found))
           /\ LoadedTable(found) \in [Nodes -> 0..Len(LoadedHeap(found))]
           /\ \A id \in Nodes : found[id] # NoIdentity =>
                 /\ LoadedTable(found)[id] \in DOMAIN LoadedHeap(found)
                 /\ LoadedTable(found)[id] # 0
                 /\ LoadedHeap(found)[LoadedTable(found)[id]] = found[id]
           /\ ToSet(LoadedHeap(found)) \subseteq {found[id] : id \in Nodes}
           /\ \A o \in DOMAIN LoadedHeap(found) : LoadedHeap(found)[o] # NoIdentity
<1> DEFINE S == {id \in Nodes : found[id] # NoIdentity}
           n == Cardinality(S)
           H == LoadedHeap(found)
<1>1. /\ Ids(found) \in [1..n -> S] /\ n \in Nat
      /\ \A id \in S : \E o \in 1..n : Ids(found)[o] = id
  BY IdsOfRows
<1>2. H = [o \in 1..n |-> found[Ids(found)[o]]]
  BY <1>1 DEF LoadedHeap
<1>3. H \in Seq(ToSet(H)) /\ Len(H) = n /\ DOMAIN H = 1..n
  BY <1>1, <1>2 DEF ToSet
<1>4. ASSUME NEW id \in Nodes, found[id] # NoIdentity
      PROVE  LoadedTable(found)[id] \in 1..n /\ Ids(found)[LoadedTable(found)[id]] = id
  BY <1>1, <1>4 DEF LoadedTable
<1>5. LoadedTable(found) \in [Nodes -> 0..n]
  <2>1. \A id \in Nodes : LoadedTable(found)[id] \in 0..n
    <3>1. ASSUME NEW id \in Nodes, found[id] = NoIdentity PROVE LoadedTable(found)[id] = 0
      BY <3>1 DEF LoadedTable
    <3> QED BY <1>1, <1>4, <3>1
  <2> QED BY <2>1 DEF LoadedTable
<1>6. ToSet(H) \subseteq {found[id] : id \in Nodes}
  BY <1>1, <1>2, <1>3 DEF ToSet
<1>7. \A id \in Nodes : found[id] # NoIdentity =>
          LoadedTable(found)[id] \in 1..n /\ LoadedTable(found)[id] # 0
            /\ H[LoadedTable(found)[id]] = found[id]
  BY <1>1, <1>2, <1>4
<1>8. \A o \in DOMAIN H : H[o] # NoIdentity
  BY <1>1, <1>2, <1>3
<1> QED BY <1>3, <1>5, <1>6, <1>7, <1>8 DEF IsSeq
------------------------------------------------------------------------------
(* The shape                                                               *)

LEMMA IdleShape ==
    /\ DOMAIN Idle = {"pc", "kind", "id", "object", "node", "read", "awaits"}
    /\ Idle.pc = "idle" /\ Idle.kind = "none" /\ Idle.object = 0
  BY DEF Idle

LEMMA MoreObjects ==
    ASSUME NEW S, NEW T, S \subseteq T
    PROVE  /\ \A r : RequestShape(r, S) => RequestShape(r, T)
           /\ \A w : WriteShape(w, S) => WriteShape(w, T)
  BY DEF RequestShape, WriteShape

\* A request that is over, or was not made.
LEMMA EndedShape ==
    ASSUME NEW S, NEW pc \in {"idle", "answered", "failed"}
    PROVE  RequestShape([Idle EXCEPT !.pc = pc], S) /\ [Idle EXCEPT !.pc = pc].pc = pc
  BY IdleShape DEF RequestShape, ActiveStates

LEMMA RequestTyped ==
    ASSUME Shape, NEW c \in Clients, req[c].pc \in ActiveStates
    PROVE  /\ req[c].id \in Nodes /\ req[c].node \in Nodes /\ req[c].object \in DOMAIN heap
           /\ req[c].object # 0 /\ heap[req[c].object] \in Objects
<1>1. req[c].id \in Nodes /\ req[c].node \in Nodes /\ req[c].object \in DOMAIN heap
  BY DEF Shape, RequestShape
<1>2. DOMAIN heap = 1..Len(heap)
  BY SeqLen DEF Shape
<1> QED BY <1>1, <1>2 DEF Objects, ToSet

\* A step of one request keeps the shape when it keeps its own.
LEMMA RequestStep ==
    ASSUME Shape, NEW c \in Clients, NEW v, req' = [req EXCEPT ![c] = v],
           RequestShape(v, DOMAIN heap'), UNCHANGED graph,
           IsSeq(heap'), DOMAIN heap \subseteq DOMAIN heap',
           known' \in [Nodes -> 0..Len(heap')], DOMAIN rows' = Nodes,
           \A w \in pending' : WriteShape(w, DOMAIN heap'),
           \A p \in confirmed' : p[1] \in Nodes
    PROVE  Shape'
<1>1. DOMAIN req' = Clients /\ \A e \in Clients : RequestShape(req[e], DOMAIN heap')
  BY MoreObjects DEF Shape
<1>2. ASSUME NEW e \in Clients PROVE RequestShape(req'[e], DOMAIN heap')
  BY <1>1 DEF Shape
<1>3. DOMAIN graph' = Nodes /\ \A n \in Nodes : graph'[n] \in Versions[n]
  BY DEF Shape
<1>4. (\A e \in Clients : RequestShape(req[e], DOMAIN heap))'
  BY <1>2
<1>5. (\A w \in pending : WriteShape(w, DOMAIN heap))'
  OBVIOUS
<1>6. IsSeq(heap)'
  BY DEF IsSeq, ToSet
<1> QED BY <1>1, <1>3, <1>4, <1>5, <1>6 DEF Shape

LEMMA QuietStep ==
    ASSUME Shape, NEW c \in Clients, NEW v, req' = [req EXCEPT ![c] = v],
           RequestShape(v, DOMAIN heap), UNCHANGED <<pending, rows, memory>>,
           \A p \in confirmed' : p[1] \in Nodes
    PROVE  Shape'
<1>1. graph' = graph /\ heap' = heap /\ known' = known /\ rows' = rows /\ pending' = pending
  BY DEF memory
<1> QED BY <1>1, RequestStep DEF Shape

------------------------------------------------------------------------------
(* What was answered is kept                                               *)

\* A request that neither writes nor is answered for a merge.
LEMMA QuietKeeps ==
    ASSUME KeptInv, NEW c \in Clients, NEW v, req' = [req EXCEPT ![c] = v],
           RequestShape(v, DOMAIN heap), v.pc # "persisting",
           v.pc \in ActiveStates /\ v.id \notin replaced => known[v.id] = v.object,
           UNCHANGED <<pending, rows, memory, confirmed, unsafe, replaced>>
    PROVE  KeptInv'
<1>1. UNCHANGED <<pending, rows, graph, heap, known, confirmed, unsafe, replaced>>
  BY DEF memory
<1>2. Shape'
  BY <1>1, QuietStep DEF KeptInv, Shape, memory
<1>3. req'[c] = v /\ \A e \in Clients \ {c} : req'[e] = req[e]
  BY DEF KeptInv, Shape
<1>4. Attached'
  BY <1>1, <1>3 DEF KeptInv, Attached, Active
<1>5. Remembered'
  BY <1>1, <1>3 DEF KeptInv, Remembered
<1>6. ASSUME NEW id \in Nodes, Stored(id) PROVE Stored(id)'
  BY <1>1, <1>3, <1>6 DEF Stored
<1>7. Written'
  BY <1>1, <1>6 DEF KeptInv, Written
<1> QED BY <1>2, <1>4, <1>5, <1>7 DEF KeptInv

LEMMA AskedKeeps ==
    ASSUME KeptInv, NEW c \in Clients, NEW kind \in {"preview", "merge"}, NEW id \in Nodes,
           NEW n \in Nodes, RequestStarts(c, kind, id, n)
    PROVE  KeptInv'
<1> DEFINE v == [Idle EXCEPT !.pc = "reading", !.kind = kind, !.id = id,
                             !.object = known[id], !.node = n]
<1>1. req' = [req EXCEPT ![c] = v] /\ known[id] # 0
      /\ UNCHANGED <<pending, rows, memory, confirmed, unsafe, replaced>>
  BY DEF RequestStarts, storeVars, history
<1>2. known[id] \in DOMAIN heap
  BY <1>1, SeqLen DEF KeptInv, Shape
<1>3. RequestShape(v, DOMAIN heap) /\ v.pc = "reading" /\ v.id = id /\ v.object = known[id]
  BY <1>2, IdleShape DEF RequestShape, ActiveStates
<1> HIDE DEF v
<1> QED BY <1>1, <1>3, QuietKeeps

LEMMA ReadKeeps ==
    ASSUME KeptInv, NEW c \in Clients, NodeRead(c) PROVE KeptInv'
<1> DEFINE v == [req[c] EXCEPT !.pc = req[c].kind, !.read = {graph[req[c].node]}]
<1>1. req[c].pc = "reading" /\ UNCHANGED <<pending, rows, memory, confirmed, unsafe, replaced>>
  BY DEF NodeRead, storeVars, history
<1>2. RequestShape(req[c], DOMAIN heap)
  BY DEF KeptInv, Shape
<1>3. req' = [req EXCEPT ![c] = v]
  BY <1>2 DEF NodeRead, KeptInv, Shape, RequestShape
<1>4. graph[req[c].node] \in Versions[req[c].node]
  BY <1>1, <1>2 DEF KeptInv, Shape, RequestShape, ActiveStates
<1>5. /\ RequestShape(v, DOMAIN heap) /\ v.pc \in {"merge", "preview"}
      /\ v.id = req[c].id /\ v.object = req[c].object
  BY <1>1, <1>2, <1>4 DEF RequestShape, ActiveStates
<1>6. v.id \notin replaced => known[v.id] = v.object
  BY <1>1, <1>5 DEF KeptInv, Attached, Active, ActiveStates
<1> HIDE DEF v
<1> QED BY <1>1, <1>3, <1>5, <1>6, QuietKeeps

\* The request is over.
LEMMA EndedKeeps ==
    ASSUME KeptInv, NEW c \in Clients, NEW pc \in {"idle", "answered", "failed"},
           req' = [req EXCEPT ![c] = [Idle EXCEPT !.pc = pc]],
           UNCHANGED <<pending, rows, memory, confirmed, unsafe, replaced>>
    PROVE  KeptInv'
<1> DEFINE v == [Idle EXCEPT !.pc = pc]
<1>1. RequestShape(v, DOMAIN heap) /\ v.pc \notin ActiveStates
  BY EndedShape DEF ActiveStates
<1>2. v.pc # "persisting"
  BY <1>1 DEF ActiveStates
<1> HIDE DEF v
<1> QED BY <1>1, <1>2, QuietKeeps DEF v

LEMMA AnswerKeeps ==
    ASSUME KeptInv, NEW c \in Clients, Answers(c) PROVE KeptInv'
<1> DEFINE v == [Idle EXCEPT !.pc = "answered"]
           p == <<req[c].id, req[c].node>>
<1>1. /\ req[c].pc = "persisting" /\ \A w \in pending : Key(w) \notin req[c].awaits
      /\ confirmed' = confirmed \cup {p}
      /\ req' = [req EXCEPT ![c] = v]
      /\ UNCHANGED <<pending, rows, graph, heap, known, unsafe, replaced>>
  BY DEF Answers, Persisted, Flushed, memory
<1>2. p[1] \in Nodes /\ p[1] = req[c].id /\ p[2] = req[c].node /\ req[c].object # 0
  BY <1>1, RequestTyped DEF KeptInv, ActiveStates
<1>3. RequestShape(v, DOMAIN heap) /\ v.pc \notin ActiveStates /\ v.pc # "persisting"
  BY EndedShape DEF ActiveStates
<1> HIDE DEF v, p
<1>4. \A q \in confirmed' : q[1] \in Nodes
  BY <1>1, <1>2 DEF KeptInv, Shape
<1>5. Shape'
  BY <1>1, <1>3, <1>4, QuietStep DEF memory, KeptInv
<1>6. req'[c] = v /\ \A e \in Clients \ {c} : req'[e] = req[e]
  BY <1>1 DEF KeptInv, Shape
<1>7. Attached'
  BY <1>1, <1>3, <1>6 DEF KeptInv, Attached, Active
<1>8. p[1] \notin replaced => known[p[1]] = req[c].object
  BY <1>1, <1>2 DEF KeptInv, Attached, Active, ActiveStates
<1>9. p[2] \in NodesOf(heap[req[c].object])
  BY <1>1, <1>2 DEF KeptInv, Remembered
<1>10. Remembered'
  BY <1>1, <1>2, <1>3, <1>6, <1>8, <1>9 DEF KeptInv, Remembered
<1>11. ASSUME NEW id \in Nodes, Stored(id) PROVE Stored(id)'
  <2>1. p[1] = id => /\ p[2] \in NodesOf(rows[id])
                     /\ \A w \in pending : w.row = id => p[2] \in NodesOf(w.value)
    BY <1>1, <1>2, <1>11 DEF Stored
  <2> QED BY <1>1, <1>3, <1>6, <1>11, <2>1 DEF Stored
<1>12. Written'
  BY <1>1, <1>11 DEF KeptInv, Written
<1> QED BY <1>5, <1>7, <1>10, <1>12 DEF KeptInv

\* A merge into the object of an identity, or into a new object, which is tracked.
LEMMA PersistKeeps ==
    ASSUME KeptInv, NEW c \in Clients, NEW r, NEW id \in Nodes, NEW object, Persist(c, r, id, object),
           DOMAIN r = DOMAIN Idle, r.kind \in {"none", "merge", "preview", "register"}, r.node \in Nodes,
           IsSeq(heap'), DOMAIN heap \subseteq DOMAIN heap', object \in DOMAIN heap',
           \A o \in DOMAIN heap : NodesOf(heap[o]) \subseteq NodesOf(heap'[o]),
           r.node \in NodesOf(heap'[object]),
           known' = [known EXCEPT ![id] = object],
           replaced \subseteq replaced', replaced' \subseteq replaced \cup {id},
           id \notin replaced' => known[id] \in {0, object},
           UNCHANGED <<graph, confirmed>>
    PROVE  KeptInv'
<1> DEFINE new == [owner |-> c, row |-> id, object |-> object, value |-> heap'[object]]
           awaited == {Key(w) : w \in pending'}
           v == [r EXCEPT !.pc = "persisting", !.id = id, !.object = object, !.awaits = awaited]
<1>1. /\ pending' = pending \cup {new} /\ rows' = rows
      /\ unsafe' = unsafe \cup (IF \E w \in pending : w.row = id THEN {id} ELSE {})
      /\ req' = [req EXCEPT ![c] = v]
  BY DEF Persist, Write
<1>2. /\ RequestShape(v, DOMAIN heap') /\ v.pc = "persisting" /\ v.id = id /\ v.object = object
      /\ v.node = r.node /\ v.awaits = awaited
  BY IdleShape DEF RequestShape, ActiveStates
<1>3. /\ WriteShape(new, DOMAIN heap') /\ new.row = id /\ new.object = object
      /\ new.value = heap'[object] /\ new \in pending' /\ Key(new) \in awaited
  BY <1>1 DEF WriteShape
<1> HIDE DEF new, awaited, v
<1>4. DOMAIN heap = 1..Len(heap) /\ DOMAIN heap' = 1..Len(heap') /\ Len(heap) \in Nat /\ Len(heap') \in Nat
  BY SeqLen DEF KeptInv, Shape
<1>5. known' \in [Nodes -> 0..Len(heap')]
  <2>1. 0..Len(heap) \subseteq 0..Len(heap') /\ object \in 0..Len(heap')
    BY <1>4
  <2> QED BY <2>1 DEF KeptInv, Shape
<1>6. Shape'
  <2>1. \A w \in pending' : WriteShape(w, DOMAIN heap')
    BY <1>1, <1>3, MoreObjects DEF KeptInv, Shape
  <2> QED BY <1>1, <1>2, <1>5, <2>1, RequestStep DEF KeptInv, Shape
<1>7. req'[c] = v /\ \A e \in Clients \ {c} : req'[e] = req[e]
  BY <1>1 DEF KeptInv, Shape
<1>8. known'[id] = object /\ \A x \in Nodes \ {id} : known'[x] = known[x]
  BY DEF KeptInv, Shape
\* Who is at work on the identity has its object already.
<1>9. ASSUME NEW e \in Clients, e # c, req[e].pc \in ActiveStates, req[e].id \notin replaced'
      PROVE  known'[req[e].id] = req[e].object
  <2>1. req[e].id \in Nodes /\ req[e].object # 0 /\ known[req[e].id] = req[e].object
    BY <1>9, RequestTyped DEF KeptInv, Attached, Active
  <2> QED BY <1>8, <1>9, <2>1
<1>10. ASSUME NEW w \in pending, w.row \notin replaced' PROVE known'[w.row] = w.object
  <2>1. w.row \in Nodes /\ w.object # 0 /\ known[w.row] = w.object
    BY <1>4, <1>10 DEF KeptInv, Attached, Shape, WriteShape
  <2> QED BY <1>8, <1>10, <2>1
<1>11. Attached'
  <2>1. (\A e \in Clients : Active(e) /\ req[e].id \notin replaced => known[req[e].id] = req[e].object)'
    BY <1>2, <1>7, <1>8, <1>9 DEF Active
  <2> QED BY <1>1, <1>3, <1>8, <1>10, <2>1 DEF Attached
<1>12. ASSUME NEW p \in confirmed, p[1] \notin replaced'
       PROVE  known'[p[1]] # 0 /\ known'[p[1]] = known[p[1]] /\ p[2] \in NodesOf(heap'[known'[p[1]]])
  <2>1. p[1] \in Nodes /\ known[p[1]] # 0 /\ p[2] \in NodesOf(heap[known[p[1]]])
    BY <1>12 DEF KeptInv, Shape, Remembered
  <2>2. known'[p[1]] = known[p[1]] /\ known[p[1]] \in DOMAIN heap
    BY <1>4, <1>8, <1>12, <2>1 DEF KeptInv, Shape
  <2> QED BY <2>1, <2>2
<1>13. Remembered'
  <2>1. ASSUME NEW e \in Clients, req'[e].pc = "persisting"
        PROVE  req'[e].node \in NodesOf(heap'[req'[e].object])
    <3>1. CASE e = c
      BY <1>2, <1>7, <3>1
    <3>2. CASE e # c
      BY <1>7, <2>1, <3>2, RequestTyped DEF KeptInv, Remembered, ActiveStates
    <3> QED BY <3>1, <3>2
  <2> QED BY <1>12, <2>1 DEF Remembered
<1>14. ASSUME NEW x \in Nodes \ (unsafe' \cup replaced') PROVE Stored(x)'
  <2>1. Stored(x)
    BY <1>1, <1>14 DEF KeptInv, Written
  <2>2. CASE x # id
    <3>1. \A w \in pending' : w.row = x => w \in pending
      BY <1>1, <1>3, <2>2
    <3>2. \A e \in Clients : req'[e].pc = "persisting" /\ req'[e].id = x =>
              req[e].pc = "persisting" /\ req[e].id = x /\ req'[e] = req[e]
      BY <1>2, <1>7, <2>2
    <3>3. pending \subseteq pending' /\ rows' = rows /\ confirmed' = confirmed
      BY <1>1
    <3> QED BY <2>1, <3>1, <3>2, <3>3 DEF Stored
  <2>3. CASE x = id
    <3>1. \A w \in pending' : w.row = id <=> w = new
      BY <1>1, <1>3, <1>14, <2>3
    <3>2. \A w \in pending : w.row # id
      BY <1>1, <1>14, <2>3
    <3>3. ASSUME NEW p \in confirmed, p[1] = id
          PROVE  p[2] \in NodesOf(rows[id]) /\ p[2] \in NodesOf(new.value)
      BY <1>3, <1>8, <1>12, <1>14, <2>1, <2>3, <3>3 DEF Stored
    <3>4. ASSUME NEW e \in Clients, req'[e].pc = "persisting", req'[e].id = id
          PROVE  /\ req'[e].node \in NodesOf(new.value)
                 /\ req'[e].node \in NodesOf(rows[id]) \/ Key(new) \in req'[e].awaits
      <4>1. CASE e = c
        BY <1>2, <1>3, <1>7, <4>1
      <4>2. CASE e # c
        <5>1. req[e].pc = "persisting" /\ req[e].id = id /\ req'[e] = req[e]
          BY <1>7, <3>4, <4>2
        <5>2. req[e].object = object
          BY <1>8, <1>9, <1>14, <2>3, <4>2, <5>1 DEF ActiveStates
        <5>3. req[e].node \in NodesOf(heap'[object])
          BY <1>13, <5>1, <5>2 DEF Remembered
        <5>4. req[e].node \in NodesOf(rows[id])
          BY <2>1, <2>3, <3>2, <5>1 DEF Stored
        <5> QED BY <1>3, <5>1, <5>3, <5>4
      <4> QED BY <4>1, <4>2
    <3> QED BY <1>1, <1>3, <2>3, <3>1, <3>3, <3>4 DEF Stored
  <2> QED BY <2>2, <2>3
<1>15. Written'
  BY <1>14 DEF Written
<1> QED BY <1>6, <1>11, <1>13, <1>15 DEF KeptInv

LEMMA SourceAdded ==
    ASSUME NEW X, IsSeq(X.sources), NEW n, NEW node
    PROVE  /\ IsSeq(WithSource(X, n, node))
           /\ {WithSource(X, n, node)[i].node : i \in DOMAIN WithSource(X, n, node)} = NodesOf(X) \cup {n}
<1> DEFINE e == SourceOf(n, node, SourceConfidence(node.props, X.fields))
           s == Append(X.sources, e)
<1>1. e.node = n
  BY DEF SourceOf
<1>2. /\ IsSeq(s) /\ DOMAIN s = (DOMAIN X.sources) \cup {Len(X.sources) + 1}
      /\ \A i \in DOMAIN X.sources : s[i] = X.sources[i]
      /\ s[Len(X.sources) + 1] = e
  BY AppendSeq
<1> HIDE DEF e
<1>3. {s[i].node : i \in DOMAIN s} = NodesOf(X) \cup {n}
  BY <1>1, <1>2 DEF NodesOf
<1>4. Added(X, n, node) = s
  BY DEF Added, e
<1> HIDE DEF s
<1>5. CASE n \in NodesOf(X)
  BY <1>5 DEF WithSource, NodesOf
<1>6. CASE n \notin NodesOf(X)
  BY <1>2, <1>3, <1>4, <1>6 DEF WithSource
<1> QED BY <1>5, <1>6

LEMMA MergedSources ==
    ASSUME NEW X, IsSeq(X.sources), NEW n, NEW node
    PROVE  IsSeq(Merged(X, n, node).sources) /\ NodesOf(Merged(X, n, node)) = NodesOf(X) \cup {n}
<1>1. Merged(X, n, node).sources = WithSource(X, n, node)
  BY DEF Merged
<1> QED BY <1>1, SourceAdded DEF NodesOf

LEMMA NewSources ==
    ASSUME NEW n, NEW node
    PROVE  IsSeq(NewIdentity(n, node).sources) /\ NodesOf(NewIdentity(n, node)) = {n}
<1>1. NewIdentity(n, node).sources = <<SourceOf(n, node, 70)>>
  BY DEF NewIdentity
<1>2. IsSeq(<<SourceOf(n, node, 70)>>)
  BY DEF IsSeq, ToSet
<1>3. SourceOf(n, node, 70).node = n
  BY DEF SourceOf
<1> QED BY <1>1, <1>2, <1>3 DEF NodesOf

LEMMA MergeKeeps ==
    ASSUME KeptInv, AllFormed, NEW c \in Clients, NEW r, NEW id \in Nodes, NEW object \in DOMAIN heap, NEW node,
           MergeInto(c, r, id, object, node),
           DOMAIN r = DOMAIN Idle, r.kind \in {"none", "merge", "preview", "register"}, r.node \in Nodes,
           id \notin replaced => known[id] = object,
           UNCHANGED <<graph, confirmed, replaced>>
    PROVE  KeptInv'
<1>1. CASE Accepted(node, heap[object])
  <2> DEFINE X == Merged(heap[object], r.node, node)
  <2>1. heap' = [heap EXCEPT ![object] = X] /\ known' = [known EXCEPT ![id] = object]
        /\ Persist(c, r, id, object)
    BY <1>1 DEF MergeInto
  <2>2. IsSeq(heap[object].sources)
    BY DEF AllFormed, Formed, Objects, ToSet
  <2>3. NodesOf(X) = NodesOf(heap[object]) \cup {r.node}
    BY <2>2, MergedSources
  <2> HIDE DEF X
  <2>4. IsSeq(heap') /\ DOMAIN heap' = DOMAIN heap /\ heap'[object] = X
        /\ \A o \in DOMAIN heap : o # object => heap'[o] = heap[o]
    BY <2>1, ChangedSeq DEF KeptInv, Shape
  <2>5. \A o \in DOMAIN heap : NodesOf(heap[o]) \subseteq NodesOf(heap'[o])
    BY <2>3, <2>4
  <2> QED BY <2>1, <2>3, <2>4, <2>5, PersistKeeps
<1>2. CASE ~Accepted(node, heap[object])
  <2>1. req' = [req EXCEPT ![c] = [Idle EXCEPT !.pc = "answered"]]
        /\ UNCHANGED <<pending, rows, memory, confirmed, unsafe, replaced>>
    BY <1>2 DEF MergeInto, storeVars, memory
  <2> QED BY <2>1, EndedKeeps
<1> QED BY <1>1, <1>2

LEMMA MergesKeeps ==
    ASSUME KeptInv, AllFormed, NEW c \in Clients, Merges(c) PROVE KeptInv'
<1>1. PICK node \in req[c].read : MergeInto(c, req[c], req[c].id, req[c].object, node)
  BY DEF Merges
<1>2. req[c].pc = "merge" /\ UNCHANGED <<graph, confirmed, replaced>>
  BY DEF Merges
<1>3. req[c].id \in Nodes /\ req[c].node \in Nodes /\ req[c].object \in DOMAIN heap
  BY <1>2, RequestTyped DEF KeptInv, ActiveStates
<1>4. DOMAIN req[c] = DOMAIN Idle /\ req[c].kind \in {"none", "merge", "preview", "register"}
  BY IdleShape DEF KeptInv, Shape, RequestShape
<1>5. req[c].id \notin replaced => known[req[c].id] = req[c].object
  BY <1>2 DEF KeptInv, Attached, Active, ActiveStates
<1> QED BY <1>1, <1>2, <1>3, <1>4, <1>5, MergeKeeps

LEMMA RegistersKeeps ==
    ASSUME KeptInv, AllFormed, NEW c \in Clients, NEW n \in Nodes, Registers(c, n) PROVE KeptInv'
<1> DEFINE node == graph[n]
           r == [Idle EXCEPT !.kind = "register", !.node = n]
           X == NewIdentity(n, node)
<1>1. DOMAIN r = DOMAIN Idle /\ r.kind \in {"none", "merge", "preview", "register"} /\ r.node = n
  BY IdleShape
<1>2. UNCHANGED <<graph, confirmed>>
  BY DEF Registers
<1>3. ASSUME NEW id \in Owners(node.props), MergeInto(c, r, id, known[id], node), UNCHANGED replaced
      PROVE  KeptInv'
  <2>1. id \in Nodes /\ known[id] # 0
    BY DEF Owners
  <2>2. known[id] \in DOMAIN heap
    BY <2>1, SeqLen DEF KeptInv, Shape
  <2> HIDE DEF r, node
  <2> QED BY <1>1, <1>2, <1>3, <2>1, <2>2, MergeKeeps
<1>4. CASE /\ heap' = Append(heap, X)
           /\ known' = [known EXCEPT ![n] = Len(heap')]
           /\ Persist(c, r, n, Len(heap'))
           /\ replaced' = replaced \cup (IF known[n] # 0 THEN {n} ELSE {})
  <2>1. NodesOf(X) = {n}
    BY NewSources
  <2> HIDE DEF X, r
  <2>2. /\ IsSeq(heap') /\ Len(heap') = Len(heap) + 1
        /\ DOMAIN heap' = (DOMAIN heap) \cup {Len(heap')} /\ heap'[Len(heap')] = X
        /\ \A o \in DOMAIN heap : heap'[o] = heap[o]
    BY <1>4, AppendSeq DEF KeptInv, Shape
  <2>3. r.node \in NodesOf(heap'[Len(heap')])
    BY <1>1, <2>1, <2>2
  <2>4. n \notin replaced' => known[n] \in {0, Len(heap')}
    BY <1>4
  <2>5. replaced \subseteq replaced' /\ replaced' \subseteq replaced \cup {n}
    BY <1>4
  <2>6. DOMAIN heap \subseteq DOMAIN heap' /\ Len(heap') \in DOMAIN heap'
        /\ \A o \in DOMAIN heap : NodesOf(heap[o]) \subseteq NodesOf(heap'[o])
    BY <2>2
  <2>7. r.node \in Nodes
    BY <1>1
  <2>8. IsSeq(heap') /\ known' = [known EXCEPT ![n] = Len(heap')] /\ Persist(c, r, n, Len(heap'))
    BY <1>4, <2>2
  <2> QED BY <1>1, <1>2, <2>3, <2>4, <2>5, <2>6, <2>7, <2>8, PersistKeeps
<1> QED BY <1>3, <1>4 DEF Registers

\* The shape after a step of the store.
LEMMA StoreStep ==
    ASSUME Shape, UNCHANGED <<memory, req, confirmed>>, DOMAIN rows' = Nodes,
           \A w \in pending' : WriteShape(w, DOMAIN heap)
    PROVE  Shape'
  BY DEF Shape, memory, IsSeq, ToSet

LEMMA LateKeeps ==
    ASSUME KeptInv, NEW w \in pending, Late(w) PROVE KeptInv'
<1> DEFINE new == [w EXCEPT !.value = heap[w.object]]
<1>1. pending' = (pending \ {w}) \cup {new}
      /\ UNCHANGED <<rows, graph, heap, known, req, confirmed, unsafe, replaced>>
  BY DEF Late, memory, history
<1>2. WriteShape(w, DOMAIN heap)
  BY DEF KeptInv, Shape
<1>3. /\ new.row = w.row /\ new.object = w.object /\ new.value = heap[w.object] /\ Key(new) = Key(w)
      /\ WriteShape(new, DOMAIN heap)
  BY <1>2 DEF WriteShape, Key
<1> HIDE DEF new
<1>4. Shape'
  BY <1>1, <1>3, StoreStep DEF KeptInv, Shape, memory
<1>5. Attached'
  BY <1>1, <1>3 DEF KeptInv, Attached, Active
<1>6. Remembered'
  BY <1>1 DEF KeptInv, Remembered
<1>7. ASSUME NEW id \in Nodes \ (unsafe' \cup replaced') PROVE Stored(id)'
  <2>1. Stored(id) /\ id \notin replaced
    BY <1>1, <1>7 DEF KeptInv, Written
  <2>2. CASE w.row # id
    BY <1>1, <1>3, <2>1, <2>2 DEF Stored
  <2>3. CASE w.row = id
    <3>1. known[id] = w.object
      BY <2>1, <2>3 DEF KeptInv, Attached
    <3>2. \A x \in pending' : x.row = id <=> x = new
      BY <1>1, <1>3, <2>1, <2>3 DEF Stored
    <3>3. \A p \in confirmed : p[1] = id => p[2] \in NodesOf(rows[id]) /\ p[2] \in NodesOf(new.value)
      BY <1>3, <2>1, <3>1 DEF KeptInv, Remembered, Stored
    <3>4. ASSUME NEW e \in Clients, req[e].pc = "persisting", req[e].id = id
          PROVE  /\ req[e].node \in NodesOf(new.value)
                 /\ req[e].node \in NodesOf(rows[id]) \/ Key(new) \in req[e].awaits
      <4>1. req[e].object = w.object
        BY <2>1, <3>1, <3>4 DEF KeptInv, Attached, Active, ActiveStates
      <4>2. req[e].node \in NodesOf(new.value)
        BY <1>3, <3>4, <4>1 DEF KeptInv, Remembered
      <4>3. req[e].node \in NodesOf(rows[id]) \/ \E x \in pending : x.row = id /\ Key(x) \in req[e].awaits
        BY <2>1, <3>4 DEF Stored
      <4>4. \A x \in pending : x.row = id => x = w
        BY <2>1, <2>3 DEF Stored
      <4> QED BY <1>3, <4>2, <4>3, <4>4
    <3> QED BY <1>1, <1>3, <2>3, <3>2, <3>3, <3>4 DEF Stored
  <2> QED BY <2>2, <2>3
<1>8. Written'
  BY <1>7 DEF Written
<1> QED BY <1>4, <1>5, <1>6, <1>8 DEF KeptInv

\* A write is over, and the row has its value or what it had.
LEMMA WriteOver ==
    ASSUME KeptInv, NEW w \in pending, pending' = pending \ {w}, DOMAIN rows' = Nodes,
           UNCHANGED <<memory, req, confirmed, replaced>>,
           \A id \in Nodes \ (unsafe' \cup replaced) : Stored(id)'
    PROVE  KeptInv'
<1>1. UNCHANGED <<graph, heap, known, req, confirmed, replaced>>
  BY DEF memory
<1>2. Shape'
  BY <1>1, StoreStep DEF KeptInv, Shape, memory
<1>3. Attached' /\ Remembered'
  BY <1>1 DEF KeptInv, Attached, Active, Remembered
<1>4. Written'
  BY <1>1 DEF Written
<1> QED BY <1>2, <1>3, <1>4 DEF KeptInv

LEMMA LandsKeeps ==
    ASSUME KeptInv, NEW w \in pending, WriteLands(w) PROVE KeptInv'
<1>1. /\ pending' = pending \ {w} /\ rows' = [rows EXCEPT ![w.row] = w.value]
      /\ UNCHANGED <<memory, req, confirmed, replaced>>
      /\ unsafe' = IF (\E v \in pending' : v.row = w.row) \/ w.value # heap[w.object]
                   THEN unsafe ELSE unsafe \ {w.row}
  BY DEF WriteLands, Lands
<1>2. w.row \in Nodes /\ DOMAIN rows' = Nodes /\ rows'[w.row] = w.value
      /\ \A id \in Nodes : id # w.row => rows'[id] = rows[id]
  BY <1>1 DEF KeptInv, Shape, WriteShape
<1>3. ASSUME NEW id \in Nodes \ (unsafe' \cup replaced) PROVE Stored(id)'
  <2>1. CASE id # w.row
    <3>1. Stored(id)
      BY <1>1, <1>3, <2>1 DEF KeptInv, Written
    <3> QED BY <1>1, <1>2, <2>1, <3>1 DEF Stored
  <2>2. CASE id = w.row /\ id \notin unsafe
    <3>1. Stored(id)
      BY <1>3, <2>2 DEF KeptInv, Written
    <3>2. \A x \in pending' : x.row # id
      BY <1>1, <2>2, <3>1 DEF Stored
    <3> QED BY <1>1, <1>2, <2>2, <3>1, <3>2 DEF Stored
  <2>3. CASE id = w.row /\ id \in unsafe
    <3>1. (\A v \in pending' : v.row # id) /\ w.value = heap[w.object]
      BY <1>1, <1>3, <2>3
    <3>2. known[id] = w.object
      BY <1>3, <2>3 DEF KeptInv, Attached
    <3>3. \A p \in confirmed : p[1] = id => p[2] \in NodesOf(rows'[id])
      BY <1>2, <1>3, <2>3, <3>1, <3>2 DEF KeptInv, Remembered
    <3>4. \A e \in Clients : req[e].pc = "persisting" /\ req[e].id = id => req[e].node \in NodesOf(rows'[id])
      BY <1>2, <1>3, <2>3, <3>1, <3>2 DEF KeptInv, Remembered, Attached, Active, ActiveStates
    <3> QED BY <1>1, <3>1, <3>3, <3>4 DEF Stored
  <2> QED BY <2>1, <2>2, <2>3
<1> QED BY <1>1, <1>2, <1>3, WriteOver

LEMMA FailsKeeps ==
    ASSUME KeptInv, NEW w \in pending, WriteFails(w) PROVE KeptInv'
<1>1. /\ pending' = pending \ {w} /\ rows' = rows /\ unsafe' = unsafe \cup {w.row}
      /\ UNCHANGED <<memory, req, confirmed, replaced>>
  BY DEF WriteFails, Fails
<1>2. ASSUME NEW id \in Nodes \ (unsafe' \cup replaced) PROVE Stored(id)'
  <2>1. Stored(id) /\ id # w.row
    BY <1>1, <1>2 DEF KeptInv, Written
  <2> QED BY <1>1, <2>1 DEF Stored
<1> QED BY <1>1, <1>2, WriteOver DEF KeptInv, Shape

LEMMA GraphKeeps ==
    ASSUME KeptInv, NEW n \in Nodes, GraphChanges(n) PROVE KeptInv'
<1>1. PICK node \in Versions[n] : graph' = [graph EXCEPT ![n] = node]
  BY DEF GraphChanges
<1>2. UNCHANGED <<pending, rows, heap, known, req, confirmed, unsafe, replaced>>
  BY DEF GraphChanges, storeVars, history
<1>3. Shape'
  <2>1. DOMAIN graph' = Nodes /\ \A m \in Nodes : graph'[m] \in Versions[m]
    BY <1>1 DEF KeptInv, Shape
  <2> QED BY <1>2, <2>1 DEF KeptInv, Shape, IsSeq, ToSet
<1>4. Attached' /\ Remembered'
  BY <1>2 DEF KeptInv, Attached, Active, Remembered
<1>5. \A id \in Nodes : Stored(id) => Stored(id)'
  BY <1>2 DEF Stored
<1> QED BY <1>2, <1>3, <1>4, <1>5 DEF KeptInv, Written

\* What the rows have is found again, and an identity that was not written is excused.
LEMMA RestartKeeps == ASSUME KeptInv, Restart PROVE KeptInv'
<1>1. /\ heap' = LoadedHeap(rows) /\ known' = LoadedTable(rows) /\ pending' = {}
      /\ req' = [c \in Clients |-> Idle] /\ confirmed' = {p \in confirmed : p[1] \notin unsafe}
      /\ unsafe' = {} /\ UNCHANGED <<rows, graph, replaced>>
  BY DEF Restart
<1>2. /\ IsSeq(heap') /\ known' \in [Nodes -> 0..Len(heap')]
      /\ \A id \in Nodes : rows[id] # NoIdentity => known'[id] # 0 /\ heap'[known'[id]] = rows[id]
  BY <1>1, LoadedRows DEF KeptInv, Shape
<1>3. RequestShape(Idle, DOMAIN heap')
  BY IdleShape DEF RequestShape, ActiveStates
<1>4. \A c \in Clients : req'[c] = Idle /\ req'[c].pc = "idle"
  BY <1>1, IdleShape
<1>5. Shape'
  <2>1. (\A c \in Clients : RequestShape(req[c], DOMAIN heap))'
    BY <1>3, <1>4
  <2>2. IsSeq(heap)'
    BY <1>2 DEF IsSeq, ToSet
  <2> QED BY <1>1, <1>2, <2>1, <2>2 DEF KeptInv, Shape
<1>6. Attached'
  BY <1>1, <1>4 DEF Attached, Active, ActiveStates
<1>7. NodesOf(NoIdentity) = {}
  BY DEF NodesOf, NoIdentity
<1>8. \A p \in confirmed' : p[1] \in Nodes /\ (p[1] \notin replaced => p[2] \in NodesOf(rows[p[1]]))
  BY <1>1 DEF KeptInv, Shape, Written, Stored
<1>9. Remembered'
  BY <1>1, <1>2, <1>4, <1>7, <1>8 DEF Remembered
<1>10. Written'
  BY <1>1, <1>4, <1>8 DEF Written, Stored
<1> QED BY <1>5, <1>6, <1>9, <1>10 DEF KeptInv

LEMMA KeptAtFirst == ASSUME Init PROVE KeptInv
<1>1. /\ rows \in Starts /\ pending = {} /\ heap = LoadedHeap(rows) /\ known = LoadedTable(rows)
      /\ req = [c \in Clients |-> Idle] /\ confirmed = {}
      /\ DOMAIN graph = Nodes /\ \A n \in Nodes : graph[n] \in Versions[n]
  BY DEF Init
<1>2. DOMAIN rows = Nodes
  BY <1>1, ResolutionAssumption
<1>3. IsSeq(heap) /\ known \in [Nodes -> 0..Len(heap)]
  BY <1>1, <1>2, LoadedRows
<1>4. RequestShape(Idle, DOMAIN heap)
  BY IdleShape DEF RequestShape, ActiveStates
<1>5. \A c \in Clients : req[c] = Idle /\ req[c].pc = "idle"
  BY <1>1, IdleShape
<1>6. Shape
  BY <1>1, <1>2, <1>3, <1>4, <1>5 DEF Shape
<1>7. Attached /\ Remembered /\ Written
  BY <1>1, <1>5 DEF Attached, Active, ActiveStates, Remembered, Written, Stored
<1> QED BY <1>6, <1>7 DEF KeptInv

LEMMA KeptStep == ASSUME KeptInv, AllFormed, [Next]_vars PROVE KeptInv'
<1>1. ASSUME NEW c \in Clients, ReadFails(c) PROVE KeptInv'
  BY <1>1, EndedKeeps DEF ReadFails, storeVars, history
<1>2. ASSUME NEW c \in Clients, Previews(c) PROVE KeptInv'
  <2>1. req' = [req EXCEPT ![c] = [Idle EXCEPT !.pc = "answered"]]
        /\ UNCHANGED <<pending, rows, memory, confirmed, unsafe, replaced>>
    BY <1>2 DEF Previews, storeVars
  <2> QED BY <2>1, EndedKeeps
<1>3. ASSUME NEW c \in Clients, AnswersError(c) PROVE KeptInv'
  <2>1. req' = [req EXCEPT ![c] = [Idle EXCEPT !.pc = "failed"]]
        /\ UNCHANGED <<pending, rows, memory, confirmed, unsafe, replaced>>
    BY <1>3 DEF AnswersError, history
  <2> QED BY <2>1, EndedKeeps
<1>4. CASE UNCHANGED vars
  <2>1. UNCHANGED <<pending, rows, graph, heap, known, req, confirmed, unsafe, replaced>>
    BY <1>4 DEF vars
  <2>2. Shape'
    BY <2>1 DEF KeptInv, Shape, IsSeq, ToSet
  <2>3. Attached' /\ Remembered'
    BY <2>1 DEF KeptInv, Attached, Active, Remembered
  <2>4. \A id \in Nodes : Stored(id) => Stored(id)'
    BY <2>1 DEF Stored
  <2> QED BY <2>1, <2>2, <2>3, <2>4 DEF KeptInv, Written
<1> QED BY <1>1, <1>2, <1>3, <1>4, AskedKeeps, RegistersKeeps, ReadKeeps, MergesKeeps, AnswerKeeps,
           GraphKeeps, LateKeeps, LandsKeeps, FailsKeeps, RestartKeeps DEF Next

------------------------------------------------------------------------------
(* The objects                                                             *)

IsMerged(X, n, node) == \E Y \in Objects : Accepted(node, Y) /\ X = Merged(Y, n, node)

\* An object that there is, or that a merge makes of one or of a node.
Made(X) ==
    \/ X \in Objects
    \/ \E n \in Nodes : \E node \in Versions[n] : IsMerged(X, n, node) \/ X = NewIdentity(n, node)

LEMMA HeapObjects ==
    ASSUME Shape
    PROVE  /\ \A o \in DOMAIN heap : heap[o] \in Objects
           /\ \A id \in Nodes : rows[id] \in Objects
           /\ \A w \in pending : w.value \in Objects
  BY DEF Objects, ToSet

LEMMA SameObjects ==
    ASSUME Shape, UNCHANGED heap, pending' \subseteq pending, UNCHANGED rows, NEW X \in Objects'
    PROVE  Made(X)
<1>1. X \in Objects
  BY DEF Objects, ToSet
<1> QED BY <1>1 DEF Made

\* A write of an object of the memory.
LEMMA WrittenObjects ==
    ASSUME Shape, NEW c, NEW r, NEW id, NEW object, Persist(c, r, id, object), object \in DOMAIN heap',
           \A o \in DOMAIN heap' : Made(heap'[o]), NEW X \in Objects'
    PROVE  Made(X)
<1>1. pending' = pending \cup {[owner |-> c, row |-> id, object |-> object, value |-> heap'[object]]}
      /\ rows' = rows
  BY DEF Persist, Write
<1>2. \/ \E o \in DOMAIN heap' : X = heap'[o]
      \/ \E i \in Nodes : X = rows[i]
      \/ \E w \in pending : X = w.value
      \/ X = heap'[object]
  BY <1>1 DEF Objects, ToSet
<1>3. Made(X) \/ X \in Objects
  BY <1>2, HeapObjects
<1> QED BY <1>3 DEF Made

LEMMA MergeMakes ==
    ASSUME Shape, NEW c, NEW r, NEW id, NEW object \in DOMAIN heap, r.node \in Nodes,
           NEW node \in Versions[r.node], MergeInto(c, r, id, object, node), NEW X \in Objects'
    PROVE  Made(X)
<1>1. CASE Accepted(node, heap[object])
  <2> DEFINE Y == Merged(heap[object], r.node, node)
  <2>1. heap' = [heap EXCEPT ![object] = Y] /\ Persist(c, r, id, object)
    BY <1>1 DEF MergeInto
  <2>2. Made(Y)
    BY <1>1, HeapObjects DEF Made, IsMerged
  <2>3. \A o \in DOMAIN heap : Made(heap[o])
    BY HeapObjects DEF Made
  <2> HIDE DEF Y
  <2>4. DOMAIN heap' = DOMAIN heap /\ \A o \in DOMAIN heap' : Made(heap'[o])
    BY <2>1, <2>2, <2>3, ChangedSeq DEF Shape
  <2> QED BY <2>1, <2>4, WrittenObjects
<1>2. CASE ~Accepted(node, heap[object])
  BY <1>2, SameObjects DEF MergeInto, storeVars
<1> QED BY <1>1, <1>2

LEMMA MergesMakes == ASSUME Shape, NEW c \in Clients, Merges(c), NEW X \in Objects' PROVE Made(X)
<1>1. PICK node \in req[c].read : MergeInto(c, req[c], req[c].id, req[c].object, node)
  BY DEF Merges
<1>2. req[c].pc = "merge"
  BY DEF Merges
<1>3. req[c].node \in Nodes /\ req[c].object \in DOMAIN heap
  BY <1>2, RequestTyped DEF ActiveStates
<1>4. node \in Versions[req[c].node]
  BY <1>2 DEF Shape, RequestShape
<1> QED BY <1>1, <1>3, <1>4, MergeMakes

LEMMA RegistersMakes ==
    ASSUME Shape, NEW c \in Clients, NEW n \in Nodes, Registers(c, n), NEW X \in Objects'
    PROVE  Made(X)
<1> DEFINE node == graph[n]
           r == [Idle EXCEPT !.kind = "register", !.node = n]
           Y == NewIdentity(n, node)
<1>1. r.node = n
  BY IdleShape
<1>2. node \in Versions[n]
  BY DEF Shape
<1>3. ASSUME NEW id \in Owners(node.props), MergeInto(c, r, id, known[id], node) PROVE Made(X)
  <2>1. id \in Nodes /\ known[id] # 0
    BY DEF Owners
  <2>2. known[id] \in DOMAIN heap
    BY <2>1, SeqLen DEF Shape
  <2> HIDE DEF r, node
  <2> QED BY <1>1, <1>2, <1>3, <2>2, MergeMakes
<1>4. CASE heap' = Append(heap, Y) /\ Persist(c, r, n, Len(heap'))
  <2>1. Made(Y)
    BY <1>2 DEF Made
  <2> HIDE DEF Y, r
  <2>2. \A o \in DOMAIN heap : Made(heap[o])
    BY HeapObjects DEF Made
  <2>3. Len(heap') \in DOMAIN heap' /\ \A o \in DOMAIN heap' : Made(heap'[o])
    <3>1. DOMAIN heap' = (DOMAIN heap) \cup {Len(heap')} /\ heap'[Len(heap')] = Y
          /\ \A o \in DOMAIN heap : heap'[o] = heap[o]
      BY <1>4, AppendSeq DEF Shape
    <3> QED BY <2>1, <2>2, <3>1
  <2> QED BY <1>4, <2>3, WrittenObjects
<1> QED BY <1>3, <1>4 DEF Registers

LEMMA StoreMakes ==
    ASSUME Shape, NEW w \in pending, Late(w) \/ WriteLands(w) \/ WriteFails(w), NEW X \in Objects'
    PROVE  Made(X)
<1>0. WriteShape(w, DOMAIN heap)
  BY DEF Shape
<1>1. CASE Late(w)
  <2> DEFINE new == [w EXCEPT !.value = heap[w.object]]
  <2>1. pending' = (pending \ {w}) \cup {new} /\ UNCHANGED <<rows, heap>>
    BY <1>1 DEF Late, memory
  <2>2. new.value = heap[w.object] /\ w.object \in DOMAIN heap
    BY <1>0 DEF WriteShape
  <2> HIDE DEF new
  <2>3. X \in Objects
    BY <2>1, <2>2 DEF Objects, ToSet
  <2> QED BY <2>3 DEF Made
<1>2. CASE WriteLands(w)
  <2>1. /\ pending' = pending \ {w} /\ rows' = [rows EXCEPT ![w.row] = w.value] /\ heap' = heap
    BY <1>2 DEF WriteLands, Lands, memory
  <2>2. \A id \in Nodes : rows'[id] \in {rows[id], w.value}
    BY <2>1 DEF Shape
  <2>3. X \in Objects
    BY <2>1, <2>2 DEF Objects, ToSet
  <2> QED BY <2>3 DEF Made
<1>3. CASE WriteFails(w)
  BY <1>3, SameObjects DEF WriteFails, Fails, memory
<1> QED BY <1>1, <1>2, <1>3

LEMMA RestartMakes == ASSUME Shape, Restart, NEW X \in Objects' PROVE Made(X)
<1>1. heap' = LoadedHeap(rows) /\ pending' = {} /\ rows' = rows
  BY DEF Restart
<1>2. ToSet(heap') \subseteq {rows[id] : id \in Nodes}
  BY <1>1, LoadedRows DEF Shape
<1>3. X \in Objects
  BY <1>1, <1>2 DEF Objects
<1> QED BY <1>3 DEF Made

LEMMA ObjectsStep == ASSUME Shape, [Next]_vars, NEW X \in Objects' PROVE Made(X)
<1>1. CASE UNCHANGED <<storeVars, heap>>
  BY <1>1, SameObjects DEF storeVars
<1>2. CASE UNCHANGED vars
  BY <1>2, SameObjects DEF vars
<1>3. ASSUME NEW c \in Clients,
             \/ \E kind \in {"preview", "merge"}, id, n \in Nodes : RequestStarts(c, kind, id, n)
             \/ NodeRead(c) \/ ReadFails(c) \/ Previews(c)
      PROVE  Made(X)
  <2>1. UNCHANGED <<storeVars, heap>>
    BY <1>3 DEF RequestStarts, NodeRead, ReadFails, Previews, memory
  <2> QED BY <1>1, <2>1
<1>4. ASSUME NEW c \in Clients, Answers(c) \/ AnswersError(c) PROVE Made(X)
  BY <1>4, SameObjects DEF Answers, AnswersError, memory
<1>5. ASSUME NEW n \in Nodes, GraphChanges(n) PROVE Made(X)
  BY <1>1, <1>5 DEF GraphChanges
<1> QED BY <1>2, <1>3, <1>4, <1>5, MergesMakes, RegistersMakes, StoreMakes, RestartMakes DEF Next

LEMMA SourceMade ==
    ASSUME NEW n \in Nodes, NEW node \in Versions[n], NEW confidence
    PROVE  /\ Source(SourceOf(n, node, confidence)) /\ SourceOf(n, node, confidence).node = n
           /\ SourceOf(n, node, confidence).props = node.props
  BY ResolutionAssumption DEF Source, SourceOf

LEMMA NoConflicts == ASSUME NEW s, DOMAIN s \subseteq {1} PROVE Conflicts(s) = {}
<1>1. Pairs(s) = {}
  <2>1. \A p \in (DOMAIN s) \X (DOMAIN s) : ~(p[1] < p[2])
    OBVIOUS
  <2> QED BY <2>1 DEF Pairs
<1>2. \A f : Compared(s, f, Differs) = {}
  BY <1>1 DEF Compared
<1> QED BY <1>2 DEF Conflicts

LEMMA NoneFormed == Formed(NoIdentity)
<1>1. NoIdentity.sources = <<>> /\ NoIdentity.conflicts = {} /\ DOMAIN NoIdentity.sources = {}
  BY DEF NoIdentity
<1>2. IsSeq(<<>>)
  BY DEF IsSeq
<1>3. IsIdentity(NoIdentity)
  BY DEF IsIdentity, NoIdentity
<1> QED BY <1>1, <1>2, <1>3, NoConflicts DEF Formed

LEMMA NewFormed ==
    ASSUME NEW n \in Nodes, NEW node \in Versions[n] PROVE Formed(NewIdentity(n, node))
<1> DEFINE X == NewIdentity(n, node)
<1>1. X.sources = <<SourceOf(n, node, 70)>> /\ X.conflicts = {} /\ IsIdentity(X)
  BY DEF NewIdentity, IsIdentity
<1>2. DOMAIN X.sources = {1} /\ X.sources[1] = SourceOf(n, node, 70)
  BY <1>1
<1>3. IsSeq(X.sources)
  BY NewSources
<1>4. Source(SourceOf(n, node, 70))
  BY SourceMade
<1> HIDE DEF X
<1>5. Conflicts(X.sources) = {}
  BY <1>2, NoConflicts
<1>6. \A i \in DOMAIN X.sources : Source(X.sources[i])
  BY <1>1, <1>2, <1>4
<1>7. Formed(X)
  BY <1>1, <1>2, <1>3, <1>5, <1>6 DEF Formed
<1> QED BY <1>7 DEF X

LEMMA AddedSource ==
    ASSUME NEW X, Formed(X), NEW n \in Nodes, NEW node \in Versions[n]
    PROVE  LET s == Added(X, n, node)
           IN  /\ IsSeq(s) /\ Len(s) = Len(X.sources) + 1
               /\ DOMAIN X.sources \subseteq DOMAIN s /\ Len(s) \in DOMAIN s
               /\ \A i \in DOMAIN s : i \in DOMAIN X.sources \/ i = Len(s)
               /\ \A i \in DOMAIN X.sources : s[i] = X.sources[i]
               /\ Source(s[Len(s)]) /\ s[Len(s)].node = n /\ s[Len(s)].props = node.props
<1> DEFINE e == SourceOf(n, node, SourceConfidence(node.props, X.fields))
           a == X.sources
           t == Append(a, e)
<1>1. Source(e) /\ e.node = n /\ e.props = node.props
  BY SourceMade
<1>2. IsSeq(a) /\ Added(X, n, node) = t
  BY DEF Formed, Added
<1> HIDE DEF e, a
<1>3. /\ IsSeq(t) /\ DOMAIN t = (DOMAIN a) \cup {Len(a) + 1} /\ Len(t) = Len(a) + 1
      /\ \A i \in DOMAIN a : t[i] = a[i]
      /\ t[Len(a) + 1] = e
  BY <1>2, AppendSeq
<1> HIDE DEF t
<1> QED BY <1>1, <1>2, <1>3 DEF a

LEMMA WithFormed ==
    ASSUME NEW X, Formed(X), NEW n \in Nodes, NEW node \in Versions[n]
    PROVE  /\ IsSeq(WithSource(X, n, node))
           /\ \A i \in DOMAIN WithSource(X, n, node) : Source(WithSource(X, n, node)[i])
<1>1. CASE n \in NodesOf(X)
  BY <1>1 DEF Formed, WithSource
<1>2. CASE n \notin NodesOf(X)
  <2> DEFINE s == Added(X, n, node)
  <2>1. /\ IsSeq(s)
        /\ \A i \in DOMAIN s : i \in DOMAIN X.sources \/ i = Len(s)
        /\ \A i \in DOMAIN X.sources : s[i] = X.sources[i]
        /\ Source(s[Len(s)])
    BY AddedSource
  <2>2. WithSource(X, n, node) = s
    BY <1>2 DEF WithSource
  <2> HIDE DEF s
  <2> QED BY <2>1, <2>2 DEF Formed
<1> QED BY <1>1, <1>2

LEMMA MergedFormed ==
    ASSUME NEW X, Formed(X), NEW n \in Nodes, NEW node \in Versions[n]
    PROVE  Formed(Merged(X, n, node))
<1> DEFINE Y == Merged(X, n, node)
<1>1. Y.sources = WithSource(X, n, node) /\ Y.conflicts = Conflicts(Y.sources) /\ IsIdentity(Y)
  BY DEF Merged, IsIdentity
<1> HIDE DEF Y
<1>2. IsSeq(Y.sources) /\ \A i \in DOMAIN Y.sources : Source(Y.sources[i])
  BY <1>1, WithFormed
<1>3. Formed(Y)
  BY <1>1, <1>2 DEF Formed
<1> QED BY <1>3 DEF Y

LEMMA FormedAtFirst == ASSUME Init PROVE AllFormed
<1>1. rows \in Starts /\ pending = {} /\ heap = LoadedHeap(rows)
  BY DEF Init
<1>2. DOMAIN rows = Nodes /\ \A id \in Nodes : Formed(rows[id])
  BY <1>1, NoneFormed, NewFormed, ResolutionAssumption
<1>3. ToSet(heap) \subseteq {rows[id] : id \in Nodes}
  BY <1>1, <1>2, LoadedRows
<1> QED BY <1>1, <1>2, <1>3 DEF AllFormed, Objects

LEMMA FormedStep == ASSUME Shape, AllFormed, [Next]_vars PROVE AllFormed'
<1>1. ASSUME NEW X \in Objects' PROVE Formed(X)
  BY ObjectsStep, NewFormed, MergedFormed DEF Made, IsMerged, AllFormed
<1> QED BY <1>1 DEF AllFormed

\* Two sources that differ are a conflict of the identity: what is derived from the sources
\* is derived again by every merge, and no step changes the sources otherwise.
THEOREM ConflictsListed == Spec => []ConflictsAreShown
<1> DEFINE Inv == KeptInv /\ AllFormed
<1>1. Init => Inv
  BY KeptAtFirst, FormedAtFirst
<1>2. Inv /\ [Next]_vars => Inv'
  BY KeptStep, FormedStep DEF KeptInv
<1>3. Inv => ConflictsAreShown
  <2> SUFFICES ASSUME Inv, NEW X \in Objects, NEW i \in DOMAIN X.sources, NEW j \in DOMAIN X.sources,
                      NEW f \in 1..6, i < j,
                      Differs(Value(X.sources[i].props, f), Value(X.sources[j].props, f))
               PROVE  <<IdentityFields[f].name, i, j>> \in X.conflicts
    BY DEF ConflictsAreShown
  <2>1. X.conflicts = Conflicts(X.sources)
    BY DEF AllFormed, Formed
  <2>2. <<i, j>> \in Pairs(X.sources)
    BY DEF Pairs
  <2>3. <<IdentityFields[f].name, i, j>> \in Compared(X.sources, f, Differs)
    BY <2>2 DEF Compared
  <2> QED BY <2>1, <2>3 DEF Conflicts
<1> HIDE DEF Inv
<1> QED BY <1>1, <1>2, <1>3, PTL DEF Spec

\* An answered merge is kept by the memory and the row of its identity, whatever requests
\* overlap, and after every restart: from KeptInv, which says where else a source may be.
THEOREM MergesAreKept == Spec => []ConfirmedIsKept
<1> DEFINE Inv == KeptInv /\ AllFormed
<1>1. Init => Inv
  BY KeptAtFirst, FormedAtFirst
<1>2. Inv /\ [Next]_vars => Inv'
  BY KeptStep, FormedStep DEF KeptInv
<1>3. Inv => ConfirmedIsKept
  BY DEF KeptInv, Shape, Remembered, Written, Stored, ConfirmedIsKept
<1> HIDE DEF Inv
<1> QED BY <1>1, <1>2, <1>3, PTL DEF Spec

------------------------------------------------------------------------------
(* Previews                                                                *)

\* The preview differs from the merge in nothing but the timeline.
LEMMA PreviewMatches ==
    ASSUME NEW X, IsIdentity(X), NEW n, NEW node, n \notin NodesOf(X), Accepted(node, X)
    PROVE  Merged(X, n, node) = [Proposed(X, n, node) EXCEPT !.timeline = Merged(X, n, node).timeline]
<1> DEFINE s == Added(X, n, node)
           k == Max({X.confidence, Score(node.props, X.fields)})
           m == MatchedFields(s)
           q == Conflicts(s)
           t == Append(X.timeline, node.system)
           d == MergeFields(s)
           a == X.accounts \cup Account(node)
           g == Grouped(X.groups, node)
           Y == Merged(X, n, node)
           P == Proposed(X, n, node)
<1>1. Y = [sources |-> s, confidence |-> k, matched |-> m, conflicts |-> q, timeline |-> t,
           fields |-> d, accounts |-> a, groups |-> g]
  BY DEF Merged, WithSource
<1>2. P = [X EXCEPT !.sources = s, !.confidence = k, !.matched = m, !.conflicts = q,
                    !.fields = d, !.accounts = a, !.groups = g]
  BY DEF Proposed
<1> HIDE DEF s, k, m, q, t, d, a, g, P, Y
<1>3. P = [sources |-> s, confidence |-> k, matched |-> m, conflicts |-> q, timeline |-> X.timeline,
           fields |-> d, accounts |-> a, groups |-> g]
  BY <1>2 DEF IsIdentity
<1>4. Y.timeline = t
  BY <1>1
<1>5. Y = [P EXCEPT !.timeline = t]
  BY <1>1, <1>3
<1> QED BY <1>4, <1>5 DEF Y, P

LEMMA ShownStep == ASSUME Shown, [Next]_vars PROVE Shown'
<1>1. CASE shown' \subseteq shown
  BY <1>1 DEF Shown
<1>2. ASSUME NEW c \in Clients, Previews(c) PROVE Shown'
  <2>1. PICK node : shown' = shown \cup {[object |-> req[c].object, n |-> req[c].node, node |-> node,
                                          current  |-> heap[req[c].object],
                                          proposed |-> Proposed(heap[req[c].object], req[c].node, node)]}
    BY <1>2 DEF Previews
  <2> QED BY <2>1 DEF Shown
<1>3. ASSUME NEW c \in Clients,
             \/ \E kind \in {"preview", "merge"}, id, n \in Nodes : RequestStarts(c, kind, id, n)
             \/ \E n \in Nodes : Registers(c, n)
             \/ NodeRead(c) \/ ReadFails(c) \/ Merges(c) \/ Answers(c) \/ AnswersError(c)
      PROVE  shown' \subseteq shown
  BY <1>3 DEF RequestStarts, Registers, NodeRead, ReadFails, Merges, Answers, AnswersError, history
<1>4. ASSUME NEW n \in Nodes, GraphChanges(n) PROVE shown' \subseteq shown
  BY <1>4 DEF GraphChanges, history
<1>5. ASSUME NEW w \in pending, Late(w) \/ WriteLands(w) \/ WriteFails(w) PROVE shown' \subseteq shown
  BY <1>5 DEF Late, WriteLands, WriteFails, history
<1>6. CASE Restart
  BY <1>6 DEF Restart, Shown
<1>7. CASE UNCHANGED vars
  BY <1>1, <1>7 DEF vars
<1> QED BY <1>1, <1>2, <1>3, <1>4, <1>5, <1>6, <1>7 DEF Next

\* A merge of what was previewed does what the preview showed.
LEMMA MergeAsShown ==
    ASSUME Shape, AllFormed, Shown, NEW c \in Clients, NEW p \in shown, Merges(c),
           req[c].object = p.object, req[c].node = p.n, req[c].read = {p.node},
           heap[p.object] = p.current, p.n \notin NodesOf(p.current)
    PROVE  heap'[p.object] = [p.proposed EXCEPT !.timeline = heap'[p.object].timeline]
<1> DEFINE X == p.current
           Y == Merged(X, p.n, p.node)
<1>1. MergeInto(c, req[c], req[c].id, p.object, p.node) /\ req[c].pc = "merge"
  BY DEF Merges
<1>2. p.object \in DOMAIN heap
  BY <1>1, RequestTyped DEF ActiveStates
<1>3. IsIdentity(X)
  BY <1>2, HeapObjects DEF AllFormed, Formed
<1>4. p.proposed = Proposed(X, p.n, p.node)
  BY DEF Shown
<1>5. CASE Accepted(p.node, X)
  <2>1. heap' = [heap EXCEPT ![p.object] = Y]
    BY <1>1, <1>5 DEF MergeInto
  <2>2. Y = [Proposed(X, p.n, p.node) EXCEPT !.timeline = Y.timeline]
    BY <1>3, <1>5, PreviewMatches
  <2> HIDE DEF Y
  <2>3. heap'[p.object] = Y
    BY <1>2, <2>1
  <2> QED BY <1>4, <2>2, <2>3
<1>6. CASE ~Accepted(p.node, X)
  <2>1. heap' = heap
    BY <1>1, <1>6 DEF MergeInto
  <2>2. p.proposed = X
    BY <1>4, <1>6 DEF Proposed
  <2>3. X = [X EXCEPT !.timeline = X.timeline]
    BY <1>3 DEF IsIdentity
  <2> QED BY <2>1, <2>2, <2>3
<1> QED BY <1>5, <1>6

\* Every merge that finds the identity and the node as a preview did does what was shown.
THEOREM PreviewsAreKept == Spec => PreviewIsKept
<1> DEFINE Inv == KeptInv /\ AllFormed /\ Shown
           A == \A c \in Clients, p \in shown :
                  /\ Merges(c)
                  /\ req[c].object = p.object /\ req[c].node = p.n /\ req[c].read = {p.node}
                  /\ heap[p.object] = p.current /\ p.n \notin NodesOf(p.current)
                  => heap'[p.object] = [p.proposed EXCEPT !.timeline = heap'[p.object].timeline]
<1>1. Init => Inv
  <2>1. Init => Shown
    BY DEF Init, Shown
  <2> QED BY <2>1, KeptAtFirst, FormedAtFirst
<1>2. Inv /\ [Next]_vars => Inv'
  BY KeptStep, FormedStep, ShownStep DEF KeptInv
<1>3. Inv => A
  BY MergeAsShown DEF KeptInv
<1>4. PreviewIsKept <=> [][A]_vars
  BY DEF PreviewIsKept
<1> HIDE DEF Inv, A
<1> QED BY <1>1, <1>2, <1>3, <1>4, PTL DEF Spec

------------------------------------------------------------------------------
(* How the sources are linked                                              *)

Keys(f) == ToSet(IdentityFields[f].keys)

LEMMA FieldTable ==
    /\ FieldIndices = 1..11
    /\ IdentityFields[1].name = "employeeId" /\ Keys(1) = {"employeeId", "employeeNumber"}
    /\ IdentityFields[2].name = "employeeNumber" /\ Keys(2) = {"employeeNumber"}
    /\ \A f \in 2..11 : \A g \in 1..11 : IdentityFields[g].name \in Keys(f) => f = g
    /\ \A g \in 1..11 : IdentityFields[g].name \in {"employeeId", "employeeNumber"} => g \in {1, 2}
<1>1. /\ FieldIndices = 1..11
      /\ IdentityFields[1] = Field("employeeId", 100, <<"employeeId", "employeeNumber">>)
      /\ IdentityFields[2] = Field("employeeNumber", 100, <<"employeeNumber">>)
      /\ IdentityFields[3] = Field("objectGUID", 95, <<"objectGUID", "guid">>)
      /\ IdentityFields[4] = Field("objectSid", 90, <<"objectSid", "sid">>)
      /\ IdentityFields[5] = Field("email", 85, <<"email", "mail", "emailAddress">>)
      /\ IdentityFields[6] = Field("userPrincipalName", 80, <<"userPrincipalName", "upn">>)
      /\ IdentityFields[7] = Field("krbPrincipalName", 70, <<"krbPrincipalName", "principal">>)
      /\ IdentityFields[8] = Field("uid", 70, <<"uid", "userid">>)
      /\ IdentityFields[9] = Field("samAccountName", 70, <<"samAccountName">>)
      /\ IdentityFields[10] = Field("username", 70, <<"username", "login", "loginName">>)
      /\ IdentityFields[11] = Field("displayName", 60, <<"displayName", "fullName", "cn">>)
  BY DEF FieldIndices, IdentityFields
<1>2. \A name, score, keys : Field(name, score, keys).name = name /\ Field(name, score, keys).keys = keys
  BY DEF Field
<1>3. /\ \A k : ToSet(<<k>>) = {k}
      /\ \A k, l : ToSet(<<k, l>>) = {k, l}
      /\ \A k, l, m : ToSet(<<k, l, m>>) = {k, l, m}
  BY DEF ToSet
<1>4. /\ IdentityFields[1].name = "employeeId" /\ Keys(1) = {"employeeId", "employeeNumber"}
      /\ IdentityFields[2].name = "employeeNumber" /\ Keys(2) = {"employeeNumber"}
      /\ IdentityFields[3].name = "objectGUID" /\ Keys(3) = {"objectGUID", "guid"}
      /\ IdentityFields[4].name = "objectSid" /\ Keys(4) = {"objectSid", "sid"}
      /\ IdentityFields[5].name = "email" /\ Keys(5) = {"email", "mail", "emailAddress"}
      /\ IdentityFields[6].name = "userPrincipalName" /\ Keys(6) = {"userPrincipalName", "upn"}
      /\ IdentityFields[7].name = "krbPrincipalName" /\ Keys(7) = {"krbPrincipalName", "principal"}
      /\ IdentityFields[8].name = "uid" /\ Keys(8) = {"uid", "userid"}
      /\ IdentityFields[9].name = "samAccountName" /\ Keys(9) = {"samAccountName"}
      /\ IdentityFields[10].name = "username" /\ Keys(10) = {"username", "login", "loginName"}
      /\ IdentityFields[11].name = "displayName" /\ Keys(11) = {"displayName", "fullName", "cn"}
  BY <1>1, <1>2, <1>3 DEF Keys
<1>5. \A f \in 1..11 : f \in {1, 2, 3, 4, 5, 6, 7, 8, 9, 10, 11}
  OBVIOUS
<1>6. \A f \in 2..11 : f \in {2, 3, 4, 5, 6, 7, 8, 9, 10, 11}
  OBVIOUS
<1> QED BY <1>1, <1>4, <1>5, <1>6

\* The values of a field that is named among the names of another are values of that one.
LEMMA FieldNames ==
    ASSUME NEW f \in FieldIndices, NEW g \in FieldIndices, IdentityFields[g].name \in Keys(f)
    PROVE  Keys(g) \subseteq Keys(f)
<1>1. CASE f = 1
  BY <1>1, FieldTable
<1>2. CASE f # 1
  <2>1. f \in 2..11 /\ g \in 1..11
    BY <1>2, FieldTable
  <2>2. f = g
    BY <2>1, FieldTable
  <2> QED BY <2>2
<1> QED BY <1>1, <1>2

LEMMA ValueIsNamed ==
    ASSUME NEW props, NEW f, NEW v \in Value(props, f)
    PROVE  v \in Named(props, f) /\ \E key \in Keys(f) : key \in DOMAIN props /\ v = props[key]
  BY DEF Value, Get, Named, Keys, ToSet

LEMMA NamedIs ==
    ASSUME NEW props, NEW f, NEW key \in Keys(f), key \in DOMAIN props
    PROVE  props[key] \in Named(props, f)
  BY DEF Named, Keys

LEMMA RankIsNat == ASSUME NEW x \in ToSet(Sources) PROVE Rank(x) \in Nat
<1>1. DOMAIN Sources = 1..7
  BY DEF Sources
<1>2. \E r \in DOMAIN Sources : Sources[r] = x
  BY DEF ToSet
<1>3. Rank(x) \in DOMAIN Sources
  BY <1>2 DEF Rank
<1> QED BY <1>1, <1>3

\* The source that prevails for a key has the key.
LEMMA PrevailingHolds ==
    ASSUME NEW s, IsSeq(s), \A i \in DOMAIN s : Source(s[i]), NEW key,
           NEW k \in DOMAIN s, key \in DOMAIN s[k].props
    PROVE  Prevailing(s, key) \in DOMAIN s /\ key \in DOMAIN s[Prevailing(s, key)].props
<1> DEFINE holders == {i \in DOMAIN s : key \in DOMAIN s[i].props}
           Of(i) == Rank(s[i].system)
           ranks == {Of(i) : i \in holders}
<1>1. \A i \in holders : Of(i) \in Nat
  BY RankIsNat DEF Source
<1>2. holders \in SUBSET Nat /\ k \in holders
  BY SeqLen
<1>3. PICK m \in ranks : \A x \in ranks : m <= x
  <2>1. ranks \in SUBSET Nat /\ ranks # {}
    BY <1>1, <1>2
  <2> HIDE DEF ranks
  <2> QED BY <2>1, LeastExists
<1> DEFINE first == {i \in holders : Of(i) = m}
<1>4. PICK i \in first : \A j \in first : i <= j
  <2>1. first \in SUBSET Nat /\ first # {}
    BY <1>2, <1>3
  <2> HIDE DEF first
  <2> QED BY <2>1, LeastExists
<1> HIDE DEF Of
<1>5. ASSUME NEW j \in holders PROVE Of(i) < Of(j) \/ (Of(i) = Of(j) /\ i <= j)
  <2>1. Of(i) = m /\ m <= Of(j) /\ m \in Nat /\ Of(j) \in Nat
    BY <1>1, <1>3, <1>4
  <2> QED BY <1>4, <2>1
<1>6. \E x \in holders : \A j \in holders :
          \/ Rank(s[x].system) < Rank(s[j].system)
          \/ Rank(s[x].system) = Rank(s[j].system) /\ x <= j
  BY <1>4, <1>5 DEF Of
<1>7. Prevailing(s, key) \in holders
  BY <1>6 DEF Prevailing
<1> QED BY <1>7

\* What the fields of an identity say comes from one of its sources.
LEMMA MergedFields ==
    ASSUME NEW s, IsSeq(s), \A i \in DOMAIN s : Source(s[i]), NEW f \in FieldIndices,
           NEW v \in Value(MergeFields(s), f)
    PROVE  \E j \in DOMAIN s : v \in Named(s[j].props, f)
<1>1. PICK key \in Keys(f) : key \in DOMAIN MergeFields(s) /\ v = MergeFields(s)[key]
  BY ValueIsNamed
<1>2. PICK k \in DOMAIN s : key \in DOMAIN s[k].props
  BY <1>1 DEF MergeFields
<1>3. v = s[Prevailing(s, key)].props[key]
  BY <1>1 DEF MergeFields
<1>4. Prevailing(s, key) \in DOMAIN s /\ key \in DOMAIN s[Prevailing(s, key)].props
  BY <1>2, PrevailingHolds
<1> QED BY <1>3, <1>4, NamedIs

LEMMA ExtractedFields ==
    ASSUME NEW props, \A key \in DOMAIN props : props[key] \in Values, NEW f \in FieldIndices,
           NEW v \in Value(ExtractIdentityFields(props), f)
    PROVE  v \in Named(props, f)
<1> DEFINE has == {g \in FieldIndices : Value(props, g) # {}}
           d == ExtractIdentityFields(props)
<1>1. PICK key \in Keys(f) : key \in DOMAIN d /\ v = d[key]
  BY ValueIsNamed
<1>2. PICK g \in has : IdentityFields[g].name = key
  BY <1>1 DEF ExtractIdentityFields
<1>3. v = CHOOSE x \in Values : \E h \in has : IdentityFields[h].name = key /\ x \in Value(props, h)
  BY <1>1 DEF ExtractIdentityFields
<1>4. \E x \in Values : \E h \in has : IdentityFields[h].name = key /\ x \in Value(props, h)
  BY <1>2, ValueIsNamed
<1>5. PICK h \in has : IdentityFields[h].name = key /\ v \in Value(props, h)
  BY <1>3, <1>4
<1>6. PICK other \in Keys(h) : other \in DOMAIN props /\ v = props[other]
  BY <1>5, ValueIsNamed
<1>7. other \in Keys(f)
  BY <1>1, <1>5, <1>6, FieldNames
<1> QED BY <1>6, <1>7, NamedIs

\* A node that is accepted has a value of a strong field in common with the identity.
LEMMA AcceptedMatches ==
    ASSUME NEW node, NEW X, Accepted(node, X)
    PROVE  \E f \in FieldIndices : /\ IdentityFields[f].score >= CONFIDENCE_THRESHOLD
                                   /\ Matches(Value(node.props, f), Value(X.fields, f))
<1> DEFINE hits == {f \in FieldIndices : Matches(Value(node.props, f), Value(X.fields, f))}
           f == MatchedField(node.props, X.fields)
<1>1. Score(node.props, X.fields) >= CONFIDENCE_THRESHOLD
  BY DEF Accepted
<1>2. hits # {}
  <2>1. hits = {} => Score(node.props, X.fields) = 0
    BY DEF Score, MatchedField
  <2> QED BY <1>1, <2>1 DEF CONFIDENCE_THRESHOLD
<1>3. hits \in SUBSET Nat
  BY FieldTable
<1>4. f = Min(hits)
  BY <1>2 DEF MatchedField
<1> HIDE DEF f
<1>5. f \in hits
  <2> HIDE DEF hits
  <2> QED BY <1>2, <1>3, <1>4, LeastIsMember
<1>6. Score(node.props, X.fields) = IdentityFields[f].score
  <2>1. f # 0
    BY <1>5, FieldTable
  <2> QED BY <2>1 DEF Score, f
<1> QED BY <1>1, <1>5, <1>6

LEMMA NoneJoined == Joined(NoIdentity)
<1>1. NoIdentity.sources = <<>> /\ NoIdentity.fields = <<>> /\ DOMAIN <<>> = {}
  BY DEF NoIdentity
<1>2. Linked(<<>>)
  BY DEF Linked
<1>3. FieldsHeld(NoIdentity)
  BY <1>1, ValueIsNamed DEF FieldsHeld
<1> QED BY <1>1, <1>2, <1>3 DEF Joined

LEMMA NewJoined ==
    ASSUME NEW n \in Nodes, NEW node \in Versions[n] PROVE Joined(NewIdentity(n, node))
<1> DEFINE X == NewIdentity(n, node)
<1>1. X.sources = <<SourceOf(n, node, 70)>> /\ X.fields = ExtractIdentityFields(node.props)
  BY DEF NewIdentity
<1>2. DOMAIN X.sources = {1} /\ X.sources[1] = SourceOf(n, node, 70)
  BY <1>1
<1>3. X.sources[1].props = node.props
  BY <1>2, SourceMade
<1> HIDE DEF X
<1>4. Linked(X.sources)
  BY <1>2 DEF Linked
<1>5. \A key \in DOMAIN node.props : node.props[key] \in Values
  BY ResolutionAssumption
<1>6. FieldsHeld(X)
  BY <1>1, <1>2, <1>3, <1>5, ExtractedFields DEF FieldsHeld
<1>7. Joined(X)
  BY <1>4, <1>6 DEF Joined
<1> QED BY <1>7 DEF X

\* A source that is added shares a value with the source its field came from.
LEMMA AddedIsLinked ==
    ASSUME NEW X, Formed(X), Joined(X), NEW n \in Nodes, NEW node \in Versions[n],
           Accepted(node, X), n \notin NodesOf(X)
    PROVE  Linked(Added(X, n, node))
<1> DEFINE s == Added(X, n, node)
           a == X.sources
<1>1. /\ \A i \in DOMAIN s : i \in DOMAIN a \/ i = Len(s)
      /\ \A i \in DOMAIN a : s[i] = a[i]
      /\ Len(s) = Len(a) + 1 /\ s[Len(s)].node = n /\ s[Len(s)].props = node.props
  BY AddedSource
<1>2. DOMAIN a = 1..Len(a) /\ Len(a) \in Nat
  BY SeqLen DEF Formed
<1>3. Linked(a)
  BY DEF Joined
<1>4. PICK f \in FieldIndices : /\ IdentityFields[f].score >= CONFIDENCE_THRESHOLD
                                /\ Matches(Value(node.props, f), Value(X.fields, f))
  BY AcceptedMatches
<1>5. PICK j \in DOMAIN a : Matches(Value(node.props, f), Named(a[j].props, f))
  <2>1. PICK u \in Value(node.props, f), v \in Value(X.fields, f) : Same(u, v)
    BY <1>4 DEF Matches
  <2>2. PICK j \in DOMAIN a : v \in Named(a[j].props, f)
    BY DEF Joined, FieldsHeld
  <2> QED BY <2>1, <2>2 DEF Matches
<1>6. \A j1 \in DOMAIN a : a[j1].node # n
  BY DEF NodesOf
<1> HIDE DEF s, a
<1>7. ASSUME NEW i \in DOMAIN s, NEW j1 \in 1..(i - 1) PROVE s[j1].node # s[i].node
  <2>1. CASE i = Len(s)
    <3>1. j1 \in DOMAIN a
      BY <1>1, <1>2, <2>1
    <3> QED BY <1>1, <1>6, <2>1, <3>1
  <2>2. CASE i \in DOMAIN a
    <3>1. j1 \in DOMAIN a
      BY <1>2, <2>2
    <3> QED BY <1>1, <1>3, <2>2, <3>1 DEF Linked
  <2> QED BY <1>1, <2>1, <2>2
<1>8. ASSUME NEW i \in DOMAIN s, i > 1
      PROVE  \E j1 \in 1..(i - 1), g \in FieldIndices :
                 /\ IdentityFields[g].score >= CONFIDENCE_THRESHOLD
                 /\ Matches(Value(s[i].props, g), Named(s[j1].props, g))
  <2>1. CASE i = Len(s)
    <3>1. j \in 1..(i - 1)
      BY <1>1, <1>2, <2>1
    <3>2. Matches(Value(s[i].props, f), Named(s[j].props, f))
      BY <1>1, <1>5, <2>1
    <3> QED BY <1>4, <3>1, <3>2
  <2>2. CASE i \in DOMAIN a
    <3>1. PICK j1 \in 1..(i - 1), g \in FieldIndices :
              /\ IdentityFields[g].score >= CONFIDENCE_THRESHOLD
              /\ Matches(Value(a[i].props, g), Named(a[j1].props, g))
      BY <1>3, <1>8, <2>2 DEF Linked
    <3>2. j1 \in DOMAIN a
      BY <1>2, <2>2
    <3>3. s[i] = a[i] /\ s[j1] = a[j1]
      BY <1>1, <2>2, <3>2
    <3> QED BY <3>1, <3>3
  <2> QED BY <1>1, <2>1, <2>2
<1>9. Linked(s)
  BY <1>7, <1>8 DEF Linked
<1> QED BY <1>9 DEF s

LEMMA MergedJoined ==
    ASSUME NEW X, Formed(X), Joined(X), NEW n \in Nodes, NEW node \in Versions[n], Accepted(node, X)
    PROVE  Joined(Merged(X, n, node))
<1> DEFINE Y == Merged(X, n, node)
<1>1. Y.sources = WithSource(X, n, node) /\ Y.fields = MergeFields(Y.sources)
  BY DEF Merged
<1>2. IsSeq(Y.sources) /\ \A i \in DOMAIN Y.sources : Source(Y.sources[i])
  BY MergedFormed DEF Formed
<1> HIDE DEF Y
<1>3. FieldsHeld(Y)
  BY <1>1, <1>2, MergedFields DEF FieldsHeld
<1>4. Linked(Y.sources)
  <2>1. CASE n \in NodesOf(X)
    BY <1>1, <2>1 DEF WithSource, Joined
  <2>2. CASE n \notin NodesOf(X)
    BY <1>1, <2>2, AddedIsLinked DEF WithSource
  <2> QED BY <2>1, <2>2
<1>5. Joined(Y)
  BY <1>3, <1>4 DEF Joined
<1> QED BY <1>5 DEF Y

LEMMA JoinedAtFirst == ASSUME Init PROVE AllJoined
<1>1. rows \in Starts /\ pending = {} /\ heap = LoadedHeap(rows)
  BY DEF Init
<1>2. DOMAIN rows = Nodes /\ \A id \in Nodes : Joined(rows[id])
  BY <1>1, NoneJoined, NewJoined, ResolutionAssumption
<1>3. ToSet(heap) \subseteq {rows[id] : id \in Nodes}
  BY <1>1, <1>2, LoadedRows
<1> QED BY <1>1, <1>2, <1>3 DEF AllJoined, Objects

LEMMA JoinedStep == ASSUME Shape, AllFormed, AllJoined, [Next]_vars PROVE AllJoined'
<1>1. ASSUME NEW X \in Objects' PROVE Joined(X)
  <2>1. CASE X \in Objects
    BY <2>1 DEF AllJoined
  <2>2. ASSUME NEW n \in Nodes, NEW node \in Versions[n], IsMerged(X, n, node) PROVE Joined(X)
    BY <2>2, MergedJoined DEF IsMerged, AllFormed, AllJoined
  <2> QED BY <2>1, <2>2, ObjectsStep, NewJoined DEF Made
<1> QED BY <1>1 DEF AllJoined

\* Every source of an identity shares a value of a strong field with an earlier one, and no
\* node is a source twice: what is matched are the merged fields, and of each the invariant
\* says which source it came from.
THEOREM SourcesLinked == Spec => []SourcesAreLinked
<1> DEFINE Inv == KeptInv /\ AllFormed /\ AllJoined
<1>1. Init => Inv
  BY KeptAtFirst, FormedAtFirst, JoinedAtFirst
<1>2. Inv /\ [Next]_vars => Inv'
  BY KeptStep, FormedStep, JoinedStep DEF KeptInv
<1>3. Inv => SourcesAreLinked
  BY DEF AllJoined, Joined, Linked, SourcesAreLinked
<1> HIDE DEF Inv
<1> QED BY <1>1, <1>2, <1>3, PTL DEF Spec

------------------------------------------------------------------------------
(* Types                                                                   *)

Sized(X) ==
    /\ IsSeq(X.timeline) /\ Len(X.timeline) >= Len(X.sources)
    /\ X.confidence \in 0..100 /\ X.groups \subseteq Groups
    /\ X = NoIdentity \/ X.sources # <<>>

AllSized == \A X \in Objects : Sized(X)

\* What the memory has was made from a node.
Filled == errors \in Seq(Clients) /\ \A o \in DOMAIN heap : heap[o].sources # <<>>

LEMMA ScoreRange == ASSUME NEW props, NEW fields PROVE Score(props, fields) \in 0..100
<1> DEFINE hits == {f \in FieldIndices : Matches(Value(props, f), Value(fields, f))}
<1>1. \A f \in FieldIndices : IdentityFields[f].score \in 0..100
  <2>1. \A f \in 1..11 : IdentityFields[f].score \in 0..100
    BY DEF IdentityFields, Field
  <2> QED BY <2>1, FieldTable
<1>2. hits \in SUBSET Nat
  BY FieldTable
<1>3. CASE hits = {}
  BY <1>3 DEF Score, MatchedField
<1>4. CASE hits # {}
  <2>1. MatchedField(props, fields) = Min(hits)
    BY <1>4 DEF MatchedField
  <2>2. Min(hits) \in hits
    <3> HIDE DEF hits
    <3> QED BY <1>2, <1>4, LeastIsMember
  <2>3. MatchedField(props, fields) \in FieldIndices /\ MatchedField(props, fields) # 0
    BY <2>1, <2>2, FieldTable
  <2> QED BY <1>1, <2>3 DEF Score
<1> QED BY <1>3, <1>4

LEMMA HigherOfTwo ==
    ASSUME NEW m \in 0..100, NEW n \in 0..100 PROVE Max({m, n}) \in 0..100
<1>1. \E x \in {m, n} : \A y \in {m, n} : x >= y
  OBVIOUS
<1>2. Max({m, n}) \in {m, n}
  BY <1>1 DEF Max
<1> QED BY <1>2

LEMMA NoneSized == Sized(NoIdentity)
<1>1. /\ NoIdentity.timeline = <<>> /\ NoIdentity.sources = <<>> /\ NoIdentity.confidence = 0
      /\ NoIdentity.groups = {}
  BY DEF NoIdentity
<1>2. IsSeq(<<>>)
  BY DEF IsSeq
<1> QED BY <1>1, <1>2 DEF Sized

LEMMA NewSized ==
    ASSUME NEW n \in Nodes, NEW node \in Versions[n] PROVE Sized(NewIdentity(n, node))
<1> DEFINE X == NewIdentity(n, node)
<1>1. /\ X.sources = <<SourceOf(n, node, 70)>> /\ X.timeline = <<node.system>> /\ X.confidence = 70
      /\ X.groups = {} \cup node.groups
  BY DEF NewIdentity, Grouped
<1>2. node.groups \subseteq Groups
  BY ResolutionAssumption
<1>3. IsSeq(<<node.system>>)
  BY DEF IsSeq, ToSet
<1> HIDE DEF X
<1>4. Sized(X)
  BY <1>1, <1>2, <1>3 DEF Sized
<1> QED BY <1>4 DEF X

LEMMA MergedSized ==
    ASSUME NEW X, Formed(X), Sized(X), NEW n \in Nodes, NEW node \in Versions[n]
    PROVE  Sized(Merged(X, n, node)) /\ Merged(X, n, node).sources # <<>>
<1> DEFINE Y == Merged(X, n, node)
           t == X.timeline
           score == Score(node.props, X.fields)
<1>1. /\ Y.sources = WithSource(X, n, node) /\ Y.timeline = Append(t, node.system)
      /\ Y.confidence = IF n \in NodesOf(X) THEN X.confidence ELSE Max({X.confidence, score})
      /\ Y.groups = X.groups \cup node.groups
  BY DEF Merged, Grouped
<1> HIDE DEF Y, score
<1>2. IsSeq(Y.timeline) /\ Len(Y.timeline) = Len(t) + 1
  <2>1. IsSeq(t)
    BY DEF Sized
  <2> HIDE DEF t
  <2> QED BY <1>1, <2>1, AppendSeq
<1>3. Len(X.sources) \in Nat /\ Len(t) \in Nat /\ Len(t) >= Len(X.sources)
  BY SeqLen DEF Formed, Sized
<1>4. Len(Y.sources) <= Len(X.sources) + 1 /\ Y.sources # <<>>
  <2>1. CASE n \in NodesOf(X)
    <3>1. Y.sources = X.sources /\ X.sources # <<>>
      BY <1>1, <2>1 DEF WithSource, NodesOf
    <3> QED BY <1>3, <3>1
  <2>2. CASE n \notin NodesOf(X)
    <3> DEFINE s == Added(X, n, node)
    <3>1. Y.sources = s
      BY <1>1, <2>2 DEF WithSource
    <3>2. Len(s) = Len(X.sources) + 1
      BY AddedSource
    <3> HIDE DEF s
    <3>3. s # <<>>
      BY <1>3, <3>2
    <3> QED BY <1>3, <3>1, <3>2, <3>3
  <2> QED BY <2>1, <2>2
<1>5. Y.confidence \in 0..100
  BY <1>1, ScoreRange, HigherOfTwo DEF Sized, score
<1>6. Y.groups \subseteq Groups
  BY <1>1, ResolutionAssumption DEF Sized
<1>7. IsSeq(Y.sources)
  BY MergedFormed DEF Formed, Y
<1>8. Len(Y.timeline) >= Len(Y.sources)
  BY <1>2, <1>3, <1>4, <1>7, SeqLen
<1>9. Sized(Y) /\ Y.sources # <<>>
  BY <1>2, <1>4, <1>5, <1>6, <1>8 DEF Sized
<1> QED BY <1>9 DEF Y

LEMMA SizedAtFirst == ASSUME Init PROVE AllSized /\ Filled
<1>1. rows \in Starts /\ pending = {} /\ heap = LoadedHeap(rows) /\ errors = <<>>
  BY DEF Init
<1>2. DOMAIN rows = Nodes /\ \A id \in Nodes : Sized(rows[id])
  BY <1>1, NoneSized, NewSized, ResolutionAssumption
<1>3. ToSet(heap) \subseteq {rows[id] : id \in Nodes} /\ \A o \in DOMAIN heap : heap[o] # NoIdentity
  BY <1>1, <1>2, LoadedRows
<1>4. \A o \in DOMAIN heap : Sized(heap[o])
  BY <1>2, <1>3 DEF ToSet
<1>5. AllSized
  BY <1>1, <1>2, <1>3 DEF AllSized, Objects
<1>6. Filled
  BY <1>1, <1>3, <1>4 DEF Filled, Sized
<1> QED BY <1>5, <1>6

LEMMA SizedStep == ASSUME Shape, AllFormed, AllSized, [Next]_vars PROVE AllSized'
<1>1. ASSUME NEW X \in Objects' PROVE Sized(X)
  <2>1. CASE X \in Objects
    BY <2>1 DEF AllSized
  <2>2. ASSUME NEW n \in Nodes, NEW node \in Versions[n], IsMerged(X, n, node) PROVE Sized(X)
    BY <2>2, MergedSized DEF IsMerged, AllFormed, AllSized
  <2> QED BY <2>1, <2>2, ObjectsStep, NewSized DEF Made
<1> QED BY <1>1 DEF AllSized

LEMMA MergeFills ==
    ASSUME Shape, AllFormed, AllSized, Filled, NEW c, NEW r, NEW id, NEW object \in DOMAIN heap,
           r.node \in Nodes, NEW node \in Versions[r.node], MergeInto(c, r, id, object, node)
    PROVE  Filled'
<1> DEFINE Y == Merged(heap[object], r.node, node)
<1>1. CASE heap' = [heap EXCEPT ![object] = Y] /\ errors' = errors
  <2>1. Y.sources # <<>>
    BY HeapObjects, MergedSized DEF AllFormed, AllSized
  <2> HIDE DEF Y
  <2> QED BY <1>1, <2>1, ChangedSeq DEF Shape, Filled
<1>2. CASE heap' = heap /\ errors' = errors
  BY <1>2 DEF Filled
<1> QED BY <1>1, <1>2 DEF MergeInto, Persist, storeVars

LEMMA FilledStep == ASSUME Shape, AllFormed, AllSized, Filled, [Next]_vars PROVE Filled'
<1>1. CASE heap' = heap /\ errors' \in Seq(Clients)
  BY <1>1 DEF Filled
<1>2. ASSUME NEW c \in Clients, Merges(c) PROVE Filled'
  <2>1. PICK node \in req[c].read : MergeInto(c, req[c], req[c].id, req[c].object, node)
    BY <1>2 DEF Merges
  <2>2. req[c].pc = "merge"
    BY <1>2 DEF Merges
  <2>3. req[c].node \in Nodes /\ req[c].object \in DOMAIN heap
    BY <2>2, RequestTyped DEF ActiveStates
  <2>4. node \in Versions[req[c].node]
    BY <2>2 DEF Shape, RequestShape
  <2> QED BY <2>1, <2>3, <2>4, MergeFills
<1>3. ASSUME NEW c \in Clients, NEW n \in Nodes, Registers(c, n) PROVE Filled'
  <2> DEFINE node == graph[n]
             r == [Idle EXCEPT !.kind = "register", !.node = n]
             Y == NewIdentity(n, node)
  <2>1. r.node = n /\ node \in Versions[n]
    BY IdleShape DEF Shape
  <2>2. ASSUME NEW id \in Owners(node.props), MergeInto(c, r, id, known[id], node) PROVE Filled'
    <3>1. id \in Nodes /\ known[id] # 0
      BY DEF Owners
    <3>2. known[id] \in DOMAIN heap
      BY <3>1, SeqLen DEF Shape
    <3> HIDE DEF r, node
    <3> QED BY <2>1, <2>2, <3>2, MergeFills
  <2>3. CASE heap' = Append(heap, Y) /\ errors' = errors
    <3>1. Y.sources # <<>>
      BY DEF NewIdentity
    <3> HIDE DEF Y
    <3> QED BY <2>3, <3>1, AppendSeq DEF Shape, Filled
  <2> QED BY <1>3, <2>2, <2>3 DEF Registers, Persist
<1>4. CASE Restart
  <2>1. heap' = LoadedHeap(rows) /\ errors' = <<>>
    BY <1>4 DEF Restart
  <2>2. ToSet(heap') \subseteq {rows[id] : id \in Nodes} /\ \A o \in DOMAIN heap' : heap'[o] # NoIdentity
    BY <2>1, LoadedRows DEF Shape
  <2>3. \A o \in DOMAIN heap' : Sized(heap'[o])
    BY <2>2, HeapObjects DEF ToSet, AllSized
  <2> QED BY <2>1, <2>2, <2>3 DEF Filled, Sized
<1>5. ASSUME NEW c \in Clients,
             \/ \E kind \in {"preview", "merge"}, id, n \in Nodes : RequestStarts(c, kind, id, n)
             \/ NodeRead(c) \/ ReadFails(c) \/ Previews(c) \/ Answers(c)
      PROVE  heap' = heap /\ errors' = errors
  BY <1>5 DEF RequestStarts, NodeRead, ReadFails, Previews, Answers, FlushReturns, memory, storeVars
<1>6. ASSUME NEW c \in Clients, AnswersError(c) PROVE Filled'
  <2>1. heap' = heap /\ errors # <<>> /\ errors' = Tail(errors)
    BY <1>6 DEF AnswersError, FlushThrows, memory
  <2> QED BY <2>1 DEF Filled
<1>7. ASSUME NEW n \in Nodes, GraphChanges(n) PROVE heap' = heap /\ errors' = errors
  BY <1>7 DEF GraphChanges, storeVars
<1>8. ASSUME NEW w \in pending, Late(w) \/ WriteLands(w) PROVE heap' = heap /\ errors' = errors
  BY <1>8 DEF Late, WriteLands, Lands, memory
<1>9. ASSUME NEW w \in pending, WriteFails(w) PROVE Filled'
  <2>1. heap' = heap /\ errors' = Append(errors, w.owner) /\ w.owner \in Clients
    BY <1>9 DEF WriteFails, Fails, memory, Shape, WriteShape
  <2> QED BY <2>1 DEF Filled
<1>10. CASE UNCHANGED vars
  BY <1>1, <1>10 DEF vars, Filled
<1>11. errors \in Seq(Clients)
  BY DEF Filled
<1> QED BY <1>1, <1>2, <1>3, <1>4, <1>5, <1>6, <1>7, <1>8, <1>9, <1>10, <1>11 DEF Next

\* The tables refer to objects there are, every object of the memory has a source, and what
\* an identity counts stays in range.
THEOREM TypeCorrect == Spec => []TypeOK
<1> DEFINE Inv == KeptInv /\ AllFormed /\ AllSized /\ Filled
<1>1. Init => Inv
  BY KeptAtFirst, FormedAtFirst, SizedAtFirst
<1>2. Inv /\ [Next]_vars => Inv'
  BY KeptStep, FormedStep, SizedStep, FilledStep DEF KeptInv
<1>3. Inv => TypeOK
  <2> SUFFICES ASSUME Inv PROVE TypeOK
    OBVIOUS
  <2>1. \A c \in Clients : req[c].pc \in {"idle", "reading", "merge", "preview", "persisting", "answered", "failed"}
    BY DEF KeptInv, Shape, RequestShape, ActiveStates
  <2>2. ASSUME NEW id \in Nodes, known[id] # 0 PROVE heap[known[id]].sources # <<>>
    <3>1. known[id] \in DOMAIN heap
      BY <2>2, SeqLen DEF KeptInv, Shape
    <3> QED BY <3>1 DEF Filled
  <2>3. \A c \in Clients : req[c].object \in 0..Len(heap)
    <3>1. \A c \in Clients : req[c].object \in (DOMAIN heap) \cup {0}
      BY DEF KeptInv, Shape, RequestShape
    <3> QED BY <3>1, SeqLen DEF KeptInv, Shape
  <2>4. \A w \in pending : w.owner \in Clients /\ w.row \in Nodes /\ w.object \in DOMAIN heap
    BY DEF KeptInv, Shape, WriteShape
  <2>5. \A X \in Objects : /\ Len(X.timeline) >= Len(X.sources)
                           /\ X.confidence \in 0..100 /\ X.groups \subseteq Groups
    BY DEF AllSized, Sized
  <2> QED BY <2>1, <2>2, <2>3, <2>4, <2>5 DEF KeptInv, Shape, Filled, TypeOK
<1> HIDE DEF Inv
<1> QED BY <1>1, <1>2, <1>3, PTL DEF Spec

===============================================================================

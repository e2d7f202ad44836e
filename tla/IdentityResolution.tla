--------------------------- MODULE IdentityResolution ---------------------------
(***************************************************************************)
(* IdentityResolutionService and IdentityController: enterprise identities *)
(* in memory, loaded from their rows at the start; graph nodes are merged  *)
(* into them, after a preview or not, and every merge writes the row of    *)
(* its identity through the OperationalStore.                              *)
(*                                                                         *)
(* The identities are objects: a request holds the one it found while it   *)
(* reads the graph, a write carries the object itself, and a preview is    *)
(* made of the object as it is when the node has been read.                *)
(***************************************************************************)
EXTENDS OperationalStore, IdentityRecords

CONSTANTS Clients,    \* requests that may be in flight at the same time
          Versions,   \* node -> what the graph may say of it
          Starts,     \* the rows the backend may be started with
          Budgets     \* bounds: requests by kind, changes of the graph, faults, restarts

\* Every node comes from a source there is, and a row holds nothing, or what merge creates
\* from a node: what merges make of it later is left to the steps.
ASSUME ResolutionAssumption ==
    /\ IsFiniteSet(Nodes)
    /\ \A n \in Nodes : \A node \in Versions[n] :
          /\ node.system \in ToSet(Sources) /\ node.groups \subseteq Groups
          /\ \A key \in DOMAIN node.props : node.props[key] \in Values
    /\ \A start \in Starts :
          /\ DOMAIN start = Nodes
          /\ \A id \in Nodes : \/ start[id] = NoIdentity
                              \/ \E n \in Nodes : \E node \in Versions[n] :
                                    start[id] = NewIdentity(n, node)

VARIABLES
    graph,      \* node -> what the graph says of it
    heap,       \* the identity objects of this process
    known,      \* enterpriseIdentities: id -> its object, 0 for none
    req,        \* client -> its request
    shown,      \* the previews that were answered
    confirmed,  \* history: the merges that were answered, as <<id, node>>
    unsafe,     \* history: identities whose last writes overlapped or failed
    replaced,   \* history: identities that were created again
    budget

vars == <<pending, errors, rows, graph, heap, known, req, shown, confirmed, unsafe, replaced,
          budget>>
memory == <<graph, heap, known>>
history == <<shown, confirmed, unsafe, replaced>>

------------------------------------------------------------------------------
Idle == [pc |-> "idle", kind |-> "none", id |-> "none", object |-> 0, node |-> "none",
         read |-> {}, awaits |-> {}]
Free(c) == req[c].pc \in {"idle", "answered", "failed"}
Asked(c, kind) ==
    /\ Free(c) /\ budget[kind] > 0
    /\ budget' = [budget EXCEPT ![kind] = @ - 1]

\* onModuleInit: one object for each row.
Ids(found) == SetToSeq({id \in Nodes : found[id] # NoIdentity})
LoadedHeap(found) == [o \in DOMAIN Ids(found) |-> found[Ids(found)[o]]]
LoadedTable(found) ==
    [id \in Nodes |-> IF found[id] = NoIdentity THEN 0
                      ELSE CHOOSE o \in DOMAIN Ids(found) : Ids(found)[o] = id]

Init ==
    /\ budget \in Budgets
    /\ rows \in Starts
    /\ pending = {} /\ errors = <<>>
    /\ graph \in {g \in [Nodes -> UNION {Versions[n] : n \in Nodes}] :
                    \A n \in Nodes : g[n] \in Versions[n]}
    /\ heap = LoadedHeap(rows) /\ known = LoadedTable(rows)
    /\ req = [c \in Clients |-> Idle]
    /\ shown = {} /\ confirmed = {} /\ unsafe = {} /\ replaced = {}

------------------------------------------------------------------------------
(* Requests                                                                *)

\* merge and merge-preview: the identity is looked up, then the node is read.
RequestStarts(c, kind, id, n) ==
    /\ Asked(c, kind)
    /\ known[id] # 0
    /\ req' = [req EXCEPT ![c] = [Idle EXCEPT !.pc = "reading", !.kind = kind, !.id = id,
                                              !.object = known[id], !.node = n]]
    /\ UNCHANGED <<storeVars, memory, history>>

\* getNodeById: what the graph says when it is asked.
NodeRead(c) ==
    /\ req[c].pc = "reading"
    /\ req' = [req EXCEPT ![c].pc = req[c].kind, ![c].read = {graph[req[c].node]}]
    /\ UNCHANGED <<storeVars, memory, history, budget>>

\* The graph has no such node, or cannot be read.
ReadFails(c) ==
    /\ req[c].pc = "reading"
    /\ budget.faults > 0
    /\ budget' = [budget EXCEPT !.faults = @ - 1]
    /\ req' = [req EXCEPT ![c] = [Idle EXCEPT !.pc = "failed"]]
    /\ UNCHANGED <<storeVars, memory, history>>

\* previewMerge answers in the same turn.
Previews(c) ==
    LET r == req[c] IN
    /\ r.pc = "preview"
    /\ \E node \in r.read :
          shown' = shown \cup {[object |-> r.object, n |-> r.node, node |-> node,
                                current  |-> heap[r.object],
                                proposed |-> Proposed(heap[r.object], r.node, node)]}
    /\ req' = [req EXCEPT ![c] = [Idle EXCEPT !.pc = "answered"]]
    /\ UNCHANGED <<storeVars, memory, confirmed, unsafe, replaced, budget>>

Write(c, id, object) ==
    [owner |-> c, row |-> id, object |-> object, value |-> heap'[object]]

\* persist: the write is tracked, then all pending ones are awaited.
Persist(c, r, id, object) ==
    /\ pending' = pending \cup {Write(c, id, object)}
    /\ unsafe' = unsafe \cup (IF \E w \in pending : w.row = id THEN {id} ELSE {})
    /\ req' = [req EXCEPT ![c] = [r EXCEPT !.pc = "persisting", !.id = id, !.object = object,
                                           !.awaits = {Key(w) : w \in pending'}]]
    /\ UNCHANGED <<errors, rows>>

\* merge into object: a node that is refused is answered like one that was merged.
MergeInto(c, r, id, object, node) ==
    IF Accepted(node, heap[object])
    THEN /\ heap' = [heap EXCEPT ![object] = Merged(@, r.node, node)]
         /\ known' = [known EXCEPT ![id] = object]
         /\ Persist(c, r, id, object)
    ELSE /\ req' = [req EXCEPT ![c] = [Idle EXCEPT !.pc = "answered"]]
         /\ UNCHANGED <<storeVars, heap, known, unsafe>>

Merges(c) ==
    /\ req[c].pc = "merge"
    /\ \E node \in req[c].read : MergeInto(c, req[c], req[c].id, req[c].object, node)
    /\ UNCHANGED <<graph, shown, confirmed, replaced, budget>>

\* findEnterpriseIdByField, under the name of the field only; the order of the rows that
\* were loaded is open.
Owners(props) ==
    {id \in Nodes : /\ known[id] # 0
                    /\ \E f \in BestField(props) :
                          /\ IdentityFields[f].score >= CONFIDENCE_THRESHOLD
                          /\ Matches(Value(props, f),
                                     Get(heap[known[id]].fields, <<IdentityFields[f].name>>))}

\* merge without an identity, for a node the caller has: into the identity of its best
\* field, or as an identity of its own, which replaces the one it had.
Registers(c, n) ==
    /\ Asked(c, "register")
    /\ LET node == graph[n]
           r    == [Idle EXCEPT !.kind = "register", !.node = n]
       IN  \/ /\ \E id \in Owners(node.props) : MergeInto(c, r, id, known[id], node)
              /\ UNCHANGED replaced
           \/ /\ Owners(node.props) = {}
              /\ heap' = Append(heap, NewIdentity(n, node))
              /\ known' = [known EXCEPT ![n] = Len(heap')]
              /\ Persist(c, r, n, Len(heap'))
              /\ replaced' = replaced \cup (IF known[n] # 0 THEN {n} ELSE {})
    /\ UNCHANGED <<graph, shown, confirmed>>

Persisted(c) == req[c].pc = "persisting" /\ Flushed(req[c].awaits)

Answers(c) ==
    /\ Persisted(c) /\ FlushReturns
    /\ confirmed' = confirmed \cup {<<req[c].id, req[c].node>>}
    /\ req' = [req EXCEPT ![c] = [Idle EXCEPT !.pc = "answered"]]
    /\ UNCHANGED <<pending, rows, memory, shown, unsafe, replaced, budget>>

\* flush threw the error of this write or of another one.
AnswersError(c) ==
    /\ Persisted(c) /\ FlushThrows
    /\ req' = [req EXCEPT ![c] = [Idle EXCEPT !.pc = "failed"]]
    /\ UNCHANGED <<pending, rows, memory, history, budget>>

------------------------------------------------------------------------------
(* The graph, the store and the process                                    *)

GraphChanges(n) ==
    /\ budget.changes > 0
    /\ budget' = [budget EXCEPT !.changes = @ - 1]
    /\ \E node \in Versions[n] \ {graph[n]} : graph' = [graph EXCEPT ![n] = node]
    /\ UNCHANGED <<storeVars, heap, known, req, history>>

\* The statement is made from the object after the row was looked up: it may carry a
\* merge that came later.
Late(w) ==
    /\ heap[w.object] # w.value
    /\ pending' = (pending \ {w}) \cup {[w EXCEPT !.value = heap[w.object]]}
    /\ UNCHANGED <<errors, rows, memory, req, history, budget>>

\* Without another write of the row under way it is what the memory has.
WriteLands(w) ==
    /\ Lands(w)
    /\ unsafe' = IF \/ \E v \in pending' : v.row = w.row
                    \/ w.value # heap[w.object]
                 THEN unsafe ELSE unsafe \ {w.row}
    /\ UNCHANGED <<memory, req, shown, confirmed, replaced, budget>>

WriteFails(w) ==
    /\ budget.faults > 0
    /\ budget' = [budget EXCEPT !.faults = @ - 1]
    /\ Fails(w)
    /\ unsafe' = unsafe \cup {w.row}
    /\ UNCHANGED <<memory, req, shown, confirmed, replaced>>

\* The process starts: requests and pending writes are gone, the rows are loaded.
Restart ==
    /\ budget.starts > 0
    /\ budget' = [budget EXCEPT !.starts = @ - 1]
    /\ heap' = LoadedHeap(rows) /\ known' = LoadedTable(rows)
    /\ pending' = {} /\ errors' = <<>>
    /\ req' = [c \in Clients |-> Idle]
    /\ shown' = {}
    /\ confirmed' = {p \in confirmed : p[1] \notin unsafe}
    /\ unsafe' = {}
    /\ UNCHANGED <<rows, graph, replaced>>

Next ==
    \/ \E c \in Clients :
          \/ \E kind \in {"preview", "merge"}, id, n \in Nodes : RequestStarts(c, kind, id, n)
          \/ \E n \in Nodes : Registers(c, n)
          \/ NodeRead(c) \/ ReadFails(c) \/ Previews(c) \/ Merges(c) \/ Answers(c) \/ AnswersError(c)
    \/ \E n \in Nodes : GraphChanges(n)
    \/ \E w \in pending : Late(w) \/ WriteLands(w) \/ WriteFails(w)
    \/ Restart

Spec == Init /\ [][Next]_vars

------------------------------------------------------------------------------
(* Properties                                                              *)

Objects == ToSet(heap) \cup {rows[id] : id \in Nodes} \cup {w.value : w \in pending}

\* The tables refer to objects there are, and every identity has the shape of one.
TypeOK ==
    /\ known \in [Nodes -> 0..Len(heap)]
    /\ DOMAIN rows = Nodes /\ errors \in Seq(Clients)
    /\ \A w \in pending : w.owner \in Clients /\ w.row \in Nodes /\ w.object \in DOMAIN heap
    /\ \A c \in Clients : /\ req[c].pc \in {"idle", "reading", "merge", "preview", "persisting",
                                              "answered", "failed"}
                           /\ req[c].object \in 0..Len(heap)
    /\ \A id \in Nodes : known[id] # 0 => heap[known[id]].sources # <<>>
    /\ \A i \in Objects : /\ Len(i.timeline) >= Len(i.sources)
                          /\ i.confidence \in 0..100 /\ i.groups \subseteq Groups

\* A graph node is a source of an identity at most once, however many merges of it were
\* waiting for the graph, and every later source has a value of a field above the threshold
\* in common with an earlier one, which may have it under another name of the field: a
\* blank value of a source that prevails hides the first name, and then the next counts.
SourcesAreLinked ==
    \A identity \in Objects : \A i \in DOMAIN identity.sources :
        /\ \A j \in 1..(i - 1) : identity.sources[j].node # identity.sources[i].node
        /\ i > 1 => \E j \in 1..(i - 1), f \in FieldIndices :
                      /\ IdentityFields[f].score >= CONFIDENCE_THRESHOLD
                      /\ Matches(Value(identity.sources[i].props, f),
                                 Named(identity.sources[j].props, f))

\* Two sources that differ in one of the strong fields are listed as a conflict of their
\* identity, whatever merges, previews and restarts came in between.
ConflictsAreShown ==
    \A identity \in Objects : \A i, j \in DOMAIN identity.sources, f \in 1..6 :
        i < j /\ Differs(Value(identity.sources[i].props, f), Value(identity.sources[j].props, f))
            => <<IdentityFields[f].name, i, j>> \in identity.conflicts

\* What a preview shows is what the merge does, when neither the identity nor the node has
\* changed in between (but for a node that is a source already).
PreviewIsKept ==
    [][\A c \in Clients, p \in shown :
          /\ Merges(c)
          /\ req[c].object = p.object /\ req[c].node = p.n /\ req[c].read = {p.node}
          /\ heap[p.object] = p.current /\ p.n \notin NodesOf(p.current)
          => heap'[p.object] = [p.proposed EXCEPT !.timeline = heap'[p.object].timeline]]_vars

\* A source whose merge was answered is in the identity and in its row, also after a
\* restart, unless a write of the row failed, overlapped or the identity was created again;
\* the next merge that is written alone makes up for a write that failed.
ConfirmedIsKept ==
    \A p \in confirmed :
        p[1] \in unsafe \cup replaced \/
            /\ p[2] \in NodesOf(rows[p[1]])
            /\ known[p[1]] # 0 => p[2] \in NodesOf(heap[known[p[1]]])
===============================================================================

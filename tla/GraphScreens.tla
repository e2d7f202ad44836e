---------------------------- MODULE GraphScreens ----------------------------
(***************************************************************************)
(* The pages of the browser that show the graph: the business questions,   *)
(* the Linux hosts, the profile of a user and the graph workspace. One     *)
(* page is open at a time. It loads the graph of the chosen source, by     *)
(* requests whose answers come in any order or fail, while the backend's   *)
(* graph changes. The views compute from a graph of their own, which is    *)
(* kept in the module of the view together with a cache of results: it is  *)
(* shared by all visits of the page and outlives them.                     *)
(*                                                                         *)
(* What a view computes from a graph is Compute; the operations of the     *)
(* workspace are those of GraphInvestigation. The effects that React runs  *)
(* after a change are part of the step that makes the change.              *)
(***************************************************************************)
EXTENDS GraphInvestigation, GraphQueries

CONSTANTS
    Starts,           \* the graphs the backend may serve at first
    Graphs,           \* the graphs it may serve later
    Filters,          \* the node types a load may be restricted to
    NoFilter,         \* a load that is not restricted
    Compute(_, _, _), \* what a view computes: the page, the graph, what is asked
    Asks(_, _),       \* what a page offers to be asked of a graph
    Modes, Clusters,  \* the view modes and the clusterings the user chooses from
    Ends,             \* the nodes the user acts on in the workspace
    KeyLinks,         \* the links that are part of a traversal's cache key (20)
    NoGraph, NoView, NoAsk, Pending, Failed,
    MaxVisits,        \* bound: pages opened
    MaxRequests,      \* bound: requests of one visit
    MaxTrail,         \* bound: entries of the focus history
    MaxTraversals     \* bound: entries of the cache of traversals

Pages == {"questions", "linux", "profile", "graph"}
Engines == Pages \ {"graph"}
Cached == {"questions", "linux"}
Sources == {"neo4j", "imported"}

ASSUME ConstantsAssumption == NoGraph \notin Starts \cup Graphs /\ NoFilter \notin Filters

VARIABLES
    server,     \* the persisted graph
    session,    \* the graph of the import session the page was opened for, while it is active
    page,       \* the open page, or "none"
    source,     \* the source of the open page
    filter,     \* the remote filter of the workspace
    held,       \* of each source: the graph the page holds, the filter it was asked with, loading, failed
    requests,   \* the requests under way
    engine,     \* the graph and the cache of each view's module
    shown,      \* what a view shows: what was asked, the result, whether there was none
    workspace,  \* the workspace: settings, visible nodes, focus history, the path shown
    traversals, \* the cache of the workspace's traversals
    spent       \* bounds: the visits so far, and the requests of this visit

vars == <<server, session, page, source, filter, held, requests, engine, shown, workspace, traversals,
          spent>>

Nothing == [ask |-> NoAsk, view |-> NoView, missing |-> FALSE]

Unloaded == [graph |-> NoGraph, of |-> NoFilter, loading |-> FALSE, failed |-> FALSE]

NewWorkspace == [filters |-> NoFilters, mode |-> "overview", clusters |-> "none",
                 visible |-> {}, trail |-> <<>>, at |-> 0, path |-> NoView]

Fresh(g) == [graph |-> g, cache |-> <<>>]

Init ==
    /\ server \in Starts
    /\ session = NoGraph
    /\ page = "none"
    /\ source \in Sources
    /\ filter = NoFilter
    /\ held = [s \in Sources |-> Unloaded]
    /\ requests = {}
    /\ engine = [p \in Engines |-> Fresh(NoGraph)]
    /\ shown = Nothing
    /\ workspace = NewWorkspace
    /\ traversals = <<>>
    /\ spent = [visits |-> 0, requests |-> 0]

-----------------------------------------------------------------------------
(***************************************************************************)
(* The views. A result that is found is cached; a host or a user that is   *)
(* not found leaves the earlier result in the page's state.                *)
(***************************************************************************)
Result(e, p, ask) ==
    IF e.graph = NoGraph THEN NoView
    ELSE IF p \in Cached /\ ask \in DOMAIN e.cache THEN e.cache[ask]
    ELSE Compute(p, e.graph, ask)

Remember(e, p, ask) ==
    LET result == Result(e, p, ask)
    IN IF p \notin Cached \/ result = NoView THEN e
       ELSE [e EXCEPT !.cache = [a \in DOMAIN @ \cup {ask} |-> IF a = ask THEN result ELSE @[a]]]

Show(old, ask, result) ==
    IF result = NoView THEN [old EXCEPT !.ask = ask, !.missing = TRUE]
    ELSE [ask |-> ask, view |-> result, missing |-> FALSE]

\* A page asks its view's module, `old` being what it shows meanwhile.
LookUp(p, e, old, ask) ==
    /\ shown' = Show(old, ask, Result(e, p, ask))
    /\ engine' = [engine EXCEPT ![p] = Remember(e, p, ask)]

\* Slip: the cache is kept when the graph is set.
CacheKept(e, g) == [e EXCEPT !.graph = g]

\* setBusinessQuestionGraphData, setLinuxGraphData, setGraphData
SetGraph(e, g) == Fresh(g)

(***************************************************************************)
(* The effects of the open page, h being what it holds of its source after *)
(* the step, and `changed` whether the graph it holds is another object.   *)
(* The questions page drops its answer, the Linux page looks its host up   *)
(* again, the profile page waits for the load and then looks its user up.  *)
(***************************************************************************)
QuestionsEffect(h, changed) ==
    IF changed /\ h.graph # NoGraph
    THEN /\ engine' = [engine EXCEPT !["questions"] = SetGraph(@, h.graph)]
         /\ shown' = Nothing
    ELSE UNCHANGED <<engine, shown>>

LinuxEffect(h, changed) ==
    IF ~changed \/ h.graph = NoGraph THEN UNCHANGED <<engine, shown>>
    ELSE IF shown.ask = NoAsk
    THEN /\ engine' = [engine EXCEPT !["linux"] = SetGraph(@, h.graph)]
         /\ UNCHANGED shown
    ELSE LookUp("linux", SetGraph(engine["linux"], h.graph), shown, shown.ask)

ProfileEffect(h, ask) ==
    IF h.loading
    THEN /\ shown' = [shown EXCEPT !.ask = ask]
         /\ UNCHANGED engine
    ELSE IF h.failed \/ h.graph = NoGraph
    THEN /\ shown' = [ask |-> ask, view |-> NoView, missing |-> TRUE]
         /\ UNCHANGED engine
    ELSE LookUp("profile", SetGraph(engine["profile"], h.graph), shown, ask)

\* Whatever the workspace hid or collapsed is visible again.
Shows(w, g) == [w EXCEPT !.visible = IF g = NoGraph THEN {} ELSE Ids(Presented(g, w))]

Effects(h, changed) ==
    /\ CASE page = "questions" -> QuestionsEffect(h, changed)
         [] page = "linux" -> LinuxEffect(h, changed)
         [] page = "profile" -> ProfileEffect(h, shown.ask)
         [] OTHER -> UNCHANGED <<engine, shown>>
    /\ workspace' = IF page = "graph" /\ changed THEN Shows(workspace, h.graph) ELSE workspace

-----------------------------------------------------------------------------
(***************************************************************************)
(* Loading. A new load makes the loads before it obsolete: by a generation *)
(* counter (neo4j) or a flag of the effect (imported).                     *)
(***************************************************************************)
Load(s, f) == [kind |-> "load", source |-> s, filter |-> f, node |-> NoId, current |-> TRUE, reply |-> Pending]

Obsolete(r) == [r EXCEPT !.current = FALSE]

Request(s) ==
    /\ spent.requests < MaxRequests
    /\ spent' = [spent EXCEPT !.requests = @ + 1]
    /\ requests' = s

StartLoad(s, f) == Request({Obsolete(r) : r \in requests} \cup {Load(s, f)})

Loading(h) == [h EXCEPT !.loading = TRUE, !.failed = FALSE]

Open(p, s, f, ask, import) ==
    /\ page = "none"
    /\ spent.visits < MaxVisits
    /\ spent' = [visits |-> spent.visits + 1, requests |-> 1]
    /\ page' = p
    /\ source' = s
    /\ filter' = f
    /\ session' = import
    /\ requests' = {Load(s, f)}
    /\ held' = [x \in Sources |-> IF x = s THEN Loading(Unloaded) ELSE Unloaded]
    /\ IF p = "linux" /\ ask # NoAsk
       THEN LookUp(p, engine[p], Nothing, ask)
       ELSE /\ shown' = [Nothing EXCEPT !.ask = ask]
            /\ UNCHANGED engine
    /\ workspace' = [NewWorkspace EXCEPT !.filters.nodeTypes = {f} \ {NoFilter}]
    /\ UNCHANGED <<server, traversals>>

\* Only the workspace filters what it loads or is opened for an import, and only the
\* Linux and the profile page are opened for a host or a user. The Linux page looks its
\* host up at once, in the graph of an earlier visit, and again when its graph is there.
OpenPage ==
    \E p \in Pages, s \in Sources :
        \E f \in IF p = "graph" THEN Filters \cup {NoFilter} ELSE {NoFilter},
           ask \in CASE p = "profile" -> Asks(p, server)
                     [] p = "linux" -> Asks(p, server) \cup {NoAsk}
                     [] OTHER -> {NoAsk},
           import \in IF p = "graph" /\ s = "imported" THEN Graphs \cup {NoGraph} ELSE {NoGraph} :
              Open(p, s, f, ask, import)

\* Answers that are still under way find no page and change nothing.
ClosePage ==
    /\ page # "none"
    /\ page' = "none"
    /\ requests' = {}
    /\ held' = [s \in Sources |-> Unloaded]
    /\ filter' = NoFilter /\ session' = NoGraph
    /\ shown' = Nothing /\ workspace' = NewWorkspace
    /\ UNCHANGED <<server, source, engine, traversals, spent>>

\* By the user in the workspace, by the automatic fallback after a failure, or by the
\* workspace settings when they arrive. What the page held of the other source is shown
\* until the load ends.
SwitchSource(s) ==
    /\ page # "none" /\ s # source
    /\ source' = s
    /\ StartLoad(s, filter)
    /\ held' = [held EXCEPT ![s] = Loading(@)]
    /\ Effects(held'[s], held[s].graph # NoGraph \/ held[source].graph # NoGraph)
    /\ UNCHANGED <<server, session, page, filter, traversals>>

Retry ==
    /\ page # "none" /\ held[source].failed
    /\ StartLoad(source, filter)
    /\ held' = [held EXCEPT ![source] = Loading(@)]
    /\ Effects(held'[source], FALSE)
    /\ UNCHANGED <<server, session, page, source, filter, traversals>>

\* What the backend answers. An import that is no longer active is answered by the
\* persisted graph. The live source is asked for at most 300 nodes and 1200 links, the
\* imported one for 500 and 2000, the neighbours of a node for 500.
Answer(r) ==
    LET store == Store(server, {})
        passing == {n \in Ids(server) : r.filter \in {NoFilter, server.nodes[n].type}}
    IN IF r.kind = "expand" THEN NeighborsServed(store, r.node, "both", 500)
       ELSE IF r.source = "neo4j" THEN GraphServed(store, passing, 300, 1200).graph
       ELSE IF session # NoGraph THEN session
       ELSE GraphServed(store, passing, 500, 2000).graph

ServerReplies(r) ==
    /\ r.reply = Pending
    /\ \E reply \in {Answer(r), Failed} :
           requests' = (requests \ {r}) \cup {[r EXCEPT !.reply = reply]}
    /\ UNCHANGED <<server, session, page, source, filter, held, engine, shown, workspace, traversals, spent>>

\* Slip: the answer of a load that was superseded is taken.
AnyWanted(r) == TRUE

\* Whether the answer of a load is still wanted.
Wanted(r) == r.current

\* A failed load leaves the graph of the live source and drops the one of the imported.
LoadEnds(r) ==
    /\ r.kind = "load" /\ r.reply # Pending
    /\ requests' = requests \ {r}
    /\ LET failed == r.reply = Failed
           old == held[r.source]
           new == [graph |-> IF ~failed THEN r.reply
                             ELSE IF r.source = "imported" THEN NoGraph ELSE old.graph,
                   of |-> IF failed THEN old.of ELSE r.filter,
                   loading |-> FALSE, failed |-> failed]
       IN IF Wanted(r)
          THEN /\ held' = [held EXCEPT ![r.source] = new]
               /\ IF r.source = source
                  THEN Effects(new, ~failed \/ new.graph # old.graph)
                  ELSE UNCHANGED <<engine, shown, workspace>>
          ELSE UNCHANGED <<held, engine, shown, workspace>>
    /\ UNCHANGED <<server, session, page, source, filter, traversals, spent>>

\* The answer of an expansion is merged into whatever graph is there by then.
ExpandEnds(r) ==
    /\ r.kind = "expand" /\ r.reply # Pending
    /\ requests' = requests \ {r}
    /\ LET old == held["neo4j"]
           new == IF r.reply = Failed THEN [old EXCEPT !.failed = TRUE]
                  ELSE IF old.graph = NoGraph THEN [old EXCEPT !.graph = r.reply]
                  ELSE [old EXCEPT !.graph = MergeGraphs(@, r.reply)]
       IN /\ held' = [held EXCEPT !["neo4j"] = new]
          /\ IF source = "neo4j" THEN Effects(new, r.reply # Failed)
             ELSE UNCHANGED <<engine, shown, workspace>>
    /\ UNCHANGED <<server, session, page, source, filter, traversals, spent>>

ServerChanges ==
    /\ server' \in Graphs \ {server}
    /\ UNCHANGED <<session, page, source, filter, held, requests, engine, shown, workspace, traversals, spent>>

SessionEnds ==
    /\ session # NoGraph
    /\ session' = NoGraph
    /\ UNCHANGED <<server, page, source, filter, held, requests, engine, shown, workspace, traversals, spent>>

-----------------------------------------------------------------------------
(***************************************************************************)
(* The questions, the hosts and the profile                                *)
(***************************************************************************)
Holding == held[source].graph

\* While a page loads or has failed it shows nothing else; only the questions do.
Ready(p) == page = p /\ ~held[source].loading /\ ~held[source].failed

\* A question that needs no input is executed when it is selected.
SelectQuestion ==
    /\ page = "questions"
    /\ shown' = Nothing
    /\ UNCHANGED <<server, session, page, source, filter, held, requests, engine, workspace, traversals, spent>>

\* The answer before is dropped first.
ExecuteQuestion ==
    /\ page = "questions"
    /\ IF Holding = NoGraph
       THEN shown' = Nothing /\ UNCHANGED engine
       ELSE \E ask \in Asks("questions", engine["questions"].graph) :
                LookUp("questions", engine["questions"], Nothing, ask)
    /\ UNCHANGED <<server, session, page, source, filter, held, requests, workspace, traversals, spent>>

SelectHost ==
    /\ Ready("linux")
    /\ \E ask \in Asks("linux", server) : LookUp("linux", engine["linux"], shown, ask)
    /\ UNCHANGED <<server, session, page, source, filter, held, requests, workspace, traversals, spent>>

OpenUser ==
    /\ page = "profile"
    /\ \E ask \in Asks("profile", server) : ProfileEffect(held[source], ask)
    /\ UNCHANGED <<server, session, page, source, filter, held, requests, workspace, traversals, spent>>

-----------------------------------------------------------------------------
(***************************************************************************)
(* The workspace                                                           *)
(***************************************************************************)
WorkspaceReady == Ready("graph") /\ Holding # NoGraph

PresentedNow == Presented(Holding, workspace)
VisibleData == Subgraph(PresentedNow, workspace.visible)

\* investigation.focusedData: what the canvas draws.
FocusedData == IF workspace.at = 0 THEN VisibleData
               ELSE Subgraph(VisibleData, workspace.trail[workspace.at])

\* The node types are filtered in the page and, by the first of them, in the live source.
\* Where nothing is left to show, the filters can only be cleared.
FilterTypes ==
    /\ WorkspaceReady
    /\ \E types \in IF Ids(PresentedNow) = {} THEN {{}} ELSE SUBSET Filters :
        \E f \in IF types = {} THEN {NoFilter} ELSE types :
           LET w == [workspace EXCEPT !.filters = SetFilter(@, "nodeTypes", types)]
               reload == source = "neo4j" /\ f # filter
           IN /\ w.filters # workspace.filters
              /\ workspace' = Shows(w, Holding)
              /\ filter' = IF source = "neo4j" THEN f ELSE filter
              /\ IF reload THEN StartLoad(source, f) ELSE UNCHANGED <<requests, spent>>
              /\ held' = IF reload THEN [held EXCEPT ![source] = Loading(@)] ELSE held
    /\ UNCHANGED <<server, session, page, source, engine, shown, traversals>>

\* A preset and a view mode leave the remote filter as it is.
ChangeView ==
    /\ WorkspaceReady
    /\ \E m \in Modes, c \in Clusters, f \in {workspace.filters, Preset("highRisk")} :
           LET w == [workspace EXCEPT !.mode = m, !.clusters = c, !.filters = f]
           IN w # workspace /\ workspace' = Shows(w, Holding)
    /\ UNCHANGED <<server, session, page, source, filter, held, requests, engine, shown, traversals, spent>>

InWorkspace(n) == WorkspaceReady /\ n \in Ids(FocusedData)

UnchangedButWorkspace ==
    UNCHANGED <<server, session, page, source, filter, held, requests, engine, shown, spent>>

\* A cluster is taken apart, the live source is asked, the imported graph is already here.
Expand(n) ==
    /\ InWorkspace(n)
    /\ workspace.clusters = "none"
    /\ IF source = "neo4j"
       THEN /\ Request(requests \cup {[Load(source, NoFilter) EXCEPT !.kind = "expand", !.node = n]})
            /\ UNCHANGED workspace
       ELSE /\ workspace' = [workspace EXCEPT !.visible = @ \cup Neighbors(PresentedNow, n, "both", 1)]
            /\ UNCHANGED <<requests, spent>>
    /\ UNCHANGED <<server, session, page, source, filter, held, engine, shown, traversals>>

Collapse(n) ==
    /\ InWorkspace(n)
    /\ workspace' = [workspace EXCEPT !.visible = @ \ (Neighbors(PresentedNow, n, "both", 1) \ {n})]
    /\ UnchangedButWorkspace /\ UNCHANGED traversals

Hide(n) ==
    /\ InWorkspace(n)
    /\ workspace' = [workspace EXCEPT !.visible = @ \ {n}]
    /\ UnchangedButWorkspace /\ UNCHANGED traversals

\* What a traversal finds: nodes in their order for a path, a set of nodes for a radius.
Trace(g, ask) ==
    CASE ask.kind = "path" -> ShortestPath(g, ask.from, ask.to, "directed", DepthLimit, LinkTypes(g)).nodes
      [] ask.kind = "attack" -> AttackPath(g, ask.from, ask.to).path.nodes
      [] OTHER -> BlastRadius(g, ask.from, IF ask.kind = "focus" THEN 1 ELSE DepthLimit)

\* Slip: the key is the size of the graph.
SizeKey(g, ask) == <<Cardinality(Ids(g)), Len(g.links), ask>>

\* The cache does not look at the graph but at its size and at its first links.
TraversalKey(g, ask) ==
    LET first == [i \in {k \in DOMAIN g.links : k <= KeyLinks} |-> g.links[i].id]
    IN <<Cardinality(Ids(g)), Len(g.links), first, ask>>

Traversal(g, ask) ==
    LET key == TraversalKey(g, ask)
    IN IF key \in DOMAIN traversals THEN traversals[key] ELSE Trace(g, ask)

PushFocus(w, nodes) ==
    [w EXCEPT !.trail = Append(SubSeq(@, 1, w.at), nodes), !.at = w.at + 1]

\* A path, a radius, an attack path or a focus; the attack path does not move the focus,
\* and a path that is not found neither.
Investigate(kind, a, b) ==
    /\ InWorkspace(a) /\ InWorkspace(b) /\ a # b
    /\ workspace.at < MaxTrail
    /\ LET ask == [kind |-> kind, from |-> a, to |-> b]
           key == TraversalKey(VisibleData, ask)
           result == Traversal(VisibleData, ask)
           seen == [workspace EXCEPT !.path = [graph |-> VisibleData, ask |-> ask, result |-> result]]
       IN /\ key \in DOMAIN traversals \/ Cardinality(DOMAIN traversals) < MaxTraversals
          /\ traversals' = [k \in DOMAIN traversals \cup {key} |-> IF k = key THEN result ELSE traversals[k]]
          /\ workspace' = IF kind = "attack" \/ (kind = "path" /\ result = <<>>) THEN seen
                          ELSE PushFocus(seen, IF kind = "path" THEN Range(result) ELSE result)
    /\ UnchangedButWorkspace

MoveFocus ==
    /\ WorkspaceReady
    /\ \E i \in {0, workspace.at - 1, workspace.at + 1} \cap 0..Len(workspace.trail) :
           workspace' = [workspace EXCEPT !.at = i]
    /\ UnchangedButWorkspace /\ UNCHANGED traversals

-----------------------------------------------------------------------------
Next ==
    \/ OpenPage \/ ClosePage \/ Retry \/ ServerChanges \/ SessionEnds
    \/ \E s \in Sources : SwitchSource(s)
    \/ \E r \in requests : ServerReplies(r) \/ LoadEnds(r) \/ ExpandEnds(r)
    \/ SelectQuestion \/ ExecuteQuestion \/ SelectHost \/ OpenUser
    \/ FilterTypes \/ ChangeView \/ MoveFocus
    \/ \E n \in Ends : Expand(n) \/ Collapse(n) \/ Hide(n)
    \/ \E kind \in {"path", "attack", "blast", "focus"}, a \in Ends, b \in Ends : Investigate(kind, a, b)

Spec == Init /\ [][Next]_vars

-----------------------------------------------------------------------------
(***************************************************************************)
(* Properties                                                              *)
(***************************************************************************)
\* What the view's module computes now of what was asked last, from the graph it has.
FromModule(p) ==
    IF engine[p].graph = NoGraph THEN NoView ELSE Compute(p, engine[p].graph, shown.ask)

\* The host or the user that was asked for is shown, or marked as not found.
Answered(p) ==
    IF FromModule(p) = NoView THEN shown.missing ELSE ~shown.missing /\ shown.view = FromModule(p)

Follows(p) == Holding # NoGraph => engine[p].graph = Holding

\* A view's module has the graph the page holds, not one of an earlier load, of an earlier
\* visit or of the other source, and what the view shows was computed from it, not taken
\* from a cache of another graph. Two stale views are the code's own and are not excluded:
\* while the page holds no graph, the other source still loading or failed, the questions
\* and the hosts go on showing what was found in the module's last graph; and where a
\* host is not in the graph it is marked as missing, but the detail of the host shown
\* before stays in place. The profile shows its user once its graph is there.
Current(p) ==
    page = p =>
        CASE p = "questions" -> Follows(p) /\ (shown.view = NoView \/ shown.view = FromModule(p))
          [] p = "linux" -> Follows(p) /\ (shown.ask = NoAsk \/ Answered(p))
          [] OTHER -> Ready(p) /\ Holding # NoGraph => Follows(p) /\ Answered(p)

AnswersFollowTheGraph == \A p \in Engines : Current(p)

\* Of several loads under way, whose answers come in any order, the last one started
\* decides: a page that neither loads nor has failed holds the graph of the filter that is
\* chosen now, and no load is under way whose answer would still replace it.
LatestLoadWins ==
    page # "none" /\ Ready(page) =>
        /\ held[source].graph # NoGraph /\ held[source].of = filter
        /\ \A r \in requests : r.kind = "load" => ~r.current

\* A path or a radius that is taken from the cache of traversals is what a traversal of
\* the visible graph would find (as long as the graph has no more links than the key).
TraversalsAreFresh ==
    workspace.path # NoView =>
        workspace.path.result = Trace(workspace.path.graph, workspace.path.ask)
=============================================================================

----------------------------- MODULE AttackPaths -----------------------------
(***************************************************************************)
(* The search of the backend's attack path engine (apps/backend/src/       *)
(* attack-path): paths from identities, or from one node, to targets.      *)
(* A request is normalised, the graph of the request is searched with a    *)
(* queue that is ordered by length or by cost, and each path is recorded   *)
(* once. Ties in the order are broken by the place in the queue, where the *)
(* code compares node ids; scores, severities and explanations of a path   *)
(* are left out, and so is the timeout.                                    *)
(***************************************************************************)
EXTENDS GraphView, FiniteSetsExt

CONSTANTS DeepestSearch,   \* 12
          MostPaths        \* 200

Algorithms == {"shortest", "weighted", "all"}

Identities == {"USER", "LINUX_USER"} \cup ServiceAccounts

PrivilegeTypes == {"GRANTS", "HAS_ROLE", "HAS_SUDO_POLICY", "MEMBER_OF", "TRUSTS", "HAS_ACCESS_TO",
                   "AUTHENTICATES_TO"}

AllowedRelationships ==
    {"MEMBER_OF", "HAS_ROLE", "GRANTS", "HAS_ACCESS_TO", "AUTHENTICATES_TO", "HAS_SUDO_POLICY",
     "HAS_SSH_KEY", "TRUSTS", "BELONGS_TO", "REPORTS_TO", "MANAGED_BY", "RUNS_ON", "SUPPORTS", "USES",
     "EXISTS_IN"}

EdgeWeight(type) ==
    CASE type \in {"GRANTS", "HAS_ROLE", "HAS_SUDO_POLICY"} -> 1
      [] type \in {"HAS_SSH_KEY", "MEMBER_OF"} -> 2
      [] type \in {"TRUSTS", "AUTHENTICATES_TO", "HAS_ACCESS_TO"} -> 3
      [] type \in {"USES", "RUNS_ON"} -> 4
      [] OTHER -> 5

\* A list that names no allowed type allows nothing; an empty list allows everything.
Allowed(types) == (IF types = {} THEN AllowedRelationships ELSE types) \cap AllowedRelationships

InRange(low, n, high) == IF n < low THEN low ELSE IF n > high THEN high ELSE n

\* normalize; a field that is absent has the value of DefaultRequest.
DefaultRequest == [algorithm |-> "shortest", maxDepth |-> 6, maxPaths |-> 25, directed |-> TRUE,
                   source |-> NoId, types |-> {}]

Normalize(request) == [request EXCEPT !.maxDepth = InRange(1, @, DeepestSearch),
                                      !.maxPaths = InRange(1, @, MostPaths)]

(***************************************************************************)
(* A path is a record of its nodes, its links and its cost. `best` is, for *)
(* a source and a node, the cost of the cheapest path to it so far: no     *)
(* search but "all" goes on from a node along a path that is not cheaper,  *)
(* whatever the length of the cheaper path.                                *)
(***************************************************************************)
Start(n) == [nodes |-> <<n>>, links |-> <<>>, cost |-> 0]

End(path) == path.nodes[Len(path.nodes)]

OtherEnd(l, n) == IF l.source = n THEN l.target ELSE l.source

Leaving(g, request, n) ==
    LET out(l) == l.type \in Allowed(request.types) /\ l.source = n
        any(l) == out(l) \/ (~request.directed /\ l.type \in Allowed(request.types) /\ l.target = n)
    IN SelectSeq(g.links, any)

\* One link tried from the path that was taken off the queue.
Try(g, request, path, search, l) ==
    LET next == OtherEnd(l, End(path))
        cost == path.cost + EdgeWeight(l.type)
        key == <<path.nodes[1], next>>
        cheaper == key \in DOMAIN search.best /\ search.best[key] <= cost
    IN IF next \in Range(path.nodes) \/ next \notin Ids(g) \/ (request.algorithm # "all" /\ cheaper)
       THEN search
       ELSE [search EXCEPT
                !.queue = Append(@, [nodes |-> Append(path.nodes, next),
                                     links |-> Append(path.links, l.id), cost |-> cost]),
                !.best = [k \in DOMAIN @ \cup {key} |-> IF k = key THEN cost ELSE @[k]]]

\* The place of the next path of the queue.
Foremost(request, queue) ==
    LET rank(i) == IF request.algorithm = "weighted" THEN queue[i].cost ELSE Len(queue[i].links)
    IN CHOOSE i \in DOMAIN queue : \A j \in DOMAIN queue :
           rank(i) < rank(j) \/ (rank(i) = rank(j) /\ i <= j)

\* A path to a target is recorded; but for "all" it is not followed further.
RECURSIVE Explore(_, _, _, _)
Explore(g, request, targets, search) ==
    LET i == Foremost(request, search.queue)
        path == search.queue[i]
        hit == End(path) \in targets /\ path.links # <<>>
        recorded == [search EXCEPT !.queue = RemoveAt(@, i),
                                   !.paths = IF hit /\ path \notin Range(@) THEN Append(@, path) ELSE @]
        followed == FoldLeft(LAMBDA s, l : Try(g, request, path, s, l), recorded,
                             Leaving(g, request, End(path)))
    IN IF search.queue = <<>> \/ Len(search.paths) >= request.maxPaths THEN search.paths
       ELSE IF (hit /\ request.algorithm # "all") \/ Len(path.links) >= request.maxDepth
       THEN Explore(g, request, targets, recorded)
       ELSE Explore(g, request, targets, followed)

\* discover: from the named source, or from every identity of the graph.
Discover(g, request, targets) ==
    LET r == Normalize(request)
        sources == (IF r.source # NoId THEN {r.source} ELSE OfType(g, Identities)) \cap Ids(g)
        queue == [i \in DOMAIN SetToSeq(sources) |-> Start(SetToSeq(sources)[i])]
    IN Explore(g, r, targets \cap Ids(g), [queue |-> queue, best |-> <<>>, paths |-> <<>>])

\* reachable, for the blast radius of a node: the nodes and the greatest distance.
Reachable(g, request) ==
    LET r == Normalize(request)
        step(S) == {OtherEnd(l, n) : <<l, n>> \in
                       {<<l, n>> \in Links(g) \X S : l \in Range(Leaving(g, r, n))}}
        seen(k) == Iterate(LAMBDA S : S \cup step(S), k, {r.source})
    IN [nodes |-> seen(r.maxDepth) \cap Ids(g),
        depth |-> Min({k \in 0..r.maxDepth : seen(k) = seen(r.maxDepth)})]

\* chokePoints: the nodes between the ends of the paths found, with how many paths they are on.
ChokePoints(g, request, targets) ==
    LET paths == Range(Discover(g, [request EXCEPT !.algorithm = "all"], targets))
        inner(p) == {p.nodes[i] : i \in 2..Len(p.nodes) - 1}
    IN {<<n, Cardinality({p \in paths : n \in inner(p)})>> : n \in UNION {inner(p) : p \in paths}}
=============================================================================

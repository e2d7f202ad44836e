------------------------- MODULE GraphInvestigation -------------------------
(***************************************************************************)
(* What the graph page computes from the graph it shows: the filters, the  *)
(* view modes and the clusters, the neighbourhoods, and the traversals of  *)
(* apps/frontend/src/services/graphInvestigation.ts.                       *)
(***************************************************************************)
EXTENDS GraphView

CONSTANTS DepthLimit,    \* no traversal is longer (10)
          NearbyLimit,   \* no neighbourhood is wider (5)
          OverviewLimit  \* the overview starts from at most this many nodes (120)

Bounded(limit, n) == IF n < 1 THEN 1 ELSE IF n > limit THEN limit ELSE n

Subgraph(g, S) ==
    [nodes |-> [n \in Ids(g) \cap S |-> g.nodes[n]],
     links |-> LET inside(l) == {l.source, l.target} \subseteq S IN SelectSeq(g.links, inside)]

WithLinks(g, types) == [g EXCEPT !.links = SelectSeq(@, LAMBDA l : l.type \in types)]
LinkEnds(g) == {l.source : l \in Links(g)} \cup {l.target : l \in Links(g)}

(***************************************************************************)
(* The local filters, one after the other. A filter by access type drops   *)
(* the nodes it leaves without a link; one by relationship type does not.  *)
(***************************************************************************)
NoFilters == [systems |-> {}, nodeTypes |-> {}, risks |-> {}, statuses |-> {},
              accessTypes |-> {}, relationshipTypes |-> {}, search |-> NoId]

FilteredData(data, f) ==
    LET Passes(n) ==
            /\ f.systems = {} \/ n.system \in f.systems
            /\ f.nodeTypes = {} \/ n.type \in f.nodeTypes
            /\ f.risks = {} \/ n.risk \in f.risks
            /\ f.statuses = {} \/ n.status \in f.statuses
        chosen == Subgraph(data, {n \in Ids(data) : Passes(data.nodes[n])})
        granting == WithLinks(chosen, f.accessTypes)
        reached == IF f.accessTypes = {} THEN chosen ELSE Subgraph(granting, LinkEnds(granting))
        related == IF f.relationshipTypes = {} THEN reached
                   ELSE WithLinks(reached, f.relationshipTypes)
    IN IF f.search = NoId THEN related
       ELSE Subgraph(related, {n \in Ids(related) : \/ n = f.search
                                                    \/ related.nodes[n].name = f.search
                                                    \/ f.search \in related.nodes[n].words})

\* The choices that are offered for each filter, and the choice of the user for one of them.
AccessEdges == {"HAS_ACCESS_TO", "HAS_ACCESS", "HAS_ROLE", "GRANTS", "HAS_PERMISSION", "MEMBER_OF"}

Offered(data) ==
    LET of(Field(_)) == {Field(data.nodes[n]) : n \in Ids(data)}
        types == {l.type : l \in Links(data)}
    IN [systems |-> of(LAMBDA n : n.system), nodeTypes |-> of(LAMBDA n : n.type),
        risks |-> of(LAMBDA n : n.risk), statuses |-> of(LAMBDA n : n.status),
        relationshipTypes |-> types, accessTypes |-> types \cap AccessEdges]

SetFilter(filters, field, values) == [filters EXCEPT ![field] = values]

\* A preset replaces every other choice.
Preset(name) ==
    CASE name = "privileged" -> [NoFilters EXCEPT !.accessTypes =
                                    {"HAS_ROLE", "GRANTS", "HAS_PERMISSION", "HAS_ACCESS_TO"}]
      [] name = "highRisk" -> [NoFilters EXCEPT !.risks = {"HIGH", "CRITICAL"}]
      [] name = "identities" -> [NoFilters EXCEPT !.nodeTypes =
                                    {"USER", "GROUP", "ROLE", "SERVICE_ACCOUNT", "LINUX_USER", "LINUX_GROUP"}]
      [] OTHER -> [NoFilters EXCEPT !.nodeTypes = Hosts \cup {"APPLICATION", "DATABASE", "BUSINESS_SERVICE"}]

(***************************************************************************)
(* The view modes: the nodes of the mode and what is linked to them. The   *)
(* links are taken in their order and a node that became visible makes its *)
(* later links visible, so a chain may be followed further than one link.  *)
(***************************************************************************)
RiskRank == [NONE |-> 0, LOW |-> 1, MEDIUM |-> 2, HIGH |-> 3, CRITICAL |-> 4]

ModeTypes ==
    [identity |-> {"USER", "LINUX_USER", "GROUP", "LINUX_GROUP", "DEPARTMENT", "TEAM", "MANAGER",
                   "SERVICE_ACCOUNT"},
     access |-> {"USER", "GROUP", "ROLE", "PERMISSION", "APPLICATION", "DATABASE", "SSH_KEY", "SUDO_POLICY"},
     infrastructure |-> Hosts \cup {"DATABASE", "APPLICATION", "DOMAIN", "FOREST", "ORGANIZATIONAL_UNIT"},
     business |-> {"BUSINESS_SERVICE", "APPLICATION", "DATABASE", "DEPARTMENT", "TEAM"},
     overview |-> {"USER", "GROUP", "ROLE", "HOST", "APPLICATION", "BUSINESS_SERVICE"},
     privileged |-> {"ROLE", "PERMISSION", "SUDO_POLICY", "SSH_KEY"}]

Seeds(g, mode) ==
    LET seed(n) == \/ g.nodes[n].type \in ModeTypes[mode]
                   \/ /\ mode \in {"overview", "privileged"}
                      /\ g.nodes[n].privileged \/ g.nodes[n].risk \in {"CRITICAL", "HIGH"}
        riskier(a, b) == RiskRank[g.nodes[a].risk] > RiskRank[g.nodes[b].risk]
        seeds == {n \in Ids(g) : seed(n)}
    IN IF mode # "overview" \/ Cardinality(seeds) <= OverviewLimit THEN seeds
       ELSE Range(SubSeq(SetToSortSeq(seeds, riskier), 1, OverviewLimit))

FilterGraphView(g, mode) ==
    LET reveal(seen, l) == IF {l.source, l.target} \cap seen = {} THEN seen
                           ELSE seen \cup {l.source, l.target}
    IN IF mode = "full" THEN g ELSE Subgraph(g, FoldLeft(reveal, Seeds(g, mode), g.links))

(***************************************************************************)
(* Clusters: one node per value of a property, and between two clusters    *)
(* the first link of each type.                                            *)
(***************************************************************************)
ClusterKey(node, mode) ==
    CASE mode = "nodeType" -> node.type
      [] mode = "sourceSystem" -> node.system
      [] mode = "environment" -> node.environment
      [] OTHER -> node.domain

ClusterGraph(g, mode) ==
    LET cluster(n) == <<mode, ClusterKey(g.nodes[n], mode)>>
        Members(c) == {n \in Ids(g) : cluster(n) = c}
        riskOf(c) == LET risks == {g.nodes[n].risk : n \in Members(c)}
                     IN IF "CRITICAL" \in risks THEN "CRITICAL"
                        ELSE IF "HIGH" \in risks THEN "HIGH" ELSE "NONE"
        lifted == [i \in DOMAIN g.links |->
                      LET l == g.links[i] IN
                      [l EXCEPT !.id = <<cluster(l.source), l.type, cluster(l.target)>>,
                                !.source = cluster(l.source), !.target = cluster(l.target)]]
        first(acc, l) == IF l.source = l.target \/ \E k \in Range(acc) : k.id = l.id THEN acc
                         ELSE Append(acc, l)
    IN IF mode = "none" THEN g
       ELSE [nodes |-> [c \in {cluster(n) : n \in Ids(g)} |->
                           [NewNode("TEAM") EXCEPT !.risk = riskOf(c), !.memberIds = Members(c)]],
             links |-> FoldLeft(first, <<>>, lifted)]

Presented(data, view) ==
    ClusterGraph(FilterGraphView(FilteredData(data, view.filters), view.mode), view.clusters)

(***************************************************************************)
(* Neighbourhoods                                                          *)
(***************************************************************************)
\* What one step along the links reaches from a set of nodes.
After(g, S) == {l.target : l \in {k \in Links(g) : k.source \in S}}
Before(g, S) == {l.source : l \in {k \in Links(g) : k.target \in S}}

Neighbors(g, n, direction, depth) ==
    LET wider(S) == S \cup (IF direction = "incoming" THEN {} ELSE After(g, S))
                      \cup (IF direction = "outgoing" THEN {} ELSE Before(g, S))
    IN Iterate(wider, Bounded(NearbyLimit, depth), {n})

\* computeDependencies: without a limit, the walk ends when nothing new is found.
Dependencies(g, n, depth) ==
    [upstream |-> Iterate(LAMBDA S : S \cup Before(g, S), depth, {n}) \ {n},
     downstream |-> Iterate(LAMBDA S : S \cup After(g, S), depth, {n}) \ {n}]

(***************************************************************************)
(* Traversals                                                              *)
(***************************************************************************)
NoPath == [nodes |-> <<>>, links |-> <<>>]

\* Where every link may be followed.
LinkTypes(g) == {l.type : l \in Links(g)}

\* Breadth first along links of some types, tried in their order, every node entered once.
\* A level is the part of the queue whose paths have the same length.
ShortestPath(g, source, target, direction, maxDepth, types) ==
    LET next(l, n) == IF l.source = n THEN l.target
                      ELSE IF direction = "undirected" /\ l.target = n THEN l.source ELSE NoId
        enter(st, path, l) ==
            LET n == next(l, path.nodes[Len(path.nodes)])
            IN IF l.type \notin types \/ n = NoId \/ n \in st.visited THEN st
               ELSE [st EXCEPT !.visited = @ \cup {n},
                               !.queue = Append(@, [nodes |-> Append(path.nodes, n),
                                                    links |-> Append(path.links, l.id)])]
        leave(st, path) == FoldLeft(LAMBDA s, l : enter(s, path, l), st, g.links)
        level(st) == LET left == FoldLeft(leave, [st EXCEPT !.queue = <<>>], st.queue)
                     IN [left EXCEPT !.found = @ \cup Range(left.queue)]
        start == [nodes |-> <<source>>, links |-> <<>>]
        ended == Iterate(level, Bounded(DepthLimit, maxDepth),
                         [visited |-> {source}, queue |-> <<start>>, found |-> {start}])
        paths == {p \in ended.found : p.nodes[Len(p.nodes)] = target}
    IN IF paths = {} THEN NoPath ELSE CHOOSE p \in paths : TRUE

BlastRadius(g, source, maxDepth) ==
    Iterate(LAMBDA S : S \cup After(g, S), Bounded(DepthLimit, maxDepth), {source})

PrivilegeEdges == {"HAS_ROLE", "GRANTS", "HAS_PERMISSION", "HAS_ACCESS_TO", "HAS_ACCESS",
                   "MEMBER_OF", "AUTHENTICATES_TO"}

\* The path of an attack and its score.
AttackPath(g, source, target) ==
    LET path == ShortestPath(g, source, target, "directed", DepthLimit, PrivilegeEdges)
        weight == [NONE |-> 0, LOW |-> 5, MEDIUM |-> 10, HIGH |-> 20, CRITICAL |-> 30]
        risk == IF target \in Ids(g) THEN g.nodes[target].risk ELSE "NONE"
        score == 35 + 8 * Len(path.links) + weight[risk]
    IN [path |-> path,
        score |-> IF path = NoPath THEN 0 ELSE IF score > 100 THEN 100 ELSE score]
=============================================================================

---------------------------- MODULE GraphQueries ----------------------------
(***************************************************************************)
(* What the backend answers of the persisted graph (GraphService), from    *)
(* one of two stores. Neo4j keeps what was deleted, marked with a version; *)
(* a store is therefore a graph and the ids that are marked. Without Neo4j *)
(* the graph of the last import is held in memory, as a plain graph.       *)
(*                                                                         *)
(* An order by a property and the id is any fixed order of the nodes; what *)
(* a text is found in is a test of the node. The queries are those of the  *)
(* repository, of the graph context and of the versioned graph.            *)
(***************************************************************************)
EXTENDS GraphView

CONSTANTS
    PageLimit,  \* the longest page of the explorer (500)
    ExportLimit \* an export stops once it has this many rows (50000)

Store(g, gone) == [graph |-> g, gone |-> gone]

LiveNodes(s) == Ids(s.graph) \ s.gone
LiveLinks(s) == {l \in Links(s.graph) : l.id \notin s.gone}
InnerLinks(s) == {l \in LiveLinks(s) : {l.source, l.target} \subseteq LiveNodes(s)}

PartOf(g, nodes, links) ==
    LET in(l) == l \in links
    IN [nodes |-> [n \in nodes |-> g.nodes[n]], links |-> SelectSeq(g.links, in)]

Ordered(S) == FoldSet(LAMBDA n, seq : Append(seq, n), <<>>, S)
First(seq, n) == SubSeq(seq, 1, IF n < Len(seq) THEN n ELSE Len(seq))
Clamped(x, low, high) == IF x < low THEN low ELSE IF x > high THEN high ELSE x

\* getSnapshot
SnapshotOf(s) == PartOf(s.graph, LiveNodes(s), InnerLinks(s))

-----------------------------------------------------------------------------
(* Neighbours and subgraphs                                                *)

\* getNodeById
NodeServed(s, n) == IF n \in LiveNodes(s) THEN s.graph.nodes[n] ELSE NoId

\* searchNodes of the graph context: a page of the nodes that have the text.
SearchServed(s, having, offset, limit) ==
    LET found == Ordered(LiveNodes(s) \cap having)
    IN First(SubSeq(found, offset + 1, Len(found)), limit)

\* The links of a node and what is at their other ends, without the node itself.
NeighborsServed(s, n, direction, limit) ==
    LET touches(l) == /\ l \in InnerLinks(s)
                      /\ \/ direction # "incoming" /\ l.source = n
                         \/ direction # "outgoing" /\ l.target = n
        links == Range(First(SelectSeq(s.graph.links, touches), Clamped(limit, 1, 1000)))
    IN PartOf(s.graph, {IF l.source = n THEN l.target ELSE l.source : l \in links}, links)

\* The ends and the links of all paths of at most this length. A path without a link
\* yields no row, so that a node without links has an empty subgraph.
SubgraphServed(s, starts, depth) ==
    LET wider(S) == S \cup UNION {{l.source, l.target} : l \in {k \in InnerLinks(s) : {k.source, k.target} \cap S # {}}}
        near == Iterate(wider, Clamped(depth, 1, 5) - 1, starts \cap LiveNodes(s))
        links == {l \in InnerLinks(s) : {l.source, l.target} \cap near # {}}
    IN PartOf(s.graph, UNION {{l.source, l.target} : l \in links}, links)

\* In memory one pass over the links goes on from the nodes it has just added, and all
\* links among the nodes are answered.
MemorySubgraph(g, starts, depth) ==
    LET visit(S, l) == IF {l.source, l.target} \cap S = {} THEN S ELSE S \cup {l.source, l.target}
        near == Iterate(LAMBDA S : FoldLeft(visit, S, g.links), depth, starts)
    IN PartOf(g, near \cap Ids(g), {l \in Links(g) : {l.source, l.target} \subseteq near})

\* The graph of the nodes that pass a filter (the first of them, then the first links among
\* these), and whether a limit was reached. In memory the links are chosen before the nodes are cut.
GraphServed(s, passing, limit, linkLimit) ==
    LET most == [nodes |-> Clamped(limit, 1, 10000), links |-> Clamped(linkLimit, 0, 50000)]
        nodes == Range(First(Ordered(LiveNodes(s) \cap passing), most.nodes))
        among(l) == l \in LiveLinks(s) /\ {l.source, l.target} \subseteq nodes
        links == First(SelectSeq(s.graph.links, among), most.links)
    IN [graph |-> PartOf(s.graph, nodes, Range(links)),
        partial |-> nodes # {} /\ (Cardinality(nodes) = most.nodes \/ Len(links) = most.links)]

MemoryServed(g, passing, limit, linkLimit) ==
    LET nodes == Ids(g) \cap passing
        among(l) == {l.source, l.target} \subseteq nodes
    IN PartOf(g, Range(First(Ordered(nodes), limit)), Range(First(SelectSeq(g.links, among), linkLimit)))

-----------------------------------------------------------------------------
(* The explorer, exports and counts                                        *)

\* exploreNodes, exploreRelationships: a page of what matches, in its order.
PageOf(list, offset, limit) ==
    LET items == First(SubSeq(list, offset + 1, Len(list)), Clamped(limit, 1, PageLimit))
    IN [items |-> items, total |-> Len(list), hasMore |-> offset + Len(items) < Len(list)]

\* exportNodes, exportRelationships: page after page, up to the first past the limit.
ExportOf(list) ==
    LET more(items) == IF Len(items) < Len(list) /\ Len(items) < ExportLimit 
                       THEN items \o PageOf(list, Len(items), PageLimit).items ELSE items
        items == Iterate(more, Len(list) + 1, <<>>)
    IN [items |-> items, total |-> Len(list), truncated |-> Len(items) < Len(list)]

CountOf(g, nodes, types) == Cardinality({n \in nodes : g.nodes[n].type \in types})

Identities == {"USER", "LINUX_USER"} \cup ServiceAccounts

\* getDashboardSummary: of Neo4j it counts the deleted links, too.
DashboardOf(s) ==
    LET count(types) == CountOf(s.graph, LiveNodes(s), types)
        values(Field(_)) == {Field(s.graph.nodes[n]) : n \in LiveNodes(s)}
        by(Field(_)) == [v \in values(Field) |-> Cardinality({n \in LiveNodes(s) : Field(s.graph.nodes[n]) = v})]
    IN [identities |-> count(Identities), groups |-> count({"GROUP", "LINUX_GROUP"}), hosts |-> count(Hosts),
        applications |-> count({"APPLICATION"}), databases |-> count({"DATABASE"}),
        services |-> count({"BUSINESS_SERVICE"}),
        status |-> by(LAMBDA n : n.status), types |-> by(LAMBDA n : n.type),
        risks |-> by(LAMBDA n : n.risk), systems |-> by(LAMBDA n : n.system),
        relationships |-> Len(s.graph.links)]

\* getGraphStats, statistics: links whose ends were deleted are counted by the first only.
StatsOf(s) == [nodes |-> Cardinality(LiveNodes(s)), relationships |-> Cardinality(LiveLinks(s))]

StatisticsOf(s) ==
    LET links == {l \in LiveLinks(s) : l.source \in LiveNodes(s)}
    IN [nodes |-> Cardinality(LiveNodes(s)), relationships |-> Cardinality(links),
        types |-> {s.graph.nodes[n].type : n \in LiveNodes(s)}, linkTypes |-> {l.type : l \in links}]

\* getActiveGraphPreview, while there is no session: the first nodes and the first links
\* among them, and whether the graph has more by the counts of the context (refresh).
PreviewServed(s, nodeLimit, linkLimit) ==
    LET live == SnapshotOf(s)
        nodes == Range(First(Ordered(Ids(live)), nodeLimit))
        among(l) == {l.source, l.target} \subseteq nodes
        links == First(SelectSeq(live.links, among), linkLimit)
    IN [graph |-> PartOf(live, nodes, Range(links)),
        truncated |-> Cardinality(nodes) < StatsOf(s).nodes \/ Len(links) < StatsOf(s).relationships]

-----------------------------------------------------------------------------
(* Versions                                                                *)

\* apply: nodes and links are merged by id, links of which an end is unknown are left
\* out; what is written is no longer deleted; then what is to be deleted is marked.
ApplyVersion(s, update, deleted) ==
    LET known == Ids(s.graph) \cup Ids(update)
        written == {l \in Links(update) : {l.source, l.target} \subseteq known}
        merged == MergeGraphs(s.graph, PartOf(update, Ids(update), written))
    IN Store(merged, (s.gone \ (Ids(update) \cup {l.id : l \in written}))
                     \cup (deleted \cap (Ids(merged) \cup {l.id : l \in Links(merged)})))

CountsOf(s, update, deleted) ==
    LET after == ApplyVersion(s, update, {})
        links == {l.id : l \in Links(update) \cap Links(after.graph)}
        known == {l.id : l \in Links(s.graph)}
    IN [added |-> Cardinality(Ids(update) \ Ids(s.graph)),
        updated |-> Cardinality(Ids(update) \cap Ids(s.graph)),
        removed |-> Cardinality(deleted \cap LiveNodes(after)),
        linksAdded |-> Cardinality(links \ known), linksUpdated |-> Cardinality(links \cap known)]

\* upsertRelationships: what was neither added nor updated is reported as skipped.
SkippedLinks(s, update) ==
    LET counts == CountsOf(s, update, {})
    IN Len(update.links) - counts.linksAdded - counts.linksUpdated

\* createSnapshot takes the links whose ends were deleted; diff compares by id.
VersionSnapshot(s) == [nodes |-> [n \in LiveNodes(s) |-> s.graph.nodes[n]], links |-> LiveLinks(s)]

DiffOf(before, after) ==
    LET a == DOMAIN before.nodes
        b == DOMAIN after.nodes
    IN [added |-> b \ a, removed |-> a \ b, updated |-> {n \in a \cap b : before.nodes[n] # after.nodes[n]}]

\* shortestPath, blastRadius: directed, over nodes that are live and links that may not be.
Onward(s, S) == {l.target : l \in {k \in Links(s.graph) : /\ k.source \in S
                                                           /\ {k.source, k.target} \subseteq LiveNodes(s)}}

RadiusServed(s, n, depth) ==
    LET wider(S) == S \cup Onward(s, S)
    IN Iterate(wider, Clamped(depth, 1, 10) - 1, Onward(s, {n}))

PathLength(s, from, to, depth) ==
    LET reached(d) == to \in Iterate(LAMBDA S : S \cup Onward(s, S), d, {from} \cap LiveNodes(s))
        lengths == {d \in 1..Clamped(depth, 1, 15) : reached(d)}
    IN IF lengths = {} THEN 0 ELSE CHOOSE d \in lengths : \A e \in lengths : d <= e
=============================================================================

--------------------------- MODULE GraphAgreement ---------------------------
(***************************************************************************)
(* What the views say of one graph, each by a search of its own, has to    *)
(* agree. The searches are bounded differently and follow different links, *)
(* so each agreement is for the graphs on which both are complete: those   *)
(* with fewer nodes than the bounds, where memberships lead from users and *)
(* groups to groups, and no policy has its own list of groups.             *)
(***************************************************************************)
EXTENDS GraphInvestigation, GraphQueries

CONSTANTS NestingLimit, DomainAdmins, EnterpriseAdmins, ProdAccess, PathLimit, DeepestSearch, MostPaths

BQ == INSTANCE BusinessQuestions
LH == INSTANCE LinuxHosts
UP == INSTANCE UserProfiles
AP == INSTANCE AttackPaths

Reachable(g, n) == BlastRadius(g, n, DepthLimit)
Directed(g, s, t) == ShortestPath(g, s, t, "directed", DepthLimit, LinkTypes(g))

\* Every choice that a filter offers keeps something, and filtering again changes nothing;
\* all choices of a filter together keep the graph, those of the access types its links that
\* grant access; no link is left without its ends, also by several filters at once.
FiltersAgree(g) ==
    LET offered == Offered(g)
        kept(field, values) == FilteredData(g, SetFilter(NoFilters, field, values))
    IN /\ FilteredData(g, NoFilters) = g
       /\ \A field \in DOMAIN offered : \A v \in offered[field] :
              LET part == kept(field, {v})
              IN /\ Closed(part) /\ FilteredData(part, SetFilter(NoFilters, field, {v})) = part
                 /\ Ids(part) # {} /\ (field \in {"accessTypes", "relationshipTypes"} => part.links # <<>>)
       /\ \A field \in DOMAIN offered \ {"accessTypes"} : kept(field, offered[field]) = g
       /\ offered.accessTypes # {} =>
              Links(kept("accessTypes", offered.accessTypes)) = {l \in Links(g) : l.type \in AccessEdges}
       /\ \A type \in offered.nodeTypes, link \in offered.accessTypes :
              Closed(FilteredData(g, SetFilter(SetFilter(NoFilters, "nodeTypes", {type}), "accessTypes", {link})))

\* The users that are asked for by group are those whose profile has the group.
InheritedMemberships(g) ==
    DomainAdmins \in Ids(g) =>
        BQ!InheritDomainAdmin(g).identities =
            {u \in OfType(g, {"USER"}) :
                LET direct == UP!DirectGroups(g, u)
                IN DomainAdmins \in direct \cup UP!IndirectGroups(g, direct)}

\* The users of an application have it among what their profile says they reach.
ApplicationAccess(g) ==
    \A a \in OfType(g, {"APPLICATION"}) : \A u \in BQ!WhoAccessApp(g, a).identities :
        a \in DOMAIN UP!EffectiveAccess(g, u)

\* Every node the page offers for a question of its catalog is one that the question is
\* answered for; an answer shows nodes of the graph, and what it lists is among them, but
\* for the users of a host that is compromised.
CatalogAnswered(g) ==
    \A asked \in UNION {BQ!FilteredQuestions(c) : c \in BQ!Categories} :
        LET question == asked.id
            type == asked.inputType
            inputs == IF type = "none" THEN {NoId} ELSE BQ!Suggestions(g, type)
        IN \A input \in inputs :
              LET answer == BQ!Execute(g, question, input)
                  listed == answer.systems \cup answer.services
                                \cup (IF question = "host-compromise-impact" THEN {} ELSE answer.identities)
              IN /\ type # "none" => input \in answer.nodes
                 /\ listed \subseteq answer.nodes /\ answer.nodes \subseteq Ids(g)
                 /\ answer.identities \subseteq Ids(g)

\* Who may use sudo at a host is the same in the answer, in the host's view and in what
\* the host depends on.
SudoAccess(g) ==
    \A h \in OfType(g, {"HOST"}) :
        LET sudo == LH!ReverseAccess(g, h).sudo
        IN /\ BQ!WhoAccessHost(g, h).identities = sudo \cup BQ!LinkedSources(g, h, "AUTHENTICATES_TO")
           /\ sudo \subseteq BQ!SudoUsers(g).identities
           /\ sudo \subseteq LH!Upstream(g, h)

\* What runs on a host is the same in the answers and in the host's view.
HostServices(g) ==
    \A h \in OfType(g, {"HOST"}) :
        /\ h \in BQ!HostsNoApps(g).systems => LH!ApplicationsFor(g, h) = {}
        /\ LH!Names(g, BQ!HostCompromiseImpact(g, h).services) = LH!BusinessServicesFor(g, h)

\* A shortest path is found to what the blast radius has, is a chain of links, and is no
\* longer than the least radius that has its end; what a profile reaches is in the radius.
PathsAndRadius(g, s, ends) ==
    /\ \A t \in ends \cap Ids(g) :
        LET p == Directed(g, s, t)
        IN /\ (t \in Reachable(g, s)) <=> (p # NoPath)
           /\ p # NoPath =>
               /\ \A i \in DOMAIN p.links : \E l \in Links(g) :
                      l.id = p.links[i] /\ l.source = p.nodes[i] /\ l.target = p.nodes[i + 1]
               /\ \A d \in 1..Len(p.links) - 1 : t \notin BlastRadius(g, s, d)
    /\ DOMAIN UP!EffectiveAccess(g, s) \subseteq Reachable(g, s)
    /\ Neighbors(g, s, "outgoing", NearbyLimit) = BlastRadius(g, s, NearbyLimit)

\* The attack path engine finds a path to every target that is in the radius it computes,
\* whatever the algorithm; with one target, the first path of "shortest" has the fewest
\* links and the first of "weighted" the lowest cost of all simple paths.
AttackSearch(g, s, targets) ==
    \A directed \in BOOLEAN :
        LET request == [AP!DefaultRequest EXCEPT !.source = s, !.directed = directed]
            found(algorithm, T) == AP!Discover(g, [request EXCEPT !.algorithm = algorithm], T)
            radius == AP!Reachable(g, request).nodes \ {s}
        IN /\ {AP!End(q) : q \in Range(found("all", targets))} = radius \cap targets
           /\ \A t \in targets :
                LET all == Range(found("all", {t}))
                    shortest == found("shortest", {t})
                    cheapest == found("weighted", {t})
                IN /\ (shortest # <<>>) <=> (t \in radius)
                   /\ (cheapest # <<>>) <=> (t \in radius)
                   /\ t \in radius => \A q \in all : /\ Len(shortest[1].links) <= Len(q.links)
                                                     /\ cheapest[1].cost <= q.cost

\* Neo4j and the graph in memory answer the same whole graph; what is asked around a node
\* is what the page itself finds there; an expansion of a part of the graph leaves no link
\* without its ends, and of the whole graph adds nothing.
StoresAgree(s, n) ==
    LET live == SnapshotOf(s)
        all == Ids(s.graph)
        part == GraphServed(s, all, 5, 1200).graph
        near(direction) == NeighborsServed(s, n, direction, 500)
    IN /\ Closed(live)
       /\ GraphServed(s, all, 300, 1200) = [graph |-> live, partial |-> FALSE]
       /\ MemoryServed(live, all, 10000, 50000) = live
       /\ MergeGraphs(live, near("both")) = live
       /\ n \in Ids(part) => Closed(MergeGraphs(part, near("both")))
       /\ \A direction \in {"incoming", "outgoing", "both"} :
              Ids(near(direction)) \cup {n} = Neighbors(live, n, direction, 1)
       /\ \A depth \in 1..3 :
              LET around == SubgraphServed(s, {n}, depth)
                  wide == MemorySubgraph(live, {n}, depth)
              IN /\ Ids(around) \subseteq Ids(wide) /\ Links(around) \subseteq Links(wide)
                 /\ TouchedBy(live, n) # {} => Ids(around) = Neighbors(live, n, "both", depth)

\* A preview is part of the graph, without a link that has lost an end, and says so when
\* it is not all of it; that it says so when it is all there is happens only for the links
\* of deleted nodes. What is found page by page is served by its id.
PreviewsAgree(s) ==
    LET live == SnapshotOf(s)
        users == {n \in Ids(s.graph) : s.graph.nodes[n].type = "USER" \/ s.graph.nodes[n].risk = "HIGH"}
        found == SearchServed(s, users, 0, 50)
    IN /\ \A limits \in {<<4, 50>>, <<50, 3>>, <<50, 50>>} :
              LET preview == PreviewServed(s, limits[1], limits[2])
              IN /\ Closed(preview.graph) /\ MergeGraphs(live, preview.graph) = live
                 /\ ~preview.truncated => preview.graph = live
                 /\ preview.truncated /\ preview.graph = live => LiveLinks(s) # InnerLinks(s)
       /\ \A i \in DOMAIN found : SearchServed(s, users, i - 1, 1) = <<found[i]>>
       /\ \A n \in Ids(s.graph) : n \in Range(found) <=> NodeServed(s, n) # NoId /\ n \in users

\* The pages of the explorer, followed while there are more, list everything once and in
\* order; an export lists the first of it and says when that is not all; the counts add up.
PagesAgree(s) ==
    LET list == Ordered(LiveNodes(s))
        follow(st, limit) == LET page == PageOf(list, Len(st.items), limit)
                             IN IF st.more THEN [items |-> st.items \o page.items, more |-> page.hasMore] ELSE st
        pages(limit) == Iterate(LAMBDA st : follow(st, limit), Len(list), [items |-> <<>>, more |-> TRUE])
        export == ExportOf(list)
        types == DashboardOf(s).types
    IN /\ \A limit \in {1, 2, 5, 100} : pages(limit) = [items |-> list, more |-> FALSE]
       /\ export.items = First(list, Len(export.items))
       /\ export.truncated <=> Len(export.items) < Len(list)
       /\ export.truncated => Len(export.items) >= ExportLimit
       /\ StatsOf(s).nodes = FoldSet(LAMBDA t, sum : sum + types[t], 0, DOMAIN types)
       /\ s.gone = {} => /\ StatsOf(s).relationships = DashboardOf(s).relationships
                          /\ StatsOf(s).relationships = StatisticsOf(s).relationships

\* A version adds, brings back and deletes what the comparison of the snapshots before and
\* after it shows; applied again it changes nothing; its counts are those of the comparison
\* unless it brings back what was deleted.
VersionsAgree(s, update, deleted) ==
    LET after == ApplyVersion(s, update, deleted)
        diff == DiffOf(VersionSnapshot(s), VersionSnapshot(after))
        counts == CountsOf(s, update, deleted)
    IN /\ diff.added = Ids(update) \ (LiveNodes(s) \cup deleted)
       /\ diff.removed = deleted \cap LiveNodes(s)
       /\ SkippedLinks(s, update) = Cardinality(Links(update) \ LiveLinks(after))
       /\ ApplyVersion(after, update, deleted) = after
       /\ counts.removed = Cardinality(diff.removed)
       /\ Ids(update) \cap s.gone = {} => counts.added = Cardinality(diff.added)

\* What the backend finds on the way from a node is what the page finds.
SearchesAgree(s, n, ends) ==
    LET live == SnapshotOf(s)
    IN /\ RadiusServed(s, n, DepthLimit) \cup {n} = BlastRadius(live, n, DepthLimit)
       /\ \A t \in ends \cap Ids(live) : PathLength(s, n, t, DepthLimit) = Len(Directed(live, n, t).links)

\* Of a graph without and with a deleted node, and of the version that writes the node.
QueriesAgree(g, n, x, ends) ==
    LET with == PartOf(g, {x}, TouchedBy(g, x))
        without == PartOf(g, Ids(g) \ {x}, Links(g) \ TouchedBy(g, x))
    IN /\ \A s \in {Store(g, {}), Store(g, {x})} :
              /\ StoresAgree(s, n) /\ PreviewsAgree(s) /\ PagesAgree(s) /\ SearchesAgree(s, n, ends)
              /\ VersionsAgree(s, with, {}) /\ VersionsAgree(s, with, {n})
       /\ VersionsAgree(Store(without, {}), with, {n})
       /\ VersionsAgree(Store(without, {}), [with EXCEPT !.nodes = <<>>], {})
       /\ SnapshotOf(ApplyVersion(Store(g, {x}), with, {})) = g

Agreement(g, s, x, ends, targets) ==
    /\ InheritedMemberships(g)
    /\ ApplicationAccess(g)
    /\ CatalogAnswered(g)
    /\ SudoAccess(g)
    /\ HostServices(g)
    /\ PathsAndRadius(g, s, ends)
    /\ AttackSearch(g, s, targets)
    /\ QueriesAgree(g, s, x, ends)
    /\ FiltersAgree(g)
=============================================================================

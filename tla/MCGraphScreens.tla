--------------------------- MODULE MCGraphScreens ---------------------------
(***************************************************************************)
(* The pages over graphs of fourteen nodes: every subset of eight links to *)
(* start with, and two graphs of twelve nodes for the pages to work on.    *)
(***************************************************************************)
EXTENDS GraphScreens, TLC

CONSTANTS NestingLimit, PathLimit, DeepestSearch, MostPaths,
          u, g1, g2, g3, lu, lg, sp, h, h2, role, perm, app, db, bs

GA == INSTANCE GraphAgreement WITH DomainAdmins <- g1, EnterpriseAdmins <- NoId, ProdAccess <- NoId

Node(n, type) == n :> [NewNode(type) EXCEPT !.name = n]

Nodes ==
    Node(u, "USER") @@ Node(g1, "GROUP") @@ Node(g2, "GROUP") @@ Node(g3, "GROUP")
    @@ Node(lu, "LINUX_USER") @@ Node(lg, "LINUX_GROUP") @@ Node(h, "HOST") @@ Node(h2, "HOST")
    @@ Node(role, "ROLE") @@ Node(perm, "PERMISSION") @@ Node(app, "APPLICATION") @@ Node(bs, "BUSINESS_SERVICE")
    @@ (sp :> [NewNode("SUDO_POLICY") EXCEPT !.name = sp, !.hostIds = {h}])
    @@ (db :> [NewNode("DATABASE") EXCEPT !.name = db, !.hostId = h, !.risk = "HIGH"])

\* The links that every graph has, and those that a graph may have, in their order.
Fixed ==
    <<NewLink(10, lg, "HAS_ACCESS", sp), NewLink(11, perm, "APPLIES_TO", app), NewLink(12, u, "HAS_PERMISSION", role),
      NewLink(13, app, "PART_OF", bs), NewLink(14, app, "CONNECTS_TO", db)>>

Candidates ==
    <<NewLink(1, u, "MEMBER_OF", g2), NewLink(2, g2, "MEMBER_OF", g3), NewLink(3, g3, "MEMBER_OF", g1),
      NewLink(4, g3, "MEMBER_OF", g2), NewLink(5, u, "MEMBER_OF", g1), NewLink(6, role, "HAS_PERMISSION", perm),
      NewLink(7, lu, "MEMBER_OF", lg), NewLink(8, u, "AUTHENTICATES_TO", h)>>

Chosen(S) == LET in(l) == l.id \in S IN Fixed \o SelectSeq(Candidates, in)

AllGraphs == {[nodes |-> Nodes, links |-> Chosen(S)] : S \in SUBSET (1..8)}

\* What the pages work on: two graphs of one size, which differ in what they hold.
Part(without, S) == Subgraph([nodes |-> Nodes, links |-> Chosen(S)], DOMAIN Nodes \ without)

ShownGraph == Part({db, bs}, {1, 2, 3, 6, 7, 8})
ShownGraphs == {ShownGraph, Part({h2, lu}, {2, 5, 6, 8})}
StartGraphs == AllGraphs \cup {ShownGraph}

MCAsks(page_, g) ==
    CASE page_ = "questions" -> {<<"inherit-domain-admin", NoId>>, <<"who-access-host", h>>}
      [] page_ = "linux" -> {h, h2}
      [] OTHER -> {u, lu}

MCCompute(page_, g, ask) ==
    CASE page_ = "questions" -> GA!BQ!Execute(g, ask[1], ask[2])
      [] page_ = "linux" -> GA!LH!HostDetail(g, ask)
      [] OTHER -> GA!UP!Profile(g, ask)

\* Of the first graphs, only these are worked on; and as the views share no state, both
\* visits are of one page, of the workspace there is one. Traversals are made on the page
\* of an import, and from there on the live graph, which is another one of the same size.
\* How loads overtake each other is the same on every page: the last request is left to
\* one of them.
Explored ==
    /\ server \in ShownGraphs
    /\ Cardinality(({v \in Engines : engine[v] # Fresh(NoGraph)} \cup {page}) \ {"none"}) <= 1
    /\ page = "graph" => spent.visits = 1
    /\ traversals # <<>> => page \notin Engines /\ server = ShownGraph /\ session \notin {NoGraph, server}
    /\ spent.requests = MaxRequests => page = "profile" /\ spent.visits = 1

\* What the views say of a graph agrees, on every graph that the pages may start with:
\* answers with profiles and host views, paths with radiuses, attack paths with their radius.
ViewsAgree ==
    page = "none" /\ spent.visits = 0 /\ source = "neo4j" =>
        GA!Agreement(server, u, g3, {g1, g3, app, h, db}, {g1, h})
=============================================================================

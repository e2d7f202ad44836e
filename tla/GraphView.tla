----------------------------- MODULE GraphView -----------------------------
(***************************************************************************)
(* The graph as the browser holds it: nodes with the properties the views *)
(* read, and links in the order they came. A graph is a record            *)
(*     [nodes |-> a function from node ids to nodes,                      *)
(*      links |-> a sequence of links, no id twice].                      *)
(* A property that is a list of ids is a set here, a text that is only    *)
(* searched for words is the set of the words it contains (words), and a  *)
(* property that is absent has the value it has in NewNode.               *)
(***************************************************************************)
EXTENDS Naturals, FiniteSets, Sequences, SequencesExt

CONSTANT NoId   \* where a property that holds an id is absent

\* A node of a type with no property set: types/graph.ts. The rest are properties
\* the views read by name.
NewNode(type) ==
    [type |-> type, name |-> NoId, hostIds |-> {}, hostId |-> NoId, risk |-> "NONE",
     system |-> "CUSTOM", status |-> "UNKNOWN", words |-> {}, privileged |-> FALSE,
     environment |-> NoId, domain |-> NoId, memberIds |-> {}, critical |-> FALSE,
     groupIds |-> {}, allowedHostIds |-> {}, ownerId |-> NoId, adUserId |-> NoId,
     managedBy |-> NoId, locked |-> FALSE, wheel |-> FALSE, allCommands |-> FALSE,
     nopasswd |-> FALSE, asRoot |-> TRUE, lastUsed |-> FALSE, shell |-> TRUE]

\* A link: types/graph.ts
NewLink(id, source, type, target) ==
    [type |-> type, id |-> id, source |-> source, target |-> target, system |-> "CUSTOM"]

Ids(g) == DOMAIN g.nodes
Links(g) == Range(g.links)

OfType(g, types) == {n \in Ids(g) : g.nodes[n].type \in types}

TouchedBy(g, n) == {l \in Links(g) : l.source = n \/ l.target = n}

\* Both ends of every link are nodes of the graph.
Closed(g) == \A l \in Links(g) : {l.source, l.target} \subseteq Ids(g)

\* A step that is taken a number of times.
Iterate(Step(_), n, start) == FoldLeft(LAMBDA x, i : Step(x), start, [i \in 1..n |-> i])

\* mergeGraphData: a link that came again replaces the one that is there; of a node its own
\* fields do, and of its properties those that came.
OwnFields == {"type", "name", "system", "risk", "status"}

MergeNode(old, new) ==
    [f \in DOMAIN new |-> IF f \in OwnFields \/ new[f] # NewNode(new.type)[f] THEN new[f] ELSE old[f]]

MergeGraphs(current, incoming) ==
    LET ids == {l.id : l \in Links(current)}
        again(id) == {l \in Links(incoming) : l.id = id}
        kept == [i \in DOMAIN current.links |->
                    LET l == current.links[i] IN IF again(l.id) = {} THEN l ELSE CHOOSE k \in again(l.id) : TRUE]
        new(l) == l.id \notin ids
    IN [nodes |-> [n \in Ids(current) \cup Ids(incoming) |->
                      IF n \notin Ids(incoming) THEN current.nodes[n]
                      ELSE IF n \notin Ids(current) THEN incoming.nodes[n]
                      ELSE MergeNode(current.nodes[n], incoming.nodes[n])],
        links |-> kept \o SelectSeq(incoming.links, new)]

Hosts == {"HOST", "COMPUTER"}
ServiceAccounts == {"SERVICE_ACCOUNT", "MANAGED_SERVICE_ACCOUNT"}
=============================================================================

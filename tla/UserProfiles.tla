---------------------------- MODULE UserProfiles ----------------------------
(***************************************************************************)
(* The profile of an identity: apps/frontend/src/services/                 *)
(* identityGraphAdapter.ts. Memberships are followed upwards without a     *)
(* limit, access paths along links of any type up to PathLimit.            *)
(***************************************************************************)
EXTENDS GraphView

CONSTANT PathLimit   \* the longest access path (8)

TargetsOf(g, n, type) ==
    {l.target : l \in {k \in Links(g) : k.source = n /\ k.type = type}} \cap Ids(g)

DirectGroups(g, u) == TargetsOf(g, u, "MEMBER_OF")

\* getNestedGroupMemberships: breadth first from the direct groups, each group once.
RECURSIVE Above(_, _, _)
Above(g, frontier, visited) ==
    LET next == (UNION {TargetsOf(g, n, "MEMBER_OF") : n \in frontier}) \ visited
    IN IF next = {} THEN visited ELSE Above(g, next, visited \cup next)

IndirectGroups(g, direct) == Above(g, direct, direct) \ direct

Roles(g, u) == TargetsOf(g, u, "HAS_PERMISSION")
RolePermissions(g, roles) == UNION {TargetsOf(g, r, "HAS_PERMISSION") : r \in roles}

\* traverseAccessPaths: every path without a repeated node, as its nodes after the user.
RECURSIVE PathsFrom(_, _, _)
PathsFrom(g, path, visited) ==
    LET last == path[Len(path)]
        next == ({l.target : l \in {k \in Links(g) : k.source = last}} \cap Ids(g)) \ visited
        longer == {Append(path, n) : n \in next}
    IN IF Len(path) > PathLimit THEN {}
       ELSE longer \cup UNION {PathsFrom(g, p, visited \cup {p[Len(p)]}) : p \in longer}

AccessPaths(g, u) == {Tail(p) : p \in PathsFrom(g, <<u>>, {u})}

\* buildEffectiveAccess: the paths that end at something one has access to, by their end.
AccessTypes == {"APPLICATION", "DATABASE", "BUSINESS_SERVICE", "HOST", "COMPUTER",
                "SUDO_POLICY", "SSH_KEY"}

EffectiveAccess(g, u) ==
    LET paths == {p \in AccessPaths(g, u) : p[Len(p)] \in OfType(g, AccessTypes)}
    IN [target \in {p[Len(p)] : p \in paths} |-> {p \in paths : p[Len(p)] = target}]

\* findCorrelatedIdentities: the directory user the account names, and the account itself
\* when it is of Linux or of FreeIPA. A directory user does not find its accounts.
Correlated(g, u) ==
    ({g.nodes[u].adUserId} \cap Ids(g))
    \cup (IF g.nodes[u].system \in {"FREE_IPA", "LINUX"} THEN {u} ELSE {})

Neighbours(g, u) ==
    [upstream |-> {l.source : l \in {k \in Links(g) : k.target = u}} \cap Ids(g),
     downstream |-> {l.target : l \in {k \in Links(g) : k.source = u}} \cap Ids(g)]

\* findRiskFindings: each finding as the nodes it names, {} where there is none.
RiskFindings(g, u) ==
    LET touching == {l.source : l \in TouchedBy(g, u)} \cup {l.target : l \in TouchedBy(g, u)}
        named(n) == g.nodes[n].words \cap {"admin", "enterprise", "domain", "sudo"} # {}
        above(n) == Above(g, {n}, {n})
    IN [disabled |-> IF g.nodes[u].status = "DISABLED" /\ TouchedBy(g, u) # {} THEN {u} ELSE {},
        nested |-> {above(n) : n \in {k \in DirectGroups(g, u) : named(k) /\ above(k) # {k}}},
        services |-> (touching \ {u}) \cap OfType(g, ServiceAccounts),
        production |-> {h \in (touching \ {u}) \cap OfType(g, Hosts) :
                            g.nodes[h].environment = "Production"},
        finance |-> {a \in Neighbours(g, u).downstream \cap OfType(g, {"APPLICATION"}) :
                         "payment" \in g.nodes[a].words},
        crossSystem |-> IF g.nodes[u].system # "ACTIVE_DIRECTORY" THEN {}
                        ELSE {n \in OfType(g, {"LINUX_USER"}) : g.nodes[n].adUserId = u}]

\* buildUserProfile; NoId where the graph has no such node.
Profile(g, u) ==
    IF u \notin Ids(g) THEN NoId
    ELSE LET direct == DirectGroups(g, u)
         IN [user |-> g.nodes[u], direct |-> direct, indirect |-> IndirectGroups(g, direct),
             roles |-> Roles(g, u), permissions |-> RolePermissions(g, Roles(g, u)),
             access |-> EffectiveAccess(g, u), neighbours |-> Neighbours(g, u),
             risks |-> RiskFindings(g, u), correlated |-> Correlated(g, u)]
=============================================================================

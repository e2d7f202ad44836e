----------------------------- MODULE LinuxHosts -----------------------------
(***************************************************************************)
(* The host views of apps/frontend/src/services/linuxGraphAdapter.ts: who  *)
(* reaches a host and how, what depends on it and which risks it shows.    *)
(* The adapter appends the members a group has by links to the node's own  *)
(* list of members, and so for a user's groups; doing it again changes     *)
(* nothing, and the lists are unions here.                                 *)
(***************************************************************************)
EXTENDS GraphView

LinkEnds(g, n, type, end) ==
    LET matches(l) == l.type = type /\ n = IF end = "target" THEN l.source ELSE l.target
        found == SelectSeq(g.links, matches)
    IN [i \in DOMAIN found |-> IF end = "target" THEN found[i].target ELSE found[i].source]

Targets(g, n, type) == Range(LinkEnds(g, n, type, "target"))
Sources(g, n, type) == Range(LinkEnds(g, n, type, "source"))

FirstOr(s, default) == IF s = <<>> THEN default ELSE s[1]

\* The operating system, the site and the subnet are the first link's. A link from a
\* service account that runs on the host is of the same type but points to the host.
HostOs(g, h) == FirstOr(LinkEnds(g, h, "RUNS_ON", "target"), NoId)
HostSite(g, h) == FirstOr(LinkEnds(g, h, "LOCATED_IN", "target"), NoId)
HostSubnet(g, h) ==
    LET subnet(n) == n \in OfType(g, {"SUBNET"})
    IN FirstOr(SelectSeq(LinkEnds(g, h, "LOCATED_IN", "target"), subnet), NoId)

Environment(g, h) ==
    LET words == g.nodes[h].words
    IN IF h \notin Ids(g) THEN "Unknown"
       ELSE IF g.nodes[h].environment # NoId THEN g.nodes[h].environment
       ELSE IF "prod" \in words THEN "Production"
       ELSE IF words \cap {"dev", "test"} # {} THEN "Development"
       ELSE IF words \cap {"stg", "stage"} # {} THEN "Staging"
       ELSE "Unknown"

HostSummary(g, h) ==
    [id |-> h, os |-> HostOs(g, h), environment |-> Environment(g, h), site |-> HostSite(g, h),
     subnet |-> HostSubnet(g, h), risk |-> g.nodes[h].risk, system |-> g.nodes[h].system]

\* The policies that name the host. A policy's own list of groups, when it has one,
\* hides the groups that are linked to it.
PolicyGroups(g, sp) ==
    IF g.nodes[sp].groupIds # {} THEN g.nodes[sp].groupIds ELSE Sources(g, sp, "HAS_ACCESS")

PoliciesOn(g, h) == {sp \in OfType(g, {"SUDO_POLICY"}) : h \in g.nodes[sp].hostIds}

SudoGroupsOn(g, h) == UNION {PolicyGroups(g, sp) : sp \in PoliciesOn(g, h)}

KeysOf(g, u) == {k \in OfType(g, {"SSH_KEY"}) : g.nodes[k].ownerId = u}
KeyOwners(g) == {g.nodes[k].ownerId : k \in OfType(g, {"SSH_KEY"})} \ {NoId}

MembersOf(g, group) == g.nodes[group].memberIds \cup Sources(g, group, "MEMBER_OF")

\* Slip: the links of the user's own groups are not read.
ListedGroups(g, u) == g.nodes[u].groupIds

UserGroups(g, u) == g.nodes[u].groupIds \cup Targets(g, u, "MEMBER_OF")

\* Every Linux group and every Linux user of the graph is listed at every host; what
\* differs is what the host's policies give them.
LinuxGroupsFor(g, h) ==
    {[id |-> n, members |-> MembersOf(g, n), sudo |-> n \in SudoGroupsOn(g, h),
      ssh |-> MembersOf(g, n) \cap KeyOwners(g) # {}] : n \in OfType(g, {"LINUX_GROUP"})}

LinuxUsersFor(g, h) ==
    {[id |-> u, sudo |-> UserGroups(g, u) \cap SudoGroupsOn(g, h) # {},
      ssh |-> u \in KeyOwners(g), shell |-> g.nodes[u].shell, locked |-> g.nodes[u].locked,
      adUserId |-> g.nodes[u].adUserId] : u \in OfType(g, {"LINUX_USER"})}

Authenticated(g, h, system) ==
    {l.source : l \in {k \in Links(g) : /\ k.type = "AUTHENTICATES_TO" /\ k.target = h
                                        /\ k.system = system}} \cap Ids(g)

LinuxAccountsOf(g, u) == {n \in OfType(g, {"LINUX_USER"}) : g.nodes[n].adUserId = u}

\* A directory user that has a Linux account is shown with sudo, whatever the account may do.
AdUsersFor(g, h) ==
    {[id |-> u, sudo |-> LinuxAccountsOf(g, u) # {}, ssh |-> TRUE,
      shell |-> LinuxAccountsOf(g, u) # {} /\ g.nodes[u].shell] :
        u \in Authenticated(g, h, "ACTIVE_DIRECTORY") \cap OfType(g, {"USER"})}

FreeIpaUsersFor(g, h) ==
    {[id |-> u, sudo |-> FALSE, ssh |-> TRUE, shell |-> FALSE] : u \in Authenticated(g, h, "FREE_IPA")}

\* Anything that runs on the host; `shell` is the account that does not look like a principal.
ServiceAccountsFor(g, h) ==
    {[id |-> n, shell |-> g.nodes[n].shell,
      allowed |-> CASE g.nodes[n].type = "MANAGED_SERVICE_ACCOUNT" -> {h}
                    [] g.nodes[n].type = "SERVICE_ACCOUNT" -> g.nodes[n].allowedHostIds
                    [] OTHER -> {}] : n \in Sources(g, h, "RUNS_ON") \cap Ids(g)}

DatabasesFor(g, h) == {d \in OfType(g, {"DATABASE"}) : g.nodes[d].hostId = h}

\* What connects to a database of the host, an application or not.
ConnectedTo(g, h) ==
    {l.source : l \in {k \in Links(g) : k.type = "CONNECTS_TO" /\ k.target \in DatabasesFor(g, h)}}

Names(g, S) == {g.nodes[n].name : n \in S}

\* Both are lists of names.
ApplicationsFor(g, h) == Names(g, ConnectedTo(g, h) \cap OfType(g, {"APPLICATION"}))
BusinessServicesFor(g, h) ==
    Names(g, (UNION {Targets(g, a, "PART_OF") : a \in ConnectedTo(g, h)}) \cap Ids(g))

\* computeEffectiveAccess: a Linux user with a key but no sudo has its access "inherited".
EffectiveAccess(g, h) ==
    {[id |-> u.id, kind |-> "LINUX_USER", directSsh |-> u.ssh /\ u.sudo,
      inheritedSsh |-> u.ssh /\ ~u.sudo, sudo |-> u.sudo, shell |-> u.shell] : u \in LinuxUsersFor(g, h)}
    \cup {[id |-> u.id, kind |-> "USER", directSsh |-> u.ssh, inheritedSsh |-> FALSE,
           sudo |-> u.sudo, shell |-> u.shell] : u \in AdUsersFor(g, h) \cup FreeIpaUsersFor(g, h)}

\* computeReverseAccess
ReverseAccess(g, h) ==
    [direct |-> {u.id : u \in LinuxUsersFor(g, h)},
     groups |-> {n.id : n \in {k \in LinuxGroupsFor(g, h) : k.members # {}}},
     sudo |-> {u.id : u \in {k \in LinuxUsersFor(g, h) : k.sudo}},
     sshOnly |-> {u.id : u \in {k \in LinuxUsersFor(g, h) : k.ssh /\ ~k.sudo}},
     indirect |-> {u.id : u \in AdUsersFor(g, h)},
     services |-> BusinessServicesFor(g, h)]

\* computeDependencies: a node that is found upstream is not listed again downstream.
\* Applications and services are found again by their names.
Upstream(g, h) ==
    LET groups == SudoGroupsOn(g, h)
        members == (UNION {Sources(g, n, "MEMBER_OF") : n \in groups}) \cap Ids(g)
    IN (groups \cap Ids(g)) \cup members \cup UNION {KeysOf(g, m) : m \in members}
           \cup {u.id : u \in AdUsersFor(g, h)}

Downstream(g, h) ==
    LET named == {n \in Ids(g) : g.nodes[n].name \in ApplicationsFor(g, h) \cup BusinessServicesFor(g, h)}
        beside == {n \in OfType(g, Hosts) \ {h} : /\ HostSite(g, n) = HostSite(g, h)
                                                  /\ Environment(g, n) = Environment(g, h)}
    IN (DatabasesFor(g, h) \cup named \cup beside) \ Upstream(g, h)

\* computeRiskFindings: findings of one type are the set of the nodes they name.
RiskFindings(g, h) ==
    LET users == LinuxUsersFor(g, h)
        rules == PoliciesOn(g, h)
        wildcard == {sp \in rules : g.nodes[sp].allCommands}
    IN [disabled |-> {u.id : u \in {k \in users : k.locked /\ (k.sudo \/ k.ssh)}},
        orphaned |-> {n \in OfType(g, {"LINUX_USER"}) : TouchedBy(g, n) = {}},
        unusedKey |-> {k \in UNION {KeysOf(g, u.id) : u \in users} : ~g.nodes[k].lastUsed},
        shared |-> {n.id : n \in {k \in LinuxGroupsFor(g, h) : k.sudo /\ Cardinality(k.members) > 1}},
        wildcard |-> wildcard,
        passwordless |-> {sp \in wildcard : g.nodes[sp].nopasswd},
        directRoot |-> {sp \in wildcard : g.nodes[sp].asRoot},
        production |-> {n \in {h} \cap Ids(g) : Environment(g, n) = "Production"},
        crossSystem |-> {u.id : u \in {k \in users : k.adUserId # NoId}},
        interactive |-> {n.id : n \in {k \in ServiceAccountsFor(g, h) : k.shell}}]

\* getHostDetail, below its cache; NoId where the node is not a host.
HostDetail(g, h) ==
    IF h \notin OfType(g, Hosts) THEN NoId
    ELSE [host |-> HostSummary(g, h), users |-> LinuxUsersFor(g, h), groups |-> LinuxGroupsFor(g, h),
          ad |-> AdUsersFor(g, h), ipa |-> FreeIpaUsersFor(g, h), services |-> ServiceAccountsFor(g, h),
          policies |-> PoliciesOn(g, h), keys |-> UNION {KeysOf(g, u) : u \in OfType(g, {"LINUX_USER"})},
          applications |-> ApplicationsFor(g, h), databases |-> DatabasesFor(g, h),
          businessServices |-> BusinessServicesFor(g, h)]

SudoCount(d) == Cardinality({u \in d.users : u.sudo}) + Cardinality({u \in d.ad : u.sudo})
SshCount(d) == Cardinality({u \in d.users : u.ssh}) + Cardinality(d.ad) + Cardinality(d.ipa)

\* A yes/no choice of the filter panel; any other value lets everything pass.
Choice(value, holds) == (value = "yes" => holds) /\ (value = "no" => ~holds)

\* getLinuxHostsByFilter. "Not privileged" is a host with neither sudo nor SSH, so a host
\* with only one of them is on neither side; "no" application or database filters nothing.
HostsByFilter(g, f) ==
    {h \in OfType(g, Hosts) :
        LET d == HostDetail(g, h) IN
        /\ f.environment = {} \/ d.host.environment \in f.environment
        /\ f.os = {} \/ d.host.os \in f.os
        /\ f.system = {} \/ d.host.system \in f.system
        /\ f.risk = {} \/ d.host.risk \in f.risk
        /\ Choice(f.ssh, SshCount(d) > 0)
        /\ Choice(f.sudo, SudoCount(d) > 0)
        /\ f.privileged = "yes" => SudoCount(d) > 0 /\ SshCount(d) > 0
        /\ f.privileged = "no" => SudoCount(d) = 0 /\ SshCount(d) = 0
        /\ f.application = "yes" => d.applications # {}
        /\ f.database = "yes" => d.databases # {}}
=============================================================================

------------------------- MODULE BusinessQuestions -------------------------
(***************************************************************************)
(* The questions of apps/frontend/src/services/businessQuestionEngine.ts:  *)
(* each is a query of the graph the page has loaded. An answer is the sets *)
(* of nodes it lists; its wording, its paths and its statistics, which are *)
(* sizes of these sets, are left out. What a query lists as a table (its   *)
(* raw data) is `rows`, and what it rates as a risk is `findings`.         *)
(***************************************************************************)
EXTENDS GraphView

CONSTANTS NestingLimit,      \* groups are followed to this depth (8)
          DomainAdmins,      \* the id 'group-domain-admins'
          EnterpriseAdmins,  \* the id 'group-enterprise-admins'
          ProdAccess         \* the id 'group-app-prod-access'

NoAnswer == [nodes |-> {}, identities |-> {}, systems |-> {}, services |-> {},
             findings |-> {}, rows |-> {}]

LinkedSources(g, n, type) ==
    {l.source : l \in {k \in Links(g) : k.target = n /\ k.type = type}} \cap Ids(g)

LinkedTargets(g, n, type) ==
    {l.target : l \in {k \in Links(g) : k.source = n /\ k.type = type}} \cap Ids(g)

Through(Step(_), S) == UNION {Step(x) : x \in S}

MemberSeq(g, group) ==
    LET member(l) == l.target = group /\ l.type = "MEMBER_OF" /\ l.source \in Ids(g)
        in == SelectSeq(g.links, member)
    IN [i \in DOMAIN in |-> in[i].source]

\* Depth first, in the order of the links; `visited` is shared by all branches, and
\* a group at the limit is visited although its members are not collected.
RECURSIVE NestedMembers(_, _, _, _)
NestedMembers(g, group, visited, depth) ==
    IF depth > NestingLimit \/ group \in visited
    THEN [members |-> {}, visited |-> visited]
    ELSE LET collect(acc, m) ==
                 CASE g.nodes[m].type = "USER" -> [acc EXCEPT !.members = @ \cup {m}]
                   [] g.nodes[m].type = "GROUP" ->
                          LET below == NestedMembers(g, m, acc.visited, depth + 1)
                          IN [members |-> acc.members \cup below.members \cup {m},
                              visited |-> below.visited]
                   [] OTHER -> acc
         IN FoldLeft(collect, [members |-> {}, visited |-> visited \cup {group}],
                     MemberSeq(g, group))

\* The users with a role with a permission that applies to the application.
AppUsers(g, app) ==
    LET perms == LinkedSources(g, app, "APPLIES_TO")
        roles == Through(LAMBDA p : LinkedSources(g, p, "HAS_PERMISSION"), perms)
    IN Through(LAMBDA r : LinkedSources(g, r, "HAS_PERMISSION"), roles) \cap OfType(g, {"USER"})

WhoAccessHost(g, host) ==
    LET users == LinkedSources(g, host, "AUTHENTICATES_TO")
        policies == {sp \in OfType(g, {"SUDO_POLICY"}) : host \in g.nodes[sp].hostIds}
        groups == Through(LAMBDA sp : LinkedSources(g, sp, "HAS_ACCESS"), policies)
        members == Through(LAMBDA gr : LinkedSources(g, gr, "MEMBER_OF"), groups)
                       \cap OfType(g, {"LINUX_USER"})
    IN IF host \notin OfType(g, Hosts) THEN NoAnswer
       ELSE [NoAnswer EXCEPT !.nodes = {host} \cup users \cup groups \cup members,
                             !.identities = users \cup members]

WhoAccessApp(g, app) ==
    IF app \notin OfType(g, {"APPLICATION"}) THEN NoAnswer
    ELSE [NoAnswer EXCEPT !.nodes = {app} \cup AppUsers(g, app), !.identities = AppUsers(g, app)]

DomainAdminUsers(g) ==
    LET users == LinkedSources(g, DomainAdmins, "MEMBER_OF") \cap OfType(g, {"USER"})
    IN IF DomainAdmins \notin Ids(g) THEN NoAnswer
       ELSE [NoAnswer EXCEPT !.nodes = {DomainAdmins} \cup users, !.identities = users]

InheritDomainAdmin(g) ==
    LET members == NestedMembers(g, DomainAdmins, {}, 0).members
    IN IF DomainAdmins \notin Ids(g) THEN NoAnswer
       ELSE [NoAnswer EXCEPT
                !.nodes = ({DomainAdmins, EnterpriseAdmins} \cap Ids(g)) \cup members,
                !.identities = members \cap OfType(g, {"USER"})]

Production(g) == {n \in Ids(g) : g.nodes[n].environment = "Production"}

\* The group for production access is followed one level down only.
ProductionAccess(g) ==
    LET hosts == OfType(g, Hosts) \cap (Production(g) \cup {n \in Ids(g) : "prod" \in g.nodes[n].words})
        apps == OfType(g, {"APPLICATION"}) \cap Production(g)
        members == LinkedSources(g, ProdAccess, "MEMBER_OF")
        nested == members \cap OfType(g, {"GROUP"})
        grouped == members \cup Through(LAMBDA n : LinkedSources(g, n, "MEMBER_OF"), nested)
        users == OfType(g, {"USER"}) \cap
                 (Through(LAMBDA h : LinkedSources(g, h, "AUTHENTICATES_TO"), hosts)
                  \cup Through(LAMBDA a : AppUsers(g, a), apps)
                  \cup (IF ProdAccess \in Ids(g) THEN grouped ELSE {}))
    IN [NoAnswer EXCEPT !.nodes = hosts \cup apps \cup users \cup ({ProdAccess} \cap Ids(g)),
                        !.identities = users, !.systems = hosts \cup apps]

FinanceAppAccess(g) ==
    LET apps == {a \in OfType(g, {"APPLICATION"}) :
                     g.nodes[a].words \cap {"payment", "finance"} # {}}
        users == Through(LAMBDA a : AppUsers(g, a), apps)
    IN [NoAnswer EXCEPT !.nodes = apps \cup users, !.identities = users, !.systems = apps]

SudoPolicies(g) == OfType(g, {"SUDO_POLICY"})

SudoUsers(g) ==
    LET groups == Through(LAMBDA sp : LinkedSources(g, sp, "HAS_ACCESS"), SudoPolicies(g))
        users == Through(LAMBDA gr : LinkedSources(g, gr, "MEMBER_OF"), groups)
                     \cap OfType(g, {"LINUX_USER"})
    IN [NoAnswer EXCEPT !.nodes = SudoPolicies(g) \cup groups \cup users,
                        !.identities = users, !.systems = SudoPolicies(g)]

\* The groups with a policy, and the group with gid 10 (wheel).
SudoGroups(g) ==
    LET granted == Through(LAMBDA sp : LinkedSources(g, sp, "HAS_ACCESS"), SudoPolicies(g))
        groups == {n \in OfType(g, {"LINUX_GROUP"}) : n \in granted \/ g.nodes[n].wheel}
    IN [NoAnswer EXCEPT !.nodes = SudoPolicies(g) \cup groups, !.identities = groups]

\* Every service account is rated, whatever its risk or its links: the condition that
\* computes isPrivileged is followed by "|| true".
PrivilegedServiceAccounts(g) ==
    LET accounts == OfType(g, ServiceAccounts)
    IN [NoAnswer EXCEPT !.nodes = accounts, !.identities = accounts, !.findings = accounts]

SshUsers(g) ==
    LET keys == OfType(g, {"SSH_KEY"})
        owners == {g.nodes[k].ownerId : k \in keys} \cap OfType(g, {"LINUX_USER"})
    IN [NoAnswer EXCEPT !.nodes = keys \cup owners, !.identities = owners]

OrphanGroups(g) ==
    LET orphans == {n \in OfType(g, {"GROUP", "LINUX_GROUP"}) :
                        /\ LinkedSources(g, n, "MEMBER_OF") = {}
                        /\ g.nodes[n].memberIds = {}}
    IN [NoAnswer EXCEPT !.nodes = orphans, !.identities = orphans]

DisabledUsersAccess(g) ==
    LET users == {u \in OfType(g, {"USER"}) :
                      g.nodes[u].status = "DISABLED" /\ TouchedBy(g, u) # {}}
    IN [NoAnswer EXCEPT !.nodes = users, !.identities = users, !.findings = users]

CrossSystemAccounts(g) ==
    LET linked == {n \in OfType(g, {"LINUX_USER"}) : g.nodes[n].adUserId # NoId}
        all == linked \cup ({g.nodes[n].adUserId : n \in linked} \cap Ids(g))
    IN [NoAnswer EXCEPT !.nodes = all, !.identities = all]

HighestRiskIdentities(g) ==
    LET rated == {n \in OfType(g, {"USER", "LINUX_USER", "SERVICE_ACCOUNT"}) :
                      g.nodes[n].risk \in {"CRITICAL", "HIGH", "MEDIUM"}}
        levels == {g.nodes[n].risk : n \in rated} \ {"MEDIUM"}
    IN [NoAnswer EXCEPT !.nodes = rated, !.identities = rated, !.findings = levels]

DatabasesOn(g, host) == {d \in OfType(g, {"DATABASE"}) : g.nodes[d].hostId = host}

\* The applications that connect to a database of the host, and the services they are part of.
BsvcDependOnHost(g, host) ==
    LET apps == Through(LAMBDA d : LinkedSources(g, d, "CONNECTS_TO"), DatabasesOn(g, host))
                    \cap OfType(g, {"APPLICATION"})
        services == Through(LAMBDA a : LinkedTargets(g, a, "PART_OF"), apps)
                        \cap OfType(g, {"BUSINESS_SERVICE"})
        systems == DatabasesOn(g, host) \cup apps
    IN IF host \notin Ids(g) THEN NoAnswer
       ELSE [NoAnswer EXCEPT !.nodes = {host} \cup systems \cup services,
                             !.systems = systems, !.services = services]

HostCompromiseImpact(g, host) ==
    LET users == LinkedSources(g, host, "AUTHENTICATES_TO") \cap OfType(g, {"USER"})
    IN IF host \notin Ids(g) THEN NoAnswer
       ELSE [BsvcDependOnHost(g, host) EXCEPT !.identities = users]

GroupRemovalImpact(g, group) ==
    LET members == LinkedSources(g, group, "MEMBER_OF") \cap OfType(g, {"USER", "GROUP"})
        roles == LinkedTargets(g, group, "HAS_PERMISSION") \cap OfType(g, {"ROLE"})
        perms == Through(LAMBDA r : LinkedTargets(g, r, "HAS_PERMISSION"), roles)
                     \cap OfType(g, {"PERMISSION"})
        apps == Through(LAMBDA p : LinkedTargets(g, p, "APPLIES_TO"), perms)
                    \cap OfType(g, {"APPLICATION"})
    IN IF group \notin OfType(g, {"GROUP", "LINUX_GROUP"}) THEN NoAnswer
       ELSE [NoAnswer EXCEPT !.nodes = {group} \cup members \cup roles \cup perms \cup apps,
                             !.identities = members, !.systems = apps]

AppRemovalUserImpact(g, app) ==
    LET services == LinkedTargets(g, app, "PART_OF") \cap OfType(g, {"BUSINESS_SERVICE"})
    IN IF app \notin OfType(g, {"APPLICATION"}) THEN NoAnswer
       ELSE [NoAnswer EXCEPT !.nodes = {app} \cup AppUsers(g, app) \cup services,
                             !.identities = AppUsers(g, app), !.services = services]

NestedGroupMembership(g) ==
    LET nested(n) == LinkedSources(g, n, "MEMBER_OF") \cap OfType(g, {"GROUP"})
        outer == {n \in OfType(g, {"GROUP"}) : nested(n) # {}}
    IN [NoAnswer EXCEPT !.nodes = outer \cup Through(nested, outer)]

DirectPrivilegeRoles(g) ==
    LET roles == OfType(g, {"ROLE"})
        perms(r) == LinkedTargets(g, r, "HAS_PERMISSION") \cap OfType(g, {"PERMISSION"})
        apps(r) == Through(LAMBDA p : LinkedTargets(g, p, "APPLIES_TO"), perms(r))
                       \cap OfType(g, {"APPLICATION"})
    IN [NoAnswer EXCEPT !.nodes = roles \cup Through(perms, roles),
                        !.rows = {<<r, Cardinality(perms(r)), apps(r)>> : r \in roles}]

AdUsersLinuxAccess(g) ==
    LET linux(u) == {n \in OfType(g, {"LINUX_USER"}) : g.nodes[n].adUserId = u}
        users == {u \in OfType(g, {"USER"}) :
                      g.nodes[u].system = "ACTIVE_DIRECTORY" /\ linux(u) # {}}
        all == users \cup Through(linux, users)
    IN [NoAnswer EXCEPT !.nodes = all, !.identities = all]

HostsNoApps(g) ==
    LET used == {h \in OfType(g, Hosts) : \E l \in Links(g) :
                     \/ l.type = "CONNECTS_TO" /\ l.target \in DatabasesOn(g, h)
                     \/ l.type = "RUNS_ON" /\ l.target = h}
        free == OfType(g, Hosts) \ used
    IN [NoAnswer EXCEPT !.nodes = free, !.systems = free]

\* A group counts for a user by its own list of members or by a link.
GroupsOf(g, u) ==
    {n \in OfType(g, {"GROUP"}) :
        \/ u \in g.nodes[n].memberIds
        \/ \E l \in Links(g) : l.source = u /\ l.target = n /\ l.type = "MEMBER_OF"}

UsersInMultipleGroups(g) ==
    LET users == {u \in OfType(g, {"USER"}) : GroupsOf(g, u) # {}}
    IN [NoAnswer EXCEPT !.nodes = users, !.identities = users,
                        !.rows = {<<u, Cardinality(GroupsOf(g, u))>> : u \in users}]

CriticalApplications(g) ==
    LET services(a) == LinkedTargets(g, a, "PART_OF") \cap OfType(g, {"BUSINESS_SERVICE"})
        apps == {a \in OfType(g, {"APPLICATION"}) :
                     a \in Production(g) \/ \E s \in services(a) : g.nodes[s].critical}
        all == Through(services, apps)
    IN [NoAnswer EXCEPT !.nodes = apps \cup all, !.systems = apps, !.services = all,
                        !.rows = {<<a, services(a)>> : a \in apps}]

SudoWildcardRules(g) ==
    LET rules == {sp \in SudoPolicies(g) : g.nodes[sp].allCommands}
    IN [NoAnswer EXCEPT !.nodes = rules, !.systems = rules, !.findings = rules]

\* The groups whose name has one of the four words, and their direct members.
PrivilegedGroupMembers(g) ==
    LET groups == {n \in OfType(g, {"GROUP"}) :
                       g.nodes[n].words \cap {"admin", "enterprise", "sudo", "domain"} # {}}
        users == Through(LAMBDA n : LinkedSources(g, n, "MEMBER_OF"), groups)
                     \cap OfType(g, {"USER"})
    IN [NoAnswer EXCEPT !.nodes = groups \cup users, !.identities = users]

OrphanServiceAccounts(g) ==
    LET orphans == {n \in OfType(g, ServiceAccounts) :
                        Cardinality(TouchedBy(g, n)) <= 1 /\ g.nodes[n].managedBy = NoId}
    IN [NoAnswer EXCEPT !.nodes = orphans, !.identities = orphans]

AppUserCount(g) ==
    [NoAnswer EXCEPT !.rows = {<<a, Cardinality(AppUsers(g, a))>> : a \in OfType(g, {"APPLICATION"})}]

\* The catalog: each question has a category, and the kind of node it is about, if any.
Entry(id, category, inputType) == [id |-> id, category |-> category, inputType |-> inputType]

\* Who has what: of two of them the user chooses the host or the application.
AccessQuestions ==
    {Entry("who-access-host", "Access", "host"), Entry("who-access-app", "Access", "application")}
    \cup {Entry(id, "Access", "none") : id \in {"production-access", "finance-app-access"}}
    \cup {Entry(id, "Identity", "none") :
            id \in {"domain-admins", "inherit-domain-admin", "orphan-groups", "cross-system-accounts"}}
    \cup {Entry(id, "Linux", "none") : id \in {"sudo-users", "sudo-groups", "ssh-users"}}
    \cup {Entry("privileged-service-accounts", "Privilege", "none")}
    \cup {Entry(id, "Risk", "none") : id \in {"disabled-users-access", "highest-risk-identities"}}

\* What depends on a node that the user chooses.
ImpactQuestions ==
    {Entry("bsvc-depend-on-host", "Business Impact", "host"),
     Entry("host-compromise-impact", "Business Impact", "host"),
     Entry("group-removal-impact", "Business Impact", "group"),
     Entry("app-removal-user-impact", "Business Impact", "application")}

\* How the graph is built.
StructureQuestions ==
    {Entry(id, "Identity", "none") : id \in {"nested-group-membership", "users-in-multiple-groups"}}
    \cup {Entry(id, "Privilege", "none") : id \in {"direct-privilege-roles", "privileged-group-members"}}
    \cup {Entry(id, "Infrastructure", "none") :
            id \in {"hosts-no-apps", "critical-applications", "orphan-service-accounts"}}
    \cup {Entry("ad-users-linux-access", "Linux", "none"), Entry("sudo-wildcard-rules", "Risk", "none"),
          Entry("app-user-count", "Access", "none")}

QuestionCatalog == AccessQuestions \cup ImpactQuestions \cup StructureQuestions

Categories == {"All"} \cup {q.category : q \in QuestionCatalog}

\* The questions that the page lists under a category.
FilteredQuestions(category) == {q \in QuestionCatalog : category \in {"All", q.category}}

\* What the input field of a question offers.
Suggestions(g, kind) ==
    CASE kind = "host" -> OfType(g, Hosts)
      [] kind = "application" -> OfType(g, {"APPLICATION"})
      [] kind = "group" -> OfType(g, {"GROUP", "LINUX_GROUP"})
      [] kind = "user" -> OfType(g, {"USER", "LINUX_USER"})
      [] OTHER -> {}

\* executeQuestion, below its cache.
Execute(g, question, input) ==
    CASE question = "who-access-host" -> WhoAccessHost(g, input)
      [] question = "who-access-app" -> WhoAccessApp(g, input)
      [] question = "domain-admins" -> DomainAdminUsers(g)
      [] question = "inherit-domain-admin" -> InheritDomainAdmin(g)
      [] question = "production-access" -> ProductionAccess(g)
      [] question = "finance-app-access" -> FinanceAppAccess(g)
      [] question = "sudo-users" -> SudoUsers(g)
      [] question = "sudo-groups" -> SudoGroups(g)
      [] question = "privileged-service-accounts" -> PrivilegedServiceAccounts(g)
      [] question = "ssh-users" -> SshUsers(g)
      [] question = "orphan-groups" -> OrphanGroups(g)
      [] question = "disabled-users-access" -> DisabledUsersAccess(g)
      [] question = "cross-system-accounts" -> CrossSystemAccounts(g)
      [] question = "highest-risk-identities" -> HighestRiskIdentities(g)
      [] question = "bsvc-depend-on-host" -> BsvcDependOnHost(g, input)
      [] question = "host-compromise-impact" -> HostCompromiseImpact(g, input)
      [] question = "group-removal-impact" -> GroupRemovalImpact(g, input)
      [] question = "app-removal-user-impact" -> AppRemovalUserImpact(g, input)
      [] question = "nested-group-membership" -> NestedGroupMembership(g)
      [] question = "direct-privilege-roles" -> DirectPrivilegeRoles(g)
      [] question = "ad-users-linux-access" -> AdUsersLinuxAccess(g)
      [] question = "hosts-no-apps" -> HostsNoApps(g)
      [] question = "users-in-multiple-groups" -> UsersInMultipleGroups(g)
      [] question = "critical-applications" -> CriticalApplications(g)
      [] question = "sudo-wildcard-rules" -> SudoWildcardRules(g)
      [] question = "privileged-group-members" -> PrivilegedGroupMembers(g)
      [] question = "orphan-service-accounts" -> OrphanServiceAccounts(g)
      [] question = "app-user-count" -> AppUserCount(g)
      [] OTHER -> NoAnswer
=============================================================================

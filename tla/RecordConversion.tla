--------------------------- MODULE RecordConversion ---------------------------
(***************************************************************************)
(* GraphConversionService.convert: the records of an import, correlated,   *)
(* become nodes and then, with the nodes indexed by every value that may   *)
(* refer to them, relationships.  Again one handler whose iterations are   *)
(* steps here.  Of the properties of a node only the fields and the group  *)
(* are kept.                                                               *)
(***************************************************************************)
EXTENDS RecordCorrelation, SequencesExt, FiniteSetsExt, TLC

VARIABLES converted,   \* records that have become nodes
          nodes,       \* the nodes, in the order in which they were made
          nodeOf,      \* record -> the id of its node
          linked,      \* records whose references have been followed
          links,       \* relationships
          unresolved   \* references that led to no node, or to several

conversionVars == <<converted, nodes, nodeOf, linked, links, unresolved>>

------------------------------------------------------------------------------
NODE_TYPES == [type \in {"Users", "Group Memberships", "Managers"} |-> "USER"] @@
              ("Groups" :> "GROUP" @@ "Departments" :> "DEPARTMENT" @@ "Teams" :> "TEAM" @@ "Roles" :> "ROLE"
               @@ "Permissions" :> "PERMISSION" @@ "Computers" :> "COMPUTER" @@ "Linux Hosts" :> "HOST"
               @@ "Linux Users" :> "LINUX_USER" @@ "Linux Groups" :> "LINUX_GROUP"
               @@ "Sudo Policies" :> "SUDO_POLICY" @@ "SSH Keys" :> "SSH_KEY"
               @@ "Applications" :> "APPLICATION" @@ "Databases" :> "DATABASE"
               @@ "Business Services" :> "BUSINESS_SERVICE" @@ "Service Accounts" :> "SERVICE_ACCOUNT"
               @@ "Organizational Units" :> "ORGANIZATIONAL_UNIT" @@ "Domains" :> "DOMAIN")

\* The fields that name a node that is no identity, in order.
KEY_FIELDS == "GROUP" :> <<"objectGUID", "sid", "distinguishedName", "groupName">>
              @@ "DEPARTMENT" :> <<"department", "displayName">> @@ "TEAM" :> <<"team", "displayName">>
              @@ "ROLE" :> <<"roleName", "displayName">> @@ "PERMISSION" :> <<"permissionName", "displayName">>
              @@ "COMPUTER" :> <<"objectGUID", "sid", "hostname", "fqdn">> @@ "HOST" :> <<"hostname", "fqdn">>
              @@ "LINUX_USER" :> <<"uid", "username">> @@ "LINUX_GROUP" :> <<"gid", "groupName">>
              @@ "SUDO_POLICY" :> <<"sudoPolicy", "displayName">> @@ "SSH_KEY" :> <<"fingerprint", "sshPublicKey">>
              @@ "APPLICATION" :> <<"applicationName">> @@ "DATABASE" :> <<"databaseName">>
              @@ "BUSINESS_SERVICE" :> <<"businessService">> @@ "DOMAIN" :> <<"domain">>
              @@ "ORGANIZATIONAL_UNIT" :> <<"distinguishedName">>
Identities == {"USER", "SERVICE_ACCOUNT"}
DisplayFields(type) ==
    IF type = "USER" THEN <<"displayName", "username", "email", "distinguishedName", "groupName">>
    ELSE <<"displayName", "groupName", "department", "team", "applicationName", "databaseName",
           "businessService", "hostname", "username", "email", "distinguishedName">>

\* The value of the first of some fields that a group has.
FirstOf(members, fields) ==
    LET having == {i \in DOMAIN fields : MergedField(members, fields[i]) # Blank}
    IN IF having = {} THEN Blank
       ELSE MergedField(members, fields[CHOOSE i \in having : \A j \in having : i <= j])

\* correlationGroups is a map by canonical id: of groups with the same id the last remains.
LastGroup(r) ==
    LET same == {g \in DOMAIN groups : Canonical(g) = Canonical(GroupOf(r))}
    IN CHOOSE g \in same : \A h \in same : h <= g

NodeOf(r) ==
    LET type == NODE_TYPES[records[r].type]
        g == LastGroup(r)
        natural == FirstOf(groups[g].members, KEY_FIELDS[type])
        id == IF type \in Identities THEN Canonical(g)
              ELSE IF natural = Blank THEN <<type, "record", r>>
              ELSE <<type, Lower(natural)>>
    IN [id |-> id, type |-> type, group |-> g, valid |-> records[r].valid,
        displayName |-> FirstOf(groups[g].members, DisplayFields(type))]

Node(id) == nodes[CHOOSE i \in DOMAIN nodes : nodes[i].id = id]
NodeIds == {nodes[i].id : i \in DOMAIN nodes}

ConversionInit ==
    /\ converted = 0 /\ nodes = <<>> /\ nodeOf = [r \in {} |-> <<>>]
    /\ linked = 0 /\ links = {} /\ unresolved = {}

\* The next record becomes a node, unless its type has none or the node is there.
ConvertNode ==
    /\ converted < Len(records)
    /\ converted' = converted + 1
    /\ LET r == converted + 1
       IN IF records[r].type \notin DOMAIN NODE_TYPES THEN UNCHANGED <<nodes, nodeOf>>
          ELSE /\ nodeOf' = [x \in DOMAIN nodeOf \cup {r} |-> IF x = r THEN NodeOf(r).id ELSE nodeOf[x]]
               /\ nodes' = IF NodeOf(r).id \in NodeIds THEN nodes ELSE Append(nodes, NodeOf(r))
    /\ UNCHANGED <<linked, links, unresolved>>

------------------------------------------------------------------------------
(* References                                                              *)

REFERENCE_FIELDS == {"objectGUID", "sid", "distinguishedName", "employeeId", "username",
    "samAccountName", "userPrincipalName", "email", "groupName", "hostname", "applicationName",
    "department", "team", "roleName", "permissionName", "databaseName", "businessService"}

\* A node is found by the values of these fields and by its name (Blank when it is shown by
\* its id, which nobody writes in a file).
Referrers(node) ==
    ({Lower(MergedField(groups[node.group].members, f)) : f \in REFERENCE_FIELDS}
      \cup {Lower(node.displayName)}) \ {Blank}
Matches(value) == {nodes[i].id : i \in {n \in DOMAIN nodes : Lower(value) \in Referrers(nodes[n])}}

\* Slip: an ambiguous reference takes any of its matches.
ResolveAny(value, excluded) == Matches(value) \ excluded

\* resolve: the one node that a value refers to, as a set.
Resolve(value, excluded) ==
    LET candidates == Matches(value) \ excluded
    IN IF Cardinality(candidates) = 1 THEN candidates ELSE {}

RULES == {<<"memberOf", "MEMBER_OF">>, <<"groupName", "MEMBER_OF">>, <<"linuxGroups", "MEMBER_OF">>,
    <<"parentGroup", "MEMBER_OF">>, <<"department", "BELONGS_TO">>, <<"team", "BELONGS_TO">>,
    <<"manager", "REPORTS_TO">>, <<"role", "HAS_ROLE">>, <<"roleName", "HAS_ROLE">>,
    <<"permission", "GRANTS">>, <<"permissionName", "GRANTS">>, <<"accessTo", "HAS_ACCESS_TO">>,
    <<"domain", "EXISTS_IN">>, <<"ou", "EXISTS_IN">>, <<"site", "LOCATED_IN">>, <<"location", "LOCATED_IN">>,
    <<"uses", "USES">>, <<"host", "RUNS_ON">>, <<"hostname", "RUNS_ON">>, <<"runsOn", "RUNS_ON">>,
    <<"businessService", "SUPPORTS">>, <<"authenticatesTo", "AUTHENTICATES_TO">>,
    <<"owner", "MANAGED_BY">>, <<"managedBy", "MANAGED_BY">>, <<"sshPublicKey", "HAS_SSH_KEY">>,
    <<"sshKey", "HAS_SSH_KEY">>, <<"sudoPolicy", "HAS_SUDO_POLICY">>}

Link(source, type, target) == [source |-> source, type |-> type, target |-> target]
Missing(r, field, value) == [record |-> r, field |-> field, value |-> value]

\* The node that the references of a record start from, as a set.
SourceFields == <<"objectGUID", "sid", "distinguishedName", "employeeId", "username",
                  "samAccountName", "userPrincipalName", "email">>
SourceNode(r) ==
    LET given == {i \in DOMAIN SourceFields : Field(records[r], SourceFields[i]) # Blank}
    IN IF r \in DOMAIN nodeOf THEN {nodeOf[r]}
       ELSE IF given = {} THEN {}
            ELSE Resolve(Field(records[r], SourceFields[CHOOSE i \in given : \A j \in given : i <= j]), {})

\* members name the other end, and are looked up among all nodes.
MemberLinks(r, source) ==
    {Link(m, "MEMBER_OF", source) :
        m \in (UNION {Resolve(v, {}) : v \in Parts(Field(records[r], "members"))}) \ {source}}
LostMembers(r, source) ==
    {Missing(r, "members", v) :
        v \in {w \in Parts(Field(records[r], "members")) : Resolve(w, {}) \ {source} = {}}}

RuleLinks(r, source) ==
    UNION {{Link(source, rule[2], t) :
               t \in UNION {Resolve(v, {source}) : v \in Parts(Field(records[r], rule[1]))}} : rule \in RULES}
LostReferences(r, source) ==
    UNION {{Missing(r, rule[1], v) :
               v \in {w \in Parts(Field(records[r], rule[1])) : Resolve(w, {source}) = {}}} : rule \in RULES}

\* The references of the next record; relationships are kept once.
ConvertLinks ==
    /\ converted = Len(records) /\ linked < Len(records)
    /\ linked' = linked + 1
    /\ LET r == linked + 1
       IN \/ /\ SourceNode(r) = {}
             /\ UNCHANGED <<links, unresolved>>
          \/ \E source \in SourceNode(r) :
                 /\ links' = links \cup MemberLinks(r, source) \cup RuleLinks(r, source)
                 /\ unresolved' = unresolved \cup LostMembers(r, source) \cup LostReferences(r, source)
    /\ UNCHANGED <<converted, nodes, nodeOf>>

Convert == ConvertNode \/ ConvertLinks

------------------------------------------------------------------------------
(* What the result says beside the graph                                   *)

\* manualReviewItems: groups to look at, and references that matter.
ReviewItems ==
    {groups[g].members : g \in {h \in DOMAIN groups : NeedsReview(h)}}
        \cup {{u.record} : u \in {v \in unresolved : v.field \in {"manager", "groupName", "memberOf"}}}

Preview(nodeLimit) ==
    LET visible == {nodes[i].id : i \in 1..Min({nodeLimit, Len(nodes)})}
    IN [nodes |-> visible, links |-> {k \in links : k.source \in visible /\ k.target \in visible}]

------------------------------------------------------------------------------
(* Properties                                                              *)

\* Every relationship is between two nodes and stems from a reference that names no third
\* one: also not a node that is made from a later record.
LinksAreUnambiguous ==
    \A k \in links :
        /\ {k.source, k.target} \subseteq NodeIds /\ k.source # k.target
        /\ \E r \in 1..linked : \E f \in DOMAIN records[r].fields : \E v \in Parts(records[r].fields[f]) :
               \/ k.target \in Matches(v) /\ Matches(v) \subseteq {k.source, k.target}
               \/ f = "members" /\ Matches(v) = {k.source}
==============================================================================

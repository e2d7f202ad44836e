---------------------------- MODULE DirectoryGraphs ----------------------------
(***************************************************************************)
(* How the objects of a directory become a graph: the mappers of Active    *)
(* Directory, FreeIPA, Entra ID and of a Linux host.                       *)
(*                                                                         *)
(* An object has the name it is referred to by (a DN, an Entra id, a user  *)
(* or group name), the identifier its node is named after, None when the   *)
(* directory has none, and refs: the pairs of an attribute and the name it *)
(* holds.  pos is its place in the extraction.  A hash is what it is of.   *)
(***************************************************************************)
EXTENDS Naturals, FiniteSets

CONSTANT None

Link(type, source, target) == [type |-> type, source |-> source, target |-> target]

\* Links are only drawn between names that the objects of this extraction have.
Resolved(type, sources, targets) == {Link(type, s, t) : s \in sources, t \in targets}

-----------------------------------------------------------------------------
(* active-directory.mapper.ts, mapAdGraph *)

AdNode(o) == <<"ad", IF o.guid = None THEN o.name ELSE o.guid>>
AdNamed(objects, name) == {AdNode(o) : o \in {p \in objects : p.name = name}}
AdWithSid(objects, sid) == {AdNode(o) : o \in {p \in objects : p.sid = sid /\ sid # None}}

\* The relationship of each attribute that holds names, and of those that hold
\* security identifiers; a trust is matched by the name of its partner.
AdNames == [memberOf |-> "MEMBER_OF", manager |-> "REPORTS_TO", managedBy |-> "MANAGED_BY",
            gPLink |-> "HAS_GPO", siteObject |-> "LOCATED_IN"]
AdSids  == [sidHistory |-> "HAS_SID_HISTORY", primaryGroupID |-> "HAS_PRIMARY_GROUP"]

AdParent(o) == IF o.type = "ORGANIZATIONAL_UNIT" THEN "EXISTS_IN" ELSE "BELONGS_TO"

AdLinksOf(objects, o) ==
    UNION {CASE ref[1] \in DOMAIN AdNames -> Resolved(AdNames[ref[1]], {AdNode(o)}, AdNamed(objects, ref[2]))
             [] ref[1] \in DOMAIN AdSids -> Resolved(AdSids[ref[1]], {AdNode(o)}, AdWithSid(objects, ref[2]))
             [] ref[1] = "servicePrincipalName" -> {Link("HAS_SPN", AdNode(o), AdNode(o))}
             [] ref[1] = "trustPartner" -> Resolved("TRUSTS", {AdNode(o)}, AdNamed(objects, ref[2]))
             [] ref[1] = "parent" -> Resolved(AdParent(o), {AdNode(o)}, AdNamed(objects, ref[2]))
             [] OTHER -> {} : ref \in o.refs}

MapAd(objects) ==
    [nodes |-> {[id |-> AdNode(o), of |-> o] : o \in objects},
     links |-> UNION {AdLinksOf(objects, o) : o \in objects}]

-----------------------------------------------------------------------------
(* freeipa.mapper.ts *)

\* normalizeFreeipaEntry turns a missing ipaUniqueID into "", which ?? keeps: the
\* objects without one are all the node "ipa:".
FreeipaNode(o) == <<"ipa", o.guid>>
FreeipaNamed(objects, name) == {FreeipaNode(o) : o \in {p \in objects : p.name = name}}

FreeipaOut == [memberOf |-> "MEMBER_OF", memberAllowCmd |-> "ALLOWS", memberDenyCmd |-> "DENIES",
               memberService |-> "AUTHENTICATES_TO", manager |-> "REPORTS_TO", managedBy |-> "MANAGED_BY"]
FreeipaIn  == {"member", "memberUser", "memberHost"}

\* Slip: what an object lists as its members is drawn as what it is a member of.
FreeipaLinksOut(objects, o) ==
    UNION {CASE ref[1] \in DOMAIN FreeipaOut -> Resolved(FreeipaOut[ref[1]], {FreeipaNode(o)}, FreeipaNamed(objects, ref[2]))
             [] ref[1] \in FreeipaIn -> Resolved("MEMBER_OF", {FreeipaNode(o)}, FreeipaNamed(objects, ref[2]))
             [] OTHER -> {} : ref \in o.refs}

\* The keys of an object are linked to nodes that no mapper makes.
FreeipaLinksOf(objects, o) ==
    UNION {CASE ref[1] \in DOMAIN FreeipaOut -> Resolved(FreeipaOut[ref[1]], {FreeipaNode(o)}, FreeipaNamed(objects, ref[2]))
             [] ref[1] \in FreeipaIn -> Resolved("MEMBER_OF", FreeipaNamed(objects, ref[2]), {FreeipaNode(o)})
             [] ref[1] = "sshPublicKey" -> {Link("HAS_SSH_KEY", FreeipaNode(o), <<"ssh", ref[2]>>)}
             [] OTHER -> {} : ref \in o.refs}

\* addRel drops what a node would have to itself.
MapFreeipa(objects) ==
    [nodes |-> {[id |-> FreeipaNode(o), of |-> o] : o \in objects},
     links |-> {l \in UNION {FreeipaLinksOf(objects, o) : o \in objects} : l.source # l.target}]

-----------------------------------------------------------------------------
(* entra-id.mapper.ts *)

EntraNode(o) == <<"entra", o.type, o.guid>>
EntraNamed(objects, id) == {EntraNode(o) : o \in {p \in objects : p.guid = id}}

\* The relationships from an object to itself are all dropped by addRel; the types
\* that have others (assignments of roles, consents) are never extracted.
EntraOut == [memberOf |-> "MEMBER_OF"]
EntraIn  == [members |-> "MEMBER_OF", owners |-> "OWNS", registeredOwners |-> "OWNS",
             registeredUsers |-> "REGISTERED_DEVICE"]

EntraLinksOf(objects, o) ==
    UNION {CASE ref[1] \in DOMAIN EntraOut -> Resolved(EntraOut[ref[1]], {EntraNode(o)}, EntraNamed(objects, ref[2]))
             [] ref[1] \in DOMAIN EntraIn -> Resolved(EntraIn[ref[1]], EntraNamed(objects, ref[2]), {EntraNode(o)})
             [] OTHER -> {} : ref \in o.refs}

MapEntra(objects) ==
    [nodes |-> {[id |-> EntraNode(o), of |-> o] : o \in objects},
     links |-> {l \in UNION {EntraLinksOf(objects, o) : o \in objects} : l.source # l.target}]

-----------------------------------------------------------------------------
(* linux-mapper.ts: a node is named after what it is called on the host *)

LinuxUser(name)  == <<"linux", "user", name>>
LinuxGroup(name) == <<"linux", "group", name>>

\* isHumanAccount
HumanUid == 1000
Humans(passwd) == {e \in passwd : e.uid >= HumanUid}

PasswdNodes(passwd) == {[id |-> LinuxUser(e.name), of |-> e] : e \in Humans(passwd)}
GroupNodes(groups)  == {[id |-> LinuxGroup(g.name), of |-> g] : g \in groups}
SudoNodes(rules)    == {[id |-> <<"linux", "sudo", r.name>>, of |-> r] : r \in rules}
KeyNodes(keys)      == {[id |-> <<"linux", "sshkey", k.name>>, of |-> k] : k \in keys}

\* A member that is no human account has the node's name it would have, and no node.
GroupLinks(groups) ==
    UNION {Resolved("MEMBER_OF", {LinuxUser(m) : m \in g.members}, {LinuxGroup(g.name)}) : g \in groups}

KeyLinks(keys, passwd) ==
    UNION {Resolved("HAS_SSH_KEY", {LinuxUser(e.name) : e \in {h \in Humans(passwd) : h.name = k.user}},
                    {<<"linux", "sshkey", k.name>>}) : k \in keys}

\* mapHostIdentity: the operating system runs on the host, when it is known.
HostNodes(host) ==
    {[id |-> <<"linux", "host", host.name>>, of |-> host]}
        \cup (IF host.os = None THEN {} ELSE {[id |-> <<"linux", "os", host.os>>, of |-> host]})
HostLinks(host) ==
    IF host.os = None THEN {}
    ELSE {Link("RUNS_ON", <<"linux", "os", host.os>>, <<"linux", "host", host.name>>)}

BuildLinuxGraph(passwd, groups, rules, keys, host) ==
    [nodes |-> PasswdNodes(passwd) \cup GroupNodes(groups) \cup SudoNodes(rules) \cup KeyNodes(keys)
                   \cup HostNodes(host),
     links |-> GroupLinks(groups) \cup KeyLinks(keys, passwd) \cup HostLinks(host)]

-----------------------------------------------------------------------------
(* EnterpriseGraphService.writeVersion: nodes are merged by their id, the last of   *)
(* those that share one is what it shows; a relationship is merged when Neo4j has   *)
(* both its ends.                                                                    *)

Last(nodes) == {n \in nodes : \A m \in nodes : m.id = n.id => m.of.pos <= n.of.pos}

Merge(stored, mapped) ==
    LET known == {n.id : n \in stored.nodes \cup mapped.nodes}
    IN  [nodes |-> {n \in stored.nodes : \A m \in mapped.nodes : m.id # n.id} \cup Last(mapped.nodes),
         links |-> stored.links \cup {l \in mapped.links : l.source \in known /\ l.target \in known}]
===============================================================================

---------------------------- MODULE IdentityRecords ----------------------------
(***************************************************************************)
(* The data of the enterprise identities: the table of identity fields,    *)
(* the score of a graph node against an identity, and what an identity     *)
(* derives from the sources that were merged into it.                      *)
(*                                                                         *)
(* A property value is abstracted to a value and what normalizeMatch makes *)
(* of it; Blank is a value of white space only.                            *)
(***************************************************************************)
EXTENDS Naturals, Sequences, SequencesExt, FiniteSetsExt

CONSTANTS Nodes,    \* ids of graph nodes, and of the identities created from them
          Values,   \* values of properties
          Norm,     \* value -> its normalised form
          Blank,    \* a value that is not empty but only white space
          Groups    \* names of groups

ASSUME RecordsAssumption == Blank \in Values /\ Norm \in [Values -> Values]

------------------------------------------------------------------------------
Field(name, score, keys) == [name |-> name, score |-> score, keys |-> keys]

\* Of the aliases of a field those that differ in more than the style of spelling.
IdentityFields ==
    << Field("employeeId",        100, <<"employeeId", "employeeNumber">>),
       Field("employeeNumber",    100, <<"employeeNumber">>),
       Field("objectGUID",         95, <<"objectGUID", "guid">>),
       Field("objectSid",          90, <<"objectSid", "sid">>),
       Field("email",              85, <<"email", "mail", "emailAddress">>),
       Field("userPrincipalName",  80, <<"userPrincipalName", "upn">>),
       Field("krbPrincipalName",   70, <<"krbPrincipalName", "principal">>),
       Field("uid",                70, <<"uid", "userid">>),
       Field("samAccountName",     70, <<"samAccountName">>),
       Field("username",           70, <<"username", "login", "loginName">>),
       Field("displayName",        60, <<"displayName", "fullName", "cn">>) >>

FieldIndices == DOMAIN IdentityFields
CONFIDENCE_THRESHOLD == 70

Sources == <<"MANUAL", "ACTIVE_DIRECTORY", "ENTRA_ID", "FREE_IPA", "LINUX", "LDAP", "CUSTOM">>
Rank(source) == CHOOSE r \in DOMAIN Sources : Sources[r] = source

\* getProperty: the values of a field, at most one.
Get(props, keys) ==
    LET have == {i \in DOMAIN keys : keys[i] \in DOMAIN props /\ props[keys[i]] # Blank}
    IN  {props[keys[i]] : i \in {j \in have : \A k \in have : j <= k}}

Value(props, f) == Get(props, IdentityFields[f].keys)

\* What is there under any name of a field.
Named(props, f) == {props[key] : key \in ToSet(IdentityFields[f].keys) \cap DOMAIN props}

Same(a, b) == Norm[a] = Norm[b]
Matches(as, bs) == \E a \in as, b \in bs : Same(a, b)
Differs(as, bs) == \E a \in as, b \in bs : ~Same(a, b)

------------------------------------------------------------------------------
(* A node against an identity                                              *)

\* score: the first field of the table that matches, and its score; 0 for none.
MatchedField(props, fields) ==
    LET hits == {f \in FieldIndices : Matches(Value(props, f), Value(fields, f))}
    IN  IF hits = {} THEN 0 ELSE Min(hits)

Score(props, fields) ==
    LET f == MatchedField(props, fields) IN IF f = 0 THEN 0 ELSE IdentityFields[f].score

\* computeConfidence of the method of a match: it looks the method up among the names and
\* aliases of the fields, where "UPN" is not found.
SourceConfidence(props, fields) ==
    LET f == MatchedField(props, fields)
    IN  IF IdentityFields[f].name = "userPrincipalName" THEN 0 ELSE IdentityFields[f].score

\* findCandidate lists a field of the node whether an identity matches or not: the best
\* candidate is the first field of the highest score that the node has.
BestField(props) ==
    LET has == {f \in FieldIndices : Value(props, f) # {}}
    IN  {f \in has : \A g \in has : \/ IdentityFields[f].score > IdentityFields[g].score
                                    \/ IdentityFields[f].score = IdentityFields[g].score /\ f <= g}

------------------------------------------------------------------------------
(* What is derived from the sources                                        *)

\* Slip: a source is compared with the one that was merged before it.
Neighbours(sources) == {p \in (DOMAIN sources) \X (DOMAIN sources) : p[2] = p[1] + 1}

Pairs(sources) == {p \in (DOMAIN sources) \X (DOMAIN sources) : p[1] < p[2]}

\* computeMatchedFields and computeConflicts, for every two sources.
Compared(sources, f, Holds(_, _)) ==
    {<<IdentityFields[f].name, p[1], p[2]>> :
        p \in {q \in Pairs(sources) : Holds(Value(sources[q[1]].props, f), Value(sources[q[2]].props, f))}}

MatchedFields(sources) == UNION {Compared(sources, f, LAMBDA as, bs : as # {} /\ bs # {}) : f \in FieldIndices}
Conflicts(sources)     == UNION {Compared(sources, f, Differs) : f \in 1..6}

\* The source whose value of a key is kept: the sort by priority is stable, and a blank
\* value counts.
Prevailing(sources, key) ==
    LET holders == {i \in DOMAIN sources : key \in DOMAIN sources[i].props}
    IN  CHOOSE i \in holders : \A j \in holders :
            \/ Rank(sources[i].system) < Rank(sources[j].system)
            \/ Rank(sources[i].system) = Rank(sources[j].system) /\ i <= j

MergeFields(sources) ==
    [key \in UNION {DOMAIN sources[i].props : i \in DOMAIN sources} |->
        sources[Prevailing(sources, key)].props[key]]

\* extractIdentityFields: one value for each field of the table, under its own name.
ExtractIdentityFields(props) ==
    LET has == {f \in FieldIndices : Value(props, f) # {}}
    IN  [name \in {IdentityFields[f].name : f \in has} |->
            CHOOSE v \in Values : \E f \in has : IdentityFields[f].name = name /\ v \in Value(props, f)]

------------------------------------------------------------------------------
(* Identities.  The statistics are counted from the other fields.          *)

NoIdentity == [sources |-> <<>>, confidence |-> 0, matched |-> {}, conflicts |-> {},
               timeline |-> <<>>, fields |-> <<>>, accounts |-> {}, groups |-> {}]

SourceOf(n, node, confidence) ==
    [node |-> n, system |-> node.system, confidence |-> confidence, props |-> node.props]

NodesOf(identity) == {identity.sources[i].node : i \in DOMAIN identity.sources}

\* updateAccounts: the first of the names of an account that the node has, blank or not.
AccountKeys == <<"samAccountName", "username", "uid", "email", "displayName">>
Account(node) ==
    LET has == {i \in DOMAIN AccountKeys : AccountKeys[i] \in DOMAIN node.props}
    IN  IF has = {} THEN {} ELSE {<<node.system, node.props[AccountKeys[Min(has)]]>>}

\* updateGroups; updateRoles does the same with the roles of the node.
Grouped(groups, node) == groups \cup node.groups

\* The identity that merge creates from a node: the account has the name of the node.
NewIdentity(n, node) ==
    [sources |-> <<SourceOf(n, node, 70)>>, confidence |-> 70, matched |-> {}, conflicts |-> {},
     timeline |-> <<node.system>>,
     fields |-> ExtractIdentityFields(node.props),
     accounts |-> IF node.system \in {"ACTIVE_DIRECTORY", "FREE_IPA", "LINUX"}
                  THEN {<<node.system, node.name>>} ELSE {},
     groups |-> Grouped({}, node)]

Accepted(node, identity) == Score(node.props, identity.fields) >= CONFIDENCE_THRESHOLD

\* The next list of sources when the node n is new to the identity.
Added(identity, n, node) ==
    Append(identity.sources, SourceOf(n, node, SourceConfidence(node.props, identity.fields)))

\* A node that is a source already keeps the properties it had.
WithSource(identity, n, node) ==
    IF n \in NodesOf(identity) THEN identity.sources ELSE Added(identity, n, node)

\* merge into an existing identity, once the node is accepted.
Merged(identity, n, node) ==
    LET sources == WithSource(identity, n, node)
        score   == Score(node.props, identity.fields)
    IN  [sources    |-> sources,
         confidence |-> IF n \in NodesOf(identity) THEN identity.confidence
                        ELSE Max({identity.confidence, score}),
         matched    |-> MatchedFields(sources),
         conflicts  |-> Conflicts(sources),
         timeline   |-> Append(identity.timeline, node.system),
         fields     |-> MergeFields(sources),
         accounts   |-> identity.accounts \cup Account(node),
         groups     |-> Grouped(identity.groups, node)]

\* Slip: the preview shows the score of the node as the confidence of the identity.
ProposedRescored(identity, n, node) ==
    IF n \in NodesOf(identity) \/ ~Accepted(node, identity) THEN identity
    ELSE LET sources == Added(identity, n, node)
         IN  [identity EXCEPT !.sources = sources,
                              !.confidence = Score(node.props, identity.fields),
                              !.matched = MatchedFields(sources),
                              !.conflicts = Conflicts(sources),
                              !.fields = MergeFields(sources),
                              !.accounts = @ \cup Account(node),
                              !.groups = Grouped(@, node)]

\* previewMerge on a clone; the timeline is not part of the proposal.
Proposed(identity, n, node) ==
    IF n \in NodesOf(identity) \/ ~Accepted(node, identity) THEN identity
    ELSE LET score   == Score(node.props, identity.fields)
             sources == Added(identity, n, node)
         IN  [identity EXCEPT !.sources = sources,
                              !.confidence = Max({@, score}),
                              !.matched = MatchedFields(sources),
                              !.conflicts = Conflicts(sources),
                              !.fields = MergeFields(sources),
                              !.accounts = @ \cup Account(node),
                              !.groups = Grouped(@, node)]
===============================================================================

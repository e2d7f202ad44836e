-------------------------- MODULE RecordCorrelation --------------------------
(***************************************************************************)
(* IdentityCorrelationService.correlate: the records of an import are      *)
(* taken one by one and put into groups, one group for each person as far  *)
(* as the keys tell.  A record joins the group that was the first to have  *)
(* one of its keys, the strongest key first, unless it would bring a       *)
(* second object GUID or SID into the group.                               *)
(*                                                                         *)
(* The loop is one handler; its iterations are the steps here, so that     *)
(* invariants can be stated between them.                                  *)
(***************************************************************************)
EXTENDS CellText, Naturals, Sequences, FiniteSets

CONSTANT CompositeFields  \* compositeKeyFields of the request

VARIABLES records,  \* the records of the import, as sequence
          done,     \* how many of them have been taken
          groups,   \* the groups, in the order in which they were made
          index     \* key -> group, for the first group that had the key

correlationVars == <<records, done, groups, index>>

------------------------------------------------------------------------------
Field(record, f) == IF f \in DOMAIN record.fields THEN record.fields[f] ELSE Blank

\* Slip: names are tried before the numbers.
NamesFirst == <<"username", "samAccountName", "userPrincipalName", "email", "employeeId", "sid",
                "objectGUID", "distinguishedName", "composite">>

\* The fields that identify, strongest first.
STRATEGIES == <<"objectGUID", "sid", "employeeId", "email", "username", "samAccountName",
                "userPrincipalName", "distinguishedName", "composite">>
Names == {"username", "samAccountName", "userPrincipalName"}

\* What a match by a strategy is worth, and what it is called.
Worth(strategy) == CASE strategy \in {"objectGUID", "sid"} -> "EXACT"
                     [] strategy \in {"employeeId", "email"} -> "HIGH"
                     [] strategy = "composite" -> "LOW"
                     [] OTHER -> "MEDIUM"
Method(strategy) == IF strategy \in Names THEN "username" ELSE strategy

\* The composite key has a value for each of its fields or is none.
Normal(record, strategy) ==
    CASE strategy \in Names -> UserPart(Field(record, strategy))
      [] strategy = "distinguishedName" -> Spaced(Lower(Field(record, strategy)))
      [] strategy = "composite" ->
            IF CompositeFields # {} /\ \A f \in CompositeFields : Field(record, f) # Blank
            THEN [f \in CompositeFields |-> Lower(Field(record, f))] ELSE Blank
      [] OTHER -> Lower(Field(record, strategy))

Keys(record) ==
    {<<STRATEGIES[i], Normal(record, STRATEGIES[i])>> : i \in DOMAIN STRATEGIES}
        \ {<<STRATEGIES[i], Blank>> : i \in DOMAIN STRATEGIES}

\* The strongest strategy by which a record is found in the index, or none.
Matching(record) ==
    LET found == {i \in DOMAIN STRATEGIES :
                     <<STRATEGIES[i], Normal(record, STRATEGIES[i])>> \in DOMAIN index}
    IN IF found = {} THEN "none" ELSE STRATEGIES[CHOOSE i \in found : \A j \in found : i <= j]

------------------------------------------------------------------------------
(* Groups                                                                  *)

StrongFields == {"objectGUID", "sid"}
Values(members, f) == {Lower(Field(records[r], f)) : r \in members} \ {Blank}

\* Slip: the new record is compared with the first of the group only.
ConflictWithFirst(members) ==
    LET first == CHOOSE r \in members : \A s \in members : r <= s
        last == CHOOSE r \in members : \A s \in members : s <= r
    IN {f \in StrongFields : \E v, w \in Values({first, last}, f) : v # w}

\* detectStrongConflicts: the strong fields of which the records have two values.
StrongConflicts(members) == {f \in StrongFields : \E v, w \in Values(members, f) : v # w}

NewGroup(r, confidence, conflicts) ==
    [members |-> {r}, method |-> "none", confidence |-> confidence, conflicts |-> conflicts]

\* register: keys that are already known stay with the group that has them.
Registered(record, g) ==
    [k \in DOMAIN index \cup Keys(record) |-> IF k \in DOMAIN index THEN index[k] ELSE g]

------------------------------------------------------------------------------
CorrelationInit == done = 0 /\ groups = <<>> /\ index = [k \in {} |-> 0]

\* The record that is taken next.
Current == records[done + 1]
Takes == done < Len(records) /\ done' = done + 1 /\ UNCHANGED records

Found(strategy) == index[<<strategy, Normal(Current, strategy)>>]

\* No group has a key of the record.
OpenGroup ==
    /\ Takes
    /\ Matching(Current) = "none"
    /\ groups' = Append(groups, NewGroup(done + 1, "LOW", {}))
    /\ index' = Registered(Current, Len(groups) + 1)

JoinGroup ==
    /\ Takes
    /\ Matching(Current) # "none"
    /\ LET strategy == Matching(Current)
           g == Found(strategy)
       IN /\ StrongConflicts(groups[g].members \cup {done + 1}) = {}
          /\ groups' = [groups EXCEPT
                ![g] = [members |-> groups[g].members \cup {done + 1},
                        method |-> IF groups[g].method = "none" THEN Method(strategy) ELSE groups[g].method,
                        confidence |-> Worth(strategy),
                        conflicts |-> groups[g].conflicts]]
          /\ index' = Registered(Current, g)

\* The record would bring a second GUID or SID: both groups are in conflict.
SplitGroup ==
    /\ Takes
    /\ Matching(Current) # "none"
    /\ LET g == Found(Matching(Current))
           conflicts == StrongConflicts(groups[g].members \cup {done + 1})
       IN /\ conflicts # {}
          /\ groups' = Append([groups EXCEPT
                ![g] = [groups[g] EXCEPT !.confidence = "CONFLICT",
                                         !.conflicts = @ \cup conflicts]],
                NewGroup(done + 1, "CONFLICT", conflicts))
          /\ index' = Registered(Current, Len(groups) + 1)

Correlate == OpenGroup \/ JoinGroup \/ SplitGroup

\* The correlation of any records.
CorrelationSpec ==
    /\ records \in Seq([fields : UNION {[F -> Texts] : F \in SUBSET STRING},
                        source : Texts \cup {"CUSTOM"}, type : STRING, valid : BOOLEAN])
    /\ CorrelationInit /\ [][Correlate]_correlationVars

------------------------------------------------------------------------------
(* The result of a correlation                                             *)

Priority == <<"MANUAL", "ACTIVE_DIRECTORY", "ENTRA_ID", "FREE_IPA", "LINUX", "LDAP", "CUSTOM">>
Rank(record) == IF \E i \in DOMAIN Priority : Priority[i] = record.source
                THEN CHOOSE i \in DOMAIN Priority : Priority[i] = record.source ELSE 1000

\* mergeFields: each field from the source that ranks first, then the record that comes first.
Before(r, s) == \/ Rank(records[r]) < Rank(records[s])
                \/ Rank(records[r]) = Rank(records[s]) /\ r <= s
MergedField(members, f) ==
    LET having == {r \in members : Field(records[r], f) # Blank}
    IN IF having = {} THEN Blank
       ELSE Field(records[CHOOSE r \in having : \A s \in having : Before(r, s)], f)

\* The values that an identity is named by, in this order; else its first record.
SeedFields == <<"objectGUID", "sid", "employeeId", "email", "username">>
Named(g) == {i \in DOMAIN SeedFields : MergedField(groups[g].members, SeedFields[i]) # Blank}
SeedPlace(g) == CHOOSE i \in Named(g) : \A j \in Named(g) : i <= j
Seed(g) == MergedField(groups[g].members, SeedFields[SeedPlace(g)])
Canonical(g) ==
    IF Named(g) = {} THEN <<"record", CHOOSE r \in groups[g].members : \A s \in groups[g].members : r <= s>>
    ELSE <<"identity", Lower(Seed(g))>>

GroupOf(r) == CHOOSE g \in DOMAIN groups : r \in groups[g].members

Confidence(g) == IF groups[g].conflicts # {} THEN "CONFLICT" ELSE groups[g].confidence

ConflictingFields(g) ==
    LET fields == UNION {DOMAIN records[r].fields : r \in groups[g].members}
    IN {f \in fields : \E v, w \in Values(groups[g].members, f) : v # w}

NeedsReview(g) ==
    LET merged(f) == MergedField(groups[g].members, f)
    IN \/ groups[g].conflicts # {}
       \/ \A f \in {"displayName", "firstName", "username", "email"} : merged(f) = Blank
       \/ /\ groups[g].method = "employeeId"
          /\ ConflictingFields(g) \cap (Names \cup {"email", "displayName"}) # {}
       \/ groups[g].method = "username" /\ Cardinality(groups[g].members) > 1

------------------------------------------------------------------------------
(* Properties                                                              *)

\* Every record taken is in exactly one group, and every key leads to a group that has
\* a record with this key: no order of records loses one, files it twice, or sends a
\* later record to a group that has nothing to do with it.
EveryRecordGrouped ==
    /\ \A r \in 1..done : \E g \in DOMAIN groups : r \in groups[g].members
    /\ \A g, h \in DOMAIN groups :
           \A r \in groups[g].members \cap groups[h].members : g = h
    /\ \A k \in DOMAIN index :
           \E r \in groups[index[k]].members : k \in Keys(records[r])

\* Two different GUIDs or SIDs never meet in a group, through whatever chain of weaker
\* keys its records were found.
StrongIdsApart ==
    \A g \in DOMAIN groups : \A f \in StrongFields :
        \A v, w \in Values(groups[g].members, f) : v = w

\* Two groups are given the same identity, and so the same node of the graph, only if both
\* are in conflict and put up for review: that a record was filed under a stronger key than
\* the one that names another group never makes two people one.  (Left out are values of
\* different fields that are spelled alike, a username and an email, which are the same
\* identity in the code, and usernames without a user part, which are not looked up.)
SameSeed(g, h) ==
    \/ Named(g) = {} /\ Named(h) = {}
    \/ /\ Named(g) # {} /\ Named(h) # {} /\ SeedPlace(g) = SeedPlace(h)
       /\ SeedFields[SeedPlace(g)] \in Names => UserPart(Seed(g)) # Blank
IdentitiesApart ==
    \A g, h \in DOMAIN groups :
        g # h /\ SameSeed(g, h) /\ Canonical(g) = Canonical(h)
            => Confidence(g) = "CONFLICT" /\ Confidence(h) = "CONFLICT"
==============================================================================

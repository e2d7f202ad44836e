------------------------- MODULE MCIdentityResolution -------------------------
(* Instances of IdentityResolution for TLC: three nodes of three systems that *)
(* agree and disagree in several fields, and change in the graph.            *)
EXTENDS IdentityResolution

CONSTANTS c1, c2, a, b, d, g1, g2

\* "M1" is "m1" in another spelling.
SmallValues == {"e1", "m1", "M1", "u1", "x1", "x2", "n1", " "}
SmallNorm == [v \in SmallValues |-> IF v = "M1" THEN "m1" ELSE v]

Node(system, name, groups, props) ==
    [system |-> system, name |-> name, groups |-> groups, props |-> props]

OfA == Node("ACTIVE_DIRECTORY", "n1", {g1},
            [employeeNumber |-> "e1", email |-> "m1", objectGUID |-> "x1", department |-> "n1"])
\* Its blank employeeId hides the one of a later source.
Blanked == Node("ACTIVE_DIRECTORY", "n1", {}, [employeeId |-> " ", email |-> "m1", displayName |-> "n1"])
OfB == Node("ENTRA_ID", "n1", {g2},
            [email |-> "M1", userPrincipalName |-> "u1", objectGUID |-> "x2", employeeId |-> "x2",
             employeeNumber |-> "e1"])
OfD == Node("FREE_IPA", "n1", {}, [upn |-> "u1", employeeId |-> "e1", uid |-> "x1"])

SmallVersions ==
    a :> {OfA, Blanked} @@
    b :> {OfB, Node("ENTRA_ID", "n1", {g2}, [userPrincipalName |-> "u1", email |-> " "])} @@
    d :> {OfD, Node("FREE_IPA", "n1", {}, [displayName |-> "n1", employeeId |-> "e1"])}

\* No identity, or one that was created from a version of the node a.
NoRows == [n \in {a, b, d} |-> NoIdentity]
SmallStarts == {NoRows} \cup {[NoRows EXCEPT ![a] = NewIdentity(a, node)] : node \in {OfA, Blanked}}

Bound(merge, preview, register, changes, faults, starts) ==
    [merge |-> merge, preview |-> preview, register |-> register, changes |-> changes,
     faults |-> faults, starts |-> starts]

\* Previews against merges, merges that overlap, merges against failures and restarts.
Scenarios == {Bound(2, 1, 0, 1, 0, 0), Bound(3, 0, 0, 0, 1, 1), Bound(1, 0, 2, 1, 0, 0),
              Bound(1, 0, 2, 0, 0, 1), Bound(1, 0, 1, 1, 0, 1)}

Symmetry == Permutations(Clients)
===============================================================================

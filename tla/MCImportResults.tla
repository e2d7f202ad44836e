---------------------------- MODULE MCImportResults ----------------------------
(* Instances of ImportResults for TLC: changes against computations, computations  *)
(* against each other and a restart, and persists with and without Neo4j.          *)
EXTENDS ImportResults, TLC

CONSTANTS c1, c2, f1, f2, f3

File(name, readable) == [name |-> name, allowed |-> TRUE, fits |-> TRUE, readable |-> readable]

Bound(changes, validate, correlate, convert, persist, faults, crashes, neo4j) ==
    [changes |-> changes, validate |-> validate, correlate |-> correlate,
     convert |-> convert, persist |-> persist, faults |-> faults, crashes |-> crashes,
     neo4j |-> neo4j, parses |-> "none", offered |-> <<File(f1, TRUE), File(f2, TRUE)>>]

\* The first file is processed late, and there is one more than a session takes.
Parsing(how, changes, validate, correlate, convert, crashes) ==
    [Bound(changes, validate, correlate, convert, 0, 0, crashes, FALSE) EXCEPT
        !.parses = how, !.offered = <<File(f2, FALSE), File(f1, TRUE), File(f3, TRUE)>>]

\* Changes against computations; computations against a restart; persists against
\* conversions, each other, a failed write and a restart; a file that is processed late.
Scenarios == {Bound(1, 1, 1, 0, 0, 0, 0, FALSE),
              Bound(1, 1, 0, 1, 0, 0, 0, FALSE),
              Bound(1, 0, 1, 1, 0, 0, 0, FALSE),
              Bound(2, 0, 1, 0, 0, 0, 0, FALSE),
              Bound(1, 2, 0, 0, 0, 0, 1, FALSE),
              Bound(1, 2, 0, 0, 0, 1, 0, FALSE),
              Bound(0, 3, 0, 0, 0, 1, 1, FALSE),
              Bound(1, 0, 0, 1, 0, 0, 1, FALSE),
              Bound(0, 0, 0, 2, 0, 0, 1, FALSE),
              Bound(0, 0, 0, 1, 2, 0, 1, FALSE),
              Bound(0, 0, 0, 2, 2, 1, 0, FALSE),
              Bound(0, 0, 0, 2, 2, 1, 1, TRUE),
              Parsing("inline", 1, 0, 1, 0, 0),
              Parsing("inline", 0, 1, 0, 1, 0),
              Parsing("chunks", 1, 0, 1, 0, 0),
              Parsing("chunks", 0, 0, 0, 1, 1)}

Symmetry == Permutations(Clients)
===============================================================================

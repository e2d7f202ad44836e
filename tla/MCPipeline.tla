----------------------------- MODULE MCPipeline -----------------------------
(* Instances of Pipeline for TLC: requests are interchangeable, the graph has *)
(* a version that builds and one with a dangling edge.                        *)
EXTENDS Pipeline, TLC

CONSTANTS c1, c2, c3

AllKinds == {"start", "pause", "resume", "next", "previous", "replay", "reset"}

\* One request at a time but for pauses, with a failed save and a restart; and requests of
\* any kind that overlap.
Scenarios == {[requests |-> 6, faults |-> 1, crashes |-> 1, careful |-> TRUE],
              [requests |-> 4, faults |-> 0, crashes |-> 0, careful |-> FALSE]}

Symmetry == Permutations(Clients)
=============================================================================

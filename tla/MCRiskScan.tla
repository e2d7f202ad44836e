------------------------------ MODULE MCRiskScan ------------------------------
(* Instances of RiskScan for TLC: a finding, and scans that run its rule or not. *)
EXTENDS RiskScan, TLC

CONSTANTS c1, c2, f1, r1, r2

OneFinding == f1 :> r1

Symmetry == Permutations(Clients)
===============================================================================

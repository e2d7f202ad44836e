------------------------- MODULE MCImportProcessing -------------------------
(* Instances of ImportProcessing for TLC.                                   *)
EXTENDS ImportProcessing, TLC

CONSTANTS i1, i2, w1, w2, f1, f2

OneHost  == w1 :> i1 @@ w2 :> i1   \* two slots in one instance
TwoHosts == w1 :> i1 @@ w2 :> i2   \* one slot in each of two instances

=============================================================================

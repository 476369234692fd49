----------------------------- MODULE MCTableScan -----------------------------
(* Instances of TableScan for TLC.                                         *)
EXTENDS TableScan, TLC

ValueSymmetry == Permutations(Values)
=============================================================================

--------------------------- MODULE MCRecordManager ---------------------------
(* Instances of RecordManager, and of the layout of its pages, for TLC.    *)
EXTENDS PageLayout, TLC

ValueSymmetry == Permutations(Values)

=============================================================================

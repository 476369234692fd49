---------------------------- MODULE MCBufferPool ----------------------------
(* Instances of BufferPool for TLC.                                        *)
EXTENDS BufferPool, TLC

HandleSymmetry == Permutations(Handles)
HandleAndFileSymmetry == Permutations(Handles) \cup Permutations(Files)
=============================================================================

----------------------------- MODULE ByteStream -----------------------------
(***************************************************************************)
(* What a session expects of its writer: bytes go in at one end and come   *)
(* out at the client in the same order, none lost, repeated or made up,    *)
(* with at most Cap of them in between.                                    *)
(***************************************************************************)
EXTENDS Integers, Sequences

CONSTANTS Cap

VARIABLES taken,     \* how many bytes the writer has accepted: 0, 1, 2, ...
          received   \* the bytes the client has got, in order

StreamInit == taken = 0 /\ received = <<>>

Accept ==
    \E n \in 1 .. Cap :
        /\ taken + n - Len(received) <= Cap
        /\ taken' = taken + n
        /\ UNCHANGED received

Deliver ==
    \E n \in 1 .. taken - Len(received) :
        /\ received' = received \o [j \in 1 .. n |-> Len(received) + j - 1]
        /\ UNCHANGED taken

StreamSpec == StreamInit /\ [][Accept \/ Deliver]_<<taken, received>>
=============================================================================

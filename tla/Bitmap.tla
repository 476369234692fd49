------------------------------- MODULE Bitmap -------------------------------
(***************************************************************************)
(* common::Bitmap, the allocation map of record slots and file pages: its  *)
(* searches go byte by byte, skip bytes that cannot hold a match, and drop *)
(* the offset of the start within its byte once a byte was looked into.    *)
(* A bitmap is the set of its bits that are set.                           *)
(***************************************************************************)
EXTENDS Integers, FiniteSets, FiniteSetsExt

CONSTANTS W,     \* bits in a byte
          Size   \* Bitmap::size_

Bytes == (Size + W - 1) \div W

\* The positions of S in byte i.
ByteOf(S, i) == {b \in 0 .. W - 1 : i * W + b \in S}

\* Mutant of Search: the offset is never dropped.
Search_KeepsOffset(S, start) ==
    LET from[i \in 0 .. Bytes] == [k \in 0 .. W - 1 |->
            LET found == {b \in ByteOf(S, i) : b >= k} IN
            IF i = Bytes THEN -1
            ELSE IF found # {} THEN i * W + Min(found)
            ELSE from[i + 1][k]]
    IN from[start \div W][start % W]

\* A byte without a match is skipped with the offset of the start still in force.
Search(S, start) ==
    LET from[i \in 0 .. Bytes] == [k \in 0 .. W - 1 |->
            LET found == {b \in ByteOf(S, i) : b >= k} IN
            IF i = Bytes THEN -1
            ELSE IF ByteOf(S, i) = {} THEN from[i + 1][k]
            ELSE IF found # {} THEN i * W + Min(found)
            ELSE from[i + 1][0]]
    IN from[start \div W][start % W]

\* A bit of the last byte beyond the size does not count.
Clip(i) == IF i >= Size THEN -1 ELSE i

NextSettedBit(bits, start) == Clip(Search(bits, start))
NextUnsettedBit(bits, start) == Clip(Search((0 .. Bytes * W - 1) \ bits, start))

=============================================================================

------------------------ MODULE BufferedWriterProofs ------------------------
(***************************************************************************)
(* The ring of BufferedWriter is exact for every capacity, and the writer  *)
(* implements ByteStream.                                                  *)
(***************************************************************************)
EXTENDS BufferedWriter, SequenceTheorems, TLAPS

USE CapAssumption

-----------------------------------------------------------------------------
(* Positions in the ring.                                                  *)

\* The code reduces positions modulo the capacity, and never from further than
\* one lap away.
Lap(x) == IF x < Cap THEN x ELSE x - Cap

LEMMA ModLap ==
    ASSUME NEW x \in Int, 0 <= x, x < 2 * Cap
    PROVE  x % Cap = Lap(x) /\ Lap(x) \in Index
<1>1. CASE x < Cap
  BY <1>1 DEF Lap, Index
<1>2. CASE x >= Cap
  <2>1. x - Cap \in 0 .. Cap - 1
    BY <1>2
  <2>2. x = 1 * Cap + (x - Cap)
    BY <1>2
  <2>3. x % Cap = x - Cap
    BY <2>1, <2>2
  <2> QED BY <1>2, <2>1, <2>3 DEF Lap, Index
<1> QED BY <1>1, <1>2

\* Where the oldest byte is, without the modulus.
LEMMA ReadPos ==
    ASSUME data_size \in 0 .. Cap, write_pos \in Index
    PROVE  /\ read_pos \in Index
           /\ read_pos = IF write_pos >= data_size THEN write_pos - data_size
                         ELSE write_pos - data_size + Cap
<1>1. /\ write_pos - data_size + Cap \in Int
      /\ 0 <= write_pos - data_size + Cap
      /\ write_pos - data_size + Cap < 2 * Cap
  BY DEF Index
<1>2. read_pos = Lap(write_pos - data_size + Cap) /\ read_pos \in Index
  BY <1>1, ModLap DEF read_pos
<1> QED BY <1>2 DEF Lap, Index

\* Offsets from the oldest byte.
LEMMA Offset ==
    ASSUME data_size \in 0 .. Cap, write_pos \in Index, NEW j \in 0 .. Cap - 1
    PROVE  (read_pos + j) % Cap = Lap(read_pos + j) /\ Lap(read_pos + j) \in Index
<1>1. read_pos \in Index
  BY ReadPos
<1>2. read_pos + j \in Int /\ 0 <= read_pos + j /\ read_pos + j < 2 * Cap
  BY <1>1 DEF Index
<1> QED BY <1>2, ModLap

-----------------------------------------------------------------------------
(* The chunks that the copy and the socket work on.                        *)

\* One turn of the copy loop takes at least one byte, no more than there is room
\* for, and does not run past the end of the memory.
LEMMA WriteChunkFits ==
    ASSUME data_size \in 0 .. Cap, write_pos \in Index, remain > 0,
           NEW size \in Nat \ {0}
    PROVE  /\ WriteChunk(size) \in 1 .. size
           /\ WriteChunk(size) <= remain
           /\ write_pos + WriteChunk(size) <= Cap
<1> USE DEF Index, WriteChunk, Least, remain
<1>1. CASE write_pos >= data_size
  <2>1. read_pos = write_pos - data_size
    BY <1>1, ReadPos
  <2> QED BY <1>1, <2>1
<1>2. CASE write_pos < data_size
  <2>1. read_pos = write_pos - data_size + Cap
    BY <1>2, ReadPos
  <2> QED BY <1>2, <2>1
<1> QED BY <1>1, <1>2

\* What buffer() offers is data, and contiguous.
LEMMA ReadChunkFits ==
    ASSUME data_size \in 1 .. Cap, write_pos \in Index
    PROVE  ReadChunk \in 1 .. data_size /\ read_pos + ReadChunk <= Cap
<1> USE DEF Index, ReadChunk
<1>1. CASE write_pos >= data_size
  <2>1. read_pos = write_pos - data_size
    BY <1>1, ReadPos
  <2> QED BY <1>1, <2>1
<1>2. CASE write_pos < data_size
  <2>1. read_pos = write_pos - data_size + Cap
    BY <1>2, ReadPos
  <2> QED BY <1>2, <2>1
<1> QED BY <1>1, <1>2

-----------------------------------------------------------------------------
(* The inductive invariant.                                                *)

Inv == TypeOK /\ RingExact

LEMMA InitInv == Init => Inv
<1> SUFFICES ASSUME Init PROVE Inv
  OBVIOUS
<1>1. TypeOK
  <2>1. cells \in [Index -> Nat] /\ sent \in Seq(Nat)
    BY DEF Init
  <2>2. data_size \in 0 .. Cap /\ write_pos \in Index /\ accepted \in Nat
    BY DEF Init, Index
  <2>3. /\ call \in [pc : {"idle", "write", "make_room", "flush", "close"}, left : Nat,
                    want : Nat, rc : {"SUCCESS", "IOERR_WRITE"}]
        /\ closed \in BOOLEAN /\ errors \in Nat
    BY DEF Init
  <2> QED BY <2>1, <2>2, <2>3 DEF TypeOK
<1>2. RingExact
  BY DEF Init, RingExact
<1> QED BY <1>1, <1>2 DEF Inv

\* Copying c bytes in: the oldest byte stays where it is, the new ones follow.
LEMMA CopyInInv == Inv /\ CopyIn => Inv'
<1> SUFFICES ASSUME Inv, CopyIn PROVE Inv'
  OBVIOUS
<1> DEFINE c == WriteChunk(call.left)
<1>t. /\ cells \in [Index -> Nat] /\ data_size \in 0 .. Cap /\ write_pos \in Index
      /\ accepted \in Nat /\ sent \in Seq(Nat) /\ Len(sent) \in Nat
  BY DEF Inv, TypeOK
<1>1. /\ c \in Nat /\ c >= 1 /\ c <= call.left
      /\ data_size + c <= Cap /\ write_pos + c <= Cap
  <2>1. call.left \in Nat \ {0} /\ remain > 0
    BY DEF CopyIn, Inv, TypeOK
  <2>2. c \in 1 .. call.left /\ c <= remain /\ write_pos + c <= Cap
    BY <1>t, <2>1, WriteChunkFits
  <2> QED BY <1>t, <2>1, <2>2 DEF remain
<1>2. /\ cells' = [i \in Index |-> IF i \in write_pos .. write_pos + c - 1
                                   THEN accepted + (i - write_pos) ELSE cells[i]]
      /\ write_pos' = (write_pos + c) % Cap
      /\ data_size' = data_size + c
      /\ accepted' = accepted + c
      /\ call' = [call EXCEPT !.left = call.left - c]
      /\ sent' = sent
  BY DEF CopyIn
<1> HIDE DEF c
<1>3. write_pos' = Lap(write_pos + c) /\ write_pos' \in Index
  <2>1. write_pos + c \in Int /\ 0 <= write_pos + c /\ write_pos + c < 2 * Cap
    BY <1>t, <1>1 DEF Index
  <2> QED BY <1>2, <2>1, ModLap
<1>4. data_size' \in 0 .. Cap
  BY <1>t, <1>1, <1>2
<1>5. TypeOK'
  <2>1. cells' \in [Index -> Nat]
    <3>1. ASSUME NEW i \in Index
          PROVE  (IF i \in write_pos .. write_pos + c - 1
                  THEN accepted + (i - write_pos) ELSE cells[i]) \in Nat
      BY <1>t, <1>1 DEF Index
    <3> QED BY <1>2, <3>1
  <2>2. call' \in [pc : {"idle", "write", "make_room", "flush", "close"}, left : Nat,
                   want : Nat, rc : {"SUCCESS", "IOERR_WRITE"}]
    <3>1. call.left - c \in Nat
      BY <1>1 DEF Inv, TypeOK
    <3> QED BY <1>2, <3>1 DEF Inv, TypeOK
  <2>3. closed' \in BOOLEAN /\ errors' \in Nat
    BY DEF CopyIn, Inv, TypeOK
  <2> QED BY <1>t, <1>1, <1>2, <1>3, <1>4, <2>1, <2>2, <2>3 DEF TypeOK
<1>6. read_pos' = read_pos /\ read_pos \in Index
  <2>1. /\ read_pos = IF write_pos >= data_size THEN write_pos - data_size
                      ELSE write_pos - data_size + Cap
        /\ read_pos \in Index
    BY <1>t, ReadPos
  <2>2. read_pos' = (write_pos' - data_size' + Cap) % Cap
    BY DEF read_pos
  <2>3. /\ write_pos' - data_size' + Cap \in Int
        /\ 0 <= write_pos' - data_size' + Cap
        /\ write_pos' - data_size' + Cap < 2 * Cap
    BY <1>3, <1>4 DEF Index
  <2>4. read_pos' = Lap(write_pos' - data_size' + Cap)
    BY <2>2, <2>3, ModLap
  <2>5. data_size' = data_size + c /\ write_pos' = Lap(write_pos + c)
    BY <1>2, <1>3
  <2>6. CASE write_pos + c < Cap
    BY <1>t, <1>1, <2>1, <2>4, <2>5, <2>6 DEF Lap, Index
  <2>7. CASE write_pos + c = Cap
    BY <1>t, <1>1, <2>1, <2>4, <2>5, <2>7 DEF Lap, Index
  <2> QED BY <1>t, <1>1, <2>1, <2>6, <2>7 DEF Index
<1>7. ASSUME NEW j \in 0 .. data_size' - 1
      PROVE  cells'[(read_pos' + j) % Cap] = Len(sent') + j
  <2>1. j \in 0 .. Cap - 1 /\ j < data_size + c
    BY <1>t, <1>1, <1>2, <1>4, <1>7
  <2>2. (read_pos' + j) % Cap = Lap(read_pos + j) /\ Lap(read_pos + j) \in Index
    BY <1>t, <1>6, <2>1, Offset
  <2>3. read_pos = IF write_pos >= data_size THEN write_pos - data_size
                   ELSE write_pos - data_size + Cap
    BY <1>t, ReadPos
  <2>4. CASE j < data_size
    <3>1. cells[Lap(read_pos + j)] = Len(sent) + j
      <4>1. j \in 0 .. data_size - 1
        BY <1>t, <2>1, <2>4
      <4>2. cells[(read_pos + j) % Cap] = Len(sent) + j
        BY <4>1 DEF Inv, RingExact
      <4> QED BY <1>6, <2>2, <4>2
    <3>2. Lap(read_pos + j) \notin write_pos .. write_pos + c - 1
      BY <1>t, <1>1, <2>1, <2>3, <2>4 DEF Lap, Index
    <3> QED BY <1>2, <2>2, <3>1, <3>2
  <2>5. CASE j >= data_size
    <3>1. Lap(read_pos + j) = write_pos + (j - data_size)
      BY <1>t, <1>1, <2>1, <2>3, <2>5 DEF Lap, Index
    <3>2. Lap(read_pos + j) \in write_pos .. write_pos + c - 1
      BY <1>t, <1>1, <2>1, <2>5, <3>1 DEF Index
    <3>3. cells'[Lap(read_pos + j)] = accepted + (j - data_size)
      BY <1>t, <1>2, <2>1, <2>2, <3>1, <3>2 DEF Index
    <3>4. accepted = Len(sent) + data_size
      BY DEF Inv, RingExact
    <3> QED BY <1>t, <1>2, <2>1, <2>2, <3>3, <3>4
  <2> QED BY <1>t, <2>1, <2>4, <2>5
<1>8. RingExact'
  <2>1. accepted' = Len(sent') + data_size'
    BY <1>t, <1>1, <1>2 DEF Inv, RingExact
  <2>2. \A i \in 1 .. Len(sent') : sent'[i] = i - 1
    BY <1>2 DEF Inv, RingExact
  <2> QED BY <1>7, <2>1, <2>2 DEF RingExact
<1> QED BY <1>5, <1>8 DEF Inv

\* The socket takes the oldest bytes of the ring, in order.
LEMMA SocketChunk ==
    ASSUME NEW k \in 1 .. Cap, Inv, SocketWrite(k)
    PROVE  /\ data_size \in 1 .. Cap /\ k \in 1 .. data_size
           /\ read_pos \in Index /\ read_pos + k <= Cap
           /\ \A j \in 1 .. k : cells[read_pos + j - 1] = Len(sent) + j - 1
<1>t. data_size \in 1 .. Cap /\ write_pos \in Index /\ Len(sent) \in Nat
  BY DEF Inv, TypeOK, SocketWrite, Draining
<1>1. k \in 1 .. data_size /\ read_pos + k <= Cap /\ read_pos \in Index
  <2>1. ReadChunk \in 1 .. data_size /\ read_pos + ReadChunk <= Cap
    BY <1>t, ReadChunkFits
  <2>2. k \in 1 .. ReadChunk
    BY DEF SocketWrite
  <2>3. read_pos \in Index
    BY <1>t, ReadPos
  <2> QED BY <1>t, <2>1, <2>2, <2>3 DEF Index
<1>2. ASSUME NEW j \in 1 .. k
      PROVE  cells[read_pos + j - 1] = Len(sent) + j - 1
  <2>1. j - 1 \in 0 .. data_size - 1 /\ j - 1 \in 0 .. Cap - 1
    BY <1>t, <1>1, <1>2
  <2>2. cells[(read_pos + (j - 1)) % Cap] = Len(sent) + (j - 1)
    BY <2>1 DEF Inv, RingExact
  <2>3. (read_pos + (j - 1)) % Cap = Lap(read_pos + (j - 1))
    BY <1>t, <2>1, Offset
  <2>4. Lap(read_pos + (j - 1)) = read_pos + j - 1
    BY <1>1, <1>2, <1>t DEF Lap, Index
  <2> QED BY <1>t, <1>2, <2>2, <2>3, <2>4
<1> QED BY <1>t, <1>1, <1>2

\* Sending k bytes: the oldest byte moves on by k, the others stay where they are.
LEMMA SocketWriteInv == ASSUME NEW k \in 1 .. Cap PROVE Inv /\ SocketWrite(k) => Inv'
<1> SUFFICES ASSUME Inv, SocketWrite(k) PROVE Inv'
  OBVIOUS
<1> DEFINE out == [j \in 1 .. k |-> cells[read_pos + j - 1]]
<1>t. /\ cells \in [Index -> Nat] /\ data_size \in 1 .. Cap /\ write_pos \in Index
      /\ accepted \in Nat /\ sent \in Seq(Nat) /\ Len(sent) \in Nat
  BY DEF Inv, TypeOK, SocketWrite, Draining
<1>e. /\ accepted = Len(sent) + data_size
      /\ \A i \in 1 .. Len(sent) : sent[i] = i - 1
      /\ \A j \in 0 .. data_size - 1 : cells[(read_pos + j) % Cap] = Len(sent) + j
  BY DEF Inv, RingExact
<1>1. k \in 1 .. data_size /\ read_pos + k <= Cap /\ read_pos \in Index
  BY SocketChunk
<1>2. /\ sent' = sent \o out
      /\ data_size' = data_size - k
      /\ call' = [call EXCEPT !.want = IF call.want > k THEN call.want - k ELSE 0]
      /\ cells' = cells /\ write_pos' = write_pos /\ accepted' = accepted
      /\ closed' = closed /\ errors' = errors
  BY DEF SocketWrite
<1>3. \A j \in 1 .. k : cells[read_pos + j - 1] = Len(sent) + j - 1
  BY SocketChunk
<1>4. out \in Seq(Nat) /\ Len(out) = k
  <2>1. ASSUME NEW j \in 1 .. k PROVE cells[read_pos + j - 1] \in Nat
    <3>1. cells[read_pos + j - 1] = Len(sent) + j - 1
      BY <1>3, <2>1
    <3> QED BY <1>t, <1>1, <2>1, <3>1
  <2>2. k \in Nat
    BY <1>t, <1>1
  <2> QED BY <2>1, <2>2
<1>5. /\ sent' \in Seq(Nat) /\ Len(sent') = Len(sent) + k
      /\ \A i \in 1 .. Len(sent') : sent'[i] = IF i <= Len(sent) THEN sent[i]
                                               ELSE out[i - Len(sent)]
  <2> HIDE DEF out
  <2> QED BY <1>t, <1>2, <1>4, ConcatProperties
<1>6. \A i \in 1 .. Len(sent') : sent'[i] = i - 1
  <2> SUFFICES ASSUME NEW i \in 1 .. Len(sent') PROVE sent'[i] = i - 1
    OBVIOUS
  <2>1. CASE i <= Len(sent)
    <3>1. i \in 1 .. Len(sent)
      BY <1>t, <1>5, <2>1
    <3> QED BY <1>e, <1>5, <2>1, <3>1
  <2>2. CASE i > Len(sent)
    <3>1. i - Len(sent) \in 1 .. k
      BY <1>t, <1>1, <1>5, <2>2
    <3>2. out[i - Len(sent)] = Len(sent) + (i - Len(sent)) - 1
      BY <1>3, <3>1
    <3>3. sent'[i] = out[i - Len(sent)]
      <4> HIDE DEF out
      <4> QED BY <1>t, <1>5, <2>2
    <3> QED BY <1>t, <1>1, <1>5, <2>2, <3>1, <3>2, <3>3
  <2> QED BY <1>t, <1>1, <1>5, <2>1, <2>2
<1>7. ASSUME NEW j \in 0 .. data_size' - 1
      PROVE  cells'[(read_pos' + j) % Cap] = Len(sent') + j
  <2>1. j + k \in 0 .. data_size - 1 /\ j + k \in 0 .. Cap - 1 /\ j \in 0 .. Cap - 1
    BY <1>t, <1>1, <1>2, <1>7
  <2>2. cells[(read_pos + (j + k)) % Cap] = Len(sent) + (j + k)
    BY <1>e, <2>1
  <2>3. (read_pos + (j + k)) % Cap = Lap(read_pos + (j + k))
    BY <1>t, <2>1, Offset
  <2>4. read_pos' = Lap(read_pos + k)
    <3>1. read_pos = IF write_pos >= data_size THEN write_pos - data_size
                     ELSE write_pos - data_size + Cap
      BY <1>t, ReadPos
    <3>2. read_pos' = (write_pos - (data_size - k) + Cap) % Cap
      BY <1>2 DEF read_pos
    <3>3. /\ write_pos - (data_size - k) + Cap \in Int
          /\ 0 <= write_pos - (data_size - k) + Cap
          /\ write_pos - (data_size - k) + Cap < 2 * Cap
      BY <1>t, <1>1, <2>1 DEF Index
    <3>4. read_pos' = Lap(write_pos - (data_size - k) + Cap)
      BY <3>2, <3>3, ModLap
    <3> QED BY <1>t, <1>1, <2>1, <3>1, <3>4 DEF Lap, Index
  <2>5. (read_pos' + j) % Cap = Lap(read_pos' + j)
    <3>1. read_pos' + j \in Int /\ 0 <= read_pos' + j /\ read_pos' + j < 2 * Cap
      BY <1>t, <1>1, <2>1, <2>4 DEF Lap, Index
    <3> QED BY <3>1, ModLap
  <2>6. Lap(read_pos' + j) = Lap(read_pos + (j + k))
    BY <1>t, <1>1, <2>1, <2>4 DEF Lap, Index
  <2>7. cells'[(read_pos' + j) % Cap] = Len(sent) + (j + k)
    BY <1>2, <2>2, <2>3, <2>5, <2>6
  <2> QED BY <1>t, <1>1, <1>5, <2>1, <2>7
<1>8. RingExact'
  <2>1. accepted' = Len(sent') + data_size'
    BY <1>t, <1>e, <1>1, <1>2, <1>5
  <2> QED BY <1>6, <1>7, <2>1 DEF RingExact
<1>9. TypeOK'
  <2>1. data_size' \in 0 .. Cap
    BY <1>t, <1>1, <1>2
  <2>2. call' \in [pc : {"idle", "write", "make_room", "flush", "close"}, left : Nat,
                   want : Nat, rc : {"SUCCESS", "IOERR_WRITE"}]
    <3>1. (IF call.want > k THEN call.want - k ELSE 0) \in Nat
      BY DEF Inv, TypeOK
    <3> QED BY <1>2, <3>1 DEF Inv, TypeOK
  <2>3. closed' \in BOOLEAN /\ errors' \in Nat
    BY <1>2 DEF Inv, TypeOK
  <2> QED BY <1>t, <1>2, <1>5, <2>1, <2>2, <2>3 DEF TypeOK
<1> QED BY <1>8, <1>9 DEF Inv

\* Everything else leaves the ring and the client alone.
LEMMA OtherInv ==
    ASSUME Inv,
           UNCHANGED <<cells, data_size, write_pos, accepted, sent>>,
           call' \in [pc : {"idle", "write", "make_room", "flush", "close"}, left : Nat,
                      want : Nat, rc : {"SUCCESS", "IOERR_WRITE"}],
           closed' \in BOOLEAN, errors' \in Nat
    PROVE  Inv'
<1>1. TypeOK'
  BY DEF Inv, TypeOK
<1>2. read_pos' = read_pos
  BY DEF read_pos
<1>3. RingExact'
  BY <1>2 DEF Inv, RingExact
<1> QED BY <1>1, <1>3 DEF Inv

LEMMA NextInv == Inv /\ [Next]_vars => Inv'
<1> SUFFICES ASSUME Inv, [Next]_vars PROVE Inv'
  OBVIOUS
<1>t. /\ call \in [pc : {"idle", "write", "make_room", "flush", "close"}, left : Nat,
                   want : Nat, rc : {"SUCCESS", "IOERR_WRITE"}]
      /\ closed \in BOOLEAN /\ errors \in Nat /\ data_size \in Nat
  BY DEF Inv, TypeOK
<1>1. CASE \E n \in 1 .. MaxBytes : Writen(n)
  BY <1>t, <1>1, OtherInv, WriterBounds DEF Writen, Start
<1>2. CASE Flush("flush") \/ Flush("close")
  BY <1>t, <1>2, OtherInv DEF Flush, Start
<1>3. CASE CopyIn
  BY <1>3, CopyInInv
<1>4. CASE RingFull
  BY <1>t, <1>4, OtherInv DEF RingFull
<1>5. CASE WrittenAll
  BY <1>t, <1>5, OtherInv DEF WrittenAll, Start
<1>6. CASE Drained
  <2>1. call' \in [pc : {"idle", "write", "make_room", "flush", "close"}, left : Nat,
                   want : Nat, rc : {"SUCCESS", "IOERR_WRITE"}]
    <3>1. CASE call.pc = "make_room"
      BY <1>t, <1>6, <3>1 DEF Drained
    <3>2. CASE call.pc # "make_room"
      BY <1>t, <1>6, <3>2 DEF Drained, Start
    <3> QED BY <3>1, <3>2
  <2>2. closed' \in BOOLEAN /\ errors' \in Nat
    BY <1>t, <1>6 DEF Drained
  <2>3. UNCHANGED <<cells, data_size, write_pos, accepted, sent>>
    BY <1>6 DEF Drained
  <2> QED BY <2>1, <2>2, <2>3, OtherInv
<1>7. CASE \E k \in 1 .. Cap : SocketWrite(k)
  BY <1>7, SocketWriteInv
<1>8. CASE SocketError
  BY <1>t, <1>8, OtherInv DEF SocketError
<1>9. CASE UNCHANGED vars
  BY <1>t, <1>9, OtherInv DEF vars
<1> QED
  BY <1>1, <1>2, <1>3, <1>4, <1>5, <1>6, <1>7, <1>8, <1>9 DEF Next, Work

\* The type invariant of BufferedWriter, for every capacity: positions stay inside
\* the ring and it never holds more than it has room for.
THEOREM WriterTypeCorrect == Spec => []TypeOK
<1>1. Inv => TypeOK
  BY DEF Inv
<1> QED BY InitInv, NextInv, <1>1, PTL DEF Spec

\* A copy is an Accept of the stream.
LEMMA CopyInAccepts == Inv /\ CopyIn => Stream!Accept
<1> SUFFICES ASSUME Inv, CopyIn PROVE Stream!Accept
  OBVIOUS
<1> DEFINE c == WriteChunk(call.left)
<1>1. /\ data_size \in 0 .. Cap /\ write_pos \in Index /\ accepted \in Nat
      /\ call.left \in Nat \ {0} /\ remain > 0 /\ Len(sent) \in Nat
      /\ accepted = Len(sent) + data_size
  BY DEF CopyIn, Inv, TypeOK, RingExact
<1>2. c \in 1 .. call.left /\ c <= remain
  BY <1>1, WriteChunkFits
<1>3. accepted' = accepted + c /\ sent' = sent
  BY DEF CopyIn
<1> HIDE DEF c
<1>4. c \in 1 .. Cap /\ accepted + c - Len(sent) <= Cap
  BY <1>1, <1>2 DEF remain
<1> QED BY <1>3, <1>4 DEF Stream!Accept

\* What the socket takes is a Deliver of the stream.
LEMMA SocketWriteDelivers ==
    ASSUME NEW k \in 1 .. Cap PROVE Inv /\ SocketWrite(k) => Stream!Deliver
<1> SUFFICES ASSUME Inv, SocketWrite(k) PROVE Stream!Deliver
  OBVIOUS
<1>1. /\ accepted \in Nat /\ Len(sent) \in Nat /\ accepted = Len(sent) + data_size
  BY DEF Inv, TypeOK, RingExact
<1>2. /\ data_size \in 1 .. Cap /\ k \in 1 .. data_size
      /\ \A j \in 1 .. k : cells[read_pos + j - 1] = Len(sent) + j - 1
  BY SocketChunk
<1>3. [j \in 1 .. k |-> cells[read_pos + j - 1]] = [j \in 1 .. k |-> Len(sent) + j - 1]
  BY <1>2
<1>4. sent' = sent \o [j \in 1 .. k |-> Len(sent) + j - 1] /\ accepted' = accepted
  BY <1>3 DEF SocketWrite
<1>5. k \in 1 .. accepted - Len(sent)
  BY <1>1, <1>2
<1> QED BY <1>4, <1>5 DEF Stream!Deliver

\* BufferedWriter implements ByteStream: whatever the capacity and however the
\* socket cuts the data, no byte is lost, repeated or reordered on its way.
THEOREM WriterImplementsStream == Spec => ImplementsByteStream
<1>1. Init => Stream!StreamInit
  BY DEF Init, Stream!StreamInit
<1>2. Inv /\ [Next]_vars => [Stream!Accept \/ Stream!Deliver]_<<accepted, sent>>
  <2> SUFFICES ASSUME Inv, [Next]_vars
               PROVE  [Stream!Accept \/ Stream!Deliver]_<<accepted, sent>>
    OBVIOUS
  <2>1. CASE CopyIn
    BY <2>1, CopyInAccepts
  <2>2. CASE \E k \in 1 .. Cap : SocketWrite(k)
    BY <2>2, SocketWriteDelivers
  <2>3. CASE UNCHANGED <<accepted, sent>>
    BY <2>3
  <2>4. ~CopyIn /\ ~(\E k \in 1 .. Cap : SocketWrite(k)) => UNCHANGED <<accepted, sent>>
    BY DEF Next, Work, Writen, Flush, RingFull, WrittenAll, Drained, SocketError, vars
  <2> QED BY <2>1, <2>2, <2>3, <2>4
<1> QED BY InitInv, NextInv, <1>1, <1>2, PTL DEF Spec, ImplementsByteStream, Stream!StreamSpec

\* For every capacity, the client gets the first bytes of the session in order and
\* the ring holds exactly those that follow.
THEOREM RingIsExact == Spec => []RingExact
<1>1. Inv => RingExact
  BY DEF Inv
<1> QED BY InitInv, NextInv, <1>1, PTL DEF Spec

-----------------------------------------------------------------------------
(* What close promises.                                                    *)

\* A flush that goes on still wants exactly what the ring holds, so it cannot
\* end with data left; a closed writer does nothing more.
FlushInv ==
    /\ call.pc \in {"flush", "close"} => call.want = data_size
    /\ closed => call.pc = "idle" /\ data_size = 0

LEMMA FlushStep == Inv /\ FlushInv /\ [Next]_vars => FlushInv'
<1> SUFFICES ASSUME Inv, FlushInv, [Next]_vars PROVE FlushInv'
  OBVIOUS
<1>t. /\ call \in [pc : {"idle", "write", "make_room", "flush", "close"}, left : Nat,
                   want : Nat, rc : {"SUCCESS", "IOERR_WRITE"}]
      /\ closed \in BOOLEAN /\ data_size \in 0 .. Cap
  BY DEF Inv, TypeOK
<1>1. CASE \E n \in 1 .. MaxBytes : Writen(n)
  BY <1>t, <1>1 DEF Writen, Start, FlushInv
<1>2. CASE Flush("flush") \/ Flush("close")
  BY <1>t, <1>2 DEF Flush, Start, FlushInv
<1>3. CASE CopyIn
  BY <1>t, <1>3 DEF CopyIn, FlushInv
<1>4. CASE RingFull
  BY <1>t, <1>4 DEF RingFull, FlushInv
<1>5. CASE WrittenAll
  BY <1>t, <1>5 DEF WrittenAll, Start, FlushInv
<1>6. CASE Drained
  <2>1. CASE call.pc = "make_room"
    BY <1>t, <1>6, <2>1 DEF Drained, FlushInv
  <2>2. CASE call.pc # "make_room"
    BY <1>t, <1>6, <2>2 DEF Drained, Start, FlushInv
  <2> QED BY <2>1, <2>2
<1>7. ASSUME NEW k \in 1 .. Cap, SocketWrite(k) PROVE FlushInv'
  <2>1. k \in 1 .. data_size
    BY <1>7, SocketChunk
  <2>2. /\ call' = [call EXCEPT !.want = IF call.want > k THEN call.want - k ELSE 0]
        /\ data_size' = data_size - k /\ closed' = closed
        /\ call.pc # "idle"
    BY <1>7 DEF SocketWrite, Draining
  <2> QED BY <1>t, <2>1, <2>2 DEF FlushInv
<1>8. CASE SocketError
  BY <1>t, <1>8 DEF SocketError, Draining, FlushInv
<1>9. CASE UNCHANGED vars
  BY <1>9 DEF vars, FlushInv
<1> QED BY <1>1, <1>2, <1>3, <1>4, <1>5, <1>6, <1>7, <1>8, <1>9 DEF Next, Work

\* BufferedWriter::close succeeds only when everything that writen accepted has
\* been taken by the socket, whatever errors and short writes came before.
THEOREM CloseFlushes == Spec => []ClosedIsFlushed
<1>1. Init => FlushInv
  BY DEF Init, FlushInv
<1>2. Inv /\ FlushInv => ClosedIsFlushed
  BY DEF Inv, TypeOK, RingExact, FlushInv, ClosedIsFlushed
<1> QED BY InitInv, NextInv, FlushStep, <1>1, <1>2, PTL DEF Spec

=============================================================================

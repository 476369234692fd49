--------------------------- MODULE BufferedWriter ---------------------------
(***************************************************************************)
(* BufferedWriter over RingBuffer: the path of a reply from a session to   *)
(* its non-blocking socket.  The i-th byte a session writes is the number  *)
(* i, so the content of the ring shows which bytes it holds.               *)
(*                                                                         *)
(* A step is one memcpy into the ring or one ::write to the socket, which  *)
(* takes any part of what it is offered, nothing (EAGAIN, EINTR or 0, and  *)
(* the loop tries again), or fails.                                        *)
(***************************************************************************)
EXTENDS Integers, Sequences

CONSTANTS Cap,        \* RingBuffer::capacity
          MaxBytes,   \* bound: bytes a session writes
          MaxErrors   \* bound: ::write calls that fail

ASSUME CapAssumption == Cap \in Nat \ {0}
ASSUME WriterBounds == MaxBytes \in Nat /\ MaxErrors \in Nat

VARIABLES cells,      \* RingBuffer::buffer_
          data_size,  \* RingBuffer::data_size_
          write_pos,  \* RingBuffer::write_pos_
          accepted,   \* bytes copied into the ring so far
          sent,       \* what the socket has taken
          call,       \* the call in progress: pc, bytes left to copy, bytes left to send
          closed,     \* fd_ is -1
          errors

vars == <<cells, data_size, write_pos, accepted, sent, call, closed, errors>>

Index == 0 .. Cap - 1
Least(a, b) == IF a <= b THEN a ELSE b

Init ==
    /\ cells = [i \in Index |-> 0] /\ data_size = 0 /\ write_pos = 0
    /\ accepted = 0 /\ sent = <<>>
    /\ call = [pc |-> "idle", left |-> 0, want |-> 0, rc |-> "SUCCESS"]
    /\ closed = FALSE /\ errors = 0

-----------------------------------------------------------------------------
(* RingBuffer                                                              *)

remain == Cap - data_size

\* Mutant of read_pos: the wrap around is forgotten.
read_pos_NoWrap == IF write_pos >= data_size THEN write_pos - data_size ELSE 0

read_pos == (write_pos - data_size + Cap) % Cap

\* Contiguous room at write_pos_, in the loop of write.
WriteChunk(size) ==
    Least(size, IF read_pos <= write_pos THEN Cap - write_pos ELSE read_pos - write_pos)

\* Contiguous data at read_pos: what buffer() returns.
ReadChunk == IF read_pos < write_pos THEN write_pos - read_pos ELSE Cap - read_pos

-----------------------------------------------------------------------------
(* BufferedWriter                                                          *)

Start(pc, left, want) == call' = [pc |-> pc, left |-> left, want |-> want, rc |-> "SUCCESS"]

\* writen
Writen(n) ==
    /\ call.pc = "idle" /\ ~closed /\ accepted + n <= MaxBytes
    /\ Start("write", n, 0)
    /\ UNCHANGED <<cells, data_size, write_pos, accepted, sent, closed, errors>>

\* write with room in the ring: one turn of RingBuffer::write's loop.
CopyIn ==
    /\ call.pc = "write" /\ call.left > 0 /\ remain > 0
    /\ LET c == WriteChunk(call.left) IN
        /\ cells' = [i \in Index |-> IF i \in write_pos .. write_pos + c - 1
                                     THEN accepted + (i - write_pos) ELSE cells[i]]
        /\ write_pos' = (write_pos + c) % Cap
        /\ data_size' = data_size + c
        /\ accepted' = accepted + c
        /\ call' = [call EXCEPT !.left = @ - c]
    /\ UNCHANGED <<sent, closed, errors>>

\* Mutant of RingFull: no room is asked for.
RingFull_WantsNothing ==
    /\ call.pc = "write" /\ call.left > 0 /\ remain = 0
    /\ call' = [call EXCEPT !.pc = "make_room", !.want = 0]
    /\ UNCHANGED <<cells, data_size, write_pos, accepted, sent, closed, errors>>

\* write with a full ring: flush_internal makes room for what is left.
RingFull ==
    /\ call.pc = "write" /\ call.left > 0 /\ remain = 0
    /\ call' = [call EXCEPT !.pc = "make_room", !.want = call.left]
    /\ UNCHANGED <<cells, data_size, write_pos, accepted, sent, closed, errors>>

WrittenAll ==
    /\ call.pc = "write" /\ call.left = 0
    /\ Start("idle", 0, 0)
    /\ UNCHANGED <<cells, data_size, write_pos, accepted, sent, closed, errors>>

\* flush, and the flush of close: everything in the ring.
Flush(pc) ==
    /\ call.pc = "idle" /\ ~closed
    /\ Start(pc, 0, data_size)
    /\ UNCHANGED <<cells, data_size, write_pos, accepted, sent, closed, errors>>

Draining == call.pc \in {"make_room", "flush", "close"} /\ data_size > 0 /\ call.want > 0

\* Mutant of SocketWrite: the whole chunk is dropped from the ring after a short write.
SocketWrite_ForwardsAll(k) ==
    /\ Draining /\ k \in 1 .. ReadChunk
    /\ sent' = sent \o [j \in 1 .. k |-> cells[read_pos + j - 1]]
    /\ data_size' = data_size - ReadChunk
    /\ call' = [call EXCEPT !.want = IF @ > k THEN @ - k ELSE 0]
    /\ UNCHANGED <<cells, write_pos, accepted, closed, errors>>

\* ::write takes k bytes of the chunk; forward drops them from the ring.
SocketWrite(k) ==
    /\ Draining /\ k \in 1 .. ReadChunk
    /\ sent' = sent \o [j \in 1 .. k |-> cells[read_pos + j - 1]]
    /\ data_size' = data_size - k
    /\ call' = [call EXCEPT !.want = IF @ > k THEN @ - k ELSE 0]
    /\ UNCHANGED <<cells, write_pos, accepted, closed, errors>>

\* IOERR_WRITE goes to the caller: the rest of its data is not accepted, the ring
\* keeps what it holds, and close leaves the writer open.
SocketError ==
    /\ Draining /\ errors < MaxErrors
    /\ call' = [pc |-> "idle", left |-> 0, want |-> 0, rc |-> "IOERR_WRITE"]
    /\ errors' = errors + 1
    /\ UNCHANGED <<cells, data_size, write_pos, accepted, sent, closed>>

\* Mutant of Drained: a flush is over when it sent what one call asked for.
Drained_AfterOne ==
    /\ call.pc \in {"make_room", "flush", "close"} /\ Len(sent) > 0
    /\ IF call.pc = "make_room"
       THEN call' = [call EXCEPT !.pc = "write", !.want = 0]
       ELSE Start("idle", 0, 0)
    /\ closed' = (closed \/ call.pc = "close")
    /\ UNCHANGED <<cells, data_size, write_pos, accepted, sent, errors>>

Drained ==
    /\ call.pc \in {"make_room", "flush", "close"} /\ (data_size = 0 \/ call.want = 0)
    /\ IF call.pc = "make_room"
       THEN call' = [call EXCEPT !.pc = "write", !.want = 0]
       ELSE Start("idle", 0, 0)
    /\ closed' = (closed \/ call.pc = "close")
    /\ UNCHANGED <<cells, data_size, write_pos, accepted, sent, errors>>

Work == CopyIn \/ RingFull \/ WrittenAll \/ Drained \/ \E k \in 1 .. Cap : SocketWrite(k)

Next ==
    \/ \E n \in 1 .. MaxBytes : Writen(n)
    \/ Flush("flush") \/ Flush("close")
    \/ Work \/ SocketError

Spec == Init /\ [][Next]_vars

\* The session's thread keeps running and the client keeps reading.
FairSpec == Spec /\ WF_vars(Work)

-----------------------------------------------------------------------------
(* Properties.                                                             *)

\* Every variable keeps its type; positions stay inside the ring and the ring
\* never holds more than it has room for.
TypeOK ==
    /\ cells \in [Index -> Nat]
    /\ data_size \in 0 .. Cap /\ write_pos \in Index
    /\ accepted \in Nat /\ sent \in Seq(Nat)
    /\ call \in [pc : {"idle", "write", "make_room", "flush", "close"}, left : Nat, want : Nat,
                 rc : {"SUCCESS", "IOERR_WRITE"}]
    /\ closed \in BOOLEAN /\ errors \in Nat

\* Around any number of laps, partial copies and short writes, the client has got
\* the first bytes of the session in order, and the ring holds exactly those that
\* follow, in order from read_pos.
RingExact ==
    /\ accepted = Len(sent) + data_size
    /\ \A i \in 1 .. Len(sent) : sent[i] = i - 1
    /\ \A j \in 0 .. data_size - 1 : cells[(read_pos + j) % Cap] = Len(sent) + j

\* A writer that closed successfully has sent everything it accepted.
ClosedIsFlushed == closed => data_size = 0 /\ Len(sent) = accepted

\* Every call returns while the client reads: writen, which alternates between
\* filling the ring and emptying it, as well as flush and close.
CallsReturn == (call.pc # "idle") ~> (call.pc = "idle")

Stream == INSTANCE ByteStream WITH taken <- accepted, received <- sent

\* The writer implements the stream.
ImplementsByteStream == Stream!StreamSpec

=============================================================================

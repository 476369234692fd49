-------------------------- MODULE LogManagerProofs --------------------------
(***************************************************************************)
(* Proofs about LogManager.  For any number of threads: types, the framing *)
(* of the file, that a commit entry has every record of its transaction in *)
(* front of it, and that the byte count is exact and bounded.  For the     *)
(* single worker thread of the default build: a commit is acknowledged     *)
(* only when it is durable and readable, a begin entry never finds the     *)
(* buffer full, and the log implements WriteAheadLog.                      *)
(***************************************************************************)
EXTENDS LogRefinement, FiniteSetTheorems, TLAPS

USE DEF Piece

LEMMA EntryType ==
    ASSUME NEW x \in Trxs, NEW ty \in Types
    PROVE  /\ Entry(x, ty) \in Entries
           /\ Entry(x, ty).trx = x
           /\ Entry(x, ty).type = ty
           /\ Entry(x, ty).len \in Nat
BY LogAssumption DEF Entry, Entries

LEMMA EntryFields ==
    ASSUME NEW e \in Entries
    PROVE  /\ e.trx \in Trxs /\ e.type \in Types /\ e.len \in Nat
           /\ e = Entry(e.trx, e.type)
<1> PICK x \in Trxs, ty \in Types : e = Entry(x, ty)
  BY DEF Entries
<1> QED BY EntryType

LEMMA PieceType ==
    ASSUME NEW e \in Entries, NEW p \in 1..3, NEW b \in BOOLEAN
    PROVE  Piece(e, p, b) \in Pieces
BY EntryFields DEF Pieces

LEMMA PartsType == \A ty : Parts(ty) \in 1..3
BY DEF Parts

\* What a thread in each place of its call holds.
ThreadOK(t) ==
    /\ pc[t] \in {"check", "push", "write", "sub"} => cur[t] \in Entries
    /\ pc[t] \in {"check", "push"} => trx[t] \in Trxs /\ cur[t].trx = trx[t]
    /\ pc[t] \in {"loop", "pop", "write", "sub", "sync"} => trx[t] \in Trxs
    /\ pc[t] = "write" => part[t] \in 1 .. Parts(cur[t].type)

TypeInv == TypeOK /\ \A t \in Threads : ThreadOK(t)

LEMMA TypeInvInit == Init => TypeInv
BY LogAssumption DEF Init, TypeInv, TypeOK, ThreadOK, PCs

LEMMA DieType ==
    ASSUME TypeInv, Die,
           file' \in Seq(Pieces), synced' \in 0 .. Len(file'), records' \in [Trxs -> Nat],
           crashes' \in Nat, restarts' \in Nat, fails' \in Nat
    PROVE  TypeInv'
<1>1. status' \in [Trxs -> {"none", "active", "committed", "failed", "rolledback", "lost"}]
  BY DEF Die, TypeInv, TypeOK
<1>2. /\ log_entrys_' \in Seq(Entries) /\ total_size_' \in Int
      /\ lock_' \in Threads \cup {NoThread}
  BY DEF Die
<1>5. up' \in BOOLEAN
  BY DEF Die
<1>3. /\ pc' \in [Threads -> PCs] /\ cur' \in [Threads -> Entries \cup {NoEntry}]
      /\ part' \in [Threads -> 1..3] /\ trx' \in [Threads -> Trxs \cup {NoTrx}]
  BY DEF Die, PCs
<1>4. \A t \in Threads : ThreadOK(t)'
  BY DEF Die, ThreadOK
<1> QED BY <1>1, <1>2, <1>3, <1>4, <1>5 DEF TypeInv, TypeOK

LEMMA TypeInvNext == TypeInv /\ [Next]_vars => TypeInv'
<1> SUFFICES ASSUME TypeInv, [Next]_vars PROVE TypeInv'
  OBVIOUS
<1> USE LogAssumption
<1>1. ASSUME NEW t \in Threads, Call(t) PROVE TypeInv'
  <2>1. ASSUME NEW x \in Trxs, NEW ty \in Types, Append_log(t, x, ty),
               trx' = [trx EXCEPT ![t] = x],
               status' \in [Trxs -> {"none", "active", "committed", "failed", "rolledback", "lost"}]
        PROVE  TypeInv'
    <3>1. Entry(x, ty) \in Entries /\ Entry(x, ty).trx = x
      BY EntryType
    <3> QED BY <2>1, <3>1 DEF Append_log, TypeInv, TypeOK, ThreadOK, PCs
  <2>2. ASSUME NEW x \in Trxs, StartTrx(t, x) PROVE TypeInv'
    BY <2>1, <2>2 DEF StartTrx, TypeInv, TypeOK, Types
  <2>3. CASE AppendRecordLog(t)
    BY <2>1, <2>3 DEF AppendRecordLog, TypeInv, TypeOK, Types
  <2>4. CASE AppendCommitTrxLog(t)
    BY <2>1, <2>4 DEF AppendCommitTrxLog, TypeInv, TypeOK, Types
  <2>5. CASE AppendRollbackTrxLog(t)
    BY <2>1, <2>5 DEF AppendRollbackTrxLog, TypeInv, TypeOK, Types
  <2> QED BY <1>1, <2>2, <2>3, <2>4, <2>5 DEF Call
<1>2. ASSUME NEW t \in Threads, Step(t) PROVE TypeInv'
  <2>1. CASE CheckSizeOk(t)
    BY <2>1 DEF CheckSizeOk, TypeInv, TypeOK, ThreadOK, PCs
  <2>2. CASE CheckSizeFull(t)
    <3>1. CASE Die
      BY <2>2, <3>1, DieType DEF CheckSizeFull, TypeInv, TypeOK
    <3>2. CASE Return(t) /\ UNCHANGED <<log_entrys_, total_size_, lock_, cur, part, up>>
      BY <2>2, <3>2 DEF CheckSizeFull, Return, TypeInv, TypeOK, ThreadOK, PCs
    <3>3. CASE /\ \E s \in {"failed", "rolledback"} : Finish(t, s)
               /\ UNCHANGED <<log_entrys_, total_size_, lock_, cur, part, up>>
      BY <2>2, <3>3 DEF CheckSizeFull, Finish, TypeInv, TypeOK, ThreadOK, PCs
    <3> QED BY <2>2, <3>1, <3>2, <3>3 DEF CheckSizeFull
  <2>3. CASE Push(t)
    <3>1. /\ cur[t] \in Entries /\ cur[t].len \in Nat /\ cur[t].trx \in Trxs
      BY <2>3, EntryFields DEF Push, TypeInv, ThreadOK
    <3>2. /\ log_entrys_' \in Seq(Entries) /\ total_size_' \in Int
          /\ records' \in [Trxs -> Nat]
      BY <2>3, <3>1 DEF Push, TypeInv, TypeOK
    <3>3. trx[t] \in Trxs
      BY <2>3 DEF Push, TypeInv, ThreadOK
    <3>4. CASE Return(t)
      BY <2>3, <3>2, <3>4 DEF Push, Return, TypeInv, TypeOK, ThreadOK, PCs
    <3>5. CASE Finish(t, "rolledback")
      BY <2>3, <3>2, <3>5 DEF Push, Finish, TypeInv, TypeOK, ThreadOK, PCs
    <3>6. CASE pc' = [pc EXCEPT ![t] = "loop"] /\ UNCHANGED <<trx, status>>
      BY <2>3, <3>2, <3>3, <3>6 DEF Push, TypeInv, TypeOK, ThreadOK, PCs
    <3> QED BY <2>3, <3>4, <3>5, <3>6 DEF Push
  <2>4. CASE FlushLoop(t)
    BY <2>4 DEF FlushLoop, TypeInv, TypeOK, ThreadOK, PCs
  <2>5. CASE PopEmpty(t)
    BY <2>5 DEF PopEmpty, Finish, TypeInv, TypeOK, ThreadOK, PCs
  <2>6. CASE Pop(t)
    <3>1. Head(log_entrys_) \in Entries /\ Tail(log_entrys_) \in Seq(Entries)
      BY <2>6 DEF Pop, TypeInv, TypeOK
    <3> QED BY <2>6, <3>1, PartsType DEF Pop, TypeInv, TypeOK, ThreadOK, PCs
  <2>7. CASE WritePiece(t)
    <3>1. Piece(cur[t], part[t], FALSE) \in Pieces
      BY <2>7, PieceType DEF WritePiece, TypeInv, TypeOK, ThreadOK
    <3>2. file' \in Seq(Pieces) /\ synced' \in 0 .. Len(file')
      BY <2>7, <3>1 DEF WritePiece, TypeInv, TypeOK
    <3>3. Parts(cur[t].type) \in 1..3
      BY PartsType
    <3>4. CASE part[t] < Parts(cur[t].type)
      <4>1. part' = [part EXCEPT ![t] = @ + 1] /\ UNCHANGED <<pc, lock_>>
        BY <2>7, <3>3, <3>4 DEF WritePiece, TypeInv, TypeOK
      <4>2. UNCHANGED <<log_entrys_, total_size_, synced, cur, trx, status, records, up,
                        crashes, restarts, fails>>
        BY <2>7 DEF WritePiece
      <4> QED BY <3>2, <3>3, <3>4, <4>1, <4>2 DEF TypeInv, TypeOK, ThreadOK
    <3>5. CASE part[t] = Parts(cur[t].type)
      <4>1. pc' = [pc EXCEPT ![t] = "sub"] /\ lock_' = NoThread /\ UNCHANGED part
        BY <2>7, <3>3, <3>5 DEF WritePiece, TypeInv, TypeOK
      <4>2. UNCHANGED <<log_entrys_, total_size_, synced, cur, trx, status, records, up,
                        crashes, restarts, fails>>
        BY <2>7 DEF WritePiece
      <4> QED BY <2>7, <3>2, <4>1, <4>2 DEF WritePiece, TypeInv, TypeOK, ThreadOK, PCs
    <3> QED BY <2>7, <3>4, <3>5 DEF WritePiece
  <2>8. CASE WriteFail(t)
    <3>1. Piece(cur[t], part[t], TRUE) \in Pieces
      BY <2>8, PieceType DEF WriteFail, TypeInv, TypeOK, ThreadOK
    <3>2. file' \in Seq(Pieces) /\ synced' \in 0 .. Len(file') /\ fails' \in Nat
      <4>1. CASE file' = file
        BY <2>8, <4>1 DEF WriteFail, TypeInv, TypeOK
      <4>2. CASE file' = Append(file, Piece(cur[t], part[t], TRUE))
        <5>1. file' \in Seq(Pieces) /\ Len(file') = Len(file) + 1
          BY <3>1, <4>2 DEF TypeInv, TypeOK
        <5> QED BY <2>8, <5>1 DEF WriteFail, TypeInv, TypeOK
      <4> QED BY <2>8, <4>1, <4>2 DEF WriteFail
    <3>3. CASE Die
      BY <2>8, <3>2, <3>3, DieType DEF WriteFail, TypeInv, TypeOK
    <3>4. CASE ~Debug
      BY <2>8, <3>2, <3>4 DEF WriteFail, TypeInv, TypeOK, ThreadOK, PCs
    <3> QED BY <2>8, <3>3, <3>4 DEF WriteFail
  <2>9. CASE SubSize(t)
    BY <2>9, EntryFields DEF SubSize, TypeInv, TypeOK, ThreadOK, PCs
  <2>10. CASE Sync(t)
    BY <2>10 DEF Sync, Finish, TypeInv, TypeOK, ThreadOK, PCs
  <2>11. CASE SyncFail(t)
    BY <2>11 DEF SyncFail, Finish, TypeInv, TypeOK, ThreadOK, PCs
  <2> QED BY <1>2, <2>1, <2>2, <2>3, <2>4, <2>5, <2>6, <2>7, <2>8, <2>9, <2>10, <2>11
          DEF Step
<1>3. CASE Crash
  <2>1. PICK n \in synced .. Len(file) : file' = SubSeq(file, 1, n)
    BY <1>3 DEF Crash
  <2>2. file' \in Seq(Pieces) /\ Len(file') = n
    BY <2>1 DEF TypeInv, TypeOK
  <2> QED BY <1>3, <2>1, <2>2, DieType DEF Crash, TypeInv, TypeOK
<1>4. CASE Restart
  BY <1>4 DEF Restart, TypeInv, TypeOK, ThreadOK
<1>5. CASE UNCHANGED vars
  BY <1>5 DEF vars, TypeInv, TypeOK, ThreadOK
<1> QED BY <1>1, <1>2, <1>3, <1>4, <1>5 DEF Next

\* Type correctness of the log with any number of threads, through failures and
\* crashes.
THEOREM LogTypeCorrect == Spec => []TypeOK
<1>1. TypeInv => TypeOK
  BY DEF TypeInv
<1> QED BY TypeInvInit, TypeInvNext, <1>1, PTL DEF Spec

-----------------------------------------------------------------------------
(* One worker thread, and no failed write that is ignored.                 *)

OneThread == \A a, b \in Threads : a = b
WritesChecked == Debug \/ MaxFails = 0

Flushing(t) == pc[t] \in {"loop", "pop", "write", "sub", "sync"}

\* Where the commit entry of the flushing thread's transaction can be.
CommitQueued(x) == \E i \in DOMAIN log_entrys_ : log_entrys_[i] = Entry(x, "MTR_COMMIT")
CommitInHand(t) == pc[t] = "write" /\ cur[t] = Entry(trx[t], "MTR_COMMIT")
CommitWritten(x) == \E i \in 1 .. Len(file) : CommitAt(x, i)

FlushOK(t) ==
    /\ Flushing(t) => CommitQueued(trx[t]) \/ CommitInHand(t) \/ CommitWritten(trx[t])
    /\ pc[t] = "pop" => log_entrys_ # <<>>
    /\ pc[t] = "sync" => log_entrys_ = <<>>
    /\ pc[t] = "write" /\ part[t] = 2 =>
           Len(file) > 0 /\ file[Len(file)] = Piece(cur[t], 1, FALSE)

DurableInv == TypeInv /\ CommitDurable /\ \A t \in Threads : FlushOK(t)

\* CommitAt depends only on the part of the file up to its position.
LEMMA CommitAtStable ==
    ASSUME NEW x, NEW i, CommitAt(x, i),
           i <= Len(file'), \A j \in 1 .. i : file'[j] = file[j],
           Len(file) \in Nat, Len(file') \in Nat
    PROVE  CommitAt(x, i)'
BY DEF CommitAt

\* A step that keeps the synced prefix and acknowledges nothing keeps CommitDurable.
LEMMA DurableStable ==
    ASSUME TypeInv, TypeInv', CommitDurable,
           synced' = synced,
           \A j \in 1 .. synced : file'[j] = file[j],
           \A x \in Trxs : status'[x] = "committed" => status[x] = "committed"
    PROVE  CommitDurable'
<1> SUFFICES ASSUME NEW x \in Trxs, status'[x] = "committed"
             PROVE  \E i \in 1 .. synced' : CommitAt(x, i)'
  BY DEF CommitDurable
<1>1. PICK i \in 1 .. synced : CommitAt(x, i)
  BY DEF CommitDurable
<1>2. Len(file) \in Nat /\ Len(file') \in Nat /\ synced \in 0 .. Len(file')
  BY DEF TypeInv, TypeOK
<1>3. CommitAt(x, i)'
  BY <1>1, <1>2, CommitAtStable
<1> QED BY <1>1, <1>3

\* When the process dies every thread is idle and nothing is acknowledged.
LEMMA DieDurable ==
    ASSUME DurableInv, TypeInv', Die, synced' = synced,
           \A j \in 1 .. synced : file'[j] = file[j]
    PROVE  DurableInv'
<1>1. \A x \in Trxs : status'[x] = "committed" => status[x] = "committed"
  BY DEF Die
<1>2. CommitDurable'
  BY <1>1, DurableStable DEF DurableInv
<1>3. \A t \in Threads : FlushOK(t)'
  BY DEF Die, FlushOK, Flushing
<1> QED BY <1>2, <1>3 DEF DurableInv

\* A step that leaves the file alone and acknowledges nothing.
LEMMA SameFileDurable ==
    ASSUME DurableInv, TypeInv', UNCHANGED <<file, synced>>,
           \A x \in Trxs : status'[x] = "committed" => status[x] = "committed",
           \A t \in Threads : FlushOK(t)'
    PROVE  DurableInv'
BY DurableStable DEF DurableInv

LEMMA DurableInvNext ==
    ASSUME OneThread, WritesChecked
    PROVE  DurableInv /\ TypeInv' /\ [Next]_vars => DurableInv'
<1> SUFFICES ASSUME DurableInv, TypeInv', [Next]_vars PROVE DurableInv'
  OBVIOUS
<1>0. TypeInv
  BY DEF DurableInv
<1>1. ASSUME NEW t \in Threads, Call(t) PROVE DurableInv'
  <2>1. /\ UNCHANGED <<log_entrys_, file, synced>> /\ pc[t] = "idle"
        /\ pc' = [pc EXCEPT ![t] = "check"]
    BY <1>1 DEF Call, StartTrx, AppendRecordLog, AppendCommitTrxLog, AppendRollbackTrxLog,
                Append_log
  <2>2. \A x \in Trxs : status'[x] = "committed" => status[x] = "committed"
    BY <1>0, <1>1 DEF Call, StartTrx, AppendRecordLog, AppendCommitTrxLog,
                AppendRollbackTrxLog, TypeInv, TypeOK
  <2>3. pc'[t] = "check"
    BY <1>0, <2>1 DEF TypeInv, TypeOK
  <2>4. \A u \in Threads : FlushOK(u)'
    BY <2>3 DEF OneThread, FlushOK, Flushing
  <2> QED BY <2>1, <2>2, <2>4, SameFileDurable
<1>2. ASSUME NEW t \in Threads, Step(t) PROVE DurableInv'
  <2>0. /\ FlushOK(t)
        /\ pc \in [Threads -> PCs]
        /\ pc[t] \in {"check", "push"} => trx[t] \in Trxs
        /\ Flushing(t) => trx[t] \in Trxs
        /\ status \in [Trxs -> {"none", "active", "committed", "failed", "rolledback", "lost"}]
    BY <1>0 DEF DurableInv, TypeInv, TypeOK, ThreadOK, Flushing
  <2>only. ASSUME FlushOK(t)' PROVE \A u \in Threads : FlushOK(u)'
    BY <2>only DEF OneThread
  <2>1. CASE CheckSizeOk(t)
    <3>1. FlushOK(t)'
      BY <2>0, <2>1 DEF CheckSizeOk, FlushOK, Flushing
    <3> QED BY <2>1, <3>1, <2>only, SameFileDurable DEF CheckSizeOk
  <2>2. CASE CheckSizeFull(t)
    <3>1. CASE Die
      BY <2>2, <3>1, DieDurable DEF CheckSizeFull
    <3>2. CASE ~Die
      <4>1. pc'[t] = "idle" /\ UNCHANGED <<file, synced>>
        BY <2>0, <2>2, <3>2 DEF CheckSizeFull, Return, Finish
      <4>2. \A x \in Trxs : status'[x] = "committed" => status[x] = "committed"
        BY <2>0, <2>2, <3>2 DEF CheckSizeFull, Return, Finish
      <4>3. FlushOK(t)'
        BY <4>1 DEF FlushOK, Flushing
      <4> QED BY <4>1, <4>2, <4>3, <2>only, SameFileDurable
    <3> QED BY <3>1, <3>2
  <2>3. CASE Push(t)
    <3>1. /\ UNCHANGED <<file, synced>> /\ log_entrys_' = Append(log_entrys_, cur[t])
          /\ \A x \in Trxs : status'[x] = "committed" => status[x] = "committed"
      BY <2>0, <2>3 DEF Push, Return, Finish
    <3>2. CASE cur[t].type # "MTR_COMMIT"
      <4>1. pc'[t] = "idle"
        BY <2>0, <2>3, <3>2 DEF Push, Return, Finish
      <4>2. FlushOK(t)'
        BY <4>1 DEF FlushOK, Flushing
      <4> QED BY <3>1, <4>2, <2>only, SameFileDurable
    <3>3. CASE cur[t].type = "MTR_COMMIT"
      <4>1. pc'[t] = "loop" /\ trx' = trx
        BY <2>0, <2>3, <3>3 DEF Push, Return, Finish
      <4>2. cur[t] = Entry(trx[t], "MTR_COMMIT")
        <5>1. cur[t] \in Entries /\ cur[t].trx = trx[t]
          BY <1>0, <2>3 DEF Push, TypeInv, ThreadOK
        <5> QED BY <3>3, <5>1, EntryFields
      <4>3. /\ Len(log_entrys_') \in DOMAIN log_entrys_'
            /\ log_entrys_'[Len(log_entrys_')] = cur[t]
        BY <1>0, <3>1 DEF TypeInv, TypeOK
      <4>4. CommitQueued(trx[t])'
        BY <4>1, <4>2, <4>3 DEF CommitQueued, Entry
      <4>5. FlushOK(t)'
        BY <4>1, <4>4 DEF FlushOK, CommitQueued
      <4> QED BY <3>1, <4>5, <2>only, SameFileDurable
    <3> QED BY <3>2, <3>3
  <2>4. CASE FlushLoop(t)
    <3>1. FlushOK(t)'
      BY <2>0, <2>4 DEF FlushLoop, FlushOK, Flushing, CommitQueued, CommitInHand, CommitWritten,
                       CommitAt
    <3> QED BY <2>4, <3>1, <2>only, SameFileDurable DEF FlushLoop
  <2>5. CASE PopEmpty(t)
    BY <2>0, <2>5 DEF PopEmpty, FlushOK
  <2>6. CASE Pop(t)
    <3>1. /\ pc'[t] = "write" /\ cur'[t] = Head(log_entrys_) /\ part'[t] = 1
          /\ log_entrys_' = Tail(log_entrys_) /\ UNCHANGED <<file, synced, trx, status>>
      BY <1>0, <2>6 DEF Pop, TypeInv, TypeOK
    <3>2. CASE CommitQueued(trx[t])
      <4>1. PICK i \in DOMAIN log_entrys_ : log_entrys_[i] = Entry(trx[t], "MTR_COMMIT")
        BY <3>2 DEF CommitQueued
      <4>2. CASE i = 1
        <5>1. cur'[t] = Entry(trx[t], "MTR_COMMIT")
          BY <1>0, <3>1, <4>1, <4>2 DEF TypeInv, TypeOK
        <5>2. CommitInHand(t)'
          BY <3>1, <5>1 DEF CommitInHand, Entry
        <5>3. FlushOK(t)'
          BY <3>1, <5>2 DEF FlushOK, CommitInHand
        <5> QED BY <3>1, <5>3, <2>only, SameFileDurable
      <4>3. CASE i # 1
        <5>1. /\ i - 1 \in DOMAIN Tail(log_entrys_)
              /\ Tail(log_entrys_)[i - 1] = log_entrys_[i]
          BY <1>0, <4>3 DEF TypeInv, TypeOK
        <5>2. CommitQueued(trx[t])'
          BY <3>1, <4>1, <5>1 DEF CommitQueued, Entry
        <5>3. FlushOK(t)'
          BY <3>1, <5>2 DEF FlushOK, CommitQueued
        <5> QED BY <3>1, <5>3, <2>only, SameFileDurable
      <4> QED BY <4>2, <4>3
    <3>3. CASE CommitWritten(trx[t])
      <4>1. CommitWritten(trx[t])'
        BY <3>1, <3>3 DEF CommitWritten, CommitAt, Entry
      <4>2. FlushOK(t)'
        BY <3>1, <4>1 DEF FlushOK, CommitWritten
      <4> QED BY <3>1, <4>2, <2>only, SameFileDurable
    <3> QED BY <2>0, <2>6, <3>2, <3>3 DEF Pop, FlushOK, Flushing, CommitInHand
  <2>7. CASE WritePiece(t)
    <3>1. /\ file' = Append(file, Piece(cur[t], part[t], FALSE))
          /\ pc[t] = "write" /\ UNCHANGED <<log_entrys_, synced, cur, trx, status>>
      BY <2>7 DEF WritePiece
    <3>2. /\ file \in Seq(Pieces) /\ synced \in 0 .. Len(file) /\ cur[t] \in Entries
          /\ part \in [Threads -> 1..3] /\ part[t] \in 1 .. Parts(cur[t].type)
      BY <1>0, <2>7 DEF WritePiece, TypeInv, TypeOK, ThreadOK
    <3>3. /\ Len(file') = Len(file) + 1 /\ Len(file) \in Nat
          /\ \A j \in 1 .. Len(file) : file'[j] = file[j]
          /\ file'[Len(file) + 1] = Piece(cur[t], part[t], FALSE)
      BY <3>1, <3>2
    <3>4. CommitDurable'
      BY <1>0, <3>1, <3>2, <3>3, DurableStable DEF DurableInv
    <3>5. CommitWritten(trx[t]) => CommitWritten(trx[t])'
      BY <3>1, <3>3, CommitAtStable DEF CommitWritten, CommitAt, Entry
    <3>6. CommitQueued(trx[t]) => CommitQueued(trx[t])'
      BY <3>1 DEF CommitQueued, Entry
    <3>7. CASE part[t] < Parts(cur[t].type)
      <4>1. pc'[t] = "write" /\ part'[t] = part[t] + 1
        BY <2>7, <3>1, <3>2, <3>7 DEF WritePiece
      <4>2. part'[t] = 2 => file'[Len(file')] = Piece(cur'[t], 1, FALSE) /\ Len(file') > 0
        <5>1. part'[t] = 2 => part[t] = 1
          BY <3>2, <4>1
        <5>2. cur' = cur /\ Len(file') > 0 /\ file'[Len(file')] = Piece(cur[t], part[t], FALSE)
          BY <3>1, <3>3
        <5> QED BY <5>1, <5>2
      <4>3. CommitInHand(t) => CommitInHand(t)'
        BY <3>1, <4>1 DEF CommitInHand, Entry
      <4>4. FlushOK(t)'
        BY <2>0, <3>1, <3>5, <3>6, <4>1, <4>2, <4>3
           DEF FlushOK, Flushing, CommitWritten, CommitQueued
      <4> QED BY <3>4, <4>4, <2>only DEF DurableInv
    <3>8. CASE part[t] = Parts(cur[t].type)
      <4>1. pc'[t] = "sub"
        BY <2>0, <2>7, <3>2, <3>8 DEF WritePiece
      <4>2. CommitInHand(t) => CommitWritten(trx[t])'
        <5> SUFFICES ASSUME CommitInHand(t) PROVE CommitWritten(trx[t])'
          OBVIOUS
        <5>1. cur[t] = Entry(trx[t], "MTR_COMMIT") /\ part[t] = 2
          BY <3>8 DEF CommitInHand, Entry, Parts
        <5>2. Len(file) > 0 /\ file[Len(file)] = Piece(cur[t], 1, FALSE)
          BY <2>0, <3>1, <5>1 DEF FlushOK
        <5>3. PICK n \in Nat : n = Len(file) + 1
          BY <3>3
        <5>4. /\ n \in 2 .. Len(file') /\ file'[n - 1] = file[Len(file)]
              /\ file'[n] = Piece(cur[t], 2, FALSE)
          BY <3>3, <5>1, <5>2, <5>3
        <5>5. CommitAt(trx[t], n)'
          BY <3>1, <5>1, <5>2, <5>4 DEF CommitAt, Entry
        <5> QED BY <3>1, <5>4, <5>5 DEF CommitWritten
      <4>3. FlushOK(t)'
        BY <2>0, <3>1, <3>5, <3>6, <4>1, <4>2 DEF FlushOK, Flushing, CommitWritten, CommitQueued
      <4> QED BY <3>4, <4>3, <2>only DEF DurableInv
    <3> QED BY <2>7, <3>7, <3>8 DEF WritePiece
  <2>8. CASE WriteFail(t)
    <3>1. Die
      BY <1>0, <2>8, LogAssumption DEF WriteFail, WritesChecked, TypeInv, TypeOK
    <3>2. \A j \in 1 .. synced : file'[j] = file[j]
      <4>1. file \in Seq(Pieces) /\ synced \in 0 .. Len(file)
        BY <1>0 DEF TypeInv, TypeOK
      <4>2. \A e : \A j \in 1 .. Len(file) : Append(file, e)[j] = file[j]
        BY <4>1
      <4>3. file' = file \/ \E e : file' = Append(file, e)
        BY <2>8 DEF WriteFail
      <4> QED BY <4>1, <4>2, <4>3
    <3> QED BY <2>8, <3>1, <3>2, DieDurable DEF WriteFail
  <2>9. CASE SubSize(t)
    <3>1. FlushOK(t)'
      BY <2>0, <2>9 DEF SubSize, FlushOK, Flushing, CommitQueued, CommitInHand, CommitWritten,
                       CommitAt
    <3> QED BY <2>9, <3>1, <2>only, SameFileDurable DEF SubSize
  <2>10. CASE Sync(t)
    <3>1. /\ pc'[t] = "idle" /\ file' = file /\ synced' = Len(file)
          /\ trx[t] \in Trxs /\ status' = [status EXCEPT ![trx[t]] = "committed"]
      BY <2>0, <2>10 DEF Sync, Finish, Flushing
    <3>2. CommitWritten(trx[t])
      BY <2>0, <2>10 DEF Sync, FlushOK, Flushing, CommitQueued, CommitInHand
    <3>3. \A x \in Trxs : status'[x] = "committed" => CommitWritten(x)
      <4> SUFFICES ASSUME NEW x \in Trxs, status'[x] = "committed" PROVE CommitWritten(x)
        OBVIOUS
      <4>1. CASE x = trx[t]
        BY <3>2, <4>1
      <4>2. CASE x # trx[t]
        <5>1. PICK i \in 1 .. synced : CommitAt(x, i)
          BY <2>0, <3>1, <4>2 DEF DurableInv, CommitDurable
        <5> QED BY <1>0, <5>1 DEF CommitWritten, TypeInv, TypeOK
      <4> QED BY <4>1, <4>2
    <3>4. CommitDurable'
      BY <3>1, <3>3 DEF CommitDurable, CommitWritten, CommitAt, Entry
    <3>5. FlushOK(t)'
      BY <3>1 DEF FlushOK, Flushing
    <3> QED BY <3>4, <3>5, <2>only DEF DurableInv
  <2>11. CASE SyncFail(t)
    <3>1. FlushOK(t)'
      BY <2>0, <2>11 DEF SyncFail, Finish, FlushOK, Flushing
    <3>2. \A x \in Trxs : status'[x] = "committed" => status[x] = "committed"
      BY <2>0, <2>11 DEF SyncFail, Finish
    <3> QED BY <2>11, <3>1, <3>2, <2>only, SameFileDurable DEF SyncFail
  <2> QED BY <1>2, <2>1, <2>2, <2>3, <2>4, <2>5, <2>6, <2>7, <2>8, <2>9, <2>10, <2>11
          DEF Step
<1>3. CASE Crash
  <2>1. PICK n \in synced .. Len(file) : file' = SubSeq(file, 1, n)
    BY <1>3 DEF Crash
  <2>2. \A j \in 1 .. synced : file'[j] = file[j]
    BY <1>0, <2>1 DEF TypeInv, TypeOK
  <2> QED BY <1>3, <2>2, DieDurable DEF Crash
<1>4. CASE Restart
  <2>1. \A t \in Threads : FlushOK(t)'
    BY <1>4 DEF Restart, DurableInv, FlushOK, Flushing, CommitQueued, CommitInHand,
                CommitWritten, CommitAt
  <2> QED BY <1>4, <2>1, SameFileDurable DEF Restart
<1>5. CASE UNCHANGED vars
  <2>1. \A t \in Threads : FlushOK(t)'
    BY <1>5 DEF vars, DurableInv, FlushOK, Flushing, CommitQueued, CommitInHand,
                CommitWritten, CommitAt
  <2> QED BY <1>5, <2>1, SameFileDurable DEF vars
<1> QED BY <1>1, <1>2, <1>3, <1>4, <1>5 DEF Next

\* With one worker thread, and log writes that cannot fail unnoticed, a commit is
\* acknowledged only when its entry is in the part of redo.log a crash preserves:
\* for any number of transactions, any buffer size and any number of crashes.
THEOREM CommitIsDurable ==
    ASSUME OneThread, WritesChecked
    PROVE  Spec => []CommitDurable
<1>1. Init => DurableInv
  BY TypeInvInit DEF Init, DurableInv, CommitDurable, FlushOK, Flushing
<1>2. DurableInv /\ [Next]_vars => DurableInv'
  BY TypeInvNext, DurableInvNext DEF DurableInv
<1>3. DurableInv => CommitDurable
  BY DEF DurableInv
<1> QED BY <1>1, <1>2, <1>3, PTL DEF Spec

-----------------------------------------------------------------------------
(* The size limit seen by one worker thread.                               *)

RoomInv ==
    /\ TypeInv
    /\ total_size_ < LogBufferSize
    /\ \A t \in Threads : pc[t] = "push" => ~BufferFull(t)

\* With one worker thread the ASSERT of start_if_need holds: a begin entry, which
\* has length 0, never finds the buffer full.
THEOREM BeginHasRoom ==
    ASSUME OneThread
    PROVE  Spec => []BeginNeverFull
<1>1. Init => RoomInv
  BY TypeInvInit, LogAssumption DEF Init, RoomInv
<1>2. RoomInv /\ TypeInv' /\ [Next]_vars => RoomInv'
  <2> SUFFICES ASSUME RoomInv, TypeInv', [Next]_vars PROVE RoomInv'
    OBVIOUS
  <2>0. TypeInv /\ total_size_ \in Int /\ LogBufferSize \in Nat \ {0}
    BY LogAssumption DEF RoomInv, TypeInv, TypeOK
  <2>1. ASSUME NEW t \in Threads, Call(t) PROVE RoomInv'
    <3>1. total_size_' = total_size_ /\ pc'[t] = "check"
      BY <2>0, <2>1 DEF Call, StartTrx, AppendRecordLog, AppendCommitTrxLog,
         AppendRollbackTrxLog, Append_log, TypeInv, TypeOK
    <3> QED BY <3>1 DEF RoomInv, OneThread
  <2>2. ASSUME NEW t \in Threads, Step(t) PROVE RoomInv'
    <3>1. CASE CheckSizeOk(t)
      BY <3>1 DEF CheckSizeOk, RoomInv, OneThread, BufferFull
    <3>2. CASE Push(t)
      <4>1. ~BufferFull(t) /\ cur[t].len \in Nat
        BY <2>0, <3>2, EntryFields DEF Push, RoomInv, TypeInv, ThreadOK
      <4>2. total_size_' < LogBufferSize /\ pc'[t] # "push"
        BY <2>0, <3>2, <4>1 DEF Push, Return, Finish, BufferFull, TypeInv, TypeOK
      <4> QED BY <4>2 DEF RoomInv, OneThread
    <3>3. CASE SubSize(t)
      <4>1. cur[t].len \in Nat
        BY <2>0, <3>3, EntryFields DEF SubSize, TypeInv, ThreadOK
      <4>2. total_size_' < LogBufferSize /\ pc'[t] # "push"
        BY <2>0, <3>3, <4>1 DEF SubSize, RoomInv, TypeInv, TypeOK
      <4> QED BY <4>2 DEF RoomInv, OneThread
    <3>4. CASE Die /\ (CheckSizeFull(t) \/ WriteFail(t))
      BY <2>0, <3>4 DEF Die, RoomInv
    <3>5. CASE \/ ~Die /\ (CheckSizeFull(t) \/ WriteFail(t))
               \/ FlushLoop(t) \/ PopEmpty(t) \/ Pop(t) \/ WritePiece(t)
               \/ Sync(t) \/ SyncFail(t)
      <4>1. total_size_' = total_size_ /\ pc'[t] # "push"
        BY <2>0, <3>5 DEF CheckSizeFull, WriteFail, FlushLoop, PopEmpty, Pop, WritePiece, Sync,
           SyncFail, Return, Finish, TypeInv, TypeOK
      <4> QED BY <4>1 DEF RoomInv, OneThread
    <3> QED BY <2>2, <3>1, <3>2, <3>3, <3>4, <3>5 DEF Step
  <2>3. CASE Crash
    BY <2>0, <2>3 DEF Crash, Die, RoomInv
  <2>4. CASE Restart \/ UNCHANGED vars
    BY <2>4 DEF Restart, vars, RoomInv, BufferFull
  <2> QED BY <2>1, <2>2, <2>3, <2>4 DEF Next
<1>3. RoomInv => BeginNeverFull
  <2> SUFFICES ASSUME RoomInv, NEW t \in Threads, pc[t] = "check", cur[t].type = "MTR_BEGIN"
               PROVE  ~BufferFull(t)
    BY DEF BeginNeverFull
  <2>1. cur[t].len = 0
    <3>1. cur[t] \in Entries
      BY DEF RoomInv, TypeInv, ThreadOK
    <3> QED BY <3>1, EntryFields DEF Entry
  <2> QED BY <2>1, LogAssumption DEF RoomInv, BufferFull, TypeInv, TypeOK
<1> QED BY <1>1, <1>2, <1>3, TypeInvNext, PTL DEF Spec, RoomInv

-----------------------------------------------------------------------------
(* The lock, for any number of threads: its holder is the thread that      *)
(* writes, and a process that is down has no calls.                        *)

LockInv ==
    /\ TypeInv
    /\ \A t \in Threads : lock_ = t <=> pc[t] = "write"
    /\ up \/ \A t \in Threads : pc[t] = "idle"
    /\ fails <= MaxFails

LEMMA DieLock ==
    ASSUME TypeInv', Die, fails' <= MaxFails
    PROVE  LockInv'
<1>1. lock_' = NoThread /\ \A t \in Threads : pc'[t] = "idle"
  BY DEF Die
<1>2. \A t \in Threads : lock_' = t <=> pc'[t] = "write"
  BY <1>1, LogAssumption
<1> QED BY <1>1, <1>2 DEF LockInv

\* A step of one thread that leaves the lock alone and is not in the write.
LEMMA LockStep ==
    ASSUME LockInv, TypeInv', NEW t \in Threads, NEW c, pc' = [pc EXCEPT ![t] = c],
           pc[t] # "write", c # "write", lock_' = lock_, up, up' = up, fails' <= MaxFails
    PROVE  LockInv'
<1>1. pc'[t] = c /\ \A u \in Threads : u # t => pc'[u] = pc[u]
  BY DEF LockInv, TypeInv, TypeOK
<1>2. \A u \in Threads : lock_' = u <=> pc'[u] = "write"
  BY <1>1 DEF LockInv
<1> QED BY <1>2 DEF LockInv

LEMMA LockInvNext == LockInv /\ TypeInv' /\ [Next]_vars => LockInv'
<1> SUFFICES ASSUME LockInv, TypeInv', [Next]_vars PROVE LockInv'
  OBVIOUS
<1>0. fails \in Nat /\ MaxFails \in Nat /\ fails <= MaxFails
  BY LogAssumption DEF LockInv, TypeInv, TypeOK
<1>1. ASSUME NEW t \in Threads, Call(t) PROVE LockInv'
  <2>1. /\ pc[t] = "idle" /\ pc' = [pc EXCEPT ![t] = "check"] /\ lock_' = lock_ /\ up /\ up' = up
        /\ fails' = fails
    BY <1>1 DEF Call, StartTrx, AppendRecordLog, AppendCommitTrxLog, AppendRollbackTrxLog, Append_log
  <2> QED BY <1>0, <2>1, LockStep
<1>2. ASSUME NEW t \in Threads, Step(t) PROVE LockInv'
  <2>0. pc[t] # "idle"
    BY <1>2 DEF Step, CheckSizeOk, CheckSizeFull, Push, FlushLoop, PopEmpty, Pop, WritePiece,
                WriteFail, SubSize, Sync, SyncFail
  <2>up. up
    BY <2>0 DEF LockInv
  <2>1. CASE Die /\ (CheckSizeFull(t) \/ WriteFail(t))
    <3>1. fails' <= MaxFails
      BY <1>0, <2>1 DEF CheckSizeFull, WriteFail
    <3> QED BY <2>1, <3>1, DieLock
  <2>2. CASE \/ ~Die /\ CheckSizeFull(t)
             \/ CheckSizeOk(t) \/ Push(t) \/ FlushLoop(t) \/ PopEmpty(t) \/ SubSize(t)
             \/ Sync(t) \/ SyncFail(t)
    <3>1. /\ pc[t] # "write" /\ lock_' = lock_ /\ up' = up /\ fails' <= MaxFails
      BY <1>0, <2>2 DEF CheckSizeFull, CheckSizeOk, Push, FlushLoop, PopEmpty, SubSize, Sync, SyncFail
    <3>2. PICK c : pc' = [pc EXCEPT ![t] = c] /\ c # "write"
      BY <2>2 DEF CheckSizeFull, CheckSizeOk, Push, FlushLoop, PopEmpty, SubSize, Sync, SyncFail,
                  Return, Finish
    <3> QED BY <2>up, <3>1, <3>2, LockStep
  <2>3. CASE Pop(t)
    <3>1. lock_ = NoThread /\ lock_' = t /\ pc' = [pc EXCEPT ![t] = "write"] /\ up' = up /\ fails' = fails
      BY <2>3 DEF Pop
    <3>2. \A u \in Threads : pc[u] # "write"
      BY <3>1, LogAssumption DEF LockInv
    <3>3. \A u \in Threads : pc'[u] = "write" <=> u = t
      BY <3>1, <3>2 DEF LockInv, TypeInv, TypeOK
    <3> QED BY <1>0, <2>up, <3>1, <3>3 DEF LockInv
  <2>4. CASE WritePiece(t)
    <3>1. lock_ = t /\ up' = up /\ fails' = fails /\ \A u \in Threads : u # t => pc[u] # "write"
      BY <2>4 DEF WritePiece, LockInv
    <3>2. CASE UNCHANGED <<pc, lock_>>
      BY <3>1, <3>2 DEF LockInv
    <3>3. CASE pc' = [pc EXCEPT ![t] = "sub"] /\ lock_' = NoThread
      <4>1. \A u \in Threads : pc'[u] # "write"
        BY <3>1, <3>3 DEF LockInv, TypeInv, TypeOK
      <4> QED BY <1>0, <2>up, <3>1, <3>3, <4>1, LogAssumption DEF LockInv
    <3> QED BY <2>4, <3>2, <3>3 DEF WritePiece
  <2>5. CASE ~Die /\ WriteFail(t)
    <3>1. lock_ = t /\ \A u \in Threads : u # t => pc[u] # "write"
      BY <2>5 DEF WriteFail, LockInv
    <3>2. pc' = [pc EXCEPT ![t] = "sub"] /\ lock_' = NoThread /\ up' = up
      BY <2>5 DEF WriteFail
    <3>3. fails' <= MaxFails
      BY <1>0, <2>5 DEF WriteFail
    <3>4. \A u \in Threads : pc'[u] # "write"
      BY <3>1, <3>2 DEF LockInv, TypeInv, TypeOK
    <3> QED BY <2>up, <3>2, <3>3, <3>4, LogAssumption DEF LockInv
  <2> QED BY <1>2, <2>1, <2>2, <2>3, <2>4, <2>5 DEF Step
<1>3. CASE Crash
  BY <1>0, <1>3, DieLock DEF Crash
<1>4. CASE Restart
  BY <1>4 DEF Restart, LockInv
<1>5. CASE UNCHANGED vars
  BY <1>5 DEF vars, LockInv
<1> QED BY <1>1, <1>2, <1>3, <1>4, <1>5 DEF Next

LEMMA LockInvInit == Init => LockInv
BY TypeInvInit, LogAssumption DEF Init, LockInv

-----------------------------------------------------------------------------
(* The framing of the file, for any number of threads.                     *)

\* No restart has appended behind a torn tail and no failed write was ignored.
Undamaged == restarts = 0 /\ (Debug \/ fails = 0)

Continues(i) ==
    IF file[i].part = 1
    THEN i = 1 \/ file[i - 1].part = Parts(file[i - 1].type)
    ELSE i > 1 /\ file[i - 1] = [file[i] EXCEPT !.part = @ - 1, !.torn = FALSE]

WholeTail == file = <<>> \/ ( /\ file[Len(file)].part = Parts(file[Len(file)].type)
                              /\ ~file[Len(file)].torn )

\* What a thread that writes an entry left of it at the end of the file.
TailOf(t) == IF part[t] = 1 THEN WholeTail
             ELSE file # <<>> /\ file[Len(file)] = Piece(cur[t], part[t] - 1, FALSE)

FrameOK ==
    /\ \A i \in 1 .. Len(file) : Continues(i)
    /\ \A i \in 1 .. Len(file) - 1 : ~file[i].torn
    /\ up /\ lock_ = NoThread => WholeTail
    /\ up => \A t \in Threads : pc[t] = "write" => TailOf(t)

FrameInv == LockInv /\ (Undamaged => FrameOK)

\* Continues depends on two pieces only.
LEMMA SameContinues ==
    ASSUME NEW i \in Nat, i >= 1, Continues(i), file'[i] = file[i], i > 1 => file'[i - 1] = file[i - 1]
    PROVE  Continues(i)'
<1>1. CASE i > 1
  BY <1>1 DEF Continues
<1>2. CASE ~(i > 1)
  <2>1. file[i].part = 1 /\ i = 1
    BY <1>2 DEF Continues
  <2> QED BY <2>1 DEF Continues
<1> QED BY <1>1, <1>2

\* The piece that FileFramed expects before a piece.
LEMMA PieceBefore ==
    ASSUME NEW q \in Pieces
    PROVE  [q EXCEPT !.part = @ - 1, !.torn = FALSE]
             = [trx |-> q.trx, type |-> q.type, part |-> q.part - 1, torn |-> FALSE]
<1> DEFINE Loose == [trx : Trxs, type : Types, part : Int, torn : BOOLEAN]
<1>1. PICK y : y = [q EXCEPT !.part = @ - 1, !.torn = FALSE]
  OBVIOUS
<1>2. PICK z : z = [trx |-> q.trx, type |-> q.type, part |-> q.part - 1, torn |-> FALSE]
  OBVIOUS
<1>3. q \in Loose /\ q.part - 1 \in Int
  BY DEF Pieces
<1>4. y \in Loose /\ y.trx = q.trx /\ y.type = q.type /\ y.part = q.part - 1 /\ y.torn = FALSE
  BY <1>1, <1>3
<1>5. z \in Loose /\ z.trx = q.trx /\ z.type = q.type /\ z.part = q.part - 1 /\ z.torn = FALSE
  BY <1>2, <1>3
<1>6. y = z
  BY <1>4, <1>5
<1> QED BY <1>1, <1>2, <1>6

\* A piece that continues the entry at the end of the file.
LEMMA PieceFramed ==
    ASSUME file \in Seq(Pieces), \A i \in 1 .. Len(file) : Continues(i), up,
           NEW t \in Threads, TailOf(t), cur[t] \in Entries, part[t] \in 1 .. 3,
           NEW torn \in BOOLEAN, file' = Append(file, Piece(cur[t], part[t], torn)),
           \A i \in 1 .. Len(file) - 1 : ~file[i].torn
    PROVE  /\ \A i \in 1 .. Len(file') : Continues(i)'
           /\ \A i \in 1 .. Len(file') - 1 : ~file'[i].torn
           /\ file' # <<>> /\ file'[Len(file')] = Piece(cur[t], part[t], torn)
<1>1. PICK q \in Pieces : q = Piece(cur[t], part[t], torn)
  BY PieceType
<1>2. PICK n \in Nat : n = Len(file)
  OBVIOUS
<1>3. Len(file') = n + 1 /\ file'[n + 1] = q /\ \A i \in 1 .. n : file'[i] = file[i]
  BY <1>1, <1>2
<1>4. n > 0 => ~file[n].torn
  <2> SUFFICES ASSUME n > 0 PROVE ~file[n].torn
    OBVIOUS
  <2>1. file # <<>>
    BY <1>2
  <2> QED BY <1>2, <2>1 DEF TailOf, WholeTail
<1>5. ASSUME NEW i \in 1 .. n PROVE Continues(i)'
  <2>1. Continues(i) /\ file'[i] = file[i]
    BY <1>2, <1>3
  <2>2. i > 1 => file'[i - 1] = file[i - 1]
    BY <1>2, <1>3
  <2>3. i \in Nat /\ i >= 1
    OBVIOUS
  <2> QED BY <2>1, <2>2, <2>3, SameContinues
<1>6. Continues(n + 1)'
  <2>1. CASE part[t] = 1
    <3>1. q.part = 1 /\ WholeTail
      BY <1>1, <2>1 DEF TailOf
    <3>2. CASE n = 0
      <4>1. file'[n + 1].part = 1 /\ n + 1 = 1
        BY <1>3, <3>1, <3>2
      <4> QED BY <4>1 DEF Continues
    <3>3. CASE n # 0
      <4>1. file # <<>> /\ file'[n] = file[n] /\ (n + 1) - 1 = n
        BY <1>2, <1>3, <3>3
      <4>2. file[n].part = Parts(file[n].type)
        BY <1>2, <3>1, <4>1 DEF WholeTail
      <4>3. file'[(n + 1) - 1] = file[n] /\ file'[n + 1].part = 1
        BY <1>3, <3>1, <4>1
      <4>4. file'[(n + 1) - 1].part = Parts(file'[(n + 1) - 1].type)
        BY <4>2, <4>3
      <4> QED BY <4>3, <4>4 DEF Continues
    <3> QED BY <3>2, <3>3
  <2>2. CASE part[t] # 1
    <3>1. file # <<>> /\ file[n] = Piece(cur[t], part[t] - 1, FALSE)
      BY <1>2, <2>2 DEF TailOf
    <3>2. n > 0 /\ file'[n] = file[n] /\ (n + 1) - 1 = n /\ n + 1 > 1
      BY <1>2, <1>3, <3>1
    <3>3. q.part = part[t] /\ q.part # 1
      BY <1>1, <2>2
    <3>4. [q EXCEPT !.part = @ - 1, !.torn = FALSE] = Piece(cur[t], part[t] - 1, FALSE)
      <4>1. q.trx = cur[t].trx /\ q.type = cur[t].type /\ q.part = part[t]
        BY <1>1
      <4> QED BY <4>1, PieceBefore
    <3> QED BY <1>3, <3>1, <3>2, <3>3, <3>4 DEF Continues
  <2> QED BY <2>1, <2>2
<1>7. \A i \in 1 .. Len(file') : Continues(i)'
  <2>1. \A i \in 1 .. Len(file') : i \in 1 .. n \/ i = n + 1
    BY <1>3
  <2> QED BY <1>5, <1>6, <2>1
<1>8. ASSUME NEW i \in 1 .. Len(file') - 1 PROVE ~file'[i].torn
  <2>1. i \in 1 .. n /\ file'[i] = file[i] /\ (i = n \/ i \in 1 .. n - 1)
    BY <1>3
  <2> QED BY <1>2, <1>4, <2>1
<1> QED BY <1>1, <1>3, <1>7, <1>8

\* A prefix of a framed file is framed.
LEMMA PrefixFramed ==
    ASSUME file \in Seq(Pieces), \A i \in 1 .. Len(file) : Continues(i),
           NEW n \in 0 .. Len(file), file' = SubSeq(file, 1, n),
           \A i \in 1 .. Len(file) - 1 : ~file[i].torn
    PROVE  /\ \A i \in 1 .. Len(file') : Continues(i)'
           /\ \A i \in 1 .. Len(file') - 1 : ~file'[i].torn
<1>1. Len(file') = n /\ (\A i \in 1 .. n : file'[i] = file[i]) /\ Len(file) \in Nat
  OBVIOUS
<1>2. ASSUME NEW i \in 1 .. n PROVE Continues(i)'
  <2>1. Continues(i) /\ file'[i] = file[i] /\ (i > 1 => file'[i - 1] = file[i - 1])
    BY <1>1
  <2> QED BY <2>1, SameContinues
<1>3. ASSUME NEW i \in 1 .. n - 1 PROVE ~file'[i].torn
  <2>1. i \in 1 .. n /\ i \in 1 .. Len(file) - 1
    BY <1>1
  <2>2. file'[i] = file[i] /\ ~file[i].torn
    BY <1>1, <2>1
  <2> QED BY <2>2
<1> QED BY <1>1, <1>2, <1>3

\* A step that leaves the file, the lock and whoever writes alone.
LEMMA SameFrame ==
    ASSUME FrameInv, LockInv', UNCHANGED <<file, lock_, up, restarts>>, fails' = 0 => fails = 0,
           \A t \in Threads : pc'[t] = "write" =>
               pc[t] = "write" /\ cur'[t] = cur[t] /\ part'[t] = part[t]
    PROVE  FrameInv'
<1> SUFFICES ASSUME Undamaged' PROVE FrameOK'
  BY DEF FrameInv
<1>1. FrameOK
  BY DEF FrameInv, Undamaged
<1>2. WholeTail' <=> WholeTail
  BY DEF WholeTail
<1>3. \A i \in 1 .. Len(file') : Continues(i)'
  BY <1>1 DEF FrameOK, Continues
<1>4. \A t \in Threads : pc'[t] = "write" => (TailOf(t)' <=> TailOf(t))
  BY <1>2 DEF TailOf
<1> QED BY <1>1, <1>2, <1>3, <1>4 DEF FrameOK

\* When the process dies nobody writes any more.
LEMMA DieFrame ==
    ASSUME LockInv', Die,
           Undamaged' => /\ \A i \in 1 .. Len(file') : Continues(i)'
                         /\ \A i \in 1 .. Len(file') - 1 : ~file'[i].torn
    PROVE  FrameInv'
<1>1. ~up'
  BY DEF Die
<1> QED BY <1>1 DEF FrameInv, FrameOK

LEMMA FrameInvNext == FrameInv /\ LockInv' /\ [Next]_vars => FrameInv'
<1> SUFFICES ASSUME FrameInv, LockInv', [Next]_vars PROVE FrameInv'
  OBVIOUS
<1>0. LockInv /\ TypeInv /\ pc \in [Threads -> PCs] /\ file \in Seq(Pieces)
  BY DEF FrameInv, LockInv, TypeInv, TypeOK
<1>1. ASSUME NEW t \in Threads, Call(t) PROVE FrameInv'
  <2>1. /\ pc[t] = "idle" /\ pc' = [pc EXCEPT ![t] = "check"]
        /\ UNCHANGED <<file, lock_, up, restarts, fails, part>>
        /\ \E e : cur' = [cur EXCEPT ![t] = e]
    BY <1>1 DEF Call, StartTrx, AppendRecordLog, AppendCommitTrxLog, AppendRollbackTrxLog, Append_log
  <2>2. \A u \in Threads : pc'[u] = "write" => u # t /\ pc[u] = "write"
    BY <1>0, <2>1
  <2>3. \A u \in Threads : u # t => cur'[u] = cur[u]
    BY <1>0, <2>1 DEF TypeInv, TypeOK
  <2> QED BY <2>1, <2>2, <2>3, SameFrame
<1>2. ASSUME NEW t \in Threads, Step(t) PROVE FrameInv'
  <2>up. up
    <3>1. pc[t] # "idle"
      BY <1>2 DEF Step, CheckSizeOk, CheckSizeFull, Push, FlushLoop, PopEmpty, Pop, WritePiece,
                  WriteFail, SubSize, Sync, SyncFail
    <3> QED BY <1>0, <3>1 DEF LockInv
  <2>1. CASE Die /\ CheckSizeFull(t)
    <3>1. UNCHANGED <<file, restarts, fails>>
      BY <2>1 DEF CheckSizeFull
    <3>2. Undamaged' => FrameOK
      BY <3>1 DEF FrameInv, Undamaged
    <3>3. Undamaged' => /\ \A i \in 1 .. Len(file') : Continues(i)'
                        /\ \A i \in 1 .. Len(file') - 1 : ~file'[i].torn
      BY <3>1, <3>2 DEF FrameOK, Continues
    <3> QED BY <2>1, <3>3, DieFrame
  <2>2. CASE \/ ~Die /\ CheckSizeFull(t)
             \/ CheckSizeOk(t) \/ Push(t) \/ FlushLoop(t) \/ PopEmpty(t) \/ SubSize(t)
             \/ Sync(t) \/ SyncFail(t)
    <3>1. UNCHANGED <<file, lock_, up, restarts, cur, part>>
      BY <2>2 DEF CheckSizeFull, CheckSizeOk, Push, FlushLoop, PopEmpty, SubSize, Sync, SyncFail
    <3>2. fails' = fails \/ fails' = fails + 1
      BY <2>2 DEF CheckSizeFull, CheckSizeOk, Push, FlushLoop, PopEmpty, SubSize, Sync, SyncFail
    <3>3. fails' = 0 => fails = 0
      BY <1>0, <3>2 DEF TypeInv, TypeOK
    <3>4. PICK c : pc' = [pc EXCEPT ![t] = c] /\ c # "write"
      BY <2>2 DEF CheckSizeFull, CheckSizeOk, Push, FlushLoop, PopEmpty, SubSize, Sync, SyncFail,
                  Return, Finish
    <3>5. \A u \in Threads : pc'[u] = "write" => pc[u] = "write"
      BY <1>0, <3>4
    <3> QED BY <3>1, <3>3, <3>5, SameFrame
  <2>3. CASE Pop(t)
    <3> SUFFICES ASSUME Undamaged' PROVE FrameOK'
      BY DEF FrameInv
    <3>1. /\ lock_ = NoThread /\ lock_' = t /\ pc' = [pc EXCEPT ![t] = "write"]
          /\ part' = [part EXCEPT ![t] = 1] /\ UNCHANGED <<file, up, restarts, fails>>
      BY <2>3 DEF Pop
    <3>2. FrameOK /\ WholeTail
      BY <2>up, <3>1 DEF FrameInv, FrameOK, Undamaged
    <3>3. part'[t] = 1 /\ \A u \in Threads : pc'[u] = "write" => u = t
      BY <1>0, <3>1, LogAssumption DEF LockInv, TypeInv, TypeOK
    <3>4. TailOf(t)'
      BY <3>1, <3>2, <3>3 DEF TailOf, WholeTail
    <3>5. lock_' # NoThread
      BY <3>1, LogAssumption
    <3>6. \A i \in 1 .. Len(file') : Continues(i)'
      BY <3>1, <3>2 DEF FrameOK, Continues
    <3> QED BY <3>1, <3>2, <3>3, <3>4, <3>5, <3>6 DEF FrameOK
  <2>4. CASE WritePiece(t)
    <3> SUFFICES ASSUME Undamaged' PROVE FrameOK'
      BY DEF FrameInv
    <3>1. /\ pc[t] = "write" /\ file' = Append(file, Piece(cur[t], part[t], FALSE))
          /\ UNCHANGED <<cur, up, restarts, fails>>
      BY <2>4 DEF WritePiece
    <3>2. FrameOK /\ TailOf(t) /\ cur[t] \in Entries /\ part[t] \in 1 .. Parts(cur[t].type)
          /\ part[t] \in 1 .. 3
      <4>1. FrameOK /\ TailOf(t)
        BY <2>up, <3>1 DEF FrameInv, FrameOK, Undamaged
      <4> QED BY <1>0, <3>1, <4>1 DEF TypeInv, ThreadOK, TypeOK
    <3>3. /\ \A i \in 1 .. Len(file') : Continues(i)'
          /\ \A i \in 1 .. Len(file') - 1 : ~file'[i].torn
          /\ file' # <<>> /\ file'[Len(file')] = Piece(cur[t], part[t], FALSE)
      BY <1>0, <2>up, <3>1, <3>2, PieceFramed DEF FrameOK
    <3>4. \A u \in Threads : u # t => pc[u] # "write"
      BY <1>0, <3>1 DEF LockInv
    <3>5. CASE part' = [part EXCEPT ![t] = @ + 1] /\ UNCHANGED <<pc, lock_>>
      <4>1. lock_' # NoThread
        BY <1>0, <3>1, <3>5, LogAssumption DEF LockInv
      <4>2. part'[t] = part[t] + 1 /\ part'[t] # 1 /\ part'[t] - 1 = part[t]
        BY <1>0, <3>2, <3>5 DEF TypeInv, TypeOK
      <4>3. TailOf(t)'
        BY <3>1, <3>3, <4>2 DEF TailOf
      <4> QED BY <3>3, <3>4, <3>5, <4>1, <4>3 DEF FrameOK
    <3>6. CASE part[t] = Parts(cur[t].type) /\ pc' = [pc EXCEPT ![t] = "sub"]
      <4>1. \A u \in Threads : pc'[u] # "write"
        BY <1>0, <3>4, <3>6
      <4>2. file'[Len(file')].part = part[t] /\ file'[Len(file')].type = cur[t].type
            /\ ~file'[Len(file')].torn
        BY <3>3
      <4>3. WholeTail'
        BY <3>6, <4>2 DEF WholeTail
      <4> QED BY <3>3, <4>1, <4>3 DEF FrameOK
    <3> QED BY <2>4, <3>5, <3>6 DEF WritePiece
  <2>5. CASE WriteFail(t)
    <3>1. fails' = fails + 1 /\ fails' # 0 /\ pc[t] = "write" /\ restarts' = restarts
      BY <1>0, <2>5 DEF WriteFail, TypeInv, TypeOK
    <3>2. CASE ~Debug
      BY <3>1, <3>2 DEF FrameInv, Undamaged
    <3>3. CASE Debug
      <4>1. Die
        BY <2>5, <3>3 DEF WriteFail
      <4>2. ASSUME Undamaged'
            PROVE  /\ \A i \in 1 .. Len(file') : Continues(i)'
                   /\ \A i \in 1 .. Len(file') - 1 : ~file'[i].torn
        <5>1. FrameOK /\ TailOf(t)
          BY <2>up, <3>1, <3>3, <4>2 DEF FrameInv, FrameOK, Undamaged
        <5>2. CASE file' = file
          BY <5>1, <5>2 DEF FrameOK, Continues
        <5>3. CASE file' = Append(file, Piece(cur[t], part[t], TRUE))
          <6>1. cur[t] \in Entries /\ part[t] \in 1 .. 3
            BY <1>0, <3>1 DEF TypeInv, ThreadOK, TypeOK
          <6> QED BY <1>0, <2>up, <5>1, <5>3, <6>1, PieceFramed DEF FrameOK
        <5> QED BY <2>5, <5>2, <5>3 DEF WriteFail
      <4> QED BY <4>1, <4>2, DieFrame
    <3> QED BY <3>2, <3>3
  <2> QED BY <1>2, <2>1, <2>2, <2>3, <2>4, <2>5 DEF Step
<1>3. CASE Crash
  <2>1. PICK n \in synced .. Len(file) : file' = SubSeq(file, 1, n)
    BY <1>3 DEF Crash
  <2>2. n \in 0 .. Len(file)
    BY <1>0 DEF TypeInv, TypeOK
  <2>3. Undamaged' => FrameOK
    BY <1>3 DEF Crash, FrameInv, Undamaged
  <2>4. Undamaged' => /\ \A i \in 1 .. Len(file') : Continues(i)'
                      /\ \A i \in 1 .. Len(file') - 1 : ~file'[i].torn
    BY <1>0, <2>1, <2>2, <2>3, PrefixFramed DEF FrameOK
  <2> QED BY <1>3, <2>4, DieFrame DEF Crash
<1>4. CASE Restart
  <2>1. ~Undamaged'
    BY <1>0, <1>4 DEF Restart, Undamaged, TypeInv, TypeOK
  <2> QED BY <2>1 DEF FrameInv
<1>5. CASE UNCHANGED vars
  BY <1>5, SameFrame DEF vars
<1> QED BY <1>1, <1>2, <1>3, <1>4, <1>5 DEF Next

LEMMA FrameInvInit == Init => FrameInv
<1> SUFFICES ASSUME Init PROVE FrameInv
  OBVIOUS
<1>1. file = <<>> /\ Len(file) = 0 /\ \A t \in Threads : pc[t] # "write"
  BY DEF Init
<1> QED BY <1>1, LockInvInit DEF FrameInv, FrameOK, WholeTail

LEMMA FrameInvariant == Spec => [](LockInv /\ FrameInv)
BY TypeInvInit, TypeInvNext, LockInvInit, LockInvNext, FrameInvInit, FrameInvNext, PTL
   DEF Spec, LockInv

LEMMA FrameIsFramed == FrameInv => FileFramed
BY DEF FrameInv, Undamaged, FrameOK, Continues, FileFramed

\* With one thread and checked writes, LogEntryIterator meets the commit entry of
\* every acknowledged transaction, until a restart: the entry is durable, and
\* everything before it is whole.
THEOREM CommitIsReadable ==
    ASSUME OneThread, WritesChecked
    PROVE  Spec => []CommitReadable
<1>1. FrameInv /\ CommitDurable => CommitReadable
  <2> SUFFICES ASSUME FrameInv, CommitDurable, NEW x \in Trxs, status[x] = "committed", restarts = 0
               PROVE  \E i \in 1 .. Len(file) : CommitAt(x, i) /\ Reads(i)
    BY DEF CommitReadable
  <2>1. fails \in Nat /\ fails <= MaxFails /\ MaxFails \in Nat /\ synced \in 0 .. Len(file)
        /\ file \in Seq(Pieces)
    BY LogAssumption DEF FrameInv, LockInv, TypeInv, TypeOK
  <2>2. Debug \/ fails = 0
    BY <2>1 DEF WritesChecked
  <2>3. FrameOK
    BY <2>2 DEF FrameInv, Undamaged
  <2>4. PICK i \in 1 .. synced : CommitAt(x, i)
    BY DEF CommitDurable
  <2>5. i \in 1 .. Len(file) /\ ~file[i].torn
    BY <2>1, <2>4 DEF CommitAt
  <2>6. ASSUME NEW j \in 1 .. i
        PROVE  /\ ~file[j].torn
               /\ IF file[j].part = 1
                  THEN j = 1 \/ file[j - 1].part = Parts(file[j - 1].type)
                  ELSE j > 1 /\ file[j - 1] = [file[j] EXCEPT !.part = @ - 1]
    <3>1. ~file[j].torn /\ file[j] \in Pieces /\ Continues(j)
      <4>1. j = i \/ j \in 1 .. Len(file) - 1
        BY <2>1, <2>5
      <4>2. j \in 1 .. Len(file)
        BY <2>1, <2>5
      <4> QED BY <2>1, <2>3, <2>5, <4>1, <4>2 DEF FrameOK
    <3>2. file[j].torn = FALSE
      BY <3>1 DEF Pieces
    <3>3. [file[j] EXCEPT !.part = @ - 1, !.torn = FALSE] = [file[j] EXCEPT !.part = @ - 1]
      BY <3>1, <3>2 DEF Pieces
    <3> QED BY <3>1, <3>3 DEF Continues
  <2> QED BY <2>4, <2>5, <2>6 DEF Reads
<1> QED BY <1>1, FrameInvariant, CommitIsDurable, PTL

-----------------------------------------------------------------------------
(* Counting entries in a sequence.                                         *)

Count(s, e) == Cardinality({k \in DOMAIN s : s[k] = e})

LEMMA CountFinite ==
    ASSUME NEW X, NEW s \in Seq(X), NEW e
    PROVE  IsFiniteSet({k \in DOMAIN s : s[k] = e}) /\ Count(s, e) \in Nat
<1>1. DOMAIN s = 1 .. Len(s) /\ Len(s) \in Nat
  OBVIOUS
<1>2. IsFiniteSet(1 .. Len(s))
  BY <1>1, FS_Interval
<1>3. {k \in DOMAIN s : s[k] = e} \subseteq 1 .. Len(s)
  BY <1>1
<1>4. IsFiniteSet({k \in DOMAIN s : s[k] = e})
  BY <1>2, <1>3, FS_Subset
<1> QED BY <1>4, FS_CardinalityType DEF Count

LEMMA CountAppend ==
    ASSUME NEW X, NEW s \in Seq(X), NEW a \in X, NEW e
    PROVE  Count(Append(s, a), e) = Count(s, e) + (IF a = e THEN 1 ELSE 0)
<1>1. PICK n \in Nat : n = Len(s)
  OBVIOUS
<1>2. PICK z : z = Append(s, a)
  OBVIOUS
<1>3. DOMAIN z = DOMAIN s \cup {n + 1} /\ n + 1 \notin DOMAIN s /\ z[n + 1] = a
      /\ \A k \in DOMAIN s : z[k] = s[k]
  BY <1>1, <1>2
<1> DEFINE K == {k \in DOMAIN s : s[k] = e}
<1>4. IsFiniteSet(K) /\ Count(s, e) = Cardinality(K) /\ Cardinality(K) \in Nat
  BY CountFinite DEF Count
<1>5. CASE a = e
  <2>1. {k \in DOMAIN z : z[k] = e} = K \cup {n + 1} /\ n + 1 \notin K
    BY <1>3, <1>5
  <2> HIDE DEF K
  <2>2. Cardinality(K \cup {n + 1}) = Cardinality(K) + 1
    BY <1>4, <2>1, FS_AddElement
  <2> QED BY <1>2, <1>4, <1>5, <2>1, <2>2 DEF Count
<1>6. CASE a # e
  <2>1. {k \in DOMAIN z : z[k] = e} = K
    BY <1>3, <1>6
  <2>2. Count(z, e) = Cardinality(K)
    BY <2>1 DEF Count
  <2> HIDE DEF K
  <2>3. Cardinality(K) + 0 = Cardinality(K)
    BY <1>4
  <2> QED BY <1>2, <1>4, <1>6, <2>2, <2>3
<1> QED BY <1>5, <1>6

LEMMA CountTail ==
    ASSUME NEW X, NEW s \in Seq(X), s # <<>>, NEW e
    PROVE  Count(s, e) = Count(Tail(s), e) + (IF Head(s) = e THEN 1 ELSE 0)
<1>0. Tail(s) \in Seq(X)
  OBVIOUS
<1>1. PICK z \in Seq(X) : z = Tail(s)
  BY <1>0
<1>2. PICK n \in Nat : n = Len(z)
  OBVIOUS
<1>3. DOMAIN z = 1 .. n /\ DOMAIN s = 1 .. n + 1 /\ Head(s) = s[1] /\ \A k \in 1 .. n : z[k] = s[k + 1]
  BY <1>1, <1>2
<1> DEFINE K == {k \in DOMAIN z : z[k] = e}
           M == {k \in DOMAIN s : s[k] = e /\ k # 1}
           f == [k \in K |-> k + 1]
<1>4. IsFiniteSet(K) /\ Count(z, e) = Cardinality(K) /\ Cardinality(K) \in Nat
  BY CountFinite DEF Count
<1>5. f \in Bijection(K, M)
  <2>1. \A k \in K : k + 1 \in M /\ k \in Int
    BY <1>3
  <2>2. f \in [K -> M]
    BY <2>1
  <2>3. \A a, b \in K : f[a] = f[b] => a = b
    BY <2>1
  <2>4. ASSUME NEW m \in M PROVE \E k \in K : f[k] = m
    <3>1. m - 1 \in 1 .. n /\ (m - 1) + 1 = m
      BY <1>3
    <3>2. m - 1 \in K
      BY <1>3, <3>1
    <3> QED BY <3>1, <3>2
  <2> HIDE DEF K, M, f
  <2>5. f \in Injection(K, M)
    BY <2>2, <2>3 DEF Injection, IsInjective
  <2>6. f \in Surjection(K, M)
    BY <2>2, <2>4 DEF Surjection
  <2> QED BY <2>5, <2>6 DEF Bijection
<1>6. IsFiniteSet(M) /\ Cardinality(M) = Cardinality(K)
  <2> HIDE DEF K, M, f
  <2>1. ExistsBijection(K, M)
    BY <1>5 DEF ExistsBijection
  <2> QED BY <1>4, <2>1, FS_Bijection
<1>7. CASE Head(s) = e
  <2>1. {k \in DOMAIN s : s[k] = e} = M \cup {1} /\ 1 \notin M
    BY <1>3, <1>7
  <2> HIDE DEF K, M, f
  <2>2. Cardinality(M \cup {1}) = Cardinality(M) + 1
    BY <1>6, <2>1, FS_AddElement
  <2> QED BY <1>1, <1>4, <1>6, <1>7, <2>1, <2>2 DEF Count
<1>8. CASE Head(s) # e
  <2>1. {k \in DOMAIN s : s[k] = e} = M
    BY <1>3, <1>8
  <2>2. Count(s, e) = Cardinality(M)
    BY <2>1 DEF Count
  <2> HIDE DEF K, M, f
  <2>3. Cardinality(K) + 0 = Cardinality(K)
    BY <1>4
  <2> QED BY <1>1, <1>4, <1>6, <1>8, <2>2, <2>3
<1> QED BY <1>7, <1>8

LEMMA CountNone ==
    ASSUME NEW s, NEW e, \A k \in DOMAIN s : s[k] # e
    PROVE  Count(s, e) = 0
<1>1. {k \in DOMAIN s : s[k] = e} = {}
  OBVIOUS
<1> QED BY <1>1, FS_EmptySet DEF Count

-----------------------------------------------------------------------------
(* Where the record entries of a transaction are, for any number of        *)
(* threads: in the file, in the hand of the writing thread, or in the      *)
(* queue, and always in front of its commit.                               *)

Rec(x) == Entry(x, "RECORD")
Com(x) == Entry(x, "MTR_COMMIT")
RecordEnd(x) == Piece(Rec(x), 3, FALSE)

Writing(t, e) == pc[t] = "write" /\ cur[t] = e
InHand(e) == \E t \in Threads : Writing(t, e)
Hand(e) == IF InHand(e) THEN 1 ELSE 0
Queued(e) == \E k \in DOMAIN log_entrys_ : log_entrys_[k] = e

\* t runs x and has not yet handed its commit to the log.
Early(t, x) == trx[t] = x /\ pc[t] \in {"idle", "check", "push"}

Busy(x) == (\E t \in Threads : trx[t] = x) \/ Queued(Com(x)) \/ InHand(Com(x))

Balanced(x) == Busy(x) =>
    records[x] = (Count(file, RecordEnd(x)) + Hand(Rec(x))) + Count(log_entrys_, Rec(x))

CommitLast(x) ==
    /\ \A k, m \in DOMAIN log_entrys_ : log_entrys_[k] = Com(x) /\ log_entrys_[m] = Rec(x) => m < k
    /\ InHand(Com(x)) => ~Queued(Rec(x))

NotYet(x) == (\E t \in Threads : Early(t, x)) =>
    /\ ~Queued(Com(x)) /\ ~InHand(Com(x))
    /\ \A j \in DOMAIN file : ~(file[j].trx = x /\ file[j].type = "MTR_COMMIT")

Alone(x) == \A t, u \in Threads : trx[t] = x /\ trx[u] = x => t = u

Fresh(x) == status[x] = "none" =>
    /\ records[x] = 0 /\ \A t \in Threads : trx[t] # x
    /\ \A k \in DOMAIN log_entrys_ : log_entrys_[k].trx # x
    /\ \A t \in Threads : pc[t] = "write" => cur[t].trx # x
    /\ \A j \in DOMAIN file : file[j].trx # x

RecordsBefore(x, i) == Cardinality({j \in 1 .. i : file[j] = RecordEnd(x)})

Whole(x) == \A i \in 1 .. Len(file) : CommitAt(x, i) => records[x] = RecordsBefore(x, i)

CountOK(x) == Balanced(x) /\ CommitLast(x) /\ NotYet(x) /\ Alone(x) /\ Fresh(x) /\ Whole(x)

CountInv == LockInv /\ (fails = 0 => \A x \in Trxs : CountOK(x))

\* A step that leaves the queue, the file, the counts and what is being written
\* alone, and makes no thread early for x.
LEMMA SameCount ==
    ASSUME NEW x \in Trxs, CountOK(x), UNCHANGED <<log_entrys_, file, records>>,
           \A t \in Threads : \A e : Writing(t, e)' = Writing(t, e),
           \A t \in Threads : pc'[t] = "write" => pc[t] = "write" /\ cur'[t] = cur[t],
           \A t \in Threads : trx'[t] = x => trx[t] = x,
           \A t \in Threads : Early(t, x)' => Early(t, x),
           status'[x] = "none" => status[x] = "none"
    PROVE  CountOK(x)'
<1>1. \A e : InHand(e)' = InHand(e) /\ Hand(e)' = Hand(e) /\ Queued(e)' = Queued(e)
  BY DEF InHand, Hand, Queued
<1>2. Busy(x)' => Busy(x)
  BY <1>1 DEF Busy
<1>3. Balanced(x)'
  BY <1>1, <1>2 DEF CountOK, Balanced, Count
<1>4. CommitLast(x)'
  BY <1>1 DEF CountOK, CommitLast
<1>5. NotYet(x)'
  BY <1>1 DEF CountOK, NotYet
<1>6. Alone(x)'
  BY DEF CountOK, Alone
<1>7. Fresh(x)'
  BY DEF CountOK, Fresh
<1>8. Whole(x)'
  BY DEF CountOK, Whole, CommitAt, RecordsBefore
<1> QED BY <1>3, <1>4, <1>5, <1>6, <1>7, <1>8 DEF CountOK

\* The process dies and the file keeps a prefix.
LEMMA DieCount ==
    ASSUME NEW x \in Trxs, TypeInv, CountOK(x), Die, records' = records,
           NEW n \in 0 .. Len(file), file' = SubSeq(file, 1, n)
    PROVE  CountOK(x)'
<1>1. /\ log_entrys_' = <<>> /\ \A t \in Threads : pc'[t] = "idle" /\ trx'[t] = NoTrx
      /\ x # NoTrx
  BY LogAssumption DEF Die
<1>2. DOMAIN log_entrys_' = {}
  BY <1>1
<1>3. \A e : ~Queued(e)' /\ ~InHand(e)'
  BY <1>1, <1>2 DEF Queued, InHand, Writing
<1>4. /\ Len(file) \in Nat /\ Len(file') = n /\ DOMAIN file' = 1 .. n /\ DOMAIN file = 1 .. Len(file)
      /\ \A j \in 1 .. n : file'[j] = file[j] /\ j \in DOMAIN file
  BY DEF TypeInv, TypeOK
<1>5. ~Busy(x)' /\ \A t \in Threads : trx'[t] # x
  BY <1>1, <1>3 DEF Busy
<1>6. Balanced(x)' /\ CommitLast(x)' /\ NotYet(x)' /\ Alone(x)'
  BY <1>2, <1>3, <1>5 DEF Balanced, CommitLast, NotYet, Alone, Early
<1>7. Fresh(x)'
  <2>1. status'[x] = "none" => status[x] = "none"
    BY DEF Die
  <2> QED BY <1>1, <1>2, <1>4, <1>5, <2>1 DEF CountOK, Fresh
<1>8. Whole(x)'
  <2> SUFFICES ASSUME NEW i \in 1 .. n, CommitAt(x, i)' PROVE records'[x] = RecordsBefore(x, i)'
    BY <1>4 DEF Whole
  <2>1. i \in 1 .. Len(file) /\ CommitAt(x, i)
    BY <1>4 DEF CommitAt
  <2>2. {j \in 1 .. i : file'[j] = RecordEnd(x)} = {j \in 1 .. i : file[j] = RecordEnd(x)}
    BY <1>4
  <2> QED BY <2>1, <2>2 DEF CountOK, Whole, RecordsBefore, RecordEnd, Rec, Entry
<1> QED BY <1>6, <1>7, <1>8 DEF CountOK

LEMMA RecComDiffer ==
    ASSUME NEW x \in Trxs
    PROVE  /\ Rec(x) \in Entries /\ Rec(x).trx = x /\ Rec(x).type = "RECORD"
           /\ Com(x) \in Entries /\ Com(x).trx = x /\ Com(x).type = "MTR_COMMIT"
           /\ Rec(x) # Com(x)
           /\ RecordEnd(x).trx = x /\ RecordEnd(x).type = "RECORD"
BY EntryType DEF Rec, Com, RecordEnd, Types

LEMMA StartCount ==
    ASSUME NEW x \in Trxs, TypeInv, TypeInv', CountOK(x), NEW t \in Threads, NEW y \in Trxs, StartTrx(t, y)
    PROVE  CountOK(x)'
<1>1. /\ UNCHANGED <<log_entrys_, file, records>> /\ pc[t] = "idle" /\ status[y] = "none"
      /\ pc'[t] = "check" /\ \A u \in Threads : u # t => pc'[u] = pc[u] /\ cur'[u] = cur[u]
      /\ trx[t] = NoTrx /\ trx'[t] = y /\ \A u \in Threads : u # t => trx'[u] = trx[u]
      /\ \A z \in Trxs : status'[z] = IF z = y THEN "active" ELSE status[z]
  BY DEF StartTrx, Append_log, TypeInv, TypeOK
<1>2. \A u \in Threads : \A e : Writing(u, e)' = Writing(u, e)
  BY <1>1 DEF Writing
<1>3. CASE x # y
  BY <1>1, <1>2, <1>3, SameCount DEF Early
<1>4. CASE x = y
  <2>1. /\ records'[x] = 0 /\ \A u \in Threads : trx[u] # x
        /\ \A k \in DOMAIN log_entrys_ : log_entrys_[k].trx # x
        /\ \A u \in Threads : pc[u] = "write" => cur[u].trx # x
        /\ \A j \in DOMAIN file : file[j].trx # x
    BY <1>1, <1>4 DEF CountOK, Fresh
  <2>2. ~Queued(Com(x))' /\ ~Queued(Rec(x))' /\ ~InHand(Com(x))' /\ ~InHand(Rec(x))'
    BY <1>1, <2>1, RecComDiffer DEF Queued, InHand, Writing, Com, Rec, Entry
  <2>3. Count(file, RecordEnd(x)) = 0
    BY <2>1, RecComDiffer, CountNone
  <2>4. Count(log_entrys_, Rec(x)) = 0
    BY <2>1, RecComDiffer, CountNone
  <2>5. Balanced(x)'
    <3>1. Hand(Rec(x))' = 0
      BY <2>2 DEF Hand
    <3>2. Count(file, RecordEnd(x))' = 0 /\ Count(log_entrys_, Rec(x))' = 0
      BY <1>1, <2>3, <2>4 DEF Count, RecordEnd, Rec, Entry
    <3> QED BY <2>1, <3>1, <3>2 DEF Balanced
  <2>6. CommitLast(x)'
    BY <2>2 DEF CommitLast, Queued
  <2>7. NotYet(x)'
    BY <1>1, <2>1, <2>2 DEF NotYet
  <2>8. Alone(x)'
    BY <1>1, <2>1 DEF Alone
  <2>9. Fresh(x)'
    BY <1>1, <1>4 DEF Fresh
  <2>10. Whole(x)'
    <3>1. file' = file /\ \A i \in 1 .. Len(file) : i \in DOMAIN file
      BY <1>1 DEF TypeInv, TypeOK
    <3>2. \A i \in 1 .. Len(file) : ~CommitAt(x, i)
      BY <2>1, <3>1, EntryType DEF CommitAt, Types
    <3> QED BY <3>1, <3>2 DEF Whole, CommitAt
  <2> QED BY <2>5, <2>6, <2>7, <2>8, <2>9, <2>10 DEF CountOK
<1> QED BY <1>3, <1>4

LEMMA PushCount ==
    ASSUME NEW x \in Trxs, TypeInv, TypeInv', CountOK(x), NEW t \in Threads, Push(t)
    PROVE  CountOK(x)'
<1>1. PICK e \in Entries : e = cur[t]
  BY DEF Push, TypeInv, ThreadOK
<1>2. PICK n \in Nat : n = Len(log_entrys_)
  BY DEF TypeInv, TypeOK
<1>3. /\ DOMAIN log_entrys_ = 1 .. n /\ DOMAIN log_entrys_' = 1 .. n + 1
      /\ log_entrys_'[n + 1] = e /\ \A k \in 1 .. n : log_entrys_'[k] = log_entrys_[k]
  BY <1>1, <1>2 DEF Push, TypeInv, TypeOK
<1>4. /\ file' = file /\ pc[t] = "push" /\ pc'[t] \in {"idle", "loop"} /\ cur' = cur
      /\ \A u \in Threads : u # t => pc'[u] = pc[u]
      /\ e.type = "MTR_COMMIT" => pc'[t] = "loop"
  BY <1>1 DEF Push, Return, Finish, TypeInv, TypeOK
<1>5. e.trx = trx[t] /\ e.trx \in Trxs /\ e.type \in Types /\ e = Entry(e.trx, e.type)
  BY <1>1, <1>4, EntryFields DEF TypeInv, ThreadOK
<1>6. /\ \A u \in Threads : trx'[u] = x => trx[u] = x
      /\ status'[x] = "none" => status[x] = "none"
  <2>1. \/ trx' = trx /\ status' = status
        \/ trx' = [trx EXCEPT ![t] = NoTrx] /\ status' = [status EXCEPT ![trx[t]] = "rolledback"]
    BY DEF Push, Return, Finish
  <2> QED BY <2>1, LogAssumption DEF TypeInv, TypeOK
<1>7. \A u \in Threads : \A a : Writing(u, a)' = Writing(u, a)
  BY <1>4 DEF Writing
<1>8. \A a : InHand(a)' = InHand(a) /\ Hand(a)' = Hand(a)
  BY <1>7 DEF InHand, Hand
<1>9. \A u \in Threads : Early(u, x)' => Early(u, x)
  BY <1>4, <1>6 DEF Early
<1>10. \A a : Queued(a)' <=> Queued(a) \/ a = e
  BY <1>3 DEF Queued
<1>11. Count(log_entrys_', Rec(x)) = Count(log_entrys_, Rec(x)) + (IF e = Rec(x) THEN 1 ELSE 0)
  <2>1. log_entrys_ \in Seq(Entries) /\ log_entrys_' = Append(log_entrys_, e)
    BY <1>1 DEF Push, TypeInv, TypeOK
  <2> QED BY <2>1, CountAppend
<1>12. records'[x] = records[x] + (IF e = Rec(x) THEN 1 ELSE 0) /\ records[x] \in Nat
  <2>1. records[x] \in Nat /\ records \in [Trxs -> Nat]
    BY DEF TypeInv, TypeOK
  <2>2. e = Rec(x) <=> e.trx = x /\ e.type = "RECORD"
    BY <1>5, RecComDiffer DEF Rec
  <2>3. records' = IF e.type = "RECORD" THEN [records EXCEPT ![e.trx] = @ + 1] ELSE records
    BY <1>1 DEF Push
  <2> QED BY <1>5, <2>1, <2>2, <2>3
<1>13. /\ Count(file, RecordEnd(x)) \in Nat /\ Hand(Rec(x)) \in Nat
       /\ Count(log_entrys_, Rec(x)) \in Nat
  <2>1. file \in Seq(Pieces) /\ log_entrys_ \in Seq(Entries)
    BY DEF TypeInv, TypeOK
  <2> QED BY <2>1, CountFinite DEF Hand
<1>14. Count(file', RecordEnd(x)) = Count(file, RecordEnd(x))
  BY <1>4
<1>15. e.trx = x => Early(t, x)
  BY <1>4, <1>5 DEF Early
<1>16. e = Com(x) \/ e = Rec(x) => e.trx = x
  BY RecComDiffer
<1>17. Balanced(x)'
  <2> SUFFICES ASSUME Busy(x)'
               PROVE  records'[x] = (Count(file', RecordEnd(x)) + Hand(Rec(x))') + Count(log_entrys_', Rec(x))
    BY DEF Balanced, RecordEnd, Rec, Entry
  <2>1. Busy(x)
    BY <1>6, <1>8, <1>10, <1>15, <1>16 DEF Busy, Early
  <2>2. records[x] = (Count(file, RecordEnd(x)) + Hand(Rec(x))) + Count(log_entrys_, Rec(x))
    BY <2>1 DEF CountOK, Balanced
  <2> QED BY <1>8, <1>11, <1>12, <1>13, <1>14, <2>2
<1>18. CommitLast(x)'
  <2>1. CASE e = Rec(x)
    <3>1. ~Queued(Com(x)) /\ ~InHand(Com(x))
      BY <1>15, <1>16, <2>1 DEF CountOK, NotYet
    <3>2. ~Queued(Com(x))' /\ ~InHand(Com(x))'
      BY <1>8, <1>10, <2>1, <3>1, RecComDiffer
    <3> QED BY <3>2 DEF CommitLast, Queued
  <2>2. CASE e = Com(x)
    <3>1. ~Queued(Com(x)) /\ ~InHand(Com(x))
      BY <1>15, <1>16, <2>2 DEF CountOK, NotYet
    <3>2. ~InHand(Com(x))'
      BY <1>8, <3>1
    <3>3. ASSUME NEW k \in 1 .. n + 1, NEW m \in 1 .. n + 1, log_entrys_'[k] = Com(x), log_entrys_'[m] = Rec(x)
          PROVE  m < k
      <4>1. k = n + 1
        BY <1>3, <3>1, <3>3 DEF Queued
      <4>2. m # n + 1
        BY <1>3, <2>2, <3>3, RecComDiffer
      <4> QED BY <4>1, <4>2
    <3> QED BY <1>3, <3>2, <3>3 DEF CommitLast, Com, Rec, Entry
  <2>3. CASE e # Rec(x) /\ e # Com(x)
    <3>1. ASSUME NEW k \in 1 .. n + 1, NEW m \in 1 .. n + 1, log_entrys_'[k] = Com(x), log_entrys_'[m] = Rec(x)
          PROVE  m < k
      <4>1. k \in 1 .. n /\ m \in 1 .. n
        BY <1>3, <2>3, <3>1
      <4> QED BY <1>3, <3>1, <4>1 DEF CountOK, CommitLast
    <3>2. InHand(Com(x))' => ~Queued(Rec(x))'
      BY <1>8, <1>10, <2>3 DEF CountOK, CommitLast
    <3> QED BY <1>3, <3>1, <3>2 DEF CommitLast, Com, Rec, Entry
  <2> QED BY <2>1, <2>2, <2>3
<1>19. NotYet(x)'
  <2>1. CASE e = Com(x)
    <3>1. \A u \in Threads : ~Early(u, x)'
      <4>1. trx[t] = x /\ pc'[t] = "loop"
        BY <1>4, <1>5, <2>1, RecComDiffer
      <4> QED BY <1>6, <4>1 DEF CountOK, Alone, Early
    <3> QED BY <3>1 DEF NotYet
  <2>2. CASE e # Com(x)
    BY <1>4, <1>8, <1>9, <1>10, <2>2 DEF CountOK, NotYet
  <2> QED BY <2>1, <2>2
<1>20. Alone(x)'
  BY <1>6 DEF CountOK, Alone
<1>21. Fresh(x)'
  <2> SUFFICES ASSUME status'[x] = "none"
               PROVE  /\ records'[x] = 0 /\ \A u \in Threads : trx'[u] # x
                      /\ \A k \in DOMAIN log_entrys_' : log_entrys_'[k].trx # x
                      /\ \A u \in Threads : pc'[u] = "write" => cur'[u].trx # x
                      /\ \A j \in DOMAIN file' : file'[j].trx # x
    BY DEF Fresh
  <2>1. /\ records[x] = 0 /\ \A u \in Threads : trx[u] # x
        /\ \A k \in DOMAIN log_entrys_ : log_entrys_[k].trx # x
        /\ \A u \in Threads : pc[u] = "write" => cur[u].trx # x
        /\ \A j \in DOMAIN file : file[j].trx # x
    BY <1>6 DEF CountOK, Fresh
  <2>2. e.trx # x
    BY <1>5, <2>1
  <2>3. \A k \in DOMAIN log_entrys_' : log_entrys_'[k].trx # x
    BY <1>3, <2>1, <2>2
  <2>4. records'[x] = 0
    BY <1>12, <1>16, <2>1, <2>2
  <2> QED BY <1>4, <1>6, <2>1, <2>3, <2>4
<1>22. Whole(x)'
  <2>1. CASE e = Rec(x)
    <3>1. \A j \in DOMAIN file : ~(file[j].trx = x /\ file[j].type = "MTR_COMMIT")
      BY <1>15, <1>16, <2>1 DEF CountOK, NotYet
    <3>2. \A i \in 1 .. Len(file) : i \in DOMAIN file
      BY DEF TypeInv, TypeOK
    <3>3. \A i \in 1 .. Len(file) : ~CommitAt(x, i)
      BY <3>1, <3>2, EntryType DEF CommitAt, Types
    <3> QED BY <1>4, <3>3 DEF Whole, CommitAt
  <2>2. CASE e # Rec(x)
    <3>1. records'[x] = records[x]
      BY <1>12, <2>2
    <3> QED BY <1>4, <3>1 DEF CountOK, Whole, CommitAt, RecordsBefore
  <2> QED BY <2>1, <2>2
<1> QED BY <1>17, <1>18, <1>19, <1>20, <1>21, <1>22 DEF CountOK

LEMMA PopCount ==
    ASSUME NEW x \in Trxs, LockInv, TypeInv', CountOK(x), NEW t \in Threads, Pop(t)
    PROVE  CountOK(x)'
<1>0. TypeInv
  BY DEF LockInv
<1>1. log_entrys_ \in Seq(Entries) /\ log_entrys_ # <<>> /\ log_entrys_' = Tail(log_entrys_)
      /\ UNCHANGED <<file, records, trx, status>>
  BY <1>0 DEF Pop, TypeInv, TypeOK
<1>2. PICK h : h = Head(log_entrys_)
  OBVIOUS
<1>3. PICK n \in Nat : n + 1 = Len(log_entrys_)
  <2>1. Len(log_entrys_) \in Nat \ {0}
    BY <1>1
  <2>2. Len(log_entrys_) - 1 \in Nat /\ (Len(log_entrys_) - 1) + 1 = Len(log_entrys_)
    BY <2>1
  <2> QED BY <2>2
<1>4. /\ DOMAIN log_entrys_ = 1 .. n + 1 /\ DOMAIN log_entrys_' = 1 .. n /\ log_entrys_[1] = h
      /\ \A k \in 1 .. n : log_entrys_'[k] = log_entrys_[k + 1]
  BY <1>1, <1>2, <1>3
<1>5. /\ pc[t] = "pop" /\ pc'[t] = "write" /\ cur'[t] = h
      /\ \A u \in Threads : u # t => pc'[u] = pc[u] /\ cur'[u] = cur[u]
  BY <1>0, <1>2 DEF Pop, TypeInv, TypeOK
<1>6. \A u \in Threads : pc[u] # "write"
  BY LogAssumption DEF Pop, LockInv
<1>7. \A a : ~InHand(a) /\ (InHand(a)' <=> a = h)
  BY <1>5, <1>6 DEF InHand, Writing
<1>8. \A a : Queued(a)' => Queued(a)
  <2> SUFFICES ASSUME NEW a, NEW k \in 1 .. n, log_entrys_'[k] = a PROVE Queued(a)
    BY <1>4 DEF Queued
  <2>1. k + 1 \in 1 .. n + 1 /\ log_entrys_[k + 1] = a
    BY <1>4
  <2> QED BY <1>4, <2>1 DEF Queued
<1>9. Queued(h)
  <2>1. 1 \in DOMAIN log_entrys_
    BY <1>4
  <2> QED BY <1>4, <2>1 DEF Queued
<1>10. \A u \in Threads : Early(u, x)' => Early(u, x)
  BY <1>1, <1>5 DEF Early
<1>11. Balanced(x)'
  <2> SUFFICES ASSUME Busy(x)'
               PROVE  records[x] = (Count(file, RecordEnd(x)) + Hand(Rec(x))') + Count(log_entrys_', Rec(x))
    BY <1>1 DEF Balanced, RecordEnd, Rec, Entry, Count
  <2>1. Busy(x)
    BY <1>1, <1>7, <1>8, <1>9 DEF Busy
  <2>2. records[x] = (Count(file, RecordEnd(x)) + Hand(Rec(x))) + Count(log_entrys_, Rec(x))
    BY <2>1 DEF CountOK, Balanced
  <2>3. Count(log_entrys_, Rec(x)) = Count(log_entrys_', Rec(x)) + (IF h = Rec(x) THEN 1 ELSE 0)
    BY <1>1, <1>2, CountTail
  <2>4. Hand(Rec(x)) = 0 /\ Hand(Rec(x))' = IF h = Rec(x) THEN 1 ELSE 0
    BY <1>7 DEF Hand, Rec, Entry
  <2>5. Count(file, RecordEnd(x)) \in Nat /\ Count(log_entrys_', Rec(x)) \in Nat
    <3>1. file \in Seq(Pieces) /\ log_entrys_' \in Seq(Entries)
      BY <1>0 DEF TypeInv, TypeOK
    <3> QED BY <3>1, CountFinite
  <2> QED BY <2>2, <2>3, <2>4, <2>5
<1>12. CommitLast(x)'
  <2>1. ASSUME NEW k \in 1 .. n, NEW m \in 1 .. n, log_entrys_'[k] = Com(x), log_entrys_'[m] = Rec(x)
        PROVE  m < k
    <3>1. k + 1 \in 1 .. n + 1 /\ m + 1 \in 1 .. n + 1
          /\ log_entrys_[k + 1] = Com(x) /\ log_entrys_[m + 1] = Rec(x)
      BY <1>4, <2>1
    <3>2. m + 1 < k + 1
      BY <1>4, <3>1 DEF CountOK, CommitLast
    <3> QED BY <3>2
  <2>2. ASSUME h = Com(x) PROVE ~Queued(Rec(x))
    <3> SUFFICES ASSUME NEW m \in 1 .. n + 1, log_entrys_[m] = Rec(x) PROVE FALSE
      BY <1>4 DEF Queued
    <3>1. 1 \in 1 .. n + 1 /\ log_entrys_[1] = Com(x)
      BY <1>4, <2>2
    <3>2. m < 1
      BY <1>4, <3>1 DEF CountOK, CommitLast
    <3> QED BY <3>2
  <2>3. InHand(Com(x))' => ~Queued(Rec(x))'
    BY <1>7, <1>8, <2>2 DEF Com, Entry
  <2> QED BY <1>4, <2>1, <2>3 DEF CommitLast, Com, Rec, Entry
<1>13. NotYet(x)'
  <2>1. CASE \E u \in Threads : Early(u, x)'
    <3>1. ~Queued(Com(x)) /\ \A j \in DOMAIN file : ~(file[j].trx = x /\ file[j].type = "MTR_COMMIT")
      BY <1>10, <2>1 DEF CountOK, NotYet
    <3>2. ~Queued(Com(x))' /\ ~InHand(Com(x))'
      BY <1>7, <1>8, <1>9, <3>1
    <3> QED BY <1>1, <3>1, <3>2 DEF NotYet
  <2>2. CASE ~\E u \in Threads : Early(u, x)'
    BY <2>2 DEF NotYet
  <2> QED BY <2>1, <2>2
<1>14. Alone(x)'
  BY <1>1 DEF CountOK, Alone
<1>15. Fresh(x)'
  <2>1. CASE status[x] = "none"
    <3>1. /\ records[x] = 0 /\ \A u \in Threads : trx[u] # x
          /\ \A k \in DOMAIN log_entrys_ : log_entrys_[k].trx # x
          /\ \A j \in DOMAIN file : file[j].trx # x
      BY <2>1 DEF CountOK, Fresh
    <3>2. h.trx # x
      BY <1>9, <3>1 DEF Queued
    <3>3. ASSUME NEW k \in DOMAIN log_entrys_' PROVE log_entrys_'[k].trx # x
      BY <1>4, <3>1
    <3>4. \A u \in Threads : pc'[u] = "write" => cur'[u].trx # x
      BY <1>5, <1>6, <3>2
    <3> QED BY <1>1, <3>1, <3>3, <3>4 DEF Fresh
  <2>2. CASE status[x] # "none"
    BY <1>1, <2>2 DEF Fresh
  <2> QED BY <2>1, <2>2
<1>16. Whole(x)'
  BY <1>1 DEF CountOK, Whole, CommitAt, RecordsBefore
<1> QED BY <1>11, <1>12, <1>13, <1>14, <1>15, <1>16 DEF CountOK

LEMMA WriteCount ==
    ASSUME NEW x \in Trxs, LockInv, TypeInv', CountOK(x), NEW t \in Threads, WritePiece(t)
    PROVE  CountOK(x)'
<1>0. TypeInv
  BY DEF LockInv
<1>1. PICK e \in Entries : e = cur[t]
  BY <1>0 DEF WritePiece, TypeInv, ThreadOK
<1>2. PICK p \in 1..3 : p = part[t]
  BY <1>0 DEF TypeInv, TypeOK
<1>3. e.trx \in Trxs /\ e.type \in Types /\ e = Entry(e.trx, e.type)
  BY EntryFields
<1>4. PICK w \in Pieces : w = Piece(e, p, FALSE)
  BY PieceType
<1>5. w.trx = e.trx /\ w.type = e.type /\ w.part = p
  BY <1>4
<1>6. PICK n \in Nat : n = Len(file)
  BY <1>0 DEF TypeInv, TypeOK
<1>7. /\ file \in Seq(Pieces) /\ file' = Append(file, w)
      /\ UNCHANGED <<log_entrys_, records, cur, trx, status>> /\ pc[t] = "write"
  BY <1>0, <1>1, <1>2, <1>4 DEF WritePiece, TypeInv, TypeOK
<1>8. /\ DOMAIN file = 1 .. n /\ DOMAIN file' = 1 .. n + 1 /\ Len(file') = n + 1
      /\ file'[n + 1] = w /\ \A j \in 1 .. n : file'[j] = file[j]
  BY <1>6, <1>7
<1>9. \A u \in Threads : u # t => pc[u] # "write" /\ pc'[u] = pc[u]
  BY <1>0 DEF WritePiece, LockInv, TypeInv, TypeOK
<1>10. \/ p < Parts(e.type) /\ pc'[t] = "write"
       \/ p = Parts(e.type) /\ pc'[t] = "sub"
  BY <1>0, <1>1, <1>2 DEF WritePiece, TypeInv, TypeOK
<1>11. \A a : InHand(a) <=> a = e
  BY <1>1, <1>7, <1>9 DEF InHand, Writing
<1>12. \A a : InHand(a)' <=> a = e /\ p < Parts(e.type)
  <2>1. Parts(e.type) \in 1..3
    BY PartsType
  <2> QED BY <1>1, <1>7, <1>9, <1>10, <2>1 DEF InHand, Writing
<1>13. \A a : Queued(a)' = Queued(a)
  BY <1>7 DEF Queued
<1>14. \A u \in Threads : Early(u, x)' => Early(u, x)
  BY <1>7, <1>9, <1>10 DEF Early
<1>15. w = RecordEnd(x) <=> e = Rec(x) /\ p = 3
  BY <1>3, <1>4, <1>5, EntryType DEF RecordEnd, Rec, Types
<1>16. Count(file', RecordEnd(x)) = Count(file, RecordEnd(x)) + (IF w = RecordEnd(x) THEN 1 ELSE 0)
  BY <1>7, CountAppend
<1>17. Count(file, RecordEnd(x)) \in Nat /\ Count(log_entrys_, Rec(x)) \in Nat
  <2>1. log_entrys_ \in Seq(Entries)
    BY <1>0 DEF TypeInv, TypeOK
  <2> QED BY <1>7, <2>1, CountFinite
<1>18. Balanced(x)'
  <2> SUFFICES ASSUME Busy(x)'
               PROVE  records[x] = (Count(file', RecordEnd(x)) + Hand(Rec(x))') + Count(log_entrys_, Rec(x))
    BY <1>7 DEF Balanced, RecordEnd, Rec, Entry, Count
  <2>1. Busy(x)
    BY <1>7, <1>11, <1>12, <1>13 DEF Busy
  <2>2. records[x] = (Count(file, RecordEnd(x)) + Hand(Rec(x))) + Count(log_entrys_, Rec(x))
    BY <2>1 DEF CountOK, Balanced
  <2>3. CASE e # Rec(x)
    <3>1. Hand(Rec(x)) = 0 /\ Hand(Rec(x))' = 0
      BY <1>11, <1>12, <2>3 DEF Hand, Rec, Entry
    <3> QED BY <1>15, <1>16, <1>17, <2>2, <2>3, <3>1
  <2>4. CASE e = Rec(x)
    <3>1. Parts(e.type) = 3
      BY <2>4, RecComDiffer DEF Parts
    <3>2. Hand(Rec(x)) = 1 /\ Hand(Rec(x))' = IF p < 3 THEN 1 ELSE 0
      BY <1>11, <1>12, <2>4, <3>1 DEF Hand, Rec, Entry
    <3> QED BY <1>15, <1>16, <1>17, <2>2, <2>4, <3>2
  <2> QED BY <2>3, <2>4
<1>19. CommitLast(x)'
  BY <1>7, <1>11, <1>12, <1>13 DEF CountOK, CommitLast, Com, Rec, Entry
<1>20. NotYet(x)'
  <2>1. CASE \E u \in Threads : Early(u, x)'
    <3>1. /\ ~Queued(Com(x)) /\ ~InHand(Com(x))
          /\ \A j \in DOMAIN file : ~(file[j].trx = x /\ file[j].type = "MTR_COMMIT")
      BY <1>14, <2>1 DEF CountOK, NotYet
    <3>2. e # Com(x)
      BY <1>11, <3>1
    <3>3. ~(w.trx = x /\ w.type = "MTR_COMMIT")
      BY <1>3, <1>5, <3>2 DEF Com
    <3>4. \A j \in DOMAIN file' : ~(file'[j].trx = x /\ file'[j].type = "MTR_COMMIT")
      BY <1>8, <3>1, <3>3
    <3>5. ~Queued(Com(x))' /\ ~InHand(Com(x))'
      BY <1>12, <1>13, <3>1, <3>2 DEF Com, Entry
    <3> QED BY <3>4, <3>5 DEF NotYet
  <2>2. CASE ~\E u \in Threads : Early(u, x)'
    BY <2>2 DEF NotYet
  <2> QED BY <2>1, <2>2
<1>21. Alone(x)'
  BY <1>7 DEF CountOK, Alone
<1>22. Fresh(x)'
  <2>1. CASE status[x] = "none"
    <3>1. /\ records[x] = 0 /\ \A u \in Threads : trx[u] # x
          /\ \A k \in DOMAIN log_entrys_ : log_entrys_[k].trx # x
          /\ \A u \in Threads : pc[u] = "write" => cur[u].trx # x
          /\ \A j \in DOMAIN file : file[j].trx # x
      BY <2>1 DEF CountOK, Fresh
    <3>2. e.trx # x
      BY <1>1, <1>7, <3>1
    <3>3. \A j \in DOMAIN file' : file'[j].trx # x
      BY <1>5, <1>8, <3>1, <3>2
    <3>4. \A u \in Threads : pc'[u] = "write" => cur'[u].trx # x
      BY <1>1, <1>7, <1>9, <3>1, <3>2
    <3> QED BY <1>7, <3>1, <3>3, <3>4 DEF Fresh
  <2>2. CASE status[x] # "none"
    BY <1>7, <2>2 DEF Fresh
  <2> QED BY <2>1, <2>2
<1>23. Whole(x)'
  <2> SUFFICES ASSUME NEW i \in 1 .. n + 1, CommitAt(x, i)' PROVE records[x] = RecordsBefore(x, i)'
    BY <1>7, <1>8 DEF Whole
  <2>1. CASE i \in 1 .. n
    <3>1. i \in 2 .. n /\ i - 1 \in 1 .. n
      BY <1>8, <2>1 DEF CommitAt
    <3>2. file'[i] = file[i] /\ file'[i - 1] = file[i - 1]
      BY <1>8, <3>1
    <3>3. CommitAt(x, i)
      BY <1>6, <3>1, <3>2 DEF CommitAt
    <3>4. {j \in 1 .. i : file'[j] = RecordEnd(x)} = {j \in 1 .. i : file[j] = RecordEnd(x)}
      BY <1>8, <2>1
    <3> QED BY <1>6, <2>1, <3>3, <3>4 DEF CountOK, Whole, RecordsBefore, RecordEnd, Rec, Entry
  <2>2. CASE i = n + 1
    <3>1. w.trx = x /\ w.type = "MTR_COMMIT"
      BY <1>8, <2>2, EntryType DEF CommitAt, Types
    <3>2. e = Com(x)
      BY <1>3, <1>5, <3>1 DEF Com
    <3>3. InHand(Com(x)) /\ ~Queued(Rec(x)) /\ ~InHand(Rec(x))
      BY <1>11, <3>2, RecComDiffer DEF CountOK, CommitLast
    <3>4. Count(log_entrys_, Rec(x)) = 0
      BY <3>3, CountNone DEF Queued
    <3>5. records[x] = (Count(file, RecordEnd(x)) + Hand(Rec(x))) + Count(log_entrys_, Rec(x))
      BY <3>3 DEF CountOK, Balanced, Busy
    <3>6. Hand(Rec(x)) = 0
      BY <3>3 DEF Hand
    <3>7. w # RecordEnd(x)
      BY <1>15, <3>2, RecComDiffer
    <3>8. records[x] = Count(file', RecordEnd(x))
      BY <1>16, <1>17, <3>4, <3>5, <3>6, <3>7
    <3>9. {j \in 1 .. i : file'[j] = RecordEnd(x)} = {j \in DOMAIN file' : file'[j] = RecordEnd(x)}
      BY <1>8, <2>2
    <3>10. RecordsBefore(x, i)' = Cardinality({j \in 1 .. i : file'[j] = RecordEnd(x)})
      BY DEF RecordsBefore, RecordEnd, Rec, Entry
    <3>11. Count(file', RecordEnd(x)) = Cardinality({j \in DOMAIN file' : file'[j] = RecordEnd(x)})
      BY DEF Count
    <3> QED BY <3>8, <3>9, <3>10, <3>11
  <2> QED BY <2>1, <2>2
<1> QED BY <1>18, <1>19, <1>20, <1>21, <1>22, <1>23 DEF CountOK

LEMMA CountInvNext == CountInv /\ LockInv' /\ [Next]_vars => CountInv'
<1> SUFFICES ASSUME CountInv, LockInv', [Next]_vars, fails' = 0, NEW x \in Trxs
             PROVE  CountOK(x)'
  BY DEF CountInv
<1>0. LockInv /\ TypeInv /\ TypeInv' /\ fails \in Nat
  BY DEF CountInv, LockInv, TypeInv, TypeOK
<1>same. ASSUME fails' = fails PROVE CountOK(x)
  BY <1>same DEF CountInv
<1>1. ASSUME NEW t \in Threads, Call(t) PROVE CountOK(x)'
  <2>1. CASE \E y \in Trxs : StartTrx(t, y)
    <3>1. PICK y \in Trxs : StartTrx(t, y)
      BY <2>1
    <3>2. fails' = fails
      BY <3>1 DEF StartTrx, Append_log
    <3> QED BY <1>0, <1>same, <3>1, <3>2, StartCount
  <2>2. CASE AppendRecordLog(t) \/ AppendCommitTrxLog(t) \/ AppendRollbackTrxLog(t)
    <3>1. /\ UNCHANGED <<log_entrys_, file, records, trx, status, fails>> /\ pc[t] = "idle"
          /\ pc'[t] = "check" /\ \A u \in Threads : u # t => pc'[u] = pc[u] /\ cur'[u] = cur[u]
      BY <1>0, <2>2 DEF AppendRecordLog, AppendCommitTrxLog, AppendRollbackTrxLog, Append_log,
                        TypeInv, TypeOK
    <3>2. \A u \in Threads : \A e : Writing(u, e)' = Writing(u, e)
      BY <3>1 DEF Writing
    <3>3. \A u \in Threads : Early(u, x)' => Early(u, x)
      BY <3>1 DEF Early
    <3> QED BY <1>same, <3>1, <3>2, <3>3, SameCount
  <2> QED BY <1>1, <2>1, <2>2 DEF Call
<1>2. ASSUME NEW t \in Threads, Step(t) PROVE CountOK(x)'
  <2>0. ASSUME UNCHANGED <<log_entrys_, file, records, cur, fails>>,
               NEW c, pc' = [pc EXCEPT ![t] = c], pc[t] # "write", c # "write",
               trx' = trx \/ trx' = [trx EXCEPT ![t] = NoTrx],
               trx'[t] = NoTrx \/ Early(t, trx[t]) \/ c \notin {"idle", "check", "push"},
               status' = status \/ \E s \in {"committed", "failed", "rolledback"} :
                                       status' = [status EXCEPT ![trx[t]] = s]
        PROVE  CountOK(x)'
    <3>1. pc'[t] = c /\ \A u \in Threads : u # t => pc'[u] = pc[u]
      BY <1>0, <2>0 DEF TypeInv, TypeOK
    <3>2. \A u \in Threads : \A e : Writing(u, e)' = Writing(u, e)
      BY <2>0, <3>1 DEF Writing
    <3>3. \A u \in Threads : trx'[u] = x => trx[u] = x
      BY <1>0, <2>0, LogAssumption DEF TypeInv, TypeOK
    <3>4. \A u \in Threads : Early(u, x)' => Early(u, x)
      BY <2>0, <3>1, <3>3, LogAssumption DEF Early
    <3>5. status'[x] = "none" => status[x] = "none"
      BY <1>0, <2>0 DEF TypeInv, TypeOK
    <3>6. \A u \in Threads : pc'[u] = "write" => pc[u] = "write" /\ cur'[u] = cur[u]
      BY <2>0, <3>1
    <3> QED BY <1>same, <2>0, <3>2, <3>3, <3>4, <3>5, <3>6, SameCount
  <2>1. CASE CheckSizeOk(t)
    <3>1. Early(t, trx[t])
      BY <2>1 DEF CheckSizeOk, Early
    <3>2. /\ UNCHANGED <<log_entrys_, file, records, cur, fails, trx, status>>
          /\ pc' = [pc EXCEPT ![t] = "push"] /\ pc[t] # "write"
      BY <2>1 DEF CheckSizeOk
    <3> QED BY <2>0, <3>1, <3>2
  <2>2. CASE CheckSizeFull(t)
    <3>1. CASE Die
      <4>1. UNCHANGED <<file, records, fails>>
        BY <2>2 DEF CheckSizeFull
      <4>2. file' = SubSeq(file, 1, Len(file)) /\ Len(file) \in 0 .. Len(file)
        BY <1>0, <4>1 DEF TypeInv, TypeOK
      <4> QED BY <1>0, <1>same, <3>1, <4>1, <4>2, DieCount
    <3>2. CASE ~Die
      <4>1. Early(t, trx[t])
        BY <2>2 DEF CheckSizeFull, Early
      <4>2. /\ UNCHANGED <<log_entrys_, file, records, cur, fails>>
            /\ pc' = [pc EXCEPT ![t] = "idle"] /\ pc[t] # "write"
            /\ trx' = trx \/ trx' = [trx EXCEPT ![t] = NoTrx]
            /\ status' = status \/ \E s \in {"committed", "failed", "rolledback"} :
                                       status' = [status EXCEPT ![trx[t]] = s]
        BY <2>2, <3>2 DEF CheckSizeFull, Return, Finish
      <4> QED BY <2>0, <4>1, <4>2
    <3> QED BY <3>1, <3>2
  <2>3. CASE Push(t)
    <3>1. fails' = fails
      BY <2>3 DEF Push
    <3> QED BY <1>0, <1>same, <2>3, <3>1, PushCount
  <2>4. CASE FlushLoop(t)
    <3>1. PICK c \in {"sync", "pop"} : pc' = [pc EXCEPT ![t] = c]
      BY <2>4 DEF FlushLoop
    <3>2. UNCHANGED <<log_entrys_, file, records, cur, fails, trx, status>> /\ pc[t] # "write"
      BY <2>4 DEF FlushLoop
    <3> QED BY <2>0, <3>1, <3>2
  <2>5. CASE PopEmpty(t) \/ Sync(t)
    <3>1. /\ UNCHANGED <<log_entrys_, file, records, cur, fails>> /\ pc[t] # "write"
          /\ pc' = [pc EXCEPT ![t] = "idle"] /\ trx' = [trx EXCEPT ![t] = NoTrx]
          /\ status' = [status EXCEPT ![trx[t]] = "committed"]
      BY <2>5 DEF PopEmpty, Sync, Finish
    <3>2. trx'[t] = NoTrx
      BY <1>0, <3>1 DEF TypeInv, TypeOK
    <3> QED BY <2>0, <3>1, <3>2
  <2>6. CASE Pop(t)
    <3>1. fails' = fails
      BY <2>6 DEF Pop
    <3> QED BY <1>0, <1>same, <2>6, <3>1, PopCount
  <2>7. CASE WritePiece(t)
    <3>1. fails' = fails
      BY <2>7 DEF WritePiece
    <3> QED BY <1>0, <1>same, <2>7, <3>1, WriteCount
  <2>8. CASE WriteFail(t) \/ SyncFail(t)
    <3>1. fails' = fails + 1
      BY <2>8 DEF WriteFail, SyncFail
    <3> QED BY <1>0, <3>1
  <2>9. CASE SubSize(t)
    <3>1. /\ UNCHANGED <<log_entrys_, file, records, cur, fails, trx, status>> /\ pc[t] # "write"
          /\ pc' = [pc EXCEPT ![t] = "loop"]
      BY <2>9 DEF SubSize
    <3> QED BY <2>0, <3>1
  <2> QED BY <1>2, <2>1, <2>2, <2>3, <2>4, <2>5, <2>6, <2>7, <2>8, <2>9 DEF Step
<1>3. CASE Crash
  <2>1. PICK n \in synced .. Len(file) : file' = SubSeq(file, 1, n)
    BY <1>3 DEF Crash
  <2>2. n \in 0 .. Len(file)
    BY <1>0 DEF TypeInv, TypeOK
  <2>3. Die /\ records' = records /\ fails' = fails
    BY <1>3 DEF Crash
  <2> QED BY <1>0, <1>same, <2>1, <2>2, <2>3, DieCount
<1>4. CASE Restart \/ UNCHANGED vars
  <2>1. UNCHANGED <<log_entrys_, file, records, pc, cur, trx, status, fails>>
    BY <1>4 DEF Restart, vars
  <2>2. /\ \A u \in Threads : \A e : Writing(u, e)' = Writing(u, e)
        /\ \A u \in Threads : Early(u, x)' => Early(u, x)
    BY <2>1 DEF Writing, Early
  <2> QED BY <1>same, <2>1, <2>2, SameCount
<1> QED BY <1>1, <1>2, <1>3, <1>4 DEF Next

LEMMA CountInvInit == Init => CountInv
<1> SUFFICES ASSUME Init, NEW x \in Trxs PROVE CountOK(x)
  BY LockInvInit DEF CountInv
<1>1. /\ log_entrys_ = <<>> /\ file = <<>> /\ records[x] = 0 /\ x # NoTrx /\ Len(file) = 0
      /\ DOMAIN log_entrys_ = {} /\ DOMAIN file = {}
      /\ \A t \in Threads : pc[t] = "idle" /\ trx[t] = NoTrx
  BY LogAssumption DEF Init
<1>2. ~Busy(x) /\ ~InHand(Com(x)) /\ \A t \in Threads : ~Early(t, x)
  BY <1>1 DEF Busy, Queued, InHand, Writing, Early
<1> QED BY <1>1, <1>2 DEF CountOK, Balanced, CommitLast, NotYet, Alone, Fresh, Whole

\* In any interleaving of any number of threads, through crashes and restarts, a
\* commit entry that is whole in redo.log has every record entry of its transaction
\* in front of it, as long as no write(2) or fsync(2) has failed, and until a restart
\* the pieces of entries are never mixed.
THEOREM CommitHasAll == Spec => []CommitComplete
<1>1. FrameInv /\ CountInv => CommitComplete
  <2> SUFFICES ASSUME FrameInv, CountInv PROVE CommitComplete
    OBVIOUS
  <2>1. FileFramed
    BY FrameIsFramed
  <2>2. ASSUME NEW x \in Trxs, NEW i \in 1 .. Len(file), CommitAt(x, i), fails = 0
        PROVE  records[x] = Cardinality({j \in 1 .. i : file[j] = Piece(Entry(x, "RECORD"), 3, FALSE)})
    BY <2>2 DEF CountInv, CountOK, Whole, RecordsBefore, RecordEnd, Rec
  <2> QED BY <2>1, <2>2 DEF CommitComplete
<1>2. Spec => []CountInv
  BY CountInvInit, CountInvNext, FrameInvariant, PTL DEF Spec
<1> QED BY <1>1, <1>2, FrameInvariant, PTL

-----------------------------------------------------------------------------
(* The byte count, for any number of threads.                              *)

\* The threads at one of the places P of a call with an entry of a type.
Held(P, ty) == {t \in Threads : pc[t] \in P /\ cur[t].type = ty}
Typed(s, ty) == Cardinality({i \in DOMAIN s : s[i].type = ty})
Queue(ty) == Typed(log_entrys_, ty)
Popped(ty) == Cardinality(Held({"write", "sub"}, ty))
Checked(ty) == Cardinality(Held({"push"}, ty))
One(b) == IF b THEN 1 ELSE 0
SizeLimit == LogBufferSize + (Cardinality(Threads) - 1) * MaxLen

\* total_size_ is exact; and what threads that passed the size check are going to
\* add is within the limit too, which is what makes the bound inductive.
SizeExact == total_size_ = CommitLen * (Queue("MTR_COMMIT") + Popped("MTR_COMMIT"))
                           + RecordLen * (Queue("RECORD") + Popped("RECORD"))
SizeRoom == total_size_ + (CommitLen * Checked("MTR_COMMIT") + RecordLen * Checked("RECORD")) < SizeLimit
SizeInv == SizeExact /\ SizeRoom

LEMMA Sums ==
    ASSUME NEW C \in Int, NEW R \in Int, NEW a \in Int, NEW b \in Int, NEW i \in Int, NEW j \in Int
    PROVE  C * (a + i) + R * (b + j) = (C * a + R * b) + (C * i + R * j)
OBVIOUS

LEMMA Products ==
    ASSUME NEW C \in Nat, NEW R \in Nat, NEW M \in Nat, NEW a \in Nat, NEW b \in Nat, NEW n \in Nat,
           C <= M, R <= M, a + b <= n
    PROVE  C * a + R * b <= n * M
<1>1. C * a <= M * a /\ R * b <= M * b
  OBVIOUS
<1>2. M * (a + b) <= M * n
  OBVIOUS
<1>3. M * (a + b) = M * a + M * b /\ M * n = n * M
  OBVIOUS
<1> QED BY <1>1, <1>2, <1>3

\* The length of an entry follows from its type.
LEMMA EntryLen ==
    ASSUME NEW e \in Entries
    PROVE  e.len = CommitLen * One(e.type = "MTR_COMMIT") + RecordLen * One(e.type = "RECORD")
<1>1. PICK x \in Trxs, ty \in Types : e = Entry(x, ty)
  BY DEF Entries
<1>2. CommitLen \in Nat /\ RecordLen \in Nat
  BY LogAssumption
<1> QED BY <1>1, <1>2 DEF Entry, One

LEMMA ThreadsCount == Cardinality(Threads) \in Nat /\ Cardinality(Threads) >= 1
<1>1. Cardinality(Threads) \in Nat /\ (Cardinality(Threads) = 0 <=> Threads = {})
  BY ThreadsAssumption, FS_CardinalityType, FS_EmptySet
<1> QED BY <1>1, ThreadsAssumption

LEMMA LimitType ==
    /\ CommitLen \in Nat /\ RecordLen \in Nat /\ MaxLen \in Nat /\ CommitLen <= MaxLen /\ RecordLen <= MaxLen
    /\ SizeLimit \in Int /\ SizeLimit >= LogBufferSize /\ LogBufferSize \in Nat \ {0}
<1>1. /\ CommitLen \in Nat /\ RecordLen \in Nat /\ MaxLen \in Nat /\ CommitLen <= MaxLen /\ RecordLen <= MaxLen
      /\ LogBufferSize \in Nat \ {0}
  BY LogAssumption DEF MaxLen
<1>2. PICK n \in Nat : n = Cardinality(Threads) - 1
  BY ThreadsCount
<1>3. n * MaxLen \in Nat
  BY <1>1, <1>2
<1> QED BY <1>1, <1>2, <1>3 DEF SizeLimit

LEMMA HeldFinite ==
    ASSUME NEW P, NEW ty
    PROVE  IsFiniteSet(Held(P, ty)) /\ Cardinality(Held(P, ty)) \in Nat
<1>1. Held(P, ty) \subseteq Threads
  BY DEF Held
<1> QED BY <1>1, ThreadsAssumption, FS_Subset, FS_CardinalityType

\* One thread moves: it leaves the places P, or comes to them, or changes its entry.
LEMMA HeldMoves ==
    ASSUME NEW t \in Threads, \A u \in Threads : u # t => pc'[u] = pc[u] /\ cur'[u] = cur[u],
           NEW P, NEW ty
    PROVE  /\ Cardinality(Held(P, ty)') = Cardinality(Held(P, ty))
                - One(pc[t] \in P /\ cur[t].type = ty) + One(pc'[t] \in P /\ cur'[t].type = ty)
           /\ Cardinality(Held(P, ty)) \in Nat /\ Cardinality(Held(P, ty)') \in Nat
<1>1. PICK A, B : A = Held(P, ty) /\ B = Held(P, ty)'
  OBVIOUS
<1>2. IsFiniteSet(A) /\ IsFiniteSet(B) /\ Cardinality(A) \in Nat /\ Cardinality(B) \in Nat
  <2>1. A \subseteq Threads /\ B \subseteq Threads
    BY <1>1 DEF Held
  <2> QED BY <2>1, ThreadsAssumption, FS_Subset, FS_CardinalityType
<1>3. A \ {t} = B \ {t}
  BY <1>1 DEF Held
<1>4. /\ t \in A <=> pc[t] \in P /\ cur[t].type = ty
      /\ t \in B <=> pc'[t] \in P /\ cur'[t].type = ty
  BY <1>1 DEF Held
<1>5. /\ Cardinality(A \ {t}) = IF t \in A THEN Cardinality(A) - 1 ELSE Cardinality(A)
      /\ Cardinality(B \ {t}) = IF t \in B THEN Cardinality(B) - 1 ELSE Cardinality(B)
  BY <1>2, FS_RemoveElement
<1>6. Cardinality(B) = Cardinality(A) - One(t \in A) + One(t \in B)
  <2>0. PICK a \in Nat, b \in Nat : a = Cardinality(A) /\ b = Cardinality(B)
    BY <1>2
  <2>1. PICK d : a = Cardinality(A) /\ b = Cardinality(B) /\ d = Cardinality(A \ {t})
    BY <2>0
  <2>2. d = Cardinality(B \ {t})
    BY <1>3, <2>1
  <2>3. d = (IF t \in A THEN a - 1 ELSE a) /\ d = (IF t \in B THEN b - 1 ELSE b)
    BY <1>5, <2>1, <2>2
  <2>4. b = a - (IF t \in A THEN 1 ELSE 0) + (IF t \in B THEN 1 ELSE 0)
    BY <2>3
  <2> QED BY <2>1, <2>4 DEF One
<1> QED BY <1>1, <1>2, <1>4, <1>6 DEF One

\* The types of the entries of a queue.
Labels(s) == [k \in DOMAIN s |-> s[k].type]

LEMMA QueueCount ==
    ASSUME NEW s \in Seq(Entries), NEW ty
    PROVE  /\ Labels(s) \in Seq(Types)
           /\ Typed(s, ty) = Count(Labels(s), ty)
           /\ Count(Labels(s), ty) \in Nat
<1>1. \A k \in DOMAIN s : s[k] \in Entries
  OBVIOUS
<1>2. \A k \in DOMAIN s : s[k].type \in Types
  BY <1>1, EntryFields
<1>3. Len(s) \in Nat /\ DOMAIN s = 1 .. Len(s)
  OBVIOUS
<1>4. Labels(s) \in Seq(Types)
  BY <1>2, <1>3 DEF Labels
<1>5. {k \in DOMAIN s : s[k].type = ty} = {k \in DOMAIN Labels(s) : Labels(s)[k] = ty}
  BY DEF Labels
<1> QED BY <1>4, <1>5, CountFinite DEF Count, Typed

LEMMA QueueAppend ==
    ASSUME NEW s \in Seq(Entries), NEW a \in Entries, NEW ty
    PROVE  Typed(Append(s, a), ty) = Typed(s, ty) + One(a.type = ty) /\ Typed(s, ty) \in Nat
<1>0. Append(s, a) \in Seq(Entries)
  OBVIOUS
<1>1. PICK z \in Seq(Entries) : z = Append(s, a)
  BY <1>0
<1>2. PICK l \in Seq(Types), m \in Seq(Types) : l = Labels(s) /\ m = Labels(z)
  BY QueueCount
<1>3. a.type \in Types
  BY EntryFields
<1>4. m = Append(l, a.type)
  <2>1. Len(s) \in Nat /\ Len(l) = Len(s) /\ Len(m) = Len(s) + 1 /\ Len(z) = Len(s) + 1
    BY <1>1, <1>2 DEF Labels
  <2>2. \A k \in 1 .. Len(s) + 1 : m[k] = Append(l, a.type)[k]
    BY <1>1, <1>2, <1>3, <2>1 DEF Labels
  <2> QED BY <1>2, <1>3, <2>1, <2>2
<1>5. Count(m, ty) = Count(l, ty) + (IF a.type = ty THEN 1 ELSE 0)
  BY <1>2, <1>3, <1>4, CountAppend
<1> QED BY <1>1, <1>2, <1>5, QueueCount DEF One

LEMMA QueueTail ==
    ASSUME NEW s \in Seq(Entries), s # <<>>, NEW ty
    PROVE  /\ Typed(s, ty) = Typed(Tail(s), ty) + One(Head(s).type = ty)
           /\ Typed(Tail(s), ty) \in Nat
<1>0. Tail(s) \in Seq(Entries)
  OBVIOUS
<1>1. PICK z \in Seq(Entries) : z = Tail(s)
  BY <1>0
<1>2. PICK l \in Seq(Types), m \in Seq(Types) : l = Labels(s) /\ m = Labels(z)
  BY QueueCount
<1>3. Len(s) \in Nat /\ Len(s) >= 1 /\ Len(l) = Len(s) /\ Len(z) = Len(s) - 1 /\ Len(m) = Len(z)
  BY <1>1, <1>2 DEF Labels
<1>4. l # <<>> /\ Head(l) = Head(s).type
  BY <1>2, <1>3 DEF Labels
<1>5. m = Tail(l)
  <2>1. Tail(l) \in Seq(Types) /\ Len(Tail(l)) = Len(m)
    BY <1>3, <1>4
  <2>2. PICK w \in Seq(Types) : w = Tail(l) /\ Len(w) = Len(m)
    BY <2>1
  <2>3. \A k \in 1 .. Len(m) : m[k] = w[k]
    BY <1>1, <1>2, <1>3, <2>2 DEF Labels
  <2>4. m = w
    <3>1. \A q \in Seq(Types) : q \in [1 .. Len(q) -> Types]
      OBVIOUS
    <3>2. PICK n : n = Len(m) /\ n = Len(w)
      BY <2>2
    <3>3. m \in [1 .. n -> Types] /\ w \in [1 .. n -> Types]
      BY <3>1, <3>2
    <3> QED BY <2>3, <3>2, <3>3
  <2> QED BY <2>2, <2>4
<1>6. Count(l, ty) = Count(m, ty) + (IF Head(l) = ty THEN 1 ELSE 0)
  BY <1>2, <1>4, <1>5, CountTail
<1> QED BY <1>1, <1>2, <1>4, <1>6, QueueCount DEF One

LEMMA SizeCounts ==
    ASSUME TypeInv, NEW ty
    PROVE  Queue(ty) \in Nat /\ Popped(ty) \in Nat /\ Checked(ty) \in Nat
<1>1. log_entrys_ \in Seq(Entries)
  BY DEF TypeInv, TypeOK
<1>2. Queue(ty) \in Nat
  BY <1>1, QueueCount DEF Queue
<1> QED BY <1>2, HeldFinite DEF Popped, Checked

\* The process is gone, and with it everything counted.
LEMMA DieSize ==
    ASSUME Die
    PROVE  SizeInv'
<1>1. \A t \in Threads : pc'[t] = "idle"
  BY DEF Die
<1>2. total_size_' = 0 /\ log_entrys_' = <<>>
  BY DEF Die
<1>3. Cardinality({}) = 0
  BY FS_EmptySet
<1>4. ASSUME NEW ty PROVE Queue(ty)' = 0 /\ Popped(ty)' = 0 /\ Checked(ty)' = 0
  <2>1. Held({"write", "sub"}, ty)' = {} /\ Held({"push"}, ty)' = {}
    BY <1>1 DEF Held
  <2>2. {i \in DOMAIN log_entrys_' : log_entrys_'[i].type = ty} = {}
    BY <1>2
  <2> QED BY <1>3, <2>1, <2>2 DEF Queue, Typed, Popped, Checked
<1>5. CommitLen \in Nat /\ RecordLen \in Nat /\ 0 < SizeLimit
  BY LimitType
<1>6. SizeLimit' = SizeLimit
  BY DEF SizeLimit, MaxLen
<1>7. SizeExact'
  BY <1>2, <1>4, <1>5 DEF SizeExact
<1>8. SizeRoom'
  BY <1>2, <1>4, <1>5, <1>6 DEF SizeRoom
<1> QED BY <1>7, <1>8 DEF SizeInv

\* A step that queues nothing, and after which the same threads are before a push
\* and have an entry in hand.
LEMMA SameSize ==
    ASSUME SizeInv, UNCHANGED <<total_size_, log_entrys_>>,
           \A u \in Threads : /\ pc'[u] = "push" <=> pc[u] = "push"
                              /\ pc'[u] \in {"write", "sub"} <=> pc[u] \in {"write", "sub"}
                              /\ pc[u] \in {"push", "write", "sub"} => cur'[u] = cur[u]
    PROVE  SizeInv'
<1>1. ASSUME NEW ty PROVE Queue(ty)' = Queue(ty) /\ Popped(ty)' = Popped(ty) /\ Checked(ty)' = Checked(ty)
  <2>1. Held({"write", "sub"}, ty)' = Held({"write", "sub"}, ty) /\ Held({"push"}, ty)' = Held({"push"}, ty)
    BY DEF Held
  <2> QED BY <2>1 DEF Queue, Popped, Checked
<1>2. SizeLimit' = SizeLimit
  BY DEF SizeLimit, MaxLen
<1> QED BY <1>1, <1>2 DEF SizeInv, SizeExact, SizeRoom

\* The size check is passed: the other threads at the same place add at most the
\* longest entry each.
LEMMA CheckSize ==
    ASSUME TypeInv, TypeInv', SizeInv, NEW t \in Threads, CheckSizeOk(t)
    PROVE  SizeInv'
<1>1. /\ pc[t] = "check" /\ UNCHANGED <<total_size_, log_entrys_, cur>> /\ pc' = [pc EXCEPT ![t] = "push"]
      /\ ~(total_size_ + cur[t].len >= LogBufferSize)
  BY DEF CheckSizeOk, BufferFull
<1>2. pc'[t] = "push" /\ \A u \in Threads : u # t => pc'[u] = pc[u] /\ cur'[u] = cur[u]
  BY <1>1 DEF TypeInv, TypeOK
<1>3. PICK e \in Entries : e = cur[t]
  BY <1>1 DEF TypeInv, ThreadOK
<1>4. ASSUME NEW ty
      PROVE  /\ Queue(ty)' = Queue(ty) /\ Popped(ty)' = Popped(ty)
             /\ Checked(ty)' = Checked(ty) + One(e.type = ty)
  <2>1. /\ Cardinality(Held({"push"}, ty)') = Cardinality(Held({"push"}, ty))
             - One(pc[t] \in {"push"} /\ cur[t].type = ty) + One(pc'[t] \in {"push"} /\ cur'[t].type = ty)
        /\ Cardinality(Held({"push"}, ty)) \in Nat
    BY <1>2, HeldMoves
  <2>2. Held({"write", "sub"}, ty)' = Held({"write", "sub"}, ty)
    BY <1>1, <1>2 DEF Held
  <2>3. One(pc[t] \in {"push"} /\ cur[t].type = ty) = 0
        /\ One(pc'[t] \in {"push"} /\ cur'[t].type = ty) = One(e.type = ty)
    BY <1>1, <1>2, <1>3 DEF One
  <2>4. One(e.type = ty) \in Int
    BY DEF One
  <2> QED BY <1>1, <2>1, <2>2, <2>3, <2>4 DEF Queue, Popped, Checked
<1>5. SizeLimit' = SizeLimit
  BY DEF SizeLimit, MaxLen
<1>6. SizeExact'
  BY <1>1, <1>4 DEF SizeInv, SizeExact
<1>7. Checked("MTR_COMMIT") + Checked("RECORD") <= Cardinality(Threads) - 1
  <2>1. PICK A, B, D : A = Held({"push"}, "MTR_COMMIT") /\ B = Held({"push"}, "RECORD") /\ D = Threads \ {t}
    OBVIOUS
  <2>2. IsFiniteSet(A) /\ IsFiniteSet(B) /\ Cardinality(A) \in Nat /\ Cardinality(B) \in Nat
    BY <2>1, HeldFinite
  <2>3. A \cap B = {} /\ A \cup B \subseteq D
    BY <1>1, <2>1 DEF Held
  <2>4. IsFiniteSet(D) /\ Cardinality(D) = Cardinality(Threads) - 1
    BY <2>1, ThreadsAssumption, FS_RemoveElement
  <2>5. Cardinality(A \cup B) = Cardinality(A) + Cardinality(B) - Cardinality(A \cap B)
    BY <2>2, FS_Union
  <2>6. Cardinality(A \cap B) = 0
    BY <2>3, FS_EmptySet
  <2>7. Cardinality(A \cup B) <= Cardinality(D)
    BY <2>3, <2>4, FS_Subset
  <2>8. Cardinality(A) + Cardinality(B) <= Cardinality(Threads) - 1
    BY <2>2, <2>4, <2>5, <2>6, <2>7
  <2> QED BY <2>1, <2>8 DEF Checked
<1>8. SizeRoom'
  <2>1. PICK a \in Nat, b \in Nat, n \in Nat : a = Checked("MTR_COMMIT") /\ b = Checked("RECORD")
                                              /\ n = Cardinality(Threads) - 1
    BY ThreadsCount, SizeCounts
  <2>2. PICK i \in Nat, j \in Nat : i = One(e.type = "MTR_COMMIT") /\ j = One(e.type = "RECORD")
    BY DEF One
  <2>3. e.len = CommitLen * i + RecordLen * j
    BY <2>2, EntryLen
  <2>4. CommitLen * a + RecordLen * b <= n * MaxLen
    BY <1>7, <2>1, Products, LimitType
  <2>5. CommitLen * (a + i) + RecordLen * (b + j) = (CommitLen * a + RecordLen * b) + (CommitLen * i + RecordLen * j)
    BY <2>1, <2>2, Sums, LimitType
  <2>6. SizeLimit = LogBufferSize + n * MaxLen
    BY <2>1 DEF SizeLimit
  <2>7. total_size_ \in Int /\ total_size_ + e.len < LogBufferSize
    <3>1. e.len \in Nat /\ total_size_ \in Int
      BY EntryFields DEF TypeInv, TypeOK
    <3> QED BY <1>1, <1>3, <3>1, LimitType
  <2>8. PICK x \in Int, y \in Int, z \in Int : /\ x = CommitLen * a + RecordLen * b
                                              /\ y = CommitLen * i + RecordLen * j /\ z = n * MaxLen
    BY <2>1, <2>2, LimitType
  <2>9. total_size_ + (x + y) < SizeLimit
    BY <2>3, <2>4, <2>6, <2>7, <2>8, LimitType
  <2>10. total_size_' + (CommitLen * Checked("MTR_COMMIT")' + RecordLen * Checked("RECORD")') < SizeLimit'
    BY <1>1, <1>4, <1>5, <2>1, <2>2, <2>5, <2>8, <2>9
  <2> QED BY <2>10 DEF SizeRoom
<1> QED BY <1>6, <1>8 DEF SizeInv

\* The checked entry is queued and counted.
LEMMA PushSize ==
    ASSUME TypeInv, SizeInv, NEW t \in Threads, Push(t)
    PROVE  SizeInv'
<1>1. /\ pc[t] = "push" /\ log_entrys_' = Append(log_entrys_, cur[t]) /\ total_size_' = total_size_ + cur[t].len
      /\ cur' = cur
  BY DEF Push
<1>2. pc'[t] \in {"idle", "loop"} /\ \A u \in Threads : u # t => pc'[u] = pc[u] /\ cur'[u] = cur[u]
  BY <1>1 DEF Push, Return, Finish, TypeInv, TypeOK
<1>3. PICK e \in Entries : e = cur[t]
  BY <1>1 DEF TypeInv, ThreadOK
<1>4. ASSUME NEW ty
      PROVE  /\ Queue(ty)' = Queue(ty) + One(e.type = ty) /\ Popped(ty)' = Popped(ty)
             /\ Checked(ty)' = Checked(ty) - One(e.type = ty)
  <2>1. /\ Cardinality(Held({"push"}, ty)') = Cardinality(Held({"push"}, ty))
             - One(pc[t] \in {"push"} /\ cur[t].type = ty) + One(pc'[t] \in {"push"} /\ cur'[t].type = ty)
        /\ Cardinality(Held({"push"}, ty)) \in Nat
    BY <1>2, HeldMoves
  <2>2. Held({"write", "sub"}, ty)' = Held({"write", "sub"}, ty)
    BY <1>1, <1>2 DEF Held
  <2>3. One(pc'[t] \in {"push"} /\ cur'[t].type = ty) = 0
        /\ One(pc[t] \in {"push"} /\ cur[t].type = ty) = One(e.type = ty)
    BY <1>1, <1>2, <1>3 DEF One
  <2>4. One(e.type = ty) \in Int
    BY DEF One
  <2>5. log_entrys_ \in Seq(Entries) /\ log_entrys_' = Append(log_entrys_, e)
    BY <1>1, <1>3 DEF TypeInv, TypeOK
  <2>6. Queue(ty)' = Queue(ty) + One(e.type = ty)
    BY <2>5, QueueAppend DEF Queue
  <2> QED BY <2>1, <2>2, <2>3, <2>4, <2>6 DEF Popped, Checked
<1>5. PICK i \in Int, j \in Int : i = One(e.type = "MTR_COMMIT") /\ j = One(e.type = "RECORD")
  BY DEF One
<1>6. PICK a \in Nat, b \in Nat, c \in Nat, d \in Nat :
        /\ a = Queue("MTR_COMMIT") + Popped("MTR_COMMIT") /\ b = Queue("RECORD") + Popped("RECORD")
        /\ c = Checked("MTR_COMMIT") /\ d = Checked("RECORD")
  BY SizeCounts
<1>7. e.len = CommitLen * i + RecordLen * j /\ e.len \in Int /\ total_size_ \in Int
  BY <1>5, EntryLen, EntryFields DEF TypeInv, TypeOK
<1>8. /\ Queue("MTR_COMMIT")' + Popped("MTR_COMMIT")' = a + i /\ Queue("RECORD")' + Popped("RECORD")' = b + j
      /\ Checked("MTR_COMMIT")' = c + (0 - i) /\ Checked("RECORD")' = d + (0 - j)
  <2>1. ASSUME NEW ty, NEW k \in Int, k = One(e.type = ty)
        PROVE  Queue(ty)' + Popped(ty)' = (Queue(ty) + Popped(ty)) + k /\ Checked(ty)' = Checked(ty) + (0 - k)
    BY <1>4, <2>1, SizeCounts
  <2> QED BY <1>5, <1>6, <2>1
<1>9. /\ CommitLen * (a + i) + RecordLen * (b + j) = (CommitLen * a + RecordLen * b) + (CommitLen * i + RecordLen * j)
      /\ CommitLen * (c + (0 - i)) + RecordLen * (d + (0 - j))
           = (CommitLen * c + RecordLen * d) + (CommitLen * (0 - i) + RecordLen * (0 - j))
      /\ CommitLen * (0 - i) + RecordLen * (0 - j) = 0 - (CommitLen * i + RecordLen * j)
  BY <1>5, <1>6, Sums, LimitType
<1>10. PICK x \in Int, y \in Int : x = CommitLen * a + RecordLen * b /\ y = CommitLen * c + RecordLen * d
  BY <1>6, LimitType
<1>11. total_size_ = x /\ total_size_ + y < SizeLimit
  BY <1>6, <1>10 DEF SizeInv, SizeExact, SizeRoom
<1>12. total_size_' = x + e.len
  BY <1>1, <1>3, <1>11
<1>13. SizeExact'
  BY <1>7, <1>8, <1>9, <1>10, <1>12 DEF SizeExact
<1>14. SizeRoom'
  <2>1. SizeLimit' = SizeLimit /\ SizeLimit \in Int
    BY LimitType DEF SizeLimit, MaxLen
  <2>2. total_size_' + (y + (0 - e.len)) < SizeLimit'
    BY <1>7, <1>10, <1>11, <1>12, <2>1
  <2> QED BY <1>7, <1>8, <1>9, <1>10, <2>2 DEF SizeRoom
<1> QED BY <1>13, <1>14 DEF SizeInv

\* A popped entry leaves the queue and is still counted.
LEMMA PopSize ==
    ASSUME TypeInv, SizeInv, NEW t \in Threads, Pop(t)
    PROVE  SizeInv'
<1>1. /\ pc[t] = "pop" /\ log_entrys_ # <<>> /\ log_entrys_' = Tail(log_entrys_) /\ total_size_' = total_size_
      /\ cur' = [cur EXCEPT ![t] = Head(log_entrys_)] /\ pc' = [pc EXCEPT ![t] = "write"]
  BY DEF Pop
<1>2. /\ pc'[t] = "write" /\ cur'[t] = Head(log_entrys_)
      /\ \A u \in Threads : u # t => pc'[u] = pc[u] /\ cur'[u] = cur[u]
  BY <1>1 DEF TypeInv, TypeOK
<1>3. ASSUME NEW ty
      PROVE  /\ Queue(ty)' + Popped(ty)' = Queue(ty) + Popped(ty)
             /\ Checked(ty)' = Checked(ty)
  <2>1. PICK P : P = {"write", "sub"}
    OBVIOUS
  <2>2. PICK k \in {0, 1} : k = One(Head(log_entrys_).type = ty)
    BY DEF One
  <2>3. /\ Cardinality(Held(P, ty)') = Cardinality(Held(P, ty))
             - One(pc[t] \in P /\ cur[t].type = ty) + One(pc'[t] \in P /\ cur'[t].type = ty)
        /\ Cardinality(Held(P, ty)) \in Nat
    BY <1>2, HeldMoves
  <2>4. One(pc[t] \in P /\ cur[t].type = ty) = 0 /\ One(pc'[t] \in P /\ cur'[t].type = ty) = k
    BY <1>1, <1>2, <2>1, <2>2 DEF One
  <2>5. Popped(ty)' = Popped(ty) + k /\ Popped(ty) \in Nat
    BY <2>1, <2>3, <2>4 DEF Popped
  <2>6. Held({"push"}, ty)' = Held({"push"}, ty)
    BY <1>1, <1>2 DEF Held
  <2>7. Queue(ty) = Queue(ty)' + k /\ Queue(ty)' \in Nat
    <3>1. log_entrys_ \in Seq(Entries)
      BY DEF TypeInv, TypeOK
    <3> QED BY <1>1, <2>2, <3>1, QueueTail DEF Queue
  <2> QED BY <2>5, <2>6, <2>7 DEF Checked
<1>4. SizeLimit' = SizeLimit
  BY DEF SizeLimit, MaxLen
<1> QED BY <1>1, <1>3, <1>4 DEF SizeInv, SizeExact, SizeRoom

\* The written entry is subtracted once.
LEMMA SubSizeSize ==
    ASSUME TypeInv, SizeInv, NEW t \in Threads, SubSize(t)
    PROVE  SizeInv'
<1>1. /\ pc[t] = "sub" /\ UNCHANGED <<log_entrys_, cur>> /\ total_size_' = total_size_ - cur[t].len
      /\ pc' = [pc EXCEPT ![t] = "loop"]
  BY DEF SubSize
<1>2. pc'[t] = "loop" /\ \A u \in Threads : u # t => pc'[u] = pc[u] /\ cur'[u] = cur[u]
  BY <1>1 DEF TypeInv, TypeOK
<1>3. PICK e \in Entries : e = cur[t]
  BY <1>1 DEF TypeInv, ThreadOK
<1>4. ASSUME NEW ty
      PROVE  /\ Queue(ty)' = Queue(ty) /\ Popped(ty)' = Popped(ty) - One(e.type = ty)
             /\ Checked(ty)' = Checked(ty)
  <2>1. PICK P : P = {"write", "sub"}
    OBVIOUS
  <2>2. PICK k \in {0, 1} : k = One(e.type = ty)
    BY DEF One
  <2>3. /\ Cardinality(Held(P, ty)') = Cardinality(Held(P, ty))
             - One(pc[t] \in P /\ cur[t].type = ty) + One(pc'[t] \in P /\ cur'[t].type = ty)
        /\ Cardinality(Held(P, ty)) \in Nat
    BY <1>2, HeldMoves
  <2>4. One(pc[t] \in P /\ cur[t].type = ty) = k /\ One(pc'[t] \in P /\ cur'[t].type = ty) = 0
    BY <1>1, <1>2, <1>3, <2>1, <2>2 DEF One
  <2>5. Popped(ty)' = Popped(ty) - k /\ Popped(ty) \in Nat
    BY <2>1, <2>3, <2>4 DEF Popped
  <2>6. Held({"push"}, ty)' = Held({"push"}, ty)
    BY <1>1, <1>2 DEF Held
  <2> QED BY <1>1, <2>2, <2>5, <2>6 DEF Checked, Queue
<1>5. PICK i \in Int, j \in Int : i = One(e.type = "MTR_COMMIT") /\ j = One(e.type = "RECORD")
  BY DEF One
<1>6. PICK a \in Nat, b \in Nat : /\ a = Queue("MTR_COMMIT") + Popped("MTR_COMMIT")
                                  /\ b = Queue("RECORD") + Popped("RECORD")
  BY SizeCounts
<1>7. e.len = CommitLen * i + RecordLen * j /\ e.len \in Nat /\ total_size_ \in Int
  BY <1>5, EntryLen, EntryFields DEF TypeInv, TypeOK
<1>8. Queue("MTR_COMMIT")' + Popped("MTR_COMMIT")' = a + (0 - i) /\ Queue("RECORD")' + Popped("RECORD")' = b + (0 - j)
  BY <1>4, <1>5, <1>6, SizeCounts
<1>9. /\ CommitLen * (a + (0 - i)) + RecordLen * (b + (0 - j))
           = (CommitLen * a + RecordLen * b) + (CommitLen * (0 - i) + RecordLen * (0 - j))
      /\ CommitLen * (0 - i) + RecordLen * (0 - j) = 0 - (CommitLen * i + RecordLen * j)
  BY <1>5, <1>6, Sums, LimitType
<1>10. PICK x \in Int, y \in Int : /\ x = CommitLen * a + RecordLen * b
                                   /\ y = CommitLen * Checked("MTR_COMMIT") + RecordLen * Checked("RECORD")
  BY <1>6, LimitType, SizeCounts
<1>11. total_size_ = x /\ total_size_ + y < SizeLimit
  BY <1>6, <1>10 DEF SizeInv, SizeExact, SizeRoom
<1>12. total_size_' = x - e.len
  BY <1>1, <1>3, <1>11
<1>13. SizeExact'
  BY <1>7, <1>8, <1>9, <1>10, <1>12 DEF SizeExact
<1>14. SizeRoom'
  <2>1. SizeLimit' = SizeLimit /\ SizeLimit \in Int
    BY LimitType DEF SizeLimit, MaxLen
  <2>2. total_size_' + y < SizeLimit'
    BY <1>7, <1>10, <1>11, <1>12, <2>1
  <2> QED BY <1>4, <1>10, <2>2 DEF SizeRoom
<1> QED BY <1>13, <1>14 DEF SizeInv

LEMMA SizeInvNext == TypeInv /\ TypeInv' /\ SizeInv /\ [Next]_vars => SizeInv'
<1> SUFFICES ASSUME TypeInv, TypeInv', SizeInv, [Next]_vars PROVE SizeInv'
  OBVIOUS
<1>moved. ASSUME NEW t \in Threads, NEW c, pc' = [pc EXCEPT ![t] = c], UNCHANGED <<total_size_, log_entrys_>>,
                 \A u \in Threads : u # t => cur'[u] = cur[u],
                 \/ pc[t] \notin {"push", "write", "sub"} /\ c \notin {"push", "write", "sub"}
                 \/ pc[t] = "write" /\ c = "sub" /\ cur' = cur
          PROVE  SizeInv'
  <2>1. pc'[t] = c /\ \A u \in Threads : u # t => pc'[u] = pc[u]
    BY <1>moved DEF TypeInv, TypeOK
  <2> QED BY <1>moved, <2>1, SameSize
<1>1. ASSUME NEW t \in Threads, Call(t) PROVE SizeInv'
  <2>1. /\ UNCHANGED <<total_size_, log_entrys_>> /\ pc[t] = "idle" /\ pc' = [pc EXCEPT ![t] = "check"]
        /\ \A u \in Threads : u # t => cur'[u] = cur[u]
    BY <1>1 DEF Call, StartTrx, AppendRecordLog, AppendCommitTrxLog, AppendRollbackTrxLog, Append_log,
                TypeInv, TypeOK
  <2> QED BY <1>moved, <2>1
<1>2. ASSUME NEW t \in Threads, Step(t) PROVE SizeInv'
  <2>1. CASE CheckSizeOk(t)
    BY <2>1, CheckSize
  <2>2. CASE CheckSizeFull(t)
    <3>1. CASE Die
      BY <3>1, DieSize
    <3>2. CASE ~Die
      <4>1. /\ UNCHANGED <<total_size_, log_entrys_, cur>> /\ pc[t] = "check" /\ pc' = [pc EXCEPT ![t] = "idle"]
        BY <2>2, <3>2 DEF CheckSizeFull, Return, Finish
      <4> QED BY <1>moved, <4>1
    <3> QED BY <3>1, <3>2
  <2>3. CASE Push(t)
    BY <2>3, PushSize
  <2>4. CASE FlushLoop(t)
    <3>1. PICK c \in {"sync", "pop"} : pc' = [pc EXCEPT ![t] = c]
      BY <2>4 DEF FlushLoop
    <3>2. UNCHANGED <<total_size_, log_entrys_, cur>> /\ pc[t] = "loop"
      BY <2>4 DEF FlushLoop
    <3> QED BY <1>moved, <3>1, <3>2
  <2>5. CASE PopEmpty(t) \/ Sync(t) \/ SyncFail(t)
    <3>1. /\ UNCHANGED <<total_size_, log_entrys_, cur>> /\ pc[t] \in {"pop", "sync"}
          /\ pc' = [pc EXCEPT ![t] = "idle"]
      BY <2>5 DEF PopEmpty, Sync, SyncFail, Finish
    <3> QED BY <1>moved, <3>1
  <2>6. CASE Pop(t)
    BY <2>6, PopSize
  <2>7. CASE WritePiece(t)
    <3>1. UNCHANGED <<total_size_, log_entrys_, cur>> /\ pc[t] = "write"
      BY <2>7 DEF WritePiece
    <3>2. pc' = pc \/ pc' = [pc EXCEPT ![t] = "sub"]
      BY <2>7 DEF WritePiece
    <3>3. CASE pc' = pc
      BY <3>1, <3>3, SameSize
    <3>4. CASE pc' = [pc EXCEPT ![t] = "sub"]
      BY <1>moved, <3>1, <3>4
    <3> QED BY <3>2, <3>3, <3>4
  <2>8. CASE WriteFail(t)
    <3>1. CASE Die
      BY <3>1, DieSize
    <3>2. CASE ~Die
      <4>1. UNCHANGED <<total_size_, log_entrys_, cur>> /\ pc[t] = "write" /\ pc' = [pc EXCEPT ![t] = "sub"]
        BY <2>8, <3>2 DEF WriteFail
      <4> QED BY <1>moved, <4>1
    <3> QED BY <3>1, <3>2
  <2>9. CASE SubSize(t)
    BY <2>9, SubSizeSize
  <2> QED BY <1>2, <2>1, <2>2, <2>3, <2>4, <2>5, <2>6, <2>7, <2>8, <2>9 DEF Step
<1>3. CASE Crash
  BY <1>3, DieSize DEF Crash
<1>4. CASE Restart \/ UNCHANGED vars
  <2>1. UNCHANGED <<total_size_, log_entrys_, pc, cur>>
    BY <1>4 DEF Restart, vars
  <2> QED BY <2>1, SameSize
<1> QED BY <1>1, <1>2, <1>3, <1>4 DEF Next

LEMMA SizeInvInit == Init => SizeInv
<1> SUFFICES ASSUME Init PROVE SizeInv
  OBVIOUS
<1>1. total_size_ = 0 /\ log_entrys_ = <<>> /\ \A t \in Threads : pc[t] = "idle"
  BY DEF Init
<1>2. ASSUME NEW ty PROVE Queue(ty) = 0 /\ Popped(ty) = 0 /\ Checked(ty) = 0
  <2>1. Held({"write", "sub"}, ty) = {} /\ Held({"push"}, ty) = {}
    BY <1>1 DEF Held
  <2>2. {i \in DOMAIN log_entrys_ : log_entrys_[i].type = ty} = {}
    BY <1>1
  <2> QED BY <2>1, <2>2, FS_EmptySet DEF Queue, Typed, Popped, Checked
<1>3. CommitLen \in Nat /\ RecordLen \in Nat /\ 0 < SizeLimit
  BY LimitType
<1> QED BY <1>1, <1>2, <1>3 DEF SizeInv, SizeExact, SizeRoom

\* For any number of threads, both builds and any failures and crashes: total_size_
\* is never off by an entry, although it is lowered outside lock_, and the unlocked
\* size check lets the buffer overshoot by less than one entry per other thread.
THEOREM SizeIsBounded == Spec => []SizeBounded
<1>1. ASSUME TypeInv, SizeInv PROVE SizeBounded
  <2>1. \A ty : Counted(ty) = Queue(ty) + Popped(ty)
    BY DEF Counted, InFlight, Queue, Typed, Popped, Held
  <2>2. total_size_ = CommitLen * Counted("MTR_COMMIT") + RecordLen * Counted("RECORD")
    BY <1>1, <2>1 DEF SizeInv, SizeExact
  <2>3. PICK y \in Nat : y = CommitLen * Checked("MTR_COMMIT") + RecordLen * Checked("RECORD")
    BY <1>1, SizeCounts, LimitType
  <2>4. total_size_ \in Int /\ total_size_ + y < SizeLimit
    BY <1>1, <2>3 DEF SizeInv, SizeRoom, TypeInv, TypeOK
  <2>5. total_size_ < SizeLimit
    BY <2>3, <2>4, LimitType
  <2> QED BY <2>2, <2>5 DEF SizeBounded, SizeLimit
<1>2. Spec => []TypeInv
  BY TypeInvInit, TypeInvNext, PTL DEF Spec
<1>3. Spec => []SizeInv
  BY <1>2, SizeInvInit, SizeInvNext, PTL DEF Spec
<1> QED BY <1>1, <1>2, <1>3, PTL

-----------------------------------------------------------------------------
(* Whole entries of a file, in order: the ends of entries and their ranks. *)

LEMMA RankType ==
    ASSUME NEW n \in Nat, NEW E \in SUBSET (1 .. n)
    PROVE  /\ IsFiniteSet(E) /\ Cardinality(E) \in Nat
           /\ \A p : Rank(E, p) \in 0 .. Cardinality(E)
<1>1. IsFiniteSet(E)
  <2>1. PICK I : I = 1 .. n /\ IsFiniteSet(I)
    BY FS_Interval
  <2> QED BY <2>1, FS_Subset
<1>2. ASSUME NEW p PROVE Rank(E, p) \in 0 .. Cardinality(E)
  <2>1. PICK S \in SUBSET E : S = {i \in E : i <= p}
    OBVIOUS
  <2>2. IsFiniteSet(S) /\ Cardinality(S) <= Cardinality(E) /\ Cardinality(S) \in Nat
    BY <1>1, <2>1, FS_Subset, FS_CardinalityType
  <2>3. Cardinality(E) \in Nat
    BY <1>1, FS_CardinalityType
  <2> QED BY <2>1, <2>2, <2>3 DEF Rank
<1> QED BY <1>1, <1>2, FS_CardinalityType

LEMMA RankGrows ==
    ASSUME NEW n \in Nat, NEW E \in SUBSET (1 .. n), NEW p \in 0 .. n, NEW q \in E, p < q
    PROVE  Rank(E, p) < Rank(E, q)
<1>1. PICK S \in SUBSET E, T \in SUBSET E : S = {i \in E : i <= p} /\ T = {i \in E : i <= q}
  OBVIOUS
<1>2. IsFiniteSet(S) /\ IsFiniteSet(T) /\ Cardinality(S) \in Nat /\ Cardinality(T) \in Nat
  <2>1. IsFiniteSet(E)
    BY RankType
  <2> QED BY <2>1, FS_Subset, FS_CardinalityType
<1>3. S \subseteq T /\ q \in T /\ q \notin S
  <2>1. p \in Int /\ q \in Int /\ \A i \in E : i \in Int
    OBVIOUS
  <2>2. \A i : (i \in S <=> i \in E /\ i <= p) /\ (i \in T <=> i \in E /\ i <= q)
    BY <1>1
  <2>3. \A i \in S : i \in T
    BY <2>1, <2>2
  <2>4. q \in T /\ q \notin S
    BY <2>1, <2>2
  <2> QED BY <2>3, <2>4
<1>4. Cardinality(S) <= Cardinality(T) /\ Cardinality(S) # Cardinality(T)
  BY <1>2, <1>3, FS_Subset
<1> QED BY <1>1, <1>2, <1>4 DEF Rank

LEMMA RankMonotone ==
    ASSUME NEW n \in Nat, NEW E \in SUBSET (1 .. n), NEW p \in Int, NEW q \in Int, p <= q
    PROVE  Rank(E, p) <= Rank(E, q)
<1>1. PICK S \in SUBSET E, T \in SUBSET E : S = {i \in E : i <= p} /\ T = {i \in E : i <= q}
  OBVIOUS
<1>2. IsFiniteSet(T)
  <2>1. IsFiniteSet(E)
    BY RankType
  <2> QED BY <2>1, FS_Subset
<1>3. S \subseteq T
  <2>1. \A i \in E : i \in Int
    OBVIOUS
  <2>2. \A i : (i \in S <=> i \in E /\ i <= p) /\ (i \in T <=> i \in E /\ i <= q)
    BY <1>1
  <2>3. \A i \in S : i \in T
    BY <2>1, <2>2
  <2> QED BY <2>3
<1>4. Cardinality(S) <= Cardinality(T)
  BY <1>2, <1>3, FS_Subset
<1> QED BY <1>1, <1>4 DEF Rank

\* Every number up to the number of ends is the rank of exactly one.
LEMMA EndAtRank ==
    ASSUME NEW n \in Nat, NEW E \in SUBSET (1 .. n)
    PROVE  /\ \A k \in 1 .. Cardinality(E) : EndAt(E, k) \in E /\ Rank(E, EndAt(E, k)) = k
           /\ \A p \in E : Rank(E, p) \in 1 .. Cardinality(E) /\ EndAt(E, Rank(E, p)) = p
<1>0. IsFiniteSet(E) /\ Cardinality(E) \in Nat /\ \A p : Rank(E, p) \in 0 .. Cardinality(E)
  BY RankType
<1>1. ASSUME NEW p \in E, NEW q \in E, Rank(E, p) = Rank(E, q) PROVE p = q
  <2>1. p \in 0 .. n /\ q \in 0 .. n /\ p \in Int /\ q \in Int
    OBVIOUS
  <2>2. Rank(E, p) \in Int /\ Rank(E, q) \in Int
    BY <1>0
  <2>3. ~(p < q) /\ ~(q < p)
    BY <1>1, <2>1, <2>2, RankGrows
  <2> QED BY <2>1, <2>3
<1>2. ASSUME NEW p \in E PROVE Rank(E, p) \in 1 .. Cardinality(E)
  <2>1. 0 \in 0 .. n /\ 0 < p
    OBVIOUS
  <2>2. Rank(E, 0) < Rank(E, p)
    BY <2>1, RankGrows
  <2> QED BY <1>0, <2>2
<1>3. PICK f : f = [p \in E |-> Rank(E, p)]
  OBVIOUS
<1>4. PICK c \in Nat : c = Cardinality(E)
  BY <1>0
<1>5. f \in Injection(E, 1 .. c)
  BY <1>1, <1>2, <1>3, <1>4 DEF Injection, IsInjective
<1>6. IsFiniteSet(1 .. c) /\ Cardinality(1 .. c) = c
  BY <1>4, FS_Interval
<1>7. f \in Surjection(E, 1 .. c)
  BY <1>0, <1>4, <1>5, <1>6, FS_Injection
<1>8. ASSUME NEW k \in 1 .. c PROVE \E p \in E : Rank(E, p) = k
  BY <1>3, <1>7 DEF Surjection
<1>9. ASSUME NEW k \in 1 .. c PROVE EndAt(E, k) \in E /\ Rank(E, EndAt(E, k)) = k
  BY <1>8 DEF EndAt
<1>10. ASSUME NEW p \in E PROVE EndAt(E, Rank(E, p)) = p
  <2>1. PICK k \in 1 .. c : k = Rank(E, p)
    BY <1>2, <1>4
  <2>2. EndAt(E, k) \in E /\ Rank(E, EndAt(E, k)) = k
    BY <1>9
  <2> QED BY <1>1, <2>1, <2>2
<1> QED BY <1>2, <1>4, <1>9, <1>10

\* Ranks in a set that agrees up to a position with another.
AgreeUpTo(E, F, m) == \A i \in 1 .. m : i \in E <=> i \in F
SameEnds(E, F, m) ==
    \A k \in 1 .. Rank(F, m) : /\ k \in 1 .. Cardinality(E) /\ k \in 1 .. Cardinality(F)
                               /\ EndAt(E, k) = EndAt(F, k) /\ EndAt(F, k) <= m

LEMMA SameRank ==
    ASSUME NEW n \in Nat, NEW E \in SUBSET (1 .. n), NEW F \in SUBSET (1 .. n), NEW m \in 0 .. n,
           AgreeUpTo(E, F, m)
    PROVE  SameEnds(E, F, m)
<1> SUFFICES ASSUME NEW k \in 1 .. Rank(F, m)
             PROVE  /\ k \in 1 .. Cardinality(E) /\ k \in 1 .. Cardinality(F)
                    /\ EndAt(E, k) = EndAt(F, k) /\ EndAt(F, k) <= m
  BY DEF SameEnds
<1>0. \A i \in 1 .. m : i \in E <=> i \in F
  BY DEF AgreeUpTo
<1>1. \A p \in 0 .. m : Rank(E, p) = Rank(F, p)
  <2>1. ASSUME NEW p \in 0 .. m PROVE {i \in E : i <= p} = {i \in F : i <= p}
    <3>1. \A i \in 1 .. n : i <= p => i \in 1 .. m
      OBVIOUS
    <3> QED BY <1>0, <3>1
  <2> QED BY <2>1 DEF Rank
<1>2. /\ Cardinality(E) \in Nat /\ Cardinality(F) \in Nat
      /\ \A p : Rank(E, p) \in 0 .. Cardinality(E) /\ Rank(F, p) \in 0 .. Cardinality(F)
  BY RankType
<1>3. k \in 1 .. Cardinality(E) /\ k \in 1 .. Cardinality(F)
  <2>1. Rank(E, m) = Rank(F, m)
    BY <1>1
  <2> QED BY <1>2, <2>1
<1>4. PICK p \in F : p = EndAt(F, k) /\ Rank(F, p) = k
  BY <1>3, EndAtRank
<1>5. p <= m
  <2>1. ~(m < p)
    <3>1. ASSUME m < p PROVE FALSE
      <4>1. Rank(F, m) < Rank(F, p)
        BY <3>1, RankGrows
      <4> QED BY <1>2, <1>4, <4>1
    <3> QED BY <3>1
  <2> QED BY <2>1
<1>6. p \in 1 .. m /\ p \in E /\ Rank(E, p) = k
  BY <1>0, <1>1, <1>4, <1>5
<1>7. EndAt(E, k) = p
  BY <1>6, EndAtRank
<1> QED BY <1>3, <1>4, <1>5, <1>7

\* The sequence of whole entries of a file.
PlainType == [trx : Trxs, type : Types]
IsEnd(w) == ~w.torn /\ w.part = Parts(w.type)

LEMMA PlainFacts == \A w \in Pieces \cup Entries : Plain(w) \in PlainType /\ Plain(w).trx = w.trx /\ Plain(w).type = w.type
<1>1. ASSUME NEW w \in Pieces PROVE w.trx \in Trxs /\ w.type \in Types
  BY DEF Pieces
<1>2. ASSUME NEW w \in Entries PROVE w.trx \in Trxs /\ w.type \in Types
  BY EntryFields
<1> QED BY <1>1, <1>2 DEF Plain, PlainType

LEMMA EndsType ==
    ASSUME NEW s \in Seq(Pieces)
    PROVE  /\ Len(s) \in Nat /\ Ends(s) \in SUBSET (1 .. Len(s))
           /\ \A i : i \in Ends(s) <=> i \in 1 .. Len(s) /\ IsEnd(s[i])
<1>1. Len(s) \in Nat /\ DOMAIN s = 1 .. Len(s)
  OBVIOUS
<1> QED BY <1>1 DEF Ends, IsEnd

LEMMA WholeType ==
    ASSUME NEW s \in Seq(Pieces)
    PROVE  /\ WholeEntries(s) \in Seq(PlainType) /\ Len(WholeEntries(s)) = Cardinality(Ends(s))
           /\ Cardinality(Ends(s)) \in Nat
           /\ \A k \in 1 .. Cardinality(Ends(s)) : WholeEntries(s)[k] = Plain(s[EndAt(Ends(s), k)])
<1>0. PICK n \in Nat : n = Len(s)
  BY EndsType
<1>1. PICK E \in SUBSET (1 .. n) : n = Len(s) /\ E = Ends(s)
  BY <1>0, EndsType
<1>2. PICK c \in Nat : c = Cardinality(E)
  BY RankType
<1>3. ASSUME NEW k \in 1 .. c PROVE Plain(s[EndAt(E, k)]) \in PlainType
  <2>1. EndAt(E, k) \in 1 .. n
    BY <1>2, EndAtRank
  <2>2. s[EndAt(E, k)] \in Pieces
    BY <1>1, <2>1
  <2> QED BY <2>2, PlainFacts
<1>4. WholeEntries(s) = [k \in 1 .. c |-> Plain(s[EndAt(E, k)])]
  BY <1>1, <1>2 DEF WholeEntries
<1>5. WholeEntries(s) \in [1 .. c -> PlainType]
  BY <1>3, <1>4
<1>6. WholeEntries(s) \in Seq(PlainType) /\ Len(WholeEntries(s)) = c
  BY <1>5
<1> QED BY <1>1, <1>2, <1>4, <1>6

\* Two files that agree up to a position have the same whole entries there.
LEMMA WholeAgree ==
    ASSUME NEW s \in Seq(Pieces), NEW z \in Seq(Pieces), NEW m \in Nat, m <= Len(s), m <= Len(z),
           \A i \in 1 .. m : s[i] = z[i]
    PROVE  /\ Rank(Ends(s), m) = Rank(Ends(z), m)
           /\ \A k \in 1 .. Rank(Ends(z), m) : WholeEntries(s)[k] = WholeEntries(z)[k]
<1>1. /\ Len(s) \in Nat /\ Len(z) \in Nat
      /\ Ends(s) \in SUBSET (1 .. Len(s)) /\ Ends(z) \in SUBSET (1 .. Len(z))
  BY EndsType
<1>2. PICK n \in Nat : Len(s) <= n /\ Len(z) <= n
  <2>1. CASE Len(s) <= Len(z)
    BY <1>1, <2>1
  <2>2. CASE Len(z) <= Len(s)
    BY <1>1, <2>2
  <2> QED BY <1>1, <2>1, <2>2
<1>3. PICK E \in SUBSET (1 .. n), F \in SUBSET (1 .. n) : E = Ends(s) /\ F = Ends(z)
  <2>1. 1 .. Len(s) \subseteq 1 .. n /\ 1 .. Len(z) \subseteq 1 .. n
    BY <1>1, <1>2
  <2> QED BY <1>1, <2>1
<1>4. \A i \in 1 .. m : i \in E <=> i \in F
  <2>1. \A i \in 1 .. m : i \in 1 .. Len(s) /\ i \in 1 .. Len(z)
    BY <1>1
  <2> QED BY <1>3, <2>1, EndsType
<1>5. Rank(E, m) = Rank(F, m)
  <2>1. \A i \in 1 .. n : i <= m => i \in 1 .. m
    OBVIOUS
  <2>2. {i \in E : i <= m} = {i \in F : i <= m}
    BY <1>4, <2>1
  <2> QED BY <2>2 DEF Rank
<1>6. m \in 0 .. n
  BY <1>1, <1>2
<1>a. \A k \in 1 .. Rank(F, m) : /\ k \in 1 .. Cardinality(E) /\ k \in 1 .. Cardinality(F)
                                 /\ EndAt(E, k) = EndAt(F, k) /\ EndAt(F, k) <= m
  <2>1. AgreeUpTo(E, F, m)
    BY <1>4 DEF AgreeUpTo
  <2>2. SameEnds(E, F, m)
    BY <1>6, <2>1, SameRank
  <2> QED BY <2>2 DEF SameEnds
<1>7. ASSUME NEW k \in 1 .. Rank(F, m) PROVE WholeEntries(s)[k] = WholeEntries(z)[k]
  <2>1. /\ k \in 1 .. Cardinality(E) /\ k \in 1 .. Cardinality(F) /\ EndAt(E, k) = EndAt(F, k)
        /\ EndAt(F, k) <= m
    BY <1>a
  <2>2. PICK p \in F : p = EndAt(F, k) /\ p <= m
    BY <2>1, EndAtRank
  <2>3. s[p] = z[p]
    BY <2>2
  <2>4. WholeEntries(s)[k] = Plain(s[p]) /\ WholeEntries(z)[k] = Plain(z[p])
    BY <1>3, <2>1, <2>2, WholeType
  <2> QED BY <2>3, <2>4
<1> QED BY <1>3, <1>5, <1>7

LEMMA AllEnds ==
    ASSUME NEW n \in Nat, NEW E \in SUBSET (1 .. n), NEW m \in Nat, \A i \in E : i <= m
    PROVE  Rank(E, m) = Cardinality(E)
<1>1. {i \in E : i <= m} = E
  OBVIOUS
<1> QED BY <1>1 DEF Rank

LEMMA SameSeq ==
    ASSUME NEW X, NEW s \in Seq(X), NEW z \in Seq(X), Len(s) = Len(z), \A k \in 1 .. Len(z) : s[k] = z[k]
    PROVE  s = z
<1>1. PICK n : n = Len(s) /\ n = Len(z)
  OBVIOUS
<1>2. \A q \in Seq(X) : q \in [1 .. Len(q) -> X]
  OBVIOUS
<1>3. s \in [1 .. n -> X] /\ z \in [1 .. n -> X]
  BY <1>1, <1>2
<1> QED BY <1>1, <1>3

\* A piece that ends no entry adds none.
LEMMA WholeSame ==
    ASSUME NEW s \in Seq(Pieces), NEW w \in Pieces, ~IsEnd(w)
    PROVE  Ends(Append(s, w)) = Ends(s) /\ WholeEntries(Append(s, w)) = WholeEntries(s)
<1>0. Append(s, w) \in Seq(Pieces) /\ Len(s) \in Nat
  OBVIOUS
<1>1. PICK z \in Seq(Pieces), n \in Nat : z = Append(s, w) /\ n = Len(s)
  BY <1>0
<1>2. /\ Len(z) = n + 1 /\ z[n + 1] = w /\ \A i \in 1 .. n : s[i] = z[i]
      /\ n <= Len(s) /\ n <= Len(z)
  BY <1>1
<1>3. Ends(z) = Ends(s)
  <2>1. \A i : i \in 1 .. n + 1 <=> i \in 1 .. n \/ i = n + 1
    OBVIOUS
  <2>2. n + 1 \notin 1 .. n
    OBVIOUS
  <2>3. \A i : i \in Ends(z) <=> i \in 1 .. n + 1 /\ IsEnd(z[i])
    BY <1>2, EndsType
  <2>4. \A i : i \in Ends(s) <=> i \in 1 .. n /\ IsEnd(s[i])
    BY <1>1, EndsType
  <2>5. \A i : i \in Ends(z) <=> i \in Ends(s)
    BY <1>2, <2>1, <2>2, <2>3, <2>4
  <2> QED BY <2>5
<1>4. Rank(Ends(z), n) = Cardinality(Ends(z))
  <2>1. PICK E \in SUBSET (1 .. n) : E = Ends(s)
    BY <1>1, EndsType
  <2>2. \A i \in E : i <= n
    OBVIOUS
  <2>3. Rank(E, n) = Cardinality(E)
    BY <2>2, AllEnds
  <2> QED BY <1>3, <2>1, <2>3
<1>5. \A k \in 1 .. Rank(Ends(z), n) : WholeEntries(s)[k] = WholeEntries(z)[k]
  BY <1>1, <1>2, WholeAgree
<1>6. WholeEntries(z) = WholeEntries(s)
  <2>1. PICK a \in Seq(PlainType), b \in Seq(PlainType) : a = WholeEntries(s) /\ b = WholeEntries(z)
    BY WholeType
  <2>2. Len(a) = Cardinality(Ends(z)) /\ Len(b) = Cardinality(Ends(z))
    BY <1>3, <2>1, WholeType
  <2>3. \A k \in 1 .. Len(b) : a[k] = b[k]
    BY <1>4, <1>5, <2>1, <2>2
  <2>4. a = b
    BY <2>2, <2>3, SameSeq
  <2> QED BY <2>1, <2>4
<1> QED BY <1>1, <1>3, <1>6

\* The last piece of an entry adds it.
LEMMA WholeAppend ==
    ASSUME NEW s \in Seq(Pieces), NEW w \in Pieces, IsEnd(w)
    PROVE  /\ Ends(Append(s, w)) = Ends(s) \cup {Len(s) + 1}
           /\ WholeEntries(Append(s, w)) = Append(WholeEntries(s), Plain(w))
<1>0. Append(s, w) \in Seq(Pieces) /\ Len(s) \in Nat
  OBVIOUS
<1>1. PICK z \in Seq(Pieces), n \in Nat : z = Append(s, w) /\ n = Len(s)
  BY <1>0
<1>2. /\ Len(z) = n + 1 /\ z[n + 1] = w /\ \A i \in 1 .. n : s[i] = z[i]
      /\ n <= Len(s) /\ n <= Len(z)
  BY <1>1
<1>3. Ends(z) = Ends(s) \cup {n + 1}
  <2>1. \A i : i \in 1 .. n + 1 <=> i \in 1 .. n \/ i = n + 1
    OBVIOUS
  <2>3. \A i : i \in Ends(z) <=> i \in 1 .. n + 1 /\ IsEnd(z[i])
    BY <1>2, EndsType
  <2>4. \A i : i \in Ends(s) <=> i \in 1 .. n /\ IsEnd(s[i])
    BY <1>1, EndsType
  <2>5. \A i : i \in Ends(z) <=> i \in Ends(s) \/ i = n + 1
    BY <1>2, <2>1, <2>3, <2>4
  <2> QED BY <2>5
<1>N. PICK N \in Nat : N = n + 1
  OBVIOUS
<1>4. PICK E \in SUBSET (1 .. n), F \in SUBSET (1 .. N) : E = Ends(s) /\ F = Ends(z) /\ F = E \cup {N}
  <2>1. Ends(z) \in SUBSET (1 .. N)
    BY <1>2, <1>N, EndsType
  <2> QED BY <1>1, <1>3, <1>N, <2>1, EndsType
<1>5. PICK c \in Nat : c = Cardinality(E) /\ c + 1 = Cardinality(F)
  <2>1. IsFiniteSet(E) /\ Cardinality(E) \in Nat
    BY RankType
  <2>a. N \notin E
    BY <1>N
  <2>2. Cardinality(E \cup {N}) = Cardinality(E) + 1
    BY <2>1, <2>a, FS_AddElement
  <2> QED BY <1>4, <2>1, <2>2
<1>6. Rank(F, N) = c + 1
  <2>1. \A i \in F : i <= N
    OBVIOUS
  <2> QED BY <1>5, <2>1, AllEnds
<1>7. EndAt(F, c + 1) = N
  <2>1. N \in F
    BY <1>4
  <2>2. \A p \in F : EndAt(F, Rank(F, p)) = p
    BY EndAtRank
  <2> QED BY <1>6, <2>1, <2>2
<1>8. Rank(F, n) = c /\ Rank(E, n) = c
  <2>1. \A i \in E : i <= n
    OBVIOUS
  <2>2. Rank(E, n) = c
    BY <1>5, <2>1, AllEnds
  <2>3. Rank(Ends(s), n) = Rank(Ends(z), n)
    BY <1>1, <1>2, WholeAgree
  <2> QED BY <1>4, <2>2, <2>3
<1>9. \A k \in 1 .. c : WholeEntries(s)[k] = WholeEntries(z)[k]
  <2>1. \A k \in 1 .. Rank(Ends(z), n) : WholeEntries(s)[k] = WholeEntries(z)[k]
    BY <1>1, <1>2, WholeAgree
  <2> QED BY <1>4, <1>8, <2>1
<1>10. PICK a \in Seq(PlainType), b \in Seq(PlainType) : a = WholeEntries(s) /\ b = WholeEntries(z)
  BY WholeType
<1>11. Len(a) = c /\ Len(b) = c + 1 /\ b[c + 1] = Plain(w)
  <2>1. c + 1 \in 1 .. Cardinality(F)
    BY <1>5
  <2>2. b[c + 1] = Plain(z[N])
    BY <1>4, <1>7, <1>10, <2>1, WholeType
  <2> QED BY <1>2, <1>4, <1>5, <1>N, <1>10, <2>2, WholeType
<1>12. PICK v \in PlainType : v = Plain(w)
  BY PlainFacts
<1>13. b = Append(a, v)
  <2>1. Append(a, v) \in Seq(PlainType) /\ Len(Append(a, v)) = c + 1
    BY <1>11
  <2>2. \A k \in 1 .. c + 1 : Append(a, v)[k] = b[k]
    BY <1>9, <1>10, <1>11, <1>12
  <2>3. PICK d \in Seq(PlainType) : d = Append(a, v)
    BY <2>1
  <2>4. d = b
    BY <1>11, <2>1, <2>2, <2>3, SameSeq
  <2> QED BY <2>3, <2>4
<1> QED BY <1>1, <1>3, <1>10, <1>12, <1>13

\* What a crash leaves of the file has the first of its whole entries.
LEMMA WholePrefix ==
    ASSUME NEW s \in Seq(Pieces), NEW m \in 0 .. Len(s)
    PROVE  /\ Rank(Ends(s), m) \in 0 .. Len(WholeEntries(s))
           /\ WholeEntries(SubSeq(s, 1, m)) = SubSeq(WholeEntries(s), 1, Rank(Ends(s), m))
           /\ \A j \in 0 .. m : Rank(Ends(SubSeq(s, 1, m)), j) = Rank(Ends(s), j)
<1>0. SubSeq(s, 1, m) \in Seq(Pieces) /\ Len(s) \in Nat
  OBVIOUS
<1>1. PICK z \in Seq(Pieces) : z = SubSeq(s, 1, m)
  BY <1>0
<1>2. m \in Nat /\ Len(z) = m /\ \A i \in 1 .. m : s[i] = z[i]
  BY <1>1
<1>3. PICK r \in Nat : r = Rank(Ends(s), m) /\ r = Rank(Ends(z), m) /\ r = Cardinality(Ends(z))
  <2>1. Rank(Ends(s), m) = Rank(Ends(z), m)
    BY <1>0, <1>2, WholeAgree
  <2>2. PICK E \in SUBSET (1 .. m) : E = Ends(z)
    BY <1>2, EndsType
  <2>3. \A i \in E : i <= m
    BY <1>2
  <2>4. Rank(E, m) = Cardinality(E) /\ Cardinality(E) \in Nat
    BY <1>2, <2>3, AllEnds, RankType
  <2> QED BY <2>1, <2>2, <2>4
<1>4. r \in 0 .. Cardinality(Ends(s))
  <2>0. PICK n \in Nat : n = Len(s)
    BY <1>0
  <2>1. PICK E \in SUBSET (1 .. n) : E = Ends(s)
    BY <2>0, EndsType
  <2>2. Rank(E, m) \in 0 .. Cardinality(E)
    BY RankType
  <2> QED BY <1>3, <2>1, <2>2
<1>5. PICK a \in Seq(PlainType), b \in Seq(PlainType) : a = WholeEntries(s) /\ b = WholeEntries(z)
  BY WholeType
<1>6. Len(a) = Cardinality(Ends(s)) /\ Len(b) = r /\ Len(a) \in Nat
  BY <1>3, <1>5, WholeType
<1>7. \A k \in 1 .. r : a[k] = b[k]
  <2>1. m <= Len(s) /\ m <= Len(z)
    BY <1>0, <1>2
  <2>2. \A k \in 1 .. Rank(Ends(z), m) : WholeEntries(s)[k] = WholeEntries(z)[k]
    BY <1>2, <2>1, WholeAgree
  <2> QED BY <1>3, <1>5, <2>2
<1>8. b = SubSeq(a, 1, r)
  <2>1. SubSeq(a, 1, r) \in Seq(PlainType) /\ Len(SubSeq(a, 1, r)) = r /\ \A k \in 1 .. r : SubSeq(a, 1, r)[k] = a[k]
    BY <1>4, <1>6
  <2>2. PICK d \in Seq(PlainType) : d = SubSeq(a, 1, r)
    BY <2>1
  <2>3. d = b
    BY <1>6, <1>7, <2>1, <2>2, SameSeq
  <2> QED BY <2>2, <2>3
<1>9. ASSUME NEW j \in 0 .. m PROVE Rank(Ends(z), j) = Rank(Ends(s), j)
  <2>1. j \in Nat /\ j <= Len(s) /\ j <= Len(z) /\ \A i \in 1 .. j : s[i] = z[i]
    BY <1>0, <1>2
  <2> QED BY <2>1, WholeAgree
<1> QED BY <1>1, <1>3, <1>4, <1>5, <1>6, <1>8, <1>9

-----------------------------------------------------------------------------
(* The abstract log: its three parts and how a step moves entries along.   *)

LEMMA SeqPlain ==
    ASSUME NEW s \in Seq(Entries)
    PROVE  /\ PlainEntries(s) \in Seq(PlainType) /\ Len(PlainEntries(s)) = Len(s)
           /\ \A i \in 1 .. Len(s) : PlainEntries(s)[i] = Plain(s[i])
<1>1. PICK n \in Nat : n = Len(s) /\ DOMAIN s = 1 .. n
  OBVIOUS
<1>2. \A i \in 1 .. n : Plain(s[i]) \in PlainType
  <2>1. \A i \in 1 .. n : s[i] \in Entries
    BY <1>1
  <2> QED BY <2>1, PlainFacts
<1>3. PlainEntries(s) = [i \in 1 .. n |-> Plain(s[i])]
  BY <1>1 DEF PlainEntries
<1>4. PlainEntries(s) \in [1 .. n -> PlainType]
  BY <1>2, <1>3
<1>5. PlainEntries(s) \in Seq(PlainType) /\ Len(PlainEntries(s)) = n
  BY <1>4
<1> QED BY <1>1, <1>3, <1>5

LEMMA PlainAppend ==
    ASSUME NEW s \in Seq(Entries), NEW e \in Entries
    PROVE  PlainEntries(Append(s, e)) = Append(PlainEntries(s), Plain(e))
<1>0. Append(s, e) \in Seq(Entries) /\ Len(s) \in Nat /\ Plain(e) \in PlainType
  BY PlainFacts
<1>1. PICK z \in Seq(Entries), n \in Nat : z = Append(s, e) /\ n = Len(s)
  BY <1>0
<1>2. Len(z) = n + 1 /\ z[n + 1] = e /\ \A i \in 1 .. n : z[i] = s[i]
  BY <1>1
<1>3. PICK a \in Seq(PlainType), b \in Seq(PlainType) : a = PlainEntries(s) /\ b = PlainEntries(z)
  BY SeqPlain
<1>4. Len(a) = n /\ Len(b) = n + 1 /\ \A i \in 1 .. n : a[i] = Plain(s[i])
  BY <1>1, <1>2, <1>3, SeqPlain
<1>5. \A i \in 1 .. n + 1 : b[i] = Plain(z[i])
  BY <1>2, <1>3, SeqPlain
<1>6. PICK v \in PlainType : v = Plain(e)
  BY <1>0
<1>7. PICK d \in Seq(PlainType) : d = Append(a, v)
  <2>1. Append(a, v) \in Seq(PlainType)
    OBVIOUS
  <2> QED BY <2>1
<1>8. Len(d) = n + 1 /\ d[n + 1] = v /\ \A i \in 1 .. n : d[i] = a[i]
  BY <1>4, <1>7
<1>9. \A i \in 1 .. n + 1 : i \in 1 .. n \/ i = n + 1
  OBVIOUS
<1>10. \A i \in 1 .. n + 1 : d[i] = b[i]
  BY <1>2, <1>4, <1>5, <1>6, <1>8, <1>9
<1>11. d = b
  BY <1>4, <1>8, <1>10, SameSeq
<1> QED BY <1>1, <1>3, <1>6, <1>7, <1>11

LEMMA PlainTail ==
    ASSUME NEW s \in Seq(Entries), s # <<>>
    PROVE  Head(s) \in Entries /\ PlainEntries(s) = <<Plain(Head(s))>> \o PlainEntries(Tail(s))
<1>0. Tail(s) \in Seq(Entries) /\ Head(s) \in Entries /\ Len(s) \in Nat /\ Len(s) > 0 /\ Head(s) = s[1]
  OBVIOUS
<1>a. Len(Tail(s)) \in Nat /\ Len(s) = Len(Tail(s)) + 1
  BY <1>0
<1>1. PICK z \in Seq(Entries), n \in Nat : z = Tail(s) /\ n = Len(z) /\ Len(s) = n + 1
  BY <1>0, <1>a
<1>2. \A i \in 1 .. n : z[i] = s[i + 1]
  BY <1>0, <1>1
<1>3. PICK a \in Seq(PlainType), b \in Seq(PlainType) : a = PlainEntries(s) /\ b = PlainEntries(z)
  BY SeqPlain
<1>4. Len(a) = n + 1 /\ Len(b) = n /\ \A i \in 1 .. n + 1 : a[i] = Plain(s[i])
  BY <1>1, <1>3, SeqPlain
<1>5. \A i \in 1 .. n : b[i] = Plain(z[i])
  BY <1>1, <1>3, SeqPlain
<1>6. PICK v \in PlainType : v = Plain(Head(s)) /\ v = Plain(s[1])
  BY <1>0, PlainFacts
<1>7. PICK d \in Seq(PlainType) : d = <<v>> \o b
  <2>1. <<v>> \in Seq(PlainType)
    OBVIOUS
  <2>2. <<v>> \o b \in Seq(PlainType)
    BY <2>1
  <2> QED BY <2>2
<1>8. Len(d) = n + 1 /\ d[1] = v /\ \A i \in 1 .. n : d[i + 1] = b[i]
  BY <1>4, <1>7
<1>9. ASSUME NEW i \in 1 .. n + 1 PROVE d[i] = a[i]
  <2>1. CASE i = 1
    BY <1>4, <1>6, <1>8, <2>1
  <2>2. CASE i # 1
    <3>1. PICK j \in 1 .. n : i = j + 1
      BY <2>2
    <3> QED BY <1>2, <1>4, <1>5, <1>8, <3>1
  <2> QED BY <2>1, <2>2
<1>10. d = a
  BY <1>4, <1>8, <1>9, SameSeq
<1> QED BY <1>0, <1>1, <1>3, <1>6, <1>7, <1>10

LEMMA Concats ==
    ASSUME NEW X, NEW a \in Seq(X), NEW b \in Seq(X), NEW v \in X
    PROVE  /\ a \o <<>> = a
           /\ (a \o <<v>>) \o b \in Seq(X)
           /\ (a \o <<v>>) \o b = a \o (<<v>> \o b)
           /\ Append(a, v) = a \o <<v>>
           /\ a \o Append(b, v) = Append(a \o b, v)
<1>1. a \o <<>> = a /\ Append(a, v) = a \o <<v>>
  OBVIOUS
<1>2. (a \o <<v>>) \o b = a \o (<<v>> \o b)
  OBVIOUS
<1>3. a \o Append(b, v) = Append(a \o b, v)
  OBVIOUS
<1> QED BY <1>1, <1>2, <1>3

-----------------------------------------------------------------------------
(* LogManager implements WriteAheadLog.                                    *)

\* A transaction a thread runs has not been told anything.
ActiveInv == \A t \in Threads : trx[t] # NoTrx => trx[t] \in Trxs /\ status[trx[t]] = "active"
MapInv == LockInv /\ DurableInv /\ ActiveInv

Walk == <<WalLog, WalDurable, WalTold>>

LEMMA Unlocked ==
    ASSUME OneThread, LockInv, NEW t \in Threads, pc[t] # "write"
    PROVE  lock_ = NoThread
<1>1. lock_ \in Threads \cup {NoThread}
  BY DEF LockInv, TypeInv, TypeOK
<1>2. lock_ # t
  BY DEF LockInv
<1> QED BY <1>1, <1>2 DEF OneThread

\* The parts of the abstract state have their types.
LEMMA MapTypes ==
    ASSUME TypeInv
    PROVE  /\ file \in Seq(Pieces) /\ log_entrys_ \in Seq(Entries) /\ Len(file) \in Nat
           /\ synced \in 0 .. Len(file) /\ synced \in Nat
           /\ WholeEntries(file) \in Seq(PlainType) /\ PlainEntries(log_entrys_) \in Seq(PlainType)
           /\ Len(WholeEntries(file)) \in Nat
           /\ WalDurable \in 0 .. Len(WholeEntries(file))
<1>1. /\ file \in Seq(Pieces) /\ log_entrys_ \in Seq(Entries) /\ synced \in 0 .. Len(file)
  BY DEF TypeInv, TypeOK
<1>2. Len(file) \in Nat /\ synced \in Nat
  BY <1>1
<1>3. PICK s \in Seq(Pieces), m \in Nat : s = file /\ m = synced /\ m \in 0 .. Len(s)
  BY <1>1, <1>2
<1>4. /\ WholeEntries(s) \in Seq(PlainType) /\ Len(WholeEntries(s)) \in Nat
      /\ Rank(Ends(s), m) \in 0 .. Len(WholeEntries(s))
  BY <1>3, WholeType, WholePrefix
<1>5. PlainEntries(log_entrys_) \in Seq(PlainType)
  BY <1>1, SeqPlain
<1> QED BY <1>1, <1>2, <1>3, <1>4, <1>5 DEF WalDurable

\* Nothing moves and nothing is acknowledged.
LEMMA QuietStep ==
    ASSUME UNCHANGED <<log_entrys_, lock_, file, synced>>, lock_ = NoThread,
           \A x \in Trxs : status'[x] = "committed" <=> status[x] = "committed"
    PROVE  UNCHANGED Walk
<1>1. WalLog' = WalLog
  BY DEF WalLog, BeingWritten
<1>2. WalDurable' = WalDurable
  BY DEF WalDurable
<1>3. WalTold' = WalTold
  BY DEF WalTold
<1> QED BY <1>1, <1>2, <1>3 DEF Walk

\* The end of a call that acknowledges nothing.
LEMMA QuietFinish ==
    ASSUME TypeInv, ActiveInv, NEW t \in Threads, trx[t] \in Trxs, NEW s, s # "committed", Finish(t, s)
    PROVE  \A x \in Trxs : status'[x] = "committed" <=> status[x] = "committed"
<1>1. status[trx[t]] = "active"
  BY LogAssumption DEF ActiveInv
<1>2. status' = [status EXCEPT ![trx[t]] = s] /\ DOMAIN status = Trxs
  BY DEF Finish, TypeInv, TypeOK
<1> QED BY <1>1, <1>2

LEMMA HandType ==
    ASSUME LockInv
    PROVE  BeingWritten \in Seq(PlainType)
<1>1. CASE lock_ = NoThread
  BY <1>1 DEF BeingWritten
<1>2. CASE lock_ # NoThread
  <2>1. PICK t \in Threads : t = lock_ /\ pc[t] = "write"
    BY <1>2 DEF LockInv, TypeInv, TypeOK
  <2>2. cur[t] \in Entries
    BY <2>1 DEF LockInv, TypeInv, ThreadOK
  <2>3. PICK v \in PlainType : v = Plain(cur[t])
    BY <2>2, PlainFacts
  <2>4. BeingWritten = <<v>>
    BY <1>2, <2>1, <2>3 DEF BeingWritten
  <2> QED BY <2>4
<1> QED BY <1>1, <1>2

LEMMA NoEntries == PlainEntries(<<>>) = <<>>
<1>1. PICK s \in Seq(Entries) : s = <<>>
  <2>1. <<>> \in Seq(Entries)
    OBVIOUS
  <2> QED BY <2>1
<1>2. PlainEntries(s) \in Seq(PlainType) /\ Len(PlainEntries(s)) = 0
  BY <1>1, SeqPlain
<1> QED BY <1>1, <1>2

\* The process dies: what is left is a prefix with every hardened entry.
LEMMA DieLoses ==
    ASSUME LockInv, TypeInv', Die, NEW r \in WalDurable .. Len(WholeEntries(file)),
           WholeEntries(file)' = SubSeq(WholeEntries(file), 1, r), WalDurable' = WalDurable
    PROVE  Wal!Lose
<1>1. PICK w \in Seq(PlainType), q \in Seq(PlainType), d \in Nat :
          /\ w = WholeEntries(file) /\ q = PlainEntries(log_entrys_) /\ d = WalDurable
          /\ r \in d .. Len(w)
  BY MapTypes DEF LockInv
<1>2. PICK b \in Seq(PlainType) : b = BeingWritten
  BY HandType
<1>3. PICK g \in Seq(PlainType) : g = (w \o b) \o q
  <2>1. (w \o b) \o q \in Seq(PlainType)
    OBVIOUS
  <2> QED BY <2>1
<1>4. WalLog = g
  BY <1>1, <1>2, <1>3 DEF WalLog
<1>5. WalLog' = SubSeq(w, 1, r)
  <2>1. log_entrys_' = <<>> /\ lock_' = NoThread
    BY DEF Die
  <2>2. BeingWritten' = <<>> /\ PlainEntries(log_entrys_)' = <<>>
    BY <2>1, NoEntries DEF BeingWritten
  <2>3. WalLog' = (SubSeq(w, 1, r) \o <<>>) \o <<>>
    BY <1>1, <2>2 DEF WalLog
  <2>a. SubSeq(w, 1, r) \in Seq(PlainType)
    BY <1>1
  <2>4. PICK c \in Seq(PlainType) : c = SubSeq(w, 1, r)
    BY <2>a
  <2>5. (c \o <<>>) \o <<>> = c
    OBVIOUS
  <2> QED BY <2>3, <2>4, <2>5
<1>6. SubSeq(w, 1, r) = SubSeq(g, 1, r) /\ r \in d .. Len(g)
  <2>1. Len(w) \in Nat /\ Len(g) \in Nat /\ Len(w) <= Len(g) /\ r \in Nat /\ r <= Len(w)
    BY <1>1, <1>3
  <2>2. \A k \in 1 .. r : w[k] = g[k]
    BY <1>3, <2>1
  <2>a. SubSeq(w, 1, r) \in Seq(PlainType) /\ SubSeq(g, 1, r) \in Seq(PlainType)
    BY <2>1
  <2>3. PICK c \in Seq(PlainType), e \in Seq(PlainType) : c = SubSeq(w, 1, r) /\ e = SubSeq(g, 1, r)
    BY <2>a
  <2>4. /\ Len(c) = r /\ Len(e) = r
        /\ \A k \in 1 .. r : c[k] = w[k] /\ e[k] = g[k]
    BY <2>1, <2>3
  <2>5. c = e
    BY <2>2, <2>4, SameSeq
  <2> QED BY <1>1, <2>1, <2>3, <2>5
<1>7. WalTold' = WalTold
  BY DEF Die, WalTold
<1>8. \E n \in WalDurable .. Len(WalLog) : WalLog' = SubSeq(WalLog, 1, n)
  BY <1>1, <1>4, <1>5, <1>6
<1> QED BY <1>7, <1>8 DEF Wal!Lose

\* A crash that leaves the first m pieces of the file.
LEMMA CrashLoses ==
    ASSUME LockInv, TypeInv', Die, synced' = synced,
           NEW m \in synced .. Len(file), file' = SubSeq(file, 1, m)
    PROVE  Wal!Lose
<1>1. PICK s \in Seq(Pieces), k \in Nat : s = file /\ k = synced /\ k <= m /\ m \in 0 .. Len(s)
  BY MapTypes DEF LockInv
<1>2. /\ Rank(Ends(s), m) \in 0 .. Len(WholeEntries(s)) /\ Rank(Ends(s), k) \in Nat
      /\ WholeEntries(SubSeq(s, 1, m)) = SubSeq(WholeEntries(s), 1, Rank(Ends(s), m))
      /\ Rank(Ends(SubSeq(s, 1, m)), k) = Rank(Ends(s), k)
  <2>1. k \in 0 .. m /\ k \in 0 .. Len(s)
    BY <1>1
  <2> QED BY <1>1, <2>1, WholePrefix
<1>3. Rank(Ends(s), k) <= Rank(Ends(s), m)
  <2>1. PICK n \in Nat : n = Len(s)
    BY <1>1
  <2>2. PICK E \in SUBSET (1 .. n) : E = Ends(s)
    BY <2>1, EndsType
  <2>3. k <= m /\ k \in Int /\ m \in Int
    BY <1>1
  <2> QED BY <2>2, <2>3, RankMonotone
<1>4. PICK r \in Nat : r = Rank(Ends(s), m) /\ r \in WalDurable .. Len(WholeEntries(file))
  <2>1. Len(WholeEntries(s)) \in Nat
    BY WholeType
  <2> QED BY <1>1, <1>2, <1>3, <2>1 DEF WalDurable
<1>5. WholeEntries(file)' = SubSeq(WholeEntries(file), 1, r) /\ WalDurable' = WalDurable
  BY <1>1, <1>2, <1>4 DEF WalDurable
<1> QED BY <1>4, <1>5, DieLoses

\* append_log_entry: the entry is at the end of the log once it is queued.
LEMMA PushAppends ==
    ASSUME OneThread, LockInv, ActiveInv, NEW t \in Threads, Push(t)
    PROVE  Wal!AppendEntry
<1>1. lock_ = NoThread /\ lock_' = NoThread /\ UNCHANGED <<file, synced>>
  BY DEF Push
<1>2. cur[t] \in Entries /\ trx[t] \in Trxs
  BY DEF Push, LockInv, TypeInv, ThreadOK
<1>3. PICK e \in Entries, v \in PlainType : e = cur[t] /\ v = Plain(e)
  BY <1>2, PlainFacts
<1>4. PICK s \in Seq(Entries) : s = log_entrys_
  BY MapTypes DEF LockInv
<1>5. PICK w \in Seq(PlainType), q \in Seq(PlainType) : w = WholeEntries(file) /\ q = PlainEntries(s)
  BY <1>4, MapTypes, SeqPlain DEF LockInv
<1>6. WalLog = (w \o <<>>) \o q
  BY <1>1, <1>4, <1>5 DEF WalLog, BeingWritten
<1>7. PlainEntries(log_entrys_)' = Append(q, v)
  <2>1. log_entrys_' = Append(s, e)
    BY <1>3, <1>4 DEF Push
  <2>2. PlainEntries(Append(s, e)) = Append(PlainEntries(s), Plain(e))
    BY PlainAppend
  <2> QED BY <1>3, <1>5, <2>1, <2>2
<1>8. WalLog' = (w \o <<>>) \o Append(q, v)
  BY <1>1, <1>5, <1>7 DEF WalLog, BeingWritten
<1>9. WalLog' = Append(WalLog, v)
  <2>1. w \o <<>> = w /\ w \o Append(q, v) = Append(w \o q, v)
    BY Concats
  <2> QED BY <1>6, <1>8, <2>1
<1>10. v = [trx |-> e.trx, type |-> e.type] /\ e.trx \in Trxs /\ e.type \in Types
  BY <1>3, EntryFields DEF Plain
<1>11. WalDurable' = WalDurable
  BY <1>1 DEF WalDurable
<1>12. \A x \in Trxs : status'[x] = "committed" <=> status[x] = "committed"
  <2>1. CASE Finish(t, "rolledback")
    BY <1>2, <2>1, QuietFinish DEF LockInv
  <2>2. CASE UNCHANGED <<trx, status>>
    BY <2>2
  <2> QED BY <2>1, <2>2 DEF Push, Return
<1>13. WalTold' = WalTold
  BY <1>12 DEF WalTold
<1> QED BY <1>9, <1>10, <1>11, <1>13 DEF Wal!AppendEntry

\* flush_buffer takes the oldest entry into its hand.
LEMMA PopKeeps ==
    ASSUME LockInv, NEW t \in Threads, Pop(t)
    PROVE  UNCHANGED Walk
<1>1. /\ lock_ = NoThread /\ lock_' = t /\ log_entrys_ # <<>> /\ log_entrys_' = Tail(log_entrys_)
      /\ UNCHANGED <<file, synced, status>>
  BY DEF Pop
<1>2. PICK s \in Seq(Entries) : s = log_entrys_ /\ s # <<>>
  BY <1>1, MapTypes DEF LockInv
<1>3. PICK e \in Entries : e = Head(s)
  BY <1>2, PlainTail
<1>4. cur'[t] = e
  BY <1>2, <1>3 DEF Pop, LockInv, TypeInv, TypeOK
<1>5. PICK v \in PlainType : v = Plain(e)
  BY PlainFacts
<1>6. Tail(s) \in Seq(Entries)
  BY <1>2
<1>7. PICK w \in Seq(PlainType), q \in Seq(PlainType) : w = WholeEntries(file) /\ q = PlainEntries(Tail(s))
  BY <1>6, MapTypes, SeqPlain DEF LockInv
<1>8. PlainEntries(s) = <<v>> \o q
  BY <1>2, <1>3, <1>5, <1>7, PlainTail
<1>9. WalLog = (w \o <<>>) \o (<<v>> \o q)
  BY <1>1, <1>2, <1>7, <1>8 DEF WalLog, BeingWritten
<1>10. BeingWritten' = <<v>>
  <2>1. t # NoThread
    BY LogAssumption
  <2> QED BY <1>1, <1>4, <1>5, <2>1 DEF BeingWritten
<1>11. WalLog' = (w \o <<v>>) \o q
  BY <1>1, <1>2, <1>7, <1>10 DEF WalLog
<1>12. w \o <<>> = w /\ (w \o <<v>>) \o q = w \o (<<v>> \o q)
  BY Concats
<1>13. WalLog' = WalLog
  BY <1>9, <1>11, <1>12
<1>14. WalDurable' = WalDurable /\ WalTold' = WalTold
  BY <1>1 DEF WalDurable, WalTold
<1> QED BY <1>13, <1>14 DEF Walk

\* A piece appended behind the synced prefix hardens nothing.
LEMMA DurableKept ==
    ASSUME TypeInv, NEW p \in Pieces, file' = Append(file, p), synced' = synced
    PROVE  WalDurable' = WalDurable
<1>1. PICK s \in Seq(Pieces), m \in Nat : s = file /\ m = synced /\ m <= Len(s) /\ Len(s) \in Nat
  BY MapTypes
<1>2. Append(s, p) \in Seq(Pieces)
  OBVIOUS
<1>3. PICK z \in Seq(Pieces) : z = Append(s, p)
  BY <1>2
<1>4. m <= Len(z) /\ \A i \in 1 .. m : z[i] = s[i]
  BY <1>1, <1>3
<1>5. Rank(Ends(z), m) = Rank(Ends(s), m)
  BY <1>1, <1>4, WholeAgree
<1> QED BY <1>1, <1>3, <1>5 DEF WalDurable

\* write_log_entry: the last piece moves the entry from the hand to the file.
LEMMA WriteKeeps ==
    ASSUME LockInv, NEW t \in Threads, WritePiece(t)
    PROVE  UNCHANGED Walk
<1>1. /\ pc[t] = "write" /\ lock_ = t /\ t # NoThread
      /\ UNCHANGED <<log_entrys_, synced, cur, status>>
      /\ file' = Append(file, Piece(cur[t], part[t], FALSE))
  BY LogAssumption DEF WritePiece, LockInv
<1>2. cur[t] \in Entries /\ part[t] \in 1 .. 3
  BY <1>1 DEF LockInv, TypeInv, ThreadOK, TypeOK
<1>3. PICK e \in Entries, v \in PlainType : e = cur[t] /\ v = Plain(e)
  BY <1>2, PlainFacts
<1>a. PICK k \in 1 .. 3 : k = part[t]
  BY <1>2
<1>4. PICK p \in Pieces : p = Piece(e, k, FALSE)
  BY PieceType
<1>5. p.trx = e.trx /\ p.type = e.type /\ p.part = part[t] /\ ~p.torn
  BY <1>4, <1>a DEF Piece
<1>6. Plain(p) = v
  BY <1>3, <1>5 DEF Plain
<1>7. PICK s \in Seq(Pieces) : s = file /\ file' = Append(s, p)
  BY <1>1, <1>3, <1>4, <1>a, MapTypes DEF LockInv
<1>8. PICK w \in Seq(PlainType), q \in Seq(PlainType) : w = WholeEntries(s) /\ q = PlainEntries(log_entrys_)
  BY <1>7, MapTypes, WholeType DEF LockInv
<1>9. WalLog = (w \o <<v>>) \o q
  BY <1>1, <1>3, <1>7, <1>8 DEF WalLog, BeingWritten
<1>10. WalLog' = WalLog
  <2>1. CASE part[t] < Parts(cur[t].type) /\ lock_' = lock_
    <3>1. ~IsEnd(p)
      BY <1>2, <1>3, <1>5, <2>1, PartsType DEF IsEnd
    <3>2. WholeEntries(Append(s, p)) = w
      BY <1>8, <3>1, WholeSame
    <3>3. BeingWritten' = <<v>>
      BY <1>1, <1>3, <2>1 DEF BeingWritten
    <3> QED BY <1>1, <1>7, <1>8, <1>9, <3>2, <3>3 DEF WalLog
  <2>2. CASE part[t] = Parts(cur[t].type) /\ lock_' = NoThread
    <3>1. IsEnd(p)
      BY <1>3, <1>5, <2>2 DEF IsEnd
    <3>2. WholeEntries(Append(s, p)) = Append(w, v)
      BY <1>6, <1>8, <3>1, WholeAppend
    <3>3. BeingWritten' = <<>>
      BY <2>2 DEF BeingWritten
    <3>4. WalLog' = (Append(w, v) \o <<>>) \o q
      BY <1>1, <1>7, <1>8, <3>2, <3>3 DEF WalLog
    <3>5. PICK a \in Seq(PlainType) : a = Append(w, v) /\ a = w \o <<v>>
      <4>1. Append(w, v) \in Seq(PlainType)
        OBVIOUS
      <4>2. Append(w, v) = w \o <<v>>
        OBVIOUS
      <4> QED BY <4>1, <4>2
    <3>6. a \o <<>> = a
      BY Concats
    <3> QED BY <1>9, <3>4, <3>5, <3>6
  <2> QED BY <2>1, <2>2 DEF WritePiece
<1>11. WalDurable' = WalDurable
  BY <1>1, <1>7, DurableKept DEF LockInv
<1>12. WalTold' = WalTold
  BY <1>1 DEF WalTold
<1> QED BY <1>10, <1>11, <1>12 DEF Walk

\* fsync: every entry of the log is hardened, the commit of the caller with them.
LEMMA SyncHardens ==
    ASSUME OneThread, MapInv, NEW t \in Threads, Sync(t)
    PROVE  Wal!Harden
<1>1. /\ pc[t] = "sync" /\ synced' = Len(file) /\ Finish(t, "committed")
      /\ UNCHANGED <<log_entrys_, lock_, file, cur>>
  BY DEF Sync
<1>2. lock_ = NoThread
  BY <1>1, Unlocked DEF MapInv
<1>3. log_entrys_ = <<>> /\ CommitWritten(trx[t])
  <2>1. log_entrys_ = <<>>
    BY <1>1 DEF MapInv, DurableInv, FlushOK
  <2>2. ~CommitQueued(trx[t]) /\ ~CommitInHand(t)
    BY <1>1, <2>1 DEF CommitQueued, CommitInHand
  <2> QED BY <1>1, <2>1, <2>2 DEF MapInv, DurableInv, FlushOK, Flushing
<1>4. PICK x \in Trxs : x = trx[t]
  BY <1>1 DEF MapInv, LockInv, TypeInv, ThreadOK
<1>5. PICK s \in Seq(Pieces), n \in Nat, m \in Nat :
          s = file /\ n = Len(s) /\ m = synced /\ m <= n
  BY MapTypes DEF MapInv, LockInv
<1>6. PICK E \in SUBSET (1 .. n) : E = Ends(s)
  BY <1>5, EndsType
<1>7. PICK w \in Seq(PlainType) : w = WholeEntries(s) /\ Len(w) = Cardinality(E) /\ Len(w) \in Nat
  BY <1>6, WholeType
<1>8. WalLog = w /\ WalLog' = WalLog
  <2>1. WalLog = (w \o <<>>) \o <<>>
    BY <1>2, <1>3, <1>5, <1>7, NoEntries DEF WalLog, BeingWritten
  <2>2. (w \o <<>>) \o <<>> = w
    OBVIOUS
  <2> QED BY <1>1, <2>1, <2>2 DEF WalLog, BeingWritten
<1>9. WalDurable' = Len(w) /\ WalDurable \in 0 .. Len(w)
  <2>1. \A i \in E : i <= n
    OBVIOUS
  <2>2. Rank(E, n) = Cardinality(E)
    BY <2>1, AllEnds
  <2>3. Rank(E, m) \in 0 .. Cardinality(E)
    BY RankType
  <2> QED BY <1>1, <1>5, <1>6, <1>7, <2>2, <2>3 DEF WalDurable
<1>10. PICK k \in 1 .. Len(w) : w[k].trx = x /\ w[k].type = "MTR_COMMIT"
  <2>1. PICK i \in 1 .. n : s[i] = Piece(Entry(x, "MTR_COMMIT"), 2, FALSE)
    BY <1>3, <1>4, <1>5 DEF CommitWritten, CommitAt
  <2>2. "MTR_COMMIT" \in Types
    BY DEF Types
  <2>3. Entry(x, "MTR_COMMIT").trx = x /\ Entry(x, "MTR_COMMIT").type = "MTR_COMMIT"
    BY <2>2, EntryType
  <2>4. s[i].trx = x /\ s[i].type = "MTR_COMMIT" /\ s[i].part = 2 /\ ~s[i].torn
    BY <2>1, <2>3 DEF Piece
  <2>5. IsEnd(s[i])
    BY <2>4 DEF IsEnd, Parts
  <2>6. i \in E
    BY <1>5, <1>6, <2>5, EndsType
  <2>7. PICK k \in 1 .. Cardinality(E) : EndAt(E, k) = i
    BY <2>6, EndAtRank
  <2>8. w[k] = Plain(s[i])
    BY <1>6, <1>7, <2>7, WholeType
  <2> QED BY <1>7, <2>4, <2>7, <2>8 DEF Plain
<1>11. WalTold' = WalTold \cup {x}
  <2>1. status' = [status EXCEPT ![x] = "committed"] /\ DOMAIN status = Trxs
    BY <1>1, <1>4 DEF Finish, MapInv, LockInv, TypeInv, TypeOK
  <2> QED BY <2>1 DEF WalTold
<1>12. {x} \in SUBSET {WalLog[i].trx : i \in {j \in 1 .. WalDurable' : WalLog[j].type = "MTR_COMMIT"}}
  BY <1>8, <1>9, <1>10
<1>13. WalDurable' \in WalDurable .. Len(WalLog)
  BY <1>7, <1>8, <1>9
<1> QED BY <1>8, <1>11, <1>12, <1>13 DEF Wal!Harden

\* A failed write aborts the process; what it left of a piece ends no entry.
LEMMA FailLoses ==
    ASSUME WritesChecked, LockInv, TypeInv', NEW t \in Threads, WriteFail(t)
    PROVE  Wal!Lose
<1>1. fails \in Nat /\ fails < MaxFails
  BY DEF WriteFail, LockInv, TypeInv, TypeOK
<1>2. Debug /\ Die /\ pc[t] = "write" /\ synced' = synced
  BY <1>1 DEF WriteFail, WritesChecked
<1>3. PICK s \in Seq(Pieces), n \in Nat, d \in Nat :
          s = file /\ n = Len(WholeEntries(s)) /\ d = WalDurable /\ d <= n
  BY MapTypes DEF LockInv
<1>4. WholeEntries(file)' = WholeEntries(s) /\ WalDurable' = WalDurable
  <2>1. CASE file' = file
    BY <1>2, <1>3, <2>1 DEF WalDurable
  <2>2. CASE file' = Append(file, Piece(cur[t], part[t], TRUE))
    <3>1. cur[t] \in Entries /\ part[t] \in 1 .. 3
      BY <1>2 DEF LockInv, TypeInv, ThreadOK, TypeOK
    <3>2. PICK p \in Pieces : p = Piece(cur[t], part[t], TRUE)
      BY <3>1, PieceType
    <3>3. ~IsEnd(p)
      BY <3>2 DEF IsEnd, Piece
    <3>4. WholeEntries(Append(s, p)) = WholeEntries(s)
      BY <3>3, WholeSame
    <3>5. WalDurable' = WalDurable
      BY <1>2, <2>2, <3>2, DurableKept DEF LockInv
    <3> QED BY <1>3, <2>2, <3>2, <3>4, <3>5
  <2> QED BY <2>1, <2>2 DEF WriteFail
<1>5. PICK w \in Seq(PlainType) : w = WholeEntries(s) /\ Len(w) = n
  BY <1>3, WholeType
<1>6. w = SubSeq(w, 1, n)
  BY <1>5
<1>7. n \in WalDurable .. Len(WholeEntries(file))
  BY <1>3
<1>8. WholeEntries(file)' = SubSeq(WholeEntries(file), 1, n)
  BY <1>3, <1>4, <1>5, <1>6
<1> QED BY <1>2, <1>4, <1>7, <1>8, DieLoses

\* The size check: an entry that is refused, and a process that aborts over it.
LEMMA CheckMaps ==
    ASSUME OneThread, MapInv, TypeInv', NEW t \in Threads, CheckSizeFull(t)
    PROVE  Wal!Lose \/ UNCHANGED Walk
<1>1. pc[t] = "check" /\ UNCHANGED <<file, synced>>
  BY DEF CheckSizeFull
<1>2. lock_ = NoThread /\ trx[t] \in Trxs
  BY <1>1, Unlocked DEF MapInv, LockInv, TypeInv, ThreadOK
<1>3. CASE Die
  <2>1. Len(file) \in synced .. Len(file) /\ file' = SubSeq(file, 1, Len(file))
    <3>1. file \in Seq(Pieces) /\ synced \in 0 .. Len(file)
      BY DEF MapInv, LockInv, TypeInv, TypeOK
    <3> QED BY <1>1, <3>1
  <2> QED BY <1>1, <1>3, <2>1, CrashLoses DEF MapInv
<1>4. CASE Return(t) /\ UNCHANGED <<log_entrys_, lock_>>
  <2>1. \A x \in Trxs : status'[x] = "committed" <=> status[x] = "committed"
    BY <1>4 DEF Return
  <2> QED BY <1>1, <1>2, <1>4, <2>1, QuietStep
<1>5. ASSUME NEW s \in {"failed", "rolledback"}, Finish(t, s), UNCHANGED <<log_entrys_, lock_>>
      PROVE  UNCHANGED Walk
  <2>1. s # "committed"
    OBVIOUS
  <2>2. \A x \in Trxs : status'[x] = "committed" <=> status[x] = "committed"
    BY <1>2, <1>5, <2>1, QuietFinish DEF MapInv, LockInv
  <2> QED BY <1>1, <1>2, <1>5, <2>2, QuietStep
<1> QED BY <1>3, <1>4, <1>5 DEF CheckSizeFull

LEMMA ActiveInvNext ==
    ASSUME OneThread, TypeInv, ActiveInv, [Next]_vars
    PROVE  ActiveInv'
<1>0. trx \in [Threads -> Trxs \cup {NoTrx}] /\ DOMAIN status = Trxs
  BY DEF TypeInv, TypeOK
<1>1. CASE UNCHANGED <<trx, status>>
  BY <1>1 DEF ActiveInv
<1>2. CASE Die
  BY <1>2 DEF ActiveInv, Die
<1>3. ASSUME NEW t \in Threads, NEW s, Finish(t, s) PROVE ActiveInv'
  BY <1>0, <1>3 DEF ActiveInv, Finish, OneThread
<1>4. ASSUME NEW t \in Threads, NEW x \in Trxs, StartTrx(t, x) PROVE ActiveInv'
  BY <1>0, <1>4 DEF ActiveInv, StartTrx, OneThread
<1>5. ASSUME NEW t \in Threads, Call(t) PROVE ActiveInv'
  BY <1>1, <1>4, <1>5 DEF Call, AppendRecordLog, AppendCommitTrxLog, AppendRollbackTrxLog
<1>6. ASSUME NEW t \in Threads, Step(t) PROVE ActiveInv'
  <2>1. CASE CheckSizeOk(t) \/ FlushLoop(t) \/ Pop(t) \/ WritePiece(t) \/ SubSize(t)
    BY <1>1, <2>1 DEF CheckSizeOk, FlushLoop, Pop, WritePiece, SubSize
  <2>2. CASE CheckSizeFull(t)
    BY <1>1, <1>2, <1>3, <2>2 DEF CheckSizeFull, Return
  <2>3. CASE Push(t)
    BY <1>1, <1>3, <2>3 DEF Push, Return
  <2>4. CASE PopEmpty(t) \/ Sync(t) \/ SyncFail(t)
    BY <1>3, <2>4 DEF PopEmpty, Sync, SyncFail
  <2>5. CASE WriteFail(t)
    BY <1>1, <1>2, <2>5 DEF WriteFail
  <2> QED BY <1>6, <2>1, <2>2, <2>3, <2>4, <2>5 DEF Step
<1>7. CASE Crash
  BY <1>2, <1>7 DEF Crash
<1>8. CASE Restart \/ UNCHANGED vars
  BY <1>1, <1>8 DEF Restart, vars
<1> QED BY <1>5, <1>6, <1>7, <1>8 DEF Next

LEMMA MapStep ==
    ASSUME OneThread, WritesChecked, MapInv, TypeInv', [Next]_vars
    PROVE  [Wal!Next]_Walk
<1>1. ASSUME NEW t \in Threads, Call(t) PROVE UNCHANGED Walk
  <2>1. pc[t] = "idle" /\ UNCHANGED <<log_entrys_, lock_, file, synced>>
    BY <1>1 DEF Call, StartTrx, AppendRecordLog, AppendCommitTrxLog, AppendRollbackTrxLog, Append_log
  <2>2. lock_ = NoThread
    BY <2>1, Unlocked DEF MapInv
  <2>3. \A x \in Trxs : status'[x] = "committed" <=> status[x] = "committed"
    <3>1. ASSUME NEW y \in Trxs, StartTrx(t, y)
          PROVE  \A x \in Trxs : status'[x] = "committed" <=> status[x] = "committed"
      <4>1. status[y] = "none" /\ status' = [status EXCEPT ![y] = "active"] /\ DOMAIN status = Trxs
        BY <3>1 DEF StartTrx, MapInv, LockInv, TypeInv, TypeOK
      <4> QED BY <4>1
    <3> QED BY <1>1, <3>1 DEF Call, AppendRecordLog, AppendCommitTrxLog, AppendRollbackTrxLog
  <2> QED BY <2>1, <2>2, <2>3, QuietStep
<1>2. ASSUME NEW t \in Threads, CheckSizeOk(t) \/ FlushLoop(t) \/ SubSize(t) PROVE UNCHANGED Walk
  <2>1. pc[t] # "write" /\ UNCHANGED <<log_entrys_, lock_, file, synced, status>>
    BY <1>2 DEF CheckSizeOk, FlushLoop, SubSize
  <2>2. lock_ = NoThread
    BY <2>1, Unlocked DEF MapInv
  <2>3. \A x \in Trxs : status'[x] = "committed" <=> status[x] = "committed"
    BY <2>1
  <2> QED BY <2>1, <2>2, <2>3, QuietStep
<1>3. ASSUME NEW t \in Threads, SyncFail(t) PROVE UNCHANGED Walk
  <2>1. pc[t] = "sync" /\ UNCHANGED <<log_entrys_, lock_, file, synced>> /\ Finish(t, "failed")
    BY <1>3 DEF SyncFail
  <2>2. lock_ = NoThread /\ trx[t] \in Trxs
    BY <2>1, Unlocked DEF MapInv, LockInv, TypeInv, ThreadOK
  <2>3. PICK s : s = "failed" /\ s # "committed"
    OBVIOUS
  <2>4. \A x \in Trxs : status'[x] = "committed" <=> status[x] = "committed"
    BY <2>1, <2>2, <2>3, QuietFinish DEF MapInv, LockInv
  <2> QED BY <2>1, <2>2, <2>4, QuietStep
<1>4. ASSUME NEW t \in Threads, PopEmpty(t) PROVE FALSE
  BY <1>4 DEF PopEmpty, MapInv, DurableInv, FlushOK
<1>5. ASSUME NEW t \in Threads, Step(t) PROVE [Wal!Next]_Walk
  <2>1. CASE CheckSizeFull(t)
    BY <2>1, CheckMaps DEF Wal!Next
  <2>2. CASE Push(t)
    BY <2>2, PushAppends DEF MapInv, Wal!Next
  <2>3. CASE Pop(t)
    BY <2>3, PopKeeps DEF MapInv
  <2>4. CASE WritePiece(t)
    BY <2>4, WriteKeeps DEF MapInv
  <2>5. CASE WriteFail(t)
    BY <2>5, FailLoses DEF MapInv, Wal!Next
  <2>6. CASE Sync(t)
    BY <2>6, SyncHardens DEF Wal!Next
  <2> QED BY <1>2, <1>3, <1>4, <1>5, <2>1, <2>2, <2>3, <2>4, <2>5, <2>6 DEF Step
<1>6. CASE Crash
  <2>1. PICK m \in synced .. Len(file) : file' = SubSeq(file, 1, m)
    BY <1>6 DEF Crash
  <2>2. Die /\ synced' = synced
    BY <1>6 DEF Crash
  <2> QED BY <2>1, <2>2, CrashLoses DEF MapInv, Wal!Next
<1>7. CASE Restart
  <2>1. ~up /\ UNCHANGED <<log_entrys_, lock_, file, synced, cur, status>>
    BY <1>7 DEF Restart
  <2>2. UNCHANGED <<WalLog, WalDurable, WalTold>>
    BY <2>1 DEF WalLog, WalDurable, WalTold, BeingWritten
  <2> QED BY <2>2 DEF Walk
<1>8. CASE UNCHANGED vars
  <2>1. UNCHANGED <<WalLog, WalDurable, WalTold>>
    BY <1>8 DEF vars, WalLog, WalDurable, WalTold, BeingWritten
  <2> QED BY <2>1 DEF Walk
<1> QED BY <1>1, <1>5, <1>6, <1>7, <1>8 DEF Next

LEMMA MapInit == Init => Wal!Init
<1> SUFFICES ASSUME Init PROVE Wal!Init
  OBVIOUS
<1>1. TypeInv
  BY TypeInvInit
<1>2. file = <<>> /\ synced = 0 /\ log_entrys_ = <<>> /\ lock_ = NoThread
  BY DEF Init
<1>3. PICK s \in Seq(Pieces) : s = file /\ s = <<>> /\ Len(s) = 0
  BY <1>1, <1>2, MapTypes
<1>4. Ends(s) = {}
  <2>1. \A i : i \in Ends(s) <=> i \in 1 .. 0 /\ IsEnd(s[i])
    BY <1>3, EndsType
  <2>2. \A i : i \notin 1 .. 0
    OBVIOUS
  <2> QED BY <2>1, <2>2
<1>5. Cardinality(Ends(s)) = 0
  BY <1>4, FS_EmptySet
<1>6. WholeEntries(s) = <<>>
  <2>1. PICK w \in Seq(PlainType) : w = WholeEntries(s) /\ Len(w) = 0
    BY <1>5, WholeType
  <2> QED BY <2>1
<1>7. WalLog = <<>>
  BY <1>2, <1>3, <1>6, NoEntries DEF WalLog, BeingWritten
<1>8. WalDurable = 0
  <2>1. WalDurable \in 0 .. 0
    BY <1>1, <1>3, <1>6, MapTypes
  <2> QED BY <2>1
<1>9. WalTold = {}
  BY DEF Init, WalTold
<1> QED BY <1>7, <1>8, <1>9 DEF Wal!Init

\* With one worker thread, and log writes that cannot fail unnoticed, the redo log
\* keeps the promises of WriteAheadLog: the entries stay in the order they were
\* appended while flush_buffer moves them from the queue to the file piece by
\* piece, a crash or an abort loses only a suffix behind the last fsync, and a
\* commit is acknowledged only with its entry hardened.
THEOREM LogImplementsWal ==
    ASSUME OneThread, WritesChecked
    PROVE  Spec => ImplementsWriteAheadLog
<1>1. Init => MapInv
  <2>1. Init => ActiveInv
    BY DEF Init, ActiveInv
  <2>2. Init => DurableInv
    BY TypeInvInit DEF Init, DurableInv, CommitDurable, FlushOK, Flushing
  <2> QED BY <2>1, <2>2, LockInvInit DEF MapInv
<1>2. MapInv /\ [Next]_vars => MapInv'
  BY TypeInvNext, LockInvNext, DurableInvNext, ActiveInvNext DEF MapInv, LockInv
<1>3. MapInv /\ [Next]_vars => [Wal!Next]_<<WalLog, WalDurable, WalTold>>
  <2> SUFFICES ASSUME MapInv, [Next]_vars PROVE [Wal!Next]_<<WalLog, WalDurable, WalTold>>
    OBVIOUS
  <2>1. TypeInv'
    BY TypeInvNext DEF MapInv, LockInv
  <2> QED BY <2>1, MapStep DEF Walk
<1> QED BY <1>1, <1>2, <1>3, MapInit, PTL DEF Spec, ImplementsWriteAheadLog, Wal!Spec

=============================================================================

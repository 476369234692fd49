----------------------------- MODULE LogManager -----------------------------
(***************************************************************************)
(* The redo log of one Db: LogBuffer (a queue of entries waiting to be     *)
(* written, its byte count and its mutex), LogFile (redo.log, appended to  *)
(* and fsynced) and the calls MvccTrx makes on LogManager: begin, record,  *)
(* commit and rollback entries.  The default build calls from one thread,  *)
(* the -DCONCURRENCY build makes common::Mutex a real lock.  Every         *)
(* unlocked read (the size check, the loop test) is a step of its own.     *)
(* Narrower than the code: a thread ends its transaction before it starts  *)
(* another, so transactions interleave between threads only, where the     *)
(* one server thread also interleaves those of its sessions (Server).      *)
(*                                                                         *)
(* A crash loses the process and any suffix of the file that was not       *)
(* fsynced; a restart reopens the file with O_APPEND.  LogManager::recover *)
(* has no body, so nothing is replayed, truncated or repaired.             *)
(***************************************************************************)
EXTENDS Integers, Sequences, FiniteSets

CONSTANTS Threads,      \* worker threads calling into the log
          Trxs,         \* transactions that may run, each at most once
          NoThread, NoTrx,
          LogBufferSize,\* LOG_BUFFER_SIZE
          CommitLen,    \* sizeof(CommitEntry)
          RecordLen,    \* RecordEntry::HEADER_SIZE + data_len
          MaxRecords,   \* bound: record entries per transaction
          MaxCrashes,   \* bound: crashes of the machine or the process
          MaxRestarts,  \* bound: restarts after a crash
          Debug,        \* built with -DDEBUG: ASSERT aborts the process
          MaxFails      \* bound: failures of write(2) or fsync(2)

ASSUME LogAssumption ==
    /\ NoThread \notin Threads /\ NoTrx \notin Trxs
    /\ LogBufferSize \in Nat \ {0} /\ CommitLen \in Nat \ {0} /\ RecordLen \in Nat \ {0}
    /\ MaxRecords \in Nat /\ MaxCrashes \in Nat /\ MaxRestarts \in Nat /\ MaxFails \in Nat
    /\ Debug \in BOOLEAN

ASSUME ThreadsAssumption == IsFiniteSet(Threads) /\ Threads # {}

VARIABLES log_entrys_,  \* LogBuffer::log_entrys_, entries waiting for the disk
          total_size_,  \* LogBuffer::total_size_
          lock_,        \* holder of LogBuffer::lock_
          file,         \* what was written to redo.log, one item per write(2)
          synced,       \* length of the prefix of file that a crash cannot lose
          pc,           \* where each thread is in its call
          cur,          \* the entry the thread is appending or writing
          part,         \* the next piece of cur to write
          trx,          \* the transaction the thread runs
          status,       \* what the client of each transaction was told
          records,      \* record entries each transaction has in the log
          up, crashes, restarts, fails

vars == <<log_entrys_, total_size_, lock_, file, synced, pc, cur, part, trx,
          status, records, up, crashes, restarts, fails>>

Types == {"MTR_BEGIN", "MTR_COMMIT", "MTR_ROLLBACK", "RECORD"}

\* LogEntry::build_*: the length excludes the entry header.
Entry(x, type) ==
    [trx  |-> x,
     type |-> type,
     len  |-> IF type = "MTR_COMMIT" THEN CommitLen
              ELSE IF type = "RECORD" THEN RecordLen ELSE 0]

\* write_log_entry: the number of write(2) calls an entry takes.
Parts(type) == IF type = "MTR_COMMIT" THEN 2 ELSE IF type = "RECORD" THEN 3 ELSE 1

Entries == {Entry(x, ty) : x \in Trxs, ty \in Types}
Pieces == [trx : Trxs, type : Types, part : 1..3, torn : BOOLEAN]
Piece(e, p, torn) == [trx |-> e.trx, type |-> e.type, part |-> p, torn |-> torn]

NoEntry == [trx |-> NoTrx, type |-> "ERROR", len |-> 0]

PCs == {"idle", "check", "push", "loop", "pop", "write", "sub", "sync"}

Init ==
    /\ log_entrys_ = <<>> /\ total_size_ = 0 /\ lock_ = NoThread
    /\ file = <<>> /\ synced = 0
    /\ pc = [t \in Threads |-> "idle"]
    /\ cur = [t \in Threads |-> NoEntry]
    /\ part = [t \in Threads |-> 1]
    /\ trx = [t \in Threads |-> NoTrx]
    /\ status = [x \in Trxs |-> "none"]
    /\ records = [x \in Trxs |-> 0]
    /\ up = TRUE /\ crashes = 0 /\ restarts = 0 /\ fails = 0

-----------------------------------------------------------------------------
(* The calls of a transaction.  Each builds its entry and enters           *)
(* LogBuffer::append_log_entry.                                            *)

Append_log(t, x, type) ==
    /\ up /\ pc[t] = "idle"
    /\ cur' = [cur EXCEPT ![t] = Entry(x, type)]
    /\ pc' = [pc EXCEPT ![t] = "check"]
    /\ UNCHANGED <<log_entrys_, total_size_, lock_, file, synced, part, records, up,
                   crashes, restarts, fails>>

\* MvccTrx::start_if_need: a new transaction id and its MTR_BEGIN entry.
StartTrx(t, x) ==
    /\ trx[t] = NoTrx /\ status[x] = "none"
    /\ Append_log(t, x, "MTR_BEGIN")
    /\ trx' = [trx EXCEPT ![t] = x]
    /\ status' = [status EXCEPT ![x] = "active"]

AppendRecordLog(t) ==
    /\ trx[t] # NoTrx /\ records[trx[t]] < MaxRecords
    /\ Append_log(t, trx[t], "RECORD")
    /\ UNCHANGED <<trx, status>>

AppendCommitTrxLog(t) ==
    /\ trx[t] # NoTrx
    /\ Append_log(t, trx[t], "MTR_COMMIT")
    /\ UNCHANGED <<trx, status>>

AppendRollbackTrxLog(t) ==
    /\ trx[t] # NoTrx
    /\ Append_log(t, trx[t], "MTR_ROLLBACK")
    /\ UNCHANGED <<trx, status>>

-----------------------------------------------------------------------------
(* Ends of a call.                                                         *)

\* The process is gone: queue, locks, threads and running transactions with it.
Die ==
    /\ log_entrys_' = <<>> /\ total_size_' = 0 /\ lock_' = NoThread
    /\ pc' = [t \in Threads |-> "idle"]
    /\ cur' = [t \in Threads |-> NoEntry]
    /\ part' = [t \in Threads |-> 1]
    /\ trx' = [t \in Threads |-> NoTrx]
    /\ status' = [x \in Trxs |-> IF status[x] = "active" THEN "lost" ELSE status[x]]
    /\ up' = FALSE

\* A call of t returns and its transaction goes on.
Return(t) ==
    /\ pc' = [pc EXCEPT ![t] = "idle"]
    /\ UNCHANGED <<trx, status>>

\* A commit or rollback of t returns; the client learns s.
Finish(t, s) ==
    /\ pc' = [pc EXCEPT ![t] = "idle"]
    /\ trx' = [trx EXCEPT ![t] = NoTrx]
    /\ status' = [status EXCEPT ![trx[t]] = s]

-----------------------------------------------------------------------------
(* LogBuffer::append_log_entry                                             *)

BufferFull(t) == total_size_ + cur[t].len >= LogBufferSize

\* Mutant of CheckSizeOk: the size check is dropped.
CheckSizeOk_NoCheck(t) ==
    /\ pc[t] = "check"
    /\ pc' = [pc EXCEPT ![t] = "push"]
    /\ UNCHANGED <<log_entrys_, total_size_, lock_, file, synced, cur, part, trx,
                   status, records, up, crashes, restarts, fails>>

\* The size check, made before the lock is taken.
CheckSizeOk(t) ==
    /\ pc[t] = "check" /\ ~BufferFull(t)
    /\ pc' = [pc EXCEPT ![t] = "push"]
    /\ UNCHANGED <<log_entrys_, total_size_, lock_, file, synced, cur, part, trx,
                   status, records, up, crashes, restarts, fails>>

\* LOGBUF_FULL.  start_if_need ASSERTs that this cannot happen to MTR_BEGIN; a
\* release build goes on without the entry.
CheckSizeFull(t) ==
    /\ pc[t] = "check" /\ BufferFull(t)
    /\ \/ /\ cur[t].type = "MTR_BEGIN" /\ Debug
          /\ Die
       \/ /\ \/ cur[t].type = "MTR_BEGIN" /\ ~Debug
             \/ cur[t].type = "RECORD"
          /\ Return(t)
          /\ UNCHANGED <<log_entrys_, total_size_, lock_, cur, part, up>>
       \/ /\ \/ cur[t].type = "MTR_COMMIT" /\ Finish(t, "failed")
             \/ cur[t].type = "MTR_ROLLBACK" /\ Finish(t, "rolledback")
          /\ UNCHANGED <<log_entrys_, total_size_, lock_, cur, part, up>>
    /\ UNCHANGED <<file, synced, records, crashes, restarts, fails>>

\* Under the lock: emplace_back and the size update.  A commit goes on to sync().
Push(t) ==
    /\ pc[t] = "push" /\ lock_ = NoThread
    /\ log_entrys_' = Append(log_entrys_, cur[t])
    /\ total_size_' = total_size_ + cur[t].len
    /\ records' = IF cur[t].type = "RECORD" THEN [records EXCEPT ![cur[t].trx] = @ + 1]
                                            ELSE records
    /\ \/ /\ cur[t].type \in {"MTR_BEGIN", "RECORD"}
          /\ Return(t)
       \/ /\ cur[t].type = "MTR_ROLLBACK"
          /\ Finish(t, "rolledback")
       \/ /\ cur[t].type = "MTR_COMMIT"
          /\ pc' = [pc EXCEPT ![t] = "loop"]
          /\ UNCHANGED <<trx, status>>
    /\ UNCHANGED <<lock_, file, synced, cur, part, up, crashes, restarts, fails>>

-----------------------------------------------------------------------------
(* LogBuffer::flush_buffer                                                 *)

\* while (!log_entrys_.empty()), read without the lock.
FlushLoop(t) ==
    /\ pc[t] = "loop"
    /\ pc' = [pc EXCEPT ![t] = IF log_entrys_ = <<>> THEN "sync" ELSE "pop"]
    /\ UNCHANGED <<log_entrys_, total_size_, lock_, file, synced, cur, part, trx,
                   status, records, up, crashes, restarts, fails>>

\* The queue was emptied by another thread meanwhile: return SUCCESS, no fsync.
PopEmpty(t) ==
    /\ pc[t] = "pop" /\ lock_ = NoThread /\ log_entrys_ = <<>>
    /\ Finish(t, "committed")
    /\ UNCHANGED <<log_entrys_, total_size_, lock_, file, synced, cur, part,
                   records, up, crashes, restarts, fails>>

\* Mutant of Pop: the newest entry is written first.
Pop_Newest(t) ==
    /\ pc[t] = "pop" /\ lock_ = NoThread /\ log_entrys_ # <<>>
    /\ lock_' = t
    /\ cur' = [cur EXCEPT ![t] = log_entrys_[Len(log_entrys_)]]
    /\ log_entrys_' = SubSeq(log_entrys_, 1, Len(log_entrys_) - 1)
    /\ part' = [part EXCEPT ![t] = 1]
    /\ pc' = [pc EXCEPT ![t] = "write"]
    /\ UNCHANGED <<total_size_, file, synced, trx, status, records, up, crashes, restarts, fails>>

\* Mutant of Pop: a record entry is written without its header.
Pop_SkipsPiece(t) ==
    /\ pc[t] = "pop" /\ lock_ = NoThread /\ log_entrys_ # <<>>
    /\ lock_' = t
    /\ cur' = [cur EXCEPT ![t] = Head(log_entrys_)]
    /\ log_entrys_' = Tail(log_entrys_)
    /\ part' = [part EXCEPT ![t] = IF Head(log_entrys_).type = "RECORD" THEN 2 ELSE 1]
    /\ pc' = [pc EXCEPT ![t] = "write"]
    /\ UNCHANGED <<total_size_, file, synced, trx, status, records, up, crashes, restarts, fails>>

Pop(t) ==
    /\ pc[t] = "pop" /\ lock_ = NoThread /\ log_entrys_ # <<>>
    /\ lock_' = t
    /\ cur' = [cur EXCEPT ![t] = Head(log_entrys_)]
    /\ log_entrys_' = Tail(log_entrys_)
    /\ part' = [part EXCEPT ![t] = 1]
    /\ pc' = [pc EXCEPT ![t] = "write"]
    /\ UNCHANGED <<total_size_, file, synced, trx, status, records, up, crashes, restarts, fails>>

\* Mutant of WritePiece: the lock is never released.
WritePiece_KeepsLock(t) ==
    /\ pc[t] = "write"
    /\ file' = Append(file, Piece(cur[t], part[t], FALSE))
    /\ \/ /\ part[t] < Parts(cur[t].type)
          /\ part' = [part EXCEPT ![t] = @ + 1]
          /\ UNCHANGED pc
       \/ /\ part[t] = Parts(cur[t].type)
          /\ pc' = [pc EXCEPT ![t] = "sub"]
          /\ UNCHANGED part
    /\ UNCHANGED <<lock_, log_entrys_, total_size_, synced, cur, trx, status, records, up,
                   crashes, restarts, fails>>

\* One write(2) of write_log_entry; the last one releases the lock.
WritePiece(t) ==
    /\ pc[t] = "write"
    /\ file' = Append(file, Piece(cur[t], part[t], FALSE))
    /\ \/ /\ part[t] < Parts(cur[t].type)
          /\ part' = [part EXCEPT ![t] = @ + 1]
          /\ UNCHANGED <<pc, lock_>>
       \/ /\ part[t] = Parts(cur[t].type)
          /\ pc' = [pc EXCEPT ![t] = "sub"]
          /\ lock_' = NoThread
          /\ UNCHANGED part
    /\ UNCHANGED <<log_entrys_, total_size_, synced, cur, trx, status, records, up,
                   crashes, restarts, fails>>

\* write(2) fails, with or without part of the data in the file.  ASSERT aborts
\* a debug build; a release build drops the entry and goes on.
WriteFail(t) ==
    /\ fails < MaxFails /\ fails' = fails + 1
    /\ pc[t] = "write"
    /\ \/ file' = file
       \/ file' = Append(file, Piece(cur[t], part[t], TRUE))
    /\ \/ /\ Debug
          /\ Die
       \/ /\ ~Debug
          /\ pc' = [pc EXCEPT ![t] = "sub"]
          /\ lock_' = NoThread
          /\ UNCHANGED <<log_entrys_, total_size_, cur, part, trx, status, up>>
    /\ UNCHANGED <<synced, records, crashes, restarts>>

\* Mutant of SubSize: the size of a written entry is not subtracted.
SubSize_Missing(t) ==
    /\ pc[t] = "sub"
    /\ pc' = [pc EXCEPT ![t] = "loop"]
    /\ UNCHANGED <<log_entrys_, total_size_, lock_, file, synced, cur, part, trx, status,
                   records, up, crashes, restarts, fails>>

\* total_size_ is adjusted after the unlock.
SubSize(t) ==
    /\ pc[t] = "sub"
    /\ total_size_' = total_size_ - cur[t].len
    /\ pc' = [pc EXCEPT ![t] = "loop"]
    /\ UNCHANGED <<log_entrys_, lock_, file, synced, cur, part, trx, status, records,
                   up, crashes, restarts, fails>>

\* Mutant of Sync: success is reported without the fsync.
Sync_NoFsync(t) ==
    /\ pc[t] = "sync"
    /\ Finish(t, "committed")
    /\ UNCHANGED <<log_entrys_, total_size_, lock_, file, synced, cur, part, records, up,
                   crashes, restarts, fails>>

Sync(t) ==
    /\ pc[t] = "sync"
    /\ synced' = Len(file)
    /\ Finish(t, "committed")
    /\ UNCHANGED <<log_entrys_, total_size_, lock_, file, cur, part, records, up,
                   crashes, restarts, fails>>

SyncFail(t) ==
    /\ fails < MaxFails /\ fails' = fails + 1
    /\ pc[t] = "sync"
    /\ Finish(t, "failed")
    /\ UNCHANGED <<log_entrys_, total_size_, lock_, file, synced, cur, part, records,
                   up, crashes, restarts>>

-----------------------------------------------------------------------------
(* The environment.                                                        *)

Crash ==
    /\ up /\ crashes < MaxCrashes
    /\ \E n \in synced .. Len(file) : file' = SubSeq(file, 1, n)
    /\ Die
    /\ crashes' = crashes + 1
    /\ UNCHANGED <<synced, records, restarts, fails>>

\* LogManager::init: the file is reopened with O_APPEND; nothing else happens.
Restart ==
    /\ ~up /\ restarts < MaxRestarts
    /\ up' = TRUE
    /\ restarts' = restarts + 1
    /\ UNCHANGED <<log_entrys_, total_size_, lock_, file, synced, pc, cur, part, trx,
                   status, records, crashes, fails>>

Call(t) ==
    \/ \E x \in Trxs : StartTrx(t, x)
    \/ AppendRecordLog(t)
    \/ AppendCommitTrxLog(t)
    \/ AppendRollbackTrxLog(t)

Step(t) ==
    \/ CheckSizeOk(t) \/ CheckSizeFull(t) \/ Push(t)
    \/ FlushLoop(t) \/ PopEmpty(t) \/ Pop(t)
    \/ WritePiece(t) \/ WriteFail(t) \/ SubSize(t)
    \/ Sync(t) \/ SyncFail(t)

Next ==
    \/ \E t \in Threads : Call(t) \/ Step(t)
    \/ Crash
    \/ Restart

Spec == Init /\ [][Next]_vars

\* A thread inside a call keeps running; nobody is obliged to make calls.
FairSpec == Spec /\ \A t \in Threads : WF_vars(Step(t))

-----------------------------------------------------------------------------
(* Properties.                                                             *)

\* Every variable keeps the type its C++ declaration gives it.
TypeOK ==
    /\ log_entrys_ \in Seq(Entries)
    /\ total_size_ \in Int
    /\ lock_ \in Threads \cup {NoThread}
    /\ file \in Seq(Pieces)
    /\ synced \in 0 .. Len(file)
    /\ pc \in [Threads -> PCs]
    /\ cur \in [Threads -> Entries \cup {NoEntry}]
    /\ part \in [Threads -> 1..3]
    /\ trx \in [Threads -> Trxs \cup {NoTrx}]
    /\ status \in [Trxs -> {"none", "active", "committed", "failed", "rolledback", "lost"}]
    /\ records \in [Trxs -> Nat]
    /\ up \in BOOLEAN
    /\ crashes \in Nat /\ restarts \in Nat /\ fails \in Nat

\* All of entry x's commit is at position i of the file.
CommitAt(x, i) ==
    /\ i \in 2 .. Len(file)
    /\ file[i - 1] = Piece(Entry(x, "MTR_COMMIT"), 1, FALSE)
    /\ file[i] = Piece(Entry(x, "MTR_COMMIT"), 2, FALSE)

\* append_commit_trx_log syncs so that no data is lost: once a client was told
\* that its transaction committed, the commit entry is in the part of redo.log
\* that no crash takes away.
CommitDurable ==
    \A x \in Trxs : status[x] = "committed" => \E i \in 1 .. synced : CommitAt(x, i)

\* The ASSERT of MvccTrx::start_if_need: append_begin_trx_log never finds the
\* buffer full.
BeginNeverFull ==
    \A t \in Threads : pc[t] = "check" /\ cur[t].type = "MTR_BEGIN" => ~BufferFull(t)

\* flush_buffer writes an entry's pieces under lock_, so until a restart appends
\* behind a torn tail, or a release build goes on after a failed write, the file is
\* a sequence of whole entries, the last of which may be incomplete.
FileFramed ==
    restarts = 0 /\ (Debug \/ fails = 0) =>
        \A i \in 1 .. Len(file) :
            IF file[i].part = 1
            THEN i = 1 \/ file[i - 1].part = Parts(file[i - 1].type)
            ELSE i > 1 /\ file[i - 1] = [file[i] EXCEPT !.part = @ - 1, !.torn = FALSE]

\* Redo needs a transaction's changes before its commit: when a commit entry is
\* complete in redo.log, every record entry the transaction appended is there
\* before it, whichever threads wrote them, unless a write has failed; and no
\* thread's pieces are between another's (FileFramed).
CommitComplete ==
    /\ FileFramed
    /\ \A x \in Trxs : \A i \in 1 .. Len(file) :
         CommitAt(x, i) /\ fails = 0 =>
            records[x] = Cardinality({j \in 1 .. i : file[j] = Piece(Entry(x, "RECORD"), 3, FALSE)})

\* LogEntryIterator reads headers and bodies by length from the start of the
\* file: what it returns is right up to the first piece that does not continue
\* the entry before it.
Reads(n) ==
    \A i \in 1 .. n :
        /\ ~file[i].torn
        /\ IF file[i].part = 1
           THEN i = 1 \/ file[i - 1].part = Parts(file[i - 1].type)
           ELSE i > 1 /\ file[i - 1] = [file[i] EXCEPT !.part = @ - 1]

\* What the sync in append_commit_trx_log is for: a scan of redo.log with
\* LogEntryIterator meets the commit entry of every acknowledged transaction,
\* after a crash too.  A restarted server appends behind what the crash has torn,
\* where the iterator loses step, so this is said until a restart only.
CommitReadable ==
    \A x \in Trxs : status[x] = "committed" /\ restarts = 0 =>
        \E i \in 1 .. Len(file) : CommitAt(x, i) /\ Reads(i)

\* The entries of a type that total_size_ counts: those queued, and those popped
\* and not yet subtracted.
InFlight == {t \in Threads : pc[t] \in {"write", "sub"}}
Counted(type) == Cardinality({i \in DOMAIN log_entrys_ : log_entrys_[i].type = type})
                 + Cardinality({t \in InFlight : cur[t].type = type})
MaxLen == IF CommitLen >= RecordLen THEN CommitLen ELSE RecordLen

\* total_size_ is raised under lock_ and lowered outside it, from any thread:
\* it always equals the bytes still queued plus those of entries that were
\* popped and not yet subtracted, so no update is lost or made twice.  The size
\* check is made outside lock_ too: threads that passed it together may overshoot
\* LOG_BUFFER_SIZE, by less than one entry for each other thread.
SizeBounded ==
    /\ total_size_ = CommitLen * Counted("MTR_COMMIT") + RecordLen * Counted("RECORD")
    /\ total_size_ < LogBufferSize + (Cardinality(Threads) - 1) * MaxLen

\* flush_buffer loops until it sees the queue empty and lock_ is not fair, so a
\* thread in append_log_entry or flush_buffer may be kept there for as long as
\* others go on appending.  Once they make no further call, its call returns:
\* whoever stands where in a push, a pop or a write, lock_ is released and the
\* queue runs empty, whether the calls of the others succeed or fail.
CallsReturnOnceQuiet ==
    \A t \in Threads :
        <>[][\A u \in Threads \ {t} : ~Call(u)]_vars => []<>(pc[t] = "idle")

=============================================================================

---------------------------- MODULE LogRefinement ----------------------------
(***************************************************************************)
(* How LogManager implements WriteAheadLog: the abstract log is what is    *)
(* whole in redo.log, followed by the entry being written and the queue.   *)
(***************************************************************************)
EXTENDS LogManager

\* The pieces that end an entry, and the number of them up to a position.
Ends(s) == {i \in DOMAIN s : ~s[i].torn /\ s[i].part = Parts(s[i].type)}
Rank(E, p) == Cardinality({i \in E : i <= p})
EndAt(E, k) == CHOOSE p \in E : Rank(E, p) = k

Plain(e) == [trx |-> e.trx, type |-> e.type]
WholeEntries(s) == [k \in 1 .. Cardinality(Ends(s)) |-> Plain(s[EndAt(Ends(s), k)])]
BeingWritten == IF lock_ = NoThread THEN <<>> ELSE <<Plain(cur[lock_])>>
PlainEntries(s) == [i \in DOMAIN s |-> Plain(s[i])]

WalLog == WholeEntries(file) \o BeingWritten \o PlainEntries(log_entrys_)
WalDurable == Rank(Ends(file), synced)
WalTold == {x \in Trxs : status[x] = "committed"}

Wal == INSTANCE WriteAheadLog WITH
    LogTrxs <- Trxs, LogTypes <- Types, log <- WalLog, durable <- WalDurable, told <- WalTold

\* One worker thread: LogManager implements the log a database relies on,
\* through full buffers, failed writes, crashes and restarts.
ImplementsWriteAheadLog == Wal!Spec

=============================================================================

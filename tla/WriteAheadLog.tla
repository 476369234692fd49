--------------------------- MODULE WriteAheadLog ---------------------------
(***************************************************************************)
(* What a redo log promises: entries are kept in the order they were       *)
(* appended, a crash loses at most a suffix that was not hardened, and a   *)
(* commit is acknowledged only when its entry is hardened.                 *)
(***************************************************************************)
EXTENDS Naturals, Sequences

CONSTANTS LogTrxs, LogTypes

VARIABLES log,      \* the entries in append order
          durable,  \* length of the hardened prefix
          told      \* transactions whose commit was acknowledged

Init == log = <<>> /\ durable = 0 /\ told = {}

AppendEntry ==
    /\ \E x \in LogTrxs, ty \in LogTypes : log' = Append(log, [trx |-> x, type |-> ty])
    /\ UNCHANGED <<durable, told>>

Harden ==
    /\ durable' \in durable .. Len(log)
    /\ \E S \in SUBSET {log[i].trx : i \in {j \in 1 .. durable' : log[j].type = "MTR_COMMIT"}} :
           told' = told \cup S
    /\ UNCHANGED log

Lose ==
    /\ \E n \in durable .. Len(log) : log' = SubSeq(log, 1, n)
    /\ UNCHANGED <<durable, told>>

Next == AppendEntry \/ Harden \/ Lose

Spec == Init /\ [][Next]_<<log, durable, told>>
=============================================================================

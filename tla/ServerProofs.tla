---------------------------- MODULE ServerProofs ----------------------------
(***************************************************************************)
(* Sessions, transactions, the entries they log and the answers clients    *)
(* get, for any clients, statements and numbers of commands.               *)
(***************************************************************************)
EXTENDS Server, SequenceTheorems, WellFoundedInduction, TLAPS

-----------------------------------------------------------------------------
(* Entries of the log.                                                     *)

Trx(n) == [made : BOOLEAN, id : -1..n, started : BOOLEAN]
Entry(n) == [type : {"begin", "commit", "rollback"}, trx : -1..n, xid : -1..n]

\* A larger counter admits what a smaller one does.
LEMMA Wider ==
  ASSUME NEW m \in Nat, NEW n \in Nat, m <= n
  PROVE  Trx(m) \subseteq Trx(n) /\ Entry(m) \subseteq Entry(n)
         /\ Seq(Entry(m)) \subseteq Seq(Entry(n))
<1>1. -1..m \subseteq -1..n
  OBVIOUS
<1>2. Trx(m) \subseteq Trx(n)
  BY <1>1 DEF Trx
<1>3. Entry(m) \subseteq Entry(n)
  BY <1>1 DEF Entry
<1>4. Seq(Entry(m)) \subseteq Seq(Entry(n))
  BY <1>3
<1> QED BY <1>2, <1>3, <1>4

\* An entry about another transaction tells nothing new about this one.
LEMMA TellsOther ==
  ASSUME NEW S, NEW l \in Seq(S), NEW e \in S, NEW x, x.id \in Int,
         Tells(l, x), e.trx # x.id
  PROVE  Tells(Append(l, e), x)
<1> DEFINE a == Append(l, e)
<1>1. /\ Len(l) \in Nat /\ Len(a) = Len(l) + 1
      /\ \A i \in 1..Len(l) : a[i] = l[i]
      /\ a[Len(l) + 1] = e
  BY AppendProperties
<1> HIDE DEF a
<1> SUFFICES ASSUME x.id > 0
             PROVE  \E i \in 1..Len(a) : /\ a[i].trx = x.id
                                         /\ \A j \in 1..Len(a) : j > i => a[j].trx # x.id
                                         /\ x.started <=> a[i].type = "begin"
  BY DEF Tells, a
<1>2. PICK i \in 1..Len(l) : /\ l[i].trx = x.id
                             /\ \A j \in 1..Len(l) : j > i => l[j].trx # x.id
                             /\ x.started <=> l[i].type = "begin"
  BY DEF Tells
<1>3. ASSUME NEW j \in 1..Len(a), j > i PROVE a[j].trx # x.id
  <2>1. j \in 1..Len(l) \/ j = Len(l) + 1
    BY <1>1
  <2> QED BY <1>1, <1>2, <1>3, <2>1
<1>4. i \in 1..Len(a) /\ a[i] = l[i]
  BY <1>1
<1> QED BY <1>2, <1>3, <1>4

\* The newest entry about a transaction is the one that tells.
LEMMA TellsNew ==
  ASSUME NEW S, NEW l \in Seq(S), NEW e \in S, NEW x, e.trx = x.id,
         x.started <=> e.type = "begin"
  PROVE  Tells(Append(l, e), x)
<1> DEFINE a == Append(l, e)
<1>1. /\ Len(l) \in Nat /\ Len(a) = Len(l) + 1
      /\ a[Len(l) + 1] = e
  BY AppendProperties
<1> HIDE DEF a
<1>2. /\ Len(a) \in 1..Len(a) /\ a[Len(a)] = e
      /\ \A j \in 1..Len(a) : ~(j > Len(a))
  BY <1>1
<1> QED BY <1>2 DEF Tells, a

\* Only the id, whether the transaction runs and the log matter.
LEMMA TellsSame ==
  ASSUME NEW l, NEW x, NEW y, Tells(l, x), y.id = x.id, y.started = x.started
  PROVE  Tells(l, y)
BY DEF Tells

\* An entry with a new id keeps the order.
LEMMA OrderDrawn ==
  ASSUME NEW n \in Nat, NEW l \in Seq(Entry(n)), InOrder(l), NEW e, e.xid = n + 1
  PROVE  InOrder(Append(l, e))
<1> DEFINE a == Append(l, e)
<1>1. /\ Len(l) \in Nat /\ Len(a) = Len(l) + 1
      /\ \A i \in 1..Len(l) : a[i] = l[i]
      /\ a[Len(l) + 1] = e
  <2> DEFINE S == Entry(n) \cup {e}
  <2>1. l \in Seq(S) /\ e \in S
    OBVIOUS
  <2> HIDE DEF S
  <2> QED BY <2>1, AppendProperties
<1> HIDE DEF a
<1>2. ASSUME NEW i \in 1..Len(l) PROVE l[i].xid \in -1..n
  <2>1. l[i] \in Entry(n)
    BY <1>2, ElementOfSeq
  <2> QED BY <2>1 DEF Entry
<1> SUFFICES ASSUME NEW i \in 1..Len(a), NEW j \in 1..Len(a), i < j,
                    a[i].type # "rollback", a[j].type # "rollback"
             PROVE  a[i].xid < a[j].xid
  BY DEF InOrder, a
<1>3. CASE j = Len(l) + 1
  <2>1. i \in 1..Len(l)
    BY <1>1, <1>3
  <2> QED BY <1>1, <1>2, <1>3, <2>1
<1>4. CASE j \in 1..Len(l)
  <2>1. i \in 1..Len(l)
    BY <1>1, <1>4
  <2> QED BY <1>1, <1>4, <2>1 DEF InOrder
<1> QED BY <1>1, <1>3, <1>4

\* A rollback has no place in the order.
LEMMA OrderRollback ==
  ASSUME NEW S, NEW l \in Seq(S), InOrder(l), NEW e \in S, e.type = "rollback"
  PROVE  InOrder(Append(l, e))
<1> DEFINE a == Append(l, e)
<1>1. /\ Len(l) \in Nat /\ Len(a) = Len(l) + 1
      /\ \A i \in 1..Len(l) : a[i] = l[i]
      /\ a[Len(l) + 1] = e
  BY AppendProperties
<1> HIDE DEF a
<1> SUFFICES ASSUME NEW i \in 1..Len(a), NEW j \in 1..Len(a), i < j,
                    a[i].type # "rollback", a[j].type # "rollback"
             PROVE  a[i].xid < a[j].xid
  BY DEF InOrder, a
<1>2. i \in 1..Len(l) /\ j \in 1..Len(l)
  BY <1>1
<1> QED BY <1>1, <1>2 DEF InOrder

-----------------------------------------------------------------------------
(* The calls a statement makes on its transaction.                         *)

Distinct(x, y) == x.id > 0 => x.id # y.id

\* What is known of session and log between two requests.
LogInv ==
  /\ \A c \in Clients : /\ session[c].trx.id # 0
                        /\ session[c].trx.started => session[c].trx.id > 0
  /\ \A c, d \in Clients : c # d => Distinct(session[c].trx, session[d].trx)
  /\ LogTellsOpen /\ IdsOrdered

\* The same in the middle of a statement of c, whose transaction, counter and
\* log are w.
WorldOK(c, w) ==
  /\ w \in [trx : Trx(w.cur), cur : Nat, log : Seq(Entry(w.cur))]
  /\ currentTrxId <= w.cur
  /\ w.trx.id # 0 /\ (w.trx.started => w.trx.id > 0)
  /\ Tells(w.log, w.trx) /\ InOrder(w.log)
  /\ \A d \in Clients \ {c} : /\ Distinct(w.trx, session[d].trx)
                              /\ Distinct(session[d].trx, w.trx)
                              /\ Tells(w.log, session[d].trx)

\* The types of the transactions, on their own.
TrxTypes ==
  /\ currentTrxId \in Nat
  /\ log \in Seq(Entry(currentTrxId))
  /\ session \in [Clients -> [multi : BOOLEAN, trx : Trx(currentTrxId)]]

LEMMA WorldStart ==
  ASSUME NEW c \in Clients, TrxTypes, LogInv
  PROVE  WorldOK(c, World(c)) /\ World(c).trx = session[c].trx
<1> DEFINE w == World(c)
<1>1. w.trx = session[c].trx /\ w.cur = currentTrxId /\ w.log = log
  BY DEF World
<1>2. w \in [trx : Trx(w.cur), cur : Nat, log : Seq(Entry(w.cur))]
  <2>1. session[c].trx \in Trx(currentTrxId)
    BY DEF TrxTypes
  <2> QED BY <1>1, <2>1 DEF TrxTypes, World
<1> HIDE DEF w
<1>3. ASSUME NEW d \in Clients \ {c}
      PROVE  /\ Distinct(w.trx, session[d].trx) /\ Distinct(session[d].trx, w.trx)
             /\ Tells(w.log, session[d].trx)
  BY <1>1, <1>3 DEF LogInv, LogTellsOpen
<1>4. Tells(w.log, w.trx) /\ InOrder(w.log)
  BY <1>1 DEF LogInv, LogTellsOpen, IdsOrdered
<1>5. w.trx.id # 0 /\ (w.trx.started => w.trx.id > 0)
  BY <1>1 DEF LogInv
<1>6. currentTrxId <= w.cur
  BY <1>1 DEF TrxTypes
<1> QED BY <1>1, <1>2, <1>3, <1>4, <1>5, <1>6 DEF WorldOK, w

\* Session::current_trx makes the object and changes nothing else.
LEMMA CurrentTrxOK ==
  ASSUME NEW c \in Clients, NEW w, WorldOK(c, w)
  PROVE  /\ WorldOK(c, CurrentTrx(w)) /\ CurrentTrx(w).trx.made
         /\ CurrentTrx(w).trx.started = w.trx.started
         /\ w.trx.made => CurrentTrx(w).trx = w.trx
<1> DEFINE v == CurrentTrx(w)
<1>1. w \in [trx : Trx(w.cur), cur : Nat, log : Seq(Entry(w.cur))]
  BY DEF WorldOK
<1>2. /\ v \in [trx : Trx(w.cur), cur : Nat, log : Seq(Entry(w.cur))]
      /\ v.trx = [w.trx EXCEPT !.made = TRUE] /\ v.cur = w.cur /\ v.log = w.log
  BY <1>1 DEF CurrentTrx, Trx
<1>3. v.trx.made /\ v.trx.id = w.trx.id /\ v.trx.started = w.trx.started
  BY <1>1, <1>2 DEF Trx
<1>4. w.trx.made => v.trx = w.trx
  BY <1>1, <1>2 DEF Trx
<1> HIDE DEF v
<1>5. Tells(v.log, v.trx)
  BY <1>2, <1>3, TellsSame DEF WorldOK
<1>6. WorldOK(c, v)
  BY <1>2, <1>3, <1>5 DEF WorldOK, Distinct
<1> QED BY <1>3, <1>4, <1>6 DEF v

\* start_if_need draws the next id, for which no session and no entry has used it.
LEMMA StartOK ==
  ASSUME NEW c \in Clients, NEW w, WorldOK(c, w), TrxTypes
  PROVE  /\ WorldOK(c, StartIfNeed(w))
         /\ w.trx.started \/ kit = "vacuous" => StartIfNeed(w) = w
         /\ ~(w.trx.started \/ kit = "vacuous") =>
              StartIfNeed(w).trx.started /\ StartIfNeed(w).trx.made
<1>1. CASE w.trx.started \/ kit = "vacuous"
  BY <1>1 DEF StartIfNeed
<1>2. CASE ~(w.trx.started \/ kit = "vacuous")
  <2> DEFINE v == StartIfNeed(w)
             n == w.cur + 1
             e == [type |-> "begin", trx |-> n, xid |-> n]
  <2>1. w \in [trx : Trx(w.cur), cur : Nat, log : Seq(Entry(w.cur))]
        /\ currentTrxId <= w.cur
    BY DEF WorldOK
  <2>2. v = [trx |-> [made |-> TRUE, id |-> n, started |-> TRUE], cur |-> n,
             log |-> Append(w.log, e)]
    BY <1>2 DEF StartIfNeed
  <2>3. /\ v.trx = [made |-> TRUE, id |-> n, started |-> TRUE]
        /\ v.cur = n /\ v.log = Append(w.log, e)
    BY <2>2
  <2>4. n \in Nat /\ w.cur <= n /\ n > 0 /\ currentTrxId <= n /\ currentTrxId < n
    BY <2>1 DEF TrxTypes
  <2>5. v.trx \in Trx(n) /\ e \in Entry(n) /\ w.log \in Seq(Entry(n))
    <3>1. v.trx \in Trx(n) /\ e \in Entry(n)
      BY <2>3, <2>4 DEF Trx, Entry
    <3> QED BY <2>1, <2>4, <3>1, Wider
  <2>6. e.trx = n /\ e.xid = n /\ e.type = "begin"
        /\ v.trx.id = n /\ v.trx.started = TRUE /\ v.trx.made = TRUE
    BY <2>3
  <2>7. v.log \in Seq(Entry(n))
    <3> HIDE DEF e, v
    <3> QED BY <2>3, <2>5, AppendProperties
  <2>8. v \in [trx : Trx(v.cur), cur : Nat, log : Seq(Entry(v.cur))]
    <3>1. Append(w.log, e) \in Seq(Entry(n))
      BY <2>3, <2>7
    <3>2. [made |-> TRUE, id |-> n, started |-> TRUE] \in Trx(n)
      BY <2>3, <2>5
    <3> HIDE DEF e, v
    <3> QED BY <2>2, <2>3, <2>4, <3>1, <3>2
  <2> HIDE DEF e, v
  <2>9. ASSUME NEW d \in Clients \ {c}
        PROVE  /\ Distinct(v.trx, session[d].trx) /\ Distinct(session[d].trx, v.trx)
               /\ Tells(v.log, session[d].trx)
    <3>1. session[d].trx.id \in -1..currentTrxId
      BY <2>9 DEF TrxTypes, Trx
    <3>2. session[d].trx.id # n /\ session[d].trx.id \in Int
      BY <2>4, <3>1 DEF TrxTypes
    <3>3. Tells(w.log, session[d].trx)
      BY <2>9 DEF WorldOK
    <3>4. Tells(v.log, session[d].trx)
      BY <2>3, <2>5, <2>6, <3>2, <3>3, TellsOther
    <3> QED BY <2>6, <3>2, <3>4 DEF Distinct
  <2>10. Tells(v.log, v.trx)
    BY <2>3, <2>5, <2>6, TellsNew
  <2>11. InOrder(v.log)
    BY <2>1, <2>3, <2>6, OrderDrawn DEF WorldOK
  <2>12. WorldOK(c, v)
    <3>1. currentTrxId <= v.cur /\ v.trx.id # 0 /\ v.trx.id > 0
      BY <2>3, <2>4, <2>6
    <3> QED BY <2>8, <2>9, <2>10, <2>11, <3>1 DEF WorldOK
  <2> QED BY <1>2, <2>6, <2>12 DEF v
<1> QED BY <1>1, <1>2

\* commit draws an id too, logs it under the transaction's own id, and ends it.
LEMMA CommitOK ==
  ASSUME NEW c \in Clients, NEW w, WorldOK(c, w), TrxTypes
  PROVE  /\ WorldOK(c, Commit(w))
         /\ Commit(w).trx.made = w.trx.made
         /\ kit = "vacuous" => Commit(w) = w
         /\ kit # "vacuous" => ~ Commit(w).trx.started
<1>1. CASE kit = "vacuous"
  BY <1>1 DEF Commit
<1>2. CASE kit # "vacuous"
  <2> DEFINE v == Commit(w)
             n == w.cur + 1
             e == [type |-> "commit", trx |-> w.trx.id, xid |-> n]
  <2>1. w \in [trx : Trx(w.cur), cur : Nat, log : Seq(Entry(w.cur))]
        /\ currentTrxId <= w.cur
    BY DEF WorldOK
  <2>2. v = [trx |-> [w.trx EXCEPT !.started = FALSE], cur |-> n, log |-> Append(w.log, e)]
    BY <1>2 DEF Commit
  <2>3. /\ v.trx = [w.trx EXCEPT !.started = FALSE]
        /\ v.cur = n /\ v.log = Append(w.log, e)
    BY <2>2
  <2>4. n \in Nat /\ w.cur <= n /\ currentTrxId <= n /\ w.trx.id \in -1..n
    BY <2>1 DEF TrxTypes, Trx
  <2>5. w.trx \in Trx(n) /\ w.log \in Seq(Entry(n))
    BY <2>1, <2>4, Wider
  <2>6. [w.trx EXCEPT !.started = FALSE] \in Trx(n) /\ e \in Entry(n)
    <3>1. [w.trx EXCEPT !.started = FALSE] \in Trx(n)
      BY <2>5 DEF Trx
    <3>2. n \in -1..n
      BY <2>4
    <3> QED BY <2>4, <3>1, <3>2 DEF Entry
  <2>7. /\ e.trx = w.trx.id /\ e.xid = n /\ e.type = "commit"
        /\ v.trx.id = w.trx.id /\ v.trx.started = FALSE /\ v.trx.made = w.trx.made
    BY <2>3, <2>5 DEF Trx
  <2>8. Append(w.log, e) \in Seq(Entry(n))
    <3> HIDE DEF e, v
    <3> QED BY <2>5, <2>6, AppendProperties
  <2> HIDE DEF e, v
  <2>9. v \in [trx : Trx(v.cur), cur : Nat, log : Seq(Entry(v.cur))]
    BY <2>2, <2>3, <2>4, <2>6, <2>8
  <2>10. ASSUME NEW d \in Clients \ {c}
         PROVE  /\ Distinct(v.trx, session[d].trx) /\ Distinct(session[d].trx, v.trx)
                /\ Tells(v.log, session[d].trx)
    <3>1. session[d].trx.id \in Int
      BY <2>10 DEF TrxTypes, Trx
    <3>2. /\ Distinct(w.trx, session[d].trx) /\ Distinct(session[d].trx, w.trx)
          /\ Tells(w.log, session[d].trx)
      BY <2>10 DEF WorldOK
    <3>3. CASE session[d].trx.id > 0
      <4>1. e.trx # session[d].trx.id
        BY <2>7, <3>2, <3>3 DEF Distinct
      <4> QED BY <2>3, <2>5, <2>6, <2>7, <3>1, <3>2, <4>1, TellsOther DEF Distinct
    <3>4. CASE ~(session[d].trx.id > 0)
      BY <2>7, <3>2, <3>4 DEF Distinct, Tells
    <3> QED BY <3>3, <3>4
  <2>11. Tells(v.log, v.trx)
    <3>1. (v.trx.started <=> e.type = "begin") /\ e.trx = v.trx.id
      BY <2>7
    <3>2. Tells(Append(w.log, e), v.trx)
      BY <2>5, <2>6, <3>1, TellsNew, Zenon
    <3> QED BY <2>3, <3>2
  <2>12. InOrder(v.log)
    BY <2>1, <2>3, <2>7, OrderDrawn DEF WorldOK
  <2>13. WorldOK(c, v)
    <3>1. currentTrxId <= v.cur /\ v.trx.id # 0 /\ ~v.trx.started
      BY <2>3, <2>4, <2>7 DEF WorldOK
    <3> QED BY <2>9, <2>10, <2>11, <2>12, <3>1 DEF WorldOK
  <2> QED BY <1>2, <2>7, <2>13 DEF v
<1> QED BY <1>1, <1>2

\* rollback ends the transaction, logs it and draws no id.
LEMMA RollbackOK ==
  ASSUME NEW c \in Clients, NEW w, WorldOK(c, w), TrxTypes
  PROVE  /\ WorldOK(c, Rollback(w))
         /\ Rollback(w).trx.made = w.trx.made
         /\ kit = "vacuous" => Rollback(w) = w
         /\ kit # "vacuous" => ~ Rollback(w).trx.started
<1>1. CASE kit = "vacuous"
  BY <1>1 DEF Rollback
<1>2. CASE kit # "vacuous"
  <2> DEFINE v == Rollback(w)
             n == w.cur
             e == [type |-> "rollback", trx |-> w.trx.id, xid |-> w.trx.id]
  <2>1. w \in [trx : Trx(n), cur : Nat, log : Seq(Entry(n))] /\ currentTrxId <= n
    BY DEF WorldOK
  <2>2. /\ w.trx.id \in -1..n /\ e \in Entry(n)
        /\ e.trx = w.trx.id /\ e.type = "rollback"
    BY <2>1 DEF Trx, Entry
  <2>3. [w.trx EXCEPT !.started = FALSE] \in Trx(n)
    BY <2>1 DEF Trx
  <2>4. Append(w.log, e) \in Seq(Entry(n))
    <3> HIDE DEF e
    <3> QED BY <2>1, <2>2, AppendProperties
  <2>5. /\ v \in [trx : Trx(n), cur : Nat, log : Seq(Entry(n))]
        /\ v.trx = [w.trx EXCEPT !.started = FALSE]
        /\ v.cur = n /\ v.log = Append(w.log, e)
    <3>1. v = [w EXCEPT !.trx.started = FALSE, !.log = Append(w.log, e)]
      BY <1>2 DEF Rollback
    <3> HIDE DEF e, v
    <3> QED BY <2>1, <2>3, <2>4, <3>1
  <2>6. v.trx.id = w.trx.id /\ v.trx.started = FALSE /\ v.trx.made = w.trx.made
    BY <2>1, <2>5 DEF Trx
  <2> HIDE DEF e, v
  <2>7. ASSUME NEW d \in Clients \ {c}
        PROVE  /\ Distinct(v.trx, session[d].trx) /\ Distinct(session[d].trx, v.trx)
               /\ Tells(v.log, session[d].trx)
    <3>1. session[d].trx.id \in Int
      BY <2>7 DEF TrxTypes, Trx
    <3>2. /\ Distinct(w.trx, session[d].trx) /\ Distinct(session[d].trx, w.trx)
          /\ Tells(w.log, session[d].trx)
      BY <2>7 DEF WorldOK
    <3>3. CASE session[d].trx.id > 0
      <4>1. e.trx # session[d].trx.id
        BY <2>2, <3>2, <3>3 DEF Distinct
      <4> QED BY <2>1, <2>2, <2>5, <2>6, <3>1, <3>2, <4>1, TellsOther DEF Distinct
    <3>4. CASE ~(session[d].trx.id > 0)
      BY <2>6, <3>2, <3>4 DEF Distinct, Tells
    <3> QED BY <3>3, <3>4
  <2>8. Tells(v.log, v.trx)
    <3>1. (v.trx.started <=> e.type = "begin") /\ e.trx = v.trx.id
      BY <2>2, <2>6
    <3>2. w.log \in Seq(Entry(n))
      BY <2>1
    <3>3. Tells(Append(w.log, e), v.trx)
      BY <2>2, <3>1, <3>2, TellsNew, Zenon
    <3> QED BY <2>5, <3>3
  <2>9. InOrder(v.log)
    BY <2>1, <2>2, <2>5, OrderRollback DEF WorldOK
  <2>10. WorldOK(c, v)
    <3>1. currentTrxId <= v.cur /\ v.trx.id # 0 /\ ~v.trx.started
      BY <2>1, <2>5, <2>6 DEF WorldOK
    <3> QED BY <2>5, <2>7, <2>8, <2>9, <3>1 DEF WorldOK
  <2> QED BY <1>2, <2>6, <2>10 DEF v
<1> QED BY <1>1, <1>2

-----------------------------------------------------------------------------
(* The statements.                                                         *)

Kit == kit \in {"vacuous", "mvcc"}
Busy(c) == loop.step \in {"run", "cost"} /\ loop.of = c

\* Between two requests: who may have a running transaction, and which
\* transactions the manager knows.
SessionInv ==
  /\ \A c \in Clients : client[c] = "off" <=> conn[c] = "none"
  /\ \A c \in Clients : conn[c] # "open" => session[c] = NewSession
  /\ \A c \in Clients : Busy(c) => conn[c] = "open"
  /\ \A c \in Clients : session[c].trx.started /\ ~ session[c].multi => c \in leftOpen
  /\ \A c \in Clients : kit = "vacuous" => ~ session[c].trx.started
  /\ \A c \in Clients : kit = "mvcc" /\ session[c].multi =>
                          session[c].trx.made /\ session[c].trx.started
  /\ trxes = {c \in Clients : kit = "mvcc" /\ conn[c] = "open" /\ session[c].trx.made}

\* SqlResult::init: a transaction that BEGIN started is used as it is.
LEMMA SqlInitOK ==
  ASSUME NEW c \in Clients, Kit, TrxTypes, LogInv, SessionInv
  PROVE  LET v == SqlInit(World(c))
         IN /\ WorldOK(c, v) /\ v.trx.made
            /\ kit = "vacuous" => ~ v.trx.started
            /\ kit = "mvcc" => v.trx.started
            /\ kit = "mvcc" /\ session[c].multi => v.trx = session[c].trx
<1> DEFINE u == CurrentTrx(World(c))
           v == SqlInit(World(c))
<1>1. WorldOK(c, World(c)) /\ World(c).trx = session[c].trx
  BY WorldStart
<1>2. /\ WorldOK(c, u) /\ u.trx.made /\ u.trx.started = session[c].trx.started
      /\ session[c].trx.made => u.trx = session[c].trx
  BY <1>1, CurrentTrxOK
<1>3. v = StartIfNeed(u)
  BY DEF SqlInit
<1> HIDE DEF u, v
<1>4. /\ WorldOK(c, v)
      /\ u.trx.started \/ kit = "vacuous" => v = u
      /\ ~(u.trx.started \/ kit = "vacuous") => v.trx.started /\ v.trx.made
  BY <1>2, <1>3, StartOK
<1>5. /\ kit = "vacuous" => ~ session[c].trx.started
      /\ kit = "mvcc" /\ session[c].multi => session[c].trx.made /\ session[c].trx.started
  BY DEF SessionInv
<1>6. v.trx.made /\ (kit = "mvcc" => v.trx.started)
  BY <1>2, <1>4 DEF Kit
<1>7. kit = "vacuous" => ~ v.trx.started
  BY <1>2, <1>4, <1>5
<1>8. kit = "mvcc" /\ session[c].multi => v.trx = session[c].trx
  BY <1>2, <1>4, <1>5
<1> QED BY <1>4, <1>6, <1>7, <1>8 DEF v

\* SqlResult::close: outside BEGIN nothing is left running.
LEMMA SqlCloseOK ==
  ASSUME NEW c \in Clients, Kit, TrxTypes, LogInv, SessionInv
  PROVE  LET v == SqlClose(SqlInit(World(c)), session[c].multi)
         IN /\ WorldOK(c, v) /\ v.trx.made
            /\ kit = "vacuous" \/ ~ session[c].multi => ~ v.trx.started
            /\ kit = "mvcc" /\ session[c].multi => v.trx.started /\ v.trx = session[c].trx
<1> DEFINE u == SqlInit(World(c))
           v == SqlClose(u, session[c].multi)
<1>1. /\ WorldOK(c, u) /\ u.trx.made
      /\ kit = "vacuous" => ~ u.trx.started
      /\ kit = "mvcc" => u.trx.started
      /\ kit = "mvcc" /\ session[c].multi => u.trx = session[c].trx
  BY SqlInitOK
<1>2. session[c].multi => v = u
  BY DEF SqlClose
<1>3. ~ session[c].multi => v = Commit(CurrentTrx(u))
  BY DEF SqlClose
<1> HIDE DEF u, v
<1>4. CASE session[c].multi
  BY <1>1, <1>2, <1>4 DEF v, u
<1>5. CASE ~ session[c].multi
  <2> DEFINE t == CurrentTrx(u)
  <2>1. WorldOK(c, t) /\ t.trx.made /\ t.trx.started = u.trx.started
    BY <1>1, CurrentTrxOK
  <2> HIDE DEF t
  <2>2. /\ WorldOK(c, Commit(t)) /\ Commit(t).trx.made = t.trx.made
        /\ kit = "vacuous" => Commit(t) = t
        /\ kit # "vacuous" => ~ Commit(t).trx.started
    BY <2>1, CommitOK
  <2>3. v = Commit(t)
    BY <1>3, <1>5 DEF t
  <2>4. WorldOK(c, v) /\ v.trx.made /\ ~ v.trx.started
    BY <1>1, <2>1, <2>2, <2>3
  <2> QED BY <1>5, <2>4 DEF v, u
<1> QED BY <1>4, <1>5

\* What is said in answer to the request at hand.
Answer == [of : {loop.req.n}, text : {"rows", "state", "cost"}, end : BOOLEAN]

LEMMA AnswerTexts ==
  /\ <<>> \in Seq(Answer) /\ StateText \in Seq(Answer) /\ RowsText \in Seq(Answer)
  /\ CostText \in Seq(Answer) /\ RowsText \o StateText \in Seq(Answer)
BY DEF Answer, StateText, RowsText, CostText, Piece

\* What every statement that is executed does, whatever it is.
Execution(c, w, multi, pieces, drop) ==
  /\ Executed(c, w, multi, pieces, drop)
  /\ WorldOK(c, w)
  /\ multi \in BOOLEAN /\ drop \in BOOLEAN /\ pieces \in Seq(Answer)
  /\ kit = "vacuous" => ~ w.trx.started
  /\ kit = "mvcc" /\ multi => w.trx.made /\ w.trx.started
  /\ session[c].trx.made => w.trx.made
  /\ w.trx.started /\ ~ multi => c \in leftOpen'
  /\ leftOpen \ {c} \subseteq leftOpen' /\ leftOpen' \subseteq leftOpen \cup {c}
  /\ kit = "mvcc" /\ session[c].multi =>
       (multi /\ w.trx = session[c].trx) \/ loop.req.stmt \in {"commit", "rollback"}

Executes(c) ==
  /\ loop.step = "run" /\ loop.of = c
  /\ \E w, multi, pieces, drop : Execution(c, w, multi, pieces, drop)

Statement(c) == \/ ExecuteNothing(c) \/ ExecuteCommand(c) \/ TrxBegin(c) \/ TrxEnd(c)
                \/ OpenFails(c) \/ SendState(c) \/ SendRows(c) \/ SendFails(c) \/ NextFails(c)

LEMMA Statements ==
  ASSUME NEW c \in Clients, Kit, TrxTypes, LogInv, SessionInv, Statement(c)
  PROVE  Executes(c)
<1>r. loop.step = "run" /\ loop.of = c
  BY DEF Statement, Running, ExecuteNothing, ExecuteCommand, TrxBegin, TrxEnd, OpenFails,
         SendState, SendRows, SendFails, NextFails
<1>s. session[c].multi \in BOOLEAN
  BY DEF TrxTypes
<1>i. /\ session[c].trx.started /\ ~ session[c].multi => c \in leftOpen
      /\ kit = "vacuous" => ~ session[c].trx.started
      /\ kit = "mvcc" /\ session[c].multi => session[c].trx.made /\ session[c].trx.started
  BY DEF SessionInv
<1>w. WorldOK(c, World(c)) /\ World(c).trx = session[c].trx
  BY WorldStart
<1>u. /\ WorldOK(c, CurrentTrx(World(c))) /\ CurrentTrx(World(c)).trx.made
      /\ CurrentTrx(World(c)).trx.started = session[c].trx.started
      /\ session[c].trx.made => CurrentTrx(World(c)).trx = session[c].trx
  BY <1>w, CurrentTrxOK
<1> DEFINE init == SqlInit(World(c))
           done == SqlClose(init, session[c].multi)
<1>v. /\ WorldOK(c, init) /\ init.trx.made
      /\ kit = "vacuous" => ~ init.trx.started
      /\ kit = "mvcc" => init.trx.started
      /\ kit = "mvcc" /\ session[c].multi => init.trx = session[c].trx
  BY SqlInitOK
<1>d. /\ WorldOK(c, done) /\ done.trx.made
      /\ kit = "vacuous" \/ ~ session[c].multi => ~ done.trx.started
      /\ kit = "mvcc" /\ session[c].multi => done.trx.started /\ done.trx = session[c].trx
  BY SqlCloseOK
<1> HIDE DEF init, done
<1>1. CASE ExecuteNothing(c)
  <2>1. Execution(c, World(c), session[c].multi, <<>>, TRUE)
    BY <1>1, <1>s, <1>i, <1>w, AnswerTexts DEF ExecuteNothing, Execution
  <2> QED BY <1>r, <2>1 DEF Executes
<1>2. CASE ExecuteCommand(c)
  <2>1. PICK w \in {World(c), CurrentTrx(World(c))} :
             Executed(c, w, session[c].multi, StateText, FALSE) /\ UNCHANGED leftOpen
    BY <1>2 DEF ExecuteCommand
  <2>2. /\ WorldOK(c, w) /\ w.trx.started = session[c].trx.started
        /\ session[c].trx.made => w.trx = session[c].trx
    BY <1>w, <1>u, <2>1
  <2>3. Execution(c, w, session[c].multi, StateText, FALSE)
    BY <1>s, <1>i, <2>1, <2>2, AnswerTexts DEF Execution
  <2> QED BY <1>r, <2>3 DEF Executes
<1>3. CASE TrxBegin(c)
  <2>1. init = StartIfNeed(CurrentTrx(World(c)))
    BY DEF SqlInit, init
  <2>2. Execution(c, init, TRUE, StateText, FALSE)
    BY <1>3, <1>v, <2>1, AnswerTexts DEF TrxBegin, Execution
  <2> QED BY <1>r, <2>2 DEF Executes
<1>4. CASE TrxEnd(c)
  <2> DEFINE u == CurrentTrx(World(c))
             v == IF loop.req.stmt = "commit" THEN Commit(u) ELSE Rollback(u)
  <2>1. Executed(c, v, FALSE, StateText, FALSE) /\ leftOpen' = leftOpen \ {c}
        /\ loop.req.stmt \in {"commit", "rollback"}
    BY <1>4 DEF TrxEnd, Running
  <2>2. u.trx.made /\ (kit = "vacuous" => ~ u.trx.started)
    BY <1>u, <1>i
  <2> HIDE DEF u
  <2>3. WorldOK(c, v) /\ v.trx.made /\ ~ v.trx.started
    <3>1. CASE loop.req.stmt = "commit"
      <4>1. v = Commit(u)
        BY <3>1
      <4> HIDE DEF v
      <4> QED BY <1>u, <2>2, <4>1, CommitOK DEF u
    <3>2. CASE loop.req.stmt # "commit"
      <4>1. v = Rollback(u)
        BY <3>2
      <4> HIDE DEF v
      <4> QED BY <1>u, <2>2, <4>1, RollbackOK DEF u
    <3> QED BY <3>1, <3>2
  <2> HIDE DEF v
  <2>4. Execution(c, v, FALSE, StateText, FALSE)
    BY <2>1, <2>3, AnswerTexts DEF Execution
  <2> QED BY <1>r, <2>4 DEF Executes
<1>5. CASE OpenFails(c) \/ SendState(c)
  <2>1. Execution(c, done, session[c].multi, StateText, FALSE)
    BY <1>5, <1>s, <1>d, AnswerTexts DEF OpenFails, SendState, Execution, done, init
  <2> QED BY <1>r, <2>1 DEF Executes
<1>6. CASE SendRows(c)
  <2>1. Execution(c, done, session[c].multi, RowsText, FALSE)
    BY <1>6, <1>s, <1>d, AnswerTexts DEF SendRows, Execution, done, init
  <2> QED BY <1>r, <2>1 DEF Executes
<1>7. CASE SendFails(c)
  <2>1. Execution(c, done, session[c].multi, RowsText, TRUE)
    BY <1>7, <1>s, <1>d, AnswerTexts DEF SendFails, Execution, done, init
  <2> QED BY <1>r, <2>1 DEF Executes
<1>8. CASE NextFails(c)
  <2>1. CASE loop.req.stmt = "select"
    <3>1. Execution(c, init, session[c].multi, RowsText \o StateText, FALSE)
      BY <1>8, <1>s, <1>v, <2>1, AnswerTexts DEF NextFails, Execution, init
    <3> QED BY <1>r, <3>1 DEF Executes
  <2>2. CASE loop.req.stmt # "select"
    <3>1. Execution(c, init, session[c].multi, StateText, FALSE)
      BY <1>8, <1>s, <1>v, <2>2, AnswerTexts DEF NextFails, Execution, init
    <3> QED BY <1>r, <3>1 DEF Executes
  <2> QED BY <2>1, <2>2
<1> QED BY <1>1, <1>2, <1>3, <1>4, <1>5, <1>6, <1>7, <1>8 DEF Statement

-----------------------------------------------------------------------------
(* What a step does to connections, sessions and transactions.             *)

Kept == UNCHANGED <<kit, conn, trxVars, leftOpen>>

\* Nobody becomes busy whose connection is not open.
BusyKept == \A c \in Clients : Busy(c)' => conn[c] = "open"

\* No client appears or disappears.
OffKept == \A c \in Clients : client'[c] = "off" <=> client[c] = "off"

Opens(c) == /\ conn[c] = "pending" /\ conn' = [conn EXCEPT ![c] = "open"]
            /\ session' = [session EXCEPT ![c] = NewSession]
            /\ UNCHANGED <<kit, client, trxes, currentTrxId, log, loop, leftOpen>>

Connects(c) == /\ conn[c] = "none" /\ conn' = [conn EXCEPT ![c] = "pending"]
               /\ client' = [client EXCEPT ![c] = "prompt"]
               /\ UNCHANGED <<kit, trxVars, loop, leftOpen>>

Closes(c) == /\ conn[c] # "none" /\ CloseConnection(c)
             /\ \A d \in Clients : ~ Busy(d)'
             /\ UNCHANGED <<kit, client, currentTrxId, log>>

\* All that a step can be for a session: nothing, the beginning or the end of
\* a connection, a statement, or the end of the server.
LEMMA StepKinds ==
  ASSUME TypeOK, LogInv, SessionInv, [Next]_vars
  PROVE  \/ Kept /\ BusyKept /\ OffKept
         \/ \E c \in Clients : Connects(c) \/ Opens(c) \/ Closes(c) \/ Executes(c)
         \/ Quit
<1>k. Kit /\ TrxTypes
  BY DEF TypeOK, Kit, TrxTypes, Trx, Entry
<1>b. \A c \in Clients : Busy(c) => conn[c] = "open"
  BY DEF SessionInv
<1>d. \A c \in Clients : loop.step = "dispatch" => ~ Busy(c)
  BY DEF Busy
<1>t. client \in [Clients -> {"off", "prompt", "waiting", "left"}]
  BY DEF TypeOK
<1> DEFINE Goal == \/ Kept /\ BusyKept /\ OffKept
                   \/ \E c \in Clients : Connects(c) \/ Opens(c) \/ Closes(c) \/ Executes(c)
                   \/ Quit
<1>1. ASSUME NEW c \in Clients, Connect(c) PROVE Goal
  <2>1. conn[c] = "none"
    BY <1>1 DEF Connect, SessionInv
  <2> QED BY <1>1, <2>1 DEF Connect, Connects, trxVars
<1>2. ASSUME NEW c \in Clients, ClientReads(c) \/ Leave(c) \/ \E s \in Repertoire[c] : Send(c, s)
      PROVE  Goal
  <2>1. Kept /\ loop' = loop
    BY <1>2 DEF ClientReads, ReceiveEnd, Receive, Leave, Send, Kept, trxVars
  <2>2. OffKept
    BY <1>2, <1>t DEF ClientReads, ReceiveEnd, Receive, Leave, Send, ClientExit, OffKept
  <2>3. BusyKept
    BY <2>1, <1>b DEF BusyKept, Busy
  <2> QED BY <2>1, <2>2, <2>3
<1>3. ASSUME NEW c \in Clients, Accept(c) PROVE Goal
  BY <1>3 DEF Accept, Opens, net
<1>4. ASSUME NEW c \in Clients, AcceptFails(c) \/ RecvEnd(c) PROVE Goal
  <2>1. Closes(c)
    BY <1>4, <1>d DEF AcceptFails, RecvEnd, Closes, Busy
  <2> QED BY <2>1
<1>5. ASSUME NEW c \in Clients, Statement(c) PROVE Goal
  BY <1>5, <1>k, Statements
<1>6. ASSUME NEW c \in Clients, Refuse(c) PROVE Goal
  <2>1. Kept /\ OffKept
    BY <1>6 DEF Refuse, Kept, OffKept, trxVars
  <2>2. BusyKept
    BY <1>6 DEF Refuse, BusyKept, Busy, Dispatch
  <2> QED BY <2>1, <2>2
<1>7. ASSUME NEW c \in Clients, CostTime(c) PROVE Goal
  <2>1. conn[c] = "open" /\ \A d \in Clients : ~ Busy(d)'
    BY <1>7, <1>b DEF CostTime, Busy, Dispatch
  <2>2. CASE loop.drop
    <3>1. Closes(c)
      BY <1>7, <2>1, <2>2 DEF CostTime, Closes
    <3> QED BY <3>1
  <2>3. CASE ~ loop.drop
    <3>1. Kept /\ BusyKept /\ OffKept
      BY <1>7, <2>1, <2>3 DEF CostTime, Kept, BusyKept, OffKept, trxVars
    <3> QED BY <3>1
  <2> QED BY <2>2, <2>3
<1>8. ASSUME NEW c \in Clients, \E k \in 1..Len(up[c]) : Recv(c, k) PROVE Goal
  <2>1. Kept /\ OffKept /\ conn[c] = "open"
    BY <1>8 DEF Recv, Kept, OffKept, trxVars
  <2>2. BusyKept
    BY <1>8, <2>1 DEF Recv, BusyKept, Busy
  <2> QED BY <2>1, <2>2
<1>9. CASE Shutdown \/ Done \/ UNCHANGED vars
  <2>1. Kept /\ OffKept /\ loop' = loop
    BY <1>9 DEF Shutdown, Done, vars, net, Kept, OffKept, trxVars
  <2>2. BusyKept
    BY <2>1, <1>b DEF BusyKept, Busy
  <2> QED BY <2>1, <2>2
<1> HIDE DEF Goal
<1>10. Goal
  BY <1>1, <1>2, <1>3, <1>4, <1>5, <1>6, <1>7, <1>8, <1>9
     DEF Next, EventLoop, Process, Statement, Goal
<1> QED BY <1>10 DEF Goal

-----------------------------------------------------------------------------
(* Transactions and the log.                                               *)

\* A statement installs its world: what held in the middle of it holds after it.
LEMMA InstallStep ==
  ASSUME NEW c \in Clients, NEW w, NEW multi \in BOOLEAN, TrxTypes, LogInv,
         WorldOK(c, w), Install(c, w, multi)
  PROVE  /\ TrxTypes' /\ LogInv'
         /\ session'[c].multi = multi /\ session'[c].trx = w.trx
         /\ \A d \in Clients \ {c} : session'[d] = session[d]
<1>1. /\ w \in [trx : Trx(w.cur), cur : Nat, log : Seq(Entry(w.cur))]
      /\ currentTrxId <= w.cur /\ currentTrxId \in Nat
      /\ session \in [Clients -> [multi : BOOLEAN, trx : Trx(currentTrxId)]]
  BY DEF WorldOK, TrxTypes
<1>2. /\ session' = [session EXCEPT ![c] = [multi |-> multi, trx |-> w.trx]]
      /\ currentTrxId' = w.cur /\ log' = w.log
  BY DEF Install
<1>3. /\ session'[c].multi = multi /\ session'[c].trx = w.trx
      /\ \A d \in Clients \ {c} : session'[d] = session[d]
  BY <1>1, <1>2
<1>4. TrxTypes'
  <2>1. Trx(currentTrxId) \subseteq Trx(w.cur)
    BY <1>1, Wider
  <2>2. session' \in [Clients -> [multi : BOOLEAN, trx : Trx(w.cur)]]
    BY <1>1, <1>2, <2>1
  <2> QED BY <1>1, <1>2, <2>2 DEF TrxTypes
<1>5. LogInv'
  <2>1. ASSUME NEW d \in Clients
        PROVE  /\ session'[d].trx.id # 0
               /\ session'[d].trx.started => session'[d].trx.id > 0
               /\ Tells(log', session'[d].trx)
    <3>1. CASE d = c
      BY <1>2, <1>3, <3>1 DEF WorldOK
    <3>2. CASE d # c
      BY <1>2, <1>3, <3>2 DEF WorldOK, LogInv
    <3> QED BY <3>1, <3>2
  <2>2. ASSUME NEW a \in Clients, NEW b \in Clients, a # b
        PROVE  Distinct(session'[a].trx, session'[b].trx)
    <3>1. CASE a = c
      BY <1>3, <2>2, <3>1 DEF WorldOK
    <3>2. CASE b = c
      BY <1>3, <2>2, <3>2 DEF WorldOK
    <3>3. CASE a # c /\ b # c
      BY <1>3, <2>2, <3>3 DEF LogInv
    <3> QED BY <3>1, <3>2, <3>3
  <2>3. InOrder(log')
    BY <1>2 DEF WorldOK
  <2> QED BY <2>1, <2>2, <2>3 DEF LogInv, LogTellsOpen, IdsOrdered, Distinct
<1> QED BY <1>3, <1>4, <1>5

\* The end of a connection forgets its transaction; the log keeps its entries.
LEMMA ForgetStep ==
  ASSUME TrxTypes, LogInv, UNCHANGED <<currentTrxId, log>>,
         session' \in [Clients -> [multi : BOOLEAN, trx : Trx(currentTrxId)]],
         \A d \in Clients : session'[d] \in {session[d], NewSession}
  PROVE  TrxTypes' /\ LogInv'
<1>1. NewSession.trx.id = -1 /\ NewSession.trx.started = FALSE
  BY DEF NewSession, NoTrx
<1>2. \A d \in Clients : session'[d].trx = session[d].trx \/ session'[d].trx = NewSession.trx
  OBVIOUS
<1>3. TrxTypes'
  BY DEF TrxTypes
<1>4. ASSUME NEW d \in Clients
      PROVE  /\ session'[d].trx.id # 0
             /\ session'[d].trx.started => session'[d].trx.id > 0
             /\ Tells(log', session'[d].trx)
  <2>1. CASE session'[d].trx = session[d].trx
    BY <2>1 DEF LogInv, LogTellsOpen
  <2>2. CASE session'[d].trx = NewSession.trx
    BY <1>1, <2>2 DEF Tells
  <2> QED BY <1>2, <2>1, <2>2
<1>5. ASSUME NEW a \in Clients, NEW b \in Clients, a # b
      PROVE  Distinct(session'[a].trx, session'[b].trx)
  <2>1. Distinct(session[a].trx, session[b].trx)
    BY <1>5 DEF LogInv
  <2> QED BY <1>1, <1>2, <2>1 DEF Distinct
<1> QED BY <1>3, <1>4, <1>5 DEF LogInv, LogTellsOpen, IdsOrdered, Distinct

LEMMA NewSessionType ==
  ASSUME NEW n \in Nat PROVE NewSession \in [multi : BOOLEAN, trx : Trx(n)]
BY DEF NewSession, NoTrx, Trx

LEMMA LogStep ==
  ASSUME TypeOK, LogInv, SessionInv, [Next]_vars
  PROVE  TrxTypes' /\ LogInv'
<1>t. TrxTypes
  BY DEF TypeOK, TrxTypes, Trx, Entry
<1>n. NewSession \in [multi : BOOLEAN, trx : Trx(currentTrxId)]
  BY <1>t, NewSessionType DEF TrxTypes
<1>1. CASE UNCHANGED trxVars
  BY <1>1, <1>t, ForgetStep DEF trxVars, TrxTypes
<1>2. ASSUME NEW c \in Clients, Opens(c) \/ Closes(c) PROVE TrxTypes' /\ LogInv'
  <2>1. session' = [session EXCEPT ![c] = NewSession] /\ UNCHANGED <<currentTrxId, log>>
    BY <1>2 DEF Opens, Closes, CloseConnection
  <2> QED BY <1>t, <1>n, <2>1, ForgetStep DEF TrxTypes
<1>3. ASSUME NEW c \in Clients, Executes(c) PROVE TrxTypes' /\ LogInv'
  BY <1>3, <1>t, InstallStep DEF Executes, Execution, Executed
<1>4. CASE Quit
  <2>1. session' = [c \in Clients |-> NewSession] /\ UNCHANGED <<currentTrxId, log>>
    BY <1>4 DEF Quit
  <2> QED BY <1>t, <1>n, <2>1, ForgetStep
<1> QED BY <1>1, <1>2, <1>3, <1>4, StepKinds DEF Kept, Connects

LEMMA SessionStep ==
  ASSUME TypeOK, LogInv, SessionInv, [Next]_vars
  PROVE  SessionInv'
<1>t. /\ conn \in [Clients -> {"none", "pending", "open", "closed"}]
      /\ client \in [Clients -> {"off", "prompt", "waiting", "left"}]
      /\ session \in [Clients -> [multi : BOOLEAN, trx : Trx(currentTrxId)]]
      /\ TrxTypes /\ leftOpen \subseteq Clients
  BY DEF TypeOK, TrxTypes, Trx, Entry
<1>n. NewSession.trx.started = FALSE /\ NewSession.multi = FALSE /\ NewSession.trx.made = FALSE
  BY DEF NewSession, NoTrx
<1>1. CASE Kept /\ BusyKept /\ OffKept
  BY <1>1 DEF Kept, BusyKept, OffKept, trxVars, SessionInv
<1>2. ASSUME NEW c \in Clients, Connects(c) PROVE SessionInv'
  <2>1. \A d \in Clients : Busy(d)' <=> Busy(d)
    BY <1>2 DEF Connects, Busy
  <2> QED BY <1>2, <1>t, <2>1 DEF Connects, trxVars, SessionInv
<1>3. ASSUME NEW c \in Clients, Opens(c) PROVE SessionInv'
  <2>1. \A d \in Clients : Busy(d)' <=> Busy(d)
    BY <1>3 DEF Opens, Busy
  <2>2. session[c] = NewSession
    BY <1>3 DEF Opens, SessionInv
  <2>3. session' = session
    BY <1>3, <1>t, <2>2 DEF Opens
  <2> QED BY <1>3, <1>t, <1>n, <2>1, <2>2, <2>3 DEF Opens, SessionInv
<1>4. ASSUME NEW c \in Clients, Closes(c) PROVE SessionInv'
  BY <1>4, <1>t, <1>n DEF Closes, CloseConnection, SessionInv
<1>5. CASE Quit
  <2>1. \A d \in Clients : ~ Busy(d)'
    BY <1>5 DEF Quit, Busy, TypeOK, Dispatch
  <2> QED BY <1>5, <1>t, <1>n, <2>1 DEF Quit, SessionInv
<1>6. ASSUME NEW c \in Clients, Executes(c) PROVE SessionInv'
  <2>1. PICK w, multi, pieces, drop : Execution(c, w, multi, pieces, drop)
    BY <1>6 DEF Executes
  <2>2. /\ session'[c].multi = multi /\ session'[c].trx = w.trx
        /\ \A d \in Clients \ {c} : session'[d] = session[d]
    BY <1>t, <2>1, InstallStep DEF Execution, Executed
  <2>3. UNCHANGED <<kit, conn, client>> /\ conn[c] = "open"
    BY <1>6, <2>1 DEF Execution, Executed, Executes, Busy, SessionInv
  <2>4. \A d \in Clients : Busy(d)' => d = c
    <3>1. loop \in [step : {"run", "cost"}, of : {c}, req : Requests(c), drop : BOOLEAN]
      BY <1>6 DEF Executes, TypeOK, Dispatch
    <3>2. loop'.of = c
      BY <2>1, <3>1 DEF Execution, Executed
    <3> QED BY <3>2 DEF Busy
  <2>5. trxes' = IF kit = "mvcc" /\ w.trx.made THEN trxes \cup {c} ELSE trxes
    BY <2>1 DEF Execution, Executed, Install
  <2>6. trxes' = {d \in Clients : kit' = "mvcc" /\ conn'[d] = "open" /\ session'[d].trx.made}
    <3>1. session[c].trx.made => w.trx.made
      BY <2>1 DEF Execution
    <3>2. trxes = {d \in Clients : kit = "mvcc" /\ conn[d] = "open" /\ session[d].trx.made}
      BY DEF SessionInv
    <3>3. ASSUME NEW d \in Clients
          PROVE  d \in trxes' <=> kit = "mvcc" /\ conn[d] = "open" /\ session'[d].trx.made
      <4>1. CASE d = c
        BY <2>2, <2>3, <2>5, <3>1, <3>2, <4>1
      <4>2. CASE d # c
        BY <2>2, <2>5, <3>2, <4>2
      <4> QED BY <4>1, <4>2
    <3>4. trxes' \subseteq Clients
      BY <2>5, <3>2
    <3> QED BY <2>3, <3>3, <3>4
  <2>7. ASSUME NEW d \in Clients
        PROVE  /\ session'[d].trx.started /\ ~ session'[d].multi => d \in leftOpen'
               /\ kit' = "vacuous" => ~ session'[d].trx.started
               /\ kit' = "mvcc" /\ session'[d].multi => session'[d].trx.made /\ session'[d].trx.started
               /\ conn'[d] # "open" => session'[d] = NewSession
               /\ client'[d] = "off" <=> conn'[d] = "none"
    <3>1. CASE d = c
      BY <2>1, <2>2, <2>3, <3>1 DEF Execution, SessionInv
    <3>2. CASE d # c
      <4>1. session'[d] = session[d] /\ (d \in leftOpen => d \in leftOpen')
        BY <2>1, <2>2, <3>2 DEF Execution
      <4> QED BY <2>3, <4>1 DEF SessionInv
    <3> QED BY <3>1, <3>2
  <2> QED BY <2>3, <2>4, <2>6, <2>7 DEF SessionInv
<1> QED BY <1>1, <1>2, <1>3, <1>4, <1>5, <1>6, StepKinds

-----------------------------------------------------------------------------
(* Requests and answers.                                                   *)

NoEnd(s) == \A i \in 1..Len(s) : ~ s[i].end

\* The one command of a client that waits is on its way, or being run, or its
\* answer is on its way, or the connection has ended.
Travels(c) == /\ Len(up[c]) = 1 /\ up[c][1].n = asked[c]
              /\ ~ Busy(c) /\ down[c] = <<>>
IsRun(c) == /\ up[c] = <<>> /\ Busy(c) /\ loop.req.n = asked[c]
            /\ loop.step = "run" => down[c] = <<>>
            /\ NoEnd(down[c])
Answered(c) == LET n == Len(down[c])
               IN /\ up[c] = <<>> /\ ~ Busy(c) /\ n > 0
                  /\ down[c][n].end /\ down[c][n].of = asked[c]
                  /\ \A i \in 1..n : i < n => ~ down[c][i].end
Ended(c) == conn[c] = "closed" /\ up[c] = <<>> /\ ~ Busy(c) /\ down[c] = <<>>

\* Nothing of a client that is not waiting is on its way.
Quiet(c) == up[c] = <<>> /\ ~ Busy(c) /\ down[c] = <<>> /\ heard[c] = asked[c]

StreamTypes(c) == /\ asked[c] \in 0..MaxCommands[c] /\ heard[c] \in 0..asked[c]
                  /\ up[c] \in Seq(Requests(c)) /\ down[c] \in Seq(Pieces(c))

\* Nothing on its way is about a command that was not sent.
OnlyAsked(c) == /\ \A i \in 1..Len(up[c]) : up[c][i].n <= asked[c]
                /\ \A i \in 1..Len(down[c]) : down[c][i].of <= asked[c]
                /\ Busy(c) => loop.req.n <= asked[c]

OneAtATime(c) ==
  IF client[c] = "waiting" THEN Travels(c) \/ IsRun(c) \/ Answered(c) \/ Ended(c) ELSE Quiet(c)

ClientInv(c) == /\ StreamTypes(c)
                /\ client[c] # "left" => OnlyAsked(c)
                /\ client[c] # "left" /\ c \notin doubled => OneAtATime(c)

AnswerInv == \A c \in Clients : ClientInv(c)

\* A client that a step does not concern.
Untouched(d) ==
  /\ client'[d] = client[d] /\ asked'[d] = asked[d] /\ heard'[d] = heard[d]
  /\ up'[d] = up[d] /\ down'[d] = down[d]
  /\ d \in doubled' <=> d \in doubled
  /\ conn[d] = "closed" => conn'[d] = "closed"
  /\ Busy(d)' <=> Busy(d)
  /\ Busy(d) => loop' = loop

LEMMA Frame ==
  ASSUME NEW d \in Clients, ClientInv(d), Untouched(d) PROVE ClientInv(d)'
<1>1. StreamTypes(d)'
  BY DEF ClientInv, StreamTypes, Untouched, Requests, Pieces
<1>2. OnlyAsked(d) => OnlyAsked(d)'
  BY DEF OnlyAsked, Untouched
<1>3. OneAtATime(d) => OneAtATime(d)'
  BY DEF OneAtATime, Travels, IsRun, Answered, Ended, Quiet, NoEnd, Untouched
<1> QED BY <1>1, <1>2, <1>3 DEF ClientInv, Untouched

\* A nonempty set of naturals has a least element.
LEMMA LeastExists ==
  ASSUME NEW T, T \subseteq Nat, T # {}
  PROVE  \E x \in T : \A y \in T : x <= y
<1>1. PICK x \in T : \A y \in T : ~ (<<y, x>> \in OpToRel(<, Nat))
  BY NatLessThanWellFounded, WFMin
<1>2. ASSUME NEW y \in T PROVE x <= y
  <2>1. ~(y < x)
    BY <1>1 DEF OpToRel
  <2> QED BY <2>1
<1> QED BY <1>2

\* What is left of a stream when its first k pieces are taken.
LEMMA Rest ==
  ASSUME NEW S, NEW s \in Seq(S), NEW k \in 1..Len(s)
  PROVE  LET r == SubSeq(s, k + 1, Len(s))
         IN /\ r \in Seq(S) /\ Len(r) = Len(s) - k
            /\ \A i \in 1..Len(r) : r[i] = s[k + i]
            /\ k = Len(s) => r = <<>>
<1> DEFINE r == SubSeq(s, k + 1, Len(s))
<1>1. Len(s) \in Nat /\ k \in Nat /\ k <= Len(s)
  BY LenProperties
<1>2. \A i \in k + 1 .. Len(s) : s[i] \in S
  BY <1>1, ElementOfSeq
<1>3. /\ r \in Seq(S)
      /\ Len(r) = IF k + 1 <= Len(s) THEN Len(s) - (k + 1) + 1 ELSE 0
      /\ \A i \in 1 .. Len(s) - (k + 1) + 1 : r[i] = s[k + 1 + i - 1]
  BY <1>1, <1>2, SubSeqProperties
<1> HIDE DEF r
<1>4. Len(r) = Len(s) - k
  <2>1. CASE k + 1 <= Len(s)
    BY <1>1, <1>3, <2>1
  <2>2. CASE ~(k + 1 <= Len(s))
    <3>1. Len(r) = 0
      BY <1>3, <2>2
    <3>2. k = Len(s)
      BY <1>1, <2>2
    <3> QED BY <1>1, <3>1, <3>2
  <2> QED BY <2>1, <2>2
<1>5. \A i \in 1..Len(r) : r[i] = s[k + i]
  BY <1>1, <1>3, <1>4
<1>6. k = Len(s) => r = <<>>
  BY <1>1, <1>3, <1>4, EmptySeq
<1> QED BY <1>3, <1>4, <1>5, <1>6 DEF r

\* A client that is told about its oldest answer, one piece at a time or many.
LEMMA ReceiveInv ==
  ASSUME TypeOK, NEW c \in Clients, ClientInv(c), NEW k \in 1..Len(down[c]), Receive(c, k)
  PROVE  ClientInv(c)'
<1> DEFINE s == down[c]
           chunk == SubSeq(s, 1, k)
           ends == {i \in 1..k : chunk[i].end}
           first == CHOOSE i \in ends : \A j \in ends : i <= j
           r == SubSeq(s, k + 1, Len(s))
<1>t. /\ s \in Seq(Pieces(c)) /\ Len(s) \in Nat /\ k \in Nat /\ k <= Len(s) /\ 1 <= k
      /\ asked[c] \in 0..MaxCommands[c] /\ heard[c] \in 0..asked[c]
      /\ client \in [Clients -> {"off", "prompt", "waiting", "left"}]
      /\ heard \in [Clients -> Nat] /\ DOMAIN down = Clients /\ asked[c] \in Nat
  <2>1. s \in Seq(Pieces(c)) /\ asked[c] \in 0..MaxCommands[c] /\ heard[c] \in 0..asked[c]
    BY DEF ClientInv, StreamTypes
  <2>2. Len(s) \in Nat
    BY <2>1, LenProperties
  <2>3. k \in Nat /\ k <= Len(s) /\ 1 <= k
    BY <2>2
  <2> QED BY <2>1, <2>2, <2>3 DEF TypeOK
<1>1. /\ client[c] = "waiting" /\ down'[c] = r
      /\ IF ends = {} THEN client' = client /\ heard' = heard
         ELSE /\ client' = [client EXCEPT ![c] = "prompt"]
              /\ heard' = [heard EXCEPT ![c] = chunk[first].of]
      /\ UNCHANGED <<asked, up, conn, loop, doubled>>
  BY <1>t DEF Receive
<1>2. \A i \in 1..k : chunk[i] = s[i]
  <2>1. \A i \in 1..k : s[i] \in Pieces(c)
    BY <1>t, ElementOfSeq
  <2>2. \A i \in 1 .. k - 1 + 1 : chunk[i] = s[1 + i - 1]
    BY <1>t, <2>1, SubSeqProperties
  <2> QED BY <1>t, <2>2
<1>3. /\ r \in Seq(Pieces(c)) /\ Len(r) = Len(s) - k
      /\ \A i \in 1..Len(r) : r[i] = s[k + i]
      /\ k = Len(s) => r = <<>>
  BY <1>t, Rest
<1>4. ends # {} => first \in ends
  <2>1. ends \subseteq Nat
    BY <1>t
  <2> HIDE DEF ends
  <2> QED BY <2>1, LeastExists
<1>5. OnlyAsked(c) /\ (c \notin doubled => OneAtATime(c))
  BY <1>1 DEF ClientInv
<1>6. ends # {} => s[first].end /\ first \in 1..k /\ chunk[first] = s[first]
  BY <1>2, <1>4
<1>7. \A i \in 1..k : s[i].end => ends # {}
  BY <1>2
<1>b. /\ Busy(c)' <=> Busy(c)
      /\ loop' = loop /\ asked'[c] = asked[c] /\ up'[c] = up[c]
  BY <1>1 DEF Busy
<1> HIDE DEF s, chunk, ends, first, r
<1>8. OnlyAsked(c)'
  <2>1. \A i \in 1..Len(s) : s[i].of <= asked[c]
    BY <1>5 DEF OnlyAsked, s
  <2>2. ASSUME NEW i \in 1..Len(r) PROVE r[i].of <= asked[c]
    <3>1. k + i \in 1..Len(s)
      BY <1>t, <1>3
    <3> QED BY <1>3, <2>1, <3>1
  <2> QED BY <1>1, <1>5, <1>b, <2>2 DEF OnlyAsked
<1>9. StreamTypes(c)'
  <2>1. ends # {} => chunk[first].of \in 0..asked[c]
    <3> SUFFICES ASSUME ends # {} PROVE chunk[first].of \in 0..asked[c]
      OBVIOUS
    <3>1. first \in 1..Len(s) /\ chunk[first] = s[first]
      BY <1>t, <1>6
    <3>2. s[first] \in Pieces(c)
      BY <1>t, <3>1, ElementOfSeq
    <3>3. s[first].of \in Nat
      BY <3>2 DEF Pieces
    <3>4. s[first].of <= asked[c]
      BY <1>5, <3>1 DEF OnlyAsked, s
    <3> QED BY <1>t, <3>1, <3>3, <3>4
  <2>2. heard'[c] \in 0..asked[c]
    BY <1>t, <1>1, <2>1
  <2> QED BY <1>t, <1>1, <1>3, <1>b, <2>2 DEF ClientInv, StreamTypes, Pieces, Requests
<1>10. ASSUME c \notin doubled PROVE OneAtATime(c)'
  <2>1. s # <<>> /\ Len(s) > 0
    BY <1>t
  <2>2. IsRun(c) \/ Answered(c)
    BY <1>1, <1>5, <1>10, <2>1 DEF OneAtATime, Travels, Ended, s
  <2>3. CASE IsRun(c)
    <3>1. NoEnd(s) /\ loop.step # "run"
      BY <2>1, <2>3 DEF IsRun, s
    <3>2. ends = {}
      BY <1>t, <1>6, <3>1 DEF NoEnd
    <3>3. NoEnd(r)
      <4>1. ASSUME NEW i \in 1..Len(r) PROVE k + i \in 1..Len(s)
        BY <1>t, <1>3
      <4> QED BY <1>3, <3>1, <4>1 DEF NoEnd
    <3>4. IsRun(c)'
      BY <1>1, <1>b, <2>3, <3>1, <3>3 DEF IsRun
    <3> QED BY <1>1, <3>2, <3>4 DEF OneAtATime
  <2>4. CASE Answered(c)
    <3>1. /\ up[c] = <<>> /\ ~ Busy(c) /\ s[Len(s)].end /\ s[Len(s)].of = asked[c]
          /\ \A i \in 1..Len(s) : i < Len(s) => ~ s[i].end
      BY <2>4 DEF Answered, s
    <3>2. CASE k = Len(s)
      <4>1. ends # {}
        BY <1>t, <1>7, <3>1, <3>2
      <4>2. first = Len(s)
        BY <1>t, <1>6, <3>1, <3>2, <4>1
      <4>3. heard'[c] = asked[c] /\ client'[c] = "prompt"
        BY <1>t, <1>1, <1>6, <3>1, <4>1, <4>2
      <4>4. Quiet(c)'
        BY <1>1, <1>3, <1>b, <3>1, <3>2, <4>3 DEF Quiet
      <4> QED BY <4>3, <4>4 DEF OneAtATime
    <3>3. CASE k < Len(s)
      <4>1. ends = {}
        <5> SUFFICES ASSUME ends # {} PROVE FALSE
          OBVIOUS
        <5>1. first \in 1..Len(s) /\ first < Len(s) /\ s[first].end
          BY <1>t, <1>6, <3>3
        <5> QED BY <3>1, <5>1
      <4>2. Len(r) > 0 /\ r[Len(r)] = s[Len(s)]
        <5>1. Len(r) \in 1..Len(r) /\ Len(r) > 0 /\ k + Len(r) = Len(s)
          BY <1>t, <1>3, <3>3
        <5>2. r[Len(r)] = s[k + Len(r)]
          BY <1>3, <5>1
        <5> QED BY <5>1, <5>2
      <4>3. ASSUME NEW i \in 1..Len(r), i < Len(r) PROVE ~ r[i].end
        <5>1. k + i \in 1..Len(s) /\ k + i < Len(s)
          BY <1>t, <1>3, <4>3
        <5> QED BY <1>3, <3>1, <5>1
      <4>4. Answered(c)'
        <5>1. down'[c] = r /\ ~ Busy(c)' /\ up'[c] = <<>>
          BY <1>1, <1>b, <3>1
        <5>2. r[Len(r)].end /\ r[Len(r)].of = asked'[c]
          BY <1>b, <3>1, <4>2
        <5> QED BY <4>2, <4>3, <5>1, <5>2 DEF Answered
      <4> QED BY <1>1, <4>1, <4>4 DEF OneAtATime
    <3> QED BY <1>t, <3>2, <3>3
  <2> QED BY <2>2, <2>3, <2>4
<1> QED BY <1>1, <1>8, <1>9, <1>10 DEF ClientInv

\* A client that types a command: nothing of it was on its way.
LEMMA SendInv ==
  ASSUME TypeOK, NEW c \in Clients, ClientInv(c), NEW q \in Repertoire[c], Send(c, q)
  PROVE  ClientInv(c)'
<1> DEFINE e == [n |-> asked[c] + 1, stmt |-> q]
<1>t. /\ up[c] \in Seq(Requests(c)) /\ DOMAIN up = Clients /\ Len(up[c]) \in Nat
      /\ asked \in [Clients -> Nat] /\ asked[c] \in Nat /\ MaxCommands[c] \in Nat
      /\ client \in [Clients -> {"off", "prompt", "waiting", "left"}]
  BY ServerAssumption DEF TypeOK
<1>1. /\ client[c] = "prompt" /\ asked[c] < MaxCommands[c]
      /\ client'[c] = "waiting" /\ asked'[c] = asked[c] + 1
      /\ conn[c] = "closed" => up'[c] = up[c]
      /\ conn[c] # "closed" => up'[c] = Append(up[c], e)
      /\ UNCHANGED <<heard, down, conn, loop, doubled>>
  BY <1>t DEF Send
<1>2. e \in Requests(c) /\ e.n = asked'[c]
  BY <1>t, <1>1 DEF Requests
<1> HIDE DEF e
<1>3. /\ Append(up[c], e) \in Seq(Requests(c))
      /\ Len(Append(up[c], e)) = Len(up[c]) + 1
      /\ \A i \in 1..Len(up[c]) : Append(up[c], e)[i] = up[c][i]
      /\ Append(up[c], e)[Len(up[c]) + 1] = e
  BY <1>t, <1>2, AppendProperties
<1>b. Busy(c)' <=> Busy(c)
  BY <1>1 DEF Busy
<1>4. StreamTypes(c)'
  <2>1. up'[c] \in Seq(Requests(c))
    BY <1>t, <1>1, <1>3
  <2>2. asked'[c] \in 0..MaxCommands[c] /\ heard'[c] \in 0..asked'[c]
    BY <1>t, <1>1 DEF ClientInv, StreamTypes
  <2> QED BY <1>1, <2>1, <2>2 DEF ClientInv, StreamTypes, Requests, Pieces
<1>5. OnlyAsked(c)'
  <2>o. OnlyAsked(c)
    BY <1>1 DEF ClientInv
  <2>1. ASSUME NEW i \in 1..Len(up'[c]) PROVE up'[c][i].n <= asked'[c]
    <3>1. ASSUME NEW j \in 1..Len(up[c]) PROVE up[c][j].n \in Nat
      <4>1. up[c][j] \in Requests(c)
        BY <1>t, <3>1, ElementOfSeq
      <4> QED BY <4>1 DEF Requests
    <3>2. \A j \in 1..Len(up[c]) : up[c][j].n <= asked'[c]
      BY <1>t, <1>1, <2>o, <3>1 DEF OnlyAsked
    <3>3. CASE conn[c] = "closed"
      BY <1>1, <2>1, <3>2, <3>3
    <3>4. CASE conn[c] # "closed"
      <4>1. i \in 1..Len(up[c]) \/ i = Len(up[c]) + 1
        BY <1>t, <1>1, <1>3, <2>1, <3>4
      <4>2. CASE i \in 1..Len(up[c])
        BY <1>1, <1>3, <3>2, <3>4, <4>2
      <4>3. CASE i = Len(up[c]) + 1
        <5>1. up'[c][i] = e /\ asked'[c] \in Nat
          BY <1>t, <1>1, <1>3, <3>4, <4>3
        <5> QED BY <1>2, <5>1
      <4> QED BY <4>1, <4>2, <4>3
    <3> QED BY <3>3, <3>4
  <2>2. ASSUME NEW i \in 1..Len(down[c]) PROVE down[c][i].of <= asked'[c]
    <3>1. down[c][i] \in Pieces(c)
      BY <2>2, ElementOfSeq DEF ClientInv, StreamTypes
    <3>2. down[c][i].of \in Nat /\ down[c][i].of <= asked[c]
      BY <2>o, <2>2, <3>1 DEF OnlyAsked, Pieces
    <3> QED BY <1>t, <1>1, <3>2
  <2>3. Busy(c)' => loop'.req.n <= asked'[c]
    <3> SUFFICES ASSUME Busy(c) PROVE loop.req.n <= asked'[c]
      BY <1>1, <1>b
    <3>1. loop.req.n \in Nat
      BY DEF Busy, TypeOK, Dispatch, Requests
    <3>2. loop.req.n <= asked[c]
      BY <2>o DEF OnlyAsked
    <3> QED BY <1>t, <1>1, <3>1, <3>2
  <2> QED BY <1>1, <2>1, <2>2, <2>3 DEF OnlyAsked
<1>6. ASSUME c \notin doubled PROVE OneAtATime(c)'
  <2>1. Quiet(c)
    BY <1>1, <1>6 DEF ClientInv, OneAtATime
  <2>2. CASE conn[c] = "closed"
    <3>1. Ended(c)'
      BY <1>1, <1>b, <2>1, <2>2 DEF Quiet, Ended
    <3> QED BY <1>1, <3>1 DEF OneAtATime
  <2>3. CASE conn[c] # "closed"
    <3>1. Len(up[c]) = 0
      BY <2>1 DEF Quiet
    <3>2. Len(up'[c]) = 1 /\ up'[c][1] = e
      <4>1. Len(up[c]) + 1 = 1 /\ up'[c] = Append(up[c], e)
        BY <1>1, <2>3, <3>1
      <4> QED BY <1>3, <4>1
    <3>3. Travels(c)'
      BY <1>1, <1>2, <1>b, <2>1, <3>2 DEF Quiet, Travels
    <3> QED BY <1>1, <3>3 DEF OneAtATime
  <2> QED BY <2>2, <2>3
<1> QED BY <1>1, <1>4, <1>5, <1>6 DEF ClientInv

\* A client that goes away has no more claims.
LEMMA LeaveInv ==
  ASSUME TypeOK, NEW c \in Clients, ClientInv(c), ReceiveEnd(c) \/ Leave(c)
  PROVE  ClientInv(c)'
<1>t. /\ DOMAIN down = Clients /\ MaxCommands[c] \in Nat
      /\ asked \in [Clients -> Nat] /\ heard \in [Clients -> Nat]
      /\ client \in [Clients -> {"off", "prompt", "waiting", "left"}]
  BY ServerAssumption DEF TypeOK
<1>1. /\ client'[c] = "left" /\ asked'[c] = 0 /\ heard'[c] = 0 /\ up' = up
      /\ down'[c] = down[c] \/ down'[c] = <<>>
  BY <1>t DEF ReceiveEnd, Leave, ClientExit
<1>2. StreamTypes(c)'
  <2>1. down'[c] \in Seq(Pieces(c)) /\ up'[c] \in Seq(Requests(c))
    <3>1. /\ down[c] \in Seq(Pieces(c)) /\ up[c] \in Seq(Requests(c))
          /\ <<>> \in Seq(Pieces(c))
      BY EmptySeq DEF ClientInv, StreamTypes
    <3> QED BY <1>1, <3>1
  <2>2. asked'[c] \in 0..MaxCommands[c] /\ heard'[c] \in 0..asked'[c]
    BY <1>t, <1>1
  <2> QED BY <2>1, <2>2 DEF StreamTypes, Requests, Pieces
<1> QED BY <1>1, <1>2 DEF ClientInv

\* The end of a connection, when none of its requests is being run.
LEMMA CloseInv ==
  ASSUME TypeOK, NEW c \in Clients, ClientInv(c),
         client'[c] = client[c], asked'[c] = asked[c], heard'[c] = heard[c],
         up'[c] = <<>>, down'[c] = down[c], c \in doubled' <=> c \in doubled,
         conn'[c] = "closed" \/ client[c] = "off", ~ Busy(c), ~ Busy(c)'
  PROVE  ClientInv(c)'
<1>1. StreamTypes(c)'
  <2>1. <<>> \in Seq(Requests(c))
    BY EmptySeq
  <2> QED BY <2>1 DEF ClientInv, StreamTypes, Requests, Pieces
<1>2. OnlyAsked(c) => OnlyAsked(c)'
  <2>1. \A i \in 1..Len(<<>>) : FALSE
    OBVIOUS
  <2> QED BY <2>1 DEF OnlyAsked
<1>3. OneAtATime(c) => OneAtATime(c)'
  <2>1. Travels(c) /\ client[c] = "waiting" => Ended(c)'
    BY DEF Travels, Ended
  <2>2. ~ IsRun(c)
    BY DEF IsRun
  <2>3. Answered(c) => Answered(c)'
    BY DEF Answered
  <2>4. Ended(c) /\ client[c] = "waiting" => Ended(c)'
    BY DEF Ended
  <2>5. Quiet(c) => Quiet(c)'
    BY DEF Quiet
  <2> QED BY <2>1, <2>2, <2>3, <2>4, <2>5 DEF OneAtATime
<1> QED BY <1>1, <1>2, <1>3 DEF ClientInv

\* The loop takes a request: the oldest, and there is no other.
LEMMA RecvInv ==
  ASSUME TypeOK, NEW c \in Clients, ClientInv(c), NEW k \in 1..Len(up[c]), Recv(c, k)
  PROVE  ClientInv(c)'
<1> DEFINE s == up[c]
           r == SubSeq(s, k + 1, Len(s))
<1>t. s \in Seq(Requests(c)) /\ Len(s) \in Nat /\ DOMAIN up = Clients
  BY LenProperties DEF ClientInv, StreamTypes, TypeOK
<1>1. /\ loop.step = "dispatch" /\ up'[c] = r
      /\ loop' = [step |-> "run", of |-> c, req |-> Head(s), drop |-> FALSE]
      /\ UNCHANGED <<client, asked, heard, down, conn, doubled>>
  BY <1>t DEF Recv
<1>2. Head(s) = s[1] /\ 1 \in 1..Len(s)
  BY <1>t
<1>3. /\ r \in Seq(Requests(c)) /\ Len(r) = Len(s) - k
      /\ \A i \in 1..Len(r) : r[i] = s[k + i]
      /\ k = Len(s) => r = <<>>
  BY <1>t, Rest
<1> HIDE DEF s, r
<1>4. ~ Busy(c) /\ Busy(c)' /\ loop'.step = "run" /\ loop'.req = s[1]
  BY <1>1, <1>2 DEF Busy
<1>5. StreamTypes(c)'
  BY <1>1, <1>3 DEF ClientInv, StreamTypes, Requests, Pieces
<1>6. OnlyAsked(c) => OnlyAsked(c)'
  <2> SUFFICES ASSUME OnlyAsked(c) PROVE OnlyAsked(c)'
    OBVIOUS
  <2>1. \A i \in 1..Len(s) : s[i].n <= asked[c]
    BY DEF OnlyAsked, s
  <2>2. ASSUME NEW i \in 1..Len(r) PROVE r[i].n <= asked[c]
    <3>1. k + i \in 1..Len(s)
      BY <1>t, <1>3
    <3> QED BY <1>3, <2>1, <3>1
  <2>3. loop'.req.n <= asked[c]
    BY <1>2, <1>4, <2>1
  <2> QED BY <1>1, <2>2, <2>3 DEF OnlyAsked
<1>7. OneAtATime(c) => OneAtATime(c)'
  <2> SUFFICES ASSUME OneAtATime(c) PROVE OneAtATime(c)'
    OBVIOUS
  <2>1. up[c] # <<>>
    BY <1>t, <1>2 DEF s
  <2>2. client[c] = "waiting" /\ Travels(c)
    BY <2>1, <1>4 DEF OneAtATime, IsRun, Answered, Ended, Quiet
  <2>3. Len(s) = 1 /\ s[1].n = asked[c] /\ down[c] = <<>>
    BY <2>2 DEF Travels, s
  <2>4. r = <<>>
    BY <1>t, <1>3, <2>3 DEF s
  <2>5. NoEnd(<<>>)
    BY DEF NoEnd
  <2>6. IsRun(c)'
    BY <1>1, <1>4, <2>3, <2>4, <2>5 DEF IsRun
  <2> QED BY <1>1, <2>2, <2>6 DEF OneAtATime
<1> QED BY <1>1, <1>5, <1>6, <1>7 DEF ClientInv

\* BufferedWriter::flush for the request that is being run.
LEMMA Flushed ==
  ASSUME TypeOK, NEW c \in Clients, ClientInv(c), Busy(c),
         NEW pieces \in Seq(Answer), Flush(c, pieces)
  PROVE  /\ down'[c] \in Seq(Pieces(c))
         /\ client[c] # "left" =>
              /\ Len(down'[c]) = Len(down[c]) + Len(pieces)
              /\ \A i \in 1..Len(down[c]) : down'[c][i] = down[c][i]
              /\ \A i \in 1..Len(pieces) : down'[c][Len(down[c]) + i] = pieces[i]
              /\ \A i \in 1..Len(down'[c]) : down'[c][i].of <= asked[c]
<1>1. loop.req \in Requests(c) /\ DOMAIN down = Clients /\ down[c] \in Seq(Pieces(c))
  BY DEF TypeOK, Busy, Dispatch
<1>2. Answer \subseteq Pieces(c)
  BY <1>1 DEF Answer, Pieces, Requests
<1>3. pieces \in Seq(Pieces(c)) /\ Len(pieces) \in Nat /\ Len(down[c]) \in Nat
  BY <1>1, <1>2
<1>4. CASE client[c] = "left"
  BY <1>1, <1>4 DEF Flush
<1>5. CASE client[c] # "left"
  <2>1. down'[c] = down[c] \o pieces
    BY <1>1, <1>5 DEF Flush
  <2>2. /\ down'[c] \in Seq(Pieces(c)) /\ Len(down'[c]) = Len(down[c]) + Len(pieces)
        /\ \A i \in 1..Len(down[c]) + Len(pieces) :
             down'[c][i] = IF i <= Len(down[c]) THEN down[c][i] ELSE pieces[i - Len(down[c])]
    BY <1>1, <1>3, <2>1, ConcatProperties
  <2>3. \A i \in 1..Len(down[c]) : down'[c][i] = down[c][i]
    BY <1>3, <2>2
  <2>4. ASSUME NEW i \in 1..Len(pieces) PROVE down'[c][Len(down[c]) + i] = pieces[i]
    <3> DEFINE j == Len(down[c]) + i
    <3>1. /\ j \in 1..Len(down[c]) + Len(pieces)
          /\ ~(j <= Len(down[c])) /\ j - Len(down[c]) = i
      BY <1>3
    <3> HIDE DEF j
    <3>2. down'[c][j] = pieces[i]
      BY <2>2, <3>1
    <3> QED BY <3>2 DEF j
  <2>5. OnlyAsked(c)
    BY <1>5 DEF ClientInv
  <2>6. ASSUME NEW i \in 1..Len(down'[c]) PROVE down'[c][i].of <= asked[c]
    <3>1. CASE i <= Len(down[c])
      <4>1. i \in 1..Len(down[c])
        BY <1>3, <2>2, <3>1
      <4> QED BY <2>3, <2>5, <4>1 DEF OnlyAsked
    <3>2. CASE ~(i <= Len(down[c]))
      <4>1. i - Len(down[c]) \in 1..Len(pieces) /\ i = Len(down[c]) + (i - Len(down[c]))
        BY <1>3, <2>2, <3>2
      <4>2. down'[c][i] = pieces[i - Len(down[c])]
        BY <2>4, <4>1
      <4>3. pieces[i - Len(down[c])] \in Answer
        BY <4>1, ElementOfSeq
      <4> QED BY <2>5, <4>2, <4>3 DEF OnlyAsked, Answer
    <3> QED BY <3>1, <3>2
  <2> QED BY <2>2, <2>3, <2>4, <2>6
<1> QED BY <1>4, <1>5

\* The piece that ends an answer, sent by the last step of a request: planQuery
\* failed, or the cost.
LEMMA AnswerSent ==
  ASSUME TypeOK, NEW c \in Clients, ClientInv(c), Busy(c),
         NEW text \in {"state", "cost"}, Flush(c, Piece(text, TRUE)),
         client'[c] = client[c], asked'[c] = asked[c], heard'[c] = heard[c],
         c \in doubled' <=> c \in doubled, up'[c] = up[c] \/ up'[c] = <<>>, ~ Busy(c)'
  PROVE  ClientInv(c)'
<1> DEFINE p == Piece(text, TRUE)
<1>1. p \in Seq(Answer) /\ Len(p) = 1 /\ p[1].end /\ p[1].of = loop.req.n
  BY DEF Piece, Answer
<1>2. /\ down'[c] \in Seq(Pieces(c))
      /\ client[c] # "left" =>
           /\ Len(down'[c]) = Len(down[c]) + Len(p)
           /\ \A i \in 1..Len(down[c]) : down'[c][i] = down[c][i]
           /\ \A i \in 1..Len(p) : down'[c][Len(down[c]) + i] = p[i]
           /\ \A i \in 1..Len(down'[c]) : down'[c][i].of <= asked[c]
  BY <1>1, Flushed
<1> HIDE DEF p
<1>3. <<>> \in Seq(Requests(c)) /\ \A i \in 1..Len(<<>>) : FALSE
  BY EmptySeq
<1>4. StreamTypes(c)'
  BY <1>2, <1>3 DEF ClientInv, StreamTypes, Requests, Pieces
<1>5. client[c] # "left" => OnlyAsked(c)'
  <2> SUFFICES ASSUME client[c] # "left" PROVE OnlyAsked(c)'
    OBVIOUS
  <2>1. OnlyAsked(c)
    BY DEF ClientInv
  <2>2. \A i \in 1..Len(up'[c]) : up'[c][i].n <= asked[c]
    BY <1>3, <2>1 DEF OnlyAsked
  <2> QED BY <1>2, <2>2 DEF OnlyAsked
<1>6. client[c] # "left" /\ c \notin doubled => OneAtATime(c)'
  <2> SUFFICES ASSUME client[c] # "left", c \notin doubled PROVE OneAtATime(c)'
    OBVIOUS
  <2>1. client[c] = "waiting" /\ IsRun(c)
    BY DEF ClientInv, OneAtATime, Travels, Answered, Ended, Quiet
  <2>2. NoEnd(down[c]) /\ loop.req.n = asked[c] /\ up[c] = <<>>
    BY <2>1 DEF IsRun
  <2>3. Len(down[c]) \in Nat
    BY LenProperties DEF ClientInv, StreamTypes
  <2>4. /\ Len(down'[c]) = Len(down[c]) + 1 /\ down'[c][Len(down[c]) + 1] = p[1]
        /\ \A i \in 1..Len(down[c]) : down'[c][i] = down[c][i]
    <3>1. 1 \in 1..Len(p)
      BY <1>1
    <3> QED BY <1>1, <1>2, <3>1
  <2>5. Len(down'[c]) > 0
    BY <2>3, <2>4
  <2>6. ASSUME NEW i \in 1..Len(down'[c]), i < Len(down'[c]) PROVE ~ down'[c][i].end
    <3>1. i \in 1..Len(down[c])
      BY <2>3, <2>4, <2>6
    <3> QED BY <2>2, <2>4, <3>1 DEF NoEnd
  <2>7. Answered(c)'
    BY <1>1, <2>2, <2>4, <2>5, <2>6 DEF Answered
  <2> QED BY <2>1, <2>7 DEF OneAtATime
<1> QED BY <1>4, <1>5, <1>6 DEF ClientInv

\* The first flush of a statement: either it does not end the answer, or the
\* client is one that got an answer in two messages.
LEMMA ExecuteInv ==
  ASSUME TypeOK, NEW c \in Clients, ClientInv(c), Executes(c)
  PROVE  ClientInv(c)'
<1>0. loop \in [step : {"run", "cost"}, of : {c}, req : Requests(c), drop : BOOLEAN]
      /\ loop.step = "run" /\ loop.of = c
  BY DEF Executes, TypeOK, Dispatch
<1>1. PICK w, multi, pieces, drop : Execution(c, w, multi, pieces, drop)
  BY DEF Executes
<1>2. /\ pieces \in Seq(Answer) /\ Flush(c, pieces)
      /\ loop' = [loop EXCEPT !.step = "cost", !.drop = drop]
      /\ doubled' = IF (\E i \in DOMAIN pieces : pieces[i].end) /\ client[c] # "left"
                     THEN doubled \cup {c} ELSE doubled
      /\ UNCHANGED <<client, asked, heard, up, conn>>
  BY <1>1 DEF Execution, Executed
<1>3. Busy(c) /\ Busy(c)' /\ loop'.step = "cost" /\ loop'.req = loop.req
  BY <1>0, <1>2 DEF Busy
<1>4. /\ down'[c] \in Seq(Pieces(c))
      /\ client[c] # "left" =>
           /\ Len(down'[c]) = Len(down[c]) + Len(pieces)
           /\ \A i \in 1..Len(down[c]) : down'[c][i] = down[c][i]
           /\ \A i \in 1..Len(pieces) : down'[c][Len(down[c]) + i] = pieces[i]
           /\ \A i \in 1..Len(down'[c]) : down'[c][i].of <= asked[c]
  BY <1>2, <1>3, Flushed
<1>5. StreamTypes(c)'
  BY <1>2, <1>4 DEF ClientInv, StreamTypes, Requests, Pieces
<1>6. client[c] # "left" => OnlyAsked(c)'
  BY <1>2, <1>3, <1>4 DEF ClientInv, OnlyAsked
<1>7. ASSUME client[c] # "left", c \notin doubled' PROVE OneAtATime(c)'
  <2>1. c \notin doubled /\ \A i \in DOMAIN pieces : ~ pieces[i].end
    BY <1>2, <1>7
  <2>2. client[c] = "waiting" /\ IsRun(c)
    BY <1>3, <1>7, <2>1 DEF ClientInv, OneAtATime, Travels, Answered, Ended, Quiet
  <2>3. down[c] = <<>> /\ up[c] = <<>> /\ loop.req.n = asked[c]
    BY <1>0, <2>2 DEF IsRun
  <2>4. Len(down[c]) = 0 /\ Len(pieces) \in Nat /\ DOMAIN pieces = 1..Len(pieces)
    BY <1>2, <2>3, LenProperties
  <2>5. NoEnd(down'[c])
    <3>1. ASSUME NEW i \in 1..Len(down'[c]) PROVE ~ down'[c][i].end
      <4>1. i \in 1..Len(pieces) /\ Len(down[c]) + i = i
        BY <1>4, <1>7, <2>4, <3>1
      <4>2. down'[c][i] = pieces[i]
        BY <1>4, <1>7, <4>1
      <4> QED BY <2>1, <2>4, <4>1, <4>2
    <3> QED BY <3>1 DEF NoEnd
  <2>6. IsRun(c)'
    BY <1>2, <1>3, <2>3, <2>5 DEF IsRun
  <2> QED BY <1>2, <2>2, <2>6 DEF OneAtATime
<1> QED BY <1>2, <1>5, <1>6, <1>7 DEF ClientInv

LEMMA AnswerStep ==
  ASSUME TypeOK, LogInv, SessionInv, AnswerInv, [Next]_vars
  PROVE  AnswerInv'
<1>t. /\ client \in [Clients -> {"off", "prompt", "waiting", "left"}]
      /\ asked \in [Clients -> Nat] /\ heard \in [Clients -> Nat]
      /\ DOMAIN up = Clients /\ DOMAIN down = Clients
      /\ conn \in [Clients -> {"none", "pending", "open", "closed"}]
  BY DEF TypeOK
<1>i. \A c \in Clients : ClientInv(c)
  BY DEF AnswerInv
<1>f. ASSUME NEW c \in Clients, ClientInv(c)', \A d \in Clients \ {c} : Untouched(d)
      PROVE  AnswerInv'
  BY <1>f, <1>i, Frame DEF AnswerInv
<1>l. ASSUME NEW c \in Clients, Busy(c)
      PROVE  loop \in [step : {"run", "cost"}, of : {c}, req : Requests(c), drop : BOOLEAN]
  BY <1>l DEF Busy, TypeOK, Dispatch
<1>d. ~ Dispatch.step \in {"run", "cost"}
  BY DEF Dispatch
<1>1. ASSUME NEW c \in Clients, Connect(c) PROVE AnswerInv'
  <2>1. \A d \in Clients \ {c} : Untouched(d)
    BY <1>1, <1>t DEF Connect, Untouched, Busy
  <2>2. client[c] = "off" /\ client'[c] = "prompt" /\ conn[c] # "closed"
        /\ UNCHANGED <<asked, heard, up, down, loop, doubled>>
    BY <1>1, <1>t DEF Connect, SessionInv
  <2>3. ClientInv(c)'
    <3>1. StreamTypes(c)' /\ (OnlyAsked(c) => OnlyAsked(c)') /\ (Quiet(c) => Quiet(c)')
      BY <1>i, <2>2 DEF ClientInv, StreamTypes, OnlyAsked, Quiet, Busy, Requests, Pieces
    <3> QED BY <1>i, <2>2, <3>1 DEF ClientInv, OneAtATime
  <2> QED BY <1>f, <2>1, <2>3
<1>2. ASSUME NEW c \in Clients, NEW s \in Repertoire[c], Send(c, s) PROVE AnswerInv'
  <2>1. \A d \in Clients \ {c} : Untouched(d)
    BY <1>2, <1>t DEF Send, Untouched, Busy
  <2> QED BY <1>2, <1>f, <1>i, <2>1, SendInv
<1>3. ASSUME NEW c \in Clients, NEW k \in 1..Len(down[c]), Receive(c, k) PROVE AnswerInv'
  <2>1. \A d \in Clients \ {c} : Untouched(d)
    BY <1>3, <1>t DEF Receive, Untouched, Busy
  <2> QED BY <1>3, <1>f, <1>i, <2>1, ReceiveInv
<1>4. ASSUME NEW c \in Clients, ReceiveEnd(c) \/ Leave(c) PROVE AnswerInv'
  <2>1. \A d \in Clients \ {c} : Untouched(d)
    BY <1>4, <1>t DEF ReceiveEnd, Leave, ClientExit, Untouched, Busy
  <2> QED BY <1>4, <1>f, <1>i, <2>1, LeaveInv
<1>5. ASSUME NEW c \in Clients, Accept(c) PROVE AnswerInv'
  <2>1. \A d \in Clients : Untouched(d)
    BY <1>5, <1>t DEF Accept, Untouched, Busy, net
  <2> QED BY <1>i, <2>1, Frame DEF AnswerInv
<1>6. ASSUME NEW c \in Clients, AcceptFails(c) \/ RecvEnd(c) PROVE AnswerInv'
  <2>1. \A d \in Clients \ {c} : Untouched(d)
    BY <1>6, <1>t DEF AcceptFails, RecvEnd, CloseConnection, Untouched, Busy
  <2>2. ClientInv(c)'
    BY <1>6, <1>t, <1>i, CloseInv DEF AcceptFails, RecvEnd, CloseConnection, Busy
  <2> QED BY <1>f, <2>1, <2>2
<1>7. ASSUME NEW c \in Clients, NEW k \in 1..Len(up[c]), Recv(c, k) PROVE AnswerInv'
  <2>1. \A d \in Clients \ {c} : Untouched(d)
    BY <1>7, <1>t DEF Recv, Untouched, Busy
  <2> QED BY <1>7, <1>f, <1>i, <2>1, RecvInv
<1>8. ASSUME NEW c \in Clients, Refuse(c) PROVE AnswerInv'
  <2>1. Busy(c)
    BY <1>8 DEF Refuse, Running, Busy
  <2>2. \A d \in Clients \ {c} : Untouched(d)
    BY <1>8, <1>t, <1>l, <1>d, <2>1 DEF Refuse, Flush, Untouched, Busy
  <2>3. ClientInv(c)'
    BY <1>8, <1>i, <1>d, <2>1, AnswerSent DEF Refuse, StateText, Busy
  <2> QED BY <1>f, <2>2, <2>3
<1>9. ASSUME NEW c \in Clients, Executes(c) PROVE AnswerInv'
  <2>1. Busy(c)
    BY <1>9 DEF Executes, Busy
  <2>2. PICK w, multi, pieces, drop : Executed(c, w, multi, pieces, drop)
    BY <1>9 DEF Executes, Execution
  <2>3. loop'.of = c /\ loop.of = c
    BY <1>l, <2>1, <2>2 DEF Executed
  <2>4. \A d \in Clients \ {c} : Untouched(d)
    BY <1>t, <2>2, <2>3 DEF Executed, Flush, Untouched, Busy
  <2> QED BY <1>9, <1>f, <1>i, <2>4, ExecuteInv
<1>10. ASSUME NEW c \in Clients, CostTime(c) PROVE AnswerInv'
  <2>1. Busy(c) /\ ~ Busy(c)'
    BY <1>10, <1>d DEF CostTime, Busy
  <2>2. \A d \in Clients \ {c} : Untouched(d)
    BY <1>10, <1>t, <1>l, <1>d, <2>1 DEF CostTime, CloseConnection, Flush, Untouched, Busy
  <2>3. ClientInv(c)'
    <3>1. up'[c] = up[c] \/ up'[c] = <<>>
      BY <1>10, <1>t DEF CostTime, CloseConnection
    <3> QED BY <1>10, <1>i, <2>1, <3>1, AnswerSent DEF CostTime, CostText
  <2> QED BY <1>f, <2>2, <2>3
<1>11. CASE Quit
  <2> SUFFICES ASSUME NEW c \in Clients PROVE ClientInv(c)'
    BY DEF AnswerInv
  <2>1. /\ up'[c] = <<>> /\ UNCHANGED <<client, asked, heard, down, doubled>>
        /\ conn'[c] = IF conn[c] = "none" THEN "none" ELSE "closed"
    BY <1>11 DEF Quit
  <2>2. ~ Busy(c) /\ ~ Busy(c)'
    BY <1>11 DEF Quit, Busy, TypeOK, Dispatch
  <2>3. conn'[c] = "closed" \/ client[c] = "off"
    BY <2>1 DEF SessionInv
  <2> QED BY <1>i, <2>1, <2>2, <2>3, CloseInv
<1>12. CASE Shutdown \/ Done \/ UNCHANGED vars
  <2>1. \A d \in Clients : Untouched(d)
    BY <1>12 DEF Shutdown, Done, vars, net, Untouched, Busy
  <2> QED BY <1>i, <2>1, Frame DEF AnswerInv
<1>13. ASSUME NEW c \in Clients, Statement(c) PROVE AnswerInv'
  <2>1. Kit /\ TrxTypes
    BY DEF TypeOK, Kit, TrxTypes, Trx, Entry
  <2> QED BY <1>9, <1>13, <2>1, Statements
<1> QED
  BY <1>1, <1>2, <1>3, <1>4, <1>5, <1>6, <1>7, <1>8, <1>10, <1>11, <1>12, <1>13
     DEF Next, EventLoop, Process, ClientReads, Statement

-----------------------------------------------------------------------------
(* The invariant and the theorems.                                         *)

LoopType ==
  \/ loop \in {Dispatch, [Dispatch EXCEPT !.step = "stopped"]}
  \/ \E c \in Clients :
       loop \in [step : {"run", "cost"}, of : {c}, req : Requests(c), drop : BOOLEAN]

RestTypes ==
  /\ kit \in {"vacuous", "mvcc"}
  /\ client \in [Clients -> {"off", "prompt", "waiting", "left"}]
  /\ asked \in [Clients -> Nat] /\ heard \in [Clients -> Nat]
  /\ DOMAIN up = Clients /\ DOMAIN down = Clients
  /\ conn \in [Clients -> {"none", "pending", "open", "closed"}]
  /\ trxes \subseteq Clients /\ doubled \subseteq Clients /\ leftOpen \subseteq Clients
  /\ started \in BOOLEAN /\ LoopType

LEMMA TypeParts ==
  TypeOK <=> RestTypes /\ TrxTypes /\ \A c \in Clients : StreamTypes(c)
BY DEF TypeOK, RestTypes, LoopType, TrxTypes, StreamTypes, Trx, Entry

LEMMA TypeStep ==
  ASSUME TypeOK, LogInv, SessionInv, AnswerInv, [Next]_vars
  PROVE  TypeOK'
<1>a. AnswerInv' /\ \A c \in Clients : StreamTypes(c)'
  BY AnswerStep DEF AnswerInv, ClientInv
<1>l. TrxTypes'
  BY LogStep
<1>t. RestTypes
  BY TypeParts
<1>x. trxes' \subseteq Clients
  <2>1. SessionInv'
    BY SessionStep
  <2> QED BY <2>1 DEF SessionInv
<1>k. loop' = loop => LoopType'
  BY <1>t DEF RestTypes, LoopType, Requests
<1>1. ASSUME NEW c \in Clients, NEW s \in Repertoire[c], Send(c, s) PROVE RestTypes'
  BY <1>1, <1>t, <1>x, <1>k DEF RestTypes, Send
<1>10. ASSUME NEW c \in Clients, Connect(c) PROVE RestTypes'
  BY <1>10, <1>t, <1>x, <1>k DEF RestTypes, Connect
<1>11. ASSUME NEW c \in Clients, ReceiveEnd(c) \/ Leave(c) PROVE RestTypes'
  <2>1. ClientExit(c) /\ loop' = loop /\ UNCHANGED <<kit, up, conn, started, leftOpen>>
    BY <1>11 DEF ReceiveEnd, Leave
  <2>2. DOMAIN down' = Clients
    BY <1>11, <1>t DEF ReceiveEnd, Leave, RestTypes
  <2> QED BY <1>t, <1>x, <1>k, <2>1, <2>2 DEF RestTypes, ClientExit
<1>2. ASSUME NEW c \in Clients, NEW k \in 1..Len(down[c]), Receive(c, k) PROVE RestTypes'
  <2>1. asked'[c] \in Nat /\ heard'[c] \in 0..asked'[c]
    BY <1>2, <1>t, <1>a DEF RestTypes, StreamTypes, Receive
  <2>2. heard'[c] \in Nat
    BY <2>1
  <2>3. client' \in [Clients -> {"off", "prompt", "waiting", "left"}]
    BY <1>2, <1>t DEF RestTypes, Receive
  <2>4. heard' \in [Clients -> Nat]
    <3>1. heard' = heard \/ \E x : heard' = [heard EXCEPT ![c] = x]
      BY <1>2 DEF Receive
    <3> QED BY <1>t, <2>2, <3>1 DEF RestTypes
  <2>5. /\ UNCHANGED <<kit, asked, up, conn, started, loop, doubled, leftOpen>>
        /\ DOMAIN down' = Clients
    BY <1>2, <1>t DEF RestTypes, Receive
  <2> QED BY <1>t, <1>x, <1>k, <2>3, <2>4, <2>5 DEF RestTypes
<1>3. ASSUME NEW c \in Clients, Accept(c) \/ AcceptFails(c) \/ RecvEnd(c) PROVE RestTypes'
  BY <1>3, <1>t, <1>x, <1>k DEF RestTypes, Accept, AcceptFails, RecvEnd, CloseConnection, net
<1>4. ASSUME NEW c \in Clients, NEW k \in 1..Len(up[c]), Recv(c, k) PROVE RestTypes'
  <2>1. Head(up[c]) \in Requests(c)
    <3>1. up[c] \in Seq(Requests(c)) /\ 1 \in 1..Len(up[c])
      BY LenProperties DEF TypeOK
    <3> QED BY <3>1, ElementOfSeq
  <2>2. loop' \in [step : {"run", "cost"}, of : {c}, req : Requests(c)', drop : BOOLEAN]
    BY <1>4, <2>1 DEF Recv, Requests
  <2>3. DOMAIN up' = Clients
        /\ UNCHANGED <<kit, client, asked, heard, down, conn, started, doubled, leftOpen>>
    BY <1>4, <1>t DEF Recv, RestTypes
  <2> QED BY <1>t, <1>x, <2>2, <2>3 DEF RestTypes, LoopType
<1>5. ASSUME NEW c \in Clients, Refuse(c) \/ CostTime(c) PROVE RestTypes'
  <2>1. loop' = Dispatch /\ UNCHANGED <<kit, client, asked, heard, started, doubled>>
    BY <1>5 DEF Refuse, CostTime
  <2>2. DOMAIN up' = Clients /\ DOMAIN down' = Clients
    BY <1>5, <1>t DEF Refuse, CostTime, CloseConnection, Flush, RestTypes
  <2>3. conn' \in [Clients -> {"none", "pending", "open", "closed"}] /\ leftOpen' \subseteq Clients
    <3>1. \/ conn' = conn /\ leftOpen' = leftOpen
          \/ conn' = [conn EXCEPT ![c] = "closed"] /\ leftOpen' = leftOpen \ {c}
      BY <1>5 DEF Refuse, CostTime, CloseConnection
    <3> QED BY <1>t, <3>1 DEF RestTypes
  <2> QED BY <1>t, <1>x, <2>1, <2>2, <2>3 DEF RestTypes, LoopType
<1>6. ASSUME NEW c \in Clients, Statement(c) PROVE RestTypes'
  <2>1. Executes(c)
    BY <1>6, Statements DEF TypeOK, Kit, TrxTypes, Trx, Entry
  <2>2. PICK w, multi, pieces, drop : Execution(c, w, multi, pieces, drop)
    BY <2>1 DEF Executes
  <2>3. loop \in [step : {"run", "cost"}, of : {c}, req : Requests(c), drop : BOOLEAN]
    BY <2>1, <1>t DEF Executes, RestTypes, LoopType, Dispatch
  <2>4. loop' \in [step : {"run", "cost"}, of : {c}, req : Requests(c)', drop : BOOLEAN]
    BY <2>2, <2>3 DEF Execution, Executed, Requests
  <2>5. UNCHANGED <<kit, client, asked, heard, up, conn, started>>
        /\ DOMAIN down' = Clients
    BY <2>2, <1>t DEF Execution, Executed, Flush, RestTypes
  <2>6. doubled' \subseteq Clients /\ leftOpen' \subseteq Clients
    BY <2>2, <1>t DEF Execution, Executed, RestTypes
  <2> QED BY <1>t, <1>x, <2>4, <2>5, <2>6 DEF RestTypes, LoopType
<1>7. ASSUME Quit PROVE RestTypes'
  <2>1. loop' = [Dispatch EXCEPT !.step = "stopped"]
    BY <1>7, <1>t DEF Quit, RestTypes, LoopType, Dispatch
  <2>2. /\ conn' \in [Clients -> {"none", "pending", "open", "closed"}]
        /\ DOMAIN up' = Clients /\ leftOpen' \subseteq Clients
    BY <1>7, <1>t DEF Quit, RestTypes
  <2>3. UNCHANGED <<kit, client, asked, heard, down, started, doubled>>
    BY <1>7 DEF Quit
  <2> QED BY <1>t, <1>x, <2>1, <2>2, <2>3 DEF RestTypes, LoopType
<1>8. ASSUME Shutdown \/ Done \/ UNCHANGED vars PROVE RestTypes'
  <2>1. /\ UNCHANGED <<kit, client, asked, heard, up, down, conn, loop, doubled, leftOpen>>
        /\ started' \in {FALSE, started}
    BY <1>8 DEF Shutdown, Done, vars, net
  <2> QED BY <1>t, <1>x, <1>k, <2>1 DEF RestTypes
<1>9. RestTypes'
  BY <1>1, <1>2, <1>3, <1>4, <1>5, <1>6, <1>7, <1>8, <1>10, <1>11
     DEF Next, EventLoop, Process, ClientReads, Statement
<1> QED
  BY <1>9, <1>a, <1>l
     DEF TypeOK, RestTypes, LoopType, TrxTypes, StreamTypes, Trx, Entry

Inv == TypeOK /\ LogInv /\ SessionInv /\ AnswerInv

LEMMA InitInv == Init => Inv
<1> SUFFICES ASSUME Init PROVE Inv
  OBVIOUS
<1>n. \A n \in Nat : NewSession \in [multi : BOOLEAN, trx : Trx(n)]
  BY NewSessionType
<1>s. /\ NewSession.trx.id = -1 /\ NewSession.trx.started = FALSE
      /\ NewSession.trx.made = FALSE /\ NewSession.multi = FALSE
  BY DEF NewSession, NoTrx
<1>b. \A c \in Clients : ~ Busy(c)
  BY DEF Init, Busy, Dispatch
<1>1. RestTypes
  BY DEF Init, RestTypes, LoopType
<1>2. TrxTypes
  <2>1. session \in [Clients -> [multi : BOOLEAN, trx : Trx(0)]]
    BY <1>n DEF Init
  <2>2. <<>> \in Seq(Entry(0))
    BY EmptySeq
  <2> QED BY <2>1, <2>2 DEF Init, TrxTypes
<1>3. ASSUME NEW c \in Clients PROVE ClientInv(c)
  <2>1. StreamTypes(c)
    <3>1. <<>> \in Seq(Requests(c)) /\ <<>> \in Seq(Pieces(c)) /\ MaxCommands[c] \in Nat
      BY <1>3, EmptySeq, ServerAssumption
    <3> QED BY <1>3, <3>1 DEF Init, StreamTypes
  <2>2. OnlyAsked(c) /\ Quiet(c)
    BY <1>3, <1>b DEF Init, OnlyAsked, Quiet
  <2> QED BY <1>3, <2>1, <2>2 DEF Init, ClientInv, OneAtATime
<1>4. TypeOK
  BY <1>1, <1>2, <1>3, TypeParts DEF ClientInv
<1>5. LogInv
  BY <1>s DEF Init, LogInv, LogTellsOpen, IdsOrdered, Tells, InOrder, Distinct
<1>6. SessionInv
  BY <1>s, <1>b DEF Init, SessionInv
<1> QED BY <1>3, <1>4, <1>5, <1>6 DEF Inv, AnswerInv

LEMMA NextInv == Inv /\ [Next]_vars => Inv'
BY TypeStep, LogStep, SessionStep, AnswerStep DEF Inv

\* The type invariant of the server, its clients and their streams: among others,
\* no client has the answer of a command that it has not sent.
THEOREM ServerTypeCorrect == Spec => []TypeOK
<1>1. Inv => TypeOK
  BY DEF Inv
<1> QED BY InitInv, NextInv, <1>1, PTL DEF Spec

\* For any clients and statements, a client whose statements were each answered
\* by one message has the answer of its own command at every prompt, and never has
\* two requests on the way, so that read_event discards nothing of it.
THEOREM AnswersMatch == Spec => []OneAnswerEach
<1>1. Inv => OneAnswerEach
  <2> SUFFICES ASSUME Inv, NEW c \in Clients, c \notin doubled, client[c] # "left"
               PROVE  (client[c] = "prompt" => heard[c] = asked[c]) /\ Len(up[c]) <= 1
    BY DEF Inv, OneAnswerEach
  <2>1. OneAtATime(c)
    BY DEF Inv, AnswerInv, ClientInv
  <2>2. Len(up[c]) = 1 \/ Len(up[c]) = 0
    <3>1. Len(up[c]) = 1 \/ up[c] = <<>>
      BY <2>1 DEF OneAtATime, Travels, IsRun, Answered, Ended, Quiet
    <3> QED BY <3>1
  <2>3. client[c] = "prompt" => heard[c] = asked[c]
    BY <2>1 DEF OneAtATime, Quiet
  <2>4. Len(up[c]) <= 1
    <3>1. ASSUME NEW n, n = 1 \/ n = 0 PROVE n <= 1
      BY <3>1
    <3> QED BY <2>2, <3>1
  <2> QED BY <2>3, <2>4
<1> QED BY InitInv, NextInv, <1>1, PTL DEF Spec

\* For any number of sessions, redo.log tells the running transactions of live
\* sessions from the ended ones, and begin and commit ids are logged in the order
\* in which start_if_need and commit draw them.
THEOREM LogIsTelling == Spec => []LogShowsOpen
<1>1. Inv => LogShowsOpen
  BY DEF Inv, LogInv, LogShowsOpen
<1> QED BY InitInv, NextInv, <1>1, PTL DEF Spec

\* For any number of sessions, a session outside BEGIN is left with a running
\* transaction only by a statement whose next() failed, and the transaction
\* manager knows exactly the transactions of the open connections.
THEOREM NoTrxLeaks == Spec => []TrxesExact
<1>1. Inv => TrxesExact
  BY DEF Inv, SessionInv, TrxesExact, AutoCommits
<1> QED BY InitInv, NextInv, <1>1, PTL DEF Spec

\* For any number of sessions, what BEGIN started runs unchanged until COMMIT,
\* ROLLBACK or the end of the connection.
THEOREM BeginIsKept == Spec => BeginHolds
<1> DEFINE A == \A c \in Clients :
                   session[c].multi /\ kit = "mvcc" =>
                     \/ session'[c].multi /\ session'[c].trx = session[c].trx
                     \/ loop.step = "run" /\ loop.of = c /\ loop.req.stmt \in {"commit", "rollback"}
                     \/ conn'[c] = "closed"
<1>1. Inv /\ [Next]_vars => [A]_vars
  <2> SUFFICES ASSUME Inv, [Next]_vars PROVE A
    OBVIOUS
  <2>t. /\ session \in [Clients -> [multi : BOOLEAN, trx : Trx(currentTrxId)]]
        /\ conn \in [Clients -> {"none", "pending", "open", "closed"}] /\ TrxTypes
    BY DEF Inv, TypeOK, TrxTypes, Trx, Entry
  <2>n. \A c \in Clients : session[c].multi => conn[c] = "open"
    BY DEF Inv, SessionInv, NewSession
  <2>1. CASE UNCHANGED trxVars
    BY <2>1 DEF trxVars
  <2>2. ASSUME NEW c \in Clients, Opens(c) \/ Closes(c) PROVE A
    BY <2>2, <2>t, <2>n DEF Opens, Closes, CloseConnection
  <2>3. ASSUME NEW c \in Clients, Executes(c) PROVE A
    <3>1. PICK w, multi, pieces, drop : Execution(c, w, multi, pieces, drop)
      BY <2>3 DEF Executes
    <3>2. /\ session'[c].multi = multi /\ session'[c].trx = w.trx
          /\ \A d \in Clients \ {c} : session'[d] = session[d]
      BY <2>t, <3>1, InstallStep DEF Execution, Executed, Inv
    <3>3. kit = "mvcc" /\ session[c].multi =>
            (multi /\ w.trx = session[c].trx) \/ loop.req.stmt \in {"commit", "rollback"}
      BY <3>1 DEF Execution
    <3> QED BY <2>3, <3>2, <3>3 DEF Executes
  <2>4. CASE Quit
    BY <2>4, <2>n DEF Quit
  <2> HIDE DEF A
  <2> QED BY <2>1, <2>2, <2>3, <2>4, StepKinds DEF Inv, Kept, Connects
<1> QED BY InitInv, NextInv, <1>1, PTL DEF Spec, BeginHolds

=============================================================================

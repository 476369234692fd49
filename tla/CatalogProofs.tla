--------------------------- MODULE CatalogProofs ----------------------------
(***************************************************************************)
(* The catalog in memory and the files on disk, for any tables, indexes,   *)
(* number of statements, failures and crashes.                             *)
(***************************************************************************)
EXTENDS Catalog, WellFoundedInduction, TLAPS

-----------------------------------------------------------------------------
(* Names and ids.                                                          *)

LEMMA NamesAppend ==
  ASSUME NEW s \in Seq(Indexes), NEW i \in Indexes
  PROVE  Names(Append(s, i)) = Names(s) \cup {i} /\ Append(s, i) \in Seq(Indexes)
<1>0. Len(s) \in Nat /\ DOMAIN s = 1 .. Len(s)
  OBVIOUS
<1>1. Append(s, i) \in Seq(Indexes) /\ DOMAIN Append(s, i) = 1 .. Len(s) + 1
  OBVIOUS
<1>2. Append(s, i)[Len(s) + 1] = i /\ \A j \in 1 .. Len(s) : Append(s, i)[j] = s[j]
  OBVIOUS
<1>3. Names(Append(s, i)) \subseteq Names(s) \cup {i}
  BY <1>0, <1>1, <1>2 DEF Names
<1>4. Names(s) \subseteq Names(Append(s, i))
  BY <1>0, <1>1, <1>2 DEF Names
<1>5. i \in Names(Append(s, i))
  <2>1. Len(s) + 1 \in DOMAIN Append(s, i)
    BY <1>0, <1>1
  <2> QED BY <1>2, <2>1 DEF Names
<1> QED BY <1>1, <1>3, <1>4, <1>5

LEMMA NamesEmpty == Names(<<>>) = {}
BY DEF Names

LEMMA NamesType ==
  ASSUME NEW s \in Seq(Indexes)
  PROVE  Names(s) \subseteq Indexes
BY DEF Names

\* A nonempty set of numbers below a bound has a largest element.
LEMMA GreatestExists ==
  ASSUME NEW T, T # {}, T \subseteq -1 .. MaxIds
  PROVE  \E x \in T : \A y \in T : y <= x
<1>0. MaxIds \in Nat
  BY CatalogAssumption
<1> DEFINE U == {n \in Nat : MaxIds - n \in T}
<1>1. U # {}
  <2>1. PICK x \in T : TRUE
    OBVIOUS
  <2>2. MaxIds - x \in Nat /\ MaxIds - (MaxIds - x) = x
    BY <1>0, <2>1
  <2> QED BY <2>1, <2>2
<1>2. PICK n \in U : \A m \in U : ~ (<<m, n>> \in OpToRel(<, Nat))
  <2>1. U \subseteq Nat
    OBVIOUS
  <2> HIDE DEF U
  <2> QED BY <1>1, <2>1, NatLessThanWellFounded, WFMin
<1>3. ASSUME NEW y \in T PROVE y <= MaxIds - n
  <2>1. MaxIds - y \in Nat /\ MaxIds - (MaxIds - y) = y
    BY <1>0, <1>3
  <2>2. MaxIds - y \in U
    BY <2>1
  <2>3. ~(MaxIds - y < n)
    BY <1>2, <2>2 DEF OpToRel
  <2>4. n \in Nat /\ y \in Int
    BY <1>3
  <2> HIDE DEF U
  <2> QED BY <1>0, <2>3, <2>4
<1> QED BY <1>2, <1>3

\* init_table_id: the next id is above every id that is on disk.
LEMMA NextIdAbove ==
  ASSUME meta \in [Tables -> MetaFiles]
  PROVE  NextId \in 0 .. MaxIds + 1 /\ \A t \in Listed : meta[t].id < NextId
<1> DEFINE ids == {meta[t].id : t \in Listed}
<1>0. MaxIds \in Nat
  BY CatalogAssumption
<1>1. ids \subseteq -1 .. MaxIds
  BY DEF MetaFiles, Listed
<1>2. CASE ids = {}
  <2>1. NextId = 0 /\ Listed = {}
    BY <1>2 DEF NextId
  <2> QED BY <1>0, <2>1
<1>3. CASE ids # {}
  <2> DEFINE n == CHOOSE x \in ids : \A m \in ids : m <= x
  <2>1. n \in ids /\ \A m \in ids : m <= n
    <3> HIDE DEF ids
    <3> QED BY <1>1, <1>3, GreatestExists
  <2>2. NextId = 1 + n
    BY <1>3 DEF NextId
  <2>3. n \in -1 .. MaxIds
    BY <1>1, <2>1
  <2> HIDE DEF n
  <2>4. ASSUME NEW t \in Listed PROVE meta[t].id < NextId
    <3>1. meta[t].id \in ids
      OBVIOUS
    <3>2. meta[t].id <= n /\ meta[t].id \in -1 .. MaxIds
      BY <1>1, <2>1, <3>1
    <3> QED BY <1>0, <2>2, <2>3, <3>2
  <2> QED BY <1>0, <2>2, <2>3, <2>4
<1> QED BY <1>2, <1>3

-----------------------------------------------------------------------------
(* The inductive invariant.                                                *)

\* The statement being executed is on table t, and at one of these steps.
On(t, kind) == op.kind = kind /\ op.table = t
Doing(t, kind, steps) == On(t, kind) /\ op.at \in steps

OpTypes ==
  [kind : {"idle", "create", "drop", "index"},
   at : {"", "meta", "write", "data", "open", "index", "file", "scan", "tmp", "serialize", "rename"},
   table : Tables \cup {""}, index : Indexes \cup {""}, id : -1 .. MaxIds, n : Nat]

OpOK ==
  /\ op \in OpTypes
  /\ op.kind = "idle" <=> op = Idle
  /\ op.kind # "idle" => up /\ op.table \in Tables
  /\ op.kind = "create" => op.id \in 0 .. MaxIds /\ next_id = op.id + 1
  /\ op.kind = "index" => op.index \in Indexes

Types == TypeOK /\ OpOK

\* A table in memory, and the files it needs unless it is being dropped.
MemoryOK(t) ==
  /\ Names(opened[t].meta) \subseteq Names(opened[t].indexes)
  /\ opened[t].state = "none" => opened[t] = NotOpened
  /\ ~up => opened[t].state = "none"
  /\ opened[t].state = "open" /\ ~On(t, "drop") =>
       /\ meta[t] = MetaFile(opened[t].id, opened[t].meta) \/ meta[t] = Cut
       /\ t \in data
       /\ \A i \in Names(opened[t].meta) : <<t, i>> \in ixfile

\* A table that was created, in memory or, while the server is down, on disk.
CreatedOK(t) ==
  created[t] # -1 =>
    /\ up => opened[t].state = "open" /\ opened[t].id = created[t] /\ ~On(t, "drop")
    /\ ~up => \/ meta[t].kind = "full" /\ meta[t].id = created[t]
              \/ meta[t] = Cut

\* What the steps of a statement have done so far.
ProgressOK(t) ==
  /\ On(t, "create") => opened[t].state = "none"
  /\ Doing(t, "create", {"write"}) => meta[t] = Torn
  /\ Doing(t, "create", {"data", "open"}) => meta[t] = MetaFile(op.id, <<>>) \/ meta[t] = Cut
  /\ Doing(t, "create", {"open"}) => t \in data
  /\ On(t, "drop") => opened[t].state = "open" /\ created[t] = -1
  /\ Doing(t, "drop", {"meta", "data"}) => op.n = 0
  /\ On(t, "index") => opened[t].state = "open"
  /\ Doing(t, "index", {"file"}) => op.index \notin Names(opened[t].indexes)
  /\ Doing(t, "index", {"scan", "tmp", "serialize", "rename"}) => <<t, op.index>> \in ixfile
  /\ Doing(t, "index", {"tmp", "serialize", "rename"}) => op.index \in Names(opened[t].indexes)
  /\ Doing(t, "index", {"rename"}) =>
       tmp[t] = MetaFile(opened[t].id, Append(opened[t].meta, op.index)) \/ tmp[t] = Cut

\* Exactly the files that belong, while nothing has failed.
Clean == faults = 0 /\ refused = {}

\* The indexes whose files a DROP TABLE has yet to unlink.
Left(t) == {opened[t].meta[j] : j \in op.n + 1 .. Len(opened[t].meta)}

CleanUp(t) ==
  /\ opened[t].state # "freed"
  /\ meta[t].kind # "none" <=> \/ opened[t].state = "open" /\ ~Doing(t, "drop", {"data", "index"})
                               \/ Doing(t, "create", {"write", "data", "open"})
  /\ t \in data <=> \/ opened[t].state = "open" /\ ~Doing(t, "drop", {"index"})
                    \/ Doing(t, "create", {"open"})
  /\ ~Doing(t, "drop", {"index"}) => \A i \in Indexes : <<t, i>> \in ixfile <=>
       \/ i \in Names(opened[t].meta)
       \/ Doing(t, "index", {"scan", "tmp", "serialize", "rename"}) /\ i = op.index
  /\ Doing(t, "drop", {"index"}) => \A i \in Indexes : <<t, i>> \in ixfile => i \in Left(t)
  /\ tmp[t] = NoFile \/ Doing(t, "index", {"serialize", "rename"})

CleanDown(t) ==
  /\ t \in data <=> meta[t].kind # "none"
  /\ meta[t].kind \notin {"torn", "cut"} /\ tmp[t] = NoFile
  /\ \A i \in Indexes : <<t, i>> \in ixfile <=> meta[t].kind # "none" /\ i \in Names(meta[t].indexes)

CleanOK(t) == Clean => (up => CleanUp(t)) /\ (~up => CleanDown(t))

\* Ids are below the next one to be given out, or to be used by a CREATE.
Bound == IF op.kind = "create" THEN op.id ELSE next_id

FreshOK(t) ==
  up => /\ opened[t].state # "none" => opened[t].id < Bound
        /\ meta[t].kind = "full" => meta[t].id < Bound \/ Doing(t, "create", {"data", "open"})

TableInv(t) == MemoryOK(t) /\ CreatedOK(t) /\ ProgressOK(t) /\ CleanOK(t) /\ FreshOK(t)

\* No two tables share an id, in memory or on disk.
HasId(t, id) == \/ meta[t].kind = "full" /\ meta[t].id = id
                \/ opened[t].state # "none" /\ opened[t].id = id

IdsDistinct == \A t, u \in Tables, id \in -1 .. MaxIds : HasId(t, id) /\ HasId(u, id) => t = u

Inv == Types /\ IdsDistinct /\ \A t \in Tables : TableInv(t)

\* No meta file was cut short before something failed.
CutInv == faults = 0 => \A t \in Tables : meta[t].kind # "cut" /\ tmp[t].kind # "cut"

-----------------------------------------------------------------------------
(* Types.                                                                  *)

TableTypes == [state : {"none", "open", "freed"}, id : -1 .. MaxIds,
               meta : Seq(Indexes), indexes : Seq(Indexes)]

LEMMA Constructors ==
  /\ NoFile \in MetaFiles /\ Torn \in MetaFiles /\ Cut \in MetaFiles /\ NotOpened \in TableTypes
  /\ \A id \in -1 .. MaxIds, s \in Seq(Indexes) :
       /\ MetaFile(id, s) \in MetaFiles /\ TableObject(id, s) \in TableTypes
  /\ <<>> \in Seq(Indexes) /\ Idle \in OpTypes
<1>1. -1 \in -1 .. MaxIds /\ <<>> \in Seq(Indexes)
  BY CatalogAssumption
<1> QED BY <1>1 DEF NoFile, Torn, Cut, NotOpened, MetaFile, TableObject, MetaFiles, TableTypes, Idle, OpTypes

LEMMA InitInv == Init => Inv
<1> SUFFICES ASSUME Init PROVE Inv
  OBVIOUS
<1>0. MaxIds \in Nat /\ MaxFaults \in Nat \ {0}
  BY CatalogAssumption
<1>1. TypeOK
  <2>1. /\ meta \in [Tables -> MetaFiles] /\ tmp \in [Tables -> MetaFiles]
        /\ opened \in [Tables -> TableTypes]
    BY Constructors DEF Init
  <2>2. next_id \in 0 .. MaxIds + 1 /\ faults \in 0 .. MaxFaults /\ created \in [Tables -> -1 .. MaxIds]
    BY <1>0 DEF Init
  <2> QED BY <2>1, <2>2 DEF Init, TypeOK, TableTypes
<1>2. Types
  BY <1>1, Constructors DEF Init, Types, OpOK, Idle
<1>3. IdsDistinct
  BY DEF Init, IdsDistinct, HasId, NoFile, NotOpened
<1>4. ASSUME NEW t \in Tables PROVE TableInv(t)
  <2>1. /\ meta[t] = NoFile /\ tmp[t] = NoFile /\ opened[t] = NotOpened /\ created[t] = -1
        /\ op.kind = "idle" /\ data = {} /\ ixfile = {} /\ up
    BY DEF Init, Idle
  <2>2. MemoryOK(t)
    BY <2>1, NamesEmpty DEF MemoryOK, NotOpened
  <2>3. CreatedOK(t) /\ ProgressOK(t)
    BY <2>1 DEF CreatedOK, ProgressOK, On, Doing
  <2>4. CleanOK(t)
    BY <2>1, NamesEmpty DEF CleanOK, CleanUp, On, Doing, NotOpened, NoFile
  <2>5. FreshOK(t)
    BY <2>1 DEF FreshOK, NotOpened, NoFile
  <2> QED BY <2>2, <2>3, <2>4, <2>5 DEF TableInv
<1> QED BY <1>2, <1>3, <1>4 DEF Inv

\* What the type invariant says, with the record types named.
LEMMA TypesNow ==
  ASSUME TypeOK
  PROVE  /\ meta \in [Tables -> MetaFiles] /\ tmp \in [Tables -> MetaFiles]
         /\ data \subseteq Tables /\ ixfile \subseteq Tables \X Indexes
         /\ opened \in [Tables -> TableTypes] /\ next_id \in 0 .. MaxIds + 1 /\ up \in BOOLEAN
         /\ created \in [Tables -> -1 .. MaxIds] /\ faults \in 0 .. MaxFaults /\ refused \subseteq Tables
BY DEF TypeOK, TableTypes

LEMMA TypesNext ==
  ASSUME /\ meta' \in [Tables -> MetaFiles] /\ tmp' \in [Tables -> MetaFiles]
         /\ data' \subseteq Tables /\ ixfile' \subseteq Tables \X Indexes
         /\ opened' \in [Tables -> TableTypes] /\ next_id' \in 0 .. MaxIds + 1 /\ up' \in BOOLEAN
         /\ created' \in [Tables -> -1 .. MaxIds] /\ faults' \in 0 .. MaxFaults
         /\ refused' \subseteq Tables
  PROVE  TypeOK'
BY DEF TypeOK, TableTypes

LEMMA GotoOp ==
  ASSUME Types, op.kind # "idle", UNCHANGED <<up, next_id>>,
         NEW a \in {"meta", "write", "data", "open", "index", "file", "scan", "tmp", "serialize", "rename"},
         Goto(a)
  PROVE  /\ OpOK' /\ op'.kind = op.kind /\ op'.table = op.table /\ op'.index = op.index
         /\ op'.id = op.id /\ op'.n = op.n /\ op'.at = a
<1>1. op \in OpTypes
  BY DEF Types, OpOK
<1>2. /\ op'.kind = op.kind /\ op'.table = op.table /\ op'.index = op.index /\ op'.id = op.id
      /\ op'.n = op.n /\ op'.at = a /\ op' \in OpTypes
  <2>1. op' = [op EXCEPT !.at = a]
    BY DEF Goto
  <2>2. op' \in OpTypes
    BY <1>1, <2>1 DEF OpTypes
  <2> QED BY <1>1, <2>1, <2>2 DEF OpTypes
<1>3. op' # Idle
  <2>1. Idle.kind = "idle"
    BY DEF Idle
  <2> QED BY <1>2, <2>1
<1> QED BY <1>2, <1>3 DEF Types, OpOK

LEMMA DoneOp ==
  ASSUME Done
  PROVE  OpOK' /\ op'.kind = "idle"
<1>1. op' = Idle /\ Idle.kind = "idle"
  BY DEF Done, Idle
<1> QED BY <1>1, Constructors DEF OpOK

-----------------------------------------------------------------------------
(* What a step leaves alone.                                               *)

SameTable(u) ==
  /\ meta'[u] = meta[u] /\ tmp'[u] = tmp[u] /\ opened'[u] = opened[u] /\ created'[u] = created[u]
  /\ u \in data' <=> u \in data
  /\ \A i \in Indexes : <<u, i>> \in ixfile' <=> <<u, i>> \in ixfile

\* A step of a statement on another table than u.
LEMMA OtherTable ==
  ASSUME Types, Types', NEW u \in Tables, TableInv(u), SameTable(u), up, up',
         op.kind = "idle" \/ op.table # u, op'.kind = "idle" \/ op'.table # u,
         Clean' => Clean, Bound <= Bound'
  PROVE  TableInv(u)'
<1>0. \A kind \in {"create", "drop", "index"} : ~On(u, kind) /\ ~On(u, kind)'
  BY DEF On
<1>1. opened[u] \in TableTypes /\ meta[u] \in MetaFiles /\ Names(opened[u].meta) \subseteq Indexes
  BY TypesNow, NamesType DEF Types, TableTypes
<1>2. MemoryOK(u)'
  BY <1>0, <1>1 DEF TableInv, MemoryOK, SameTable
<1>3. CreatedOK(u)'
  BY <1>0 DEF TableInv, CreatedOK, SameTable
<1>4. ProgressOK(u)'
  BY <1>0 DEF ProgressOK, Doing
<1>5. CleanOK(u)'
  BY <1>0, <1>1 DEF TableInv, CleanOK, CleanUp, Doing, SameTable
<1>6. FreshOK(u)'
  <2>1. Bound \in Int /\ Bound' \in Int
    <3>1. next_id \in Int /\ next_id' \in Int
      BY CatalogAssumption DEF Types, TypeOK
    <3>2. (op.kind = "create" => op.id \in Int) /\ (op'.kind = "create" => op'.id \in Int)
      BY CatalogAssumption DEF Types, OpOK
    <3> QED BY <3>1, <3>2 DEF Bound
  <2>2. opened[u].id \in Int /\ meta[u].id \in Int
    BY <1>1 DEF TableTypes, MetaFiles
  <2>3. /\ opened[u].state # "none" => opened[u].id < Bound
        /\ meta[u].kind = "full" => meta[u].id < Bound
    BY <1>0 DEF TableInv, FreshOK, Doing
  <2>4. /\ opened'[u].state # "none" => opened'[u].id < Bound'
        /\ meta'[u].kind = "full" => meta'[u].id < Bound'
    BY <2>1, <2>2, <2>3 DEF SameTable
  <2> QED BY <2>4 DEF FreshOK
<1> QED BY <1>2, <1>3, <1>4, <1>5, <1>6 DEF TableInv

\* The ids of table t are the ones it had, or ones no other table has.
IdsKept(t) ==
  \A id \in -1 .. MaxIds :
    HasId(t, id)' => HasId(t, id) \/ \A u \in Tables \ {t} : ~HasId(u, id)

\* A step of a statement on t.
StepOn(t) ==
  /\ up /\ up' /\ \A u \in Tables \ {t} : SameTable(u)
  /\ op.kind = "idle" \/ op.table = t
  /\ op'.kind = "idle" \/ op'.table = t
  /\ Clean' => Clean
  /\ Bound <= Bound'
  /\ IdsKept(t)

LEMMA StatementStep ==
  ASSUME Inv, Types', NEW t \in Tables, StepOn(t), TableInv(t)'
  PROVE  Inv'
<1>1. IdsDistinct'
  <2> SUFFICES ASSUME NEW v \in Tables, NEW u \in Tables, NEW id \in -1 .. MaxIds,
                      HasId(v, id)', HasId(u, id)'
               PROVE  v = u
    BY DEF IdsDistinct
  <2>1. IdsDistinct
    BY DEF Inv
  <2>2. \A w \in Tables \ {t} : HasId(w, id)' <=> HasId(w, id)
    BY DEF StepOn, SameTable, HasId
  <2> QED BY <2>1, <2>2 DEF IdsDistinct, StepOn, IdsKept
<1>2. ASSUME NEW u \in Tables PROVE TableInv(u)'
  <2>1. CASE u = t
    BY <2>1
  <2>2. CASE u # t
    BY <2>2, OtherTable DEF Inv, StepOn
  <2> QED BY <2>1, <2>2
<1> QED BY <1>1, <1>2 DEF Inv

-----------------------------------------------------------------------------
(* One lemma per step of a statement.                                      *)

LEMMA CreateTableInv ==
  ASSUME Inv, NEW t \in Tables, CreateTable(t)
  PROVE  Inv'
<1>0. /\ Types /\ TableInv(t) /\ TypeOK /\ OpOK
  BY DEF Inv, Types
<1>1. /\ up /\ op = Idle /\ op.kind = "idle" /\ opened[t].state = "none" /\ next_id < MaxIds
      /\ next_id' = next_id + 1 /\ UNCHANGED <<disk, opened, up, history>>
      /\ op' = [Idle EXCEPT !.kind = "create", !.at = "meta", !.table = t, !.id = next_id]
  BY DEF CreateTable, Idle
<1>2. next_id \in Nat /\ MaxIds \in Nat
  BY <1>0, CatalogAssumption DEF TypeOK
<1>3. /\ op'.kind = "create" /\ op'.at = "meta" /\ op'.table = t /\ op'.id = next_id /\ op'.index = ""
  BY <1>1 DEF Idle
<1>4. op' \in OpTypes
  <2>1. next_id \in -1 .. MaxIds
    BY <1>1, <1>2
  <2> QED BY <1>1, <2>1 DEF Idle, OpTypes
<1>5. OpOK'
  <2>1. op' # Idle
    BY <1>1, <1>3
  <2>2. next_id \in 0 .. MaxIds
    BY <1>1, <1>2
  <2> QED BY <1>1, <1>3, <1>4, <2>1, <2>2 DEF OpOK
<1>6. TypeOK'
  <2>1. next_id' \in 0 .. MaxIds + 1
    BY <1>1, <1>2
  <2> QED BY <1>0, <1>1, <2>1 DEF TypeOK, disk, history
<1>7. \A u \in Tables : SameTable(u)
  BY <1>1 DEF SameTable, disk, history
<1>8. /\ \A k \in {"create", "drop", "index"} : ~On(t, k)
      /\ ~On(t, "drop")' /\ ~On(t, "index")' /\ op'.at \notin {"write", "data", "open"}
  BY <1>1, <1>3 DEF On
<1>9. Bound = next_id /\ Bound' = next_id
  BY <1>1, <1>3 DEF Bound
<1>10. StepOn(t)
  <2>1. Bound <= Bound' /\ (Clean' => Clean) /\ up'
    BY <1>1, <1>2, <1>9 DEF Clean, history
  <2> QED BY <1>1, <1>3, <1>7, <2>1 DEF StepOn, IdsKept, HasId, SameTable
<1>11. TableInv(t)'
  <2>1. MemoryOK(t)'
    BY <1>0, <1>1, <1>8 DEF TableInv, MemoryOK, disk
  <2>2. CreatedOK(t)'
    BY <1>0, <1>1, <1>8 DEF TableInv, CreatedOK, disk, history
  <2>3. ProgressOK(t)'
    BY <1>1, <1>8 DEF ProgressOK, Doing
  <2>4. CleanOK(t)'
    BY <1>0, <1>1, <1>8 DEF TableInv, CleanOK, CleanUp, Clean, Doing, disk, history
  <2>5. FreshOK(t)'
    BY <1>0, <1>1, <1>8, <1>9 DEF TableInv, FreshOK, Doing, disk
  <2> QED BY <2>1, <2>2, <2>3, <2>4, <2>5 DEF TableInv
<1> QED BY <1>5, <1>6, <1>10, <1>11, StatementStep DEF Types

\* What a step of a statement on t starts from.
LEMMA Started ==
  ASSUME Inv, NEW t, t = op.table, op.kind # "idle"
  PROVE  /\ t \in Tables /\ up /\ Types /\ TypeOK /\ OpOK /\ TableInv(t)
         /\ MemoryOK(t) /\ CreatedOK(t) /\ ProgressOK(t) /\ CleanOK(t) /\ FreshOK(t)
         /\ op.kind \in {"create", "drop", "index"}
<1>1. t \in Tables /\ up /\ Types /\ TypeOK /\ OpOK
  BY DEF Inv, Types, OpOK
<1>2. TableInv(t)
  BY <1>1 DEF Inv
<1>3. op.kind \in {"create", "drop", "index"}
  BY <1>1 DEF OpOK, OpTypes
<1> QED BY <1>1, <1>2, <1>3 DEF TableInv

\* The bound on ids through a step that goes on, and one that ends the statement.
LEMMA BoundKept ==
  ASSUME OpOK, TypeOK, UNCHANGED next_id
  PROVE  /\ op'.kind = op.kind /\ op'.id = op.id => Bound' = Bound
         /\ op'.kind = "idle" => Bound' = next_id
         /\ Bound \in Int /\ next_id \in Int /\ Bound <= next_id
         /\ op.kind = "create" => Bound = op.id /\ op.id < next_id
<1>1. next_id \in Int /\ (op.kind = "create" => op.id \in Int /\ op.id < next_id)
  BY CatalogAssumption DEF TypeOK, OpOK
<1> QED BY <1>1 DEF Bound

\* A statement that gives up: its files and tables stay as they are, and the disk
\* is, or was already, no longer clean.
LEMMA GivenUp ==
  ASSUME Inv, op.kind # "idle", op.kind # "drop", Done, TypeOK', ~Clean',
         UNCHANGED <<disk, opened, next_id, up, created>>
  PROVE  Inv'
<1>t. PICK t : t = op.table
  OBVIOUS
<1>1. /\ t \in Tables /\ up /\ Types /\ TypeOK /\ OpOK /\ TableInv(t)
      /\ MemoryOK(t) /\ CreatedOK(t) /\ ProgressOK(t) /\ CleanOK(t) /\ FreshOK(t)
      /\ op.kind \in {"create", "drop", "index"}
  BY <1>t, Started
<1>2. OpOK' /\ op'.kind = "idle"
  BY DoneOp
<1>4. /\ \A k \in {"create", "drop", "index"} : ~On(t, k)'
      /\ ~On(t, "drop")
  BY <1>2 DEF On
<1>5. Bound <= Bound' /\ Bound' = next_id /\ Bound \in Int /\ next_id \in Int
      /\ (op.kind = "create" => op.id < next_id)
  BY <1>1, <1>2, BoundKept
<1>6. StepOn(t)
  BY <1>t, <1>1, <1>2, <1>5 DEF StepOn, IdsKept, HasId, SameTable, disk
<1>7. TableInv(t)'
  <2>1. MemoryOK(t)'
    BY <1>1, <1>4 DEF MemoryOK, disk
  <2>2. CreatedOK(t)'
    BY <1>1, <1>4 DEF CreatedOK, disk
  <2>3. ProgressOK(t)' /\ CleanOK(t)'
    BY <1>4 DEF ProgressOK, Doing, CleanOK
  <2>4. FreshOK(t)'
    <3>1. opened[t].id \in Int /\ meta[t].id \in Int
      BY <1>1, TypesNow DEF TableTypes, MetaFiles
    <3>2. meta[t].kind = "full" => meta[t].id < next_id
      <4>1. CASE Doing(t, "create", {"data", "open"})
        <5>1. (meta[t] = MetaFile(op.id, <<>>) \/ meta[t] = Cut) /\ op.kind = "create"
          BY <1>1, <4>1 DEF ProgressOK, Doing, On
        <5>2. meta[t].kind = "full" => meta[t].id = op.id
          BY <5>1 DEF MetaFile, Cut
        <5> QED BY <1>5, <5>1, <5>2
      <4>2. CASE ~Doing(t, "create", {"data", "open"})
        BY <1>1, <1>5, <3>1, <4>2 DEF FreshOK
      <4> QED BY <4>1, <4>2
    <3>3. opened[t].state # "none" => opened[t].id < next_id
      BY <1>1, <1>5, <3>1 DEF FreshOK
    <3> QED BY <1>5, <3>2, <3>3 DEF FreshOK, disk
  <2> QED BY <2>1, <2>2, <2>3, <2>4 DEF TableInv
<1> QED BY <1>1, <1>2, <1>6, <1>7, StatementStep DEF Types

LEMMA GiveUpInv ==
  ASSUME Inv, GiveUp("create") \/ GiveUp("index")
  PROVE  Inv'
<1>0. /\ op.kind # "idle" /\ op.kind # "drop" /\ faults' = faults + 1 /\ faults < MaxFaults /\ Done
      /\ UNCHANGED <<disk, opened, next_id, up, created, refused>> /\ TypeOK
  BY DEF GiveUp, Inv, Types
<1>1. faults \in 0 .. MaxFaults /\ MaxFaults \in Nat
  BY <1>0, CatalogAssumption DEF TypeOK
<1>2. faults' \in 0 .. MaxFaults /\ faults' # 0
  BY <1>0, <1>1
<1>3. TypeOK' /\ ~Clean'
  BY <1>0, <1>2 DEF TypeOK, Clean, disk
<1> QED BY <1>0, <1>3, GivenUp

\* A column list that TableMeta::init refuses.
LEMMA RefuseColumnsInv ==
  ASSUME Inv, RefuseColumns
  PROVE  Inv'
<1>0. /\ op.kind = "create" /\ Done /\ refused' = refused \cup {op.table}
      /\ UNCHANGED <<disk, opened, next_id, up, created, faults>>
  BY DEF RefuseColumns, Executing
<1>1. op.table \in Tables /\ TypeOK
  BY <1>0 DEF Inv, Types, OpOK
<1>2. TypeOK' /\ ~Clean'
  BY <1>0, <1>1 DEF TypeOK, Clean, disk
<1> QED BY <1>0, <1>2, GivenUp

LEMMA CreateMetaFileInv ==
  ASSUME Inv, CreateMetaFile
  PROVE  Inv'
<1>t. PICK t : t = op.table
  OBVIOUS
<1>0. op.kind = "create" /\ op.at = "meta" /\ UNCHANGED <<tmp, data, ixfile, opened, next_id, up, history>>
  BY DEF CreateMetaFile, Executing
<1>1. /\ t \in Tables /\ up /\ Types /\ TypeOK /\ OpOK /\ TableInv(t)
      /\ MemoryOK(t) /\ CreatedOK(t) /\ ProgressOK(t) /\ CleanOK(t) /\ FreshOK(t)
  BY <1>t, <1>0, Started
<1>2. On(t, "create") /\ ~On(t, "drop") /\ ~On(t, "index")
  BY <1>t, <1>0 DEF On
<1>3. CASE meta[t].kind # "none"
  <2>1. Done /\ UNCHANGED meta
    BY <1>t, <1>3 DEF CreateMetaFile
  <2>2. ~CleanUp(t)
    BY <1>0, <1>1, <1>2, <1>3 DEF CleanUp, Doing, ProgressOK
  <2>3. ~Clean' /\ TypeOK'
    BY <1>0, <1>1, <2>1, <2>2 DEF CleanOK, Clean, TypeOK, history
  <2> QED BY <1>0, <2>1, <2>3, GivenUp DEF disk, history
<1>4. CASE meta[t].kind = "none"
  <2>0. meta' = [meta EXCEPT ![t] = Torn] /\ Goto("write")
    BY <1>t, <1>4 DEF CreateMetaFile
  <2>1. /\ OpOK' /\ op'.kind = "create" /\ op'.table = t /\ op'.id = op.id /\ op'.at = "write"
    BY <1>t, <1>0, <1>1, <2>0, GotoOp
  <2>2. meta' \in [Tables -> MetaFiles] /\ meta'[t] = Torn /\ \A u \in Tables \ {t} : meta'[u] = meta[u]
    BY <1>1, <2>0, Constructors, TypesNow
  <2>3. TypeOK'
    BY <1>0, <1>1, <2>2 DEF TypeOK, history
  <2>4. On(t, "create")' /\ ~On(t, "drop")' /\ ~On(t, "index")'
    BY <2>1 DEF On
  <2>5. Bound' = Bound /\ Bound \in Int
    BY <1>0, <1>1, <2>1, BoundKept
  <2>6. Torn.kind = "torn"
    BY DEF Torn
  <2>7. StepOn(t)
    BY <1>t, <1>0, <1>1, <2>1, <2>2, <2>5, <2>6 DEF StepOn, IdsKept, HasId, SameTable, Clean, history
  <2>8. opened[t].state = "none"
    BY <1>1, <1>2 DEF ProgressOK
  <2>9. MemoryOK(t)' /\ CreatedOK(t)'
    BY <1>0, <1>1, <2>8 DEF MemoryOK, CreatedOK, history
  <2>10. ProgressOK(t)'
    BY <1>0, <2>1, <2>2, <2>4, <2>8 DEF ProgressOK, Doing
  <2>11. CleanOK(t)'
    BY <1>0, <1>1, <1>2, <2>1, <2>2, <2>4, <2>6, <2>8
    DEF CleanOK, CleanUp, Clean, Doing, history
  <2>12. FreshOK(t)'
    BY <1>0, <2>2, <2>6, <2>8 DEF FreshOK
  <2> QED BY <1>1, <2>1, <2>3, <2>7, <2>9, <2>10, <2>11, <2>12, StatementStep DEF Types, TableInv
<1> QED BY <1>3, <1>4

\* Other tables have smaller ids, in memory and on disk, than the one being created.
LEMMA OtherIds ==
  ASSUME Inv, op.kind = "create", NEW t, t = op.table, NEW u \in Tables, u # t
  PROVE  ~HasId(u, op.id)
<1>1. TableInv(u) /\ TypeOK /\ up /\ op.id \in Int
  BY CatalogAssumption DEF Inv, Types, OpOK
<1>2. ~Doing(u, "create", {"data", "open"}) /\ Bound = op.id
  BY DEF Doing, On, Bound
<1>3. opened[u].id \in Int /\ meta[u].id \in Int
  BY <1>1, TypesNow DEF TableTypes, MetaFiles
<1>4. /\ meta[u].kind = "full" => meta[u].id < op.id
      /\ opened[u].state # "none" => opened[u].id < op.id
  BY <1>1, <1>2 DEF TableInv, FreshOK
<1> QED BY <1>1, <1>3, <1>4 DEF HasId

LEMMA WriteMetaInv ==
  ASSUME Inv, WriteMeta
  PROVE  Inv'
<1>t. PICK t : t = op.table
  OBVIOUS
<1>0. /\ op.kind = "create" /\ op.at = "write" /\ Goto("data")
      /\ UNCHANGED <<tmp, data, ixfile, opened, next_id, up, created, refused>>
  BY <1>t DEF WriteMeta, Executing
<1>m. PICK m \in {MetaFile(op.id, <<>>), Cut} :
         meta' = [meta EXCEPT ![t] = m] /\ (faults' = faults \/ (faults < MaxFaults /\ faults' = faults + 1))
  BY <1>t DEF WriteMeta, Unnoticed
<1>1. /\ t \in Tables /\ up /\ Types /\ TypeOK /\ OpOK /\ TableInv(t)
      /\ MemoryOK(t) /\ CreatedOK(t) /\ ProgressOK(t) /\ CleanOK(t) /\ FreshOK(t)
  BY <1>t, <1>0, Started
<1>2. On(t, "create") /\ ~On(t, "drop") /\ ~On(t, "index")
  BY <1>t, <1>0 DEF On
<1>3. /\ OpOK' /\ op'.kind = "create" /\ op'.table = t /\ op'.id = op.id /\ op'.at = "data"
  BY <1>t, <1>0, <1>1, GotoOp
<1>4. /\ meta' \in [Tables -> MetaFiles] /\ meta'[t] = m
      /\ \A u \in Tables \ {t} : meta'[u] = meta[u]
  <2>1. m \in MetaFiles
    <3>1. op.id \in -1 .. MaxIds
      BY <1>1 DEF OpOK, OpTypes
    <3> QED BY <1>m, <3>1, Constructors
  <2> QED BY <1>m, <1>1, <2>1, TypesNow
<1>f. faults' \in 0 .. MaxFaults /\ (Clean' => Clean)
  <2>1. faults \in 0 .. MaxFaults /\ MaxFaults \in Nat
    BY <1>1, CatalogAssumption DEF TypeOK
  <2>2. faults' \in 0 .. MaxFaults /\ (faults' = 0 => faults = 0)
    BY <1>m, <2>1
  <2> QED BY <1>0, <2>2 DEF Clean
<1>5. TypeOK'
  BY <1>0, <1>1, <1>4, <1>f DEF TypeOK
<1>6. On(t, "create")' /\ ~On(t, "drop")' /\ ~On(t, "index")'
  BY <1>3 DEF On
<1>7. Bound' = Bound /\ Bound \in Int
  BY <1>0, <1>1, <1>3, BoundKept
<1>8. m.kind \in {"full", "cut"} /\ (m.kind = "full" => m.id = op.id)
  BY <1>m DEF MetaFile, Cut
<1>9. StepOn(t)
  <2>1. IdsKept(t)
    <3>1. \A u \in Tables \ {t} : ~HasId(u, op.id)
      BY <1>t, <1>0, OtherIds
    <3>2. \A id \in -1 .. MaxIds : HasId(t, id)' => HasId(t, id) \/ id = op.id
      BY <1>0, <1>4, <1>8 DEF HasId
    <3> QED BY <3>1, <3>2 DEF IdsKept
  <2> QED BY <1>t, <1>0, <1>1, <1>3, <1>4, <1>7, <1>f, <2>1 DEF StepOn, SameTable
<1>10. opened[t].state = "none"
  BY <1>1, <1>2 DEF ProgressOK
<1>11. MemoryOK(t)' /\ CreatedOK(t)'
  BY <1>0, <1>1, <1>10 DEF MemoryOK, CreatedOK
<1>12. ProgressOK(t)'
  BY <1>m, <1>0, <1>3, <1>4, <1>6, <1>10 DEF ProgressOK, Doing
<1>13. CleanOK(t)'
  BY <1>0, <1>1, <1>2, <1>3, <1>4, <1>6, <1>8, <1>10, <1>f
  DEF CleanOK, CleanUp, Doing
<1>14. FreshOK(t)'
  BY <1>0, <1>3, <1>6, <1>10 DEF FreshOK, Doing
<1> QED BY <1>1, <1>3, <1>5, <1>9, <1>11, <1>12, <1>13, <1>14, StatementStep DEF Types, TableInv

LEMMA CreateDataFileInv ==
  ASSUME Inv, CreateDataFile
  PROVE  Inv'
<1>t. PICK t : t = op.table
  OBVIOUS
<1>0. op.kind = "create" /\ op.at = "data" /\ UNCHANGED <<meta, tmp, ixfile, opened, next_id, up, history>>
  BY DEF CreateDataFile, Executing
<1>1. /\ t \in Tables /\ up /\ Types /\ TypeOK /\ OpOK /\ TableInv(t)
      /\ MemoryOK(t) /\ CreatedOK(t) /\ ProgressOK(t) /\ CleanOK(t) /\ FreshOK(t)
  BY <1>t, <1>0, Started
<1>2. On(t, "create") /\ ~On(t, "drop") /\ ~On(t, "index")
  BY <1>t, <1>0 DEF On
<1>3. CASE t \in data
  <2>1. Done /\ UNCHANGED data
    BY <1>t, <1>3 DEF CreateDataFile
  <2>2. ~CleanUp(t)
    BY <1>0, <1>1, <1>2, <1>3 DEF CleanUp, Doing, ProgressOK
  <2>3. ~Clean' /\ TypeOK'
    BY <1>0, <1>1, <2>1, <2>2 DEF CleanOK, Clean, TypeOK, history
  <2> QED BY <1>0, <2>1, <2>3, GivenUp DEF disk, history
<1>4. CASE t \notin data
  <2>0. data' = data \cup {t} /\ Goto("open")
    BY <1>t, <1>4 DEF CreateDataFile
  <2>1. /\ OpOK' /\ op'.kind = "create" /\ op'.table = t /\ op'.id = op.id /\ op'.at = "open"
    BY <1>t, <1>0, <1>1, <2>0, GotoOp
  <2>2. TypeOK'
    BY <1>0, <1>1, <2>0 DEF TypeOK, history
  <2>3. On(t, "create")' /\ ~On(t, "drop")' /\ ~On(t, "index")'
    BY <2>1 DEF On
  <2>4. Bound' = Bound /\ Bound \in Int
    BY <1>0, <1>1, <2>1, BoundKept
  <2>5. StepOn(t)
    BY <1>t, <1>0, <1>1, <2>0, <2>1, <2>4 DEF StepOn, IdsKept, HasId, SameTable, Clean, history
  <2>6. opened[t].state = "none" /\ (meta[t] = MetaFile(op.id, <<>>) \/ meta[t] = Cut)
    BY <1>0, <1>1, <1>2 DEF ProgressOK, Doing
  <2>7. MemoryOK(t)' /\ CreatedOK(t)'
    BY <1>0, <1>1, <2>6 DEF MemoryOK, CreatedOK, history
  <2>8. ProgressOK(t)'
    BY <1>0, <2>0, <2>1, <2>3, <2>6 DEF ProgressOK, Doing
  <2>9. CleanOK(t)'
    BY <1>0, <1>1, <1>2, <2>0, <2>1, <2>3, <2>6
    DEF CleanOK, CleanUp, Clean, Doing, history
  <2>10. FreshOK(t)'
    BY <1>0, <2>1, <2>3, <2>6 DEF FreshOK, Doing
  <2> QED BY <1>1, <2>1, <2>2, <2>5, <2>7, <2>8, <2>9, <2>10, StatementStep DEF Types, TableInv
<1> QED BY <1>3, <1>4

LEMMA OpenCreatedInv ==
  ASSUME Inv, OpenCreated
  PROVE  Inv'
<1>t. PICK t : t = op.table
  OBVIOUS
<1>0. /\ op.kind = "create" /\ op.at = "open" /\ Done
      /\ opened' = [opened EXCEPT ![t] = TableObject(op.id, <<>>)]
      /\ created' = [created EXCEPT ![t] = op.id]
      /\ UNCHANGED <<disk, next_id, up, faults, refused>>
  BY <1>t DEF OpenCreated, Executing
<1>1. /\ t \in Tables /\ up /\ Types /\ TypeOK /\ OpOK /\ TableInv(t)
      /\ MemoryOK(t) /\ CreatedOK(t) /\ ProgressOK(t) /\ CleanOK(t) /\ FreshOK(t)
  BY <1>t, <1>0, Started
<1>2. On(t, "create") /\ ~On(t, "drop") /\ ~On(t, "index")
  BY <1>t, <1>0 DEF On
<1>3. OpOK' /\ op'.kind = "idle" /\ \A k \in {"create", "drop", "index"} : ~On(t, k)'
  BY <1>0, DoneOp DEF On
<1>a. op.id \in -1 .. MaxIds
  BY <1>1 DEF OpOK, OpTypes
<1>4. /\ opened' \in [Tables -> TableTypes] /\ opened'[t] = TableObject(op.id, <<>>)
      /\ \A u \in Tables \ {t} : opened'[u] = opened[u]
  <2>1. TableObject(op.id, <<>>) \in TableTypes
    BY <1>a, Constructors
  <2> QED BY <1>0, <1>1, <2>1, TypesNow
<1>5. /\ created' \in [Tables -> -1 .. MaxIds] /\ created'[t] = op.id
      /\ \A u \in Tables \ {t} : created'[u] = created[u]
  BY <1>0, <1>1, <1>a, TypesNow
<1>6. TypeOK'
  BY <1>0, <1>1, <1>4, <1>5, TypesNow, TypesNext DEF disk
<1>7. Bound <= Bound' /\ Bound' = next_id /\ Bound = op.id /\ op.id < next_id
  BY <1>0, <1>1, <1>3, BoundKept
<1>8. /\ opened'[t].state = "open" /\ opened'[t].id = op.id /\ opened'[t].meta = <<>>
      /\ opened'[t].indexes = <<>>
  BY <1>4 DEF TableObject
<1>9. StepOn(t)
  <2>1. IdsKept(t)
    <3>1. \A u \in Tables \ {t} : ~HasId(u, op.id)
      BY <1>t, <1>0, OtherIds
    <3>2. \A id \in -1 .. MaxIds : HasId(t, id)' => HasId(t, id) \/ id = op.id
      BY <1>0, <1>8 DEF HasId, disk
    <3> QED BY <3>1, <3>2 DEF IdsKept
  <2> QED BY <1>t, <1>0, <1>1, <1>3, <1>4, <1>5, <1>7, <2>1 DEF StepOn, SameTable, Clean, disk
<1>10. /\ opened[t].state = "none" /\ t \in data
       /\ meta[t] = MetaFile(op.id, <<>>) \/ meta[t] = Cut
  BY <1>0, <1>1, <1>2 DEF ProgressOK, Doing
<1>11. meta[t].kind \in {"full", "cut"} /\ (meta[t].kind = "full" => meta[t].id = op.id)
  BY <1>10 DEF MetaFile, Cut
<1>12. MemoryOK(t)' /\ CreatedOK(t)'
  BY <1>0, <1>1, <1>3, <1>5, <1>8, <1>10, NamesEmpty DEF MemoryOK, CreatedOK, disk
<1>13. ProgressOK(t)'
  BY <1>3 DEF ProgressOK, Doing
<1>14. CleanOK(t)'
  <2> SUFFICES ASSUME Clean' PROVE CleanUp(t)'
    BY <1>0, <1>1 DEF CleanOK
  <2>1. CleanUp(t) /\ opened[t] = NotOpened
    BY <1>0, <1>1, <1>10 DEF CleanOK, Clean, MemoryOK
  <2>2. Names(opened[t].meta) = {} /\ Names(opened'[t].meta) = {}
    BY <1>8, <2>1, NamesEmpty DEF NotOpened
  <2>3. tmp[t] = NoFile /\ \A i \in Indexes : <<t, i>> \notin ixfile
    BY <1>2, <2>1, <2>2 DEF CleanUp, Doing
  <2> QED BY <1>0, <1>3, <1>8, <1>10, <1>11, <2>2, <2>3 DEF CleanUp, Doing, disk
<1>15. FreshOK(t)'
  BY <1>0, <1>7, <1>8, <1>11 DEF FreshOK, disk
<1> QED BY <1>1, <1>3, <1>6, <1>9, <1>12, <1>13, <1>14, <1>15, StatementStep DEF Types, TableInv

LEMMA DropTableInv ==
  ASSUME Inv, NEW t \in Tables, DropTable(t)
  PROVE  Inv'
<1>0. /\ up /\ op = Idle /\ op.kind = "idle" /\ opened[t].state = "open"
      /\ op' = [Idle EXCEPT !.kind = "drop", !.at = "meta", !.table = t]
      /\ created' = [created EXCEPT ![t] = -1]
      /\ UNCHANGED <<disk, opened, next_id, up, faults, refused>>
  BY DEF DropTable, Idle
<1>1. /\ Types /\ TypeOK /\ OpOK /\ TableInv(t)
      /\ MemoryOK(t) /\ CreatedOK(t) /\ ProgressOK(t) /\ CleanOK(t) /\ FreshOK(t)
  BY DEF Inv, Types, TableInv
<1>2. /\ op'.kind = "drop" /\ op'.at = "meta" /\ op'.table = t /\ op'.id = -1 /\ op'.index = ""
      /\ op'.n = 0
  BY <1>0 DEF Idle
<1>3. OpOK'
  <2>1. op' \in OpTypes
    <3>1. -1 \in -1 .. MaxIds
      BY CatalogAssumption
    <3> QED BY <1>0, <3>1 DEF Idle, OpTypes
  <2>2. op' # Idle
    BY <1>0, <1>2
  <2> QED BY <1>0, <1>2, <2>1, <2>2 DEF OpOK
<1>4. /\ created' \in [Tables -> -1 .. MaxIds] /\ created'[t] = -1
      /\ \A u \in Tables \ {t} : created'[u] = created[u]
  BY <1>0, <1>1, TypesNow, CatalogAssumption
<1>5. TypeOK'
  BY <1>0, <1>1, <1>4 DEF TypeOK, disk
<1>6. /\ \A k \in {"create", "drop", "index"} : ~On(t, k)
      /\ On(t, "drop")' /\ ~On(t, "create")' /\ ~On(t, "index")'
  BY <1>0, <1>2 DEF On
<1>7. Bound' = Bound /\ Bound \in Int
  BY <1>0, <1>1, <1>2, BoundKept DEF Bound
<1>8. StepOn(t)
  <2>1. Bound <= Bound' /\ (Clean' => Clean) /\ up' /\ UNCHANGED <<meta, tmp, data, ixfile, opened>>
    BY <1>0, <1>7 DEF Clean, disk
  <2> QED BY <1>0, <1>2, <1>4, <2>1 DEF StepOn, IdsKept, HasId, SameTable
<1>9. MemoryOK(t)' /\ CreatedOK(t)' /\ ProgressOK(t)'
  BY <1>0, <1>1, <1>2, <1>4, <1>6 DEF MemoryOK, CreatedOK, ProgressOK, Doing, disk
<1>10. CleanOK(t)'
  BY <1>0, <1>1, <1>2, <1>6 DEF CleanOK, CleanUp, Clean, Doing, disk
<1>11. FreshOK(t)'
  BY <1>0, <1>1, <1>6, <1>7 DEF FreshOK, Doing, disk
<1> QED BY <1>3, <1>5, <1>8, <1>9, <1>10, <1>11, StatementStep DEF Types, TableInv

LEMMA UnlinkMetaInv ==
  ASSUME Inv, UnlinkMeta
  PROVE  Inv'
<1>t. PICK t : t = op.table
  OBVIOUS
<1>0. /\ op.kind = "drop" /\ op.at = "meta" /\ Goto("data")
      /\ meta' = [meta EXCEPT ![t] = NoFile]
      /\ UNCHANGED <<tmp, data, ixfile, opened, next_id, up, history>>
  BY <1>t DEF UnlinkMeta, Executing
<1>1. /\ t \in Tables /\ up /\ Types /\ TypeOK /\ OpOK /\ TableInv(t)
      /\ MemoryOK(t) /\ CreatedOK(t) /\ ProgressOK(t) /\ CleanOK(t) /\ FreshOK(t)
  BY <1>t, <1>0, Started
<1>2. On(t, "drop") /\ ~On(t, "create") /\ ~On(t, "index")
  BY <1>t, <1>0 DEF On
<1>3. /\ OpOK' /\ op'.kind = "drop" /\ op'.table = t /\ op'.id = op.id /\ op'.at = "data"
      /\ op'.n = op.n
  BY <1>t, <1>0, <1>1, GotoOp
<1>4. meta' \in [Tables -> MetaFiles] /\ meta'[t] = NoFile /\ \A u \in Tables \ {t} : meta'[u] = meta[u]
  BY <1>0, <1>1, Constructors, TypesNow
<1>5. TypeOK'
  BY <1>0, <1>1, <1>4 DEF TypeOK, history
<1>6. On(t, "drop")' /\ ~On(t, "create")' /\ ~On(t, "index")'
  BY <1>3 DEF On
<1>7. Bound' = Bound /\ Bound \in Int
  BY <1>0, <1>1, <1>3, BoundKept
<1>8. NoFile.kind = "none"
  BY DEF NoFile
<1>9. StepOn(t)
  BY <1>t, <1>0, <1>1, <1>3, <1>4, <1>7, <1>8 DEF StepOn, IdsKept, HasId, SameTable, Clean, history
<1>10. opened[t].state = "open" /\ created[t] = -1
  BY <1>1, <1>2 DEF ProgressOK
<1>11. MemoryOK(t)' /\ CreatedOK(t)' /\ ProgressOK(t)'
  BY <1>0, <1>1, <1>2, <1>3, <1>6, <1>10 DEF MemoryOK, CreatedOK, ProgressOK, Doing, history
<1>12. CleanOK(t)'
  BY <1>0, <1>1, <1>2, <1>3, <1>4, <1>6, <1>8, <1>10 DEF CleanOK, CleanUp, Clean, Doing, history
<1>13. FreshOK(t)'
  BY <1>0, <1>1, <1>4, <1>7, <1>8 DEF FreshOK
<1> QED BY <1>1, <1>3, <1>5, <1>9, <1>11, <1>12, <1>13, StatementStep DEF Types, TableInv

LEMMA UnlinkDataInv ==
  ASSUME Inv, UnlinkData
  PROVE  Inv'
<1>t. PICK t : t = op.table
  OBVIOUS
<1>0. /\ op.kind = "drop" /\ op.at = "data" /\ Goto("index") /\ data' = data \ {t}
      /\ UNCHANGED <<meta, tmp, ixfile, opened, next_id, up, history>>
  BY <1>t DEF UnlinkData, Executing
<1>1. /\ t \in Tables /\ up /\ Types /\ TypeOK /\ OpOK /\ TableInv(t)
      /\ MemoryOK(t) /\ CreatedOK(t) /\ ProgressOK(t) /\ CleanOK(t) /\ FreshOK(t)
  BY <1>t, <1>0, Started
<1>2. On(t, "drop") /\ ~On(t, "create") /\ ~On(t, "index")
  BY <1>t, <1>0 DEF On
<1>3. /\ OpOK' /\ op'.kind = "drop" /\ op'.table = t /\ op'.id = op.id /\ op'.at = "index"
      /\ op'.n = op.n
  BY <1>t, <1>0, <1>1, GotoOp
<1>4. TypeOK'
  BY <1>0, <1>1 DEF TypeOK, history
<1>5. On(t, "drop")' /\ ~On(t, "create")' /\ ~On(t, "index")'
  BY <1>3 DEF On
<1>6. Bound' = Bound /\ Bound \in Int
  BY <1>0, <1>1, <1>3, BoundKept
<1>7. StepOn(t)
  BY <1>t, <1>0, <1>1, <1>3, <1>6 DEF StepOn, IdsKept, HasId, SameTable, Clean, history
<1>8. opened[t].state = "open" /\ created[t] = -1
  BY <1>1, <1>2 DEF ProgressOK
<1>9. MemoryOK(t)' /\ CreatedOK(t)' /\ ProgressOK(t)'
  BY <1>0, <1>1, <1>3, <1>5, <1>8 DEF MemoryOK, CreatedOK, ProgressOK, Doing, history
<1>10. CleanOK(t)'
  <2> SUFFICES ASSUME Clean' PROVE CleanUp(t)'
    BY <1>0, <1>1 DEF CleanOK
  <2>1. CleanUp(t)
    BY <1>0, <1>1 DEF CleanOK, Clean, history
  <2>2. Left(t)' = Names(opened[t].meta)
    <3>1. op'.n = 0 /\ opened' = opened
      BY <1>0, <1>1, <1>2, <1>3 DEF ProgressOK, Doing
    <3>2. opened[t].meta \in Seq(Indexes)
      BY <1>1, TypesNow DEF TableTypes
    <3>3. DOMAIN opened[t].meta = 0 + 1 .. Len(opened[t].meta)
      BY <3>2
    <3> QED BY <3>1, <3>3 DEF Left, Names
  <2> QED BY <1>0, <1>2, <1>3, <1>5, <1>8, <2>1, <2>2 DEF CleanUp, Doing
<1>11. FreshOK(t)'
  BY <1>0, <1>1, <1>2, <1>6 DEF FreshOK, Doing
<1> QED BY <1>1, <1>3, <1>4, <1>7, <1>9, <1>10, <1>11, StatementStep DEF Types, TableInv

\* One index file less: those left are the ones the loop has yet to come to.
LEMMA UnlinkIndexInv ==
  ASSUME Inv, UnlinkIndex
  PROVE  Inv'
<1>t. PICK t : t = op.table
  OBVIOUS
<1> DEFINE m == opened[t].meta
<1>0. /\ op.kind = "drop" /\ op.at = "index" /\ op.n < Len(m)
      /\ ixfile' = ixfile \ {<<t, m[op.n + 1]>>} /\ op' = [op EXCEPT !.n = @ + 1]
      /\ UNCHANGED <<meta, tmp, data, opened, next_id, up, history>>
  BY <1>t DEF UnlinkIndex, Executing
<1>1. /\ t \in Tables /\ up /\ Types /\ TypeOK /\ OpOK /\ TableInv(t)
      /\ MemoryOK(t) /\ CreatedOK(t) /\ ProgressOK(t) /\ CleanOK(t) /\ FreshOK(t)
  BY <1>t, <1>0, Started
<1>2. On(t, "drop") /\ ~On(t, "create") /\ ~On(t, "index")
  BY <1>t, <1>0 DEF On
<1>3. /\ OpOK' /\ op'.kind = "drop" /\ op'.table = t /\ op'.id = op.id /\ op'.at = "index"
      /\ op'.n = op.n + 1 /\ op.n \in Nat
  <2>1. op \in OpTypes
    BY <1>1 DEF OpOK
  <2>2. /\ op'.kind = op.kind /\ op'.table = op.table /\ op'.index = op.index /\ op'.id = op.id
        /\ op'.at = op.at /\ op'.n = op.n + 1 /\ op' \in OpTypes /\ op.n \in Nat
    <3>1. op.n \in Nat
      BY <2>1 DEF OpTypes
    <3>2. PICK k \in Nat : k = op.n + 1
      BY <3>1
    <3>3. op' = [op EXCEPT !.n = k]
      BY <1>0, <3>2
    <3>4. op' \in OpTypes
      BY <2>1, <3>3 DEF OpTypes
    <3>5. /\ op'.kind = op.kind /\ op'.table = op.table /\ op'.index = op.index /\ op'.id = op.id
          /\ op'.at = op.at /\ op'.n = k
      BY <2>1, <3>3 DEF OpTypes
    <3> QED BY <3>1, <3>2, <3>4, <3>5
  <2>3. op' # Idle
    BY <1>0, <2>2 DEF Idle
  <2> QED BY <1>t, <1>0, <1>1, <2>2, <2>3 DEF OpOK
<1>4. TypeOK'
  BY <1>0, <1>1 DEF TypeOK, history
<1>5. On(t, "drop")' /\ ~On(t, "create")' /\ ~On(t, "index")'
  BY <1>3 DEF On
<1>6. Bound' = Bound /\ Bound \in Int
  BY <1>0, <1>1, <1>3, BoundKept
<1>7. \A u \in Tables \ {t}, i \in Indexes : <<u, i>> \in ixfile' <=> <<u, i>> \in ixfile
  BY <1>0
<1>8. StepOn(t)
  BY <1>t, <1>0, <1>1, <1>3, <1>6, <1>7 DEF StepOn, IdsKept, HasId, SameTable, Clean, history
<1>9. opened[t].state = "open" /\ created[t] = -1
  BY <1>1, <1>2 DEF ProgressOK
<1>10. MemoryOK(t)' /\ CreatedOK(t)' /\ ProgressOK(t)'
  BY <1>0, <1>1, <1>3, <1>5, <1>9 DEF MemoryOK, CreatedOK, ProgressOK, Doing, history
<1>11. CleanOK(t)'
  <2> SUFFICES ASSUME Clean' PROVE CleanUp(t)'
    BY <1>0, <1>1 DEF CleanOK
  <2>1. CleanUp(t)
    BY <1>0, <1>1 DEF CleanOK, Clean, history
  <2>2. ASSUME NEW i \in Indexes, <<t, i>> \in ixfile' PROVE i \in Left(t)'
    <3>1. <<t, i>> \in ixfile /\ i # m[op.n + 1]
      BY <1>0, <2>2
    <3>2. i \in Left(t)
      BY <1>0, <1>2, <2>1, <3>1 DEF CleanUp, Doing
    <3>3. PICK j \in op.n + 1 .. Len(m) : i = m[j]
      BY <3>2 DEF Left
    <3>4. m \in Seq(Indexes)
      BY <1>1, TypesNow DEF TableTypes
    <3>5. j \in op.n + 2 .. Len(m)
      BY <1>3, <3>1, <3>3, <3>4
    <3>6. (op.n + 1) + 1 = op.n + 2
      BY <1>3
    <3> QED BY <1>0, <1>3, <3>3, <3>5, <3>6 DEF Left
  <2> QED BY <1>0, <1>2, <1>3, <1>5, <1>9, <2>1, <2>2 DEF CleanUp, Doing
<1>12. FreshOK(t)'
  BY <1>0, <1>1, <1>2, <1>6 DEF FreshOK, Doing
<1> QED BY <1>1, <1>3, <1>4, <1>8, <1>10, <1>11, <1>12, StatementStep DEF Types, TableInv

LEMMA EraseTableInv ==
  ASSUME Inv, EraseTable
  PROVE  Inv'
<1>t. PICK t : t = op.table
  OBVIOUS
<1>0. /\ op.kind = "drop" /\ op.at = "index" /\ Done
      /\ op.n = Len(opened[t].meta)
      /\ opened' = [opened EXCEPT ![t] = NotOpened]
      /\ UNCHANGED <<meta, tmp, data, ixfile, next_id, up, history>>
  BY <1>t DEF EraseTable, Executing, disk
<1>1. /\ t \in Tables /\ up /\ Types /\ TypeOK /\ OpOK /\ TableInv(t)
      /\ MemoryOK(t) /\ CreatedOK(t) /\ ProgressOK(t) /\ CleanOK(t) /\ FreshOK(t)
  BY <1>t, <1>0, Started
<1>2. On(t, "drop") /\ ~On(t, "create") /\ ~On(t, "index")
  BY <1>t, <1>0 DEF On
<1>3. OpOK' /\ op'.kind = "idle" /\ \A k \in {"create", "drop", "index"} : ~On(t, k)'
  BY <1>0, DoneOp DEF On
<1>4. /\ opened' \in [Tables -> TableTypes] /\ opened'[t] = NotOpened
      /\ \A u \in Tables \ {t} : opened'[u] = opened[u]
  BY <1>0, <1>1, Constructors, TypesNow
<1>5. TypeOK'
  BY <1>0, <1>1, <1>4, TypesNow, TypesNext DEF history
<1>6. Bound' = Bound /\ Bound \in Int
  BY <1>0, <1>1, <1>3, BoundKept DEF Bound
<1>7. NotOpened.state = "none" /\ Names(NotOpened.meta) = {} /\ Names(NotOpened.indexes) = {}
  BY NamesEmpty DEF NotOpened
<1>9. StepOn(t)
  BY <1>t, <1>0, <1>1, <1>3, <1>4, <1>6, <1>7 DEF StepOn, IdsKept, HasId, SameTable, Clean, history
<1>10. opened[t].state = "open" /\ created[t] = -1
  BY <1>1, <1>2 DEF ProgressOK
<1>11. MemoryOK(t)' /\ CreatedOK(t)' /\ ProgressOK(t)'
  BY <1>0, <1>3, <1>4, <1>7, <1>10 DEF MemoryOK, CreatedOK, ProgressOK, Doing, history
<1>12. CleanOK(t)'
  <2> SUFFICES ASSUME Clean' PROVE CleanUp(t)'
    BY <1>0, <1>1 DEF CleanOK
  <2>1. CleanUp(t)
    BY <1>0, <1>1 DEF CleanOK, Clean, history
  <2>2. \A i \in Indexes : <<t, i>> \notin ixfile'
    <3>1. opened[t].meta \in Seq(Indexes)
      BY <1>1, TypesNow DEF TableTypes
    <3>2. op.n + 1 .. Len(opened[t].meta) = {}
      BY <1>0, <3>1
    <3>3. Left(t) = {}
      BY <3>2 DEF Left
    <3> QED BY <1>0, <1>2, <2>1, <3>3 DEF CleanUp, Doing
  <2> QED BY <1>0, <1>2, <1>3, <1>4, <1>7, <1>10, <2>1, <2>2 DEF CleanUp, Doing
<1>13. FreshOK(t)'
  BY <1>0, <1>1, <1>2, <1>4, <1>6, <1>7 DEF FreshOK, Doing
<1> QED BY <1>1, <1>3, <1>5, <1>9, <1>11, <1>12, <1>13, StatementStep DEF Types, TableInv

\* The name of a table whose drop failed keeps its id in opened_tables_.
LEMMA DropFailsInv ==
  ASSUME Inv, DropFails
  PROVE  Inv'
<1>t. PICK t : t = op.table
  OBVIOUS
<1>0. /\ op.kind = "drop" /\ Done /\ faults < MaxFaults /\ faults' = faults + 1
      /\ opened' = [opened EXCEPT ![t].state = "freed"]
      /\ UNCHANGED <<disk, next_id, up, created, refused>>
  BY <1>t DEF DropFails
<1>1. /\ t \in Tables /\ up /\ Types /\ TypeOK /\ OpOK /\ TableInv(t)
      /\ MemoryOK(t) /\ CreatedOK(t) /\ ProgressOK(t) /\ CleanOK(t) /\ FreshOK(t)
  BY <1>t, <1>0, Started
<1>2. On(t, "drop") /\ ~On(t, "create") /\ ~On(t, "index")
  BY <1>t, <1>0 DEF On
<1>3. OpOK' /\ op'.kind = "idle" /\ \A k \in {"create", "drop", "index"} : ~On(t, k)'
  BY <1>0, DoneOp DEF On
<1>4. /\ opened' \in [Tables -> TableTypes] /\ opened'[t].state = "freed"
      /\ opened'[t].id = opened[t].id /\ opened'[t].meta = opened[t].meta
      /\ opened'[t].indexes = opened[t].indexes
      /\ \A u \in Tables \ {t} : opened'[u] = opened[u]
  BY <1>0, <1>1, TypesNow DEF TableTypes
<1>5. faults' \in 0 .. MaxFaults /\ faults' # 0
  <2>1. faults \in 0 .. MaxFaults /\ MaxFaults \in Nat
    BY <1>1, CatalogAssumption DEF TypeOK
  <2> QED BY <1>0, <2>1
<1>6. TypeOK'
  BY <1>0, <1>1, <1>4, <1>5, TypesNow, TypesNext DEF disk
<1>7. Bound' = Bound /\ Bound \in Int
  BY <1>0, <1>1, <1>3, BoundKept DEF Bound
<1>8. opened[t].state = "open" /\ created[t] = -1
  BY <1>1, <1>2 DEF ProgressOK
<1>9. StepOn(t)
  BY <1>t, <1>0, <1>1, <1>3, <1>4, <1>5, <1>7, <1>8 DEF StepOn, IdsKept, HasId, SameTable, Clean, disk
<1>10. MemoryOK(t)' /\ CreatedOK(t)' /\ ProgressOK(t)'
  BY <1>0, <1>1, <1>3, <1>4, <1>8 DEF MemoryOK, CreatedOK, ProgressOK, Doing, disk
<1>11. CleanOK(t)'
  BY <1>5 DEF CleanOK, Clean
<1>12. FreshOK(t)'
  BY <1>0, <1>1, <1>2, <1>4, <1>7, <1>8 DEF FreshOK, Doing, disk
<1> QED BY <1>1, <1>3, <1>6, <1>9, <1>10, <1>11, <1>12, StatementStep DEF Types, TableInv

LEMMA CreateIndexInv ==
  ASSUME Inv, NEW t \in Tables, NEW i \in Indexes, CreateIndex(t, i)
  PROVE  Inv'
<1>0. /\ up /\ op = Idle /\ op.kind = "idle" /\ opened[t].state = "open"
      /\ i \notin Names(opened[t].indexes)
      /\ op' = [Idle EXCEPT !.kind = "index", !.at = "file", !.table = t, !.index = i]
      /\ UNCHANGED <<disk, opened, next_id, up, history>>
  BY DEF CreateIndex, Idle
<1>1. /\ Types /\ TypeOK /\ OpOK /\ TableInv(t)
      /\ MemoryOK(t) /\ CreatedOK(t) /\ ProgressOK(t) /\ CleanOK(t) /\ FreshOK(t)
  BY DEF Inv, Types, TableInv
<1>2. /\ op'.kind = "index" /\ op'.at = "file" /\ op'.table = t /\ op'.id = -1 /\ op'.index = i
  BY <1>0 DEF Idle
<1>3. OpOK'
  <2>1. op' \in OpTypes
    <3>1. -1 \in -1 .. MaxIds
      BY CatalogAssumption
    <3> QED BY <1>0, <3>1 DEF Idle, OpTypes
  <2>2. op' # Idle
    BY <1>0, <1>2
  <2> QED BY <1>0, <1>2, <2>1, <2>2 DEF OpOK
<1>4. TypeOK'
  BY <1>0, <1>1 DEF TypeOK, disk, history
<1>5. /\ \A k \in {"create", "drop", "index"} : ~On(t, k)
      /\ On(t, "index")' /\ ~On(t, "create")' /\ ~On(t, "drop")'
  BY <1>0, <1>2 DEF On
<1>6. Bound' = Bound /\ Bound \in Int
  BY <1>0, <1>1, <1>2, BoundKept DEF Bound
<1>7. StepOn(t)
  <2>1. Bound <= Bound' /\ (Clean' => Clean) /\ up' /\ UNCHANGED <<meta, tmp, data, ixfile, opened, created>>
    BY <1>0, <1>6 DEF Clean, disk, history
  <2> QED BY <1>0, <1>2, <2>1 DEF StepOn, IdsKept, HasId, SameTable
<1>8. MemoryOK(t)' /\ CreatedOK(t)' /\ ProgressOK(t)'
  BY <1>0, <1>1, <1>2, <1>5 DEF MemoryOK, CreatedOK, ProgressOK, Doing, disk, history
<1>9. CleanOK(t)'
  BY <1>0, <1>1, <1>2, <1>5 DEF CleanOK, CleanUp, Clean, Doing, disk, history
<1>10. FreshOK(t)'
  BY <1>0, <1>1, <1>5, <1>6 DEF FreshOK, Doing, disk
<1> QED BY <1>3, <1>4, <1>7, <1>8, <1>9, <1>10, StatementStep DEF Types, TableInv

LEMMA CreateIndexFileInv ==
  ASSUME Inv, CreateIndexFile
  PROVE  Inv'
<1>t. PICK t : t = op.table
  OBVIOUS
<1>0. op.kind = "index" /\ op.at = "file" /\ UNCHANGED <<meta, tmp, data, opened, next_id, up, history>>
  BY DEF CreateIndexFile, Executing
<1>1. /\ t \in Tables /\ up /\ Types /\ TypeOK /\ OpOK /\ TableInv(t)
      /\ MemoryOK(t) /\ CreatedOK(t) /\ ProgressOK(t) /\ CleanOK(t) /\ FreshOK(t)
  BY <1>t, <1>0, Started
<1>2. On(t, "index") /\ ~On(t, "drop") /\ ~On(t, "create") /\ op.index \in Indexes
  BY <1>t, <1>0, <1>1 DEF On, OpOK
<1>3. opened[t].state = "open" /\ op.index \notin Names(opened[t].indexes)
      /\ op.index \notin Names(opened[t].meta)
  BY <1>0, <1>1, <1>2 DEF ProgressOK, MemoryOK, Doing
<1>4. CASE <<t, op.index>> \in ixfile
  <2>1. Done /\ UNCHANGED ixfile
    BY <1>t, <1>4 DEF CreateIndexFile
  <2>2. ~CleanUp(t)
    BY <1>0, <1>2, <1>3, <1>4 DEF CleanUp, Doing
  <2>3. ~Clean' /\ TypeOK'
    BY <1>0, <1>1, <2>1, <2>2 DEF CleanOK, Clean, TypeOK, history
  <2> QED BY <1>0, <2>1, <2>3, GivenUp DEF disk, history
<1>5. CASE <<t, op.index>> \notin ixfile
  <2>0. ixfile' = ixfile \cup {<<t, op.index>>} /\ Goto("scan")
    BY <1>t, <1>5 DEF CreateIndexFile
  <2>1. /\ OpOK' /\ op'.kind = "index" /\ op'.table = t /\ op'.id = op.id /\ op'.at = "scan"
        /\ op'.index = op.index
    BY <1>t, <1>0, <1>1, <2>0, GotoOp
  <2>2. TypeOK'
    BY <1>0, <1>1, <1>2, <2>0 DEF TypeOK, history
  <2>3. On(t, "index")' /\ ~On(t, "drop")' /\ ~On(t, "create")'
    BY <2>1 DEF On
  <2>4. Bound' = Bound /\ Bound \in Int
    BY <1>0, <1>1, <2>1, BoundKept
  <2>5. StepOn(t)
    BY <1>t, <1>0, <1>1, <2>0, <2>1, <2>4 DEF StepOn, IdsKept, HasId, SameTable, Clean, history
  <2>6. MemoryOK(t)' /\ CreatedOK(t)'
    BY <1>0, <1>1, <1>2, <2>0, <2>3 DEF MemoryOK, CreatedOK, history
  <2>7. ProgressOK(t)'
    BY <1>0, <1>3, <2>0, <2>1, <2>3 DEF ProgressOK, Doing
  <2>8. CleanOK(t)'
    <3> SUFFICES ASSUME Clean' PROVE CleanUp(t)'
      BY <1>0, <1>1 DEF CleanOK
    <3>1. CleanUp(t)
      BY <1>0, <1>1 DEF CleanOK, Clean, history
    <3>2. ASSUME NEW i \in Indexes
          PROVE  <<t, i>> \in ixfile' <=> i \in Names(opened[t].meta) \/ i = op.index
      BY <1>0, <1>2, <2>0, <3>1, <3>2 DEF CleanUp, Doing
    <3> QED BY <1>0, <1>2, <2>1, <2>3, <3>1, <3>2 DEF CleanUp, Doing
  <2>9. FreshOK(t)'
    BY <1>0, <1>1, <1>2, <2>4 DEF FreshOK, Doing
  <2> QED BY <1>1, <2>1, <2>2, <2>5, <2>6, <2>7, <2>8, <2>9, StatementStep DEF Types, TableInv
<1> QED BY <1>4, <1>5

\* A Table object whose meta data, or whose index objects, are replaced.
LEMMA ObjectMeta ==
  ASSUME NEW o \in [Tables -> TableTypes], NEW t \in Tables, NEW s \in Seq(Indexes),
         NEW n, n = [o EXCEPT ![t].meta = s]
  PROVE  /\ n \in [Tables -> TableTypes] /\ \A u \in Tables \ {t} : n[u] = o[u]
         /\ n[t].state = o[t].state /\ n[t].id = o[t].id /\ n[t].meta = s
         /\ n[t].indexes = o[t].indexes
<1> DEFINE r == [o[t] EXCEPT !.meta = s]
<1>1. o[t] \in TableTypes
  OBVIOUS
<1>2. r \in TableTypes
  BY <1>1 DEF TableTypes
<1>3. r.state = o[t].state /\ r.id = o[t].id /\ r.meta = s /\ r.indexes = o[t].indexes
  BY <1>1 DEF TableTypes
<1>4. n[t] = r /\ DOMAIN n = Tables /\ n = [o EXCEPT ![t] = r]
  OBVIOUS
<1> HIDE DEF r
<1> QED BY <1>2, <1>3, <1>4

LEMMA ObjectIndexes ==
  ASSUME NEW o \in [Tables -> TableTypes], NEW t \in Tables, NEW s \in Seq(Indexes),
         NEW n, n = [o EXCEPT ![t].indexes = s]
  PROVE  /\ n \in [Tables -> TableTypes] /\ \A u \in Tables \ {t} : n[u] = o[u]
         /\ n[t].state = o[t].state /\ n[t].id = o[t].id /\ n[t].meta = o[t].meta
         /\ n[t].indexes = s
<1> DEFINE r == [o[t] EXCEPT !.indexes = s]
<1>1. o[t] \in TableTypes
  OBVIOUS
<1>2. r \in TableTypes
  BY <1>1 DEF TableTypes
<1>3. r.state = o[t].state /\ r.id = o[t].id /\ r.meta = o[t].meta /\ r.indexes = s
  BY <1>1 DEF TableTypes
<1>4. n[t] = r /\ DOMAIN n = Tables /\ n = [o EXCEPT ![t] = r]
  OBVIOUS
<1> HIDE DEF r
<1> QED BY <1>2, <1>3, <1>4

LEMMA PushIndexInv ==
  ASSUME Inv, PushIndex
  PROVE  Inv'
<1>t. PICK t : t = op.table
  OBVIOUS
<1>0. /\ op.kind = "index" /\ op.at = "scan" /\ Goto("tmp")
      /\ opened' = [opened EXCEPT ![t].indexes = Append(@, op.index)]
      /\ UNCHANGED <<meta, tmp, data, ixfile, next_id, up, history>>
  BY <1>t DEF PushIndex, Executing, disk
<1>1. /\ t \in Tables /\ up /\ Types /\ TypeOK /\ OpOK /\ TableInv(t)
      /\ MemoryOK(t) /\ CreatedOK(t) /\ ProgressOK(t) /\ CleanOK(t) /\ FreshOK(t)
  BY <1>t, <1>0, Started
<1>2. On(t, "index") /\ ~On(t, "drop") /\ ~On(t, "create") /\ op.index \in Indexes
  BY <1>t, <1>0, <1>1 DEF On, OpOK
<1>3. /\ OpOK' /\ op'.kind = "index" /\ op'.table = t /\ op'.id = op.id /\ op'.at = "tmp"
      /\ op'.index = op.index
  BY <1>t, <1>0, <1>1, GotoOp
<1>4. opened[t] \in TableTypes /\ opened \in [Tables -> TableTypes]
  BY <1>1, TypesNow
<1>5. /\ Names(Append(opened[t].indexes, op.index)) = Names(opened[t].indexes) \cup {op.index}
      /\ Append(opened[t].indexes, op.index) \in Seq(Indexes)
  BY <1>2, <1>4, NamesAppend DEF TableTypes
<1>6. /\ opened' \in [Tables -> TableTypes] /\ opened'[t].state = opened[t].state
      /\ opened'[t].id = opened[t].id /\ opened'[t].meta = opened[t].meta
      /\ opened'[t].indexes = Append(opened[t].indexes, op.index)
      /\ \A u \in Tables \ {t} : opened'[u] = opened[u]
  <2> DEFINE more == Append(opened[t].indexes, op.index)
  <2>1. opened' = [opened EXCEPT ![t].indexes = more] /\ more \in Seq(Indexes)
    BY <1>0, <1>5
  <2> HIDE DEF more
  <2>2. /\ opened' \in [Tables -> TableTypes] /\ opened'[t].state = opened[t].state
        /\ opened'[t].id = opened[t].id /\ opened'[t].meta = opened[t].meta
        /\ opened'[t].indexes = more /\ \A u \in Tables \ {t} : opened'[u] = opened[u]
    BY <1>1, <1>4, <2>1, ObjectIndexes
  <2> QED BY <2>2 DEF more
<1>8. TypeOK'
  BY <1>0, <1>1, <1>6, TypesNow, TypesNext DEF history
<1>9. On(t, "index")' /\ ~On(t, "drop")' /\ ~On(t, "create")'
  BY <1>3 DEF On
<1>10. Bound' = Bound /\ Bound \in Int
  BY <1>0, <1>1, <1>3, BoundKept
<1>11. StepOn(t)
  BY <1>t, <1>0, <1>1, <1>3, <1>6, <1>10 DEF StepOn, IdsKept, HasId, SameTable, Clean, history
<1>12. opened[t].state = "open" /\ <<t, op.index>> \in ixfile
  BY <1>0, <1>1, <1>2 DEF ProgressOK, Doing
<1>13. MemoryOK(t)'
  <2>1. Names(opened'[t].meta) \subseteq Names(opened'[t].indexes)
    BY <1>1, <1>5, <1>6 DEF MemoryOK
  <2> QED BY <1>0, <1>1, <1>2, <1>6, <1>12, <2>1 DEF MemoryOK
<1>14. CreatedOK(t)'
  BY <1>0, <1>1, <1>6, <1>9 DEF CreatedOK, history
<1>15. ProgressOK(t)'
  BY <1>0, <1>3, <1>5, <1>6, <1>9, <1>12 DEF ProgressOK, Doing
<1>16. CleanOK(t)'
  <2> SUFFICES ASSUME Clean' PROVE CleanUp(t)'
    BY <1>0, <1>1 DEF CleanOK
  <2>1. CleanUp(t)
    BY <1>0, <1>1 DEF CleanOK, Clean, history
  <2> QED BY <1>0, <1>2, <1>3, <1>6, <1>9, <2>1 DEF CleanUp, Doing
<1>17. FreshOK(t)'
  BY <1>0, <1>1, <1>2, <1>6, <1>10 DEF FreshOK, Doing
<1> QED BY <1>1, <1>3, <1>8, <1>11, <1>13, <1>14, <1>15, <1>16, <1>17, StatementStep DEF Types, TableInv

LEMMA OpenTmpInv ==
  ASSUME Inv, OpenTmp
  PROVE  Inv'
<1>t. PICK t : t = op.table
  OBVIOUS
<1>0. /\ op.kind = "index" /\ op.at = "tmp" /\ Goto("serialize")
      /\ tmp' = [tmp EXCEPT ![t] = Torn]
      /\ UNCHANGED <<meta, data, ixfile, opened, next_id, up, history>>
  BY <1>t DEF OpenTmp, Executing
<1>1. /\ t \in Tables /\ up /\ Types /\ TypeOK /\ OpOK /\ TableInv(t)
      /\ MemoryOK(t) /\ CreatedOK(t) /\ ProgressOK(t) /\ CleanOK(t) /\ FreshOK(t)
  BY <1>t, <1>0, Started
<1>2. On(t, "index") /\ ~On(t, "drop") /\ ~On(t, "create") /\ op.index \in Indexes
  BY <1>t, <1>0, <1>1 DEF On, OpOK
<1>3. /\ OpOK' /\ op'.kind = "index" /\ op'.table = t /\ op'.id = op.id /\ op'.at = "serialize"
      /\ op'.index = op.index
  BY <1>t, <1>0, <1>1, GotoOp
<1>5. tmp' \in [Tables -> MetaFiles] /\ \A u \in Tables \ {t} : tmp'[u] = tmp[u]
  BY <1>0, <1>1, Constructors, TypesNow
<1>6. TypeOK'
  BY <1>0, <1>1, <1>5 DEF TypeOK, history
<1>7. On(t, "index")' /\ ~On(t, "drop")' /\ ~On(t, "create")'
  BY <1>3 DEF On
<1>8. Bound' = Bound /\ Bound \in Int
  BY <1>0, <1>1, <1>3, BoundKept
<1>9. StepOn(t)
  BY <1>t, <1>0, <1>1, <1>3, <1>5, <1>8 DEF StepOn, IdsKept, HasId, SameTable, Clean, history
<1>10. opened[t].state = "open" /\ <<t, op.index>> \in ixfile /\ op.index \in Names(opened[t].indexes)
  BY <1>0, <1>1, <1>2 DEF ProgressOK, Doing
<1>11. MemoryOK(t)' /\ CreatedOK(t)'
  BY <1>0, <1>1, <1>2, <1>7 DEF MemoryOK, CreatedOK, history
<1>12. ProgressOK(t)'
  BY <1>0, <1>3, <1>7, <1>10 DEF ProgressOK, Doing
<1>13. CleanOK(t)'
  <2> SUFFICES ASSUME Clean' PROVE CleanUp(t)'
    BY <1>0, <1>1 DEF CleanOK
  <2>1. CleanUp(t)
    BY <1>0, <1>1 DEF CleanOK, Clean, history
  <2> QED BY <1>0, <1>2, <1>3, <1>7, <2>1 DEF CleanUp, Doing
<1>14. FreshOK(t)'
  BY <1>0, <1>1, <1>2, <1>8 DEF FreshOK, Doing
<1> QED BY <1>1, <1>3, <1>6, <1>9, <1>11, <1>12, <1>13, <1>14, StatementStep DEF Types, TableInv

LEMMA SerializeTmpInv ==
  ASSUME Inv, SerializeTmp
  PROVE  Inv'
<1>t. PICK t : t = op.table
  OBVIOUS
<1>0. /\ op.kind = "index" /\ op.at = "serialize" /\ Goto("rename")
      /\ UNCHANGED <<meta, data, ixfile, opened, next_id, up, created, refused>>
  BY <1>t DEF SerializeTmp, Executing
<1>m. PICK m \in {MetaFile(opened[t].id, Append(opened[t].meta, op.index)), Cut} :
         tmp' = [tmp EXCEPT ![t] = m] /\ (faults' = faults \/ (faults < MaxFaults /\ faults' = faults + 1))
  BY <1>t DEF SerializeTmp, Unnoticed
<1>1. /\ t \in Tables /\ up /\ Types /\ TypeOK /\ OpOK /\ TableInv(t)
      /\ MemoryOK(t) /\ CreatedOK(t) /\ ProgressOK(t) /\ CleanOK(t) /\ FreshOK(t)
  BY <1>t, <1>0, Started
<1>2. On(t, "index") /\ ~On(t, "drop") /\ ~On(t, "create") /\ op.index \in Indexes
  BY <1>t, <1>0, <1>1 DEF On, OpOK
<1>3. /\ OpOK' /\ op'.kind = "index" /\ op'.table = t /\ op'.id = op.id /\ op'.at = "rename"
      /\ op'.index = op.index
  BY <1>t, <1>0, <1>1, GotoOp
<1>4. m \in MetaFiles
  <2>1. opened[t] \in TableTypes
    BY <1>1, TypesNow
  <2>2. opened[t].id \in -1 .. MaxIds /\ Append(opened[t].meta, op.index) \in Seq(Indexes)
    BY <1>2, <2>1 DEF TableTypes
  <2> QED BY <1>m, <2>2, Constructors
<1>5. tmp' \in [Tables -> MetaFiles] /\ tmp'[t] = m /\ \A u \in Tables \ {t} : tmp'[u] = tmp[u]
  BY <1>m, <1>1, <1>4, TypesNow
<1>f. faults' \in 0 .. MaxFaults /\ (Clean' => Clean)
  <2>1. faults \in 0 .. MaxFaults /\ MaxFaults \in Nat
    BY <1>1, CatalogAssumption DEF TypeOK
  <2>2. faults' \in 0 .. MaxFaults /\ (faults' = 0 => faults = 0)
    BY <1>m, <2>1
  <2> QED BY <1>0, <2>2 DEF Clean
<1>6. TypeOK'
  BY <1>0, <1>1, <1>5, <1>f DEF TypeOK
<1>7. On(t, "index")' /\ ~On(t, "drop")' /\ ~On(t, "create")'
  BY <1>3 DEF On
<1>8. Bound' = Bound /\ Bound \in Int
  BY <1>0, <1>1, <1>3, BoundKept
<1>9. StepOn(t)
  BY <1>t, <1>0, <1>1, <1>3, <1>5, <1>8, <1>f DEF StepOn, IdsKept, HasId, SameTable
<1>10. opened[t].state = "open" /\ <<t, op.index>> \in ixfile /\ op.index \in Names(opened[t].indexes)
  BY <1>0, <1>1, <1>2 DEF ProgressOK, Doing
<1>11. MemoryOK(t)' /\ CreatedOK(t)'
  BY <1>0, <1>1, <1>2, <1>7 DEF MemoryOK, CreatedOK
<1>12. ProgressOK(t)'
  BY <1>m, <1>0, <1>3, <1>5, <1>7, <1>10 DEF ProgressOK, Doing
<1>13. CleanOK(t)'
  <2> SUFFICES ASSUME Clean' PROVE CleanUp(t)'
    BY <1>0, <1>1 DEF CleanOK
  <2>1. CleanUp(t)
    BY <1>1, <1>f DEF CleanOK
  <2> QED BY <1>0, <1>2, <1>3, <1>7, <2>1 DEF CleanUp, Doing
<1>14. FreshOK(t)'
  BY <1>0, <1>1, <1>2, <1>8 DEF FreshOK, Doing
<1> QED BY <1>1, <1>3, <1>6, <1>9, <1>11, <1>12, <1>13, <1>14, StatementStep DEF Types, TableInv

\* rename: the meta file is replaced by one with one index more, or by one cut short.
LEMMA RenameTmpInv ==
  ASSUME Inv, RenameTmp
  PROVE  Inv'
<1>t. PICK t : t = op.table
  OBVIOUS
<1> DEFINE more == Append(opened[t].meta, op.index)
<1>0. /\ op.kind = "index" /\ op.at = "rename" /\ Done
      /\ meta' = [meta EXCEPT ![t] = tmp[t]] /\ tmp' = [tmp EXCEPT ![t] = NoFile]
      /\ opened' = [opened EXCEPT ![t].meta = Append(@, op.index)]
      /\ UNCHANGED <<data, ixfile, next_id, up, history>>
  BY <1>t DEF RenameTmp, Executing
<1>1. /\ t \in Tables /\ up /\ Types /\ TypeOK /\ OpOK /\ TableInv(t)
      /\ MemoryOK(t) /\ CreatedOK(t) /\ ProgressOK(t) /\ CleanOK(t) /\ FreshOK(t)
  BY <1>t, <1>0, Started
<1>2. On(t, "index") /\ ~On(t, "drop") /\ ~On(t, "create") /\ op.index \in Indexes
  BY <1>t, <1>0, <1>1 DEF On, OpOK
<1>3. OpOK' /\ op'.kind = "idle" /\ \A k \in {"create", "drop", "index"} : ~On(t, k)'
  BY <1>0, DoneOp DEF On
<1>4. opened[t] \in TableTypes /\ opened \in [Tables -> TableTypes] /\ tmp[t] \in MetaFiles
  BY <1>1, TypesNow
<1>5. Names(more) = Names(opened[t].meta) \cup {op.index} /\ more \in Seq(Indexes)
  BY <1>2, <1>4, NamesAppend DEF TableTypes
<1>6. /\ opened[t].state = "open" /\ <<t, op.index>> \in ixfile /\ op.index \in Names(opened[t].indexes)
      /\ tmp[t] = MetaFile(opened[t].id, more) \/ tmp[t] = Cut
  BY <1>0, <1>1, <1>2 DEF ProgressOK, Doing
<1>7. opened' = [opened EXCEPT ![t].meta = more]
  BY <1>0
<1> HIDE DEF more
<1>8. /\ opened' \in [Tables -> TableTypes] /\ opened'[t].state = opened[t].state
      /\ opened'[t].id = opened[t].id /\ opened'[t].meta = more
      /\ opened'[t].indexes = opened[t].indexes
      /\ \A u \in Tables \ {t} : opened'[u] = opened[u]
  BY <1>1, <1>4, <1>5, <1>7, ObjectMeta
<1>9. /\ tmp' \in [Tables -> MetaFiles] /\ tmp'[t] = NoFile /\ \A u \in Tables \ {t} : tmp'[u] = tmp[u]
      /\ meta' \in [Tables -> MetaFiles] /\ meta'[t] = tmp[t] /\ \A u \in Tables \ {t} : meta'[u] = meta[u]
  BY <1>0, <1>1, <1>4, Constructors, TypesNow
<1>10. TypeOK'
  BY <1>0, <1>1, <1>8, <1>9, TypesNow, TypesNext DEF history
<1>11. Bound' = Bound /\ Bound \in Int
  BY <1>0, <1>1, <1>3, BoundKept DEF Bound
<1>12. /\ t \in data /\ \A i \in Names(opened[t].meta) : <<t, i>> \in ixfile
  BY <1>1, <1>2, <1>6 DEF MemoryOK
<1>13. meta'[t].kind \in {"full", "cut"} /\ (meta'[t].kind = "full" => meta'[t].id = opened[t].id)
  BY <1>6, <1>9 DEF MetaFile, Cut
<1>14. StepOn(t)
  BY <1>t, <1>0, <1>1, <1>3, <1>6, <1>8, <1>9, <1>11, <1>13 DEF StepOn, IdsKept, HasId, SameTable, Clean, history
<1>15. MemoryOK(t)'
  <2>1. Names(opened'[t].meta) \subseteq Names(opened'[t].indexes)
    BY <1>1, <1>5, <1>6, <1>8 DEF MemoryOK
  <2>2. meta'[t] = MetaFile(opened'[t].id, opened'[t].meta) \/ meta'[t] = Cut
    BY <1>6, <1>8, <1>9
  <2>3. \A i \in Names(opened'[t].meta) : <<t, i>> \in ixfile'
    BY <1>0, <1>5, <1>6, <1>8, <1>12
  <2> QED BY <1>0, <1>1, <1>6, <1>8, <1>12, <2>1, <2>2, <2>3 DEF MemoryOK
<1>16. CreatedOK(t)' /\ ProgressOK(t)'
  BY <1>0, <1>1, <1>3, <1>8 DEF CreatedOK, ProgressOK, Doing, history
<1>17. CleanOK(t)'
  <2> SUFFICES ASSUME Clean' PROVE CleanUp(t)'
    BY <1>0, <1>1 DEF CleanOK
  <2>1. CleanUp(t)
    BY <1>0, <1>1 DEF CleanOK, Clean, history
  <2>2. ASSUME NEW i \in Indexes
        PROVE  <<t, i>> \in ixfile' <=> i \in Names(opened'[t].meta)
    BY <1>0, <1>2, <1>5, <1>8, <2>1, <2>2 DEF CleanUp, Doing
  <2> QED BY <1>0, <1>3, <1>6, <1>8, <1>9, <1>12, <1>13, <2>2 DEF CleanUp, Doing
<1>18. FreshOK(t)'
  BY <1>0, <1>1, <1>2, <1>6, <1>8, <1>11, <1>13 DEF FreshOK, Doing
<1> QED BY <1>1, <1>3, <1>10, <1>14, <1>15, <1>16, <1>17, <1>18, StatementStep DEF Types, TableInv

-----------------------------------------------------------------------------
(* Stop and start.                                                         *)

\* What is left when the process is gone.
LEMMA ClosedInv ==
  ASSUME Inv, up, Closed, UNCHANGED <<disk, created>>, TypeOK',
         \A t \in Tables : Clean' => CleanDown(t)'
  PROVE  Inv'
<1>0. Types /\ IdsDistinct /\ TypeOK /\ \A t \in Tables : TableInv(t)
  BY DEF Inv, Types
<1>1. OpOK' /\ op'.kind = "idle" /\ ~up' /\ UNCHANGED <<meta, tmp, data, ixfile>>
  BY DoneOp DEF Done, Closed, disk
<1>2. \A t \in Tables : opened'[t] = NotOpened
  BY DEF Closed
<1>3. NotOpened.state = "none" /\ Names(NotOpened.meta) = {} /\ Names(NotOpened.indexes) = {}
  BY NamesEmpty DEF NotOpened
<1>4. IdsDistinct'
  BY <1>0, <1>1, <1>2, <1>3 DEF IdsDistinct, HasId
<1>5. ASSUME NEW t \in Tables PROVE TableInv(t)'
  <2>1. MemoryOK(t)'
    BY <1>2, <1>3 DEF MemoryOK
  <2>2. CreatedOK(t)'
    <3> SUFFICES ASSUME created[t] # -1
                 PROVE  (meta[t].kind = "full" /\ meta[t].id = created[t]) \/ meta[t] = Cut
      BY <1>1 DEF CreatedOK
    <3>1. opened[t].state = "open" /\ opened[t].id = created[t] /\ ~On(t, "drop")
      BY <1>0 DEF TableInv, CreatedOK
    <3>2. meta[t] = MetaFile(opened[t].id, opened[t].meta) \/ meta[t] = Cut
      BY <1>0, <3>1 DEF TableInv, MemoryOK
    <3> QED BY <3>1, <3>2 DEF MetaFile
  <2>3. ProgressOK(t)'
    BY <1>1 DEF ProgressOK, Doing, On
  <2>4. CleanOK(t)' /\ FreshOK(t)'
    BY <1>1 DEF CleanOK, FreshOK
  <2> QED BY <2>1, <2>2, <2>3, <2>4 DEF TableInv
<1> QED BY <1>1, <1>4, <1>5 DEF Inv, Types

LEMMA ClosedTypes ==
  ASSUME TypeOK, Closed, UNCHANGED <<disk, created, refused>>, faults' \in 0 .. MaxFaults
  PROVE  TypeOK'
<1>1. opened' \in [Tables -> TableTypes]
  BY Constructors DEF Closed
<1>2. next_id' \in 0 .. MaxIds + 1
  <2>1. next_id' = 0 /\ MaxIds \in Nat
    BY CatalogAssumption DEF Closed
  <2> QED BY <2>1
<1>3. up' \in BOOLEAN
  BY DEF Closed
<1> QED BY <1>1, <1>2, <1>3, TypesNow, TypesNext DEF disk

LEMMA CrashInv ==
  ASSUME Inv, Crash
  PROVE  Inv'
<1>0. up /\ Closed /\ UNCHANGED <<disk, created, refused>>
      /\ faults' = IF faults < MaxFaults THEN faults + 1 ELSE faults
  BY DEF Crash
<1>1. TypeOK /\ faults \in 0 .. MaxFaults /\ MaxFaults \in Nat \ {0}
  BY CatalogAssumption DEF Inv, Types, TypeOK
<1>2. faults' \in 0 .. MaxFaults /\ faults' # 0
  BY <1>0, <1>1
<1>3. TypeOK'
  BY <1>0, <1>1, <1>2, ClosedTypes
<1> QED BY <1>0, <1>2, <1>3, ClosedInv DEF Clean

LEMMA ShutdownInv ==
  ASSUME Inv, CutInv, Shutdown
  PROVE  Inv'
<1>0. up /\ op = Idle /\ Closed /\ UNCHANGED <<disk, history>>
  BY DEF Shutdown
<1>1. TypeOK /\ op.kind = "idle" /\ faults \in 0 .. MaxFaults
  BY <1>0 DEF Inv, Types, TypeOK, OpOK
<1>2. TypeOK'
  BY <1>0, <1>1, ClosedTypes DEF history
<1>3. ASSUME NEW t \in Tables, Clean' PROVE CleanDown(t)'
  <2>0. UNCHANGED <<meta, tmp, data, ixfile>> /\ Clean
    BY <1>0, <1>3 DEF disk, history, Clean
  <2>1. MemoryOK(t) /\ CleanUp(t)
    BY <1>0, <2>0 DEF Inv, TableInv, CleanOK
  <2>2. \A k \in {"create", "drop", "index"} : ~On(t, k)
    BY <1>1 DEF On
  <2>3. CASE opened[t].state = "open"
    <3>0. meta[t] # Cut
      BY <2>0 DEF CutInv, Clean, Cut
    <3>1. meta[t] = MetaFile(opened[t].id, opened[t].meta) /\ t \in data
      BY <2>1, <2>2, <2>3, <3>0 DEF MemoryOK
    <3>2. meta[t].kind = "full" /\ meta[t].indexes = opened[t].meta
      BY <3>1 DEF MetaFile
    <3> QED BY <2>0, <2>1, <2>2, <3>1, <3>2 DEF CleanUp, CleanDown, Doing
  <2>4. CASE opened[t].state # "open"
    <3>1. opened[t].state = "none"
      BY <1>1, <2>1, <2>4, TypesNow DEF CleanUp, TableTypes
    <3>2. Names(opened[t].meta) = {}
      BY <2>1, <3>1, NamesEmpty DEF MemoryOK, NotOpened
    <3>3. meta[t].kind = "none" /\ t \notin data
      BY <2>1, <2>2, <2>4 DEF CleanUp, Doing
    <3> QED BY <2>0, <2>1, <2>2, <3>2, <3>3 DEF CleanUp, CleanDown, Doing
  <2> QED BY <2>3, <2>4
<1> QED BY <1>0, <1>2, <1>3, ClosedInv DEF history

LEMMA OpenAllTablesInv ==
  ASSUME Inv, OpenAllTables
  PROVE  Inv'
<1>0. /\ ~up /\ Startable /\ up' = TRUE /\ next_id' = NextId /\ UNCHANGED <<disk, op, history>>
      /\ opened' = [t \in Tables |-> IF t \in Listed
                                     THEN TableObject(meta[t].id, meta[t].indexes) ELSE NotOpened]
  BY DEF OpenAllTables
<1>1. Types /\ IdsDistinct /\ TypeOK /\ OpOK /\ \A t \in Tables : TableInv(t)
  BY DEF Inv, Types
<1>2. op.kind = "idle" /\ op = Idle
  BY <1>0, <1>1 DEF OpOK
<1>3. OpOK' /\ op'.kind = "idle"
  BY <1>0, <1>2, DoneOp DEF Done
<1>4. NextId \in 0 .. MaxIds + 1 /\ \A t \in Listed : meta[t].id < NextId
  BY <1>1, NextIdAbove, TypesNow
<1>5. meta \in [Tables -> MetaFiles]
  BY <1>1, TypesNow
<1>6. ASSUME NEW t \in Tables, t \in Listed
      PROVE  /\ meta[t].kind = "full" /\ t \in data /\ meta[t].indexes = <<>>
             /\ meta[t] = MetaFile(meta[t].id, <<>>)
             /\ opened'[t] = TableObject(meta[t].id, <<>>) /\ opened'[t] \in TableTypes
             /\ opened'[t].state = "open" /\ opened'[t].id = meta[t].id
             /\ Names(opened'[t].meta) = {} /\ opened'[t].meta = <<>>
  <2>1. meta[t].kind = "full" /\ t \in data /\ meta[t].indexes = <<>>
    BY <1>0, <1>6 DEF Startable, Readable, MetaReads
  <2>2. meta[t] \in MetaFiles
    BY <1>5
  <2>3. meta[t] = MetaFile(meta[t].id, <<>>)
    BY <2>1, <2>2 DEF MetaFiles, MetaFile
  <2>4. opened'[t] = TableObject(meta[t].id, <<>>)
    BY <1>0, <1>6, <2>1
  <2>5. opened'[t] \in TableTypes
    <3>1. meta[t].id \in -1 .. MaxIds /\ <<>> \in Seq(Indexes)
      BY <2>2 DEF MetaFiles
    <3> QED BY <2>4, <3>1, Constructors
  <2>6. opened'[t].state = "open" /\ opened'[t].id = meta[t].id /\ opened'[t].meta = <<>>
    BY <2>4 DEF TableObject
  <2> QED BY <2>1, <2>3, <2>4, <2>5, <2>6, NamesEmpty
<1>7. ASSUME NEW t \in Tables, t \notin Listed
      PROVE  opened'[t] = NotOpened /\ opened'[t].state = "none" /\ meta[t].kind = "none"
             /\ Names(opened'[t].meta) = {} /\ Names(opened'[t].indexes) = {}
  BY <1>0, <1>7, NamesEmpty DEF Listed, NotOpened
<1>8. TypeOK'
  <2>1. \A t \in Tables : opened'[t] \in TableTypes
    BY <1>6, <1>7, Constructors
  <2>2. opened' \in [Tables -> TableTypes]
    BY <1>0, <2>1
  <2> QED BY <1>0, <1>1, <1>4, <2>2, TypesNow, TypesNext DEF disk, history
<1>9. IdsDistinct'
  <2>1. ASSUME NEW t \in Tables, NEW id, HasId(t, id)' PROVE HasId(t, id)
    BY <1>0, <1>6, <1>7, <2>1 DEF HasId, disk
  <2> QED BY <1>1, <2>1 DEF IdsDistinct
<1>10. ASSUME NEW t \in Tables PROVE TableInv(t)'
  <2>0. /\ UNCHANGED <<meta, tmp, data, ixfile, created>> /\ up' /\ Clean' = Clean
        /\ \A k \in {"create", "drop", "index"} : ~On(t, k)'
    BY <1>0, <1>3 DEF disk, history, Clean, On
  <2>1. ProgressOK(t)'
    BY <2>0 DEF ProgressOK, Doing
  <2>2. CASE t \in Listed
    <3>1. MemoryOK(t)'
      BY <1>6, <2>0, <2>2 DEF MemoryOK, TableObject
    <3>2. CreatedOK(t)'
      BY <1>0, <1>1, <1>6, <2>0, <2>2 DEF TableInv, CreatedOK, Cut
    <3>3. CleanOK(t)'
      <4> SUFFICES ASSUME Clean PROVE CleanUp(t)'
        BY <2>0 DEF CleanOK
      <4>1. CleanDown(t)
        BY <1>0, <1>1 DEF TableInv, CleanOK
      <4>2. \A i \in Indexes : <<t, i>> \notin ixfile
        BY <1>6, <2>2, <4>1, NamesEmpty DEF CleanDown
      <4> QED BY <1>6, <2>0, <2>2, <4>1, <4>2 DEF CleanDown, CleanUp, Doing
    <3>4. FreshOK(t)'
      <4>1. meta[t].id < NextId /\ Bound' = NextId
        BY <1>0, <1>3, <1>4, <2>2 DEF Bound
      <4> QED BY <1>6, <2>0, <2>2, <4>1 DEF FreshOK
    <3> QED BY <2>1, <3>1, <3>2, <3>3, <3>4 DEF TableInv
  <2>3. CASE t \notin Listed
    <3>1. MemoryOK(t)'
      BY <1>7, <2>0, <2>3 DEF MemoryOK
    <3>2. CreatedOK(t)'
      BY <1>0, <1>1, <1>7, <2>0, <2>3 DEF TableInv, CreatedOK, Cut
    <3>3. CleanOK(t)'
      <4> SUFFICES ASSUME Clean PROVE CleanUp(t)'
        BY <2>0 DEF CleanOK
      <4>1. CleanDown(t)
        BY <1>0, <1>1 DEF TableInv, CleanOK
      <4> QED BY <1>7, <2>0, <2>3, <4>1 DEF CleanDown, CleanUp, Doing
    <3>4. FreshOK(t)'
      BY <1>7, <2>0, <2>3 DEF FreshOK
    <3> QED BY <2>1, <3>1, <3>2, <3>3, <3>4 DEF TableInv
  <2> QED BY <2>2, <2>3
<1> QED BY <1>3, <1>8, <1>9, <1>10 DEF Inv, Types

-----------------------------------------------------------------------------
(* The theorems.                                                           *)

LEMMA NextInv == Inv /\ CutInv /\ [Next]_vars => Inv'
<1> SUFFICES ASSUME Inv, CutInv, [Next]_vars PROVE Inv'
  OBVIOUS
<1>1. CASE UNCHANGED vars
  <2>1. UNCHANGED <<meta, tmp, data, ixfile, opened, next_id, op, up, created, faults, refused>>
    BY <1>1 DEF vars, disk, history
  <2>2. Types' /\ IdsDistinct'
    BY <2>1 DEF Inv, Types, TypeOK, OpOK, IdsDistinct, HasId
  <2>3. ASSUME NEW t \in Tables PROVE TableInv(t)'
    BY <2>1 DEF Inv, TableInv, MemoryOK, CreatedOK, ProgressOK, CleanOK, CleanUp, CleanDown, Clean,
                Left, FreshOK, Bound, Doing, On
  <2> QED BY <2>2, <2>3 DEF Inv
<1>2. ASSUME NEW t \in Tables, CreateTable(t) \/ DropTable(t) PROVE Inv'
  BY <1>2, CreateTableInv, DropTableInv
<1>3. ASSUME NEW t \in Tables, NEW i \in Indexes, CreateIndex(t, i) PROVE Inv'
  BY <1>3, CreateIndexInv
<1>4. CASE CreateMetaFile \/ RefuseColumns \/ WriteMeta \/ CreateDataFile \/ OpenCreated
  BY <1>4, CreateMetaFileInv, RefuseColumnsInv, WriteMetaInv, CreateDataFileInv, OpenCreatedInv
<1>5. CASE UnlinkMeta \/ UnlinkData \/ UnlinkIndex \/ EraseTable \/ DropFails
  BY <1>5, UnlinkMetaInv, UnlinkDataInv, UnlinkIndexInv, EraseTableInv, DropFailsInv
<1>6. CASE CreateIndexFile \/ PushIndex \/ OpenTmp \/ SerializeTmp \/ RenameTmp
  BY <1>6, CreateIndexFileInv, PushIndexInv, OpenTmpInv, SerializeTmpInv, RenameTmpInv
<1>7. CASE FailCreate \/ FailIndex
  BY <1>7, GiveUpInv DEF FailCreate, FailIndex
<1>8. CASE Shutdown \/ Crash \/ OpenAllTables
  BY <1>8, ShutdownInv, CrashInv, OpenAllTablesInv
<1>9. CASE StartFails
  BY <1>1, <1>9 DEF StartFails
<1> QED BY <1>1, <1>2, <1>3, <1>4, <1>5, <1>6, <1>7, <1>8, <1>9 DEF Next

\* A meta file is only cut short by a failure that is counted.
LEMMA NextCut == TypeOK /\ CutInv /\ [Next]_vars => CutInv'
<1> SUFFICES ASSUME TypeOK, CutInv, [Next]_vars, faults' = 0
             PROVE  \A t \in Tables : meta'[t].kind # "cut" /\ tmp'[t].kind # "cut"
  BY DEF CutInv
<1>0. meta \in [Tables -> MetaFiles] /\ tmp \in [Tables -> MetaFiles] /\ faults \in Nat
  <2>1. MaxFaults \in Nat /\ faults \in 0 .. MaxFaults
    BY CatalogAssumption DEF TypeOK
  <2> QED BY <2>1, TypesNow
<1>1. CASE faults' = faults /\ UNCHANGED <<meta, tmp>>
  BY <1>1 DEF CutInv
<1>2. CASE faults' = faults + 1
  BY <1>0, <1>2
<1>3. CASE faults' = faults /\ (CreateMetaFile \/ WriteMeta \/ UnlinkMeta)
  <2>1. UNCHANGED tmp
    BY <1>3 DEF CreateMetaFile, WriteMeta, UnlinkMeta
  <2>2. PICK m \in {Torn, NoFile, MetaFile(op.id, <<>>)} : meta' = meta \/ meta' = [meta EXCEPT ![op.table] = m]
    <3>1. faults # faults + 1
      BY <1>0
    <3> QED BY <1>3, <3>1 DEF CreateMetaFile, WriteMeta, UnlinkMeta, Unnoticed
  <2>3. m.kind # "cut"
    BY <2>2 DEF Torn, NoFile, MetaFile
  <2> QED BY <1>0, <1>3, <2>1, <2>2, <2>3 DEF CutInv
<1>4. CASE faults' = faults /\ (OpenTmp \/ SerializeTmp)
  <2>1. UNCHANGED meta
    BY <1>4 DEF OpenTmp, SerializeTmp
  <2>2. PICK m \in {Torn, MetaFile(opened[op.table].id, Append(opened[op.table].meta, op.index))} :
           tmp' = [tmp EXCEPT ![op.table] = m]
    <3>1. faults # faults + 1
      BY <1>0
    <3> QED BY <1>4, <3>1 DEF OpenTmp, SerializeTmp, Unnoticed
  <2>3. m.kind # "cut"
    BY <2>2 DEF Torn, MetaFile
  <2> QED BY <1>0, <1>4, <2>1, <2>2, <2>3 DEF CutInv
<1>5. CASE RenameTmp
  <2>1. /\ meta' = [meta EXCEPT ![op.table] = tmp[op.table]] /\ tmp' = [tmp EXCEPT ![op.table] = NoFile]
        /\ faults' = faults
    BY <1>5 DEF RenameTmp, history
  <2>2. NoFile.kind = "none"
    BY DEF NoFile
  <2> QED BY <1>0, <2>1, <2>2 DEF CutInv
<1>6. \/ faults' = faults /\ UNCHANGED <<meta, tmp>>
      \/ faults' = faults + 1
      \/ faults' = faults /\ (CreateMetaFile \/ WriteMeta \/ UnlinkMeta \/ OpenTmp \/ SerializeTmp)
      \/ RenameTmp
  <2>1. CASE WriteMeta \/ SerializeTmp
    BY <2>1 DEF WriteMeta, SerializeTmp, Unnoticed
  <2>2. CASE CreateMetaFile \/ UnlinkMeta \/ OpenTmp
    BY <2>2 DEF CreateMetaFile, UnlinkMeta, OpenTmp, history
  <2>3. CASE Crash
    BY <2>3 DEF Crash, disk
  <2>4. CASE FailCreate \/ FailIndex
    BY <2>4 DEF FailCreate, FailIndex, GiveUp
  <2>5. CASE UNCHANGED vars
    BY <2>5 DEF vars, disk, history
  <2>6. CASE \/ \E t \in Tables : CreateTable(t) \/ DropTable(t)
             \/ \E t \in Tables, i \in Indexes : CreateIndex(t, i)
    BY <2>6 DEF CreateTable, DropTable, CreateIndex, disk, history
  <2>7. CASE RefuseColumns \/ CreateDataFile \/ OpenCreated \/ UnlinkData \/ UnlinkIndex \/ EraseTable
    BY <2>7 DEF RefuseColumns, CreateDataFile, OpenCreated, UnlinkData, UnlinkIndex, EraseTable, disk, history
  <2>8. CASE DropFails \/ CreateIndexFile \/ PushIndex \/ Shutdown \/ OpenAllTables \/ StartFails
    BY <2>8 DEF DropFails, CreateIndexFile, PushIndex, Shutdown, OpenAllTables, StartFails, disk, history, vars
  <2> QED BY <2>1, <2>2, <2>3, <2>4, <2>5, <2>6, <2>7, <2>8 DEF Next
<1> QED BY <1>1, <1>2, <1>3, <1>4, <1>5, <1>6

LEMMA SpecInv == Spec => [](Inv /\ CutInv)
<1>1. Init => Inv /\ CutInv
  <2>1. Init => CutInv
    BY DEF Init, CutInv, NoFile
  <2> QED BY <2>1, InitInv
<1>2. Inv /\ CutInv /\ [Next]_vars => (Inv /\ CutInv)'
  BY NextInv, NextCut DEF Inv, Types
<1> QED BY <1>1, <1>2, PTL DEF Spec

\* Memory and disk agree between statements, ids are unique among the tables in
\* opened_tables_, and every index that the meta data names has an object, over any
\* failures and crashes; the one disagreement is a meta file whose last write
\* failed when Table::create or create_index closed it.
THEOREM CatalogIsExact == Spec => []CatalogExact
<1>1. Inv /\ CutInv => CatalogExact
  <2> SUFFICES ASSUME Inv, CutInv PROVE CatalogExact
    OBVIOUS
  <2>1. TypeOK
    BY DEF Inv, Types
  <2>2. MatchesDisk
    <3> SUFFICES ASSUME up, op = Idle, NEW t \in Tables, opened[t].state = "open"
                 PROVE  /\ \/ meta[t] = MetaFile(opened[t].id, opened[t].meta)
                           \/ meta[t] = Cut /\ faults > 0
                        /\ t \in data
                        /\ \A i \in Names(opened[t].meta) : <<t, i>> \in ixfile
      BY DEF MatchesDisk
    <3>1. ~On(t, "drop")
      BY DEF On, Idle
    <3>2. /\ meta[t] = MetaFile(opened[t].id, opened[t].meta) \/ meta[t] = Cut
          /\ t \in data /\ \A i \in Names(opened[t].meta) : <<t, i>> \in ixfile
      BY <3>1 DEF Inv, TableInv, MemoryOK
    <3>3. meta[t] = Cut => faults > 0
      <4>1. meta[t] = Cut => faults # 0
        BY DEF CutInv, Cut
      <4>2. faults \in 0 .. MaxFaults /\ MaxFaults \in Nat
        BY <2>1, CatalogAssumption DEF TypeOK
      <4> QED BY <4>1, <4>2
    <3> QED BY <3>2, <3>3
  <2>3. ASSUME NEW t \in Tables, NEW u \in Tables,
               opened[t].state # "none", opened[u].state # "none", opened[t].id = opened[u].id
        PROVE  t = u
    <3>1. opened[t].id \in -1 .. MaxIds
      BY <2>1, TypesNow DEF TableTypes
    <3> QED BY <2>3, <3>1 DEF Inv, IdsDistinct, HasId
  <2>4. \A t \in Tables : Names(opened[t].meta) \subseteq Names(opened[t].indexes)
    BY DEF Inv, TableInv, MemoryOK
  <2> QED BY <2>1, <2>2, <2>3, <2>4 DEF CatalogExact
<1> QED BY <1>1, SpecInv, PTL

\* While nothing has failed, the files on disk are exactly those of the open tables.
THEOREM FilesAreOwned == Spec => []NoOrphans
<1>1. Inv => NoOrphans
  <2> SUFFICES ASSUME Inv, up, op = Idle, faults = 0, refused = {}
               PROVE  /\ {t \in Tables : opened[t].state = "open"} = Listed
                      /\ data = Listed
                      /\ ixfile = {f \in Tables \X Indexes : f[2] \in Names(opened[f[1]].meta)}
                      /\ \A t \in Tables : tmp[t] = NoFile
    BY DEF NoOrphans
  <2>1. \A t \in Tables : CleanUp(t)
    BY DEF Inv, TableInv, CleanOK, Clean
  <2>2. \A t \in Tables, k \in {"create", "drop", "index"} : ~On(t, k)
    BY DEF On, Idle
  <2>3. ASSUME NEW t \in Tables
        PROVE  /\ meta[t].kind # "none" <=> opened[t].state = "open"
               /\ t \in data <=> opened[t].state = "open"
               /\ \A i \in Indexes : <<t, i>> \in ixfile <=> i \in Names(opened[t].meta)
               /\ tmp[t] = NoFile
    BY <2>1, <2>2 DEF CleanUp, Doing
  <2>4. data \subseteq Tables /\ ixfile \subseteq Tables \X Indexes
    BY DEF Inv, Types, TypeOK
  <2>5. {t \in Tables : opened[t].state = "open"} = Listed /\ data = Listed
    BY <2>3, <2>4 DEF Listed
  <2>6. ixfile = {f \in Tables \X Indexes : f[2] \in Names(opened[f[1]].meta)}
    <3>1. ASSUME NEW f \in Tables \X Indexes PROVE f \in ixfile <=> f[2] \in Names(opened[f[1]].meta)
      <4>1. f[1] \in Tables /\ f[2] \in Indexes /\ f = <<f[1], f[2]>>
        BY <3>1
      <4> QED BY <2>3, <4>1
    <3> QED BY <2>4, <3>1
  <2> QED BY <2>3, <2>5, <2>6
<1> QED BY <1>1, SpecInv, PTL

\* After a clean shutdown without indexes the server starts again, and a table whose
\* CREATE succeeded survives every crash and restart with its id until it is dropped.
THEOREM ServerRestarts == Spec => []StartsAgain
<1>1. Inv => StartsAgain
  <2> SUFFICES ASSUME Inv PROVE StartsAgain
    OBVIOUS
  <2>1. ASSUME ~up, faults = 0, refused = {}, \A t \in Tables : meta[t].indexes = <<>>
        PROVE  Startable
    <3> SUFFICES ASSUME NEW t \in Listed PROVE Readable(t)
      BY DEF Startable
    <3>1. t \in Tables /\ meta[t].kind # "none"
      BY DEF Listed
    <3>2. CleanDown(t) /\ meta[t] \in MetaFiles
      BY <2>1, <3>1, TypesNow DEF Inv, Types, TableInv, CleanOK, Clean
    <3>3. meta[t].kind = "full"
      BY <3>1, <3>2 DEF CleanDown, MetaFiles
    <3> QED BY <2>1, <3>1, <3>2, <3>3 DEF CleanDown, Readable, MetaReads
  <2>2. ASSUME up, NEW t \in Tables, created[t] # -1
        PROVE  opened[t].state = "open" /\ opened[t].id = created[t]
    BY <2>2 DEF Inv, TableInv, CreatedOK
  <2> QED BY <2>1, <2>2 DEF StartsAgain
<1> QED BY <1>1, SpecInv, PTL

\* A complete meta file is only replaced by one of the same table with one more
\* index, or removed by DROP TABLE, whatever is interrupted; or by one that
\* create_index renames after a write that failed unnoticed.
THEOREM MetaStaysWhole == Spec => MetaReplacedWhole
<1> DEFINE Whole == \A t \in Tables : meta[t].kind = "full" =>
                      \/ meta'[t] = meta[t]
                      \/ \E i \in Indexes : meta'[t] = MetaFile(meta[t].id, Append(meta[t].indexes, i))
                      \/ meta'[t] = NoFile /\ created[t] = -1
                      \/ meta'[t] = Cut /\ tmp[t] = Cut /\ faults > 0
<1>1. Inv /\ CutInv /\ [Next]_vars => [Whole]_vars
  <2> SUFFICES ASSUME Inv, CutInv, Next, NEW t \in Tables, meta[t].kind = "full", meta'[t] # meta[t]
               PROVE  \/ \E i \in Indexes : meta'[t] = MetaFile(meta[t].id, Append(meta[t].indexes, i))
                      \/ meta'[t] = NoFile /\ created[t] = -1
                      \/ meta'[t] = Cut /\ tmp[t] = Cut /\ faults > 0
    BY DEF vars
  <2>0. meta \in [Tables -> MetaFiles] /\ TypeOK
    BY TypesNow DEF Inv, Types
  <2>1. CASE CreateMetaFile
    BY <2>0, <2>1 DEF CreateMetaFile
  <2>2. CASE WriteMeta
    <3>1. op.table = t /\ Executing("create", "write")
      BY <2>0, <2>2 DEF WriteMeta
    <3>2. meta[t] = Torn
      BY <3>1 DEF Inv, TableInv, ProgressOK, Doing, On, Executing
    <3> QED BY <3>2 DEF Torn
  <2>3. CASE UnlinkMeta
    <3>1. op.table = t /\ op.kind = "drop" /\ meta' = [meta EXCEPT ![op.table] = NoFile]
      BY <2>0, <2>3 DEF UnlinkMeta, Executing
    <3>2. created[t] = -1
      BY <3>1 DEF Inv, TableInv, ProgressOK, On
    <3> QED BY <2>0, <3>1, <3>2
  <2>4. CASE RenameTmp
    <3>1. /\ op.kind = "index" /\ op.at = "rename" /\ op.table = t
          /\ meta'[t] = tmp[t]
      BY <2>0, <2>4 DEF RenameTmp, Executing
    <3>2. ProgressOK(t) /\ MemoryOK(t) /\ op.index \in Indexes
      BY <3>1 DEF Inv, TableInv, Types, OpOK
    <3>3. tmp[t] = MetaFile(opened[t].id, Append(opened[t].meta, op.index)) \/ tmp[t] = Cut
      BY <3>1, <3>2 DEF ProgressOK, Doing, On
    <3>4. CASE tmp[t] = MetaFile(opened[t].id, Append(opened[t].meta, op.index))
      <4>1. meta[t] = MetaFile(opened[t].id, opened[t].meta) \/ meta[t] = Cut
        BY <3>1, <3>2 DEF ProgressOK, MemoryOK, On
      <4>2. meta[t].id = opened[t].id /\ meta[t].indexes = opened[t].meta
        BY <4>1 DEF MetaFile, Cut
      <4> QED BY <3>1, <3>2, <3>4, <4>2
    <3>5. CASE tmp[t] = Cut
      <4>1. faults # 0
        BY <3>5 DEF CutInv, Cut
      <4>2. faults \in 0 .. MaxFaults /\ MaxFaults \in Nat
        BY <2>0, CatalogAssumption DEF TypeOK
      <4> QED BY <3>1, <3>5, <4>1, <4>2
    <3> QED BY <3>3, <3>4, <3>5
  <2>5. UNCHANGED meta \/ CreateMetaFile \/ WriteMeta \/ UnlinkMeta \/ RenameTmp
    BY DEF Next, CreateTable, DropTable, CreateIndex, RefuseColumns, CreateDataFile, OpenCreated,
           UnlinkData, UnlinkIndex, EraseTable, DropFails, CreateIndexFile, PushIndex, OpenTmp,
           SerializeTmp, FailCreate, FailIndex, GiveUp, Shutdown, Crash, OpenAllTables, StartFails, disk, vars
  <2> QED BY <2>1, <2>2, <2>3, <2>4, <2>5
<1> QED BY <1>1, SpecInv, PTL DEF Spec, MetaReplacedWhole

=============================================================================

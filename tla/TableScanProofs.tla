--------------------------- MODULE TableScanProofs ---------------------------
(***************************************************************************)
(* A DELETE or UPDATE statement, for any table.  Without the pin of the    *)
(* scanner's handler the statement is a user of the record manager like    *)
(* any other: its steps are steps of RecordManager, and what is proved of  *)
(* that holds here.  On top of it come the scanner's position and the row  *)
(* the statement is at.                                                    *)
(***************************************************************************)
EXTENDS TableScan, RecordManagerProofs

\* The pins that are not the scanner's.
CallPins == [p \in PageNums |-> pins[p] - (IF scan.pinned = p THEN 1 ELSE 0)]

Calls == INSTANCE RecordManagerProofs WITH pins <- CallPins

LEMMA ServerOnly == Server \in Threads /\ (\A t \in Threads : t = Server) /\ OneThread
<1>1. IsFiniteSet(Threads) /\ Cardinality(Threads) = 1
  BY RecordAssumption, ScanAssumption
<1>2. \E t : Threads = {t}
  BY <1>1, FS_Singleton
<1>3. Server \in Threads
  BY <1>2 DEF Server
<1> QED BY <1>2, <1>3 DEF OneThread

\* What the record manager's invariant says here.
LEMMA CallFacts ==
  ASSUME Calls!Inv
  PROVE  /\ pages \in Seq(PageType) /\ Len(pages) <= MaxPages
         /\ th \in [Threads -> ThreadType] /\ free \subseteq DOMAIN pages
         /\ acked \subseteq PageNums \X Slots \X Values
         /\ CallOK(Server) /\ LocalsOK(th[Server]) /\ RoomOK
         /\ \A p \in DOMAIN pages : RecordsOK(p) /\ CountOK(p)
         /\ \A p \in PageNums : CallPins[p] = IF Using(th[Server], p) THEN 1 ELSE 0
<1>1. Calls!Types /\ Calls!Exact
  BY ServerOnly DEF Calls!Inv, Calls!OneThread, OneThread
<1>2. /\ pages \in Seq(PageType) /\ Len(pages) <= MaxPages
      /\ th \in [Threads -> ThreadType] /\ free \subseteq DOMAIN pages
      /\ acked \subseteq PageNums \X Slots \X Values
  BY <1>1 DEF Calls!Types, Calls!PageType, PageType, Calls!ThreadType, ThreadType, Calls!PageNums, PageNums,
              Calls!Slots, Slots, Calls!PcNames, PcNames, Calls!Rcs, Rcs
<1>3. CallOK(Server)
  BY <1>1, ServerOnly DEF Calls!Types, Calls!CallOK, CallOK, Calls!OnPage, OnPage, Calls!Inserting, Inserting
<1>4. LocalsOK(th[Server])
  BY <1>1, ServerOnly DEF Calls!Exact, Calls!LocalsOK, LocalsOK
<1>5. RoomOK
  BY <1>1 DEF Calls!Exact, Calls!RoomOK, RoomOK, Calls!IsFull, IsFull, Calls!Adding, Adding
<1>6. \A p \in DOMAIN pages : RecordsOK(p) /\ CountOK(p)
  BY <1>1 DEF Calls!Exact, Calls!RecordsOK, RecordsOK, Calls!Slots, Slots, Calls!CountOK, CountOK,
              Calls!Cardinality, Cardinality
<1>7. ASSUME NEW p \in PageNums
      PROVE  CallPins[p] = IF Using(th[Server], p) THEN 1 ELSE 0
  <2>1. CallPins[p] = IF \E t \in Threads : Using(th[t], p) THEN 1 ELSE 0
    BY <1>1 DEF Calls!Exact, Calls!PinsOK, Calls!Using, Using, Calls!PageNums, PageNums
  <2> QED BY <2>1, ServerOnly
<1> QED BY <1>2, <1>3, <1>4, <1>5, <1>6, <1>7

-----------------------------------------------------------------------------
(* The steps of a statement are steps of the record manager.               *)

LEMMA PinsMap ==
  ASSUME pins \in [PageNums -> Int], UNCHANGED scan
  PROVE  /\ pins' = pins => CallPins' = CallPins
         /\ \A p \in PageNums : (Pin(p) => Calls!Pin(p)) /\ (Unpin(p) => Calls!Unpin(p))
<1>1. pins' = pins => CallPins' = CallPins
  BY DEF CallPins
<1>2. ASSUME NEW p \in PageNums, NEW d \in Int, pins' = [pins EXCEPT ![p] = @ + d]
      PROVE  CallPins' = [CallPins EXCEPT ![p] = @ + d]
  <2>1. \A q \in PageNums : pins'[q] = IF q = p THEN pins[q] + d ELSE pins[q]
    BY <1>2
  <2>2. CallPins' = [q \in PageNums |-> pins'[q] - (IF scan.pinned = q THEN 1 ELSE 0)]
    BY DEF CallPins, PageNums
  <2>3. \A q \in PageNums : CallPins'[q] = IF q = p THEN CallPins[q] + d ELSE CallPins[q]
    BY <2>1, <2>2 DEF CallPins
  <2>4. PICK c, z : c = CallPins /\ z = CallPins'
    OBVIOUS
  <2>5. c = [q \in PageNums |-> c[q]] /\ z = [q \in PageNums |-> z[q]]
    BY <2>2, <2>4 DEF CallPins
  <2>6. \A q \in PageNums : z[q] = IF q = p THEN c[q] + d ELSE c[q]
    BY <2>3, <2>4
  <2>7. z = [c EXCEPT ![p] = @ + d]
    BY <2>5, <2>6
  <2> QED BY <2>4, <2>7
<1>3. ASSUME NEW p \in PageNums, Pin(p) PROVE Calls!Pin(p)
  <2>1. PICK d \in Int : d = 1
    OBVIOUS
  <2>2. pins' = [pins EXCEPT ![p] = @ + d]
    BY <1>3, <2>1 DEF Pin
  <2>3. CallPins' = [CallPins EXCEPT ![p] = @ + d]
    BY <1>2, <2>2
  <2> QED BY <2>1, <2>3 DEF Calls!Pin
<1>4. ASSUME NEW p \in PageNums, Unpin(p) PROVE Calls!Unpin(p)
  <2>1. PICK d \in Int : d = -1
    OBVIOUS
  <2>2. pins' = [pins EXCEPT ![p] = @ + d]
    BY <1>4, <2>1 DEF Unpin
  <2>3. CallPins' = [CallPins EXCEPT ![p] = @ + d]
    BY <1>2, <2>2
  <2>4. CallPins[p] \in Int
    BY DEF CallPins
  <2>5. CallPins[p] + d = CallPins[p] - 1
    BY <2>1, <2>4
  <2> QED BY <2>3, <2>5 DEF Calls!Unpin
<1> QED BY <1>1, <1>3, <1>4

LEMMA StepsMap ==
  ASSUME Calls!Inv, pins \in [PageNums -> Int], UNCHANGED scan, Steps(Server)
  PROVE  Calls!Steps(Server) /\ pins' \in [PageNums -> Int]
<1>0. CallOK(Server) /\ DOMAIN pages \subseteq PageNums
  BY CallFacts, PagesSized
<1>1. ASSUME NEW p \in PageNums, SkipFullPage(Server, p) PROVE Calls!SkipFullPage(Server, p) /\ pins' = pins
  BY <1>1, PinsMap DEF SkipFullPage, Calls!SkipFullPage, At, Calls!At, IsFull, Calls!IsFull
<1>2. ASSUME NEW p \in PageNums, FindPage(Server, p) PROVE Calls!FindPage(Server, p) /\ Pin(p)
  BY <1>2, PinsMap DEF FindPage, Calls!FindPage, At, Calls!At, IsFull, Calls!IsFull
<1>3. CASE NoFreePage(Server)
  <2>1. Calls!NoFreePage(Server) /\ pins' = pins
    BY <1>3, PinsMap DEF NoFreePage, Calls!NoFreePage, At, Calls!At, Goto, Calls!Goto
  <2> QED BY <2>1 DEF Calls!Steps
<1>4. CASE AllocatePage(Server)
  <2>1. Len(pages) + 1 \in PageNums
    BY <1>4, CallFacts, RecordAssumption DEF AllocatePage, PageNums
  <2>2. Calls!AllocatePage(Server) /\ Pin(Len(pages) + 1)
    BY <1>4, <2>1, PinsMap DEF AllocatePage, Calls!AllocatePage, At, Calls!At, EmptyPage, Calls!EmptyPage,
                               Slots, Calls!Slots
  <2> QED BY <2>1, <2>2 DEF Calls!Steps, Pin
<1>5. CASE AllocateFails(Server)
  <2>1. Calls!AllocateFails(Server) /\ pins' = pins
    BY <1>5, PinsMap DEF AllocateFails, Calls!AllocateFails, At, Calls!At, Return, Calls!Return, Idle, Calls!Idle
  <2> QED BY <2>1 DEF Calls!Steps
<1>6. CASE AddFreePage(Server)
  <2>1. Calls!AddFreePage(Server) /\ pins' = pins
    BY <1>6, PinsMap DEF AddFreePage, Calls!AddFreePage, At, Calls!At, Return, Calls!Return, Idle, Calls!Idle,
                         Goto, Calls!Goto
  <2> QED BY <2>1 DEF Calls!Steps
<1>7. CASE CheckCapacity(Server)
  <2>1. th[Server].page \in PageNums
    BY <1>0, <1>7 DEF CheckCapacity, At, CallOK, OnPage
  <2>2. Calls!CheckCapacity(Server) /\ (pins' = pins \/ Unpin(th[Server].page))
    BY <1>7, <2>1, PinsMap DEF CheckCapacity, Calls!CheckCapacity, At, Calls!At, Return, Calls!Return,
                               Idle, Calls!Idle, Goto, Calls!Goto
  <2> QED BY <2>1, <2>2 DEF Calls!Steps, Unpin
<1>8. CASE PickSlot(Server)
  <2>1. Calls!SlotMap!NextUnsettedBit(pages[th[Server].page].bits, 0)
          = SlotMap!NextUnsettedBit(pages[th[Server].page].bits, 0)
    BY DEF SlotMap!NextUnsettedBit, Calls!SlotMap!NextUnsettedBit, SlotMap!Clip, Calls!SlotMap!Clip,
           SlotMap!Search, Calls!SlotMap!Search, SlotMap!Bytes, Calls!SlotMap!Bytes,
           SlotMap!ByteOf, Calls!SlotMap!ByteOf, SlotMap!Min, Calls!SlotMap!Min
  <2>2. Calls!PickSlot(Server) /\ pins' = pins
    BY <1>8, <2>1, PinsMap DEF PickSlot, Calls!PickSlot, At, Calls!At, Goto, Calls!Goto
  <2> QED BY <2>2 DEF Calls!Steps
<1>9. CASE StoreRecord(Server)
  <2>1. th[Server].page \in PageNums
    BY <1>0, <1>9 DEF StoreRecord, At, CallOK, OnPage
  <2>2. Unpin(th[Server].page) /\ Calls!Unpin(th[Server].page)
    BY <1>9, <2>1, PinsMap DEF StoreRecord
  <2>3. Calls!StoreRecord(Server)
    BY <1>9, <2>2 DEF StoreRecord, Calls!StoreRecord, At, Calls!At, Return, Calls!Return, Idle, Calls!Idle,
                      BitsRead, Calls!BitsRead, NumsRead, Calls!NumsRead
  <2> QED BY <2>1, <2>2, <2>3 DEF Calls!Steps, Unpin
<1>10. CASE ClearSlot(Server)
  <2>1. th[Server].page \in PageNums
    BY <1>0, <1>10 DEF ClearSlot, At, CallOK, OnPage
  <2>2. Unpin(th[Server].page) /\ Calls!Unpin(th[Server].page)
    BY <1>10, <2>1, PinsMap DEF ClearSlot
  <2>3. Calls!ClearSlot(Server)
    BY <1>10, <2>2 DEF ClearSlot, Calls!ClearSlot, At, Calls!At, Goto, Calls!Goto,
                       BitsRead, Calls!BitsRead, NumsRead, Calls!NumsRead
  <2> QED BY <2>1, <2>2, <2>3 DEF Calls!Steps, Unpin
<1>11. \A p \in PageNums : Pin(p) => pins' \in [PageNums -> Int]
  BY DEF Pin
<1> QED BY <1>1, <1>2, <1>3, <1>4, <1>5, <1>6, <1>7, <1>8, <1>9, <1>10, <1>11
        DEF Steps, Calls!Steps, Calls!PageNums, PageNums

-----------------------------------------------------------------------------
(* The scanner.                                                            *)

Places == (PageNums \X Slots) \cup {EOF}
ScanType == [page : 0 .. MaxPages, next : Slots \cup {-1}, limit : 0 .. MaxPages,
             rec : Places, pinned : 0 .. MaxPages]

\* The record read ahead is there, its page is pinned, and so is the one after it,
\* if there was one; at the end the handler is cleaned up.
Positioned(sc) ==
    /\ sc \in ScanType /\ sc.limit <= Len(pages) /\ sc.page <= sc.limit
    /\ sc.rec = EOF => sc.next = -1 /\ sc.pinned = 0
    /\ sc.rec # EOF =>
         /\ sc.rec[1] = sc.page /\ sc.pinned = sc.page /\ sc.page \in DOMAIN pages
         /\ sc.rec[2] \in pages[sc.page].bits
         /\ sc.next # -1 => sc.next \in pages[sc.page].bits /\ sc.next > sc.rec[2]

LEMMA SlotAfter ==
  ASSUME NEW bits, bits \subseteq Slots, NEW i \in bits \cup {-1}, NEW n,
         n = SlotMap!NextSettedBit(bits, i + 1)
  PROVE  /\ n = -1 \/ (n \in bits /\ n > i)
         /\ n = -1 => {j \in bits : j > i} = {}
         /\ \A j \in bits : j > i => n # -1 /\ n <= j
<1>1. PICK T : T = {j \in bits : j > i}
  OBVIOUS
<1>2. n = IF T = {} THEN -1 ELSE Min(T)
  BY <1>1, NextRecord
<1>3. CASE T = {}
  BY <1>1, <1>2, <1>3
<1>4. CASE T # {}
  <2>0. \A j \in Slots : j \in Nat
    BY RecordAssumption DEF Slots
  <2>1. T \subseteq Nat
    BY <1>1, <2>0
  <2>2. Maps!Min(T) \in T /\ \A j \in T : Maps!Min(T) <= j
    BY <1>4, <2>1, Maps!LeastOf
  <2>3. n \in T /\ \A j \in T : n <= j
    BY <1>2, <1>4, <2>2 DEF Maps!Min, Min
  <2>4. n \in Nat
    BY <2>1, <2>3
  <2>5. n # -1
    BY <2>4
  <2> QED BY <1>1, <2>3, <2>5
<1> QED BY <1>3, <1>4

LEMMA ReadAtPositions ==
  ASSUME pages \in Seq(PageType), Len(pages) <= MaxPages,
         NEW sc \in ScanType, sc.limit <= Len(pages), NEW p \in 1 .. sc.limit, NEW s \in pages[p].bits,
         NEW z, z = ReadAt(sc, p, s)
  PROVE  Positioned(z) /\ z.limit = sc.limit /\ z.rec = <<p, s>>
<1>1. /\ p \in DOMAIN pages /\ p \in PageNums /\ p \in 0 .. MaxPages /\ p <= sc.limit /\ p # 0
      /\ pages[p] \in PageType
  <2>1. DOMAIN pages \subseteq PageNums /\ \A q \in DOMAIN pages : pages[q] \in PageType
    BY PagesSized
  <2>2. sc.limit \in Nat /\ Len(pages) \in Nat /\ DOMAIN pages = 1 .. Len(pages) /\ MaxPages \in Nat
    BY RecordAssumption DEF ScanType
  <2>3. p \in 1 .. Len(pages) /\ p \in 0 .. MaxPages /\ p <= sc.limit /\ p # 0
    BY <2>2
  <2> QED BY <2>1, <2>2, <2>3
<1>2. pages[p].bits \subseteq Slots /\ s \in Slots
  BY <1>1 DEF PageType
<1>3. PICK n : n = NextSlot(p, s + 1)
  OBVIOUS
<1>4. n = -1 \/ (n \in pages[p].bits /\ n > s)
  <2>1. PICK used : used = pages[p].bits
    OBVIOUS
  <2>2. used \subseteq Slots /\ s \in used \cup {-1} /\ n = SlotMap!NextSettedBit(used, s + 1)
    BY <1>2, <1>3, <2>1 DEF NextSlot
  <2>3. n = -1 \/ (n \in used /\ n > s)
    BY ONLY <2>2, SlotAfter
  <2> QED BY <2>1, <2>3
<1>5. n \in Slots \cup {-1} /\ <<p, s>> \in Places
  BY <1>1, <1>2, <1>4 DEF Places
<1>6. PICK r \in Places : r = <<p, s>>
  BY <1>5
<1>7. /\ z.page = p /\ z.rec = <<p, s>> /\ z.next = n /\ z.pinned = p /\ z.limit = sc.limit
      /\ z \in ScanType
  <2>1. z = [sc EXCEPT !.page = p, !.rec = r, !.next = n, !.pinned = p]
    BY <1>3, <1>6 DEF ReadAt
  <2>2. z.page = p /\ z.rec = r /\ z.next = n /\ z.pinned = p /\ z.limit = sc.limit /\ z \in ScanType
    BY <1>1, <1>5, <2>1 DEF ScanType
  <2> QED BY <1>6, <2>2
<1>8. z.rec # EOF /\ z.rec[1] = p /\ z.rec[2] = s
  BY <1>1, <1>7 DEF EOF
<1> QED BY <1>1, <1>4, <1>7, <1>8 DEF Positioned

\* fetch_next_record: the record found is the one read ahead in the iterator or lies
\* in a later page.
LEMMA FetchPositions ==
  ASSUME pages \in Seq(PageType), Len(pages) <= MaxPages,
         NEW sc \in ScanType, sc.limit <= Len(pages), sc.page <= sc.limit,
         sc.next # -1 => sc.page \in DOMAIN pages /\ sc.next \in pages[sc.page].bits,
         NEW z, z = FetchNextRecord(sc)
  PROVE  /\ Positioned(z) /\ z.limit = sc.limit
         /\ \/ z.rec = EOF
            \/ sc.next # -1 /\ z.rec = <<sc.page, sc.next>>
            \/ \E p \in sc.page + 1 .. sc.limit, s \in Slots : z.rec = <<p, s>>
<1>0. sc.page \in Nat /\ sc.limit \in Nat /\ Len(pages) \in Nat /\ DOMAIN pages = 1 .. Len(pages)
      /\ 0 \in 0 .. MaxPages
  BY RecordAssumption DEF ScanType
<1>1. PICK ahead : ahead = {p \in sc.page + 1 .. sc.limit : pages[p].bits # {}}
  OBVIOUS
<1>2. CASE sc.next # -1
  <2>1. z = ReadAt(sc, sc.page, sc.next)
    BY <1>2 DEF FetchNextRecord
  <2>2. sc.page \in 1 .. sc.limit
    BY <1>0, <1>2
  <2>3. Positioned(z) /\ z.limit = sc.limit /\ z.rec = <<sc.page, sc.next>>
    BY <1>2, <2>1, <2>2, ReadAtPositions
  <2> QED BY <1>2, <2>3
<1>3. CASE sc.next = -1 /\ ahead # {}
  <2>1. PICK p : p = Min(ahead)
    OBVIOUS
  <2>2. p \in ahead
    <3>1. ahead \subseteq Nat
      BY <1>0, <1>1
    <3>2. Maps!Min(ahead) \in ahead
      BY <1>3, <3>1, Maps!LeastOf
    <3> QED BY <2>1, <3>2 DEF Maps!Min, Min
  <2>3. p \in sc.page + 1 .. sc.limit /\ p \in 1 .. sc.limit /\ p \in DOMAIN pages /\ pages[p].bits # {}
    <3>1. p \in sc.page + 1 .. sc.limit /\ pages[p].bits # {}
      BY <1>1, <2>2
    <3> QED BY <1>0, <3>1
  <2>4. pages[p].bits \subseteq Slots
    BY <2>3, PagesSized DEF PageType
  <2>5. PICK s : s = NextSlot(p, 0)
    OBVIOUS
  <2>6. s \in pages[p].bits
    <3>1. PICK used, i : used = pages[p].bits /\ i = -1
      OBVIOUS
    <3>2. i + 1 = 0 /\ i \in used \cup {-1} /\ used \subseteq Slots
      BY <2>4, <3>1
    <3>3. s = SlotMap!NextSettedBit(used, i + 1)
      BY <2>5, <3>1, <3>2 DEF NextSlot
    <3>5. (s = -1 \/ (s \in used /\ s > i)) /\ (s = -1 => {j \in used : j > i} = {})
      BY ONLY <3>2, <3>3, SlotAfter
    <3>4. \A j \in pages[p].bits : j > -1
      BY <2>4, RecordAssumption DEF Slots
    <3> QED BY <2>3, <3>1, <3>4, <3>5
  <2>7. z = ReadAt(sc, p, s)
    BY <1>1, <1>3, <2>1, <2>5 DEF FetchNextRecord
  <2>8. Positioned(z) /\ z.limit = sc.limit /\ z.rec = <<p, s>>
    BY <2>3, <2>6, <2>7, ReadAtPositions
  <2> QED BY <2>3, <2>4, <2>6, <2>8
<1>4. CASE sc.next = -1 /\ ahead = {}
  <2>1. z = [sc EXCEPT !.page = sc.limit, !.rec = EOF, !.pinned = 0]
    BY <1>1, <1>4 DEF FetchNextRecord
  <2>0. EOF \in Places
    BY DEF Places
  <2>2. z \in ScanType /\ z.rec = EOF /\ z.pinned = 0 /\ z.next = -1 /\ z.limit = sc.limit /\ z.page = sc.limit
    BY <1>0, <1>4, <2>0, <2>1 DEF ScanType
  <2> QED BY <1>0, <2>2 DEF Positioned
<1> QED BY <1>2, <1>3, <1>4

-----------------------------------------------------------------------------
(* The statement.                                                          *)

RowType == (0 .. MaxPages) \X Slots \X (Values \cup {Blank})
StmtType == [pc : {"none", "next", "row", "deleting", "inserting", "done"},
             kind : {"delete", "update"}, from : Values \cup {AnyRow}, to : Values \cup {AnyRow},
             row : RowType]

\* Slot s of page p is behind everything the scanner will still hand out.
Behind(p, s) ==
    scan.rec = EOF \/ p < scan.rec[1] \/ (p = scan.rec[1] /\ s < scan.rec[2])

SomeRoom == \E p \in DOMAIN pages : ~IsFull(p)

\* Where the call of each phase of the statement can be.
DeletingOK(x) ==
    \/ x.pc = "clear" /\ Behind(x.page, x.slot)
    \/ x.pc = "add_deleted" /\ ~IsFull(x.page)
    \/ x.pc = "idle" /\ x.rc = "SUCCESS" /\ SomeRoom

InsertingOK(x) ==
    \/ x.pc = "find" /\ SomeRoom
    \/ x.pc \in {"check", "pick", "store"}
    \/ x.pc = "idle" /\ x.rc = "SUCCESS"

StmtOK ==
    /\ stmt \in StmtType
    /\ stmt.pc # "none" /\ stmt.kind = "update" => stmt.to \in Values
    /\ stmt.pc \in {"none", "done"} => scan.rec = EOF
    /\ stmt.pc \in {"next", "row", "done"} => th[Server].pc = "idle"
    /\ stmt.pc = "row" => stmt.row \in acked /\ Behind(stmt.row[1], stmt.row[2])
    /\ stmt.pc = "deleting" => DeletingOK(th[Server])
    /\ stmt.pc = "inserting" => InsertingOK(th[Server])

ScanInv == Calls!Inv /\ pins \in [PageNums -> Int] /\ Positioned(scan) /\ StmtOK

\* The scanner's pin moves with it; the others stay.
LEMMA MoveMap ==
  ASSUME pins \in [PageNums -> Int], NEW sc, MoveScan(sc)
  PROVE  pins' \in [PageNums -> Int] /\ CallPins' = CallPins
<1>1. /\ scan' = sc
      /\ pins' = [x \in PageNums |-> pins[x] - (IF x = scan.pinned THEN 1 ELSE 0)
                                              + (IF x = sc.pinned THEN 1 ELSE 0)]
  BY DEF MoveScan, MovePin
<1>2. PICK b, c : b = scan.pinned /\ c = sc.pinned
  OBVIOUS
<1>3. pins' = [x \in PageNums |-> pins[x] - (IF x = b THEN 1 ELSE 0) + (IF x = c THEN 1 ELSE 0)]
  BY <1>1, <1>2
<1>4. ASSUME NEW x \in PageNums
      PROVE  /\ pins'[x] \in Int
             /\ pins'[x] - (IF c = x THEN 1 ELSE 0) = pins[x] - (IF b = x THEN 1 ELSE 0)
  <2>1. pins[x] \in Int /\ pins'[x] = pins[x] - (IF x = b THEN 1 ELSE 0) + (IF x = c THEN 1 ELSE 0)
    BY <1>3
  <2> QED BY <2>1
<1>5. pins' \in [PageNums -> Int]
  BY <1>3, <1>4
<1>6. /\ CallPins' = [x \in PageNums |-> pins'[x] - (IF c = x THEN 1 ELSE 0)]
      /\ CallPins = [x \in PageNums |-> pins[x] - (IF b = x THEN 1 ELSE 0)]
  BY <1>1, <1>2 DEF CallPins, PageNums
<1> QED BY <1>4, <1>5, <1>6

LEMMA InsertMap ==
  ASSUME pins \in [PageNums -> Int], UNCHANGED scan, NEW v, InsertRecord(Server, v)
  PROVE  Calls!InsertRecord(Server, v) /\ pins' = pins
BY PinsMap DEF InsertRecord, Calls!InsertRecord, At, Calls!At, Idle, Calls!Idle

LEMMA DeleteMap ==
  ASSUME Calls!Inv, pins \in [PageNums -> Int], UNCHANGED scan, NEW r \in acked, DeleteRecord(Server, r)
  PROVE  Calls!DeleteRecord(Server, r) /\ pins' \in [PageNums -> Int]
<1>1. r[1] \in PageNums
  BY CallFacts
<1>2. CASE r[2] \in pages[r[1]].bits
  <2>1. Pin(r[1])
    BY <1>2 DEF DeleteRecord
  <2>2. Calls!Pin(r[1]) /\ pins' \in [PageNums -> Int]
    <3>1. PICK p \in PageNums : p = r[1]
      BY <1>1
    <3>2. Calls!Pin(p)
      BY <2>1, <3>1, PinsMap
    <3>3. pins' \in [PageNums -> Int]
      BY <2>1, <3>1 DEF Pin
    <3> QED BY <3>1, <3>2, <3>3
  <2> QED BY <1>2, <2>2 DEF DeleteRecord, Calls!DeleteRecord, At, Calls!At, Deleting, Calls!Deleting,
                            Idle, Calls!Idle
<1>3. CASE r[2] \notin pages[r[1]].bits
  <2>1. pins' = pins
    BY <1>3 DEF DeleteRecord
  <2>2. CallPins' = CallPins
    BY <2>1, PinsMap
  <2> QED BY <1>3, <2>1, <2>2 DEF DeleteRecord, Calls!DeleteRecord, At, Calls!At, Deleting, Calls!Deleting,
                            Idle, Calls!Idle, Return, Calls!Return
<1> QED BY <1>2, <1>3

LEMMA RecoverMap ==
  ASSUME pins \in [PageNums -> Int], UNCHANGED scan, NEW p, NEW s, NEW v, RecoverInsertRecord(p, s, v)
  PROVE  Calls!RecoverInsertRecord(p, s, v) /\ pins' = pins
BY PinsMap DEF RecoverInsertRecord, Calls!RecoverInsertRecord, At, Calls!At, Exists, Calls!Exists

LEMMA NextMap ==
  ASSUME Calls!Inv, pins \in [PageNums -> Int], UNCHANGED scan, Next
  PROVE  Calls!Next /\ pins' \in [PageNums -> Int]
<1>1. ASSUME NEW t \in Threads, NEW v \in Values, InsertRecord(t, v)
      PROVE  Calls!Next /\ pins' \in [PageNums -> Int]
  <2>1. t = Server
    BY ServerOnly
  <2>2. Calls!InsertRecord(t, v) /\ pins' = pins
    BY <1>1, <2>1, InsertMap
  <2> QED BY <2>2 DEF Calls!Next
<1>2. ASSUME NEW t \in Threads, NEW r \in acked, DeleteRecord(t, r)
      PROVE  Calls!Next /\ pins' \in [PageNums -> Int]
  <2>1. t = Server
    BY ServerOnly
  <2>2. Calls!DeleteRecord(t, r) /\ pins' \in [PageNums -> Int]
    BY <1>2, <2>1, DeleteMap
  <2> QED BY <2>2 DEF Calls!Next
<1>3. ASSUME NEW t \in Threads, Steps(t)
      PROVE  Calls!Next /\ pins' \in [PageNums -> Int]
  <2>1. t = Server
    BY ServerOnly
  <2>2. Calls!Steps(t) /\ pins' \in [PageNums -> Int]
    BY <1>3, <2>1, StepsMap
  <2> QED BY <2>2 DEF Calls!Next
<1>4. ASSUME NEW p \in PageNums, NEW s \in Slots, NEW v \in Values, RecoverInsertRecord(p, s, v)
      PROVE  Calls!Next /\ pins' \in [PageNums -> Int]
  <2>1. Calls!RecoverInsertRecord(p, s, v) /\ pins' = pins
    BY <1>4, RecoverMap
  <2> QED BY <2>1 DEF Calls!Next, PageNums, Calls!PageNums, Slots, Calls!Slots
<1> QED BY <1>1, <1>2, <1>3, <1>4 DEF Next

\* What the record manager's proof gives for a step.
LEMMA CallsKept ==
  ASSUME Calls!Inv, Calls!Next \/ (UNCHANGED <<pages, free, lock, th, acked>> /\ CallPins' = CallPins)
  PROVE  Calls!Inv'
<1>1. Calls!Inv /\ [Calls!Next]_Calls!vars => Calls!Inv'
  BY Calls!NextInv, RecordAssumption, LayoutAssumption DEF IsFiniteSet, Calls!IsFiniteSet
<1>2. [Calls!Next]_Calls!vars
  BY DEF Calls!vars
<1> QED BY <1>1, <1>2

-----------------------------------------------------------------------------
(* Steps.                                                                  *)

LEMMA PositionedKept ==
  ASSUME Positioned(scan), UNCHANGED scan, Len(pages) \in Nat, Len(pages') \in Nat,
         Len(pages) <= Len(pages'), DOMAIN pages \subseteq DOMAIN pages',
         scan.rec # EOF => \A s \in {scan.rec[2], scan.next} :
             s \in pages[scan.page].bits => s \in pages'[scan.page].bits
  PROVE  Positioned(scan)'
<1>1. scan \in ScanType /\ scan.limit \in Nat
  BY DEF Positioned, ScanType
<1>2. scan' \in ScanType'
  BY <1>1 DEF ScanType, Places, PageNums, Slots, EOF
<1>3. scan'.limit <= Len(pages') /\ scan'.page <= scan'.limit
  BY <1>1 DEF Positioned
<1>4. scan.rec = EOF => scan'.next = -1 /\ scan'.pinned = 0
  BY DEF Positioned
<1>5. scan.rec # EOF =>
         /\ scan.rec[1] = scan.page /\ scan.pinned = scan.page /\ scan.page \in DOMAIN pages'
         /\ scan.rec[2] \in pages'[scan.page].bits
         /\ scan.next # -1 => scan.next \in pages'[scan.page].bits /\ scan.next > scan.rec[2]
  BY DEF Positioned
<1> QED BY <1>2, <1>3, <1>4, <1>5 DEF Positioned, EOF, ScanType, Places, PageNums, Slots

\* The file only grows.
LEMMA NextGrows ==
  ASSUME Calls!Inv, Next
  PROVE  /\ Len(pages) \in Nat /\ Len(pages') \in Nat /\ Len(pages) <= Len(pages')
         /\ DOMAIN pages \subseteq DOMAIN pages'
<1>0. pages \in Seq(PageType)
  BY CallFacts
<1>1. \/ pages' = pages
      \/ \E q : pages' = Append(pages, q)
      \/ \E p, q : pages' = [pages EXCEPT ![p] = q]
  <2>1. ASSUME NEW t \in Threads, Steps(t)
        PROVE  \/ pages' = pages
               \/ \E q : pages' = Append(pages, q)
               \/ \E p, q : pages' = [pages EXCEPT ![p] = q]
    <3>1. CASE StoreRecord(t)
      BY <3>1 DEF StoreRecord
    <3>2. CASE ClearSlot(t)
      <4>1. PICK p, s, b, n : pages' = [pages EXCEPT ![p].num = n - 1, ![p].bits = b \ {s}]
        BY <3>2 DEF ClearSlot
      <4>2. PICK q : q = [pages[p] EXCEPT !.num = n - 1, !.bits = b \ {s}]
        OBVIOUS
      <4>3. pages' = [pages EXCEPT ![p] = q]
        BY <1>0, <4>1, <4>2
      <4> QED BY <4>3
    <3>3. CASE AllocatePage(t)
      BY <3>3 DEF AllocatePage
    <3>4. CASE ~StoreRecord(t) /\ ~ClearSlot(t) /\ ~AllocatePage(t)
      BY <2>1, <3>4 DEF Steps, SkipFullPage, FindPage, NoFreePage, AllocateFails, AddFreePage, CheckCapacity,
                        PickSlot
    <3> QED BY <3>1, <3>2, <3>3, <3>4
  <2>2. ASSUME NEW p, NEW s, NEW v, RecoverInsertRecord(p, s, v)
        PROVE  \E k, q : pages' = [pages EXCEPT ![k] = q]
    BY <2>2 DEF RecoverInsertRecord
  <2>3. ASSUME NEW t, NEW v, InsertRecord(t, v) PROVE pages' = pages
    BY <2>3 DEF InsertRecord
  <2>4. ASSUME NEW t, NEW r, DeleteRecord(t, r) PROVE pages' = pages
    BY <2>4 DEF DeleteRecord
  <2> QED BY <2>1, <2>2, <2>3, <2>4 DEF Next
<1>2. CASE pages' = pages
  BY <1>0, <1>2
<1>3. ASSUME NEW q, pages' = Append(pages, q)
      PROVE  Len(pages') = Len(pages) + 1 /\ DOMAIN pages \subseteq DOMAIN pages'
  BY <1>0, <1>3
<1>4. ASSUME NEW p, NEW q, pages' = [pages EXCEPT ![p] = q]
      PROVE  Len(pages') = Len(pages) /\ DOMAIN pages \subseteq DOMAIN pages'
  BY <1>0, <1>4
<1> QED BY <1>0, <1>1, <1>2, <1>3, <1>4

\* Calls made between statements.
LEMMA BetweenKeeps ==
  ASSUME ScanInv, stmt.pc = "none", Next, UNCHANGED scanVars
  PROVE  ScanInv' /\ Calls!Next
<1>1. UNCHANGED <<scan, stmt>> /\ Calls!Inv /\ pins \in [PageNums -> Int] /\ scan.rec = EOF
  BY DEF ScanInv, scanVars, StmtOK
<1>2. Calls!Next /\ pins' \in [PageNums -> Int]
  BY <1>1, NextMap
<1>3. Calls!Inv'
  BY <1>1, <1>2, CallsKept
<1>4. Positioned(scan)'
  BY <1>1, NextGrows, PositionedKept DEF ScanInv
<1>5. StmtOK'
  <2>1. stmt \in StmtType'
    BY DEF ScanInv, StmtOK, StmtType, RowType, Slots
  <2> QED BY <1>1, <2>1 DEF ScanInv, StmtOK, EOF
<1>6. pins' \in [PageNums -> Int]'
  BY <1>2 DEF PageNums
<1> QED BY <1>2, <1>3, <1>4, <1>5, <1>6 DEF ScanInv

\* A statement that moves its scanner makes no call.
LEMMA MovedScan ==
  ASSUME ScanInv, NEW sc \in ScanType, sc.limit <= Len(pages), sc.page <= sc.limit,
         sc.next # -1 => sc.page \in DOMAIN pages /\ sc.next \in pages[sc.page].bits,
         MoveScan(FetchNextRecord(sc)), UNCHANGED <<pages, free, lock, th, acked>>
  PROVE  /\ Calls!Inv' /\ pins' \in [PageNums -> Int] /\ CallPins' = CallPins /\ Positioned(scan)'
         /\ scan'.limit = sc.limit
         /\ \/ scan'.rec = EOF
            \/ sc.next # -1 /\ scan'.rec = <<sc.page, sc.next>>
            \/ \E p \in sc.page + 1 .. sc.limit, s \in Slots : scan'.rec = <<p, s>>
<1>0. Calls!Inv /\ pins \in [PageNums -> Int]
  BY DEF ScanInv
<1>1. PICK z : z = FetchNextRecord(sc)
  OBVIOUS
<1>2. MoveScan(z) /\ scan' = z
  BY <1>1 DEF MoveScan
<1>3. pins' \in [PageNums -> Int] /\ CallPins' = CallPins
  BY <1>0, <1>2, MoveMap
<1>4. Calls!Inv'
  BY <1>0, <1>3, CallsKept
<1>5. /\ Positioned(z) /\ z.limit = sc.limit
      /\ \/ z.rec = EOF
         \/ sc.next # -1 /\ z.rec = <<sc.page, sc.next>>
         \/ \E p \in sc.page + 1 .. sc.limit, s \in Slots : z.rec = <<p, s>>
  BY <1>0, <1>1, CallFacts, FetchPositions
<1>6. Positioned(scan)'
  BY <1>2, <1>5 DEF Positioned, ScanType, Places, PageNums, Slots, EOF
<1> QED BY <1>2, <1>3, <1>4, <1>5, <1>6

LEMMA OpenKeeps ==
  ASSUME ScanInv, NEW kind \in {"delete", "update"}, NEW from \in Values \cup {AnyRow},
         NEW to \in Values \cup {AnyRow}, kind = "update" => to \in Values, OpenScan(kind, from, to)
  PROVE  ScanInv' /\ CallPins' = CallPins
<1>1. /\ stmt.pc = "none" /\ th[Server].pc = "idle" /\ UNCHANGED <<pages, free, lock, th, acked>>
      /\ stmt' = [NoStmt EXCEPT !.pc = "next", !.kind = kind, !.from = from, !.to = to]
  BY DEF OpenScan, At
<1>2. PICK sc : sc = [scan EXCEPT !.limit = Len(pages)]
  OBVIOUS
<1>3. /\ scan \in ScanType /\ scan.rec = EOF /\ scan.next = -1 /\ scan.limit <= Len(pages)
      /\ scan.page <= scan.limit
  BY <1>1 DEF ScanInv, Positioned, StmtOK
<1>4. Len(pages) \in 0 .. MaxPages
  <2>1. pages \in Seq(PageType) /\ Len(pages) <= MaxPages
    BY CallFacts DEF ScanInv
  <2> QED BY <2>1, RecordAssumption
<1>5. sc \in ScanType /\ sc.limit = Len(pages) /\ sc.page = scan.page /\ sc.next = -1
  BY <1>2, <1>3, <1>4 DEF ScanType
<1>6. sc.page <= sc.limit /\ sc.limit <= Len(pages)
  BY <1>3, <1>4, <1>5 DEF ScanType
<1>7. MoveScan(FetchNextRecord(sc))
  BY <1>2 DEF OpenScan
<1>8. Calls!Inv' /\ pins' \in [PageNums -> Int] /\ CallPins' = CallPins /\ Positioned(scan)'
  BY <1>1, <1>5, <1>6, <1>7, MovedScan
<1>9. /\ stmt'.pc = "next" /\ stmt'.kind = kind /\ stmt'.to = to /\ stmt' \in StmtType
  <2>1. <<0, 0, Blank>> \in RowType
    BY RecordAssumption DEF RowType, Slots
  <2>2. PICK r \in RowType : r = <<0, 0, Blank>>
    BY <2>1
  <2>3. NoStmt = [pc |-> "none", kind |-> "update", from |-> AnyRow, to |-> AnyRow, row |-> r]
    BY <2>2 DEF NoStmt
  <2>4. NoStmt \in [pc : {"none"}, kind : {"update"}, from : {AnyRow}, to : {AnyRow}, row : RowType]
    BY <2>3
  <2> HIDE DEF NoStmt
  <2> QED BY <1>1, <2>4 DEF StmtType
<1>10. StmtOK'
  BY <1>1, <1>9 DEF StmtOK, StmtType, RowType, Slots
<1> QED BY <1>8, <1>10 DEF ScanInv, PageNums

\* The record handed out exists, and the scanner goes on behind it.
LEMMA NextRowKeeps ==
  ASSUME ScanInv, NextRow
  PROVE  /\ ScanInv' /\ CallPins' = CallPins /\ scan'.limit = scan.limit
         /\ \/ scan'.rec = EOF
            \/ scan'.rec[1] > scan.rec[1] /\ scan'.rec[1] <= scan.limit
            \/ /\ scan'.rec[1] = scan.rec[1] /\ scan'.rec[2] > scan.rec[2]
               /\ scan'.rec[1] <= scan.limit
<1>0. /\ stmt.pc = "next" /\ scan.rec # EOF /\ UNCHANGED <<pages, free, lock, th, acked>>
      /\ MoveScan(FetchNextRecord(scan)) /\ th[Server].pc = "idle"
  BY DEF NextRow, ScanInv, StmtOK
<1>1. /\ scan \in ScanType /\ scan.limit <= Len(pages) /\ scan.page <= scan.limit
      /\ scan.rec[1] = scan.page /\ scan.page \in DOMAIN pages /\ scan.rec[2] \in pages[scan.page].bits
      /\ scan.next # -1 => scan.next \in pages[scan.page].bits /\ scan.next > scan.rec[2]
  BY <1>0 DEF ScanInv, Positioned
<1>2. /\ pages \in Seq(PageType) /\ Len(pages) <= MaxPages /\ RecordsOK(scan.page)
      /\ pages[scan.page] \in PageType /\ scan.page \in PageNums /\ acked \subseteq PageNums \X Slots \X Values
  BY <1>1, CallFacts, PagesSized DEF ScanInv
<1>3. /\ Calls!Inv' /\ pins' \in [PageNums -> Int] /\ CallPins' = CallPins /\ Positioned(scan)'
      /\ scan'.limit = scan.limit
      /\ \/ scan'.rec = EOF
         \/ scan.next # -1 /\ scan'.rec = <<scan.page, scan.next>>
         \/ \E p \in scan.page + 1 .. scan.limit, s \in Slots : scan'.rec = <<p, s>>
  BY <1>0, <1>1, MovedScan
<1>4. PICK p, s, v : p = scan.page /\ s = scan.rec[2] /\ v = pages[p].data[s]
  OBVIOUS
<1>5. s \in Slots /\ v \in Values /\ <<p, s, v>> \in acked
  <2>1. s \in Slots /\ v \in Values
    BY <1>1, <1>2, <1>4 DEF PageType, RecordsOK
  <2> QED BY <1>1, <1>2, <1>4, <2>1 DEF RecordsOK
<1>6. scan.page \in Nat /\ scan.limit \in Nat /\ s \in Nat
  BY <1>1, <1>5, RecordAssumption DEF ScanType, Slots
<1>7. \/ scan'.rec = EOF
      \/ scan'.rec[1] > p /\ scan'.rec[1] <= scan.limit
      \/ scan'.rec[1] = p /\ scan'.rec[2] > s /\ scan'.rec[1] <= scan.limit
  <2>1. CASE scan.next # -1 /\ scan'.rec = <<scan.page, scan.next>>
    BY <1>1, <1>4, <1>6, <2>1
  <2>2. CASE \E k \in scan.page + 1 .. scan.limit, c \in Slots : scan'.rec = <<k, c>>
    <3>1. PICK k \in scan.page + 1 .. scan.limit, c \in Slots : scan'.rec = <<k, c>>
      BY <2>2
    <3>2. k > p /\ k <= scan.limit /\ scan'.rec[1] = k
      BY <1>4, <1>6, <3>1
    <3> QED BY <3>2
  <2> QED BY <1>3, <2>1, <2>2
<1>8. Behind(p, s)'
  <2>1. CASE scan'.rec = EOF
    BY <2>1 DEF Behind, EOF
  <2>2. CASE scan'.rec # EOF
    <3>1. scan'.rec \in PageNums \X Slots
      BY <1>3, <2>2 DEF Positioned, ScanType, Places, EOF, PageNums, Slots
    <3>2. scan'.rec[1] \in Int /\ scan'.rec[2] \in Int
      BY <3>1, RecordAssumption DEF PageNums, Slots
    <3> QED BY <1>4, <1>6, <1>7, <2>2, <3>2 DEF Behind
  <2> QED BY <2>1, <2>2
<1>9. PICK c \in {"row", "next"} : stmt' = [stmt EXCEPT !.row = <<p, s, v>>, !.pc = c]
  BY <1>1, <1>4 DEF NextRow
<1>10. /\ stmt' \in StmtType /\ stmt'.pc = c /\ stmt'.row = <<p, s, v>> /\ stmt'.kind = stmt.kind
       /\ stmt'.to = stmt.to
  <2>1. p \in 0 .. MaxPages
    BY <1>1, <1>4 DEF ScanType
  <2>2. PICK r \in RowType : r = <<p, s, v>>
    BY <1>5, <2>1 DEF RowType
  <2>3. stmt \in StmtType
    BY DEF ScanInv, StmtOK
  <2> QED BY <1>9, <2>2, <2>3 DEF StmtType
<1>11. StmtOK'
  <2>1. stmt'.kind = "update" => stmt'.to \in Values
    BY <1>0, <1>10 DEF ScanInv, StmtOK
  <2>2. stmt'.row \in acked' /\ Behind(stmt.row[1], stmt.row[2])'
    <3>1. stmt'.row[1] = p /\ stmt'.row[2] = s
      BY <1>10
    <3> QED BY <1>0, <1>5, <1>8, <1>10, <3>1 DEF Behind
  <2>3. th'[Server].pc = "idle"
    BY <1>0
  <2> QED BY <1>9, <1>10, <2>1, <2>2, <2>3 DEF StmtOK, StmtType, RowType, Slots
<1> QED BY <1>1, <1>3, <1>4, <1>7, <1>11 DEF ScanInv, PageNums

LEMMA StmtMoves ==
  ASSUME stmt \in StmtType, NEW c \in {"none", "next", "row", "deleting", "inserting", "done"},
         stmt' = [stmt EXCEPT !.pc = c]
  PROVE  /\ stmt' \in StmtType /\ stmt'.pc = c /\ stmt'.row = stmt.row /\ stmt'.kind = stmt.kind
         /\ stmt'.to = stmt.to
BY DEF StmtType

LEMMA DeleteRowKeeps ==
  ASSUME ScanInv, DeleteRow
  PROVE  /\ ScanInv' /\ Calls!DeleteRecord(Server, stmt.row) /\ stmt.row \in acked
         /\ th'[Server].pc = "clear" /\ th'[Server].page = stmt.row[1] /\ th'[Server].slot = stmt.row[2]
<1>1. /\ stmt.pc = "row" /\ DeleteRecord(Server, stmt.row) /\ stmt' = [stmt EXCEPT !.pc = "deleting"]
      /\ UNCHANGED scan
  BY DEF DeleteRow
<1>2. /\ stmt \in StmtType /\ stmt.row \in acked /\ Behind(stmt.row[1], stmt.row[2])
      /\ stmt.kind = "update" => stmt.to \in Values
  BY <1>1 DEF ScanInv, StmtOK
<1>3. Calls!Inv /\ pins \in [PageNums -> Int] /\ Positioned(scan)
  BY DEF ScanInv
<1>4. Calls!DeleteRecord(Server, stmt.row) /\ pins' \in [PageNums -> Int]
  BY <1>1, <1>2, <1>3, DeleteMap
<1>5. Calls!Next
  BY <1>2, <1>4, ServerOnly DEF Calls!Next
<1>6. Calls!Inv'
  BY <1>3, <1>5, CallsKept
<1>7. PICK p, s, v : p = stmt.row[1] /\ s = stmt.row[2] /\ v = stmt.row[3]
  OBVIOUS
<1>8. s \in pages[p].bits
  <2>1. stmt.row \in PageNums \X Slots \X Values /\ stmt.row[1] \in DOMAIN pages
    <3>1. \A r \in acked : r[1] \in DOMAIN pages
      BY <1>3 DEF Calls!Inv, Calls!Types
    <3> QED BY <1>2, <1>3, <3>1, CallFacts
  <2>2. <<p, s, v>> \in acked /\ p \in DOMAIN pages /\ s \in Slots /\ v \in Values
    BY <1>2, <1>7, <2>1
  <2> QED BY <1>3, <2>2, CallFacts DEF RecordsOK
<1>9. UNCHANGED pages /\ th'[Server].pc = "clear" /\ th'[Server].page = p /\ th'[Server].slot = s
  <2>1. th' = [th EXCEPT ![Server] = [Idle(stmt.row[3]) EXCEPT
                  !.pc = "clear", !.page = stmt.row[1], !.slot = stmt.row[2],
                  !.bits = pages[stmt.row[1]].bits, !.num = pages[stmt.row[1]].num]]
    BY <1>1, <1>7, <1>8 DEF DeleteRecord
  <2>2. th'[Server] = [Idle(v) EXCEPT !.pc = "clear", !.page = p, !.slot = s,
                                      !.bits = pages[p].bits, !.num = pages[p].num]
    BY <1>3, <1>7, <2>1, ServerOnly, CallFacts
  <2> QED BY <1>1, <2>2 DEF DeleteRecord, Idle
<1>10. Positioned(scan)'
  BY <1>1, <1>3, <1>9 DEF Positioned, ScanType, Places, PageNums, Slots, EOF
<1>11. /\ stmt' \in StmtType /\ stmt'.pc = "deleting" /\ stmt'.kind = stmt.kind /\ stmt'.to = stmt.to
  BY <1>1, <1>2, StmtMoves
<1>12. DeletingOK(th[Server])'
  <2>1. Behind(p, s)'
    BY <1>1, <1>2, <1>7 DEF Behind, EOF
  <2> QED BY <1>9, <2>1 DEF DeletingOK, Behind
<1>13. StmtOK'
  BY <1>2, <1>11, <1>12 DEF StmtOK, StmtType, RowType, Slots
<1> QED BY <1>2, <1>4, <1>6, <1>7, <1>9, <1>10, <1>13 DEF ScanInv, PageNums

\* What the end of a call and a jump in it leave of the thread.
LEMMA ThreadAfter ==
  ASSUME th \in [Threads -> ThreadType]
  PROVE  /\ \A rc : Return(Server, rc) => th'[Server].pc = "idle" /\ th'[Server].rc = rc
         /\ \A pc : Goto(Server, pc) => th'[Server].pc = pc /\ th'[Server].page = th[Server].page
<1>1. ASSUME NEW rc, Return(Server, rc) PROVE th'[Server].pc = "idle" /\ th'[Server].rc = rc
  <2>1. th'[Server] = [Idle(Blank) EXCEPT !.page = th[Server].page, !.slot = th[Server].slot, !.rc = rc]
    BY <1>1, ServerOnly DEF Return
  <2> QED BY <2>1 DEF Idle
<1>2. ASSUME NEW pc, Goto(Server, pc) PROVE th'[Server].pc = pc /\ th'[Server].page = th[Server].page
  <2>1. th'[Server] = [th[Server] EXCEPT !.pc = pc] /\ th[Server] \in ThreadType
    BY <1>2, ServerOnly DEF Goto
  <2> QED BY <2>1 DEF ThreadType
<1> QED BY <1>1, <1>2

\* A step of the call a statement has made.
LEMMA CallKeeps ==
  ASSUME ScanInv, stmt.pc # "none", Steps(Server), UNCHANGED scanVars
  PROVE  ScanInv' /\ Calls!Steps(Server)
<1>0. /\ Calls!Inv /\ pins \in [PageNums -> Int] /\ Positioned(scan) /\ StmtOK
      /\ UNCHANGED <<scan, stmt>>
  BY DEF ScanInv, scanVars
<1>1. Calls!Steps(Server) /\ pins' \in [PageNums -> Int]
  BY <1>0, StepsMap
<1>2. Calls!Inv'
  <2>1. Calls!Next
    BY <1>1, ServerOnly DEF Calls!Next
  <2> QED BY <1>0, <2>1, CallsKept
<1>3. /\ pages \in Seq(PageType) /\ Len(pages) <= MaxPages /\ th \in [Threads -> ThreadType]
      /\ CallOK(Server) /\ LocalsOK(th[Server]) /\ RoomOK
      /\ \A p \in DOMAIN pages : RecordsOK(p) /\ CountOK(p)
  BY <1>0, CallFacts
<1>4. DOMAIN pages \subseteq PageNums /\ \A p \in DOMAIN pages : pages[p] \in PageType
  BY <1>3, PagesSized
<1>5. th[Server].pc # "idle"
  BY DEF Steps, At, SkipFullPage, FindPage, NoFreePage, AllocatePage, AllocateFails, AddFreePage,
         CheckCapacity, PickSlot, StoreRecord, ClearSlot
<1>stmt. /\ stmt' \in StmtType /\ (stmt'.kind = "update" => stmt'.to \in Values) /\ stmt'.pc = stmt.pc
         /\ stmt'.pc \in {"deleting", "inserting"}
  <2>1. stmt.pc \in {"deleting", "inserting"}
    BY <1>0, <1>5 DEF StmtOK, StmtType
  <2> QED BY <1>0, <2>1 DEF StmtOK
<1>done. ASSUME Positioned(scan)', stmt.pc = "deleting" => DeletingOK(th[Server])',
                stmt.pc = "inserting" => InsertingOK(th[Server])'
         PROVE  ScanInv' /\ Calls!Steps(Server)
  <2>1. StmtOK'
    BY <1>stmt, <1>done DEF StmtOK, StmtType, RowType, Slots
  <2> QED BY <1>1, <1>2, <1>done, <2>1 DEF ScanInv, PageNums
<1>same. ASSUME UNCHANGED pages PROVE Positioned(scan)'
  BY <1>0, <1>same DEF Positioned, ScanType, Places, PageNums, Slots, EOF
<1>6. CASE stmt.pc = "deleting" /\ th[Server].pc = "clear"
  <2>1. ClearSlot(Server) /\ Behind(th[Server].page, th[Server].slot)
    BY <1>0, <1>6 DEF StmtOK, DeletingOK, Steps, At, SkipFullPage, FindPage, NoFreePage, AllocatePage,
                      AllocateFails, AddFreePage, CheckCapacity, PickSlot, StoreRecord
  <2>2. PICK p, s : p = th[Server].page /\ s = th[Server].slot
    OBVIOUS
  <2>3. /\ p \in DOMAIN pages /\ pages[p] \in PageType /\ th[Server].bits = pages[p].bits
        /\ th[Server].num = pages[p].num
    BY <1>3, <1>4, <1>6, <2>2 DEF CallOK, OnPage, LocalsOK
  <2>4. pages' = [pages EXCEPT ![p].num = pages[p].num - 1, ![p].bits = pages[p].bits \ {s}]
        /\ Goto(Server, "add_deleted")
    BY <2>1, <2>2, <2>3 DEF ClearSlot, BitsRead, NumsRead
  <2>5. PICK q : q = [pages[p] EXCEPT !.num = pages[p].num - 1, !.bits = pages[p].bits \ {s}]
    OBVIOUS
  <2>6. q \in PageType /\ q.num = pages[p].num - 1 /\ q.bits = pages[p].bits \ {s}
    <3>1. PICK n, u : n = pages[p].num - 1 /\ u = pages[p].bits \ {s}
      OBVIOUS
    <3>2. n \in Int /\ u \in SUBSET Slots
      BY <2>3, <3>1 DEF PageType
    <3>3. q = [pages[p] EXCEPT !.num = n, !.bits = u]
      BY <2>5, <3>1
    <3>4. q \in PageType /\ q.num = n /\ q.bits = u
      BY <2>3, <3>2, <3>3 DEF PageType
    <3> QED BY <3>1, <3>4
  <2>7. pages' = [pages EXCEPT ![p] = q]
    BY <1>3, <2>3, <2>4, <2>5
  <2>8. /\ pages' \in Seq(PageType) /\ Len(pages') = Len(pages) /\ DOMAIN pages' = DOMAIN pages
        /\ pages'[p] = q /\ \A k \in DOMAIN pages : k # p => pages'[k] = pages[k]
    BY <1>3, <2>3, <2>6, <2>7, ReplacePage
  <2>9. ~IsFull(p)'
    <3>1. pages[p].bits \subseteq Slots /\ pages[p].num = Cardinality(pages[p].bits)
      BY <1>3, <2>3 DEF PageType, CountOK
    <3>2. pages[p].num \in 0 .. Capacity /\ Capacity \in Nat
      BY <3>1, SlotsFinite, RecordAssumption
    <3> QED BY <2>6, <2>8, <3>2 DEF IsFull
  <2>10. Positioned(scan)'
    <3>1. ASSUME scan.rec # EOF, NEW c \in {scan.rec[2], scan.next}, c \in pages[scan.page].bits
          PROVE  c \in pages'[scan.page].bits
      <4>1. /\ scan.rec[1] = scan.page /\ scan.page \in DOMAIN pages /\ scan.rec[2] \in pages[scan.page].bits
            /\ scan.next # -1 => scan.next > scan.rec[2]
        BY <1>0, <3>1 DEF Positioned
      <4>2. CASE scan.page = p
        <5>1. s < scan.rec[2]
          <6>1. scan.page \in Int
            BY <1>0 DEF Positioned, ScanType
          <6> QED BY <2>1, <2>2, <3>1, <4>1, <4>2, <6>1 DEF Behind
        <5>2. scan.rec[2] \in Int /\ scan.next \in Int /\ s \in Int /\ c # -1
          <6>1. pages[scan.page].bits \subseteq Slots
            BY <1>4, <4>1 DEF PageType
          <6>2. \A k \in Slots : k \in Nat
            BY RecordAssumption DEF Slots
          <6>3. s \in Slots
            BY <1>3, <2>2, ServerOnly DEF ThreadType
          <6>4. scan.next \in Slots \/ scan.next = -1
            BY <1>0 DEF Positioned, ScanType
          <6>5. scan.rec[2] \in Nat /\ c \in Nat /\ s \in Nat
            BY <3>1, <4>1, <6>1, <6>2, <6>3
          <6>6. scan.next \in Int
            BY <6>2, <6>4
          <6> QED BY <6>5, <6>6
        <5>3. c # s
          BY <3>1, <4>1, <5>1, <5>2
        <5> QED BY <2>6, <2>8, <3>1, <4>2, <5>3
      <4>3. CASE scan.page # p
        BY <2>8, <3>1, <4>1, <4>3
      <4> QED BY <4>2, <4>3
    <3>2. Len(pages) \in Nat
      BY <1>3
    <3> QED BY <1>0, <2>8, <3>1, <3>2, PositionedKept
  <2>11. DeletingOK(th[Server])'
    <3>1. th'[Server].pc = "add_deleted" /\ th'[Server].page = p
      BY <1>3, <2>2, <2>4, ThreadAfter
    <3> QED BY <2>9, <3>1 DEF DeletingOK, IsFull
  <2> QED BY <1>6, <1>done, <2>10, <2>11
<1>7. CASE stmt.pc = "deleting" /\ th[Server].pc = "add_deleted"
  <2>1. AddFreePage(Server) /\ ~IsFull(th[Server].page)
    BY <1>0, <1>7 DEF StmtOK, DeletingOK, Steps, At, SkipFullPage, FindPage, NoFreePage, AllocatePage,
                      AllocateFails, ClearSlot, CheckCapacity, PickSlot, StoreRecord
  <2>2. UNCHANGED pages /\ Return(Server, "SUCCESS")
    BY <1>7, <2>1 DEF AddFreePage, At
  <2>3. th[Server].page \in DOMAIN pages
    BY <1>3, <1>7 DEF CallOK, OnPage
  <2>4. SomeRoom'
    BY <2>1, <2>2, <2>3 DEF SomeRoom, IsFull
  <2>5. th'[Server].pc = "idle" /\ th'[Server].rc = "SUCCESS"
    BY <1>3, <2>2, ThreadAfter
  <2>6. DeletingOK(th[Server])'
    BY <2>4, <2>5 DEF DeletingOK, SomeRoom
  <2> QED BY <1>7, <1>done, <1>same, <2>2, <2>6
<1>8. CASE stmt.pc = "inserting" /\ th[Server].pc = "find"
  <2>1. SomeRoom
    BY <1>0, <1>8 DEF StmtOK, InsertingOK
  <2>2. free # {}
    <3>1. PICK p \in DOMAIN pages : ~IsFull(p)
      BY <2>1 DEF SomeRoom
    <3>2. p \in free
      BY <1>3, <1>8, <3>1, ServerOnly DEF RoomOK, Adding
    <3> QED BY <3>2
  <2>3. PICK p \in PageNums : SkipFullPage(Server, p) \/ FindPage(Server, p)
    BY <1>8, <2>2 DEF Steps, At, NoFreePage, AllocatePage, AddFreePage,
                      AllocateFails, ClearSlot, CheckCapacity, PickSlot, StoreRecord
  <2>4. UNCHANGED pages
    BY <2>3 DEF SkipFullPage, FindPage
  <2>5. CASE SkipFullPage(Server, p)
    <3>1. th' = th /\ SomeRoom'
      BY <2>1, <2>4, <2>5 DEF SkipFullPage, SomeRoom, IsFull
    <3>2. InsertingOK(th[Server])'
      BY <1>8, <3>1 DEF InsertingOK, SomeRoom
    <3> QED BY <1>8, <1>done, <1>same, <2>4, <3>2
  <2>6. CASE FindPage(Server, p)
    <3>1. th'[Server] = [th[Server] EXCEPT !.pc = "check", !.page = p] /\ th[Server] \in ThreadType
      BY <1>3, <2>6, ServerOnly DEF FindPage
    <3>2. th'[Server].pc = "check"
      BY <3>1 DEF ThreadType
    <3>3. InsertingOK(th[Server])'
      BY <3>2 DEF InsertingOK
    <3> QED BY <1>8, <1>done, <1>same, <2>4, <3>3
  <2> QED BY <2>3, <2>5, <2>6
<1>9. CASE stmt.pc = "inserting" /\ th[Server].pc = "check"
  <2>1. CheckCapacity(Server)
    BY <1>9 DEF Steps, At, NoFreePage, AllocatePage, AddFreePage, SkipFullPage, FindPage,
                AllocateFails, ClearSlot, PickSlot, StoreRecord
  <2>2. pages[th[Server].page].num # Capacity
    <3>1. /\ th[Server].page \in DOMAIN pages /\ pages[th[Server].page].num < Capacity
      BY <1>3, <1>9 DEF CallOK, OnPage, LocalsOK
    <3>2. pages[th[Server].page].num \in Int /\ Capacity \in Int
      BY <1>4, <3>1, RecordAssumption DEF PageType
    <3> QED BY <3>1, <3>2
  <2>3. UNCHANGED pages /\ Goto(Server, "pick")
    BY <2>1, <2>2 DEF CheckCapacity
  <2>4. th'[Server].pc = "pick"
    BY <1>3, <2>3, ThreadAfter
  <2>5. InsertingOK(th[Server])'
    BY <2>4 DEF InsertingOK
  <2> QED BY <1>9, <1>done, <1>same, <2>3, <2>5
<1>10. CASE stmt.pc = "inserting" /\ th[Server].pc = "pick"
  <2>1. PickSlot(Server)
    BY <1>10 DEF Steps, At, NoFreePage, AllocatePage, AddFreePage, SkipFullPage, FindPage,
                 AllocateFails, ClearSlot, CheckCapacity, StoreRecord
  <2>2. th'[Server].pc # "wild"
    BY <1>2, ServerOnly DEF Calls!Inv, Calls!OneThread, OneThread, Calls!Exact, Calls!LocalsOK
  <2>3. UNCHANGED pages
    BY <2>1 DEF PickSlot
  <2>4. th'[Server].pc = "store"
    <3>1. CASE Goto(Server, "wild")
      BY <1>3, <2>2, <3>1, ThreadAfter
    <3>2. CASE ~Goto(Server, "wild")
      <4>1. PICK s, b, n : th' = [th EXCEPT ![Server].pc = "store", ![Server].slot = s,
                                           ![Server].bits = b, ![Server].num = n]
        BY <2>1, <3>2 DEF PickSlot
      <4>2. th'[Server] = [th[Server] EXCEPT !.pc = "store", !.slot = s, !.bits = b, !.num = n]
            /\ th[Server] \in ThreadType
        BY <1>3, <4>1, ServerOnly
      <4> QED BY <4>2 DEF ThreadType
    <3> QED BY <3>1, <3>2
  <2>5. InsertingOK(th[Server])'
    BY <2>4 DEF InsertingOK
  <2> QED BY <1>10, <1>done, <1>same, <2>3, <2>5
<1>11. CASE stmt.pc = "inserting" /\ th[Server].pc = "store"
  <2>1. StoreRecord(Server)
    BY <1>11 DEF Steps, At, NoFreePage, AllocatePage, AddFreePage, SkipFullPage, FindPage,
                 AllocateFails, ClearSlot, CheckCapacity, PickSlot
  <2>2. PICK p, s : p = th[Server].page /\ s = th[Server].slot
    OBVIOUS
  <2>3. /\ p \in DOMAIN pages /\ pages[p] \in PageType /\ th[Server].bits = pages[p].bits
        /\ th[Server].num = pages[p].num /\ s \in Slots /\ th[Server].val \in Values
    BY <1>3, <1>4, <1>11, <2>2, ServerOnly DEF CallOK, OnPage, Inserting, LocalsOK, ThreadType
  <2>4. PICK q : q = [num |-> pages[p].num + 1, bits |-> pages[p].bits \cup {s},
                      data |-> [pages[p].data EXCEPT ![s] = th[Server].val]]
    OBVIOUS
  <2>5. q \in PageType
    <3>1. pages[p].num + 1 \in Int /\ pages[p].bits \cup {s} \in SUBSET Slots
      BY <2>3 DEF PageType
    <3> QED BY <2>3, <2>4, <3>1, PutPage
  <2>6. pages' = [pages EXCEPT ![p] = q] /\ Return(Server, "SUCCESS")
    BY <2>1, <2>2, <2>3, <2>4 DEF StoreRecord, BitsRead, NumsRead
  <2>7. /\ Len(pages') = Len(pages) /\ DOMAIN pages' = DOMAIN pages
        /\ pages'[p] = q /\ \A k \in DOMAIN pages : k # p => pages'[k] = pages[k]
    BY <1>3, <2>3, <2>5, <2>6, ReplacePage
  <2>8. \A k \in DOMAIN pages : pages[k].bits \subseteq pages'[k].bits
    BY <2>4, <2>7
  <2>9. Positioned(scan)'
    <3>1. Len(pages) \in Nat
      BY <1>3
    <3>2. scan.rec # EOF => scan.page \in DOMAIN pages
      BY <1>0 DEF Positioned
    <3> QED BY <1>0, <2>7, <2>8, <3>1, <3>2, PositionedKept
  <2>10. th'[Server].pc = "idle" /\ th'[Server].rc = "SUCCESS"
    BY <1>3, <2>6, ThreadAfter
  <2>11. InsertingOK(th[Server])'
    BY <2>10 DEF InsertingOK
  <2> QED BY <1>11, <1>done, <2>9, <2>11
<1> QED BY <1>0, <1>5, <1>stmt, <1>6, <1>7, <1>8, <1>9, <1>10, <1>11 DEF StmtOK, DeletingOK, InsertingOK

\* Steps that only move the statement.
LEMMA MovesKeep ==
  ASSUME ScanInv, NEW c \in {"next", "done"}, stmt' = [stmt EXCEPT !.pc = c], UNCHANGED <<vars, scan>>,
         stmt.pc # "none", th[Server].pc = "idle", c = "done" => scan.rec = EOF
  PROVE  ScanInv' /\ CallPins' = CallPins
<1>1. /\ Calls!Inv /\ pins \in [PageNums -> Int] /\ Positioned(scan) /\ stmt \in StmtType
      /\ UNCHANGED <<pages, free, lock, th, acked, pins, scan>>
      /\ stmt.kind = "update" => stmt.to \in Values
  BY DEF ScanInv, StmtOK, vars
<1>2. CallPins' = CallPins
  BY <1>1, PinsMap
<1>3. Calls!Inv'
  BY <1>1, <1>2, CallsKept
<1>4. Positioned(scan)'
  BY <1>1 DEF Positioned, ScanType, Places, PageNums, Slots, EOF
<1>5. stmt' \in StmtType /\ stmt'.pc = c /\ stmt'.kind = stmt.kind /\ stmt'.to = stmt.to
  BY <1>1, StmtMoves
<1>6. StmtOK'
  BY <1>1, <1>5 DEF StmtOK, StmtType, RowType, Slots, EOF
<1> QED BY <1>1, <1>2, <1>3, <1>4, <1>6 DEF ScanInv, PageNums

LEMMA InsertRowKeeps ==
  ASSUME ScanInv, InsertRow
  PROVE  ScanInv' /\ Calls!InsertRecord(Server, stmt.to) /\ stmt.to \in Values
<1>1. /\ stmt.pc = "deleting" /\ stmt.kind = "update" /\ th[Server].pc = "idle"
      /\ InsertRecord(Server, stmt.to) /\ stmt' = [stmt EXCEPT !.pc = "inserting"] /\ UNCHANGED scan
  BY DEF InsertRow, At
<1>2. /\ Calls!Inv /\ pins \in [PageNums -> Int] /\ Positioned(scan) /\ stmt \in StmtType
      /\ stmt.to \in Values /\ SomeRoom
  BY <1>1 DEF ScanInv, StmtOK, DeletingOK
<1>3. Calls!InsertRecord(Server, stmt.to) /\ pins' = pins
  BY <1>1, <1>2, InsertMap
<1>4. Calls!Next
  BY <1>2, <1>3, ServerOnly DEF Calls!Next
<1>5. Calls!Inv'
  BY <1>2, <1>4, CallsKept
<1>6. UNCHANGED pages /\ th'[Server].pc = "find"
  <2>1. th \in [Threads -> ThreadType]
    BY <1>2, CallFacts
  <2>2. UNCHANGED pages /\ th' = [th EXCEPT ![Server] = [Idle(stmt.to) EXCEPT !.pc = "find"]]
    BY <1>1 DEF InsertRecord
  <2>3. th'[Server] = [Idle(stmt.to) EXCEPT !.pc = "find"]
    BY <2>1, <2>2, ServerOnly
  <2> QED BY <2>2, <2>3 DEF Idle
<1>7. Positioned(scan)'
  BY <1>1, <1>2, <1>6 DEF Positioned, ScanType, Places, PageNums, Slots, EOF
<1>8. /\ stmt' \in StmtType /\ stmt'.pc = "inserting" /\ stmt'.kind = stmt.kind /\ stmt'.to = stmt.to
  BY <1>1, <1>2, StmtMoves
<1>9. InsertingOK(th[Server])'
  <2>1. SomeRoom'
    BY <1>2, <1>6 DEF SomeRoom, IsFull
  <2> QED BY <1>6, <2>1 DEF InsertingOK, SomeRoom
<1>10. StmtOK'
  BY <1>2, <1>8, <1>9 DEF StmtOK, StmtType, RowType, Slots
<1> QED BY <1>2, <1>3, <1>5, <1>7, <1>10 DEF ScanInv, PageNums

LEMMA OperatorKeeps ==
  ASSUME ScanInv, Operator
  PROVE  ScanInv' /\ [Calls!Next]_Calls!vars
<1>0. StmtOK
  BY DEF ScanInv
<1>1. CASE NextRow
  BY <1>1, NextRowKeeps DEF NextRow, Calls!vars
<1>2. CASE DeleteRow
  BY <1>2, DeleteRowKeeps, ServerOnly DEF Calls!Next
<1>3. CASE InsertRow
  BY <1>3, InsertRowKeeps, ServerOnly DEF Calls!Next
<1>4. CASE RowDeleted \/ RowInserted
  <2>1. stmt.pc \in {"deleting", "inserting"} /\ th[Server].pc = "idle" /\ UNCHANGED <<vars, scan>>
    BY <1>4 DEF RowDeleted, RowInserted, At
  <2>2. th[Server].rc = "SUCCESS"
    BY <1>0, <2>1 DEF StmtOK, DeletingOK, InsertingOK
  <2>3. stmt' = [stmt EXCEPT !.pc = "next"]
    BY <1>4, <2>2 DEF RowDeleted, RowInserted
  <2> QED BY <2>1, <2>3, MovesKeep DEF vars, Calls!vars
<1>5. CASE CloseScan
  <2>1. stmt.pc = "next" /\ scan.rec = EOF /\ UNCHANGED <<vars, scan>> /\ stmt' = [stmt EXCEPT !.pc = "done"]
    BY <1>5 DEF CloseScan
  <2>2. th[Server].pc = "idle"
    BY <1>0, <2>1 DEF StmtOK
  <2> QED BY <2>1, <2>2, MovesKeep DEF vars, Calls!vars
<1> QED BY <1>1, <1>2, <1>3, <1>4, <1>5 DEF Operator

LEMMA ScanStep == ScanInv /\ [ScanNext]_allVars => ScanInv' /\ [Calls!Next]_Calls!vars
<1> SUFFICES ASSUME ScanInv, [ScanNext]_allVars PROVE ScanInv' /\ [Calls!Next]_Calls!vars
  OBVIOUS
<1>1. CASE stmt.pc = "none" /\ Next /\ UNCHANGED scanVars
  BY <1>1, BetweenKeeps
<1>2. ASSUME NEW from \in Values \cup {AnyRow}, OpenScan("delete", from, AnyRow)
      PROVE  ScanInv' /\ [Calls!Next]_Calls!vars
  <2>1. ScanInv' /\ CallPins' = CallPins
    BY <1>2, OpenKeeps
  <2> QED BY <1>2, <2>1 DEF OpenScan, Calls!vars
<1>3. ASSUME NEW from \in Values \cup {AnyRow}, NEW to \in Values, OpenScan("update", from, to)
      PROVE  ScanInv' /\ [Calls!Next]_Calls!vars
  <2>1. ScanInv' /\ CallPins' = CallPins
    BY <1>3, OpenKeeps
  <2> QED BY <1>3, <2>1 DEF OpenScan, Calls!vars
<1>4. CASE Operator
  BY <1>4, OperatorKeeps
<1>5. CASE stmt.pc # "none" /\ Call
  BY <1>5, CallKeeps, ServerOnly DEF Call, Calls!Next
<1>6. CASE UNCHANGED allVars
  <2>1. UNCHANGED <<pages, free, lock, th, acked, pins, scan, stmt>>
    BY <1>6 DEF allVars, vars, scanVars
  <2>2. CallPins' = CallPins
    BY <2>1 DEF CallPins, PageNums
  <2>3. Calls!Inv'
    BY <2>1, <2>2, CallsKept DEF ScanInv
  <2>4. Positioned(scan)'
    BY <2>1 DEF ScanInv, Positioned, ScanType, Places, PageNums, Slots, EOF
  <2>5. StmtOK'
    BY <2>1 DEF ScanInv, StmtOK, StmtType, RowType, Slots, EOF, Behind, DeletingOK, InsertingOK, SomeRoom, IsFull
  <2> QED BY <2>1, <2>2, <2>3, <2>4, <2>5 DEF ScanInv, PageNums, Calls!vars
<1> QED BY <1>1, <1>2, <1>3, <1>4, <1>5, <1>6 DEF ScanNext

LEMMA ScanStart == ScanInit => ScanInv /\ Calls!Init
<1> SUFFICES ASSUME ScanInit PROVE ScanInv /\ Calls!Init
  OBVIOUS
<1>1. /\ Init /\ stmt = NoStmt
      /\ scan = [page |-> 0, next |-> -1, limit |-> 0, rec |-> EOF, pinned |-> 0]
  BY DEF ScanInit
<1>2. pages = <<>> /\ pins = [p \in PageNums |-> 0]
  BY <1>1 DEF Init
<1>3. CallPins = [p \in PageNums |-> 0]
  <2>1. \A p \in PageNums : p # 0 /\ pins[p] = 0
    BY <1>2 DEF PageNums
  <2> QED BY <1>1, <2>1 DEF CallPins
<1>4. Calls!Init
  BY <1>1, <1>3 DEF Init, Calls!Init, PageNums, Calls!PageNums, Idle, Calls!Idle
<1>5. Calls!Inv
  BY <1>4, Calls!InitInv, RecordAssumption, LayoutAssumption DEF IsFiniteSet, Calls!IsFiniteSet
<1>6. Positioned(scan)
  <2>1. EOF \in Places /\ 0 \in 0 .. MaxPages
    BY RecordAssumption DEF Places
  <2>2. PICK e \in Places : e = EOF
    BY <2>1
  <2>3. scan \in ScanType /\ scan.rec = EOF /\ scan.next = -1 /\ scan.pinned = 0 /\ scan.limit = 0 /\ scan.page = 0
    BY <1>1, <2>1, <2>2 DEF ScanType
  <2> QED BY <1>2, <2>3 DEF Positioned
<1>7. StmtOK
  <2>1. <<0, 0, Blank>> \in RowType
    BY RecordAssumption DEF RowType, Slots
  <2>2. PICK r \in RowType : r = <<0, 0, Blank>>
    BY <2>1
  <2>3. stmt = [pc |-> "none", kind |-> "update", from |-> AnyRow, to |-> AnyRow, row |-> r]
    BY <1>1, <2>2 DEF NoStmt
  <2>4. stmt \in StmtType /\ stmt.pc = "none"
    BY <2>3 DEF StmtType
  <2> QED BY <1>1, <2>4 DEF StmtOK
<1>8. pins \in [PageNums -> Int]
  BY <1>2
<1> QED BY <1>4, <1>5, <1>6, <1>7, <1>8 DEF ScanInv

LEMMA ScanInvariant == ScanSpec => []ScanInv
BY ScanStart, ScanStep, PTL DEF ScanSpec

-----------------------------------------------------------------------------
(* What a statement does to the rows.                                      *)

\* The slots behind the record read ahead that the scanner will come to: from the
\* next one its iterator has found on, and the later pages.  A slot that is filled in
\* between is passed over.
Later(sc, p, s) == (p = sc.page /\ sc.next # -1 /\ s >= sc.next) \/ p \in sc.page + 1 .. sc.limit
Ahead(sc, p, s) == sc.rec # EOF /\ (<<p, s>> = sc.rec \/ Later(sc, p, s))

LEMMA ReadAtAhead ==
  ASSUME pages \in Seq(PageType), Len(pages) <= MaxPages,
         NEW sc \in ScanType, sc.limit <= Len(pages), NEW p \in 1 .. sc.limit, NEW s \in pages[p].bits,
         NEW z, z = ReadAt(sc, p, s), NEW k \in DOMAIN pages, NEW c \in pages[k].bits,
         (k = p /\ c >= s) \/ k \in p + 1 .. sc.limit
  PROVE  Ahead(z, k, c)
<1>1. Positioned(z) /\ z.limit = sc.limit /\ z.rec = <<p, s>>
  BY ReadAtPositions
<1>2. PICK n : n = NextSlot(p, s + 1)
  OBVIOUS
<1>3. z.page = p /\ z.next = n
  BY <1>2 DEF ReadAt, ScanType
<1>4. z.rec # EOF
  <2>1. p # 0
    BY DEF ScanType
  <2> QED BY <1>1, <2>1 DEF EOF
<1>5. CASE k = p /\ c = s
  BY <1>1, <1>4, <1>5 DEF Ahead
<1>6. CASE k = p /\ c # s
  <2>1. p \in DOMAIN pages /\ pages[p] \in PageType
    BY <1>6, PagesSized
  <2>2. pages[p].bits \subseteq Slots
    BY <2>1 DEF PageType
  <2>3. c > s
    <3>1. c \in Slots /\ s \in Slots /\ c >= s
      BY <1>6, <2>2 DEF ScanType
    <3> QED BY <1>6, <3>1, RecordAssumption DEF Slots
  <2>4. PICK used : used = pages[p].bits
    OBVIOUS
  <2>5. used \subseteq Slots /\ s \in used \cup {-1} /\ c \in used /\ n = SlotMap!NextSettedBit(used, s + 1)
    BY <1>2, <1>6, <2>2, <2>4 DEF NextSlot
  <2>6. n # -1 /\ n <= c
    BY ONLY <2>3, <2>5, SlotAfter
  <2>7. z.next # -1 /\ c >= z.next
    <3>1. z.next \in Int /\ c \in Int
      BY <1>1, <1>6, <2>2, RecordAssumption DEF Positioned, ScanType, Slots
    <3> QED BY <1>3, <2>6, <3>1
  <2> QED BY <1>3, <1>4, <1>6, <2>7 DEF Ahead, Later
<1>7. CASE k \in p + 1 .. sc.limit
  BY <1>1, <1>3, <1>4, <1>7 DEF Ahead, Later
<1> QED BY <1>5, <1>6, <1>7

\* fetch_next_record passes over no record that was to come.
LEMMA FetchAhead ==
  ASSUME pages \in Seq(PageType), Len(pages) <= MaxPages,
         NEW sc \in ScanType, sc.limit <= Len(pages), sc.page <= sc.limit,
         sc.next # -1 => sc.page \in DOMAIN pages /\ sc.next \in pages[sc.page].bits,
         NEW k \in DOMAIN pages, NEW c \in pages[k].bits, Later(sc, k, c),
         NEW z, z = FetchNextRecord(sc)
  PROVE  Ahead(z, k, c)
<1>0. sc.page \in Nat /\ sc.limit \in Nat /\ Len(pages) \in Nat /\ DOMAIN pages = 1 .. Len(pages)
  BY RecordAssumption DEF ScanType
<1>1. CASE sc.next # -1
  <2>1. z = ReadAt(sc, sc.page, sc.next)
    BY <1>1 DEF FetchNextRecord
  <2>2. sc.page \in 1 .. sc.limit /\ sc.next \in pages[sc.page].bits
    BY <1>0, <1>1
  <2>3. (k = sc.page /\ c >= sc.next) \/ k \in sc.page + 1 .. sc.limit
    BY DEF Later
  <2> QED BY <2>1, <2>2, <2>3, ReadAtAhead
<1>2. CASE sc.next = -1
  <2>1. PICK ahead : ahead = {p \in sc.page + 1 .. sc.limit : pages[p].bits # {}}
    OBVIOUS
  <2>2. k \in ahead
    BY <1>2, <2>1 DEF Later
  <2>3. PICK p : p = Min(ahead)
    OBVIOUS
  <2>4. p \in ahead /\ p <= k
    <3>1. ahead \subseteq Nat
      BY <1>0, <2>1
    <3>2. Maps!Min(ahead) \in ahead /\ \A j \in ahead : Maps!Min(ahead) <= j
      BY <2>2, <3>1, Maps!LeastOf
    <3> QED BY <2>2, <2>3, <3>2 DEF Maps!Min, Min
  <2>5. p \in 1 .. sc.limit /\ p \in DOMAIN pages /\ k \in sc.page + 1 .. sc.limit /\ p \in Nat
    BY <1>0, <2>1, <2>2, <2>4
  <2>6. pages[p].bits \subseteq Slots /\ pages[p].bits # {}
    BY <2>1, <2>4, <2>5, PagesSized DEF PageType
  <2>7. PICK s : s = NextSlot(p, 0)
    OBVIOUS
  <2>8. s \in pages[p].bits /\ \A j \in pages[p].bits : s <= j
    <3>1. PICK used, i : used = pages[p].bits /\ i = -1
      OBVIOUS
    <3>2. i + 1 = 0 /\ i \in used \cup {-1} /\ used \subseteq Slots
      BY <2>6, <3>1
    <3>3. s = SlotMap!NextSettedBit(used, i + 1)
      BY <2>7, <3>1, <3>2 DEF NextSlot
    <3>4. (s = -1 \/ (s \in used /\ s > i)) /\ (\A j \in used : j > i => s # -1 /\ s <= j)
      BY ONLY <3>2, <3>3, SlotAfter
    <3>5. \A j \in pages[p].bits : j > -1
      BY <2>6, RecordAssumption DEF Slots
    <3> QED BY <2>6, <3>1, <3>4, <3>5
  <2>9. z = ReadAt(sc, p, s)
    BY <1>2, <2>1, <2>2, <2>3, <2>7 DEF FetchNextRecord
  <2>10. (k = p /\ c >= s) \/ k \in p + 1 .. sc.limit
    <3>1. CASE k = p
      <4>1. s <= c /\ s \in Slots /\ c \in Slots
        BY <2>6, <2>8, <3>1
      <4> QED BY <3>1, <4>1, RecordAssumption DEF Slots
    <3>2. CASE k # p
      BY <1>0, <2>4, <2>5, <3>2
    <3> QED BY <3>1, <3>2
  <2> QED BY <2>5, <2>8, <2>9, <2>10, ReadAtAhead
<1> QED BY <1>1, <1>2

\* Rows are those that calls have promised, one to a slot.
LEMMA AckedFacts ==
  ASSUME ScanInv
  PROVE  /\ Stored = acked
         /\ \A r \in acked : /\ r = <<r[1], r[2], r[3]>> /\ r[1] \in DOMAIN pages
                             /\ r[2] \in pages[r[1]].bits /\ r[2] \in Slots /\ r[3] \in Values
                             /\ pages[r[1]].data[r[2]] = r[3]
         /\ \A r, q \in acked : r[1] = q[1] /\ r[2] = q[2] => r = q
<1>1. /\ acked \subseteq PageNums \X Slots \X Values /\ \A p \in DOMAIN pages : RecordsOK(p)
      /\ pages \in Seq(PageType) /\ Len(pages) <= MaxPages
  BY CallFacts DEF ScanInv
<1>2. \A r \in acked : r[1] \in DOMAIN pages
  BY DEF ScanInv, Calls!Inv, Calls!Types
<1>3. \A p \in DOMAIN pages : pages[p].bits \subseteq Slots
  BY <1>1, PagesSized DEF PageType
<1>4. ASSUME NEW r \in acked
      PROVE  /\ r = <<r[1], r[2], r[3]>> /\ r[1] \in DOMAIN pages /\ r[2] \in Slots /\ r[3] \in Values
             /\ r[2] \in pages[r[1]].bits /\ pages[r[1]].data[r[2]] = r[3]
  <2>1. r \in PageNums \X Slots \X Values /\ r[1] \in DOMAIN pages
    BY <1>1, <1>2
  <2>2. r = <<r[1], r[2], r[3]>> /\ r[2] \in Slots /\ r[3] \in Values
    BY <2>1
  <2>3. PICK p \in DOMAIN pages, s \in Slots, v \in Values : p = r[1] /\ s = r[2] /\ v = r[3] /\ r = <<p, s, v>>
    BY <2>1, <2>2
  <2>4. s \in pages[p].bits /\ pages[p].data[s] = v
    BY <1>1, <2>3 DEF RecordsOK
  <2> QED BY <2>1, <2>2, <2>3, <2>4
<1>5. ASSUME NEW r \in acked PROVE r \in Stored
  BY <1>4 DEF Stored
<1>6. ASSUME NEW r \in Stored PROVE r \in acked
  <2>1. PICK p \in DOMAIN pages : r \in {<<p, s, pages[p].data[s]>> : s \in pages[p].bits}
    BY DEF Stored
  <2>2. PICK s \in pages[p].bits : r = <<p, s, pages[p].data[s]>>
    BY <2>1
  <2> QED BY <1>1, <1>3, <2>2 DEF RecordsOK
<1>7. ASSUME NEW r \in acked, NEW q \in acked, r[1] = q[1], r[2] = q[2] PROVE r = q
  BY <1>4, <1>7
<1> QED BY <1>4, <1>5, <1>6, <1>7

\* The rows of a set that a statement selects, and those with a value.
Sel(A, from) == {r \in A : Selects(from, r[3])}
With(A, v) == {r \in A : r[3] = v}

Updates(v) == stmt.kind = "update" /\ v = stmt.to
Clearing == stmt.pc = "deleting" /\ th[Server].pc = "clear"
Storing == stmt.pc = "inserting" /\ th[Server].pc # "idle"
AtRow == stmt.pc = "row" \/ Clearing

\* A row was deleted whose successor is still to be inserted.
Pending == IF (stmt.pc = "deleting" /\ th[Server].pc # "clear") \/ Storing THEN 1 ELSE 0

\* The row the statement is at, and what its call carries.
RowOK ==
    /\ AtRow => stmt.row \in acked /\ Selects(stmt.from, stmt.row[3])
    /\ Clearing => th[Server].page = stmt.row[1] /\ th[Server].slot = stmt.row[2]
    /\ Storing => th[Server].val = stmt.to /\ stmt.kind = "update"

\* The other rows are as they were.
OthersOK == \A v \in Values : ~Selects(stmt.from, v) /\ ~Updates(v) =>
                Cardinality(With(acked, v)) = before.rows[v]

\* No row of an UPDATE is lost or made twice.
HitOK == stmt.kind = "update" =>
    IF Selects(stmt.from, stmt.to)
    THEN Cardinality(Sel(acked, stmt.from)) + Pending = before.hit
    ELSE Cardinality(Sel(acked, stmt.from)) + Pending + Cardinality(With(acked, stmt.to))
           = before.rows[stmt.to] + before.hit

\* What is still to be changed lies ahead of the scanner, or is the row at hand.
LeftOK == \A r \in acked : Selects(stmt.from, r[3]) /\ ~Updates(r[3]) =>
              Ahead(scan, r[1], r[2]) \/ (AtRow /\ r = stmt.row)

Effect ==
    /\ IsFiniteSet(acked)
    /\ stmt.pc = "none" => scan.page = 0 /\ scan.next = -1
    /\ stmt.pc # "none" => RowOK /\ OthersOK /\ HitOK /\ LeftOK

\* Counting rows.
LEMMA RowsCount ==
  ASSUME NEW A, IsFiniteSet(A), NEW from, NEW v
  PROVE  /\ IsFiniteSet(Sel(A, from)) /\ Cardinality(Sel(A, from)) \in Nat
         /\ IsFiniteSet(With(A, v)) /\ Cardinality(With(A, v)) \in Nat
<1>1. Sel(A, from) \subseteq A /\ With(A, v) \subseteq A
  BY DEF Sel, With
<1> QED BY <1>1, FS_Subset, FS_CardinalityType

LEMMA RowGone ==
  ASSUME NEW A, IsFiniteSet(A), NEW r \in A, NEW B, B = A \ {r}, NEW from, NEW v
  PROVE  /\ IsFiniteSet(B)
         /\ Cardinality(Sel(B, from)) = Cardinality(Sel(A, from)) - (IF Selects(from, r[3]) THEN 1 ELSE 0)
         /\ r[3] # v => With(B, v) = With(A, v)
<1>1. IsFiniteSet(B)
  BY FS_RemoveElement
<1>2. Sel(B, from) = Sel(A, from) \ {r} /\ (r \in Sel(A, from) <=> Selects(from, r[3]))
  BY DEF Sel
<1>3. r[3] # v => With(B, v) = With(A, v)
  BY DEF With
<1>4. IsFiniteSet(Sel(A, from)) /\ Cardinality(Sel(A, from)) \in Nat
  BY RowsCount
<1>5. Cardinality(Sel(A, from) \ {r})
        = IF r \in Sel(A, from) THEN Cardinality(Sel(A, from)) - 1 ELSE Cardinality(Sel(A, from))
  BY <1>4, FS_RemoveElement
<1> QED BY <1>1, <1>2, <1>3, <1>4, <1>5

LEMMA RowNew ==
  ASSUME NEW A, IsFiniteSet(A), NEW r, r \notin A, NEW B, B = A \cup {r}, NEW from, NEW v
  PROVE  /\ IsFiniteSet(B)
         /\ Cardinality(Sel(B, from)) = Cardinality(Sel(A, from)) + (IF Selects(from, r[3]) THEN 1 ELSE 0)
         /\ Cardinality(With(B, v)) = Cardinality(With(A, v)) + (IF r[3] = v THEN 1 ELSE 0)
<1>1. IsFiniteSet(B)
  BY FS_AddElement
<1>2. r \notin Sel(A, from) /\ r \notin With(A, v)
  BY DEF Sel, With
<1>3. Sel(B, from) = IF Selects(from, r[3]) THEN Sel(A, from) \cup {r} ELSE Sel(A, from)
  BY DEF Sel
<1>4. With(B, v) = IF r[3] = v THEN With(A, v) \cup {r} ELSE With(A, v)
  BY DEF With
<1>5. /\ Cardinality(Sel(A, from) \cup {r}) = Cardinality(Sel(A, from)) + 1
      /\ Cardinality(With(A, v) \cup {r}) = Cardinality(With(A, v)) + 1
  BY <1>2, RowsCount, FS_AddElement
<1>6. Cardinality(Sel(A, from)) \in Nat /\ Cardinality(With(A, v)) \in Nat
  BY RowsCount
<1> QED BY <1>1, <1>3, <1>4, <1>5, <1>6

\* Between statements the number of rows stays finite.
LEMMA NextFinite ==
  ASSUME IsFiniteSet(acked), Next
  PROVE  IsFiniteSet(acked')
<1>1. ASSUME NEW A, A \subseteq acked PROVE IsFiniteSet(A)
  BY <1>1, FS_Subset
<1>2. ASSUME NEW A, A \subseteq acked, NEW r PROVE IsFiniteSet(A \cup {r})
  BY <1>1, <1>2, FS_AddElement
<1>3. ASSUME NEW t \in Threads, Steps(t) PROVE IsFiniteSet(acked')
  <2>1. acked' = acked \/ (\E r : acked' = acked \cup {r}) \/ acked' \subseteq acked
    BY <1>3 DEF Steps, SkipFullPage, FindPage, NoFreePage, AllocatePage, AllocateFails, AddFreePage,
                CheckCapacity, PickSlot, StoreRecord, ClearSlot
  <2> QED BY <1>1, <1>2, <2>1
<1>4. ASSUME NEW p, NEW s, NEW v, RecoverInsertRecord(p, s, v) PROVE IsFiniteSet(acked')
  <2>1. acked' = {r \in acked : r[1] # p \/ r[2] # s} \cup {<<p, s, v>>}
    BY <1>4 DEF RecoverInsertRecord
  <2> QED BY <1>2, <2>1
<1>5. ASSUME NEW t, NEW v, InsertRecord(t, v) PROVE IsFiniteSet(acked')
  BY <1>5 DEF InsertRecord
<1>6. ASSUME NEW t, NEW r, DeleteRecord(t, r) PROVE IsFiniteSet(acked')
  BY <1>6 DEF DeleteRecord
<1> QED BY <1>3, <1>4, <1>5, <1>6 DEF Next

\* open: everything selected is ahead.
LEMMA OpenEffect ==
  ASSUME ScanInv, Effect, NEW kind \in {"delete", "update"}, NEW from \in Values \cup {AnyRow},
         NEW to \in Values \cup {AnyRow}, kind = "update" => to \in Values, OpenScan(kind, from, to)
  PROVE  Effect'
<1>1. /\ stmt.pc = "none" /\ UNCHANGED <<pages, acked>>
      /\ stmt' = [NoStmt EXCEPT !.pc = "next", !.kind = kind, !.from = from, !.to = to]
      /\ before' = [rows |-> [v \in Values |-> Rows(v)],
                    hit |-> Cardinality({r \in Stored : Selects(from, r[3])})]
      /\ scan' = FetchNextRecord([scan EXCEPT !.limit = Len(pages)])
  BY DEF OpenScan, MoveScan
<1>2. stmt'.pc = "next" /\ stmt'.kind = kind /\ stmt'.from = from /\ stmt'.to = to
  BY <1>1 DEF NoStmt
<1>3. IsFiniteSet(acked') /\ acked' = acked /\ Stored = acked
  BY <1>1, AckedFacts DEF Effect
<1>4. /\ \A v \in Values : before'.rows[v] = Cardinality(With(acked, v))
      /\ before'.hit = Cardinality(Sel(acked, from))
  BY <1>1, <1>3 DEF Rows, With, Sel
<1>5. ~AtRow' /\ ~Clearing' /\ ~Storing' /\ Pending' = 0
  BY <1>2 DEF AtRow, Clearing, Storing, Pending
<1>6. RowOK' /\ OthersOK'
  BY <1>2, <1>3, <1>4, <1>5 DEF RowOK, OthersOK, Updates
<1>7. HitOK'
  <2> SUFFICES ASSUME kind = "update"
               PROVE  IF Selects(from, to)
                      THEN Cardinality(Sel(acked, from)) + 0 = before'.hit
                      ELSE Cardinality(Sel(acked, from)) + 0 + Cardinality(With(acked, to))
                             = before'.rows[to] + before'.hit
    BY <1>2, <1>3, <1>5 DEF HitOK
  <2>1. Cardinality(Sel(acked, from)) \in Nat /\ Cardinality(With(acked, to)) \in Nat
    BY <1>3, RowsCount
  <2> QED BY <1>4, <2>1
<1>8. ASSUME NEW r \in acked PROVE Ahead(scan', r[1], r[2])
  <2>1. PICK sc : sc = [scan EXCEPT !.limit = Len(pages)]
    OBVIOUS
  <2>2. pages \in Seq(PageType) /\ Len(pages) <= MaxPages /\ Len(pages) \in 0 .. MaxPages
    <3>1. pages \in Seq(PageType) /\ Len(pages) <= MaxPages
      BY CallFacts DEF ScanInv
    <3> QED BY <3>1, RecordAssumption
  <2>3. scan \in ScanType /\ scan.page = 0 /\ scan.next = -1
    BY <1>1 DEF ScanInv, Positioned, Effect
  <2>4. sc \in ScanType /\ sc.limit = Len(pages) /\ sc.page = 0 /\ sc.next = -1
    BY <2>1, <2>2, <2>3 DEF ScanType
  <2>5. sc.page <= sc.limit /\ sc.limit <= Len(pages)
    BY <2>2, <2>4
  <2>6. r[1] \in DOMAIN pages /\ r[2] \in pages[r[1]].bits
    BY AckedFacts
  <2>7. Later(sc, r[1], r[2])
    BY <2>2, <2>4, <2>6 DEF Later
  <2>8. PICK k, c, z : k = r[1] /\ c = r[2] /\ z = FetchNextRecord(sc)
    OBVIOUS
  <2>9. Ahead(z, k, c)
    BY <2>2, <2>4, <2>5, <2>6, <2>7, <2>8, FetchAhead
  <2> QED BY <1>1, <2>1, <2>8, <2>9
<1>9. LeftOK'
  <2>1. \A r \in acked : Ahead(scan, r[1], r[2])'
    BY <1>8 DEF Ahead, Later, EOF
  <2> QED BY <1>3, <2>1 DEF LeftOK, Ahead, Later, EOF
<1> QED BY <1>2, <1>3, <1>6, <1>7, <1>9 DEF Effect

\* A record handed out is the row at hand, or is not selected.
LEMMA NextRowEffect ==
  ASSUME ScanInv, ScanInv', Effect, NextRow
  PROVE  Effect'
<1>1. /\ stmt.pc = "next" /\ scan.rec # EOF /\ UNCHANGED <<pages, acked, before>>
      /\ scan' = FetchNextRecord(scan)
  BY DEF NextRow, MoveScan
<1>2. PICK p, s, v : p = scan.rec[1] /\ s = scan.rec[2] /\ v = pages[p].data[s]
  OBVIOUS
<1>3. PICK c \in {"row", "next"} : /\ c = "row" <=> Selects(stmt.from, v)
                                   /\ stmt' = [stmt EXCEPT !.row = <<p, s, v>>, !.pc = c]
  BY <1>2 DEF NextRow
<1>4. /\ stmt'.pc = c /\ stmt'.row = <<p, s, v>> /\ stmt'.kind = stmt.kind /\ stmt'.from = stmt.from
      /\ stmt'.to = stmt.to
  <2>1. stmt \in StmtType
    BY DEF ScanInv, StmtOK
  <2> QED BY <1>3, <2>1 DEF StmtType
<1>5. /\ ~AtRow /\ Pending = 0 /\ Pending' = 0 /\ ~Clearing' /\ ~Storing'
      /\ AtRow' <=> Selects(stmt.from, v)
  BY <1>1, <1>3, <1>4 DEF AtRow, Clearing, Storing, Pending
<1>6. RowOK /\ OthersOK /\ HitOK /\ LeftOK /\ IsFiniteSet(acked)
  BY <1>1 DEF Effect
<1>7. RowOK'
  <2>1. c = "row" => stmt'.row \in acked'
    BY <1>4 DEF ScanInv, StmtOK
  <2>2. stmt'.row[3] = v
    BY <1>4
  <2> QED BY <1>3, <1>4, <1>5, <2>1, <2>2 DEF RowOK
<1>8. OthersOK' /\ HitOK'
  BY <1>1, <1>4, <1>5, <1>6 DEF OthersOK, HitOK, Updates
<1>9. ASSUME NEW r \in acked, Selects(stmt.from, r[3]), ~Updates(r[3])
      PROVE  Ahead(scan', r[1], r[2]) \/ (AtRow' /\ r = stmt'.row)
  <2>1. /\ r = <<r[1], r[2], r[3]>> /\ r[1] \in DOMAIN pages /\ r[2] \in pages[r[1]].bits
        /\ pages[r[1]].data[r[2]] = r[3]
    BY AckedFacts
  <2>2. Ahead(scan, r[1], r[2])
    BY <1>5, <1>6, <1>9 DEF LeftOK
  <2>3. CASE <<r[1], r[2]>> = scan.rec
    <3>1. r[1] = p /\ r[2] = s
      BY <1>2, <2>3
    <3>2. r[3] = v
      BY <1>2, <2>1, <3>1
    <3> QED BY <1>4, <1>5, <1>9, <2>1, <3>1, <3>2
  <2>4. CASE Later(scan, r[1], r[2])
    <3>1. /\ scan \in ScanType /\ scan.limit <= Len(pages) /\ scan.page <= scan.limit
          /\ scan.next # -1 => scan.page \in DOMAIN pages /\ scan.next \in pages[scan.page].bits
      BY <1>1 DEF ScanInv, Positioned
    <3>2. pages \in Seq(PageType) /\ Len(pages) <= MaxPages
      BY CallFacts DEF ScanInv
    <3>3. PICK k, d, z : k = r[1] /\ d = r[2] /\ z = FetchNextRecord(scan)
      OBVIOUS
    <3>4. Ahead(z, k, d)
      BY <2>1, <2>4, <3>1, <3>2, <3>3, FetchAhead
    <3> QED BY <1>1, <3>3, <3>4
  <2> QED BY <2>2, <2>3, <2>4 DEF Ahead
<1>10. LeftOK'
  <2>1. \A r \in acked : Selects(stmt.from, r[3]) /\ ~Updates(r[3]) =>
            Ahead(scan, r[1], r[2])' \/ (AtRow' /\ r = stmt'.row)
    BY <1>9 DEF Ahead, Later, EOF
  <2> QED BY <1>1, <1>4, <2>1 DEF LeftOK, Updates, Ahead, Later, EOF
<1> QED BY <1>1, <1>3, <1>4, <1>6, <1>7, <1>8, <1>10 DEF Effect

\* A step that changes no row.
LEMMA SameEffect ==
  ASSUME Effect, stmt.pc # "none", stmt'.pc # "none", UNCHANGED <<acked, scan, before>>,
         stmt'.kind = stmt.kind, stmt'.from = stmt.from, stmt'.to = stmt.to,
         stmt.kind = "update" => Pending' = Pending, RowOK', AtRow => AtRow' /\ stmt'.row = stmt.row
  PROVE  Effect'
<1>1. OthersOK /\ HitOK /\ LeftOK /\ IsFiniteSet(acked)
  BY DEF Effect
<1>2. OthersOK' /\ HitOK'
  BY <1>1 DEF OthersOK, HitOK, Updates
<1>3. LeftOK'
  BY <1>1 DEF LeftOK, Updates, Ahead, Later, EOF
<1> QED BY <1>1, <1>2, <1>3 DEF Effect

LEMMA OperatorEffect ==
  ASSUME ScanInv, ScanInv', Effect, Operator
  PROVE  Effect'
<1>0. StmtOK /\ stmt \in StmtType /\ stmt.pc # "none"
  BY DEF ScanInv, StmtOK, Operator, NextRow, DeleteRow, RowDeleted, InsertRow, RowInserted, CloseScan
<1>1. RowOK
  BY <1>0 DEF Effect
<1>2. ASSUME NEW c \in {"next", "failed", "deleting", "inserting", "done"}, stmt' = [stmt EXCEPT !.pc = c]
      PROVE  /\ stmt'.pc = c /\ stmt'.row = stmt.row /\ stmt'.kind = stmt.kind
             /\ stmt'.from = stmt.from /\ stmt'.to = stmt.to
  BY <1>0, <1>2 DEF StmtType
<1>3. CASE NextRow
  BY <1>3, NextRowEffect
<1>4. CASE DeleteRow
  <2>1. stmt.pc = "row" /\ UNCHANGED <<scan, before, acked>> /\ stmt' = [stmt EXCEPT !.pc = "deleting"]
    BY <1>4 DEF DeleteRow, DeleteRecord
  <2>2. /\ stmt'.pc = "deleting" /\ stmt'.row = stmt.row /\ stmt'.kind = stmt.kind
        /\ stmt'.from = stmt.from /\ stmt'.to = stmt.to
    BY <1>2, <2>1
  <2>3. th'[Server].pc = "clear" /\ th'[Server].page = stmt.row[1] /\ th'[Server].slot = stmt.row[2]
    BY <1>4, DeleteRowKeeps
  <2>4. Clearing' /\ AtRow' /\ AtRow /\ ~Storing' /\ Pending' = 0 /\ Pending = 0
    BY <2>1, <2>2, <2>3 DEF Clearing, AtRow, Storing, Pending
  <2>5. RowOK'
    BY <1>1, <2>1, <2>2, <2>3, <2>4 DEF RowOK
  <2> QED BY <1>0, <2>1, <2>2, <2>4, <2>5, SameEffect
<1>5. CASE RowDeleted
  <2>1. /\ stmt.pc = "deleting" /\ stmt.kind = "delete" /\ th[Server].pc = "idle"
        /\ UNCHANGED <<scan, before, acked>>
    BY <1>5 DEF RowDeleted, At, vars
  <2>2. PICK c \in {"next", "failed"} : stmt' = [stmt EXCEPT !.pc = c]
    BY <1>5 DEF RowDeleted
  <2>3. stmt'.pc = c /\ stmt'.kind = stmt.kind /\ stmt'.from = stmt.from /\ stmt'.to = stmt.to
    BY <1>2, <2>2
  <2>4. ~AtRow /\ ~AtRow' /\ ~Clearing' /\ ~Storing'
    BY <2>1, <2>3 DEF AtRow, Clearing, Storing
  <2>5. RowOK'
    BY <2>4 DEF RowOK
  <2> QED BY <1>0, <2>1, <2>3, <2>4, <2>5, SameEffect
<1>6. CASE InsertRow
  <2>1. /\ stmt.pc = "deleting" /\ th[Server].pc = "idle" /\ UNCHANGED <<scan, before, acked>>
        /\ stmt.kind = "update" /\ stmt' = [stmt EXCEPT !.pc = "inserting"]
        /\ th' = [th EXCEPT ![Server] = [Idle(stmt.to) EXCEPT !.pc = "find"]]
    BY <1>6 DEF InsertRow, InsertRecord, At
  <2>2. stmt'.pc = "inserting" /\ stmt'.kind = stmt.kind /\ stmt'.from = stmt.from /\ stmt'.to = stmt.to
    BY <1>2, <2>1
  <2>3. th'[Server].pc = "find" /\ th'[Server].val = stmt.to
    <3>1. th \in [Threads -> ThreadType]
      BY CallFacts DEF ScanInv
    <3>2. th'[Server] = [Idle(stmt.to) EXCEPT !.pc = "find"]
      BY <2>1, <3>1, ServerOnly
    <3> QED BY <3>2 DEF Idle
  <2>4. ~AtRow /\ ~AtRow' /\ ~Clearing' /\ Pending = 1 /\ Pending' = 1
    BY <2>1, <2>2, <2>3 DEF AtRow, Clearing, Storing, Pending
  <2>5. RowOK'
    BY <2>1, <2>2, <2>3, <2>4 DEF RowOK
  <2> QED BY <1>0, <2>1, <2>2, <2>4, <2>5, SameEffect
<1>7. CASE RowInserted \/ CloseScan
  <2>1. /\ stmt.pc = "next" \/ (stmt.pc = "inserting" /\ th[Server].pc = "idle")
        /\ UNCHANGED <<scan, before, acked>>
    BY <1>7 DEF RowInserted, CloseScan, At, vars
  <2>2. PICK c \in {"next", "failed", "done"} : stmt' = [stmt EXCEPT !.pc = c]
    BY <1>7 DEF RowInserted, CloseScan
  <2>3. stmt'.pc = c /\ stmt'.kind = stmt.kind /\ stmt'.from = stmt.from /\ stmt'.to = stmt.to
    BY <1>2, <2>2
  <2>4. ~AtRow /\ ~AtRow' /\ ~Clearing' /\ ~Storing' /\ Pending = 0 /\ Pending' = 0
    BY <2>1, <2>3 DEF AtRow, Clearing, Storing, Pending
  <2>5. RowOK'
    BY <2>4 DEF RowOK
  <2> QED BY <1>0, <2>1, <2>3, <2>4, <2>5, SameEffect
<1> QED BY <1>3, <1>4, <1>5, <1>6, <1>7 DEF Operator

\* The slot of the row at hand is cleared: the row is gone, and an UPDATE owes one.
LEMMA ClearEffect ==
  ASSUME ScanInv, ScanInv', Effect, stmt.pc = "deleting", th[Server].pc = "clear", ClearSlot(Server),
         UNCHANGED <<scan, stmt, before>>
  PROVE  Effect'
<1>1. Clearing /\ AtRow /\ ~Storing /\ Pending = 0
  BY DEF Clearing, AtRow, Storing, Pending
<1>2. RowOK /\ OthersOK /\ HitOK /\ LeftOK /\ IsFiniteSet(acked)
  BY DEF Effect
<1>3. PICK row : row = stmt.row
  OBVIOUS
<1>4. row \in acked /\ Selects(stmt.from, row[3]) /\ th[Server].page = row[1] /\ th[Server].slot = row[2]
  BY <1>1, <1>2, <1>3 DEF RowOK
<1>5. acked' = {r \in acked : r[1] # row[1] \/ r[2] # row[2]} /\ Goto(Server, "add_deleted")
  BY <1>4 DEF ClearSlot
<1>6. acked' = acked \ {row}
  BY <1>4, <1>5, AckedFacts
<1>7. th'[Server].pc = "add_deleted"
  <2>1. th \in [Threads -> ThreadType]
    BY CallFacts DEF ScanInv
  <2> QED BY <1>5, <2>1, ThreadAfter
<1>8. ~Clearing' /\ ~AtRow' /\ ~Storing' /\ Pending' = 1
  BY <1>7 DEF Clearing, AtRow, Storing, Pending
<1>9. /\ IsFiniteSet(acked')
      /\ Cardinality(Sel(acked', stmt.from)) = Cardinality(Sel(acked, stmt.from)) - 1
      /\ \A v \in Values : ~Selects(stmt.from, v) => With(acked', v) = With(acked, v)
  <2>1. PICK A, B, from : A = acked /\ B = acked' /\ from = stmt.from
    OBVIOUS
  <2>2. IsFiniteSet(A) /\ row \in A /\ B = A \ {row} /\ Selects(from, row[3])
    BY <1>2, <1>4, <1>6, <2>1
  <2>3. ASSUME NEW v \in Values
        PROVE  /\ IsFiniteSet(B) /\ Cardinality(Sel(B, from)) = Cardinality(Sel(A, from)) - 1
               /\ ~Selects(from, v) => With(B, v) = With(A, v)
    <3>1. /\ IsFiniteSet(B)
          /\ Cardinality(Sel(B, from)) = Cardinality(Sel(A, from)) - (IF Selects(from, row[3]) THEN 1 ELSE 0)
          /\ row[3] # v => With(B, v) = With(A, v)
      BY <2>2, RowGone
    <3> QED BY <2>2, <3>1
  <2>4. row[3] \in Values
    BY <1>4, AckedFacts
  <2> QED BY <2>1, <2>3, <2>4
<1>10. RowOK'
  BY <1>8 DEF RowOK
<1>11. OthersOK'
  BY <1>2, <1>9 DEF OthersOK, Updates
<1>12. HitOK'
  <2> SUFFICES ASSUME stmt.kind = "update"
               PROVE  IF Selects(stmt.from, stmt.to)
                      THEN Cardinality(Sel(acked', stmt.from)) + 1 = before.hit
                      ELSE Cardinality(Sel(acked', stmt.from)) + 1 + Cardinality(With(acked', stmt.to))
                             = before.rows[stmt.to] + before.hit
    BY <1>8 DEF HitOK
  <2>1. stmt.to \in Values
    BY DEF ScanInv, StmtOK
  <2>2. Cardinality(Sel(acked, stmt.from)) \in Nat /\ Cardinality(With(acked, stmt.to)) \in Nat
    BY <1>2, RowsCount
  <2>3. IF Selects(stmt.from, stmt.to)
        THEN Cardinality(Sel(acked, stmt.from)) + 0 = before.hit
        ELSE Cardinality(Sel(acked, stmt.from)) + 0 + Cardinality(With(acked, stmt.to))
               = before.rows[stmt.to] + before.hit
    BY <1>1, <1>2 DEF HitOK
  <2> QED BY <1>9, <2>1, <2>2, <2>3
<1>13. LeftOK'
  <2>1. \A r \in acked : Selects(stmt.from, r[3]) /\ ~Updates(r[3]) =>
            Ahead(scan, r[1], r[2]) \/ r = row
    BY <1>2, <1>3 DEF LeftOK
  <2>2. \A r \in acked' : r \in acked /\ r # row
    BY <1>6
  <2>3. \A r \in acked' : Selects(stmt.from, r[3]) /\ ~Updates(r[3]) => Ahead(scan, r[1], r[2])
    BY <2>1, <2>2
  <2> QED BY <2>3 DEF LeftOK, Updates, Ahead, Later, EOF
<1> QED BY <1>9, <1>10, <1>11, <1>12, <1>13 DEF Effect

\* The new row of an UPDATE is stored in a slot that was free.
LEMMA StoreEffect ==
  ASSUME ScanInv, ScanInv', Effect, stmt.pc = "inserting", th[Server].pc = "store", StoreRecord(Server),
         UNCHANGED <<scan, stmt, before>>
  PROVE  Effect'
<1>1. ~Clearing /\ ~AtRow /\ Storing /\ Pending = 1
  BY DEF Clearing, AtRow, Storing, Pending
<1>2. RowOK /\ OthersOK /\ HitOK /\ LeftOK /\ IsFiniteSet(acked)
  BY DEF Effect
<1>3. PICK row : row = <<th[Server].page, th[Server].slot, stmt.to>>
  OBVIOUS
<1>4. acked' = acked \cup {row} /\ Return(Server, "SUCCESS") /\ row[3] = stmt.to
  BY <1>1, <1>2, <1>3 DEF StoreRecord, RowOK
<1>5. row \notin acked
  <2>1. th[Server].slot \notin pages[th[Server].page].bits
    BY CallFacts DEF ScanInv, LocalsOK
  <2> QED BY <1>3, <2>1, AckedFacts
<1>6. th \in [Threads -> ThreadType] /\ CallOK(Server)
  BY CallFacts DEF ScanInv
<1>7. th'[Server].pc = "idle"
  BY <1>4, <1>6, ThreadAfter
<1>8. ~Clearing' /\ ~AtRow' /\ ~Storing' /\ Pending' = 0
  BY <1>7 DEF Clearing, AtRow, Storing, Pending
<1>to. stmt.to \in Values
  BY <1>1, <1>2, <1>6 DEF RowOK, CallOK, Inserting
<1>9. /\ IsFiniteSet(acked')
      /\ Cardinality(Sel(acked', stmt.from))
           = Cardinality(Sel(acked, stmt.from)) + (IF Selects(stmt.from, stmt.to) THEN 1 ELSE 0)
      /\ \A v \in Values : Cardinality(With(acked', v))
                             = Cardinality(With(acked, v)) + (IF stmt.to = v THEN 1 ELSE 0)
  <2>1. PICK A, B, from, to : A = acked /\ B = acked' /\ from = stmt.from /\ to = stmt.to
    OBVIOUS
  <2>2. IsFiniteSet(A) /\ row \notin A /\ B = A \cup {row} /\ row[3] = to
    BY <1>2, <1>4, <1>5, <2>1
  <2>3. ASSUME NEW v \in Values
        PROVE  /\ IsFiniteSet(B)
               /\ Cardinality(Sel(B, from)) = Cardinality(Sel(A, from)) + (IF Selects(from, to) THEN 1 ELSE 0)
               /\ Cardinality(With(B, v)) = Cardinality(With(A, v)) + (IF to = v THEN 1 ELSE 0)
    BY <2>2, RowNew
  <2> QED BY <1>to, <2>1, <2>3
<1>counts. /\ Cardinality(Sel(acked, stmt.from)) \in Nat
           /\ \A v \in Values : Cardinality(With(acked, v)) \in Nat
  BY <1>2, RowsCount
<1>10. RowOK'
  BY <1>8 DEF RowOK
<1>kind. stmt.kind = "update"
  BY <1>1, <1>2 DEF RowOK
<1>11. OthersOK'
  <2>1. \A v \in Values : v # stmt.to => Cardinality(With(acked', v)) = Cardinality(With(acked, v))
    BY <1>9, <1>counts
  <2>2. \A v \in Values : ~Updates(v) => v # stmt.to
    BY <1>kind DEF Updates
  <2> QED BY <1>2, <2>1, <2>2 DEF OthersOK, Updates
<1>12. HitOK'
  <2> SUFFICES IF Selects(stmt.from, stmt.to)
               THEN Cardinality(Sel(acked', stmt.from)) + 0 = before.hit
               ELSE Cardinality(Sel(acked', stmt.from)) + 0 + Cardinality(With(acked', stmt.to))
                      = before.rows[stmt.to] + before.hit
    BY <1>8 DEF HitOK
  <2>1. IF Selects(stmt.from, stmt.to)
        THEN Cardinality(Sel(acked, stmt.from)) + 1 = before.hit
        ELSE Cardinality(Sel(acked, stmt.from)) + 1 + Cardinality(With(acked, stmt.to))
               = before.rows[stmt.to] + before.hit
    BY <1>1, <1>2, <1>kind DEF HitOK
  <2> QED BY <1>9, <1>to, <1>counts, <2>1
<1>13. LeftOK'
  <2>1. \A r \in acked : Selects(stmt.from, r[3]) /\ ~Updates(r[3]) => Ahead(scan, r[1], r[2])
    BY <1>1, <1>2 DEF LeftOK
  <2>2. \A r \in acked' : r \in acked \/ Updates(r[3])
    BY <1>4, <1>kind DEF Updates
  <2>3. \A r \in acked' : Selects(stmt.from, r[3]) /\ ~Updates(r[3]) => Ahead(scan, r[1], r[2])
    BY <2>1, <2>2
  <2> QED BY <2>3 DEF LeftOK, Updates, Ahead, Later, EOF
<1> QED BY <1>9, <1>10, <1>11, <1>12, <1>13 DEF Effect

\* The other steps of a call leave the rows alone.
LEMMA CallEffect ==
  ASSUME ScanInv, ScanInv', Effect, stmt.pc # "none", Steps(Server), UNCHANGED scanVars
  PROVE  Effect'
<1>1. UNCHANGED <<scan, stmt, before>>
  BY DEF scanVars
<1>2. StmtOK /\ StmtOK' /\ th \in [Threads -> ThreadType]
  BY CallFacts DEF ScanInv
<1>3. th[Server].pc # "idle"
  BY DEF Steps, At, SkipFullPage, FindPage, NoFreePage, AllocatePage, AllocateFails, AddFreePage,
         CheckCapacity, PickSlot, StoreRecord, ClearSlot
<1>4. stmt.pc \in {"deleting", "inserting"}
  BY <1>2, <1>3 DEF StmtOK, StmtType
<1>5. CASE stmt.pc = "deleting" /\ th[Server].pc = "clear"
  <2>1. ClearSlot(Server)
    BY <1>5 DEF Steps, At, SkipFullPage, FindPage, NoFreePage, AllocatePage, AllocateFails, AddFreePage,
                CheckCapacity, PickSlot, StoreRecord
  <2> QED BY <1>1, <1>5, <2>1, ClearEffect
<1>6. CASE stmt.pc = "deleting" /\ th[Server].pc # "clear"
  <2>1. th[Server].pc = "add_deleted"
    BY <1>2, <1>3, <1>6 DEF StmtOK, DeletingOK
  <2>2. UNCHANGED acked /\ Return(Server, "SUCCESS")
    BY <2>1 DEF Steps, At, SkipFullPage, FindPage, NoFreePage, AllocatePage, AllocateFails, AddFreePage,
                CheckCapacity, PickSlot, StoreRecord, ClearSlot
  <2>3. th'[Server].pc = "idle"
    BY <1>2, <2>2, ThreadAfter
  <2>4. ~AtRow /\ ~AtRow' /\ ~Clearing' /\ ~Storing' /\ Pending = 1 /\ Pending' = 1
    BY <1>1, <1>6, <2>3 DEF AtRow, Clearing, Storing, Pending
  <2>5. RowOK'
    BY <2>4 DEF RowOK
  <2> QED BY <1>1, <2>2, <2>4, <2>5, SameEffect
<1>7. CASE stmt.pc = "inserting" /\ th[Server].pc = "store"
  <2>1. StoreRecord(Server)
    BY <1>7 DEF Steps, At, SkipFullPage, FindPage, NoFreePage, AllocatePage, AllocateFails, AddFreePage,
                CheckCapacity, PickSlot, ClearSlot
  <2> QED BY <1>1, <1>7, <2>1, StoreEffect
<1>8. CASE stmt.pc = "inserting" /\ th[Server].pc # "store"
  <2>1. th[Server].pc \in {"find", "check", "pick"} /\ InsertingOK(th[Server])'
    BY <1>1, <1>2, <1>3, <1>8 DEF StmtOK, InsertingOK
  <2>2. UNCHANGED acked
    BY <2>1 DEF Steps, At, SkipFullPage, FindPage, NoFreePage, AllocatePage, AllocateFails, AddFreePage,
                CheckCapacity, PickSlot, StoreRecord, ClearSlot
  <2>3. th' = th \/ (\E p : th' = [th EXCEPT ![Server].pc = "check", ![Server].page = p])
        \/ (\E pc : Goto(Server, pc) /\ pc \in {"allocate", "pick", "wild"}) \/ Return(Server, "RECORD_NOMEM")
        \/ (\E s, b, n : th' = [th EXCEPT ![Server].pc = "store", ![Server].slot = s,
                                         ![Server].bits = b, ![Server].num = n])
    BY <2>1 DEF Steps, At, SkipFullPage, FindPage, NoFreePage, AllocatePage, AllocateFails, AddFreePage,
                CheckCapacity, PickSlot, StoreRecord, ClearSlot
  <2>4. th'[Server].pc # "idle" /\ th'[Server].val = th[Server].val
    <3>0. th[Server] \in ThreadType
      BY <1>2, ServerOnly
    <3>1. CASE th' = th
      BY <1>3, <3>1
    <3>2. ASSUME NEW p, th' = [th EXCEPT ![Server].pc = "check", ![Server].page = p]
          PROVE  th'[Server].pc # "idle" /\ th'[Server].val = th[Server].val
      <4>1. th'[Server] = [th[Server] EXCEPT !.pc = "check", !.page = p]
        BY <1>2, <3>2, ServerOnly
      <4> QED BY <3>0, <4>1 DEF ThreadType
    <3>3. ASSUME NEW pc \in {"allocate", "pick", "wild"}, Goto(Server, pc)
          PROVE  th'[Server].pc # "idle" /\ th'[Server].val = th[Server].val
      <4>1. th'[Server] = [th[Server] EXCEPT !.pc = pc]
        BY <1>2, <3>3, ServerOnly DEF Goto
      <4> QED BY <3>0, <4>1 DEF ThreadType
    <3>4. CASE Return(Server, "RECORD_NOMEM")
      <4>1. th'[Server].pc = "idle" /\ th'[Server].rc = "RECORD_NOMEM"
        BY <1>2, <3>4, ThreadAfter
      <4> QED BY <2>1, <4>1 DEF InsertingOK
    <3>5. ASSUME NEW s, NEW b, NEW n, th' = [th EXCEPT ![Server].pc = "store", ![Server].slot = s,
                                                      ![Server].bits = b, ![Server].num = n]
          PROVE  th'[Server].pc # "idle" /\ th'[Server].val = th[Server].val
      <4>1. th'[Server] = [th[Server] EXCEPT !.pc = "store", !.slot = s, !.bits = b, !.num = n]
        BY <1>2, <3>5, ServerOnly
      <4> QED BY <3>0, <4>1 DEF ThreadType
    <3> QED BY <2>3, <3>1, <3>2, <3>3, <3>4, <3>5
  <2>5. ~AtRow /\ ~AtRow' /\ ~Clearing' /\ Storing /\ Storing' /\ Pending = 1 /\ Pending' = 1
    BY <1>1, <1>3, <1>8, <2>4 DEF AtRow, Clearing, Storing, Pending
  <2>6. RowOK'
    <3>1. th[Server].val = stmt.to /\ stmt.kind = "update"
      BY <2>5 DEF Effect, RowOK
    <3> QED BY <1>1, <2>4, <2>5, <3>1 DEF RowOK
  <2> QED BY <1>1, <2>2, <2>5, <2>6, SameEffect
<1> QED BY <1>4, <1>5, <1>6, <1>7, <1>8

LEMMA EffectStep == ScanInv /\ ScanInv' /\ Effect /\ [ScanNext]_allVars => Effect'
<1> SUFFICES ASSUME ScanInv, ScanInv', Effect, [ScanNext]_allVars PROVE Effect'
  OBVIOUS
<1>1. CASE stmt.pc = "none" /\ Next /\ UNCHANGED scanVars
  <2>1. IsFiniteSet(acked')
    BY <1>1, NextFinite DEF Effect
  <2>2. stmt' = stmt /\ scan' = scan /\ stmt.pc = "none"
    BY <1>1 DEF scanVars
  <2> QED BY <2>1, <2>2 DEF Effect
<1>2. ASSUME NEW from \in Values \cup {AnyRow}, OpenScan("delete", from, AnyRow) PROVE Effect'
  BY <1>2, OpenEffect
<1>3. ASSUME NEW from \in Values \cup {AnyRow}, NEW to \in Values, OpenScan("update", from, to) PROVE Effect'
  BY <1>3, OpenEffect
<1>4. CASE Operator
  BY <1>4, OperatorEffect
<1>5. CASE stmt.pc # "none" /\ Call
  BY <1>5, CallEffect DEF Call
<1>6. CASE UNCHANGED allVars
  <2>1. UNCHANGED <<th, acked, scan, stmt, before>>
    BY <1>6 DEF allVars, vars, scanVars
  <2>2. CASE stmt.pc = "none"
    BY <2>1, <2>2 DEF Effect
  <2>3. CASE stmt.pc # "none"
    <3>1. Pending' = Pending /\ (AtRow => AtRow') /\ RowOK
      BY <2>1, <2>3 DEF Pending, AtRow, Clearing, Storing, Effect
    <3>2. RowOK'
      BY <2>1, <3>1 DEF RowOK, AtRow, Clearing, Storing
    <3> QED BY <2>1, <2>3, <3>1, <3>2, SameEffect
  <2> QED BY <2>2, <2>3
<1> QED BY <1>1, <1>2, <1>3, <1>4, <1>5, <1>6 DEF ScanNext

LEMMA EffectInvariant == ScanSpec => []Effect
<1>1. ScanInit => Effect
  <2> SUFFICES ASSUME ScanInit PROVE Effect
    OBVIOUS
  <2>1. acked = {} /\ stmt.pc = "none" /\ scan.page = 0 /\ scan.next = -1
    BY DEF ScanInit, Init, NoStmt
  <2> QED BY <2>1, FS_EmptySet DEF Effect
<1> QED BY <1>1, EffectStep, ScanInvariant, PTL DEF ScanSpec

-----------------------------------------------------------------------------
(* Theorems.                                                               *)

\* A statement does to the table nothing but what calls of insert_record and
\* delete_record do, made one after another: with the pin of the scanner's handler
\* taken out, its steps are the record manager's.
THEOREM StatementIsCalls == ScanSpec => Calls!Spec
BY ScanStart, ScanStep, ScanInvariant, PTL DEF ScanSpec, Calls!Spec

\* No row of a DELETE or an UPDATE fails: the row the scanner hands out is still
\* there when delete_record is called on it, the new row of an UPDATE always finds a
\* slot, and the scanner has given back its pin when the statement is done.
THEOREM StatementsEnd == ScanSpec => []StatementEnds
<1>1. ScanInv => StatementEnds
  <2> SUFFICES ASSUME ScanInv PROVE StatementEnds
    OBVIOUS
  <2>1. stmt.pc # "failed"
    BY DEF ScanInv, StmtOK, StmtType
  <2>2. ASSUME stmt.pc = "done", NEW p \in PageNums PROVE pins[p] = 0
    <3>1. scan.rec = EOF /\ th[Server].pc = "idle" /\ scan.pinned = 0
      BY <2>2 DEF ScanInv, StmtOK, Positioned
    <3>2. ~Using(th[Server], p) /\ p # 0
      BY <3>1 DEF Using, PageNums
    <3>3. CallPins[p] = 0
      BY <3>2, CallFacts DEF ScanInv
    <3> QED BY <3>1, <3>2, <3>3 DEF CallPins, ScanInv
  <2> QED BY <2>1, <2>2 DEF StatementEnds
<1> QED BY <1>1, ScanInvariant, PTL

\* Every fetch_next_record of a statement goes forward, within the pages that were
\* there when its scan was opened, although its own inserts and deletes change the
\* bitmaps the scanner walks.
THEOREM FetchAdvances == ScanSpec => ScanAdvances
<1>1. ASSUME ScanInv, [ScanNext]_allVars, stmt.pc # "none", scan' # scan
      PROVE  /\ scan'.limit = scan.limit /\ scan'.rec[1] <= scan.limit
             /\ \/ scan'.rec = EOF
                \/ scan'.rec[1] > scan.rec[1]
                \/ scan'.rec[1] = scan.rec[1] /\ scan'.rec[2] > scan.rec[2]
  <2>1. NextRow
    BY <1>1 DEF ScanNext, allVars, scanVars, OpenScan, Operator, DeleteRow, RowDeleted, InsertRow, RowInserted,
                CloseScan, Call
  <2>2. /\ scan'.limit = scan.limit
        /\ \/ scan'.rec = EOF
           \/ scan'.rec[1] > scan.rec[1] /\ scan'.rec[1] <= scan.limit
           \/ scan'.rec[1] = scan.rec[1] /\ scan'.rec[2] > scan.rec[2] /\ scan'.rec[1] <= scan.limit
    BY <1>1, <2>1, NextRowKeeps
  <2>3. 0 <= scan.limit
    BY <1>1 DEF ScanInv, Positioned, ScanType
  <2> QED BY <2>2, <2>3 DEF EOF
<1> QED BY <1>1, ScanInvariant, PTL DEF ScanSpec, ScanAdvances

\* When a statement is done, no row its predicate selects is left but those an UPDATE
\* wrote, which are as many as it found; every other row is still there, and no row
\* more: for every table layout, number of pages and capacity of a page.
THEOREM StatementActs == ScanSpec => []StatementEffect
<1>1. ASSUME ScanInv, Effect PROVE StatementEffect
  <2> SUFFICES ASSUME stmt.pc = "done", NEW v \in Values
               PROVE  Rows(v) = (IF Selects(stmt.from, v) THEN 0 ELSE before.rows[v])
                                + (IF Updates(v) THEN before.hit ELSE 0)
    BY DEF StatementEffect, Updates
  <2>1. OthersOK /\ HitOK /\ LeftOK /\ IsFiniteSet(acked) /\ scan.rec = EOF
    BY <1>1 DEF Effect, ScanInv, StmtOK
  <2>2. ~AtRow /\ Pending = 0
    BY DEF AtRow, Clearing, Storing, Pending
  <2>3. Rows(v) = Cardinality(With(acked, v))
    BY <1>1, AckedFacts DEF Rows, With
  <2>4. \A r \in acked : Selects(stmt.from, r[3]) => Updates(r[3])
    BY <2>1, <2>2 DEF LeftOK, Ahead
  <2>5. Cardinality(With(acked, v)) \in Nat /\ Cardinality(Sel(acked, stmt.from)) \in Nat
    BY <2>1, RowsCount
  <2>6. CASE ~Updates(v) /\ Selects(stmt.from, v)
    <3>1. With(acked, v) = {}
      BY <2>4, <2>6 DEF With
    <3> QED BY <2>3, <2>6, <3>1, FS_EmptySet
  <2>7. CASE ~Updates(v) /\ ~Selects(stmt.from, v)
    BY <2>1, <2>3, <2>5, <2>7 DEF OthersOK
  <2>8. CASE Updates(v) /\ Selects(stmt.from, v)
    <3>1. With(acked, v) = Sel(acked, stmt.from)
      BY <2>4, <2>8 DEF With, Sel, Updates
    <3>2. Cardinality(Sel(acked, stmt.from)) + 0 = before.hit
      BY <2>1, <2>2, <2>8 DEF HitOK, Updates
    <3> QED BY <2>3, <2>5, <2>8, <3>1, <3>2
  <2>9. CASE Updates(v) /\ ~Selects(stmt.from, v)
    <3>1. Sel(acked, stmt.from) = {}
      BY <2>4, <2>9 DEF Sel, Updates
    <3>2. Cardinality(Sel(acked, stmt.from)) + 0 + Cardinality(With(acked, v)) = before.rows[v] + before.hit
      BY <2>1, <2>2, <2>9 DEF HitOK, Updates
    <3>3. Cardinality(Sel(acked, stmt.from)) = 0
      BY <3>1, FS_EmptySet
    <3>4. Cardinality(With(acked, v)) = before.rows[v] + before.hit
      BY <2>5, <3>2, <3>3
    <3> QED BY <2>3, <2>9, <3>4
  <2> QED BY <2>6, <2>7, <2>8, <2>9
<1> QED BY <1>1, ScanInvariant, EffectInvariant, PTL

\* Every row a statement is about to delete was inserted, by a call that succeeded,
\* and has not been deleted since: no row an UPDATE has already replaced is handed out.
THEOREM RowsAreLive == ScanSpec => [](stmt.pc = "row" => stmt.row \in acked)
<1>1. ScanInv => (stmt.pc = "row" => stmt.row \in acked)
  BY DEF ScanInv, StmtOK
<1> QED BY <1>1, ScanInvariant, PTL

=============================================================================

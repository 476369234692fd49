------------------------- MODULE RecordManagerProofs -------------------------
(***************************************************************************)
(* The record manager, for any page capacity, byte width, number of pages  *)
(* and set of values.  The searches are exact whatever the threads do; the *)
(* contents of pages are proved for the build without CONCURRENCY, where   *)
(* calls do not overlap: with two threads in a page they are lost.  And    *)
(* the division of a page by init_empty_page, for every page and record    *)
(* size.                                                                   *)
(***************************************************************************)
EXTENDS PageLayout, FiniteSetTheorems, TLAPS

Maps == INSTANCE BitmapProofs WITH W <- ByteBits, Size <- Capacity

-----------------------------------------------------------------------------
(* The slot bitmap.                                                        *)

LEMMA SameMap ==
  ASSUME NEW bits, NEW i
  PROVE  /\ SlotMap!NextUnsettedBit(bits, i) = Maps!NextUnsettedBit(bits, i)
         /\ SlotMap!NextSettedBit(bits, i) = Maps!NextSettedBit(bits, i)
BY DEF SlotMap!NextUnsettedBit, Maps!NextUnsettedBit, SlotMap!NextSettedBit, Maps!NextSettedBit,
       SlotMap!Clip, Maps!Clip, SlotMap!Search, Maps!Search, SlotMap!Bytes, Maps!Bytes,
       SlotMap!ByteOf, Maps!ByteOf, SlotMap!Min, Maps!Min

LEMMA SameFirst ==
  ASSUME NEW T
  PROVE  Maps!First(T) = IF T = {} THEN -1 ELSE Min(T)
BY DEF Maps!First, Maps!Min, Min

LEMMA MapSizes == Maps!Sizes
BY RecordAssumption DEF Maps!Sizes

LEMMA FreeSlot ==
  ASSUME NEW bits, bits \subseteq Slots
  PROVE  SlotMap!NextUnsettedBit(bits, 0) = IF Slots \ bits = {} THEN -1 ELSE Min(Slots \ bits)
<1>1. Maps!NextUnsettedBit(bits, 0) = Maps!First((0 .. Capacity - 1) \ bits)
  BY MapSizes, Maps!LowestClear DEF Slots
<1> QED BY <1>1, SameMap, SameFirst DEF Slots

LEMMA FreeSlotIn ==
  ASSUME NEW bits, bits \subseteq Slots, SlotMap!NextUnsettedBit(bits, 0) # -1
  PROVE  SlotMap!NextUnsettedBit(bits, 0) \in Slots \ bits
<1>0. Slots \ bits \subseteq Nat
  BY RecordAssumption DEF Slots
<1>1. Slots \ bits \subseteq Nat /\ Slots \ bits # {}
  BY <1>0, FreeSlot
<1>2. Maps!Min(Slots \ bits) \in Slots \ bits
  BY <1>1, Maps!LeastOf
<1> QED BY <1>1, <1>2, FreeSlot DEF Maps!Min, Min

\* The iterator's searches: from the start, and from behind a record.
LEMMA NextRecord ==
  ASSUME NEW bits, bits \subseteq Slots, NEW i \in bits \cup {-1}
  PROVE  SlotMap!NextSettedBit(bits, i + 1)
           = IF {j \in bits : j > i} = {} THEN -1 ELSE Min({j \in bits : j > i})
<1>1. Maps!NextSettedBit(bits, i + 1) = Maps!First({j \in bits : j > i})
  BY MapSizes, Maps!EverySetBit DEF Slots
<1> QED BY <1>1, SameMap, SameFirst

-----------------------------------------------------------------------------
(* Types, whatever the threads do to each other.                           *)

ThreadType == [pc : PcNames, page : 0 .. MaxPages, slot : Slots, val : Values \cup {Blank},
               bits : SUBSET Slots, num : Int, rc : Rcs]

Inserting == {"find", "allocate", "add", "check", "pick", "store"}
OnPage == {"add", "check", "pick", "store", "clear", "add_deleted"}

\* A call on a page is on one that exists, and an insert carries a record.
CallOK(t) ==
    /\ th[t].pc \in OnPage => th[t].page \in DOMAIN pages
    /\ th[t].pc \in Inserting => th[t].val \in Values

Types ==
    /\ pages \in Seq(PageType) /\ Len(pages) <= MaxPages
    /\ free \subseteq DOMAIN pages
    /\ lock \in Threads \cup {NoThread}
    /\ pins \in [PageNums -> Int]
    /\ th \in [Threads -> ThreadType]
    /\ acked \subseteq PageNums \X Slots \X Values
    /\ \A r \in acked : r[1] \in DOMAIN pages
    /\ \A t \in Threads : CallOK(t)

LEMMA PagesSized ==
  ASSUME NEW s \in Seq(PageType), Len(s) <= MaxPages
  PROVE  DOMAIN s \subseteq PageNums /\ \A p \in DOMAIN s : s[p] \in PageType
<1>1. DOMAIN s = 1 .. Len(s) /\ Len(s) \in Nat /\ MaxPages \in Nat
  BY RecordAssumption
<1>2. DOMAIN s \subseteq PageNums
  BY <1>1 DEF PageNums
<1> QED BY <1>2

LEMMA ReplacePage ==
  ASSUME NEW s \in Seq(PageType), NEW p \in DOMAIN s, NEW q \in PageType,
         NEW z, z = [s EXCEPT ![p] = q]
  PROVE  /\ z \in Seq(PageType) /\ Len(z) = Len(s) /\ DOMAIN z = DOMAIN s /\ z[p] = q
         /\ \A r \in DOMAIN s : r # p => z[r] = s[r]
OBVIOUS

LEMMA AppendPage ==
  ASSUME NEW s \in Seq(PageType), NEW q \in PageType, NEW z, z = Append(s, q)
  PROVE  /\ z \in Seq(PageType) /\ Len(z) = Len(s) + 1 /\ DOMAIN z = DOMAIN s \cup {Len(s) + 1}
         /\ z[Len(s) + 1] = q /\ \A r \in DOMAIN s : z[r] = s[r] /\ r # Len(s) + 1
OBVIOUS

LEMMA EmptyPageType == EmptyPage \in PageType
BY DEF EmptyPage, PageType

\* What a record that is put into a page makes of it.
LEMMA PutPage ==
  ASSUME NEW q \in PageType, NEW n \in Int, NEW b \in SUBSET Slots, NEW s \in Slots,
         NEW v \in Values \cup {Blank}
  PROVE  [num |-> n, bits |-> b, data |-> [q.data EXCEPT ![s] = v]] \in PageType
BY DEF PageType

\* A step of one thread.
LEMMA TypesKept ==
  ASSUME Types, NEW t \in Threads, NEW x \in ThreadType, th' = [th EXCEPT ![t] = x],
         pages' \in Seq(PageType), Len(pages') <= MaxPages, DOMAIN pages \subseteq DOMAIN pages',
         x.pc \in OnPage => x.page \in DOMAIN pages', x.pc \in Inserting => x.val \in Values,
         free' \subseteq DOMAIN pages', lock' \in Threads \cup {NoThread},
         pins' \in [PageNums -> Int], acked' \subseteq PageNums \X Slots \X Values,
         \A r \in acked' : r[1] \in DOMAIN pages'
  PROVE  Types' /\ th'[t] = x
<1>1. th' \in [Threads -> ThreadType] /\ th'[t] = x
  BY DEF Types
<1>2. ASSUME NEW u \in Threads PROVE CallOK(u)'
  <2>1. CASE u = t
    BY <1>1, <2>1 DEF CallOK
  <2>2. CASE u # t
    <3>1. th'[u] = th[u]
      BY <2>2 DEF Types
    <3> QED BY <3>1 DEF CallOK, Types
  <2> QED BY <2>1, <2>2
<1> QED BY <1>1, <1>2 DEF Types

-----------------------------------------------------------------------------
(* The inductive invariant.                                                *)

\* The build without CONCURRENCY: calls do not overlap.
OneThread == \A t, u \in Threads : t = u

CountOK(p) == pages[p].num = Cardinality(pages[p].bits)

\* The records of a page are those that calls promised, slot by slot.
RecordsOK(p) ==
    /\ \A s \in pages[p].bits : pages[p].data[s] \in Values
    /\ \A s \in Slots, v \in Values :
         <<p, s, v>> \in acked <=> s \in pages[p].bits /\ pages[p].data[s] = v

\* A call with locals x has page p pinned, or is about to add it to free_pages_.
Using(x, p) == x.pc \in {"add", "check", "pick", "store", "clear"} /\ x.page = p
Adding(x, p) == x.pc \in {"add", "add_deleted"} /\ x.page = p

\* What a call read of its page is still there, and an insert has room in it: its
\* search for a slot always finds one.
LocalsOK(x) ==
    /\ x.pc # "wild"
    /\ x.pc \in {"add", "check", "pick", "store"} => pages[x.page].num < Capacity
    /\ x.pc \in {"store", "clear"} => /\ x.bits = pages[x.page].bits
                                      /\ x.num = pages[x.page].num
    /\ x.pc = "store" => x.slot \notin pages[x.page].bits
    /\ x.pc = "clear" => x.slot \in pages[x.page].bits

PinsOK == \A p \in PageNums : pins[p] = IF \E t \in Threads : Using(th[t], p) THEN 1 ELSE 0

RoomOK == \A p \in DOMAIN pages :
            IsFull(p) \/ p \in free \/ \E t \in Threads : Adding(th[t], p)

Exact ==
    /\ \A p \in DOMAIN pages : CountOK(p) /\ RecordsOK(p)
    /\ PinsOK /\ RoomOK
    /\ \A t \in Threads : LocalsOK(th[t])

Inv == Types /\ (OneThread => Exact)

-----------------------------------------------------------------------------
(* Counting slots.                                                         *)

LEMMA SlotsFinite ==
  ASSUME NEW b, b \subseteq Slots
  PROVE  /\ IsFiniteSet(b) /\ Cardinality(b) \in 0 .. Capacity
         /\ Cardinality(b) < Capacity => \E s \in Slots : s \notin b
<1>1. Capacity \in Nat /\ 0 \in Int /\ Capacity - 1 \in Int
  BY RecordAssumption
<1>2. IsFiniteSet(Slots) /\ Cardinality(Slots) = Capacity
  <2>1. IsFiniteSet(0 .. Capacity - 1)
        /\ Cardinality(0 .. Capacity - 1) = IF 0 > Capacity - 1 THEN 0 ELSE Capacity - 1 - 0 + 1
    BY <1>1, FS_Interval
  <2> QED BY <1>1, <2>1, RecordAssumption DEF Slots
<1>3. IsFiniteSet(b) /\ Cardinality(b) <= Cardinality(Slots) /\ Cardinality(b) \in Nat
  BY <1>2, FS_Subset, FS_CardinalityType
<1>4. Cardinality(b) \in 0 .. Capacity
  BY <1>1, <1>2, <1>3
<1>5. b = Slots => Cardinality(b) = Capacity
  BY <1>2
<1>6. Cardinality(b) < Capacity => b # Slots
  BY <1>1, <1>3, <1>5
<1> QED BY <1>3, <1>4, <1>6

LEMMA AddSlot ==
  ASSUME NEW b, b \subseteq Slots, NEW s \in Slots, s \notin b
  PROVE  Cardinality(b \cup {s}) = Cardinality(b) + 1
BY SlotsFinite, FS_AddElement

LEMMA DropSlot ==
  ASSUME NEW b, b \subseteq Slots, NEW s \in b
  PROVE  Cardinality(b \ {s}) = Cardinality(b) - 1
BY SlotsFinite, FS_RemoveElement

-----------------------------------------------------------------------------
(* Steps of a single thread.                                               *)

LEMMA Alone ==
  ASSUME Inv, OneThread, NEW t \in Threads
  PROVE  /\ \A p \in PageNums : pins[p] = IF Using(th[t], p) THEN 1 ELSE 0
         /\ \A p \in DOMAIN pages : IsFull(p) \/ p \in free \/ Adding(th[t], p)
         /\ LocalsOK(th[t]) /\ \A p \in DOMAIN pages : CountOK(p) /\ RecordsOK(p)
<1>1. \A u \in Threads : u = t
  BY DEF OneThread
<1>2. \A p : (\E u \in Threads : Using(th[u], p)) <=> Using(th[t], p)
  BY <1>1
<1>3. \A p : (\E u \in Threads : Adding(th[u], p)) <=> Adding(th[t], p)
  BY <1>1
<1> QED BY <1>2, <1>3 DEF Inv, Exact, PinsOK, RoomOK

LEMMA ExactKept ==
  ASSUME OneThread, NEW t \in Threads, NEW x, th'[t] = x,
         \A p \in DOMAIN pages' : CountOK(p)' /\ RecordsOK(p)',
         \A p \in PageNums : pins'[p] = IF Using(x, p) THEN 1 ELSE 0,
         \A p \in DOMAIN pages' : IsFull(p)' \/ p \in free' \/ Adding(x, p),
         LocalsOK(x)'
  PROVE  Exact'
<1>1. \A u \in Threads : u = t
  BY DEF OneThread
<1>2. \A p : (\E u \in Threads : Using(th'[u], p)) <=> Using(x, p)
  BY <1>1
<1>3. \A p : (\E u \in Threads : Adding(th'[u], p)) <=> Adding(x, p)
  BY <1>1
<1>4. PinsOK'
  BY <1>2 DEF PinsOK, Using
<1>5. RoomOK'
  BY <1>3 DEF RoomOK, Adding
<1>6. \A u \in Threads : LocalsOK(th[u])'
  BY <1>1 DEF LocalsOK
<1> QED BY <1>4, <1>5, <1>6 DEF Exact

\* A step that leaves the pages and the promises alone.
LEMMA Quiet ==
  ASSUME Inv, NEW t \in Threads, NEW x \in ThreadType, th' = [th EXCEPT ![t] = x],
         UNCHANGED <<pages, acked>>,
         x.pc \in OnPage => x.page \in DOMAIN pages, x.pc \in Inserting => x.val \in Values,
         free' \subseteq DOMAIN pages, lock' \in Threads \cup {NoThread},
         pins' \in [PageNums -> Int],
         OneThread =>
           /\ \A p \in PageNums : pins'[p] = IF Using(x, p) THEN 1 ELSE 0
           /\ \A p \in DOMAIN pages : IsFull(p) \/ p \in free' \/ Adding(x, p)
           /\ LocalsOK(x)
  PROVE  Inv'
<1>1. Types' /\ th'[t] = x
  <2>1. /\ pages' \in Seq(PageType) /\ Len(pages') <= MaxPages /\ DOMAIN pages \subseteq DOMAIN pages'
        /\ acked' \subseteq PageNums \X Slots \X Values /\ \A r \in acked' : r[1] \in DOMAIN pages'
    BY DEF Inv, Types
  <2>2. Types
    BY DEF Inv
  <2>3. free' \subseteq DOMAIN pages' /\ (x.pc \in OnPage => x.page \in DOMAIN pages')
    OBVIOUS
  <2> QED BY <2>1, <2>2, <2>3, TypesKept
<1>2. ASSUME OneThread PROVE Exact'
  <2>1. \A p \in DOMAIN pages' : CountOK(p)' /\ RecordsOK(p)'
    BY <1>2, Alone DEF CountOK, RecordsOK
  <2>2. \A p \in DOMAIN pages' : IsFull(p)' \/ p \in free' \/ Adding(x, p)
    BY <1>2 DEF IsFull
  <2>3. LocalsOK(x)'
    BY <1>2 DEF LocalsOK
  <2> QED BY <1>1, <1>2, <2>1, <2>2, <2>3, ExactKept
<1> QED BY <1>1, <1>2 DEF Inv

\* What the types say of a thread and the pages.
LEMMA Basics ==
  ASSUME Inv, NEW t \in Threads
  PROVE  /\ th[t] \in ThreadType /\ CallOK(t)
         /\ DOMAIN pages \subseteq PageNums /\ \A p \in DOMAIN pages : pages[p] \in PageType
         /\ free \subseteq DOMAIN pages /\ lock \in Threads \cup {NoThread}
         /\ pins \in [PageNums -> Int] /\ 0 \in Slots
BY PagesSized, RecordAssumption DEF Inv, Types, Slots

LEMMA IdleType ==
  ASSUME NEW v \in Values \cup {Blank}
  PROVE  Idle(v) \in ThreadType
<1>1. 0 \in Slots /\ 0 \in 0 .. MaxPages /\ {} \in SUBSET Slots /\ 0 \in Int
  BY RecordAssumption DEF Slots
<1>2. "idle" \in PcNames /\ "SUCCESS" \in Rcs
  BY DEF PcNames, Rcs
<1> QED BY <1>1, <1>2 DEF Idle, ThreadType

\* What a call that returns leaves of its locals.
LEMMA Returned ==
  ASSUME Inv, NEW t \in Threads, NEW rc \in Rcs, Return(t, rc)
  PROVE  \E x \in ThreadType : th' = [th EXCEPT ![t] = x] /\ x.pc = "idle"
<1>1. Blank \in Values \cup {Blank}
  OBVIOUS
<1>2. Idle(Blank) \in ThreadType /\ th[t] \in ThreadType /\ Idle(Blank).pc = "idle"
  BY <1>1, IdleType, Basics DEF Idle
<1>3. PICK x : x = [Idle(Blank) EXCEPT !.page = th[t].page, !.slot = th[t].slot, !.rc = rc]
  OBVIOUS
<1>4. x \in ThreadType /\ x.pc = "idle"
  <2> HIDE DEF Idle
  <2> QED BY <1>2, <1>3 DEF ThreadType
<1> QED BY <1>3, <1>4 DEF Return

LEMMA WentTo ==
  ASSUME Inv, NEW t \in Threads, NEW pc \in PcNames, Goto(t, pc)
  PROVE  \E x \in ThreadType : /\ th' = [th EXCEPT ![t] = x] /\ x.pc = pc
                               /\ x.page = th[t].page /\ x.val = th[t].val
                               /\ x.bits = th[t].bits /\ x.num = th[t].num /\ x.slot = th[t].slot
<1>1. PICK x : x = [th[t] EXCEPT !.pc = pc]
  OBVIOUS
<1>2. th[t] \in ThreadType
  BY Basics
<1>3. x \in ThreadType /\ x.pc = pc /\ x.page = th[t].page /\ x.val = th[t].val
      /\ x.bits = th[t].bits /\ x.num = th[t].num /\ x.slot = th[t].slot
  BY <1>1, <1>2 DEF ThreadType
<1> QED BY <1>1, <1>3 DEF Goto

-----------------------------------------------------------------------------
(* insert_record of the file.                                              *)

LEMMA InsertRecordKeeps ==
  ASSUME Inv, NEW t \in Threads, NEW v \in Values, InsertRecord(t, v)
  PROVE  Inv'
<1>1. PICK x : x = [Idle(v) EXCEPT !.pc = "find"]
  OBVIOUS
<1>2. x \in ThreadType /\ x.pc = "find" /\ x.val = v
  <2>1. Idle(v) \in ThreadType /\ Idle(v).val = v
    BY IdleType DEF Idle
  <2> HIDE DEF Idle
  <2> QED BY <1>1, <2>1 DEF ThreadType, PcNames
<1>3. th[t].pc = "idle" /\ lock' = t /\ UNCHANGED <<pages, free, pins, acked>>
      /\ th' = [th EXCEPT ![t] = x]
  BY <1>1 DEF InsertRecord, At
<1>4. ASSUME OneThread
      PROVE  /\ \A p \in PageNums : pins'[p] = IF Using(x, p) THEN 1 ELSE 0
             /\ \A p \in DOMAIN pages : IsFull(p) \/ p \in free' \/ Adding(x, p)
             /\ LocalsOK(x)
  BY <1>2, <1>3, <1>4, Alone DEF Using, Adding, LocalsOK
<1> QED BY <1>2, <1>3, <1>4, Basics, Quiet DEF OnPage

LEMMA SkipFullPageKeeps ==
  ASSUME Inv, NEW t \in Threads, NEW p \in PageNums, SkipFullPage(t, p)
  PROVE  Inv'
<1>1. PICK x \in ThreadType : x = th[t]
  BY Basics
<1>2. th' = [th EXCEPT ![t] = x]
  BY <1>1 DEF SkipFullPage, Inv, Types
<1>3. x.pc = "find" /\ free' = free \ {p} /\ IsFull(p) /\ UNCHANGED <<pages, lock, pins, acked>>
  BY <1>1 DEF SkipFullPage, At
<1>4. ASSUME OneThread
      PROVE  /\ \A q \in PageNums : pins'[q] = IF Using(x, q) THEN 1 ELSE 0
             /\ \A q \in DOMAIN pages : IsFull(q) \/ q \in free' \/ Adding(x, q)
             /\ LocalsOK(x)
  BY <1>1, <1>3, <1>4, Alone
<1> QED BY <1>1, <1>2, <1>3, <1>4, Basics, Quiet DEF OnPage, CallOK

LEMMA FindPageKeeps ==
  ASSUME Inv, NEW t \in Threads, NEW p \in PageNums, FindPage(t, p)
  PROVE  Inv'
<1>1. PICK x : x = [th[t] EXCEPT !.pc = "check", !.page = p]
  OBVIOUS
<1>2. th[t] \in ThreadType /\ p \in 0 .. MaxPages /\ p \in DOMAIN pages
  BY Basics DEF FindPage, PageNums
<1>3. x \in ThreadType /\ x.pc = "check" /\ x.page = p /\ x.val = th[t].val
  BY <1>1, <1>2 DEF ThreadType, PcNames
<1>4. th[t].pc = "find" /\ ~IsFull(p) /\ p \in free /\ UNCHANGED <<pages, free, acked>>
      /\ lock' = NoThread /\ pins' = [pins EXCEPT ![p] = @ + 1]
  BY DEF FindPage, At, Pin
<1>5. th' = [th EXCEPT ![t] = x]
  BY <1>1 DEF FindPage
<1>6. pins' \in [PageNums -> Int] /\ \A q \in PageNums : pins'[q] = IF q = p THEN pins[q] + 1 ELSE pins[q]
  BY <1>4, Basics
<1>7. ASSUME OneThread
      PROVE  /\ \A q \in PageNums : pins'[q] = IF Using(x, q) THEN 1 ELSE 0
             /\ \A q \in DOMAIN pages : IsFull(q) \/ q \in free' \/ Adding(x, q)
             /\ LocalsOK(x)
  <2>1. \A q \in PageNums : pins[q] = 0
    BY <1>4, <1>7, Alone DEF Using
  <2>2. \A q \in PageNums : pins'[q] = IF Using(x, q) THEN 1 ELSE 0
    BY <1>3, <1>6, <2>1 DEF Using
  <2>3. \A q \in DOMAIN pages : IsFull(q) \/ q \in free'
    BY <1>4, <1>7, Alone DEF Adding
  <2>4. pages[p].num \in Int /\ Capacity \in Nat
    BY <1>2, Basics, RecordAssumption DEF PageType
  <2>5. pages[p].num < Capacity
    BY <1>4, <2>4 DEF IsFull
  <2>6. LocalsOK(x)
    BY <1>3, <2>5 DEF LocalsOK
  <2> QED BY <2>2, <2>3, <2>6
<1>8. th[t].val \in Values
  BY <1>4, Basics DEF CallOK, Inserting
<1> QED BY <1>2, <1>3, <1>4, <1>5, <1>6, <1>7, <1>8, Basics, Quiet

LEMMA NoFreePageKeeps ==
  ASSUME Inv, NEW t \in Threads, NoFreePage(t)
  PROVE  Inv'
<1>0. "allocate" \in PcNames
  BY DEF PcNames
<1>1. th[t].pc = "find" /\ Goto(t, "allocate") /\ lock' = NoThread /\ UNCHANGED <<pages, free, pins, acked>>
  BY DEF NoFreePage, At
<1>2. PICK x \in ThreadType : th' = [th EXCEPT ![t] = x] /\ x.pc = "allocate" /\ x.val = th[t].val
  BY <1>0, <1>1, WentTo
<1>3. ASSUME OneThread
      PROVE  /\ \A p \in PageNums : pins'[p] = IF Using(x, p) THEN 1 ELSE 0
             /\ \A p \in DOMAIN pages : IsFull(p) \/ p \in free' \/ Adding(x, p)
             /\ LocalsOK(x)
  BY <1>1, <1>2, <1>3, Alone DEF Using, Adding, LocalsOK
<1>4. th[t].val \in Values
  BY <1>1, Basics DEF CallOK, Inserting
<1> QED BY <1>1, <1>2, <1>3, <1>4, Basics, Quiet DEF OnPage

LEMMA AllocateFailsKeeps ==
  ASSUME Inv, NEW t \in Threads, AllocateFails(t)
  PROVE  Inv'
<1>0. "BUFFERPOOL_NOBUF" \in Rcs
  BY DEF Rcs
<1>1. th[t].pc = "allocate" /\ Return(t, "BUFFERPOOL_NOBUF") /\ UNCHANGED <<pages, free, lock, pins, acked>>
  BY DEF AllocateFails, At
<1>2. PICK x \in ThreadType : th' = [th EXCEPT ![t] = x] /\ x.pc = "idle"
  BY <1>0, <1>1, Returned
<1>3. ASSUME OneThread
      PROVE  /\ \A p \in PageNums : pins'[p] = IF Using(x, p) THEN 1 ELSE 0
             /\ \A p \in DOMAIN pages : IsFull(p) \/ p \in free' \/ Adding(x, p)
             /\ LocalsOK(x)
  BY <1>1, <1>2, <1>3, Alone DEF Using, Adding, LocalsOK
<1> QED BY <1>1, <1>2, <1>3, Basics, Quiet DEF OnPage, Inserting

LEMMA AllocatePageKeeps ==
  ASSUME Inv, NEW t \in Threads, AllocatePage(t)
  PROVE  Inv'
<1>1. PICK n \in Nat : n = Len(pages)
  BY DEF Inv, Types
<1>2. n < MaxPages /\ n + 1 \in PageNums /\ n + 1 \in 0 .. MaxPages /\ MaxPages \in Nat
  BY <1>1, RecordAssumption DEF AllocatePage, PageNums
<1>3. PICK x : x = [th[t] EXCEPT !.pc = "add", !.page = n + 1]
  OBVIOUS
<1>4. x \in ThreadType /\ x.pc = "add" /\ x.page = n + 1 /\ x.val = th[t].val
  <2>1. th[t] \in ThreadType
    BY Basics
  <2> QED BY <1>2, <1>3, <2>1 DEF ThreadType, PcNames
<1>5. th' = [th EXCEPT ![t] = x] /\ th[t].pc = "allocate" /\ UNCHANGED <<free, lock, acked>>
      /\ pages' = Append(pages, EmptyPage) /\ pins' = [pins EXCEPT ![n + 1] = @ + 1]
  BY <1>1, <1>3 DEF AllocatePage, At, Pin
<1>6. pins' \in [PageNums -> Int]
      /\ \A q \in PageNums : pins'[q] = IF q = n + 1 THEN pins[q] + 1 ELSE pins[q]
  BY <1>2, <1>5, Basics
<1>7. /\ pages' \in Seq(PageType) /\ Len(pages') = n + 1 /\ DOMAIN pages' = DOMAIN pages \cup {n + 1}
      /\ pages'[n + 1] = EmptyPage /\ \A r \in DOMAIN pages : pages'[r] = pages[r] /\ r # n + 1
  BY <1>1, <1>5, EmptyPageType, AppendPage DEF Inv, Types
<1>8. th[t].val \in Values
  BY <1>5, Basics DEF CallOK, Inserting
<1>9. Types' /\ th'[t] = x
  <2>1. Len(pages') <= MaxPages /\ DOMAIN pages \subseteq DOMAIN pages'
    BY <1>2, <1>7
  <2>2. Types /\ free' \subseteq DOMAIN pages' /\ lock' \in Threads \cup {NoThread}
        /\ acked' \subseteq PageNums \X Slots \X Values /\ \A r \in acked' : r[1] \in DOMAIN pages'
    BY <1>5, <1>7 DEF Inv, Types
  <2> QED BY <1>4, <1>5, <1>6, <1>7, <1>8, <2>1, <2>2, TypesKept
<1>10. ASSUME OneThread PROVE Exact'
  <2>1. EmptyPage.num = 0 /\ EmptyPage.bits = {}
    BY DEF EmptyPage
  <2>2. \A p \in DOMAIN pages' : CountOK(p)'
    <3>1. Cardinality({}) = 0
      BY FS_EmptySet
    <3> QED BY <1>7, <1>10, <2>1, <3>1, Alone DEF CountOK
  <2>3. ASSUME NEW p \in DOMAIN pages' PROVE RecordsOK(p)'
    <3>1. CASE p = n + 1
      <4>1. \A r \in acked : r[1] # n + 1
        BY <1>7 DEF Inv, Types
      <4>2. \A s \in Slots, v \in Values : <<p, s, v>> \notin acked'
        BY <1>5, <3>1, <4>1
      <4> QED BY <1>7, <2>1, <3>1, <4>2 DEF RecordsOK
    <3>2. CASE p \in DOMAIN pages
      <4>1. RecordsOK(p)
        BY <1>10, <3>2, Alone
      <4> QED BY <1>5, <1>7, <3>2, <4>1 DEF RecordsOK
    <3> QED BY <1>7, <3>1, <3>2
  <2>4. \A q \in PageNums : pins[q] = 0
    BY <1>5, <1>10, Alone DEF Using
  <2>5. \A q \in PageNums : pins'[q] = IF Using(x, q) THEN 1 ELSE 0
    BY <1>4, <1>6, <2>4 DEF Using
  <2>6. \A p \in DOMAIN pages' : IsFull(p)' \/ p \in free' \/ Adding(x, p)
    BY <1>4, <1>5, <1>7, <1>10, Alone DEF Adding, IsFull
  <2>7. LocalsOK(x)'
    <3>1. 0 < Capacity
      BY RecordAssumption
    <3> QED BY <1>4, <1>7, <2>1, <3>1 DEF LocalsOK
  <2> QED BY <1>9, <1>10, <2>2, <2>3, <2>5, <2>6, <2>7, ExactKept
<1> QED BY <1>9, <1>10 DEF Inv

LEMMA AddFreePageKeeps ==
  ASSUME Inv, NEW t \in Threads, AddFreePage(t)
  PROVE  Inv'
<1>0. "check" \in PcNames /\ "SUCCESS" \in Rcs
  BY DEF PcNames, Rcs
<1>1. PICK p : p = th[t].page
  OBVIOUS
<1>2. th[t].pc \in {"add", "add_deleted"} /\ free' = free \cup {p} /\ UNCHANGED <<pages, lock, pins, acked>>
  BY <1>1 DEF AddFreePage, At
<1>3. p \in DOMAIN pages
  BY <1>1, <1>2, Basics DEF CallOK, OnPage
<1>4. ASSUME OneThread
      PROVE \A q \in DOMAIN pages : IsFull(q) \/ q \in free'
  BY <1>1, <1>2, <1>4, Alone DEF Adding
<1>5. CASE th[t].pc = "add"
  <2>1. Goto(t, "check")
    BY <1>5 DEF AddFreePage, At
  <2>2. PICK x \in ThreadType : /\ th' = [th EXCEPT ![t] = x] /\ x.pc = "check"
                                /\ x.page = p /\ x.val = th[t].val
    BY <1>0, <1>1, <2>1, WentTo
  <2>3. ASSUME OneThread
        PROVE  /\ \A q \in PageNums : pins'[q] = IF Using(x, q) THEN 1 ELSE 0
               /\ \A q \in DOMAIN pages : IsFull(q) \/ q \in free' \/ Adding(x, q)
               /\ LocalsOK(x)
    <3>1. \A q \in PageNums : Using(x, q) <=> Using(th[t], q)
      BY <1>1, <1>5, <2>2 DEF Using
    <3>2. \A q \in PageNums : pins'[q] = IF Using(x, q) THEN 1 ELSE 0
      BY <1>2, <2>3, <3>1, Alone
    <3>3. pages[p].num < Capacity
      BY <1>1, <1>5, <2>3, Alone DEF LocalsOK
    <3>4. LocalsOK(x)
      BY <2>2, <3>3 DEF LocalsOK
    <3> QED BY <1>4, <2>3, <3>2, <3>4
  <2>4. th[t].val \in Values
    BY <1>5, Basics DEF CallOK, Inserting
  <2> QED BY <1>2, <1>3, <2>2, <2>3, <2>4, Basics, Quiet
<1>6. CASE th[t].pc = "add_deleted"
  <2>1. Return(t, "SUCCESS")
    BY <1>6 DEF AddFreePage, At
  <2>2. PICK x \in ThreadType : th' = [th EXCEPT ![t] = x] /\ x.pc = "idle"
    BY <1>0, <2>1, Returned
  <2>3. ASSUME OneThread
        PROVE  /\ \A q \in PageNums : pins'[q] = IF Using(x, q) THEN 1 ELSE 0
               /\ \A q \in DOMAIN pages : IsFull(q) \/ q \in free' \/ Adding(x, q)
               /\ LocalsOK(x)
    BY <1>2, <1>4, <1>6, <2>2, <2>3, Alone DEF Using, LocalsOK
  <2> QED BY <1>2, <1>3, <2>2, <2>3, Basics, Quiet DEF OnPage, Inserting
<1> QED BY <1>2, <1>5, <1>6

-----------------------------------------------------------------------------
(* The operations of a page.                                               *)

LEMMA Unpinned ==
  ASSUME Inv, NEW t \in Threads, NEW p \in PageNums, Unpin(p)
  PROVE  /\ pins' \in [PageNums -> Int]
         /\ OneThread /\ Using(th[t], p) => \A q \in PageNums : pins'[q] = 0
<1>1. pins \in [PageNums -> Int]
  BY Basics
<1>2. pins' \in [PageNums -> Int] /\ pins'[p] = pins[p] - 1
      /\ \A q \in PageNums : q # p => pins'[q] = pins[q]
  BY <1>1 DEF Unpin
<1>3. ASSUME OneThread, Using(th[t], p), NEW q \in PageNums PROVE pins'[q] = 0
  <2>1. pins[q] = IF q = p THEN 1 ELSE 0
    BY <1>3, Alone DEF Using
  <2> QED BY <1>2, <2>1
<1> QED BY <1>2, <1>3

LEMMA CheckCapacityKeeps ==
  ASSUME Inv, NEW t \in Threads, CheckCapacity(t)
  PROVE  Inv'
<1>0. "pick" \in PcNames /\ "RECORD_NOMEM" \in Rcs
  BY DEF PcNames, Rcs
<1>1. PICK p : p = th[t].page
  OBVIOUS
<1>2. th[t].pc = "check" /\ UNCHANGED <<pages, free, lock, acked>>
  BY DEF CheckCapacity, At
<1>3. p \in DOMAIN pages /\ p \in PageNums
  BY <1>1, <1>2, Basics DEF CallOK, OnPage
<1>4. ASSUME OneThread
      PROVE \A q \in DOMAIN pages : IsFull(q) \/ q \in free'
  BY <1>2, <1>4, Alone DEF Adding
<1>5. CASE pages[p].num = Capacity
  <2>1. Return(t, "RECORD_NOMEM") /\ Unpin(p)
    BY <1>1, <1>5 DEF CheckCapacity
  <2>2. PICK x \in ThreadType : th' = [th EXCEPT ![t] = x] /\ x.pc = "idle"
    BY <1>0, <2>1, Returned
  <2>3. pins' \in [PageNums -> Int]
    BY <1>3, <2>1, Unpinned
  <2>4. ASSUME OneThread
        PROVE  /\ \A q \in PageNums : pins'[q] = IF Using(x, q) THEN 1 ELSE 0
               /\ \A q \in DOMAIN pages : IsFull(q) \/ q \in free' \/ Adding(x, q)
               /\ LocalsOK(x)
    <3>1. Using(th[t], p)
      BY <1>1, <1>2 DEF Using
    <3>2. \A q \in PageNums : pins'[q] = 0
      BY <1>3, <2>1, <2>4, <3>1, Unpinned
    <3> QED BY <1>4, <2>2, <2>4, <3>2 DEF Using, LocalsOK
  <2> QED BY <1>2, <1>3, <2>2, <2>3, <2>4, Basics, Quiet DEF OnPage, Inserting
<1>6. CASE pages[p].num # Capacity
  <2>1. Goto(t, "pick") /\ UNCHANGED pins
    BY <1>1, <1>6 DEF CheckCapacity
  <2>2. PICK x \in ThreadType : /\ th' = [th EXCEPT ![t] = x] /\ x.pc = "pick"
                                /\ x.page = p /\ x.val = th[t].val
    BY <1>0, <1>1, <2>1, WentTo
  <2>3. ASSUME OneThread
        PROVE  /\ \A q \in PageNums : pins'[q] = IF Using(x, q) THEN 1 ELSE 0
               /\ \A q \in DOMAIN pages : IsFull(q) \/ q \in free' \/ Adding(x, q)
               /\ LocalsOK(x)
    <3>1. \A q \in PageNums : Using(x, q) <=> Using(th[t], q)
      BY <1>1, <1>2, <2>2 DEF Using
    <3>2. \A q \in PageNums : pins'[q] = IF Using(x, q) THEN 1 ELSE 0
      BY <2>1, <2>3, <3>1, Alone
    <3>3. pages[p].num < Capacity
      BY <1>1, <1>2, <2>3, Alone DEF LocalsOK
    <3>4. LocalsOK(x)
      BY <2>2, <3>3 DEF LocalsOK
    <3> QED BY <1>4, <2>3, <3>2, <3>4
  <2>4. th[t].val \in Values
    BY <1>2, Basics DEF CallOK, Inserting
  <2> QED BY <1>2, <1>3, <2>1, <2>2, <2>3, <2>4, Basics, Quiet
<1> QED BY <1>5, <1>6

\* With room in the page the search finds a slot: the write outside it never happens.
LEMMA PickSlotKeeps ==
  ASSUME Inv, NEW t \in Threads, PickSlot(t)
  PROVE  Inv'
<1>0. "wild" \in PcNames /\ "store" \in PcNames
  BY DEF PcNames
<1>1. PICK p : p = th[t].page
  OBVIOUS
<1>2. th[t].pc = "pick" /\ UNCHANGED <<pages, free, lock, pins, acked>>
  BY DEF PickSlot, At
<1>3. p \in DOMAIN pages /\ p \in PageNums /\ pages[p] \in PageType
  BY <1>1, <1>2, Basics DEF CallOK, OnPage
<1>4. pages[p].bits \subseteq Slots /\ pages[p].num \in Int
  BY <1>3 DEF PageType
<1>5. PICK s : s = SlotMap!NextUnsettedBit(pages[p].bits, 0)
  OBVIOUS
<1>6. ASSUME OneThread PROVE \A q \in DOMAIN pages : IsFull(q) \/ q \in free'
  BY <1>2, <1>6, Alone DEF Adding
<1>7. CASE s = -1
  <2>1. Goto(t, "wild")
    BY <1>1, <1>5, <1>7 DEF PickSlot
  <2>2. PICK x \in ThreadType : th' = [th EXCEPT ![t] = x] /\ x.pc = "wild"
    BY <1>0, <2>1, WentTo
  <2>3. ASSUME OneThread PROVE FALSE
    <3>1. Cardinality(pages[p].bits) < Capacity
      BY <1>1, <1>2, <1>3, <2>3, Alone DEF LocalsOK, CountOK
    <3>2. PICK c \in Slots : c \notin pages[p].bits
      BY <1>4, <3>1, SlotsFinite
    <3>3. Min(Slots \ pages[p].bits) = -1
      BY <1>4, <1>5, <1>7, <3>2, FreeSlot
    <3>4. Slots \ pages[p].bits \subseteq Nat /\ -1 \notin Nat
      BY RecordAssumption DEF Slots
    <3>5. Maps!Min(Slots \ pages[p].bits) \in Slots \ pages[p].bits
      BY <3>2, <3>4, Maps!LeastOf
    <3> QED BY <3>3, <3>4, <3>5 DEF Maps!Min, Min
  <2> QED BY <1>2, <2>2, <2>3, Basics, Quiet DEF OnPage, Inserting
<1>8. CASE s # -1
  <2>1. s \in Slots /\ s \notin pages[p].bits
    BY <1>4, <1>5, <1>8, FreeSlotIn
  <2>2. PICK x : x = [th[t] EXCEPT !.pc = "store", !.slot = s,
                                   !.bits = pages[p].bits, !.num = pages[p].num]
    OBVIOUS
  <2>3. x \in ThreadType /\ x.pc = "store" /\ x.page = p /\ x.slot = s /\ x.val = th[t].val
        /\ x.bits = pages[p].bits /\ x.num = pages[p].num
    <3>1. th[t] \in ThreadType
      BY Basics
    <3> QED BY <1>0, <1>1, <1>4, <2>1, <2>2, <3>1 DEF ThreadType
  <2>4. th' = [th EXCEPT ![t] = x]
    BY <1>1, <1>5, <1>8, <2>2 DEF PickSlot
  <2>5. ASSUME OneThread
        PROVE  /\ \A q \in PageNums : pins'[q] = IF Using(x, q) THEN 1 ELSE 0
               /\ \A q \in DOMAIN pages : IsFull(q) \/ q \in free' \/ Adding(x, q)
               /\ LocalsOK(x)
    <3>1. \A q \in PageNums : Using(x, q) <=> Using(th[t], q)
      BY <1>1, <1>2, <2>3 DEF Using
    <3>2. \A q \in PageNums : pins'[q] = IF Using(x, q) THEN 1 ELSE 0
      BY <1>2, <2>5, <3>1, Alone
    <3>3. pages[p].num < Capacity
      BY <1>1, <1>2, <2>5, Alone DEF LocalsOK
    <3>4. LocalsOK(x)
      BY <2>1, <2>3, <3>3 DEF LocalsOK
    <3> QED BY <1>6, <2>5, <3>2, <3>4
  <2>6. th[t].val \in Values
    BY <1>2, Basics DEF CallOK, Inserting
  <2> QED BY <1>2, <1>3, <2>3, <2>4, <2>5, <2>6, Basics, Quiet
<1> QED BY <1>7, <1>8

\* A record is put into a slot, and what was promised of the slot before is void.
LEMMA RecordPut ==
  ASSUME Types, \A k \in DOMAIN pages : RecordsOK(k),
         NEW p \in DOMAIN pages, NEW s \in Slots, NEW v \in Values, NEW q \in PageType,
         pages' = [pages EXCEPT ![p] = q],
         q.bits = pages[p].bits \cup {s}, q.data = [pages[p].data EXCEPT ![s] = v],
         acked' = {r \in acked : r[1] # p \/ r[2] # s} \cup {<<p, s, v>>}
  PROVE  \A k \in DOMAIN pages' : RecordsOK(k)'
<1>1. /\ DOMAIN pages' = DOMAIN pages /\ pages'[p] = q
      /\ \A k \in DOMAIN pages : k # p => pages'[k] = pages[k]
  BY ReplacePage DEF Types
<1>2. pages[p] \in PageType
  BY PagesSized DEF Types
<1>3. \A c \in Slots : q.data[c] = IF c = s THEN v ELSE pages[p].data[c]
  BY <1>2 DEF PageType
<1>4. ASSUME NEW k, NEW c \in Slots, NEW w \in Values
      PROVE  <<k, c, w>> \in acked' <=> \/ <<k, c, w>> \in acked /\ (k # p \/ c # s)
                                        \/ k = p /\ c = s /\ w = v
  <2>1. <<k, c, w>>[1] = k /\ <<k, c, w>>[2] = c
    OBVIOUS
  <2>2. <<k, c, w>> = <<p, s, v>> <=> k = p /\ c = s /\ w = v
    OBVIOUS
  <2> QED BY <2>1, <2>2
<1>5. ASSUME NEW k \in DOMAIN pages, k # p PROVE RecordsOK(k)'
  <2>1. RecordsOK(k) /\ pages'[k] = pages[k]
    BY <1>1, <1>5
  <2>2. \A c \in Slots, w \in Values : <<k, c, w>> \in acked' <=> <<k, c, w>> \in acked
    BY <1>4, <1>5
  <2> QED BY <2>1, <2>2 DEF RecordsOK
<1>6. RecordsOK(p)'
  <2>1. RecordsOK(p) /\ pages[p].bits \subseteq Slots
    BY <1>2 DEF PageType
  <2>2. \A c \in q.bits : q.data[c] \in Values
    BY <1>3, <2>1 DEF RecordsOK
  <2>3. ASSUME NEW c \in Slots, NEW w \in Values
        PROVE  <<p, c, w>> \in acked' <=> c \in q.bits /\ q.data[c] = w
    <3>1. CASE c = s
      BY <1>3, <1>4, <3>1
    <3>2. CASE c # s
      BY <1>3, <1>4, <2>1, <3>2 DEF RecordsOK
    <3> QED BY <3>1, <3>2
  <2> QED BY <1>1, <2>2, <2>3 DEF RecordsOK
<1> QED BY <1>1, <1>5, <1>6

LEMMA CountKept ==
  ASSUME Types, \A k \in DOMAIN pages : CountOK(k), NEW p \in DOMAIN pages, NEW q \in PageType,
         pages' = [pages EXCEPT ![p] = q], q.num = Cardinality(q.bits)
  PROVE  \A k \in DOMAIN pages' : CountOK(k)'
<1>1. /\ DOMAIN pages' = DOMAIN pages /\ pages'[p] = q
      /\ \A k \in DOMAIN pages : k # p => pages'[k] = pages[k]
  BY ReplacePage DEF Types
<1> QED BY <1>1 DEF CountOK

LEMMA StoreRecordKeeps ==
  ASSUME Inv, NEW t \in Threads, StoreRecord(t)
  PROVE  Inv'
<1>0. "SUCCESS" \in Rcs
  BY DEF Rcs
<1>1. PICK p, s, v : p = th[t].page /\ s = th[t].slot /\ v = th[t].val
  OBVIOUS
<1>2. th[t].pc = "store" /\ UNCHANGED <<free, lock>> /\ Return(t, "SUCCESS") /\ Unpin(p)
      /\ acked' = acked \cup {<<p, s, v>>}
  BY <1>1 DEF StoreRecord, At
<1>3. p \in DOMAIN pages /\ p \in PageNums /\ pages[p] \in PageType /\ v \in Values /\ s \in Slots
      /\ th[t].bits \subseteq Slots /\ th[t].num \in Int
  <2>1. th[t] \in ThreadType
    BY Basics
  <2>2. s \in Slots /\ th[t].bits \subseteq Slots /\ th[t].num \in Int
    BY <1>1, <2>1 DEF ThreadType
  <2> QED BY <1>1, <1>2, <2>2, Basics DEF CallOK, OnPage, Inserting
<1>4. PICK b \in BitsRead(t), n \in NumsRead(t) :
        pages' = [pages EXCEPT ![p] = [num |-> n + 1, bits |-> b \cup {s},
                                       data |-> [@.data EXCEPT ![s] = v]]]
  BY <1>1 DEF StoreRecord
<1>5. PICK q : q = [num |-> n + 1, bits |-> b \cup {s}, data |-> [pages[p].data EXCEPT ![s] = v]]
  OBVIOUS
<1>6. b \subseteq Slots /\ n \in Int
  BY <1>1, <1>3 DEF BitsRead, NumsRead, PageType
<1>7. q \in PageType /\ q.num = n + 1 /\ q.bits = b \cup {s} /\ q.data = [pages[p].data EXCEPT ![s] = v]
  <2>1. n + 1 \in Int /\ b \cup {s} \in SUBSET Slots
    BY <1>3, <1>6
  <2>2. q \in PageType
    BY <1>3, <1>5, <2>1, PutPage
  <2> QED BY <1>5, <2>2
<1>8. pages' = [pages EXCEPT ![p] = q]
  BY <1>4, <1>5
<1>9. /\ pages' \in Seq(PageType) /\ Len(pages') = Len(pages) /\ DOMAIN pages' = DOMAIN pages
      /\ pages'[p] = q /\ \A k \in DOMAIN pages : k # p => pages'[k] = pages[k]
  BY <1>3, <1>7, <1>8, ReplacePage DEF Inv, Types
<1>10. PICK x \in ThreadType : th' = [th EXCEPT ![t] = x] /\ x.pc = "idle"
  BY <1>0, <1>2, Returned
<1>11. pins' \in [PageNums -> Int]
  BY <1>2, <1>3, Unpinned
<1>12. Types' /\ th'[t] = x
  <2>1. Types /\ Len(pages') <= MaxPages /\ free' \subseteq DOMAIN pages' /\ lock' \in Threads \cup {NoThread}
    BY <1>2, <1>9 DEF Inv, Types
  <2>2. <<p, s, v>> \in PageNums \X Slots \X Values
    BY <1>3
  <2>3. acked' \subseteq PageNums \X Slots \X Values
    BY <1>2, <2>2 DEF Inv, Types
  <2>4. \A r \in acked' : r[1] \in DOMAIN pages'
    BY <1>2, <1>3, <1>9 DEF Inv, Types
  <2> QED BY <1>9, <1>10, <1>11, <2>1, <2>3, <2>4, TypesKept DEF OnPage, Inserting
<1>13. ASSUME OneThread PROVE Exact'
  <2>1. LocalsOK(th[t]) /\ \A k \in DOMAIN pages : CountOK(k) /\ RecordsOK(k)
    BY <1>13, Alone
  <2>2. b = pages[p].bits /\ n = pages[p].num /\ s \notin pages[p].bits /\ pages[p].num < Capacity
    BY <1>1, <1>2, <2>1 DEF LocalsOK, BitsRead, NumsRead
  <2>3. \A k \in DOMAIN pages' : CountOK(k)'
    <3>1. q.num = Cardinality(q.bits)
      BY <1>3, <1>6, <1>7, <2>1, <2>2, AddSlot DEF CountOK
    <3> QED BY <1>3, <1>7, <1>8, <2>1, <3>1, CountKept DEF Inv
  <2>4. \A k \in DOMAIN pages' : RecordsOK(k)'
    <3>1. \A w \in Values : <<p, s, w>> \notin acked
      BY <1>3, <2>1, <2>2 DEF RecordsOK
    <3>2. ASSUME NEW r \in acked PROVE r[1] # p \/ r[2] # s
      <4>1. r \in PageNums \X Slots \X Values
        BY DEF Inv, Types
      <4>2. r = <<r[1], r[2], r[3]>> /\ r[3] \in Values
        BY <4>1
      <4> QED BY <3>1, <4>2
    <3>3. acked' = {r \in acked : r[1] # p \/ r[2] # s} \cup {<<p, s, v>>}
      BY <1>2, <3>2
    <3> QED BY <1>3, <1>7, <1>8, <2>1, <2>2, <3>3, RecordPut DEF Inv
  <2>5. \A k \in PageNums : pins'[k] = IF Using(x, k) THEN 1 ELSE 0
    <3>1. Using(th[t], p)
      BY <1>1, <1>2 DEF Using
    <3>2. \A k \in PageNums : pins'[k] = 0
      BY <1>2, <1>3, <1>13, <3>1, Unpinned
    <3> QED BY <1>10, <3>2 DEF Using
  <2>6. \A k \in DOMAIN pages' : IsFull(k)' \/ k \in free' \/ Adding(x, k)
    <3>1. pages[p].num \in Int /\ Capacity \in Nat
      BY <1>3, RecordAssumption DEF PageType
    <3>2. ~IsFull(p)
      BY <2>2, <3>1 DEF IsFull
    <3>3. p \in free
      BY <1>2, <1>3, <1>13, <3>2, Alone DEF Adding
    <3>4. ASSUME NEW k \in DOMAIN pages, k # p PROVE IsFull(k)' \/ k \in free'
      BY <1>2, <1>9, <1>13, <3>4, Alone DEF Adding, IsFull
    <3> QED BY <1>2, <1>9, <3>3, <3>4
  <2>7. LocalsOK(x)'
    BY <1>10 DEF LocalsOK
  <2> QED BY <1>12, <1>13, <2>3, <2>4, <2>5, <2>6, <2>7, ExactKept
<1> QED BY <1>12, <1>13 DEF Inv

LEMMA RecoverInsertRecordKeeps ==
  ASSUME Inv, NEW p \in PageNums, NEW s \in Slots, NEW v \in Values, RecoverInsertRecord(p, s, v)
  PROVE  Inv'
<1>1. UNCHANGED <<free, lock, pins, th>> /\ (\A t \in Threads : th[t].pc = "idle")
      /\ acked' = {r \in acked : r[1] # p \/ r[2] # s} \cup {<<p, s, v>>}
  BY DEF RecoverInsertRecord, At
<1>2. p \in DOMAIN pages /\ pages[p] \in PageType
  <2>1. pages \in Seq(PageType) /\ p \in Nat /\ p >= 1 /\ p <= Len(pages)
    BY RecordAssumption DEF RecoverInsertRecord, Exists, Inv, Types, PageNums
  <2> QED BY <2>1
<1>3. PICK n : n = IF s \in pages[p].bits THEN pages[p].num ELSE pages[p].num + 1
  OBVIOUS
<1>4. pages[p].num \in Int /\ pages[p].bits \subseteq Slots /\ n \in Int /\ n >= pages[p].num
  BY <1>2, <1>3 DEF PageType
<1>5. PICK q : q = [num |-> n, bits |-> pages[p].bits \cup {s},
                    data |-> [pages[p].data EXCEPT ![s] = v]]
  OBVIOUS
<1>6. q \in PageType /\ q.num = n /\ q.bits = pages[p].bits \cup {s}
      /\ q.data = [pages[p].data EXCEPT ![s] = v]
  <2>1. pages[p].bits \cup {s} \in SUBSET Slots
    BY <1>4
  <2>2. q \in PageType
    BY <1>2, <1>4, <1>5, <2>1, PutPage
  <2> QED BY <1>5, <2>2
<1>7. pages' = [pages EXCEPT ![p] = q]
  BY <1>3, <1>5 DEF RecoverInsertRecord
<1>8. /\ pages' \in Seq(PageType) /\ Len(pages') = Len(pages) /\ DOMAIN pages' = DOMAIN pages
      /\ pages'[p] = q /\ \A k \in DOMAIN pages : k # p => pages'[k] = pages[k]
  BY <1>2, <1>6, <1>7, ReplacePage DEF Inv, Types
<1>9. Types'
  <2>1. <<p, s, v>> \in PageNums \X Slots \X Values
    OBVIOUS
  <2>2. acked' \subseteq PageNums \X Slots \X Values
    BY <1>1, <2>1 DEF Inv, Types
  <2>3. \A r \in acked' : r[1] \in DOMAIN pages'
    BY <1>1, <1>2, <1>8 DEF Inv, Types
  <2>4. \A t \in Threads : CallOK(t)'
    BY <1>1, <1>8 DEF Inv, Types, CallOK
  <2> QED BY <1>1, <1>8, <2>2, <2>3, <2>4 DEF Inv, Types
<1>10. ASSUME OneThread PROVE Exact'
  <2>1. Exact
    BY <1>10 DEF Inv
  <2>2. \A k \in DOMAIN pages : CountOK(k) /\ RecordsOK(k)
    BY <2>1 DEF Exact
  <2>3. \A k \in DOMAIN pages' : CountOK(k)'
    <3>1. pages[p].num = Cardinality(pages[p].bits)
      BY <1>2, <2>2 DEF CountOK
    <3>2. CASE s \in pages[p].bits
      <4>1. q.bits = pages[p].bits /\ q.num = pages[p].num
        BY <1>3, <1>6, <3>2
      <4> QED BY <1>2, <1>6, <1>7, <2>2, <3>1, <4>1, CountKept DEF Inv
    <3>3. CASE s \notin pages[p].bits
      <4>1. q.num = Cardinality(q.bits)
        BY <1>3, <1>4, <1>6, <3>1, <3>3, AddSlot
      <4> QED BY <1>2, <1>6, <1>7, <2>2, <4>1, CountKept DEF Inv
    <3> QED BY <3>2, <3>3
  <2>4. \A k \in DOMAIN pages' : RecordsOK(k)'
    BY <1>1, <1>2, <1>6, <1>7, <2>2, RecordPut DEF Inv
  <2>5. PinsOK'
    BY <1>1, <2>1 DEF Exact, PinsOK, Using
  <2>6. RoomOK'
    <3>1. \A k \in DOMAIN pages : IsFull(k) \/ k \in free
      BY <1>1, <2>1 DEF Exact, RoomOK, Adding
    <3>2. Capacity \in Nat
      BY RecordAssumption
    <3>3. IsFull(p) => IsFull(p)'
      BY <1>4, <1>6, <1>8, <3>2 DEF IsFull
    <3>4. \A k \in DOMAIN pages : k # p => (IsFull(k)' <=> IsFull(k))
      BY <1>8 DEF IsFull
    <3> QED BY <1>1, <1>2, <1>8, <3>1, <3>3, <3>4 DEF RoomOK
  <2>7. \A t \in Threads : LocalsOK(th[t])'
    BY <1>1 DEF LocalsOK
  <2> QED BY <2>3, <2>4, <2>5, <2>6, <2>7 DEF Exact
<1> QED BY <1>9, <1>10 DEF Inv

LEMMA DeleteRecordKeeps ==
  ASSUME Inv, NEW t \in Threads, NEW r \in acked, DeleteRecord(t, r)
  PROVE  Inv'
<1>0. "RECORD_NOT_EXIST" \in Rcs /\ "clear" \in PcNames
  BY DEF Rcs, PcNames
<1>1. PICK p, s, v : p = r[1] /\ s = r[2] /\ v = r[3]
  OBVIOUS
<1>2. p \in DOMAIN pages /\ p \in PageNums /\ s \in Slots /\ v \in Values /\ p \in 0 .. MaxPages
  <2>1. r \in PageNums \X Slots \X Values /\ r[1] \in DOMAIN pages
    BY DEF Inv, Types
  <2>2. \A k \in PageNums : k \in 0 .. MaxPages
    BY RecordAssumption DEF PageNums
  <2> QED BY <1>1, <2>1, <2>2
<1>3. th[t].pc = "idle" /\ UNCHANGED <<pages, free, lock, acked>>
  BY DEF DeleteRecord, At
<1>4. ASSUME OneThread
      PROVE  (\A q \in DOMAIN pages : IsFull(q) \/ q \in free') /\ \A q \in PageNums : pins[q] = 0
  BY <1>3, <1>4, Alone DEF Adding, Using
<1>5. CASE s \in pages[p].bits
  <2>1. Pin(p)
    BY <1>1, <1>5 DEF DeleteRecord
  <2>2. PICK x : x = [Idle(v) EXCEPT !.pc = "clear", !.page = p, !.slot = s,
                                     !.bits = pages[p].bits, !.num = pages[p].num]
    OBVIOUS
  <2>3. th' = [th EXCEPT ![t] = x]
    <3> HIDE DEF Idle
    <3> QED BY <1>1, <1>5, <2>2 DEF DeleteRecord
  <2>4. pages[p].bits \in SUBSET Slots /\ pages[p].num \in Int
    BY <1>2, Basics DEF PageType
  <2>5. x \in ThreadType /\ x.pc = "clear" /\ x.page = p /\ x.slot = s
        /\ x.bits = pages[p].bits /\ x.num = pages[p].num
    <3>1. Idle(v) \in ThreadType
      BY <1>2, IdleType
    <3> HIDE DEF Idle
    <3> QED BY <1>0, <1>2, <2>2, <2>4, <3>1 DEF ThreadType
  <2>6. pins' \in [PageNums -> Int] /\ \A q \in PageNums : pins'[q] = IF q = p THEN pins[q] + 1 ELSE pins[q]
    BY <1>2, <2>1, Basics DEF Pin
  <2>7. ASSUME OneThread
        PROVE  /\ \A q \in PageNums : pins'[q] = IF Using(x, q) THEN 1 ELSE 0
               /\ \A q \in DOMAIN pages : IsFull(q) \/ q \in free' \/ Adding(x, q)
               /\ LocalsOK(x)
    <3>1. \A q \in PageNums : pins'[q] = IF Using(x, q) THEN 1 ELSE 0
      BY <1>4, <2>5, <2>6, <2>7 DEF Using
    <3>2. LocalsOK(x)
      BY <1>5, <2>5 DEF LocalsOK
    <3> QED BY <1>4, <2>7, <3>1, <3>2
  <2> QED BY <1>2, <1>3, <2>3, <2>5, <2>6, <2>7, Basics, Quiet DEF Inserting
<1>6. CASE s \notin pages[p].bits
  <2>1. Return(t, "RECORD_NOT_EXIST") /\ UNCHANGED pins
    BY <1>1, <1>6 DEF DeleteRecord
  <2>2. PICK x \in ThreadType : th' = [th EXCEPT ![t] = x] /\ x.pc = "idle"
    BY <1>0, <2>1, Returned
  <2>3. ASSUME OneThread
        PROVE  /\ \A q \in PageNums : pins'[q] = IF Using(x, q) THEN 1 ELSE 0
               /\ \A q \in DOMAIN pages : IsFull(q) \/ q \in free' \/ Adding(x, q)
               /\ LocalsOK(x)
    BY <1>4, <2>1, <2>2, <2>3 DEF Using, LocalsOK
  <2> QED BY <1>3, <2>1, <2>2, <2>3, Basics, Quiet DEF OnPage, Inserting
<1> QED BY <1>5, <1>6

LEMMA ClearSlotKeeps ==
  ASSUME Inv, NEW t \in Threads, ClearSlot(t)
  PROVE  Inv'
<1>0. "add_deleted" \in PcNames
  BY DEF PcNames
<1>1. PICK p, s : p = th[t].page /\ s = th[t].slot
  OBVIOUS
<1>2. th[t].pc = "clear" /\ UNCHANGED <<free, lock>> /\ Goto(t, "add_deleted") /\ Unpin(p)
      /\ acked' = {r \in acked : r[1] # p \/ r[2] # s}
  BY <1>1 DEF ClearSlot, At
<1>3. p \in DOMAIN pages /\ p \in PageNums /\ pages[p] \in PageType /\ s \in Slots
      /\ th[t].bits \subseteq Slots /\ th[t].num \in Int
  <2>1. th[t] \in ThreadType
    BY Basics
  <2>2. s \in Slots /\ th[t].bits \subseteq Slots /\ th[t].num \in Int
    BY <1>1, <2>1 DEF ThreadType
  <2> QED BY <1>1, <1>2, <2>2, Basics DEF CallOK, OnPage
<1>4. PICK b \in BitsRead(t), n \in NumsRead(t) :
        pages' = [pages EXCEPT ![p].num = n - 1, ![p].bits = b \ {s}]
  BY <1>1 DEF ClearSlot
<1>5. PICK q : q = [pages[p] EXCEPT !.num = n - 1, !.bits = b \ {s}]
  OBVIOUS
<1>6. b \subseteq Slots /\ n \in Int
  BY <1>1, <1>3 DEF BitsRead, NumsRead, PageType
<1>7. q \in PageType /\ q.num = n - 1 /\ q.bits = b \ {s} /\ q.data = pages[p].data
  <2>1. n - 1 \in Int /\ b \ {s} \in SUBSET Slots
    BY <1>6
  <2> QED BY <1>3, <1>5, <2>1 DEF PageType
<1>8. pages' = [pages EXCEPT ![p] = q]
  BY <1>3, <1>4, <1>5 DEF Inv, Types
<1>9. /\ pages' \in Seq(PageType) /\ Len(pages') = Len(pages) /\ DOMAIN pages' = DOMAIN pages
      /\ pages'[p] = q /\ \A k \in DOMAIN pages : k # p => pages'[k] = pages[k]
  BY <1>3, <1>7, <1>8, ReplacePage DEF Inv, Types
<1>10. PICK x \in ThreadType : th' = [th EXCEPT ![t] = x] /\ x.pc = "add_deleted" /\ x.page = p
  BY <1>0, <1>1, <1>2, WentTo
<1>11. pins' \in [PageNums -> Int]
  BY <1>2, <1>3, Unpinned
<1>12. Types' /\ th'[t] = x
  <2>1. Types /\ Len(pages') <= MaxPages /\ free' \subseteq DOMAIN pages' /\ lock' \in Threads \cup {NoThread}
    BY <1>2, <1>9 DEF Inv, Types
  <2>2. acked' \subseteq PageNums \X Slots \X Values
    BY <1>2 DEF Inv, Types
  <2>3. \A r \in acked' : r[1] \in DOMAIN pages'
    BY <1>2, <1>9 DEF Inv, Types
  <2> QED BY <1>3, <1>9, <1>10, <1>11, <2>1, <2>2, <2>3, TypesKept DEF Inserting
<1>13. ASSUME OneThread PROVE Exact'
  <2>1. LocalsOK(th[t]) /\ \A k \in DOMAIN pages : CountOK(k) /\ RecordsOK(k)
    BY <1>13, Alone
  <2>2. b = pages[p].bits /\ n = pages[p].num /\ s \in pages[p].bits
    BY <1>1, <1>2, <2>1 DEF LocalsOK, BitsRead, NumsRead
  <2>3. \A k \in DOMAIN pages' : CountOK(k)'
    <3>1. q.num = Cardinality(q.bits)
      BY <1>3, <1>6, <1>7, <2>1, <2>2, DropSlot DEF CountOK
    <3> QED BY <1>3, <1>7, <1>8, <2>1, <3>1, CountKept DEF Inv
  <2>4. ASSUME NEW k \in DOMAIN pages' PROVE RecordsOK(k)'
    <3>1. ASSUME NEW c \in Slots, NEW w \in Values
          PROVE  <<k, c, w>> \in acked' <=> <<k, c, w>> \in acked /\ (k # p \/ c # s)
      <4>1. <<k, c, w>>[1] = k /\ <<k, c, w>>[2] = c
        OBVIOUS
      <4> QED BY <1>2, <4>1
    <3>2. RecordsOK(k)
      BY <1>9, <2>1
    <3>3. CASE k = p
      BY <1>7, <1>9, <2>2, <3>1, <3>2, <3>3 DEF RecordsOK
    <3>4. CASE k # p
      BY <1>9, <3>1, <3>2, <3>4 DEF RecordsOK
    <3> QED BY <3>3, <3>4
  <2>5. \A k \in PageNums : pins'[k] = IF Using(x, k) THEN 1 ELSE 0
    <3>1. Using(th[t], p)
      BY <1>1, <1>2 DEF Using
    <3>2. \A k \in PageNums : pins'[k] = 0
      BY <1>2, <1>3, <1>13, <3>1, Unpinned
    <3> QED BY <1>10, <3>2 DEF Using
  <2>6. \A k \in DOMAIN pages' : IsFull(k)' \/ k \in free' \/ Adding(x, k)
    <3>1. ASSUME NEW k \in DOMAIN pages, k # p PROVE IsFull(k)' \/ k \in free'
      BY <1>2, <1>9, <1>13, <3>1, Alone DEF Adding, IsFull
    <3>2. Adding(x, p)
      BY <1>10 DEF Adding
    <3> QED BY <1>9, <3>1, <3>2
  <2>7. LocalsOK(x)'
    BY <1>10 DEF LocalsOK
  <2> QED BY <1>12, <1>13, <2>3, <2>4, <2>5, <2>6, <2>7, ExactKept
<1> QED BY <1>12, <1>13 DEF Inv

-----------------------------------------------------------------------------
(* The theorems.                                                           *)

LEMMA InitInv == Init => Inv
<1> SUFFICES ASSUME Init PROVE Inv
  OBVIOUS
<1>1. pages = <<>> /\ free = {} /\ lock = NoThread /\ pins = [p \in PageNums |-> 0] /\ acked = {}
      /\ th = [t \in Threads |-> Idle(Blank)]
  BY DEF Init
<1>2. Idle(Blank) \in ThreadType /\ Idle(Blank).pc = "idle"
  BY IdleType DEF Idle
<1>3. \A t \in Threads : th[t] \in ThreadType /\ th[t].pc = "idle"
  <2> HIDE DEF Idle
  <2> QED BY <1>1, <1>2
<1>4. Types
  <2>1. pages \in Seq(PageType) /\ Len(pages) = 0 /\ DOMAIN pages = {} /\ 0 <= MaxPages
    BY <1>1, RecordAssumption
  <2>2. th \in [Threads -> ThreadType]
    <3> HIDE DEF Idle
    <3> QED BY <1>1, <1>2
  <2>3. \A t \in Threads : CallOK(t)
    BY <1>3 DEF CallOK, OnPage, Inserting
  <2> QED BY <1>1, <2>1, <2>2, <2>3 DEF Types
<1>5. Exact
  <2>1. DOMAIN pages = {}
    BY <1>1
  <2>2. PinsOK
    BY <1>1, <1>3 DEF PinsOK, Using
  <2>3. \A t \in Threads : LocalsOK(th[t])
    BY <1>3 DEF LocalsOK
  <2> QED BY <2>1, <2>2, <2>3 DEF Exact, RoomOK
<1> QED BY <1>4, <1>5 DEF Inv

LEMMA NextInv == Inv /\ [Next]_vars => Inv'
<1> SUFFICES ASSUME Inv, [Next]_vars PROVE Inv'
  OBVIOUS
<1>1. ASSUME NEW t \in Threads, NEW v \in Values, InsertRecord(t, v) PROVE Inv'
  BY <1>1, InsertRecordKeeps
<1>2. ASSUME NEW t \in Threads, NEW r \in acked, DeleteRecord(t, r) PROVE Inv'
  BY <1>2, DeleteRecordKeeps
<1>3. ASSUME NEW t \in Threads, Steps(t) PROVE Inv'
  BY <1>3, SkipFullPageKeeps, FindPageKeeps, NoFreePageKeeps, AllocatePageKeeps, AllocateFailsKeeps,
     AddFreePageKeeps, CheckCapacityKeeps, PickSlotKeeps, StoreRecordKeeps, ClearSlotKeeps DEF Steps
<1>4. ASSUME NEW p \in PageNums, NEW s \in Slots, NEW v \in Values, RecoverInsertRecord(p, s, v)
      PROVE  Inv'
  BY <1>4, RecoverInsertRecordKeeps
<1>5. CASE UNCHANGED vars
  BY <1>5 DEF vars, Inv, Types, CallOK, Exact, CountOK, RecordsOK, PinsOK, RoomOK, IsFull, Using,
              Adding, LocalsOK
<1> QED BY <1>1, <1>2, <1>3, <1>4, <1>5 DEF Next

LEMMA Invariant == Spec => []Inv
BY InitInv, NextInv, PTL DEF Spec

\* The searches insert_record and the iterator make in a page's bitmap are exact, in
\* every state of any number of threads: neither the offset kept across bytes nor a
\* race on the bits ever makes them miss a slot or a record.
THEOREM SlotSearches == Spec => []SearchesExact
<1>1. Inv => SearchesExact
  <2> SUFFICES ASSUME Inv, NEW p \in DOMAIN pages, NEW used, used = pages[p].bits
               PROVE  /\ SlotMap!NextUnsettedBit(used, 0)
                           = IF Slots \ used = {} THEN -1 ELSE Min(Slots \ used)
                      /\ \A i \in used \cup {-1} :
                           SlotMap!NextSettedBit(used, i + 1)
                             = IF {j \in used : j > i} = {} THEN -1 ELSE Min({j \in used : j > i})
    BY DEF SearchesExact
  <2>1. used \subseteq Slots
    BY PagesSized DEF Inv, Types, PageType
  <2>2. ASSUME NEW i \in used \cup {-1}
        PROVE  SlotMap!NextSettedBit(used, i + 1)
                 = IF {j \in used : j > i} = {} THEN -1 ELSE Min({j \in used : j > i})
    BY <2>1, NextRecord
  <2> QED BY <2>1, <2>2, FreeSlot
<1> QED BY <1>1, Invariant, PTL

\* One thread's calls keep record_num equal to the number of set bits and give back
\* every pin, whatever the capacity and however redo overwrites records.
THEOREM PagesAreExact == ASSUME OneThread PROVE Spec => []PageExact
<1>1. Inv => PageExact
  <2> SUFFICES ASSUME Inv PROVE PageExact
    OBVIOUS
  <2>1. Exact
    BY DEF Inv
  <2>2. \A p \in DOMAIN pages : pages[p].num = Cardinality(pages[p].bits)
    BY <2>1 DEF Exact, CountOK
  <2>3. ASSUME NEW p \in DOMAIN pages PROVE pages[p].num \in 0 .. Capacity
    <3>1. pages[p].bits \subseteq Slots
      BY PagesSized DEF Inv, Types, PageType
    <3>2. Cardinality(pages[p].bits) \in 0 .. Capacity
      BY <3>1, SlotsFinite
    <3> QED BY <2>2, <3>2
  <2>4. \A p \in PageNums : pins[p] \in Nat
    <3>1. \A p \in PageNums : pins[p] = 1 \/ pins[p] = 0
      BY <2>1 DEF Exact, PinsOK
    <3> QED BY <3>1
  <2>5. pins \in [PageNums -> Nat]
    BY <2>4 DEF Inv, Types
  <2>6. TypeOK
    BY <2>3, <2>5 DEF Inv, Types, TypeOK, ThreadType
  <2>7. (\A t \in Threads : At(t, "idle")) => \A p \in PageNums : pins[p] = 0
    BY <2>1 DEF Exact, PinsOK, Using, At
  <2> QED BY <2>2, <2>6, <2>7 DEF PageExact
<1> QED BY <1>1, Invariant, PTL

\* One thread's records are exactly those whose insert succeeded, or that redo put
\* back, and whose delete did not.
THEOREM RecordsAreKept == ASSUME OneThread PROVE Spec => []AckedIsStored
<1>1. Inv => AckedIsStored
  <2> SUFFICES ASSUME Inv PROVE AckedIsStored
    OBVIOUS
  <2>1. \A p \in DOMAIN pages : RecordsOK(p) /\ pages[p].bits \subseteq Slots
    BY PagesSized DEF Inv, Exact, Types, PageType
  <2>2. ASSUME NEW r \in acked PROVE r \in Stored
    <3>1. r \in PageNums \X Slots \X Values /\ r[1] \in DOMAIN pages
      BY DEF Inv, Types
    <3>2. r = <<r[1], r[2], r[3]>> /\ r[2] \in Slots /\ r[3] \in Values
      BY <3>1
    <3>3. PICK p \in DOMAIN pages, s \in Slots, v \in Values : r = <<p, s, v>>
      BY <3>1, <3>2
    <3>4. s \in pages[p].bits /\ pages[p].data[s] = v
      BY <2>1, <3>3 DEF RecordsOK
    <3> QED BY <3>3, <3>4 DEF Stored
  <2>3. ASSUME NEW r \in Stored PROVE r \in acked
    <3>1. PICK p \in DOMAIN pages : r \in {<<p, s, pages[p].data[s]>> : s \in pages[p].bits}
      BY DEF Stored
    <3>2. PICK s \in pages[p].bits : r = <<p, s, pages[p].data[s]>>
      BY <3>1
    <3> QED BY <2>1, <3>2 DEF RecordsOK
  <2> QED BY <2>2, <2>3 DEF AckedIsStored
<1> QED BY <1>1, Invariant, PTL

\* Between one thread's calls every page with a free slot is in free_pages_.
THEOREM SpaceIsKept == ASSUME OneThread PROVE Spec => []NoSpaceLost
<1>1. Inv => NoSpaceLost
  BY DEF Inv, Exact, RoomOK, Adding, NoSpaceLost, At
<1> QED BY <1>1, Invariant, PTL

\* One thread's insert never writes outside its page: the search in a page that
\* record_num calls not full always finds a slot, so its -1 is never used.
THEOREM SlotIsFound == ASSUME OneThread PROVE Spec => [](\A t \in Threads : ~At(t, "wild"))
<1>1. Inv => \A t \in Threads : ~At(t, "wild")
  BY DEF Inv, Exact, LocalsOK, At
<1> QED BY <1>1, Invariant, PTL

-----------------------------------------------------------------------------
(* The layout of a page.                                                   *)

LEMMA Align ==
    ASSUME NEW n \in Nat
    PROVE  /\ Align8(n) \in Nat /\ n <= Align8(n) /\ Align8(n) <= n + 7
           /\ Align8(n) % 8 = 0
           /\ \A k \in Nat : n <= 8 * k => Align8(n) <= 8 * k
<1>1. PICK q \in Nat : q = (n + 7) \div 8
  OBVIOUS
<1>2. 8 * q <= n + 7 /\ n + 7 < 8 * q + 8
  BY <1>1
<1>3. Align8(n) = 8 * q
  BY <1>1 DEF Align8
<1> QED BY <1>2, <1>3

LEMMA Quotient ==
    ASSUME NEW a \in Nat, NEW b \in Nat \ {0}
    PROVE  /\ a \div b \in Nat /\ (a \div b) * b <= a /\ a < (a \div b) * b + b
OBVIOUS

\* The estimated capacity c and where the records start: c records overrun the page
\* by less than a record.
LEMMA Estimate ==
    ASSUME NEW r \in Nat, r >= 8, NEW c \in Nat, c = PageRecordCapacity(r),
           NEW f \in Nat, f = Align8(PageHeaderSize + PageBitmapSize(c))
    PROVE  /\ 8 * (c * r) + c <= 8 * (PageDataSize - PageHeaderSize - 1)
           /\ 8 * (PageDataSize - PageHeaderSize - 1) < 8 * (c * r) + c + 8 * r + 1
           /\ 8 * (f - PageHeaderSize) >= c
           /\ f + c * r <= PageDataSize + 6
           /\ f <= PageHeaderSize + PageBitmapSize(c) + 7
<1>1. PICK a \in Nat, b \in Nat \ {0} : a = 8 * (PageDataSize - PageHeaderSize - 1) /\ b = 8 * r + 1
  BY LayoutAssumption
<1>2. c * b <= a /\ a < c * b + b
  BY <1>1, Quotient DEF PageRecordCapacity
<1>3. PICK p \in Nat : p = c * r
  OBVIOUS
<1>4. c * b = 8 * p + c
  BY <1>1, <1>3
<1>5. PICK q \in Nat : q = PageBitmapSize(c) /\ 8 * q >= c /\ 8 * q <= c + 7
  <2>1. PICK q \in Nat : q = (c + 7) \div 8
    OBVIOUS
  <2> QED BY <2>1 DEF PageBitmapSize
<1>6. PICK h \in Nat : h = PageHeaderSize + q
  BY LayoutAssumption
<1>7. h <= f /\ f <= h + 7
  BY <1>5, <1>6, Align
<1>8. PICK P \in Nat, H \in Nat : P = PageDataSize /\ H = PageHeaderSize /\ a = 8 * (P - H - 1)
  BY <1>1, LayoutAssumption
<1>9. 8 * p + c <= 8 * (P - H - 1) /\ 8 * (P - H - 1) < 8 * p + c + 8 * r + 1
  BY <1>1, <1>2, <1>4, <1>8
<1>10. 8 * (f - H) >= c /\ f <= H + q + 7
  BY <1>5, <1>6, <1>7, <1>8
<1>11. f + p <= P + 6
  BY <1>5, <1>9, <1>10
<1> QED BY <1>3, <1>5, <1>8, <1>9, <1>10, <1>11

\* fix_record_capacity gives up at most one record.
LEMMA Corrected ==
    ASSUME NEW r \in Nat, r >= 8, NEW c \in Nat, NEW f \in Nat, f + c * r <= PageDataSize + 6
    PROVE  LET m == FixRecordCapacity(f, c, r)
           IN /\ m \in Nat /\ m <= c
              /\ m = c \/ (m + 1 = c /\ PageDataSize < f + c * r)
              /\ m > 0 => f + m * r <= PageDataSize
<1>1. PICK P \in Nat : P = PageDataSize
  BY LayoutAssumption
<1> DEFINE In(n) == n = 0 \/ f + n * r <= P
           Out(n) == \A k \in n + 1 .. c : f + k * r > P
<1>2. FixRecordCapacity(f, c, r) = CHOOSE n \in 0 .. c : In(n) /\ Out(n)
  BY <1>1 DEF FixRecordCapacity
<1>3. \E n \in 0 .. c : In(n) /\ Out(n)
  <2>1. CASE c = 0 \/ f + c * r <= P
    <3>1. c \in 0 .. c /\ In(c) /\ Out(c)
      BY <2>1
    <3> QED BY <3>1
  <2>2. CASE c > 0 /\ f + c * r > P
    <3>1. PICK m \in Nat, p \in Nat : c = m + 1 /\ p = m * r
      <4>1. c - 1 \in Nat /\ (c - 1) * r \in Nat
        BY <2>2
      <4> QED BY <4>1
    <3>2. c * r = p + r
      BY <3>1
    <3>3. f + p <= P
      BY <1>1, <3>2
    <3>4. In(m)
      BY <3>1, <3>3
    <3>5. \A k \in m + 1 .. c : k = c
      BY <3>1
    <3>6. Out(m)
      BY <2>2, <3>5
    <3> QED BY <3>1, <3>4, <3>6
  <2>3. f + c * r \in Int
    OBVIOUS
  <2> QED BY <2>1, <2>2, <2>3
<1>4. PICK m \in 0 .. c : m = FixRecordCapacity(f, c, r) /\ In(m) /\ Out(m)
  BY <1>2, <1>3
<1>5. m = c \/ (m + 1 = c /\ P < f + c * r)
  <2>1. CASE m < c
    <3>1. f + c * r > P
      BY <1>4, <2>1
    <3>2. m + 1 = c
      <4>1. PICK z \in Nat, p \in Nat : c = z + 1 /\ p = z * r
        <5>1. c - 1 \in Nat /\ (c - 1) * r \in Nat
          BY <2>1
        <5> QED BY <5>1
      <4>2. c * r = p + r
        BY <4>1
      <4>3. f + z * r <= P
        BY <1>1, <4>1, <4>2
      <4>4. ~(z \in m + 1 .. c)
        BY <1>4, <4>1, <4>3
      <4> QED BY <2>1, <4>1, <4>4
    <3> QED BY <3>1, <3>2
  <2> QED BY <2>1
<1>6. m > 0 => f + m * r <= P
  BY <1>4
<1> QED BY <1>1, <1>4, <1>5, <1>6

\* A page with a start behind the header and the bits has no room for two more.
LEMMA NoRoomForTwo ==
    ASSUME NEW r \in Nat, r >= 8, NEW c \in Nat, NEW f \in Nat, NEW m \in Nat,
           f = Align8(PageHeaderSize + PageBitmapSize(c)),
           8 * (PageDataSize - PageHeaderSize - 1) < 8 * (c * r) + c + 8 * r + 1,
           m = c \/ (m + 1 = c /\ PageDataSize < f + c * r)
    PROVE  ~Fits(m + 2, r)
<1> SUFFICES ASSUME Fits(m + 2, r) PROVE FALSE
  OBVIOUS
<1>1. PICK P \in Nat, H \in Nat : P = PageDataSize /\ H = PageHeaderSize
  BY LayoutAssumption
<1>2. PICK k \in Nat : /\ 8 * k >= H + (m + 2 + 7) \div 8
                       /\ 8 * k + (m + 2) * r <= P
  BY <1>1 DEF Fits
<1>3. PICK p \in Nat : p = c * r
  OBVIOUS
<1>4. CASE m = c
  <2>1. (m + 2) * r = p + 2 * r
    BY <1>3, <1>4
  <2>2. PICK q \in Nat : q = (m + 2 + 7) \div 8
    OBVIOUS
  <2>3. 8 * q >= c + 2
    BY <1>4, <2>2
  <2>4. 8 * (P - H - 1) < 8 * p + c + 8 * r + 1
    BY <1>1, <1>3
  <2>5. 8 * k >= H + q /\ 8 * k + p + 2 * r <= P
    BY <1>2, <2>1, <2>2
  <2> QED BY <2>3, <2>4, <2>5
<1>5. CASE m + 1 = c /\ PageDataSize < f + c * r
  <2>1. (m + 2) * r = p + r
    BY <1>3, <1>5
  <2>2. PICK q \in Nat : q = PageBitmapSize(c) /\ q <= (m + 2 + 7) \div 8
    <3>1. PICK q \in Nat, z \in Nat : q = (c + 7) \div 8 /\ z = (m + 2 + 7) \div 8
      OBVIOUS
    <3>2. q <= z
      BY <1>5, <3>1
    <3> QED BY <3>1, <3>2 DEF PageBitmapSize
  <2>3. PICK h \in Nat : h = PageHeaderSize + PageBitmapSize(c) /\ h = H + q
    BY <1>1, <2>2
  <2>4. h <= 8 * k
    BY <1>2, <2>2, <2>3
  <2>5. f <= 8 * k
    BY <2>3, <2>4, Align
  <2>6. P < f + p
    BY <1>1, <1>3, <1>5
  <2>7. 8 * k + p + r <= P
    BY <1>2, <2>1
  <2> QED BY <2>5, <2>6, <2>7
<1> QED BY <1>4, <1>5

\* A page with room for a record holds one: sizeof(PageHeader) is a multiple of 4, so
\* the byte that the capacity formula adds for the bitmap costs nothing.
LEMMA RoomForOne ==
    ASSUME NEW r \in Nat, r >= 8, NEW c \in Nat, NEW f \in Nat, NEW m \in Nat,
           f = Align8(PageHeaderSize + PageBitmapSize(c)),
           8 * (PageDataSize - PageHeaderSize - 1) < 8 * (c * r) + c + 8 * r + 1,
           m = c \/ (m + 1 = c /\ PageDataSize < f + c * r),
           Fits(1, r)
    PROVE  m > 0
<1> SUFFICES ASSUME m = 0 PROVE FALSE
  OBVIOUS
<1>1. PICK P \in Nat, H \in Nat : P = PageDataSize /\ H = PageHeaderSize /\ H % 4 = 0
  BY LayoutAssumption
<1>2. PICK k \in Nat : 8 * k >= H + 1 /\ 8 * k + r <= P
  <2>1. (1 + 7) \div 8 = 1 /\ 1 * r = r
    OBVIOUS
  <2> QED BY <1>1, <2>1 DEF Fits
<1>3. CASE c = 0
  <2>1. c * r = 0
    BY <1>3
  <2>2. 8 * (P - H - 1) < 8 * r + 1
    BY <1>1, <1>3, <2>1
  <2>3. 8 * k # H + 1
    BY <1>1
  <2> QED BY <1>2, <2>2, <2>3
<1>4. CASE c = 1 /\ PageDataSize < f + c * r
  <2>1. c * r = r /\ PageBitmapSize(c) = 1
    BY <1>4 DEF PageBitmapSize
  <2>2. PICK h \in Nat : h = PageHeaderSize + PageBitmapSize(c) /\ h = H + 1
    BY <1>1, <2>1
  <2>3. f <= 8 * k
    BY <1>2, <2>2, Align
  <2> QED BY <1>1, <1>2, <1>4, <2>1, <2>3
<1> QED BY <1>3, <1>4

\* The layout is right for records of every size.
LEMMA LayoutRight == \A n \in Nat \ {0} : LayoutOK(n)
<1> SUFFICES ASSUME NEW n \in Nat \ {0} PROVE LayoutOK(n)
  OBVIOUS
<1>1. PICK r \in Nat : r = Align8(n) /\ r >= 8
  <2>1. Align8(n) \in Nat /\ Align8(n) >= 1 /\ Align8(n) % 8 = 0
    BY Align
  <2>2. PICK r \in Nat : r = Align8(n)
    BY <2>1
  <2>3. r >= 8
    BY <2>1, <2>2
  <2> QED BY <2>2, <2>3
<1>2. PICK P \in Nat, H \in Nat : P = PageDataSize /\ H = PageHeaderSize /\ H + 8 <= P
  BY LayoutAssumption
<1>3. PICK c \in Nat : c = PageRecordCapacity(r)
  <2>1. PICK a \in Nat, b \in Nat \ {0} : a = 8 * (P - H - 1) /\ b = 8 * r + 1
    BY <1>2
  <2>2. a \div b \in Nat
    BY Quotient
  <2> QED BY <1>2, <2>1, <2>2 DEF PageRecordCapacity
<1>4. PICK f \in Nat : f = Align8(PageHeaderSize + PageBitmapSize(c))
  <2>1. PageBitmapSize(c) \in Nat
    BY DEF PageBitmapSize
  <2>2. PICK h \in Nat : h = PageHeaderSize + PageBitmapSize(c)
    BY <1>2, <2>1
  <2>3. Align8(h) \in Nat
    BY Align
  <2> QED BY <2>2, <2>3
<1>5. /\ 8 * (PageDataSize - PageHeaderSize - 1) < 8 * (c * r) + c + 8 * r + 1
      /\ 8 * (f - PageHeaderSize) >= c
      /\ f + c * r <= PageDataSize + 6
      /\ f <= PageHeaderSize + PageBitmapSize(c) + 7
      /\ 8 * (c * r) + c <= 8 * (PageDataSize - PageHeaderSize - 1)
  BY <1>1, <1>3, <1>4, Estimate
<1>6. PICK m \in Nat : /\ m = FixRecordCapacity(f, c, r) /\ m <= c
                       /\ m = c \/ (m + 1 = c /\ PageDataSize < f + c * r)
                       /\ m > 0 => f + m * r <= PageDataSize
  BY <1>1, <1>5, Corrected
<1>7. InitEmptyPage(n) = [record_size |-> r, first_record_offset |-> f, record_capacity |-> m]
  BY <1>1, <1>3, <1>4, <1>6 DEF InitEmptyPage
<1>8. f + m * r <= PageDataSize
  <2>1. CASE m > 0
    BY <1>6, <2>1
  <2>2. CASE m = 0
    <3>1. c <= 1
      BY <1>6, <2>2
    <3>2. PageBitmapSize(c) <= 1 /\ PageBitmapSize(c) \in Nat
      BY <3>1 DEF PageBitmapSize
    <3>3. f <= H + 8
      BY <1>2, <1>5, <3>2
    <3>4. m * r = 0
      BY <2>2
    <3> QED BY <1>2, <3>3, <3>4
  <2> QED BY <2>1, <2>2
<1>9. 8 * (f - PageHeaderSize) >= m
  BY <1>2, <1>5, <1>6
<1>10. ~Fits(m + 2, r)
  BY <1>1, <1>4, <1>5, <1>6, NoRoomForTwo
<1>11. Fits(1, r) => m > 0
  BY <1>1, <1>4, <1>5, <1>6, RoomForOne
<1> QED BY <1>1, <1>7, <1>8, <1>9, <1>10, <1>11 DEF LayoutOK

\* init_empty_page's ASSERT holds, no record overlaps the bitmap, and a page holds
\* all but at most one of the records it could, for every record size.
THEOREM PagesAreLaidOut == Spec => []LayoutFits
<1>1. LayoutFits
  <2>1. \A n \in 1 .. MaxRecordSize : n \in Nat \ {0}
    BY LayoutAssumption
  <2> QED BY <2>1, LayoutRight DEF LayoutFits
<1> QED BY <1>1, PTL

=============================================================================

---------------------------- MODULE RecordManager ----------------------------
(***************************************************************************)
(* RecordFileHandler and RecordPageHandler: fixed-size records in the      *)
(* slots of a file's pages, and free_pages_, the set of pages where an     *)
(* insert looks for room.                                                  *)
(*                                                                         *)
(* lock_ protects free_pages_ and is a real mutex in the CONCURRENCY build *)
(* only; nothing protects a page.  An insert or a delete is therefore      *)
(* several steps, and the bitmap byte and the record count it writes back  *)
(* may be computed from what it read or from what is there: the two        *)
(* outcomes of the data race.  With one thread they coincide.              *)
(***************************************************************************)
EXTENDS Integers, Sequences, FiniteSets, FiniteSetsExt

CONSTANTS Threads, Values,
          Blank,      \* what a slot of a new page holds
          NoThread,
          Capacity,   \* PageHeader::record_capacity
          ByteBits,   \* bits in a byte of the slot bitmap
          MaxPages    \* bound: pages allocate_page can give out

ASSUME RecordAssumption ==
    /\ IsFiniteSet(Threads) /\ NoThread \notin Threads /\ Blank \notin Values
    /\ Capacity \in Nat \ {0} /\ ByteBits \in Nat \ {0} /\ MaxPages \in Nat \ {0}

VARIABLES pages,  \* the pages of the file after its header page, by page number
          free,   \* RecordFileHandler::free_pages_
          lock,   \* the holder of RecordFileHandler::lock_
          pins,   \* pin count of each page's frame
          th,     \* the call each thread is in and its locals
          acked   \* records whose insert returned SUCCESS and whose delete did not

vars == <<pages, free, lock, pins, th, acked>>

SlotMap == INSTANCE Bitmap WITH W <- ByteBits, Size <- Capacity

Slots == 0 .. Capacity - 1
PageNums == 1 .. MaxPages
EmptyPage == [num |-> 0, bits |-> {}, data |-> [s \in Slots |-> Blank]]
Idle(v) == [pc |-> "idle", page |-> 0, slot |-> 0, val |-> v, bits |-> {}, num |-> 0,
            rc |-> "SUCCESS"]

Exists(p) == p <= Len(pages)
IsFull(p) == pages[p].num >= Capacity
Stored == UNION {{<<p, s, pages[p].data[s]>> : s \in pages[p].bits} : p \in DOMAIN pages}

Init ==
    /\ pages = <<>> /\ free = {} /\ lock = NoThread
    /\ pins = [p \in PageNums |-> 0]
    /\ th = [t \in Threads |-> Idle(Blank)]
    /\ acked = {}

At(t, pc) == th[t].pc = pc
Return(t, rc) == th' = [th EXCEPT ![t] = [Idle(Blank) EXCEPT !.page = th[t].page,
                                                              !.slot = th[t].slot, !.rc = rc]]
Goto(t, pc) == th' = [th EXCEPT ![t].pc = pc]
Pin(p) == pins' = [pins EXCEPT ![p] = @ + 1]
Unpin(p) == pins' = [pins EXCEPT ![p] = @ - 1]

-----------------------------------------------------------------------------
(* RecordFileHandler::insert_record                                        *)

InsertRecord(t, v) ==
    /\ At(t, "idle") /\ lock = NoThread
    /\ lock' = t
    /\ th' = [th EXCEPT ![t] = [Idle(v) EXCEPT !.pc = "find"]]
    /\ UNCHANGED <<pages, free, pins, acked>>

\* A page of free_pages_ that has filled up is dropped from it ...
SkipFullPage(t, p) ==
    /\ At(t, "find") /\ p \in free /\ IsFull(p)
    /\ free' = free \ {p}
    /\ UNCHANGED <<pages, lock, pins, th, acked>>

\* ... and the first with room is used, after lock_ is released.
FindPage(t, p) ==
    /\ At(t, "find") /\ p \in free /\ ~IsFull(p)
    /\ lock' = NoThread /\ Pin(p)
    /\ th' = [th EXCEPT ![t].pc = "check", ![t].page = p]
    /\ UNCHANGED <<pages, free, acked>>

NoFreePage(t) ==
    /\ At(t, "find") /\ free = {}
    /\ lock' = NoThread /\ Goto(t, "allocate")
    /\ UNCHANGED <<pages, free, pins, acked>>

\* Mutant of AllocatePage: the pin of allocate_page is not given back.
AllocatePage_TwoPins(t) ==
    /\ At(t, "allocate") /\ Len(pages) < MaxPages
    /\ pages' = Append(pages, EmptyPage)
    /\ pins' = [pins EXCEPT ![Len(pages) + 1] = @ + 2]
    /\ th' = [th EXCEPT ![t].pc = "add", ![t].page = Len(pages) + 1]
    /\ UNCHANGED <<free, lock, acked>>

\* allocate_page pins the new page, init_empty_page pins it again, one is undone.
AllocatePage(t) ==
    /\ At(t, "allocate") /\ Len(pages) < MaxPages
    /\ pages' = Append(pages, EmptyPage)
    /\ Pin(Len(pages) + 1)
    /\ th' = [th EXCEPT ![t].pc = "add", ![t].page = Len(pages) + 1]
    /\ UNCHANGED <<free, lock, acked>>

AllocateFails(t) ==
    /\ At(t, "allocate") /\ Len(pages) = MaxPages
    /\ Return(t, "BUFFERPOOL_NOBUF")
    /\ UNCHANGED <<pages, free, lock, pins, acked>>

\* Mutant of AddFreePage: a page that lost a record is not offered again.
AddFreePage_InsertOnly(t) ==
    /\ At(t, "add") \/ At(t, "add_deleted")
    /\ lock = NoThread
    /\ free' = IF At(t, "add") THEN free \cup {th[t].page} ELSE free
    /\ IF At(t, "add") THEN Goto(t, "check") ELSE Return(t, "SUCCESS")
    /\ UNCHANGED <<pages, lock, pins, acked>>

\* The new page of an insert, or the page of a delete, joins free_pages_.
AddFreePage(t) ==
    /\ At(t, "add") \/ At(t, "add_deleted")
    /\ lock = NoThread
    /\ free' = free \cup {th[t].page}
    /\ IF At(t, "add") THEN Goto(t, "check") ELSE Return(t, "SUCCESS")
    /\ UNCHANGED <<pages, lock, pins, acked>>

-----------------------------------------------------------------------------
(* RecordPageHandler::insert_record, recover_insert_record, delete_record  *)

CheckCapacity(t) ==
    /\ At(t, "check")
    /\ IF pages[th[t].page].num = Capacity
       THEN Return(t, "RECORD_NOMEM") /\ Unpin(th[t].page)
       ELSE Goto(t, "pick") /\ UNCHANGED pins
    /\ UNCHANGED <<pages, free, lock, acked>>

\* next_unsetted_bit; without one it returns -1, and what is then written lies
\* outside the bitmap and the records: "wild" ends the thread.
PickSlot(t) ==
    /\ At(t, "pick")
    /\ LET p == th[t].page  s == SlotMap!NextUnsettedBit(pages[p].bits, 0) IN
        IF s = -1
        THEN Goto(t, "wild")
        ELSE th' = [th EXCEPT ![t].pc = "store", ![t].slot = s,
                              ![t].bits = pages[p].bits, ![t].num = pages[p].num]
    /\ UNCHANGED <<pages, free, lock, pins, acked>>

\* What set_bit and record_num++ leave, from what was read or from what is there.
BitsRead(t) == {th[t].bits, pages[th[t].page].bits}
NumsRead(t) == {th[t].num, pages[th[t].page].num}

StoreRecord(t) ==
    /\ At(t, "store")
    /\ LET p == th[t].page  s == th[t].slot IN
        /\ \E b \in BitsRead(t), n \in NumsRead(t) :
            pages' = [pages EXCEPT ![p] = [num |-> n + 1, bits |-> b \cup {s},
                                           data |-> [@.data EXCEPT ![s] = th[t].val]]]
        /\ acked' = acked \cup {<<p, s, th[t].val>>}
        /\ Unpin(p)
    /\ Return(t, "SUCCESS")
    /\ UNCHANGED <<free, lock>>

\* Redo puts a record back at its place, before any other call is made.
RecoverInsertRecord(p, s, v) ==
    /\ \A t \in Threads : At(t, "idle")
    /\ Exists(p)
    /\ pages' = [pages EXCEPT ![p] = [num |-> IF s \in @.bits THEN @.num ELSE @.num + 1,
                                      bits |-> @.bits \cup {s},
                                      data |-> [@.data EXCEPT ![s] = v]]]
    /\ acked' = {r \in acked : r[1] # p \/ r[2] # s} \cup {<<p, s, v>>}
    /\ UNCHANGED <<free, lock, pins, th>>

\* A record is deleted by one transaction at a time.
Deleting(r) == \E t \in Threads : At(t, "clear") /\ th[t].page = r[1] /\ th[t].slot = r[2]

DeleteRecord(t, r) ==
    /\ At(t, "idle") /\ r \in acked /\ ~Deleting(r)
    /\ IF r[2] \in pages[r[1]].bits
       THEN /\ Pin(r[1])
            /\ th' = [th EXCEPT ![t] = [Idle(r[3]) EXCEPT
                        !.pc = "clear", !.page = r[1], !.slot = r[2],
                        !.bits = pages[r[1]].bits, !.num = pages[r[1]].num]]
       ELSE Return(t, "RECORD_NOT_EXIST") /\ UNCHANGED pins
    /\ UNCHANGED <<pages, free, lock, acked>>

\* Mutant of ClearSlot: the slot is emptied by its content only.
ClearSlot_KeepsBit(t) ==
    /\ At(t, "clear")
    /\ LET p == th[t].page  s == th[t].slot IN
        /\ \E b \in BitsRead(t), n \in NumsRead(t) :
            pages' = [pages EXCEPT ![p].num = n - 1, ![p].data[s] = Blank]
        /\ acked' = {r \in acked : r[1] # p \/ r[2] # s}
        /\ Unpin(p)
    /\ Goto(t, "add_deleted")
    /\ UNCHANGED <<free, lock>>

\* The bit and the count; cleanup unpins, once, also when the page is now empty.
ClearSlot(t) ==
    /\ At(t, "clear")
    /\ LET p == th[t].page  s == th[t].slot IN
        /\ \E b \in BitsRead(t), n \in NumsRead(t) :
            pages' = [pages EXCEPT ![p].num = n - 1, ![p].bits = b \ {s}]
        /\ acked' = {r \in acked : r[1] # p \/ r[2] # s}
        /\ Unpin(p)
    /\ Goto(t, "add_deleted")
    /\ UNCHANGED <<free, lock>>

-----------------------------------------------------------------------------

Steps(t) ==
    \/ \E p \in PageNums : SkipFullPage(t, p) \/ FindPage(t, p)
    \/ NoFreePage(t) \/ AllocatePage(t) \/ AllocateFails(t) \/ AddFreePage(t)
    \/ CheckCapacity(t) \/ PickSlot(t) \/ StoreRecord(t) \/ ClearSlot(t)

Next ==
    \/ \E t \in Threads :
        \/ \E v \in Values : InsertRecord(t, v)
        \/ \E r \in acked : DeleteRecord(t, r)
        \/ Steps(t)
    \/ \E p \in PageNums, s \in Slots, v \in Values : RecoverInsertRecord(p, s, v)

Spec == Init /\ [][Next]_vars

-----------------------------------------------------------------------------
(* Properties.                                                             *)

PcNames == {"idle", "find", "allocate", "add", "check", "pick", "store", "clear",
            "add_deleted", "wild"}
Rcs == {"SUCCESS", "RECORD_NOMEM", "BUFFERPOOL_NOBUF", "RECORD_NOT_EXIST"}
PageType == [num : Int, bits : SUBSET Slots, data : [Slots -> Values \cup {Blank}]]

\* Every variable keeps its type: in particular free_pages_ names pages that
\* exist and record_num stays between zero and the capacity.
TypeOK ==
    /\ pages \in Seq(PageType) /\ Len(pages) <= MaxPages
    /\ \A p \in DOMAIN pages : pages[p].num \in 0 .. Capacity
    /\ free \subseteq DOMAIN pages
    /\ lock \in Threads \cup {NoThread}
    /\ pins \in [PageNums -> Nat]
    /\ th \in [Threads -> [pc : PcNames, page : 0 .. MaxPages, slot : Slots,
                           val : Values \cup {Blank}, bits : SUBSET Slots, num : Int,
                           rc : Rcs]]
    /\ acked \subseteq PageNums \X Slots \X Values

\* PageHeader::record_num is the number of bits set, through inserts, deletes
\* and records that redo writes over existing ones: the page is full when both say so.
\* Handlers give back every pin: init_empty_page's second one, and the one of a
\* page that a delete empties, which is cleaned up twice.
PageExact ==
    /\ TypeOK
    /\ \A p \in DOMAIN pages : pages[p].num = Cardinality(pages[p].bits)
    /\ (\A t \in Threads : At(t, "idle")) => \A p \in PageNums : pins[p] = 0

\* A record is in the file exactly when the last call on its slot said so.
AckedIsStored == acked = Stored

\* The searches callers make in a page's bitmap are exact, although an offset
\* into one byte can outlive it: insert_record's from 0 finds the lowest free slot,
\* and the iterator's, from 0 and then from behind each set bit, find every set bit
\* in order.
SearchesExact ==
    \A p \in DOMAIN pages :
        LET used == pages[p].bits
            first(S) == IF S = {} THEN -1 ELSE Min(S)
        IN /\ SlotMap!NextUnsettedBit(used, 0) = first(Slots \ used)
           /\ \A i \in used \cup {-1} :
                SlotMap!NextSettedBit(used, i + 1) = first({j \in used : j > i})

\* No space is lost: between calls every page with a free slot is in free_pages_,
\* although inserts drop pages from it and redo fills pages behind its back.
NoSpaceLost ==
    (\A t \in Threads : At(t, "idle")) => \A p \in DOMAIN pages : IsFull(p) \/ p \in free


=============================================================================

----------------------------- MODULE BplusTree ------------------------------
(***************************************************************************)
(* BplusTreeHandler and BplusTreeScanner: a B+ tree whose nodes are pages  *)
(* of one file of the buffer pool.                                         *)
(*                                                                         *)
(* The tree is one record t that the operations map to a new one: the code *)
(* is single-threaded ("thread unsafe"), so an operation is one step.  Its *)
(* fields are the nodes by page number, the root page, the header page's   *)
(* copy of it (saved) and header_dirty_, the pin count of every page, and  *)
(* what FileBufferPool keeps of the file: how many pages it may have, the  *)
(* pages used so far and those disposed.  torn and abort are history: torn says that a split was given *)
(* up half-way, abort that an ASSERT failed.  entries is what the chain of *)
(* leaves holds, leaks the pins that operations left behind.               *)
(*                                                                         *)
(* A node is a sequence of items <<key, page>>; in a leaf the page is      *)
(* NoPage and stands for the RID, which the key ends with.  The code       *)
(* counts items from 0, TLA+ from 1.  A key is attribute * RidSpan + rid.  *)
(***************************************************************************)
EXTENDS Integers, Sequences, FiniteSets

CONSTANTS Chars,        \* values of an attribute of one character
          Rids,         \* numbers that stand for RIDs
          RidSpan,      \* more than any of them: RID::max()
          LeafMax,      \* IndexFileHeader::leaf_max_size
          InternalMax,  \* IndexFileHeader::internal_max_size
          MaxPages,     \* bound: page numbers in any file
          UserKeys,     \* bounds of scans
          Files,        \* files at first: FileHeader::MAX_PAGE_NUM, the keys loaded,
                        \* and the bound on insertions and deletions after that
          MaxLeaks      \* bound: pins leaked

\* With fewer items a split or a merge reads an item that is not there; a node
\* of INTS or CHARS of ordinary length holds hundreds (PageLayout).
ASSUME TreeAssumption ==
    /\ Chars \subseteq Nat \ {0} /\ Rids \subseteq 1 .. RidSpan - 2
    /\ LeafMax \in Nat /\ LeafMax >= 4
    /\ InternalMax \in Nat /\ InternalMax >= 4
    /\ MaxPages \in Nat /\ \A f \in Files : f.limit \in 2 .. MaxPages

VARIABLES tree, entries, result, changes, leaks

vars == <<tree, entries, result, changes, leaks>>

NoPage == -1             \* BP_INVALID_PAGE_NUM
FirstIndexPage == 1
Pages == FirstIndexPage .. MaxPages - 1
Key(c, r) == c * RidSpan + r
Attr(k) == k \div RidSpan
Keys == {Key(c, r) : c \in Chars, r \in Rids}
NoKey == -1              \* no bound
MinRid == 0
MaxRid == RidSpan - 1

Size(t, p) == Len(t.nodes[p].items)
KeyAt(t, p, i) == t.nodes[p].items[i][1]
ValueAt(t, p, i) == t.nodes[p].items[i][2]
MaxSize(t, p) == IF t.nodes[p].leaf THEN LeafMax ELSE InternalMax
MinSize(t, p) == MaxSize(t, p) - MaxSize(t, p) \div 2
IsEmpty(t) == t.root = NoPage

HasRoom(t, p) == Size(t, p) < MaxSize(t, p)
Usable(t) == t.abort = {} /\ ~t.torn

EmptyNode(leaf, parent) == [leaf |-> leaf, parent |-> parent, next |-> NoPage, items |-> <<>>]

-----------------------------------------------------------------------------
(* The buffer pool as the tree uses it.                                    *)

GetThisPage(t, p) == [t EXCEPT !.pins[p] = @ + 1]
UnpinPage(t, p) == [t EXCEPT !.pins[p] = @ - 1]
UnpinPages(t, ps) == [t EXCEPT !.pins = [p \in DOMAIN @ |-> IF p \in ps THEN @[p] - 1 ELSE @[p]]]

\* A disposed page is taken again before a new one, and cannot be read
\* (BufferPool, AllocateReused).
AllocatePage(t) ==
    IF t.free # {}
    THEN [t EXCEPT !.rc = "IOERR_READ",
                   !.free = @ \ {CHOOSE p \in @ : \A q \in @ : p <= q}]
    ELSE IF t.count >= t.limit THEN [t EXCEPT !.rc = "BUFFERPOOL_NOBUF"]
    ELSE [t EXCEPT !.rc = "SUCCESS", !.count = @ + 1, !.pins[t.count] = 1]

\* FrameManager::free_internal asserts that nobody else has the page pinned.
DisposePage(t, p) ==
    IF t.pins[p] # 0 THEN [t EXCEPT !.abort = @ \cup {"dispose"}]
    ELSE [t EXCEPT !.free = @ \cup {p}, !.nodes[p] = EmptyNode(TRUE, NoPage)]

-----------------------------------------------------------------------------
(* Searching.                                                              *)

RECURSIVE LowerBound(_, _, _, _)
\* The loop of common::lower_bound over count items from the first on: the
\* position of the first item whose key is not less than val.
LowerBound(items, first, count, val) ==
    IF count = 0 THEN first
    ELSE LET step == count \div 2
             key == items[first + step][1]
         IN IF key = val THEN first + step
            ELSE IF key < val THEN LowerBound(items, first + step + 1, count - step - 1, val)
            ELSE LowerBound(items, first, step, val)

LeafLookup(t, p, key) == LowerBound(t.nodes[p].items, 1, Size(t, p), key)
Found(t, p, key) == LET i == LeafLookup(t, p, key)
                    IN i <= Size(t, p) /\ KeyAt(t, p, i) = key

\* The first key of an internal node is ignored.
InsertPosition(t, p, key) == LowerBound(t.nodes[p].items, 2, Size(t, p) - 1, key)
ChildLookup(t, p, key) ==
    LET i == InsertPosition(t, p, key)
    IN IF i > Size(t, p) \/ key < KeyAt(t, p, i) THEN i - 1 ELSE i

RECURSIVE Descend(_, _, _)
\* find_leaf_internal from page p: by key, or always to the first child.
Descend(t, p, key) ==
    IF t.nodes[p].leaf THEN p
    ELSE Descend(t, ValueAt(t, p, IF key = NoKey THEN 1 ELSE ChildLookup(t, p, key)), key)

FindLeaf(t, key) == Descend(t, t.root, key)
LeftMostPage(t) == Descend(t, t.root, NoKey)

-----------------------------------------------------------------------------
(* Changing nodes.                                                         *)

InsertItem(s, i, item) == SubSeq(s, 1, i - 1) \o <<item>> \o SubSeq(s, i, Len(s))
RemoveItem(s, i) == SubSeq(s, 1, i - 1) \o SubSeq(s, i + 1, Len(s))

SetItems(t, p, items) == [t EXCEPT !.nodes[p].items = items]
LeafInsert(t, p, i, key) == SetItems(t, p, InsertItem(t.nodes[p].items, i, <<key, NoPage>>))
NodeInsert(t, p, key, child) ==
    SetItems(t, p, InsertItem(t.nodes[p].items, InsertPosition(t, p, key), <<key, child>>))

\* copy_from, append, preappend: an internal node becomes the parent of the
\* children it is given.
Adopt(t, p, items) ==
    IF t.nodes[p].leaf THEN t
    ELSE [t EXCEPT !.nodes = [q \in DOMAIN @ |->
            IF \E i \in DOMAIN items : items[i][2] = q THEN [@[q] EXCEPT !.parent = p] ELSE @[q]]]

MoveHalfTo(t, p, q) ==
    LET items == t.nodes[p].items
        half == Len(items) \div 2
        moved == SubSeq(items, half + 1, Len(items))
    IN Adopt(SetItems(SetItems(t, p, SubSeq(items, 1, half)), q, moved), q, moved)

MoveFirstToEnd(t, p, q) ==
    LET item == <<Head(t.nodes[p].items)>>
    IN Adopt(SetItems(SetItems(t, p, Tail(t.nodes[p].items)), q, t.nodes[q].items \o item), q, item)

MoveLastToFront(t, p, q) ==
    LET items == t.nodes[p].items
        item == <<items[Len(items)]>>
    IN Adopt(SetItems(SetItems(t, p, SubSeq(items, 1, Len(items) - 1)), q,
                      item \o t.nodes[q].items), q, item)

MoveTo(t, p, q) ==
    LET items == t.nodes[p].items
    IN Adopt(SetItems(SetItems(t, p, <<>>), q, t.nodes[q].items \o items), q, items)

UpdateRootPageNum(t, p) == [t EXCEPT !.root = p, !.header_dirty = TRUE]
SetParent(t, p, parent) == [t EXCEPT !.nodes[p].parent = parent]

-----------------------------------------------------------------------------
(* insert_entry                                                            *)

\* The new page is page t.count; p keeps the lower half.
Split(t, p) ==
    LET a == AllocatePage(t)
        b == [a EXCEPT !.nodes[t.count] = EmptyNode(t.nodes[p].leaf, t.nodes[p].parent)]
    IN IF a.rc # "SUCCESS" THEN a ELSE MoveHalfTo(b, p, t.count)

CreateNewTree(t, key) ==
    LET a == AllocatePage(t)
        b == [a EXCEPT !.nodes[t.count] = EmptyNode(TRUE, NoPage)]
    IN IF a.rc # "SUCCESS" THEN a
       ELSE UnpinPage(UpdateRootPageNum(LeafInsert(b, t.count, 1, key), t.count), t.count)

\* The root was split into p and q: the new root's first key is zeroed.
CreateNewRoot(t, p, q, key) ==
    LET a == AllocatePage(t)
        r == t.count
        b == [a EXCEPT !.nodes[r] = [EmptyNode(FALSE, NoPage) EXCEPT
                                        !.items = <<<<0, p>>, <<key, q>>>>]]
    IN IF a.rc # "SUCCESS" THEN [a EXCEPT !.torn = TRUE]
       ELSE UnpinPages(UpdateRootPageNum(SetParent(SetParent(b, p, r), q, r), r), {p, q, r})

RECURSIVE InsertEntryIntoParent(_, _, _, _)
\* q was split off p, both pinned; key is the first key of q.
InsertEntryIntoParent(t, p, q, key) ==
    LET r == t.nodes[p].parent
        a == GetThisPage(t, r)
        b == Split(a, r)
        s == t.count
        into == IF key > KeyAt(b, s, 1) THEN s ELSE r
        c == UnpinPages(SetParent(NodeInsert(b, into, key, q), q, into), {p, q})
    IN IF r = NoPage THEN CreateNewRoot(t, p, q, key)
       ELSE IF HasRoom(t, r)
       THEN UnpinPages(SetParent(NodeInsert(a, r, key, q), q, r), {p, q, r})
       ELSE IF b.rc # "SUCCESS" THEN [UnpinPages(b, {p, q, r}) EXCEPT !.torn = TRUE]
       ELSE InsertEntryIntoParent(c, r, s, KeyAt(c, s, 1))

\* Mutant of InsertEntryIntoLeafNode: the new leaf is linked when its parent has it.
InsertEntryIntoLeafNode_LinksLast(t, p, key) ==
    LET i == LeafLookup(t, p, key)
        c == Split(t, p)
        q == t.count
        n == Size(c, p)
        d == IF i <= n THEN LeafInsert(c, p, i, key) ELSE LeafInsert(c, q, i - n, key)
        e == InsertEntryIntoParent(d, p, q, KeyAt(d, q, 1))
    IN IF Found(t, p, key) THEN [t EXCEPT !.rc = "RECORD_DUPLICATE_KEY"]
       ELSE IF HasRoom(t, p) THEN UnpinPage(LeafInsert(t, p, i, key), p)
       ELSE IF c.rc # "SUCCESS" THEN c
       ELSE IF e.rc # "SUCCESS" THEN e
       ELSE [e EXCEPT !.nodes[q].next = t.nodes[p].next, !.nodes[p].next = q]

\* A key that is there, and a leaf that cannot be split, stay pinned.
InsertEntryIntoLeafNode(t, p, key) ==
    LET i == LeafLookup(t, p, key)
        b == Split(t, p)
        q == t.count
        c == [b EXCEPT !.nodes[q].next = t.nodes[p].next, !.nodes[p].next = q]
        n == Size(c, p)
        d == IF i <= n THEN LeafInsert(c, p, i, key) ELSE LeafInsert(c, q, i - n, key)
    IN IF Found(t, p, key) THEN [t EXCEPT !.rc = "RECORD_DUPLICATE_KEY"]
       ELSE IF HasRoom(t, p) THEN UnpinPage(LeafInsert(t, p, i, key), p)
       ELSE IF b.rc # "SUCCESS" THEN b
       ELSE InsertEntryIntoParent(d, p, q, KeyAt(d, q, 1))

InsertEntry(t, key) ==
    LET t0 == [t EXCEPT !.rc = "SUCCESS"]
        p == FindLeaf(t, key)
    IN IF IsEmpty(t) THEN CreateNewTree(t0, key)
       ELSE InsertEntryIntoLeafNode(GetThisPage(t0, p), p, key)

-----------------------------------------------------------------------------
(* delete_entry                                                            *)

\* A root with one item: an empty leaf is given up, an only child becomes the root.
AdjustRoot(t, p) ==
    LET child == ValueAt(t, p, 1)
    IN IF t.nodes[p].leaf /\ Size(t, p) > 0 THEN UnpinPage(t, p)
       ELSE IF t.nodes[p].leaf
       THEN DisposePage(UnpinPage(UpdateRootPageNum(t, NoPage), p), p)
       ELSE DisposePage(UnpinPage(UpdateRootPageNum(SetParent(t, child, NoPage), child), p), p)

\* Mutant of Redistribute: the separator is taken before the item moves.
Redistribute_StaleKey(t, p, neighbor, parent, i) ==
    LET a == IF i = 1 THEN MoveFirstToEnd(t, neighbor, p) ELSE MoveLastToFront(t, neighbor, p)
        b == IF i = 1 THEN [a EXCEPT !.nodes[parent].items[2][1] = KeyAt(t, neighbor, 1)]
             ELSE [a EXCEPT !.nodes[parent].items[i][1] = KeyAt(t, p, 1)]
    IN UnpinPages(b, {p, neighbor, parent})

\* Mutant of Redistribute: the parent stays pinned.
Redistribute_KeepsPin(t, p, neighbor, parent, i) ==
    LET a == IF i = 1 THEN MoveFirstToEnd(t, neighbor, p) ELSE MoveLastToFront(t, neighbor, p)
        b == IF i = 1 THEN [a EXCEPT !.nodes[parent].items[2][1] = KeyAt(a, neighbor, 1)]
             ELSE [a EXCEPT !.nodes[parent].items[i][1] = KeyAt(a, p, 1)]
    IN UnpinPages(b, {p, neighbor})

\* One item of the neighbour is enough.
Redistribute(t, p, neighbor, parent, i) ==
    LET a == IF i = 1 THEN MoveFirstToEnd(t, neighbor, p) ELSE MoveLastToFront(t, neighbor, p)
        b == IF i = 1 THEN [a EXCEPT !.nodes[parent].items[2][1] = KeyAt(a, neighbor, 1)]
             ELSE [a EXCEPT !.nodes[parent].items[i][1] = KeyAt(a, p, 1)]
    IN UnpinPages(b, {p, neighbor, parent})

\* The part of coalesce before it turns to the parent: right into left.
Merge(t, left, right, parent, i) ==
    LET a == SetItems(t, parent, RemoveItem(t.nodes[parent].items, i))
        b == [MoveTo(a, right, left) EXCEPT !.nodes[left].next = t.nodes[right].next]
    IN DisposePage(UnpinPages(b, {left, right}), right)

Underfull(t, p) == Size(t, p) < MinSize(t, p)

RECURSIVE CoalesceOrRedistribute(_, _)
\* p is pinned.  Its place in its parent is looked up with its last key, and
\* asserted to be its own.
CoalesceOrRedistribute(t, p) ==
    LET parent == t.nodes[p].parent
        a == GetThisPage(t, parent)
        i == ChildLookup(t, parent, KeyAt(t, p, Size(t, p)))
        neighbor == ValueAt(t, parent, IF i = 1 THEN 2 ELSE i - 1)
        b == GetThisPage(a, neighbor)
        m == IF i = 1 THEN Merge(b, p, neighbor, parent, 2) ELSE Merge(b, neighbor, p, parent, i)
    IN IF ~Underfull(t, p) THEN UnpinPage(t, p)
       ELSE IF parent = NoPage
       THEN IF Size(t, p) > 1 THEN UnpinPage(t, p) ELSE AdjustRoot(t, p)
       ELSE IF Size(t, p) = 0 \/ Size(t, parent) < 2 THEN [a EXCEPT !.abort = @ \cup {"key_at"}]
       ELSE IF ValueAt(t, parent, i) # p THEN [a EXCEPT !.abort = @ \cup {"lookup"}]
       ELSE IF Size(t, p) + Size(t, neighbor) > MaxSize(t, p)
       THEN Redistribute(b, p, neighbor, parent, i)
       ELSE IF m.abort # {} THEN m
       ELSE CoalesceOrRedistribute(m, parent)

DeleteEntryInternal(t, p, key) ==
    LET a == SetItems(t, p, RemoveItem(t.nodes[p].items, LeafLookup(t, p, key)))
    IN IF ~Found(t, p, key) THEN UnpinPage([t EXCEPT !.rc = "RECORD_NOT_EXIST"], p)
       ELSE IF Size(a, p) >= MinSize(a, p) THEN UnpinPage(a, p)
       ELSE CoalesceOrRedistribute(a, p)

DeleteEntry(t, key) ==
    LET t0 == [t EXCEPT !.rc = "SUCCESS"]
        p == FindLeaf(t, key)
    IN IF IsEmpty(t) THEN [t0 EXCEPT !.rc = "RECORD_NOT_EXIST"]
       ELSE DeleteEntryInternal(GetThisPage(t0, p), p, key)

-----------------------------------------------------------------------------
(* BplusTreeScanner.  A user key is a sequence of one or two characters, of *)
(* which the attribute holds one; <<>> is no bound.                        *)

\* Mutant of FixUserKey: a cut lower bound stays at its value.
FixUserKey_Same(u, greater) ==
    IF Len(u) <= 1 \/ u[2] = 0 THEN [char |-> u[1], inclusive |-> FALSE]
    ELSE [char |-> u[1], inclusive |-> TRUE]

\* fix_user_key: a key longer than the attribute is cut, and since no attribute
\* equals it the bound becomes inclusive, from the next value on if it is a
\* lower one.
FixUserKey(u, greater) ==
    IF Len(u) <= 1 \/ u[2] = 0 THEN [char |-> u[1], inclusive |-> FALSE]
    ELSE [char |-> IF greater THEN u[1] + 1 ELSE u[1], inclusive |-> TRUE]

LeftKey(u, inclusive) ==
    LET f == FixUserKey(u, TRUE)
    IN Key(f.char, IF inclusive \/ f.inclusive THEN MinRid ELSE MaxRid)
RightKey(u, inclusive) ==
    LET f == FixUserKey(u, FALSE)
    IN IF u = <<>> THEN NoKey
       ELSE Key(f.char, IF inclusive \/ f.inclusive THEN MaxRid ELSE MinRid)

\* The check of open compares what fits the attribute.
InvalidRange(l, linc, r, rinc) ==
    /\ l # <<>> /\ r # <<>>
    /\ l[1] > r[1] \/ (l[1] = r[1] /\ ~(linc /\ rinc))

TouchEnd(t, p, i, right) == right # NoKey /\ KeyAt(t, p, i) > right

NoScan == [frame |-> NoPage, index |-> 1, leak |-> {}, rc |-> "SUCCESS"]

\* Where the scan starts.  When the leaf ends before the bound it goes on with
\* the next one, and leaves the first pinned.
StartOf(t, key) ==
    LET p == FindLeaf(t, key)
        i == LeafLookup(t, p, key)
    IN IF i <= Size(t, p) THEN [NoScan EXCEPT !.frame = p, !.index = i]
       ELSE IF t.nodes[p].next = NoPage THEN NoScan
       ELSE [NoScan EXCEPT !.frame = t.nodes[p].next, !.leak = {p}]

OpenScan(t, l, linc, r, rinc) ==
    LET start == IF l = <<>> THEN [NoScan EXCEPT !.frame = LeftMostPage(t)]
                 ELSE StartOf(t, LeftKey(l, linc))
    IN IF InvalidRange(l, linc, r, rinc) THEN [NoScan EXCEPT !.rc = "INVALID_ARGUMENT"]
       ELSE IF IsEmpty(t) THEN [NoScan EXCEPT !.rc = IF l = <<>> THEN "EMPTY" ELSE "SUCCESS"]
       ELSE IF start.frame # NoPage /\ TouchEnd(t, start.frame, start.index, RightKey(r, rinc))
       THEN [start EXCEPT !.frame = NoPage]
       ELSE start

RECURSIVE NextEntries(_, _, _, _)
\* next_entry until RECORD_EOF.  The first item is not compared with the bound:
\* open has done so.
NextEntries(t, s, right, first) ==
    IF s.frame = NoPage THEN <<>>
    ELSE IF first \/ (s.index <= Size(t, s.frame) /\ ~TouchEnd(t, s.frame, s.index, right))
    THEN <<KeyAt(t, s.frame, s.index)>> \o NextEntries(t, [s EXCEPT !.index = @ + 1], right, FALSE)
    ELSE IF s.index <= Size(t, s.frame) THEN <<>>
    ELSE NextEntries(t, [s EXCEPT !.frame = t.nodes[s.frame].next, !.index = 1], right, FALSE)

-----------------------------------------------------------------------------
(* The specification.                                                      *)

NewTree(limit) ==
           [nodes |-> [p \in Pages |-> EmptyNode(TRUE, NoPage)], root |-> NoPage,
            saved |-> NoPage, header_dirty |-> FALSE, pins |-> [p \in Pages |-> 0],
            limit |-> limit, count |-> FirstIndexPage + 1, free |-> {}, rc |-> "SUCCESS",
            torn |-> FALSE, abort |-> {}]

RECURSIVE LeafChain(_, _)
\* The leaves from p on.
LeafChain(t, p) == IF p = NoPage THEN <<>> ELSE <<p>> \o LeafChain(t, t.nodes[p].next)

Entries(t) ==
    IF IsEmpty(t) THEN {}
    ELSE LET chain == LeafChain(t, LeftMostPage(t))
         IN UNION {{KeyAt(t, chain[i], j) : j \in 1 .. Size(t, chain[i])} : i \in DOMAIN chain}

RECURSIVE Load(_, _)
Load(t, keys) == IF keys = <<>> THEN t ELSE Load(InsertEntry(t, Head(keys)), Tail(keys))

\* The keys of a file were all stored before its pages ran out.
Init == /\ \E f \in Files : tree = Load(NewTree(f.limit), f.keys) /\ changes = f.changes
        /\ Usable(tree) /\ \A p \in Pages : tree.pins[p] = 0
        /\ entries = Entries(tree)
        /\ result = "SUCCESS" /\ leaks = [p \in Pages |-> 0]

\* The operation leaves the pages ps, at most one, pinned.
Leaked(ps) == /\ leaks' = [p \in Pages |-> IF p \in ps THEN leaks[p] + 1 ELSE leaks[p]]
              /\ \A p \in ps : Cardinality({q \in Pages : leaks[q] > 0}) < MaxLeaks

Insert(k) ==
    /\ Usable(tree) /\ changes > 0 /\ changes' = changes - 1
    /\ tree' = InsertEntry(tree, k)
    /\ entries' = Entries(tree')
    /\ result' = tree'.rc
    /\ Leaked({p \in Pages : ~IsEmpty(tree) /\ p = FindLeaf(tree, k)
                              /\ (Found(tree, p, k)
                                  \/ (~HasRoom(tree, p) /\ Split(tree, p).rc # "SUCCESS"))})

Delete(k) ==
    /\ Usable(tree) /\ changes > 0 /\ changes' = changes - 1
    /\ tree' = DeleteEntry(tree, k)
    /\ entries' = Entries(tree')
    /\ result' = tree'.rc
    /\ UNCHANGED leaks

\* A whole scan: open, next_entry until it ends, close.  What it returns is
\* ScanResult; all it changes is the pin it may leave behind, which does not
\* depend on the upper bound.
ScanResult(t, l, linc, r, rinc) ==
    NextEntries(t, OpenScan(t, l, linc, r, rinc), RightKey(r, rinc), TRUE)

\* get_entry: the entries of one attribute value.
GetEntry(t, c) == ScanResult(t, <<c>>, TRUE, <<c>>, TRUE)

Scan(l, linc) ==
    LET s == OpenScan(tree, l, linc, <<>>, TRUE)
    IN /\ Usable(tree) /\ s.leak # {}
       /\ tree' = [tree EXCEPT !.pins = [p \in Pages |-> IF p \in s.leak THEN @[p] + 1 ELSE @[p]]]
       /\ Leaked(s.leak)
       /\ UNCHANGED <<entries, result, changes>>

Sync ==
    /\ Usable(tree) /\ tree.header_dirty
    /\ tree' = [tree EXCEPT !.saved = tree.root, !.header_dirty = FALSE]
    /\ UNCHANGED <<entries, result, changes, leaks>>

Next ==
    \/ \E k \in Keys : Insert(k) \/ Delete(k)
    \/ \E l \in UserKeys, linc \in BOOLEAN : Scan(l, linc)
    \/ Sync

Spec == Init /\ [][Next]_vars

-----------------------------------------------------------------------------
(* validate_tree, the code's own check.                                    *)

\* IndexNodeHandler::validate: a root has an item, an internal one has two.
ValidateRoot(t, p) ==
    t.nodes[p].parent = NoPage => Size(t, p) >= IF t.nodes[p].leaf THEN 1 ELSE 2

ValueIndex(t, parent, p) == {i \in 1 .. Size(t, parent) : ValueAt(t, parent, i) = p}

\* The keys from the from-th on lie between the separators of the parent.
ValidateInParent(t, p, from) ==
    LET parent == t.nodes[p].parent
    IN parent # NoPage =>
        /\ ValueIndex(t, parent, p) # {}
        /\ LET i == CHOOSE j \in ValueIndex(t, parent, p) : \A k \in ValueIndex(t, parent, p) : j <= k
           IN /\ i # 1 => KeyAt(t, p, from) >= KeyAt(t, parent, i)
              /\ i < Size(t, parent) => KeyAt(t, p, Size(t, p)) < KeyAt(t, parent, i + 1)

ValidateLeaf(t, p) ==
    /\ ValidateRoot(t, p)
    /\ \A i \in 2 .. Size(t, p) : KeyAt(t, p, i - 1) < KeyAt(t, p, i)
    /\ ValidateInParent(t, p, 1)

ValidateInternal(t, p) ==
    /\ ValidateRoot(t, p)
    /\ \A i \in 3 .. Size(t, p) : KeyAt(t, p, i - 1) < KeyAt(t, p, i)
    /\ \A i \in 1 .. Size(t, p) : t.nodes[ValueAt(t, p, i)].parent = p
    /\ ValidateInParent(t, p, 2)

RECURSIVE ValidateNode(_, _)
ValidateNode(t, p) ==
    IF t.nodes[p].leaf THEN ValidateLeaf(t, p)
    ELSE /\ ValidateInternal(t, p)
         /\ \A i \in 1 .. Size(t, p) : ValidateNode(t, ValueAt(t, p, i))

ValidateLeafLink(t) ==
    LET chain == LeafChain(t, LeftMostPage(t))
    IN \A i \in 2 .. Len(chain) :
        KeyAt(t, chain[i - 1], Size(t, chain[i - 1])) < KeyAt(t, chain[i], 1)

ValidateTree(t) == ~IsEmpty(t) => ValidateNode(t, t.root) /\ ValidateLeafLink(t)

-----------------------------------------------------------------------------
(* Properties.                                                             *)

RECURSIVE Leaves(_, _, _)
\* The leaves below p in order, each with its depth.
Leaves(t, p, d) ==
    IF t.nodes[p].leaf THEN <<<<p, d>>>>
    ELSE LET From[i \in 1 .. Size(t, p) + 1] ==
                IF i > Size(t, p) THEN <<>> ELSE Leaves(t, ValueAt(t, p, i), d + 1) \o From[i + 1]
         IN From[1]
AllLeaves == Leaves(tree, tree.root, 0)

Healthy == Usable(tree) /\ ~IsEmpty(tree)

\* The pages and counters of the tree keep their types: no pin count is negative
\* and no node outgrows its page.
TypeOK ==
    /\ tree.root \in Pages \cup {NoPage} /\ tree.saved \in Pages \cup {NoPage}
    /\ tree.count \in 2 .. tree.limit /\ tree.free \subseteq Pages
    /\ tree.pins \in [Pages -> Nat]
    /\ \A p \in Pages : Size(tree, p) <= MaxSize(tree, p)

\* Splits, merges and root changes keep the tree balanced: every leaf has the
\* same depth, no leaf but the root is less than half full, and the leaf chain
\* that scans follow is the leaves of the tree from left to right.
Balanced ==
    /\ \A i \in DOMAIN AllLeaves : AllLeaves[i][2] = AllLeaves[1][2]
    /\ LeafChain(tree, LeftMostPage(tree)) = [i \in DOMAIN AllLeaves |-> AllLeaves[i][1]]
    /\ \A i \in DOMAIN AllLeaves : AllLeaves[i][1] # tree.root =>
          Size(tree, AllLeaves[i][1]) >= LeafMax \div 2

\* validate_tree holds after every insert_entry and delete_entry, the tree is
\* balanced, and sync saves the root page whenever it has changed.
TreeValid ==
    /\ TypeOK
    /\ Usable(tree) => ValidateTree(tree)
    /\ Healthy => Balanced
    /\ tree.header_dirty \/ tree.saved = tree.root

\* Every pin taken by find_leaf, splits and merges is given back, except the
\* leaf of a refused insertion and the leaf a scan steps over when it opens.  So
\* the ASSERTs of a merge hold: a node finds its own place in its parent by its
\* last key, has a neighbour, and nobody else has the page it disposes pinned,
\* except for a pin leaked before.
PinsAccounted ==
    /\ tree.abort = {} /\ ~tree.torn => tree.pins = leaks
    /\ tree.abort # {} => tree.abort = {"dispose"} /\ \E p \in Pages : leaks[p] > 0

Index == INSTANCE OrderedIndex WITH AttrOf <- Attr

\* The tree is an ordered index: entries are added, refused and removed as the
\* return codes of insert_entry and delete_entry say, and nothing else is lost or
\* doubled by splits and merges at any level.  That includes the call that finds
\* no page after it has split the leaf, or a node above it, and gives up: the
\* leaves still hold every entry, though no key leads to the new node any more.
\* A tree torn so is not followed further.
ImplementsOrderedIndex == [][tree'.abort = {} => Index!Next \/ UNCHANGED Index!vars]_vars

\* A scan returns the entries between its bounds, in order and each once, over
\* leaf boundaries, cut bounds and bounds between two leaves.  A range is only
\* refused when nothing is in it, or when the part of the bounds that fits the
\* attribute is the same: open compares no more of them than that.
ScansExact ==
    Usable(tree) =>
     /\ \A c \in Chars : Index!IsScanOf(GetEntry(tree, c), <<c>>, TRUE, <<c>>, TRUE)
     /\ \A l, r \in UserKeys, linc, rinc \in BOOLEAN :
            IF OpenScan(tree, l, linc, r, rinc).rc = "SUCCESS"
            THEN Index!IsScanOf(ScanResult(tree, l, linc, r, rinc), l, linc, r, rinc)
            ELSE Index!InRange(l, linc, r, rinc) = {} \/ (l[1] = r[1] /\ Len(r) > 1)

=============================================================================

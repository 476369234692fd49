----------------------------- MODULE PageLayout -----------------------------
(***************************************************************************)
(* How RecordPageHandler::init_empty_page divides a page between its       *)
(* header, the slot bitmap and the records, for every record_size of a     *)
(* table.                                                                  *)
(***************************************************************************)
EXTENDS RecordManager

CONSTANTS PageDataSize,    \* BP_PAGE_DATA_SIZE
          PageHeaderSize,  \* sizeof(PageHeader)
          MaxRecordSize    \* bound: the largest record tried

ASSUME LayoutAssumption ==
    /\ PageDataSize \in Nat /\ PageHeaderSize \in Nat /\ MaxRecordSize \in Nat
    /\ PageHeaderSize % 4 = 0 /\ PageHeaderSize + 8 <= PageDataSize

-----------------------------------------------------------------------------

Align8(n) == ((n + 7) \div 8) * 8

\* (page_size - header - 1) / (record_size + 0.125), rounded down.
PageRecordCapacity(r) == (8 * (PageDataSize - PageHeaderSize - 1)) \div (8 * r + 1)

\* Mutant of PageBitmapSize: rounded down.
PageBitmapSize_Floor(c) == c \div 8

PageBitmapSize(c) == (c + 7) \div 8

\* One record less until the last one ends inside the page.
FixRecordCapacity(first, c, r) ==
    CHOOSE n \in 0 .. c : /\ n = 0 \/ first + n * r <= PageDataSize
                          /\ \A k \in n + 1 .. c : first + k * r > PageDataSize

\* The page header that init_empty_page writes.
InitEmptyPage(n) ==
    LET r == Align8(n)
        c == PageRecordCapacity(r)
        first == Align8(PageHeaderSize + PageBitmapSize(c))
    IN [record_size |-> r, first_record_offset |-> first,
        record_capacity |-> FixRecordCapacity(first, c, r)]

\* Some layout with c records of r bytes fits: the records start at a multiple of 8
\* behind the header and a bit for each.
Fits(c, r) == \E first \in {8 * k : k \in 0 .. PageDataSize \div 8} :
    first >= PageHeaderSize + (c + 7) \div 8 /\ first + c * r <= PageDataSize

\* The header is right for records of n bytes.
LayoutOK(n) ==
    LET header == InitEmptyPage(n)
    IN /\ header.first_record_offset + header.record_capacity * header.record_size <= PageDataSize
       /\ 8 * (header.first_record_offset - PageHeaderSize) >= header.record_capacity
       /\ ~Fits(header.record_capacity + 2, Align8(n))
       /\ Fits(1, Align8(n)) => header.record_capacity > 0

\* The ASSERT of init_empty_page, and what get_record_data relies on, for the first
\* page of a table with records of any size: the last record ends inside the page,
\* and no record overlaps the bitmap, whose size was computed before the capacity
\* was corrected.  What the capacity formula gives away by estimating the bitmap
\* first is at most one record per page, and never the only one: a page holds a
\* record whenever one fits, so a table whose rows fit can be filled.
LayoutFits == pages = <<>> => \A n \in 1 .. MaxRecordSize : LayoutOK(n)

=============================================================================

------------------------------ MODULE TableScan ------------------------------
(***************************************************************************)
(* A DELETE or UPDATE statement under the default transaction kit: the     *)
(* operator drives a RecordFileScanner over the table and, row by row,     *)
(* deletes the row it was given and, for UPDATE, inserts the new one into  *)
(* whichever page has room, in front of the scan or behind it.             *)
(*                                                                         *)
(* The scanner reads one record ahead: next() hands out the record it had  *)
(* fetched before and fetches another, moving its page handler when the    *)
(* page is exhausted.  It looks at the pages that existed when it was      *)
(* opened.  The statement follows any history of inserts and deletes.      *)
(***************************************************************************)
EXTENDS RecordManager

CONSTANTS AnyRow  \* the predicate that every row satisfies

ASSUME ScanAssumption == AnyRow \notin Values /\ Cardinality(Threads) = 1

VARIABLES scan,   \* the scanner: page and next slot of its iterators, record read ahead
          stmt,   \* the statement and the row it is at
          before  \* when the statement began: the rows with each value, and those it selects

scanVars == <<scan, stmt, before>>
allVars == <<vars, scanVars>>

\* The thread of the server, which runs one statement at a time.
Server == CHOOSE t \in Threads : TRUE

EOF == <<0, -1>>
NoStmt == [pc |-> "none", kind |-> "update", from |-> AnyRow, to |-> AnyRow,
           row |-> <<0, 0, Blank>>]
Rows(v) == Cardinality({r \in Stored : r[3] = v})
Selects(from, v) == from \in {AnyRow, v}

ScanInit ==
    /\ Init
    /\ scan = [page |-> 0, next |-> -1, limit |-> 0, rec |-> EOF, pinned |-> 0]
    /\ stmt = NoStmt
    /\ before = [rows |-> [v \in Values |-> 0], hit |-> 0]

-----------------------------------------------------------------------------
(* RecordFileScanner                                                       *)

\* RecordPageIterator: -1 when there is none.
NextSlot(p, s) == SlotMap!NextSettedBit(pages[p].bits, s)

ReadAt(sc, p, s) == [sc EXCEPT !.page = p, !.rec = <<p, s>>, !.next = NextSlot(p, s + 1),
                                !.pinned = p]

\* Mutant of FetchNextRecord: an empty page ends the scan.
FetchNextRecord_StopsAtEmpty(sc) ==
    IF sc.next # -1 THEN ReadAt(sc, sc.page, sc.next)
    ELSE IF sc.page < sc.limit /\ pages[sc.page + 1].bits # {}
         THEN ReadAt(sc, sc.page + 1, NextSlot(sc.page + 1, 0))
         ELSE [sc EXCEPT !.page = sc.limit, !.rec = EOF, !.pinned = 0]

\* Mutant of FetchNextRecord: after a page with records the scan starts over.
FetchNextRecord_Restarts(sc) ==
    LET ahead == {p \in 1 .. sc.limit : pages[p].bits # {}} IN
    IF sc.next # -1 THEN ReadAt(sc, sc.page, sc.next)
    ELSE IF ahead # {} THEN ReadAt(sc, Min(ahead), NextSlot(Min(ahead), 0))
    ELSE [sc EXCEPT !.page = sc.limit, !.rec = EOF, !.pinned = 0]

\* fetch_next_record: the rest of this page, or the first record of the next page
\* that has one, or the end, where the handler is cleaned up.
FetchNextRecord(sc) ==
    LET ahead == {p \in sc.page + 1 .. sc.limit : pages[p].bits # {}} IN
    IF sc.next # -1 THEN ReadAt(sc, sc.page, sc.next)
    ELSE IF ahead # {} THEN ReadAt(sc, Min(ahead), NextSlot(Min(ahead), 0))
    ELSE [sc EXCEPT !.page = sc.limit, !.rec = EOF, !.pinned = 0]

\* The scanner's handler moves from page p to page q, or to none.
MovePin(p, q) ==
    pins' = [x \in PageNums |-> pins[x] - (IF x = p THEN 1 ELSE 0) + (IF x = q THEN 1 ELSE 0)]

MoveScan(sc) == scan' = sc /\ MovePin(scan.pinned, sc.pinned)

-----------------------------------------------------------------------------
(* DeletePhysicalOperator and UpdatePhysicalOperator                       *)

\* open: of the scan operator and its scanner.
OpenScan(kind, from, to) ==
    /\ stmt.pc = "none" /\ At(Server, "idle")
    /\ MoveScan(FetchNextRecord([scan EXCEPT !.limit = Len(pages)]))
    /\ stmt' = [NoStmt EXCEPT !.pc = "next", !.kind = kind, !.from = from, !.to = to]
    /\ before' = [rows |-> [v \in Values |-> Rows(v)],
                  hit |-> Cardinality({r \in Stored : Selects(from, r[3])})]
    /\ UNCHANGED <<pages, free, lock, th, acked>>

\* next of the scan operator: a record and its predicate.
NextRow ==
    /\ stmt.pc = "next" /\ scan.rec # EOF
    /\ LET p == scan.rec[1]  s == scan.rec[2]  v == pages[p].data[s] IN
        stmt' = [stmt EXCEPT !.row = <<p, s, v>>,
                             !.pc = IF Selects(stmt.from, v) THEN "row" ELSE "next"]
    /\ MoveScan(FetchNextRecord(scan))
    /\ UNCHANGED <<pages, free, lock, th, acked, before>>

DeleteRow ==
    /\ stmt.pc = "row"
    /\ DeleteRecord(Server, stmt.row)
    /\ stmt' = [stmt EXCEPT !.pc = "deleting"]
    /\ UNCHANGED <<scan, before>>

RowDeleted ==
    /\ stmt.pc = "deleting" /\ stmt.kind = "delete" /\ At(Server, "idle")
    /\ stmt' = [stmt EXCEPT !.pc = IF th[Server].rc = "SUCCESS" THEN "next" ELSE "failed"]
    /\ UNCHANGED <<vars, scan, before>>

InsertRow ==
    /\ stmt.pc = "deleting" /\ stmt.kind = "update" /\ At(Server, "idle")
    /\ InsertRecord(Server, stmt.to)
    /\ stmt' = [stmt EXCEPT !.pc = "inserting"]
    /\ UNCHANGED <<scan, before>>

\* A failed insert would make the operator put the old row back and give up;
\* StatementEnds shows that it never does.
RowInserted ==
    /\ stmt.pc = "inserting" /\ At(Server, "idle")
    /\ stmt' = [stmt EXCEPT !.pc = IF th[Server].rc = "SUCCESS" THEN "next" ELSE "failed"]
    /\ UNCHANGED <<vars, scan, before>>

\* The scan is over: close_scan finds the handler cleaned up.
CloseScan ==
    /\ stmt.pc = "next" /\ scan.rec = EOF
    /\ stmt' = [stmt EXCEPT !.pc = "done"]
    /\ UNCHANGED <<vars, scan, before>>

Operator == NextRow \/ DeleteRow \/ RowDeleted \/ InsertRow \/ RowInserted \/ CloseScan
Call == Steps(Server) /\ UNCHANGED scanVars

ScanNext ==
    \/ stmt.pc = "none" /\ Next /\ UNCHANGED scanVars
    \/ \E from \in Values \cup {AnyRow} :
        \/ OpenScan("delete", from, AnyRow)
        \/ \E to \in Values : OpenScan("update", from, to)
    \/ Operator
    \/ stmt.pc # "none" /\ Call

ScanSpec == ScanInit /\ [][ScanNext]_allVars

-----------------------------------------------------------------------------
(* Properties.                                                             *)

\* A statement changes every row its predicate selects and no other, whatever
\* the layout of the pages, wherever the new rows of an UPDATE go, and although
\* slots are emptied and filled under the scanner.
StatementEffect ==
    stmt.pc = "done" => \A v \in Values :
        Rows(v) = (IF Selects(stmt.from, v) THEN 0 ELSE before.rows[v])
                  + (IF stmt.kind = "update" /\ v = stmt.to THEN before.hit ELSE 0)

\* No row fails: every row the scanner hands out still exists, and the slot its
\* deletion freed, or another, takes the new row, even with the file at its limit;
\* and the scanner gives back its pin when it reaches the end.
StatementEnds ==
    /\ stmt.pc # "failed"
    /\ stmt.pc = "done" => \A p \in PageNums : pins[p] = 0

\* An UPDATE that keeps moving rows ahead of its own scan meets them again, but
\* comes to an end: every record the scanner fetches lies behind the one before, in
\* the pages that were there when it was opened.
ScanAdvances ==
    [][stmt.pc # "none" /\ scan' # scan =>
        /\ scan'.limit = scan.limit
        /\ scan'.rec[1] <= scan.limit
        /\ \/ scan'.rec = EOF
           \/ scan'.rec[1] > scan.rec[1]
           \/ scan'.rec[1] = scan.rec[1] /\ scan'.rec[2] > scan.rec[2]]_allVars

=============================================================================

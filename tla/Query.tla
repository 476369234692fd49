-------------------------------- MODULE Query --------------------------------
(***************************************************************************)
(* The life of a statement in QueryEngine::planQuery and Executor::execute *)
(* under the default transaction kit: parse, analyze, plan, rewrite, open  *)
(* the operators, pull rows through them, answer.                          *)
(*                                                                         *)
(* A plan is a chain, kept as a sequence from the root down to the scan.   *)
(* A table is its slots; an insert takes the lowest free one, and a scan   *)
(* sees the rows there are when it is opened (module TableScan).           *)
(***************************************************************************)
EXTENDS Analyzer

CONSTANTS Texts,      \* the statements clients write
          MaxRows,    \* bound: rows in all tables together
          MaxFaults   \* bound: storage calls that fail in a statement

VARIABLES phase,   \* what comes next for the statement
          text,    \* the statement as written
          form,    \* its ParsedSqlNode, then its Stmt, then its plan
          ops,     \* the operators, with their state
          db,      \* for each table a function from slots in use to rows
          out,     \* the rows sent to the client
          rc,      \* the return code
          before,  \* db when the statement came
          faults   \* storage calls that have failed

vars == <<phase, text, form, ops, db, out, rc, before, faults>>

Slots == 1 .. MaxRows
NoText == [kind |-> "none"]
NoTuple == [k |-> "none"]

-----------------------------------------------------------------------------
(* Tuples, and the value of an expression over a tuple.                    *)

RowTuple(tab, alias, slot, row) ==
    [k |-> "row", tab |-> tab, alias |-> alias, slot |-> slot, row |-> row]
AggrTuple(names, cells) == [k |-> "aggr", names |-> names, cells |-> cells]

\* find_cell for a field: a row answers for its own table under its own alias.
FindCell(t, f) ==
    IF t.k = "row" /\ t.tab = f.tab /\ t.alias = f.alias
    THEN Ok(t.row[CHOOSE i \in DOMAIN t.row : Schema[t.tab][i].name = f.name])
    ELSE Error("NOTFOUND")

\* AggrExpr::get_value drops the return code of find_cell.
AggrCell(t, e) ==
    LET at == IF t.k = "aggr" THEN {i \in DOMAIN t.names : t.names[i] = e.name} ELSE {}
    IN IF at = {} THEN Undefined ELSE t.cells[Min(at)]

Calculated(e, l, r) ==
    IF l.rc # "SUCCESS" THEN l
    ELSE IF r.rc # "SUCCESS" THEN r ELSE Ok(CalcValue(e.op, ValueType(e), l.value, r.value))

RECURSIVE GetValue(_, _)
GetValue(e, t) ==
    CASE e.k = "value" -> Ok(e.value)
      [] e.k = "field" -> FindCell(t, e)
      [] e.k = "aggr" -> Ok(AggrCell(t, e))
      [] e.k = "values" -> Ok(Undefined)
      [] e.k = "arith" ->
           Calculated(e, GetValue(e.l, t), IF e.op = "neg" THEN Ok(Undefined) ELSE GetValue(e.r, t))

\* ComparisonExpr::compare_value.
CompareValue(c, x, y) ==
    CASE c.op \in {"EXISTS", "NOT_EXISTS"} ->
           IF c.l.k # "values" THEN Error("INVALID_ARGUMENT")
           ELSE Ok(Bool((c.l.list # <<>>) = (c.op = "EXISTS")))
      [] c.op \in {"IN", "NOT_IN"} ->
           IF c.r.k # "values" THEN Error("INVALID_ARGUMENT")
           ELSE Ok(Bool(ValueIn(x, c.r.list) = (c.op = "IN")))
      [] OTHER -> Ok(Bool(CompareScalars(c.op, x, y)))

Compared(c, l, r) ==
    IF l.rc # "SUCCESS" THEN l
    ELSE IF r.rc # "SUCCESS" THEN r ELSE CompareValue(c, l.value, r.value)
Comparison(c, t) ==
    Compared(c, GetValue(c.l, t), IF c.r = NoExpr THEN Ok(Undefined) ELSE GetValue(c.r, t))

\* ConjunctionExpr::get_value: the first child that fails or decides ends it.
Decided(type, results) ==
    LET stops == {i \in DOMAIN results :
                    \/ results[i].rc # "SUCCESS"
                    \/ GetBoolean(results[i].value) = (type = "OR")}
    IN IF results = <<>> THEN Ok(Bool(TRUE))
       ELSE IF stops = {} THEN Ok(Bool(type = "AND")) ELSE results[Min(stops)]
Conjunction(f, t) == Decided(f.type, [i \in DOMAIN f.units |-> Comparison(f.units[i], t)])

-----------------------------------------------------------------------------
(* LogicalPlanGenerator.  FROM is planned as its first table; JOIN and     *)
(* GROUP BY are not planned.                                               *)

Get(tab, alias) == [op |-> "scan", tab |-> tab, alias |-> alias, preds |-> <<>>]
Predicate(f) == IF f.units = <<>> THEN <<>> ELSE <<[op |-> "predicate", filter |-> f]>>

RECURSIVE AggrExprs(_)
AggrExprs(e) ==
    CASE e.k = "aggr" -> <<e>>
      [] e.k = "arith" -> AggrExprs(e.l) \o (IF e.r = NoExpr THEN <<>> ELSE AggrExprs(e.r))
      [] OTHER -> <<>>

SelectPlan(s) ==
    LET aggrs == FlattenSeq([i \in DOMAIN s.projects |-> AggrExprs(s.projects[i])])
    IN <<[op |-> "project", es |-> s.projects]>>
       \o (IF s.order = <<>> THEN <<>> ELSE <<[op |-> "order", units |-> s.order]>>)
       \o Predicate(s.having)
       \o (IF aggrs = <<>> THEN <<>> ELSE <<[op |-> "aggr", es |-> aggrs]>>)
       \o Predicate(s.where)
       \o <<Get(s.tables[1], s.aliases[1])>>

BasePlan(s) ==
    CASE s.kind = "SELECT" -> SelectPlan(s)
      [] s.kind = "INSERT" -> <<[op |-> "insert", tab |-> s.tab, rows |-> s.rows]>>
      [] s.kind = "DELETE" -> <<[op |-> "delete"]>> \o Predicate(s.where) \o <<Get(s.tab, s.tab)>>
      [] s.kind = "UPDATE" -> <<[op |-> "update", tab |-> s.tab, units |-> s.units]>>
                              \o Predicate(s.where) \o <<Get(s.tab, s.tab)>>

\* Mutant of LogicalPlan: EXPLAIN leaves nothing on top of its child.
LogicalPlan_ExplainRuns(s) == BasePlan(IF s.kind = "EXPLAIN" THEN s.child ELSE s)

RECURSIVE LogicalPlan(_)
LogicalPlan(s) ==
    IF s.kind = "EXPLAIN" THEN <<[op |-> "explain"]>> \o LogicalPlan(s.child) ELSE BasePlan(s)

\* getAggrExprs is called on both sides of a HAVING comparison, there or not.
RECURSIVE PlanRc(_)
PlanRc(s) ==
    CASE s.kind = "SELECT" ->
           IF \E i \in DOMAIN s.having.units : s.having.units[i].r = NoExpr THEN "CRASH" ELSE "SUCCESS"
      [] s.kind = "EXPLAIN" -> PlanRc(s.child)
      [] s.kind = "LOAD_DATA" -> "UNIMPLENMENT"
      [] OTHER -> "SUCCESS"

-----------------------------------------------------------------------------
(* PredicatePushdownRewriter: the comparisons of a conjunction that have a *)
(* field on a side go from the predicate to the scan right below it.       *)

Movable(c) == c.l.k = "field" \/ c.r.k = "field"

\* Mutant of PushedUnits: an OR is taken apart as well.
PushedUnits_OrToo(f) == SelectSeq(f.units, Movable)

PushedUnits(f) == IF f.type = "OR" THEN <<>> ELSE SelectSeq(f.units, Movable)
KeptUnits(f) == IF f.type = "OR" THEN f.units ELSE SelectSeq(f.units, LAMBDA c : ~Movable(c))

OverScan(plan) == Len(plan) > 1 /\ plan[Len(plan) - 1].op = "predicate"
Rewritten(plan) ==
    LET n == Len(plan) IN
    IF ~OverScan(plan) THEN plan
    ELSE [plan EXCEPT ![n].preds = PushedUnits(plan[n - 1].filter),
                      ![n - 1].filter.units = KeptUnits(plan[n - 1].filter)]


\* The type of the right side is asked for without looking whether there is one.
RewriteCrashes(plan) ==
    /\ OverScan(plan)
    /\ LET f == plan[Len(plan) - 1].filter
       IN f.type = "AND" /\ \E i \in DOMAIN f.units : f.units[i].l.k # "field" /\ f.units[i].r = NoExpr
-----------------------------------------------------------------------------
(* The operators.  Pulled is what next() returns: a return code, the state *)
(* of the operators after it, and the tuple that current_tuple() gives.    *)

ScanOperator(node) ==
    [node EXCEPT !.preds = [type |-> "AND", units |-> @]] @@ [rows |-> <<>>, at |-> 0]
Operator(node) ==
    CASE node.op = "scan" -> ScanOperator(node)
      [] node.op = "aggr" -> node @@ [first |-> TRUE]
      [] node.op = "order" -> node @@ [init |-> TRUE, st |-> <<>>, it |-> 1]
      [] node.op = "explain" -> node @@ [shown |-> FALSE]
      [] OTHER -> node

Pulled(code, chain, t) == [rc |-> code, ops |-> chain, tuple |-> t]
EOF(chain) == Pulled("RECORD_EOF", chain, NoTuple)

\* TableScanPhysicalOperator::next and filter.
ScanTuple(me, i) == RowTuple(me.tab, me.alias, me.rows[i].slot, me.rows[i].row)
ScanStop(me, verdicts) ==
    LET stops == {i \in DOMAIN verdicts :
                    verdicts[i].rc # "SUCCESS" \/ GetBoolean(verdicts[i].value)}
    IN IF stops = {} THEN EOF(<<[me EXCEPT !.at = Len(me.rows)]>>)
       ELSE Pulled(verdicts[Min(stops)].rc, <<[me EXCEPT !.at = Min(stops)]>>, ScanTuple(me, Min(stops)))
ScanNext(me) ==
    ScanStop(me, [i \in me.at + 1 .. Len(me.rows) |-> Conjunction(me.preds, ScanTuple(me, i))])

AggrUpdate(f, acc, x) ==
    CASE acc = Null -> x
      [] acc # Null /\ f = "MIN" -> IF Compare(acc, x) > 0 THEN x ELSE acc
      [] acc # Null /\ f = "MAX" -> IF Compare(acc, x) < 0 THEN x ELSE acc
      [] acc # Null /\ f \in {"SUM", "AVG"} ->
           (CASE x.type = "INTS" -> Value("INTS", Wrap(GetInt(acc) + x.v))
              [] x.type = "FLOATS" -> Value("FLOATS", GetFloat(acc) + x.v)
              [] OTHER -> acc)
      [] acc # Null /\ f = "COUNT" -> acc

\* What aggr_done leaves for an aggregate over the values that are not null.
AggrDone(f, values) ==
    LET acc == FoldLeft(LAMBDA a, x : AggrUpdate(f, a, x), Null, values)
    IN CASE f = "COUNT" -> Value("INTS", Len(values))
         [] f = "AVG" /\ values # <<>> -> Value("FLOATS", Quotient(GetFloat(acc), Len(values)))
         [] OTHER -> acc

\* AggrPhysicalOperator::next once the child has ended: an error of the child is an end
\* as well.  set_tuple moves the results out: a second round with rows finds an empty vector.
ArgCell(e, t) == IF e.arg.name = "*" THEN Ok(Bool(TRUE)) ELSE FindCell(t, e.arg)
KnownCells(cells) ==
    SelectSeq([i \in DOMAIN cells |-> cells[i].value], LAMBDA x : ~IsNull(x))
Aggregated(me, d, now, cells) ==
    IF d.rc = "CRASH" \/ (d.got # <<>> /\ ~me.first) THEN Pulled("CRASH", now, NoTuple)
    ELSE IF \E i \in DOMAIN cells : \E j \in DOMAIN cells[i] : cells[i][j].rc # "SUCCESS"
    THEN Pulled("NOTFOUND", now, NoTuple)
    ELSE IF ~me.first THEN EOF(now)
    ELSE Pulled("SUCCESS", now,
                AggrTuple([i \in DOMAIN me.es |-> me.es[i].name],
                          [i \in DOMAIN me.es |-> AggrDone(me.es[i].f, KnownCells(cells[i]))]))
AggrNext(me, d) ==
    Aggregated(me, d, <<[me EXCEPT !.first = FALSE]>> \o d.ops,
               [i \in DOMAIN me.es |-> [j \in DOMAIN d.got |-> ArgCell(me.es[i], d.got[j])]])

\* The order of the keys: nulls come first, or last when descending.
KeyOrder(unit, x, y) ==
    CASE IsNull(x) /\ IsNull(y) -> 0
      [] IsNull(x) /\ ~IsNull(y) -> IF unit.asc THEN -1 ELSE 1
      [] ~IsNull(x) /\ IsNull(y) -> IF unit.asc THEN 1 ELSE -1
      [] ~IsNull(x) /\ ~IsNull(y) -> IF unit.asc THEN Compare(x, y) ELSE -Compare(x, y)
FirstDiffers(orders) ==
    LET differs == {i \in DOMAIN orders : orders[i] # 0}
    IN differs # {} /\ orders[Min(differs)] < 0
Precedes(units, s, t) ==
    FirstDiffers([i \in DOMAIN units |->
        KeyOrder(units[i], GetValue(units[i].e, s).value, GetValue(units[i].e, t).value)])

\* std::sort on so few rows: each is put in front of all when it precedes the first,
\* and else behind the last one that it does not precede.
PutBehind(sorted, t, ahead) ==
    LET k == IF sorted = <<>> \/ ahead[1] THEN 0 ELSE Max({i \in DOMAIN ahead : ~ahead[i]})
    IN SubSeq(sorted, 1, k) \o <<t>> \o SubSeq(sorted, k + 1, Len(sorted))
InsertSorted(units, sorted, t) ==
    PutBehind(sorted, t, [i \in DOMAIN sorted |-> Precedes(units, t, sorted[i])])

SortTable(units, tuples) ==
    FoldLeft(LAMBDA sorted, t : InsertSorted(units, sorted, t), <<>>, tuples)

\* OrderPhysicalOperator::next hands out what it has sorted.
OrderGives(me, code, chain, st) ==
    LET now(it) == <<[me EXCEPT !.init = FALSE, !.st = st, !.it = it]>> \o chain
    IN IF code # "RECORD_EOF" THEN Pulled(code, now(me.it), NoTuple)
       ELSE IF me.it > Len(st) THEN EOF(now(me.it))
       ELSE Pulled("SUCCESS", now(me.it + 1), st[me.it])

RECURSIVE Pull(_), Drained(_, _)

\* Everything the child still gives, up to its end or its first error.
More(r, got) == IF r.rc = "SUCCESS" THEN Drained(r.ops, Append(got, r.tuple))
                ELSE [rc |-> r.rc, ops |-> r.ops, got |-> got]
Drained(chain, got) == More(Pull(chain), got)

Sorting(me, d) == OrderGives(me, d.rc, d.ops, SortTable(me.units, d.got))

\* PredicatePhysicalOperator::next: a row that does not satisfy it is passed over.
Judged(me, r, verdict) ==
    IF r.rc # "SUCCESS" THEN Pulled(r.rc, <<me>> \o r.ops, NoTuple)
    ELSE IF verdict.rc # "SUCCESS" THEN Pulled(verdict.rc, <<me>> \o r.ops, NoTuple)
    ELSE IF GetBoolean(verdict.value) THEN Pulled("SUCCESS", <<me>> \o r.ops, r.tuple)
    ELSE Pull(<<me>> \o r.ops)
Projected(me, r) == Pulled(r.rc, <<me>> \o r.ops, r.tuple)
PredicateNext(me, r) == Judged(me, r, Conjunction(me.filter, r.tuple))

\* ExplainPhysicalOperator::next: the plan is one row.
ExplainNext(me, rest) ==
    IF me.shown THEN EOF(<<me>> \o rest)
    ELSE Pulled("SUCCESS", <<[me EXCEPT !.shown = TRUE]>> \o rest, NoTuple)

Pull(chain) ==
    LET me == Head(chain)   rest == Tail(chain) IN
    CASE me.op = "scan" -> ScanNext(me)
      [] me.op = "predicate" -> PredicateNext(me, Pull(rest))
      [] me.op = "aggr" -> AggrNext(me, Drained(rest, <<>>))
      [] me.op = "order" -> IF me.init THEN Sorting(me, Drained(rest, <<>>))
                            ELSE OrderGives(me, "RECORD_EOF", rest, me.st)
      [] me.op = "project" -> Projected(me, Pull(rest))
      [] me.op = "explain" -> ExplainNext(me, rest)
      [] OTHER -> EOF(chain)
-----------------------------------------------------------------------------
(* Table::make_record and insert_record.                                   *)

\* The string an int or a float turns into, as its rank.
Printed(x) == CHOOSE i \in DOMAIN StringNumber : i > 1 /\ StringNumber[i] * Scale = GetFloat(x)

\* Mutant of StoredAs: the value keeps the type it was written with.
StoredAs_Unconverted(type, x) == x

\* change_record_value: the value as a column of the type gives it back.
StoredAs(type, x) ==
    CASE IsNull(x) \/ x.type = type -> x
      [] ~IsNull(x) /\ x.type # type /\ type = "FLOATS" -> Value(type, GetFloat(x))
      [] ~IsNull(x) /\ x.type # type /\ type \in {"INTS", "DATES"} -> Value(type, GetInt(x))
      [] ~IsNull(x) /\ x.type # type /\ type = "CHARS" -> Value(type, Printed(x))

Takes(column, x) ==
    IF IsNull(x) THEN column.nullable ELSE x.type = column.type \/ CastTo(column.type, x.type)
MakeRecord(tab, row) == [i \in DOMAIN row |-> StoredAs(Schema[tab][i].type, row[i])]

Free(t) == Slots \ DOMAIN t

Inserted(t, row) == t @@ (Min(Free(t)) :> row)
InsertedAll(t, tab, rows) ==
    FoldLeft(LAMBDA acc, row : Inserted(acc, MakeRecord(tab, row)), t, rows)
Deleted(t, slot) == [s \in DOMAIN t \ {slot} |-> t[s]]

\* The rows a scanner opened now is going to hand out.
Scanned(t) ==
    LET order == SetToSortSeq(DOMAIN t, LAMBDA i, j : i < j)
    IN [i \in DOMAIN order |-> [slot |-> order[i], row |-> t[order[i]]]]

-----------------------------------------------------------------------------
(* The statement's way.                                                    *)

Init ==
    /\ phase = "idle" /\ text = NoText /\ form = NoText /\ ops = <<>>
    /\ db = [tab \in DOMAIN Schema |-> <<>>]
    /\ out = <<>> /\ rc = "SUCCESS" /\ before = db /\ faults = 0

Answer(code) ==
    /\ rc' = code /\ phase' = IF code = "CRASH" THEN "crashed" ELSE "done"

\* What a statement may add at most; it has to fit the bound.
Grows(t) ==
    CASE t.kind = "INSERT" -> Len(t.rows)
      [] t.kind = "LOAD_DATA" -> Len(t.file)
      [] t.kind = "EXPLAIN" /\ t.stmt.kind = "INSERT" -> Len(t.stmt.rows)
      [] OTHER -> 0

Stored == MapThenSumSet(LAMBDA tab : Cardinality(DOMAIN db[tab]), DOMAIN Schema)

Submit ==
    /\ phase = "idle"
    /\ \E t \in Texts :
         /\ Grows(t) = 0 \/ Grows(t) + Stored <= MaxRows
         /\ text' = t
    /\ phase' = "parse" /\ before' = db
    /\ UNCHANGED <<form, ops, db, out, rc, faults>>

Parse ==
    /\ phase = "parse"
    /\ \E n \in {SqlNode(text)} :
         IF RefusedByParser(n) THEN Answer("INVALID_ARGUMENT") /\ UNCHANGED form
         ELSE form' = n /\ phase' = "analyze" /\ UNCHANGED rc
    /\ UNCHANGED <<text, ops, db, out, before, faults>>

Analyze ==
    /\ phase = "analyze"
    /\ \E s \in {CreateStmt(form)} :
         IF s.rc # "SUCCESS" THEN Answer(s.rc) /\ UNCHANGED form
         ELSE form' = s.stmt /\ phase' = "plan" /\ UNCHANGED rc
    /\ UNCHANGED <<text, ops, db, out, before, faults>>

\* A statement without a logical plan is a command: LOAD DATA runs as one.
PlanLogical ==
    /\ phase = "plan"
    /\ CASE PlanRc(form) = "SUCCESS" -> form' = LogicalPlan(form) /\ phase' = "rewrite" /\ UNCHANGED rc
         [] PlanRc(form) # "SUCCESS" /\ form.kind = "LOAD_DATA" -> phase' = "load" /\ UNCHANGED <<form, rc>>
         [] PlanRc(form) # "SUCCESS" /\ form.kind # "LOAD_DATA" -> Answer(PlanRc(form)) /\ UNCHANGED form
    /\ UNCHANGED <<text, ops, db, out, before, faults>>

Rewrite ==
    /\ phase = "rewrite"
    /\ IF RewriteCrashes(form) THEN Answer("CRASH") /\ UNCHANGED <<form, ops>>
       ELSE LET plan == Rewritten(form) IN
            /\ form' = plan /\ ops' = [i \in DOMAIN plan |-> Operator(plan[i])]
            /\ phase' = "open" /\ UNCHANGED rc
    /\ UNCHANGED <<text, db, out, before, faults>>

\* The opening of the operators ends at the one that inserts, or at the scan.
Bottom == ops[Len(ops)]

\* InsertPhysicalOperator::open inserts the rows one by one and stops at a failure.
OpenInsert ==
    /\ phase = "open" /\ Bottom.op = "insert"
    /\ \E n \in 0 .. Len(Bottom.rows) :
         LET all == n = Len(Bottom.rows) IN
         /\ all \/ faults < MaxFaults
         /\ db' = [db EXCEPT ![Bottom.tab] = InsertedAll(@, Bottom.tab, SubSeq(Bottom.rows, 1, n))]
         /\ IF all THEN phase' = "next" /\ UNCHANGED <<rc, faults>>
            ELSE Answer("IOERR") /\ faults' = faults + 1
    /\ UNCHANGED <<text, form, ops, out, before>>

\* UpdatePhysicalOperator::open checks the types of the new values.
UpdateFits(u) ==
    \A i \in DOMAIN u.units : Takes(Column(u.tab, u.units[i].name), u.units[i].value.value)

OpenScan ==
    /\ phase = "open" /\ Bottom.op = "scan"
    /\ ops' = [ops EXCEPT ![Len(ops)].rows = Scanned(db[Bottom.tab])]
    /\ IF \E i \in DOMAIN ops : ops[i].op = "update" /\ ~UpdateFits(ops[i])
       THEN Answer("SCHEMA_FIELD_TYPE_MISMATCH") ELSE phase' = "next" /\ UNCHANGED rc
    /\ UNCHANGED <<text, form, db, out, before, faults>>

Root == ops[1]

Send(cells) ==
    LET bad == {i \in DOMAIN cells : cells[i].rc # "SUCCESS"} IN
    IF bad # {} THEN Answer(cells[Min(bad)].rc) /\ UNCHANGED out
    ELSE out' = Append(out, [i \in DOMAIN cells |-> cells[i].value]) /\ UNCHANGED <<phase, rc>>

\* send_result: a row is evaluated cell by cell on its way out.
SendRow ==
    /\ phase = "next" /\ Root.op \in {"project", "explain", "insert"}
    /\ \E r \in {Pull(ops)} :
         /\ ops' = r.ops
         /\ CASE r.rc = "RECORD_EOF" -> Answer("SUCCESS") /\ UNCHANGED out
              [] r.rc \notin {"SUCCESS", "RECORD_EOF"} -> Answer(r.rc) /\ UNCHANGED out
              [] r.rc = "SUCCESS" ->
                   Send(IF Root.op = "explain" THEN <<>>
                        ELSE [i \in DOMAIN Root.es |-> GetValue(Root.es[i], r.tuple)])
    /\ UNCHANGED <<text, form, db, before, faults>>

\* What the child of DELETE or UPDATE gives next, and the row of it.
Child == Pull(Tail(ops))
Given(op, r) == Root.op = op /\ r.rc = "SUCCESS" /\ ops' = <<Root>> \o r.ops

\* The end of the child and an error of the child are the same to both operators.
LastRow ==
    /\ phase = "next" /\ Root.op \in {"delete", "update"}
    /\ \E r \in {Child} : r.rc # "SUCCESS" /\ Answer(IF r.rc = "CRASH" THEN "CRASH" ELSE "SUCCESS")
    /\ UNCHANGED <<text, form, ops, db, out, before, faults>>

DeleteRow ==
    /\ phase = "next" /\ Root.op = "delete"
    /\ \E r \in {Child} :
         Given("delete", r) /\ db' = [db EXCEPT ![r.tuple.tab] = Deleted(@, r.tuple.slot)]
    /\ UNCHANGED <<phase, text, form, out, rc, before, faults>>

\* The storage refuses the delete: the statement ends there.
DeleteFails ==
    /\ phase = "next" /\ Root.op \in {"delete", "update"}
    /\ \E r \in {Child} : Given(Root.op, r)
    /\ faults < MaxFaults /\ faults' = faults + 1
    /\ Answer("IOERR")
    /\ UNCHANGED <<text, form, db, out, before>>

NewRow(tab, units, row) ==
    [i \in DOMAIN row |->
        LET at == {j \in DOMAIN units : units[j].name = Schema[tab][i].name}
        IN IF at = {} THEN row[i] ELSE units[Min(at)].value.value]

\* The old row is deleted, then the new one is inserted.
UpdateRow ==
    /\ phase = "next" /\ Root.op = "update"
    /\ \E r \in {Child} :
         /\ Given("update", r)
         /\ LET t == r.tuple IN
              db' = [db EXCEPT ![t.tab] =
                        Inserted(Deleted(@, t.slot), MakeRecord(t.tab, NewRow(t.tab, Root.units, t.row)))]
    /\ UNCHANGED <<phase, text, form, out, rc, before, faults>>

\* Mutant of UpdateInsertFails: the old row is not put back.
UpdateInsertFails_RowLost ==
    /\ phase = "next" /\ Root.op = "update" /\ faults < MaxFaults /\ faults' = faults + 1
    /\ \E r \in {Child} :
         Given("update", r) /\ db' = [db EXCEPT ![r.tuple.tab] = Deleted(@, r.tuple.slot)]
    /\ Answer("IOERR")
    /\ UNCHANGED <<text, form, out, before>>

\* The storage refuses the new row: the old one is put back, unless it is refused too.
UpdateInsertFails ==
    /\ phase = "next" /\ Root.op = "update" /\ faults < MaxFaults
    /\ \E r \in {Child} :
         LET t == r.tuple
             without == Deleted(db[t.tab], t.slot)
         IN /\ Given("update", r)
            /\ \/ db' = [db EXCEPT ![t.tab] = Inserted(without, t.row)] /\ faults' = faults + 1
               \/ db' = [db EXCEPT ![t.tab] = without] /\ faults + 1 < MaxFaults /\ faults' = faults + 2
    /\ Answer("IOERR")
    /\ UNCHANGED <<text, form, out, before>>

\* insert_record_from_file: the values a line gives for the columns, as make_record
\* takes them; the stream reads an int for INTS and DATES and a float for FLOATS.
LineReads(column, x) ==
    CASE column.type \in {"INTS", "DATES"} -> x.type = "INTS"
      [] column.type = "FLOATS" -> x.type \in {"INTS", "FLOATS"}
      [] column.type = "CHARS" -> TRUE
LineValue(column, x) ==
    StoredAs(IF column.type = "DATES" THEN "INTS" ELSE column.type, x)
LineFits(tab, line) ==
    /\ Len(line) >= Len(Schema[tab])
    /\ \A i \in DOMAIN Schema[tab] :
         LineReads(Schema[tab][i], line[i]) /\ Takes(Schema[tab][i], LineValue(Schema[tab][i], line[i]))
LineRow(tab, line) == [i \in DOMAIN Schema[tab] |-> LineValue(Schema[tab][i], line[i])]

\* load_data: blank lines are skipped, and the first line that does not fit ends it.
LoadedLines(tab, file) ==
    LET bad == {i \in DOMAIN file : file[i] # <<>> /\ ~LineFits(tab, file[i])}
        good == SubSeq(file, 1, IF bad = {} THEN Len(file) ELSE Min(bad) - 1)
    IN SelectSeq(good, LAMBDA line : line # <<>>)

\* The return code is SUCCESS whatever happened to the lines.
LoadData ==
    /\ phase = "load"
    /\ LET lines == LoadedLines(form.tab, form.file) IN
         \E n \in 0 .. Len(lines) :
           /\ n = Len(lines) \/ faults < MaxFaults
           /\ faults' = IF n = Len(lines) THEN faults ELSE faults + 1
           /\ db' = [db EXCEPT ![form.tab] =
                       InsertedAll(@, form.tab, [i \in 1 .. n |-> LineRow(form.tab, lines[i])])]
    /\ Answer("SUCCESS")
    /\ UNCHANGED <<text, form, ops, out, before>>

Finish ==
    /\ phase = "done"
    /\ phase' = "idle" /\ text' = NoText /\ form' = NoText /\ ops' = <<>>
    /\ out' = <<>> /\ rc' = "SUCCESS" /\ before' = db /\ faults' = 0
    /\ UNCHANGED db

Next ==
    \/ Submit \/ Parse \/ Analyze \/ PlanLogical \/ Rewrite
    \/ OpenInsert \/ OpenScan \/ SendRow \/ LastRow
    \/ DeleteRow \/ DeleteFails \/ UpdateRow \/ UpdateInsertFails
    \/ LoadData \/ Finish

Spec == Init /\ [][Next]_vars

=============================================================================

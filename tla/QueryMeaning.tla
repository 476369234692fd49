----------------------------- MODULE QueryMeaning -----------------------------
(***************************************************************************)
(* What a written statement means, read straight off its text, and the     *)
(* properties that hold the pipeline of module Query to it: whatever the   *)
(* parser reverses, the analyzer resolves, the planner stacks and the      *)
(* rewriter moves, the answer is the meaning.                              *)
(*                                                                         *)
(* The statements whose answer is known to differ are named below, each by *)
(* a predicate of its own, and left out of what is claimed.                *)
(***************************************************************************)
EXTENDS Query

-----------------------------------------------------------------------------
(* Expressions and conditions, by their last operator of least precedence. *)

Cell(tab, row, name) == row[CHOOSE i \in DOMAIN row : Schema[tab][i].name = name]

RECURSIVE Meaning(_, _, _)

\* The value of a written expression in a row, with its static type.
Meaning(x, tab, row) ==
    LET sums == {i \in 2 .. Len(x) : x[i].op \in {"+", "-"}}
        at == IF sums # {} THEN Max(sums) ELSE Len(x)
        Ahead == SubSeq(x, 1, at - 1)
        Back == <<Operand("", x[at].e)>> \o SubSeq(x, at + 1, Len(x))
        Both(l, r) == [t |-> ArithmeticType(x[at].op, l.t, r.t),
                       v |-> CalcValue(x[at].op, ArithmeticType(x[at].op, l.t, r.t), l.v, r.v)]
        Base(e) == CASE e.k = "value" -> [t |-> e.value.type, v |-> e.value]
                     [] e.k = "attr" -> [t |-> Column(tab, e.name).type, v |-> Cell(tab, row, e.name)]
                     [] e.k = "paren" -> Meaning(e.x, tab, row)
        one == Base(x[1].e)
    IN IF Len(x) > 1 THEN Both(Meaning(Ahead, tab, row), Meaning(Back, tab, row))
       ELSE IF x[1].op = "neg" THEN [t |-> one.t, v |-> CalcValue("neg", one.t, one.v, Undefined)]
       ELSE one

\* A comparison with a null is not true, and an IN is a disjunction of equalities.
True(c, tab, row) ==
    LET x == Meaning(c.l, tab, row).v
        list == c.r[1].e.list
        Equal(y) == CompareScalars("EQUAL_TO", x, y)
    IN CASE c.op \in {"IS_NULL", "IS_NOT_NULL"} -> CompareScalars(c.op, x, Undefined)
         [] c.op = "IN" -> \E i \in DOMAIN list : Equal(list[i])
         [] c.op = "NOT_IN" -> \A i \in DOMAIN list : ~Equal(list[i])
         [] OTHER -> CompareScalars(c.op, x, Meaning(c.r, tab, row).v)

Satisfies(w, tab, row) ==
    IF "OR" \in Range(w.ops) THEN \E i \in DOMAIN w.list : True(w.list[i], tab, row)
    ELSE \A i \in DOMAIN w.list : True(w.list[i], tab, row)

-----------------------------------------------------------------------------
(* What is left out.                                                       *)

\* AND and OR in one clause: the first connective is taken for all.
Mixed(w) == {"AND", "OR"} \subseteq Range(w.ops)
\* A literal alone in brackets is a list, which has no value of its own.
RECURSIVE Bracketed(_)
Bracketed(x) ==
    \E i \in DOMAIN x : x[i].e.k = "paren"
        /\ ((Len(x[i].e.x) = 1 /\ x[i].e.x[1].e.k = "value") \/ Bracketed(x[i].e.x))
\* IN takes nothing but a list; and a null is found in a list that holds a zero.
OddList(c) == c.op \in {"IN", "NOT_IN"} /\ (Len(c.r) # 1 \/ c.r[1].e.k # "values")
ZeroList(c) == c.op \in {"IN", "NOT_IN"} /\ \E i \in DOMAIN c.r[1].e.list : GetFloat(c.r[1].e.list[i]) = 0
\* Aggregates have no value in WHERE.
HasAggr(x) == \E i \in DOMAIN x : x[i].e.k = "aggr"
\* A null test of anything but a column ends the server.
Fatal(w) == "OR" \notin Range(w.ops)
            /\ \E i \in DOMAIN w.list : w.list[i].r = <<>> /\ (Len(w.list[i].l) > 1 \/ w.list[i].l[1].e.k # "attr")

PlainCondition(c) ==
    /\ ~Bracketed(c.l) /\ ~HasAggr(c.l) /\ ~OddList(c)
    /\ c.r # <<>> => ~Bracketed(c.r) /\ ~HasAggr(c.r)
    /\ ~ZeroList(c)
PlainWhere(w) == ~Mixed(w) /\ ~Fatal(w) /\ \A i \in DOMAIN w.list : PlainCondition(w.list[i])

\* A SELECT from one table.
PlainSelect(t) ==
    /\ t.kind = "SELECT" /\ Len(t.rels) = 1 /\ t.joins = <<>> /\ t.group = <<>>
    /\ PlainWhere(t.where)

RowsOf(tab) == Scanned(before[tab])
Matching(t) == SelectSeq(RowsOf(t.rels[1].name), LAMBDA r : Satisfies(t.where, t.rels[1].name, r.row))

-----------------------------------------------------------------------------
(* SELECT.                                                                 *)

\* The cells that one item of the select list gives for a row.
ItemCells(x, tab, row) ==
    IF x = Alone(Attr("", "*")) THEN row ELSE <<Meaning(x, tab, row).v>>
Selected(t, r) ==
    FlattenSeq([i \in DOMAIN t.attrs |-> ItemCells(t.attrs[i], t.rels[1].name, r.row)])

PlainList(t) == \A i \in DOMAIN t.attrs : ~Bracketed(t.attrs[i]) /\ ~HasAggr(t.attrs[i])

\* A SELECT over one table answers with the select list of exactly the rows that satisfy
\* WHERE, in the order of the table, whichever conditions were pushed to the scan.
SelectRight ==
    phase = "done" /\ PlainSelect(text) /\ PlainList(text) /\ text.having.list = <<>>
        /\ text.order = <<>> /\ rc = "SUCCESS"
    => out = [i \in DOMAIN Matching(text) |-> Selected(text, Matching(text)[i])]

\* An ORDER BY that resolves names against FROM's alias loses its columns.
Aliased(t) == t.rels[1].alias \notin {"", t.rels[1].name}

\* Nulls are the least; the first key that differs decides.
Sorted(t, s, r) ==
    LET tab == t.rels[1].name
        x(i) == Cell(tab, s.row, t.order[i].attr.name)
        y(i) == Cell(tab, r.row, t.order[i].attr.name)
        Less(p, q) == ~IsNull(q) /\ (IsNull(p) \/ Compare(p, q) < 0)
        Strict(i) == IF t.order[i].dir = "DESC" THEN Less(y(i), x(i)) ELSE Less(x(i), y(i))
    IN \A i \in DOMAIN t.order :
          x(i) = y(i) \/ Strict(i) \/ \E j \in 1 .. i - 1 : Strict(j)

\* ORDER BY gives the same rows as without it, each once, arranged by the keys.
OrderRight ==
    phase = "done" /\ PlainSelect(text) /\ PlainList(text) /\ text.having.list = <<>>
        /\ text.order # <<>> /\ ~Aliased(text) /\ rc = "SUCCESS"
    => LET m == Matching(text) IN
       \E p \in Permutations(DOMAIN m) :
          /\ out = [i \in DOMAIN m |-> Selected(text, m[p[i]])]
          /\ \A i, j \in DOMAIN m : i < j => Sorted(text, m[p[i]], m[p[j]])

\* The meaning of an aggregate over the rows.
Aggregate(a, tab, rows) ==
    LET known == {i \in DOMAIN rows : a.arg.name = "*" \/ ~IsNull(Cell(tab, rows[i].row, a.arg.name))}
        val(i) == Cell(tab, rows[i].row, a.arg.name)
        total == MapThenSumSet(LAMBDA i : val(i).v, known)
        type == Column(tab, a.arg.name).type
    IN CASE a.f = "COUNT" -> Value("INTS", Cardinality(known))
         [] a.f # "COUNT" /\ known = {} -> Null
         [] a.f = "SUM" /\ known # {} -> Value(type, total)
         [] a.f = "AVG" /\ known # {} ->
              Value("FLOATS", Quotient(IF type = "INTS" THEN total * Scale ELSE total, Cardinality(known)))
         [] a.f = "MIN" /\ known # {} ->
              val(CHOOSE i \in known : \A j \in known : Compare(val(i), val(j)) <= 0)
         [] a.f = "MAX" /\ known # {} ->
              val(CHOOSE i \in known : \A j \in known : Compare(val(i), val(j)) >= 0)

AggrOnly(t) == \A i \in DOMAIN t.attrs : Len(t.attrs[i]) = 1 /\ t.attrs[i][1].e.k = "aggr"
AggrValue(t, e) == Aggregate(e, t.rels[1].name, Matching(t))

\* HAVING is about aggregates that are in the select list as well.
PlainHaving(t) ==
    \A i \in DOMAIN t.having.list :
       LET c == t.having.list[i] IN
       /\ \E j \in DOMAIN t.attrs : t.attrs[j] = c.l
       /\ c.r # <<>> /\ Len(c.r) = 1 /\ c.r[1].e.k = "value"

\* Aggregates without GROUP BY give one row, over the rows that satisfy WHERE and without
\* the nulls, and none when HAVING refuses it.
AggregateRight ==
    phase = "done" /\ PlainSelect(text) /\ AggrOnly(text) /\ PlainHaving(text) /\ rc = "SUCCESS"
    => LET kept == \A i \in DOMAIN text.having.list :
                      LET c == text.having.list[i] IN
                      CompareScalars(c.op, AggrValue(text, c.l[1].e), c.r[1].e.value)
       IN out = IF kept THEN <<[i \in DOMAIN text.attrs |-> AggrValue(text, text.attrs[i][1].e)]>>
                ELSE <<>>

-----------------------------------------------------------------------------
(* Statements that write.                                                  *)

Rows(t) == [row \in Range(t) |-> Cardinality({s \in DOMAIN t : t[s] = row})]

\* INSERT stores its rows in the order they are written, all of them or, when the storage
\* fails, those in front of the failure.
InsertPrefix ==
    phase = "done" /\ text.kind = "INSERT" /\ text.rel \in DOMAIN Schema
    => \E n \in 0 .. Len(text.rows) :
          /\ rc = "SUCCESS" <=> n = Len(text.rows)
          /\ db = [before EXCEPT ![text.rel] = InsertedAll(@, text.rel, SubSeq(text.rows, 1, n))]

\* DELETE without an OR removes the rows that satisfy WHERE and no other; when the storage
\* fails, nothing but such rows is gone.
DeleteExact ==
    phase = "done" /\ text.kind = "DELETE" /\ PlainWhere(text.where) /\ "OR" \notin Range(text.where.ops)
        /\ rc \in {"SUCCESS", "IOERR"}
    => LET gone == DOMAIN before[text.rel] \ DOMAIN db[text.rel]
           due == {s \in DOMAIN before[text.rel] :
                     Satisfies(text.where, text.rel, before[text.rel][s])}
       IN /\ \A s \in DOMAIN db[text.rel] : db[text.rel][s] = before[text.rel][s]
          /\ IF rc = "SUCCESS" THEN gone = due ELSE gone \subseteq due

\* UPDATE without an OR turns each row that satisfies WHERE into the row with the columns
\* that SET names replaced, and leaves the others.
UpdateExact ==
    phase = "done" /\ text.kind = "UPDATE" /\ PlainWhere(text.where) /\ "OR" \notin Range(text.where.ops)
        /\ rc = "SUCCESS"
    => LET tab == text.rel
           New(row) == [i \in DOMAIN row |->
                          LET s == {j \in DOMAIN text.set : text.set[j].name = Schema[tab][i].name}
                          IN IF s = {} THEN row[i]
                             ELSE StoredAs(Schema[tab][i].type, text.set[Min(s)].e[1].e.value)]
           Image(row) == IF Satisfies(text.where, tab, row) THEN New(row) ELSE row
       IN Rows(db[tab]) = Rows([s \in DOMAIN before[tab] |-> Image(before[tab][s])])

\* No single failure of the storage makes an UPDATE lose or duplicate a row.
UpdateKeepsRows ==
    phase = "done" /\ text.kind = "UPDATE" /\ faults <= 1
    => Cardinality(DOMAIN db[text.rel]) = Cardinality(DOMAIN before[text.rel])

\* LOAD DATA stores the lines in their order up to the first that does not fit its table,
\* and nothing of what is behind it.
LoadStops ==
    phase = "done" /\ text.kind = "LOAD_DATA" /\ rc = "SUCCESS"
    => LET tab == text.rel
           Good(i) == text.file[i] = <<>> \/ LineFits(tab, text.file[i])
           Lines(n) == SelectSeq(SubSeq(text.file, 1, n), LAMBDA line : line # <<>>)
       IN \E n \in 0 .. Len(text.file) :
            /\ \A i \in 1 .. n : Good(i)
            /\ faults = 0 => n = Len(text.file) \/ ~Good(n + 1)
            /\ db = [before EXCEPT ![tab] =
                       InsertedAll(@, tab, [i \in DOMAIN Lines(n) |-> LineRow(tab, Lines(n)[i])])]

\* Whichever way a row came in, its cells have the types of their columns, and a null is
\* only where the column takes one: the scan reads the bytes by the column's type.
StoredFits ==
    \A tab \in DOMAIN Schema : \A s \in DOMAIN db[tab] :
       /\ DOMAIN db[tab][s] = DOMAIN Schema[tab]
       /\ \A i \in DOMAIN Schema[tab] :
            LET x == db[tab][s][i]
            IN IF IsNull(x) THEN Schema[tab][i].nullable ELSE x.type = Schema[tab][i].type

Phases == {"idle", "parse", "analyze", "plan", "rewrite", "open", "next", "load", "done", "crashed"}

\* Every variable keeps its type; rows are in slots that the table has.
TypeOK ==
    /\ phase \in Phases /\ text \in Texts \cup {NoText}
    /\ DOMAIN db = DOMAIN Schema /\ \A tab \in DOMAIN Schema : DOMAIN db[tab] \subseteq Slots
    /\ DOMAIN before = DOMAIN Schema /\ faults \in 0 .. MaxFaults

\* What a SELECT answers is what its text means: the rows, their order, the aggregates.
ReadsRight == SelectRight /\ OrderRight /\ AggregateRight

\* What INSERT and LOAD DATA store is the rows of their text, or those in front of the first
\* that cannot be stored, in the types of their columns.
InsertsExact == TypeOK /\ InsertPrefix /\ LoadStops /\ StoredFits

\* DELETE and UPDATE change the rows their WHERE means and no other, and lose none, when
\* the storage fails too.
ChangesExact == DeleteExact /\ UpdateExact /\ UpdateKeepsRows

-----------------------------------------------------------------------------
(* All statements.                                                         *)

Explained(t) == IF t.kind = "EXPLAIN" THEN t.stmt ELSE t

\* A name without a table, at any depth of an expression; the '*' of COUNT is one.
RECURSIVE BareName(_)
BareName(x) ==
    \E i \in DOMAIN x :
       LET e == x[i].e IN
       \/ e.k = "attr" /\ e.rel = ""
       \/ e.k = "aggr" /\ e.arg.rel = ""
       \/ e.k = "paren" /\ BareName(e.x)
Unqualified(w) == \E i \in DOMAIN w.list : BareName(w.list[i].l) \/ BareName(w.list[i].r)

\* The clauses whose names are looked up in the only table, which FROM with several
\* does not have.
Clauses(t) == {t.where, t.having} \cup {t.joins[i].on : i \in DOMAIN t.joins}
\* An aggregate whose rows end in an error: the rows behind it meet an empty vector.
ErrsMidway(t) == \E i \in DOMAIN t.where.list : OddList(t.where.list[i])


\* SELECT changes no table, and EXPLAIN none either unless it explains an INSERT, whose
\* rows are inserted while the plan is opened.
ReadersChangeNothing ==
    [][text.kind = "SELECT" \/ (text.kind = "EXPLAIN" /\ text.stmt.kind # "INSERT") => UNCHANGED db]_vars

=============================================================================

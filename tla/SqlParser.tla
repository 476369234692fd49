------------------------------ MODULE SqlParser ------------------------------
(***************************************************************************)
(* The semantic actions of the grammar and Parser::parse: from a statement *)
(* as it is written to its ParsedSqlNode.                                  *)
(*                                                                         *)
(* A written statement is a record of its clauses in the order of the      *)
(* text; which rules apply to it is decided by the tables bison built.     *)
(* A written expression is a sequence of operands, each with the operator  *)
(* in front of it.  The lists of the grammar are right recursive, and each *)
(* rule appends its item to the list of the items behind it: a list        *)
(* arrives reversed, and most actions, not all, turn it round.             *)
(***************************************************************************)
EXTENDS SqlValues, SequencesExt

\* list: item COMMA list
RECURSIVE Collected(_)
Collected(items) ==
    IF items = <<>> THEN <<>> ELSE Append(Collected(Tail(items)), Head(items))

-----------------------------------------------------------------------------
(* Expressions.                                                            *)

NoExpr == [k |-> "none"]
Literal(x) == [k |-> "value", value |-> x]
Attr(rel, name) == [k |-> "attr", rel |-> rel, name |-> name]
Aggr(f, arg) == [k |-> "aggr", f |-> f, arg |-> arg]
Arith(op, l, r) == [k |-> "arith", op |-> op, l |-> l, r |-> r]
Values(list) == [k |-> "values", list |-> list]

\* An operand as written, and the expression of one operand.
Operand(op, e) == [op |-> op, e |-> e]
Alone(e) == <<Operand("", e)>>
Paren(x) == [k |-> "paren", x |-> x]

\* add_expr: add_expr '+' mul_expr and add_expr: mul_expr
JoinTerms(op, l, r) == IF op = "" THEN r ELSE Arith(op, l, r)

RECURSIVE Expr(_), BaseExpr(_)

\* base_expr.  A literal alone between brackets is the list of one value: of the two
\* reductions that apply, bison takes that of the rule that comes first.
BaseExpr(e) ==
    IF e.k # "paren" THEN e
    ELSE IF Len(e.x) = 1 /\ e.x[1].op = "" /\ e.x[1].e.k = "value"
         THEN Values(<<e.x[1].e.value>>)
         ELSE Expr(e.x)

\* add_expr and mul_expr: products are closed by the next '+' or '-', and both group
\* to the left.  A sign in front of an operand is a negation of that operand.
Expr(x) ==
    LET Signed(o) == IF o.op = "neg" THEN Arith("neg", BaseExpr(o.e), NoExpr) ELSE BaseExpr(o.e)
        Step(acc, o) ==
            IF o.op \in {"*", "/"}
            THEN [acc EXCEPT !.mul = Arith(o.op, acc.mul, BaseExpr(o.e))]
            ELSE [sum |-> JoinTerms(acc.op, acc.sum, acc.mul), op |-> o.op, mul |-> BaseExpr(o.e)]
        end == FoldLeft(Step, [sum |-> NoExpr, op |-> "", mul |-> Signed(x[1])], Tail(x))
    IN JoinTerms(end.op, end.sum, end.mul)

-----------------------------------------------------------------------------
(* Conditions.                                                             *)

Condition(l, op, r) == [l |-> l, op |-> op, r |-> r]
ParsedCondition(c) ==
    [l |-> Expr(c.l), op |-> c.op, r |-> IF c.r = <<>> THEN NoExpr ELSE Expr(c.r)]

\* condition_list: one connective for the whole list.  The rule of the first one is
\* reduced last and decides.
ConditionList(w) ==
    [type |-> IF w.ops = <<>> THEN "AND" ELSE Head(w.ops),
     conditions |-> Collected([i \in DOMAIN w.list |-> ParsedCondition(w.list[i])])]

-----------------------------------------------------------------------------
(* Statements.                                                             *)

\* The clauses.  The attributes stay reversed; SelectStmt reads them from the end.
SelectList(attrs) == Collected([i \in DOMAIN attrs |-> Expr(attrs[i])])
FromList(rels) == Reverse(Collected(rels))
JoinList(joins) ==
    LET listed == Reverse(Collected(joins)) IN
    [i \in DOMAIN listed |-> [rel |-> listed[i].rel,
                              on |-> Reverse(ConditionList(listed[i].on).conditions)]]
GroupList(attrs) == Reverse(Collected(attrs))
OrderList(keys) ==
    Reverse(Collected([i \in DOMAIN keys |-> [attr |-> keys[i].attr, asc |-> keys[i].dir # "DESC"]]))

\* select_stmt.  The relations of the joins are appended to those of FROM.
SelectNode(t) ==
    LET joins == JoinList(t.joins) IN
    [flag |-> "SELECT",
     attributes |-> SelectList(t.attrs),
     relations |-> FromList(t.rels) \o [i \in DOMAIN joins |-> joins[i].rel],
     join_lists |-> [i \in DOMAIN joins |-> joins[i].on],
     where |-> ConditionList(t.where), group |-> GroupList(t.group),
     having |-> ConditionList(t.having), order |-> OrderList(t.order)]

InsertNode(t) ==
    [flag |-> "INSERT", relation |-> t.rel,
     multi_values |-> Reverse(Collected([i \in DOMAIN t.rows |-> Reverse(Collected(t.rows[i]))]))]

\* delete_stmt and update_stmt take the conditions and drop their connective.
DeleteNode(t) ==
    [flag |-> "DELETE", relation |-> t.rel, conditions |-> ConditionList(t.where).conditions]

UpdateNode(t) ==
    [flag |-> "UPDATE", relation |-> t.rel,
     units |-> Reverse(Collected([i \in DOMAIN t.set |->
                  [name |-> t.set[i].name, value |-> Expr(t.set[i].e)]])),
     conditions |-> ConditionList(t.where).conditions]

\* The rules that only record names.
PlainNode(t) == [flag |-> t.kind, relation |-> t.rel]

RECURSIVE SqlNode(_)
SqlNode(t) ==
    CASE t.kind = "SELECT" -> SelectNode(t)
      [] t.kind = "INSERT" -> InsertNode(t)
      [] t.kind = "DELETE" -> DeleteNode(t)
      [] t.kind = "UPDATE" -> UpdateNode(t)
      [] t.kind = "EXPLAIN" -> [flag |-> "EXPLAIN", node |-> SqlNode(t.stmt)]
      [] t.kind = "LOAD_DATA" -> [flag |-> "LOAD_DATA", relation |-> t.rel, file |-> t.file]
      [] OTHER -> PlainNode(t)

-----------------------------------------------------------------------------
(* Parser::parse.                                                          *)

BadDate(x) == x.type = "DATES" /\ x.v <= 0
BadLiteral(e) == e.k = "value" /\ BadDate(e.value)

\* The dates that do not exist are refused in the rows of an INSERT and in the WHERE
\* of a SELECT, where they stand alone on a side of a comparison, and nowhere else.
RefusedByParser(n) ==
    \/ n.flag = "INSERT" /\ \E i \in DOMAIN n.multi_values :
                               \E j \in DOMAIN n.multi_values[i] : BadDate(n.multi_values[i][j])
    \/ n.flag = "SELECT" /\ \E i \in DOMAIN n.where.conditions :
                               \/ BadLiteral(n.where.conditions[i].l)
                               \/ BadLiteral(n.where.conditions[i].r)

=============================================================================

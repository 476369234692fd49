------------------------------- MODULE Analyzer -------------------------------
(***************************************************************************)
(* Stmt::create_stmt: from a ParsedSqlNode to a statement whose names are  *)
(* resolved against the opened tables, or to the return code that refuses  *)
(* it.  "CRASH" stands for a null pointer that is dereferenced.            *)
(***************************************************************************)
EXTENDS SqlParser

CONSTANT Schema   \* the opened tables: for each the sequence of its columns,
                  \* [name, type, nullable]

NullTable == "nullptr"

\* A sequence of results: the code stops at the first that fails.
FirstFailure(rcs) ==
    LET bad == {i \in DOMAIN rcs : rcs[i] # "SUCCESS"}
    IN IF bad = {} THEN "SUCCESS" ELSE rcs[CHOOSE i \in bad : \A j \in bad : i <= j]
Rcs(results) == [i \in DOMAIN results |-> results[i].rc]

Columns(tab) == {Schema[tab][i].name : i \in DOMAIN Schema[tab]}
Column(tab, name) == Schema[tab][CHOOSE i \in DOMAIN Schema[tab] : Schema[tab][i].name = name]
Field(tab, alias, name) ==
    [k |-> "field", tab |-> tab, alias |-> alias, name |-> name, type |-> Column(tab, name).type]
CountedRow(tab) == [k |-> "field", tab |-> tab, alias |-> tab, name |-> "*", type |-> "INTS"]

Done(e) == [rc |-> "SUCCESS", e |-> e]
Refused(rc) == [rc |-> rc, e |-> NoExpr]

\* Expression::value_type, which decides how arithmetic is done.
RECURSIVE ValueType(_)
ValueType(e) ==
    CASE e.k = "value" -> e.value.type
      [] e.k = "field" -> e.type
      [] e.k = "aggr" -> IF e.f = "COUNT" THEN "INTS" ELSE e.arg.type
      [] e.k = "arith" -> IF e.r = NoExpr THEN ValueType(e.l)
                          ELSE ArithmeticType(e.op, ValueType(e.l), ValueType(e.r))
      [] OTHER -> "UNDEFINED"

-----------------------------------------------------------------------------
(* analyze_expression: map takes the aliases in FROM to tables.            *)

AnalyzeAttr(e, map, tables) ==
    IF e.rel = ""
    THEN IF Len(tables) # 1 THEN Refused("SCHEMA_FIELD_MISSING")
         ELSE IF tables[1] = NullTable THEN Refused("CRASH")
         ELSE IF e.name \notin Columns(tables[1]) THEN Refused("SCHEMA_FIELD_MISSING")
         ELSE LET other == {a \in DOMAIN map : map[a] = tables[1] /\ a # tables[1]}
              IN Done(Field(tables[1], IF other = {} THEN tables[1] ELSE CHOOSE a \in other : TRUE,
                            e.name))
    ELSE IF e.rel \notin DOMAIN map \/ e.name \notin Columns(map[e.rel])
         THEN Refused("SCHEMA_FIELD_MISSING")
         ELSE Done(Field(map[e.rel], e.rel, e.name))

RECURSIVE AnalyzeExpr(_, _, _)

\* An aggregate keeps what was written for its name; results are looked up by name.
Named(e, arg) == [k |-> "aggr", f |-> e.f, arg |-> arg, name |-> e]

Over(e, arg) == IF arg.rc # "SUCCESS" THEN arg ELSE Done(Named(e, arg.e))

AnalyzeAggr(e, map, tables) ==
    IF e.arg = Attr("", "*")
    THEN IF e.f # "COUNT" /\ Len(tables) # 1 THEN Refused("SCHEMA_FIELD_MISSING")
         ELSE IF tables[1] = NullTable THEN Refused("CRASH")
         ELSE IF e.f # "COUNT" THEN Refused("INVALID_ARGUMENT")
         ELSE Done(Named(e, CountedRow(tables[1])))
    ELSE Over(e, AnalyzeExpr(e.arg, map, tables))

\* An operation on constants is done here.
Joined(e, l, r) ==
    IF l.rc # "SUCCESS" THEN l
    ELSE IF r.rc # "SUCCESS" THEN r
    ELSE IF l.e.k = "value" /\ r.e.k \in {"none", "value"}
    THEN Done(Literal(CalcValue(e.op, ValueType(e), l.e.value,
                                IF r.e.k = "none" THEN Undefined ELSE r.e.value)))
    ELSE Done(Arith(e.op, l.e, r.e))
AnalyzeArith(e, map, tables) ==
    Joined(e, AnalyzeExpr(e.l, map, tables),
           IF e.r = NoExpr THEN Done(NoExpr) ELSE AnalyzeExpr(e.r, map, tables))

AnalyzeExpr(e, map, tables) ==
    CASE e.k = "aggr" -> AnalyzeAggr(e, map, tables)
      [] e.k = "arith" -> AnalyzeArith(e, map, tables)
      [] e.k = "attr" -> AnalyzeAttr(e, map, tables)
      [] OTHER -> Done(e)

-----------------------------------------------------------------------------
(* The clauses.                                                            *)

AllColumns(tab, alias) ==
    [i \in DOMAIN Schema[tab] |-> Field(tab, alias, Schema[tab][i].name)]

\* _process_attribute_expression: an attribute of the select list, '*' included.
ProcessAttribute(e, tables, aliases) ==
    LET at == {i \in DOMAIN aliases : aliases[i] = e.rel}
        one == IF e.rel = "" THEN 1 ELSE CHOOSE i \in at : \A j \in at : i <= j
    IN IF e = Attr("", "*")
       THEN [rc |-> "SUCCESS",
             es |-> FlattenSeq([i \in DOMAIN tables |-> AllColumns(tables[i], aliases[i])])]
       ELSE IF (e.rel = "" /\ Len(tables) # 1) \/ (e.rel # "" /\ at = {})
       THEN [rc |-> "SCHEMA_FIELD_MISSING", es |-> <<>>]
       ELSE IF e.name = "*"
       THEN [rc |-> "SUCCESS", es |-> AllColumns(tables[one], aliases[one])]
       ELSE IF e.name \notin Columns(tables[one])
       THEN [rc |-> "SCHEMA_FIELD_MISSING", es |-> <<>>]
       ELSE [rc |-> "SUCCESS", es |-> <<Field(tables[one], aliases[one], e.name)>>]

Listed(a) == [rc |-> a.rc, es |-> IF a.rc = "SUCCESS" THEN <<a.e>> ELSE <<>>]

\* An item of the select list.
Project(e, map, tables, aliases) ==
    IF e.k = "attr" THEN ProcessAttribute(e, tables, aliases)
    ELSE Listed(AnalyzeExpr(e, map, tables))

Unit(op, l, r) ==
    [rc |-> FirstFailure(<<l.rc, r.rc>>), unit |-> [l |-> l.e, op |-> op, r |-> r.e]]

\* FilterStmt::create: the default table is the only one a name without a table is
\* looked up in, and there is none when FROM names several.
FilterUnit(c, map, default) ==
    Unit(c.op, AnalyzeExpr(c.l, map, <<default>>),
         IF c.r = NoExpr THEN Done(NoExpr) ELSE AnalyzeExpr(c.r, map, <<default>>))
Units(results) ==
    [rc |-> FirstFailure(Rcs(results)), units |-> [i \in DOMAIN results |-> results[i].unit]]
Filter(conditions, map, default) ==
    Units([i \in DOMAIN conditions |-> FilterUnit(conditions[i], map, default)])

\* get_table_and_field, for ORDER BY and GROUP BY: the field gets the table's name for
\* its alias.
TableAndField(a, map, default) ==
    LET tab == IF a.rel = "" THEN default
               ELSE IF a.rel \in DOMAIN map THEN map[a.rel] ELSE NullTable
    IN IF tab = NullTable THEN Refused("SCHEMA_TABLE_NOT_EXIST")
       ELSE IF a.name \notin Columns(tab) THEN Refused("SCHEMA_FIELD_NOT_EXIST")
       ELSE Done(Field(tab, tab, a.name))

GroupUnits(group, map, default) ==
    [i \in DOMAIN group |-> TableAndField(group[i], map, default)]

OrderUnits(order, map, default) ==
    Units([i \in DOMAIN order |->
              LET f == TableAndField(order[i].attr, map, default)
              IN [rc |-> f.rc, unit |-> [e |-> f.e, asc |-> order[i].asc]]])

\* Fields and aggregates stand side by side only when GROUP BY lists the fields.
MixedProjects(projects, group) ==
    /\ \E i \in DOMAIN projects : projects[i].k = "aggr"
    /\ \E i \in DOMAIN projects : projects[i].k = "field" /\ projects[i] \notin Range(group)

-----------------------------------------------------------------------------
(* The statements.                                                         *)

Stmt(rc, s) == [rc |-> rc, stmt |-> s]
NoStmt == [kind |-> "none"]

\* The tables of FROM and JOIN have to be there, under different aliases.
Found(names, aliases) ==
    FirstFailure([i \in DOMAIN names |->
                     IF \E j \in 1 .. i - 1 : aliases[j] = aliases[i] THEN "SQL_SYNTAX"
                     ELSE IF names[i] \notin DOMAIN Schema THEN "SCHEMA_TABLE_NOT_EXIST"
                     ELSE "SUCCESS"])
AliasMap(names, aliases) ==
    [x \in Range(aliases) |-> names[CHOOSE i \in DOMAIN aliases : aliases[i] = x]]

\* The statement, when none of its clauses fails.
SelectStmt(n, names, aliases, parts, joins, where, group, having, order) ==
    LET projects == FlattenSeq([i \in DOMAIN parts |-> parts[i].es])
        bad == FirstFailure(Rcs(parts) \o Rcs(joins) \o <<where.rc>> \o Rcs(group)
                            \o <<having.rc, order.rc>>)
    IN IF bad # "SUCCESS" THEN Stmt(bad, NoStmt)
       ELSE IF MixedProjects(projects, [i \in DOMAIN group |-> group[i].e])
       THEN Stmt("INVALID_ARGUMENT", NoStmt)
       ELSE Stmt("SUCCESS", [kind |-> "SELECT", tables |-> names, aliases |-> aliases,
                             projects |-> projects,
                             where |-> [type |-> n.where.type, units |-> where.units],
                             having |-> [type |-> n.having.type, units |-> having.units],
                             order |-> order.units])

\* The select list is read from the last of the attributes the parser collected.
ResolvedSelect(n, names, aliases, map, default) ==
    SelectStmt(n, names, aliases,
           LET attrs == Reverse(n.attributes)
           IN [i \in DOMAIN attrs |-> Project(attrs[i], map, names, aliases)],
           [i \in DOMAIN n.join_lists |-> Filter(n.join_lists[i], map, default)],
           Filter(n.where.conditions, map, default),
           GroupUnits(n.group, map, default),
           Filter(n.having.conditions, map, default),
           OrderUnits(n.order, map, default))

\* SelectStmt::create.
SelectFrom(n, names, aliases) ==
    IF Found(names, aliases) # "SUCCESS" THEN Stmt(Found(names, aliases), NoStmt)
    ELSE ResolvedSelect(n, names, aliases, AliasMap(names, aliases),
                        IF Len(names) = 1 THEN names[1] ELSE NullTable)
CreateSelect(n) ==
    SelectFrom(n, [i \in DOMAIN n.relations |-> n.relations[i].name],
               [i \in DOMAIN n.relations |->
                   LET r == n.relations[i] IN IF r.alias = "" THEN r.name ELSE r.alias])

RowFits(tab, row) ==
    \A i \in DOMAIN row : IF IsNull(row[i]) THEN Schema[tab][i].nullable
                          ELSE row[i].type = Schema[tab][i].type

CreateInsert(n) ==
    LET rows == n.multi_values IN
    IF n.relation \notin DOMAIN Schema THEN Stmt("SCHEMA_TABLE_NOT_EXIST", NoStmt)
    ELSE IF \E i \in DOMAIN rows : Len(rows[i]) # Len(Schema[n.relation])
    THEN Stmt("SCHEMA_FIELD_MISSING", NoStmt)
    ELSE IF \E i \in DOMAIN rows : ~RowFits(n.relation, rows[i])
    THEN Stmt("SCHEMA_FIELD_TYPE_MISMATCH", NoStmt)
    ELSE Stmt("SUCCESS", [kind |-> "INSERT", tab |-> n.relation, rows |-> rows])

Single(tab) == [a \in {tab} |-> tab]

DeleteWhere(tab, f) ==
    Stmt(f.rc, [kind |-> "DELETE", tab |-> tab, where |-> [type |-> "AND", units |-> f.units]])
CreateDelete(n) ==
    IF n.relation \notin DOMAIN Schema THEN Stmt("SCHEMA_TABLE_NOT_EXIST", NoStmt)
    ELSE DeleteWhere(n.relation, Filter(n.conditions, Single(n.relation), n.relation))

\* The new values have to be literals.
UpdateUnits(tab, units) ==
    FirstFailure([i \in DOMAIN units |->
                     IF units[i].name \notin Columns(tab) THEN "SCHEMA_FIELD_NOT_EXIST"
                     ELSE IF units[i].value.k # "value" THEN "INVALID_ARGUMENT" ELSE "SUCCESS"])
UpdateWhere(tab, units, f) ==
    Stmt(FirstFailure(<<UpdateUnits(tab, units), f.rc>>),
         [kind |-> "UPDATE", tab |-> tab, units |-> units,
          where |-> [type |-> "AND", units |-> f.units]])
CreateUpdate(n) ==
    IF n.relation \notin DOMAIN Schema THEN Stmt("SCHEMA_TABLE_NOT_EXIST", NoStmt)
    ELSE UpdateWhere(n.relation, n.units, Filter(n.conditions, Single(n.relation), n.relation))

\* LoadDataStmt::create; a file is the sequence of its lines, and <<>> is not there.
CreateLoadData(n) ==
    IF n.relation \notin DOMAIN Schema THEN Stmt("SCHEMA_TABLE_NOT_EXIST", NoStmt)
    ELSE IF n.file = <<>> THEN Stmt("FILE_NOT_EXIST", NoStmt)
    ELSE Stmt("SUCCESS", [kind |-> "LOAD_DATA", tab |-> n.relation, file |-> n.file])

\* ExplainStmt::create, over the result for the statement explained.
CreateExplain(child) == Stmt(child.rc, [kind |-> "EXPLAIN", child |-> child.stmt])

RECURSIVE CreateStmt(_)
CreateStmt(n) ==
    CASE n.flag = "SELECT" -> CreateSelect(n)
      [] n.flag = "INSERT" -> CreateInsert(n)
      [] n.flag = "DELETE" -> CreateDelete(n)
      [] n.flag = "UPDATE" -> CreateUpdate(n)
      [] n.flag = "LOAD_DATA" -> CreateLoadData(n)
      [] n.flag = "EXPLAIN" -> CreateExplain(CreateStmt(n.node))
      [] OTHER -> Stmt("UNIMPLENMENT", NoStmt)

=============================================================================

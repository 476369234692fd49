------------------------------- MODULE MCQuery -------------------------------
(***************************************************************************)
(* Two tables and a few dozen statements over them.                        *)
(***************************************************************************)
EXTENDS QueryMeaning

Col(name, type, nullable) == [name |-> name, type |-> type, nullable |-> nullable]
MCSchema ==
    [t |-> <<Col("a", "INTS", TRUE), Col("b", "FLOATS", FALSE)>>,
     u |-> <<Col("s", "CHARS", TRUE), Col("d", "DATES", FALSE)>>]

\* "", "1", "2", "3" and "x".
MCStringNumber == <<0, 1, 2, 3, 0>>

N(n) == Literal(Value("INTS", n))
F(n) == Literal(Value("FLOATS", n))
S(n) == Literal(Value("CHARS", n))
D(y, m, d) == Literal(DateOf(y, m, d))
NULL == Literal(Null)
a == Attr("", "a")
b == Attr("", "b")
Star == Attr("", "*")
Count == Aggr("COUNT", Star)

\* Written expressions: e, e op f, e op f op g.
One(e) == Alone(e)
Two(e, op, f) == <<Operand("", e), Operand(op, f)>>
Three(e, op, f, op2, g) == Two(e, op, f) \o <<Operand(op2, g)>>
Neg(e) == <<Operand("neg", e)>>

C(l, op, r) == Condition(l, op, r)
Conditions ==
    {C(One(a), "LESS_THAN", One(N(2))), C(One(a), "IS_NULL", <<>>),
     C(One(N(1)), "LESS_EQUAL", One(b)), C(Two(a, "+", N(1)), "GREAT_THAN", One(b)),
     C(Three(b, "-", a, "-", N(1)), "EQUAL_TO", One(F(-2)))}
MoreConditions ==
    {C(One(a), "IN", One(Values(<<Value("INTS", 1), Value("INTS", 3)>>))),
     C(One(a), "NOT_IN", One(Values(<<Value("INTS", 0)>>))),
     C(One(a), "IN", One(b)), C(One(a), "EQUAL_TO", One(NULL)),
     C(Two(a, "+", N(1)), "IS_NOT_NULL", <<>>),
     C(One(a), "EQUAL_TO", One(Paren(One(N(1))))),
     C(One(a), "GREAT_EQUAL", One(Paren(Two(N(3), "-", N(1))))),
     C(Two(a, "/", b), "NOT_EQUAL", Neg(N(1))), C(One(Attr("t", "b")), "EQUAL_TO", One(N(1))),
     C(One(Attr("x", "a")), "EQUAL_TO", One(N(1))), C(One(Attr("", "z")), "EQUAL_TO", One(N(1))),
     C(One(Values(<<>>)), "EXISTS", <<>>), C(One(Count), "GREAT_THAN", One(N(0)))}

W(list, ops_) == [list |-> list, ops |-> ops_]
All == W(<<>>, <<>>)
Wheres ==
    {All} \cup {W(<<c>>, <<>>) : c \in Conditions \cup MoreConditions}
    \cup {W(<<c, e>>, <<op>>) : c \in Conditions, e \in Conditions, op \in {"AND", "OR"}}
SomeWheres ==
    {All} \cup {W(<<c>>, <<>>) : c \in Conditions}
    \cup {W(<<C(One(a), "EQUAL_TO", One(N(1))), C(One(a), "IN", One(b))>>, <<"OR">>)}

Rel(name, alias) == [name |-> name, alias |-> alias]
From(name) == <<Rel(name, "")>>
Select(attrs, rels, where) ==
    [kind |-> "SELECT", attrs |-> attrs, rels |-> rels, joins |-> <<>>, where |-> where,
     group |-> <<>>, having |-> All, order |-> <<>>]
Order(q, order) == [q EXCEPT !.order = order]
Key(e, dir) == [attr |-> e, dir |-> dir]
Having(q, c) == [q EXCEPT !.having = W(<<c>>, <<>>)]

Lists == {<<One(Star)>>, <<One(b), One(a)>>, <<Three(a, "+", b, "*", N(2)), One(a)>>,
          <<Three(b, "-", N(1), "-", a), Neg(a)>>}
AggrLists == {<<One(Count)>>, <<One(Aggr("SUM", a)), One(Aggr("COUNT", a))>>,
              <<One(Aggr("MAX", b)), One(Aggr("MIN", a)), One(Aggr("AVG", a))>>,
              <<Two(Count, "+", N(1))>>, <<One(a), One(Count)>>}

Selects ==
    {Select(<<One(Star)>>, From("t"), w) : w \in Wheres}
    \cup {Select(l, From("t"), All) : l \in Lists}
    \cup {Select(l, From("t"), w) : l \in AggrLists, w \in SomeWheres}
    \cup {Order(Select(l, From("t"), All), o) :
             l \in {<<One(Star)>>, <<One(b)>>, <<One(Count)>>},
             o \in {<<Key(a, "")>>, <<Key(b, "DESC"), Key(a, "ASC")>>, <<Key(a, "DESC")>>}}
    \cup {Having(Select(<<One(Count)>>, From("t"), All), c) :
             c \in {C(One(Count), "GREAT_THAN", One(N(1))), C(One(Aggr("SUM", a)), "EQUAL_TO", One(N(1))),
                    C(One(Count), "IS_NULL", <<>>)}}
    \cup {Having(Select(<<One(a)>>, From("t"), All), C(One(b), "GREAT_THAN", One(N(1))))}
    \* Aliases, several tables, joins, names that are not there.
    \cup {Select(<<One(Attr("x", "a"))>>, <<Rel("t", "x")>>, w) : w \in SomeWheres}
    \cup {Order(Select(<<One(a)>>, <<Rel("t", "x")>>, All), <<Key(a, "")>>)}
    \cup {Select(<<One(Attr("t", "a"))>>, <<Rel("t", ""), Rel("u", "")>>, w) :
             w \in {All, W(<<C(One(Attr("u", "s")), "EQUAL_TO", One(S(1)))>>, <<>>),
                    W(<<C(One(a), "EQUAL_TO", One(N(1)))>>, <<>>)}}
    \cup {[Select(<<One(Attr("t", "a"))>>, From("t"), All) EXCEPT !.joins = <<[rel |-> Rel("u", ""), on |-> W(<<c>>, <<>>)]>>] :
             c \in {C(One(Attr("t", "a")), "EQUAL_TO", One(Attr("u", "s"))), C(One(Attr("t", "a")), "EQUAL_TO", One(Attr("", "s"))),
                    C(One(Attr("v", "a")), "EQUAL_TO", One(Attr("", "s"))),
                    C(One(Paren(Two(a, "+", N(1)))), "EQUAL_TO", One(Attr("u", "s")))}}
    \cup {Having(Select(<<One(Attr("t", "a"))>>, <<Rel("t", ""), Rel("u", "")>>, All), c) :
             c \in {C(One(Count), "GREAT_THAN", One(N(1))), C(One(Aggr("SUM", Attr("t", "a"))), "GREAT_THAN", One(N(1)))}}
    \cup {Select(<<One(Star)>>, From("v"), All), Select(<<One(Attr("", "z"))>>, From("t"), All),
          Select(<<One(Star)>>, <<Rel("t", ""), Rel("t", "")>>, All),
          Select(<<One(Star)>>, From("u"), W(<<C(One(Attr("", "d")), "LESS_THAN", One(D(2023, 2, 29)))>>, <<>>)),
          Select(<<One(Star)>>, From("u"), W(<<C(One(Attr("", "d")), "LESS_THAN", One(D(2024, 2, 29)))>>, <<>>)),
          [Select(<<One(a), One(Count)>>, From("t"), All) EXCEPT !.group = <<a>>]}

V(e) == e.value
Insert(tab, rows) == [kind |-> "INSERT", rel |-> tab, rows |-> rows]
Inserts ==
    {Insert("t", <<<<V(N(1)), V(F(2))>>, <<V(NULL), V(F(1))>>>>), Insert("t", <<<<V(N(3)), V(F(2))>>>>),
     Insert("t", <<<<V(N(2)), V(NULL)>>>>), Insert("t", <<<<V(N(2))>>>>), Insert("t", <<<<V(F(2)), V(F(2))>>>>),
     Insert("v", <<<<V(N(1))>>>>),
     Insert("u", <<<<V(S(3)), V(D(2024, 2, 29))>>>>), Insert("u", <<<<V(NULL), V(D(2023, 2, 29))>>>>)}

Update(tab, set, where) == [kind |-> "UPDATE", rel |-> tab, set |-> set, where |-> where]
Set(name, e) == [name |-> name, e |-> e]
Updates ==
    {Update("t", <<Set("b", One(N(1)))>>, w) : w \in SomeWheres}
    \cup {Update("t", <<Set("b", One(F(2))), Set("a", One(F(5)))>>, All),
          Update("t", <<Set("b", One(NULL))>>, All), Update("t", <<Set("a", Neg(N(1)))>>, All),
          Update("u", <<Set("s", One(N(2)))>>, All), Update("u", <<Set("d", One(N(1)))>>, All)}
Deletes ==
    {[kind |-> "DELETE", rel |-> "t", where |-> w] :
        w \in SomeWheres \cup {W(<<c, e>>, <<op>>) : c \in Conditions, e \in Conditions, op \in {"AND"}}}
    \cup {[kind |-> "DELETE", rel |-> "u", where |-> All]}
Loads ==
    {[kind |-> "LOAD_DATA", rel |-> tab, file |-> f] : tab \in {"t", "u", "v"},
        f \in {<<>>, <<<<V(N(1)), V(N(1))>>, <<V(S(5)), V(N(1))>>, <<V(N(3)), V(F(2))>>>>,
               <<<<V(N(3)), V(F(2)), V(N(1))>>, <<>>, <<V(N(1))>>>>}}
Explains ==
    {[kind |-> "EXPLAIN", stmt |-> s] :
        s \in {CHOOSE i \in Inserts : i.rel = "t" /\ Len(i.rows) = 2,
               [kind |-> "DELETE", rel |-> "t", where |-> All],
               Update("t", <<Set("b", One(N(1)))>>, All), Select(<<One(Star)>>, From("t"), All)}
              \cup {l \in Loads : l.rel = "t" /\ Len(l.file) = 3}}

MCTexts == Selects \cup Inserts \cup Updates \cup Deletes \cup Loads \cup Explains
           \cup {[kind |-> "SYNC", rel |-> ""]}
=============================================================================

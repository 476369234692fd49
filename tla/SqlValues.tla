------------------------------ MODULE SqlValues ------------------------------
(***************************************************************************)
(* Value: the typed value that the parser, the expressions and the         *)
(* operators pass around; its comparisons and conversions; and what the    *)
(* comparison, arithmetic and conjunction expressions compute from values. *)
(*                                                                         *)
(* A value is its type and a number: the integer itself, a float in units  *)
(* of 1 / Scale, a date as yyyymmdd, and for a string its rank among the   *)
(* Strings.  EPSILON is less than a unit, so that floats compare exactly.  *)
(***************************************************************************)
EXTENDS Integers, Sequences

CONSTANTS IntWidth,     \* bits of an int
          Scale,        \* fractions of one that a float can tell apart
          StringNumber  \* for each string, in memcmp order from "" up, what std::stof reads

ASSUME ValuesAssumption ==
    /\ IntWidth \in Nat \ {0} /\ Scale \in Nat \ {0}
    /\ DOMAIN StringNumber = 1 .. Len(StringNumber)

AttrTypes == {"UNDEFINED", "CHARS", "INTS", "DATES", "NULLS", "FLOATS", "BOOLEANS"}
Value(t, n) == [type |-> t, v |-> n]

Null == Value("NULLS", 0)
Undefined == Value("UNDEFINED", 0)
Bool(b) == Value("BOOLEANS", IF b THEN 1 ELSE 0)
IntMin == -(2 ^ (IntWidth - 1))
IntMax == 2 ^ (IntWidth - 1) - 1

\* Two's complement: what the build leaves in an int when an operation overflows.
Wrap(n) == ((n - IntMin) % 2 ^ IntWidth) + IntMin
Sign(n) == IF n > 0 THEN 1 ELSE IF n < 0 THEN -1 ELSE 0
\* Integer division towards minus infinity, for positive and negative divisors.
Quotient(n, d) == IF d > 0 THEN n \div d ELSE (-n) \div (-d)

-----------------------------------------------------------------------------
(* Conversions.                                                            *)

IsNull(x) == x.type = "NULLS"

GetFloat(x) ==
    CASE x.type = "FLOATS" -> x.v
      [] x.type \in {"INTS", "DATES", "BOOLEANS"} -> x.v * Scale
      [] x.type = "CHARS" -> StringNumber[x.v] * Scale
      [] OTHER -> 0

\* std::round takes halves away from zero.
Round(n) == Sign(n) * ((2 * Sign(n) * n + Scale) \div (2 * Scale))

GetInt(x) ==
    CASE x.type \in {"INTS", "DATES", "BOOLEANS"} -> x.v
      [] x.type = "FLOATS" -> Wrap(Round(x.v))
      [] x.type = "CHARS" -> StringNumber[x.v]
      [] OTHER -> 0

\* A string is true unless it is empty.
GetBoolean(x) ==
    CASE x.type \in {"INTS", "DATES", "BOOLEANS", "FLOATS"} -> x.v # 0
      [] x.type = "CHARS" -> x.v # 1
      [] OTHER -> FALSE

Leap(y) == y % 400 = 0 \/ (y % 100 # 0 /\ y % 4 = 0)
MonthDays(y, m) == <<31, IF Leap(y) THEN 29 ELSE 28, 31, 30, 31, 30, 31, 31, 30, 31, 30, 31>>[m]
CheckDate(y, m, d) == y > 0 /\ m \in 1 .. 12 /\ d \in 1 .. MonthDays(y, m)
\* set_date_string: -1 stands for a date that does not exist.
DateOf(y, m, d) == Value("DATES", IF CheckDate(y, m, d) THEN y * 10000 + m * 100 + d ELSE -1)

\* The types between which UPDATE converts.
CastTo(from, to) == {from, to} \subseteq {"CHARS", "INTS", "FLOATS"}

-----------------------------------------------------------------------------
(* Value::compare: negative, zero or positive, and -1 for what it cannot   *)
(* compare.  compare_int subtracts.                                        *)

Compare(x, y) ==
    IF x.type # y.type THEN Sign(GetFloat(x) - GetFloat(y))
    ELSE CASE x.type \in {"INTS", "DATES", "BOOLEANS"} -> Wrap(x.v - y.v)
           [] x.type \in {"FLOATS", "CHARS"} -> Sign(x.v - y.v)
           [] OTHER -> -1

-----------------------------------------------------------------------------
(* Expressions over values: each returns a return code and a value.        *)

Ok(x) == [rc |-> "SUCCESS", value |-> x]
Error(rc) == [rc |-> rc, value |-> Undefined]

\* What a comparison operator says of the sign of Compare.
Holds(op, c) ==
    CASE op = "EQUAL_TO" -> c = 0
      [] op = "NOT_EQUAL" -> c # 0
      [] op = "LESS_THAN" -> c < 0
      [] op = "LESS_EQUAL" -> c <= 0
      [] op = "GREAT_THAN" -> c > 0
      [] op = "GREAT_EQUAL" -> c >= 0

\* ComparisonExpr::compare_value for everything but the two list operators.
CompareScalars(op, x, y) ==
    CASE op = "IS_NULL" -> IsNull(x)
      [] op = "IS_NOT_NULL" -> ~IsNull(x)
      [] OTHER -> ~IsNull(x) /\ ~IsNull(y) /\ Holds(op, Compare(x, y))

\* ValuesExpr::value_in: nothing is said of nulls, which compare as the float 0.
ValueIn(x, list) == \E i \in DOMAIN list : Compare(list[i], x) = 0

\* The static type of the result decides how the operation is done.
ArithmeticType(op, tl, tr) == IF tl = "INTS" /\ tr = "INTS" /\ op # "/" THEN "INTS" ELSE "FLOATS"

CalcInts(op, i, j) ==
    Wrap(CASE op = "+" -> i + j [] op = "-" -> i - j [] op = "*" -> i * j [] op = "neg" -> -i)
CalcFloats(op, f, g) ==
    CASE op = "+" -> f + g [] op = "-" -> f - g [] op = "neg" -> -f
      [] op = "*" -> Quotient(f * g, Scale) [] op = "/" -> Quotient(f * Scale, g)

\* ArithmeticExpr::calc_value; y is Undefined for a negation.
CalcValue(op, target, x, y) ==
    IF IsNull(x) \/ IsNull(y) \/ (op = "/" /\ GetFloat(y) = 0) THEN Null
    ELSE IF target = "INTS" /\ op # "/" THEN Value("INTS", CalcInts(op, GetInt(x), GetInt(y)))
    ELSE Value("FLOATS", CalcFloats(op, GetFloat(x), GetFloat(y)))

=============================================================================

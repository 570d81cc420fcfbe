------------------------------- MODULE Value -------------------------------
(***************************************************************************)
(* The values of src/src/type/value.cpp: INTEGER, BOOLEAN and VARCHAR, and *)
(* the NULL that Value() makes.  FLOAT is left out.  An operation that     *)
(* fails an ONEBASE_ASSERT or meets UNREACHABLE throws std::logic_error in *)
(* every build: here it has the value Throw, and so has any operation on   *)
(* Throw.                                                                  *)
(***************************************************************************)
EXTENDS Integers, Sequences, TLC

CONSTANTS
    IntBits,           \* the width of int32_t
    Collation          \* the strings, in the order of std::string's <

ASSUME IntBitsAssumption == IntBits \in Nat \ {0, 1}

Null == [type |-> "INVALID", v |-> 0]
Throw == [type |-> "THROW", v |-> 0]
Integer(i) == [type |-> "INTEGER", v |-> i]
Boolean(b) == [type |-> "BOOLEAN", v |-> b]
Varchar(s) == [type |-> "VARCHAR", v |-> s]

\* Signed overflow wraps around in the builds of this code.
Wrap(i) ==
    LET half == 2 ^ (IntBits - 1) IN ((i + half) % (2 * half)) - half

Orderable == {"INTEGER", "VARCHAR"}
Rank(a) == IF a.type = "VARCHAR" THEN CHOOSE i \in DOMAIN Collation : Collation[i] = a.v
           ELSE a.v

CompareEquals(a, b) ==
    IF a.type = b.type /\ a.type \in Orderable \cup {"BOOLEAN"} THEN Boolean(a.v = b.v) ELSE Throw

CompareNotEquals(a, b) ==
    IF a.type = b.type /\ a.type \in Orderable \cup {"BOOLEAN"} THEN Boolean(a.v # b.v) ELSE Throw

CompareLessThan(a, b) ==
    IF a.type = b.type /\ a.type \in Orderable THEN Boolean(Rank(a) < Rank(b)) ELSE Throw

CompareLessThanOrEqual(a, b) ==
    IF a.type = b.type /\ a.type \in Orderable THEN Boolean(Rank(a) <= Rank(b)) ELSE Throw

CompareGreaterThan(a, b) == CompareLessThan(b, a)
CompareGreaterThanOrEqual(a, b) == CompareLessThanOrEqual(b, a)

PerformComparison(op, a, b) ==
    CASE op = "="  -> CompareEquals(a, b)
      [] op = "<>" -> CompareNotEquals(a, b)
      [] op = "<"  -> CompareLessThan(a, b)
      [] op = "<=" -> CompareLessThanOrEqual(a, b)
      [] op = ">"  -> CompareGreaterThan(a, b)
      [] op = ">=" -> CompareGreaterThanOrEqual(a, b)

\* C++ rounds towards zero.
Abs(i) == IF i < 0 THEN -i ELSE i
Quotient(i, j) == LET q == Abs(i) \div Abs(j) IN IF (i < 0) = (j < 0) THEN q ELSE -q

Arithmetic(op, i, j) ==
    CASE op = "+" -> i + j
      [] op = "-" -> i - j
      [] op = "*" -> i * j
      [] op = "/" -> Quotient(i, j)
      [] op = "%" -> i - j * Quotient(i, j)

PerformComputation(op, a, b) ==
    IF a.type # "INTEGER" \/ b.type # "INTEGER" THEN Throw
    ELSE IF op \in {"/", "%"} /\ b.v = 0 THEN Throw
    ELSE Integer(Wrap(Arithmetic(op, a.v, b.v)))

Add(a, b) == PerformComputation("+", a, b)

\* Neither side is skipped when the other decides.
PerformLogic(op, a, b) ==
    IF a.type # "BOOLEAN" \/ b.type # "BOOLEAN" THEN Throw
    ELSE Boolean(IF op = "AND" THEN a.v /\ b.v ELSE a.v \/ b.v)

\* Value::ToString, the key of the hash tables of joins and aggregations.
ValueToString(a) ==
    CASE a.type = "INTEGER" -> ToString(a.v)
      [] a.type = "BOOLEAN" -> IF a.v THEN "true" ELSE "false"
      [] a.type = "VARCHAR" -> a.v
      [] OTHER -> "NULL"

ComparisonOps == {"=", "<>", "<", "<=", ">", ">="}
ArithmeticOps == {"+", "-", "*", "/", "%"}
LogicOps == {"AND", "OR"}

Perform(op, a, b) ==
    CASE op \in ComparisonOps -> PerformComparison(op, a, b)
      [] op \in ArithmeticOps -> PerformComputation(op, a, b)
      [] op \in LogicOps      -> PerformLogic(op, a, b)
=============================================================================

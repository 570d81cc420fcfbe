------------------------------- MODULE Select -------------------------------
(***************************************************************************)
(* SELECT, from the parse tree to the rows of the answer: the binder       *)
(* (src/src/binder/binder.cpp), the optimizer's two rules (optimizer.cpp), *)
(* the executors of scans, joins, aggregation, ORDER BY, LIMIT and         *)
(* projection, and the expressions they evaluate.  HandleQuery of the      *)
(* server and the shell take a query through these steps.  Columns are     *)
(* counted from 1.                                                         *)
(*                                                                         *)
(* The tables do not change here: module Execution has the statements that *)
(* change them and the upkeep of the indexes.                              *)
(***************************************************************************)
EXTENDS Value, FiniteSets, FiniteSetsExt, SequencesExt

CONSTANTS
    Schemas,           \* Schemas[t]: the column names of table t
    RowsOf,            \* RowsOf[t]: the rows that may be in t
    MaxRows,           \* bound: MaxRows[t] rows in table t
    Indexable,         \* the <<table, column>> that may have a point-lookup index
    Queries            \* the parse trees of the queries that are asked

Tables == DOMAIN Schemas
ASSUME TablesAssumption == /\ DOMAIN RowsOf = Tables
                           /\ MaxRows \in [Tables -> Nat]
                           /\ \A t \in Tables : \A row \in RowsOf[t] : Len(row) = Len(Schemas[t])
                           /\ Indexable \subseteq UNION {{t} \X DOMAIN Schemas[t] : t \in Tables}

VARIABLES
    tables,            \* tables[t]: the live rows of t, in the order of a scan
    indexed,           \* the columns that have an index
    query,             \* the query in hand
    phase,             \* how far it is
    bound,             \* the plan of the binder
    plan,              \* the plan of the optimizer
    result             \* the answer

vars == <<tables, indexed, query, phase, bound, plan, result>>

-----------------------------------------------------------------------------
(* Parse trees: an expression is a column reference, a constant or an      *)
(* operator; a query has the clauses of PGSelectStmt.  FROM names one      *)
(* table, or two that are joined.                                          *)
NoExpr == [node |-> "none"]
Col(table, column) == [node |-> "ColumnRef", table |-> table, column |-> column]
Const(val) == [node |-> "AConst", val |-> val]
Op(op, left, right) == [node |-> "AExpr", op |-> op, left |-> left, right |-> right]
Func(func, arg) == [node |-> "FuncCall", func |-> func, arg |-> arg]
NoLimit == -1
IsAggregate(target) == target.node = "FuncCall"

NoQuery == [from |-> <<>>]
NoPlan == [type |-> "none"]
NoResult == [type |-> "none", rows |-> <<>>]
Error == [type |-> "ERROR", rows |-> <<>>]
Result(rows) == [type |-> "RESULT", rows |-> rows]

-----------------------------------------------------------------------------
(* The binder. *)
NotBound == [kind |-> "not bound"]         \* "Column not found", "Unsupported operator"

Scopes(q) == [i \in DOMAIN q.from |-> [alias |-> q.from[i].alias, table |-> q.from[i].table,
                                       tuple_idx |-> i - 1]]

\* The first scope, and in it the first column, of that name.
ResolveColumn(column, qualifier, scopes) ==
    LET cols(s) == {c \in DOMAIN Schemas[scopes[s].table] : Schemas[scopes[s].table][c] = column}
        at == {s \in DOMAIN scopes : qualifier \in {"", scopes[s].alias} /\ cols(s) # {}}
    IN  IF at = {} THEN NotBound
        ELSE [kind |-> "ColumnValue", tuple_idx |-> scopes[Min(at)].tuple_idx,
              col_idx |-> Min(cols(Min(at)))]

Operation(op, left, right) ==
    [kind |-> IF op \in ComparisonOps THEN "Comparison"
              ELSE IF op \in ArithmeticOps THEN "Arithmetic" ELSE "Logic",
     op |-> op, left |-> left, right |-> right]

RECURSIVE BindExpression(_, _)
BindExpression(e, scopes) ==
    CASE e.node = "none" -> NoExpr
      [] e.node = "ColumnRef" -> ResolveColumn(e.column, e.table, scopes)
      [] e.node = "AConst" -> [kind |-> "ConstantValue", val |-> e.val]
      [] e.node = "AExpr" ->
            LET left == BindExpression(e.left, scopes)
                right == BindExpression(e.right, scopes)
            IN  IF NotBound \in {left, right} \/ e.op \notin ComparisonOps \cup ArithmeticOps \cup LogicOps
                THEN NotBound ELSE Operation(e.op, left, right)

\* COUNT(*) has the first column as a placeholder.
BindAggregate(f, scopes) ==
    [type |-> f.func,
     arg |-> IF f.func = "count_star" THEN [kind |-> "ColumnValue", tuple_idx |-> 0, col_idx |-> 1]
             ELSE BindExpression(f.arg, scopes)]

BindAll(exprs, scopes) == [i \in DOMAIN exprs |-> BindExpression(exprs[i], scopes)]

SeqScanPlan(t, predicate) ==
    [type |-> "SeqScan", columns |-> Len(Schemas[t]), table |-> t, predicate |-> predicate]

\* FROM and WHERE: a scan with the predicate, or a nested loop join whose
\* predicate is the ON clause and the WHERE clause.
BasePlan(q, on, where) ==
    IF Len(q.from) = 1 THEN SeqScanPlan(q.from[1].table, where)
    ELSE LET left == SeqScanPlan(q.from[1].table, NoExpr)
             right == SeqScanPlan(q.from[2].table, NoExpr)
         IN  [type |-> "NestedLoopJoin", columns |-> left.columns + right.columns,
              left |-> left, right |-> right,
              predicate |-> CASE where = NoExpr -> on
                              [] on = NoExpr    -> where
                              [] OTHER          -> Operation("AND", on, where)]

\* The nodes above it, each only if its clause is there.
AggregationPlan(child, groups, aggs) ==
    IF aggs = <<>> THEN child
    ELSE [type |-> "Aggregation", columns |-> Len(groups) + Len(aggs), child |-> child,
          group_bys |-> groups, aggregates |-> aggs]
SortPlan(child, order_bys) ==
    IF order_bys = <<>> THEN child
    ELSE [type |-> "Sort", columns |-> child.columns, child |-> child, order_bys |-> order_bys]
LimitPlan(child, limit) ==
    IF limit = NoLimit THEN child
    ELSE [type |-> "Limit", columns |-> child.columns, child |-> child, limit |-> limit]
ProjectionPlan(child, exprs) ==
    IF exprs = <<>> THEN child
    ELSE [type |-> "Projection", columns |-> Len(exprs), child |-> child, expressions |-> exprs]

\* The plan of a SELECT, or NotBound when BindQuery throws.
BindSelect(q) ==
    LET scopes == Scopes(q)
        on == BindExpression(q.on, scopes)
        where == BindExpression(q.where, scopes)
        calls == SelectSeq(q.targets, IsAggregate)
        aggs == [i \in DOMAIN calls |-> BindAggregate(calls[i], scopes)]
        exprs == BindAll(SelectSeq(q.targets, LAMBDA x : ~IsAggregate(x)), scopes)
        groups == IF aggs = <<>> THEN <<>> ELSE BindAll(q.group, scopes)
        order_bys == [i \in DOMAIN q.order |-> [is_ascending |-> q.order[i].asc,
                                                expr |-> BindExpression(q.order[i].expr, scopes)]]
        all == {on, where} \cup Range(exprs) \cup Range(groups)
                  \cup {a.arg : a \in Range(aggs)} \cup {o.expr : o \in Range(order_bys)}
    IN  IF NotBound \in all THEN NotBound
        ELSE ProjectionPlan(
                LimitPlan(SortPlan(AggregationPlan(BasePlan(q, on, where), groups, aggs), order_bys),
                          q.limit),
                IF q.star \/ aggs # <<>> THEN <<>> ELSE exprs)

-----------------------------------------------------------------------------
(* The optimizer. *)
IsColumn(e) == e.kind = "ColumnValue"
IsConstant(e) == e.kind = "ConstantValue"
IsEquality(e) == e # NoExpr /\ e.kind = "Comparison" /\ e.op = "="

IndexScanPlan(p, col, key) ==
    IF <<p.table, col.col_idx>> \notin indexed THEN p
    ELSE [type |-> "IndexScan", columns |-> p.columns, table |-> p.table,
          col_idx |-> col.col_idx, lookup_key |-> key.val]

OptimizeSeqScanToIndexScan(p) ==
    LET cmp == p.predicate IN
    IF ~IsEquality(cmp) THEN p
    ELSE CASE IsColumn(cmp.left) /\ IsConstant(cmp.right) -> IndexScanPlan(p, cmp.left, cmp.right)
           [] IsColumn(cmp.right) /\ IsConstant(cmp.left) -> IndexScanPlan(p, cmp.right, cmp.left)
           [] OTHER -> p

HashJoinPlan(p, left_col, right_col) ==
    [type |-> "HashJoin", columns |-> p.columns, left |-> p.left, right |-> p.right,
     left_key |-> [left_col EXCEPT !.tuple_idx = 0], right_key |-> [right_col EXCEPT !.tuple_idx = 0]]

Mutant_OptimizeNLJToHashJoin(p) ==         \* does not ask which side is which
    LET cmp == p.predicate IN
    IF IsEquality(cmp) /\ IsColumn(cmp.left) /\ IsColumn(cmp.right)
    THEN HashJoinPlan(p, cmp.left, cmp.right) ELSE p

\* ON left.x = right.y, in either order and nothing else.
OptimizeNLJToHashJoin(p) ==
    LET cmp == p.predicate IN
    IF ~(IsEquality(cmp) /\ IsColumn(cmp.left) /\ IsColumn(cmp.right)) THEN p
    ELSE CASE cmp.left.tuple_idx = 0 /\ cmp.right.tuple_idx = 1 -> HashJoinPlan(p, cmp.left, cmp.right)
           [] cmp.left.tuple_idx = 1 /\ cmp.right.tuple_idx = 0 -> HashJoinPlan(p, cmp.right, cmp.left)
           [] OTHER -> p

\* The children first.
RECURSIVE Optimize(_)
Optimize(p) ==
    CASE p.type = "SeqScan" -> OptimizeSeqScanToIndexScan(p)
      [] p.type = "NestedLoopJoin" ->
            OptimizeNLJToHashJoin([p EXCEPT !.left = Optimize(@), !.right = Optimize(@)])
      [] OTHER -> [p EXCEPT !.child = Optimize(@)]

-----------------------------------------------------------------------------
(* Tuples and expressions. *)

\* A tuple read from a table has only its bytes until a scan has parsed them.
RawTuple(row) == [values |-> <<>>, data |-> row]
Thrown == [values |-> <<Throw>>, data |-> <<Throw>>]

\* Tuple(values): NULL has no serialized size, so a tuple with one throws.
MakeTuple(values) ==
    IF \E i \in DOMAIN values : values[i] \in {Null, Throw} THEN Thrown
    ELSE [values |-> values, data |-> values]

\* GetValue(schema, i) finds the value in either form, GetValue(i) does not.
GetValue(tuple, i) == tuple.data[i]
ShownValue(tuple, i) == IF i \in DOMAIN tuple.values THEN tuple.values[i] ELSE Null

RECURSIVE EvaluateJoin(_, _, _)
EvaluateJoin(e, left, right) ==
    CASE e.kind = "ColumnValue" -> GetValue(IF e.tuple_idx = 0 THEN left ELSE right, e.col_idx)
      [] e.kind = "ConstantValue" -> e.val
      [] OTHER -> Perform(e.op, EvaluateJoin(e.left, left, right), EvaluateJoin(e.right, left, right))

\* With one tuple there is no left and right: tuple_idx_ is not looked at.
Evaluate(e, tuple) == EvaluateJoin(e, tuple, tuple)

\* What a predicate makes of a tuple: nothing, the tuple, or an exception.
Filtered(predicate, value, tuples) ==
    CASE predicate = NoExpr       -> tuples
      [] value = Null             -> <<>>
      [] value.type = "BOOLEAN"   -> IF value.v THEN tuples ELSE <<>>
      [] OTHER                    -> <<Thrown>>

-----------------------------------------------------------------------------
(* The executors.  An executor is what its Next returns one after the      *)
(* other, up to the first exception, once its Init has come to an end.  It *)
(* can be one of several where an order is left to the library.            *)
UpToThrow(tuples) == IF Thrown \notin Range(tuples) THEN tuples
                     ELSE SubSeq(tuples, 1, Min({i \in DOMAIN tuples : tuples[i] = Thrown}))

Failed == [init |-> FALSE, tuples |-> <<>>]            \* Init throws
Lazily(tuples) == [init |-> TRUE, tuples |-> UpToThrow(tuples)]
InInit(tuples) == IF Thrown \in Range(tuples) THEN Failed ELSE Lazily(tuples)

Concat(S(_), seq) == FlattenSeq([i \in DOMAIN seq |-> S(seq[i])])
Map(F(_), seq) == [i \in DOMAIN seq |-> F(seq[i])]

SeqScan(p) ==
    LET Tested(row) == Filtered(p.predicate,
                                IF p.predicate = NoExpr THEN Null ELSE Evaluate(p.predicate, RawTuple(row)),
                                <<MakeTuple(row)>>)
    IN  Lazily(Concat(Tested, tables[p.table]))

\* The rids of the key were copied in Init; the predicate is not evaluated.
IndexScan(p) ==
    IF p.lookup_key.type # "INTEGER" THEN Failed
    ELSE Lazily(Map(RawTuple, SelectSeq(tables[p.table], LAMBDA row : row[p.col_idx] = p.lookup_key)))

\* The children of a join are sequential scans without a predicate.
Mutant_Joined(left, right) == MakeTuple(left.values)    \* forgets the right columns

Joined(left, right) == MakeTuple(left.values \o right.values)

NestedLoopJoin(p) ==
    LET lefts == SeqScan(p.left).tuples
        rights == SeqScan(p.right).tuples
        Pairs(l) == Concat(LAMBDA r : Filtered(p.predicate,
                                               IF p.predicate = NoExpr THEN Null
                                               ELSE EvaluateJoin(p.predicate, l, r),
                                               <<Joined(l, r)>>), rights)
    IN  InInit(Concat(Pairs, lefts))

HashKey(key, tuple) == ValueToString(Evaluate(key, tuple))

HashJoin(p) ==
    LET lefts == SeqScan(p.left).tuples
        rights == SeqScan(p.right).tuples
        Bucket(k) == SelectSeq(rights, LAMBDA r : HashKey(p.right_key, r) = k)
        Probe(l) == Map(LAMBDA r : Joined(l, r), Bucket(HashKey(p.left_key, l)))
    IN  InInit(Concat(Probe, lefts))


GroupKey(values) ==
    IF values = <<>> THEN "SINGLE_GROUP"
    ELSE FlattenSeq(Map(LAMBDA v : ValueToString(v) \o "#", values))

InitialAggregate(type) == IF type \in {"count_star", "count"} THEN Integer(0) ELSE Null

\* One more row in the group.
Accumulate(type, current, input) ==
    CASE input = Throw -> Throw
      [] type = "count_star" -> Add(current, Integer(1))
      [] type = "count" -> IF input = Null THEN current ELSE Add(current, Integer(1))
      [] input = Null -> current
      [] current = Null -> input
      [] type = "sum" -> Add(current, input)
      [] OTHER -> LET better == IF type = "min" THEN CompareLessThan(input, current)
                                ELSE CompareGreaterThan(input, current)
                  IN  IF better = Throw THEN Throw ELSE IF better.v THEN input ELSE current

\* Init reads all of the child; the groups come out in any order.
Aggregation(p, child) ==
    LET Group(tuple) == Map(LAMBDA e : Evaluate(e, tuple), p.group_bys)
        Members(k) == SelectSeq(child.tuples, LAMBDA tuple : GroupKey(Group(tuple)) = k)
        State(tuples) ==
            Map(LAMBDA a : FoldLeft(LAMBDA current, tuple :
                                        Accumulate(a.type, current, Evaluate(a.arg, tuple)),
                                    InitialAggregate(a.type), tuples), p.aggregates)
        Row(k) == LET members == Members(k) IN
                  MakeTuple(IF members = <<>> THEN State(members)
                            ELSE Group(Head(members)) \o State(members))
        keys == IF child.tuples = <<>> /\ p.group_bys = <<>> THEN {"SINGLE_GROUP"}
                ELSE {GroupKey(Group(tuple)) : tuple \in Range(child.tuples)}
        row == [k \in keys |-> Row(k)]
    IN  IF \E tuple \in Range(child.tuples) : tuple = Thrown \/ Throw \in Range(Group(tuple))
        THEN {Failed}
        ELSE {InInit(Map(LAMBDA k : row[k], order)) : order \in SetToSeqs(keys)}

\* The comparator of std::sort: the first ORDER BY that tells them apart.
SortsBefore(p, a, b) ==
    LET Key(i, tuple) == Evaluate(p.order_bys[i].expr, tuple)
        Equal(i) == CompareEquals(Key(i, a), Key(i, b))
        apart == {i \in DOMAIN p.order_bys : Equal(i) # Boolean(TRUE)}
        i == Min(apart)
    IN  CASE apart = {} -> Boolean(FALSE)
          [] Equal(i) = Throw -> Throw
          [] p.order_bys[i].is_ascending -> CompareLessThan(Key(i, a), Key(i, b))
          [] OTHER -> CompareGreaterThan(Key(i, a), Key(i, b))

\* Any order of the child's tuples that the comparator allows: std::sort is
\* not stable.  It compares every two tuples between which no other tells.
Sort(p, child) ==
    LET n == Len(child.tuples)
        before == [ij \in (1 .. n) \X (1 .. n) |-> IF ij[1] = ij[2] THEN Boolean(FALSE)
                      ELSE SortsBefore(p, child.tuples[ij[1]], child.tuples[ij[2]])]
        orders == {o \in Permutations(1 .. n) :
                      \A i \in 1 .. n : \A j \in i + 1 .. n : before[o[j], o[i]] = Boolean(FALSE)}
    IN  IF Thrown \in Range(child.tuples) \/ Throw \in Range(before) THEN {Failed}
        ELSE {Lazily(Map(LAMBDA k : child.tuples[k], o)) : o \in orders}

\* Nothing is asked of the child after the last tuple.
Mutant_Limit(p, child) ==                  \* one tuple too many
    [child EXCEPT !.tuples = SubSeq(@, 1, Min({p.limit + 1, Len(@)}))]

Limit(p, child) == [child EXCEPT !.tuples = SubSeq(@, 1, Min({p.limit, Len(@)}))]

Projection(p, child) ==
    Lazily(Map(LAMBDA tuple : IF tuple = Thrown THEN Thrown
                              ELSE MakeTuple(Map(LAMBDA e : Evaluate(e, tuple), p.expressions)),
               child.tuples))

\* Init of an executor calls Init of its children first.
RECURSIVE Outcomes(_)
Outcomes(p) ==
    CASE p.type = "SeqScan" -> {SeqScan(p)}
      [] p.type = "IndexScan" -> {IndexScan(p)}
      [] p.type = "NestedLoopJoin" -> {NestedLoopJoin(p)}
      [] p.type = "HashJoin" -> {HashJoin(p)}
      [] OTHER -> UNION {IF ~child.init THEN {Failed}
                         ELSE CASE p.type = "Aggregation" -> Aggregation(p, child)
                                [] p.type = "Sort"        -> Sort(p, child)
                                [] p.type = "Limit"       -> {Limit(p, child)}
                                [] p.type = "Projection"  -> {Projection(p, child)}
                            : child \in Outcomes(p.child)}

\* ExecutionEngine::Execute and the rows that HandleQuery makes of its tuples.
Throws(outcome) == ~outcome.init \/ Thrown \in Range(outcome.tuples)
Shown(p, outcome) ==
    IF Throws(outcome) THEN Error
    ELSE Result(Map(LAMBDA tuple : [i \in 1 .. p.columns |-> ShownValue(tuple, i)], outcome.tuples))

-----------------------------------------------------------------------------
(* HandleQuery: one query after the other. *)
Init ==
    /\ tables \in [Tables -> UNION {BoundedSeq(RowsOf[t], MaxRows[t]) : t \in Tables}]
    /\ \A t \in Tables : tables[t] \in BoundedSeq(RowsOf[t], MaxRows[t])
    /\ indexed \in SUBSET Indexable
    /\ query = NoQuery
    /\ phase = "waiting"
    /\ bound = NoPlan
    /\ plan = NoPlan
    /\ result = NoResult

Receive(q) ==
    /\ phase = "waiting"
    /\ query' = q
    /\ phase' = "parsed"
    /\ UNCHANGED <<tables, indexed, bound, plan, result>>

Bind ==
    /\ phase = "parsed"
    /\ BindSelect(query) # NotBound
    /\ bound' = BindSelect(query)
    /\ phase' = "bound"
    /\ UNCHANGED <<tables, indexed, query, plan, result>>

BindThrows ==
    /\ phase = "parsed"
    /\ BindSelect(query) = NotBound
    /\ result' = Error
    /\ phase' = "answered"
    /\ UNCHANGED <<tables, indexed, query, bound, plan>>

OptimizePlan ==
    /\ phase = "bound"
    /\ plan' = Optimize(bound)
    /\ phase' = "optimized"
    /\ UNCHANGED <<tables, indexed, query, bound, result>>

Execute ==
    /\ phase = "optimized"
    /\ \E outcome \in Outcomes(plan) : result' = Shown(plan, outcome)
    /\ phase' = "answered"
    /\ UNCHANGED <<tables, indexed, query, bound, plan>>

Respond ==
    /\ phase = "answered"
    /\ query' = NoQuery
    /\ phase' = "waiting"
    /\ bound' = NoPlan
    /\ plan' = NoPlan
    /\ result' = NoResult
    /\ UNCHANGED <<tables, indexed>>

Next ==
    \/ \E q \in Queries : Receive(q)
    \/ Bind
    \/ BindThrows
    \/ OptimizePlan
    \/ Execute
    \/ Respond

Spec == Init /\ [][Next]_vars

-----------------------------------------------------------------------------
(* What a query means, by names and sets: no plan, no tuple index, no hash *)
(* key and no order but the one that is asked for.                         *)

\* A row of FROM is a choice of one row of each table in it.
Positions ==
    {pos \in [DOMAIN query.from -> 1 .. Max(Range(MaxRows))] :
        \A i \in DOMAIN query.from : pos[i] \in DOMAIN tables[query.from[i].table]}
RowAt(pos, i) == tables[query.from[i].table][pos[i]]

Owners(ref) == {i \in DOMAIN query.from : /\ ref.table \in {"", query.from[i].alias}
                                          /\ ref.column \in Range(Schemas[query.from[i].table])}
Named(ref, pos) ==
    LET i == CHOOSE i \in Owners(ref) : TRUE
        names == Schemas[query.from[i].table]
    IN  RowAt(pos, i)[CHOOSE c \in DOMAIN names : names[c] = ref.column]

RECURSIVE Meaning(_, _)
Meaning(e, pos) ==
    CASE e.node = "none" -> Boolean(TRUE)
      [] e.node = "ColumnRef" -> Named(e, pos)
      [] e.node = "AConst" -> e.val
      [] e.node = "AExpr" -> Perform(e.op, Meaning(e.left, pos), Meaning(e.right, pos))

RECURSIVE References(_)
References(e) == CASE e.node = "ColumnRef" -> {e}
                   [] e.node = "AExpr" -> References(e.left) \cup References(e.right)
                   [] e.node = "FuncCall" -> References(e.arg)
                   [] OTHER -> {}

Operand(target) == IF IsAggregate(target) THEN target.arg ELSE target
Operands == {Operand(x) : x \in Range(query.targets)} \cup Range(query.group)
               \cup {o.expr : o \in Range(query.order)}
Conditions == {query.on, query.where}

\* Some name means no column, or something cannot be computed for some row.
Undefined ==
    \/ \E e \in Operands \cup Conditions : \E ref \in References(e) : Owners(ref) = {}
    \/ \E pos \in Positions :
          \/ \E e \in Conditions : Meaning(e, pos).type # "BOOLEAN"
          \/ /\ \A e \in Conditions : Meaning(e, pos) = Boolean(TRUE)
             /\ \E e \in Operands : Meaning(e, pos) = Throw

Kept == {pos \in Positions : \A e \in Conditions : Meaning(e, pos) = Boolean(TRUE)}
Grouped == \E x \in Range(query.targets) : IsAggregate(x)
GroupOf(pos) == {other \in Kept : \A e \in Range(query.group) : Meaning(e, other) = Meaning(e, pos)}

\* One row of the answer for each of these sets of rows.
Units == CASE ~Grouped -> {{pos} : pos \in Kept}
           [] query.group = <<>> -> {Kept}
           [] OTHER -> {GroupOf(pos) : pos \in Kept}
Member(unit) == CHOOSE pos \in unit : TRUE

AggregateOf(f, unit) ==
    LET vals == {Meaning(f.arg, pos) : pos \in unit}
    IN  CASE f.func \in {"count", "count_star"} -> Integer(Cardinality(unit))
          [] unit = {} -> Null
          [] f.func = "sum" -> Integer(Wrap(MapThenSumSet(LAMBDA pos : Meaning(f.arg, pos).v, unit)))
          [] f.func = "min" -> CHOOSE a \in vals : \A b \in vals : Rank(a) <= Rank(b)
          [] f.func = "max" -> CHOOSE a \in vals : \A b \in vals : Rank(a) >= Rank(b)

AnswerRow(unit) ==
    IF query.star THEN FlattenSeq([i \in DOMAIN query.from |-> RowAt(Member(unit), i)])
    ELSE Map(LAMBDA x : IF IsAggregate(x) THEN AggregateOf(x, unit) ELSE Meaning(x, Member(unit)),
             query.targets)

Precedes(u, v) ==
    LET Key(i, unit) == Rank(Meaning(query.order[i].expr, Member(unit)))
    IN  \E i \in DOMAIN query.order :
           /\ \A j \in 1 .. i - 1 : Key(j, u) = Key(j, v)
           /\ IF query.order[i].asc THEN Key(i, u) < Key(i, v) ELSE Key(i, u) > Key(i, v)

\* The rows from the i-th on list units of `left', each once, such that none
\* of those that are still left should have come before.
RECURSIVE Lists(_, _, _)
Lists(rows, i, left) ==
    i > Len(rows) \/ \E unit \in left : /\ AnswerRow(unit) = rows[i]
                                       /\ \A other \in left : ~Precedes(other, unit)
                                       /\ Lists(rows, i + 1, left \ {unit})

Exact ==
    /\ result.type = "RESULT"
    /\ Len(result.rows) = Min({Cardinality(Units)} \cup ({query.limit} \ {NoLimit}))
    /\ Lists(result.rows, 1, Units)

-----------------------------------------------------------------------------
(* Properties. *)

RECURSIVE Leaf(_)
Leaf(p) == IF p.type \in {"SeqScan", "IndexScan", "NestedLoopJoin", "HashJoin"} THEN p.type
           ELSE Leaf(p.child)
ShowsRawTuples == plan # NoPlan /\ query.star /\ Leaf(plan) = "IndexScan"

(* Type invariant.  The phases have their plans, optimizing keeps the      *)
(* output schema, and an answer has a value for each column of that        *)
(* schema: no executor returns a tuple that is shorter (an index scan      *)
(* whose tuples are shown as they are is the known exception).             *)
TypeOK ==
    /\ phase \in {"waiting", "parsed", "bound", "optimized", "answered"}
    /\ phase \in {"waiting", "parsed"} => bound = NoPlan
    /\ plan # NoPlan => phase \in {"optimized", "answered"} /\ plan.columns = bound.columns
    /\ result # NoResult <=> phase = "answered"
    /\ ~ShowsRawTuples =>
          \A i \in DOMAIN result.rows, c \in 1 .. IF plan = NoPlan THEN 0 ELSE plan.columns :
              result.rows[i][c].type \in {"INTEGER", "BOOLEAN", "VARCHAR"}

(* The optimizer changes how a query is answered and not what is answered: *)
(* whenever the binder's plan runs without an exception, the plan with the *)
(* index scan or the hash join (OptimizeSeqScanToIndexScan,                *)
(* OptimizeNLJToHashJoin) can return the same rows in the same orders, and *)
(* no others.                                                              *)
Returned(p) == {[init |-> o.init, rows |-> Map(LAMBDA t : t.data, o.tuples)] : o \in Outcomes(p)}
OptimizerPreserves ==
    phase = "optimized" /\ (\A o \in Outcomes(bound) : ~Throws(o))
        => Returned(plan) = Returned(bound)

\* A gap of the code: SUM, MIN and MAX of no rows are NULL, and the Tuple()
\* that should hold it throws.
AggregatesNothing == Grouped /\ \E unit \in Units : Null \in Range(AnswerRow(unit))

(* SELECT answers what the query means: the joined, filtered, grouped and  *)
(* projected rows, each as often as it should be, in the order and up to   *)
(* the number that is asked for, whichever plan was chosen; it ends in an  *)
(* error only if a name is unknown, something in it cannot be computed or  *)
(* an aggregate is of nothing, and then no wrong row is shown instead.  A  *)
(* SELECT * from an index scan, which shows tuples that are not parsed, is *)
(* excepted.                                                               *)
SelectExact ==
    phase = "answered" /\ ~Undefined /\ ~ShowsRawTuples =>
        IF AggregatesNothing THEN result.type = "ERROR" ELSE Exact
=============================================================================

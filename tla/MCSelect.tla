------------------------------ MODULE MCSelect ------------------------------
(* Two tables of two columns, and the queries that are asked of them.      *)
EXTENDS Select

MCCollation == <<"1", "11", "x">>
MCSchemas == [base |-> <<"id", "val">>, probe |-> <<"id", "tag">>]
MCRowsOf == [base |-> {<<Integer(1), Integer(1)>>, <<Integer(1), Integer(11)>>, <<Integer(11), Integer(1)>>},
             probe |-> {<<Integer(1), Varchar("1")>>, <<Integer(11), Varchar("x")>>}]
MCMaxRows == [base |-> 3, probe |-> 2]
MCIndexable == {<<"base", 1>>}

Id == Col("base", "id")
Val == Col("base", "val")
Tag == Col("probe", "tag")
One == Const(Integer(1))
Eleven == Const(Integer(11))

From(t) == [table |-> t, alias |-> t]
Base == <<From("base")>>
Both == <<From("base"), From("probe")>>
Query(from, on, where, star, targets, group, order, limit) ==
    [from |-> from, on |-> on, where |-> where, star |-> star, targets |-> targets,
     group |-> group, order |-> order, limit |-> limit]
Asc(e) == [asc |-> TRUE, expr |-> e]
Desc(e) == [asc |-> FALSE, expr |-> e]

\* Conditions on base: with an index, without, with both of OR and AND, one
\* that divides by zero, and one of a column that does not exist.  A string
\* as the key of an index throws even if no row would be compared with it:
\* there is none here.
Wheres == {NoExpr, Op("=", Id, One), Op("=", Eleven, Id), Op("OR", Op("<", Id, Val), Op(">=", Val, Eleven)),
           Op("AND", Op("<>", Id, Val), Op("<=", Op("%", Op("-", Val, Id), Const(Integer(3))), One)),
           Op(">", Op("/", Eleven, Op("-", Id, One)), Val),
           Op("=", Col("", "name"), One)}
Targets == {<<Val, Op("*", Id, Val)>>, <<Op("/", Val, Op("-", Id, Val))>>}
Orders == {<<>>, <<Desc(Val)>>, <<Asc(Id), Desc(Val)>>, <<Asc(Op("%", One, Op("-", Id, One)))>>}
Limits == {NoLimit, 0, 1}

ScanQueries ==
    {Query(Base, NoExpr, where, TRUE, <<>>, <<>>, order, limit) :
        where \in Wheres, order \in Orders, limit \in Limits}
    \cup {Query(Base, NoExpr, where, FALSE, targets, <<>>, order, limit) :
        where \in Wheres, targets \in Targets, order \in Orders, limit \in Limits}

Aggregates == <<Func("count_star", NoExpr), Func("sum", Val), Func("min", Id), Func("max", Val)>>
AggregateQueries ==
    {Query(Base, NoExpr, where, FALSE, group \o aggs, group, <<>>, limit) :
        where \in Wheres, group \in {<<>>, <<Id>>, <<Val, Id>>, <<Op("/", Val, Const(Integer(2)))>>},
        aggs \in {Aggregates, <<Func("count", Op("/", One, Op("-", Id, One)))>>}, limit \in {NoLimit, 1}}

Ons == {NoExpr, Op("=", Id, Col("probe", "id")), Op("=", Col("probe", "id"), Val), Op("=", Id, Val),
        Op("=", Tag, Val), Op("<", Col("probe", "id"), Id)}
JoinQueries ==
    {Query(Both, on, where, TRUE, <<>>, <<>>, <<>>, NoLimit) :
        on \in Ons, where \in {NoExpr, Op("=", Id, One), Op("=", Tag, Const(Varchar("x")))}}
    \cup {Query(Both, on, NoExpr, FALSE, <<Id, Func("count_star", NoExpr)>>, <<Id>>, <<>>, NoLimit) :
        on \in Ons}
    \cup {Query(Both, Op("=", Col("probe", "id"), Val), NoExpr, FALSE, <<Op("+", Id, Val)>>, <<>>,
               <<Asc(Id)>>, limit) : limit \in Limits}

MCQueries == ScanQueries \cup AggregateQueries \cup JoinQueries
=============================================================================

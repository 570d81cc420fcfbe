------------------------------ MODULE Execution ------------------------------
(***************************************************************************)
(* SQL statements over the catalog's tables and indexes: the catalog       *)
(* (src/src/catalog/catalog.cpp), the rule that turns a sequential scan    *)
(* into an index scan (optimizer.cpp) and the executors of SELECT, INSERT  *)
(* ... SELECT, UPDATE, DELETE, CREATE INDEX and DROP INDEX.  A statement   *)
(* runs row by row: one step is one row taken from the child executor,     *)
(* with all that the DML executor does to the table and the indexes for    *)
(* this row.  Statements run one after the other.                          *)
(*                                                                         *)
(* heap[t] lists the slots of table t in the order of a scan.  The rows    *)
(* have one schema of INTEGER columns and so one size: a new row goes to   *)
(* the end, a slot is not used again, and an update keeps its slot and is  *)
(* never refused (module TableHeap).  It may find no room on its page for  *)
(* the copy it writes: the page is torn, and the behaviour ends there.     *)
(***************************************************************************)
EXTENDS Integers, Sequences, FiniteSets

CONSTANTS
    Tables,            \* the tables, all of one schema
    Names,             \* index names
    Cols,              \* the columns: 1 .. the number of columns
    Vals,              \* the integers in them
    Setters,           \* what SET expressions compute from a column
    Error,             \* ... or that they throw
    Noise,             \* what slots of a page written over may read as
    KeyAttrs,          \* the column lists indexes are created on
    MaxOid,            \* bound: the indexes that are ever created
    MaxSlots,          \* bound: the slots of a table; a full one refuses rows
    Deleted            \* a slot of length 0

ASSUME ColsAssumption == IsFiniteSet(Cols)
ASSUME KeyAttrsAssumption == KeyAttrs \subseteq Seq(Cols) \ {<<>>}
ASSUME BoundsAssumption == MaxOid \in Nat /\ MaxSlots \in Nat
ASSUME DeletedAssumption == Deleted \notin [Cols -> Vals]
ASSUME SettersAssumption == Setters \subseteq [Vals -> Vals \cup {Error}] /\ Error \notin Vals

Rows == [Cols -> Vals]
ASSUME NoiseAssumption == Noise \subseteq Rows \cup {Deleted}

VARIABLES
    heap,              \* the table heaps
    indexes,           \* indexes_, by oid
    index_names,       \* index_names_: an oid, or 0, of each <<table, name>>
    next_index_oid,    \* next_index_oid_
    stmt,              \* the statement that is running, or Idle
    torn               \* history: an update had no room on its page

vars == <<heap, indexes, index_names, next_index_oid, stmt, torn>>

Idle == [kind |-> "idle"]
Running == stmt # Idle

-----------------------------------------------------------------------------
(* The catalog. *)
Live(h) == {r \in DOMAIN h : h[r] # Deleted}

\* int_rid_map_: the rids of each key, none for a key that is absent.
InsertEntry(map, key, rid) == [map EXCEPT ![key] = Append(@, rid)]

Mutant_RemoveEntry(map, key, rid) ==       \* erases one rid: the last
    [map EXCEPT ![key] = IF @ = <<>> THEN @ ELSE SubSeq(@, 1, Len(@) - 1)]

\* std::remove: what is kept of the first i rids.
Kept(rids, rid) ==
    LET kept[i \in 0 .. Len(rids)] ==
            IF i = 0 THEN <<>>
            ELSE IF rids[i] = rid THEN kept[i - 1] ELSE Append(kept[i - 1], rids[i])
    IN  kept

RemoveEntry(map, key, rid) == [map EXCEPT ![key] = Kept(@, rid)[Len(@)]]

NoEntries == [k \in Vals |-> <<>>]

SupportsPointLookup(index) == Len(index.key_attrs) = 1
GetLookupAttr(index) == Head(index.key_attrs)

Mutant_BuiltMap(h, attr) == NoEntries      \* starts with no entries

\* The map of a new index: the live rows, in the order of a scan.
BuiltMap(h, attr) ==
    LET built[r \in 0 .. Len(h)] ==
            IF r = 0 THEN NoEntries
            ELSE IF h[r] = Deleted THEN built[r - 1]
            ELSE InsertEntry(built[r - 1], h[r][attr], r)
    IN  built[Len(h)]

GetTableIndexes(t) == {oid \in DOMAIN indexes : indexes[oid].table = t}

\* UtilityExecutor, CREATE INDEX: a name that is taken on this table throws.
CreateIndex(name, t, key_attrs) ==
    /\ ~Running
    /\ next_index_oid <= MaxOid
    /\ index_names[<<t, name>>] = 0
    /\ LET index == [name |-> name, table |-> t, key_attrs |-> key_attrs,
                     map |-> IF Len(key_attrs) = 1
                             THEN BuiltMap(heap[t], Head(key_attrs)) ELSE NoEntries]
       IN  indexes' = [oid \in DOMAIN indexes \cup {next_index_oid} |->
                          IF oid = next_index_oid THEN index ELSE indexes[oid]]
    /\ index_names' = [index_names EXCEPT ![<<t, name>>] = next_index_oid]
    /\ next_index_oid' = next_index_oid + 1
    /\ UNCHANGED <<heap, stmt, torn>>

\* The tables on which DROP INDEX finds the name: one, or it throws (or, IF
\* EXISTS, goes on).  The statement drops its names one after the other.
Matched(name) == {t \in Tables : index_names[<<t, name>>] # 0}

Mutant_DropIndex(name) ==                  \* leaves the index in indexes_
    /\ ~Running
    /\ Cardinality(Matched(name)) = 1
    /\ \E t \in Matched(name) : index_names' = [index_names EXCEPT ![<<t, name>>] = 0]
    /\ UNCHANGED <<heap, indexes, next_index_oid, stmt, torn>>

DropIndex(name) ==
    /\ ~Running
    /\ Cardinality(Matched(name)) = 1
    /\ \E t \in Matched(name) :
          /\ indexes' = [oid \in DOMAIN indexes \ {index_names[<<t, name>>]} |-> indexes[oid]]
          /\ index_names' = [index_names EXCEPT ![<<t, name>>] = 0]
    /\ UNCHANGED <<heap, next_index_oid, stmt, torn>>

-----------------------------------------------------------------------------
(* The child of a statement: a scan of a table with a predicate. *)

\* WHERE: none, or column = constant.
NoPredicate == [col |-> 0, val |-> 0]
Predicates == {NoPredicate} \cup [col : Cols, val : Vals]
Matches(row, pred) == pred # NoPredicate => row[pred.col] = pred.val

Mutant_UsableIndexes(t, pred) ==           \* does not look at the column
    {oid \in GetTableIndexes(t) :
        pred # NoPredicate /\ SupportsPointLookup(indexes[oid])}

\* OptimizeSeqScanToIndexScan: it takes the first one it meets.
UsableIndexes(t, pred) ==
    {oid \in GetTableIndexes(t) :
        /\ pred # NoPredicate
        /\ SupportsPointLookup(indexes[oid])
        /\ GetLookupAttr(indexes[oid]) = pred.col}

\* Iterator: the next live slot after r, or 0 at the end.
NextLive(h, r) ==
    LET later == {q \in Live(h) : q > r}
    IN  IF later = {} THEN 0 ELSE CHOOSE q \in later : \A p \in later : q <= p

\* Init of the child.  A sequential scan stands on a slot; an index scan has
\* its own copy of the rids that the index had when it began.
SeqScan(t) == [index |-> FALSE, it |-> NextLive(heap[t], 0), rids |-> <<>>]
IndexScan(oid, key) == [index |-> TRUE, it |-> 0, rids |-> indexes[oid].map[key]]

Children(t, pred) ==
    IF UsableIndexes(t, pred) = {} THEN {SeqScan(t)}
    ELSE {IndexScan(oid, pred.val) : oid \in UsableIndexes(t, pred)}

Exhausted(child) == IF child.index THEN child.rids = <<>> ELSE child.it = 0
ChildRid(child) == IF child.index THEN Head(child.rids) ELSE child.it

Mutant_Advanced(child, h) ==               \* skips a row
    IF child.index THEN [child EXCEPT !.rids = Tail(@)]
    ELSE [child EXCEPT !.it = IF @ = Len(h) THEN 0 ELSE NextLive(h, @ + 1)]

\* The sequential scan moves on before it returns its row.
Advanced(child, h) ==
    IF child.index THEN [child EXCEPT !.rids = Tail(@)]
    ELSE [child EXCEPT !.it = NextLive(h, @)]

\* A sequential scan filters; an index scan returns what the index named.
Returned(child, row, pred) == child.index \/ Matches(row, pred)

-----------------------------------------------------------------------------
(* Statements: binding, optimizing and Init, then one row at a time. *)
Assignments == [col : Cols, to : Setters]              \* SET col = f(col)
NoSet == [col |-> 0, to |-> <<>>]

\* `into' is the table changed, `count' the rows counted by a DML statement,
\* `result' the rids that a SELECT has returned; `start' is a ghost.
Begin(kind, into, t, pred, set) ==
    /\ ~Running
    /\ \E child \in Children(t, pred) :
          stmt' = [kind |-> kind, into |-> into, table |-> t, pred |-> pred,
                   set |-> set, child |-> child, count |-> 0,
                   result |-> <<>>, start |-> heap]
    /\ UNCHANGED <<heap, indexes, index_names, next_index_oid, torn>>

BeginSelect(t, pred) == Begin("select", t, t, pred, NoSet)
BeginInsert(into, t, pred) == Begin("insert", into, t, pred, NoSet)
BeginUpdate(t, pred, set) == Begin("update", t, t, pred, set)
BeginDelete(t, pred) == Begin("delete", t, t, pred, NoSet)

\* The point-lookup indexes of table t when the slot rid of it, old before,
\* becomes new.
Reindexed(map, attr, rid, old, new) ==
    LET removed == IF old = Deleted THEN map ELSE RemoveEntry(map, old[attr], rid)
    IN  IF new = Deleted THEN removed ELSE InsertEntry(removed, new[attr], rid)

Maintained(t, rid, old, new) ==
    [oid \in DOMAIN indexes |->
        IF indexes[oid].table = t /\ SupportsPointLookup(indexes[oid])
        THEN [indexes[oid] EXCEPT !.map = Reindexed(@, GetLookupAttr(indexes[oid]), rid, old, new)]
        ELSE indexes[oid]]

\* A row the child skips, or is still to return.
Takes(kind) ==
    /\ Running
    /\ stmt.kind = kind
    /\ ~Exhausted(stmt.child)
    /\ Returned(stmt.child, heap[stmt.table][ChildRid(stmt.child)], stmt.pred)

TheRid == ChildRid(stmt.child)
TheRow == heap[stmt.table][TheRid]
MoveOn(counted) ==
    stmt' = [stmt EXCEPT !.child = Advanced(@, heap[stmt.table]), !.count = @ + counted]

SkipRow ==
    /\ Running
    /\ ~Exhausted(stmt.child)
    /\ ~Returned(stmt.child, TheRow, stmt.pred)
    /\ MoveOn(0)
    /\ UNCHANGED <<heap, indexes, index_names, next_index_oid, torn>>

SelectRow ==
    /\ Takes("select")
    /\ stmt' = [stmt EXCEPT !.child = Advanced(@, heap[stmt.table]),
                            !.result = Append(@, TheRid)]
    /\ UNCHANGED <<heap, indexes, index_names, next_index_oid, torn>>

InsertRow ==
    /\ Takes("insert")
    /\ Len(heap[stmt.into]) < MaxSlots
    /\ heap' = [heap EXCEPT ![stmt.into] = Append(@, TheRow)]
    /\ indexes' = Maintained(stmt.into, Len(heap[stmt.into]) + 1, Deleted, TheRow)
    /\ MoveOn(1)
    /\ UNCHANGED <<index_names, next_index_oid, torn>>

InsertRefused ==
    /\ Takes("insert")
    /\ Len(heap[stmt.into]) = MaxSlots
    /\ MoveOn(0)
    /\ UNCHANGED <<heap, indexes, index_names, next_index_oid, torn>>

Computes(row, set) == set.to[row[set.col]] # Error
NewRow(row, set) == [row EXCEPT ![set.col] = set.to[@]]

UpdateRow ==
    /\ Takes("update")
    /\ Computes(TheRow, stmt.set)
    /\ heap' = [heap EXCEPT ![stmt.table][TheRid] = NewRow(TheRow, stmt.set)]
    /\ indexes' = Maintained(stmt.table, TheRid, TheRow, NewRow(TheRow, stmt.set))
    /\ MoveOn(1)
    /\ UNCHANGED <<index_names, next_index_oid, torn>>

\* UpdateTuple writes its copy over slots of its page (over its own one, the
\* slot is then written over the copy).
UpdateTears ==
    /\ Takes("update")
    /\ Computes(TheRow, stmt.set)
    /\ \E hit \in SUBSET DOMAIN heap[stmt.table] : \E noise \in [hit -> Noise] :
          heap' = [heap EXCEPT ![stmt.table] =
                      [r \in DOMAIN @ |-> IF r \in hit THEN noise[r]
                                          ELSE IF r = TheRid THEN NewRow(TheRow, stmt.set)
                                          ELSE @[r]]]
    /\ torn' = TRUE
    /\ indexes' = Maintained(stmt.table, TheRid, TheRow, NewRow(TheRow, stmt.set))
    /\ MoveOn(1)
    /\ UNCHANGED <<index_names, next_index_oid>>

\* A SET expression throws and the statement is over; the rows that it has
\* updated before stay updated.
UpdateThrows ==
    /\ Takes("update")
    /\ ~Computes(TheRow, stmt.set)
    /\ stmt' = Idle
    /\ UNCHANGED <<heap, indexes, index_names, next_index_oid, torn>>

DeleteRow ==
    /\ Takes("delete")
    /\ heap' = [heap EXCEPT ![stmt.table][TheRid] = Deleted]
    /\ indexes' = Maintained(stmt.table, TheRid, TheRow, Deleted)
    /\ MoveOn(1)
    /\ UNCHANGED <<index_names, next_index_oid, torn>>

\* The child has no more rows: the statement returns its count or rows.
Finish ==
    /\ Running
    /\ Exhausted(stmt.child)
    /\ stmt' = Idle
    /\ UNCHANGED <<heap, indexes, index_names, next_index_oid, torn>>

\* Tables are created and filled through the catalog before statements run
\* (INSERT ... VALUES is not supported).
InitialHeaps == UNION {[1 .. n -> Rows] : n \in 0 .. MaxSlots}

Init ==
    /\ heap \in [Tables -> InitialHeaps]
    /\ indexes = <<>>
    /\ index_names = [tn \in Tables \X Names |-> 0]
    /\ next_index_oid = 1
    /\ stmt = Idle
    /\ torn = FALSE

Statements ==
    \/ \E name \in Names, t \in Tables, key_attrs \in KeyAttrs :
          CreateIndex(name, t, key_attrs)
    \/ \E name \in Names : DropIndex(name)
    \/ \E t \in Tables, pred \in Predicates :
          \/ BeginSelect(t, pred)
          \/ \E into \in Tables : BeginInsert(into, t, pred)
          \/ \E set \in Assignments : BeginUpdate(t, pred, set)
          \/ BeginDelete(t, pred)
    \/ SkipRow
    \/ SelectRow
    \/ InsertRow
    \/ InsertRefused
    \/ UpdateRow
    \/ UpdateTears
    \/ UpdateThrows
    \/ DeleteRow
    \/ Finish

Next == ~torn /\ Statements

Spec == Init /\ [][Next]_vars

-----------------------------------------------------------------------------
(* Properties. *)

Slots == 1 .. MaxSlots
IndexType == [name : Names, table : Tables, key_attrs : KeyAttrs,
              map : [Vals -> Seq(Slots)]]

\* Type invariant.  The catalog's two maps mirror each other: each name of
\* index_names_ leads to the index of that name, each index has its name.
DataOK ==
    /\ heap \in [Tables -> Seq(Rows \cup {Deleted})]
    /\ \A t \in Tables : Len(heap[t]) <= MaxSlots
    /\ next_index_oid \in 1 .. MaxOid + 1
    /\ DOMAIN indexes \subseteq 1 .. next_index_oid - 1
    /\ \A oid \in DOMAIN indexes : indexes[oid] \in IndexType
    /\ index_names \in [Tables \X Names -> DOMAIN indexes \cup {0}]
    /\ \A oid \in DOMAIN indexes, tn \in Tables \X Names :
          index_names[tn] = oid <=> tn = <<indexes[oid].table, indexes[oid].name>>
TypeOK == DataOK /\ torn \in BOOLEAN

\* An index names, for every key, exactly the live rows with that key, each
\* once: after every row of every statement, also of one that a SET expression
\* ends, whichever indexes were created before or after the rows, so that
\* index scans and DML can trust it until a page is torn.
IndexesAgreed ==
    \A oid \in DOMAIN indexes :
        LET index == indexes[oid] IN
        SupportsPointLookup(index) =>
          \A k \in Vals :
              LET rids == index.map[k] IN
              /\ {rids[i] : i \in DOMAIN rids} =
                    {r \in Live(heap[index.table]) :
                        heap[index.table][r][GetLookupAttr(index)] = k}
              /\ \A i, j \in DOMAIN rids : rids[i] = rids[j] => i = j
IndexAgrees == ~torn => IndexesAgreed

Ended(kind) == ~torn /\ Running /\ stmt.kind = kind /\ Exhausted(stmt.child)

\* The rows the statement is about: those that matched when it began.
Source == stmt.start[stmt.table]
Selected == {r \in Live(Source) : Matches(Source[r], stmt.pred)}

\* SELECT returns every matching row once and no other, whether the optimizer
\* has chosen an index, and whichever, or not.
SelectExact ==
    Ended("select") =>
        \A r \in Slots : Cardinality({i \in DOMAIN stmt.result : stmt.result[i] = r})
                           = (IF r \in Selected THEN 1 ELSE 0)

\* UPDATE and DELETE mean what they say of the table as it was when they
\* began, though they change it while their own scan is on it, and change the
\* very index that their scan came from: each matching row is changed once,
\* from its old values, no other row is, and the count is the number of them.
\* That is so of every statement but one of whose updates tears its page.
ModifyExact ==
    Ended("update") \/ Ended("delete") =>
        /\ heap = [stmt.start EXCEPT ![stmt.table] =
                     [r \in DOMAIN Source |->
                        IF r \notin Selected THEN Source[r]
                        ELSE IF stmt.kind = "delete" THEN Deleted
                        ELSE NewRow(Source[r], stmt.set)]]
        /\ stmt.count = Cardinality(Selected)

\* The new rows are as many of each kind as were selected, unless the table
\* refused some.
CopiesOf(row, h, rids) == Cardinality({r \in rids : h[r] = row})
Copied ==
    LET old == stmt.start[stmt.into]
        new == DOMAIN heap[stmt.into] \ DOMAIN old
    IN  /\ SubSeq(heap[stmt.into], 1, Len(old)) = old
        /\ stmt.count = Cardinality(new)
        /\ \A row \in Rows :
              LET copies == CopiesOf(row, heap[stmt.into], new) IN
              /\ copies <= CopiesOf(row, Source, Selected)
              /\ Len(heap[stmt.into]) < MaxSlots => copies = CopiesOf(row, Source, Selected)

\* INSERT INTO ... SELECT from another table copies exactly the rows selected
\* there, each once (one from its own table meets the rows it has inserted).
InsertExact == Ended("insert") /\ stmt.into # stmt.table => Copied
=============================================================================

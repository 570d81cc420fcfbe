--------------------------- MODULE ExecutionProofs ---------------------------
(***************************************************************************)
(* The catalog's indexes agree with the tables after every row of every    *)
(* statement, and SELECT, UPDATE, DELETE and INSERT ... SELECT do what     *)
(* they say, for any tables, columns, values, SET expressions and indexes, *)
(* as long as no UPDATE has torn a page.                                   *)
(***************************************************************************)
EXTENDS Execution, FiniteSetTheorems, WellFoundedInduction, NaturalsInduction, TLAPS

RangeOf(s) == {s[i] : i \in DOMAIN s}
Distinct(s) == \A i, j \in DOMAIN s : s[i] = s[j] => i = j

Kinds == {"select", "insert", "update", "delete"}
Heaps == Seq(Rows \cup {Deleted})
ChildType == [index : BOOLEAN, it : Nat, rids : Seq(Slots)]
StmtType == [kind : Kinds, into : Tables, table : Tables, pred : Predicates,
             set : Assignments \cup {NoSet}, child : ChildType, count : Nat,
             result : Seq(Slots), start : [Tables -> Heaps]]

\* The rows that the child has still to return, and those that it has.
DueOf(child) == IF child.index THEN RangeOf(child.rids)
                ELSE {r \in Selected : child.it # 0 /\ r >= child.it}
Due == DueOf(stmt.child)
Done == Selected \ Due

\* INSERT INTO t SELECT ... FROM t: its scan meets the rows it has inserted.
FromItself == stmt.kind = "insert" /\ stmt.into = stmt.table

\* What a statement makes of row r.
Outcome(r) == IF stmt.kind = "delete" THEN Deleted ELSE NewRow(Source[r], stmt.set)

\* The child stands on rows that are there: an index scan on rids that it has
\* not returned, a sequential scan on a live slot.
ChildInv ==
    IF stmt.child.index THEN /\ Distinct(stmt.child.rids)
                             /\ Due \subseteq Selected
    ELSE stmt.child.it # 0 => stmt.child.it \in Live(heap[stmt.table])

\* How far the tables have changed.
HeapInv ==
    /\ \A t \in Tables : t # stmt.into => heap[t] = stmt.start[t]
    /\ stmt.kind = "select" => heap = stmt.start
    /\ stmt.kind \in {"update", "delete"} =>
          /\ Len(heap[stmt.table]) = Len(Source)
          /\ \A r \in DOMAIN Source :
                heap[stmt.table][r] = IF r \in Done THEN Outcome(r) ELSE Source[r]
    /\ stmt.kind = "insert" =>
          /\ Len(stmt.start[stmt.into]) <= Len(heap[stmt.into])
          /\ \A r \in DOMAIN stmt.start[stmt.into] :
                heap[stmt.into][r] = stmt.start[stmt.into][r]

\* What the statement has counted, returned and copied.
NewSlots == DOMAIN heap[stmt.into] \ DOMAIN stmt.start[stmt.into]
ResultInv ==
    /\ stmt.kind = "select" => RangeOf(stmt.result) = Done /\ Distinct(stmt.result)
    /\ stmt.kind \in {"update", "delete"} => stmt.count = Cardinality(Done)
    /\ stmt.kind = "insert" => stmt.count = Cardinality(NewSlots)
    /\ stmt.kind = "insert" /\ ~FromItself =>
          \A row \in Rows :
              /\ CopiesOf(row, heap[stmt.into], NewSlots) <= CopiesOf(row, Source, Done)
              /\ Len(heap[stmt.into]) < MaxSlots =>
                    CopiesOf(row, heap[stmt.into], NewSlots) = CopiesOf(row, Source, Done)

\* The statement that is running.
StmtInv ==
    Running =>
        /\ stmt \in StmtType
        /\ \A t \in Tables : Len(stmt.start[t]) <= MaxSlots
        /\ stmt.kind # "insert" => stmt.into = stmt.table
        /\ stmt.kind = "update" => stmt.set \in Assignments
        /\ ChildInv
        /\ HeapInv
        /\ ResultInv

\* What holds as long as no page is torn, and what holds at any time.
IInv == DataOK /\ IndexesAgreed /\ StmtInv
Inv == TypeOK /\ (~torn => IInv)

-----------------------------------------------------------------------------
(* Loops over sequences.  What a loop computes is shown by a least number  *)
(* of iterations for which it would be wrong.                              *)

\* A set of numbers that is not empty has a least one.
LEMMA LeastOf ==
    ASSUME NEW T, T \subseteq Nat, T # {}
    PROVE  \E m \in T : \A k \in T : m <= k
<1>1. PICK m \in T : \A k \in T : <<k, m>> \notin OpToRel(<, Nat)
  BY WFMin, NatLessThanWellFounded, Zenon
<1>2. \A k \in T : ~(k < m)
  BY <1>1 DEF OpToRel
<1> QED
  BY <1>2

IsAppended(u, t, x, S) == t \in Seq(S) /\ x \in S /\ u = Append(t, x)

\* A new element at the end of a sequence.
LEMMA AppendedRids ==
    ASSUME NEW S, NEW t, NEW x, NEW u, IsAppended(u, t, x, S)
    PROVE  /\ u \in Seq(S)
           /\ RangeOf(u) = RangeOf(t) \cup {x}
           /\ Distinct(t) /\ x \notin RangeOf(t) => Distinct(u)
<1> USE DEF IsAppended
<1>1. /\ u \in Seq(S) /\ Len(u) = Len(t) + 1 /\ u[Len(u)] = x /\ Len(t) \in Nat
      /\ \A i \in 1 .. Len(t) : u[i] = t[i]
      /\ DOMAIN u = 1 .. Len(t) + 1 /\ DOMAIN t = 1 .. Len(t)
  OBVIOUS
<1>2. RangeOf(u) = RangeOf(t) \cup {x}
  BY <1>1 DEF RangeOf
<1>3. ASSUME Distinct(t), x \notin RangeOf(t)
      PROVE  Distinct(u)
  <2>1. \A i \in 1 .. Len(t) : u[i] # x
    BY <1>1, <1>3 DEF RangeOf
  <2> QED
    BY <1>1, <1>3, <2>1 DEF Distinct
<1> QED
  BY <1>1, <1>2, <1>3

IsTail(u, t, S) == t \in Seq(S) /\ t # <<>> /\ u = Tail(t)

\* A sequence without its first element.
LEMMA TailRids ==
    ASSUME NEW S, NEW t, NEW u, IsTail(u, t, S)
    PROVE  /\ u \in Seq(S) /\ Head(t) \in RangeOf(t) /\ RangeOf(u) \subseteq RangeOf(t)
           /\ Distinct(t) => Distinct(u) /\ RangeOf(u) = RangeOf(t) \ {Head(t)}
<1>1. /\ u \in Seq(S) /\ Len(t) \in Nat /\ Len(t) # 0 /\ Head(t) = t[1]
      /\ DOMAIN u = 1 .. Len(t) - 1 /\ DOMAIN t = 1 .. Len(t)
      /\ \A i \in 1 .. Len(t) - 1 : u[i] = t[i + 1]
  BY DEF IsTail
<1>2. \A i \in 1 .. Len(t) : i = 1 \/ (i - 1 \in 1 .. Len(t) - 1 /\ u[i - 1] = t[i])
  BY <1>1
<1>3. RangeOf(t) = RangeOf(u) \cup {Head(t)}
  <2>1. RangeOf(t) \subseteq RangeOf(u) \cup {Head(t)}
    <3>1. ASSUME NEW i \in 1 .. Len(t)
          PROVE  t[i] \in RangeOf(u) \cup {Head(t)}
      <4>1. CASE i = 1
        BY <1>1, <4>1
      <4>2. CASE i # 1
        BY <1>1, <1>2, <4>2 DEF RangeOf
      <4> QED
        BY <4>1, <4>2
    <3> QED
      BY <1>1, <3>1 DEF RangeOf
  <2>2. \A i \in 1 .. Len(t) - 1 : i + 1 \in 1 .. Len(t)
    BY <1>1
  <2>3. RangeOf(u) \subseteq RangeOf(t)
    BY <1>1, <2>2 DEF RangeOf
  <2>4. Head(t) \in RangeOf(t)
    BY <1>1 DEF RangeOf
  <2> QED
    BY <2>1, <2>3, <2>4
<1>4. ASSUME Distinct(t)
      PROVE  Distinct(u) /\ Head(t) \notin RangeOf(u)
  <2>1. \A i \in 1 .. Len(t) - 1 : i + 1 \in 1 .. Len(t) /\ i + 1 # 1
    BY <1>1
  <2>2. \A i, j \in 1 .. Len(t) : t[i] = t[j] => i = j
    BY <1>1, <1>4 DEF Distinct
  <2>3. 1 \in 1 .. Len(t)
    BY <1>1
  <2>4. \A i \in 1 .. Len(t) - 1 : u[i] # t[1]
    BY <1>1, <2>1, <2>2, <2>3
  <2>5. ASSUME NEW i \in 1 .. Len(t) - 1, NEW j \in 1 .. Len(t) - 1, u[i] = u[j]
        PROVE  i = j
    <3>1. i + 1 = j + 1
      BY <1>1, <2>1, <2>2, <2>5
    <3> QED
      BY <3>1
  <2>6. Distinct(u)
    BY <1>1, <2>5 DEF Distinct
  <2> QED
    BY <1>1, <2>4, <2>6 DEF RangeOf
<1> QED
  BY <1>1, <1>3, <1>4

\* The equations of the loop of std::remove, over the first n rids.
KeptEquations(f, s, rid, n) ==
    f = [i \in 0 .. n |-> IF i = 0 THEN <<>>
                          ELSE IF s[i] = rid THEN f[i - 1] ELSE Append(f[i - 1], s[i])]

\* There is a function that satisfies them.
LEMMA KeptExists ==
    ASSUME NEW s, NEW rid, NEW n \in Nat
    PROVE  \E f : KeptEquations(f, s, rid, n)
<1> SUFFICES ASSUME ~ \E f : KeptEquations(f, s, rid, n) PROVE FALSE
  OBVIOUS
<1>1. PICK T : T = {k \in Nat : ~ \E f : KeptEquations(f, s, rid, k)}
  OBVIOUS
<1>2. PICK m \in T : \A k \in T : m <= k
  BY <1>1, LeastOf
<1>3. CASE m = 0
  <2>1. KeptEquations([i \in 0 .. 0 |-> <<>>], s, rid, 0)
    BY DEF KeptEquations
  <2> QED
    BY <1>1, <1>3, <2>1
<1>4. CASE m # 0
  <2>0. m \in Nat /\ m - 1 \in Nat /\ m - 1 \notin T
    BY <1>1, <1>2, <1>4
  <2>1. PICK f : KeptEquations(f, s, rid, m - 1)
    BY <1>1, <2>0
  <2>2. PICK last : last = IF s[m] = rid THEN f[m - 1] ELSE Append(f[m - 1], s[m])
    OBVIOUS
  <2>3. PICK g : g = [i \in 0 .. m |-> IF i = m THEN last ELSE f[i]]
    OBVIOUS
  <2>4. ASSUME NEW i \in 0 .. m - 1
        PROVE  f[i] = IF i = 0 THEN <<>>
                      ELSE IF s[i] = rid THEN f[i - 1] ELSE Append(f[i - 1], s[i])
    BY <2>1 DEF KeptEquations
  <2>5. \A i \in 0 .. m - 1 : g[i] = f[i]
    BY <2>0, <2>3
  <2>6. ASSUME NEW i \in 0 .. m
        PROVE  g[i] = IF i = 0 THEN <<>>
                      ELSE IF s[i] = rid THEN g[i - 1] ELSE Append(g[i - 1], s[i])
    <3>1. CASE i = m
      <4>1. g[m] = last /\ g[m - 1] = f[m - 1]
        BY <2>0, <2>3, <2>5
      <4> QED
        BY <1>4, <2>2, <3>1, <4>1
    <3>2. CASE i # m
      <4>1. i \in 0 .. m - 1 /\ (i # 0 => i - 1 \in 0 .. m - 1)
        BY <2>0, <3>2
      <4> QED
        BY <2>4, <2>5, <4>1
    <3> QED
      BY <3>1, <3>2
  <2>7. KeptEquations(g, s, rid, m)
    BY <2>3, <2>6 DEF KeptEquations
  <2> QED
    BY <1>1, <2>7
<1> QED
  BY <1>3, <1>4

\* Kept satisfies them.
LEMMA KeptIs ==
    ASSUME NEW S, NEW s \in Seq(S), NEW rid
    PROVE  KeptEquations(Kept(s, rid), s, rid, Len(s))
<1>1. Kept(s, rid) = CHOOSE f : KeptEquations(f, s, rid, Len(s))
  BY DEF KeptEquations, Kept
<1>2. \E f : KeptEquations(f, s, rid, Len(s))
  <2>1. Len(s) \in Nat
    OBVIOUS
  <2> QED
    BY <2>1, KeptExists
<1> QED
  BY <1>1, <1>2

\* What has been kept of the first i rids: a sequence of those that are not
\* rid, each once.
KeptOf(t, s, rid, S, i) ==
    /\ t \in Seq(S)
    /\ RangeOf(t) = {s[j] : j \in 1 .. i} \ {rid}
    /\ Distinct(t)

\* std::remove removes the rid and nothing else.
LEMMA RemovedRids ==
    ASSUME NEW S, NEW s \in Seq(S), NEW rid, Distinct(s)
    PROVE  KeptOf(Kept(s, rid)[Len(s)], s, rid, S, Len(s))
<1>0. PICK f : f = Kept(s, rid)
  OBVIOUS
<1>e. ASSUME NEW i \in 0 .. Len(s)
      PROVE  f[i] = IF i = 0 THEN <<>>
                    ELSE IF s[i] = rid THEN f[i - 1] ELSE Append(f[i - 1], s[i])
  <2>1. KeptEquations(f, s, rid, Len(s))
    BY <1>0, KeptIs
  <2> QED
    BY <2>1 DEF KeptEquations
<1> SUFFICES ASSUME ~KeptOf(f[Len(s)], s, rid, S, Len(s)) PROVE FALSE
  BY <1>0
<1>1. PICK T : T = {i \in 0 .. Len(s) : ~KeptOf(f[i], s, rid, S, i)}
  OBVIOUS
<1>2. PICK m \in T : \A k \in T : m <= k
  <2>1. Len(s) \in T /\ T \subseteq Nat
    BY <1>1
  <2> QED
    BY <2>1, LeastOf
<1>3. CASE m = 0
  <2>1. f[0] = <<>>
    BY <1>e
  <2>2. KeptOf(f[0], s, rid, S, 0)
    BY <2>1 DEF KeptOf, RangeOf, Distinct
  <2> QED
    BY <1>1, <1>3, <2>2
<1>4. CASE m # 0
  <2>0. m \in 1 .. Len(s) /\ m - 1 \in 0 .. Len(s) /\ m - 1 \notin T
    BY <1>1, <1>2, <1>4
  <2>1. KeptOf(f[m - 1], s, rid, S, m - 1)
    BY <1>1, <2>0
  <2>2. PICK t : t = f[m - 1]
    OBVIOUS
  <2>3. t \in Seq(S) /\ Distinct(t) /\ RangeOf(t) = {s[j] : j \in 1 .. m - 1} \ {rid}
    BY <2>1, <2>2 DEF KeptOf
  <2>4. f[m] = IF s[m] = rid THEN t ELSE Append(t, s[m])
    BY <1>4, <1>e, <2>0, <2>2
  <2>5. {s[j] : j \in 1 .. m} = {s[j] : j \in 1 .. m - 1} \cup {s[m]}
    BY <2>0
  <2>6. CASE s[m] = rid
    <3>1. KeptOf(t, s, rid, S, m)
      BY <2>3, <2>5, <2>6 DEF KeptOf
    <3> QED
      BY <1>1, <2>4, <2>6, <3>1
  <2>7. CASE s[m] # rid
    <3>1. PICK u : u = Append(t, s[m])
      OBVIOUS
    <3>4. s[m] \in S /\ s[m] \notin RangeOf(t)
      <4>1. \A j \in 1 .. m - 1 : s[j] # s[m]
        BY <2>0 DEF Distinct
      <4> QED
        BY <2>0, <2>3, <4>1
    <3>5. u \in Seq(S) /\ RangeOf(u) = RangeOf(t) \cup {s[m]} /\ Distinct(u)
      <4>0. IsAppended(u, t, s[m], S)
        BY <2>3, <3>1, <3>4 DEF IsAppended
      <4>1. /\ u \in Seq(S) /\ RangeOf(u) = RangeOf(t) \cup {s[m]}
            /\ Distinct(t) /\ s[m] \notin RangeOf(t) => Distinct(u)
        BY <4>0, AppendedRids
      <4> QED
        BY <2>3, <3>4, <4>1
    <3>6. KeptOf(u, s, rid, S, m)
      BY <2>3, <2>5, <2>7, <3>5 DEF KeptOf
    <3> QED
      BY <1>1, <2>4, <2>7, <3>1, <3>6
  <2> QED
    BY <2>6, <2>7
<1> QED
  BY <1>3, <1>4

-----------------------------------------------------------------------------
(* Indexes. *)

\* The map lists the pairs <<rid, key>> of P, each once.
Lists(map, P) ==
    /\ map \in [Vals -> Seq(Slots)]
    /\ \A k \in Vals : /\ RangeOf(map[k]) = {r \in Slots : <<r, k>> \in P}
                       /\ Distinct(map[k])

\* The pairs of a table.
Keyed(h, attr) == {<<r, h[r][attr]>> : r \in Live(h)}

\* InsertEntry adds a pair.
LEMMA InsertLists ==
    ASSUME NEW map, NEW P, Lists(map, P), NEW key \in Vals, NEW rid \in Slots,
           <<rid, key>> \notin P
    PROVE  Lists(InsertEntry(map, key, rid), P \cup {<<rid, key>>})
<1>1. PICK u : u = Append(map[key], rid)
  OBVIOUS
<1>2. map[key] \in Seq(Slots) /\ Distinct(map[key])
      /\ RangeOf(map[key]) = {r \in Slots : <<r, key>> \in P}
  BY DEF Lists
<1>3. u \in Seq(Slots) /\ RangeOf(u) = RangeOf(map[key]) \cup {rid} /\ Distinct(u)
  <2>0. IsAppended(u, map[key], rid, Slots)
    BY <1>1, <1>2 DEF IsAppended
  <2>1. /\ u \in Seq(Slots) /\ RangeOf(u) = RangeOf(map[key]) \cup {rid}
        /\ Distinct(map[key]) /\ rid \notin RangeOf(map[key]) => Distinct(u)
    BY <2>0, AppendedRids
  <2> QED
    BY <1>2, <2>1
<1>4. PICK m : m = InsertEntry(map, key, rid)
  OBVIOUS
<1>5. /\ m \in [Vals -> Seq(Slots)] /\ m[key] = u
      /\ \A k \in Vals : k # key => m[k] = map[k]
  BY <1>1, <1>3, <1>4 DEF InsertEntry, Lists
<1>6. ASSUME NEW k \in Vals
      PROVE  /\ RangeOf(m[k]) = {r \in Slots : <<r, k>> \in P \cup {<<rid, key>>}}
             /\ Distinct(m[k])
  <2>1. CASE k = key
    BY <1>2, <1>3, <1>5, <2>1
  <2>2. CASE k # key
    BY <1>5, <2>2 DEF Lists
  <2> QED
    BY <2>1, <2>2
<1> QED
  BY <1>4, <1>5, <1>6 DEF Lists

\* RemoveEntry removes a pair.
LEMMA RemoveLists ==
    ASSUME NEW map, NEW P, Lists(map, P), NEW key \in Vals, NEW rid \in Slots
    PROVE  Lists(RemoveEntry(map, key, rid), P \ {<<rid, key>>})
<1>2. map[key] \in Seq(Slots) /\ Distinct(map[key])
      /\ RangeOf(map[key]) = {r \in Slots : <<r, key>> \in P}
  BY DEF Lists
<1>1. PICK u : u = Kept(map[key], rid)[Len(map[key])]
  OBVIOUS
<1>3. u \in Seq(Slots) /\ RangeOf(u) = RangeOf(map[key]) \ {rid} /\ Distinct(u)
  <2>1. KeptOf(u, map[key], rid, Slots, Len(map[key]))
    BY <1>1, <1>2, RemovedRids
  <2>2. DOMAIN map[key] = 1 .. Len(map[key])
    BY <1>2
  <2> QED
    BY <2>1, <2>2 DEF KeptOf, RangeOf
<1>4. PICK m : m = RemoveEntry(map, key, rid)
  OBVIOUS
<1>5. /\ m \in [Vals -> Seq(Slots)] /\ m[key] = u
      /\ \A k \in Vals : k # key => m[k] = map[k]
  BY <1>1, <1>3, <1>4 DEF RemoveEntry, Lists
<1>6. ASSUME NEW k \in Vals
      PROVE  /\ RangeOf(m[k]) = {r \in Slots : <<r, k>> \in P \ {<<rid, key>>}}
             /\ Distinct(m[k])
  <2>1. CASE k = key
    BY <1>2, <1>3, <1>5, <2>1
  <2>2. CASE k # key
    BY <1>5, <2>2 DEF Lists
  <2> QED
    BY <2>1, <2>2
<1> QED
  BY <1>4, <1>5, <1>6 DEF Lists

\* The equations of CreateIndex's loop, over the first n slots.
BuiltEquations(f, h, attr, n) ==
    f = [r \in 0 .. n |-> IF r = 0 THEN NoEntries
                          ELSE IF h[r] = Deleted THEN f[r - 1]
                          ELSE InsertEntry(f[r - 1], h[r][attr], r)]

\* There is a function that satisfies them.
LEMMA BuiltExists ==
    ASSUME NEW h, NEW attr, NEW n \in Nat
    PROVE  \E f : BuiltEquations(f, h, attr, n)
<1> SUFFICES ASSUME ~ \E f : BuiltEquations(f, h, attr, n) PROVE FALSE
  OBVIOUS
<1>1. PICK T : T = {k \in Nat : ~ \E f : BuiltEquations(f, h, attr, k)}
  OBVIOUS
<1>2. PICK m \in T : \A k \in T : m <= k
  BY <1>1, LeastOf
<1>3. CASE m = 0
  <2>1. BuiltEquations([i \in 0 .. 0 |-> NoEntries], h, attr, 0)
    BY DEF BuiltEquations
  <2> QED
    BY <1>1, <1>3, <2>1
<1>4. CASE m # 0
  <2>0. m \in Nat /\ m - 1 \in Nat /\ m - 1 \notin T
    BY <1>1, <1>2, <1>4
  <2>1. PICK f : BuiltEquations(f, h, attr, m - 1)
    BY <1>1, <2>0
  <2>2. PICK last : last = IF h[m] = Deleted THEN f[m - 1]
                           ELSE InsertEntry(f[m - 1], h[m][attr], m)
    OBVIOUS
  <2>3. PICK g : g = [i \in 0 .. m |-> IF i = m THEN last ELSE f[i]]
    OBVIOUS
  <2>4. ASSUME NEW i \in 0 .. m - 1
        PROVE  f[i] = IF i = 0 THEN NoEntries ELSE IF h[i] = Deleted THEN f[i - 1]
                      ELSE InsertEntry(f[i - 1], h[i][attr], i)
    BY <2>1 DEF BuiltEquations
  <2>5. \A i \in 0 .. m - 1 : g[i] = f[i]
    BY <2>0, <2>3
  <2>6. ASSUME NEW i \in 0 .. m
        PROVE  g[i] = IF i = 0 THEN NoEntries ELSE IF h[i] = Deleted THEN g[i - 1]
                      ELSE InsertEntry(g[i - 1], h[i][attr], i)
    <3>1. CASE i = m
      <4>1. g[m] = last /\ g[m - 1] = f[m - 1]
        BY <2>0, <2>3, <2>5
      <4> QED
        BY <1>4, <2>2, <3>1, <4>1
    <3>2. CASE i # m
      <4>1. i \in 0 .. m - 1 /\ (i # 0 => i - 1 \in 0 .. m - 1)
        BY <2>0, <3>2
      <4> QED
        BY <2>4, <2>5, <4>1
    <3> QED
      BY <3>1, <3>2
  <2>7. BuiltEquations(g, h, attr, m)
    BY <2>3, <2>6 DEF BuiltEquations
  <2> QED
    BY <1>1, <2>7
<1> QED
  BY <1>3, <1>4

\* The pairs of the first i slots.
KeyedTo(h, attr, i) == {<<r, h[r][attr]>> : r \in {q \in Live(h) : q <= i}}

\* The map of a new index lists the table's rows.
LEMMA BuiltLists ==
    ASSUME NEW h \in Heaps, Len(h) <= MaxSlots, NEW attr \in Cols
    PROVE  Lists(BuiltMap(h, attr), Keyed(h, attr))
<1>0. Len(h) \in Nat /\ DOMAIN h = 1 .. Len(h) /\ MaxSlots \in Nat
  BY BoundsAssumption DEF Heaps
<1>1. PICK f : BuiltEquations(f, h, attr, Len(h)) /\ BuiltMap(h, attr) = f[Len(h)]
  <2>1. \E f : BuiltEquations(f, h, attr, Len(h))
    BY <1>0, BuiltExists
  <2>2. PICK f : f = CHOOSE g : BuiltEquations(g, h, attr, Len(h))
    OBVIOUS
  <2>3. BuiltMap(h, attr) = f[Len(h)]
    BY <2>2 DEF BuiltMap, BuiltEquations
  <2> QED
    BY <2>1, <2>2, <2>3
<1>e. ASSUME NEW i \in 0 .. Len(h)
      PROVE  f[i] = IF i = 0 THEN NoEntries ELSE IF h[i] = Deleted THEN f[i - 1]
                    ELSE InsertEntry(f[i - 1], h[i][attr], i)
  BY <1>1 DEF BuiltEquations
<1>2. Lists(f[Len(h)], KeyedTo(h, attr, Len(h)))
  <2> SUFFICES ASSUME ~Lists(f[Len(h)], KeyedTo(h, attr, Len(h))) PROVE FALSE
    OBVIOUS
  <2>1. PICK T : T = {i \in 0 .. Len(h) : ~Lists(f[i], KeyedTo(h, attr, i))}
    OBVIOUS
  <2>2. PICK m \in T : \A k \in T : m <= k
    <3>1. Len(h) \in T /\ T \subseteq Nat
      BY <1>0, <2>1
    <3> QED
      BY <3>1, LeastOf
  <2>3. CASE m = 0
    <3>1. f[0] = NoEntries
      BY <1>0, <1>e
    <3>2. KeyedTo(h, attr, 0) = {}
      BY <1>0 DEF KeyedTo, Live
    <3>3. Lists(NoEntries, {})
      BY DEF Lists, NoEntries, RangeOf, Distinct
    <3> QED
      BY <2>1, <2>3, <3>1, <3>2, <3>3
  <2>4. CASE m # 0
    <3>0. m \in 1 .. Len(h) /\ m - 1 \in 0 .. Len(h) /\ m - 1 \notin T /\ m \in Slots
      BY <1>0, <2>1, <2>2, <2>4 DEF Slots
    <3>1. PICK P : P = KeyedTo(h, attr, m - 1)
      OBVIOUS
    <3>2. Lists(f[m - 1], P)
      BY <2>1, <3>0, <3>1
    <3>3. f[m] = IF h[m] = Deleted THEN f[m - 1] ELSE InsertEntry(f[m - 1], h[m][attr], m)
      BY <1>e, <2>4, <3>0
    <3>4. CASE h[m] = Deleted
      <4>1. {q \in Live(h) : q <= m} = {q \in Live(h) : q <= m - 1}
        BY <1>0, <3>0, <3>4 DEF Live
      <4>2. KeyedTo(h, attr, m) = P
        BY <3>1, <4>1 DEF KeyedTo
      <4> QED
        BY <2>1, <3>2, <3>3, <3>4, <4>2
    <3>5. CASE h[m] # Deleted
      <4>1. {q \in Live(h) : q <= m} = {q \in Live(h) : q <= m - 1} \cup {m}
        BY <1>0, <3>0, <3>5 DEF Live
      <4>2. KeyedTo(h, attr, m) = P \cup {<<m, h[m][attr]>>}
        BY <3>1, <4>1 DEF KeyedTo
      <4>3. <<m, h[m][attr]>> \notin P
        BY <1>0, <3>0, <3>1 DEF KeyedTo, Live
      <4>4. h[m][attr] \in Vals
        BY <3>0, <3>5 DEF Heaps, Rows
      <4>5. Lists(f[m], KeyedTo(h, attr, m))
        BY <3>0, <3>2, <3>3, <3>5, <4>2, <4>3, <4>4, InsertLists
      <4> QED
        BY <2>1, <4>5
    <3> QED
      BY <3>4, <3>5
  <2> QED
    BY <2>3, <2>4
<1>3. KeyedTo(h, attr, Len(h)) = Keyed(h, attr)
  BY <1>0 DEF KeyedTo, Keyed, Live
<1> QED
  BY <1>1, <1>2, <1>3

\* Table h becomes g: slot rid of it, old before or not there, is now new.
RowChange(h, g, rid, old, new) ==
    /\ h \in Heaps /\ g \in Heaps /\ rid \in Slots /\ Len(g) <= MaxSlots
    /\ DOMAIN g = DOMAIN h \cup {rid}
    /\ \A r \in DOMAIN h : r # rid => g[r] = h[r]
    /\ g[rid] = new
    /\ old = IF rid \in DOMAIN h THEN h[rid] ELSE Deleted

\* The executors' maintenance of an index: remove the old key, insert the new.
LEMMA ReindexedLists ==
    ASSUME NEW h, NEW g, NEW rid, NEW old, NEW new, RowChange(h, g, rid, old, new),
           NEW attr \in Cols, NEW map, Lists(map, Keyed(h, attr))
    PROVE  Lists(Reindexed(map, attr, rid, old, new), Keyed(g, attr))
<1> USE DEF RowChange
<1>1. /\ old = Deleted \/ old[attr] \in Vals
      /\ new = Deleted \/ new[attr] \in Vals
  <2>1. old \in Rows \cup {Deleted} /\ new \in Rows \cup {Deleted}
    BY DEF Heaps
  <2> QED
    BY <2>1 DEF Rows
<1>2. PICK P : P = {<<r, h[r][attr]>> : r \in Live(h) \ {rid}}
  OBVIOUS
<1>3. \A k : <<rid, k>> \notin P
  BY <1>2
<1>4. PICK removed : removed = IF old = Deleted THEN map ELSE RemoveEntry(map, old[attr], rid)
  OBVIOUS
<1>5. Lists(removed, P)
  <2>1. CASE old = Deleted
    <3>1. Live(h) \ {rid} = Live(h)
      BY <2>1 DEF Live
    <3>2. P = Keyed(h, attr)
      BY <1>2, <3>1 DEF Keyed
    <3> QED
      BY <1>4, <2>1, <3>2
  <2>2. CASE old # Deleted
    <3>1. rid \in Live(h) /\ old = h[rid]
      BY <2>2 DEF Live
    <3>2. P = Keyed(h, attr) \ {<<rid, old[attr]>>}
      BY <1>2, <3>1 DEF Keyed
    <3> QED
      BY <1>1, <1>4, <2>2, <3>2, RemoveLists
  <2> QED
    BY <2>1, <2>2
<1>6. P = {<<r, g[r][attr]>> : r \in Live(g) \ {rid}}
  <2>1. Live(g) \ {rid} = Live(h) \ {rid}
    BY DEF Live
  <2>2. \A r \in Live(h) \ {rid} : g[r] = h[r]
    BY DEF Live
  <2> QED
    BY <1>2, <2>1, <2>2
<1>7. CASE new = Deleted
  <2>1. Live(g) \ {rid} = Live(g)
    BY <1>7 DEF Live
  <2>2. Keyed(g, attr) = P
    BY <1>6, <2>1 DEF Keyed
  <2> QED
    BY <1>4, <1>5, <1>7, <2>2 DEF Reindexed
<1>8. CASE new # Deleted
  <2>1. rid \in Live(g) /\ new = g[rid]
    BY <1>8 DEF Live
  <2>2. Keyed(g, attr) = P \cup {<<rid, new[attr]>>}
    BY <1>6, <2>1 DEF Keyed
  <2>3. Lists(InsertEntry(removed, new[attr], rid), P \cup {<<rid, new[attr]>>})
    BY <1>1, <1>3, <1>5, <1>8, InsertLists
  <2> QED
    BY <1>4, <1>8, <2>2, <2>3 DEF Reindexed
<1> QED
  BY <1>7, <1>8

\* Every index for point lookups lists the pairs of its table.
Listed(oid) ==
    SupportsPointLookup(indexes[oid]) =>
        Lists(indexes[oid].map, Keyed(heap[indexes[oid].table], GetLookupAttr(indexes[oid])))
AllListed == \A oid \in DOMAIN indexes : Listed(oid)

\* IndexesAgreed says so.
LEMMA ListedAgrees == DataOK => (IndexesAgreed <=> AllListed)
<1> SUFFICES ASSUME DataOK PROVE IndexesAgreed <=> AllListed
  OBVIOUS
<1>1. ASSUME NEW oid \in DOMAIN indexes, NEW h, h = heap[indexes[oid].table]
      PROVE  Live(h) \subseteq Slots
  <2>1. h \in Seq(Rows \cup {Deleted}) /\ Len(h) <= MaxSlots
    BY <1>1 DEF DataOK, IndexType
  <2> QED
    BY <2>1, BoundsAssumption DEF Live, Slots
<1>2. ASSUME NEW oid \in DOMAIN indexes
      PROVE  indexes[oid].map \in [Vals -> Seq(Slots)]
  BY DEF DataOK, IndexType
<1>3. ASSUME NEW oid \in DOMAIN indexes
      PROVE  Listed(oid) <=>
               (SupportsPointLookup(indexes[oid]) =>
                  \A k \in Vals :
                    /\ RangeOf(indexes[oid].map[k]) =
                          {r \in Live(heap[indexes[oid].table]) :
                             heap[indexes[oid].table][r][GetLookupAttr(indexes[oid])] = k}
                    /\ Distinct(indexes[oid].map[k]))
  <2>1. PICK h, attr : h = heap[indexes[oid].table] /\ attr = GetLookupAttr(indexes[oid])
    OBVIOUS
  <2>2. \A k \in Vals : {r \in Live(h) : h[r][attr] = k}
                         = {r \in Slots : <<r, k>> \in Keyed(h, attr)}
    <3>1. Live(h) \subseteq Slots
      BY <1>1, <2>1
    <3> QED
      BY <3>1 DEF Keyed
  <2>3. Listed(oid) <=> (SupportsPointLookup(indexes[oid]) =>
                           Lists(indexes[oid].map, Keyed(h, attr)))
    BY <2>1 DEF Listed
  <2> QED
    BY <1>2, <2>1, <2>2, <2>3 DEF Lists
<1> QED
  BY <1>3 DEF IndexesAgreed, AllListed, RangeOf, Distinct

\* The same of the state a step leads to.
LEMMA ListedAgreesNext == (DataOK => (IndexesAgreed <=> AllListed))'
  BY ListedAgrees, PTL

\* The column of an index for point lookups.
LEMMA LookupAttr ==
    ASSUME NEW index \in IndexType
    PROVE  GetLookupAttr(index) \in Cols
  BY KeyAttrsAssumption DEF GetLookupAttr, IndexType

\* A row of table t is changed with all the indexes on t.
MaintainedChange(t, g, rid, old, new) ==
    /\ t \in Tables
    /\ RowChange(heap[t], g, rid, old, new)
    /\ heap' = [heap EXCEPT ![t] = g]
    /\ indexes' = Maintained(t, rid, old, new)
    /\ UNCHANGED <<index_names, next_index_oid>>

\* What becomes of one index when slot rid of table t, which becomes g, changes.
BecomesIndex(t, g, rid, old, new, oid, index) ==
    /\ RowChange(heap[t], g, rid, old, new)
    /\ oid \in DOMAIN indexes
    /\ index = Maintained(t, rid, old, new)[oid]

\* It stays an index of its table, which it lists if that is t.
LEMMA MaintainedIndex ==
    ASSUME DataOK, AllListed, NEW t, NEW g, NEW rid, NEW old, NEW new, NEW oid, NEW index,
           BecomesIndex(t, g, rid, old, new, oid, index)
    PROVE  /\ index \in IndexType /\ index.name = indexes[oid].name
           /\ index.table = indexes[oid].table /\ index.key_attrs = indexes[oid].key_attrs
           /\ index.table = t /\ SupportsPointLookup(index) =>
                 Lists(index.map, Keyed(g, GetLookupAttr(index)))
           /\ index.table # t => index = indexes[oid]
<1> USE DEF BecomesIndex
<1>1. PICK before : before = indexes[oid]
  OBVIOUS
<1>2. before \in IndexType /\ GetLookupAttr(before) \in Cols
  BY <1>1, LookupAttr DEF DataOK
<1>3. CASE before.table = t /\ SupportsPointLookup(before)
  <2>1. PICK map : map = Reindexed(before.map, GetLookupAttr(before), rid, old, new)
    OBVIOUS
  <2>2. index = [before EXCEPT !.map = map]
    BY <1>1, <1>3, <2>1 DEF Maintained
  <2>3. Lists(before.map, Keyed(heap[t], GetLookupAttr(before)))
    BY <1>1, <1>3 DEF AllListed, Listed
  <2>4. Lists(map, Keyed(g, GetLookupAttr(before)))
    BY <1>2, <2>1, <2>3, ReindexedLists
  <2>5. map \in [Vals -> Seq(Slots)]
    BY <2>4 DEF Lists
  <2>6. /\ index \in IndexType
        /\ index.name = before.name /\ index.table = before.table
        /\ index.key_attrs = before.key_attrs /\ index.map = map
    BY <1>2, <2>2, <2>5 DEF IndexType
  <2> QED
    BY <1>1, <1>3, <2>4, <2>6 DEF GetLookupAttr
<1>4. CASE ~(before.table = t /\ SupportsPointLookup(before))
  BY <1>1, <1>2, <1>4 DEF Maintained
<1> QED
  BY <1>3, <1>4

\* The catalog keeps its form when the indexes are maintained.
LEMMA MaintainedCatalog ==
    ASSUME DataOK, AllListed, NEW t, NEW g, NEW rid, NEW old, NEW new,
           RowChange(heap[t], g, rid, old, new), indexes' = Maintained(t, rid, old, new),
           UNCHANGED <<index_names, next_index_oid>>,
           heap' \in [Tables -> Seq(Rows \cup {Deleted})],
           \A u \in Tables : Len(heap'[u]) <= MaxSlots
    PROVE  DataOK'
<1>1. DOMAIN indexes' = DOMAIN indexes
  BY DEF Maintained
<1>2. ASSUME NEW oid \in DOMAIN indexes
      PROVE  /\ indexes'[oid] \in IndexType
             /\ indexes'[oid].name = indexes[oid].name
             /\ indexes'[oid].table = indexes[oid].table
  <2>1. PICK index : index = Maintained(t, rid, old, new)[oid]
    OBVIOUS
  <2>2. BecomesIndex(t, g, rid, old, new, oid, index)
    BY <2>1 DEF BecomesIndex
  <2>3. /\ index \in IndexType /\ index.name = indexes[oid].name
        /\ index.table = indexes[oid].table
    BY <2>2, MaintainedIndex
  <2>4. indexes'[oid] = index
    BY <2>1
  <2> QED
    BY <2>3, <2>4
<1>3. index_names' \in [Tables \X Names -> DOMAIN indexes' \cup {0}]
  BY <1>1 DEF DataOK
<1>4. ASSUME NEW oid \in DOMAIN indexes', NEW tn \in Tables \X Names
      PROVE  index_names'[tn] = oid <=> tn = <<indexes'[oid].table, indexes'[oid].name>>
  <2>1. /\ indexes'[oid].name = indexes[oid].name /\ indexes'[oid].table = indexes[oid].table
        /\ oid \in DOMAIN indexes /\ index_names' = index_names
    BY <1>1, <1>2
  <2>2. index_names[tn] = oid <=> tn = <<indexes[oid].table, indexes[oid].name>>
    BY <2>1 DEF DataOK
  <2> QED
    BY <2>1, <2>2
<1>5. /\ next_index_oid' \in 1 .. MaxOid + 1
      /\ DOMAIN indexes' \subseteq 1 .. next_index_oid' - 1
      /\ \A oid \in DOMAIN indexes' : indexes'[oid] \in IndexType
  BY <1>1, <1>2 DEF DataOK
<1> QED
  BY <1>3, <1>4, <1>5 DEF DataOK

\* A change of one row keeps the catalog and the indexes.
LEMMA MaintainedLists ==
    ASSUME DataOK, AllListed, NEW t, NEW g, NEW rid, NEW old, NEW new,
           MaintainedChange(t, g, rid, old, new)
    PROVE  DataOK' /\ AllListed'
<1> USE DEF MaintainedChange
<1>1. /\ heap'[t] = g /\ \A u \in Tables : u # t => heap'[u] = heap[u]
      /\ heap' \in [Tables -> Seq(Rows \cup {Deleted})]
      /\ \A u \in Tables : Len(heap'[u]) <= MaxSlots
  BY DEF DataOK, RowChange, Heaps
<1>2. ASSUME NEW oid \in DOMAIN indexes
      PROVE  Listed(oid)'
  <2>1. PICK index : index = indexes'[oid]
    OBVIOUS
  <2>0. BecomesIndex(t, g, rid, old, new, oid, index)
    BY <2>1 DEF BecomesIndex
  <2>2. /\ index \in IndexType
        /\ index.table = t /\ SupportsPointLookup(index) =>
              Lists(index.map, Keyed(g, GetLookupAttr(index)))
        /\ index.table # t => index = indexes[oid]
    BY <2>0, MaintainedIndex
  <2>3. CASE index.table = t
    BY <1>1, <2>1, <2>2, <2>3 DEF Listed
  <2>4. CASE index.table # t
    <3>1. Listed(oid) /\ index = indexes[oid] /\ index.table \in Tables
      BY <2>2, <2>4 DEF AllListed, IndexType
    <3> QED
      BY <1>1, <2>1, <2>4, <3>1 DEF Listed
  <2> QED
    BY <2>3, <2>4
<1>3. DOMAIN indexes' = DOMAIN indexes
  BY DEF Maintained
<1>4. AllListed'
  BY <1>2, <1>3 DEF AllListed
<1> QED
  BY <1>1, <1>4, MaintainedCatalog

-----------------------------------------------------------------------------
(* CREATE INDEX and DROP INDEX. *)

\* CreateIndex enters an index that lists its table.
LEMMA CreateIndexStep ==
    ASSUME IInv, NEW name \in Names, NEW t \in Tables, NEW key_attrs \in KeyAttrs,
           CreateIndex(name, t, key_attrs)
    PROVE  IInv'
<1>1. /\ DataOK /\ AllListed /\ stmt = Idle
      /\ next_index_oid <= MaxOid /\ index_names[<<t, name>>] = 0
      /\ UNCHANGED <<heap, stmt>> /\ next_index_oid' = next_index_oid + 1
      /\ index_names' = [index_names EXCEPT ![<<t, name>>] = next_index_oid]
  BY ListedAgrees DEF IInv, CreateIndex, Running
<1>2. PICK oid : oid = next_index_oid
  OBVIOUS
<1>3. PICK map : map = IF Len(key_attrs) = 1 THEN BuiltMap(heap[t], Head(key_attrs))
                       ELSE NoEntries
  OBVIOUS
<1>4. PICK index : index = [name |-> name, table |-> t, key_attrs |-> key_attrs, map |-> map]
  OBVIOUS
<1>5. indexes' = [o \in DOMAIN indexes \cup {oid} |-> IF o = oid THEN index ELSE indexes[o]]
  BY <1>2, <1>3, <1>4 DEF CreateIndex
<1>6. oid \in Nat /\ oid # 0 /\ oid \notin DOMAIN indexes
      /\ next_index_oid' \in 1 .. MaxOid + 1
      /\ DOMAIN indexes \cup {oid} \subseteq 1 .. next_index_oid' - 1
  BY <1>1, <1>2, BoundsAssumption DEF DataOK
<1>7. Len(key_attrs) = 1 => Lists(map, Keyed(heap[t], Head(key_attrs)))
  <2>1. heap[t] \in Heaps /\ Len(heap[t]) <= MaxSlots
    BY <1>1 DEF DataOK, Heaps
  <2>2. Head(key_attrs) \in Cols
    BY KeyAttrsAssumption
  <2> QED
    BY <1>3, <2>1, <2>2, BuiltLists
<1>8. map \in [Vals -> Seq(Slots)]
  <2>1. CASE Len(key_attrs) = 1
    BY <1>7, <2>1 DEF Lists
  <2>2. CASE Len(key_attrs) # 1
    BY <1>3, <2>2 DEF NoEntries
  <2> QED
    BY <2>1, <2>2
<1>9. index \in IndexType
  BY <1>4, <1>8 DEF IndexType
<1>10. DOMAIN indexes' = DOMAIN indexes \cup {oid} /\ indexes'[oid] = index
       /\ \A o \in DOMAIN indexes : indexes'[o] = indexes[o]
  BY <1>5, <1>6
<1>11. Listed(oid)'
  BY <1>1, <1>4, <1>7, <1>10 DEF Listed, SupportsPointLookup, GetLookupAttr
<1>12. AllListed'
  <2>1. ASSUME NEW o \in DOMAIN indexes
        PROVE  Listed(o)'
    BY <1>1, <1>10 DEF AllListed, Listed
  <2> QED
    BY <1>10, <1>11, <2>1 DEF AllListed
<1>13. index_names' \in [Tables \X Names -> DOMAIN indexes' \cup {0}]
  BY <1>1, <1>2, <1>10 DEF DataOK
<1>14. ASSUME NEW o \in DOMAIN indexes', NEW tn \in Tables \X Names
       PROVE  index_names'[tn] = o <=> tn = <<indexes'[o].table, indexes'[o].name>>
  <2>1. index_names'[tn] = IF tn = <<t, name>> THEN oid ELSE index_names[tn]
    BY <1>1, <1>2 DEF DataOK
  <2>2. CASE o = oid
    <3>1. index_names[tn] # oid
      BY <1>1, <1>6 DEF DataOK
    <3>2. indexes'[o].table = t /\ indexes'[o].name = name
      BY <1>4, <1>10, <2>2
    <3> QED
      BY <2>1, <2>2, <3>1, <3>2
  <2>3. CASE o # oid
    <3>1. o \in DOMAIN indexes /\ indexes'[o] = indexes[o] /\ o # 0
      BY <1>1, <1>10, <2>3 DEF DataOK
    <3>2. \A un \in Tables \X Names :
             index_names[un] = o <=> un = <<indexes[o].table, indexes[o].name>>
      BY <1>1, <3>1 DEF DataOK
    <3>3. <<indexes[o].table, indexes[o].name>> # <<t, name>>
      BY <1>1, <3>1, <3>2
    <3> QED
      BY <2>1, <2>3, <3>1, <3>2, <3>3
  <2> QED
    BY <2>2, <2>3
<1>15. \A o \in DOMAIN indexes' : indexes'[o] \in IndexType
  BY <1>1, <1>9, <1>10 DEF DataOK
<1>16. DataOK'
  BY <1>1, <1>6, <1>10, <1>13, <1>14, <1>15 DEF DataOK
<1>17. StmtInv'
  BY <1>1 DEF StmtInv, Running, Idle
<1> QED
  BY <1>12, <1>16, <1>17, ListedAgreesNext DEF IInv

\* DropIndex removes the index with its name.
LEMMA DropIndexStep ==
    ASSUME IInv, NEW name \in Names, DropIndex(name)
    PROVE  IInv'
<1>1. /\ DataOK /\ AllListed /\ stmt = Idle
      /\ UNCHANGED <<heap, stmt, next_index_oid>>
  BY ListedAgrees DEF IInv, DropIndex, Running
<1>2. PICK t \in Tables : /\ index_names[<<t, name>>] # 0
                          /\ indexes' = [oid \in DOMAIN indexes \ {index_names[<<t, name>>]}
                                            |-> indexes[oid]]
                          /\ index_names' = [index_names EXCEPT ![<<t, name>>] = 0]
  BY DEF DropIndex, Matched
<1>3. PICK oid : oid = index_names[<<t, name>>]
  OBVIOUS
<1>4. oid \in DOMAIN indexes
  BY <1>1, <1>2, <1>3 DEF DataOK
<1>5. DOMAIN indexes' = DOMAIN indexes \ {oid}
      /\ \A o \in DOMAIN indexes' : indexes'[o] = indexes[o]
  BY <1>2, <1>3
<1>6. AllListed'
  <2>1. ASSUME NEW o \in DOMAIN indexes'
        PROVE  Listed(o)'
    <3>1. Listed(o) /\ indexes'[o] = indexes[o]
      BY <1>1, <1>5 DEF AllListed
    <3> QED
      BY <1>1, <3>1 DEF Listed
  <2> QED
    BY <2>1 DEF AllListed
<1>7. \A tn \in Tables \X Names :
         /\ index_names'[tn] = IF tn = <<t, name>> THEN 0 ELSE index_names[tn]
         /\ index_names[tn] = oid => tn = <<t, name>>
  <2>1. ASSUME NEW tn \in Tables \X Names, index_names[tn] = oid
        PROVE  tn = <<t, name>>
    BY <1>1, <1>3, <1>4, <2>1 DEF DataOK
  <2> QED
    BY <1>1, <1>2, <2>1 DEF DataOK
<1>8. index_names' \in [Tables \X Names -> DOMAIN indexes' \cup {0}]
  <2>1. index_names' = [tn \in Tables \X Names |-> index_names'[tn]]
    BY <1>1, <1>2 DEF DataOK
  <2>2. \A tn \in Tables \X Names : index_names'[tn] \in DOMAIN indexes' \cup {0}
    BY <1>1, <1>3, <1>5, <1>7 DEF DataOK
  <2> QED
    BY <2>1, <2>2
<1>9. ASSUME NEW o \in DOMAIN indexes', NEW tn \in Tables \X Names
      PROVE  index_names'[tn] = o <=> tn = <<indexes'[o].table, indexes'[o].name>>
  <2>1. o \in DOMAIN indexes /\ indexes'[o] = indexes[o] /\ o # 0 /\ o # oid
    BY <1>1, <1>5 DEF DataOK
  <2>2. index_names[tn] = o <=> tn = <<indexes[o].table, indexes[o].name>>
    BY <1>1, <2>1 DEF DataOK
  <2> QED
    BY <1>3, <1>7, <2>1, <2>2
<1>10. \A o \in DOMAIN indexes' : indexes'[o] \in IndexType
  BY <1>1, <1>5 DEF DataOK
<1>11. DataOK'
  BY <1>1, <1>5, <1>8, <1>9, <1>10 DEF DataOK
<1>12. StmtInv'
  BY <1>1 DEF StmtInv, Running, Idle
<1> QED
  BY <1>6, <1>11, <1>12, ListedAgreesNext DEF IInv

-----------------------------------------------------------------------------
(* The child of a statement. *)

\* The iterator goes to the next live slot.
LEMMA NextLiveIs ==
    ASSUME NEW h \in Heaps, NEW r \in Nat, NEW q, q = NextLive(h, r)
    PROVE  /\ q \in Nat
           /\ q # 0 => q \in Live(h) /\ q > r
           /\ \A p \in Live(h) : p > r => q # 0 /\ q <= p
<1>1. PICK later : later = {p \in Live(h) : p > r}
  OBVIOUS
<1>2. later \subseteq Nat /\ Live(h) \subseteq Nat
  BY <1>1 DEF Live, Heaps
<1>3. CASE later = {}
  <2>1. q = 0
    BY <1>1, <1>3 DEF NextLive
  <2> QED
    BY <1>1, <1>3, <2>1
<1>4. CASE later # {}
  <2>1. \E m \in later : \A p \in later : m <= p
    BY <1>2, <1>4, LeastOf
  <2>2. q = CHOOSE m \in later : \A p \in later : m <= p
    BY <1>1, <1>4 DEF NextLive
  <2>3. q \in later /\ \A p \in later : q <= p
    BY <2>1, <2>2
  <2>4. q \in Nat /\ q > r
    BY <1>1, <1>2, <2>3
  <2> QED
    BY <1>1, <2>3, <2>4
<1> QED
  BY <1>3, <1>4

\* The rows of a table that a statement is about.
LEMMA SelectedType ==
    ASSUME IInv, Running
    PROVE  /\ stmt \in StmtType /\ stmt.child \in ChildType
           /\ heap \in [Tables -> Heaps] /\ stmt.start \in [Tables -> Heaps]
           /\ stmt.table \in Tables /\ stmt.into \in Tables
           /\ Source \in Heaps /\ Selected \subseteq Live(Source)
           /\ Selected \subseteq Slots /\ IsFiniteSet(Selected)
           /\ Due \subseteq Selected
<1>1. /\ stmt \in StmtType /\ stmt.child \in ChildType
      /\ stmt.start \in [Tables -> Heaps] /\ stmt.table \in Tables /\ stmt.into \in Tables
      /\ ChildInv /\ Len(stmt.start[stmt.table]) <= MaxSlots
  BY DEF IInv, StmtInv, StmtType
<1>2. heap \in [Tables -> Heaps]
  BY DEF IInv, DataOK, Heaps
<1>3. Source \in Heaps /\ Len(Source) <= MaxSlots
  BY <1>1 DEF Source
<1>4. Selected \subseteq Live(Source)
  BY DEF Selected
<1>5. Live(Source) \subseteq Slots
  BY <1>3, BoundsAssumption DEF Live, Slots, Heaps
<1>6. IsFiniteSet(Selected)
  <2>1. IsFiniteSet(Slots)
    BY BoundsAssumption, FS_Interval DEF Slots
  <2> QED
    BY <1>4, <1>5, <2>1, FS_Subset
<1>7. Due \subseteq Selected
  <2>1. CASE stmt.child.index
    BY <1>1, <2>1 DEF ChildInv
  <2>2. CASE ~stmt.child.index
    BY <2>2 DEF Due, DueOf
  <2> QED
    BY <2>1, <2>2
<1> QED
  BY <1>1, <1>2, <1>3, <1>4, <1>5, <1>6, <1>7

\* Where the scanned table is still as the statement found it.
LEMMA ScannedTable ==
    ASSUME IInv, Running
    PROVE  /\ \A r \in DOMAIN Source \ Done : r \in DOMAIN heap[stmt.table]
                                               /\ heap[stmt.table][r] = Source[r]
           /\ ~FromItself => DOMAIN heap[stmt.table] = DOMAIN Source
           /\ \A r \in Due : r \in Live(heap[stmt.table]) /\ heap[stmt.table][r] = Source[r]
<1>1. /\ heap[stmt.table] \in Heaps /\ Source \in Heaps /\ Due \subseteq Selected
      /\ Selected \subseteq Live(Source) /\ stmt.kind \in Kinds /\ stmt.table \in Tables
  BY SelectedType DEF StmtType
<1>2. HeapInv /\ (stmt.kind # "insert" => stmt.into = stmt.table)
  BY DEF IInv, StmtInv
<1>3. Len(heap[stmt.table]) \in Nat /\ DOMAIN heap[stmt.table] = 1 .. Len(heap[stmt.table])
      /\ Len(Source) \in Nat /\ DOMAIN Source = 1 .. Len(Source)
  BY <1>1 DEF Heaps
<1>4. ~FromItself => DOMAIN heap[stmt.table] = DOMAIN Source
  BY <1>1, <1>2, <1>3 DEF HeapInv, FromItself, Kinds, Source
<1>5. FromItself => Len(Source) <= Len(heap[stmt.table])
  BY <1>2 DEF HeapInv, FromItself, Source
<1>6. \A r \in DOMAIN Source : r \in DOMAIN heap[stmt.table]
  BY <1>3, <1>4, <1>5
<1>7. \A r \in DOMAIN Source \ Done : heap[stmt.table][r] = Source[r]
  BY <1>1, <1>2 DEF HeapInv, FromItself, Kinds, Source
<1>8. ASSUME NEW r \in Due
      PROVE  r \in Live(heap[stmt.table]) /\ heap[stmt.table][r] = Source[r]
  <2>1. r \in DOMAIN Source \ Done /\ Source[r] # Deleted
    BY <1>1, <1>8 DEF Done, Live
  <2> QED
    BY <1>6, <1>7, <2>1 DEF Live
<1> QED
  BY <1>4, <1>6, <1>7, <1>8

\* The row that the child is on.
LEMMA TheRowIs ==
    ASSUME IInv, Running, ~Exhausted(stmt.child)
    PROVE  /\ TheRid \in Live(heap[stmt.table]) /\ TheRid \in Slots /\ TheRow \in Rows
           /\ stmt.child.index => TheRid \in Due
           /\ ~stmt.child.index => TheRid = stmt.child.it
           /\ Returned(stmt.child, TheRow, stmt.pred) /\ ~FromItself => TheRid \in Due
           /\ TheRid \in Due => TheRow = Source[TheRid] /\ Matches(TheRow, stmt.pred)
<1>0. /\ stmt.child \in ChildType /\ heap \in [Tables -> Heaps] /\ stmt.table \in Tables
      /\ Due \subseteq Selected
  BY SelectedType
<1>1. stmt.child.index => TheRid \in Due
  <2>1. ASSUME stmt.child.index
        PROVE  Head(stmt.child.rids) \in RangeOf(stmt.child.rids)
    <3>1. stmt.child.rids \in Seq(Slots) /\ stmt.child.rids # <<>>
      BY <1>0, <2>1 DEF ChildType, Exhausted
    <3>2. PICK u : u = Tail(stmt.child.rids)
      OBVIOUS
    <3>3. IsTail(u, stmt.child.rids, Slots)
      BY <3>1, <3>2 DEF IsTail
    <3> QED
      BY <3>3, TailRids
  <2> QED
    BY <2>1 DEF TheRid, ChildRid, Due, DueOf
<1>2. ~stmt.child.index => TheRid = stmt.child.it /\ TheRid # 0
  BY DEF TheRid, ChildRid, Exhausted
<1>3. TheRid \in Live(heap[stmt.table])
  <2>1. ~stmt.child.index => TheRid \in Live(heap[stmt.table])
    BY <1>2 DEF IInv, StmtInv, ChildInv
  <2> QED
    BY <1>1, <2>1, ScannedTable
<1>4. TheRid \in Slots /\ TheRow \in Rows
  <2>1. heap[stmt.table] \in Heaps /\ Len(heap[stmt.table]) <= MaxSlots
    BY <1>0 DEF IInv, DataOK
  <2> QED
    BY <1>3, <2>1, BoundsAssumption DEF Heaps, Live, Slots, TheRow
<1>5. TheRid \in Due => TheRow = Source[TheRid] /\ Matches(TheRow, stmt.pred)
  <2>1. ASSUME TheRid \in Due
        PROVE  TheRow = Source[TheRid] /\ Matches(Source[TheRid], stmt.pred)
    BY <1>0, <2>1, ScannedTable DEF TheRow, Selected
  <2> QED
    BY <2>1
<1>6. ASSUME Returned(stmt.child, TheRow, stmt.pred), ~FromItself, ~stmt.child.index
      PROVE  TheRid \in Due
  <2>1. Matches(TheRow, stmt.pred) /\ TheRid = stmt.child.it /\ TheRid # 0
    BY <1>2, <1>6 DEF Returned
  <2>2. TheRid \in DOMAIN Source
    BY <1>3, <1>6, ScannedTable DEF Live
  <2>3. TheRid >= stmt.child.it /\ TheRid \in Nat
    BY <1>0, <2>1 DEF ChildType
  <2>4. TheRid \notin Done
    BY <1>6, <2>1, <2>3 DEF Done, Due, DueOf
  <2>5. TheRow = Source[TheRid] /\ TheRow # Deleted
    BY <1>3, <2>2, <2>4, ScannedTable DEF TheRow, Live
  <2>6. TheRid \in Selected
    BY <2>1, <2>2, <2>5 DEF Selected, Live
  <2> QED
    BY <1>6, <2>1, <2>3, <2>6 DEF Due, DueOf
<1> QED
  BY <1>1, <1>2, <1>3, <1>4, <1>5, <1>6

\* The child moves on and leaves the row that it was on.
LEMMA AdvancedChild ==
    ASSUME IInv, Running, ~Exhausted(stmt.child), NEW child,
           child = Advanced(stmt.child, heap[stmt.table])
    PROVE  /\ child \in ChildType /\ child.index = stmt.child.index
           /\ child.index => /\ Distinct(child.rids)
                             /\ DueOf(child) = Due \ {TheRid}
           /\ ~child.index /\ child.it # 0 =>
                 child.it \in Live(heap[stmt.table]) /\ child.it # TheRid
           /\ ~FromItself => DueOf(child) = Due \ {TheRid}
<1>0. /\ stmt.child \in ChildType /\ heap[stmt.table] \in Heaps
      /\ Due \subseteq Selected /\ Selected \subseteq Slots
  BY SelectedType
<1>1. CASE stmt.child.index
  <2>1. stmt.child.rids \in Seq(Slots) /\ stmt.child.rids # <<>>
    BY <1>0, <1>1 DEF ChildType, Exhausted
  <2>2. PICK u : u = Tail(stmt.child.rids)
    OBVIOUS
  <2>3. IsTail(u, stmt.child.rids, Slots)
    BY <2>1, <2>2 DEF IsTail
  <2>4. Distinct(stmt.child.rids)
    BY <1>1 DEF IInv, StmtInv, ChildInv
  <2>5. u \in Seq(Slots) /\ Distinct(u)
        /\ RangeOf(u) = RangeOf(stmt.child.rids) \ {Head(stmt.child.rids)}
    BY <2>3, <2>4, TailRids
  <2>6. child = [stmt.child EXCEPT !.rids = u]
    BY <1>1, <2>2 DEF Advanced
  <2>7. child \in ChildType /\ child.index = stmt.child.index /\ child.rids = u
    BY <1>0, <2>5, <2>6 DEF ChildType
  <2>8. DueOf(child) = Due \ {TheRid}
    BY <1>1, <2>5, <2>7 DEF Due, DueOf, TheRid, ChildRid
  <2> QED
    BY <1>1, <2>5, <2>7, <2>8
<1>2. CASE ~stmt.child.index
  <2>1. PICK r : r = stmt.child.it
    OBVIOUS
  <2>2. r \in Nat /\ r # 0 /\ TheRid = r
    BY <1>0, <1>2, <2>1 DEF ChildType, Exhausted, TheRid, ChildRid
  <2>3. PICK q : q = NextLive(heap[stmt.table], r)
    OBVIOUS
  <2>4. /\ q \in Nat
        /\ q # 0 => q \in Live(heap[stmt.table]) /\ q > r
        /\ \A p \in Live(heap[stmt.table]) : p > r => q # 0 /\ q <= p
    BY <1>0, <2>2, <2>3, NextLiveIs
  <2>5. child = [stmt.child EXCEPT !.it = q]
    BY <1>2, <2>1, <2>3 DEF Advanced
  <2>6. child \in ChildType /\ child.index = stmt.child.index /\ child.it = q
    BY <1>0, <2>4, <2>5 DEF ChildType
  <2>7. q # 0 => q # TheRid
    BY <2>2, <2>4
  <2>8. ASSUME ~FromItself, NEW p \in Selected
        PROVE  p \in DueOf(child) <=> p \in Due \ {TheRid}
    <3>0. p \in Nat
      BY <1>0, BoundsAssumption DEF Slots
    <3>1. p \in Due <=> p >= r
      BY <1>2, <2>1, <2>2 DEF Due, DueOf
    <3>2. p \in DueOf(child) <=> q # 0 /\ p >= q
      BY <1>2, <2>6 DEF DueOf
    <3>3. ASSUME p \in Due, p # r
          PROVE  q # 0 /\ p >= q
      <4>1. p \in Live(heap[stmt.table]) /\ p > r
        BY <2>2, <3>0, <3>1, <3>3, ScannedTable
      <4> QED
        BY <2>4, <3>0, <4>1
    <3>4. ASSUME q # 0, p >= q
          PROVE  p >= r /\ p # r
      BY <2>2, <2>4, <3>0, <3>4
    <3> QED
      BY <2>2, <3>1, <3>2, <3>3, <3>4
  <2>9. DueOf(child) \subseteq Selected
    BY <1>2, <2>6 DEF DueOf
  <2> QED
    BY <1>0, <1>2, <2>4, <2>6, <2>7, <2>8, <2>9
<1> QED
  BY <1>1, <1>2

\* A step of the running statement: its child moves on.
Moves ==
    /\ IInv /\ Running /\ ~Exhausted(stmt.child)
    /\ stmt' \in StmtType
    /\ UNCHANGED <<stmt.kind, stmt.into, stmt.table, stmt.pred, stmt.set, stmt.start>>
    /\ stmt'.child = Advanced(stmt.child, heap[stmt.table])

\* Counting statements.
LEMMA MoveOnMoves ==
    ASSUME IInv, Running, ~Exhausted(stmt.child), NEW n \in Nat, MoveOn(n)
    PROVE  Moves /\ stmt'.count = stmt.count + n /\ stmt'.result = stmt.result
<1>1. PICK child : child = Advanced(stmt.child, heap[stmt.table])
  OBVIOUS
<1>2. stmt \in StmtType /\ child \in ChildType
  BY <1>1, SelectedType, AdvancedChild
<1>3. PICK count \in Nat : count = stmt.count + n
  BY <1>2 DEF StmtType
<1>4. stmt' = [stmt EXCEPT !.child = child, !.count = count]
  BY <1>1, <1>2, <1>3 DEF MoveOn, StmtType
<1>5. /\ stmt' \in StmtType
      /\ UNCHANGED <<stmt.kind, stmt.into, stmt.table, stmt.pred, stmt.set, stmt.start>>
      /\ stmt'.child = child /\ stmt'.count = count /\ stmt'.result = stmt.result
  BY <1>2, <1>3, <1>4 DEF StmtType
<1> QED
  BY <1>1, <1>3, <1>5 DEF Moves

\* The row that the child leaves is the only one that may be deleted.
OthersStay ==
    \A r \in Live(heap[stmt.table]) : r # TheRid => r \in Live(heap'[stmt.table])

\* After such a step.
LEMMA AfterMove ==
    ASSUME Moves
    PROVE  /\ Running' /\ Source' = Source /\ Selected' = Selected
           /\ FromItself' = FromItself
           /\ ~FromItself => Done' = IF TheRid \in Due THEN Done \cup {TheRid} ELSE Done
           /\ OthersStay => ChildInv'
<1> USE DEF Moves
<1>1. PICK child : child = Advanced(stmt.child, heap[stmt.table])
  OBVIOUS
<1>2. /\ child \in ChildType /\ child.index = stmt.child.index
      /\ child.index => /\ Distinct(child.rids)
                        /\ DueOf(child) = Due \ {TheRid}
      /\ ~child.index /\ child.it # 0 =>
            child.it \in Live(heap[stmt.table]) /\ child.it # TheRid
      /\ ~FromItself => DueOf(child) = Due \ {TheRid}
  BY <1>1, AdvancedChild
<1>3. Running'
  BY DEF Running, Idle, StmtType, Kinds
<1>4. Source' = Source /\ Selected' = Selected /\ FromItself' = FromItself
  BY DEF Source, Selected, FromItself, Matches, Live, NoPredicate
<1>5. Due' = DueOf(child)
  BY <1>1, <1>4 DEF Due, DueOf, RangeOf
<1>6. ASSUME ~FromItself
      PROVE  Done' = IF TheRid \in Due THEN Done \cup {TheRid} ELSE Done
  <2>1. Done' = Selected \ (Due \ {TheRid})
    BY <1>2, <1>4, <1>5, <1>6 DEF Done
  <2>2. Due \subseteq Selected
    BY SelectedType
  <2> QED
    BY <2>1, <2>2 DEF Done
<1>7. ASSUME OthersStay
      PROVE  ChildInv'
  <2>1. CASE child.index
    <3>1. Distinct(child.rids) /\ Due' \subseteq Selected
      BY <1>2, <1>5, <2>1, SelectedType
    <3> QED
      BY <1>1, <1>4, <2>1, <3>1 DEF ChildInv, Distinct
  <2>2. CASE ~child.index
    BY <1>1, <1>2, <1>7, <2>2 DEF ChildInv, Live, OthersStay
  <2> QED
    BY <2>1, <2>2
<1> QED
  BY <1>3, <1>4, <1>6, <1>7

\* What is left to show of a step of the statement.
LEMMA MovedInv ==
    ASSUME Moves, OthersStay, DataOK', AllListed', HeapInv', ResultInv'
    PROVE  IInv'
<1> USE DEF Moves
<1>1. ChildInv' /\ Running'
  BY AfterMove
<1>2. /\ \A t \in Tables : Len(stmt'.start[t]) <= MaxSlots
      /\ stmt'.kind # "insert" => stmt'.into = stmt'.table
      /\ stmt'.kind = "update" => stmt'.set \in Assignments
  BY DEF IInv, StmtInv
<1>3. StmtInv'
  BY <1>1, <1>2 DEF StmtInv
<1> QED
  BY <1>3, ListedAgreesNext DEF IInv

\* A step that leaves the tables and the catalog alone.
LEMMA CatalogStays ==
    ASSUME IInv, UNCHANGED <<heap, indexes, index_names, next_index_oid>>
    PROVE  DataOK' /\ AllListed'
<1>1. DataOK /\ AllListed
  BY ListedAgrees DEF IInv
<1> QED
  BY <1>1 DEF DataOK, AllListed, Listed

\* What HeapInv says of the tables does not change if they do not and no row
\* is done by it.
LEMMA HeapStays ==
    ASSUME Moves, heap' = heap, stmt.kind \in {"update", "delete"} => Done' = Done
    PROVE  HeapInv'
<1> USE DEF Moves
<1>1. HeapInv
  BY DEF IInv, StmtInv
<1>2. Source' = Source
  BY AfterMove
<1>3. \A r : Outcome(r)' = Outcome(r)
  BY <1>2 DEF Outcome, NewRow
<1> QED
  BY <1>1, <1>2, <1>3 DEF HeapInv

\* A sequential scan passes over a row that does not match.
LEMMA SkipRowStep ==
    ASSUME IInv, SkipRow
    PROVE  IInv'
<1>1. /\ Running /\ ~Exhausted(stmt.child) /\ ~Returned(stmt.child, TheRow, stmt.pred)
      /\ MoveOn(0) /\ UNCHANGED <<heap, indexes, index_names, next_index_oid>>
  BY DEF SkipRow
<1>2. Moves /\ stmt'.count = stmt.count + 0 /\ stmt'.result = stmt.result
  BY <1>1, MoveOnMoves
<1>3. stmt'.count = stmt.count
  BY <1>2 DEF Moves, IInv, StmtInv, StmtType
<1>4. TheRid \notin Due
  BY <1>1, TheRowIs DEF Returned
<1>5. /\ Source' = Source /\ FromItself' = FromItself
      /\ ~FromItself => Done' = Done
  BY <1>2, <1>4, AfterMove
<1>6. DataOK' /\ AllListed'
  BY <1>1, CatalogStays
<1>7. stmt.kind \in {"select", "update", "delete"} => Done' = Done
  BY <1>5 DEF FromItself
<1>8. HeapInv'
  BY <1>1, <1>2, <1>7, HeapStays
<1>9. ResultInv'
  <2>1. ResultInv
    BY <1>1 DEF IInv, StmtInv
  <2>2. NewSlots' = NewSlots
    BY <1>1, <1>2 DEF NewSlots, Moves
  <2> QED
    BY <1>1, <1>2, <1>3, <1>5, <1>7, <2>1, <2>2
       DEF ResultInv, Moves, RangeOf, Distinct, CopiesOf
<1>10. OthersStay
  BY <1>1 DEF OthersStay, Live
<1> QED
  BY <1>2, <1>6, <1>8, <1>9, <1>10, MovedInv

\* SELECT returns a row.
LEMMA SelectRowStep ==
    ASSUME IInv, SelectRow
    PROVE  IInv'
<1>1. /\ Running /\ ~Exhausted(stmt.child) /\ stmt.kind = "select"
      /\ Returned(stmt.child, TheRow, stmt.pred)
      /\ UNCHANGED <<heap, indexes, index_names, next_index_oid>>
      /\ stmt' = [stmt EXCEPT !.child = Advanced(@, heap[stmt.table]),
                              !.result = Append(@, TheRid)]
  BY DEF SelectRow, Takes, TheRow, TheRid
<1>2. PICK child : child = Advanced(stmt.child, heap[stmt.table])
  OBVIOUS
<1>3. stmt \in StmtType /\ child \in ChildType
  BY <1>1, <1>2, SelectedType, AdvancedChild
<1>4. PICK result : result = Append(stmt.result, TheRid)
  OBVIOUS
<1>5. ~FromItself /\ TheRid \in Slots /\ TheRid \in Due
  BY <1>1, TheRowIs DEF FromItself
<1>6. IsAppended(result, stmt.result, TheRid, Slots)
  BY <1>3, <1>4, <1>5 DEF IsAppended, StmtType
<1>7. /\ result \in Seq(Slots)
      /\ RangeOf(result) = RangeOf(stmt.result) \cup {TheRid}
      /\ Distinct(stmt.result) /\ TheRid \notin RangeOf(stmt.result) => Distinct(result)
  BY <1>6, AppendedRids
<1>8. stmt' = [stmt EXCEPT !.child = child, !.result = result]
  BY <1>1, <1>2, <1>3, <1>4 DEF StmtType
<1>9. /\ stmt' \in StmtType
      /\ UNCHANGED <<stmt.kind, stmt.into, stmt.table, stmt.pred, stmt.set, stmt.start>>
      /\ stmt'.child = child /\ stmt'.result = result
  BY <1>3, <1>7, <1>8 DEF StmtType
<1>10. Moves
  BY <1>1, <1>2, <1>9 DEF Moves
<1>11. Done' = Done \cup {TheRid}
  BY <1>5, <1>10, AfterMove
<1>12. RangeOf(stmt.result) = Done /\ Distinct(stmt.result)
  BY <1>1 DEF IInv, StmtInv, ResultInv
<1>13. ResultInv'
  <2>1. TheRid \notin Done
    BY <1>5 DEF Done
  <2>2. RangeOf(result) = Done' /\ Distinct(result)
    BY <1>7, <1>11, <1>12, <2>1
  <2> QED
    BY <1>1, <1>9, <2>2 DEF ResultInv, RangeOf, Distinct
<1>14. HeapInv'
  BY <1>1, <1>10, HeapStays
<1>15. OthersStay
  BY <1>1 DEF OthersStay, Live
<1> QED
  BY <1>1, <1>10, <1>13, <1>14, <1>15, CatalogStays, MovedInv

\* Cardinalities of sets that grow by one element.
LEMMA OneMore ==
    ASSUME NEW S, IsFiniteSet(S), NEW x, x \notin S
    PROVE  /\ IsFiniteSet(S \cup {x}) /\ Cardinality(S) \in Nat
           /\ Cardinality(S \cup {x}) = Cardinality(S) + 1
  BY FS_AddElement, FS_CardinalityType

\* The row that an update writes.
LEMMA NewRowType ==
    ASSUME IInv, Running, ~Exhausted(stmt.child), stmt.kind = "update",
           Computes(TheRow, stmt.set)
    PROVE  NewRow(TheRow, stmt.set) \in Rows
<1>1. stmt.set \in Assignments /\ TheRow \in Rows
  BY TheRowIs DEF IInv, StmtInv
<1>2. PICK col, to : col = stmt.set.col /\ to = stmt.set.to
  OBVIOUS
<1>3. col \in Cols /\ to \in [Vals -> Vals \cup {Error}]
  BY <1>1, <1>2, SettersAssumption DEF Assignments
<1>4. to[TheRow[col]] \in Vals
  <2>1. TheRow[col] \in Vals
    BY <1>1, <1>3 DEF Rows
  <2>2. to[TheRow[col]] # Error
    BY <1>2 DEF Computes
  <2> QED
    BY <1>3, <2>1, <2>2
<1> QED
  BY <1>1, <1>2, <1>3, <1>4 DEF NewRow, Rows

\* The scanned table with a new row in the slot that the child is on.
LEMMA ChangedRow ==
    ASSUME IInv, Running, ~Exhausted(stmt.child), NEW new \in Rows \cup {Deleted},
           NEW g, g = [heap[stmt.table] EXCEPT ![TheRid] = new]
    PROVE  /\ RowChange(heap[stmt.table], g, TheRid, TheRow, new)
           /\ Len(g) = Len(heap[stmt.table])
<1>1. PICK h, rid : h = heap[stmt.table] /\ rid = TheRid
  OBVIOUS
<1>2. h \in Heaps /\ rid \in DOMAIN h /\ rid \in Slots /\ TheRow = h[rid]
  BY <1>1, SelectedType, TheRowIs DEF TheRow, Live
<1>3. Len(h) <= MaxSlots
  BY <1>1, SelectedType DEF IInv, DataOK
<1>4. /\ g \in Heaps /\ DOMAIN g = DOMAIN h /\ Len(g) = Len(h)
      /\ g[rid] = new /\ \A r \in DOMAIN h : r # rid => g[r] = h[r]
  BY <1>1, <1>2 DEF Heaps
<1> QED
  BY <1>1, <1>2, <1>3, <1>4 DEF RowChange

\* UPDATE and DELETE of one row.
ModifiesRow(new) ==
    /\ Moves
    /\ stmt.kind \in {"update", "delete"}
    /\ Returned(stmt.child, TheRow, stmt.pred)
    /\ stmt.kind = "update" => Computes(TheRow, stmt.set)
    /\ new = IF stmt.kind = "delete" THEN Deleted ELSE NewRow(TheRow, stmt.set)
    /\ heap' = [heap EXCEPT ![stmt.table][TheRid] = new]
    /\ indexes' = Maintained(stmt.table, TheRid, TheRow, new)
    /\ UNCHANGED <<index_names, next_index_oid>>
    /\ stmt'.count = stmt.count + 1

\* They keep the invariant.
LEMMA ModifyStep ==
    ASSUME NEW new, ModifiesRow(new)
    PROVE  IInv'
<1> USE DEF ModifiesRow
<1>0. PICK t, rid : t = stmt.table /\ rid = TheRid
  OBVIOUS
<1>1. IInv /\ Running /\ ~Exhausted(stmt.child) /\ ~FromItself /\ stmt.into = t
  BY <1>0 DEF Moves, IInv, StmtInv, FromItself
<1>2. /\ rid \in Live(heap[t]) /\ rid \in Slots /\ TheRow \in Rows
      /\ rid \in Due /\ TheRow = Source[rid] /\ TheRow = heap[t][rid]
  BY <1>0, <1>1, TheRowIs DEF TheRow
<1>3. /\ heap \in [Tables -> Heaps] /\ t \in Tables /\ heap[t] \in Heaps
      /\ Source \in Heaps /\ Selected \subseteq Live(Source)
      /\ Due \subseteq Selected /\ IsFiniteSet(Selected)
      /\ DOMAIN heap[t] = DOMAIN Source
  BY <1>0, <1>1, SelectedType, ScannedTable
<1>4. new \in Rows \cup {Deleted}
  BY <1>1, NewRowType
<1>5. PICK g : g = [heap[t] EXCEPT ![rid] = new]
  OBVIOUS
<1>6. /\ heap' = [heap EXCEPT ![t] = g] /\ heap'[t] = g
      /\ \A u \in Tables : u # t => heap'[u] = heap[u]
  BY <1>0, <1>3, <1>5
<1>7. RowChange(heap[t], g, rid, TheRow, new) /\ Len(g) = Len(heap[t])
  BY <1>0, <1>1, <1>4, <1>5, ChangedRow
<1>8. /\ DOMAIN g = DOMAIN heap[t] /\ g[rid] = new
      /\ \A r \in DOMAIN heap[t] : r # rid => g[r] = heap[t][r]
  BY <1>2, <1>7 DEF RowChange, Live
<1>9. MaintainedChange(t, g, rid, TheRow, new)
  BY <1>0, <1>3, <1>6, <1>7 DEF MaintainedChange
<1>10. DataOK' /\ AllListed'
  BY <1>1, <1>9, ListedAgrees, MaintainedLists DEF IInv
<1>11. OthersStay
  BY <1>0, <1>6, <1>8 DEF OthersStay, Live
<1>12. Done' = Done \cup {rid} /\ Source' = Source /\ rid \notin Done
  BY <1>0, <1>1, <1>2, AfterMove DEF Done
<1>13. \A r : Outcome(r)' = Outcome(r)
  BY <1>12 DEF Outcome, NewRow, Moves
<1>14. HeapInv'
  <2>1. /\ Len(heap[t]) = Len(Source)
        /\ \A r \in DOMAIN Source : heap[t][r] = IF r \in Done THEN Outcome(r) ELSE Source[r]
        /\ \A u \in Tables : u # stmt.into => heap[u] = stmt.start[u]
    BY <1>0, <1>1 DEF IInv, StmtInv, HeapInv
  <2>2. new = Outcome(rid)
    BY <1>2 DEF Outcome
  <2>3. \A r \in DOMAIN Source : g[r] = IF r \in Done' THEN Outcome(r) ELSE Source[r]
    BY <1>3, <1>8, <1>12, <2>1, <2>2
  <2>4. Len(g) = Len(Source)
    BY <1>7, <2>1
  <2> QED
    BY <1>0, <1>1, <1>6, <1>12, <1>13, <2>1, <2>3, <2>4 DEF HeapInv, Moves
<1>15. ResultInv'
  <2>1. stmt.count = Cardinality(Done)
    BY <1>1 DEF IInv, StmtInv, ResultInv
  <2>2. IsFiniteSet(Done)
    BY <1>3, FS_Subset DEF Done
  <2>3. stmt'.count = Cardinality(Done \cup {rid})
    BY <1>12, <2>1, <2>2, OneMore
  <2> QED
    BY <1>12, <2>3 DEF ResultInv, Moves
<1> QED
  BY <1>10, <1>11, <1>14, <1>15, MovedInv

\* UPDATE of one row.
LEMMA UpdateRowStep ==
    ASSUME IInv, UpdateRow
    PROVE  IInv'
<1>1. /\ Running /\ ~Exhausted(stmt.child) /\ stmt.kind = "update" /\ MoveOn(1)
      /\ Returned(stmt.child, TheRow, stmt.pred) /\ Computes(TheRow, stmt.set)
      /\ heap' = [heap EXCEPT ![stmt.table][TheRid] = NewRow(TheRow, stmt.set)]
      /\ indexes' = Maintained(stmt.table, TheRid, TheRow, NewRow(TheRow, stmt.set))
      /\ UNCHANGED <<index_names, next_index_oid>>
  BY DEF UpdateRow, Takes, TheRow, TheRid
<1>2. Moves /\ stmt'.count = stmt.count + 1
  BY <1>1, MoveOnMoves
<1>3. ModifiesRow(NewRow(TheRow, stmt.set))
  BY <1>1, <1>2 DEF ModifiesRow
<1> QED
  BY <1>3, ModifyStep

\* UPDATE of one row whose copy is written over slots of its page: the types
\* are kept, and so are the catalog's maps.
LEMMA UpdateTearsStep ==
    ASSUME IInv, UpdateTears
    PROVE  DataOK' /\ torn' = TRUE
<1>1. /\ Running /\ ~Exhausted(stmt.child) /\ stmt.kind = "update"
      /\ Computes(TheRow, stmt.set) /\ torn' = TRUE
      /\ indexes' = Maintained(stmt.table, TheRid, TheRow, NewRow(TheRow, stmt.set))
      /\ UNCHANGED <<index_names, next_index_oid>>
  BY DEF UpdateTears, Takes
<1>2. PICK t, h, new : t = stmt.table /\ h = heap[t] /\ new = NewRow(TheRow, stmt.set)
  OBVIOUS
<1>3. /\ new \in Rows /\ t \in Tables /\ heap \in [Tables -> Heaps] /\ h \in Heaps
      /\ DataOK /\ AllListed
  BY <1>1, <1>2, NewRowType, SelectedType, ListedAgrees DEF IInv
<1>4. PICK after : /\ heap' = [heap EXCEPT ![t] = after] /\ after \in Heaps
                   /\ Len(after) = Len(h)
  <2>0. PICK hit \in SUBSET DOMAIN heap[stmt.table] : \E noise \in [hit -> Noise] :
           heap' = [heap EXCEPT ![stmt.table] =
                       [r \in DOMAIN heap[stmt.table] |->
                           IF r \in hit THEN noise[r]
                           ELSE IF r = TheRid THEN NewRow(TheRow, stmt.set)
                           ELSE heap[stmt.table][r]]]
    BY DEF UpdateTears
  <2>1. PICK noise \in [hit -> Noise] :
           heap' = [heap EXCEPT ![stmt.table] =
                       [r \in DOMAIN heap[stmt.table] |->
                           IF r \in hit THEN noise[r]
                           ELSE IF r = TheRid THEN NewRow(TheRow, stmt.set)
                           ELSE heap[stmt.table][r]]]
    BY <2>0
  <2>2. PICK after : after = [r \in DOMAIN h |-> IF r \in hit THEN noise[r]
                                                ELSE IF r = TheRid THEN new ELSE h[r]]
    OBVIOUS
  <2>3. DOMAIN h = 1 .. Len(h) /\ Len(h) \in Nat
    BY <1>3 DEF Heaps
  <2>4. \A r \in DOMAIN h : after[r] \in Rows \cup {Deleted}
    BY <1>3, <2>2, NoiseAssumption DEF Heaps
  <2>5. after \in [1 .. Len(h) -> Rows \cup {Deleted}]
    BY <2>2, <2>3, <2>4
  <2>6. after \in Heaps /\ Len(after) = Len(h)
    BY <2>3, <2>5 DEF Heaps
  <2>7. heap' = [heap EXCEPT ![t] = after]
    BY <1>2, <2>1, <2>2
  <2> QED
    BY <2>6, <2>7
<1>5. PICK g : g = [h EXCEPT ![TheRid] = new]
  OBVIOUS
<1>6. RowChange(h, g, TheRid, TheRow, new)
  BY <1>1, <1>2, <1>3, <1>5, ChangedRow
<1>7. /\ heap' \in [Tables -> Seq(Rows \cup {Deleted})]
      /\ \A u \in Tables : Len(heap'[u]) <= MaxSlots
  BY <1>2, <1>3, <1>4 DEF DataOK, Heaps
<1>8. DataOK'
  BY <1>1, <1>2, <1>3, <1>6, <1>7, MaintainedCatalog
<1> QED
  BY <1>1, <1>8

\* DELETE of one row.
LEMMA DeleteRowStep ==
    ASSUME IInv, DeleteRow
    PROVE  IInv'
<1>1. /\ Running /\ ~Exhausted(stmt.child) /\ stmt.kind = "delete" /\ MoveOn(1)
      /\ Returned(stmt.child, TheRow, stmt.pred)
      /\ heap' = [heap EXCEPT ![stmt.table][TheRid] = Deleted]
      /\ indexes' = Maintained(stmt.table, TheRid, TheRow, Deleted)
      /\ UNCHANGED <<index_names, next_index_oid>>
  BY DEF DeleteRow, Takes, TheRow, TheRid
<1>2. Moves /\ stmt'.count = stmt.count + 1
  BY <1>1, MoveOnMoves
<1>3. ModifiesRow(Deleted)
  BY <1>1, <1>2 DEF ModifiesRow
<1> QED
  BY <1>3, ModifyStep

\* Table g is table h on the slots S; x is another slot.
Grows(h, g, S, x) == IsFiniteSet(S) /\ x \notin S /\ \A r \in S : g[r] = h[r]

\* The rows of one kind in the slots S and in one more.
LEMMA CopiesGrow ==
    ASSUME NEW h, NEW g, NEW S, NEW x, NEW row, Grows(h, g, S, x)
    PROVE  /\ CopiesOf(row, h, S) \in Nat
           /\ CopiesOf(row, g, S \cup {x}) =
                 CopiesOf(row, h, S) + (IF g[x] = row THEN 1 ELSE 0)
<1> USE DEF Grows
<1>1. PICK C : C = {r \in S : h[r] = row}
  OBVIOUS
<1>2. IsFiniteSet(C) /\ x \notin C
  BY <1>1, FS_Subset
<1>3. CASE g[x] = row
  <2>1. {r \in S \cup {x} : g[r] = row} = C \cup {x}
    BY <1>1, <1>3
  <2> QED
    BY <1>1, <1>2, <1>3, <2>1, OneMore DEF CopiesOf
<1>4. CASE g[x] # row
  <2>1. {r \in S \cup {x} : g[r] = row} = C
    BY <1>1, <1>4
  <2>2. Cardinality(C) \in Nat
    BY <1>2, FS_CardinalityType
  <2>3. CopiesOf(row, h, S) = Cardinality(C) /\ CopiesOf(row, g, S \cup {x}) = Cardinality(C)
    BY <1>1, <2>1 DEF CopiesOf
  <2> QED
    BY <1>4, <2>2, <2>3
<1> QED
  BY <1>3, <1>4

\* INSERT ... SELECT inserts a row.
LEMMA InsertRowStep ==
    ASSUME IInv, InsertRow
    PROVE  IInv'
<1>1. /\ Running /\ ~Exhausted(stmt.child) /\ stmt.kind = "insert" /\ MoveOn(1)
      /\ Returned(stmt.child, TheRow, stmt.pred)
      /\ Len(heap[stmt.into]) < MaxSlots
      /\ heap' = [heap EXCEPT ![stmt.into] = Append(heap[stmt.into], TheRow)]
      /\ indexes' = Maintained(stmt.into, Len(heap[stmt.into]) + 1, Deleted, TheRow)
      /\ UNCHANGED <<index_names, next_index_oid>>
  BY DEF InsertRow, Takes, TheRow, TheRid
<1>2. Moves /\ stmt'.count = stmt.count + 1
  BY <1>1, MoveOnMoves
<1>3. PICK t, h, g, rid : /\ t = stmt.into /\ h = heap[t] /\ g = Append(h, TheRow)
                          /\ rid = Len(h) + 1
  OBVIOUS
<1>4. /\ heap \in [Tables -> Heaps] /\ stmt.start \in [Tables -> Heaps] /\ t \in Tables
      /\ h \in Heaps /\ stmt.start[t] \in Heaps /\ stmt.table \in Tables /\ TheRow \in Rows
      /\ Source \in Heaps /\ Selected \subseteq Live(Source) /\ IsFiniteSet(Selected)
  BY <1>1, <1>3, SelectedType, TheRowIs
<1>5. heap' = [heap EXCEPT ![t] = g] /\ heap'[t] = g /\ \A u \in Tables : u # t => heap'[u] = heap[u]
  BY <1>1, <1>3, <1>4
<1>6. /\ g \in Heaps /\ Len(h) \in Nat /\ Len(g) = Len(h) + 1 /\ rid \in Slots
      /\ DOMAIN h = 1 .. Len(h) /\ DOMAIN g = DOMAIN h \cup {rid} /\ rid \notin DOMAIN h
      /\ g[rid] = TheRow /\ \A r \in DOMAIN h : g[r] = h[r]
  BY <1>1, <1>3, <1>4, BoundsAssumption DEF Heaps, Slots
<1>7. RowChange(h, g, rid, Deleted, TheRow)
  BY <1>1, <1>3, <1>4, <1>6, BoundsAssumption DEF RowChange
<1>8. MaintainedChange(t, g, rid, Deleted, TheRow)
  BY <1>1, <1>3, <1>4, <1>5, <1>7 DEF MaintainedChange
<1>9. DataOK' /\ AllListed'
  BY <1>8, ListedAgrees, MaintainedLists DEF IInv
<1>10. OthersStay
  BY <1>3, <1>4, <1>5, <1>6 DEF OthersStay, Live
<1>11. /\ Source' = Source /\ FromItself' = FromItself
       /\ ~FromItself => Done' = IF TheRid \in Due THEN Done \cup {TheRid} ELSE Done
  BY <1>2, AfterMove
<1>12. HeapInv /\ ResultInv
  BY <1>1 DEF IInv, StmtInv
<1>13. /\ Len(stmt.start[t]) <= Len(h) /\ Len(stmt.start[t]) \in Nat
       /\ DOMAIN stmt.start[t] = 1 .. Len(stmt.start[t])
       /\ \A r \in DOMAIN stmt.start[t] : h[r] = stmt.start[t][r] /\ r \in DOMAIN h
  <2>1. Len(stmt.start[t]) <= Len(h) /\ \A r \in DOMAIN stmt.start[t] : h[r] = stmt.start[t][r]
    BY <1>1, <1>3, <1>12 DEF HeapInv
  <2>2. Len(stmt.start[t]) \in Nat /\ DOMAIN stmt.start[t] = 1 .. Len(stmt.start[t])
    BY <1>4 DEF Heaps
  <2> QED
    BY <1>6, <2>1, <2>2
<1>14. HeapInv'
  <2>1. \A u \in Tables : u # t => heap'[u] = stmt.start[u]
    BY <1>3, <1>5, <1>12 DEF HeapInv
  <2>2. \A r \in DOMAIN stmt.start[t] : g[r] = stmt.start[t][r]
    BY <1>6, <1>13
  <2>3. Len(stmt.start[t]) <= Len(g)
    BY <1>6, <1>13
  <2> QED
    BY <1>1, <1>2, <1>3, <1>5, <2>1, <2>2, <2>3 DEF HeapInv, Moves
<1>15. /\ NewSlots = DOMAIN h \ DOMAIN stmt.start[t]
       /\ NewSlots' = NewSlots \cup {rid} /\ rid \notin NewSlots
       /\ IsFiniteSet(NewSlots)
  <2>1. NewSlots = DOMAIN h \ DOMAIN stmt.start[t]
    BY <1>3 DEF NewSlots
  <2>2. NewSlots' = DOMAIN g \ DOMAIN stmt.start[t]
    BY <1>2, <1>3, <1>5 DEF NewSlots, Moves
  <2>3. IsFiniteSet(DOMAIN h)
    BY <1>6, FS_Interval
  <2> QED
    BY <1>6, <1>13, <2>1, <2>2, <2>3, FS_Subset
<1>16. ASSUME ~FromItself, NEW row \in Rows
       PROVE  /\ CopiesOf(row, g, NewSlots') <= CopiesOf(row, Source, Done')
              /\ Len(g) < MaxSlots =>
                    CopiesOf(row, g, NewSlots') = CopiesOf(row, Source, Done')
  <2>1. TheRid \in Due /\ TheRow = Source[TheRid]
    BY <1>1, <1>16, TheRowIs
  <2>2. Done' = Done \cup {TheRid} /\ TheRid \notin Done /\ IsFiniteSet(Done)
    BY <1>4, <1>11, <1>16, <2>1, FS_Subset DEF Done
  <2>3. /\ CopiesOf(row, h, NewSlots) = CopiesOf(row, Source, Done)
    BY <1>1, <1>3, <1>12, <1>16 DEF ResultInv
  <2>4. /\ CopiesOf(row, g, NewSlots') =
              CopiesOf(row, h, NewSlots) + (IF g[rid] = row THEN 1 ELSE 0)
        /\ CopiesOf(row, h, NewSlots) \in Nat
    <3>1. \A r \in NewSlots : g[r] = h[r]
      BY <1>6, <1>15
    <3>2. Grows(h, g, NewSlots, rid)
      BY <1>15, <3>1 DEF Grows
    <3>3. /\ CopiesOf(row, h, NewSlots) \in Nat
          /\ CopiesOf(row, g, NewSlots \cup {rid}) =
                CopiesOf(row, h, NewSlots) + (IF g[rid] = row THEN 1 ELSE 0)
      BY <3>2, CopiesGrow
    <3>4. NewSlots' = NewSlots \cup {rid}
      BY <1>15
    <3> QED
      BY <3>3, <3>4
  <2>5. CopiesOf(row, Source, Done') =
           CopiesOf(row, Source, Done) + (IF Source[TheRid] = row THEN 1 ELSE 0)
    <3>1. Grows(Source, Source, Done, TheRid)
      BY <2>2 DEF Grows
    <3> QED
      BY <2>2, <3>1, CopiesGrow
  <2>6. CopiesOf(row, g, NewSlots') = CopiesOf(row, Source, Done')
        /\ CopiesOf(row, g, NewSlots') \in Nat
    BY <1>6, <2>1, <2>3, <2>4, <2>5
  <2> QED
    BY <2>6
<1>17. stmt'.count = Cardinality(NewSlots')
  <2>1. stmt.count = Cardinality(NewSlots)
    BY <1>1, <1>12 DEF ResultInv
  <2> QED
    BY <1>2, <1>15, <2>1, OneMore
<1>18. ResultInv'
  <2>1. stmt'.kind = "insert" /\ heap'[stmt'.into] = g
    BY <1>1, <1>2, <1>3, <1>5 DEF Moves
  <2> QED
    BY <1>11, <1>16, <1>17, <2>1 DEF ResultInv
<1> QED
  BY <1>2, <1>9, <1>10, <1>14, <1>18, MovedInv

\* INSERT ... SELECT meets a table that is full.
LEMMA InsertRefusedStep ==
    ASSUME IInv, InsertRefused
    PROVE  IInv'
<1>1. /\ Running /\ ~Exhausted(stmt.child) /\ stmt.kind = "insert" /\ MoveOn(0)
      /\ Returned(stmt.child, TheRow, stmt.pred)
      /\ Len(heap[stmt.into]) = MaxSlots
      /\ UNCHANGED <<heap, indexes, index_names, next_index_oid>>
  BY DEF InsertRefused, Takes, TheRow, TheRid
<1>2. Moves /\ stmt'.count = stmt.count + 0
  BY <1>1, MoveOnMoves
<1>3. stmt'.count = stmt.count
  BY <1>2 DEF Moves, IInv, StmtInv, StmtType
<1>4. /\ Source' = Source /\ FromItself' = FromItself
      /\ ~FromItself => Done' = IF TheRid \in Due THEN Done \cup {TheRid} ELSE Done
  BY <1>2, AfterMove
<1>5. HeapInv'
  BY <1>1, <1>2, HeapStays
<1>6. NewSlots' = NewSlots
  BY <1>1, <1>2 DEF NewSlots, Moves
<1>7. ResultInv /\ IsFiniteSet(Selected) /\ heap[stmt.into] \in Heaps
  BY <1>1, SelectedType DEF IInv, StmtInv
<1>8. ASSUME ~FromItself, NEW row \in Rows
      PROVE  CopiesOf(row, heap[stmt.into], NewSlots) <= CopiesOf(row, Source, Done')
  <2>1. TheRid \in Due
    BY <1>1, <1>8, TheRowIs
  <2>2. Done' = Done \cup {TheRid} /\ TheRid \notin Done /\ IsFiniteSet(Done)
    BY <1>4, <1>7, <1>8, <2>1, FS_Subset DEF Done
  <2>3. CopiesOf(row, heap[stmt.into], NewSlots) <= CopiesOf(row, Source, Done)
    BY <1>1, <1>7, <1>8 DEF ResultInv
  <2>4. /\ CopiesOf(row, Source, Done) \in Nat
        /\ CopiesOf(row, Source, Done') =
              CopiesOf(row, Source, Done) + (IF Source[TheRid] = row THEN 1 ELSE 0)
    <3>1. Grows(Source, Source, Done, TheRid)
      BY <2>2 DEF Grows
    <3> QED
      BY <2>2, <3>1, CopiesGrow
  <2>5. CopiesOf(row, heap[stmt.into], NewSlots) \in Nat
    <3>1. IsFiniteSet(NewSlots)
      <4>1. IsFiniteSet(DOMAIN heap[stmt.into])
        <5>1. PICK h : h = heap[stmt.into]
          OBVIOUS
        <5>2. h \in Seq(Rows \cup {Deleted})
          BY <1>7, <5>1 DEF Heaps
        <5>3. Len(h) \in Nat /\ DOMAIN h = 1 .. Len(h)
          BY <5>2
        <5>4. IsFiniteSet(1 .. Len(h))
          BY <5>3, FS_Interval
        <5> QED
          BY <5>1, <5>3, <5>4
      <4> QED
        BY <4>1, FS_Subset DEF NewSlots
    <3>2. IsFiniteSet({r \in NewSlots : heap[stmt.into][r] = row})
      BY <3>1, FS_Subset
    <3> QED
      BY <3>2, FS_CardinalityType DEF CopiesOf
  <2> QED
    BY <2>3, <2>4, <2>5
<1>9. ResultInv'
  <2>1. stmt'.count = Cardinality(NewSlots)
    BY <1>1, <1>3, <1>7 DEF ResultInv
  <2>2. ~(Len(heap[stmt.into]) < MaxSlots)
    BY <1>1, BoundsAssumption
  <2> QED
    BY <1>1, <1>2, <1>4, <1>6, <1>8, <2>1, <2>2 DEF ResultInv, Moves, CopiesOf
<1>10. OthersStay
  BY <1>1 DEF OthersStay, Live
<1> QED
  BY <1>1, <1>2, <1>5, <1>9, <1>10, CatalogStays, MovedInv

-----------------------------------------------------------------------------
(* Statements begin and end. *)

\* The rows of table t that match now.
Wanted(t, pred) == {r \in Live(heap[t]) : Matches(heap[t][r], pred)}

\* The child that a statement begins with has all of them before it, whether
\* it is a sequential scan or a scan of one of the indexes that are usable.
LEMMA FirstChild ==
    ASSUME DataOK, AllListed, NEW t \in Tables, NEW pred \in Predicates,
           NEW child \in Children(t, pred)
    PROVE  /\ child \in ChildType
           /\ child.index => Distinct(child.rids) /\ RangeOf(child.rids) = Wanted(t, pred)
           /\ ~child.index => \A p \in Live(heap[t]) : child.it # 0 /\ child.it <= p
           /\ ~child.index /\ child.it # 0 => child.it \in Live(heap[t])
<1>1. heap[t] \in Heaps /\ Len(heap[t]) <= MaxSlots
  BY DEF DataOK, Heaps
<1>2. CASE child = SeqScan(t)
  <2>1. PICK q : q = NextLive(heap[t], 0)
    OBVIOUS
  <2>2. /\ q \in Nat
        /\ q # 0 => q \in Live(heap[t]) /\ q > 0
        /\ \A p \in Live(heap[t]) : p > 0 => q # 0 /\ q <= p
    BY <1>1, <2>1, NextLiveIs
  <2>3. \A p \in Live(heap[t]) : p > 0
    BY <1>1 DEF Live, Heaps
  <2>4. child = [index |-> FALSE, it |-> q, rids |-> <<>>]
    BY <1>2, <2>1 DEF SeqScan
  <2>5. child \in ChildType /\ ~child.index /\ child.it = q
    BY <2>2, <2>4 DEF ChildType
  <2> QED
    BY <2>2, <2>3, <2>5
<1>3. ASSUME NEW oid \in UsableIndexes(t, pred), child = IndexScan(oid, pred.val)
      PROVE  /\ child \in ChildType /\ child.index
             /\ Distinct(child.rids) /\ RangeOf(child.rids) = Wanted(t, pred)
  <2>1. /\ oid \in DOMAIN indexes /\ indexes[oid].table = t /\ pred # NoPredicate
        /\ SupportsPointLookup(indexes[oid]) /\ GetLookupAttr(indexes[oid]) = pred.col
    BY <1>3 DEF UsableIndexes, GetTableIndexes
  <2>2. PICK map : map = indexes[oid].map
    OBVIOUS
  <2>3. Lists(map, Keyed(heap[t], pred.col))
    BY <2>1, <2>2 DEF AllListed, Listed
  <2>4. pred.col \in Cols /\ pred.val \in Vals
    BY <2>1 DEF Predicates
  <2>5. PICK rids : rids = map[pred.val]
    OBVIOUS
  <2>6. /\ rids \in Seq(Slots) /\ Distinct(rids)
        /\ RangeOf(rids) = {r \in Slots : <<r, pred.val>> \in Keyed(heap[t], pred.col)}
    BY <2>3, <2>4, <2>5 DEF Lists
  <2>7. child = [index |-> TRUE, it |-> 0, rids |-> rids]
    BY <1>3, <2>2, <2>5 DEF IndexScan
  <2>8. child \in ChildType /\ child.index /\ child.rids = rids
    BY <2>6, <2>7 DEF ChildType
  <2>9. Live(heap[t]) \subseteq Slots
    BY <1>1, BoundsAssumption DEF Live, Slots, Heaps
  <2>10. Wanted(t, pred) = {r \in Live(heap[t]) : heap[t][r][pred.col] = pred.val}
    BY <2>1 DEF Wanted, Matches
  <2>11. RangeOf(rids) = Wanted(t, pred)
    BY <2>6, <2>9, <2>10 DEF Keyed
  <2> QED
    BY <2>6, <2>8, <2>11
<1>4. CASE UsableIndexes(t, pred) = {}
  BY <1>2, <1>4 DEF Children
<1>5. CASE UsableIndexes(t, pred) # {}
  <2>1. PICK oid \in UsableIndexes(t, pred) : child = IndexScan(oid, pred.val)
    BY <1>5 DEF Children
  <2> QED
    BY <1>3, <2>1
<1> QED
  BY <1>4, <1>5

\* The statements that there are.
Statement(kind, into, t, pred, set) ==
    /\ kind \in Kinds /\ into \in Tables /\ t \in Tables /\ pred \in Predicates
    /\ set \in Assignments \cup {NoSet}
    /\ kind # "insert" => into = t
    /\ kind = "update" => set \in Assignments

\* A statement begins with nothing done.
LEMMA BeginStep ==
    ASSUME IInv, NEW kind, NEW into, NEW t, NEW pred, NEW set,
           Statement(kind, into, t, pred, set), Begin(kind, into, t, pred, set)
    PROVE  IInv'
<1> USE DEF Statement
<1>1. PICK child \in Children(t, pred) :
          stmt' = [kind |-> kind, into |-> into, table |-> t, pred |-> pred,
                   set |-> set, child |-> child, count |-> 0,
                   result |-> <<>>, start |-> heap]
  BY DEF Begin
<1>2. UNCHANGED <<heap, indexes, index_names, next_index_oid>>
  BY DEF Begin
<1>3. DataOK /\ AllListed /\ heap \in [Tables -> Heaps]
  BY ListedAgrees DEF IInv, DataOK, Heaps
<1>4. /\ child \in ChildType
      /\ child.index => Distinct(child.rids) /\ RangeOf(child.rids) = Wanted(t, pred)
      /\ ~child.index => \A p \in Live(heap[t]) : child.it # 0 /\ child.it <= p
      /\ ~child.index /\ child.it # 0 => child.it \in Live(heap[t])
  BY <1>3, FirstChild
<1>5. /\ stmt' \in StmtType
      /\ stmt'.kind = kind /\ stmt'.into = into /\ stmt'.table = t /\ stmt'.pred = pred
      /\ stmt'.set = set /\ stmt'.child = child /\ stmt'.count = 0
      /\ stmt'.result = <<>> /\ stmt'.start = heap
  BY <1>1, <1>3, <1>4 DEF StmtType
<1>6. Source' = heap[t] /\ Selected' = Wanted(t, pred)
  <2>1. Source' = heap[t]
    BY <1>5 DEF Source
  <2> QED
    BY <1>5, <2>1 DEF Selected, Wanted, Live, Matches, NoPredicate
<1>7. Due' = Wanted(t, pred)
  <2>1. CASE child.index
    BY <1>4, <1>5, <2>1 DEF Due, DueOf, RangeOf
  <2>2. CASE ~child.index
    <3>1. Due' = {r \in Wanted(t, pred) : child.it # 0 /\ r >= child.it}
      BY <1>5, <1>6, <2>2 DEF Due, DueOf
    <3>2. \A r \in Wanted(t, pred) : child.it # 0 /\ r >= child.it
      <4>1. \A r \in Wanted(t, pred) : r \in Live(heap[t])
        BY DEF Wanted
      <4>2. \A r \in Live(heap[t]) : r \in Nat
        BY <1>3 DEF Live, Heaps
      <4>3. child.it \in Nat
        BY <1>4 DEF ChildType
      <4> QED
        BY <1>4, <2>2, <4>1, <4>2, <4>3
    <3> QED
      BY <3>1, <3>2
  <2> QED
    BY <2>1, <2>2
<1>8. Done' = {}
  BY <1>6, <1>7 DEF Done
<1>9. ChildInv'
  <2>1. CASE child.index
    BY <1>4, <1>5, <1>6, <1>7, <2>1 DEF ChildInv, Distinct
  <2>2. CASE ~child.index
    BY <1>2, <1>4, <1>5, <2>2 DEF ChildInv, Live
  <2> QED
    BY <2>1, <2>2
<1>10. HeapInv'
  <2>1. \A r \in DOMAIN heap[t] : heap[t][r] = IF r \in Done' THEN Outcome(r)' ELSE heap[t][r]
    BY <1>8
  <2>2. Len(heap[into]) <= Len(heap[into])
    <3>1. Len(heap[into]) \in Nat
      BY <1>3 DEF Heaps
    <3> QED
      BY <3>1
  <2> QED
    BY <1>2, <1>5, <1>6, <2>1, <2>2 DEF HeapInv
<1>11. ResultInv'
  <2>1. NewSlots' = {}
    BY <1>2, <1>5 DEF NewSlots
  <2>2. Cardinality({}) = 0
    BY FS_EmptySet
  <2>3. \A row, h : CopiesOf(row, h, {}) = 0
    BY <2>2 DEF CopiesOf
  <2>4. RangeOf(<<>>) = {} /\ Distinct(<<>>)
    BY DEF RangeOf, Distinct
  <2>5. stmt'.kind = "select" => RangeOf(stmt'.result) = Done' /\ Distinct(stmt'.result)
    BY <1>5, <1>8, <2>4
  <2>6. stmt'.count = Cardinality(Done') /\ stmt'.count = Cardinality(NewSlots')
    BY <1>5, <1>8, <2>1, <2>2
  <2>7. \A row \in Rows : /\ CopiesOf(row, heap'[stmt'.into], NewSlots') = 0
                          /\ CopiesOf(row, Source', Done') = 0
    BY <1>8, <2>1, <2>3
  <2> QED
    BY <2>5, <2>6, <2>7 DEF ResultInv
<1>12. DataOK' /\ AllListed'
  BY <1>2, CatalogStays
<1>13. \A u \in Tables : Len(stmt'.start[u]) <= MaxSlots
  BY <1>3, <1>5 DEF DataOK
<1>14. StmtInv'
  BY <1>5, <1>9, <1>10, <1>11, <1>13 DEF StmtInv
<1> QED
  BY <1>12, <1>14, ListedAgreesNext DEF IInv

\* A statement ends, because there are no more rows or because it throws.
LEMMA EndStep ==
    ASSUME IInv, Finish \/ UpdateThrows
    PROVE  IInv'
<1>1. stmt' = Idle /\ UNCHANGED <<heap, indexes, index_names, next_index_oid>>
  BY DEF Finish, UpdateThrows
<1>2. DataOK' /\ AllListed'
  BY <1>1, CatalogStays
<1>3. StmtInv'
  BY <1>1 DEF StmtInv, Running
<1> QED
  BY <1>2, <1>3, ListedAgreesNext DEF IInv

\* Nothing happens.
LEMMA StutterStep ==
    ASSUME IInv, UNCHANGED vars
    PROVE  IInv'
<1>1. DataOK' /\ AllListed'
  BY CatalogStays DEF vars
<1>2. StmtInv /\ stmt' = stmt /\ heap' = heap
  BY DEF IInv, vars
<1>3. /\ Source' = Source /\ Selected' = Selected /\ FromItself' = FromItself
      /\ NewSlots' = NewSlots
  BY <1>2 DEF Source, Selected, FromItself, NewSlots, Live, Matches, NoPredicate
<1>4. Due' = Due /\ Done' = Done
  BY <1>2, <1>3 DEF Due, DueOf, Done, RangeOf
<1>5. \A r : Outcome(r)' = Outcome(r)
  BY <1>2, <1>3 DEF Outcome, NewRow
<1>6. ChildInv' <=> ChildInv
  BY <1>2, <1>3, <1>4 DEF ChildInv, Distinct, Live
<1>7. HeapInv' <=> HeapInv
  BY <1>2, <1>3, <1>4, <1>5 DEF HeapInv
<1>8. ResultInv' <=> ResultInv
  BY <1>2, <1>3, <1>4 DEF ResultInv, RangeOf, Distinct, CopiesOf
<1>9. StmtInv'
  BY <1>2, <1>6, <1>7, <1>8 DEF StmtInv, Running
<1> QED
  BY <1>1, <1>9, ListedAgreesNext DEF IInv

\* At first there is no index and no statement runs.
LEMMA InitStep == Init => IInv
<1> SUFFICES ASSUME Init PROVE IInv
  OBVIOUS
<1>1. DOMAIN indexes = {}
  BY DEF Init
<1>2. \A t \in Tables : heap[t] \in Seq(Rows \cup {Deleted}) /\ Len(heap[t]) <= MaxSlots
  <2> TAKE t \in Tables
  <2>1. heap[t] \in InitialHeaps
    BY DEF Init
  <2>2. PICK n \in 0 .. MaxSlots : heap[t] \in [1 .. n -> Rows]
    BY <2>1 DEF InitialHeaps
  <2>3. PICK h : h = heap[t]
    OBVIOUS
  <2>4. n \in Nat /\ n <= MaxSlots /\ h \in [1 .. n -> Rows \cup {Deleted}]
    BY <2>2, <2>3, BoundsAssumption
  <2>5. h \in Seq(Rows \cup {Deleted}) /\ Len(h) = n
    BY <2>4
  <2> QED
    BY <2>3, <2>4, <2>5
<1>3. heap \in [Tables -> Seq(Rows \cup {Deleted})]
  BY <1>2 DEF Init
<1>4. next_index_oid \in 1 .. MaxOid + 1
  BY BoundsAssumption DEF Init
<1>5. index_names \in [Tables \X Names -> DOMAIN indexes \cup {0}]
  BY DEF Init
<1>6. DataOK
  BY <1>1, <1>2, <1>3, <1>4, <1>5 DEF DataOK
<1>7. IndexesAgreed
  BY <1>1 DEF IndexesAgreed
<1>8. StmtInv
  BY DEF Init, StmtInv, Running
<1> QED
  BY <1>6, <1>7, <1>8 DEF IInv

\* Every step but UpdateTears keeps the invariant, and no page is torn by it.
LEMMA StatementsStep == IInv /\ Statements => UpdateTears \/ (IInv' /\ torn' = torn)
<1> SUFFICES ASSUME IInv, Statements, ~UpdateTears PROVE IInv' /\ torn' = torn
  OBVIOUS
<1>1. ASSUME NEW name \in Names, NEW t \in Tables, NEW key_attrs \in KeyAttrs,
             CreateIndex(name, t, key_attrs)
      PROVE  IInv' /\ torn' = torn
  BY <1>1, CreateIndexStep DEF CreateIndex
<1>2. ASSUME NEW name \in Names, DropIndex(name)
      PROVE  IInv' /\ torn' = torn
  BY <1>2, DropIndexStep DEF DropIndex
<1>3. ASSUME NEW t \in Tables, NEW pred \in Predicates, BeginSelect(t, pred)
      PROVE  IInv' /\ torn' = torn
  <2>1. Statement("select", t, t, pred, NoSet)
    BY DEF Statement, Kinds
  <2> QED
    BY <1>3, <2>1, BeginStep DEF BeginSelect, Begin
<1>4. ASSUME NEW t \in Tables, NEW pred \in Predicates, NEW into \in Tables,
             BeginInsert(into, t, pred)
      PROVE  IInv' /\ torn' = torn
  <2>1. Statement("insert", into, t, pred, NoSet)
    BY DEF Statement, Kinds
  <2> QED
    BY <1>4, <2>1, BeginStep DEF BeginInsert, Begin
<1>5. ASSUME NEW t \in Tables, NEW pred \in Predicates, NEW set \in Assignments,
             BeginUpdate(t, pred, set)
      PROVE  IInv' /\ torn' = torn
  <2>1. Statement("update", t, t, pred, set)
    BY DEF Statement, Kinds
  <2> QED
    BY <1>5, <2>1, BeginStep DEF BeginUpdate, Begin
<1>6. ASSUME NEW t \in Tables, NEW pred \in Predicates, BeginDelete(t, pred)
      PROVE  IInv' /\ torn' = torn
  <2>1. Statement("delete", t, t, pred, NoSet)
    BY DEF Statement, Kinds
  <2> QED
    BY <1>6, <2>1, BeginStep DEF BeginDelete, Begin
<1>7. CASE SkipRow
  BY <1>7, SkipRowStep DEF SkipRow
<1>8. CASE SelectRow
  BY <1>8, SelectRowStep DEF SelectRow
<1>9. CASE InsertRow
  BY <1>9, InsertRowStep DEF InsertRow
<1>10. CASE InsertRefused
  BY <1>10, InsertRefusedStep DEF InsertRefused
<1>11. CASE UpdateRow
  BY <1>11, UpdateRowStep DEF UpdateRow
<1>12. CASE DeleteRow
  BY <1>12, DeleteRowStep DEF DeleteRow
<1>13. CASE Finish \/ UpdateThrows
  BY <1>13, EndStep DEF Finish, UpdateThrows
<1> QED
  BY <1>1, <1>2, <1>3, <1>4, <1>5, <1>6, <1>7, <1>8, <1>9, <1>10, <1>11, <1>12, <1>13
     DEF Statements

\* Every step keeps what holds at any time.
LEMMA NextStep == Inv /\ [Next]_vars => Inv'
<1> SUFFICES ASSUME Inv, [Next]_vars PROVE Inv'
  OBVIOUS
<1>1. CASE ~torn /\ Statements
  <2>1. IInv /\ torn = FALSE
    BY <1>1 DEF Inv, TypeOK
  <2>2. CASE UpdateTears
    BY <2>1, <2>2, UpdateTearsStep DEF Inv, TypeOK
  <2>3. CASE IInv' /\ torn' = torn
    BY <2>1, <2>3 DEF Inv, TypeOK, IInv
  <2> QED
    BY <1>1, <2>1, <2>2, <2>3, StatementsStep
<1>2. CASE UNCHANGED vars
  <2>1. torn' = torn /\ UNCHANGED <<heap, indexes, index_names, next_index_oid>>
    BY <1>2 DEF vars
  <2>2. TypeOK'
    BY <2>1 DEF Inv, TypeOK, DataOK
  <2>3. ~torn => IInv'
    BY <1>2, StutterStep DEF Inv
  <2> QED
    BY <2>1, <2>2, <2>3 DEF Inv
<1> QED
  BY <1>1, <1>2 DEF Next

-----------------------------------------------------------------------------
(* Theorems. *)

\* The catalog, the indexes and the running statement stay as IInv says in
\* every behaviour of the executors, until an update tears its page.
THEOREM ExecutionInvariant == Spec => []Inv
<1>1. Init => Inv
  BY InitStep DEF Inv, TypeOK, IInv, Init
<1>2. Inv /\ [Next]_vars => Inv'
  BY NextStep
<1> QED
  BY <1>1, <1>2, PTL DEF Spec

\* Every value keeps its type, and the catalog's map from names to oids and
\* the one from oids to indexes mirror each other.
THEOREM TypeCorrect == Spec => []TypeOK
<1>1. Inv => TypeOK
  BY DEF Inv
<1> QED
  BY <1>1, ExecutionInvariant, PTL

\* Every point-lookup index names, for every key, exactly the live rows of
\* that key, each once, after every row of every INSERT, UPDATE and DELETE,
\* also of an UPDATE that throws at a later row, until a page is torn.
THEOREM IndexesAgree == Spec => []IndexAgrees
<1>1. Inv => IndexAgrees
  BY DEF Inv, IInv, IndexAgrees
<1> QED
  BY <1>1, ExecutionInvariant, PTL

\* When the child is exhausted every selected row is done.
LEMMA AllDone ==
    ASSUME IInv, Running, Exhausted(stmt.child)
    PROVE  Done = Selected
<1>1. stmt.child \in ChildType
  BY SelectedType
<1>2. CASE stmt.child.index
  <2>1. stmt.child.rids = <<>>
    BY <1>2 DEF Exhausted
  <2>2. Due = {}
    BY <1>2, <2>1 DEF Due, DueOf, RangeOf
  <2> QED
    BY <2>2 DEF Done
<1>3. CASE ~stmt.child.index
  BY <1>3 DEF Exhausted, Done, Due, DueOf
<1> QED
  BY <1>2, <1>3

\* SELECT returns every matching row exactly once and no other row, by a
\* sequential scan or by whichever index the optimizer has chosen.
THEOREM SelectIsExact == Spec => []SelectExact
<1>1. Inv => SelectExact
  <2> SUFFICES ASSUME IInv, Ended("select"), NEW r \in Slots
               PROVE  Cardinality({i \in DOMAIN stmt.result : stmt.result[i] = r})
                        = (IF r \in Selected THEN 1 ELSE 0)
    BY DEF SelectExact, Ended, Inv
  <2>1. PICK result : result = stmt.result
    OBVIOUS
  <2>2. RangeOf(result) = Selected /\ Distinct(result)
    BY <2>1, AllDone DEF IInv, StmtInv, ResultInv, Ended
  <2>3. CASE r \in Selected
    <3>1. PICK i \in DOMAIN result : result[i] = r
      BY <2>2, <2>3 DEF RangeOf
    <3>2. {j \in DOMAIN result : result[j] = r} = {i}
      BY <2>2, <3>1 DEF Distinct
    <3> QED
      BY <2>1, <2>3, <3>2, FS_Singleton
  <2>4. CASE r \notin Selected
    <3>1. {j \in DOMAIN result : result[j] = r} = {}
      BY <2>2, <2>4 DEF RangeOf
    <3> QED
      BY <2>1, <2>4, <3>1, FS_EmptySet
  <2> QED
    BY <2>3, <2>4
<1> QED
  BY <1>1, ExecutionInvariant, PTL

\* UPDATE and DELETE change each row that matched when they began once, from
\* its old values, change no other row of any table, and count their rows,
\* although they change the table and the index that their own scan is on;
\* all this unless one of their updates found no room on its page for its copy.
THEOREM ModifyIsExact == Spec => []ModifyExact
<1>1. Inv => ModifyExact
  <2> SUFFICES ASSUME IInv, Ended("update") \/ Ended("delete")
               PROVE  /\ heap = [stmt.start EXCEPT ![stmt.table] =
                                   [r \in DOMAIN Source |->
                                      IF r \notin Selected THEN Source[r]
                                      ELSE IF stmt.kind = "delete" THEN Deleted
                                      ELSE NewRow(Source[r], stmt.set)]]
                      /\ stmt.count = Cardinality(Selected)
    BY DEF ModifyExact, Ended, Inv
  <2>1. /\ Running /\ Done = Selected /\ stmt.kind \in {"update", "delete"}
        /\ HeapInv /\ ResultInv /\ stmt.into = stmt.table
    BY AllDone DEF IInv, StmtInv, Ended
  <2>2. /\ heap \in [Tables -> Heaps] /\ stmt.start \in [Tables -> Heaps]
        /\ stmt.table \in Tables /\ Source \in Heaps /\ heap[stmt.table] \in Heaps
    BY <2>1, SelectedType
  <2>3. PICK g : g = [r \in DOMAIN Source |->
                        IF r \notin Selected THEN Source[r]
                        ELSE IF stmt.kind = "delete" THEN Deleted
                        ELSE NewRow(Source[r], stmt.set)]
    OBVIOUS
  <2>4. heap[stmt.table] = g
    <3>1. DOMAIN heap[stmt.table] = DOMAIN Source
      BY <2>1, <2>2, ScannedTable DEF FromItself
    <3>2. \A r \in DOMAIN Source :
             heap[stmt.table][r] = IF r \in Selected THEN Outcome(r) ELSE Source[r]
      BY <2>1 DEF HeapInv
    <3>3. \A r \in DOMAIN Source : heap[stmt.table][r] = g[r]
      BY <2>3, <3>2 DEF Outcome
    <3>4. heap[stmt.table] = [r \in DOMAIN Source |-> heap[stmt.table][r]]
      BY <2>2, <3>1 DEF Heaps
    <3> QED
      BY <2>3, <3>3, <3>4
  <2>5. heap = [stmt.start EXCEPT ![stmt.table] = g]
    <3>1. \A t \in Tables : t # stmt.table => heap[t] = stmt.start[t]
      BY <2>1 DEF HeapInv
    <3> QED
      BY <2>2, <2>4, <3>1
  <2> QED
    BY <2>1, <2>3, <2>5 DEF ResultInv
<1> QED
  BY <1>1, ExecutionInvariant, PTL

\* INSERT INTO ... SELECT from another table leaves the old rows alone and
\* adds as many copies of each row as were selected, unless the table is full.
THEOREM InsertIsExact == Spec => []InsertExact
<1>1. Inv => InsertExact
  <2> SUFFICES ASSUME IInv, Ended("insert"), stmt.into # stmt.table
               PROVE  Copied
    BY DEF InsertExact, Ended, Inv
  <2>1. /\ Running /\ Done = Selected /\ stmt.kind = "insert" /\ ~FromItself
        /\ HeapInv /\ ResultInv
    BY AllDone DEF IInv, StmtInv, Ended, FromItself
  <2>2. PICK old, h : old = stmt.start[stmt.into] /\ h = heap[stmt.into]
    OBVIOUS
  <2>3. old \in Heaps /\ h \in Heaps
    BY <2>1, <2>2, SelectedType
  <2>4. /\ Len(old) \in Nat /\ Len(h) \in Nat /\ Len(old) <= Len(h)
        /\ \A r \in 1 .. Len(old) : h[r] = old[r]
    <3>1. Len(old) \in Nat /\ Len(h) \in Nat /\ DOMAIN old = 1 .. Len(old)
      BY <2>3 DEF Heaps
    <3> QED
      BY <2>1, <2>2, <3>1 DEF HeapInv
  <2>5. SubSeq(h, 1, Len(old)) = old
    <3>1. PICK u : u = SubSeq(h, 1, Len(old))
      OBVIOUS
    <3>2. u \in Heaps /\ Len(u) = Len(old) /\ \A r \in 1 .. Len(old) : u[r] = h[r]
      BY <2>3, <2>4, <3>1 DEF Heaps
    <3> QED
      BY <2>3, <2>4, <3>1, <3>2 DEF Heaps
  <2>6. /\ stmt.count = Cardinality(NewSlots)
        /\ \A row \in Rows :
              /\ CopiesOf(row, h, NewSlots) <= CopiesOf(row, Source, Selected)
              /\ Len(h) < MaxSlots =>
                    CopiesOf(row, h, NewSlots) = CopiesOf(row, Source, Selected)
    BY <2>1, <2>2 DEF ResultInv
  <2>7. NewSlots = DOMAIN h \ DOMAIN old
    BY <2>2 DEF NewSlots
  <2> QED
    BY <2>2, <2>5, <2>6, <2>7 DEF Copied
<1> QED
  BY <1>1, ExecutionInvariant, PTL
==============================================================================

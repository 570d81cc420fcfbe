------------------------- MODULE BPlusTreeShapeProofs -------------------------
(***************************************************************************)
(* Trees, for every set of keys, rids and pages: the inductive invariant   *)
(* of BPlusTree, its pages' binary searches, and which changes of a tree   *)
(* leave a tree.                                                           *)
(*                                                                         *)
(* The invariant says of a tree that there are a level and a range of keys *)
(* for every page that fit together: a page's range is what is in lo and   *)
(* not in hi, both upward closed sets of keys.  A split and a merge are    *)
(* the two directions of one relation between trees, Joins.                *)
(***************************************************************************)
EXTENDS BPlusTree, SequenceTheorems, FiniteSetTheorems, WellFoundedInduction,
        NaturalsInduction, TLAPS

-----------------------------------------------------------------------------
(* The invariant. *)
From(k) == {x \in Keys : x >= k}
UpSets == {U \in SUBSET Keys : \A x \in U : \A y \in Keys : y >= x => y \in U}
PageVals == Rids \cup PageIds
AnyId == PageIds \cup {INVALID_PAGE_ID}

Typed(rt, ps, lv, pa, nx, ks, vs) ==
    /\ ps \subseteq PageIds /\ lv \subseteq ps /\ rt \in ps
    /\ pa \in [PageIds -> AnyId] /\ nx \in [PageIds -> AnyId]
    /\ ks \in [PageIds -> Seq(Keys)] /\ vs \in [PageIds -> Seq(PageVals)]
    /\ \A p \in PageIds : p \notin ps => pa[p] = INVALID_PAGE_ID
    /\ \A p \in PageIds : p \notin lv => nx[p] = INVALID_PAGE_ID

Counted(ps, lv, ks, vs) ==
    /\ \A p \in lv : /\ Len(ks[p]) = Len(vs[p])
                     /\ \A i \in 1 .. Len(vs[p]) : vs[p][i] \in Rids
    /\ \A p \in ps : p \notin lv => Len(ks[p]) = Len(vs[p]) - 1

\* Every page but the root is listed by its parent.
Up(rt, ps, lv, pa, vs) ==
    /\ pa[rt] = INVALID_PAGE_ID
    /\ \A p \in ps : p # rt =>
          /\ pa[p] \in ps /\ pa[p] \notin lv
          /\ \E i \in 1 .. Len(vs[pa[p]]) : vs[pa[p]][i] = p

\* A listed page exists, is listed once and knows its parent.
Down(ps, lv, pa, vs) ==
    \A p \in ps : p \notin lv =>
       \A i \in 1 .. Len(vs[p]) :
          /\ vs[p][i] \in ps /\ pa[vs[p][i]] = p
          /\ \A j \in 1 .. Len(vs[p]) : vs[p][j] = vs[p][i] => j = i

Levelled(rt, ps, lv, pa, le) ==
    /\ le \in [PageIds -> Nat]
    /\ \A p \in ps : /\ p \in lv <=> le[p] = 0
                     /\ le[p] <= le[rt]
                     /\ p # rt => le[pa[p]] = le[p] + 1

\* A child's range is the part of its parent's between the keys around it.
Routed(rt, ps, lv, ks, vs, lo, hi) ==
    /\ lo \in [PageIds -> UpSets] /\ hi \in [PageIds -> UpSets]
    /\ lo[rt] = Keys /\ hi[rt] = {}
    /\ \A p \in ps : p \notin lv =>
          \A i \in 1 .. Len(vs[p]) :
             /\ lo[vs[p][i]] = IF i = 1 THEN lo[p] ELSE From(ks[p][i - 1])
             /\ hi[vs[p][i]] = IF i = Len(vs[p]) THEN hi[p] ELSE From(ks[p][i])

\* A page's keys lie in its range, which is not empty.
Within(ps, ks, lo, hi) ==
    \A p \in ps : /\ \A i \in 1 .. Len(ks[p]) : ks[p][i] \in lo[p] /\ ks[p][i] \notin hi[p]
                  /\ \E k \in lo[p] : k \notin hi[p]

Ordered(ps, ks) ==
    \A p \in ps : \A i, j \in 1 .. Len(ks[p]) : i < j => ks[p][i] < ks[p][j]

\* The next leaf's range begins where a leaf's range ends.
Chained(lv, nx, lo, hi) ==
    \A p \in lv : IF nx[p] = INVALID_PAGE_ID THEN hi[p] = {}
                  ELSE nx[p] \in lv /\ lo[nx[p]] = hi[p]

Tree(rt, ps, lv, pa, nx, ks, vs, le, lo, hi) ==
    /\ Typed(rt, ps, lv, pa, nx, ks, vs)
    /\ Counted(ps, lv, ks, vs)
    /\ Up(rt, ps, lv, pa, vs)
    /\ Down(ps, lv, pa, vs)
    /\ Levelled(rt, ps, lv, pa, le)
    /\ Routed(rt, ps, lv, ks, vs, lo, hi)
    /\ Within(ps, ks, lo, hi)
    /\ Ordered(ps, ks)
    /\ Chained(lv, nx, lo, hi)

IsTree(le, lo, hi) == Tree(root, pages, leaves, parent, next, keys, vals, le, lo, hi)

\* No page at all.
Empty ==
    /\ root = INVALID_PAGE_ID /\ pages = {} /\ leaves = {}
    /\ parent = [p \in PageIds |-> INVALID_PAGE_ID]
    /\ next = [p \in PageIds |-> INVALID_PAGE_ID]
    /\ keys \in [PageIds -> Seq(Keys)] /\ vals \in [PageIds -> Seq(PageVals)]
    /\ loc \in {"idle", "iterate"}

\* The sizes, but for the page that an operation is about to put right.
Fits(p) ==
    /\ Size(p) <= MaxSize(p)
    /\ Size(p) >= IF p # root THEN MinSize(p) ELSE IF p \in leaves THEN 1 ELSE 2
SizeOK(p) ==
    \/ Fits(p)
    \/ loc = "overflow" /\ p = cur /\ Size(p) = MaxSize(p) + 1
    \/ loc = "underflow" /\ p = cur /\ p # root /\ Size(p) = MinSize(p) - 1
    \/ loc = "underflow" /\ p = cur /\ p = root /\ p \notin leaves /\ Size(p) = 1
Sizes == \A p \in pages : SizeOK(p)

\* The pages pinned between two steps.
Held == CASE loc \in {"descend", "first", "overflow"} -> {cur}
          [] loc = "underflow" -> IF cur \in leaves THEN {cur, parent[cur]} ELSE {cur}
          [] OTHER -> {}

\* Each page of H pinned once.
Pinned(H) == [p \in PageIds |-> IF p \in H THEN 1 ELSE 0]

Course ==
    /\ pins = Pinned(Held)
    /\ starved = FALSE
    /\ loc \in {"idle", "descend", "first", "overflow", "underflow", "iterate"}
    /\ loc \in {"descend", "first", "overflow", "underflow"} => cur \in pages
    /\ loc \in {"idle", "iterate"} => cur \in pages \cup {INVALID_PAGE_ID}
    /\ loc = "overflow" => Size(cur) = MaxSize(cur) + 1
    /\ loc = "underflow" => /\ Size(cur) < MinSize(cur)
                            /\ cur = root => cur \notin leaves /\ Size(cur) = 1

\* The page an operation has come to can hold what it looks for.
OnTheWay(lo, hi) ==
    /\ loc = "descend" => sought \in lo[cur] /\ sought \notin hi[cur]
    /\ loc = "first" => lo[cur] = Keys
    /\ loc = "iterate" /\ cur # INVALID_PAGE_ID => cur \in leaves /\ index \in 0 .. Size(cur) - 1
    /\ due \in UpSets

Inv ==
    /\ Course
    /\ Sizes
    /\ ScansInOrder
    /\ Pairs \subseteq Entries
    /\ \/ Empty /\ due \in UpSets
       \/ \E le, lo, hi : IsTree(le, lo, hi) /\ OnTheWay(lo, hi)

-----------------------------------------------------------------------------
(* Sequences, sets of numbers and iteration. *)

\* A nonempty set of naturals has a least element.
LEMMA LeastOf ==
    ASSUME NEW T, T \subseteq Nat, T # {}
    PROVE  \E m \in T : \A k \in T : m <= k
<1>1. PICK m \in T : \A k \in T : <<k, m>> \notin OpToRel(<, Nat)
  BY WFMin, NatLessThanWellFounded, Zenon
<1>2. \A k \in T : ~(k < m)
  BY <1>1 DEF OpToRel
<1> QED
  BY <1>2

\* t is s with e put in as element i.
Inserted(t, s, i, e) ==
    /\ Len(t) = Len(s) + 1
    /\ \A j \in 1 .. Len(s) + 1 :
          t[j] = IF j < i THEN s[j] ELSE IF j = i THEN e ELSE s[j - 1]

\* What InsertAt, the shifting loops of the pages' inserts, returns.
LEMMA InsertAtProperties ==
    ASSUME NEW T, NEW s \in Seq(T), NEW i \in 1 .. Len(s) + 1, NEW e \in T
    PROVE  S!InsertAt(s, i, e) \in Seq(T) /\ Inserted(S!InsertAt(s, i, e), s, i, e)
<1>1. Len(s) \in Nat
  OBVIOUS
<1>2. PICK a : a = SubSeq(s, 1, i - 1)
  OBVIOUS
<1>3. PICK b : b = SubSeq(s, i, Len(s))
  OBVIOUS
<1>4. /\ a \in Seq(T) /\ Len(a) = i - 1 /\ \A j \in 1 .. i - 1 : a[j] = s[j]
  BY <1>1, <1>2
<1>5. /\ b \in Seq(T) /\ Len(b) = Len(s) - i + 1
      /\ \A j \in 1 .. Len(s) - i + 1 : b[j] = s[i + j - 1]
  BY <1>1, <1>3
<1>6. PICK c : c = a \o <<e>>
  OBVIOUS
<1>7. /\ c \in Seq(T) /\ Len(c) = i /\ c[i] = e
      /\ \A j \in 1 .. i - 1 : c[j] = s[j]
  BY <1>1, <1>4, <1>6
<1>8. PICK d : d = c \o b
  OBVIOUS
<1>9. d \in Seq(T) /\ Len(d) = Len(s) + 1
  BY <1>1, <1>5, <1>7, <1>8
<1>10. /\ \A j \in 1 .. i : d[j] = c[j]
       /\ \A j \in i + 1 .. Len(s) + 1 : d[j] = b[j - i]
  BY <1>1, <1>5, <1>7, <1>8, SMTT(30)
<1>11. ASSUME NEW j \in 1 .. Len(s) + 1
       PROVE  d[j] = IF j < i THEN s[j] ELSE IF j = i THEN e ELSE s[j - 1]
  <2>1. CASE j <= i
    BY <1>1, <1>7, <1>10, <2>1
  <2>2. CASE j > i
    <3>1. j - i \in 1 .. Len(s) - i + 1 /\ d[j] = b[j - i]
      BY <1>1, <1>10, <2>2
    <3>2. b[j - i] = s[i + (j - i) - 1]
      BY <1>5, <3>1
    <3> QED
      BY <1>1, <2>2, <3>1, <3>2
  <2> QED
    BY <1>1, <2>1, <2>2
<1>12. S!InsertAt(s, i, e) = d
  BY <1>2, <1>3, <1>6, <1>8 DEF S!InsertAt
<1> QED
  BY <1>9, <1>11, <1>12 DEF Inserted

\* What RemoveAt, the loops that close a gap, returns.
LEMMA RemoveAtProperties ==
    ASSUME NEW T, NEW s \in Seq(T), NEW i \in 1 .. Len(s)
    PROVE  S!RemoveAt(s, i) \in Seq(T) /\ Inserted(s, S!RemoveAt(s, i), i, s[i])
<1>1. Len(s) \in Nat
  OBVIOUS
<1>2. PICK a : a = SubSeq(s, 1, i - 1)
  OBVIOUS
<1>3. PICK b : b = SubSeq(s, i + 1, Len(s))
  OBVIOUS
<1>4. /\ a \in Seq(T) /\ Len(a) = i - 1 /\ \A j \in 1 .. i - 1 : a[j] = s[j]
  BY <1>1, <1>2
<1>5. /\ b \in Seq(T) /\ Len(b) = Len(s) - i
      /\ \A j \in 1 .. Len(s) - i : b[j] = s[i + j]
  BY <1>1, <1>3
<1>6. PICK d : d = a \o b
  OBVIOUS
<1>7. d \in Seq(T) /\ Len(d) = Len(s) - 1
  BY <1>1, <1>4, <1>5, <1>6, SMTT(30)
<1>8. /\ \A j \in 1 .. i - 1 : d[j] = a[j]
      /\ \A j \in i .. Len(s) - 1 : d[j] = b[j - i + 1]
  BY <1>1, <1>4, <1>5, <1>6, SMTT(30)
<1>9. ASSUME NEW j \in 1 .. Len(s)
      PROVE  s[j] = IF j < i THEN d[j] ELSE IF j = i THEN s[i] ELSE d[j - 1]
  <2>1. CASE j <= i
    BY <1>1, <1>4, <1>8, <2>1
  <2>2. CASE j > i
    <3>1. j - i \in 1 .. Len(s) - i /\ d[j - 1] = b[j - 1 - i + 1]
      BY <1>1, <1>8, <2>2
    <3>2. b[j - i] = s[i + (j - i)]
      BY <1>5, <3>1
    <3>3. j - 1 - i + 1 = j - i /\ i + (j - i) = j
      BY <1>1
    <3> QED
      BY <1>1, <2>2, <3>1, <3>2, <3>3
  <2> QED
    BY <1>1, <2>1, <2>2
<1>10. S!RemoveAt(s, i) = d
  BY <1>2, <1>3, <1>6 DEF S!RemoveAt
<1>11. Len(d) + 1 = Len(s)
  BY <1>1, <1>7
<1> QED
  BY <1>7, <1>9, <1>10, <1>11 DEF Inserted

\* The functions that Iterate chooses its rounds from.
Rounds(f, step, start, n) ==
    f = [i \in 0 .. n |-> IF i = 0 THEN start ELSE step[f[i - 1]]]

\* There is one.
LEMMA RoundsExist ==
    ASSUME NEW step, NEW start, NEW n \in Nat
    PROVE  \E f : Rounds(f, step, start, n)
<1> SUFFICES ASSUME ~ \E f : Rounds(f, step, start, n) PROVE FALSE
  OBVIOUS
<1>1. PICK T : T = {k \in Nat : ~ \E f : Rounds(f, step, start, k)}
  OBVIOUS
<1>2. PICK m \in T : \A k \in T : m <= k
  BY <1>1, LeastOf
<1>3. CASE m = 0
  <2>1. Rounds([i \in 0 .. 0 |-> start], step, start, 0)
    BY DEF Rounds
  <2> QED
    BY <1>1, <1>3, <2>1
<1>4. CASE m # 0
  <2>0. m \in Nat /\ m - 1 \in Nat /\ m - 1 \notin T
    BY <1>1, <1>2, <1>4
  <2>1. PICK f : Rounds(f, step, start, m - 1)
    BY <1>1, <2>0
  <2>2. PICK last : last = step[f[m - 1]]
    OBVIOUS
  <2>3. PICK g : g = [i \in 0 .. m |-> IF i = m THEN last ELSE f[i]]
    OBVIOUS
  <2>4. ASSUME NEW i \in 0 .. m - 1
        PROVE  f[i] = IF i = 0 THEN start ELSE step[f[i - 1]]
    BY <2>1 DEF Rounds
  <2>5. \A i \in 0 .. m - 1 : g[i] = f[i]
    BY <2>0, <2>3
  <2>6. ASSUME NEW i \in 0 .. m
        PROVE  g[i] = IF i = 0 THEN start ELSE step[g[i - 1]]
    <3>1. CASE i = m
      <4>1. g[m] = last /\ g[m - 1] = f[m - 1]
        BY <2>0, <2>3, <2>5
      <4> QED
        BY <1>4, <2>2, <3>1, <4>1
    <3>2. CASE i # m
      <4>1. i \in 0 .. m - 1 /\ (i # 0 => i - 1 \in 0 .. m - 1)
        BY <2>0, <3>2
      <4> QED
        BY <2>4, <2>5, <4>1
    <3> QED
      BY <3>1, <3>2
  <2>7. Rounds(g, step, start, m)
    BY <2>3, <2>6 DEF Rounds
  <2> QED
    BY <1>1, <2>7
<1> QED
  BY <1>3, <1>4

\* Round after round the state stays in the sets good[0], good[1], ...
Keeps(good, step, n) == \A i \in 1 .. n : \A s \in good[i - 1] : step[s] \in good[i]

\* Induction over the rounds of a loop.
LEMMA IterateKeeps ==
    ASSUME NEW step, NEW start, NEW n \in Nat, NEW good,
           start \in good[0], Keeps(good, step, n)
    PROVE  Iterate(step, start, n) \in good[n]
<1>1. PICK f : f = CHOOSE g : Rounds(g, step, start, n)
  OBVIOUS
<1>2. Rounds(f, step, start, n)
  BY <1>1, RoundsExist
<1>3. Iterate(step, start, n) = f[n]
  BY <1>1 DEF Iterate, Rounds
<1>4. ASSUME NEW i \in 0 .. n
      PROVE  f[i] = IF i = 0 THEN start ELSE step[f[i - 1]]
  BY <1>2 DEF Rounds
<1> SUFFICES ASSUME f[n] \notin good[n] PROVE FALSE
  BY <1>3
<1>5. PICK T : T = {k \in 0 .. n : f[k] \notin good[k]}
  OBVIOUS
<1>6. PICK m \in T : \A k \in T : m <= k
  <2>1. T \subseteq Nat /\ n \in T
    BY <1>5
  <2> QED
    BY <2>1, LeastOf
<1>7. m # 0
  BY <1>4, <1>5, <1>6
<1>8. m \in 1 .. n /\ m - 1 \in 0 .. n /\ m - 1 \notin T
  BY <1>5, <1>6, <1>7
<1>9. f[m - 1] \in good[m - 1] /\ f[m] = step[f[m - 1]]
  BY <1>4, <1>5, <1>7, <1>8
<1> QED
  BY <1>5, <1>6, <1>8, <1>9 DEF Keeps

-----------------------------------------------------------------------------
(* The searches in a page. *)
NonDecreasing(ks) == \A i, j \in 1 .. Len(ks) : i < j => ks[i] <= ks[j]

\* The state <<low, high>> of a search for key in ks, good after i rounds:
\* what lies outside low .. high is decided, and the interval has shrunk.
KeyIndexGood(ks, key, i) ==
    {s \in (0 .. Len(ks)) \X (-1 .. Len(ks) - 1) :
        /\ s[1] <= s[2] + 1
        /\ s[1] > s[2] \/ s[2] - s[1] + 1 <= Len(ks) - i
        /\ \A j \in 1 .. Len(ks) : j <= s[1] => ks[j] < key
        /\ \A j \in 1 .. Len(ks) : j >= s[2] + 2 => ks[j] >= key}

\* KeyIndex, on any page whose keys are in order, is the number of keys below
\* key: the binary search stops, and does not miss the first key of a page,
\* the last, or one that is equal.
THEOREM KeyIndexCorrect ==
    ASSUME NEW ks \in Seq(Keys), NEW key \in Int, NonDecreasing(ks)
    PROVE  /\ KeyIndex(ks, key) \in 0 .. Len(ks)
           /\ \A j \in 1 .. Len(ks) : j <= KeyIndex(ks, key) <=> ks[j] < key
<1>0. Len(ks) \in Nat /\ \A j \in 1 .. Len(ks) : ks[j] \in Int
  <2>1. Len(ks) \in Nat /\ \A j \in 1 .. Len(ks) : ks[j] \in Keys
    OBVIOUS
  <2> QED
    BY <2>1, KeysAssumption
<1>1. PICK n \in Nat : n = Len(ks)
  BY <1>0
<1>2. PICK good : good = [i \in 0 .. n |-> KeyIndexGood(ks, key, i)]
  OBVIOUS
<1>3. PICK step : step = KeyIndexRound(ks, key)
  OBVIOUS
<1>4. <<0, n - 1>> \in good[0]
  BY <1>0, <1>1, <1>2 DEF KeyIndexGood
<1>5. ASSUME NEW i \in 1 .. n, NEW s \in good[i - 1] PROVE step[s] \in good[i]
  <2>1. PICK low \in 0 .. n, high \in -1 .. n - 1 : s = <<low, high>>
    BY <1>1, <1>2 DEF KeyIndexGood
  <2>2. /\ low <= high + 1
        /\ low > high \/ high - low + 1 <= n - (i - 1)
        /\ \A j \in 1 .. n : j <= low => ks[j] < key
        /\ \A j \in 1 .. n : j >= high + 2 => ks[j] >= key
    <3>1. s \in KeyIndexGood(ks, key, i - 1)
      BY <1>2, <1>5
    <3>2. s[1] = low /\ s[2] = high
      BY <2>1
    <3> QED
      BY <1>1, <3>1, <3>2 DEF KeyIndexGood
  <2>3. PICK mid : mid = (low + high) \div 2
    OBVIOUS
  <2>4. step[s] = IF low > high THEN <<low, high>>
                  ELSE IF ks[mid + 1] < key THEN <<mid + 1, high>> ELSE <<low, mid - 1>>
    BY <1>1, <1>3, <2>1, <2>3 DEF KeyIndexRound
  <2>5. ASSUME NEW a \in 0 .. n, NEW b \in -1 .. n - 1, a <= b + 1,
               a > b \/ b - a + 1 <= n - i,
               \A j \in 1 .. n : j <= a => ks[j] < key,
               \A j \in 1 .. n : j >= b + 2 => ks[j] >= key
        PROVE  <<a, b>> \in good[i]
    <3>1. PICK t : t = <<a, b>>
      OBVIOUS
    <3>2. t[1] = a /\ t[2] = b
      BY <3>1
    <3>3. t \in (0 .. Len(ks)) \X (-1 .. Len(ks) - 1)
      BY <1>1, <3>1
    <3>4. t \in KeyIndexGood(ks, key, i)
      BY <1>1, <2>5, <3>2, <3>3 DEF KeyIndexGood
    <3> QED
      BY <1>2, <3>1, <3>4
  <2>6. CASE low > high
    BY <2>2, <2>4, <2>5, <2>6
  <2>7. CASE low <= high
    <3>1. mid \in Int /\ low <= mid /\ mid <= high
      BY <2>3, <2>7
    <3>2. CASE ks[mid + 1] < key
      <4>1. \A j \in 1 .. n : j <= mid + 1 => ks[j] < key
        <5>1. ks[mid + 1] \in Int /\ mid + 1 \in 1 .. n
          BY <1>0, <1>1, <3>1
        <5>2. ASSUME NEW j \in 1 .. n, j <= mid + 1 PROVE ks[j] < key
          <6>1. j < mid + 1 => ks[j] <= ks[mid + 1]
            BY <1>1, <5>1 DEF NonDecreasing
          <6>2. ks[j] \in Int
            BY <1>0, <1>1
          <6> QED
            BY <3>1, <3>2, <5>1, <5>2, <6>1, <6>2, SMTT(30)
        <5> QED
          BY <5>2
      <4>2. mid + 1 \in 0 .. n /\ mid + 1 <= high + 1 /\ high - (mid + 1) + 1 <= n - i
        BY <2>2, <2>7, <3>1
      <4>3. <<mid + 1, high>> \in good[i]
        BY <2>2, <2>5, <4>1, <4>2
      <4> QED
        BY <2>4, <2>7, <3>2, <4>3
    <3>3. CASE ~(ks[mid + 1] < key)
      <4>1. \A j \in 1 .. n : j >= mid - 1 + 2 => ks[j] >= key
        <5>1. ks[mid + 1] \in Int /\ mid + 1 \in 1 .. n
          BY <1>0, <1>1, <3>1
        <5> QED
          BY <1>0, <1>1, <3>1, <3>3, <5>1, SMTT(30) DEF NonDecreasing
      <4>2. mid - 1 \in -1 .. n - 1 /\ low <= mid - 1 + 1 /\ (mid - 1) - low + 1 <= n - i
        BY <2>2, <2>7, <3>1
      <4>3. <<low, mid - 1>> \in good[i]
        BY <2>2, <2>5, <4>1, <4>2
      <4> QED
        BY <2>4, <2>7, <3>3, <4>3
    <3> QED
      BY <3>2, <3>3
  <2> QED
    BY <2>6, <2>7
<1>6. Keeps(good, step, n)
  BY <1>5 DEF Keeps
<1>7. PICK s : s = Iterate(step, <<0, n - 1>>, n)
  OBVIOUS
<1>8. s \in good[n]
  BY <1>4, <1>6, <1>7, IterateKeeps
<1>9. KeyIndex(ks, key) = s[1]
  BY <1>1, <1>3, <1>7 DEF KeyIndex
<1>10. PICK low \in 0 .. n, high \in -1 .. n - 1 : s = <<low, high>>
  BY <1>1, <1>2, <1>8 DEF KeyIndexGood
<1>11. /\ low <= high + 1
       /\ low > high \/ high - low + 1 <= n - n
       /\ \A j \in 1 .. n : j <= low => ks[j] < key
       /\ \A j \in 1 .. n : j >= high + 2 => ks[j] >= key
  BY <1>1, <1>2, <1>8, <1>10 DEF KeyIndexGood
<1>12. low = high + 1
  BY <1>11
<1>13. s[1] = low
  BY <1>10
<1>14. \A j \in 1 .. n : j <= low <=> ks[j] < key
  BY <1>0, <1>1, <1>11, <1>12
<1> QED
  BY <1>1, <1>9, <1>13, <1>14

\* The state <<low, high, index>> of the internal page's search.
LookupGood(ks, key, i) ==
    {s \in (1 .. Len(ks) + 1) \X (0 .. Len(ks)) \X (0 .. Len(ks)) :
        /\ s[1] <= s[2] + 1 /\ s[3] = s[1] - 1
        /\ s[1] > s[2] \/ s[2] - s[1] + 1 <= Len(ks) - i
        /\ \A j \in 1 .. Len(ks) : j <= s[3] => ks[j] <= key
        /\ \A j \in 1 .. Len(ks) : j > s[2] => key < ks[j]}

\* Lookup, on any internal page whose keys are in order, takes the child after
\* the last key that is not above key: a key equal to a separator goes right.
THEOREM LookupCorrect ==
    ASSUME NEW ks \in Seq(Keys), NEW key \in Int, NonDecreasing(ks)
    PROVE  /\ LookupIndex(ks, key) \in 0 .. Len(ks)
           /\ \A j \in 1 .. Len(ks) : j <= LookupIndex(ks, key) <=> ks[j] <= key
<1>0. Len(ks) \in Nat /\ \A j \in 1 .. Len(ks) : ks[j] \in Int
  <2>1. Len(ks) \in Nat /\ \A j \in 1 .. Len(ks) : ks[j] \in Keys
    OBVIOUS
  <2> QED
    BY <2>1, KeysAssumption
<1>1. PICK n \in Nat : n = Len(ks)
  BY <1>0
<1>2. PICK good : good = [i \in 0 .. n |-> LookupGood(ks, key, i)]
  OBVIOUS
<1>3. PICK step : step = LookupRound(ks, key)
  OBVIOUS
<1>4. <<1, n, 0>> \in good[0]
  BY <1>0, <1>1, <1>2 DEF LookupGood
<1>5. ASSUME NEW i \in 1 .. n, NEW s \in good[i - 1] PROVE step[s] \in good[i]
  <2>1. PICK low \in 1 .. n + 1, high \in 0 .. n, idx \in 0 .. n : s = <<low, high, idx>>
    BY <1>1, <1>2 DEF LookupGood
  <2>2. /\ low <= high + 1 /\ idx = low - 1
        /\ low > high \/ high - low + 1 <= n - (i - 1)
        /\ \A j \in 1 .. n : j <= idx => ks[j] <= key
        /\ \A j \in 1 .. n : j > high => key < ks[j]
    <3>1. s \in LookupGood(ks, key, i - 1)
      BY <1>2, <1>5
    <3>2. s[1] = low /\ s[2] = high /\ s[3] = idx
      BY <2>1
    <3> QED
      BY <1>1, <3>1, <3>2 DEF LookupGood
  <2>3. PICK mid : mid = (low + high) \div 2
    OBVIOUS
  <2>4. step[s] = IF low > high THEN <<low, high, idx>>
                  ELSE IF key < ks[mid] THEN <<low, mid - 1, idx>> ELSE <<mid + 1, high, mid>>
    BY <1>1, <1>3, <2>1, <2>3 DEF LookupRound
  <2>5. ASSUME NEW a \in 1 .. n + 1, NEW b \in 0 .. n, NEW c \in 0 .. n,
               a <= b + 1, c = a - 1,
               a > b \/ b - a + 1 <= n - i,
               \A j \in 1 .. n : j <= c => ks[j] <= key,
               \A j \in 1 .. n : j > b => key < ks[j]
        PROVE  <<a, b, c>> \in good[i]
    <3>1. PICK t : t = <<a, b, c>>
      OBVIOUS
    <3>2. t[1] = a /\ t[2] = b /\ t[3] = c
      BY <3>1
    <3>3. t \in (1 .. Len(ks) + 1) \X (0 .. Len(ks)) \X (0 .. Len(ks))
      BY <1>1, <3>1
    <3>4. t \in LookupGood(ks, key, i)
      BY <1>1, <2>5, <3>2, <3>3 DEF LookupGood
    <3> QED
      BY <1>2, <3>1, <3>4
  <2>6. CASE low > high
    BY <2>2, <2>4, <2>5, <2>6
  <2>7. CASE low <= high
    <3>1. mid \in Int /\ low <= mid /\ mid <= high
      BY <2>3, <2>7
    <3>a. mid \in 1 .. n /\ ks[mid] \in Int
      BY <1>0, <1>1, <3>1
    <3>2. CASE key < ks[mid]
      <4>1. \A j \in 1 .. n : j > mid - 1 => key < ks[j]
        BY <1>0, <1>1, <3>a, <3>2, SMTT(30) DEF NonDecreasing
      <4>2. mid - 1 \in 0 .. n /\ low <= mid - 1 + 1 /\ (mid - 1) - low + 1 <= n - i
        BY <2>2, <2>7, <3>1
      <4>3. <<low, mid - 1, idx>> \in good[i]
        BY <2>2, <2>5, <4>1, <4>2
      <4> QED
        BY <2>4, <2>7, <3>2, <4>3
    <3>3. CASE ~(key < ks[mid])
      <4>1. \A j \in 1 .. n : j <= mid => ks[j] <= key
        BY <1>0, <1>1, <3>a, <3>3, SMTT(30) DEF NonDecreasing
      <4>2. /\ mid + 1 \in 1 .. n + 1 /\ mid \in 0 .. n /\ mid + 1 <= high + 1
            /\ mid = (mid + 1) - 1 /\ high - (mid + 1) + 1 <= n - i
        BY <2>2, <2>7, <3>1
      <4>3. <<mid + 1, high, mid>> \in good[i]
        BY <2>2, <2>5, <4>1, <4>2
      <4> QED
        BY <2>4, <2>7, <3>3, <4>3
    <3> QED
      BY <3>2, <3>3
  <2> QED
    BY <2>6, <2>7
<1>6. Keeps(good, step, n)
  BY <1>5 DEF Keeps
<1>7. PICK s : s = Iterate(step, <<1, n, 0>>, n)
  OBVIOUS
<1>8. s \in good[n]
  BY <1>4, <1>6, <1>7, IterateKeeps
<1>9. LookupIndex(ks, key) = s[3]
  BY <1>1, <1>3, <1>7 DEF LookupIndex
<1>10. PICK low \in 1 .. n + 1, high \in 0 .. n, idx \in 0 .. n : s = <<low, high, idx>>
  BY <1>1, <1>2, <1>8 DEF LookupGood
<1>11. /\ low <= high + 1 /\ idx = low - 1
       /\ low > high \/ high - low + 1 <= n - n
       /\ \A j \in 1 .. n : j <= idx => ks[j] <= key
       /\ \A j \in 1 .. n : j > high => key < ks[j]
  BY <1>1, <1>2, <1>8, <1>10, SMTT(30) DEF LookupGood
<1>12. idx = high
  BY <1>11
<1>13. s[3] = idx
  BY <1>10
<1>14. \A j \in 1 .. n : j <= idx <=> ks[j] <= key
  BY <1>0, <1>1, <1>11, <1>12
<1> QED
  BY <1>1, <1>9, <1>13, <1>14

\* ValueIndex finds a page that is among the values.
LEMMA ValueIndexFinds ==
    ASSUME NEW T, NEW vs \in Seq(T), NEW c, NEW i \in 1 .. Len(vs), vs[i] = c
    PROVE  ValueIndex(vs, c) \in 1 .. Len(vs) /\ vs[ValueIndex(vs, c)] = c
<1>1. PICK X : X = {j \in 1 .. Len(vs) : vs[j] = c}
  OBVIOUS
<1>2. PICK m \in X : \A k \in X : m <= k
  <2>1. X \subseteq Nat /\ i \in X
    BY <1>1
  <2> QED
    BY <2>1, LeastOf
<1>3. m \in 1 .. Len(vs) /\ vs[m] = c /\ \A j \in 1 .. m - 1 : vs[j] # c
  BY <1>1, <1>2
<1> QED
  BY <1>3 DEF ValueIndex

-----------------------------------------------------------------------------
(* Ranges. *)
InRange(k, p, lo, hi) == k \in lo[p] /\ k \notin hi[p]

\* The sets of keys that bounds are made of.
LEMMA UpSetFacts ==
    /\ \A k \in Keys : From(k) \in UpSets /\ k \in From(k)
    /\ Keys \in UpSets /\ {} \in UpSets
    /\ \A U \in UpSets : U \subseteq Keys
    /\ \A U \in UpSets : \A x \in U : \A y \in Keys : y >= x => y \in U
<1>1. \A k \in Keys : From(k) \in UpSets
  BY KeysAssumption DEF From, UpSets
<1> QED
  BY <1>1, KeysAssumption DEF From, UpSets

\* The keys of a page are integers in order, its children pages one level down.
LEMMA PageFacts ==
    ASSUME NEW rt, NEW ps, NEW lv, NEW pa, NEW nx, NEW ks, NEW vs, NEW le, NEW lo, NEW hi,
           Tree(rt, ps, lv, pa, nx, ks, vs, le, lo, hi),
           NEW p \in ps
    PROVE  /\ Len(ks[p]) \in Nat /\ Len(vs[p]) \in Nat
           /\ ks[p] \in Seq(Keys) /\ vs[p] \in Seq(PageVals)
           /\ \A i \in 1 .. Len(ks[p]) : ks[p][i] \in Keys /\ ks[p][i] \in Int
           /\ lo[p] \in UpSets /\ hi[p] \in UpSets
           /\ lo[p] \subseteq Keys /\ le[p] \in Nat
           /\ p \in PageIds
           /\ NonDecreasing(ks[p])
<1>1. p \in PageIds /\ ks[p] \in Seq(Keys) /\ vs[p] \in Seq(PageVals)
  BY DEF Tree, Typed
<1>2. Len(ks[p]) \in Nat /\ Len(vs[p]) \in Nat /\ \A i \in 1 .. Len(ks[p]) : ks[p][i] \in Keys
  BY <1>1
<1>3. \A i \in 1 .. Len(ks[p]) : ks[p][i] \in Int
  BY <1>2, KeysAssumption
<1>4. lo[p] \in UpSets /\ hi[p] \in UpSets /\ le[p] \in Nat
  BY <1>1 DEF Tree, Routed, Levelled
<1>5. lo[p] \subseteq Keys
  BY <1>4, UpSetFacts
<1>6. NonDecreasing(ks[p])
  BY <1>3 DEF Tree, Ordered, NonDecreasing
<1> QED
  BY <1>1, <1>2, <1>3, <1>4, <1>5, <1>6

\* A page's range is part of its parent's.
LEMMA RangeInParent ==
    ASSUME NEW rt, NEW ps, NEW lv, NEW pa, NEW nx, NEW ks, NEW vs, NEW le, NEW lo, NEW hi,
           Tree(rt, ps, lv, pa, nx, ks, vs, le, lo, hi),
           NEW p \in ps, p # rt, NEW k, InRange(k, p, lo, hi)
    PROVE  InRange(k, pa[p], lo, hi)
<1>1. PICK u : u = pa[p]
  OBVIOUS
<1>2. u \in ps /\ u \notin lv /\ \E i \in 1 .. Len(vs[u]) : vs[u][i] = p
  BY <1>1 DEF Tree, Up
<1>3. PICK i \in 1 .. Len(vs[u]) : vs[u][i] = p
  BY <1>2
<1>4. /\ lo[p] = IF i = 1 THEN lo[u] ELSE From(ks[u][i - 1])
      /\ hi[p] = IF i = Len(vs[u]) THEN hi[u] ELSE From(ks[u][i])
  BY <1>2, <1>3 DEF Tree, Routed
<1>5. /\ Len(vs[u]) \in Nat /\ Len(ks[u]) = Len(vs[u]) - 1
      /\ \A j \in 1 .. Len(ks[u]) : ks[u][j] \in Keys /\ ks[u][j] \in Int
      /\ lo[u] \in UpSets /\ hi[u] \in UpSets
  <2>1. Len(ks[u]) = Len(vs[u]) - 1
    BY <1>2 DEF Tree, Counted
  <2> QED
    BY <1>2, <2>1, PageFacts
<1>6. k \in Keys /\ k \in Int
  BY PageFacts, KeysAssumption DEF InRange
<1>7. k \in lo[u]
  <2>1. CASE i = 1
    BY <1>4, <2>1 DEF InRange
  <2>2. CASE i # 1
    <3>1. i - 1 \in 1 .. Len(ks[u]) /\ ks[u][i - 1] \in lo[u] /\ k >= ks[u][i - 1]
      BY <1>2, <1>4, <1>5, <2>2 DEF InRange, From, Tree, Within
    <3> QED
      BY <1>5, <1>6, <3>1, UpSetFacts
  <2> QED
    BY <2>1, <2>2
<1>8. k \notin hi[u]
  <2>1. CASE i = Len(vs[u])
    BY <1>4, <2>1 DEF InRange
  <2>2. CASE i # Len(vs[u])
    <3>1. i \in 1 .. Len(ks[u]) /\ ks[u][i] \notin hi[u] /\ ks[u][i] \in Keys /\ ks[u][i] \in Int
      BY <1>2, <1>5, <2>2 DEF Tree, Within
    <3>2. ks[u][i] >= k
      BY <1>4, <1>6, <2>2, <3>1 DEF InRange, From
    <3> QED
      BY <1>5, <1>6, <3>1, <3>2, UpSetFacts
  <2> QED
    BY <2>1, <2>2
<1> QED
  BY <1>1, <1>7, <1>8 DEF InRange

\* Two children of a page have no key in common.
LEMMA ChildRanges ==
    ASSUME NEW rt, NEW ps, NEW lv, NEW pa, NEW nx, NEW ks, NEW vs, NEW le, NEW lo, NEW hi,
           Tree(rt, ps, lv, pa, nx, ks, vs, le, lo, hi),
           NEW u \in ps, u \notin lv,
           NEW i \in 1 .. Len(vs[u]), NEW j \in 1 .. Len(vs[u]), i < j, NEW k,
           InRange(k, vs[u][i], lo, hi), InRange(k, vs[u][j], lo, hi)
    PROVE  FALSE
<1>1. /\ Len(vs[u]) \in Nat /\ Len(ks[u]) = Len(vs[u]) - 1
      /\ \A x \in 1 .. Len(ks[u]) : ks[u][x] \in Int
      /\ \A x, y \in 1 .. Len(ks[u]) : x < y => ks[u][x] < ks[u][y]
  <2>1. Len(ks[u]) = Len(vs[u]) - 1
    BY DEF Tree, Counted
  <2>2. \A x, y \in 1 .. Len(ks[u]) : x < y => ks[u][x] < ks[u][y]
    BY DEF Tree, Ordered
  <2> QED
    BY <2>1, <2>2, PageFacts
<1>2. i # Len(vs[u]) /\ j # 1 /\ i \in 1 .. Len(ks[u]) /\ j - 1 \in 1 .. Len(ks[u])
  BY <1>1
<1>3. k \notin From(ks[u][i]) /\ k \in From(ks[u][j - 1])
  <2>1. hi[vs[u][i]] = From(ks[u][i]) /\ lo[vs[u][j]] = From(ks[u][j - 1])
    BY <1>2 DEF Tree, Routed
  <2> QED
    BY <2>1 DEF InRange
<1>4. k \in Int /\ k >= ks[u][j - 1] /\ k < ks[u][i]
  BY <1>1, <1>2, <1>3, KeysAssumption, SMTT(30) DEF From
<1> QED
  BY <1>1, <1>2, <1>4, SMTT(30)

\* Two pages of one level have no key in common: at every level the ranges
\* divide the keys among the pages.
LEMMA SameRange ==
    ASSUME NEW rt, NEW ps, NEW lv, NEW pa, NEW nx, NEW ks, NEW vs, NEW le, NEW lo, NEW hi,
           Tree(rt, ps, lv, pa, nx, ks, vs, le, lo, hi),
           NEW p0 \in ps, NEW q0 \in ps, le[p0] = le[q0], NEW k,
           InRange(k, p0, lo, hi), InRange(k, q0, lo, hi)
    PROVE  p0 = q0
<1> SUFFICES ASSUME p0 # q0 PROVE FALSE
  OBVIOUS
<1>0. /\ rt \in ps
      /\ \A p \in ps : le[p] \in Nat /\ le[p] <= le[rt]
      /\ \A p \in ps : p # rt => le[pa[p]] = le[p] + 1 /\ pa[p] \in ps /\ pa[p] \notin lv
  <2>1. rt \in ps
    BY DEF Tree, Typed
  <2>2. \A p \in ps : le[p] \in Nat
    BY PageFacts
  <2>3. \A p \in ps : le[p] <= le[rt] /\ (p # rt => le[pa[p]] = le[p] + 1)
    BY DEF Tree, Levelled
  <2>4. \A p \in ps : p # rt => pa[p] \in ps /\ pa[p] \notin lv
    BY DEF Tree, Up
  <2> QED
    BY <2>1, <2>2, <2>3, <2>4
<1>1. PICK T : T = {d \in Nat : \E p, q \in ps :
                      /\ le[p] = le[q] /\ le[rt] - le[p] = d /\ p # q
                      /\ InRange(k, p, lo, hi) /\ InRange(k, q, lo, hi)}
  OBVIOUS
<1>2. PICK m \in T : \A d \in T : m <= d
  <2>1. le[rt] - le[p0] \in Nat
    BY <1>0
  <2>2. le[rt] - le[p0] \in T /\ T \subseteq Nat
    BY <1>1, <2>1
  <2> QED
    BY <2>2, LeastOf
<1>3. PICK p \in ps, q \in ps :
          /\ le[p] = le[q] /\ le[rt] - le[p] = m /\ p # q
          /\ InRange(k, p, lo, hi) /\ InRange(k, q, lo, hi)
  BY <1>1, <1>2
<1>4. p # rt /\ q # rt
  <2>1. ~(p = rt /\ q # rt)
    BY <1>0, <1>3
  <2>2. ~(q = rt /\ p # rt)
    BY <1>0, <1>3
  <2> QED
    BY <1>3, <2>1, <2>2
<1>5. InRange(k, pa[p], lo, hi) /\ InRange(k, pa[q], lo, hi)
  BY <1>3, <1>4, RangeInParent
<1>6. /\ pa[p] \in ps /\ pa[q] \in ps /\ le[pa[p]] = le[pa[q]] /\ le[rt] - le[pa[p]] = m - 1
      /\ m - 1 \in Nat
  BY <1>0, <1>3, <1>4
<1>7. pa[p] = pa[q]
  <2>1. m - 1 \notin T
    BY <1>1, <1>2, <1>6
  <2> QED
    BY <1>1, <1>5, <1>6, <2>1
<1>8. PICK u : u = pa[p]
  OBVIOUS
<1>9. u \in ps /\ u \notin lv
  BY <1>0, <1>4, <1>8
<1>10. PICK i \in 1 .. Len(vs[u]) : vs[u][i] = p
  BY <1>4, <1>8 DEF Tree, Up
<1>11. PICK j \in 1 .. Len(vs[u]) : vs[u][j] = q
  BY <1>4, <1>7, <1>8 DEF Tree, Up
<1>12. Len(vs[u]) \in Nat
  BY <1>9, PageFacts
<1>13. i < j \/ j < i
  BY <1>3, <1>10, <1>11, <1>12
<1>14. ~(i < j)
  BY <1>3, <1>9, <1>10, <1>11, ChildRanges
<1>15. ~(j < i)
  BY <1>3, <1>9, <1>10, <1>11, ChildRanges
<1> QED
  BY <1>13, <1>14, <1>15

\* A leaf is determined by where its range ends, and by where it begins.
LEMMA LeafByBound ==
    ASSUME NEW rt, NEW ps, NEW lv, NEW pa, NEW nx, NEW ks, NEW vs, NEW le, NEW lo, NEW hi,
           Tree(rt, ps, lv, pa, nx, ks, vs, le, lo, hi),
           NEW p \in lv, NEW q \in lv, hi[p] = hi[q] \/ lo[p] = lo[q]
    PROVE  p = q
<1>1. p \in ps /\ q \in ps /\ le[p] = le[q]
  BY DEF Tree, Typed, Levelled
<1>2. PICK x : x \in lo[p] /\ x \notin hi[p]
  BY <1>1 DEF Tree, Within
<1>3. PICK y : y \in lo[q] /\ y \notin hi[q]
  BY <1>1 DEF Tree, Within
<1>4. /\ x \in Keys /\ y \in Keys /\ x \in Int /\ y \in Int
      /\ lo[p] \in UpSets /\ lo[q] \in UpSets /\ hi[p] \in UpSets /\ hi[q] \in UpSets
  BY <1>1, <1>2, <1>3, PageFacts, KeysAssumption, ZenonT(40)
<1>5. \/ InRange(x, q, lo, hi)
      \/ InRange(y, p, lo, hi)
  <2>1. CASE hi[p] = hi[q] /\ x <= y
    BY <1>2, <1>3, <1>4, <2>1, UpSetFacts DEF InRange
  <2>2. CASE hi[p] = hi[q] /\ y <= x
    BY <1>2, <1>3, <1>4, <2>2, UpSetFacts DEF InRange
  <2>3. CASE lo[p] = lo[q] /\ x <= y
    BY <1>2, <1>3, <1>4, <2>3, UpSetFacts DEF InRange
  <2>4. CASE lo[p] = lo[q] /\ y <= x
    BY <1>2, <1>3, <1>4, <2>4, UpSetFacts DEF InRange
  <2> QED
    BY <1>4, <2>1, <2>2, <2>3, <2>4
<1>6. InRange(x, p, lo, hi) /\ InRange(y, q, lo, hi)
  BY <1>2, <1>3 DEF InRange
<1> QED
  BY <1>1, <1>5, <1>6, SameRange

\* Of two neighbouring leaves of one parent the left one, and no other leaf,
\* has the right one as its next.
LEMMA NeighboursLinked ==
    ASSUME NEW rt, NEW ps, NEW lv, NEW pa, NEW nx, NEW ks, NEW vs, NEW le, NEW lo, NEW hi,
           Tree(rt, ps, lv, pa, nx, ks, vs, le, lo, hi),
           NEW u \in ps, u \notin lv, NEW i \in 1 .. Len(vs[u]) - 1
    PROVE  /\ vs[u][i] \in lv <=> vs[u][i + 1] \in lv
           /\ vs[u][i] \in lv => /\ nx[vs[u][i]] = vs[u][i + 1]
                                 /\ \A p \in lv : nx[p] = vs[u][i + 1] => p = vs[u][i]
<1>1. PICK a : a = vs[u][i]
  OBVIOUS
<1>2. PICK b : b = vs[u][i + 1]
  OBVIOUS
<1>3. /\ Len(vs[u]) \in Nat /\ Len(ks[u]) = Len(vs[u]) - 1
      /\ \A x \in 1 .. Len(ks[u]) : ks[u][x] \in Keys
  <2>1. Len(ks[u]) = Len(vs[u]) - 1
    BY DEF Tree, Counted
  <2> QED
    BY <2>1, PageFacts
<1>4. a \in ps /\ b \in ps /\ pa[a] = u /\ pa[b] = u
  BY <1>1, <1>2, <1>3 DEF Tree, Down
<1>5. pa[rt] = INVALID_PAGE_ID /\ u \in PageIds
  BY DEF Tree, Typed, Up
<1>6. a # rt /\ b # rt
  BY <1>4, <1>5, PageIdsAssumption DEF INVALID_PAGE_ID
<1>7. le[a] \in Nat /\ le[b] \in Nat /\ le[a] = le[b] /\ (a \in lv <=> le[a] = 0) /\ (b \in lv <=> le[b] = 0)
  <2>1. le[a] \in Nat /\ le[b] \in Nat
    BY <1>4, PageFacts
  <2>2. /\ le[u] = le[a] + 1 /\ le[u] = le[b] + 1
        /\ (a \in lv <=> le[a] = 0) /\ (b \in lv <=> le[b] = 0)
    BY <1>4, <1>6 DEF Tree, Levelled
  <2> QED
    BY <2>1, <2>2
<1>8. hi[a] = From(ks[u][i]) /\ lo[b] = From(ks[u][i])
  <2>1. i # Len(vs[u]) /\ i + 1 # 1 /\ i + 1 - 1 = i /\ i \in 1 .. Len(vs[u]) /\ i + 1 \in 1 .. Len(vs[u])
    BY <1>3
  <2>2. hi[vs[u][i]] = From(ks[u][i]) /\ lo[vs[u][i + 1]] = From(ks[u][i + 1 - 1])
    BY <2>1 DEF Tree, Routed
  <2> QED
    BY <1>1, <1>2, <2>1, <2>2
<1>9. From(ks[u][i]) # {}
  BY <1>3, UpSetFacts
<1>10. ASSUME a \in lv PROVE nx[a] = b
  <2>1. nx[a] \in lv /\ lo[nx[a]] = hi[a]
    BY <1>8, <1>9, <1>10 DEF Tree, Chained
  <2>2. b \in lv
    BY <1>7, <1>10
  <2> QED
    BY <1>8, <2>1, <2>2, LeafByBound
<1>11. ASSUME a \in lv, NEW p \in lv, nx[p] = b PROVE p = a
  <2>1. b # INVALID_PAGE_ID
    <3>1. b \in PageIds
      BY <1>4, PageFacts
    <3> QED
      BY <3>1, PageIdsAssumption DEF INVALID_PAGE_ID
  <2>2. lo[b] = hi[p]
    BY <1>11, <2>1 DEF Tree, Chained
  <2> QED
    BY <1>8, <1>11, <2>2, LeafByBound
<1> QED
  BY <1>1, <1>2, <1>7, <1>10, <1>11

-----------------------------------------------------------------------------
(* Splits and merges. *)

\* In tree 1 page c holds the n + r values that c and its right neighbour q
\* hold in tree 2, where their parent u, which has w children in tree 1, has c
\* as its child i, q as the next one and the key m between them.
Contents(c, q, u, i, m, n, r, w, ps1, lv1, ks1, vs1, ks2, vs2) ==
    /\ n \in Nat /\ r \in Nat /\ w \in Nat /\ i \in 1 .. w
    /\ Len(vs1[c]) = n + r /\ Len(vs2[c]) = n /\ Len(vs2[q]) = r
    /\ \A j \in 1 .. n : vs2[c][j] = vs1[c][j]
    /\ \A j \in 1 .. r : vs2[q][j] = vs1[c][n + j]
    /\ c \in lv1 => /\ Len(ks1[c]) = n + r /\ Len(ks2[c]) = n /\ Len(ks2[q]) = r
                    /\ \A j \in 1 .. n : ks2[c][j] = ks1[c][j]
                    /\ \A j \in 1 .. r : ks2[q][j] = ks1[c][n + j]
    /\ c \notin lv1 => /\ n >= 1 /\ r >= 1 /\ ks1[c][n] = m
                       /\ Len(ks1[c]) = n + r - 1 /\ Len(ks2[c]) = n - 1 /\ Len(ks2[q]) = r - 1
                       /\ \A j \in 1 .. n - 1 : ks2[c][j] = ks1[c][j]
                       /\ \A j \in 1 .. r - 1 : ks2[q][j] = ks1[c][n + j]
    /\ Len(vs1[u]) = w /\ Len(vs2[u]) = w + 1 /\ Len(ks1[u]) = w - 1 /\ Len(ks2[u]) = w
    /\ vs1[u][i] = c /\ vs2[u][i + 1] = q /\ ks2[u][i] = m
    /\ \A j \in 1 .. i : vs2[u][j] = vs1[u][j]
    /\ \A j \in i + 1 .. w : vs2[u][j + 1] = vs1[u][j]
    /\ \A j \in 1 .. i - 1 : ks2[u][j] = ks1[u][j]
    /\ \A j \in i .. w - 1 : ks2[u][j + 1] = ks1[u][j]
    /\ \A p \in ps1 : p # c /\ p # u => ks2[p] = ks1[p] /\ vs2[p] = vs1[p]

Links(c, q, u, r, ps1, lv1, pa1, nx1, pa2, nx2, vs2) ==
    /\ pa2[q] = u
    /\ \A p \in ps1 : pa2[p] = IF c \notin lv1 /\ \E j \in 1 .. r : vs2[q][j] = p
                               THEN q ELSE pa1[p]
    /\ c \in lv1 => nx2[c] = q /\ nx2[q] = nx1[c]
    /\ \A p \in ps1 : p # c \/ c \notin lv1 => nx2[p] = nx1[p]

Joins(c, q, u, i, m, n, r, w, ps1, lv1, pa1, nx1, ks1, vs1, ps2, lv2, pa2, nx2, ks2, vs2) ==
    /\ c \in ps1 /\ u \in ps1 /\ u \notin lv1 /\ u # c /\ m \in Keys
    /\ q \in PageIds /\ q \notin ps1 /\ ps2 = ps1 \cup {q}
    /\ lv2 = IF c \in lv1 THEN lv1 \cup {q} ELSE lv1
    /\ Contents(c, q, u, i, m, n, r, w, ps1, lv1, ks1, vs1, ks2, vs2)
    /\ Links(c, q, u, r, ps1, lv1, pa1, nx1, pa2, nx2, vs2)

\* Splitting a page keeps the tree: both parts get their part of the range.
LEMMA SplitKeepsTree ==
    ASSUME NEW rt, NEW ps1, NEW lv1, NEW pa1, NEW nx1, NEW ks1, NEW vs1,
           NEW le, NEW lo, NEW hi,
           NEW ps2, NEW lv2, NEW pa2, NEW nx2, NEW ks2, NEW vs2,
           NEW c, NEW q, NEW u, NEW i, NEW m, NEW n, NEW r, NEW w,
           Tree(rt, ps1, lv1, pa1, nx1, ks1, vs1, le, lo, hi),
           Typed(rt, ps2, lv2, pa2, nx2, ks2, vs2),
           Joins(c, q, u, i, m, n, r, w, ps1, lv1, pa1, nx1, ks1, vs1,
                 ps2, lv2, pa2, nx2, ks2, vs2),
           n >= 1, r >= 1, c \in lv1 => m = ks2[q][1]
    PROVE  Tree(rt, ps2, lv2, pa2, nx2, ks2, vs2,
                [le EXCEPT ![q] = le[c]], [lo EXCEPT ![q] = From(m)],
                [hi EXCEPT ![c] = From(m), ![q] = hi[c]])
<1>1. PICK le2 : le2 = [le EXCEPT ![q] = le[c]]
  OBVIOUS
<1>2. PICK lo2 : lo2 = [lo EXCEPT ![q] = From(m)]
  OBVIOUS
<1>3. PICK hi2 : hi2 = [hi EXCEPT ![c] = From(m), ![q] = hi[c]]
  OBVIOUS
<1>4. /\ c \in ps1 /\ u \in ps1 /\ u \notin lv1 /\ u # c /\ m \in Keys
      /\ q \in PageIds /\ q \notin ps1 /\ ps2 = ps1 \cup {q}
      /\ lv2 = IF c \in lv1 THEN lv1 \cup {q} ELSE lv1
  BY DEF Joins
<1>5. Contents(c, q, u, i, m, n, r, w, ps1, lv1, ks1, vs1, ks2, vs2)
  BY DEF Joins
<1>6. Links(c, q, u, r, ps1, lv1, pa1, nx1, pa2, nx2, vs2)
  BY DEF Joins
<1>7. /\ le \in [PageIds -> Nat] /\ lo \in [PageIds -> UpSets] /\ hi \in [PageIds -> UpSets]
      /\ ps1 \subseteq PageIds /\ lv1 \subseteq ps1 /\ rt \in ps1
  BY DEF Tree, Levelled, Routed, Typed
<1>8. /\ \A p \in ps1 : le2[p] = le[p] /\ lo2[p] = lo[p] /\ (p # c => hi2[p] = hi[p])
      /\ le2[q] = le[c] /\ lo2[q] = From(m) /\ hi2[q] = hi[c] /\ hi2[c] = From(m)
  BY <1>1, <1>2, <1>3, <1>4, <1>7
<1>9. n \in Nat /\ r \in Nat /\ w \in Nat /\ i \in 1 .. w
  BY <1>5 DEF Contents
<1>10. /\ Len(vs1[c]) = n + r /\ Len(vs2[c]) = n /\ Len(vs2[q]) = r
       /\ Len(vs1[u]) = w /\ Len(vs2[u]) = w + 1 /\ Len(ks1[u]) = w - 1 /\ Len(ks2[u]) = w
  BY <1>5 DEF Contents
<1>11. /\ \A j \in 1 .. n : vs2[c][j] = vs1[c][j]
       /\ \A j \in 1 .. r : vs2[q][j] = vs1[c][n + j]
  BY <1>5 DEF Contents
<1>12. c \in lv1 => /\ Len(ks1[c]) = n + r /\ Len(ks2[c]) = n /\ Len(ks2[q]) = r
                    /\ \A j \in 1 .. n : ks2[c][j] = ks1[c][j]
                    /\ \A j \in 1 .. r : ks2[q][j] = ks1[c][n + j]
  BY <1>5 DEF Contents
<1>13. c \notin lv1 => /\ ks1[c][n] = m
                       /\ Len(ks1[c]) = n + r - 1 /\ Len(ks2[c]) = n - 1 /\ Len(ks2[q]) = r - 1
                       /\ \A j \in 1 .. n - 1 : ks2[c][j] = ks1[c][j]
                       /\ \A j \in 1 .. r - 1 : ks2[q][j] = ks1[c][n + j]
  BY <1>5 DEF Contents
<1>14. /\ vs1[u][i] = c /\ vs2[u][i + 1] = q
       /\ \A j \in 1 .. i : vs2[u][j] = vs1[u][j]
       /\ \A j \in i + 1 .. w : vs2[u][j + 1] = vs1[u][j]
  BY <1>5 DEF Contents
<1>15. /\ ks2[u][i] = m
       /\ \A j \in 1 .. i - 1 : ks2[u][j] = ks1[u][j]
       /\ \A j \in i .. w - 1 : ks2[u][j + 1] = ks1[u][j]
  BY <1>5 DEF Contents
<1>16. \A p \in ps1 : p # c /\ p # u => ks2[p] = ks1[p] /\ vs2[p] = vs1[p]
  BY <1>5 DEF Contents
<1>17. c \notin lv1 => \A j \in 1 .. n + r :
           /\ vs1[c][j] \in ps1 /\ pa1[vs1[c][j]] = c
           /\ \A k \in 1 .. n + r : vs1[c][k] = vs1[c][j] => k = j
  BY <1>4, <1>10 DEF Tree, Down
<1>18. \A j \in 1 .. w :
           /\ vs1[u][j] \in ps1 /\ pa1[vs1[u][j]] = u
           /\ \A k \in 1 .. w : vs1[u][k] = vs1[u][j] => k = j
  BY <1>4, <1>10 DEF Tree, Down
<1>19. pa1[c] = u /\ c # rt
  <2>1. pa1[c] = u
    BY <1>9, <1>14, <1>18
  <2>2. pa1[rt] = INVALID_PAGE_ID /\ u \in PageIds
    BY <1>4, <1>7 DEF Tree, Up
  <2> QED
    BY <2>1, <2>2, PageIdsAssumption DEF INVALID_PAGE_ID
\* The children that move are the later ones of c.
<1>20. /\ \A j \in 1 .. n : j \in 1 .. n + r
       /\ \A j \in 1 .. r : n + j \in 1 .. n + r
       /\ \A j \in 1 .. n + r : j \notin 1 .. n => j - n \in 1 .. r /\ n + (j - n) = j
  BY <1>9
<1>21. ASSUME NEW p \in ps1
       PROVE  /\ (c \notin lv1 /\ \E j \in 1 .. r : vs2[q][j] = p) => pa1[p] = c
              /\ pa1[p] # c \/ c \in lv1 => pa2[p] = pa1[p]
  <2>1. ASSUME c \notin lv1, NEW j \in 1 .. r, vs2[q][j] = p PROVE pa1[p] = c
    BY <1>11, <1>17, <1>20, <2>1
  <2> QED
    BY <1>6, <2>1 DEF Links
<1>22. Counted(ps2, lv2, ks2, vs2)
  <2>1. ASSUME NEW p \in lv2
        PROVE  Len(ks2[p]) = Len(vs2[p]) /\ \A j \in 1 .. Len(vs2[p]) : vs2[p][j] \in Rids
    <3>0. c \in lv1 => \A j \in 1 .. n + r : vs1[c][j] \in Rids
      BY <1>10 DEF Tree, Counted
    <3>1. CASE p = c
      BY <1>4, <1>10, <1>11, <1>12, <1>20, <2>1, <3>0, <3>1
    <3>2. CASE p = q
      BY <1>4, <1>7, <1>10, <1>11, <1>12, <1>20, <2>1, <3>0, <3>2, ZenonT(40)
    <3>3. CASE p # c /\ p # q
      <4>1. p \in lv1 /\ p # u
        BY <1>4, <2>1, <3>3
      <4> QED
        BY <1>7, <1>16, <3>3, <4>1 DEF Tree, Counted
    <3> QED
      BY <3>1, <3>2, <3>3
  <2>2. ASSUME NEW p \in ps2, p \notin lv2 PROVE Len(ks2[p]) = Len(vs2[p]) - 1
    <3>1. CASE p = c
      BY <1>4, <1>10, <1>13, <2>2, <3>1
    <3>2. CASE p = q
      BY <1>4, <1>10, <1>13, <2>2, <3>2
    <3>3. CASE p = u
      BY <1>9, <1>10, <3>3, SMTT(30)
    <3>4. CASE p # c /\ p # q /\ p # u
      <4>1. p \in ps1 /\ p \notin lv1
        BY <1>4, <2>2, <3>4
      <4> QED
        BY <1>16, <3>4, <4>1 DEF Tree, Counted
    <3> QED
      BY <3>1, <3>2, <3>3, <3>4
  <2> QED
    BY <2>1, <2>2 DEF Counted
<1>23. Up(rt, ps2, lv2, pa2, vs2)
  <2>1. pa2[rt] = INVALID_PAGE_ID
    <3>1. pa1[rt] = INVALID_PAGE_ID
      BY DEF Tree, Up
    <3>2. pa1[rt] # c
      BY <1>4, <1>7, <3>1, PageIdsAssumption DEF INVALID_PAGE_ID
    <3> QED
      BY <1>7, <1>21, <3>1, <3>2
  <2>2. ASSUME NEW p \in ps2, p # rt
        PROVE  /\ pa2[p] \in ps2 /\ pa2[p] \notin lv2
               /\ \E j \in 1 .. Len(vs2[pa2[p]]) : vs2[pa2[p]][j] = p
    <3>1. CASE p = q
      <4>1. pa2[p] = u
        BY <1>6, <3>1 DEF Links
      <4>2. i + 1 \in 1 .. w + 1
        BY <1>9
      <4> QED
        BY <1>4, <1>10, <1>14, <3>1, <4>1, <4>2
    <3>2. CASE p # q /\ c \notin lv1 /\ \E j \in 1 .. r : vs2[q][j] = p
      <4>1. pa2[p] = q
        BY <1>4, <1>6, <3>2 DEF Links
      <4> QED
        BY <1>4, <1>7, <1>10, <3>2, <4>1
    <3>3. CASE p # q /\ ~(c \notin lv1 /\ \E j \in 1 .. r : vs2[q][j] = p)
      <4>1. p \in ps1
        BY <1>4, <3>3
      <4>2. PICK v : v = pa1[p]
        OBVIOUS
      <4>3. pa2[p] = v
        BY <1>6, <3>3, <4>1, <4>2 DEF Links
      <4>4. v \in ps1 /\ v \notin lv1 /\ \E j \in 1 .. Len(vs1[v]) : vs1[v][j] = p
        BY <2>2, <4>1, <4>2 DEF Tree, Up
      <4>5. PICK x \in 1 .. Len(vs1[v]) : vs1[v][x] = p
        BY <4>4
      <4>6. \E j \in 1 .. Len(vs2[v]) : vs2[v][j] = p
        <5>1. CASE v = u
          <6>0. x \in 1 .. w
            BY <1>10, <4>5, <5>1
          <6>1. CASE x \in 1 .. i
            <7>1. x \in 1 .. w + 1
              BY <1>9, <6>0
            <7> QED
              BY <1>10, <1>14, <4>5, <5>1, <6>1, <7>1
          <6>2. CASE x \notin 1 .. i
            <7>1. x \in i + 1 .. w /\ x + 1 \in 1 .. w + 1
              BY <1>9, <6>0, <6>2
            <7> QED
              BY <1>10, <1>14, <4>5, <5>1, <7>1
          <6> QED
            BY <6>1, <6>2
        <5>2. CASE v = c
          <6>1. x \in 1 .. n + r
            BY <1>10, <4>5, <5>2
          <6>2. x \in 1 .. n
            BY <1>11, <1>20, <3>3, <4>4, <4>5, <5>2, <6>1
          <6> QED
            BY <1>10, <1>11, <4>5, <5>2, <6>2
        <5>3. CASE v # u /\ v # c
          BY <1>16, <4>4, <4>5, <5>3
        <5> QED
          BY <5>1, <5>2, <5>3
      <4>7. v \in ps2 /\ v \notin lv2
        BY <1>4, <4>4
      <4> QED
        BY <4>3, <4>6, <4>7
    <3> QED
      BY <3>1, <3>2, <3>3
  <2> QED
    BY <2>1, <2>2 DEF Up
<1>24. Down(ps2, lv2, pa2, vs2)
  <2>1. ASSUME NEW p \in ps2, p \notin lv2, NEW j \in 1 .. Len(vs2[p])
        PROVE  /\ vs2[p][j] \in ps2 /\ pa2[vs2[p][j]] = p
               /\ \A k \in 1 .. Len(vs2[p]) : vs2[p][k] = vs2[p][j] => k = j
    <3>1. CASE p = u
      <4>0. /\ j \in 1 .. w + 1
            /\ \A k \in 1 .. w + 1 : k \in 1 .. i \/ k = i + 1 \/ k - 1 \in i + 1 .. w
            /\ \A k \in 1 .. i : k \in 1 .. w /\ k # i + 1
            /\ \A k \in 1 .. w + 1 : k - 1 + 1 = k
            /\ \A k \in i + 1 .. w : k \in 1 .. w /\ k \notin 1 .. i /\ k # i
            /\ \A k \in 1 .. w + 1 : k - 1 = j - 1 => k = j
        BY <1>9, <1>10, <2>1, <3>1
      <4>1. \A k \in 1 .. w + 1 :
               /\ k \in 1 .. i => vs2[u][k] = vs1[u][k]
               /\ k = i + 1 => vs2[u][k] = q
               /\ k - 1 \in i + 1 .. w => vs2[u][k] = vs1[u][k - 1]
        BY <1>14, <4>0
      <4>2. \A k \in 1 .. w : vs1[u][k] # q /\ pa2[vs1[u][k]] = u
        BY <1>4, <1>18, <1>21
      <4>4. pa2[q] = u
        BY <1>6 DEF Links
      <4>5. vs2[u][j] \in ps2 /\ pa2[vs2[u][j]] = u
        BY <1>4, <1>18, <4>0, <4>1, <4>2, <4>4
      <4>6. ASSUME NEW k \in 1 .. w + 1, vs2[u][k] = vs2[u][j] PROVE k = j
        <5>1. CASE j \in 1 .. i
          BY <1>18, <4>0, <4>1, <4>2, <4>6, <5>1
        <5>2. CASE j = i + 1
          BY <1>18, <4>0, <4>1, <4>2, <4>6, <5>2
        <5>3. CASE j - 1 \in i + 1 .. w
          BY <1>18, <4>0, <4>1, <4>2, <4>6, <5>3
        <5> QED
          BY <4>0, <5>1, <5>2, <5>3
      <4> QED
        BY <1>10, <3>1, <4>5, <4>6
    <3>2. CASE p = c
      <4>1. c \notin lv1 /\ j \in 1 .. n
        BY <1>4, <1>10, <2>1, <3>2
      <4>2. \A k \in 1 .. r : n + k # j
        BY <1>9, <4>1
      <4>3. vs2[c][j] = vs1[c][j] /\ vs1[c][j] \in ps1 /\ pa1[vs1[c][j]] = c
        BY <1>11, <1>17, <1>20, <4>1
      <4>4. \A k \in 1 .. r : vs2[q][k] # vs1[c][j]
        BY <1>11, <1>17, <1>20, <4>1, <4>2
      <4>5. pa2[vs1[c][j]] = c
        BY <1>6, <4>3, <4>4 DEF Links
      <4> QED
        BY <1>4, <1>10, <1>11, <1>17, <1>20, <3>2, <4>1, <4>3, <4>5
    <3>3. CASE p = q
      <4>1. c \notin lv1 /\ j \in 1 .. r
        BY <1>4, <1>10, <2>1, <3>3
      <4>2. vs2[q][j] = vs1[c][n + j] /\ vs2[q][j] \in ps1
        BY <1>11, <1>17, <1>20, <4>1
      <4>3. pa2[vs2[q][j]] = q
        BY <1>6, <4>1, <4>2 DEF Links
      <4>4. ASSUME NEW k \in 1 .. r, vs2[q][k] = vs2[q][j] PROVE k = j
        <5>1. n + k = n + j
          BY <1>11, <1>17, <1>20, <4>1, <4>4
        <5> QED
          BY <1>9, <4>1, <5>1
      <4> QED
        BY <1>4, <1>10, <3>3, <4>2, <4>3, <4>4
    <3>4. CASE p # u /\ p # c /\ p # q
      <4>1. p \in ps1 /\ p \notin lv1 /\ vs2[p] = vs1[p]
        BY <1>4, <1>16, <2>1, <3>4
      <4>2. /\ vs1[p][j] \in ps1 /\ pa1[vs1[p][j]] = p
            /\ \A k \in 1 .. Len(vs1[p]) : vs1[p][k] = vs1[p][j] => k = j
        BY <2>1, <4>1 DEF Tree, Down
      <4>3. pa2[vs1[p][j]] = p
        BY <1>21, <3>4, <4>2
      <4> QED
        BY <1>4, <4>1, <4>2, <4>3
    <3> QED
      BY <3>1, <3>2, <3>3, <3>4
  <2> QED
    BY <2>1 DEF Down
<1>25. Levelled(rt, ps2, lv2, pa2, le2)
  <2>0. \A p \in ps1 : /\ p \in lv1 <=> le[p] = 0
                       /\ le[p] <= le[rt] /\ le[p] \in Nat
                       /\ p # rt => le[pa1[p]] = le[p] + 1 /\ pa1[p] \in ps1
    <3>1. \A p \in ps1 : /\ p \in lv1 <=> le[p] = 0
                         /\ le[p] <= le[rt]
                         /\ p # rt => le[pa1[p]] = le[p] + 1
      BY DEF Tree, Levelled
    <3>2. \A p \in ps1 : p # rt => pa1[p] \in ps1
      BY DEF Tree, Up
    <3> QED
      BY <1>7, <3>1, <3>2
  <2>1. le2 \in [PageIds -> Nat]
    BY <1>1, <1>4, <1>7
  <2>2. ASSUME NEW p \in ps2
        PROVE  /\ p \in lv2 <=> le2[p] = 0
               /\ le2[p] <= le2[rt]
               /\ p # rt => le2[pa2[p]] = le2[p] + 1
    <3>1. CASE p = q
      <4>1. pa2[q] = u /\ le2[u] = le[u] /\ le[u] = le[c] + 1
        BY <1>4, <1>6, <1>8, <1>19, <2>0 DEF Links
      <4>2. q \in lv2 <=> c \in lv1
        BY <1>4, <1>7
      <4> QED
        BY <1>4, <1>7, <1>8, <2>0, <3>1, <4>1, <4>2
    <3>2. CASE p # q
      <4>1. p \in ps1 /\ (p \in lv2 <=> p \in lv1)
        BY <1>4, <3>2
      <4>2. p # rt => le2[pa2[p]] = le[p] + 1
        <5>1. CASE pa2[p] = pa1[p]
          BY <1>8, <2>0, <4>1, <5>1
        <5>2. CASE pa2[p] # pa1[p]
          <6>1. pa2[p] = q /\ pa1[p] = c
            BY <1>6, <1>21, <4>1, <5>2 DEF Links
          <6> QED
            BY <1>8, <2>0, <4>1, <6>1
        <5> QED
          BY <5>1, <5>2
      <4> QED
        BY <1>7, <1>8, <2>0, <4>1, <4>2
    <3> QED
      BY <3>1, <3>2
  <2> QED
    BY <2>1, <2>2 DEF Levelled
<1>26. lo2 \in [PageIds -> UpSets] /\ hi2 \in [PageIds -> UpSets] /\ lo2[rt] = Keys /\ hi2[rt] = {}
  <2>1. From(m) \in UpSets
    BY <1>4, UpSetFacts
  <2>2. lo[rt] = Keys /\ hi[rt] = {}
    BY DEF Tree, Routed
  <2> QED
    BY <1>2, <1>3, <1>4, <1>7, <1>8, <1>19, <2>1, <2>2
<1>27. ASSUME NEW p \in ps2, p \notin lv2, NEW j \in 1 .. Len(vs2[p])
       PROVE  /\ lo2[vs2[p][j]] = IF j = 1 THEN lo2[p] ELSE From(ks2[p][j - 1])
              /\ hi2[vs2[p][j]] = IF j = Len(vs2[p]) THEN hi2[p] ELSE From(ks2[p][j])
  <2>0. \A k \in 1 .. w :
           /\ lo[vs1[u][k]] = IF k = 1 THEN lo[u] ELSE From(ks1[u][k - 1])
           /\ hi[vs1[u][k]] = IF k = w THEN hi[u] ELSE From(ks1[u][k])
    BY <1>4, <1>10, SMTT(30) DEF Tree, Routed
  <2>1. c \notin lv1 => \A k \in 1 .. n + r :
           /\ lo[vs1[c][k]] = IF k = 1 THEN lo[c] ELSE From(ks1[c][k - 1])
           /\ hi[vs1[c][k]] = IF k = n + r THEN hi[c] ELSE From(ks1[c][k])
    BY <1>4, <1>10 DEF Tree, Routed
  <2>2. CASE p = u
    <3>0. j \in 1 .. w + 1
      BY <1>10, <1>27, <2>2
    <3>1. lo2[u] = lo[u] /\ hi2[u] = hi[u]
      BY <1>4, <1>8
    <3>2. CASE j \in 1 .. i
      <4>1. /\ j \in 1 .. w /\ j # w + 1
            /\ j # 1 => j - 1 \in 1 .. i - 1
            /\ j # i => j \in 1 .. i - 1 /\ j # w
        BY <1>9, <3>2
      <4>2. vs2[u][j] = vs1[u][j] /\ vs1[u][j] \in ps1
        BY <1>14, <1>18, <3>2, <4>1
      <4>3. lo2[vs2[u][j]] = IF j = 1 THEN lo2[u] ELSE From(ks2[u][j - 1])
        BY <1>8, <1>15, <2>0, <3>1, <4>1, <4>2
      <4>4. CASE j = i
        BY <1>8, <1>10, <1>14, <1>15, <2>2, <4>1, <4>2, <4>3, <4>4
      <4>5. CASE j # i
        <5>1. vs1[u][j] # c
          BY <1>9, <1>14, <1>18, <4>1, <4>5
        <5> QED
          BY <1>8, <1>10, <1>15, <2>0, <2>2, <4>1, <4>2, <4>3, <4>5, <5>1, SMTT(30)
      <4> QED
        BY <4>4, <4>5
    <3>3. CASE j = i + 1
      <4>1. /\ j # 1 /\ j - 1 = i /\ (j = w + 1 <=> i = w)
            /\ (i # w => i \in i .. w - 1) /\ vs2[u][j] = q
        BY <1>9, <1>14, <3>3, SMTT(30)
      <4>2. hi[c] = IF i = w THEN hi[u] ELSE From(ks1[u][i])
        BY <1>9, <1>14, <2>0
      <4> QED
        BY <1>8, <1>10, <1>15, <2>2, <3>1, <3>3, <4>1, <4>2
    <3>4. CASE j \notin 1 .. i /\ j # i + 1
      <4>1. PICK k \in i + 1 .. w : j = k + 1
        BY <1>9, <3>0, <3>4
      <4>2. /\ k \in 1 .. w /\ j # 1 /\ k # 1 /\ k - 1 \in i .. w - 1 /\ k - 1 + 1 = k /\ j - 1 = k
            /\ (j = w + 1 <=> k = w) /\ (k # w => k \in i .. w - 1) /\ k # i
        BY <1>9, <4>1
      <4>3. vs2[u][j] = vs1[u][k] /\ vs1[u][k] \in ps1 /\ vs1[u][k] # c
        BY <1>9, <1>14, <1>18, <4>1, <4>2
      <4>4. lo2[vs2[u][j]] = From(ks2[u][j - 1])
        BY <1>8, <1>15, <2>0, <4>2, <4>3
      <4>5. hi2[vs2[u][j]] = IF k = w THEN hi2[u] ELSE From(ks2[u][k + 1])
        BY <1>8, <1>15, <2>0, <3>1, <4>2, <4>3
      <4> QED
        BY <1>10, <2>2, <4>1, <4>2, <4>4, <4>5
    <3> QED
      BY <3>2, <3>3, <3>4
  <2>3. CASE p = c
    <3>1. c \notin lv1 /\ j \in 1 .. n /\ j \in 1 .. n + r
      BY <1>4, <1>10, <1>20, <1>27, <2>3
    <3>2. vs2[c][j] = vs1[c][j] /\ vs1[c][j] \in ps1 /\ vs1[c][j] # c
      <4>1. vs2[c][j] = vs1[c][j] /\ vs1[c][j] \in ps1 /\ pa1[vs1[c][j]] = c
        BY <1>11, <1>17, <3>1
      <4> QED
        BY <1>4, <1>19, <4>1
    <3>3. (j # 1 => j - 1 \in 1 .. n - 1) /\ j # n + r /\ (j # n => j \in 1 .. n - 1)
      BY <1>9, <3>1
    <3>4. lo2[vs2[c][j]] = IF j = 1 THEN lo2[c] ELSE From(ks2[c][j - 1])
      BY <1>4, <1>8, <1>13, <2>1, <3>1, <3>2, <3>3
    <3>5. hi2[vs2[c][j]] = IF j = n THEN From(m) ELSE From(ks2[c][j])
      BY <1>8, <1>13, <2>1, <3>1, <3>2, <3>3, SMTT(30)
    <3> QED
      BY <1>8, <1>10, <2>3, <3>4, <3>5
  <2>4. CASE p = q
    <3>1. c \notin lv1 /\ j \in 1 .. r /\ n + j \in 1 .. n + r
      BY <1>4, <1>10, <1>20, <1>27, <2>4
    <3>2. PICK k \in 1 .. n + r : k = n + j
      BY <3>1
    <3>3. vs2[q][j] = vs1[c][k] /\ vs1[c][k] \in ps1 /\ vs1[c][k] # c
      <4>1. vs2[q][j] = vs1[c][k] /\ vs1[c][k] \in ps1 /\ pa1[vs1[c][k]] = c
        BY <1>11, <1>17, <3>1, <3>2
      <4> QED
        BY <1>4, <1>19, <4>1
    <3>6. k # 1 /\ (k = n + r <=> j = r) /\ (j # r => j \in 1 .. r - 1)
      BY <1>9, <3>1, <3>2
    <3>7. lo[vs1[c][k]] = From(ks1[c][k - 1]) /\ hi[vs1[c][k]] = IF j = r THEN hi[c] ELSE From(ks1[c][k])
      BY <2>1, <3>1, <3>6
    <3>8. ks1[c][k - 1] = IF j = 1 THEN m ELSE ks2[q][j - 1]
      <4>1. CASE j = 1
        <5>1. k - 1 = n
          BY <1>9, <3>2, <4>1
        <5> QED
          BY <1>13, <3>1, <4>1, <5>1
      <4>2. CASE j # 1
        <5>1. j - 1 \in 1 .. r - 1 /\ k - 1 = n + (j - 1)
          BY <1>9, <3>1, <3>2, <4>2
        <5> QED
          BY <1>13, <3>1, <4>2, <5>1
      <4> QED
        BY <4>1, <4>2
    <3>9. j # r => ks1[c][k] = ks2[q][j]
      BY <1>13, <3>1, <3>2, <3>6
    <3>4. lo2[vs2[q][j]] = IF j = 1 THEN From(m) ELSE From(ks2[q][j - 1])
      BY <1>8, <3>3, <3>7, <3>8
    <3>5. hi2[vs2[q][j]] = IF j = r THEN hi[c] ELSE From(ks2[q][j])
      BY <1>8, <3>3, <3>7, <3>9
    <3> QED
      BY <1>8, <1>10, <2>4, <3>4, <3>5
  <2>5. CASE p # u /\ p # c /\ p # q
    <3>1. p \in ps1 /\ p \notin lv1 /\ vs2[p] = vs1[p] /\ ks2[p] = ks1[p]
      BY <1>4, <1>16, <1>27, <2>5
    <3>2. vs1[p][j] \in ps1 /\ pa1[vs1[p][j]] = p
      BY <1>27, <3>1 DEF Tree, Down
    <3>3. vs1[p][j] # c
      BY <1>19, <2>5, <3>2
    <3>4. /\ lo[vs1[p][j]] = IF j = 1 THEN lo[p] ELSE From(ks1[p][j - 1])
          /\ hi[vs1[p][j]] = IF j = Len(vs1[p]) THEN hi[p] ELSE From(ks1[p][j])
      BY <1>27, <3>1 DEF Tree, Routed
    <3> QED
      BY <1>8, <2>5, <3>1, <3>2, <3>3, <3>4
  <2> QED
    BY <2>2, <2>3, <2>4, <2>5
<1>28. Routed(rt, ps2, lv2, ks2, vs2, lo2, hi2)
  BY <1>26, <1>27 DEF Routed
<1>29. /\ \A p \in ps1 : \A j \in 1 .. Len(ks1[p]) : ks1[p][j] \in Keys /\ ks1[p][j] \in Int
       /\ \A p \in ps1 : lo[p] \in UpSets /\ hi[p] \in UpSets
       /\ m \in Int
  BY <1>4, PageFacts, KeysAssumption
\* The separating key divides the range of c.
<1>30. /\ InRange(m, c, lo, hi)
       /\ \E k \in lo[c] : k < m /\ k \in Int /\ k \notin hi[c]
       /\ c \in lv1 => \A j \in 1 .. n : ks1[c][j] < m
       /\ c \in lv1 => \A j \in 1 .. r : ks1[c][n + j] >= m
       /\ c \notin lv1 => \A j \in 1 .. n - 1 : ks1[c][j] < m
       /\ c \notin lv1 => \A j \in 1 .. r - 1 : ks1[c][n + j] >= m
  <2>1. /\ \A j \in 1 .. Len(ks1[c]) : ks1[c][j] \in lo[c] /\ ks1[c][j] \notin hi[c]
        /\ \A j, k \in 1 .. Len(ks1[c]) : j < k => ks1[c][j] < ks1[c][k]
        /\ \A j \in 1 .. Len(ks1[c]) : ks1[c][j] \in Int
    BY <1>4, <1>29 DEF Tree, Within, Ordered
  <2>2. CASE c \in lv1
    <3>1. /\ n + 1 \in 1 .. n + r /\ 1 \in 1 .. r
          /\ \A j \in 1 .. n : j \in 1 .. n + r /\ j < n + 1
          /\ \A j \in 1 .. r : n + j \in 1 .. n + r /\ (n + j = n + 1 \/ n + 1 < n + j)
          /\ 1 \in 1 .. n
      BY <1>9
    <3>2. m = ks1[c][n + 1]
      BY <1>12, <2>2, <3>1
    <3>3. /\ \A j \in 1 .. n : ks1[c][j] < m
          /\ \A j \in 1 .. r : ks1[c][n + j] >= m
      <4>1. PICK a \in 1 .. n + r : a = n + 1
        BY <3>1
      <4>2. m = ks1[c][a] /\ m \in Int
        BY <1>29, <3>2, <4>1
      <4>3. \A j \in 1 .. n : ks1[c][j] < m
        BY <1>12, <2>1, <2>2, <3>1, <4>1, <4>2
      <4>4. ASSUME NEW j \in 1 .. r PROVE ks1[c][n + j] >= m
        <5>1. PICK b \in 1 .. n + r : b = n + j
          BY <3>1
        <5>2. b = a \/ a < b
          BY <3>1, <4>1, <5>1
        <5>3. ks1[c][b] >= m
          BY <1>12, <2>1, <2>2, <4>2, <5>2, SMTT(30)
        <5> QED
          BY <5>1, <5>3, Zenon
      <4> QED
        BY <4>3, <4>4
    <3>4. ks1[c][1] \in lo[c] /\ ks1[c][1] \in Int /\ ks1[c][1] \notin hi[c] /\ ks1[c][1] < m
      BY <1>12, <2>1, <2>2, <3>1, <3>3
    <3>5. InRange(m, c, lo, hi)
      BY <1>12, <2>1, <2>2, <3>1, <3>2 DEF InRange
    <3> QED
      BY <2>2, <3>3, <3>4, <3>5
  <2>3. CASE c \notin lv1
    <3>1. /\ n \in 1 .. n + r - 1 /\ 1 \in 1 .. n + r /\ 1 \in 1 .. n + r - 1 /\ (1 = n \/ 1 < n)
          /\ \A j \in 1 .. n - 1 : j \in 1 .. n + r - 1 /\ j < n
          /\ \A j \in 1 .. r - 1 : n + j \in 1 .. n + r - 1 /\ n < n + j /\ 1 # n + r
      BY <1>9
    <3>2. m = ks1[c][n]
      BY <1>13, <2>3
    <3>3. /\ \A j \in 1 .. n - 1 : ks1[c][j] < m
          /\ \A j \in 1 .. r - 1 : ks1[c][n + j] >= m
      BY <1>13, <2>1, <2>3, <3>1, <3>2, SMTT(30)
    <3>4. \E k \in lo[c] : k < m /\ k \in Int /\ k \notin hi[c]
      <4>1. PICK d : d = vs1[c][1]
        OBVIOUS
      <4>2. d \in ps1 /\ lo[d] = lo[c] /\ hi[d] = From(ks1[c][1])
        <5>1. 1 # n + r
          BY <1>9
        <5>2. d \in ps1
          BY <1>17, <2>3, <3>1, <4>1
        <5>3. lo[d] = lo[c] /\ hi[d] = From(ks1[c][1])
          BY <1>4, <1>10, <2>3, <3>1, <4>1, <5>1 DEF Tree, Routed
        <5> QED
          BY <5>2, <5>3
      <4>3. PICK k : k \in lo[d] /\ k \notin hi[d]
        BY <4>2 DEF Tree, Within
      <4>4. k \in Keys /\ k \in Int
        BY <1>29, <4>2, <4>3, UpSetFacts, KeysAssumption
      <4>5. k < ks1[c][1] /\ ks1[c][1] <= m /\ ks1[c][1] \in Int
        BY <1>13, <1>29, <2>1, <2>3, <3>1, <3>2, <4>2, <4>3, <4>4, SMTT(30) DEF From
      <4>6. k < m
        BY <1>29, <4>4, <4>5
      <4>7. k \notin hi[c]
        <5>1. m \notin hi[c]
          BY <1>13, <2>1, <2>3, <3>1, <3>2
        <5> QED
          BY <1>4, <1>29, <4>4, <4>6, <5>1, UpSetFacts
      <4> QED
        BY <4>2, <4>3, <4>4, <4>6, <4>7
    <3> QED
      BY <1>13, <2>1, <2>3, <3>1, <3>2, <3>3, <3>4 DEF InRange
  <2> QED
    BY <2>2, <2>3
<1>31. InRange(m, u, lo, hi)
  BY <1>4, <1>19, <1>30, RangeInParent
<1>32. Within(ps2, ks2, lo2, hi2)
  <2>0. \A p \in ps1 : /\ \A j \in 1 .. Len(ks1[p]) : ks1[p][j] \in lo[p] /\ ks1[p][j] \notin hi[p]
                       /\ \E k \in lo[p] : k \notin hi[p]
    BY DEF Tree, Within
  <2>1. ASSUME NEW p \in ps2
        PROVE  /\ \A j \in 1 .. Len(ks2[p]) : ks2[p][j] \in lo2[p] /\ ks2[p][j] \notin hi2[p]
               /\ \E k \in lo2[p] : k \notin hi2[p]
    <3>1. CASE p = u
      <4>1. ASSUME NEW j \in 1 .. w PROVE ks2[u][j] \in lo[u] /\ ks2[u][j] \notin hi[u]
        <5>1. CASE j \in 1 .. i - 1
          <6>1. j \in 1 .. w - 1
            BY <1>9, <5>1
          <6> QED
            BY <1>4, <1>10, <1>15, <2>0, <5>1, <6>1
        <5>2. CASE j = i
          BY <1>15, <1>31, <5>2 DEF InRange
        <5>3. CASE j \notin 1 .. i - 1 /\ j # i
          <6>1. j - 1 \in i .. w - 1 /\ j - 1 \in 1 .. w - 1 /\ j - 1 + 1 = j
            BY <1>9, <5>3
          <6>2. ks2[u][j] = ks1[u][j - 1]
            BY <1>15, <6>1
          <6> QED
            BY <1>4, <1>10, <2>0, <6>1, <6>2
        <5> QED
          BY <5>1, <5>2, <5>3
      <4> QED
        BY <1>4, <1>8, <1>10, <2>0, <3>1, <4>1
    <3>2. CASE p = c
      <4>1. \E k \in lo2[c] : k \notin hi2[c]
        <5>1. PICK k \in lo[c] : k < m /\ k \in Int
          BY <1>30
        <5> QED
          BY <1>4, <1>8, <1>29, <5>1 DEF From
      <4>2. CASE c \in lv1
        <5>1. ASSUME NEW j \in 1 .. n PROVE ks2[c][j] \in lo2[c] /\ ks2[c][j] \notin From(m)
          <6>1. ks2[c][j] = ks1[c][j] /\ ks1[c][j] < m /\ j \in 1 .. Len(ks1[c])
            BY <1>12, <1>20, <1>30, <4>2
          <6>2. ks1[c][j] \in lo[c] /\ ks1[c][j] \in Int
            BY <1>4, <1>29, <2>0, <6>1
          <6> QED
            BY <1>4, <1>8, <1>29, <6>1, <6>2 DEF From
        <5> QED
          BY <1>8, <1>12, <3>2, <4>1, <4>2, <5>1
      <4>3. CASE c \notin lv1
        <5>1. \A j \in 1 .. n - 1 : j \in 1 .. n + r - 1
          BY <1>9
        <5> QED
          <6>1. ASSUME NEW j \in 1 .. n - 1 PROVE ks2[c][j] \in lo2[c] /\ ks2[c][j] \notin From(m)
            <7>1. ks2[c][j] = ks1[c][j] /\ ks1[c][j] < m /\ j \in 1 .. Len(ks1[c])
              BY <1>13, <1>30, <4>3, <5>1
            <7>2. ks1[c][j] \in lo[c] /\ ks1[c][j] \in Int
              BY <1>4, <1>29, <2>0, <7>1
            <7> QED
              BY <1>4, <1>8, <1>29, <7>1, <7>2 DEF From
          <6> QED
            BY <1>8, <1>13, <3>2, <4>1, <4>3, <6>1
      <4> QED
        BY <4>2, <4>3
    <3>3. CASE p = q
      <4>1. \E k \in lo2[q] : k \notin hi2[q]
        BY <1>4, <1>8, <1>30, UpSetFacts DEF InRange
      <4>2. CASE c \in lv1
        <5>1. ASSUME NEW j \in 1 .. r PROVE ks2[q][j] \in From(m) /\ ks2[q][j] \notin hi[c]
          <6>1. ks2[q][j] = ks1[c][n + j] /\ ks1[c][n + j] >= m /\ n + j \in 1 .. Len(ks1[c])
            BY <1>12, <1>20, <1>30, <4>2
          <6>2. ks1[c][n + j] \notin hi[c] /\ ks1[c][n + j] \in Keys
            BY <1>4, <1>29, <2>0, <6>1
          <6> QED
            BY <6>1, <6>2 DEF From
        <5> QED
          BY <1>8, <1>12, <3>3, <4>1, <4>2, <5>1
      <4>3. CASE c \notin lv1
        <5>1. \A j \in 1 .. r - 1 : n + j \in 1 .. n + r - 1
          BY <1>9
        <5> QED
          <6>1. ASSUME NEW j \in 1 .. r - 1 PROVE ks2[q][j] \in From(m) /\ ks2[q][j] \notin hi[c]
            <7>1. ks2[q][j] = ks1[c][n + j] /\ ks1[c][n + j] >= m /\ n + j \in 1 .. Len(ks1[c])
              BY <1>13, <1>30, <4>3, <5>1
            <7>2. ks1[c][n + j] \notin hi[c] /\ ks1[c][n + j] \in Keys
              BY <1>4, <1>29, <2>0, <7>1
            <7> QED
              BY <7>1, <7>2 DEF From
          <6> QED
            BY <1>8, <1>13, <3>3, <4>1, <4>3, <6>1
      <4> QED
        BY <4>2, <4>3
    <3>4. CASE p # u /\ p # c /\ p # q
      BY <1>4, <1>8, <1>16, <2>0, <3>4
    <3> QED
      BY <3>1, <3>2, <3>3, <3>4
  <2> QED
    BY <2>1 DEF Within
<1>33. Ordered(ps2, ks2)
  <2>0. \A p \in ps1 : \A j, k \in 1 .. Len(ks1[p]) : j < k => ks1[p][j] < ks1[p][k]
    BY DEF Tree, Ordered
  <2>1. ASSUME NEW p \in ps2, NEW j \in 1 .. Len(ks2[p]), NEW k \in 1 .. Len(ks2[p]), j < k
        PROVE  ks2[p][j] < ks2[p][k]
    <3>1. CASE p = u
      <4>0. j \in 1 .. w /\ k \in 1 .. w
        BY <1>10, <2>1, <3>1
      <4>1. /\ \A x, y \in 1 .. w - 1 : x < y => ks1[u][x] < ks1[u][y]
            /\ \A x \in 1 .. w - 1 : ks1[u][x] \in Int
        BY <1>4, <1>10, <1>29, <2>0
      <4>2. /\ i # 1 => lo[c] = From(ks1[u][i - 1])
            /\ i # w => hi[c] = From(ks1[u][i])
        <5>1. \A x \in 1 .. w :
                 /\ lo[vs1[u][x]] = IF x = 1 THEN lo[u] ELSE From(ks1[u][x - 1])
                 /\ hi[vs1[u][x]] = IF x = w THEN hi[u] ELSE From(ks1[u][x])
          BY <1>4, <1>10, SMTT(30) DEF Tree, Routed
        <5> QED
          BY <1>9, <1>14, <5>1
      <4>3. i # 1 => i - 1 \in 1 .. w - 1 /\ ks1[u][i - 1] < m
        <5> SUFFICES ASSUME i # 1 PROVE i - 1 \in 1 .. w - 1 /\ ks1[u][i - 1] < m
          OBVIOUS
        <5>1. i - 1 \in 1 .. w - 1
          BY <1>9
        <5>2. PICK x \in lo[c] : x < m /\ x \in Int
          BY <1>30
        <5>3. x >= ks1[u][i - 1]
          BY <4>2, <5>2 DEF From
        <5> QED
          BY <1>29, <4>1, <5>1, <5>2, <5>3
      <4>4. i # w => i \in 1 .. w - 1 /\ m < ks1[u][i]
        <5> SUFFICES ASSUME i # w PROVE i \in 1 .. w - 1 /\ m < ks1[u][i]
          OBVIOUS
        <5>1. i \in 1 .. w - 1
          BY <1>9
        <5>2. m \notin From(ks1[u][i])
          BY <1>30, <4>2 DEF InRange
        <5> QED
          BY <1>4, <1>29, <4>1, <5>1, <5>2 DEF From
      <4>5. \A x \in 1 .. i - 1 : x \in 1 .. w - 1 /\ ks2[u][x] = ks1[u][x] /\ ks1[u][x] < m
        <5>1. \A x \in 1 .. i - 1 : x \in 1 .. w - 1 /\ i # 1 /\ (x = i - 1 \/ x < i - 1)
          BY <1>9
        <5> QED
          BY <1>15, <1>29, <4>1, <4>3, <5>1
      <4>6. \A x \in i + 1 .. w : x - 1 \in 1 .. w - 1 /\ ks2[u][x] = ks1[u][x - 1] /\ m < ks1[u][x - 1]
        <5>1. \A x \in i + 1 .. w : /\ x - 1 \in 1 .. w - 1 /\ i # w /\ (x - 1 = i \/ i < x - 1)
                                    /\ x - 1 \in i .. w - 1 /\ x - 1 + 1 = x
          BY <1>9
        <5>2. \A x \in i + 1 .. w : ks2[u][x] = ks1[u][x - 1]
          BY <1>15, <5>1
        <5>3. \A x \in 1 .. w - 1 : i # w /\ (x = i \/ i < x) => m < ks1[u][x]
          BY <1>29, <4>1, <4>4
        <5> QED
          BY <5>1, <5>2, <5>3
      <4>7. CASE k \in 1 .. i - 1
        <5>1. j \in 1 .. i - 1
          BY <1>9, <2>1, <4>0, <4>7
        <5> QED
          BY <2>1, <3>1, <4>1, <4>5, <4>7, <5>1
      <4>8. CASE k = i
        <5>1. j \in 1 .. i - 1
          BY <1>9, <2>1, <4>0, <4>8
        <5> QED
          BY <1>15, <3>1, <4>5, <4>8, <5>1
      <4>9. CASE k \in i + 1 .. w
        <5>1. CASE j \in 1 .. i - 1
          <6>1. /\ ks2[u][j] = ks1[u][j] /\ ks1[u][j] < m /\ ks1[u][j] \in Int
                /\ ks2[u][k] = ks1[u][k - 1] /\ m < ks1[u][k - 1] /\ ks1[u][k - 1] \in Int
            BY <4>1, <4>5, <4>6, <4>9, <5>1
          <6> QED
            BY <1>29, <3>1, <6>1
        <5>2. CASE j = i
          BY <1>15, <3>1, <4>6, <4>9, <5>2
        <5>3. CASE j \in i + 1 .. w
          <6>1. j - 1 < k - 1
            BY <2>1, <4>0
          <6> QED
            BY <3>1, <4>1, <4>6, <4>9, <5>3, <6>1
        <5>4. j \in 1 .. i - 1 \/ j = i \/ j \in i + 1 .. w
          BY <1>9, <4>0
        <5> QED
          BY <5>1, <5>2, <5>3, <5>4
      <4>10. k \in 1 .. i - 1 \/ k = i \/ k \in i + 1 .. w
        BY <1>9, <4>0
      <4> QED
        BY <4>7, <4>8, <4>9, <4>10
    <3>2. CASE p = c
      <4>1. CASE c \in lv1
        BY <1>4, <1>12, <1>20, <2>0, <2>1, <3>2, <4>1
      <4>2. CASE c \notin lv1
        <5>1. \A x \in 1 .. n - 1 : x \in 1 .. n + r - 1
          BY <1>9
        <5> QED
          BY <1>4, <1>13, <2>0, <2>1, <3>2, <4>2, <5>1
      <4> QED
        BY <4>1, <4>2
    <3>3. CASE p = q
      <4>1. CASE c \in lv1
        <5>1. j \in 1 .. r /\ k \in 1 .. r
          BY <1>12, <2>1, <3>3, <4>1
        <5>2. n + j < n + k
          BY <1>9, <2>1, <5>1
        <5> QED
          <6>1. PICK a \in 1 .. n + r, b \in 1 .. n + r : a = n + j /\ b = n + k
            BY <1>20, <5>1
          <6>2. a < b
            BY <5>2, <6>1
          <6>3. ks1[c][a] < ks1[c][b]
            BY <1>4, <1>12, <2>0, <4>1, <6>2
          <6>4. ks2[q][j] = ks1[c][a] /\ ks2[q][k] = ks1[c][b]
            BY <1>12, <4>1, <5>1, <6>1
          <6> QED
            BY <3>3, <6>3, <6>4
      <4>2. CASE c \notin lv1
        <5>1. j \in 1 .. r - 1 /\ k \in 1 .. r - 1
          BY <1>13, <2>1, <3>3, <4>2
        <5>2. n + j < n + k /\ n + j \in 1 .. n + r - 1 /\ n + k \in 1 .. n + r - 1
          BY <1>9, <2>1, <5>1
        <5> QED
          <6>1. PICK a \in 1 .. n + r - 1, b \in 1 .. n + r - 1 : a = n + j /\ b = n + k
            BY <5>2
          <6>2. a < b
            BY <5>2, <6>1
          <6>3. ks1[c][a] < ks1[c][b]
            BY <1>4, <1>13, <2>0, <4>2, <6>2
          <6>4. ks2[q][j] = ks1[c][a] /\ ks2[q][k] = ks1[c][b]
            BY <1>13, <4>2, <5>1, <6>1
          <6> QED
            BY <3>3, <6>3, <6>4
      <4> QED
        BY <4>1, <4>2
    <3>4. CASE p # u /\ p # c /\ p # q
      BY <1>4, <1>16, <2>0, <2>1, <3>4
    <3> QED
      BY <3>1, <3>2, <3>3, <3>4
  <2> QED
    BY <2>1 DEF Ordered
<1>34. Chained(lv2, nx2, lo2, hi2)
  <2>0. \A p \in lv1 : IF nx1[p] = INVALID_PAGE_ID THEN hi[p] = {}
                       ELSE nx1[p] \in lv1 /\ lo[nx1[p]] = hi[p]
    BY DEF Tree, Chained
  <2>1. q # INVALID_PAGE_ID
    BY <1>4, PageIdsAssumption DEF INVALID_PAGE_ID
  <2>2. ASSUME NEW p \in lv2
        PROVE  IF nx2[p] = INVALID_PAGE_ID THEN hi2[p] = {}
               ELSE nx2[p] \in lv2 /\ lo2[nx2[p]] = hi2[p]
    <3>1. CASE p = c
      <4>1. c \in lv1 /\ nx2[c] = q /\ q \in lv2
        BY <1>4, <1>6, <2>2, <3>1 DEF Links
      <4> QED
        BY <1>8, <2>1, <3>1, <4>1
    <3>2. CASE p = q
      <4>1. c \in lv1 /\ nx2[q] = nx1[c]
        BY <1>4, <1>6, <1>7, <2>2, <3>2 DEF Links
      <4>2. nx1[c] \in lv1 => lo2[nx1[c]] = lo[nx1[c]] /\ nx1[c] \in lv2
        BY <1>4, <1>7, <1>8
      <4> QED
        BY <1>8, <2>0, <3>2, <4>1, <4>2
    <3>3. CASE p # c /\ p # q
      <4>1. p \in lv1 /\ p \in ps1 /\ nx2[p] = nx1[p] /\ hi2[p] = hi[p]
        BY <1>4, <1>6, <1>7, <1>8, <2>2, <3>3 DEF Links
      <4>2. nx1[p] \in lv1 => lo2[nx1[p]] = lo[nx1[p]] /\ nx1[p] \in lv2
        BY <1>4, <1>7, <1>8
      <4> QED
        BY <2>0, <4>1, <4>2
    <3> QED
      BY <3>1, <3>2, <3>3
  <2> QED
    BY <2>2 DEF Chained
<1> QED
  BY <1>1, <1>2, <1>3, <1>22, <1>23, <1>24, <1>25, <1>28, <1>32, <1>33, <1>34 DEF Tree

\* Merging two neighbours keeps the tree: the left one gets both ranges.
LEMMA MergeKeepsTree ==
    ASSUME NEW rt, NEW ps1, NEW lv1, NEW pa1, NEW nx1, NEW ks1, NEW vs1,
           NEW le, NEW lo, NEW hi,
           NEW ps2, NEW lv2, NEW pa2, NEW nx2, NEW ks2, NEW vs2,
           NEW c, NEW q, NEW u, NEW i, NEW m, NEW n, NEW r, NEW w,
           Tree(rt, ps2, lv2, pa2, nx2, ks2, vs2, le, lo, hi),
           Typed(rt, ps1, lv1, pa1, nx1, ks1, vs1),
           Joins(c, q, u, i, m, n, r, w, ps1, lv1, pa1, nx1, ks1, vs1,
                 ps2, lv2, pa2, nx2, ks2, vs2),
           c \notin lv1 => \A j \in 1 .. r : pa1[vs2[q][j]] = c
    PROVE  Tree(rt, ps1, lv1, pa1, nx1, ks1, vs1, le, lo, [hi EXCEPT ![c] = hi[q]])
<1>3. PICK hi1 : hi1 = [hi EXCEPT ![c] = hi[q]]
  OBVIOUS
<1>4. /\ c \in ps1 /\ u \in ps1 /\ u \notin lv1 /\ u # c /\ m \in Keys
      /\ q \in PageIds /\ q \notin ps1 /\ ps2 = ps1 \cup {q}
      /\ lv2 = IF c \in lv1 THEN lv1 \cup {q} ELSE lv1
  BY DEF Joins
<1>5. Contents(c, q, u, i, m, n, r, w, ps1, lv1, ks1, vs1, ks2, vs2)
  BY DEF Joins
<1>6. Links(c, q, u, r, ps1, lv1, pa1, nx1, pa2, nx2, vs2)
  BY DEF Joins
<1>7. /\ le \in [PageIds -> Nat] /\ lo \in [PageIds -> UpSets] /\ hi \in [PageIds -> UpSets]
      /\ ps1 \subseteq PageIds /\ lv1 \subseteq ps1 /\ rt \in ps1
  BY DEF Tree, Levelled, Routed, Typed
<1>8. (\A p \in ps1 : p # c => hi1[p] = hi[p]) /\ hi1[c] = hi[q]
  BY <1>3, <1>4, <1>7
<1>9. n \in Nat /\ r \in Nat /\ w \in Nat /\ i \in 1 .. w
  BY <1>5 DEF Contents
<1>10. /\ Len(vs1[c]) = n + r /\ Len(vs2[c]) = n /\ Len(vs2[q]) = r
       /\ Len(vs1[u]) = w /\ Len(vs2[u]) = w + 1 /\ Len(ks1[u]) = w - 1 /\ Len(ks2[u]) = w
  BY <1>5 DEF Contents
<1>11. /\ \A j \in 1 .. n : vs2[c][j] = vs1[c][j]
       /\ \A j \in 1 .. r : vs2[q][j] = vs1[c][n + j]
  BY <1>5 DEF Contents
<1>12. c \in lv1 => /\ Len(ks1[c]) = n + r /\ Len(ks2[c]) = n /\ Len(ks2[q]) = r
                    /\ \A j \in 1 .. n : ks2[c][j] = ks1[c][j]
                    /\ \A j \in 1 .. r : ks2[q][j] = ks1[c][n + j]
  BY <1>5 DEF Contents
<1>13. c \notin lv1 => /\ ks1[c][n] = m /\ n >= 1 /\ r >= 1
                       /\ Len(ks1[c]) = n + r - 1 /\ Len(ks2[c]) = n - 1 /\ Len(ks2[q]) = r - 1
                       /\ \A j \in 1 .. n - 1 : ks2[c][j] = ks1[c][j]
                       /\ \A j \in 1 .. r - 1 : ks2[q][j] = ks1[c][n + j]
  BY <1>5 DEF Contents
<1>14. /\ vs1[u][i] = c /\ vs2[u][i + 1] = q
       /\ \A j \in 1 .. i : vs2[u][j] = vs1[u][j]
       /\ \A j \in i + 1 .. w : vs2[u][j + 1] = vs1[u][j]
  BY <1>5 DEF Contents
<1>15. /\ ks2[u][i] = m
       /\ \A j \in 1 .. i - 1 : ks2[u][j] = ks1[u][j]
       /\ \A j \in i .. w - 1 : ks2[u][j + 1] = ks1[u][j]
  BY <1>5 DEF Contents
<1>16. \A p \in ps1 : p # c /\ p # u => ks2[p] = ks1[p] /\ vs2[p] = vs1[p]
  BY <1>5 DEF Contents
<1>17. /\ c \in ps2 /\ u \in ps2 /\ q \in ps2 /\ u \notin lv2 /\ q # c /\ q # u
       /\ (c \in lv2 <=> c \in lv1) /\ (q \in lv2 <=> c \in lv1)
       /\ q # INVALID_PAGE_ID /\ rt # q
  BY <1>4, <1>7, PageIdsAssumption DEF INVALID_PAGE_ID
<1>18. \A p \in ps2 : p \notin lv2 => \A j \in 1 .. Len(vs2[p]) :
           /\ vs2[p][j] \in ps2 /\ pa2[vs2[p][j]] = p
           /\ \A k \in 1 .. Len(vs2[p]) : vs2[p][k] = vs2[p][j] => k = j
  BY DEF Tree, Down
<1>19. pa2[c] = u /\ pa2[q] = u /\ c # rt
  <2>1. i \in 1 .. w + 1 /\ i + 1 \in 1 .. w + 1 /\ i \in 1 .. i
    BY <1>9
  <2>2. pa2[c] = u /\ pa2[q] = u
    BY <1>10, <1>14, <1>17, <1>18, <2>1, SMTT(30)
  <2>3. pa2[rt] = INVALID_PAGE_ID /\ u \in PageIds
    BY <1>4, <1>7 DEF Tree, Up
  <2> QED
    BY <2>2, <2>3, PageIdsAssumption DEF INVALID_PAGE_ID
\* The values of c are those of c and of q.
<1>20. /\ \A j \in 1 .. n + r : \/ j \in 1 .. n /\ vs1[c][j] = vs2[c][j]
                                \/ j - n \in 1 .. r /\ vs1[c][j] = vs2[q][j - n]
       /\ \A j, k \in 1 .. n + r : j - n = k - n => j = k
       /\ \A j \in 1 .. n : j \in 1 .. n + r
       /\ \A j \in 1 .. r : n + j \in 1 .. n + r
  <2>1. \A j \in 1 .. n + r : j \in 1 .. n \/ (j - n \in 1 .. r /\ n + (j - n) = j)
    BY <1>9
  <2>2. /\ \A j, k \in 1 .. n + r : j - n = k - n => j = k
        /\ \A j \in 1 .. n : j \in 1 .. n + r
        /\ \A j \in 1 .. r : n + j \in 1 .. n + r
    BY <1>9
  <2> QED
    BY <1>11, <2>1, <2>2
\* The children of u are those it had, but for q.
<1>21. /\ \A j \in 1 .. w : \/ j \in 1 .. i /\ j \in 1 .. w + 1 /\ j # i + 1 /\ vs1[u][j] = vs2[u][j]
                            \/ j \notin 1 .. i /\ j + 1 \in 1 .. w + 1 /\ j + 1 # i + 1 /\ vs1[u][j] = vs2[u][j + 1]
       /\ \A j, k \in 1 .. w : j + 1 = k + 1 => j = k
       /\ \A j \in 1 .. w : \A k \in 1 .. w : j \in 1 .. i /\ k \notin 1 .. i => j # k + 1
       /\ i + 1 \in 1 .. w + 1
  <2>1. \A j \in 1 .. w : /\ j \in 1 .. i => j \in 1 .. w + 1 /\ j # i + 1
                          /\ j \notin 1 .. i => j \in i + 1 .. w /\ j + 1 \in 1 .. w + 1 /\ j + 1 # i + 1
    BY <1>9
  <2>2. /\ \A j, k \in 1 .. w : j + 1 = k + 1 => j = k
        /\ \A j \in 1 .. w : \A k \in 1 .. w : j \in 1 .. i /\ k \notin 1 .. i => j # k + 1
        /\ i + 1 \in 1 .. w + 1
    BY <1>9
  <2> QED
    BY <1>14, <2>1, <2>2
<1>22. ASSUME NEW p \in ps1
       PROVE  pa1[p] = IF pa2[p] = q THEN c ELSE pa2[p]
  <2>1. CASE c \notin lv1 /\ \E j \in 1 .. r : vs2[q][j] = p
    BY <1>6, <2>1 DEF Links
  <2>2. CASE ~(c \notin lv1 /\ \E j \in 1 .. r : vs2[q][j] = p)
    <3>1. pa2[p] = pa1[p]
      BY <1>6, <2>2 DEF Links
    <3>2. pa2[p] # q
      <4> SUFFICES ASSUME pa2[p] = q PROVE FALSE
        OBVIOUS
      <4>1. p \in ps2 /\ p # rt
        <5>1. pa2[rt] = INVALID_PAGE_ID
          BY DEF Tree, Up
        <5> QED
          BY <1>4, <1>17, <5>1
      <4>2. q \notin lv2 /\ \E j \in 1 .. Len(vs2[q]) : vs2[q][j] = p
        BY <4>1 DEF Tree, Up
      <4> QED
        BY <1>10, <1>17, <2>2, <4>2
    <3> QED
      BY <3>1, <3>2
  <2> QED
    BY <2>1, <2>2
<1>23. Counted(ps1, lv1, ks1, vs1)
  <2>0. /\ \A p \in lv2 : /\ Len(ks2[p]) = Len(vs2[p])
                          /\ \A j \in 1 .. Len(vs2[p]) : vs2[p][j] \in Rids
        /\ \A p \in ps2 : p \notin lv2 => Len(ks2[p]) = Len(vs2[p]) - 1
    BY DEF Tree, Counted
  <2>1. ASSUME NEW p \in lv1
        PROVE  Len(ks1[p]) = Len(vs1[p]) /\ \A j \in 1 .. Len(vs1[p]) : vs1[p][j] \in Rids
    <3>1. CASE p = c
      <4>1. /\ \A j \in 1 .. n : vs2[c][j] \in Rids
            /\ \A j \in 1 .. r : vs2[q][j] \in Rids
        BY <1>10, <1>17, <2>0, <2>1, <3>1
      <4>2. \A j \in 1 .. n + r : vs1[c][j] \in Rids
        BY <1>20, <4>1
      <4> QED
        BY <1>10, <1>12, <2>1, <3>1, <4>2
    <3>2. CASE p # c
      BY <1>4, <1>7, <1>16, <2>0, <2>1, <3>2
    <3> QED
      BY <3>1, <3>2
  <2>2. ASSUME NEW p \in ps1, p \notin lv1 PROVE Len(ks1[p]) = Len(vs1[p]) - 1
    <3>1. CASE p = c
      BY <1>9, <1>10, <1>13, <2>2, <3>1
    <3>2. CASE p = u
      BY <1>10, <3>2
    <3>3. CASE p # c /\ p # u
      BY <1>4, <1>7, <1>16, <2>0, <2>2, <3>3
    <3> QED
      BY <3>1, <3>2, <3>3
  <2> QED
    BY <2>1, <2>2 DEF Counted
<1>24. Up(rt, ps1, lv1, pa1, vs1)
  <2>1. pa1[rt] = INVALID_PAGE_ID
    <3>1. pa2[rt] = INVALID_PAGE_ID
      BY DEF Tree, Up
    <3> QED
      BY <1>7, <1>17, <1>22, <3>1
  <2>2. ASSUME NEW p \in ps1, p # rt
        PROVE  /\ pa1[p] \in ps1 /\ pa1[p] \notin lv1
               /\ \E j \in 1 .. Len(vs1[pa1[p]]) : vs1[pa1[p]][j] = p
    <3>1. PICK v : v = pa2[p]
      OBVIOUS
    <3>2. p \in ps2 /\ p # q
      BY <1>4
    <3>3. v \in ps2 /\ v \notin lv2 /\ \E j \in 1 .. Len(vs2[v]) : vs2[v][j] = p
      BY <2>2, <3>1, <3>2 DEF Tree, Up
    <3>4. PICK x \in 1 .. Len(vs2[v]) : vs2[v][x] = p
      BY <3>3
    <3>5. CASE v = q
      <4>1. pa1[p] = c /\ c \notin lv1
        BY <1>17, <1>22, <3>1, <3>3, <3>5
      <4>2. x \in 1 .. r
        BY <1>10, <3>4, <3>5
      <4>3. PICK k \in 1 .. n + r : k = n + x
        BY <1>20, <4>2
      <4>4. vs1[c][k] = p
        BY <1>11, <3>4, <3>5, <4>2, <4>3
      <4> QED
        BY <1>4, <1>10, <4>1, <4>4
    <3>6. CASE v = c
      <4>1. pa1[p] = c /\ c \notin lv1
        BY <1>17, <1>22, <3>1, <3>3, <3>6
      <4>2. x \in 1 .. n
        BY <1>10, <3>4, <3>6
      <4> QED
        BY <1>4, <1>10, <1>11, <1>20, <3>4, <3>6, <4>1, <4>2, ZenonT(40)
    <3>7. CASE v = u
      <4>1. pa1[p] = u
        BY <1>17, <1>22, <3>1, <3>7
      <4>2. x \in 1 .. w + 1 /\ x # i + 1
        BY <1>10, <1>14, <3>2, <3>4, <3>7
      <4>3. x \in 1 .. i \/ x - 1 \in i + 1 .. w
        BY <1>9, <4>2
      <4>4. \E j \in 1 .. w : vs1[u][j] = p
        <5>1. CASE x \in 1 .. i
          <6>1. x \in 1 .. w
            BY <1>9, <5>1
          <6> QED
            BY <1>14, <3>4, <3>7, <5>1, <6>1
        <5>2. CASE x - 1 \in i + 1 .. w
          <6>1. x - 1 \in 1 .. w /\ x - 1 + 1 = x
            BY <1>9, <4>2, <5>2
          <6> QED
            BY <1>14, <3>4, <3>7, <5>2, <6>1
        <5> QED
          BY <4>3, <5>1, <5>2
      <4> QED
        BY <1>4, <1>10, <4>1, <4>4
    <3>8. CASE v # u /\ v # c /\ v # q
      <4>1. pa1[p] = v /\ v \in ps1 /\ v \notin lv1 /\ vs1[v] = vs2[v]
        BY <1>4, <1>16, <1>22, <3>1, <3>3, <3>8
      <4> QED
        BY <3>3, <4>1
    <3> QED
      BY <3>5, <3>6, <3>7, <3>8
  <2> QED
    BY <2>1, <2>2 DEF Up
<1>25. Down(ps1, lv1, pa1, vs1)
  <2>1. ASSUME NEW p \in ps1, p \notin lv1, NEW j \in 1 .. Len(vs1[p])
        PROVE  /\ vs1[p][j] \in ps1 /\ pa1[vs1[p][j]] = p
               /\ \A k \in 1 .. Len(vs1[p]) : vs1[p][k] = vs1[p][j] => k = j
    <3>1. CASE p = u
      <4>1. \A k \in 1 .. w + 1 : /\ vs2[u][k] \in ps2 /\ pa2[vs2[u][k]] = u
                                  /\ k # i + 1 => vs2[u][k] # q
                                  /\ \A l \in 1 .. w + 1 : vs2[u][l] = vs2[u][k] => l = k
        BY <1>10, <1>14, <1>17, <1>18, <1>21, SMTT(30)
      <4>2. j \in 1 .. w
        BY <1>10, <2>1, <3>1
      <4>3. vs1[u][j] \in ps2 /\ vs1[u][j] # q /\ pa2[vs1[u][j]] = u
        BY <1>21, <4>1, <4>2
      <4>4. vs1[u][j] \in ps1 /\ pa1[vs1[u][j]] = u
        BY <1>4, <1>17, <1>22, <4>3
      <4>5. \A k \in 1 .. w : vs1[u][k] = vs1[u][j] => k = j
        BY <1>21, <4>1, <4>2
      <4> QED
        BY <1>10, <3>1, <4>4, <4>5
    <3>2. CASE p = c
      <4>1. j \in 1 .. n + r /\ c \notin lv2 /\ q \notin lv2
        BY <1>10, <1>17, <2>1, <3>2
      <4>2. /\ \A k \in 1 .. n : /\ vs2[c][k] \in ps2 /\ pa2[vs2[c][k]] = c
                                 /\ \A l \in 1 .. n : vs2[c][l] = vs2[c][k] => l = k
            /\ \A k \in 1 .. r : /\ vs2[q][k] \in ps2 /\ pa2[vs2[q][k]] = q
                                 /\ \A l \in 1 .. r : vs2[q][l] = vs2[q][k] => l = k
        BY <1>10, <1>17, <1>18, <4>1
      <4>3. vs1[c][j] \in ps2 /\ pa2[vs1[c][j]] \in {c, q}
        BY <1>20, <4>1, <4>2
      <4>4. vs1[c][j] \in ps1 /\ pa1[vs1[c][j]] = c
        <5>1. vs1[c][j] # q
          BY <1>4, <1>17, <1>19, <4>3
        <5> QED
          BY <1>4, <1>17, <1>22, <4>3, <5>1
      <4>5. \A k \in 1 .. n + r : vs1[c][k] = vs1[c][j] => k = j
        BY <1>17, <1>20, <4>1, <4>2
      <4> QED
        BY <1>10, <3>2, <4>4, <4>5
    <3>3. CASE p # u /\ p # c
      <4>1. p \in ps2 /\ p \notin lv2 /\ vs2[p] = vs1[p] /\ p # q
        BY <1>4, <1>16, <2>1, <3>3
      <4>2. /\ vs1[p][j] \in ps2 /\ pa2[vs1[p][j]] = p
            /\ \A k \in 1 .. Len(vs1[p]) : vs1[p][k] = vs1[p][j] => k = j
        BY <1>18, <2>1, <4>1
      <4>3. vs1[p][j] # q
        BY <1>19, <3>3, <4>2
      <4> QED
        BY <1>4, <1>22, <4>1, <4>2, <4>3
    <3> QED
      BY <3>1, <3>2, <3>3
  <2> QED
    BY <2>1 DEF Down
<1>26. Levelled(rt, ps1, lv1, pa1, le)
  <2>0. \A p \in ps2 : /\ p \in lv2 <=> le[p] = 0
                       /\ le[p] <= le[rt]
                       /\ p # rt => le[pa2[p]] = le[p] + 1
    BY DEF Tree, Levelled
  <2>1. le[c] = le[q]
    <3>1. le[c] \in Nat /\ le[q] \in Nat /\ le[u] = le[c] + 1 /\ le[u] = le[q] + 1
      BY <1>4, <1>7, <1>17, <1>19, <2>0
    <3> QED
      BY <3>1
  <2>2. ASSUME NEW p \in ps1
        PROVE  /\ p \in lv1 <=> le[p] = 0
               /\ le[p] <= le[rt]
               /\ p # rt => le[pa1[p]] = le[p] + 1
    BY <1>4, <1>22, <2>0, <2>1
  <2> QED
    BY <1>7, <2>2 DEF Levelled
<1>27. /\ lo[c] = IF i = 1 THEN lo[u] ELSE From(ks2[u][i - 1])
       /\ hi[c] = From(m) /\ lo[q] = From(m)
       /\ hi[q] = IF i = w THEN hi[u] ELSE From(ks1[u][i])
       /\ \A j \in 1 .. w + 1 :
             /\ lo[vs2[u][j]] = IF j = 1 THEN lo[u] ELSE From(ks2[u][j - 1])
             /\ hi[vs2[u][j]] = IF j = w + 1 THEN hi[u] ELSE From(ks2[u][j])
  <2>1. \A j \in 1 .. w + 1 :
           /\ lo[vs2[u][j]] = IF j = 1 THEN lo[u] ELSE From(ks2[u][j - 1])
           /\ hi[vs2[u][j]] = IF j = w + 1 THEN hi[u] ELSE From(ks2[u][j])
    <3>1. Routed(rt, ps2, lv2, ks2, vs2, lo, hi)
      BY DEF Tree
    <3>2. u \in ps2 /\ u \notin lv2 /\ Len(vs2[u]) = w + 1
      BY <1>10, <1>17
    <3> QED
      BY <3>1, <3>2 DEF Routed
  <2>2. /\ i \in 1 .. w + 1 /\ i # w + 1 /\ i + 1 \in 1 .. w + 1 /\ i + 1 # 1 /\ i + 1 - 1 = i
        /\ (i + 1 = w + 1 <=> i = w) /\ (i # w => i \in i .. w - 1) /\ i \in 1 .. i
    BY <1>9
  <2>3. vs2[u][i] = c
    BY <1>14, <2>2
  <2>4. lo[c] = (IF i = 1 THEN lo[u] ELSE From(ks2[u][i - 1])) /\ hi[c] = From(m)
    BY <1>15, <2>1, <2>2, <2>3
  <2>5. PICK k \in 1 .. w + 1 : k = i + 1
    BY <2>2
  <2>6. vs2[u][k] = q /\ k # 1 /\ k - 1 = i /\ (k = w + 1 <=> i = w) /\ (i # w => ks2[u][k] = ks1[u][i])
    BY <1>14, <1>15, <2>2, <2>5
  <2>7. lo[q] = From(m) /\ hi[q] = IF i = w THEN hi[u] ELSE From(ks1[u][i])
    BY <1>15, <2>1, <2>6
  <2> QED
    BY <2>1, <2>4, <2>7
<1>28. ASSUME NEW p \in ps1, p \notin lv1, NEW j \in 1 .. Len(vs1[p])
       PROVE  /\ lo[vs1[p][j]] = IF j = 1 THEN lo[p] ELSE From(ks1[p][j - 1])
              /\ hi1[vs1[p][j]] = IF j = Len(vs1[p]) THEN hi1[p] ELSE From(ks1[p][j])
  <2>0. vs1[p][j] \in ps1 /\ pa1[vs1[p][j]] = p /\ pa1[c] = u
    BY <1>4, <1>17, <1>19, <1>22, <1>25, <1>28 DEF Down
  <2>2. CASE p = u
    <3>0. j \in 1 .. w
      BY <1>10, <1>28, <2>2
    <3>2. CASE j \in 1 .. i - 1
      <4>1. j \in 1 .. w + 1 /\ j \in 1 .. i /\ j # w + 1 /\ j # w /\ (j # 1 => j - 1 \in 1 .. i - 1) /\ j # i
        BY <1>9, <3>2
      <4>2. vs2[u][j] = vs1[u][j] /\ vs1[u][j] # c
        BY <1>9, <1>14, <1>10, <1>25, <1>4, <3>0, <4>1 DEF Down
      <4>3. lo[vs1[u][j]] = IF j = 1 THEN lo[u] ELSE From(ks1[u][j - 1])
        BY <1>15, <1>27, <4>1, <4>2
      <4>4. hi[vs1[u][j]] = From(ks1[u][j])
        BY <1>15, <1>27, <3>2, <4>1, <4>2
      <4> QED
        BY <1>8, <1>10, <2>0, <2>2, <4>1, <4>2, <4>3, <4>4
    <3>3. CASE j = i
      <4>1. i # 1 => i - 1 \in 1 .. i - 1
        BY <1>9
      <4>2. lo[c] = IF i = 1 THEN lo[u] ELSE From(ks1[u][i - 1])
        BY <1>15, <1>27, <4>1
      <4> QED
        BY <1>4, <1>8, <1>10, <1>14, <1>27, <2>2, <3>3, <4>2
    <3>4. CASE j \in i + 1 .. w
      <4>1. PICK k \in 1 .. w + 1 : k = j + 1
        BY <1>9, <3>4
      <4>2. /\ k # 1 /\ k - 1 = j /\ j # 1 /\ (k = w + 1 <=> j = w) /\ j # i
            /\ j - 1 \in i .. w - 1 /\ j - 1 + 1 = j /\ (j # w => j \in i .. w - 1)
        BY <1>9, <3>4, <4>1
      <4>3. vs2[u][k] = vs1[u][j] /\ vs1[u][j] # c
        BY <1>9, <1>14, <1>10, <1>25, <1>4, <3>0, <3>4, <4>1, <4>2 DEF Down
      <4>4. ks2[u][j] = ks1[u][j - 1] /\ (j # w => ks2[u][k] = ks1[u][j])
        BY <1>15, <4>1, <4>2
      <4>5. lo[vs1[u][j]] = From(ks1[u][j - 1]) /\ hi[vs1[u][j]] = IF j = w THEN hi[u] ELSE From(ks1[u][j])
        BY <1>27, <4>2, <4>3, <4>4
      <4> QED
        BY <1>4, <1>8, <1>10, <2>0, <2>2, <4>2, <4>3, <4>5
    <3> QED
      BY <1>9, <3>0, <3>2, <3>3, <3>4
  <2>3. CASE p = c
    <3>1. j \in 1 .. n + r /\ c \notin lv2 /\ q \notin lv2 /\ c \notin lv1
      BY <1>10, <1>17, <1>28, <2>3
    <3>2. /\ \A k \in 1 .. n :
                /\ lo[vs2[c][k]] = IF k = 1 THEN lo[c] ELSE From(ks2[c][k - 1])
                /\ hi[vs2[c][k]] = IF k = n THEN hi[c] ELSE From(ks2[c][k])
          /\ \A k \in 1 .. r :
                /\ lo[vs2[q][k]] = IF k = 1 THEN lo[q] ELSE From(ks2[q][k - 1])
                /\ hi[vs2[q][k]] = IF k = r THEN hi[q] ELSE From(ks2[q][k])
      BY <1>10, <1>17, <3>1, SMTT(30) DEF Tree, Routed
    <3>3. vs1[c][j] # c
      BY <1>4, <2>0, <2>3
    <3>4. CASE j \in 1 .. n
      <4>1. (j # 1 => j - 1 \in 1 .. n - 1) /\ (j # n => j \in 1 .. n - 1) /\ j # n + r
        <5>1. n >= 1 /\ r >= 1
          BY <1>13, <3>1
        <5> QED
          BY <1>9, <3>4, <5>1
      <4>2. lo[vs1[c][j]] = IF j = 1 THEN lo[c] ELSE From(ks1[c][j - 1])
        BY <1>11, <1>13, <3>1, <3>2, <3>4, <4>1, ZenonT(40)
      <4>3. hi[vs1[c][j]] = From(ks1[c][j])
        BY <1>11, <1>13, <1>27, <3>1, <3>2, <3>4, <4>1
      <4> QED
        BY <1>8, <1>10, <2>0, <2>3, <3>3, <4>1, <4>2, <4>3
    <3>5. CASE j \notin 1 .. n
      <4>1. PICK k \in 1 .. r : j = n + k
        <5>1. j - n \in 1 .. r /\ j = n + (j - n)
          BY <1>9, <3>1, <3>5
        <5> QED
          BY <5>1
      <4>2. j # 1 /\ (k = 1 => j - 1 = n) /\ (k = r <=> j = n + r) /\ (k # r => k \in 1 .. r - 1)
        BY <1>9, <1>13, <3>1, <4>1
      <4>3. k # 1 => k - 1 \in 1 .. r - 1 /\ j - 1 = n + (k - 1)
        BY <1>9, <4>1
      <4>4. vs1[c][j] = vs2[q][k]
        BY <1>11, <4>1
      <4>5. ks1[c][j - 1] = IF k = 1 THEN m ELSE ks2[q][k - 1]
        BY <1>13, <3>1, <4>2, <4>3
      <4>6. k # r => ks1[c][j] = ks2[q][k]
        BY <1>13, <3>1, <4>1, <4>2
      <4>7. lo[vs1[c][j]] = From(ks1[c][j - 1])
        BY <1>27, <3>2, <4>4, <4>5
      <4>8. hi[vs1[c][j]] = IF j = n + r THEN hi[q] ELSE From(ks1[c][j])
        BY <3>2, <4>2, <4>4, <4>6
      <4> QED
        BY <1>8, <1>10, <2>0, <2>3, <3>3, <4>2, <4>7, <4>8
    <3> QED
      BY <3>4, <3>5
  <2>5. CASE p # u /\ p # c
    <3>1. p \in ps2 /\ p \notin lv2 /\ vs2[p] = vs1[p] /\ ks2[p] = ks1[p]
      BY <1>4, <1>16, <1>28, <2>5
    <3>3. vs1[p][j] # c
      BY <2>0, <2>5
    <3>4. /\ lo[vs1[p][j]] = IF j = 1 THEN lo[p] ELSE From(ks1[p][j - 1])
          /\ hi[vs1[p][j]] = IF j = Len(vs1[p]) THEN hi[p] ELSE From(ks1[p][j])
      BY <1>28, <3>1 DEF Tree, Routed
    <3> QED
      BY <1>8, <2>0, <2>5, <3>3, <3>4
  <2> QED
    BY <2>2, <2>3, <2>5
<1>29. Routed(rt, ps1, lv1, ks1, vs1, lo, hi1)
  <2>1. lo[rt] = Keys /\ hi[rt] = {}
    BY DEF Tree, Routed
  <2> QED
    BY <1>3, <1>4, <1>7, <1>8, <1>19, <1>28, <2>1 DEF Routed
<1>30. /\ \A p \in ps2 : \A j \in 1 .. Len(ks2[p]) : ks2[p][j] \in Keys /\ ks2[p][j] \in Int
       /\ \A p \in ps2 : lo[p] \in UpSets /\ hi[p] \in UpSets
       /\ m \in Int
  BY <1>4, PageFacts, KeysAssumption
<1>31. /\ \A p \in ps2 : \A j \in 1 .. Len(ks2[p]) : ks2[p][j] \in lo[p] /\ ks2[p][j] \notin hi[p]
       /\ \A p \in ps2 : \E k \in lo[p] : k \notin hi[p]
       /\ \A p \in ps2 : \A j, k \in 1 .. Len(ks2[p]) : j < k => ks2[p][j] < ks2[p][k]
  BY DEF Tree, Within, Ordered
\* The ranges lie side by side, with m between them.
<1>32. lo[q] \subseteq lo[c] /\ hi[q] \subseteq hi[c] /\ m \in lo[c] /\ m \notin hi[q]
  <2>1. PICK x \in lo[c] : x \notin hi[c]
    BY <1>17, <1>31
  <2>2. PICK y \in lo[q] : y \notin hi[q]
    BY <1>17, <1>31
  <2>3. x \in Keys /\ x \in Int /\ y \in Keys /\ y \in Int /\ hi[q] \subseteq Keys
    BY <1>17, <1>30, <2>1, <2>2, UpSetFacts, KeysAssumption
  <2>4. x < m /\ y >= m
    BY <1>27, <1>30, <2>1, <2>2, <2>3 DEF From
  <2>5. ASSUME NEW z \in Keys, z >= m PROVE z \in lo[c]
    <3>1. z \in Int /\ z >= x
      BY <1>30, <2>3, <2>4, <2>5, KeysAssumption
    <3> QED
      BY <1>17, <1>30, <2>1, <3>1, UpSetFacts
  <2>6. ASSUME NEW z \in hi[q] PROVE z >= m /\ z \in Keys
    <3>1. z \in Keys /\ z \in Int
      BY <2>3, KeysAssumption
    <3>2. ~(z <= y)
      BY <1>17, <1>30, <2>2, <2>3, <3>1, UpSetFacts
    <3> QED
      BY <1>30, <2>3, <2>4, <3>1, <3>2
  <2>7. m \notin hi[q]
    BY <1>4, <1>17, <1>30, <2>2, <2>3, <2>4, UpSetFacts
  <2> QED
    <3>1. lo[q] \subseteq lo[c]
      BY <1>27, <2>5 DEF From
    <3>2. hi[q] \subseteq hi[c]
      BY <1>27, <2>6 DEF From
    <3>3. m \in lo[c]
      BY <1>4, <1>30, <2>5
    <3> QED
      BY <2>7, <3>1, <3>2, <3>3
\* The keys of the two pages lie on their side of m.
<1>33. /\ \A j \in 1 .. Len(ks2[c]) : ks2[c][j] < m
       /\ \A j \in 1 .. Len(ks2[q]) : ks2[q][j] >= m
       /\ c \notin lv1 => \A j \in 1 .. Len(ks2[q]) : ks2[q][j] > m
  <2>1. \A j \in 1 .. Len(ks2[c]) : ks2[c][j] < m
    BY <1>17, <1>27, <1>30, <1>31 DEF From
  <2>2. \A j \in 1 .. Len(ks2[q]) : ks2[q][j] >= m
    BY <1>17, <1>27, <1>31 DEF From
  <2>3. ASSUME c \notin lv1, NEW j \in 1 .. Len(ks2[q]) PROVE ks2[q][j] > m
    <3>1. j \in 1 .. r - 1 /\ 1 \in 1 .. r /\ 1 # r /\ 1 \in 1 .. r - 1 /\ (j = 1 \/ 1 < j)
      BY <1>9, <1>13, <2>3
    <3>2. PICK d : d = vs2[q][1]
      OBVIOUS
    <3>3. d \in ps2 /\ lo[d] = lo[q] /\ hi[d] = From(ks2[q][1])
      <4>1. d \in ps2
        BY <1>10, <1>17, <1>18, <2>3, <3>1, <3>2
      <4>2. lo[d] = lo[q] /\ hi[d] = From(ks2[q][1])
        BY <1>10, <1>17, <2>3, <3>1, <3>2 DEF Tree, Routed
      <4> QED
        BY <4>1, <4>2
    <3>4. PICK k \in lo[d] : k \notin hi[d]
      BY <1>31, <3>3
    <3>5. k \in Keys /\ k \in Int /\ k >= m
      BY <1>27, <3>3, <3>4, KeysAssumption DEF From
    <3>6. /\ ks2[q][1] \in Int /\ ks2[q][j] \in Int
          /\ ks2[q][1] <= ks2[q][j]
      <4>1. 1 \in 1 .. Len(ks2[q])
        BY <1>13, <2>3, <3>1
      <4>2. ks2[q][1] \in Int /\ ks2[q][j] \in Int
        BY <1>17, <1>30, <2>3, <4>1
      <4>3. 1 < j => ks2[q][1] < ks2[q][j]
        BY <1>17, <1>31, <2>3, <4>1
      <4> QED
        BY <3>1, <4>2, <4>3
    <3>7. k < ks2[q][1]
      BY <3>3, <3>4, <3>5, <3>6 DEF From
    <3> QED
      BY <1>30, <3>5, <3>6, <3>7
  <2> QED
    BY <2>1, <2>2, <2>3
\* The keys of c are those of c and of q, and m if it has children.
<1>34. /\ c \in lv1 => \A j \in 1 .. n + r :
             \/ j \in 1 .. n /\ ks1[c][j] = ks2[c][j]
             \/ \E k \in 1 .. r : j = n + k /\ ks1[c][j] = ks2[q][k]
       /\ c \notin lv1 => \A j \in 1 .. n + r - 1 :
             \/ j \in 1 .. n - 1 /\ ks1[c][j] = ks2[c][j]
             \/ j = n /\ ks1[c][j] = m
             \/ \E k \in 1 .. r - 1 : j = n + k /\ ks1[c][j] = ks2[q][k]
  <2>1. ASSUME c \in lv1, NEW j \in 1 .. n + r
        PROVE  \/ j \in 1 .. n /\ ks1[c][j] = ks2[c][j]
               \/ \E k \in 1 .. r : j = n + k /\ ks1[c][j] = ks2[q][k]
    <3>1. j \in 1 .. n \/ (j - n \in 1 .. r /\ n + (j - n) = j)
      BY <1>9, <2>1
    <3> QED
      BY <1>12, <2>1, <3>1
  <2>2. ASSUME c \notin lv1, NEW j \in 1 .. n + r - 1
        PROVE  \/ j \in 1 .. n - 1 /\ ks1[c][j] = ks2[c][j]
               \/ j = n /\ ks1[c][j] = m
               \/ \E k \in 1 .. r - 1 : j = n + k /\ ks1[c][j] = ks2[q][k]
    <3>1. j \in 1 .. n - 1 \/ j = n \/ (j - n \in 1 .. r - 1 /\ n + (j - n) = j)
      BY <1>9, <2>2
    <3> QED
      BY <1>13, <2>2, <3>1
  <2> QED
    BY <2>1, <2>2
\* The keys of u are those it had, but for m.
<1>35. \A j \in 1 .. w - 1 : \/ j < i /\ j \in 1 .. w /\ ks1[u][j] = ks2[u][j]
                             \/ j >= i /\ j + 1 \in 1 .. w /\ ks1[u][j] = ks2[u][j + 1]
  <2>1. \A j \in 1 .. w - 1 : \/ j < i /\ j \in 1 .. w /\ j \in 1 .. i - 1
                              \/ j >= i /\ j + 1 \in 1 .. w /\ j \in i .. w - 1
    BY <1>9
  <2> QED
    BY <1>15, <2>1
<1>36. Within(ps1, ks1, lo, hi1)
  <2>1. ASSUME NEW p \in ps1
        PROVE  /\ \A j \in 1 .. Len(ks1[p]) : ks1[p][j] \in lo[p] /\ ks1[p][j] \notin hi1[p]
               /\ \E k \in lo[p] : k \notin hi1[p]
    <3>1. CASE p = u
      <4>1. \A j \in 1 .. w : ks2[u][j] \in lo[u] /\ ks2[u][j] \notin hi[u]
        BY <1>10, <1>17, <1>31
      <4>2. \A j \in 1 .. w - 1 : ks1[u][j] \in lo[u] /\ ks1[u][j] \notin hi[u]
        BY <1>35, <4>1
      <4> QED
        BY <1>4, <1>8, <1>10, <1>17, <1>31, <3>1, <4>2
    <3>2. CASE p = c
      <4>1. \E k \in lo[c] : k \notin hi1[c]
        BY <1>8, <1>32
      <4>2. /\ \A j \in 1 .. Len(ks2[c]) : ks2[c][j] \in lo[c] /\ ks2[c][j] \notin hi[q]
            /\ \A j \in 1 .. Len(ks2[q]) : ks2[q][j] \in lo[c] /\ ks2[q][j] \notin hi[q]
        BY <1>17, <1>31, <1>32
      <4>3. CASE c \in lv1
        <5>1. \A j \in 1 .. n + r : ks1[c][j] \in lo[c] /\ ks1[c][j] \notin hi[q]
          BY <1>12, <1>34, <4>2, <4>3
        <5> QED
          BY <1>8, <1>12, <3>2, <4>1, <4>3, <5>1
      <4>4. CASE c \notin lv1
        <5>1. \A j \in 1 .. n + r - 1 : ks1[c][j] \in lo[c] /\ ks1[c][j] \notin hi[q]
          BY <1>13, <1>32, <1>34, <4>2, <4>4, ZenonT(40)
        <5> QED
          BY <1>8, <1>13, <3>2, <4>1, <4>4, <5>1
      <4> QED
        BY <4>3, <4>4
    <3>3. CASE p # u /\ p # c
      BY <1>4, <1>8, <1>16, <1>31, <3>3
    <3> QED
      BY <3>1, <3>2, <3>3
  <2> QED
    BY <2>1 DEF Within
<1>37. Ordered(ps1, ks1)
  <2>1. ASSUME NEW p \in ps1, NEW j \in 1 .. Len(ks1[p]), NEW k \in 1 .. Len(ks1[p]), j < k
        PROVE  ks1[p][j] < ks1[p][k]
    <3>1. CASE p = u
      <4>1. j \in 1 .. w - 1 /\ k \in 1 .. w - 1
        BY <1>10, <2>1, <3>1
      <4>2. \A x, y \in 1 .. w : x < y => ks2[u][x] < ks2[u][y]
        BY <1>10, <1>17, <1>31
      <4>3. PICK x \in 1 .. w : ks1[u][j] = ks2[u][x] /\ x = IF j < i THEN j ELSE j + 1
        BY <1>9, <1>35, <4>1
      <4>4. PICK y \in 1 .. w : ks1[u][k] = ks2[u][y] /\ y = IF k < i THEN k ELSE k + 1
        BY <1>9, <1>35, <4>1
      <4>5. x < y
        BY <1>9, <2>1, <4>1, <4>3, <4>4
      <4> QED
        BY <3>1, <4>2, <4>3, <4>4, <4>5
    <3>2. CASE p = c
      <4>0. /\ \A x, y \in 1 .. Len(ks2[c]) : x < y => ks2[c][x] < ks2[c][y]
            /\ \A x, y \in 1 .. Len(ks2[q]) : x < y => ks2[q][x] < ks2[q][y]
            /\ \A x \in 1 .. Len(ks2[c]) : ks2[c][x] \in Int
            /\ \A x \in 1 .. Len(ks2[q]) : ks2[q][x] \in Int
        BY <1>17, <1>30, <1>31
      <4>1. CASE c \in lv1
        <5>0. j \in 1 .. n + r /\ k \in 1 .. n + r /\ Len(ks2[c]) = n /\ Len(ks2[q]) = r
          BY <1>12, <2>1, <3>2, <4>1
        <5>1. CASE k \in 1 .. n /\ ks1[c][k] = ks2[c][k]
          <6>1. j \in 1 .. n /\ ~ \E x \in 1 .. r : j = n + x
            BY <1>9, <2>1, <5>0, <5>1
          <6>2. ks1[c][j] = ks2[c][j]
            BY <1>34, <4>1, <5>0, <6>1
          <6> QED
            BY <2>1, <3>2, <4>0, <5>0, <5>1, <6>1, <6>2
        <5>2. CASE \E x \in 1 .. r : k = n + x /\ ks1[c][k] = ks2[q][x]
          <6>1. PICK x \in 1 .. r : k = n + x /\ ks1[c][k] = ks2[q][x]
            BY <5>2
          <6>2. CASE j \in 1 .. n /\ ks1[c][j] = ks2[c][j]
            BY <1>30, <1>33, <3>2, <4>0, <5>0, <6>1, <6>2, SMTT(30)
          <6>3. CASE \E y \in 1 .. r : j = n + y /\ ks1[c][j] = ks2[q][y]
            <7>1. PICK y \in 1 .. r : j = n + y /\ ks1[c][j] = ks2[q][y]
              BY <6>3
            <7>2. y < x
              BY <1>9, <2>1, <6>1, <7>1
            <7> QED
              BY <3>2, <4>0, <5>0, <6>1, <7>1, <7>2
          <6> QED
            BY <1>34, <4>1, <5>0, <6>2, <6>3
        <5> QED
          BY <1>34, <4>1, <5>0, <5>1, <5>2
      <4>2. CASE c \notin lv1
        <5>0. /\ j \in 1 .. n + r - 1 /\ k \in 1 .. n + r - 1
              /\ Len(ks2[c]) = n - 1 /\ Len(ks2[q]) = r - 1
          BY <1>13, <2>1, <3>2, <4>2
        <5>a. n >= 1 /\ r >= 1 /\ \A x \in 1 .. r - 1 : n + x # n
          BY <1>9, <1>13, <4>2
        <5>1. CASE k \in 1 .. n - 1 /\ ks1[c][k] = ks2[c][k]
          <6>1. j \in 1 .. n - 1 /\ ~ (\E x \in 1 .. r - 1 : j = n + x) /\ j # n
            BY <1>9, <2>1, <5>0, <5>1
          <6>2. ks1[c][j] = ks2[c][j]
            BY <1>34, <4>2, <5>0, <6>1
          <6> QED
            BY <2>1, <3>2, <4>0, <5>0, <5>1, <6>1, <6>2
        <5>2. CASE k = n /\ ks1[c][k] = m
          <6>1. j \in 1 .. n - 1 /\ ~ (\E x \in 1 .. r - 1 : j = n + x) /\ j # n
            BY <1>9, <2>1, <5>0, <5>2
          <6>2. ks1[c][j] = ks2[c][j]
            BY <1>34, <4>2, <5>0, <6>1
          <6> QED
            BY <1>33, <3>2, <5>0, <5>2, <6>1, <6>2
        <5>3. CASE \E x \in 1 .. r - 1 : k = n + x /\ ks1[c][k] = ks2[q][x]
          <6>1. PICK x \in 1 .. r - 1 : k = n + x /\ ks1[c][k] = ks2[q][x]
            BY <5>3
          <6>2. CASE j \in 1 .. n - 1 /\ ks1[c][j] = ks2[c][j]
            BY <1>30, <1>33, <3>2, <4>0, <5>0, <6>1, <6>2, SMTT(30)
          <6>3. CASE j = n /\ ks1[c][j] = m
            BY <1>30, <1>33, <3>2, <4>0, <4>2, <5>0, <6>1, <6>3
          <6>4. CASE \E y \in 1 .. r - 1 : j = n + y /\ ks1[c][j] = ks2[q][y]
            <7>1. PICK y \in 1 .. r - 1 : j = n + y /\ ks1[c][j] = ks2[q][y]
              BY <6>4
            <7>2. y < x
              BY <1>9, <2>1, <6>1, <7>1
            <7> QED
              BY <3>2, <4>0, <5>0, <6>1, <7>1, <7>2
          <6> QED
            BY <1>34, <4>2, <5>0, <6>2, <6>3, <6>4
        <5> QED
          BY <1>34, <4>2, <5>0, <5>1, <5>2, <5>3
      <4> QED
        BY <4>1, <4>2
    <3>3. CASE p # u /\ p # c
      BY <1>4, <1>16, <1>31, <2>1, <3>3
    <3> QED
      BY <3>1, <3>2, <3>3
  <2> QED
    BY <2>1 DEF Ordered
<1>38. Chained(lv1, nx1, lo, hi1)
  <2>0. \A p \in lv2 : IF nx2[p] = INVALID_PAGE_ID THEN hi[p] = {}
                       ELSE nx2[p] \in lv2 /\ lo[nx2[p]] = hi[p]
    BY DEF Tree, Chained
  <2>1. c \in lv1 => \A p \in lv2 : nx2[p] = q => p = c
    <3>1. i \in 1 .. Len(vs2[u]) - 1 /\ i \in 1 .. i
      BY <1>9, <1>10
    <3>2. vs2[u][i] \in lv2 => \A p \in lv2 : nx2[p] = vs2[u][i + 1] => p = vs2[u][i]
      BY <1>17, <3>1, NeighboursLinked
    <3> QED
      BY <1>14, <1>17, <3>1, <3>2
  <2>2. ASSUME NEW p \in lv1
        PROVE  IF nx1[p] = INVALID_PAGE_ID THEN hi1[p] = {}
               ELSE nx1[p] \in lv1 /\ lo[nx1[p]] = hi1[p]
    <3>1. CASE p = c
      <4>1. nx1[c] = nx2[q] /\ nx2[q] # q
        BY <1>6, <1>17, <2>1, <2>2, <3>1 DEF Links
      <4> QED
        BY <1>4, <1>8, <1>17, <2>0, <2>2, <3>1, <4>1
    <3>2. CASE p # c
      <4>1. nx1[p] = nx2[p] /\ p \in lv2 /\ hi1[p] = hi[p]
        BY <1>4, <1>6, <1>7, <1>8, <2>2, <3>2 DEF Links
      <4>2. nx2[p] \in lv2 => nx2[p] \in lv1
        BY <1>4, <2>1, <3>2, <4>1
      <4> QED
        BY <2>0, <4>1, <4>2
    <3> QED
      BY <3>1, <3>2
  <2> QED
    BY <2>2 DEF Chained
<1> QED
  BY <1>3, <1>23, <1>24, <1>25, <1>26, <1>29, <1>36, <1>37, <1>38 DEF Tree

-----------------------------------------------------------------------------
(* A root put over the old one or taken away, and changes within a leaf. *)

\* Tree 2 is tree 1 with the page top over its root rt.
Topped(top, rt, ps1, lv1, pa1, nx1, ks1, vs1, ps2, lv2, pa2, nx2, ks2, vs2) ==
    /\ top \in PageIds /\ top \notin ps1 /\ ps2 = ps1 \cup {top} /\ lv2 = lv1 /\ rt \in ps1
    /\ pa2[rt] = top /\ pa2[top] = INVALID_PAGE_ID /\ pa1[rt] = INVALID_PAGE_ID
    /\ \A p \in ps1 : p # rt => pa2[p] = pa1[p]
    /\ \A p \in ps1 : nx2[p] = nx1[p] /\ ks2[p] = ks1[p] /\ vs2[p] = vs1[p]
    /\ Len(vs2[top]) = 1 /\ vs2[top][1] = rt /\ Len(ks2[top]) = 0

\* A new root over the old one.
LEMMA ToppedIsTree ==
    ASSUME NEW rt, NEW ps1, NEW lv1, NEW pa1, NEW nx1, NEW ks1, NEW vs1,
           NEW le, NEW lo, NEW hi,
           NEW ps2, NEW lv2, NEW pa2, NEW nx2, NEW ks2, NEW vs2, NEW top,
           Tree(rt, ps1, lv1, pa1, nx1, ks1, vs1, le, lo, hi),
           Typed(top, ps2, lv2, pa2, nx2, ks2, vs2),
           Topped(top, rt, ps1, lv1, pa1, nx1, ks1, vs1, ps2, lv2, pa2, nx2, ks2, vs2)
    PROVE  Tree(top, ps2, lv2, pa2, nx2, ks2, vs2,
                [le EXCEPT ![top] = le[rt] + 1], [lo EXCEPT ![top] = Keys],
                [hi EXCEPT ![top] = {}])
<1>1. PICK le2 : le2 = [le EXCEPT ![top] = le[rt] + 1]
  OBVIOUS
<1>2. PICK lo2 : lo2 = [lo EXCEPT ![top] = Keys]
  OBVIOUS
<1>3. PICK hi2 : hi2 = [hi EXCEPT ![top] = {}]
  OBVIOUS
<1>4. /\ top \in PageIds /\ top \notin ps1 /\ ps2 = ps1 \cup {top} /\ lv2 = lv1 /\ rt \in ps1
      /\ pa2[rt] = top /\ pa2[top] = INVALID_PAGE_ID /\ pa1[rt] = INVALID_PAGE_ID
      /\ \A p \in ps1 : p # rt => pa2[p] = pa1[p]
      /\ \A p \in ps1 : nx2[p] = nx1[p] /\ ks2[p] = ks1[p] /\ vs2[p] = vs1[p]
      /\ Len(vs2[top]) = 1 /\ vs2[top][1] = rt /\ Len(ks2[top]) = 0
  BY DEF Topped
<1>5. /\ le \in [PageIds -> Nat] /\ lo \in [PageIds -> UpSets] /\ hi \in [PageIds -> UpSets]
      /\ ps1 \subseteq PageIds /\ lv1 \subseteq ps1
  BY DEF Tree, Levelled, Routed, Typed
<1>6. /\ \A p \in ps1 : le2[p] = le[p] /\ lo2[p] = lo[p] /\ hi2[p] = hi[p]
      /\ le2[top] = le[rt] + 1 /\ lo2[top] = Keys /\ hi2[top] = {}
      /\ le2 \in [PageIds -> Nat] /\ lo2 \in [PageIds -> UpSets] /\ hi2 \in [PageIds -> UpSets]
  BY <1>1, <1>2, <1>3, <1>4, <1>5, UpSetFacts
<1>7. \A p \in ps1 : p \notin lv1 => \A j \in 1 .. Len(vs1[p]) :
          /\ vs1[p][j] \in ps1 /\ pa1[vs1[p][j]] = p /\ vs1[p][j] # rt
          /\ \A k \in 1 .. Len(vs1[p]) : vs1[p][k] = vs1[p][j] => k = j
  <2>1. \A p \in ps1 : p # INVALID_PAGE_ID
    BY <1>5, PageIdsAssumption DEF INVALID_PAGE_ID
  <2> QED
    BY <1>4, <2>1 DEF Tree, Down
<1>8. Counted(ps2, lv2, ks2, vs2)
  <2>1. /\ \A p \in lv1 : /\ Len(ks1[p]) = Len(vs1[p])
                          /\ \A i \in 1 .. Len(vs1[p]) : vs1[p][i] \in Rids
        /\ \A p \in ps1 : p \notin lv1 => Len(ks1[p]) = Len(vs1[p]) - 1
    BY DEF Tree, Counted
  <2>2. Len(ks2[top]) = Len(vs2[top]) - 1
    BY <1>4
  <2>3. \A p \in ps1 : ks2[p] = ks1[p] /\ vs2[p] = vs1[p]
    BY <1>4
  <2> QED
    BY <1>4, <1>5, <2>1, <2>2, <2>3, ZenonT(40) DEF Counted
<1>9. Up(top, ps2, lv2, pa2, vs2)
  <2>1. ASSUME NEW p \in ps2, p # top
        PROVE  /\ pa2[p] \in ps2 /\ pa2[p] \notin lv2
               /\ \E j \in 1 .. Len(vs2[pa2[p]]) : vs2[pa2[p]][j] = p
    <3>1. CASE p = rt
      BY <1>4, <1>5, <3>1
    <3>2. CASE p # rt
      <4>1. pa1[p] \in ps1 /\ pa1[p] \notin lv1 /\ \E j \in 1 .. Len(vs1[pa1[p]]) : vs1[pa1[p]][j] = p
        BY <1>4, <2>1, <3>2 DEF Tree, Up
      <4> QED
        BY <1>4, <2>1, <3>2, <4>1
    <3> QED
      BY <3>1, <3>2
  <2> QED
    BY <1>4, <2>1 DEF Up
<1>10. Down(ps2, lv2, pa2, vs2)
  <2>1. ASSUME NEW p \in ps2, p \notin lv2, NEW j \in 1 .. Len(vs2[p])
        PROVE  /\ vs2[p][j] \in ps2 /\ pa2[vs2[p][j]] = p
               /\ \A k \in 1 .. Len(vs2[p]) : vs2[p][k] = vs2[p][j] => k = j
    <3>1. CASE p = top
      <4>0. j \in 1 .. 1 /\ Len(vs2[p]) = 1
        BY <1>4, <2>1, <3>1, Zenon
      <4>1. j = 1 /\ \A k \in 1 .. Len(vs2[p]) : k = 1
        BY <4>0
      <4> QED
        BY <1>4, <3>1, <4>1
    <3>2. CASE p # top
      BY <1>4, <1>7, <2>1, <3>2
    <3> QED
      BY <3>1, <3>2
  <2> QED
    BY <2>1 DEF Down
<1>11. Levelled(top, ps2, lv2, pa2, le2)
  <2>0. \A p \in ps1 : /\ p \in lv1 <=> le[p] = 0
                       /\ le[p] <= le[rt] /\ le[p] \in Nat
                       /\ p # rt => le[pa1[p]] = le[p] + 1 /\ pa1[p] \in ps1
    BY <1>5 DEF Tree, Levelled, Up
  <2>1. ASSUME NEW p \in ps2
        PROVE  /\ p \in lv2 <=> le2[p] = 0
               /\ le2[p] <= le2[top]
               /\ p # top => le2[pa2[p]] = le2[p] + 1
    <3>1. CASE p = top
      BY <1>4, <1>5, <1>6, <2>0, <3>1
    <3>2. CASE p = rt
      BY <1>4, <1>5, <1>6, <2>0, <3>2
    <3>3. CASE p # top /\ p # rt
      BY <1>4, <1>5, <1>6, <2>0, <2>1, <3>3
    <3> QED
      BY <3>1, <3>2, <3>3
  <2> QED
    BY <1>6, <2>1 DEF Levelled
<1>12. Routed(top, ps2, lv2, ks2, vs2, lo2, hi2)
  <2>0. lo[rt] = Keys /\ hi[rt] = {}
    BY DEF Tree, Routed
  <2>1. ASSUME NEW p \in ps2, p \notin lv2, NEW j \in 1 .. Len(vs2[p])
        PROVE  /\ lo2[vs2[p][j]] = IF j = 1 THEN lo2[p] ELSE From(ks2[p][j - 1])
               /\ hi2[vs2[p][j]] = IF j = Len(vs2[p]) THEN hi2[p] ELSE From(ks2[p][j])
    <3>1. CASE p = top
      <4>0. j \in 1 .. 1 /\ Len(vs2[p]) = 1
        BY <1>4, <2>1, <3>1, Zenon
      <4>1. j = 1 /\ vs2[p][j] = rt
        BY <1>4, <3>1, <4>0
      <4> QED
        <5>1. lo2[rt] = Keys /\ hi2[rt] = {} /\ lo2[p] = Keys /\ hi2[p] = {}
          BY <1>4, <1>6, <2>0, <3>1
        <5> QED
          BY <4>0, <4>1, <5>1
    <3>2. CASE p # top
      <4>1. p \in ps1 /\ p \notin lv1 /\ vs2[p] = vs1[p] /\ ks2[p] = ks1[p]
        BY <1>4, <2>1, <3>2
      <4>2. /\ lo[vs1[p][j]] = IF j = 1 THEN lo[p] ELSE From(ks1[p][j - 1])
            /\ hi[vs1[p][j]] = IF j = Len(vs1[p]) THEN hi[p] ELSE From(ks1[p][j])
        BY <2>1, <4>1 DEF Tree, Routed
      <4>3. vs1[p][j] \in ps1
        BY <1>7, <2>1, <4>1
      <4> QED
        BY <1>6, <4>1, <4>2, <4>3
    <3> QED
      BY <3>1, <3>2
  <2> QED
    BY <1>6, <2>1 DEF Routed
<1>13. Within(ps2, ks2, lo2, hi2)
  <2>0. \A p \in ps1 : /\ \A j \in 1 .. Len(ks1[p]) : ks1[p][j] \in lo[p] /\ ks1[p][j] \notin hi[p]
                       /\ \E k \in lo[p] : k \notin hi[p]
    BY DEF Tree, Within
  <2>1. \E k \in Keys : k \notin {}
    BY <1>4, <2>0 DEF Tree, Routed
  <2> QED
    <3>1. \A j \in 1 .. Len(ks2[top]) : FALSE
      BY <1>4
    <3>2. \A p \in ps1 : /\ \A j \in 1 .. Len(ks2[p]) : ks2[p][j] \in lo2[p] /\ ks2[p][j] \notin hi2[p]
                         /\ \E k \in lo2[p] : k \notin hi2[p]
      BY <1>4, <1>6, <2>0
    <3>3. \E k \in lo2[top] : k \notin hi2[top]
      BY <1>6, <2>1
    <3> QED
      BY <1>4, <3>1, <3>2, <3>3 DEF Within
<1>14. Ordered(ps2, ks2)
  <2>1. \A j \in 1 .. Len(ks2[top]) : FALSE
    BY <1>4
  <2> QED
    BY <1>4, <2>1 DEF Tree, Ordered
<1>15. Chained(lv2, nx2, lo2, hi2)
  <2>1. \A p \in lv1 : IF nx1[p] = INVALID_PAGE_ID THEN hi[p] = {}
                       ELSE nx1[p] \in lv1 /\ lo[nx1[p]] = hi[p]
    BY DEF Tree, Chained
  <2>2. \A p \in lv1 : p \in ps1 /\ nx2[p] = nx1[p] /\ lo2[p] = lo[p] /\ hi2[p] = hi[p]
    BY <1>4, <1>5, <1>6
  <2> QED
    BY <1>4, <2>1, <2>2 DEF Chained
<1> QED
  BY <1>1, <1>2, <1>3, <1>8, <1>9, <1>10, <1>11, <1>12, <1>13, <1>14, <1>15 DEF Tree

\* The only child of the root becomes the root.
LEMMA ToppedWasTree ==
    ASSUME NEW rt, NEW ps1, NEW lv1, NEW pa1, NEW nx1, NEW ks1, NEW vs1,
           NEW le, NEW lo, NEW hi,
           NEW ps2, NEW lv2, NEW pa2, NEW nx2, NEW ks2, NEW vs2, NEW top,
           Tree(top, ps2, lv2, pa2, nx2, ks2, vs2, le, lo, hi),
           Typed(rt, ps1, lv1, pa1, nx1, ks1, vs1),
           Topped(top, rt, ps1, lv1, pa1, nx1, ks1, vs1, ps2, lv2, pa2, nx2, ks2, vs2)
    PROVE  Tree(rt, ps1, lv1, pa1, nx1, ks1, vs1, le, lo, hi)
<1>4. /\ top \in PageIds /\ top \notin ps1 /\ ps2 = ps1 \cup {top} /\ lv2 = lv1 /\ rt \in ps1
      /\ pa2[rt] = top /\ pa2[top] = INVALID_PAGE_ID /\ pa1[rt] = INVALID_PAGE_ID
      /\ \A p \in ps1 : p # rt => pa2[p] = pa1[p]
      /\ \A p \in ps1 : nx2[p] = nx1[p] /\ ks2[p] = ks1[p] /\ vs2[p] = vs1[p]
      /\ Len(vs2[top]) = 1 /\ vs2[top][1] = rt /\ Len(ks2[top]) = 0
  BY DEF Topped
<1>5. /\ le \in [PageIds -> Nat] /\ lo \in [PageIds -> UpSets] /\ hi \in [PageIds -> UpSets]
      /\ ps1 \subseteq PageIds /\ lv1 \subseteq ps1
  BY DEF Tree, Levelled, Routed, Typed
<1>6. \A p \in ps1 : p # rt => /\ pa2[p] \in ps1 /\ pa2[p] \notin lv1
                               /\ \E j \in 1 .. Len(vs2[pa2[p]]) : vs2[pa2[p]][j] = p
  <2> SUFFICES ASSUME NEW p \in ps1, p # rt
               PROVE  /\ pa2[p] \in ps1 /\ pa2[p] \notin lv1
                      /\ \E j \in 1 .. Len(vs2[pa2[p]]) : vs2[pa2[p]][j] = p
    OBVIOUS
  <2>1. /\ pa2[p] \in ps2 /\ pa2[p] \notin lv2
        /\ \E j \in 1 .. Len(vs2[pa2[p]]) : vs2[pa2[p]][j] = p
    BY <1>4 DEF Tree, Up
  <2>2. pa2[p] # top
    BY <1>4, <2>1
  <2> QED
    BY <1>4, <2>1, <2>2
<1>7. Counted(ps1, lv1, ks1, vs1)
  BY <1>4, <1>5 DEF Tree, Counted
<1>8. Up(rt, ps1, lv1, pa1, vs1)
  BY <1>4, <1>6 DEF Up
<1>9. Down(ps1, lv1, pa1, vs1)
  <2>1. ASSUME NEW p \in ps1, p \notin lv1, NEW j \in 1 .. Len(vs1[p])
        PROVE  /\ vs1[p][j] \in ps1 /\ pa1[vs1[p][j]] = p
               /\ \A k \in 1 .. Len(vs1[p]) : vs1[p][k] = vs1[p][j] => k = j
    <3>1. p \in ps2 /\ p \notin lv2 /\ vs2[p] = vs1[p] /\ p # top /\ p # INVALID_PAGE_ID
      BY <1>4, <1>5, <2>1, PageIdsAssumption DEF INVALID_PAGE_ID
    <3>2. /\ vs1[p][j] \in ps2 /\ pa2[vs1[p][j]] = p
          /\ \A k \in 1 .. Len(vs1[p]) : vs1[p][k] = vs1[p][j] => k = j
      BY <2>1, <3>1 DEF Tree, Down
    <3> QED
      BY <1>4, <3>1, <3>2
  <2> QED
    BY <2>1 DEF Down
<1>10. Levelled(rt, ps1, lv1, pa1, le)
  <2>0. \A p \in ps2 : /\ p \in lv2 <=> le[p] = 0
                       /\ le[p] <= le[top]
                       /\ p # top => le[pa2[p]] = le[p] + 1
    BY DEF Tree, Levelled
  <2>1. \A p \in ps1 : le[p] \in Nat /\ p # top
    BY <1>4, <1>5
  <2>2. ASSUME NEW p \in ps1 PROVE le[p] <= le[rt]
    <3>1. le[pa2[p]] <= le[top] /\ le[pa2[p]] = le[p] + 1
      BY <1>4, <1>6, <2>0, <2>1
    <3>2. le[top] = le[rt] + 1
      BY <1>4, <2>0, <2>1
    <3> QED
      BY <1>4, <2>1, <3>1, <3>2
  <2> QED
    BY <1>4, <1>5, <2>0, <2>1, <2>2 DEF Levelled
<1>11. Routed(rt, ps1, lv1, ks1, vs1, lo, hi)
  <2>1. lo[rt] = lo[top] /\ hi[rt] = hi[top] /\ lo[top] = Keys /\ hi[top] = {}
    <3>1. top \in ps2 /\ top \notin lv2 /\ 1 \in 1 .. Len(vs2[top])
      BY <1>4, <1>5
    <3> QED
      BY <1>4, <3>1 DEF Tree, Routed
  <2>2. ASSUME NEW p \in ps1, p \notin lv1, NEW j \in 1 .. Len(vs1[p])
        PROVE  /\ lo[vs1[p][j]] = IF j = 1 THEN lo[p] ELSE From(ks1[p][j - 1])
               /\ hi[vs1[p][j]] = IF j = Len(vs1[p]) THEN hi[p] ELSE From(ks1[p][j])
    <3>1. p \in ps2 /\ p \notin lv2 /\ vs2[p] = vs1[p] /\ ks2[p] = ks1[p]
      BY <1>4, <2>2
    <3> QED
      BY <2>2, <3>1 DEF Tree, Routed
  <2> QED
    BY <1>5, <2>1, <2>2 DEF Routed
<1>12. Within(ps1, ks1, lo, hi)
  BY <1>4 DEF Tree, Within
<1>13. Ordered(ps1, ks1)
  BY <1>4 DEF Tree, Ordered
<1>14. Chained(lv1, nx1, lo, hi)
  BY <1>4, <1>5 DEF Tree, Chained
<1> QED
  BY <1>7, <1>8, <1>9, <1>10, <1>11, <1>12, <1>13, <1>14 DEF Tree

\* Of the leaf p other entries than before, in order and within its range.
Rewritten(p, ps, lv, lo, hi, ks1, vs1, ks2, vs2) ==
    /\ p \in lv
    /\ \A q \in ps : q # p => ks2[q] = ks1[q] /\ vs2[q] = vs1[q]
    /\ Len(ks2[p]) = Len(vs2[p])
    /\ \A i \in 1 .. Len(vs2[p]) : /\ vs2[p][i] \in Rids
                                   /\ ks2[p][i] \in lo[p] /\ ks2[p][i] \notin hi[p]
    /\ \A i, j \in 1 .. Len(ks2[p]) : i < j => ks2[p][i] < ks2[p][j]

\* They keep the tree.
LEMMA RewrittenIsTree ==
    ASSUME NEW rt, NEW ps, NEW lv, NEW pa, NEW nx, NEW ks1, NEW vs1, NEW ks2, NEW vs2,
           NEW le, NEW lo, NEW hi, NEW p,
           Tree(rt, ps, lv, pa, nx, ks1, vs1, le, lo, hi),
           Typed(rt, ps, lv, pa, nx, ks2, vs2),
           Rewritten(p, ps, lv, lo, hi, ks1, vs1, ks2, vs2)
    PROVE  Tree(rt, ps, lv, pa, nx, ks2, vs2, le, lo, hi)
<1>1. p \in lv /\ \A q \in ps : q # p => ks2[q] = ks1[q] /\ vs2[q] = vs1[q]
  BY DEF Rewritten
<1>2. lv \subseteq ps
  BY DEF Typed
<1>3. Counted(ps, lv, ks2, vs2)
  BY <1>1, <1>2 DEF Tree, Counted, Rewritten
<1>4. Up(rt, ps, lv, pa, vs2)
  BY <1>1, <1>2 DEF Tree, Up
<1>5. Down(ps, lv, pa, vs2)
  <2>1. \A q \in ps : q \notin lv => vs2[q] = vs1[q]
    BY <1>1
  <2> QED
    BY <2>1 DEF Tree, Down
<1>6. Routed(rt, ps, lv, ks2, vs2, lo, hi)
  <2>1. \A q \in ps : q \notin lv => vs2[q] = vs1[q] /\ ks2[q] = ks1[q]
    BY <1>1
  <2> QED
    BY <2>1 DEF Tree, Routed
<1>7. Within(ps, ks2, lo, hi)
  <2>1. \A q \in ps : q # p => \A i \in 1 .. Len(ks2[q]) : ks2[q][i] \in lo[q] /\ ks2[q][i] \notin hi[q]
    BY <1>1 DEF Tree, Within
  <2>2. \A i \in 1 .. Len(ks2[p]) : ks2[p][i] \in lo[p] /\ ks2[p][i] \notin hi[p]
    BY DEF Rewritten
  <2>3. \A q \in ps : \E k \in lo[q] : k \notin hi[q]
    BY DEF Tree, Within
  <2> QED
    BY <2>1, <2>2, <2>3 DEF Within
<1>8. Ordered(ps, ks2)
  <2>1. \A q \in ps : q # p => \A i, j \in 1 .. Len(ks2[q]) : i < j => ks2[q][i] < ks2[q][j]
    BY <1>1 DEF Tree, Ordered
  <2>2. \A i, j \in 1 .. Len(ks2[p]) : i < j => ks2[p][i] < ks2[p][j]
    BY DEF Rewritten
  <2> QED
    BY <2>1, <2>2 DEF Ordered
<1> QED
  BY <1>3, <1>4, <1>5, <1>6, <1>7, <1>8 DEF Tree

\* A tree of one leaf.
LEMMA LeafIsTree ==
    ASSUME NEW p \in PageIds, NEW pa, NEW nx, NEW ks, NEW vs, NEW key \in Keys, NEW val \in Rids,
           Typed(p, {p}, {p}, pa, nx, ks, vs),
           pa[p] = INVALID_PAGE_ID, nx[p] = INVALID_PAGE_ID,
           ks[p] = <<key>>, vs[p] = <<val>>
    PROVE  Tree(p, {p}, {p}, pa, nx, ks, vs,
                [x \in PageIds |-> 0], [x \in PageIds |-> Keys], [x \in PageIds |-> {}])
<1>1. PICK le : le = [x \in PageIds |-> 0]
  OBVIOUS
<1>2. PICK lo : lo = [x \in PageIds |-> Keys]
  OBVIOUS
<1>3. PICK hi : hi = [x \in PageIds |-> {}]
  OBVIOUS
<1>4. /\ le \in [PageIds -> Nat] /\ lo \in [PageIds -> UpSets] /\ hi \in [PageIds -> UpSets]
      /\ le[p] = 0 /\ lo[p] = Keys /\ hi[p] = {}
  BY <1>1, <1>2, <1>3, UpSetFacts
<1>5. Len(ks[p]) = 1 /\ Len(vs[p]) = 1 /\ ks[p][1] = key /\ vs[p][1] = val
  OBVIOUS
<1>6. Counted({p}, {p}, ks, vs)
  BY <1>5 DEF Counted
<1>7. Up(p, {p}, {p}, pa, vs) /\ Down({p}, {p}, pa, vs)
  BY DEF Up, Down
<1>8. Levelled(p, {p}, {p}, pa, le)
  BY <1>4 DEF Levelled
<1>9. Routed(p, {p}, {p}, ks, vs, lo, hi)
  BY <1>4 DEF Routed
<1>10. Within({p}, ks, lo, hi) /\ Ordered({p}, ks) /\ Chained({p}, nx, lo, hi)
  BY <1>4, <1>5 DEF Within, Ordered, Chained
<1> QED
  BY <1>1, <1>2, <1>3, <1>6, <1>7, <1>8, <1>9, <1>10 DEF Tree
===============================================================================

--------------------------- MODULE BPlusTreeProofs ---------------------------
(***************************************************************************)
(* The B+ tree is correct for every set of keys, rids and pages, every max *)
(* size from 2 (leaves) and 3 (internal pages) and every buffer pool of at *)
(* least four frames.                                                      *)
(*                                                                         *)
(* One lemma per action shows that the invariant of BPlusTreeShapeProofs   *)
(* is kept.  A split and a merge are its Joins; a borrow is a merge        *)
(* followed by a split; a new root is a root put over the old one, which   *)
(* is then split.                                                          *)
(***************************************************************************)
EXTENDS BPlusTreeShapeProofs

-----------------------------------------------------------------------------
(* Pins, pairs, sizes. *)

\* Fetching pages not yet pinned, and unpinning pinned ones.
LEMMA PinnedFacts ==
    ASSUME NEW H, NEW X
    PROVE  /\ H \cap X = {} => Fetch(Pinned(H), X) = Pinned(H \cup X)
           /\ X \subseteq H => Unpin(Pinned(H), X) = Pinned(H \ X)
<1>1. ASSUME H \cap X = {} PROVE Fetch(Pinned(H), X) = Pinned(H \cup X)
  BY <1>1 DEF Fetch, Pinned
<1>2. ASSUME X \subseteq H PROVE Unpin(Pinned(H), X) = Pinned(H \ X)
  BY <1>2 DEF Unpin, Pinned
<1> QED
  BY <1>1, <1>2

\* Together with the pages of H each set of moments makes at most four pages.
AtMostFour(H, moments) ==
    \A set \in moments : \E a, b, c, d : H \cup set \subseteq {a, b, c, d}

\* With at most four pages at a time a pool of four frames is enough.
LEMMA FourFrames ==
    ASSUME NEW H, NEW moments, AtMostFour(H, moments)
    PROVE  ~ \E set \in moments :
                Cardinality({p \in PageIds : Fetch(Pinned(H), set)[p] > 0}) > pool_size
<1> SUFFICES ASSUME NEW set \in moments
             PROVE  ~(Cardinality({p \in PageIds : Fetch(Pinned(H), set)[p] > 0}) > pool_size)
  OBVIOUS
<1>0. PICK a, b, c, d : H \cup set \subseteq {a, b, c, d}
  BY DEF AtMostFour
<1>1. PICK X : X = {p \in PageIds : Fetch(Pinned(H), set)[p] > 0}
  OBVIOUS
<1>2. \A p \in PageIds : Pinned(H)[p] = IF p \in H THEN 1 ELSE 0
  BY DEF Pinned
<1>3. \A p \in PageIds : Fetch(Pinned(H), set)[p] > 0 => p \in H \cup set
  BY <1>2 DEF Fetch
<1>4. X \subseteq {a, b, c, d}
  BY <1>0, <1>1, <1>3
<1>5. PICK A1 : A1 = {a}
  OBVIOUS
<1>6. PICK A2 : A2 = A1 \cup {b}
  OBVIOUS
<1>7. PICK A3 : A3 = A2 \cup {c}
  OBVIOUS
<1>8. PICK A4 : A4 = A3 \cup {d}
  OBVIOUS
<1>9. IsFiniteSet(A1) /\ Cardinality(A1) = 1
  BY <1>5, FS_Singleton
<1>10. IsFiniteSet(A2) /\ Cardinality(A2) \in Nat /\ Cardinality(A2) <= 2
  <2>1. IsFiniteSet(A2) /\ Cardinality(A2) = IF b \in A1 THEN Cardinality(A1) ELSE Cardinality(A1) + 1
    BY <1>6, <1>9, FS_AddElement
  <2> QED
    BY <1>9, <2>1
<1>11. IsFiniteSet(A3) /\ Cardinality(A3) \in Nat /\ Cardinality(A3) <= 3
  <2>1. IsFiniteSet(A3) /\ Cardinality(A3) = IF c \in A2 THEN Cardinality(A2) ELSE Cardinality(A2) + 1
    BY <1>7, <1>10, FS_AddElement
  <2> QED
    BY <1>10, <2>1
<1>12. IsFiniteSet(A4) /\ Cardinality(A4) \in Nat /\ Cardinality(A4) <= 4
  <2>1. IsFiniteSet(A4) /\ Cardinality(A4) = IF d \in A3 THEN Cardinality(A3) ELSE Cardinality(A3) + 1
    BY <1>8, <1>11, FS_AddElement
  <2> QED
    BY <1>11, <2>1
<1>13. X \in SUBSET A4
  BY <1>4, <1>5, <1>6, <1>7, <1>8
<1>14. IsFiniteSet(X) /\ Cardinality(X) <= Cardinality(A4)
  BY <1>12, <1>13, FS_Subset
<1>15. Cardinality(X) \in Nat
  BY <1>14, FS_CardinalityType
<1> QED
  BY <1>1, <1>12, <1>14, <1>15, PoolAssumption

\* The pairs of leaves lv.
LeafPairs(lv, ks, vs) ==
    UNION {{<<ks[p][i], vs[p][i]>> : i \in 1 .. Len(ks[p])} : p \in lv}

\* An entry of a leaf, and what it is to be one.
LEMMA LeafPairsMember ==
    ASSUME NEW lv, NEW ks, NEW vs
    PROVE  /\ \A p \in lv : \A i \in 1 .. Len(ks[p]) :
                 <<ks[p][i], vs[p][i]>> \in LeafPairs(lv, ks, vs)
           /\ \A e \in LeafPairs(lv, ks, vs) : \E p \in lv : \E i \in 1 .. Len(ks[p]) :
                 /\ e = <<ks[p][i], vs[p][i]>> /\ e[1] = ks[p][i] /\ e[2] = vs[p][i]
<1>1. ASSUME NEW p \in lv, NEW i \in 1 .. Len(ks[p])
      PROVE  <<ks[p][i], vs[p][i]>> \in LeafPairs(lv, ks, vs)
  BY DEF LeafPairs
<1>2. ASSUME NEW e \in LeafPairs(lv, ks, vs)
      PROVE  \E p \in lv : \E i \in 1 .. Len(ks[p]) :
                /\ e = <<ks[p][i], vs[p][i]>> /\ e[1] = ks[p][i] /\ e[2] = vs[p][i]
  BY DEF LeafPairs
<1> QED
  BY <1>1, <1>2

\* A split or a merge changes no pair.
LEMMA JoinsKeepPairs ==
    ASSUME NEW ps1, NEW lv1, NEW pa1, NEW nx1, NEW ks1, NEW vs1,
           NEW ps2, NEW lv2, NEW pa2, NEW nx2, NEW ks2, NEW vs2,
           NEW c, NEW q, NEW u, NEW i, NEW m, NEW n, NEW r, NEW w,
           lv1 \subseteq ps1,
           Joins(c, q, u, i, m, n, r, w, ps1, lv1, pa1, nx1, ks1, vs1,
                 ps2, lv2, pa2, nx2, ks2, vs2)
    PROVE  LeafPairs(lv1, ks1, vs1) = LeafPairs(lv2, ks2, vs2)
<1>1. /\ c \in ps1 /\ u \in ps1 /\ u \notin lv1 /\ u # c /\ q \notin ps1
      /\ lv2 = IF c \in lv1 THEN lv1 \cup {q} ELSE lv1
  BY DEF Joins
<1>2. Contents(c, q, u, i, m, n, r, w, ps1, lv1, ks1, vs1, ks2, vs2)
  BY DEF Joins
<1>3. n \in Nat /\ r \in Nat
  BY <1>2 DEF Contents
<1>4. /\ \A j \in 1 .. n : vs2[c][j] = vs1[c][j]
      /\ \A j \in 1 .. r : vs2[q][j] = vs1[c][n + j]
      /\ c \in lv1 => /\ Len(ks1[c]) = n + r /\ Len(ks2[c]) = n /\ Len(ks2[q]) = r
                      /\ \A j \in 1 .. n : ks2[c][j] = ks1[c][j]
                      /\ \A j \in 1 .. r : ks2[q][j] = ks1[c][n + j]
  BY <1>2 DEF Contents
<1>5. \A p \in lv1 : p # c => ks2[p] = ks1[p] /\ vs2[p] = vs1[p]
  BY <1>1, <1>2 DEF Contents
<1>6. ASSUME NEW e \in LeafPairs(lv1, ks1, vs1) PROVE e \in LeafPairs(lv2, ks2, vs2)
  <2>1. PICK p, j : p \in lv1 /\ j \in 1 .. Len(ks1[p]) /\ e = <<ks1[p][j], vs1[p][j]>>
    BY LeafPairsMember
  <2>2. CASE p # c
    <3>1. p \in lv2 /\ j \in 1 .. Len(ks2[p]) /\ e = <<ks2[p][j], vs2[p][j]>>
      BY <1>1, <1>5, <2>1, <2>2
    <3> QED
      BY <3>1, LeafPairsMember
  <2>3. CASE p = c
    <3>0. c \in lv1 /\ c \in lv2 /\ q \in lv2 /\ j \in 1 .. n + r
      BY <1>1, <1>4, <2>1, <2>3
    <3>1. CASE j \in 1 .. n
      <4>1. j \in 1 .. Len(ks2[c]) /\ e = <<ks2[c][j], vs2[c][j]>>
        BY <1>4, <2>1, <2>3, <3>0, <3>1
      <4> QED
        BY <3>0, <4>1, LeafPairsMember
    <3>2. CASE j \notin 1 .. n
      <4>1. PICK k \in 1 .. r : j = n + k
        <5>1. j - n \in 1 .. r /\ j = n + (j - n)
          BY <1>3, <3>0, <3>2
        <5> QED
          BY <5>1
      <4>2. k \in 1 .. Len(ks2[q]) /\ e = <<ks2[q][k], vs2[q][k]>>
        BY <1>4, <2>1, <2>3, <3>0, <4>1
      <4> QED
        BY <3>0, <4>2, LeafPairsMember
    <3> QED
      BY <3>1, <3>2
  <2> QED
    BY <2>2, <2>3
<1>7. ASSUME NEW e \in LeafPairs(lv2, ks2, vs2) PROVE e \in LeafPairs(lv1, ks1, vs1)
  <2>1. PICK p, j : p \in lv2 /\ j \in 1 .. Len(ks2[p]) /\ e = <<ks2[p][j], vs2[p][j]>>
    BY LeafPairsMember
  <2>2. CASE p # c /\ p # q
    <3>1. p \in lv1 /\ j \in 1 .. Len(ks1[p]) /\ e = <<ks1[p][j], vs1[p][j]>>
      BY <1>1, <1>5, <2>1, <2>2
    <3> QED
      BY <3>1, LeafPairsMember
  <2>3. CASE p = c
    <3>0. c \in lv1 /\ j \in 1 .. n
      BY <1>1, <1>4, <2>1, <2>3
    <3>1. j \in 1 .. Len(ks1[c])
      BY <1>3, <1>4, <3>0
    <3>2. e = <<ks1[c][j], vs1[c][j]>>
      BY <1>4, <2>1, <2>3, <3>0
    <3> QED
      BY <3>0, <3>1, <3>2, LeafPairsMember
  <2>4. CASE p = q
    <3>0. c \in lv1 /\ j \in 1 .. r
      BY <1>1, <1>4, <2>1, <2>4
    <3>1. PICK k \in 1 .. n + r : k = n + j
      BY <1>3, <3>0
    <3>2. k \in 1 .. Len(ks1[c]) /\ e = <<ks1[c][k], vs1[c][k]>>
      BY <1>4, <2>1, <2>4, <3>0, <3>1
    <3> QED
      BY <3>0, <3>2, LeafPairsMember
  <2> QED
    BY <2>2, <2>3, <2>4
<1> QED
  BY <1>6, <1>7

\* An entry whose key lies in the range of a leaf is in that leaf.
LEMMA PairInLeaf ==
    ASSUME NEW rt, NEW ps, NEW lv, NEW pa, NEW nx, NEW ks, NEW vs, NEW le, NEW lo, NEW hi,
           Tree(rt, ps, lv, pa, nx, ks, vs, le, lo, hi),
           NEW p \in lv, NEW e \in LeafPairs(lv, ks, vs), InRange(e[1], p, lo, hi)
    PROVE  \E i \in 1 .. Len(ks[p]) : e = <<ks[p][i], vs[p][i]>> /\ e[1] = ks[p][i]
<1>1. PICK q, i : q \in lv /\ i \in 1 .. Len(ks[q]) /\ e = <<ks[q][i], vs[q][i]>> /\ e[1] = ks[q][i]
  BY LeafPairsMember
<1>2. InRange(e[1], q, lo, hi) /\ q \in ps /\ p \in ps
  BY <1>1 DEF Tree, Within, Typed, InRange
<1>3. le[p] = le[q]
  BY <1>1, <1>2 DEF Tree, Levelled
<1>4. p = q
  BY <1>2, <1>3, SameRange
<1> QED
  BY <1>1, <1>4

\* The numbers behind the sizes.
LEMMA SizeFacts ==
    /\ \A p : /\ MaxSize(p) \in Nat /\ MinSize(p) \in Nat
              /\ MaxSize(p) >= 2 /\ MinSize(p) >= 1 /\ 2 * MinSize(p) - 1 <= MaxSize(p)
              /\ MinSize(p) <= MaxSize(p)
              /\ p \notin leaves => MinSize(p) >= 2 /\ MaxSize(p) >= 3 /\ 2 * MinSize(p) >= MaxSize(p)
              /\ p \in leaves => 2 * MinSize(p) + 1 >= MaxSize(p)
<1>1. \A x \in Nat : x >= 2 => /\ x \div 2 \in Nat /\ x \div 2 >= 1 /\ 2 * (x \div 2) - 1 <= x
                               /\ 2 * (x \div 2) + 1 >= x /\ x \div 2 <= x
  OBVIOUS
<1>2. \A x \in Nat : x >= 3 => /\ (x + 1) \div 2 \in Nat /\ (x + 1) \div 2 >= 2
                               /\ 2 * ((x + 1) \div 2) - 1 <= x /\ (x + 1) \div 2 <= x
                               /\ 2 * ((x + 1) \div 2) >= x
  OBVIOUS
<1> QED
  BY <1>1, <1>2, MaxSizeAssumption DEF MaxSize, MinSize

-----------------------------------------------------------------------------
(* Steps that leave the tree alone. *)

\* Unless the index is empty there is a tree.
LEMMA TreeThere ==
    ASSUME Inv, root # INVALID_PAGE_ID \/ loc \notin {"idle", "iterate"}
    PROVE  \E le, lo, hi : IsTree(le, lo, hi) /\ OnTheWay(lo, hi)
<1>1. ~Empty
  BY DEF Empty
<1> QED
  BY <1>1 DEF Inv

\* What is known of the pages of a tree.
LEMMA TreeTypes ==
    ASSUME NEW le, NEW lo, NEW hi, IsTree(le, lo, hi)
    PROVE  /\ root \in pages /\ pages \subseteq PageIds /\ leaves \subseteq pages
           /\ root # INVALID_PAGE_ID /\ INVALID_PAGE_ID \notin PageIds
           /\ parent \in [PageIds -> AnyId] /\ next \in [PageIds -> AnyId]
           /\ keys \in [PageIds -> Seq(Keys)] /\ vals \in [PageIds -> Seq(PageVals)]
           /\ \A p \in PageIds : p \notin pages => parent[p] = INVALID_PAGE_ID
           /\ \A p \in PageIds : p \notin leaves => next[p] = INVALID_PAGE_ID
           /\ \A p \in pages : IsRoot(p) <=> p = root
<1>1. Typed(root, pages, leaves, parent, next, keys, vals)
  BY DEF IsTree, Tree
<1>2. /\ root \in pages /\ pages \subseteq PageIds /\ leaves \subseteq pages
      /\ parent \in [PageIds -> AnyId] /\ next \in [PageIds -> AnyId]
      /\ keys \in [PageIds -> Seq(Keys)] /\ vals \in [PageIds -> Seq(PageVals)]
      /\ \A p \in PageIds : p \notin pages => parent[p] = INVALID_PAGE_ID
      /\ \A p \in PageIds : p \notin leaves => next[p] = INVALID_PAGE_ID
  BY <1>1 DEF Typed
<1>3. INVALID_PAGE_ID \notin PageIds
  BY PageIdsAssumption DEF INVALID_PAGE_ID
<1>4. \A p \in pages : IsRoot(p) <=> p = root
  BY <1>2, <1>3 DEF IsTree, Tree, Up, IsRoot
<1> QED
  BY <1>2, <1>3, <1>4

\* Only the page an operation is about to put right has a wrong size.
LEMMA OthersFit ==
    ASSUME Inv, NEW p \in pages, loc \notin {"overflow", "underflow"} \/ p # cur
    PROVE  Fits(p)
BY DEF Inv, Sizes, SizeOK

\* A page that fits has an entry.
LEMMA FitsNonempty ==
    ASSUME NEW p, Size(p) \in Nat, Fits(p)
    PROVE  Size(p) >= 1 /\ (p \notin leaves => Size(p) >= 2)
BY SizeFacts DEF Fits

\* The pairs, in the terms of the lemmas above.
LEMMA PairsAre == Pairs = LeafPairs(leaves, keys, vals)
BY DEF Pairs, LeafPairs

\* What every step that leaves the tree alone keeps.
LEMMA QuietStep ==
    ASSUME Inv, UNCHANGED tree, \A p \in pages : Fits(p),
           starved' = FALSE,
           loc' \in {"idle", "descend", "first", "iterate"},
           pins' = Pinned(IF loc' \in {"descend", "first"} THEN {cur'} ELSE {}),
           loc' \in {"descend", "first"} => cur' \in pages,
           loc' \in {"idle", "iterate"} => cur' \in pages \cup {INVALID_PAGE_ID}
    PROVE  /\ Course' /\ Sizes' /\ Pairs' = Pairs /\ (Pairs \subseteq Entries)'
           /\ loc' # "iterate" => ScansInOrder'
<1>1. Pairs' = Pairs
  BY DEF Pairs, tree
<1>2. (Pairs \subseteq Entries)'
  BY <1>1 DEF Inv
<1>3. Sizes'
  BY DEF tree, Sizes, SizeOK, Fits, Size, MaxSize, MinSize
<1>4. Held' = IF loc' \in {"descend", "first"} THEN {cur'} ELSE {}
  BY DEF Held
<1>5. Course'
  BY <1>4 DEF Course, tree, Pinned
<1>6. loc' # "iterate" => ScansInOrder'
  BY DEF ScansInOrder
<1> QED
  BY <1>1, <1>2, <1>3, <1>5, <1>6

\* What Course says of the steps that begin, go down or end.
LEMMA CourseFacts ==
    ASSUME Inv
    PROVE  /\ starved = FALSE
           /\ loc \in {"idle", "iterate"} => pins = Pinned({})
           /\ loc \in {"descend", "first", "overflow"} => pins = Pinned({cur}) /\ cur \in pages
           /\ loc = "underflow" => pins = Pinned(IF cur \in leaves THEN {cur, parent[cur]} ELSE {cur})
           /\ due \in UpSets
<1>1. due \in UpSets
  BY DEF Inv, OnTheWay
<1> QED
  BY <1>1 DEF Inv, Course, Held

\* No fetch fails that has at most four pages pinned.
LEMMA FetchingFits ==
    ASSUME starved = FALSE, NEW H, pins = Pinned(H), NEW moments, Fetching(moments),
           AtMostFour(H, moments)
    PROVE  starved' = FALSE
<1>1. ~ \E set \in moments :
           Cardinality({p \in PageIds : Fetch(Pinned(H), set)[p] > 0}) > pool_size
  BY FourFrames
<1> QED
  BY <1>1 DEF Fetching

\* The pins of one page more and one less.
LEMMA PinOne ==
    ASSUME NEW p
    PROVE  /\ Fetch(Pinned({}), {p}) = Pinned({p})
           /\ Unpin(Pinned({p}), {p}) = Pinned({})
           /\ Fetch(Pinned({}), {}) = Pinned({})
           /\ Unpin(Pinned({}), {}) = Pinned({})
<1>1. Fetch(Pinned({}), {p}) = Pinned({} \cup {p}) /\ {} \cup {p} = {p}
  BY PinnedFacts
<1>2. Unpin(Pinned({p}), {p}) = Pinned({p} \ {p}) /\ {p} \ {p} = {}
  BY PinnedFacts
<1>3. Fetch(Pinned({}), {}) = Pinned({} \cup {}) /\ {} \cup {} = {}
  BY PinnedFacts
<1>4. Unpin(Pinned({}), {}) = Pinned({} \ {}) /\ {} \ {} = {}
  BY PinnedFacts
<1> QED
  BY <1>1, <1>2, <1>3, <1>4, Zenon

\* The calls that find the index empty.
LEMMA EmptySteps ==
    ASSUME Inv, RemoveFromEmpty \/ GetValueOfEmpty \/ BeginOfEmpty
    PROVE  Inv' /\ Pairs' = Pairs
<1>1. Empty /\ Pairs = {} /\ pages = {}
  <2>1. Empty
    BY TreeTypes DEF Inv, RemoveFromEmpty, GetValueOfEmpty, BeginOfEmpty
  <2> QED
    BY <2>1 DEF Empty, Pairs
<1>2. UNCHANGED tree /\ starved' = FALSE /\ pins' = Pinned({})
  BY CourseFacts DEF RemoveFromEmpty, GetValueOfEmpty, BeginOfEmpty, pool
<1>3. loc' \in {"idle", "iterate"} /\ cur' \in pages \cup {INVALID_PAGE_ID}
  BY DEF RemoveFromEmpty, GetValueOfEmpty, BeginOfEmpty, Iterating, GoTo, Inv, Course
<1>4. due' \in UpSets
  BY CourseFacts, UpSetFacts DEF RemoveFromEmpty, GetValueOfEmpty, BeginOfEmpty, Iterating, Stay
<1>5. /\ Course' /\ Sizes' /\ Pairs' = Pairs /\ (Pairs \subseteq Entries)'
      /\ loc' # "iterate" => ScansInOrder'
  BY <1>1, <1>2, <1>3, QuietStep
<1>6. ScansInOrder'
  <2>1. loc' = "iterate" => cur' = INVALID_PAGE_ID
    BY <1>1, <1>3
  <2> QED
    BY <1>1, <1>5, <2>1 DEF ScansInOrder
<1>7. Empty'
  <2>1. /\ root' = root /\ pages' = pages /\ leaves' = leaves /\ parent' = parent
        /\ next' = next /\ keys' = keys /\ vals' = vals
    BY <1>2 DEF tree
  <2> QED
    BY <1>1, <1>3, <2>1 DEF Empty
<1> QED
  BY <1>4, <1>5, <1>6, <1>7 DEF Inv

\* The way down begins.
LEMMA BeginningSteps ==
    ASSUME Inv, Begin \/ \E key \in Keys : Find(key)
    PROVE  Inv' /\ Pairs' = Pairs
<1>1. /\ loc = "idle" /\ root # INVALID_PAGE_ID /\ cur' = root /\ UNCHANGED tree
      /\ Fetching({{root}}) /\ pins' = Fetch(pins, {root}) /\ due' = due
      /\ \/ loc' = "first"
         \/ loc' = "descend" /\ sought' \in Keys
  BY DEF Begin, Find, GoTo, Stay
<1>2. PICK le, lo, hi : IsTree(le, lo, hi) /\ OnTheWay(lo, hi)
  BY <1>1, TreeThere
<1>3. starved' = FALSE
  <2>1. AtMostFour({}, {{root}})
    BY DEF AtMostFour
  <2>2. starved = FALSE /\ pins = Pinned({})
    BY <1>1, CourseFacts
  <2> QED
    BY <1>1, <2>1, <2>2, FetchingFits
<1>4. pins' = Pinned({root})
  BY <1>1, CourseFacts, PinOne
<1>5. root \in pages
  BY <1>2, TreeTypes
<1>6. \A p \in pages : Fits(p)
  BY <1>1, OthersFit
<1>7. /\ Course' /\ Sizes' /\ Pairs' = Pairs /\ (Pairs \subseteq Entries)' /\ ScansInOrder'
  BY <1>1, <1>3, <1>4, <1>5, <1>6, QuietStep
<1>8. IsTree(le, lo, hi)'
  BY <1>1, <1>2 DEF IsTree, tree
<1>9. lo[root] = Keys /\ hi[root] = {}
  BY <1>2 DEF IsTree, Tree, Routed
<1>10. OnTheWay(lo, hi)'
  BY <1>1, <1>9, CourseFacts DEF OnTheWay
<1> QED
  BY <1>7, <1>8, <1>10 DEF Inv

\* The child that Lookup goes to is one, and its range has the key.
LEMMA LookupInRange ==
    ASSUME NEW le, NEW lo, NEW hi, IsTree(le, lo, hi),
           NEW p \in pages, p \notin leaves, NEW key, InRange(key, p, lo, hi), Size(p) >= 1
    PROVE  Lookup(p, key) \in pages /\ InRange(key, Lookup(p, key), lo, hi)
<1>1. /\ keys[p] \in Seq(Keys) /\ Len(vals[p]) \in Nat /\ Len(keys[p]) \in Nat
      /\ NonDecreasing(keys[p]) /\ lo[p] \subseteq Keys
      /\ \A j \in 1 .. Len(keys[p]) : keys[p][j] \in Keys /\ keys[p][j] \in Int
  BY PageFacts DEF IsTree
<1>2. Len(keys[p]) = Len(vals[p]) - 1
  BY DEF IsTree, Tree, Counted
<1>3. key \in Keys /\ key \in Int
  BY <1>1, KeysAssumption DEF InRange
<1>4. PICK x : x = LookupIndex(keys[p], key)
  OBVIOUS
<1>5. /\ x \in 0 .. Len(keys[p])
      /\ \A j \in 1 .. Len(keys[p]) : j <= x <=> keys[p][j] <= key
  BY <1>1, <1>3, <1>4, LookupCorrect
<1>6. PICK y \in 1 .. Len(vals[p]) : y = 1 + x
  BY <1>1, <1>2, <1>5
<1>7. /\ y # 1 => y - 1 \in 1 .. Len(keys[p]) /\ keys[p][y - 1] <= key
      /\ y # Len(vals[p]) => y \in 1 .. Len(keys[p]) /\ ~(keys[p][y] <= key)
  BY <1>1, <1>2, <1>5, <1>6
<1>8. PICK d : d = vals[p][y]
  OBVIOUS
<1>9. /\ d \in pages
      /\ lo[d] = IF y = 1 THEN lo[p] ELSE From(keys[p][y - 1])
      /\ hi[d] = IF y = Len(vals[p]) THEN hi[p] ELSE From(keys[p][y])
  BY <1>8 DEF IsTree, Tree, Down, Routed
<1>10. key \in lo[d]
  BY <1>1, <1>3, <1>7, <1>9 DEF InRange, From
<1>11. key \notin hi[d]
  BY <1>1, <1>3, <1>7, <1>9 DEF InRange, From
<1>12. Lookup(p, key) = d
  BY <1>4, <1>6, <1>8 DEF Lookup
<1> QED
  BY <1>9, <1>10, <1>11, <1>12 DEF InRange

\* One page further down.
LEMMA DescendStep ==
    ASSUME Inv, Descend
    PROVE  Inv' /\ Pairs' = Pairs
<1>1. PICK child : /\ child = IF loc = "first" THEN vals[cur][1] ELSE Lookup(cur, sought)
                   /\ loc \in {"descend", "first"} /\ cur \notin leaves
                   /\ loc' = loc /\ cur' = child
                   /\ pins' = Fetch(Unpin(pins, {cur}), {child})
                   /\ UNCHANGED tree /\ starved' = starved
                   /\ sought' = sought /\ due' = due
  BY DEF Descend, GoTo, Stay
<1>2. PICK le, lo, hi : IsTree(le, lo, hi) /\ OnTheWay(lo, hi)
  BY <1>1, TreeThere
<1>3. cur \in pages /\ starved' = FALSE /\ pins' = Pinned({child})
  <2>1. cur \in pages /\ starved = FALSE /\ pins = Pinned({cur})
    BY <1>1, CourseFacts
  <2> QED
    BY <1>1, <2>1, PinOne
<1>4. \A p \in pages : Fits(p)
  BY <1>1, OthersFit
<1>5. Size(cur) >= 1 /\ Size(cur) \in Nat
  <2>1. Size(cur) \in Nat
    BY <1>2, <1>3, PageFacts DEF IsTree, Size
  <2> QED
    BY <1>3, <1>4, <2>1, FitsNonempty
<1>6. child \in pages /\ (loc = "first" => lo[child] = Keys)
      /\ (loc = "descend" => InRange(sought, child, lo, hi))
  <2>1. CASE loc = "first"
    <3>1. 1 \in 1 .. Len(vals[cur]) /\ lo[cur] = Keys
      BY <1>2, <1>5, <2>1 DEF OnTheWay, Size
    <3>2. child \in pages /\ lo[child] = lo[cur]
      BY <1>1, <1>2, <1>3, <2>1, <3>1 DEF IsTree, Tree, Down, Routed
    <3> QED
      BY <2>1, <3>1, <3>2
  <2>2. CASE loc = "descend"
    <3>1. InRange(sought, cur, lo, hi)
      BY <1>2, <2>2 DEF OnTheWay, InRange
    <3> QED
      BY <1>1, <1>2, <1>3, <1>5, <2>2, <3>1, LookupInRange
  <2> QED
    BY <1>1, <2>1, <2>2
<1>7. /\ Course' /\ Sizes' /\ Pairs' = Pairs /\ (Pairs \subseteq Entries)' /\ ScansInOrder'
  BY <1>1, <1>3, <1>4, <1>6, QuietStep
<1>8. IsTree(le, lo, hi)'
  BY <1>1, <1>2 DEF IsTree, tree
<1>9. OnTheWay(lo, hi)'
  BY <1>1, <1>6, CourseFacts DEF OnTheWay, InRange
<1> QED
  BY <1>7, <1>8, <1>9 DEF Inv

\* What Return leaves.
LEMMA ReturnQuiet ==
    ASSUME Inv, UNCHANGED tree, loc = "descend" \/ loc = "iterate",
           Return, starved' = FALSE, pins' = Pinned({})
    PROVE  Inv' /\ Pairs' = Pairs
<1>1. loc' = "idle" /\ cur' = INVALID_PAGE_ID /\ due' = {}
  BY DEF Return, GoTo
<1>2. \A p \in pages : Fits(p)
  BY OthersFit
<1>3. /\ Course' /\ Sizes' /\ Pairs' = Pairs /\ (Pairs \subseteq Entries)' /\ ScansInOrder'
  BY <1>1, <1>2, QuietStep
<1>4. due' \in UpSets
  BY <1>1, UpSetFacts
<1>5. CASE Empty
  <2>1. /\ root' = root /\ pages' = pages /\ leaves' = leaves /\ parent' = parent
        /\ next' = next /\ keys' = keys /\ vals' = vals
    BY DEF tree
  <2>2. Empty'
    BY <1>1, <1>5, <2>1 DEF Empty
  <2> QED
    BY <1>3, <1>4, <2>2 DEF Inv
<1>6. CASE \E le, lo, hi : IsTree(le, lo, hi) /\ OnTheWay(lo, hi)
  <2>1. PICK le, lo, hi : IsTree(le, lo, hi) /\ OnTheWay(lo, hi)
    BY <1>6
  <2>2. IsTree(le, lo, hi)'
    BY <2>1 DEF IsTree, tree
  <2>3. OnTheWay(lo, hi)'
    BY <1>1, <1>4 DEF OnTheWay
  <2> QED
    BY <1>3, <2>2, <2>3 DEF Inv
<1> QED
  BY <1>5, <1>6 DEF Inv

\* The parent of a page of a tree.
LEMMA ParentThere ==
    ASSUME NEW le, NEW lo, NEW hi, IsTree(le, lo, hi), NEW p \in pages, p # root
    PROVE  /\ parent[p] \in pages /\ parent[p] \notin leaves /\ parent[p] # p
           /\ \E i \in 1 .. Len(vals[parent[p]]) : vals[parent[p]][i] = p
<1>1. /\ parent[p] \in pages /\ parent[p] \notin leaves
      /\ \E i \in 1 .. Len(vals[parent[p]]) : vals[parent[p]][i] = p
  BY DEF IsTree, Tree, Up
<1>2. le[parent[p]] = le[p] + 1 /\ le[p] \in Nat
  <2>1. le[p] \in Nat
    BY PageFacts DEF IsTree
  <2> QED
    BY <2>1 DEF IsTree, Tree, Levelled
<1> QED
  BY <1>1, <1>2

\* The operations that end at the leaf without a change, and the end of a scan.
LEMMA ReadSteps ==
    ASSUME Inv, InsertPresent \/ RemoveAbsent \/ GetValue \/ ScanEnds
    PROVE  Inv' /\ Pairs' = Pairs
<1>1. CASE InsertPresent \/ GetValue
  <2>1. loc = "descend" /\ Return /\ UNCHANGED <<tree, starved>> /\ pins' = Unpin(pins, {cur})
    BY <1>1 DEF InsertPresent, GetValue, AtLeaf
  <2>2. starved' = FALSE /\ pins' = Pinned({})
    BY <2>1, CourseFacts, PinOne
  <2> QED
    BY <2>1, <2>2, ReturnQuiet
<1>2. CASE RemoveAbsent
  <2>1. /\ loc = "descend" /\ Return /\ UNCHANGED tree
        /\ Fetching({ParentOf(cur)})
        /\ pins' = Unpin(Fetch(pins, ParentOf(cur)), {cur} \cup ParentOf(cur))
    BY <1>2 DEF RemoveAbsent, AtLeaf
  <2>2. PICK le, lo, hi : IsTree(le, lo, hi) /\ OnTheWay(lo, hi)
    BY <2>1, TreeThere
  <2>3. starved = FALSE /\ pins = Pinned({cur}) /\ cur \in pages
    BY <2>1, CourseFacts
  <2>4. PICK up : ParentOf(cur) \subseteq {up} /\ up # cur
    <3>1. CASE cur = root
      <4>1. IsRoot(cur) /\ cur # INVALID_PAGE_ID
        BY <2>2, <2>3, <3>1, TreeTypes
      <4> QED
        BY <4>1 DEF ParentOf
    <3>2. CASE cur # root
      BY <2>2, <2>3, <3>2, ParentThere DEF ParentOf
    <3> QED
      BY <3>1, <3>2
  <2>5. starved' = FALSE
    <3>1. \A set \in {ParentOf(cur)} : {cur} \cup set \subseteq {cur, up, up, up}
      BY <2>4
    <3>2. AtMostFour({cur}, {ParentOf(cur)})
      BY <3>1 DEF AtMostFour
    <3> QED
      BY <2>1, <2>3, <3>2, FetchingFits
  <2>6. pins' = Pinned({})
    <3>1. PICK X : X = ParentOf(cur)
      OBVIOUS
    <3>2. {cur} \cap X = {} /\ ({cur} \cup X) \ ({cur} \cup X) = {}
      BY <2>4, <3>1
    <3>3. Fetch(Pinned({cur}), X) = Pinned({cur} \cup X)
      BY <3>2, PinnedFacts
    <3>4. Unpin(Pinned({cur} \cup X), {cur} \cup X) = Pinned(({cur} \cup X) \ ({cur} \cup X))
      BY PinnedFacts
    <3> QED
      BY <2>1, <2>3, <3>1, <3>2, <3>3, <3>4
  <2> QED
    BY <2>1, <2>5, <2>6, ReturnQuiet
<1>3. CASE ScanEnds
  <2>1. loc = "iterate" /\ Return /\ UNCHANGED tree /\ starved' = starved /\ pins' = pins
    BY <1>3 DEF ScanEnds, pool
  <2>2. starved' = FALSE /\ pins' = Pinned({})
    BY <2>1, CourseFacts
  <2> QED
    BY <2>1, <2>2, ReturnQuiet
<1> QED
  BY <1>1, <1>2, <1>3

-----------------------------------------------------------------------------
(* Scans. *)

\* An iterator at page p and index i stands at the least pair with a key in D.
StandsAt(D, p, i) ==
    IF p = INVALID_PAGE_ID THEN \A e \in Pairs : e[1] \notin D
    ELSE /\ p \in leaves /\ i \in 0 .. Size(p) - 1 /\ i + 1 \in 1 .. Len(keys[p])
         /\ keys[p][i + 1] \in D
         /\ \A e \in Pairs : e[1] \in D => keys[p][i + 1] <= e[1]

\* The first key of D in the leaf where D's keys begin.
LEMMA FirstOf ==
    ASSUME NEW le, NEW lo, NEW hi, IsTree(le, lo, hi),
           NEW p \in leaves, NEW i \in 0 .. Size(p) - 1, NEW D \in SUBSET lo[p],
           keys[p][i + 1] \in D, \A j \in 1 .. Len(keys[p]) : j <= i => keys[p][j] \notin D
    PROVE  StandsAt(D, p, i)
<1>1. /\ p \in pages /\ p # INVALID_PAGE_ID
      /\ Len(keys[p]) \in Nat /\ Size(p) = Len(keys[p])
      /\ \A j \in 1 .. Len(keys[p]) : keys[p][j] \in Keys /\ keys[p][j] \in Int
      /\ hi[p] \in UpSets /\ lo[p] \subseteq Keys
  <2>1. p \in pages /\ p # INVALID_PAGE_ID
    BY TreeTypes
  <2>2. Size(p) = Len(keys[p])
    BY DEF IsTree, Tree, Counted, Size
  <2> QED
    BY <2>1, <2>2, PageFacts DEF IsTree
<1>2. PICK k \in 1 .. Len(keys[p]) : k = i + 1
  BY <1>1
<1>3. ASSUME NEW e \in Pairs, e[1] \in D
      PROVE  keys[p][k] <= e[1]
  <2>1. e[1] \in lo[p] /\ e[1] \in Keys /\ e[1] \in Int
    BY <1>1, <1>3, KeysAssumption
  <2>2. CASE e[1] \notin hi[p]
    <3>1. PICK j \in 1 .. Len(keys[p]) : e[1] = keys[p][j]
      <4>1. e \in LeafPairs(leaves, keys, vals)
        BY PairsAre
      <4> QED
        BY <2>1, <2>2, <4>1, PairInLeaf DEF InRange, IsTree
    <3>2. ~(j <= i)
      BY <1>3, <3>1
    <3>3. j \in Nat /\ k \in Nat /\ k <= j
      BY <1>1, <1>2, <3>1, <3>2
    <3>4. \A x, y \in 1 .. Len(keys[p]) : x < y => keys[p][x] < keys[p][y]
      BY <1>1 DEF IsTree, Tree, Ordered
    <3>5. keys[p][k] \in Int /\ keys[p][j] \in Int
      BY <1>1, <1>2, <3>1
    <3>6. k = j \/ keys[p][k] < keys[p][j]
      BY <1>2, <3>1, <3>3, <3>4
    <3> QED
      BY <3>1, <3>5, <3>6
  <2>3. CASE e[1] \in hi[p]
    <3>1. keys[p][k] \notin hi[p] /\ keys[p][k] \in Keys /\ keys[p][k] \in Int
      BY <1>1, <1>2 DEF IsTree, Tree, Within
    <3>2. ~(keys[p][k] >= e[1])
      BY <1>1, <2>3, <3>1, UpSetFacts
    <3> QED
      BY <2>1, <3>1, <3>2
  <2> QED
    BY <2>2, <2>3
<1> QED
  BY <1>1, <1>2, <1>3 DEF StandsAt

\* All keys of D come after a leaf: the next leaf's first key is their least.
LEMMA NextOf ==
    ASSUME Inv, NEW le, NEW lo, NEW hi, IsTree(le, lo, hi), \A p \in pages : Fits(p),
           NEW p \in leaves, NEW D \in SUBSET lo[p], hi[p] \subseteq D,
           \A j \in 1 .. Len(keys[p]) : keys[p][j] \notin D
    PROVE  StandsAt(D, next[p], 0)
<1>1. p \in pages
  BY TreeTypes
<1>2. \A e \in Pairs : e[1] \in D => e[1] \in hi[p]
  <2> SUFFICES ASSUME NEW e \in Pairs, e[1] \in D, e[1] \notin hi[p] PROVE FALSE
    OBVIOUS
  <2>1. e \in LeafPairs(leaves, keys, vals)
    BY PairsAre
  <2>2. PICK j \in 1 .. Len(keys[p]) : e[1] = keys[p][j]
    BY <2>1, PairInLeaf DEF InRange, IsTree
  <2> QED
    BY <2>2
<1>3. CASE next[p] = INVALID_PAGE_ID
  <2>1. hi[p] = {}
    BY <1>3 DEF IsTree, Tree, Chained
  <2> QED
    BY <1>2, <1>3, <2>1 DEF StandsAt
<1>4. CASE next[p] # INVALID_PAGE_ID
  <2>1. PICK q \in leaves : q = next[p] /\ lo[q] = hi[p]
    BY <1>4 DEF IsTree, Tree, Chained
  <2>2. q \in pages /\ Len(keys[q]) \in Nat /\ Size(q) = Len(keys[q])
    <3>1. q \in pages
      BY TreeTypes
    <3>2. Size(q) = Len(keys[q])
      BY DEF IsTree, Tree, Counted, Size
    <3> QED
      BY <3>1, <3>2, PageFacts DEF IsTree
  <2>3. Size(q) >= 1
    BY <2>2, FitsNonempty
  <2>4. 0 \in 0 .. Size(q) - 1 /\ 0 + 1 \in 1 .. Len(keys[q]) /\ 0 + 1 = 1
    BY <2>2, <2>3
  <2>5. keys[q][0 + 1] \in lo[q]
    BY <2>2, <2>4 DEF IsTree, Tree, Within
  <2>6. \A j \in 1 .. Len(keys[q]) : j <= 0 => keys[q][j] \notin lo[q]
    BY <2>2
  <2>7. StandsAt(lo[q], q, 0)
    BY <2>4, <2>5, <2>6, FirstOf
  <2>8. q # INVALID_PAGE_ID
    BY <1>4, <2>1
  <2>9. StandsAt(D, q, 0)
    BY <1>2, <2>1, <2>7, <2>8 DEF StandsAt
  <2> QED
    BY <2>1, <2>9
<1> QED
  BY <1>3, <1>4

\* An iterator that is made or moved.
LEMMA IterateStep ==
    ASSUME Inv, UNCHANGED tree, NEW le, NEW lo, NEW hi, IsTree(le, lo, hi),
           \A p \in pages : Fits(p), starved' = FALSE, pins' = Pinned({}),
           loc' = "iterate", due' \in UpSets, StandsAt(due', cur', index')
    PROVE  Inv' /\ Pairs' = Pairs
<1>1. cur' \in pages \cup {INVALID_PAGE_ID}
  BY TreeTypes DEF StandsAt
<1>2. /\ Course' /\ Sizes' /\ Pairs' = Pairs /\ (Pairs \subseteq Entries)'
  BY <1>1, QuietStep
<1>3. keys' = keys /\ vals' = vals /\ leaves' = leaves
  BY DEF tree
<1>4. IsTree(le, lo, hi)'
  BY DEF IsTree, tree
<1>5. OnTheWay(lo, hi)'
  BY <1>3 DEF OnTheWay, StandsAt, Size
<1>6. ScansInOrder'
  <2>1. CASE cur' = INVALID_PAGE_ID
    BY <1>2, <2>1 DEF ScansInOrder, StandsAt
  <2>2. CASE cur' # INVALID_PAGE_ID
    <3>1. PICK x : x = index' + 1
      OBVIOUS
    <3>2. /\ cur' \in leaves /\ x \in 1 .. Len(keys[cur']) /\ keys[cur'][x] \in due'
          /\ \A e \in Pairs : e[1] \in due' => keys[cur'][x] <= e[1]
      BY <2>2, <3>1 DEF StandsAt
    <3>3. PICK here : here = <<keys[cur'][x], vals[cur'][x]>>
      OBVIOUS
    <3>4. here \in Pairs /\ here[1] = keys[cur'][x]
      BY <3>2, <3>3, PairsAre, LeafPairsMember
    <3> QED
      BY <1>2, <1>3, <2>2, <3>1, <3>2, <3>3, <3>4 DEF ScansInOrder
  <2> QED
    BY <2>1, <2>2
<1> QED
  BY <1>2, <1>4, <1>5, <1>6 DEF Inv

\* Where a leaf's search ends.
LEMMA LeafSearch ==
    ASSUME NEW le, NEW lo, NEW hi, IsTree(le, lo, hi), NEW p \in leaves,
           NEW key, InRange(key, p, lo, hi)
    PROVE  /\ key \in Keys /\ key \in Int /\ p \in pages
           /\ Len(keys[p]) \in Nat /\ Size(p) = Len(keys[p])
           /\ \A j \in 1 .. Len(keys[p]) : keys[p][j] \in Keys /\ keys[p][j] \in Int
           /\ KeyIndex(keys[p], key) \in 0 .. Len(keys[p])
           /\ \A j \in 1 .. Len(keys[p]) : j <= KeyIndex(keys[p], key) <=> keys[p][j] < key
<1>1. p \in pages /\ Size(p) = Len(keys[p])
  <2>1. p \in pages
    BY TreeTypes
  <2> QED
    BY <2>1 DEF IsTree, Tree, Counted, Size
<1>2. /\ Len(keys[p]) \in Nat /\ keys[p] \in Seq(Keys) /\ NonDecreasing(keys[p])
      /\ \A j \in 1 .. Len(keys[p]) : keys[p][j] \in Keys /\ keys[p][j] \in Int
      /\ lo[p] \subseteq Keys
  BY <1>1, PageFacts DEF IsTree
<1>3. key \in Keys /\ key \in Int
  BY <1>2, KeysAssumption DEF InRange
<1> QED
  BY <1>1, <1>2, <1>3, KeyIndexCorrect

\* Begin(key) stands at the least pair from key on, also if that is the first
\* pair of the next leaf.
LEMMA BeginAtStep ==
    ASSUME Inv, BeginAt
    PROVE  Inv' /\ Pairs' = Pairs
<1>1. PICK i : i = KeyIndex(keys[cur], sought)
  OBVIOUS
<1>2. /\ loc = "descend" /\ cur \in leaves /\ loc' = "iterate"
      /\ cur' = (IF i >= Size(cur) THEN next[cur] ELSE cur)
      /\ index' = (IF i >= Size(cur) THEN 0 ELSE i)
      /\ due' = From(sought)
      /\ pins' = Unpin(pins, {cur}) /\ UNCHANGED tree /\ starved' = starved
  BY <1>1 DEF BeginAt, AtLeaf, Iterating, GoTo, From
<1>3. PICK le, lo, hi : IsTree(le, lo, hi) /\ OnTheWay(lo, hi)
  BY <1>2, TreeThere
<1>4. InRange(sought, cur, lo, hi)
  BY <1>2, <1>3 DEF OnTheWay, InRange
<1>5. /\ sought \in Keys /\ sought \in Int /\ cur \in pages
      /\ Len(keys[cur]) \in Nat /\ Size(cur) = Len(keys[cur])
      /\ \A j \in 1 .. Len(keys[cur]) : keys[cur][j] \in Keys /\ keys[cur][j] \in Int
      /\ i \in 0 .. Len(keys[cur])
      /\ \A j \in 1 .. Len(keys[cur]) : j <= i <=> keys[cur][j] < sought
  BY <1>1, <1>2, <1>3, <1>4, LeafSearch
<1>6. \A p \in pages : Fits(p)
  BY <1>2, OthersFit
<1>7. starved' = FALSE /\ pins' = Pinned({})
  BY <1>2, CourseFacts, PinOne
<1>8. lo[cur] \in UpSets /\ hi[cur] \in UpSets
  BY <1>3, <1>5, PageFacts DEF IsTree
<1>9. From(sought) \in SUBSET lo[cur] /\ hi[cur] \subseteq From(sought)
  <2>1. From(sought) \subseteq lo[cur]
    BY <1>4, <1>8, UpSetFacts DEF From, InRange
  <2>2. ASSUME NEW x \in hi[cur] PROVE x \in From(sought)
    <3>1. x \in Keys /\ x \in Int
      BY <1>8, UpSetFacts, KeysAssumption
    <3>2. ~(sought >= x)
      BY <1>4, <1>5, <1>8, UpSetFacts DEF InRange
    <3> QED
      BY <1>5, <3>1, <3>2 DEF From
  <2> QED
    BY <2>1, <2>2
<1>10. StandsAt(due', cur', index')
  <2>1. CASE i >= Size(cur)
    <3>1. \A j \in 1 .. Len(keys[cur]) : keys[cur][j] \notin From(sought)
      BY <1>5, <2>1 DEF From
    <3>2. StandsAt(From(sought), next[cur], 0)
      BY <1>2, <1>3, <1>6, <1>9, <3>1, NextOf
    <3> QED
      BY <1>2, <2>1, <3>2
  <2>2. CASE ~(i >= Size(cur))
    <3>1. i \in 0 .. Size(cur) - 1
      BY <1>5, <2>2
    <3>2. keys[cur][i + 1] \in From(sought)
      <4>1. PICK k \in 1 .. Len(keys[cur]) : k = i + 1
        BY <1>5, <3>1
      <4>2. ~(k <= i)
        BY <1>5, <4>1
      <4> QED
        BY <1>5, <4>1, <4>2 DEF From
    <3>3. \A j \in 1 .. Len(keys[cur]) : j <= i => keys[cur][j] \notin From(sought)
      BY <1>5 DEF From
    <3>4. StandsAt(From(sought), cur, i)
      BY <1>2, <1>3, <1>9, <3>1, <3>2, <3>3, FirstOf
    <3> QED
      BY <1>2, <2>2, <3>4
  <2> QED
    BY <2>1, <2>2
<1>11. due' \in UpSets
  BY <1>2, <1>5, UpSetFacts
<1> QED
  BY <1>2, <1>3, <1>6, <1>7, <1>10, <1>11, IterateStep

\* Begin() stands at the first pair of the leftmost leaf.
LEMMA BeginFirstStep ==
    ASSUME Inv, BeginFirst
    PROVE  Inv' /\ Pairs' = Pairs
<1>1. /\ loc = "first" /\ cur \in leaves /\ loc' = "iterate" /\ cur' = cur /\ index' = 0
      /\ due' = Keys
      /\ pins' = Unpin(pins, {cur}) /\ UNCHANGED tree /\ starved' = starved
  BY DEF BeginFirst, Iterating, GoTo
<1>2. PICK le, lo, hi : IsTree(le, lo, hi) /\ OnTheWay(lo, hi)
  BY <1>1, TreeThere
<1>3. lo[cur] = Keys
  BY <1>1, <1>2 DEF OnTheWay
<1>4. /\ cur \in pages /\ Len(keys[cur]) \in Nat /\ Size(cur) = Len(keys[cur])
      /\ \A j \in 1 .. Len(keys[cur]) : keys[cur][j] \in Keys
  <2>1. cur \in pages
    BY <1>1, <1>2, TreeTypes
  <2>2. Size(cur) = Len(keys[cur])
    BY <1>1, <1>2 DEF IsTree, Tree, Counted, Size
  <2> QED
    BY <1>2, <2>1, <2>2, PageFacts DEF IsTree
<1>5. \A p \in pages : Fits(p)
  BY <1>1, OthersFit
<1>6. starved' = FALSE /\ pins' = Pinned({})
  BY <1>1, CourseFacts, PinOne
<1>7. Size(cur) >= 1
  BY <1>4, <1>5, FitsNonempty
<1>8. 0 \in 0 .. Size(cur) - 1 /\ 0 + 1 \in 1 .. Len(keys[cur])
  BY <1>4, <1>7
<1>9. keys[cur][0 + 1] \in Keys
  BY <1>4, <1>8
<1>10. \A j \in 1 .. Len(keys[cur]) : j <= 0 => keys[cur][j] \notin Keys
  BY <1>4
<1>11. StandsAt(Keys, cur, 0)
  BY <1>1, <1>2, <1>3, <1>8, <1>9, <1>10, FirstOf
<1>12. due' \in UpSets
  BY <1>1, UpSetFacts
<1>13. StandsAt(due', cur', index')
  BY <1>1, <1>11
<1> QED
  BY <1>1, <1>2, <1>5, <1>6, <1>12, <1>13, IterateStep

\* operator++ moves to the pair after the one it stood at.
LEMMA AdvanceStep ==
    ASSUME Inv, Advance
    PROVE  Inv' /\ Pairs' = Pairs
<1>1. PICK key : key = keys[cur][index + 1]
  OBVIOUS
<1>2. PICK D : D = {k \in due : k > key}
  OBVIOUS
<1>3. /\ loc = "iterate" /\ cur # INVALID_PAGE_ID /\ loc' = "iterate"
      /\ cur' = (IF index + 1 >= Size(cur) THEN next[cur] ELSE cur)
      /\ index' = (IF index + 1 >= Size(cur) THEN 0 ELSE index + 1)
      /\ due' = D
      /\ Fetching({{cur}}) /\ pins' = pins /\ UNCHANGED tree
  BY <1>1, <1>2 DEF Advance, Iterating, GoTo
<1>4. PICK le, lo, hi : IsTree(le, lo, hi) /\ OnTheWay(lo, hi)
  <2>1. ~Empty
    BY <1>3 DEF Empty, Inv, Course
  <2> QED
    BY <2>1 DEF Inv
<1>5. cur \in leaves /\ index \in 0 .. Size(cur) - 1 /\ due \in UpSets
  BY <1>3, <1>4 DEF OnTheWay
<1>6. /\ cur \in pages /\ Len(keys[cur]) \in Nat /\ Size(cur) = Len(keys[cur])
      /\ \A j \in 1 .. Len(keys[cur]) : keys[cur][j] \in Keys /\ keys[cur][j] \in Int
      /\ lo[cur] \in UpSets /\ hi[cur] \in UpSets
  <2>1. cur \in pages
    BY <1>4, <1>5, TreeTypes
  <2>2. Size(cur) = Len(keys[cur])
    BY <1>4, <1>5 DEF IsTree, Tree, Counted, Size
  <2> QED
    BY <1>4, <2>1, <2>2, PageFacts DEF IsTree
<1>7. PICK x \in 1 .. Len(keys[cur]) : x = index + 1
  BY <1>5, <1>6
<1>8. key = keys[cur][x] /\ key \in Keys /\ key \in Int /\ key \in lo[cur] /\ key \notin hi[cur]
  BY <1>1, <1>4, <1>6, <1>7 DEF IsTree, Tree, Within
<1>9. key \in due
  <2>1. <<keys[cur][index + 1], vals[cur][index + 1]>> \in {e \in Pairs : e[1] \in due}
    BY <1>3 DEF Inv, ScansInOrder
  <2> QED
    BY <1>1, <2>1
<1>10. due \subseteq Keys /\ \A y \in due : y \in Int
  BY <1>5, UpSetFacts, KeysAssumption
<1>11. D \in UpSets
  <2>1. D \subseteq Keys
    BY <1>2, <1>10
  <2>2. ASSUME NEW y \in D, NEW z \in Keys, z >= y PROVE z \in D
    <3>1. y \in due /\ y > key /\ y \in Int /\ z \in Int
      BY <1>2, <1>10, KeysAssumption
    <3>2. z \in due
      BY <1>5, <2>2, <3>1, UpSetFacts
    <3> QED
      BY <1>2, <1>8, <2>2, <3>1, <3>2
  <2> QED
    BY <2>1, <2>2 DEF UpSets
<1>12. D \in SUBSET lo[cur]
  <2>1. ASSUME NEW y \in D PROVE y \in lo[cur]
    <3>1. y \in Keys /\ y \in Int /\ y > key
      BY <1>2, <1>10
    <3>2. y >= key
      BY <1>8, <3>1
    <3> QED
      BY <1>6, <1>8, <3>1, <3>2, UpSetFacts
  <2> QED
    BY <2>1
<1>13. hi[cur] \subseteq D
  <2>1. ASSUME NEW y \in hi[cur] PROVE y \in D
    <3>1. y \in Keys /\ y \in Int
      BY <1>6, UpSetFacts, KeysAssumption
    <3>2. ~(key >= y)
      BY <1>6, <1>8, UpSetFacts
    <3>3. y > key /\ y >= key
      BY <1>8, <3>1, <3>2
    <3>4. y \in due
      BY <1>5, <1>9, <3>1, <3>3, UpSetFacts
    <3> QED
      BY <1>2, <3>3, <3>4
  <2> QED
    BY <2>1
<1>14. \A j, k \in 1 .. Len(keys[cur]) : j < k => keys[cur][j] < keys[cur][k]
  BY <1>4, <1>6 DEF IsTree, Tree, Ordered
<1>15. \A j \in 1 .. Len(keys[cur]) : j <= x => keys[cur][j] \notin D
  <2> SUFFICES ASSUME NEW j \in 1 .. Len(keys[cur]), j <= x, keys[cur][j] \in D PROVE FALSE
    OBVIOUS
  <2>1. keys[cur][j] > key /\ keys[cur][j] \in Int
    BY <1>2, <1>6
  <2>2. j = x \/ keys[cur][j] < keys[cur][x]
    <3>1. j \in Nat /\ x \in Nat
      BY <1>6
    <3>2. j = x \/ j < x
      BY <3>1
    <3> QED
      BY <1>14, <3>2
  <2> QED
    BY <1>8, <2>1, <2>2
<1>16. \A p \in pages : Fits(p)
  BY <1>3, OthersFit
<1>17. starved' = FALSE /\ pins' = Pinned({})
  <2>1. starved = FALSE /\ pins = Pinned({})
    BY <1>3, CourseFacts
  <2>2. AtMostFour({}, {{cur}})
    BY DEF AtMostFour
  <2> QED
    BY <1>3, <2>1, <2>2, FetchingFits
<1>18. StandsAt(D, cur', index')
  <2>1. CASE index + 1 >= Size(cur)
    <3>1. \A j \in 1 .. Len(keys[cur]) : j <= x
      BY <1>6, <1>7, <2>1
    <3>2. \A j \in 1 .. Len(keys[cur]) : keys[cur][j] \notin D
      BY <1>15, <3>1
    <3>3. StandsAt(D, next[cur], 0)
      BY <1>4, <1>5, <1>12, <1>13, <1>16, <3>2, NextOf
    <3> QED
      BY <1>3, <2>1, <3>3
  <2>2. CASE ~(index + 1 >= Size(cur))
    <3>1. x \in 0 .. Size(cur) - 1
      BY <1>5, <1>6, <1>7, <2>2
    <3>2. keys[cur][x + 1] \in D
      <4>1. PICK k \in 1 .. Len(keys[cur]) : k = x + 1
        BY <1>6, <3>1
      <4>2. x < k
        BY <1>6, <4>1
      <4>3. keys[cur][k] > key /\ keys[cur][k] >= key /\ keys[cur][k] \in Keys
        BY <1>6, <1>8, <1>14, <4>2
      <4>4. keys[cur][k] \in due
        BY <1>5, <1>9, <4>3, UpSetFacts
      <4> QED
        BY <1>2, <4>1, <4>3, <4>4
    <3>3. StandsAt(D, cur, x)
      BY <1>4, <1>5, <1>12, <1>15, <3>1, <3>2, FirstOf
    <3> QED
      BY <1>3, <1>7, <2>2, <3>3
  <2> QED
    BY <2>1, <2>2
<1> QED
  BY <1>3, <1>4, <1>11, <1>16, <1>17, <1>18, IterateStep

-----------------------------------------------------------------------------
(* Changes within a leaf. *)

\* What a step that changes the tree has to show.
LEMMA ChangeKeepsInv ==
    ASSUME NEW le, NEW lo, NEW hi, IsTree(le, lo, hi)',
           loc' \in {"idle", "overflow", "underflow"}, due' \in UpSets,
           (Pairs \subseteq Entries)', Course', Sizes'
    PROVE  Inv'
<1>1. OnTheWay(lo, hi)'
  BY DEF OnTheWay
<1>2. ScansInOrder'
  BY DEF ScansInOrder
<1> QED
  BY <1>1, <1>2 DEF Inv

\* A page of the same size still fits.
LEMMA FitsSame ==
    ASSUME NEW p, Fits(p), Len(vals'[p]) = Len(vals[p]),
           p \in leaves' <=> p \in leaves, p = root' <=> p = root
    PROVE  Fits(p)'
BY DEF Fits, Size, MaxSize, MinSize

\* Leaf p has the entry i more in ks2 and vs2 than in ks1 and vs1.
EntryMore(p, i, k, v, lv, ks1, vs1, ks2, vs2) ==
    /\ p \in lv /\ Len(ks1[p]) \in Nat /\ Len(vs1[p]) = Len(ks1[p])
    /\ i \in 1 .. Len(ks1[p]) + 1
    /\ Inserted(ks2[p], ks1[p], i, k) /\ Inserted(vs2[p], vs1[p], i, v)
    /\ \A q \in lv : q # p => ks2[q] = ks1[q] /\ vs2[q] = vs1[q]

\* An entry more in a leaf is a pair more.
LEMMA InsertedPairs ==
    ASSUME NEW lv, NEW ks1, NEW vs1, NEW ks2, NEW vs2, NEW p, NEW i, NEW k, NEW v,
           EntryMore(p, i, k, v, lv, ks1, vs1, ks2, vs2)
    PROVE  LeafPairs(lv, ks2, vs2) = LeafPairs(lv, ks1, vs1) \cup {<<k, v>>}
<1> USE DEF EntryMore
<1>1. PICK N \in Nat : N = Len(ks1[p])
  OBVIOUS
<1>2. /\ Len(ks2[p]) = N + 1
      /\ \A j \in 1 .. N + 1 : ks2[p][j] = IF j < i THEN ks1[p][j] ELSE IF j = i THEN k ELSE ks1[p][j - 1]
      /\ \A j \in 1 .. N + 1 : vs2[p][j] = IF j < i THEN vs1[p][j] ELSE IF j = i THEN v ELSE vs1[p][j - 1]
  BY <1>1 DEF Inserted
<1>3. ASSUME NEW e \in LeafPairs(lv, ks2, vs2)
      PROVE  e \in LeafPairs(lv, ks1, vs1) \cup {<<k, v>>}
  <2>1. PICK q, j : q \in lv /\ j \in 1 .. Len(ks2[q]) /\ e = <<ks2[q][j], vs2[q][j]>>
    BY LeafPairsMember, SMTT(30)
  <2>2. CASE q # p
    <3>1. j \in 1 .. Len(ks1[q]) /\ e = <<ks1[q][j], vs1[q][j]>>
      BY <2>1, <2>2
    <3> QED
      BY <2>1, <3>1, LeafPairsMember
  <2>3. CASE q = p
    <3>0. j \in 1 .. N + 1
      BY <1>2, <2>1, <2>3
    <3>1. CASE j < i
      <4>1. j \in 1 .. Len(ks1[p]) /\ e = <<ks1[p][j], vs1[p][j]>>
        BY <1>1, <1>2, <2>1, <2>3, <3>0, <3>1
      <4> QED
        BY <4>1, LeafPairsMember
    <3>2. CASE j = i
      BY <1>1, <1>2, <2>1, <2>3, <3>0, <3>2
    <3>3. CASE j > i
      <4>0. PICK x \in 1 .. N : x = j - 1
        BY <1>1, <3>0, <3>3
      <4>1. x \in 1 .. Len(ks1[p]) /\ e = <<ks1[p][x], vs1[p][x]>>
        BY <1>1, <1>2, <2>1, <2>3, <3>0, <3>3, <4>0
      <4> QED
        BY <4>1, LeafPairsMember
    <3> QED
      BY <1>1, <3>0, <3>1, <3>2, <3>3
  <2> QED
    BY <2>2, <2>3
<1>4. <<k, v>> \in LeafPairs(lv, ks2, vs2)
  <2>1. i \in 1 .. Len(ks2[p]) /\ <<k, v>> = <<ks2[p][i], vs2[p][i]>>
    BY <1>1, <1>2
  <2> QED
    BY <2>1, LeafPairsMember
<1>5. ASSUME NEW e \in LeafPairs(lv, ks1, vs1)
      PROVE  e \in LeafPairs(lv, ks2, vs2)
  <2>1. PICK q, j : q \in lv /\ j \in 1 .. Len(ks1[q]) /\ e = <<ks1[q][j], vs1[q][j]>>
    BY LeafPairsMember, SMTT(30)
  <2>2. CASE q # p
    <3>1. j \in 1 .. Len(ks2[q]) /\ e = <<ks2[q][j], vs2[q][j]>>
      BY <2>1, <2>2
    <3> QED
      BY <2>1, <3>1, LeafPairsMember
  <2>3. CASE q = p
    <3>0. j \in 1 .. N
      BY <1>1, <2>1, <2>3
    <3>1. CASE j < i
      <4>1. j \in 1 .. Len(ks2[p]) /\ e = <<ks2[p][j], vs2[p][j]>>
        BY <1>1, <1>2, <2>1, <2>3, <3>0, <3>1
      <4> QED
        BY <4>1, LeafPairsMember
    <3>2. CASE ~(j < i)
      <4>0. PICK x \in 1 .. N + 1 : x = j + 1 /\ ~(x < i) /\ x # i /\ x - 1 = j
        BY <1>1, <3>0, <3>2
      <4>1. x \in 1 .. Len(ks2[p]) /\ e = <<ks2[p][x], vs2[p][x]>>
        BY <1>1, <1>2, <2>1, <2>3, <3>0, <4>0
      <4> QED
        BY <4>1, LeafPairsMember
    <3> QED
      BY <3>1, <3>2
  <2> QED
    BY <2>2, <2>3
<1> QED
  BY <1>3, <1>4, <1>5

\* The first entry makes a tree of one leaf.
LEMMA InsertFirstStep ==
    ASSUME Inv, NEW key, NEW val, <<key, val>> \in Entries, InsertFirst(key, val)
    PROVE  Inv' /\ Pairs = {} /\ Pairs' = {<<key, val>>}
<1>1. PICK p \in PageIds :
         /\ root' = p /\ pages' = pages \cup {p} /\ leaves' = leaves \cup {p}
         /\ keys' = [keys EXCEPT ![p] = <<key>>] /\ vals' = [vals EXCEPT ![p] = <<val>>]
         /\ Fetching({{p}}) /\ pins' = Unpin(Fetch(pins, {p}), {p})
  BY DEF InsertFirst
<1>2. /\ loc = "idle" /\ root = INVALID_PAGE_ID /\ parent' = parent /\ next' = next
      /\ loc' = loc /\ cur' = cur /\ due' = due
  BY DEF InsertFirst, Stay
<1>3. Empty
  <2>1. ASSUME NEW le, NEW lo, NEW hi, IsTree(le, lo, hi) PROVE FALSE
    BY <1>2, <2>1, TreeTypes
  <2> QED
    BY <2>1 DEF Inv
<1>4. key \in Keys /\ val \in Rids
  BY EntriesAssumption DEF Rids
<1>5. pages' = {p} /\ leaves' = {p}
  BY <1>1, <1>3 DEF Empty
<1>6. /\ parent' \in [PageIds -> AnyId] /\ next' \in [PageIds -> AnyId]
      /\ \A q \in PageIds : parent'[q] = INVALID_PAGE_ID /\ next'[q] = INVALID_PAGE_ID
  BY <1>2, <1>3 DEF Empty, AnyId
<1>7. /\ keys' \in [PageIds -> Seq(Keys)] /\ vals' \in [PageIds -> Seq(PageVals)]
      /\ keys'[p] = <<key>> /\ vals'[p] = <<val>>
  <2>1. <<key>> \in Seq(Keys) /\ <<val>> \in Seq(PageVals)
    BY <1>4 DEF PageVals
  <2>2. keys \in [PageIds -> Seq(Keys)] /\ vals \in [PageIds -> Seq(PageVals)]
    BY <1>3 DEF Empty
  <2> QED
    BY <1>1, <2>1, <2>2
<1>8. Typed(p, {p}, {p}, parent', next', keys', vals')
  BY <1>6, <1>7 DEF Typed
<1>9. Tree(p, {p}, {p}, parent', next', keys', vals',
           [x \in PageIds |-> 0], [x \in PageIds |-> Keys], [x \in PageIds |-> {}])
  BY <1>4, <1>6, <1>7, <1>8, LeafIsTree
<1>10. IsTree([x \in PageIds |-> 0], [x \in PageIds |-> Keys], [x \in PageIds |-> {}])'
  BY <1>1, <1>5, <1>9 DEF IsTree
<1>11. Pairs = {}
  BY <1>3 DEF Pairs, Empty
<1>12. /\ Len(keys'[p]) = 1 /\ keys'[p][1] = key
       /\ Len(vals'[p]) = 1 /\ vals'[p][1] = val
  <2>1. PICK s : s = <<key>>
    OBVIOUS
  <2>2. PICK t : t = <<val>>
    OBVIOUS
  <2>3. Len(s) = 1 /\ s[1] = key /\ Len(t) = 1 /\ t[1] = val
    BY <2>1, <2>2
  <2> QED
    BY <1>7, <2>1, <2>2, <2>3, Zenon
<1>13. Pairs' = {<<key, val>>}
  <2>0. Len(keys'[p]) = 1 /\ keys'[p][1] = key /\ vals'[p][1] = val
    BY <1>12, Zenon
  <2>1. \A q \in leaves' : q = p /\ Len(keys'[q]) = 1 /\ keys'[q][1] = key /\ vals'[q][1] = val
    BY <1>5, <2>0, Zenon
  <2>2. \A i : i \in 1 .. 1 <=> i = 1
    OBVIOUS
  <2>3. Pairs' = LeafPairs(leaves', keys', vals')
    BY DEF Pairs, LeafPairs
  <2>4. 1 \in 1 .. Len(keys'[p]) /\ p \in leaves'
    BY <1>5, <2>1
  <2>5. <<keys'[p][1], vals'[p][1]>> \in LeafPairs(leaves', keys', vals')
    BY <2>4, LeafPairsMember
  <2>6. ASSUME NEW e \in LeafPairs(leaves', keys', vals') PROVE e = <<key, val>>
    <3>1. PICK q, i : q \in leaves' /\ i \in 1 .. Len(keys'[q]) /\ e = <<keys'[q][i], vals'[q][i]>>
      BY LeafPairsMember
    <3> QED
      BY <2>1, <2>2, <3>1
  <2> QED
    BY <2>1, <2>3, <2>4, <2>5, <2>6
<1>14. starved' = FALSE /\ pins' = Pinned({})
  <2>1. starved = FALSE /\ pins = Pinned({})
    BY <1>2, CourseFacts
  <2>2. AtMostFour({}, {{p}})
    BY DEF AtMostFour
  <2> QED
    BY <1>1, <2>1, <2>2, FetchingFits, PinOne
<1>15. Sizes'
  <2>1. Len(vals'[p]) = 1
    BY <1>12
  <2>2. Size(p)' = 1 /\ MaxSize(p)' >= 2 /\ MaxSize(p)' \in Nat
    BY <1>5, <2>1, MaxSizeAssumption DEF Size, MaxSize
  <2>3. Fits(p)'
    BY <1>1, <1>5, <2>2 DEF Fits
  <2> QED
    BY <1>5, <2>3 DEF Sizes, SizeOK
<1>16. Course'
  <2>1. cur = INVALID_PAGE_ID
    BY <1>2, <1>3 DEF Inv, Course, Empty
  <2>2. Held' = {}
    BY <1>2 DEF Held
  <2> QED
    BY <1>2, <1>14, <2>1, <2>2 DEF Course, Pinned
<1>17. due' \in UpSets
  BY <1>2, CourseFacts
<1>18. (Pairs \subseteq Entries)'
  BY <1>13
<1>19. Inv'
  BY <1>2, <1>10, <1>15, <1>16, <1>17, <1>18, ChangeKeepsInv
<1> QED
  BY <1>11, <1>13, <1>19

\* The pins of a page that is given back or kept.
LEMMA CourseAfter ==
    ASSUME starved' = FALSE,
           \/ loc' = "idle" /\ cur' = INVALID_PAGE_ID /\ pins' = Pinned({})
           \/ loc' = "overflow" /\ cur' \in pages' /\ pins' = Pinned({cur'})
              /\ Size(cur)' = MaxSize(cur)' + 1
           \/ loc' = "underflow" /\ cur' \in pages'
              /\ pins' = Pinned(IF cur' \in leaves' THEN {cur', parent'[cur']} ELSE {cur'})
              /\ Size(cur)' < MinSize(cur)'
              /\ (cur' = root' => cur' \notin leaves' /\ Size(cur)' = 1)
    PROVE  Course'
<1>1. CASE loc' = "idle" /\ cur' = INVALID_PAGE_ID /\ pins' = Pinned({})
  <2>1. Held' = {}
    BY <1>1 DEF Held
  <2> QED
    BY <1>1, <2>1 DEF Course, Pinned
<1>2. CASE loc' = "overflow" /\ cur' \in pages' /\ pins' = Pinned({cur'})
              /\ Size(cur)' = MaxSize(cur)' + 1
  <2>1. Held' = {cur'}
    BY <1>2 DEF Held
  <2> QED
    BY <1>2, <2>1 DEF Course, Pinned, Size, MaxSize
<1>3. CASE loc' = "underflow" /\ cur' \in pages'
              /\ pins' = Pinned(IF cur' \in leaves' THEN {cur', parent'[cur']} ELSE {cur'})
              /\ Size(cur)' < MinSize(cur)'
              /\ (cur' = root' => cur' \notin leaves' /\ Size(cur)' = 1)
  <2>1. Held' = IF cur' \in leaves' THEN {cur', parent'[cur']} ELSE {cur'}
    BY <1>3 DEF Held
  <2> QED
    BY <1>3, <2>1 DEF Course, Pinned, Size, MinSize
<1> QED
  BY <1>1, <1>2, <1>3

\* An entry put in order into the keys of a page.
LEMMA InsertInOrder ==
    ASSUME NEW s, NEW t, NEW N \in Nat, Len(s) = N, NEW i \in 0 .. N, NEW k \in Int,
           Inserted(t, s, i + 1, k),
           \A j \in 1 .. N : s[j] \in Int,
           \A x, y \in 1 .. N : x < y => s[x] < s[y],
           \A j \in 1 .. N : j <= i => s[j] < k,
           \A j \in 1 .. N : ~(j <= i) => s[j] > k
    PROVE  \A x, y \in 1 .. N + 1 : x < y => t[x] < t[y]
<1>1. \A j \in 1 .. N + 1 : t[j] = IF j < i + 1 THEN s[j] ELSE IF j = i + 1 THEN k ELSE s[j - 1]
  BY DEF Inserted
<1> TAKE x, y \in 1 .. N + 1
<1> HAVE x < y
<1>2. CASE y < i + 1
  <2>1. t[x] = s[x] /\ t[y] = s[y] /\ x \in 1 .. N /\ y \in 1 .. N
    BY <1>1, <1>2
  <2> QED
    BY <2>1
<1>3. CASE y = i + 1
  <2>1. t[x] = s[x] /\ t[y] = k /\ x \in 1 .. N /\ x <= i
    BY <1>1, <1>3
  <2> QED
    BY <2>1
<1>4. CASE y > i + 1
  <2>1. PICK z \in 1 .. N : z = y - 1
    BY <1>4
  <2>2. t[y] = s[z] /\ ~(z <= i) /\ s[z] > k
    BY <1>1, <1>4, <2>1
  <2>3. CASE x < i + 1
    <3>1. t[x] = s[x] /\ x \in 1 .. N /\ s[x] < k
      BY <1>1, <2>3
    <3> QED
      BY <2>1, <2>2, <3>1
  <2>4. CASE x = i + 1
    BY <1>1, <2>2, <2>4
  <2>5. CASE x > i + 1
    <3>1. PICK v \in 1 .. N : v = x - 1
      BY <2>5
    <3>2. t[x] = s[v] /\ v < z
      BY <1>1, <2>1, <2>5, <3>1
    <3> QED
      BY <2>2, <3>2
  <2> QED
    BY <2>3, <2>4, <2>5
<1> QED
  BY <1>2, <1>3, <1>4

\* Insert adds the entry where it is missing; the leaf may then be too large.
LEMMA InsertStep ==
    ASSUME Inv, NEW val, Insert(val)
    PROVE  /\ Inv' /\ <<sought, val>> \in Entries
           /\ Pairs' = Pairs \cup {<<sought, val>>}
           /\ \A e \in Pairs : e[1] # sought
<1>1. PICK i : i = KeyIndex(keys[cur], sought)
  OBVIOUS
<1>2. /\ loc = "descend" /\ cur \in leaves /\ <<sought, val>> \in Entries
      /\ ~HasKeyAt(keys[cur], i, sought)
      /\ keys' = [keys EXCEPT ![cur] = S!InsertAt(keys[cur], i + 1, sought)]
      /\ vals' = [vals EXCEPT ![cur] = S!InsertAt(vals[cur], i + 1, val)]
      /\ root' = root /\ pages' = pages /\ leaves' = leaves /\ parent' = parent
      /\ next' = next /\ starved' = starved
  BY <1>1 DEF Insert, AtLeaf
<1>3. \/ /\ Size(cur) + 1 <= MaxSize(cur) /\ pins' = Unpin(pins, {cur})
         /\ loc' = "idle" /\ cur' = INVALID_PAGE_ID /\ due' = {}
      \/ /\ ~(Size(cur) + 1 <= MaxSize(cur)) /\ pins' = pins
         /\ loc' = "overflow" /\ cur' = cur /\ due' = due
  BY DEF Insert, Return, GoTo
<1>4. PICK le, lo, hi : IsTree(le, lo, hi) /\ OnTheWay(lo, hi)
  BY <1>2, TreeThere
<1>5. InRange(sought, cur, lo, hi)
  BY <1>2, <1>4 DEF OnTheWay, InRange
<1>6. PICK N \in Nat : N = Len(keys[cur])
  BY <1>2, <1>4, <1>5, LeafSearch
<1>7. /\ sought \in Keys /\ sought \in Int /\ cur \in pages /\ Size(cur) = N
      /\ \A j \in 1 .. N : keys[cur][j] \in Keys /\ keys[cur][j] \in Int
      /\ i \in 0 .. N
      /\ \A j \in 1 .. N : j <= i <=> keys[cur][j] < sought
  BY <1>1, <1>2, <1>4, <1>5, <1>6, LeafSearch
<1>8. \A x, y \in 1 .. N : x < y => keys[cur][x] < keys[cur][y]
  BY <1>4, <1>6, <1>7 DEF IsTree, Tree, Ordered
<1>9. \A j \in 1 .. N : ~(j <= i) => keys[cur][j] > sought
  <2> SUFFICES ASSUME NEW j \in 1 .. N, ~(j <= i) PROVE keys[cur][j] > sought
    OBVIOUS
  <2>1. PICK x \in 1 .. N : x = i + 1
    BY <1>7
  <2>2. keys[cur][x] # sought
    BY <1>2, <1>6, <1>7, <2>1 DEF HasKeyAt
  <2>3. ~(x <= i)
    BY <1>7, <2>1
  <2>4. keys[cur][x] > sought
    BY <1>7, <2>2, <2>3
  <2>5. j = x \/ x < j
    BY <1>7, <2>1
  <2> QED
    BY <1>7, <1>8, <2>4, <2>5
<1>10. /\ cur \in PageIds /\ keys \in [PageIds -> Seq(Keys)] /\ vals \in [PageIds -> Seq(PageVals)]
       /\ keys[cur] \in Seq(Keys) /\ vals[cur] \in Seq(PageVals)
       /\ Len(vals[cur]) = N
  <2>1. cur \in PageIds /\ keys \in [PageIds -> Seq(Keys)] /\ vals \in [PageIds -> Seq(PageVals)]
    BY <1>4, <1>7, TreeTypes
  <2> QED
    BY <1>7, <2>1 DEF Size
<1>11. val \in Rids /\ val \in PageVals
  BY <1>2, EntriesAssumption DEF Rids, PageVals
<1>12. i + 1 \in 1 .. N + 1
  BY <1>7
<1>13. /\ keys'[cur] \in Seq(Keys) /\ Inserted(keys'[cur], keys[cur], i + 1, sought)
       /\ \A p \in PageIds : p # cur => keys'[p] = keys[p]
       /\ keys' \in [PageIds -> Seq(Keys)]
  <2>1. PICK t : t = S!InsertAt(keys[cur], i + 1, sought)
    OBVIOUS
  <2>2. t \in Seq(Keys) /\ Inserted(t, keys[cur], i + 1, sought)
    BY <1>6, <1>7, <1>10, <1>12, <2>1, InsertAtProperties
  <2>3. keys' = [keys EXCEPT ![cur] = t]
    BY <1>2, <2>1
  <2> QED
    BY <1>10, <2>2, <2>3
<1>14. /\ vals'[cur] \in Seq(PageVals) /\ Inserted(vals'[cur], vals[cur], i + 1, val)
       /\ \A p \in PageIds : p # cur => vals'[p] = vals[p]
       /\ vals' \in [PageIds -> Seq(PageVals)]
  <2>1. PICK t : t = S!InsertAt(vals[cur], i + 1, val)
    OBVIOUS
  <2>2. t \in Seq(PageVals) /\ Inserted(t, vals[cur], i + 1, val)
    BY <1>10, <1>11, <1>12, <2>1, InsertAtProperties
  <2>3. vals' = [vals EXCEPT ![cur] = t]
    BY <1>2, <2>1
  <2> QED
    BY <1>10, <2>2, <2>3
<1>15. pages \subseteq PageIds /\ leaves \subseteq pages
  BY <1>4, TreeTypes
<1>16. Typed(root, pages, leaves, parent, next, keys', vals')
  BY <1>4, <1>13, <1>14 DEF IsTree, Tree, Typed
<1>17. Len(keys'[cur]) = N + 1 /\ Len(vals'[cur]) = N + 1
  BY <1>6, <1>10, <1>13, <1>14 DEF Inserted
<1>18. \A j \in 1 .. N + 1 : keys'[cur][j] \in lo[cur] /\ keys'[cur][j] \notin hi[cur]
  <2>1. \A j \in 1 .. N : keys[cur][j] \in lo[cur] /\ keys[cur][j] \notin hi[cur]
    BY <1>4, <1>6, <1>7 DEF IsTree, Tree, Within
  <2>2. \A j \in 1 .. N + 1 : keys'[cur][j] = IF j < i + 1 THEN keys[cur][j]
                                              ELSE IF j = i + 1 THEN sought ELSE keys[cur][j - 1]
    BY <1>6, <1>13 DEF Inserted
  <2>3. \A j \in 1 .. N + 1 : /\ j < i + 1 => j \in 1 .. N
                              /\ j # i + 1 /\ ~(j < i + 1) => j - 1 \in 1 .. N
    BY <1>7
  <2> QED
    BY <1>5, <2>1, <2>2, <2>3 DEF InRange
<1>19. \A j \in 1 .. N + 1 : vals'[cur][j] \in Rids
  <2>1. \A j \in 1 .. N : vals[cur][j] \in Rids
    BY <1>2, <1>4, <1>10 DEF IsTree, Tree, Counted
  <2>2. \A j \in 1 .. N + 1 : vals'[cur][j] = IF j < i + 1 THEN vals[cur][j]
                                              ELSE IF j = i + 1 THEN val ELSE vals[cur][j - 1]
    BY <1>10, <1>14 DEF Inserted
  <2>3. \A j \in 1 .. N + 1 : /\ j < i + 1 => j \in 1 .. N
                              /\ j # i + 1 /\ ~(j < i + 1) => j - 1 \in 1 .. N
    BY <1>7
  <2> QED
    BY <1>11, <2>1, <2>2, <2>3
<1>20. \A x, y \in 1 .. N + 1 : x < y => keys'[cur][x] < keys'[cur][y]
  <2>1. Inserted(keys'[cur], keys[cur], i + 1, sought)
    BY <1>13
  <2> QED
    BY <1>6, <1>7, <1>8, <1>9, <2>1, InsertInOrder
<1>21. Rewritten(cur, pages, leaves, lo, hi, keys, vals, keys', vals')
  BY <1>2, <1>13, <1>14, <1>15, <1>17, <1>18, <1>19, <1>20 DEF Rewritten
<1>22. Tree(root, pages, leaves, parent, next, keys', vals', le, lo, hi)
  BY <1>4, <1>16, <1>21, RewrittenIsTree DEF IsTree
<1>23. IsTree(le, lo, hi)'
  BY <1>2, <1>22 DEF IsTree
<1>24. Pairs' = Pairs \cup {<<sought, val>>}
  <2>1. \A q \in leaves : q # cur => keys'[q] = keys[q] /\ vals'[q] = vals[q]
    BY <1>13, <1>14, <1>15
  <2>2. LeafPairs(leaves, keys', vals') = LeafPairs(leaves, keys, vals) \cup {<<sought, val>>}
    <3>1. PICK x \in 1 .. Len(keys[cur]) + 1 : x = i + 1
      BY <1>6, <1>12
    <3>2. EntryMore(cur, x, sought, val, leaves, keys, vals, keys', vals')
      BY <1>2, <1>6, <1>10, <1>13, <1>14, <2>1, <3>1 DEF EntryMore
    <3> QED
      BY <3>2, InsertedPairs
  <2>3. Pairs' = LeafPairs(leaves, keys', vals')
    BY <1>2 DEF Pairs, LeafPairs
  <2> QED
    BY <2>2, <2>3, PairsAre
<1>25. \A e \in Pairs : e[1] # sought
  <2> SUFFICES ASSUME NEW e \in Pairs, e[1] = sought PROVE FALSE
    OBVIOUS
  <2>1. e \in LeafPairs(leaves, keys, vals)
    BY PairsAre
  <2>2. InRange(e[1], cur, lo, hi)
    BY <1>5
  <2>3. PICK j \in 1 .. Len(keys[cur]) : e[1] = keys[cur][j]
    BY <1>2, <1>4, <2>1, <2>2, PairInLeaf DEF IsTree
  <2> QED
    BY <1>6, <1>7, <1>9, <2>3
<1>26. (Pairs \subseteq Entries)'
  BY <1>2, <1>24 DEF Inv
<1>27. starved' = FALSE /\ pins = Pinned({cur})
  BY <1>2, CourseFacts
<1>28. PICK c : c = cur
  OBVIOUS
<1>29. \A p \in pages : p # c => Fits(p)'
  <2> SUFFICES ASSUME NEW p \in pages, p # c PROVE Fits(p)'
    OBVIOUS
  <2>1. Fits(p) /\ Len(vals'[p]) = Len(vals[p])
    BY <1>2, <1>14, <1>15, <1>28, OthersFit
  <2> QED
    BY <1>2, <2>1, FitsSame
<1>30. Size(cur) <= MaxSize(cur) /\ MaxSize(cur) \in Nat /\ Fits(cur)
  BY <1>2, <1>7, OthersFit, SizeFacts DEF Fits
<1>31. due' \in UpSets
  BY <1>3, CourseFacts, UpSetFacts
<1>32. CASE Size(cur) + 1 <= MaxSize(cur)
  <2>1. loc' = "idle" /\ cur' = INVALID_PAGE_ID /\ pins' = Pinned({})
    BY <1>3, <1>27, <1>32, PinOne
  <2>2. Course'
    BY <1>27, <2>1, CourseAfter
  <2>3. Fits(c)'
    <3>1. PICK m \in Nat : m = IF cur # root THEN MinSize(cur) ELSE IF cur \in leaves THEN 1 ELSE 2
      BY SizeFacts
    <3>2. Size(cur) >= m
      BY <1>30, <3>1 DEF Fits
    <3>3. Len(vals'[c]) >= m /\ Len(vals'[c]) <= MaxSize(c)
      BY <1>7, <1>17, <1>28, <1>32, <3>1, <3>2
    <3> QED
      BY <1>2, <1>28, <3>1, <3>3 DEF Fits, Size, MaxSize, MinSize
  <2>4. Sizes'
    BY <1>2, <1>29, <2>3 DEF Sizes, SizeOK
  <2>5. Inv'
    BY <1>23, <1>26, <1>31, <2>1, <2>2, <2>4, ChangeKeepsInv
  <2> QED
    BY <1>2, <1>24, <1>25, <2>5
<1>33. CASE ~(Size(cur) + 1 <= MaxSize(cur))
  <2>1. loc' = "overflow" /\ cur' = c /\ pins' = Pinned({cur'}) /\ cur' \in pages'
    BY <1>2, <1>3, <1>7, <1>27, <1>28, <1>33
  <2>2. Len(vals'[c]) = MaxSize(c) + 1
    BY <1>7, <1>17, <1>28, <1>30, <1>33
  <2>3. MaxSize(c)' = MaxSize(c)
    BY <1>2 DEF MaxSize
  <2>4. Size(c)' = MaxSize(c)' + 1
    BY <2>2, <2>3 DEF Size
  <2>5. Size(cur)' = MaxSize(cur)' + 1
    BY <2>1, <2>4 DEF Size, MaxSize
  <2>6. Course'
    BY <1>27, <2>1, <2>5, CourseAfter
  <2>7. Sizes'
    BY <1>2, <1>29, <2>1, <2>4 DEF Sizes, SizeOK
  <2>8. Inv'
    BY <1>23, <1>26, <1>31, <2>1, <2>6, <2>7, ChangeKeepsInv
  <2> QED
    BY <1>2, <1>24, <1>25, <2>8
<1> QED
  BY <1>32, <1>33

\* What is left of a sequence without its element i.
LEMMA RemovedAre ==
    ASSUME NEW s, NEW t, NEW N \in Nat, Len(s) = N, NEW i \in 1 .. N, NEW k,
           Len(t) \in Nat, Inserted(s, t, i, k)
    PROVE  Len(t) = N - 1 /\ \A j \in 1 .. N - 1 : t[j] = IF j < i THEN s[j] ELSE s[j + 1]
<1>1. Len(t) = N - 1
  BY DEF Inserted
<1>2. ASSUME NEW j \in 1 .. N - 1
      PROVE  t[j] = IF j < i THEN s[j] ELSE s[j + 1]
  <2>1. CASE j < i
    <3>1. j \in 1 .. Len(t) + 1
      BY <1>1
    <3> QED
      BY <2>1, <3>1 DEF Inserted
  <2>2. CASE ~(j < i)
    <3>1. PICK x \in 1 .. Len(t) + 1 : x = j + 1 /\ ~(x < i) /\ x # i /\ x - 1 = j
      BY <1>1, <2>2
    <3> QED
      BY <2>2, <3>1 DEF Inserted
  <2> QED
    BY <2>1, <2>2
<1> QED
  BY <1>1, <1>2

\* The pins of a leaf and its parent.
LEMMA LeafPins ==
    ASSUME Inv, NEW le, NEW lo, NEW hi, IsTree(le, lo, hi), loc = "descend",
           Fetching({ParentOf(cur)})
    PROVE  /\ starved' = FALSE
           /\ Fetch(pins, ParentOf(cur)) = Pinned({cur} \cup ParentOf(cur))
           /\ Unpin(Fetch(pins, ParentOf(cur)), {cur} \cup ParentOf(cur)) = Pinned({})
<1>1. starved = FALSE /\ pins = Pinned({cur}) /\ cur \in pages
  BY CourseFacts
<1>2. PICK up : ParentOf(cur) \subseteq {up} /\ up # cur
  <2>1. CASE cur = root
    <3>1. IsRoot(cur) /\ cur # INVALID_PAGE_ID
      BY <1>1, <2>1, TreeTypes
    <3> QED
      BY <3>1 DEF ParentOf
  <2>2. CASE cur # root
    BY <1>1, <2>2, ParentThere DEF ParentOf
  <2> QED
    BY <2>1, <2>2
<1>3. starved' = FALSE
  <2>1. \A set \in {ParentOf(cur)} : {cur} \cup set \subseteq {cur, up, up, up}
    BY <1>2
  <2>2. AtMostFour({cur}, {ParentOf(cur)})
    BY <2>1 DEF AtMostFour
  <2> QED
    BY <1>1, <2>2, FetchingFits
<1>4. PICK X : X = ParentOf(cur)
  OBVIOUS
<1>5. {cur} \cap X = {} /\ ({cur} \cup X) \ ({cur} \cup X) = {}
  BY <1>2, <1>4
<1>6. Fetch(Pinned({cur}), X) = Pinned({cur} \cup X)
  BY <1>5, PinnedFacts
<1>7. Unpin(Pinned({cur} \cup X), {cur} \cup X) = Pinned(({cur} \cup X) \ ({cur} \cup X))
  BY PinnedFacts
<1> QED
  BY <1>1, <1>3, <1>4, <1>5, <1>6, <1>7

\* Remove takes the entry out of its leaf, which may then have too few.
LEMMA RemoveEntryStep ==
    ASSUME Inv, RemoveEntry
    PROVE  /\ Inv' /\ sought \in Keys
           /\ Pairs' = {e \in Pairs : e[1] # sought}
<1>1. PICK i : i = KeyIndex(keys[cur], sought) + 1
  OBVIOUS
<1>2. /\ loc = "descend" /\ cur \in leaves
      /\ HasKeyAt(keys[cur], KeyIndex(keys[cur], sought), sought)
      /\ Size(cur) - 1 >= MinSize(cur) \/ ~IsRoot(cur) \/ Size(cur) - 1 # 0
      /\ keys' = [keys EXCEPT ![cur] = S!RemoveAt(keys[cur], i)]
      /\ vals' = [vals EXCEPT ![cur] = S!RemoveAt(vals[cur], i)]
      /\ root' = root /\ pages' = pages /\ leaves' = leaves /\ parent' = parent
      /\ next' = next /\ Fetching({ParentOf(cur)})
  BY <1>1 DEF RemoveEntry, AtLeaf
<1>3. \/ /\ Size(cur) - 1 >= MinSize(cur) \/ IsRoot(cur)
         /\ pins' = Unpin(Fetch(pins, ParentOf(cur)), {cur} \cup ParentOf(cur))
         /\ loc' = "idle" /\ cur' = INVALID_PAGE_ID /\ due' = {}
      \/ /\ ~(Size(cur) - 1 >= MinSize(cur)) /\ ~IsRoot(cur)
         /\ pins' = Fetch(pins, ParentOf(cur))
         /\ loc' = "underflow" /\ cur' = cur /\ due' = due
  BY DEF RemoveEntry, Return, GoTo
<1>4. PICK le, lo, hi : IsTree(le, lo, hi) /\ OnTheWay(lo, hi)
  BY <1>2, TreeThere
<1>5. InRange(sought, cur, lo, hi)
  BY <1>2, <1>4 DEF OnTheWay, InRange
<1>6. PICK N \in Nat : N = Len(keys[cur])
  BY <1>2, <1>4, <1>5, LeafSearch
<1>7. /\ sought \in Keys /\ cur \in pages /\ Size(cur) = N
      /\ \A j \in 1 .. N : keys[cur][j] \in Keys /\ keys[cur][j] \in Int
      /\ KeyIndex(keys[cur], sought) \in 0 .. N
  BY <1>2, <1>4, <1>5, <1>6, LeafSearch
<1>8. i \in 1 .. N /\ keys[cur][i] = sought
  <2>1. KeyIndex(keys[cur], sought) < N /\ keys[cur][i] = sought
    BY <1>1, <1>2, <1>6 DEF HasKeyAt
  <2> QED
    BY <1>1, <1>7, <2>1
<1>9. \A x, y \in 1 .. N : x < y => keys[cur][x] < keys[cur][y]
  BY <1>4, <1>6, <1>7 DEF IsTree, Tree, Ordered
<1>10. /\ cur \in PageIds /\ keys \in [PageIds -> Seq(Keys)] /\ vals \in [PageIds -> Seq(PageVals)]
       /\ keys[cur] \in Seq(Keys) /\ vals[cur] \in Seq(PageVals)
       /\ Len(vals[cur]) = N
  <2>1. cur \in PageIds /\ keys \in [PageIds -> Seq(Keys)] /\ vals \in [PageIds -> Seq(PageVals)]
    BY <1>4, <1>7, TreeTypes
  <2> QED
    BY <1>7, <2>1 DEF Size
<1>11. /\ keys'[cur] \in Seq(Keys) /\ Inserted(keys[cur], keys'[cur], i, keys[cur][i])
       /\ \A p \in PageIds : p # cur => keys'[p] = keys[p]
       /\ keys' \in [PageIds -> Seq(Keys)]
  <2>1. PICK t : t = S!RemoveAt(keys[cur], i)
    OBVIOUS
  <2>2. t \in Seq(Keys) /\ Inserted(keys[cur], t, i, keys[cur][i])
    BY <1>6, <1>8, <1>10, <2>1, RemoveAtProperties
  <2>3. keys' = [keys EXCEPT ![cur] = t]
    BY <1>2, <2>1
  <2> QED
    BY <1>10, <2>2, <2>3
<1>12. /\ vals'[cur] \in Seq(PageVals) /\ Inserted(vals[cur], vals'[cur], i, vals[cur][i])
       /\ \A p \in PageIds : p # cur => vals'[p] = vals[p]
       /\ vals' \in [PageIds -> Seq(PageVals)]
  <2>1. PICK t : t = S!RemoveAt(vals[cur], i)
    OBVIOUS
  <2>2. t \in Seq(PageVals) /\ Inserted(vals[cur], t, i, vals[cur][i])
    BY <1>8, <1>10, <2>1, RemoveAtProperties
  <2>3. vals' = [vals EXCEPT ![cur] = t]
    BY <1>2, <2>1
  <2> QED
    BY <1>10, <2>2, <2>3
<1>13. /\ Len(keys'[cur]) \in Nat /\ Len(vals'[cur]) \in Nat
  BY <1>11, <1>12
<1>14. /\ Len(keys'[cur]) = N - 1
       /\ \A j \in 1 .. N - 1 : keys'[cur][j] = IF j < i THEN keys[cur][j] ELSE keys[cur][j + 1]
  BY <1>6, <1>8, <1>11, <1>13, RemovedAre, SMTT(30)
<1>15. /\ Len(vals'[cur]) = N - 1
       /\ \A j \in 1 .. N - 1 : vals'[cur][j] = IF j < i THEN vals[cur][j] ELSE vals[cur][j + 1]
  BY <1>8, <1>10, <1>12, <1>13, RemovedAre
<1>16. pages \subseteq PageIds /\ leaves \subseteq pages
  BY <1>4, TreeTypes
<1>17. Typed(root, pages, leaves, parent, next, keys', vals')
  BY <1>4, <1>11, <1>12 DEF IsTree, Tree, Typed
<1>18. \A j \in 1 .. N - 1 : \E x \in 1 .. N :
          /\ x = (IF j < i THEN j ELSE j + 1) /\ x # i
          /\ keys'[cur][j] = keys[cur][x] /\ vals'[cur][j] = vals[cur][x]
  <2> SUFFICES ASSUME NEW j \in 1 .. N - 1
               PROVE  \E x \in 1 .. N :
                         /\ x = (IF j < i THEN j ELSE j + 1) /\ x # i
                         /\ keys'[cur][j] = keys[cur][x] /\ vals'[cur][j] = vals[cur][x]
    OBVIOUS
  <2>1. PICK x : x = IF j < i THEN j ELSE j + 1
    OBVIOUS
  <2>2. x \in 1 .. N /\ x # i
    BY <1>8, <2>1
  <2> QED
    BY <1>14, <1>15, <2>1, <2>2
<1>19. \A j \in 1 .. N - 1 : /\ keys'[cur][j] \in lo[cur] /\ keys'[cur][j] \notin hi[cur]
                             /\ vals'[cur][j] \in Rids
  <2>1. \A j \in 1 .. N : keys[cur][j] \in lo[cur] /\ keys[cur][j] \notin hi[cur]
    BY <1>4, <1>6, <1>7 DEF IsTree, Tree, Within
  <2>2. \A j \in 1 .. N : vals[cur][j] \in Rids
    BY <1>2, <1>4, <1>10 DEF IsTree, Tree, Counted
  <2> QED
    BY <1>18, <2>1, <2>2
<1>20. \A y, z \in 1 .. N - 1 : y < z => keys'[cur][y] < keys'[cur][z]
  <2> SUFFICES ASSUME NEW y \in 1 .. N - 1, NEW z \in 1 .. N - 1, y < z
               PROVE  keys'[cur][y] < keys'[cur][z]
    OBVIOUS
  <2>1. PICK a \in 1 .. N : a = (IF y < i THEN y ELSE y + 1) /\ keys'[cur][y] = keys[cur][a]
    BY <1>18
  <2>2. PICK b \in 1 .. N : b = (IF z < i THEN z ELSE z + 1) /\ keys'[cur][z] = keys[cur][b]
    BY <1>18
  <2>3. a < b
    BY <1>8, <2>1, <2>2
  <2> QED
    BY <1>9, <2>1, <2>2, <2>3
<1>21. Rewritten(cur, pages, leaves, lo, hi, keys, vals, keys', vals')
  BY <1>2, <1>11, <1>12, <1>14, <1>15, <1>16, <1>19, <1>20 DEF Rewritten
<1>22. Tree(root, pages, leaves, parent, next, keys', vals', le, lo, hi)
  BY <1>4, <1>17, <1>21, RewrittenIsTree DEF IsTree
<1>23. IsTree(le, lo, hi)'
  BY <1>2, <1>22 DEF IsTree
<1>24. Pairs = Pairs' \cup {<<sought, vals[cur][i]>>}
  <2>1. \A q \in leaves : q # cur => keys'[q] = keys[q] /\ vals'[q] = vals[q]
    BY <1>11, <1>12, <1>16
  <2>2. EntryMore(cur, i, sought, vals[cur][i], leaves, keys', vals', keys, vals)
    <3>1. i \in 1 .. Len(keys'[cur]) + 1 /\ Len(vals'[cur]) = Len(keys'[cur])
      BY <1>8, <1>14, <1>15
    <3> QED
      BY <1>2, <1>8, <1>11, <1>12, <1>13, <2>1, <3>1 DEF EntryMore
  <2>3. Pairs' = LeafPairs(leaves, keys', vals')
    BY <1>2 DEF Pairs, LeafPairs
  <2>4. LeafPairs(leaves, keys, vals) = LeafPairs(leaves, keys', vals') \cup {<<sought, vals[cur][i]>>}
    BY <2>2, InsertedPairs
  <2> QED
    BY <2>3, <2>4, PairsAre
<1>25. \A e \in Pairs' : e[1] # sought
  <2> SUFFICES ASSUME NEW e \in Pairs', e[1] = sought PROVE FALSE
    OBVIOUS
  <2>1. e \in LeafPairs(leaves, keys', vals')
    BY <1>2 DEF Pairs, LeafPairs
  <2>2. cur \in leaves /\ InRange(e[1], cur, lo, hi)
    BY <1>2, <1>5
  <2>3. PICK j \in 1 .. Len(keys'[cur]) : e[1] = keys'[cur][j]
    BY <1>22, <2>1, <2>2, PairInLeaf
  <2>4. PICK x \in 1 .. N : x # i /\ keys'[cur][j] = keys[cur][x]
    BY <1>14, <1>18, <2>3
  <2>5. x < i \/ i < x
    BY <1>8, <2>4
  <2>6. keys[cur][x] < keys[cur][i] \/ keys[cur][i] < keys[cur][x]
    BY <1>8, <1>9, <2>5
  <2> QED
    BY <1>7, <1>8, <2>3, <2>4, <2>6
<1>26. Pairs' = {e \in Pairs : e[1] # sought}
  <2>1. PICK e0 : e0 = <<sought, vals[cur][i]>>
    OBVIOUS
  <2>2. e0[1] = sought
    BY <2>1
  <2> QED
    BY <1>24, <1>25, <2>1, <2>2
<1>27. (Pairs \subseteq Entries)'
  BY <1>24 DEF Inv
<1>28. /\ starved' = FALSE
       /\ Fetch(pins, ParentOf(cur)) = Pinned({cur} \cup ParentOf(cur))
       /\ Unpin(Fetch(pins, ParentOf(cur)), {cur} \cup ParentOf(cur)) = Pinned({})
  BY <1>2, <1>4, LeafPins
<1>29. PICK c : c = cur
  OBVIOUS
<1>30. \A p \in pages : p # c => Fits(p)'
  <2> SUFFICES ASSUME NEW p \in pages, p # c PROVE Fits(p)'
    OBVIOUS
  <2>1. Fits(p) /\ Len(vals'[p]) = Len(vals[p])
    BY <1>2, <1>12, <1>16, <1>29, OthersFit
  <2> QED
    BY <1>2, <2>1, FitsSame
<1>31. /\ Size(cur) <= MaxSize(cur) /\ MaxSize(cur) \in Nat /\ MinSize(cur) \in Nat
       /\ MinSize(cur) >= 1 /\ Fits(cur) /\ (IsRoot(cur) <=> cur = root)
  <2>1. Fits(cur) /\ (IsRoot(cur) <=> cur = root)
    BY <1>2, <1>4, <1>7, OthersFit, TreeTypes
  <2> QED
    BY <2>1, SizeFacts DEF Fits
<1>32. due' \in UpSets
  BY <1>3, CourseFacts, UpSetFacts
<1>33. CASE Size(cur) - 1 >= MinSize(cur) \/ IsRoot(cur)
  <2>1. loc' = "idle" /\ cur' = INVALID_PAGE_ID /\ pins' = Pinned({})
    BY <1>3, <1>28, <1>33
  <2>2. Course'
    BY <1>28, <2>1, CourseAfter
  <2>3. Fits(c)'
    <3>1. Len(vals'[c]) <= MaxSize(c)
      BY <1>7, <1>15, <1>29, <1>31
    <3>2. IF c # root THEN Len(vals'[c]) >= MinSize(c) ELSE Len(vals'[c]) >= 1
      BY <1>2, <1>7, <1>8, <1>15, <1>29, <1>31, <1>33
    <3> QED
      BY <1>2, <1>29, <3>1, <3>2 DEF Fits, Size, MaxSize, MinSize
  <2>4. Sizes'
    BY <1>2, <1>30, <2>3 DEF Sizes, SizeOK
  <2>5. Inv'
    BY <1>23, <1>27, <1>32, <2>1, <2>2, <2>4, ChangeKeepsInv
  <2> QED
    BY <1>7, <1>26, <2>5
<1>34. CASE ~(Size(cur) - 1 >= MinSize(cur)) /\ ~IsRoot(cur)
  <2>1. loc' = "underflow" /\ cur' = c /\ cur' \in pages' /\ c # root' /\ c \in leaves'
    BY <1>2, <1>3, <1>7, <1>29, <1>31, <1>34
  <2>2. pins' = Pinned(IF cur' \in leaves' THEN {cur', parent'[cur']} ELSE {cur'})
    <3>1. {cur} \cup ParentOf(cur) = {cur, parent[cur]}
      BY <1>34 DEF ParentOf
    <3>2. pins' = Pinned({cur, parent[cur]})
      BY <1>3, <1>28, <1>34, <3>1
    <3> QED
      BY <1>2, <1>29, <2>1, <3>2
  <2>3. Size(cur) >= MinSize(cur)
    BY <1>31, <1>34 DEF Fits
  <2>4. Len(vals'[c]) = MinSize(c) - 1
    BY <1>7, <1>15, <1>29, <1>31, <1>34, <2>3
  <2>5. MinSize(c)' = MinSize(c)
    BY <1>2 DEF MinSize
  <2>6. Size(c)' = MinSize(c)' - 1 /\ MinSize(c)' \in Nat
    BY <1>29, <1>31, <2>4, <2>5 DEF Size
  <2>7. Size(cur)' < MinSize(cur)'
    BY <2>1, <2>6 DEF Size, MinSize
  <2>8. Course'
    BY <1>28, <2>1, <2>2, <2>7, CourseAfter
  <2>9. Sizes'
    BY <1>2, <1>30, <2>1, <2>6 DEF Sizes, SizeOK
  <2>10. Inv'
    BY <1>23, <1>27, <1>32, <2>1, <2>8, <2>9, ChangeKeepsInv
  <2> QED
    BY <1>7, <1>26, <2>10
<1> QED
  BY <1>3, <1>33, <1>34

\* A tree whose root is a leaf has no other page.
LEMMA OnlyTheRoot ==
    ASSUME NEW le, NEW lo, NEW hi, IsTree(le, lo, hi), root \in leaves
    PROVE  pages = {root} /\ leaves = {root}
<1>1. /\ root \in pages /\ leaves \subseteq pages /\ le[root] = 0
      /\ \A p \in pages : le[p] \in Nat /\ le[p] <= le[root]
  <2>1. root \in pages /\ leaves \subseteq pages
    BY TreeTypes
  <2>2. \A p \in pages : le[p] \in Nat
    BY PageFacts DEF IsTree
  <2> QED
    BY <2>1, <2>2 DEF IsTree, Tree, Levelled
<1>2. \A p \in pages : p # root => parent[p] \in pages /\ le[parent[p]] = le[p] + 1
  BY DEF IsTree, Tree, Up, Levelled
<1>3. \A p \in pages : p = root
  BY <1>1, <1>2
<1> QED
  BY <1>1, <1>3

\* The last entry takes the root with it.
LEMMA RemoveLastStep ==
    ASSUME Inv, RemoveLast
    PROVE  /\ Inv' /\ sought \in Keys
           /\ Pairs' = {e \in Pairs : e[1] # sought}
<1>1. PICK i : i = KeyIndex(keys[cur], sought) + 1
  OBVIOUS
<1>2. PICK gone : gone = Deleted(cur, Unpin(pins, {cur}))
  OBVIOUS
<1>3. /\ loc = "descend" /\ cur \in leaves
      /\ HasKeyAt(keys[cur], KeyIndex(keys[cur], sought), sought)
      /\ IsRoot(cur) /\ Size(cur) - 1 = 0
      /\ root' = INVALID_PAGE_ID
      /\ pages' = pages \ gone /\ leaves' = leaves \ gone
      /\ parent' = Cleared(parent, gone, INVALID_PAGE_ID)
      /\ next' = Cleared(next, gone, INVALID_PAGE_ID)
      /\ keys' = [keys EXCEPT ![cur] = S!RemoveAt(keys[cur], i)]
      /\ vals' = [vals EXCEPT ![cur] = S!RemoveAt(vals[cur], i)]
      /\ pins' = Unpin(pins, {cur}) /\ starved' = starved
      /\ loc' = "idle" /\ cur' = INVALID_PAGE_ID /\ due' = {}
  BY <1>1, <1>2 DEF RemoveLast, AtLeaf, Return, GoTo
<1>4. PICK le, lo, hi : IsTree(le, lo, hi) /\ OnTheWay(lo, hi)
  BY <1>3, TreeThere
<1>5. InRange(sought, cur, lo, hi)
  BY <1>3, <1>4 DEF OnTheWay, InRange
<1>6. /\ sought \in Keys /\ cur \in pages /\ Len(keys[cur]) \in Nat /\ Size(cur) = Len(keys[cur])
      /\ KeyIndex(keys[cur], sought) \in 0 .. Len(keys[cur])
  BY <1>3, <1>4, <1>5, LeafSearch
<1>7. Len(keys[cur]) = 1 /\ i = 1 /\ keys[cur][1] = sought
  <2>1. Len(keys[cur]) = 1
    BY <1>3, <1>6
  <2>2. KeyIndex(keys[cur], sought) < Len(keys[cur])
        /\ keys[cur][KeyIndex(keys[cur], sought) + 1] = sought
    BY <1>3 DEF HasKeyAt
  <2>3. i = 1
    BY <1>1, <1>6, <2>1, <2>2
  <2> QED
    BY <1>1, <2>1, <2>2, <2>3
<1>8. cur = root /\ pages = {cur} /\ leaves = {cur} /\ cur \in PageIds
  <2>1. cur = root /\ pages \subseteq PageIds
    BY <1>3, <1>4, <1>6, TreeTypes
  <2> QED
    BY <1>3, <1>4, <1>6, <2>1, OnlyTheRoot
<1>9. pins' = Pinned({}) /\ starved' = FALSE /\ gone = {cur}
  <2>1. pins = Pinned({cur}) /\ starved = FALSE
    BY <1>3, CourseFacts
  <2>2. Unpin(pins, {cur}) = Pinned({})
    BY <2>1, PinOne
  <2>3. Pinned({})[cur] = 0
    BY <1>8 DEF Pinned
  <2> QED
    BY <1>2, <1>3, <2>1, <2>2, <2>3 DEF Deleted
<1>10. pages' = {} /\ leaves' = {}
  BY <1>3, <1>8, <1>9
<1>11. parent' = [p \in PageIds |-> INVALID_PAGE_ID] /\ next' = [p \in PageIds |-> INVALID_PAGE_ID]
  <2>1. \A p \in PageIds : p \notin gone => parent[p] = INVALID_PAGE_ID /\ next[p] = INVALID_PAGE_ID
    BY <1>4, <1>8, <1>9, TreeTypes
  <2> QED
    BY <1>3, <2>1 DEF Cleared
<1>12. keys' \in [PageIds -> Seq(Keys)] /\ vals' \in [PageIds -> Seq(PageVals)]
  <2>1. /\ keys \in [PageIds -> Seq(Keys)] /\ vals \in [PageIds -> Seq(PageVals)]
        /\ keys[cur] \in Seq(Keys) /\ vals[cur] \in Seq(PageVals)
    BY <1>4, <1>8, TreeTypes
  <2>2. i \in 1 .. Len(keys[cur]) /\ i \in 1 .. Len(vals[cur])
    <3>1. Len(vals[cur]) = 1
      BY <1>6, <1>7 DEF Size
    <3> QED
      BY <1>7, <3>1
  <2>3. S!RemoveAt(keys[cur], i) \in Seq(Keys) /\ S!RemoveAt(vals[cur], i) \in Seq(PageVals)
    BY <2>1, <2>2, RemoveAtProperties
  <2> QED
    BY <1>3, <2>1, <2>3
<1>13. Empty'
  BY <1>3, <1>10, <1>11, <1>12 DEF Empty
<1>14. Pairs' = {}
  BY <1>10 DEF Pairs
<1>15. \A e \in Pairs : e[1] = sought
  <2> SUFFICES ASSUME NEW e \in Pairs PROVE e[1] = sought
    OBVIOUS
  <2>1. PICK p, j : p \in leaves /\ j \in 1 .. Len(keys[p]) /\ e[1] = keys[p][j]
    BY PairsAre, LeafPairsMember
  <2>2. p = cur /\ j \in 1 .. 1
    BY <1>7, <1>8, <2>1
  <2>3. j = 1
    BY <2>2
  <2> QED
    BY <1>7, <2>1, <2>2, <2>3
<1>16. Course'
  BY <1>3, <1>9, CourseAfter
<1>17. Sizes' /\ ScansInOrder' /\ (Pairs \subseteq Entries)' /\ due' \in UpSets
  BY <1>3, <1>10, <1>14, UpSetFacts DEF Sizes, ScansInOrder
<1>18. Inv'
  BY <1>13, <1>16, <1>17 DEF Inv
<1> QED
  BY <1>6, <1>14, <1>15, <1>18

-----------------------------------------------------------------------------
(* Splits. *)

\* The two parts of page p, n and r entries, and the key m between them.
Halves(p, n, r, m) ==
    /\ n \in Nat /\ r \in Nat /\ n >= 1 /\ r >= 1 /\ Len(vals[p]) = n + r /\ m \in Keys
    /\ LowerVals(p) \in Seq(PageVals) /\ UpperVals(p) \in Seq(PageVals)
    /\ LowerKeys(p) \in Seq(Keys) /\ UpperKeys(p) \in Seq(Keys)
    /\ Len(LowerVals(p)) = n /\ Len(UpperVals(p)) = r
    /\ \A j \in 1 .. n : LowerVals(p)[j] = vals[p][j]
    /\ \A j \in 1 .. r : UpperVals(p)[j] = vals[p][n + j]
    /\ p \in leaves => /\ Len(keys[p]) = n + r /\ Len(LowerKeys(p)) = n /\ Len(UpperKeys(p)) = r
                       /\ \A j \in 1 .. n : LowerKeys(p)[j] = keys[p][j]
                       /\ \A j \in 1 .. r : UpperKeys(p)[j] = keys[p][n + j]
                       /\ m = UpperKeys(p)[1]
    /\ p \notin leaves => /\ Len(keys[p]) = n + r - 1
                          /\ Len(LowerKeys(p)) = n - 1 /\ Len(UpperKeys(p)) = r - 1
                          /\ \A j \in 1 .. n - 1 : LowerKeys(p)[j] = keys[p][j]
                          /\ \A j \in 1 .. r - 1 : UpperKeys(p)[j] = keys[p][n + j]
                          /\ keys[p][n] = m

\* A part of a sequence.
LEMMA SubSeqFacts ==
    ASSUME NEW T, NEW s \in Seq(T), NEW a \in Nat, a >= 1, NEW b \in Nat, b <= Len(s), a <= b + 1
    PROVE  /\ SubSeq(s, a, b) \in Seq(T) /\ Len(SubSeq(s, a, b)) = b - a + 1
           /\ \A j \in 1 .. b - a + 1 : SubSeq(s, a, b)[j] = s[a + j - 1]
<1>1. Len(s) \in Nat
  OBVIOUS
<1> QED
  BY <1>1

\* MoveHalfTo splits a page in such parts.
LEMMA SplitHalves ==
    ASSUME NEW le, NEW lo, NEW hi, IsTree(le, lo, hi), NEW p \in pages, Size(p) = MaxSize(p) + 1
    PROVE  \E n, r : /\ Halves(p, n, r, MiddleKey(p))
                     /\ n >= MinSize(p) /\ n <= MaxSize(p) /\ r >= MinSize(p) /\ r <= MaxSize(p)
<1>1. /\ keys[p] \in Seq(Keys) /\ vals[p] \in Seq(PageVals)
      /\ Len(keys[p]) \in Nat /\ Len(vals[p]) \in Nat
      /\ \A j \in 1 .. Len(keys[p]) : keys[p][j] \in Keys
  BY PageFacts DEF IsTree
<1>2. PICK M \in Nat : /\ M = MaxSize(p) /\ M >= 2 /\ (p \notin leaves => M >= 3)
                       /\ MinSize(p) = IF p \in leaves THEN M \div 2 ELSE (M + 1) \div 2
  BY MaxSizeAssumption DEF MaxSize, MinSize
<1>3. Len(vals[p]) = M + 1 /\ Len(keys[p]) = IF p \in leaves THEN M + 1 ELSE M
  <2>1. Len(vals[p]) = M + 1
    BY <1>2 DEF Size
  <2>2. Len(keys[p]) = IF p \in leaves THEN Len(vals[p]) ELSE Len(vals[p]) - 1
    BY DEF IsTree, Tree, Counted
  <2> QED
    BY <2>1, <2>2
<1>4. PICK n : n = Half(p)
  OBVIOUS
<1>5. n = (M + 1) \div 2
  BY <1>3, <1>4 DEF Half, Size
<1>6. /\ n \in Nat /\ n >= 1 /\ n <= M /\ n >= M \div 2 /\ (p \notin leaves => n >= 2)
      /\ M + 1 - n \in Nat /\ M + 1 - n >= n /\ M + 1 - n <= M
  BY <1>2, <1>5
<1>7. PICK r \in Nat : r = M + 1 - n
  BY <1>6
<1>8. /\ r >= 1 /\ n + r = M + 1 /\ n + 1 \in Nat /\ r >= n /\ r <= M
  BY <1>2, <1>6, <1>7
<1>9. n >= MinSize(p) /\ n <= MaxSize(p) /\ r >= MinSize(p) /\ r <= MaxSize(p)
  <2>1. MinSize(p) \in Nat
    BY SizeFacts
  <2>2. n >= MinSize(p)
    BY <1>2, <1>5, <1>6
  <2> QED
    BY <1>2, <1>6, <1>8, <2>1, <2>2
<1>10. /\ LowerVals(p) = SubSeq(vals[p], 1, n) /\ UpperVals(p) = SubSeq(vals[p], n + 1, Len(vals[p]))
       /\ LowerKeys(p) = SubSeq(keys[p], 1, IF p \in leaves THEN n ELSE n - 1)
       /\ UpperKeys(p) = SubSeq(keys[p], n + 1, Len(keys[p]))
       /\ MiddleKey(p) = keys[p][IF p \in leaves THEN n + 1 ELSE n]
  BY <1>4 DEF LowerVals, UpperVals, LowerKeys, UpperKeys, MiddleKey, Size
<1>11. /\ LowerVals(p) \in Seq(PageVals) /\ Len(LowerVals(p)) = n
       /\ \A j \in 1 .. n : LowerVals(p)[j] = vals[p][j]
  <2>1. PICK t : t = SubSeq(vals[p], 1, n)
    OBVIOUS
  <2>2. t \in Seq(PageVals) /\ Len(t) = n - 1 + 1 /\ \A j \in 1 .. n - 1 + 1 : t[j] = vals[p][1 + j - 1]
    BY <1>1, <1>3, <1>6, <2>1, SubSeqFacts
  <2>3. Len(t) = n /\ \A j \in 1 .. n : t[j] = vals[p][j]
    BY <1>6, <2>2
  <2> QED
    BY <1>10, <2>1, <2>2, <2>3
<1>12. /\ UpperVals(p) \in Seq(PageVals) /\ Len(UpperVals(p)) = r
       /\ \A j \in 1 .. r : UpperVals(p)[j] = vals[p][n + j]
  <2>1. PICK t : t = SubSeq(vals[p], n + 1, Len(vals[p]))
    OBVIOUS
  <2>2. /\ t \in Seq(PageVals) /\ Len(t) = Len(vals[p]) - (n + 1) + 1
        /\ \A j \in 1 .. Len(vals[p]) - (n + 1) + 1 : t[j] = vals[p][n + 1 + j - 1]
    BY <1>1, <1>3, <1>6, <2>1, SubSeqFacts
  <2>3. Len(vals[p]) - (n + 1) + 1 = r /\ \A j \in 1 .. r : n + 1 + j - 1 = n + j
    BY <1>3, <1>6, <1>7
  <2>4. Len(t) = r /\ \A j \in 1 .. r : t[j] = vals[p][n + j]
    BY <2>2, <2>3
  <2> QED
    BY <1>10, <2>1, <2>2, <2>4
<1>13. PICK x \in Nat : x = IF p \in leaves THEN n ELSE n - 1
  BY <1>6
<1>14. /\ LowerKeys(p) \in Seq(Keys) /\ Len(LowerKeys(p)) = x
       /\ \A j \in 1 .. x : LowerKeys(p)[j] = keys[p][j]
  <2>1. PICK t : t = SubSeq(keys[p], 1, x)
    OBVIOUS
  <2>2. t \in Seq(Keys) /\ Len(t) = x - 1 + 1 /\ \A j \in 1 .. x - 1 + 1 : t[j] = keys[p][1 + j - 1]
    BY <1>1, <1>3, <1>6, <1>13, <2>1, SubSeqFacts
  <2>3. Len(t) = x /\ \A j \in 1 .. x : t[j] = keys[p][j]
    BY <2>2
  <2> QED
    BY <1>10, <1>13, <2>1, <2>2, <2>3
<1>15. PICK y \in Nat : y = IF p \in leaves THEN r ELSE r - 1
  BY <1>8
<1>16. /\ UpperKeys(p) \in Seq(Keys) /\ Len(UpperKeys(p)) = y
       /\ \A j \in 1 .. y : UpperKeys(p)[j] = keys[p][n + j]
  <2>1. PICK t : t = SubSeq(keys[p], n + 1, Len(keys[p]))
    OBVIOUS
  <2>2. /\ t \in Seq(Keys) /\ Len(t) = Len(keys[p]) - (n + 1) + 1
        /\ \A j \in 1 .. Len(keys[p]) - (n + 1) + 1 : t[j] = keys[p][n + 1 + j - 1]
    BY <1>1, <1>3, <1>6, <2>1, SubSeqFacts
  <2>3. Len(keys[p]) - (n + 1) + 1 = y /\ \A j \in 1 .. y : n + 1 + j - 1 = n + j
    BY <1>3, <1>6, <1>7, <1>15
  <2>4. Len(t) = y /\ \A j \in 1 .. y : t[j] = keys[p][n + j]
    BY <2>2, <2>3
  <2> QED
    BY <1>10, <2>1, <2>2, <2>4
<1>17. /\ MiddleKey(p) \in Keys
       /\ p \in leaves => MiddleKey(p) = UpperKeys(p)[1]
       /\ p \notin leaves => keys[p][n] = MiddleKey(p)
  <2>1. CASE p \in leaves
    <3>1. 1 \in 1 .. y /\ n + 1 \in 1 .. Len(keys[p]) /\ MiddleKey(p) = keys[p][n + 1]
      BY <1>3, <1>6, <1>8, <1>10, <1>15, <2>1
    <3> QED
      BY <1>1, <1>16, <2>1, <3>1
  <2>2. CASE p \notin leaves
    <3>1. n \in 1 .. Len(keys[p]) /\ MiddleKey(p) = keys[p][n]
      BY <1>3, <1>6, <1>10, <2>2
    <3> QED
      BY <1>1, <2>2, <3>1
  <2> QED
    BY <2>1, <2>2
<1>18. Len(vals[p]) = n + r /\ Len(keys[p]) = IF p \in leaves THEN n + r ELSE n + r - 1
  <2>1. M + 1 = n + r /\ M = n + r - 1
    BY <1>6, <1>8
  <2> QED
    BY <1>3, <2>1
<1>19. Halves(p, n, r, MiddleKey(p))
  <2>1. CASE p \in leaves
    <3>1. x = n /\ y = r
      BY <1>13, <1>15, <2>1
    <3> QED
      BY <1>6, <1>8, <1>11, <1>12, <1>14, <1>16, <1>17, <1>18, <2>1, <3>1 DEF Halves
  <2>2. CASE p \notin leaves
    <3>1. x = n - 1 /\ y = r - 1
      BY <1>13, <1>15, <2>2
    <3> QED
      BY <1>6, <1>8, <1>11, <1>12, <1>14, <1>16, <1>17, <1>18, <2>2, <3>1 DEF Halves
  <2> QED
    BY <2>1, <2>2
<1> QED
  BY <1>9, <1>19

\* The new page in the leaf chain.
LEMMA SplitOffChain ==
    ASSUME NEW le, NEW lo, NEW hi, IsTree(le, lo, hi), cur \in pages,
           NEW right \in PageIds, right \notin pages, NEW more, SplitOff(right, more)
    PROVE  /\ leaves' = IF cur \in leaves THEN leaves \cup {right} ELSE leaves
           /\ pages' = pages \cup {right} \cup more
           /\ next' \in [PageIds -> AnyId]
           /\ cur \in leaves => next'[cur] = right /\ next'[right] = next[cur]
           /\ \A p \in pages : p # cur \/ cur \notin leaves => next'[p] = next[p]
           /\ \A p \in PageIds : p \notin leaves' => next'[p] = INVALID_PAGE_ID
<1>1. /\ pages \subseteq PageIds /\ next \in [PageIds -> AnyId]
      /\ \A p \in PageIds : p \notin leaves => next[p] = INVALID_PAGE_ID
  BY TreeTypes
<1>2. /\ leaves' = IF cur \in leaves THEN leaves \cup {right} ELSE leaves
      /\ pages' = pages \cup {right} \cup more
      /\ next' = IF cur \in leaves THEN [next EXCEPT ![right] = next[cur], ![cur] = right] ELSE next
  BY DEF SplitOff, Linked
<1>3. cur \in PageIds /\ cur # right
  BY <1>1
<1>4. CASE cur \in leaves
  <2>1. right \in AnyId /\ next[cur] \in AnyId
    BY <1>1, <1>3 DEF AnyId
  <2>2. next' = [next EXCEPT ![right] = next[cur], ![cur] = right]
    BY <1>2, <1>4
  <2>3. /\ next' \in [PageIds -> AnyId] /\ next'[cur] = right /\ next'[right] = next[cur]
        /\ \A p \in PageIds : p # cur /\ p # right => next'[p] = next[p]
    BY <1>1, <1>3, <2>1, <2>2
  <2> QED
    BY <1>1, <1>2, <1>4, <2>3
<1>5. CASE cur \notin leaves
  BY <1>1, <1>2, <1>5
<1> QED
  BY <1>2, <1>4, <1>5

\* The children that move to the new page.
LEMMA MovedUpAre ==
    ASSUME NEW le, NEW lo, NEW hi, IsTree(le, lo, hi), NEW p \in pages,
           NEW n, NEW r, NEW m, Halves(p, n, r, m)
    PROVE  /\ MovedUp(p) \subseteq pages
           /\ \A x : x \in MovedUp(p) <=> p \notin leaves /\ \E j \in 1 .. r : UpperVals(p)[j] = x
           /\ \A x \in MovedUp(p) : parent[x] = p
<1>1. CASE p \in leaves
  BY <1>1 DEF MovedUp
<1>2. CASE p \notin leaves
  <2>1. UpperVals(p) \in Seq(PageVals) /\ Len(UpperVals(p)) = r /\ n \in Nat /\ r \in Nat
        /\ Len(vals[p]) = n + r /\ \A j \in 1 .. r : UpperVals(p)[j] = vals[p][n + j]
    BY DEF Halves
  <2>2. \A x : x \in MovedUp(p) <=> \E j \in 1 .. r : UpperVals(p)[j] = x
    <3>1. PICK t \in Seq(PageVals) : t = UpperVals(p)
      BY <2>1
    <3>2. MovedUp(p) = {t[j] : j \in DOMAIN t} /\ DOMAIN t = 1 .. r
      BY <1>2, <2>1, <3>1 DEF MovedUp, S!ToSet
    <3> QED
      BY <3>1, <3>2
  <2>3. \A x \in MovedUp(p) : x \in pages /\ parent[x] = p
    <3> SUFFICES ASSUME NEW x \in MovedUp(p) PROVE x \in pages /\ parent[x] = p
      OBVIOUS
    <3>1. PICK j \in 1 .. r : UpperVals(p)[j] = x
      BY <2>2
    <3>2. PICK k \in 1 .. Len(vals[p]) : k = n + j
      BY <2>1, <3>1
    <3>3. x = vals[p][k]
      BY <2>1, <3>1, <3>2
    <3> QED
      BY <1>2, <3>2, <3>3 DEF IsTree, Tree, Down
  <2> QED
    BY <1>2, <2>2, <2>3
<1> QED
  BY <1>1, <1>2

\* A page's entries after a split.
LEMMA SplitSizes ==
    ASSUME NEW p, NEW x \in Nat, Len(vals'[p]) = x, NEW c, p \in leaves' <=> c \in leaves,
           p # root', x >= MinSize(c), x <= MaxSize(c)
    PROVE  Fits(p)'
<1>1. MaxSize(p)' = MaxSize(c) /\ MinSize(p)' = MinSize(c)
  BY DEF MaxSize, MinSize
<1> QED
  BY <1>1 DEF Fits, Size

\* Where the elements are once another is put in.
LEMMA InsertedShift ==
    ASSUME NEW s, NEW t, NEW w \in Nat, Len(s) = w, NEW i \in 1 .. w + 1, NEW e,
           Inserted(t, s, i, e)
    PROVE  /\ Len(t) = w + 1 /\ t[i] = e
           /\ \A j \in 1 .. i - 1 : t[j] = s[j]
           /\ \A j \in i .. w : t[j + 1] = s[j]
<1>1. /\ Len(t) = w + 1
      /\ \A j \in 1 .. w + 1 : t[j] = IF j < i THEN s[j] ELSE IF j = i THEN e ELSE s[j - 1]
  BY DEF Inserted
<1>2. t[i] = e /\ \A j \in 1 .. i - 1 : t[j] = s[j]
  BY <1>1
<1>3. ASSUME NEW j \in i .. w PROVE t[j + 1] = s[j]
  <2>1. PICK x \in 1 .. w + 1 : x = j + 1 /\ ~(x < i) /\ x # i /\ x - 1 = j
    OBVIOUS
  <2> QED
    BY <1>1, <2>1
<1> QED
  BY <1>1, <1>2, <1>3

\* A page gets a right neighbour, which its parent has room for or not.
LEMMA SplitPageStep ==
    ASSUME Inv, SplitPage
    PROVE  Inv' /\ Pairs' = Pairs
<1>1. PICK c : c = cur
  OBVIOUS
<1>2. PICK up : up = parent[c]
  OBVIOUS
<1>3. PICK i : i = ValueIndex(vals[up], c)
  OBVIOUS
<1>4. PICK held : held = IF Size(up) + 1 <= MaxSize(up) THEN {} ELSE {up}
  OBVIOUS
<1>5. PICK right \in PageIds :
         /\ NewPage(right, pages)
         /\ SplitOff(right, {})
         /\ keys' = [keys EXCEPT ![c] = LowerKeys(c), ![right] = UpperKeys(c),
                                 ![up] = S!InsertAt(@, i, MiddleKey(c))]
         /\ vals' = [vals EXCEPT ![c] = LowerVals(c), ![right] = UpperVals(c),
                                 ![up] = S!InsertAt(@, i + 1, right)]
         /\ parent' = Adopt(Adopt(parent, MovedUp(c), right), {right}, up)
         /\ Fetching({{right, x} : x \in MovedUp(c)} \cup {{right, up}})
         /\ pins' = Unpin(Fetch(pins, {right, up}), {c, right, up} \ held)
  BY <1>1, <1>2, <1>3, <1>4 DEF SplitPage
<1>6. /\ loc = "overflow" /\ ~IsRoot(c) /\ root' = root
      /\ IF held = {} THEN loc' = "idle" /\ cur' = INVALID_PAGE_ID /\ due' = {}
         ELSE loc' = "overflow" /\ cur' = up /\ due' = due
  BY <1>1, <1>2, <1>4 DEF SplitPage, Return, GoTo, Stay
<1>7. PICK le, lo, hi : IsTree(le, lo, hi)
  BY <1>6, TreeThere
<1>8. /\ c \in pages /\ starved = FALSE /\ pins = Pinned({c}) /\ Size(c) = MaxSize(c) + 1
  BY <1>1, <1>6, CourseFacts DEF Inv, Course
<1>9. /\ root \in pages /\ pages \subseteq PageIds /\ leaves \subseteq pages /\ c \in PageIds
      /\ INVALID_PAGE_ID \notin PageIds
      /\ parent \in [PageIds -> AnyId]
      /\ keys \in [PageIds -> Seq(Keys)] /\ vals \in [PageIds -> Seq(PageVals)]
      /\ \A p \in PageIds : p \notin pages => parent[p] = INVALID_PAGE_ID
      /\ c # root
  BY <1>6, <1>7, <1>8, TreeTypes
<1>10. /\ up \in pages /\ up \notin leaves /\ up # c /\ up \in PageIds
       /\ \E j \in 1 .. Len(vals[up]) : vals[up][j] = c
  BY <1>2, <1>7, <1>8, <1>9, ParentThere
<1>11. right \notin pages /\ right # c /\ right # up
  BY <1>5, <1>8, <1>10 DEF NewPage
<1>12. PICK w \in Nat : w = Len(vals[up])
  BY <1>9, <1>10
<1>13. Len(keys[up]) = w - 1 /\ w >= 1
  <2>1. Len(keys[up]) = w - 1
    BY <1>7, <1>10, <1>12 DEF IsTree, Tree, Counted
  <2>2. 1 .. w # {}
    BY <1>10, <1>12
  <2> QED
    BY <1>12, <2>1, <2>2
<1>14. i \in 1 .. w /\ vals[up][i] = c
  <2>1. PICK j \in 1 .. Len(vals[up]) : vals[up][j] = c
    BY <1>10
  <2>2. vals[up] \in Seq(PageVals)
    BY <1>9, <1>10
  <2>3. i \in 1 .. Len(vals[up]) /\ vals[up][i] = c
    BY <1>3, <2>1, <2>2, ValueIndexFinds
  <2> QED
    BY <1>12, <2>3
<1>15. w \in Nat /\ i \in 1 .. w /\ w >= 1
  BY <1>12, <1>13, <1>14
<1>16. PICK n, r : /\ Halves(c, n, r, MiddleKey(c))
                   /\ n >= MinSize(c) /\ n <= MaxSize(c) /\ r >= MinSize(c) /\ r <= MaxSize(c)
  BY <1>7, <1>8, SplitHalves
<1>17. PICK m : m = MiddleKey(c)
  OBVIOUS
<1>18. /\ n \in Nat /\ r \in Nat /\ n >= 1 /\ r >= 1 /\ m \in Keys
       /\ LowerVals(c) \in Seq(PageVals) /\ UpperVals(c) \in Seq(PageVals)
       /\ LowerKeys(c) \in Seq(Keys) /\ UpperKeys(c) \in Seq(Keys)
       /\ Len(LowerVals(c)) = n /\ Len(UpperVals(c)) = r
  BY <1>16, <1>17 DEF Halves
<1>19. PICK ku \in Seq(Keys) : /\ ku = S!InsertAt(keys[up], i, m)
                               /\ Inserted(ku, keys[up], i, m)
  <2>1. keys[up] \in Seq(Keys) /\ i \in 1 .. Len(keys[up]) + 1
    BY <1>9, <1>10, <1>12, <1>13, <1>14
  <2> QED
    BY <1>18, <2>1, InsertAtProperties
<1>20. PICK vu \in Seq(PageVals) : /\ vu = S!InsertAt(vals[up], i + 1, right)
                                   /\ Inserted(vu, vals[up], i + 1, right)
  <2>1. vals[up] \in Seq(PageVals) /\ i + 1 \in 1 .. Len(vals[up]) + 1 /\ right \in PageVals
    BY <1>9, <1>10, <1>12, <1>14 DEF PageVals
  <2> QED
    BY <2>1, InsertAtProperties
<1>21. /\ keys' \in [PageIds -> Seq(Keys)]
       /\ keys'[c] = LowerKeys(c) /\ keys'[right] = UpperKeys(c) /\ keys'[up] = ku
       /\ \A p \in PageIds : p # c /\ p # right /\ p # up => keys'[p] = keys[p]
  <2>1. keys' = [keys EXCEPT ![c] = LowerKeys(c), ![right] = UpperKeys(c), ![up] = ku]
    BY <1>5, <1>9, <1>10, <1>11, <1>17, <1>19
  <2> QED
    BY <1>9, <1>10, <1>11, <1>18, <2>1
<1>22. /\ vals' \in [PageIds -> Seq(PageVals)]
       /\ vals'[c] = LowerVals(c) /\ vals'[right] = UpperVals(c) /\ vals'[up] = vu
       /\ \A p \in PageIds : p # c /\ p # right /\ p # up => vals'[p] = vals[p]
  <2>1. vals' = [vals EXCEPT ![c] = LowerVals(c), ![right] = UpperVals(c), ![up] = vu]
    BY <1>5, <1>9, <1>10, <1>11, <1>20
  <2> QED
    BY <1>9, <1>10, <1>11, <1>18, <2>1
<1>23. /\ leaves' = IF c \in leaves THEN leaves \cup {right} ELSE leaves
       /\ pages' = pages \cup {right}
       /\ next' \in [PageIds -> AnyId]
       /\ c \in leaves => next'[c] = right /\ next'[right] = next[c]
       /\ \A p \in pages : p # c \/ c \notin leaves => next'[p] = next[p]
       /\ \A p \in PageIds : p \notin leaves' => next'[p] = INVALID_PAGE_ID
  <2>1. pages \cup {right} \cup {} = pages \cup {right}
    OBVIOUS
  <2> QED
    BY <1>1, <1>5, <1>7, <1>8, <1>11, <2>1, SplitOffChain
<1>24. /\ MovedUp(c) \subseteq pages
       /\ \A x : x \in MovedUp(c) <=> c \notin leaves /\ \E j \in 1 .. r : UpperVals(c)[j] = x
       /\ \A x \in MovedUp(c) : parent[x] = c
  BY <1>7, <1>8, <1>16, MovedUpAre
<1>25. /\ parent' \in [PageIds -> AnyId] /\ parent'[right] = up
       /\ \A p \in PageIds : p # right => parent'[p] = IF p \in MovedUp(c) THEN right ELSE parent[p]
  BY <1>5, <1>9, <1>10 DEF Adopt, AnyId
<1>26. Typed(root, pages', leaves', parent', next', keys', vals')
  BY <1>9, <1>21, <1>22, <1>23, <1>24, <1>25 DEF Typed
<1>27. Contents(c, right, up, i, m, n, r, w, pages, leaves, keys, vals, keys', vals')
  <2>1. /\ Len(vals[c]) = n + r /\ Len(vals'[c]) = n /\ Len(vals'[right]) = r
        /\ \A j \in 1 .. n : vals'[c][j] = vals[c][j]
        /\ \A j \in 1 .. r : vals'[right][j] = vals[c][n + j]
    BY <1>16, <1>22 DEF Halves
  <2>2. c \in leaves => /\ Len(keys[c]) = n + r /\ Len(keys'[c]) = n /\ Len(keys'[right]) = r
                        /\ \A j \in 1 .. n : keys'[c][j] = keys[c][j]
                        /\ \A j \in 1 .. r : keys'[right][j] = keys[c][n + j]
    BY <1>16, <1>21 DEF Halves
  <2>3. c \notin leaves => /\ keys[c][n] = m /\ Len(keys[c]) = n + r - 1
                           /\ Len(keys'[c]) = n - 1 /\ Len(keys'[right]) = r - 1
                           /\ \A j \in 1 .. n - 1 : keys'[c][j] = keys[c][j]
                           /\ \A j \in 1 .. r - 1 : keys'[right][j] = keys[c][n + j]
    BY <1>16, <1>17, <1>21 DEF Halves
  <2>4. /\ Len(vals'[up]) = w + 1 /\ vals'[up][i + 1] = right
        /\ \A j \in 1 .. i : vals'[up][j] = vals[up][j]
        /\ \A j \in i + 1 .. w : vals'[up][j + 1] = vals[up][j]
    <3>1. PICK x \in 1 .. w + 1 : x = i + 1 /\ x - 1 = i
      BY <1>15
    <3>2. Inserted(vu, vals[up], x, right) /\ Len(vals[up]) = w
      BY <1>12, <1>20, <3>1
    <3>3. /\ Len(vu) = w + 1 /\ vu[x] = right
          /\ \A j \in 1 .. x - 1 : vu[j] = vals[up][j]
          /\ \A j \in x .. w : vu[j + 1] = vals[up][j]
      BY <1>15, <3>1, <3>2, InsertedShift, SMTT(30)
    <3>4. vals'[up] = vu /\ i + 1 .. w = x .. w
      BY <1>22, <3>1
    <3> QED
      BY <3>1, <3>3, <3>4
  <2>5. /\ Len(keys'[up]) = w /\ keys'[up][i] = m
        /\ \A j \in 1 .. i - 1 : keys'[up][j] = keys[up][j]
        /\ \A j \in i .. w - 1 : keys'[up][j + 1] = keys[up][j]
    <3>1. PICK x : x = w - 1
      OBVIOUS
    <3>2. x \in Nat /\ i \in 1 .. x + 1
      BY <1>15, <3>1
    <3>3. Inserted(ku, keys[up], i, m) /\ Len(keys[up]) = x
      BY <1>13, <1>19, <3>1
    <3>4. /\ Len(ku) = x + 1 /\ ku[i] = m
          /\ \A j \in 1 .. i - 1 : ku[j] = keys[up][j]
          /\ \A j \in i .. x : ku[j + 1] = keys[up][j]
      BY <3>2, <3>3, InsertedShift
    <3>5. x + 1 = w /\ keys'[up] = ku
      BY <1>15, <1>21, <3>1
    <3> QED
      BY <3>1, <3>4, <3>5
  <2>6. \A p \in pages : p # c /\ p # up => keys'[p] = keys[p] /\ vals'[p] = vals[p]
    BY <1>9, <1>11, <1>21, <1>22
  <2> QED
    BY <1>12, <1>13, <1>14, <1>18, <2>1, <2>2, <2>3, <2>4, <2>5, <2>6 DEF Contents
<1>28. Links(c, right, up, r, pages, leaves, parent, next, parent', next', vals')
  <2>1. \A p \in pages : parent'[p] = IF c \notin leaves /\ \E j \in 1 .. r : vals'[right][j] = p
                                      THEN right ELSE parent[p]
    <3> SUFFICES ASSUME NEW p \in pages
                 PROVE  parent'[p] = IF c \notin leaves /\ \E j \in 1 .. r : vals'[right][j] = p
                                     THEN right ELSE parent[p]
      OBVIOUS
    <3>1. p \in PageIds /\ p # right /\ vals'[right] = UpperVals(c)
      BY <1>9, <1>11, <1>22
    <3>2. p \in MovedUp(c) <=> c \notin leaves /\ \E j \in 1 .. r : vals'[right][j] = p
      BY <1>24, <3>1
    <3>3. parent'[p] = IF p \in MovedUp(c) THEN right ELSE parent[p]
      BY <1>25, <3>1
    <3> QED
      BY <3>2, <3>3
  <2> QED
    BY <1>23, <1>25, <2>1 DEF Links
<1>29. Joins(c, right, up, i, m, n, r, w, pages, leaves, parent, next, keys, vals,
             pages', leaves', parent', next', keys', vals')
  BY <1>8, <1>10, <1>11, <1>18, <1>23, <1>27, <1>28 DEF Joins
<1>30. c \in leaves => m = keys'[right][1]
  BY <1>16, <1>17, <1>21 DEF Halves
<1>31. PICK le2, lo2, hi2 : Tree(root, pages', leaves', parent', next', keys', vals', le2, lo2, hi2)
  <2>1. n >= 1 /\ r >= 1
    BY <1>18
  <2>2. Tree(root, pages, leaves, parent, next, keys, vals, le, lo, hi)
    BY <1>7 DEF IsTree
  <2>3. Tree(root, pages', leaves', parent', next', keys', vals',
             [le EXCEPT ![right] = le[c]], [lo EXCEPT ![right] = From(m)],
             [hi EXCEPT ![c] = From(m), ![right] = hi[c]])
    BY <1>26, <1>29, <1>30, <2>1, <2>2, SplitKeepsTree
  <2> QED
    BY <2>3
<1>32. IsTree(le2, lo2, hi2)'
  BY <1>6, <1>31 DEF IsTree
<1>33. Pairs' = Pairs
  <2>1. LeafPairs(leaves, keys, vals) = LeafPairs(leaves', keys', vals')
    BY <1>9, <1>29, JoinsKeepPairs
  <2>2. Pairs' = LeafPairs(leaves', keys', vals')
    BY DEF Pairs, LeafPairs
  <2> QED
    BY <2>1, <2>2, PairsAre
<1>34. (Pairs \subseteq Entries)'
  BY <1>33 DEF Inv
<1>35. starved' = FALSE
  <2>1. AtMostFour({c}, {{right, x} : x \in MovedUp(c)} \cup {{right, up}})
    <3> SUFFICES ASSUME NEW set \in {{right, x} : x \in MovedUp(c)} \cup {{right, up}}
                 PROVE  \E a, b, x, y : {c} \cup set \subseteq {a, b, x, y}
      BY DEF AtMostFour
    <3>1. PICK x : set = {right, x}
      OBVIOUS
    <3>2. {c} \cup set \subseteq {c, right, x, x}
      BY <3>1
    <3> QED
      BY <3>2
  <2> QED
    BY <1>5, <1>8, <2>1, FetchingFits
<1>36. pins' = Pinned(held)
  <2>1. Fetch(Pinned({c}), {right, up}) = Pinned({c} \cup {right, up})
    <3>1. {c} \cap {right, up} = {}
      BY <1>10, <1>11
    <3> QED
      BY <3>1, PinnedFacts
  <2>2. PICK X : X = {c, right, up} \ held
    OBVIOUS
  <2>3. X \subseteq {c} \cup {right, up} /\ ({c} \cup {right, up}) \ X = held
    BY <1>4, <2>2
  <2>4. Unpin(Pinned({c} \cup {right, up}), X) = Pinned(({c} \cup {right, up}) \ X)
    BY <2>3, PinnedFacts
  <2> QED
    BY <1>5, <1>8, <2>1, <2>2, <2>3, <2>4
<1>37. \A p \in pages' : p # up => Fits(p)'
  <2>1. Fits(c)'
    <3>1. c \in leaves' <=> c \in leaves
      BY <1>11, <1>23
    <3>2. Len(vals'[c]) = n /\ c # root'
      BY <1>6, <1>9, <1>18, <1>22
    <3> QED
      BY <1>16, <1>18, <3>1, <3>2, SplitSizes
  <2>2. Fits(right)'
    <3>1. right \in leaves' <=> c \in leaves
      BY <1>9, <1>11, <1>23
    <3>2. Len(vals'[right]) = r /\ right # root'
      BY <1>6, <1>9, <1>11, <1>18, <1>22
    <3> QED
      BY <1>16, <1>18, <3>1, <3>2, SplitSizes
  <2>3. ASSUME NEW p \in pages, p # c, p # up PROVE Fits(p)'
    <3>1. Fits(p)
      BY <1>1, <2>3, OthersFit
    <3>2. Len(vals'[p]) = Len(vals[p]) /\ (p \in leaves' <=> p \in leaves)
      BY <1>9, <1>11, <1>22, <1>23, <2>3
    <3> QED
      BY <1>6, <3>1, <3>2, FitsSame
  <2> QED
    BY <1>23, <2>1, <2>2, <2>3
<1>38. /\ Fits(up) /\ Size(up) = w /\ MaxSize(up) \in Nat /\ MinSize(up) \in Nat
       /\ MaxSize(up)' = MaxSize(up) /\ MinSize(up)' = MinSize(up) /\ Size(up)' = w + 1
       /\ w <= MaxSize(up)
  <2>1. Fits(up) /\ Size(up) = w
    BY <1>1, <1>10, <1>12, OthersFit DEF Size
  <2>2. up \notin leaves'
    BY <1>9, <1>10, <1>11, <1>23
  <2>3. Size(up)' = w + 1
    BY <1>12, <1>20, <1>22 DEF Inserted, Size
  <2> QED
    BY <1>10, <2>1, <2>2, <2>3, SizeFacts DEF Fits, MaxSize, MinSize
<1>39. due' \in UpSets
  BY <1>6, CourseFacts, UpSetFacts
<1>40. CASE Size(up) + 1 <= MaxSize(up)
  <2>1. held = {} /\ loc' = "idle" /\ cur' = INVALID_PAGE_ID /\ pins' = Pinned({})
    BY <1>4, <1>6, <1>36, <1>40
  <2>2. Course'
    BY <1>35, <2>1, CourseAfter
  <2>3. Fits(up)'
    <3>1. PICK k \in Nat : k = IF up # root THEN MinSize(up) ELSE IF up \in leaves THEN 1 ELSE 2
      BY SizeFacts
    <3>2. w >= k
      BY <1>38, <3>1 DEF Fits
    <3>3. Size(up)' >= k /\ Size(up)' <= MaxSize(up)
      BY <1>12, <1>38, <1>40, <3>2
    <3>4. up \notin leaves' /\ up \notin leaves
      BY <1>9, <1>10, <1>11, <1>23
    <3> QED
      BY <1>6, <1>38, <3>1, <3>3, <3>4 DEF Fits
  <2>4. Sizes'
    BY <1>37, <2>3 DEF Sizes, SizeOK
  <2>5. Inv'
    BY <1>32, <1>34, <1>39, <2>1, <2>2, <2>4, ChangeKeepsInv
  <2> QED
    BY <1>33, <2>5
<1>41. CASE ~(Size(up) + 1 <= MaxSize(up))
  <2>1. held = {up} /\ loc' = "overflow" /\ cur' = up /\ pins' = Pinned({cur'}) /\ cur' \in pages'
    BY <1>4, <1>6, <1>10, <1>23, <1>36, <1>41
  <2>2. Size(up)' = MaxSize(up)' + 1
    <3>1. MaxSize(up) \in Nat /\ w <= MaxSize(up) /\ ~(w + 1 <= MaxSize(up)) /\ w \in Nat
      BY <1>12, <1>38, <1>41
    <3>2. w = MaxSize(up)
      BY <3>1
    <3> QED
      BY <1>38, <3>2
  <2>3. Size(cur)' = MaxSize(cur)' + 1
    BY <2>1, <2>2 DEF Size, MaxSize
  <2>4. Course'
    BY <1>35, <2>1, <2>3, CourseAfter
  <2>5. Sizes'
    BY <1>37, <2>1, <2>2 DEF Sizes, SizeOK
  <2>6. Inv'
    BY <1>32, <1>34, <1>39, <2>1, <2>4, <2>5, ChangeKeepsInv
  <2> QED
    BY <1>33, <2>6
<1> QED
  BY <1>40, <1>41

\* The same entries are the same pairs.
LEMMA SamePairs ==
    ASSUME NEW lv, NEW ks1, NEW vs1, NEW ks2, NEW vs2,
           \A p \in lv : ks1[p] = ks2[p] /\ vs1[p] = vs2[p]
    PROVE  LeafPairs(lv, ks1, vs1) = LeafPairs(lv, ks2, vs2)
<1>1. ASSUME NEW e \in LeafPairs(lv, ks1, vs1) PROVE e \in LeafPairs(lv, ks2, vs2)
  <2>1. PICK p, j : p \in lv /\ j \in 1 .. Len(ks1[p]) /\ e = <<ks1[p][j], vs1[p][j]>>
    BY LeafPairsMember
  <2>2. j \in 1 .. Len(ks2[p]) /\ e = <<ks2[p][j], vs2[p][j]>>
    BY <2>1
  <2> QED
    BY <2>1, <2>2, LeafPairsMember
<1>2. ASSUME NEW e \in LeafPairs(lv, ks2, vs2) PROVE e \in LeafPairs(lv, ks1, vs1)
  <2>1. PICK p, j : p \in lv /\ j \in 1 .. Len(ks2[p]) /\ e = <<ks2[p][j], vs2[p][j]>>
    BY LeafPairsMember
  <2>2. j \in 1 .. Len(ks1[p]) /\ e = <<ks1[p][j], vs1[p][j]>>
    BY <2>1
  <2> QED
    BY <2>1, <2>2, LeafPairsMember
<1> QED
  BY <1>1, <1>2

\* The root is split under a new root.
LEMMA SplitRootStep ==
    ASSUME Inv, SplitRoot
    PROVE  Inv' /\ Pairs' = Pairs
<1>1. PICK c : c = cur
  OBVIOUS
<1>2. PICK right, top :
         /\ right \in PageIds /\ top \in PageIds
         /\ NewPage(right, pages) /\ NewPage(top, pages \cup {right})
         /\ SplitOff(right, {top}) /\ root' = top
         /\ keys' = [keys EXCEPT ![c] = LowerKeys(c), ![right] = UpperKeys(c),
                                 ![top] = <<MiddleKey(c)>>]
         /\ vals' = [vals EXCEPT ![c] = LowerVals(c), ![right] = UpperVals(c),
                                 ![top] = <<c, right>>]
         /\ parent' = Adopt(Adopt(parent, MovedUp(c), right), {c, right}, top)
         /\ Fetching({{right, x} : x \in MovedUp(c)} \cup {{right, top}})
         /\ pins' = Unpin(Fetch(pins, {right, top}), {c, right, top})
  BY <1>1 DEF SplitRoot
<1>3. /\ loc = "overflow" /\ IsRoot(c)
      /\ loc' = "idle" /\ cur' = INVALID_PAGE_ID /\ due' = {}
  BY <1>1 DEF SplitRoot, Return, GoTo
<1>4. PICK le, lo, hi : IsTree(le, lo, hi)
  BY <1>3, TreeThere
<1>5. /\ c \in pages /\ starved = FALSE /\ pins = Pinned({c}) /\ Size(c) = MaxSize(c) + 1
  BY <1>1, <1>3, CourseFacts DEF Inv, Course
<1>6. /\ pages \subseteq PageIds /\ leaves \subseteq pages /\ c \in PageIds
      /\ INVALID_PAGE_ID \notin PageIds
      /\ parent \in [PageIds -> AnyId] /\ next \in [PageIds -> AnyId]
      /\ keys \in [PageIds -> Seq(Keys)] /\ vals \in [PageIds -> Seq(PageVals)]
      /\ \A p \in PageIds : p \notin pages => parent[p] = INVALID_PAGE_ID
      /\ \A p \in PageIds : p \notin leaves => next[p] = INVALID_PAGE_ID
      /\ c = root /\ parent[c] = INVALID_PAGE_ID
  BY <1>3, <1>4, <1>5, TreeTypes DEF IsRoot
<1>7. /\ right \notin pages /\ top \notin pages /\ right # top /\ right # c /\ top # c
      /\ right \in PageIds /\ top \in PageIds
  BY <1>2, <1>5 DEF NewPage
<1>8. PICK n, r : /\ Halves(c, n, r, MiddleKey(c))
                  /\ n >= MinSize(c) /\ n <= MaxSize(c) /\ r >= MinSize(c) /\ r <= MaxSize(c)
  BY <1>4, <1>5, SplitHalves
<1>9. PICK m : m = MiddleKey(c)
  OBVIOUS
<1>10. /\ n \in Nat /\ r \in Nat /\ n >= 1 /\ r >= 1 /\ m \in Keys
       /\ LowerVals(c) \in Seq(PageVals) /\ UpperVals(c) \in Seq(PageVals)
       /\ LowerKeys(c) \in Seq(Keys) /\ UpperKeys(c) \in Seq(Keys)
       /\ Len(LowerVals(c)) = n /\ Len(UpperVals(c)) = r
  BY <1>8, <1>9 DEF Halves
<1>11. PICK kt \in Seq(Keys) : kt = <<m>> /\ Len(kt) = 1 /\ kt[1] = m
  <2>1. <<m>> \in Seq(Keys) /\ Len(<<m>>) = 1 /\ <<m>>[1] = m
    BY <1>10
  <2> QED
    BY <2>1
<1>12. PICK vt \in Seq(PageVals) : vt = <<c, right>> /\ Len(vt) = 2 /\ vt[1] = c /\ vt[2] = right
  <2>1. c \in PageVals /\ right \in PageVals
    BY <1>6, <1>7 DEF PageVals
  <2>2. /\ <<c, right>> \in Seq(PageVals) /\ Len(<<c, right>>) = 2
        /\ <<c, right>>[1] = c /\ <<c, right>>[2] = right
    BY <2>1
  <2> QED
    BY <2>2
<1>13. PICK v1 \in Seq(PageVals) : Len(v1) = 1 /\ v1[1] = c
  <2>1. <<c>> \in Seq(PageVals) /\ Len(<<c>>) = 1 /\ <<c>>[1] = c
    BY <1>6 DEF PageVals
  <2> QED
    BY <2>1
<1>14. PICK k1 \in Seq(Keys) : Len(k1) = 0
  <2>1. << >> \in Seq(Keys) /\ Len(<< >>) = 0
    OBVIOUS
  <2> QED
    BY <2>1
<1>15. /\ keys' \in [PageIds -> Seq(Keys)]
       /\ keys'[c] = LowerKeys(c) /\ keys'[right] = UpperKeys(c) /\ keys'[top] = kt
       /\ \A p \in PageIds : p # c /\ p # right /\ p # top => keys'[p] = keys[p]
  <2>1. keys' = [keys EXCEPT ![c] = LowerKeys(c), ![right] = UpperKeys(c), ![top] = kt]
    BY <1>2, <1>9, <1>11
  <2> QED
    BY <1>6, <1>7, <1>10, <2>1
<1>16. /\ vals' \in [PageIds -> Seq(PageVals)]
       /\ vals'[c] = LowerVals(c) /\ vals'[right] = UpperVals(c) /\ vals'[top] = vt
       /\ \A p \in PageIds : p # c /\ p # right /\ p # top => vals'[p] = vals[p]
  <2>1. vals' = [vals EXCEPT ![c] = LowerVals(c), ![right] = UpperVals(c), ![top] = vt]
    BY <1>2, <1>12
  <2> QED
    BY <1>6, <1>7, <1>10, <2>1
<1>17. /\ leaves' = IF c \in leaves THEN leaves \cup {right} ELSE leaves
       /\ pages' = pages \cup {right} \cup {top}
       /\ next' \in [PageIds -> AnyId]
       /\ c \in leaves => next'[c] = right /\ next'[right] = next[c]
       /\ \A p \in pages : p # c \/ c \notin leaves => next'[p] = next[p]
       /\ \A p \in PageIds : p \notin leaves' => next'[p] = INVALID_PAGE_ID
  BY <1>1, <1>2, <1>4, <1>5, <1>7, SplitOffChain
<1>18. /\ MovedUp(c) \subseteq pages
       /\ \A x : x \in MovedUp(c) <=> c \notin leaves /\ \E j \in 1 .. r : UpperVals(c)[j] = x
       /\ \A x \in MovedUp(c) : parent[x] = c
  BY <1>4, <1>5, <1>8, MovedUpAre
<1>19. /\ parent' \in [PageIds -> AnyId] /\ parent'[right] = top /\ parent'[c] = top
       /\ \A p \in PageIds : p # right /\ p # c =>
             parent'[p] = IF p \in MovedUp(c) THEN right ELSE parent[p]
  BY <1>2, <1>6, <1>7 DEF Adopt, AnyId
<1>20. Typed(top, pages', leaves', parent', next', keys', vals')
  <2>1. pages' \subseteq PageIds /\ leaves' \subseteq pages' /\ top \in pages'
    BY <1>6, <1>7, <1>17
  <2>2. \A p \in PageIds : p \notin pages' => parent'[p] = INVALID_PAGE_ID
    BY <1>5, <1>6, <1>17, <1>18, <1>19
  <2> QED
    BY <1>15, <1>16, <1>17, <1>19, <2>1, <2>2 DEF Typed
<1>21. PICK ps1 : ps1 = pages \cup {top}
  OBVIOUS
<1>22. PICK pa1 : pa1 = [parent EXCEPT ![c] = top]
  OBVIOUS
<1>23. PICK ks1 : ks1 = [keys EXCEPT ![top] = k1]
  OBVIOUS
<1>24. PICK vs1 : vs1 = [vals EXCEPT ![top] = v1]
  OBVIOUS
<1>25. /\ pa1 \in [PageIds -> AnyId] /\ pa1[c] = top
       /\ \A p \in PageIds : p # c => pa1[p] = parent[p]
  BY <1>6, <1>7, <1>22 DEF AnyId
<1>26. /\ ks1 \in [PageIds -> Seq(Keys)] /\ ks1[top] = k1
       /\ \A p \in PageIds : p # top => ks1[p] = keys[p]
  BY <1>6, <1>7, <1>14, <1>23
<1>27. /\ vs1 \in [PageIds -> Seq(PageVals)] /\ vs1[top] = v1
       /\ \A p \in PageIds : p # top => vs1[p] = vals[p]
  BY <1>6, <1>7, <1>13, <1>24
<1>28. Typed(top, ps1, leaves, pa1, next, ks1, vs1)
  BY <1>5, <1>6, <1>7, <1>21, <1>25, <1>26, <1>27 DEF Typed
<1>29. Topped(top, c, pages, leaves, parent, next, keys, vals, ps1, leaves, pa1, next, ks1, vs1)
  <2>1. pa1[top] = INVALID_PAGE_ID
    BY <1>6, <1>7, <1>25
  <2>2. \A p \in pages : p # c => pa1[p] = parent[p]
    BY <1>6, <1>25
  <2>3. \A p \in pages : next[p] = next[p] /\ ks1[p] = keys[p] /\ vs1[p] = vals[p]
    BY <1>6, <1>7, <1>26, <1>27
  <2>4. Len(vs1[top]) = 1 /\ vs1[top][1] = c /\ Len(ks1[top]) = 0
    BY <1>13, <1>14, <1>26, <1>27
  <2> QED
    BY <1>5, <1>6, <1>7, <1>21, <1>25, <2>1, <2>2, <2>3, <2>4 DEF Topped
<1>30. PICK le1, lo1, hi1 : Tree(top, ps1, leaves, pa1, next, ks1, vs1, le1, lo1, hi1)
  <2>1. Tree(c, pages, leaves, parent, next, keys, vals, le, lo, hi)
    BY <1>4, <1>6 DEF IsTree
  <2>2. Tree(top, ps1, leaves, pa1, next, ks1, vs1,
             [le EXCEPT ![top] = le[c] + 1], [lo EXCEPT ![top] = Keys], [hi EXCEPT ![top] = {}])
    BY <1>28, <1>29, <2>1, ToppedIsTree
  <2> QED
    BY <2>2
<1>31. Contents(c, right, top, 1, m, n, r, 1, ps1, leaves, ks1, vs1, keys', vals')
  <2>0. ks1[c] = keys[c] /\ vs1[c] = vals[c]
    BY <1>6, <1>7, <1>26, <1>27
  <2>1. /\ Len(vs1[c]) = n + r /\ Len(vals'[c]) = n /\ Len(vals'[right]) = r
        /\ \A j \in 1 .. n : vals'[c][j] = vs1[c][j]
        /\ \A j \in 1 .. r : vals'[right][j] = vs1[c][n + j]
    BY <1>8, <1>16, <2>0 DEF Halves
  <2>2. c \in leaves => /\ Len(ks1[c]) = n + r /\ Len(keys'[c]) = n /\ Len(keys'[right]) = r
                        /\ \A j \in 1 .. n : keys'[c][j] = ks1[c][j]
                        /\ \A j \in 1 .. r : keys'[right][j] = ks1[c][n + j]
    BY <1>8, <1>15, <2>0 DEF Halves
  <2>3. c \notin leaves => /\ ks1[c][n] = m /\ Len(ks1[c]) = n + r - 1
                           /\ Len(keys'[c]) = n - 1 /\ Len(keys'[right]) = r - 1
                           /\ \A j \in 1 .. n - 1 : keys'[c][j] = ks1[c][j]
                           /\ \A j \in 1 .. r - 1 : keys'[right][j] = ks1[c][n + j]
    BY <1>8, <1>9, <1>15, <2>0 DEF Halves
  <2>4. /\ Len(vs1[top]) = 1 /\ Len(vals'[top]) = 1 + 1 /\ Len(ks1[top]) = 1 - 1 /\ Len(keys'[top]) = 1
        /\ vs1[top][1] = c /\ vals'[top][1 + 1] = right /\ keys'[top][1] = m
        /\ vals'[top][1] = vs1[top][1]
    BY <1>11, <1>12, <1>13, <1>14, <1>15, <1>16, <1>26, <1>27
  <2>5. /\ \A j \in 1 .. 1 : vals'[top][j] = vs1[top][j]
        /\ \A j \in 1 + 1 .. 1 : vals'[top][j + 1] = vs1[top][j]
        /\ \A j \in 1 .. 1 - 1 : keys'[top][j] = ks1[top][j]
        /\ \A j \in 1 .. 1 - 1 : keys'[top][j + 1] = ks1[top][j]
    BY <2>4
  <2>6. \A p \in ps1 : p # c /\ p # top => keys'[p] = ks1[p] /\ vals'[p] = vs1[p]
    BY <1>6, <1>7, <1>15, <1>16, <1>21, <1>26, <1>27
  <2> QED
    BY <1>10, <2>1, <2>2, <2>3, <2>4, <2>5, <2>6 DEF Contents
<1>32. Links(c, right, top, r, ps1, leaves, pa1, next, parent', next', vals')
  <2>1. \A p \in ps1 : parent'[p] = IF c \notin leaves /\ \E j \in 1 .. r : vals'[right][j] = p
                                    THEN right ELSE pa1[p]
    <3> SUFFICES ASSUME NEW p \in ps1
                 PROVE  parent'[p] = IF c \notin leaves /\ \E j \in 1 .. r : vals'[right][j] = p
                                     THEN right ELSE pa1[p]
      OBVIOUS
    <3>1. p \in PageIds /\ p # right /\ vals'[right] = UpperVals(c)
      BY <1>6, <1>7, <1>16, <1>21
    <3>2. p \in MovedUp(c) <=> c \notin leaves /\ \E j \in 1 .. r : vals'[right][j] = p
      BY <1>18, <3>1
    <3>3. parent'[p] = IF p \in MovedUp(c) THEN right ELSE pa1[p]
      <4>1. c \notin MovedUp(c)
        BY <1>6, <1>18
      <4> QED
        BY <1>19, <1>25, <3>1, <4>1
    <3> QED
      BY <3>2, <3>3
  <2>2. \A p \in ps1 : p # c \/ c \notin leaves => next'[p] = next[p]
    <3>1. top \notin leaves' /\ top \notin leaves
      BY <1>6, <1>7, <1>17
    <3> QED
      BY <1>6, <1>7, <1>17, <1>21, <3>1
  <2> QED
    BY <1>17, <1>19, <2>1, <2>2 DEF Links
<1>33. Joins(c, right, top, 1, m, n, r, 1, ps1, leaves, pa1, next, ks1, vs1,
             pages', leaves', parent', next', keys', vals')
  <2>1. /\ c \in ps1 /\ top \in ps1 /\ top \notin leaves /\ right \notin ps1
        /\ pages' = ps1 \cup {right}
    BY <1>5, <1>6, <1>7, <1>17, <1>21
  <2> QED
    BY <1>7, <1>10, <1>17, <1>31, <1>32, <2>1 DEF Joins
<1>34. c \in leaves => m = keys'[right][1]
  BY <1>8, <1>9, <1>15 DEF Halves
<1>35. PICK le2, lo2, hi2 : Tree(top, pages', leaves', parent', next', keys', vals', le2, lo2, hi2)
  <2>1. n >= 1 /\ r >= 1
    BY <1>10
  <2>2. Tree(top, pages', leaves', parent', next', keys', vals',
             [le1 EXCEPT ![right] = le1[c]], [lo1 EXCEPT ![right] = From(m)],
             [hi1 EXCEPT ![c] = From(m), ![right] = hi1[c]])
    BY <1>20, <1>30, <1>33, <1>34, <2>1, SplitKeepsTree
  <2> QED
    BY <2>2
<1>36. IsTree(le2, lo2, hi2)'
  BY <1>2, <1>35 DEF IsTree
<1>37. Pairs' = Pairs
  <2>1. leaves \subseteq ps1
    BY <1>6, <1>21
  <2>2. LeafPairs(leaves, ks1, vs1) = LeafPairs(leaves', keys', vals')
    BY <1>33, <2>1, JoinsKeepPairs
  <2>3. \A p \in leaves : ks1[p] = keys[p] /\ vs1[p] = vals[p]
    BY <1>6, <1>7, <1>26, <1>27
  <2>4. LeafPairs(leaves, ks1, vs1) = LeafPairs(leaves, keys, vals)
    BY <2>3, SamePairs
  <2>5. Pairs' = LeafPairs(leaves', keys', vals')
    BY DEF Pairs, LeafPairs
  <2> QED
    BY <2>2, <2>4, <2>5, PairsAre
<1>38. (Pairs \subseteq Entries)'
  BY <1>37 DEF Inv
<1>39. starved' = FALSE
  <2>1. AtMostFour({c}, {{right, x} : x \in MovedUp(c)} \cup {{right, top}})
    <3> SUFFICES ASSUME NEW set \in {{right, x} : x \in MovedUp(c)} \cup {{right, top}}
                 PROVE  \E a, b, x, y : {c} \cup set \subseteq {a, b, x, y}
      BY DEF AtMostFour
    <3>1. PICK x : set = {right, x}
      OBVIOUS
    <3>2. {c} \cup set \subseteq {c, right, x, x}
      BY <3>1
    <3> QED
      BY <3>2
  <2> QED
    BY <1>2, <1>5, <2>1, FetchingFits
<1>40. pins' = Pinned({})
  <2>1. Fetch(Pinned({c}), {right, top}) = Pinned({c} \cup {right, top})
    <3>1. {c} \cap {right, top} = {}
      BY <1>7
    <3> QED
      BY <3>1, PinnedFacts
  <2>2. {c, right, top} = {c} \cup {right, top} /\ ({c} \cup {right, top}) \ ({c} \cup {right, top}) = {}
    OBVIOUS
  <2>3. Unpin(Pinned({c} \cup {right, top}), {c} \cup {right, top})
           = Pinned(({c} \cup {right, top}) \ ({c} \cup {right, top}))
    BY PinnedFacts
  <2> QED
    BY <1>2, <1>5, <2>1, <2>2, <2>3
<1>41. Course'
  BY <1>3, <1>39, <1>40, CourseAfter
<1>42. Sizes'
  <2>1. Fits(c)'
    <3>1. c \in leaves' <=> c \in leaves
      BY <1>7, <1>17
    <3>2. Len(vals'[c]) = n /\ c # root'
      BY <1>2, <1>7, <1>10, <1>16
    <3> QED
      BY <1>8, <1>10, <3>1, <3>2, SplitSizes
  <2>2. Fits(right)'
    <3>1. right \in leaves' <=> c \in leaves
      BY <1>6, <1>7, <1>17
    <3>2. Len(vals'[right]) = r /\ right # root'
      BY <1>2, <1>7, <1>10, <1>16
    <3> QED
      BY <1>8, <1>10, <3>1, <3>2, SplitSizes
  <2>3. ASSUME NEW p \in pages, p # c PROVE Fits(p)'
    <3>1. Fits(p)
      BY <1>1, <2>3, OthersFit
    <3>2. Len(vals'[p]) = Len(vals[p]) /\ (p \in leaves' <=> p \in leaves) /\ p # root /\ p # root'
      BY <1>2, <1>6, <1>7, <1>16, <1>17, <2>3, SMTT(30)
    <3> QED
      BY <3>1, <3>2, FitsSame
  <2>4. Fits(top)'
    <3>1. Size(top)' = 2 /\ top \notin leaves' /\ root' = top
      BY <1>2, <1>6, <1>7, <1>12, <1>16, <1>17 DEF Size
    <3>2. MaxSize(top)' >= 3 /\ MaxSize(top)' \in Nat
      BY <3>1, MaxSizeAssumption DEF MaxSize
    <3> QED
      BY <3>1, <3>2 DEF Fits
  <2> QED
    BY <1>17, <2>1, <2>2, <2>3, <2>4 DEF Sizes, SizeOK
<1>43. due' \in UpSets
  BY <1>3, UpSetFacts
<1>44. Inv'
  BY <1>3, <1>36, <1>38, <1>41, <1>42, <1>43, ChangeKeepsInv
<1> QED
  BY <1>37, <1>44

-----------------------------------------------------------------------------
(* Two neighbours: merging them, and moving an entry between them. *)

\* c and q are neighbours below u, with the key m between them.
Neighbours(c, q, u, i, m, w) ==
    /\ c \in pages /\ q \in pages /\ u \in pages /\ u \notin leaves
    /\ c # q /\ c # u /\ q # u /\ c # root /\ q # root
    /\ c \in leaves <=> q \in leaves
    /\ parent[c] = u /\ parent[q] = u
    /\ w \in Nat /\ i \in 1 .. w /\ Len(vals[u]) = w + 1 /\ Len(keys[u]) = w
    /\ vals[u][i] = c /\ vals[u][i + 1] = q /\ keys[u][i] = m /\ m \in Keys
    /\ c \in leaves => next[c] = q

\* The neighbours that an underflow is about.
LEMMA NeighboursThere ==
    ASSUME Inv, NEW le, NEW lo, NEW hi, IsTree(le, lo, hi), loc = "underflow", ~IsRoot(cur)
    PROVE  /\ \E w : Neighbours(Left, Right, parent[cur], RightIndex, Separator, w)
           /\ cur = Left \/ cur = Right
<1>1. PICK x, u : x = cur /\ u = parent[cur]
  OBVIOUS
<1>2. x \in pages /\ x # root
  BY <1>1, TreeTypes DEF Inv, Course
<1>3. /\ u \in pages /\ u \notin leaves /\ u # x
      /\ \E j \in 1 .. Len(vals[u]) : vals[u][j] = x
  BY <1>1, <1>2, ParentThere
<1>4. vals[u] \in Seq(PageVals) /\ Len(vals[u]) \in Nat /\ Len(keys[u]) = Len(vals[u]) - 1
      /\ \A j \in 1 .. Len(keys[u]) : keys[u][j] \in Keys
  <2>1. Tree(root, pages, leaves, parent, next, keys, vals, le, lo, hi)
    BY DEF IsTree
  <2>2. Len(keys[u]) = Len(vals[u]) - 1
    BY <1>3, <2>1 DEF Tree, Counted
  <2> QED
    BY <1>3, <2>1, <2>2, PageFacts
<1>5. Len(vals[u]) >= 2
  <2>1. Fits(u)
    BY <1>1, <1>3, OthersFit
  <2> QED
    BY <1>3, <1>4, <2>1, FitsNonempty DEF Size
<1>6. PICK j \in 1 .. Len(vals[u]) : j = ValueIndex(vals[u], x) /\ vals[u][j] = x
  BY <1>3, <1>4, ValueIndexFinds
<1>7. PICK w \in Nat : w + 1 = Len(vals[u]) /\ w = Len(keys[u]) /\ w >= 1
  BY <1>4, <1>5
<1>8. PICK i : i = IF j = 1 THEN 1 ELSE j - 1
  OBVIOUS
<1>9. i = RightIndex
  BY <1>1, <1>6, <1>8 DEF RightIndex
<1>10. i \in 1 .. w /\ i + 1 \in 1 .. w + 1 /\ i \in 1 .. w + 1 /\ i + 1 # i /\ (j = i \/ j = i + 1)
  BY <1>6, <1>7, <1>8
<1>11. PICK c, q, m : c = vals[u][i] /\ q = vals[u][i + 1] /\ m = keys[u][i]
  OBVIOUS
<1>12. c = Left /\ q = Right /\ m = Separator
  BY <1>1, <1>9, <1>11 DEF Left, Right, Separator
<1>13. /\ c \in pages /\ q \in pages /\ parent[c] = u /\ parent[q] = u /\ c # q
  BY <1>3, <1>7, <1>10, <1>11 DEF IsTree, Tree, Down
<1>14. /\ c \in leaves <=> q \in leaves
       /\ c \in leaves => next[c] = q
  <2>1. i \in 1 .. Len(vals[u]) - 1
    BY <1>7, <1>10
  <2> QED
    <3>1. Tree(root, pages, leaves, parent, next, keys, vals, le, lo, hi)
      BY DEF IsTree
    <3>2. /\ vals[u][i] \in leaves <=> vals[u][i + 1] \in leaves
          /\ vals[u][i] \in leaves => next[vals[u][i]] = vals[u][i + 1]
      BY <1>3, <2>1, <3>1, NeighboursLinked
    <3> QED
      BY <1>11, <3>2
<1>15. parent[root] = INVALID_PAGE_ID /\ u # INVALID_PAGE_ID
  BY <1>3, TreeTypes DEF IsTree, Tree, Up
<1>16. c # root /\ q # root
  BY <1>13, <1>15
<1>17. c # u /\ q # u
  BY <1>13, <1>16, ParentThere
<1>18. m \in Keys
  BY <1>4, <1>7, <1>10, <1>11
<1>19. Neighbours(c, q, u, i, m, w)
  BY <1>3, <1>7, <1>10, <1>11, <1>13, <1>14, <1>16, <1>17, <1>18 DEF Neighbours
<1>20. x = c \/ x = q
  BY <1>6, <1>10, <1>11
<1> QED
  BY <1>1, <1>9, <1>12, <1>19, <1>20

\* The tree with q's entries moved to c.
Joined(c, q, u, i, m, pa1, nx1, ks1, vs1) ==
    /\ ks1 = [keys EXCEPT ![c] = @ \o (IF c \in leaves THEN <<>> ELSE <<m>>) \o keys[q],
                          ![q] = <<>>, ![u] = S!RemoveAt(@, i)]
    /\ vs1 = [vals EXCEPT ![c] = vals[c] \o vals[q], ![q] = <<>>, ![u] = S!RemoveAt(@, i + 1)]
    /\ pa1 = Cleared(Adopt(parent, IF c \in leaves THEN {} ELSE S!ToSet(vals[c] \o vals[q]), c),
                     {q}, INVALID_PAGE_ID)
    /\ nx1 = Cleared(IF c \in leaves THEN [next EXCEPT ![c] = next[q]] ELSE next,
                     {q}, INVALID_PAGE_ID)

Sized(c, q, n, r) ==
    n = Len(vals[c]) /\ r = Len(vals[q]) /\ (c \notin leaves => n >= 1 /\ r >= 1)

\* c is the parent of q's children.
Adopted(c, q, r, pa1) == c \notin leaves => \A j \in 1 .. r : pa1[vals[q][j]] = c

\* What a concatenation holds.
LEMMA ConcatFacts ==
    ASSUME NEW T, NEW s \in Seq(T), NEW t \in Seq(T), NEW x, x = s \o t,
           NEW a, a = Len(s), NEW b, b = Len(t)
    PROVE  /\ x \in Seq(T) /\ a \in Nat /\ b \in Nat /\ Len(x) = a + b
           /\ \A j \in 1 .. a : x[j] = s[j]
           /\ \A j \in 1 .. b : x[a + j] = t[j]
  OBVIOUS

\* Merging the neighbours gives a tree, from which splitting leads back.
LEMMA JoinedIsTree ==
    ASSUME NEW le, NEW lo, NEW hi, IsTree(le, lo, hi),
           NEW c, NEW q, NEW u, NEW i, NEW m, NEW w, Neighbours(c, q, u, i, m, w),
           NEW pa1, NEW nx1, NEW ks1, NEW vs1, Joined(c, q, u, i, m, pa1, nx1, ks1, vs1),
           NEW n, NEW r, Sized(c, q, n, r)
    PROVE  /\ Joins(c, q, u, i, m, n, r, w, pages \ {q}, leaves \ {q}, pa1, nx1, ks1, vs1,
                    pages, leaves, parent, next, keys, vals)
           /\ Typed(root, pages \ {q}, leaves \ {q}, pa1, nx1, ks1, vs1)
           /\ Tree(root, pages \ {q}, leaves \ {q}, pa1, nx1, ks1, vs1,
                   le, lo, [hi EXCEPT ![c] = hi[q]])
           /\ Adopted(c, q, r, pa1)
<1>1. Tree(root, pages, leaves, parent, next, keys, vals, le, lo, hi)
  BY DEF IsTree
<1>2. /\ root \in pages /\ pages \subseteq PageIds /\ leaves \subseteq pages
      /\ INVALID_PAGE_ID \notin PageIds
      /\ parent \in [PageIds -> AnyId] /\ next \in [PageIds -> AnyId]
      /\ keys \in [PageIds -> Seq(Keys)] /\ vals \in [PageIds -> Seq(PageVals)]
      /\ \A p \in PageIds : p \notin pages => parent[p] = INVALID_PAGE_ID
      /\ \A p \in PageIds : p \notin leaves => next[p] = INVALID_PAGE_ID
  BY TreeTypes
<1>3. /\ c \in pages /\ q \in pages /\ u \in pages /\ u \notin leaves
      /\ c # q /\ c # u /\ q # u /\ c # root /\ q # root
      /\ (c \in leaves <=> q \in leaves)
      /\ parent[c] = u /\ parent[q] = u /\ m \in Keys
      /\ c \in leaves => next[c] = q
  BY DEF Neighbours
<1>4. /\ w \in Nat /\ i \in 1 .. w /\ Len(vals[u]) = w + 1 /\ Len(keys[u]) = w
      /\ vals[u][i] = c /\ vals[u][i + 1] = q /\ keys[u][i] = m
  BY DEF Neighbours
<1>5. c \in PageIds /\ q \in PageIds /\ u \in PageIds
  BY <1>2, <1>3
<1>6. n \in Nat /\ r \in Nat /\ (c \notin leaves => n >= 1 /\ r >= 1)
  BY <1>2, <1>5 DEF Sized
<1>7. /\ c \in leaves => Len(keys[c]) = n /\ Len(keys[q]) = r
      /\ c \notin leaves => Len(keys[c]) = n - 1 /\ Len(keys[q]) = r - 1
  BY <1>1, <1>3 DEF Tree, Counted, Sized
<1>8. PICK ku \in Seq(Keys) : ku = S!RemoveAt(keys[u], i) /\ Inserted(keys[u], ku, i, m)
  <2>1. keys[u] \in Seq(Keys) /\ i \in 1 .. Len(keys[u])
    BY <1>2, <1>4, <1>5
  <2> QED
    BY <1>4, <2>1, RemoveAtProperties
<1>9. PICK vu \in Seq(PageVals) : /\ vu = S!RemoveAt(vals[u], i + 1)
                                  /\ Inserted(vals[u], vu, i + 1, q)
  <2>1. vals[u] \in Seq(PageVals) /\ i + 1 \in 1 .. Len(vals[u])
    BY <1>2, <1>4, <1>5
  <2> QED
    BY <1>4, <2>1, RemoveAtProperties
<1>10. PICK vc \in Seq(PageVals) :
          /\ vc = vals[c] \o vals[q] /\ Len(vc) = n + r
          /\ \A j \in 1 .. n : vc[j] = vals[c][j]
          /\ \A j \in 1 .. r : vc[n + j] = vals[q][j]
  <2>1. vals[c] \in Seq(PageVals) /\ vals[q] \in Seq(PageVals)
    BY <1>2, <1>5
  <2>2. PICK vc : vc = vals[c] \o vals[q]
    OBVIOUS
  <2>3. /\ vc \in Seq(PageVals) /\ Len(vc) = n + r
        /\ \A j \in 1 .. n : vc[j] = vals[c][j]
        /\ \A j \in 1 .. r : vc[n + j] = vals[q][j]
    <3>1. PICK s \in Seq(PageVals) : s = vals[c]
      BY <2>1
    <3>2. PICK t \in Seq(PageVals) : t = vals[q]
      BY <2>1
    <3>3. vc = s \o t /\ n = Len(s) /\ r = Len(t)
      BY <2>2, <3>1, <3>2 DEF Sized
    <3>4. /\ vc \in Seq(PageVals) /\ Len(vc) = n + r
          /\ \A j \in 1 .. n : vc[j] = s[j]
          /\ \A j \in 1 .. r : vc[n + j] = t[j]
      BY <3>3, ConcatFacts
    <3> QED
      BY <3>1, <3>2, <3>4
  <2> QED
    BY <2>2, <2>3
<1>11. PICK kc \in Seq(Keys) :
          /\ kc = keys[c] \o (IF c \in leaves THEN <<>> ELSE <<m>>) \o keys[q]
          /\ c \in leaves => /\ Len(kc) = n + r
                             /\ \A j \in 1 .. n : kc[j] = keys[c][j]
                             /\ \A j \in 1 .. r : kc[n + j] = keys[q][j]
          /\ c \notin leaves => /\ Len(kc) = n + r - 1 /\ kc[n] = m
                                /\ \A j \in 1 .. n - 1 : kc[j] = keys[c][j]
                                /\ \A j \in 1 .. r - 1 : kc[n + j] = keys[q][j]
  <2>1. keys[c] \in Seq(Keys) /\ keys[q] \in Seq(Keys)
    BY <1>2, <1>5
  <2>2. CASE c \in leaves
    <3>1. PICK s \in Seq(Keys) : s = keys[c] /\ n = Len(s)
      BY <1>7, <2>1, <2>2
    <3>2. PICK t \in Seq(Keys) : t = keys[q] /\ r = Len(t)
      BY <1>7, <2>1, <2>2
    <3>3. PICK kc : kc = s \o t
      OBVIOUS
    <3>4. /\ kc \in Seq(Keys) /\ Len(kc) = n + r
          /\ \A j \in 1 .. n : kc[j] = s[j]
          /\ \A j \in 1 .. r : kc[n + j] = t[j]
      <4>1. kc = s \o t /\ n = Len(s) /\ r = Len(t)
        BY <3>1, <3>2, <3>3
      <4> QED
        BY <4>1, ConcatFacts
    <3>5. s \o <<>> = s
      OBVIOUS
    <3>6. kc = keys[c] \o (IF c \in leaves THEN <<>> ELSE <<m>>) \o keys[q]
      BY <2>2, <3>1, <3>2, <3>3, <3>5
    <3> QED
      BY <2>2, <3>1, <3>2, <3>4, <3>6
  <2>3. CASE c \notin leaves
    <3>1. PICK s \in Seq(Keys) : s = keys[c] /\ n - 1 = Len(s)
      BY <1>7, <2>1, <2>3
    <3>2. PICK t \in Seq(Keys) : t = keys[q] /\ r - 1 = Len(t)
      BY <1>7, <2>1, <2>3
    <3>3. PICK o \in Seq(Keys) : o = <<m>> /\ Len(o) = 1 /\ o[1] = m
      <4>1. <<m>> \in Seq(Keys) /\ Len(<<m>>) = 1 /\ <<m>>[1] = m
        BY <1>3
      <4> QED
        BY <4>1
    <3>4. PICK a \in Nat : a = n - 1 /\ a + 1 = n
      BY <1>6, <2>3
    <3>5. PICK b \in Nat : b = r - 1 /\ n + b = n + r - 1
      BY <1>6, <2>3
    <3>6. PICK km : km = s \o o
      OBVIOUS
    <3>7. /\ km \in Seq(Keys) /\ Len(km) = a + 1
          /\ \A j \in 1 .. a : km[j] = s[j]
          /\ \A j \in 1 .. 1 : km[a + j] = o[j]
      <4>1. a = Len(s)
        BY <3>1, <3>4
      <4> QED
        BY <3>3, <3>6, <4>1, ConcatFacts
    <3>8. /\ Len(km) = n /\ km[n] = m
      <4>1. km[a + 1] = o[1]
        BY <3>7
      <4> QED
        BY <3>3, <3>4, <3>7, <4>1
    <3>9. PICK kc : kc = km \o t
      OBVIOUS
    <3>10. /\ kc \in Seq(Keys) /\ Len(kc) = n + b
           /\ \A j \in 1 .. n : kc[j] = km[j]
           /\ \A j \in 1 .. b : kc[n + j] = t[j]
      <4>1. n = Len(km) /\ b = Len(t) /\ km \in Seq(Keys)
        BY <3>2, <3>5, <3>7, <3>8
      <4> QED
        BY <3>9, <4>1, ConcatFacts
    <3>11. n \in 1 .. n /\ \A j \in 1 .. a : j \in 1 .. n
      BY <1>6, <2>3, <3>4
    <3>12. /\ Len(kc) = n + r - 1 /\ kc[n] = m
           /\ \A j \in 1 .. n - 1 : kc[j] = keys[c][j]
           /\ \A j \in 1 .. r - 1 : kc[n + j] = keys[q][j]
      <4>1. kc[n] = m
        BY <3>8, <3>10, <3>11
      <4>2. \A j \in 1 .. a : kc[j] = keys[c][j]
        BY <3>1, <3>7, <3>10, <3>11
      <4> QED
        BY <3>2, <3>4, <3>5, <3>10, <4>1, <4>2
    <3>13. kc = keys[c] \o (IF c \in leaves THEN <<>> ELSE <<m>>) \o keys[q]
      BY <2>3, <3>1, <3>2, <3>3, <3>6, <3>9
    <3> QED
      BY <2>3, <3>10, <3>12, <3>13
  <2> QED
    BY <2>2, <2>3
<1>12. /\ ks1 \in [PageIds -> Seq(Keys)] /\ ks1[c] = kc /\ ks1[u] = ku
       /\ \A p \in PageIds : p # c /\ p # q /\ p # u => ks1[p] = keys[p]
  <2>1. ks1 = [keys EXCEPT ![c] = kc, ![q] = <<>>, ![u] = ku]
    BY <1>2, <1>3, <1>5, <1>8, <1>11 DEF Joined
  <2>2. <<>> \in Seq(Keys)
    OBVIOUS
  <2> QED
    BY <1>2, <1>3, <1>5, <2>1, <2>2
<1>13. /\ vs1 \in [PageIds -> Seq(PageVals)] /\ vs1[c] = vc /\ vs1[u] = vu
       /\ \A p \in PageIds : p # c /\ p # q /\ p # u => vs1[p] = vals[p]
  <2>1. vs1 = [vals EXCEPT ![c] = vc, ![q] = <<>>, ![u] = vu]
    BY <1>2, <1>3, <1>5, <1>9, <1>10 DEF Joined
  <2>2. <<>> \in Seq(PageVals)
    OBVIOUS
  <2> QED
    BY <1>2, <1>3, <1>5, <2>1, <2>2
<1>14. PICK A : A = IF c \in leaves THEN {} ELSE S!ToSet(vc)
  OBVIOUS
<1>15. \A x : x \in A <=> /\ c \notin leaves
                          /\ (\E j \in 1 .. n : vals[c][j] = x) \/ (\E j \in 1 .. r : vals[q][j] = x)
  <2>1. CASE c \in leaves
    BY <1>14, <2>1
  <2>2. CASE c \notin leaves
    <3> SUFFICES ASSUME NEW x
                 PROVE  x \in A <=> \/ \E j \in 1 .. n : vals[c][j] = x
                                    \/ \E j \in 1 .. r : vals[q][j] = x
      BY <2>2
    <3>1. x \in A <=> \E k \in 1 .. n + r : vc[k] = x
      <4>1. DOMAIN vc = 1 .. n + r
        <5>1. vc \in Seq(PageVals) /\ Len(vc) = n + r
          BY <1>10
        <5> QED
          BY <5>1
      <4> QED
        BY <1>14, <2>2, <4>1 DEF S!ToSet
    <3>2. ASSUME NEW k \in 1 .. n + r, vc[k] = x
          PROVE  (\E j \in 1 .. n : vals[c][j] = x) \/ (\E j \in 1 .. r : vals[q][j] = x)
      <4>1. CASE k <= n
        <5>1. k \in 1 .. n
          BY <1>6, <4>1
        <5> QED
          BY <1>10, <3>2, <5>1
      <4>2. CASE k > n
        <5>1. PICK j \in 1 .. r : n + j = k
          <6>1. k - n \in 1 .. r /\ n + (k - n) = k
            BY <1>6, <4>2
          <6> QED
            BY <6>1
        <5> QED
          BY <1>10, <3>2, <5>1
      <4> QED
        BY <1>6, <4>1, <4>2
    <3>3. ASSUME NEW j \in 1 .. n, vals[c][j] = x PROVE \E k \in 1 .. n + r : vc[k] = x
      <4>1. j \in 1 .. n + r
        BY <1>6
      <4> QED
        BY <1>10, <3>3, <4>1
    <3>4. ASSUME NEW j \in 1 .. r, vals[q][j] = x PROVE \E k \in 1 .. n + r : vc[k] = x
      <4>1. n + j \in 1 .. n + r
        BY <1>6
      <4> QED
        BY <1>10, <3>4, <4>1
    <3> QED
      BY <3>1, <3>2, <3>3, <3>4
  <2> QED
    BY <2>1, <2>2
<1>16. c \notin leaves => /\ \A j \in 1 .. n : vals[c][j] \in pages /\ parent[vals[c][j]] = c
                          /\ \A j \in 1 .. r : vals[q][j] \in pages /\ parent[vals[q][j]] = q
  BY <1>1, <1>3 DEF Tree, Down, Sized
<1>17. pa1 = Cleared(Adopt(parent, A, c), {q}, INVALID_PAGE_ID)
  BY <1>10, <1>14 DEF Joined
<1>18. /\ pa1 \in [PageIds -> AnyId] /\ pa1[q] = INVALID_PAGE_ID
       /\ \A p \in PageIds : p # q => pa1[p] = IF p \in A THEN c ELSE parent[p]
  BY <1>2, <1>5, <1>17 DEF Cleared, Adopt, AnyId
<1>19. /\ nx1 \in [PageIds -> AnyId] /\ nx1[q] = INVALID_PAGE_ID
       /\ c \in leaves => nx1[c] = next[q]
       /\ \A p \in PageIds : p # q /\ (p # c \/ c \notin leaves) => nx1[p] = next[p]
  BY <1>2, <1>3, <1>5 DEF Joined, Cleared, AnyId
<1>20. Typed(root, pages \ {q}, leaves \ {q}, pa1, nx1, ks1, vs1)
  <2>1. \A p \in PageIds : p \notin pages \ {q} => pa1[p] = INVALID_PAGE_ID
    <3> SUFFICES ASSUME NEW p \in PageIds, p \notin pages, p # q PROVE pa1[p] = INVALID_PAGE_ID
      BY <1>18
    <3>1. p \notin A
      BY <1>15, <1>16
    <3> QED
      BY <1>2, <1>18, <3>1
  <2>2. \A p \in PageIds : p \notin leaves \ {q} => nx1[p] = INVALID_PAGE_ID
    BY <1>2, <1>19
  <2> QED
    BY <1>2, <1>3, <1>12, <1>13, <1>18, <1>19, <2>1, <2>2 DEF Typed
<1>21. Contents(c, q, u, i, m, n, r, w, pages \ {q}, leaves \ {q}, ks1, vs1, keys, vals)
  <2>1. /\ Len(vu) = w
        /\ \A j \in 1 .. i : vals[u][j] = vu[j]
        /\ \A j \in i + 1 .. w : vals[u][j + 1] = vu[j]
    <3>1. PICK x \in 1 .. w + 1 : x = i + 1 /\ x - 1 = i
      BY <1>4
    <3>2. Len(vu) \in Nat /\ w + 1 = Len(vu) + 1
      BY <1>4, <1>9 DEF Inserted
    <3>3. Len(vu) = w
      BY <1>4, <3>2
    <3>4. Inserted(vals[u], vu, x, q)
      BY <1>9, <3>1
    <3>5. /\ \A j \in 1 .. x - 1 : vals[u][j] = vu[j]
          /\ \A j \in x .. w : vals[u][j + 1] = vu[j]
      <4>1. w \in Nat
        BY <1>4
      <4> QED
        BY <3>1, <3>3, <3>4, <4>1, InsertedShift, SMTT(30)
    <3> QED
      BY <3>1, <3>3, <3>5
  <2>2. /\ Len(ku) = w - 1
        /\ \A j \in 1 .. i - 1 : keys[u][j] = ku[j]
        /\ \A j \in i .. w - 1 : keys[u][j + 1] = ku[j]
    <3>1. PICK x : x = w - 1
      OBVIOUS
    <3>2. x \in Nat /\ i \in 1 .. x + 1
      BY <1>4, <3>1
    <3>3. Len(ku) \in Nat /\ w = Len(ku) + 1
      BY <1>4, <1>8 DEF Inserted
    <3>4. Len(ku) = x
      BY <1>4, <3>1, <3>3
    <3>5. /\ \A j \in 1 .. i - 1 : keys[u][j] = ku[j]
          /\ \A j \in i .. x : keys[u][j + 1] = ku[j]
      BY <1>8, <3>2, <3>4, InsertedShift, SMTT(30)
    <3> QED
      BY <3>1, <3>4, <3>5
  <2>3. vu[i] = c
    BY <1>4, <2>1, SMTT(30)
  <2>4. \A p \in pages \ {q} : p # c /\ p # u => keys[p] = ks1[p] /\ vals[p] = vs1[p]
    BY <1>2, <1>12, <1>13
  <2>5. c \in leaves \ {q} <=> c \in leaves
    BY <1>3
  <2> QED
    <3>1. /\ Len(vs1[c]) = n + r /\ Len(vals[c]) = n /\ Len(vals[q]) = r
          /\ \A j \in 1 .. n : vals[c][j] = vs1[c][j]
          /\ \A j \in 1 .. r : vals[q][j] = vs1[c][n + j]
      BY <1>10, <1>13 DEF Sized
    <3>2. c \in leaves => /\ Len(ks1[c]) = n + r
                          /\ \A j \in 1 .. n : keys[c][j] = ks1[c][j]
                          /\ \A j \in 1 .. r : keys[q][j] = ks1[c][n + j]
      BY <1>11, <1>12
    <3>3. c \notin leaves => /\ ks1[c][n] = m /\ Len(ks1[c]) = n + r - 1
                             /\ \A j \in 1 .. n - 1 : keys[c][j] = ks1[c][j]
                             /\ \A j \in 1 .. r - 1 : keys[q][j] = ks1[c][n + j]
      BY <1>11, <1>12
    <3> QED
      BY <1>4, <1>6, <1>7, <1>12, <1>13, <2>1, <2>2, <2>3, <2>4, <2>5, <3>1, <3>2, <3>3 DEF Contents
<1>22. Links(c, q, u, r, pages \ {q}, leaves \ {q}, pa1, nx1, parent, next, vals)
  <2>1. c \in leaves \ {q} <=> c \in leaves
    BY <1>3
  <2>2. ASSUME NEW p \in pages \ {q}
        PROVE  parent[p] = IF c \notin leaves \ {q} /\ \E j \in 1 .. r : vals[q][j] = p
                           THEN q ELSE pa1[p]
    <3>1. p \in PageIds /\ p # q /\ pa1[p] = IF p \in A THEN c ELSE parent[p]
      BY <1>2, <1>18, <2>2
    <3>2. CASE c \notin leaves /\ \E j \in 1 .. r : vals[q][j] = p
      BY <1>16, <2>1, <3>2
    <3>3. CASE ~(c \notin leaves /\ \E j \in 1 .. r : vals[q][j] = p)
      <4>1. p \in A => parent[p] = c
        BY <1>15, <1>16, <3>3
      <4> QED
        BY <2>1, <3>1, <3>3, <4>1
    <3> QED
      BY <3>2, <3>3
  <2>3. \A p \in pages \ {q} : p # c \/ c \notin leaves \ {q} => next[p] = nx1[p]
    BY <1>2, <1>19, <2>1
  <2> QED
    BY <1>3, <1>19, <2>1, <2>2, <2>3 DEF Links
<1>23. Joins(c, q, u, i, m, n, r, w, pages \ {q}, leaves \ {q}, pa1, nx1, ks1, vs1,
             pages, leaves, parent, next, keys, vals)
  <2>1. /\ c \in pages \ {q} /\ u \in pages \ {q} /\ u \notin leaves \ {q}
        /\ q \notin pages \ {q} /\ pages = (pages \ {q}) \cup {q}
        /\ leaves = IF c \in leaves \ {q} THEN (leaves \ {q}) \cup {q} ELSE leaves \ {q}
    BY <1>3
  <2> QED
    BY <1>3, <1>5, <1>21, <1>22, <2>1 DEF Joins
<1>24. c \notin leaves => \A j \in 1 .. r : pa1[vals[q][j]] = c
  <2> SUFFICES ASSUME c \notin leaves, NEW j \in 1 .. r PROVE pa1[vals[q][j]] = c
    OBVIOUS
  <2>1. vals[q][j] \in PageIds /\ vals[q][j] # q /\ vals[q][j] \in A
    BY <1>2, <1>3, <1>15, <1>16
  <2> QED
    BY <1>18, <2>1
<1>25. Tree(root, pages \ {q}, leaves \ {q}, pa1, nx1, ks1, vs1, le, lo, [hi EXCEPT ![c] = hi[q]])
  <2>1. c \notin leaves \ {q} => \A j \in 1 .. r : pa1[vals[q][j]] = c
    BY <1>3, <1>24
  <2> QED
    BY <1>1, <1>20, <1>23, <2>1, MergeKeepsTree
<1> QED
  BY <1>20, <1>23, <1>24, <1>25 DEF Adopted

\* The pages fetched for an underflow are, with those held, the two neighbours
\* and their parent.
LEMMA FamilyPins ==
    ASSUME Inv, loc = "underflow", NEW c, NEW q, NEW u, NEW i, NEW m, NEW w,
           Neighbours(c, q, u, i, m, w), c = Left, q = Right, u = parent[cur], cur = c \/ cur = q
    PROVE  /\ starved = FALSE
           /\ \E H : /\ pins = Pinned(H) /\ H \cup Family = {c, q, u}
                     /\ H \cap Family = {}
<1>1. /\ starved = FALSE
      /\ pins = Pinned(IF cur \in leaves THEN {cur, u} ELSE {cur})
  BY CourseFacts
<1>2. PICK x : x = cur /\ (x = c \/ x = q)
  OBVIOUS
<1>3. PICK H : H = IF x \in leaves THEN {x, u} ELSE {x}
  OBVIOUS
<1>4. Family = IF x \in leaves THEN {c, q} \ {x} ELSE ({c, q} \ {x}) \cup {u}
  BY <1>2 DEF Family, Siblings
<1>5. c # q /\ c # u /\ q # u
  BY DEF Neighbours
<1>6. H \cup Family = {c, q, u} /\ H \cap Family = {}
  <2>1. CASE x \in leaves
    BY <1>2, <1>3, <1>4, <1>5, <2>1
  <2>2. CASE x \notin leaves
    BY <1>2, <1>3, <1>4, <1>5, <2>2
  <2> QED
    BY <2>1, <2>2
<1> QED
  BY <1>1, <1>2, <1>3, <1>6

\* The sizes of the neighbours: one has too few entries, the other enough.
LEMMA NeighbourSizes ==
    ASSUME Inv, NEW le, NEW lo, NEW hi, IsTree(le, lo, hi), loc = "underflow",
           NEW c, NEW q, NEW u, NEW i, NEW m, NEW w,
           Neighbours(c, q, u, i, m, w), cur = c \/ cur = q
    PROVE  /\ Size(c) \in Nat /\ Size(q) \in Nat
           /\ MaxSize(q) = MaxSize(c) /\ MinSize(q) = MinSize(c)
           /\ Size(cur) = MinSize(c) - 1
           /\ Size(c) >= MinSize(c) - 1 /\ Size(c) <= MaxSize(c)
           /\ Size(q) >= MinSize(c) - 1 /\ Size(q) <= MaxSize(c)
           /\ cur = c => Size(q) >= MinSize(c)
           /\ cur = q => Size(c) >= MinSize(c)
           /\ c \notin leaves => Size(c) >= 1 /\ Size(q) >= 1
<1>1. /\ c \in pages /\ q \in pages /\ c # root /\ q # root /\ c # q
      /\ (c \in leaves <=> q \in leaves)
  BY DEF Neighbours
<1>2. Size(c) \in Nat /\ Size(q) \in Nat
  <2>1. vals \in [PageIds -> Seq(PageVals)] /\ pages \subseteq PageIds
    BY TreeTypes
  <2> QED
    BY <1>1, <2>1 DEF Size
<1>3. MaxSize(q) = MaxSize(c) /\ MinSize(q) = MinSize(c)
  BY <1>1 DEF MaxSize, MinSize
<1>4. /\ MinSize(c) \in Nat /\ MaxSize(c) \in Nat /\ MinSize(c) <= MaxSize(c)
      /\ c \notin leaves => MinSize(c) >= 2
  BY SizeFacts
<1>5. ASSUME NEW x, x = c \/ x = q, x = cur
      PROVE  Size(x) = MinSize(c) - 1
  <2>1. Size(x) < MinSize(c) /\ x \in pages /\ x # root
    BY <1>1, <1>3, <1>5 DEF Inv, Course
  <2>2. ~Fits(x)
    BY <1>2, <1>3, <1>4, <1>5, <2>1 DEF Fits
  <2> QED
    BY <1>3, <1>5, <2>1, <2>2 DEF Inv, Sizes, SizeOK
<1>6. ASSUME NEW x, x = c \/ x = q, x # cur
      PROVE  Size(x) >= MinSize(c) /\ Size(x) <= MaxSize(c)
  <2>1. Fits(x)
    BY <1>1, <1>6, OthersFit
  <2> QED
    BY <1>1, <1>3, <1>6, <2>1 DEF Fits
<1>7. CASE cur = c
  <2>1. Size(c) = MinSize(c) - 1 /\ Size(q) >= MinSize(c) /\ Size(q) <= MaxSize(c)
    BY <1>1, <1>5, <1>6, <1>7
  <2> QED
    BY <1>1, <1>2, <1>3, <1>4, <1>7, <2>1
<1>8. CASE cur = q
  <2>1. Size(q) = MinSize(c) - 1 /\ Size(c) >= MinSize(c) /\ Size(c) <= MaxSize(c)
    BY <1>1, <1>5, <1>6, <1>8
  <2> QED
    BY <1>1, <1>2, <1>3, <1>4, <1>8, <2>1
<1> QED
  BY <1>7, <1>8

\* The right neighbour's entries are moved to the left one.
LEMMA MergeStep ==
    ASSUME Inv, Merge
    PROVE  Inv' /\ Pairs' = Pairs
<1>1. PICK c, q, u, i, m : /\ c = Left /\ q = Right /\ u = parent[cur] /\ i = RightIndex
                           /\ m = Separator
  OBVIOUS
<1>2. loc = "underflow" /\ ~IsRoot(cur) /\ ~CanBorrow /\ root' = root
  BY DEF Merge
<1>3. PICK le, lo, hi : IsTree(le, lo, hi)
  BY <1>2, TreeThere
<1>4. PICK w : Neighbours(c, q, u, i, m, w)
  BY <1>1, <1>2, <1>3, NeighboursThere
<1>5. cur = c \/ cur = q
  BY <1>1, <1>2, <1>3, NeighboursThere
<1>6. /\ c \in pages /\ q \in pages /\ u \in pages /\ u \notin leaves
      /\ c # q /\ c # u /\ q # u /\ c # root /\ q # root /\ (c \in leaves <=> q \in leaves)
      /\ (cur \in leaves <=> c \in leaves)
      /\ w \in Nat /\ i \in 1 .. w /\ Len(vals[u]) = w + 1
  BY <1>4, <1>5 DEF Neighbours
<1>7. /\ root \in pages /\ pages \subseteq PageIds /\ leaves \subseteq pages
      /\ INVALID_PAGE_ID \notin PageIds
      /\ keys \in [PageIds -> Seq(Keys)] /\ vals \in [PageIds -> Seq(PageVals)]
      /\ \A p \in pages : IsRoot(p) <=> p = root
  BY <1>3, TreeTypes
<1>8. /\ starved = FALSE
      /\ \E H : pins = Pinned(H) /\ H \cup Family = {c, q, u} /\ H \cap Family = {}
  BY <1>1, <1>2, <1>4, <1>5, FamilyPins
<1>9. PICK H : pins = Pinned(H) /\ H \cup Family = {c, q, u} /\ H \cap Family = {}
  BY <1>8
<1>10. PICK counts : counts = Unpin(Fetch(pins, Family), {c, q})
  OBVIOUS
<1>11. counts = Pinned({u}) /\ counts[q] = 0
  <2>1. Fetch(pins, Family) = Pinned({c, q, u})
    BY <1>9, PinnedFacts
  <2>2. Unpin(Pinned({c, q, u}), {c, q}) = Pinned({c, q, u} \ {c, q})
    <3>1. {c, q} \subseteq {c, q, u}
      OBVIOUS
    <3> QED
      BY <3>1, PinnedFacts
  <2>3. {c, q, u} \ {c, q} = {u}
    BY <1>6
  <2>4. Pinned({u})[q] = 0
    BY <1>6, <1>7 DEF Pinned
  <2> QED
    BY <1>10, <2>1, <2>2, <2>3, <2>4
<1>12. Deleted(q, counts) = {q}
  BY <1>11 DEF Deleted
<1>13. PICK A : A = IF c \in leaves THEN {} ELSE S!ToSet(vals[c] \o vals[q])
  OBVIOUS
<1>14. PICK done : done = (Size(u) - 1 >= MinSize(u) \/ (IsRoot(u) /\ Size(u) - 1 # 1))
  OBVIOUS
<1>15. /\ Joined(c, q, u, i, m, parent', next', keys', vals')
       /\ pages' = pages \ {q} /\ leaves' = leaves \ {q}
  <2>1. /\ keys' = [keys EXCEPT ![c] = @ \o (IF c \in leaves THEN <<>> ELSE <<m>>) \o keys[q],
                                ![q] = <<>>, ![u] = S!RemoveAt(@, i)]
        /\ vals' = [vals EXCEPT ![c] = vals[c] \o vals[q], ![q] = <<>>,
                                ![u] = S!RemoveAt(@, i + 1)]
    BY <1>1, <1>6 DEF Merge
  <2>2. /\ parent' = Cleared(Adopt(parent, A, c), {q}, INVALID_PAGE_ID)
        /\ next' = Cleared(IF c \in leaves THEN [next EXCEPT ![c] = next[q]] ELSE next,
                           {q}, INVALID_PAGE_ID)
        /\ pages' = pages \ {q} /\ leaves' = leaves \ {q}
    BY <1>1, <1>6, <1>10, <1>12, <1>13 DEF Merge
  <2> QED
    BY <1>13, <2>1, <2>2 DEF Joined
<1>16. /\ Fetching({Family} \cup {Family \cup {x} : x \in A})
       /\ pins' = Unpin(counts, IF done THEN {u} ELSE {})
       /\ IF done THEN loc' = "idle" /\ cur' = INVALID_PAGE_ID /\ due' = {}
          ELSE loc' = "underflow" /\ cur' = u /\ due' = due
  BY <1>1, <1>6, <1>10, <1>13, <1>14 DEF Merge, Return, GoTo, Stay
<1>17. PICK n, r : n = Size(c) /\ r = Size(q)
  OBVIOUS
<1>18. /\ n \in Nat /\ r \in Nat
       /\ MaxSize(q) = MaxSize(c) /\ MinSize(q) = MinSize(c)
       /\ n >= MinSize(c) - 1 /\ r >= MinSize(c) - 1
       /\ cur = c => n = MinSize(c) - 1 /\ r >= MinSize(c)
       /\ cur = q => r = MinSize(c) - 1 /\ n >= MinSize(c)
       /\ c \notin leaves => n >= 1 /\ r >= 1
  BY <1>2, <1>3, <1>4, <1>5, <1>17, NeighbourSizes
<1>19. Sized(c, q, n, r)
  BY <1>17, <1>18 DEF Sized, Size
<1>20. /\ Joins(c, q, u, i, m, n, r, w, pages', leaves', parent', next', keys', vals',
                pages, leaves, parent, next, keys, vals)
       /\ Tree(root, pages', leaves', parent', next', keys', vals', le, lo, [hi EXCEPT ![c] = hi[q]])
  BY <1>3, <1>4, <1>15, <1>19, JoinedIsTree
<1>21. PICK hi2 : Tree(root, pages', leaves', parent', next', keys', vals', le, lo, hi2)
  BY <1>20
<1>22. IsTree(le, lo, hi2)'
  BY <1>2, <1>21 DEF IsTree
<1>23. Pairs' = Pairs
  <2>1. leaves' \subseteq pages'
    BY <1>7, <1>15
  <2>2. LeafPairs(leaves', keys', vals') = LeafPairs(leaves, keys, vals)
    BY <1>20, <2>1, JoinsKeepPairs
  <2>3. Pairs' = LeafPairs(leaves', keys', vals')
    BY DEF Pairs, LeafPairs
  <2> QED
    BY <2>2, <2>3, PairsAre
<1>24. (Pairs \subseteq Entries)'
  BY <1>23 DEF Inv
<1>25. starved' = FALSE
  <2>1. AtMostFour(H, {Family} \cup {Family \cup {x} : x \in A})
    <3> SUFFICES ASSUME NEW set \in {Family} \cup {Family \cup {x} : x \in A}
                 PROVE  \E a, b, x, y : H \cup set \subseteq {a, b, x, y}
      BY DEF AtMostFour
    <3>1. PICK x : set \subseteq Family \cup {x}
      OBVIOUS
    <3>2. H \cup set \subseteq {c, q, u, x}
      BY <1>9, <3>1
    <3> QED
      BY <3>2
  <2> QED
    BY <1>8, <1>9, <1>16, <2>1, FetchingFits
<1>26. pins' = Pinned(IF done THEN {} ELSE {u})
  <2>1. CASE done
    BY <1>11, <1>16, <2>1, PinOne
  <2>2. CASE ~done
    <3>1. {} \subseteq {u} /\ {u} \ {} = {u}
      OBVIOUS
    <3>2. Unpin(Pinned({u}), {}) = Pinned({u} \ {})
      BY <3>1, PinnedFacts
    <3> QED
      BY <1>11, <1>16, <2>2, <3>1, <3>2
  <2> QED
    BY <2>1, <2>2
<1>27. Len(vals'[c]) = n + r /\ Len(vals'[u]) = w
  BY <1>20 DEF Joins, Contents
<1>28. n <= MinSize(c) /\ r <= MinSize(c)
  <2>1. ~(n > MinSize(c)) /\ ~(r > MinSize(c))
    BY <1>1, <1>2, <1>17, <1>18 DEF CanBorrow
  <2>2. MinSize(c) \in Nat
    BY SizeFacts
  <2> QED
    BY <1>18, <2>1, <2>2
<1>29. \A p \in pages' : p # u => Fits(p)'
  <2>1. Fits(c)'
    <3>1. c \in leaves' <=> c \in leaves
      BY <1>6, <1>15
    <3>2. c # root'
      BY <1>2, <1>6
    <3>3. PICK x \in Nat : x = n + r
      BY <1>18
    <3>4. x >= MinSize(c) /\ x <= MaxSize(c)
      <4>1. /\ MinSize(c) \in Nat /\ MaxSize(c) \in Nat /\ MinSize(c) >= 1
            /\ 2 * MinSize(c) - 1 <= MaxSize(c)
        BY SizeFacts
      <4>2. x = 2 * MinSize(c) - 1
        <5>1. CASE cur = c
          BY <1>18, <1>28, <3>3, <4>1, <5>1
        <5>2. CASE cur = q
          BY <1>18, <1>28, <3>3, <4>1, <5>2
        <5> QED
          BY <1>5, <5>1, <5>2
      <4> QED
        BY <4>1, <4>2
    <3> QED
      BY <1>27, <3>1, <3>2, <3>3, <3>4, SplitSizes
  <2>2. ASSUME NEW p \in pages', p # c, p # u PROVE Fits(p)'
    <3>1. p \in pages /\ p # q
      BY <1>15, <2>2
    <3>2. p # cur
      BY <1>5, <2>2, <3>1
    <3>3. Fits(p)
      BY <3>1, <3>2, OthersFit
    <3>4. Len(vals'[p]) = Len(vals[p]) /\ (p \in leaves' <=> p \in leaves)
      <4>1. vals[p] = vals'[p]
        BY <1>20, <2>2 DEF Joins, Contents
      <4> QED
        BY <1>15, <3>1, <4>1
    <3> QED
      BY <1>2, <3>3, <3>4, FitsSame
  <2> QED
    BY <2>1, <2>2
<1>30. /\ u \in pages' /\ u \notin leaves' /\ Size(u)' = w
       /\ MaxSize(u)' = MaxSize(u) /\ MinSize(u)' = MinSize(u)
       /\ Size(u) = w + 1 /\ (IsRoot(u) <=> u = root)
  <2>1. u \in pages' /\ u \notin leaves'
    BY <1>6, <1>15
  <2> QED
    BY <1>6, <1>7, <1>27, <2>1 DEF Size, MaxSize, MinSize
<1>31. /\ w + 1 <= MaxSize(u) /\ MaxSize(u) \in Nat /\ MinSize(u) \in Nat /\ MinSize(u) >= 2
       /\ u # root => w + 1 >= MinSize(u)
       /\ u = root => w + 1 >= 2
  <2>1. Fits(u)
    BY <1>5, <1>6, OthersFit
  <2> QED
    BY <1>6, <1>30, <2>1, SizeFacts DEF Fits
<1>32. done <=> w >= MinSize(u) \/ (u = root /\ w # 1)
  <2>1. Size(u) - 1 = w
    BY <1>6, <1>30
  <2>2. IsRoot(u) <=> u = root
    BY <1>30
  <2> QED
    BY <1>14, <2>1, <2>2, Zenon
<1>33. due' \in UpSets
  BY <1>16, CourseFacts, UpSetFacts
<1>34. CASE done
  <2>1. loc' = "idle" /\ cur' = INVALID_PAGE_ID /\ pins' = Pinned({})
    BY <1>16, <1>26, <1>34
  <2>2. Course'
    BY <1>25, <2>1, CourseAfter
  <2>3. Fits(u)'
    <3>1. w <= MaxSize(u)
      BY <1>6, <1>31
    <3>2. IF u # root THEN w >= MinSize(u) ELSE w >= 2
      BY <1>6, <1>31, <1>32, <1>34
    <3> QED
      BY <1>2, <1>30, <3>1, <3>2 DEF Fits
  <2>4. Sizes'
    BY <1>29, <2>3 DEF Sizes, SizeOK
  <2>5. Inv'
    BY <1>22, <1>24, <1>33, <2>1, <2>2, <2>4, ChangeKeepsInv
  <2> QED
    BY <1>23, <2>5
<1>35. CASE ~done
  <2>1. loc' = "underflow" /\ cur' = u /\ pins' = Pinned({u}) /\ cur' \in pages'
    BY <1>16, <1>26, <1>30, <1>35
  <2>2. /\ u # root => w = MinSize(u) - 1
        /\ u = root => w = 1
        /\ w < MinSize(u)
    BY <1>6, <1>31, <1>32, <1>35
  <2>3. Size(cur)' < MinSize(cur)' /\ (cur' = root' => cur' \notin leaves' /\ Size(cur)' = 1)
    <3>1. Size(cur)' = Size(u)' /\ MinSize(cur)' = MinSize(u)'
      BY <2>1 DEF Size, MinSize
    <3> QED
      BY <1>2, <1>30, <2>1, <2>2, <3>1
  <2>4. pins' = Pinned(IF cur' \in leaves' THEN {cur', parent'[cur']} ELSE {cur'})
    BY <1>30, <2>1
  <2>5. Course'
    BY <1>25, <2>1, <2>3, <2>4, CourseAfter
  <2>6. SizeOK(u)'
    BY <1>2, <1>30, <2>1, <2>2 DEF SizeOK
  <2>7. Sizes'
    BY <1>29, <2>6 DEF Sizes, SizeOK
  <2>8. Inv'
    BY <1>22, <1>24, <1>33, <2>1, <2>5, <2>7, ChangeKeepsInv
  <2> QED
    BY <1>23, <2>8
<1> QED
  BY <1>34, <1>35

\* The root's only child becomes the root.
LEMMA CollapseStep ==
    ASSUME Inv, Collapse
    PROVE  Inv' /\ Pairs' = Pairs
<1>1. PICK top : top = cur
  OBVIOUS
<1>2. PICK child : child = vals[top][1]
  OBVIOUS
<1>3. loc = "underflow" /\ IsRoot(top)
  BY <1>1 DEF Collapse
<1>4. PICK le, lo, hi : IsTree(le, lo, hi)
  BY <1>3, TreeThere
<1>5. /\ root \in pages /\ pages \subseteq PageIds /\ leaves \subseteq pages
      /\ INVALID_PAGE_ID \notin PageIds
      /\ parent \in [PageIds -> AnyId] /\ next \in [PageIds -> AnyId]
      /\ keys \in [PageIds -> Seq(Keys)] /\ vals \in [PageIds -> Seq(PageVals)]
      /\ \A p \in PageIds : p \notin pages => parent[p] = INVALID_PAGE_ID
      /\ \A p \in PageIds : p \notin leaves => next[p] = INVALID_PAGE_ID
      /\ \A p \in pages : IsRoot(p) <=> p = root
  BY <1>4, TreeTypes
<1>6. /\ top \in pages /\ top = root /\ top \notin leaves /\ Len(vals[top]) = 1 /\ starved = FALSE
      /\ top \in PageIds
  <2>1. top \in pages
    BY <1>1, <1>3 DEF Inv, Course
  <2>2. top = root
    BY <1>3, <1>5, <2>1
  <2> QED
    BY <1>1, <1>3, <1>5, <2>1, <2>2 DEF Inv, Course, Size
<1>7. Tree(root, pages, leaves, parent, next, keys, vals, le, lo, hi)
  BY <1>4 DEF IsTree
<1>8. /\ child \in pages /\ parent[child] = top /\ parent[top] = INVALID_PAGE_ID
      /\ Len(keys[top]) = 0
  <2>1. 1 \in 1 .. Len(vals[top])
    BY <1>6
  <2>2. child \in pages /\ parent[child] = top
    BY <1>2, <1>6, <1>7, <2>1 DEF Tree, Down
  <2>3. parent[top] = INVALID_PAGE_ID /\ Len(keys[top]) = Len(vals[top]) - 1
    BY <1>6, <1>7 DEF Tree, Up, Counted
  <2> QED
    BY <1>6, <2>2, <2>3
<1>9. child # top /\ child \in PageIds
  BY <1>5, <1>6, <1>8
<1>10. pins = Pinned({top})
  BY <1>1, <1>3, <1>6, CourseFacts
<1>11. Unpin(pins, {top}) = Pinned({}) /\ Pinned({})[top] = 0
  BY <1>6, <1>10, PinOne DEF Pinned
<1>12. Deleted(top, Unpin(pins, {top})) = {top}
  BY <1>11 DEF Deleted
<1>13. /\ root' = child
       /\ parent' = Adopt(parent, {child}, INVALID_PAGE_ID)
       /\ pages' = pages \ {top}
       /\ vals' = [vals EXCEPT ![top] = <<>>]
       /\ Fetching({{child}}) /\ pins' = Pinned({})
       /\ leaves' = leaves /\ next' = next /\ keys' = keys
       /\ loc' = "idle" /\ cur' = INVALID_PAGE_ID /\ due' = {}
  BY <1>1, <1>2, <1>11, <1>12 DEF Collapse, Return, GoTo
<1>14. /\ parent' \in [PageIds -> AnyId] /\ parent'[child] = INVALID_PAGE_ID
       /\ \A p \in PageIds : p # child => parent'[p] = parent[p]
  BY <1>5, <1>9, <1>13 DEF Adopt, AnyId
<1>15. /\ vals' \in [PageIds -> Seq(PageVals)]
       /\ \A p \in PageIds : p # top => vals'[p] = vals[p]
  <2>1. <<>> \in Seq(PageVals)
    OBVIOUS
  <2> QED
    BY <1>5, <1>13, <2>1
<1>16. Typed(child, pages', leaves', parent', next', keys', vals')
  <2>1. \A p \in PageIds : p \notin pages' => parent'[p] = INVALID_PAGE_ID
    BY <1>5, <1>8, <1>13, <1>14
  <2>2. leaves' \subseteq pages' /\ child \in pages' /\ pages' \subseteq PageIds
    BY <1>5, <1>6, <1>8, <1>9, <1>13
  <2> QED
    BY <1>5, <1>13, <1>14, <1>15, <2>1, <2>2 DEF Typed
<1>17. Topped(top, child, pages', leaves', parent', next', keys', vals',
              pages, leaves, parent, next, keys, vals)
  <2>1. /\ top \notin pages' /\ pages = pages' \cup {top} /\ child \in pages'
        /\ \A p \in pages' : p \in PageIds /\ p # top
    BY <1>5, <1>6, <1>8, <1>9, <1>13
  <2>2. \A p \in pages' : p # child => parent[p] = parent'[p]
    BY <1>14, <2>1
  <2>3. \A p \in pages' : next[p] = next'[p] /\ keys[p] = keys'[p] /\ vals[p] = vals'[p]
    BY <1>13, <1>15, <2>1
  <2> QED
    BY <1>2, <1>6, <1>8, <1>13, <1>14, <2>1, <2>2, <2>3 DEF Topped
<1>18. Tree(child, pages', leaves', parent', next', keys', vals', le, lo, hi)
  <2>1. Tree(top, pages, leaves, parent, next, keys, vals, le, lo, hi)
    BY <1>6, <1>7
  <2> QED
    BY <1>16, <1>17, <2>1, ToppedWasTree
<1>19. IsTree(le, lo, hi)'
  BY <1>13, <1>18 DEF IsTree
<1>20. Pairs' = Pairs
  <2>1. \A p \in leaves : keys'[p] = keys[p] /\ vals'[p] = vals[p]
    BY <1>5, <1>6, <1>13, <1>15
  <2>2. LeafPairs(leaves, keys', vals') = LeafPairs(leaves, keys, vals)
    BY <2>1, SamePairs
  <2>3. Pairs' = LeafPairs(leaves, keys', vals')
    BY <1>13 DEF Pairs, LeafPairs
  <2> QED
    BY <2>2, <2>3, PairsAre
<1>21. (Pairs \subseteq Entries)'
  BY <1>20 DEF Inv
<1>22. starved' = FALSE
  <2>1. AtMostFour({top}, {{child}})
    <3> SUFFICES ASSUME NEW set \in {{child}}
                 PROVE  \E a, b, x, y : {top} \cup set \subseteq {a, b, x, y}
      BY DEF AtMostFour
    <3>1. {top} \cup set \subseteq {top, child, child, child}
      OBVIOUS
    <3> QED
      BY <3>1
  <2> QED
    BY <1>6, <1>10, <1>13, <2>1, FetchingFits
<1>23. Course'
  BY <1>13, <1>22, CourseAfter
<1>24. Sizes'
  <2> SUFFICES ASSUME NEW p \in pages' PROVE Fits(p)'
    BY DEF Sizes, SizeOK
  <2>1. p \in pages /\ p # top /\ p \in PageIds
    BY <1>5, <1>13
  <2>2. Fits(p) /\ p # root
    BY <1>1, <1>6, <2>1, OthersFit
  <2>3. Size(p)' = Size(p) /\ MaxSize(p)' = MaxSize(p) /\ MinSize(p)' = MinSize(p)
    BY <1>13, <1>15, <2>1 DEF Size, MaxSize, MinSize
  <2>4. Size(p) \in Nat /\ Size(p) >= 1 /\ (p \notin leaves => Size(p) >= 2)
    <3>1. Size(p) \in Nat
      BY <1>5, <2>1 DEF Size
    <3> QED
      BY <2>2, <3>1, FitsNonempty
  <2> QED
    BY <1>13, <2>2, <2>3, <2>4 DEF Fits
<1>25. due' \in UpSets
  BY <1>13, UpSetFacts
<1>26. Inv'
  BY <1>13, <1>19, <1>21, <1>23, <1>24, <1>25, ChangeKeepsInv
<1> QED
  BY <1>20, <1>26

\* From contents 2 to contents 3 the last entry of c, which has n of them, moves
\* to the front of q, and m2 takes the place of m between the two.
ToRight(c, q, u, i, m, m2, n, r, w, ps, lv, ks2, vs2, ks3, vs3) ==
    /\ n \in Nat /\ r \in Nat /\ n >= 1 /\ (c \notin lv => n >= 2 /\ r >= 1)
    /\ Len(vs2[c]) = n /\ Len(vs3[c]) = n - 1 /\ Len(vs2[q]) = r /\ Len(vs3[q]) = r + 1
    /\ \A j \in 1 .. n - 1 : vs3[c][j] = vs2[c][j]
    /\ vs3[q][1] = vs2[c][n]
    /\ \A j \in 1 .. r : vs3[q][j + 1] = vs2[q][j]
    /\ c \in lv => /\ Len(ks2[c]) = n /\ Len(ks3[c]) = n - 1
                   /\ Len(ks2[q]) = r /\ Len(ks3[q]) = r + 1
                   /\ \A j \in 1 .. n - 1 : ks3[c][j] = ks2[c][j]
                   /\ ks3[q][1] = ks2[c][n]
                   /\ \A j \in 1 .. r : ks3[q][j + 1] = ks2[q][j]
    /\ c \notin lv => /\ Len(ks2[c]) = n - 1 /\ Len(ks3[c]) = n - 2
                      /\ Len(ks2[q]) = r - 1 /\ Len(ks3[q]) = r
                      /\ \A j \in 1 .. n - 2 : ks3[c][j] = ks2[c][j]
                      /\ ks2[c][n - 1] = m2 /\ ks3[q][1] = m
                      /\ \A j \in 1 .. r - 1 : ks3[q][j + 1] = ks2[q][j]
    /\ vs3[u] = vs2[u] /\ Len(ks3[u]) = w /\ Len(ks2[u]) = w
    /\ ks2[u][i] = m /\ ks3[u][i] = m2
    /\ \A j \in 1 .. w : j # i => ks3[u][j] = ks2[u][j]
    /\ \A p \in ps : p # c /\ p # u => ks3[p] = ks2[p] /\ vs3[p] = vs2[p]

\* The parent's key between the two is now m2, and other pages are the same.
SameAbove(c, u, i, m2, w, ps, ks2, vs2, ks3, vs3) ==
    /\ vs3[u] = vs2[u] /\ Len(ks3[u]) = w /\ ks3[u][i] = m2
    /\ \A j \in 1 .. w : j # i => ks3[u][j] = ks2[u][j]
    /\ \A p \in ps : p # c /\ p # u => ks3[p] = ks2[p] /\ vs3[p] = vs2[p]

\* What this leaves of the parent's contents.
LEMMA ParentContents ==
    ASSUME NEW c, NEW q, NEW u, NEW i, NEW m, NEW m2, NEW n, NEW r, NEW w,
           NEW ps1, NEW lv1, NEW ks1, NEW vs1, NEW ks2, NEW vs2, NEW ks3, NEW vs3,
           Contents(c, q, u, i, m, n, r, w, ps1, lv1, ks1, vs1, ks2, vs2),
           SameAbove(c, u, i, m2, w, ps1, ks2, vs2, ks3, vs3)
    PROVE  /\ Len(vs1[u]) = w /\ Len(vs3[u]) = w + 1 /\ Len(ks1[u]) = w - 1 /\ Len(ks3[u]) = w
           /\ vs1[u][i] = c /\ vs3[u][i + 1] = q /\ ks3[u][i] = m2
           /\ \A j \in 1 .. i : vs3[u][j] = vs1[u][j]
           /\ \A j \in i + 1 .. w : vs3[u][j + 1] = vs1[u][j]
           /\ \A j \in 1 .. i - 1 : ks3[u][j] = ks1[u][j]
           /\ \A j \in i .. w - 1 : ks3[u][j + 1] = ks1[u][j]
           /\ \A p \in ps1 : p # c /\ p # u => ks3[p] = ks1[p] /\ vs3[p] = vs1[p]
<1>1. w \in Nat /\ i \in 1 .. w
  BY DEF Contents
<1>2. /\ \A j \in 1 .. i - 1 : ks2[u][j] = ks1[u][j]
      /\ \A j \in i .. w - 1 : ks2[u][j + 1] = ks1[u][j]
  BY DEF Contents
<1>3. \A j \in 1 .. i - 1 : ks3[u][j] = ks1[u][j]
  <2> SUFFICES ASSUME NEW j \in 1 .. i - 1 PROVE ks3[u][j] = ks1[u][j]
    OBVIOUS
  <2>1. j \in 1 .. w /\ j # i
    BY <1>1
  <2> QED
    BY <1>2, <2>1 DEF SameAbove
<1>4. \A j \in i .. w - 1 : ks3[u][j + 1] = ks1[u][j]
  <2> SUFFICES ASSUME NEW j \in i .. w - 1 PROVE ks3[u][j + 1] = ks1[u][j]
    OBVIOUS
  <2>1. j + 1 \in 1 .. w /\ j + 1 # i
    BY <1>1
  <2> QED
    BY <1>2, <2>1 DEF SameAbove
<1>5. /\ Len(vs1[u]) = w /\ Len(vs2[u]) = w + 1 /\ Len(ks1[u]) = w - 1
      /\ vs1[u][i] = c /\ vs2[u][i + 1] = q
      /\ \A j \in 1 .. i : vs2[u][j] = vs1[u][j]
      /\ \A j \in i + 1 .. w : vs2[u][j + 1] = vs1[u][j]
      /\ \A p \in ps1 : p # c /\ p # u => ks2[p] = ks1[p] /\ vs2[p] = vs1[p]
  BY DEF Contents
<1>6. /\ Len(vs3[u]) = w + 1 /\ vs3[u][i + 1] = q
      /\ \A j \in 1 .. i : vs3[u][j] = vs1[u][j]
      /\ \A j \in i + 1 .. w : vs3[u][j + 1] = vs1[u][j]
  BY <1>5 DEF SameAbove
<1>7. \A p \in ps1 : p # c /\ p # u => ks3[p] = ks1[p] /\ vs3[p] = vs1[p]
  BY <1>5 DEF SameAbove
<1> QED
  BY <1>3, <1>4, <1>5, <1>6, <1>7 DEF SameAbove

\* Moving an entry to the right leaves what the two hold together.
LEMMA ToRightContents ==
    ASSUME NEW c, NEW q, NEW u, NEW i, NEW m, NEW m2, NEW n, NEW r, NEW w,
           NEW ps1, NEW lv1, NEW ks1, NEW vs1, NEW ks2, NEW vs2, NEW ks3, NEW vs3,
           Contents(c, q, u, i, m, n, r, w, ps1, lv1, ks1, vs1, ks2, vs2),
           ToRight(c, q, u, i, m, m2, n, r, w, ps1, lv1, ks2, vs2, ks3, vs3)
    PROVE  Contents(c, q, u, i, m2, n - 1, r + 1, w, ps1, lv1, ks1, vs1, ks3, vs3)
<1>1. /\ n \in Nat /\ r \in Nat /\ n >= 1 /\ n - 1 \in Nat /\ r + 1 \in Nat
      /\ w \in Nat /\ i \in 1 .. w
  <2>1. n \in Nat /\ r \in Nat /\ n >= 1
    BY DEF ToRight
  <2>2. w \in Nat /\ i \in 1 .. w
    BY DEF Contents
  <2> QED
    BY <2>1, <2>2
<1>2. SameAbove(c, u, i, m2, w, ps1, ks2, vs2, ks3, vs3)
  BY DEF ToRight, SameAbove
<1>3. /\ Len(vs1[u]) = w /\ Len(vs3[u]) = w + 1 /\ Len(ks1[u]) = w - 1 /\ Len(ks3[u]) = w
      /\ vs1[u][i] = c /\ vs3[u][i + 1] = q /\ ks3[u][i] = m2
      /\ \A j \in 1 .. i : vs3[u][j] = vs1[u][j]
      /\ \A j \in i + 1 .. w : vs3[u][j + 1] = vs1[u][j]
      /\ \A j \in 1 .. i - 1 : ks3[u][j] = ks1[u][j]
      /\ \A j \in i .. w - 1 : ks3[u][j + 1] = ks1[u][j]
      /\ \A p \in ps1 : p # c /\ p # u => ks3[p] = ks1[p] /\ vs3[p] = vs1[p]
  BY <1>2, ParentContents
<1>4. /\ Len(vs1[c]) = n + r /\ Len(vs3[c]) = n - 1 /\ Len(vs3[q]) = r + 1
      /\ \A j \in 1 .. n - 1 : vs3[c][j] = vs1[c][j]
      /\ \A j \in 1 .. r + 1 : vs3[q][j] = vs1[c][(n - 1) + j]
  <2>1. /\ \A j \in 1 .. n : vs2[c][j] = vs1[c][j]
        /\ \A j \in 1 .. r : vs2[q][j] = vs1[c][n + j]
    BY DEF Contents
  <2>2. /\ \A j \in 1 .. n - 1 : vs3[c][j] = vs2[c][j]
        /\ vs3[q][1] = vs2[c][n]
        /\ \A j \in 1 .. r : vs3[q][j + 1] = vs2[q][j]
    BY DEF ToRight
  <2>3. \A j \in 1 .. n - 1 : vs3[c][j] = vs1[c][j]
    <3>1. \A j \in 1 .. n - 1 : j \in 1 .. n
      BY <1>1
    <3> QED
      BY <2>1, <2>2, <3>1
  <2>4. ASSUME NEW j \in 1 .. r + 1 PROVE vs3[q][j] = vs1[c][(n - 1) + j]
    <3>1. CASE j = 1
      <4>1. (n - 1) + 1 = n /\ n \in 1 .. n
        BY <1>1
      <4> QED
        BY <2>1, <2>2, <3>1, <4>1
    <3>2. CASE j # 1
      <4>1. PICK k \in 1 .. r : k + 1 = j /\ n + k = (n - 1) + j
        <5>1. j - 1 \in 1 .. r /\ (j - 1) + 1 = j /\ n + (j - 1) = (n - 1) + j
          BY <1>1, <3>2
        <5> QED
          BY <5>1
      <4>2. vs3[q][k + 1] = vs2[q][k] /\ vs2[q][k] = vs1[c][n + k]
        BY <2>1, <2>2, <4>1
      <4> QED
        BY <4>1, <4>2
    <3> QED
      BY <3>1, <3>2
  <2> QED
    BY <2>3, <2>4 DEF Contents, ToRight
<1>5. c \in lv1 => /\ Len(ks1[c]) = n + r /\ Len(ks3[c]) = n - 1 /\ Len(ks3[q]) = r + 1
                   /\ \A j \in 1 .. n - 1 : ks3[c][j] = ks1[c][j]
                   /\ \A j \in 1 .. r + 1 : ks3[q][j] = ks1[c][(n - 1) + j]
  <2> SUFFICES ASSUME c \in lv1
               PROVE  /\ Len(ks1[c]) = n + r /\ Len(ks3[c]) = n - 1 /\ Len(ks3[q]) = r + 1
                      /\ \A j \in 1 .. n - 1 : ks3[c][j] = ks1[c][j]
                      /\ \A j \in 1 .. r + 1 : ks3[q][j] = ks1[c][(n - 1) + j]
    OBVIOUS
  <2>1. /\ \A j \in 1 .. n : ks2[c][j] = ks1[c][j]
        /\ \A j \in 1 .. r : ks2[q][j] = ks1[c][n + j]
    BY DEF Contents
  <2>2. /\ \A j \in 1 .. n - 1 : ks3[c][j] = ks2[c][j]
        /\ ks3[q][1] = ks2[c][n]
        /\ \A j \in 1 .. r : ks3[q][j + 1] = ks2[q][j]
    BY DEF ToRight
  <2>3. \A j \in 1 .. n - 1 : ks3[c][j] = ks1[c][j]
    <3>1. \A j \in 1 .. n - 1 : j \in 1 .. n
      BY <1>1
    <3> QED
      BY <2>1, <2>2, <3>1
  <2>4. ASSUME NEW j \in 1 .. r + 1 PROVE ks3[q][j] = ks1[c][(n - 1) + j]
    <3>1. CASE j = 1
      <4>1. (n - 1) + 1 = n /\ n \in 1 .. n
        BY <1>1
      <4> QED
        BY <2>1, <2>2, <3>1, <4>1
    <3>2. CASE j # 1
      <4>1. PICK k \in 1 .. r : k + 1 = j /\ n + k = (n - 1) + j
        <5>1. j - 1 \in 1 .. r /\ (j - 1) + 1 = j /\ n + (j - 1) = (n - 1) + j
          BY <1>1, <3>2
        <5> QED
          BY <5>1
      <4>2. ks3[q][k + 1] = ks2[q][k] /\ ks2[q][k] = ks1[c][n + k]
        BY <2>1, <2>2, <4>1
      <4> QED
        BY <4>1, <4>2
    <3> QED
      BY <3>1, <3>2
  <2> QED
    BY <2>3, <2>4 DEF Contents, ToRight
<1>6. c \notin lv1 => /\ n - 1 >= 1 /\ r + 1 >= 1 /\ ks1[c][n - 1] = m2
                      /\ Len(ks1[c]) = n + r - 1
                      /\ Len(ks3[c]) = (n - 1) - 1 /\ Len(ks3[q]) = (r + 1) - 1
                      /\ \A j \in 1 .. (n - 1) - 1 : ks3[c][j] = ks1[c][j]
                      /\ \A j \in 1 .. (r + 1) - 1 : ks3[q][j] = ks1[c][(n - 1) + j]
  <2> SUFFICES ASSUME c \notin lv1
               PROVE  /\ n - 1 >= 1 /\ r + 1 >= 1 /\ ks1[c][n - 1] = m2
                      /\ Len(ks1[c]) = n + r - 1
                      /\ Len(ks3[c]) = (n - 1) - 1 /\ Len(ks3[q]) = (r + 1) - 1
                      /\ \A j \in 1 .. (n - 1) - 1 : ks3[c][j] = ks1[c][j]
                      /\ \A j \in 1 .. (r + 1) - 1 : ks3[q][j] = ks1[c][(n - 1) + j]
    OBVIOUS
  <2>1. /\ ks1[c][n] = m /\ Len(ks1[c]) = n + r - 1
        /\ \A j \in 1 .. n - 1 : ks2[c][j] = ks1[c][j]
        /\ \A j \in 1 .. r - 1 : ks2[q][j] = ks1[c][n + j]
    BY DEF Contents
  <2>2. /\ n >= 2 /\ r >= 1 /\ Len(ks3[c]) = n - 2 /\ Len(ks3[q]) = r
        /\ \A j \in 1 .. n - 2 : ks3[c][j] = ks2[c][j]
        /\ ks2[c][n - 1] = m2 /\ ks3[q][1] = m
        /\ \A j \in 1 .. r - 1 : ks3[q][j + 1] = ks2[q][j]
    BY DEF ToRight
  <2>3. /\ n >= 2 /\ r >= 1
        /\ (n - 1) - 1 = n - 2 /\ (r + 1) - 1 = r /\ n - 1 >= 1 /\ r + 1 >= 1 /\ n - 1 \in 1 .. n - 1
        /\ \A j \in 1 .. n - 2 : j \in 1 .. n - 1
    BY <1>1, <2>2, SMTT(30)
  <2>4. ks1[c][n - 1] = m2 /\ \A j \in 1 .. n - 2 : ks3[c][j] = ks1[c][j]
    BY <2>1, <2>2, <2>3
  <2>5. ASSUME NEW j \in 1 .. r PROVE ks3[q][j] = ks1[c][(n - 1) + j]
    <3>1. CASE j = 1
      <4>1. (n - 1) + 1 = n
        BY <1>1
      <4> QED
        BY <2>1, <2>2, <3>1, <4>1
    <3>2. CASE j # 1
      <4>1. PICK k \in 1 .. r - 1 : k + 1 = j /\ n + k = (n - 1) + j
        <5>1. j - 1 \in 1 .. r - 1 /\ (j - 1) + 1 = j /\ n + (j - 1) = (n - 1) + j
          BY <1>1, <3>2
        <5> QED
          BY <5>1
      <4>2. ks3[q][k + 1] = ks2[q][k] /\ ks2[q][k] = ks1[c][n + k]
        BY <2>1, <2>2, <4>1
      <4> QED
        BY <4>1, <4>2
    <3> QED
      BY <3>1, <3>2
  <2> QED
    BY <2>1, <2>2, <2>3, <2>4, <2>5
<1>7. (n - 1) + (r + 1) = n + r /\ (n - 1) + (r + 1) - 1 = n + r - 1
  BY <1>1
<1> QED
  BY <1>1, <1>3, <1>4, <1>5, <1>6, <1>7 DEF Contents

\* And so does moving it back.
LEMMA ToLeftContents ==
    ASSUME NEW c, NEW q, NEW u, NEW i, NEW m, NEW m2, NEW n, NEW r, NEW w,
           NEW ps1, NEW lv1, NEW ks1, NEW vs1, NEW ks2, NEW vs2, NEW ks3, NEW vs3,
           Contents(c, q, u, i, m2, n - 1, r + 1, w, ps1, lv1, ks1, vs1, ks3, vs3),
           ToRight(c, q, u, i, m, m2, n, r, w, ps1, lv1, ks2, vs2, ks3, vs3)
    PROVE  Contents(c, q, u, i, m, n, r, w, ps1, lv1, ks1, vs1, ks2, vs2)
<1>1. /\ n \in Nat /\ r \in Nat /\ n >= 1 /\ n - 1 \in Nat /\ r + 1 \in Nat
      /\ w \in Nat /\ i \in 1 .. w
  <2>1. n \in Nat /\ r \in Nat /\ n >= 1
    BY DEF ToRight
  <2>2. w \in Nat /\ i \in 1 .. w
    BY DEF Contents
  <2> QED
    BY <2>1, <2>2
<1>2. SameAbove(c, u, i, m, w, ps1, ks3, vs3, ks2, vs2)
  BY DEF ToRight, SameAbove
<1>3. /\ Len(vs1[u]) = w /\ Len(vs2[u]) = w + 1 /\ Len(ks1[u]) = w - 1 /\ Len(ks2[u]) = w
      /\ vs1[u][i] = c /\ vs2[u][i + 1] = q /\ ks2[u][i] = m
      /\ \A j \in 1 .. i : vs2[u][j] = vs1[u][j]
      /\ \A j \in i + 1 .. w : vs2[u][j + 1] = vs1[u][j]
      /\ \A j \in 1 .. i - 1 : ks2[u][j] = ks1[u][j]
      /\ \A j \in i .. w - 1 : ks2[u][j + 1] = ks1[u][j]
      /\ \A p \in ps1 : p # c /\ p # u => ks2[p] = ks1[p] /\ vs2[p] = vs1[p]
  BY <1>2, ParentContents
<1>4. /\ (n - 1) + (r + 1) = n + r /\ (n - 1) + (r + 1) - 1 = n + r - 1
      /\ (n - 1) + 1 = n /\ 1 \in 1 .. r + 1
  BY <1>1
<1>5. /\ Len(vs1[c]) = n + r /\ Len(vs2[c]) = n /\ Len(vs2[q]) = r
      /\ \A j \in 1 .. n : vs2[c][j] = vs1[c][j]
      /\ \A j \in 1 .. r : vs2[q][j] = vs1[c][n + j]
  <2>1. /\ Len(vs1[c]) = (n - 1) + (r + 1)
        /\ \A j \in 1 .. n - 1 : vs3[c][j] = vs1[c][j]
        /\ \A j \in 1 .. r + 1 : vs3[q][j] = vs1[c][(n - 1) + j]
    BY DEF Contents
  <2>2. /\ Len(vs2[c]) = n /\ Len(vs2[q]) = r
        /\ \A j \in 1 .. n - 1 : vs3[c][j] = vs2[c][j]
        /\ vs3[q][1] = vs2[c][n]
        /\ \A j \in 1 .. r : vs3[q][j + 1] = vs2[q][j]
    BY DEF ToRight
  <2>3. ASSUME NEW j \in 1 .. n PROVE vs2[c][j] = vs1[c][j]
    <3>1. CASE j = n
      BY <1>4, <2>1, <2>2, <3>1
    <3>2. CASE j # n
      <4>1. j \in 1 .. n - 1
        BY <1>1, <3>2
      <4> QED
        BY <2>1, <2>2, <4>1
    <3> QED
      BY <3>1, <3>2
  <2>4. ASSUME NEW j \in 1 .. r PROVE vs2[q][j] = vs1[c][n + j]
    <3>1. PICK k \in 1 .. r + 1 : k = j + 1 /\ (n - 1) + k = n + j
      <4>1. j + 1 \in 1 .. r + 1 /\ (n - 1) + (j + 1) = n + j
        BY <1>1
      <4> QED
        BY <4>1
    <3>2. vs3[q][k] = vs1[c][(n - 1) + k] /\ vs3[q][j + 1] = vs2[q][j]
      BY <2>1, <2>2, <3>1
    <3> QED
      BY <3>1, <3>2
  <2> QED
    BY <1>4, <2>1, <2>2, <2>3, <2>4
<1>6. c \in lv1 => /\ Len(ks1[c]) = n + r /\ Len(ks2[c]) = n /\ Len(ks2[q]) = r
                   /\ \A j \in 1 .. n : ks2[c][j] = ks1[c][j]
                   /\ \A j \in 1 .. r : ks2[q][j] = ks1[c][n + j]
  <2> SUFFICES ASSUME c \in lv1
               PROVE  /\ Len(ks1[c]) = n + r /\ Len(ks2[c]) = n /\ Len(ks2[q]) = r
                      /\ \A j \in 1 .. n : ks2[c][j] = ks1[c][j]
                      /\ \A j \in 1 .. r : ks2[q][j] = ks1[c][n + j]
    OBVIOUS
  <2>1. /\ Len(ks1[c]) = (n - 1) + (r + 1)
        /\ \A j \in 1 .. n - 1 : ks3[c][j] = ks1[c][j]
        /\ \A j \in 1 .. r + 1 : ks3[q][j] = ks1[c][(n - 1) + j]
    BY DEF Contents
  <2>2. /\ Len(ks2[c]) = n /\ Len(ks2[q]) = r
        /\ \A j \in 1 .. n - 1 : ks3[c][j] = ks2[c][j]
        /\ ks3[q][1] = ks2[c][n]
        /\ \A j \in 1 .. r : ks3[q][j + 1] = ks2[q][j]
    BY DEF ToRight
  <2>3. ASSUME NEW j \in 1 .. n PROVE ks2[c][j] = ks1[c][j]
    <3>1. CASE j = n
      BY <1>4, <2>1, <2>2, <3>1
    <3>2. CASE j # n
      <4>1. j \in 1 .. n - 1
        BY <1>1, <3>2
      <4> QED
        BY <2>1, <2>2, <4>1
    <3> QED
      BY <3>1, <3>2
  <2>4. ASSUME NEW j \in 1 .. r PROVE ks2[q][j] = ks1[c][n + j]
    <3>1. PICK k \in 1 .. r + 1 : k = j + 1 /\ (n - 1) + k = n + j
      <4>1. j + 1 \in 1 .. r + 1 /\ (n - 1) + (j + 1) = n + j
        BY <1>1
      <4> QED
        BY <4>1
    <3>2. ks3[q][k] = ks1[c][(n - 1) + k] /\ ks3[q][j + 1] = ks2[q][j]
      BY <2>1, <2>2, <3>1
    <3> QED
      BY <3>1, <3>2
  <2> QED
    BY <1>4, <2>1, <2>2, <2>3, <2>4
<1>7. c \notin lv1 => /\ n >= 1 /\ r >= 1 /\ ks1[c][n] = m
                      /\ Len(ks1[c]) = n + r - 1 /\ Len(ks2[c]) = n - 1 /\ Len(ks2[q]) = r - 1
                      /\ \A j \in 1 .. n - 1 : ks2[c][j] = ks1[c][j]
                      /\ \A j \in 1 .. r - 1 : ks2[q][j] = ks1[c][n + j]
  <2> SUFFICES ASSUME c \notin lv1
               PROVE  /\ n >= 1 /\ r >= 1 /\ ks1[c][n] = m
                      /\ Len(ks1[c]) = n + r - 1 /\ Len(ks2[c]) = n - 1 /\ Len(ks2[q]) = r - 1
                      /\ \A j \in 1 .. n - 1 : ks2[c][j] = ks1[c][j]
                      /\ \A j \in 1 .. r - 1 : ks2[q][j] = ks1[c][n + j]
    OBVIOUS
  <2>1. /\ ks1[c][n - 1] = m2 /\ Len(ks1[c]) = (n - 1) + (r + 1) - 1
        /\ \A j \in 1 .. (n - 1) - 1 : ks3[c][j] = ks1[c][j]
        /\ \A j \in 1 .. (r + 1) - 1 : ks3[q][j] = ks1[c][(n - 1) + j]
    BY DEF Contents
  <2>2. /\ n >= 2 /\ r >= 1 /\ Len(ks2[c]) = n - 1 /\ Len(ks2[q]) = r - 1
        /\ \A j \in 1 .. n - 2 : ks3[c][j] = ks2[c][j]
        /\ ks2[c][n - 1] = m2 /\ ks3[q][1] = m
        /\ \A j \in 1 .. r - 1 : ks3[q][j + 1] = ks2[q][j]
    BY DEF ToRight
  <2>3. n >= 2 /\ r >= 1 /\ (n - 1) - 1 = n - 2 /\ (r + 1) - 1 = r /\ 1 \in 1 .. r
    <3>1. n >= 2 /\ r >= 1
      BY <2>2
    <3> QED
      BY <1>1, <3>1
  <2>4. ks1[c][n] = m
    BY <1>4, <2>1, <2>2, <2>3, ZenonT(40)
  <2>5. ASSUME NEW j \in 1 .. n - 1 PROVE ks2[c][j] = ks1[c][j]
    <3>1. CASE j = n - 1
      BY <2>1, <2>2, <3>1
    <3>2. CASE j # n - 1
      <4>1. j \in 1 .. n - 2
        BY <1>1, <3>2
      <4> QED
        BY <2>1, <2>2, <2>3, <4>1
    <3> QED
      BY <3>1, <3>2
  <2>6. ASSUME NEW j \in 1 .. r - 1 PROVE ks2[q][j] = ks1[c][n + j]
    <3>1. PICK k \in 1 .. r : k = j + 1 /\ (n - 1) + k = n + j
      <4>1. j + 1 \in 1 .. r /\ (n - 1) + (j + 1) = n + j
        BY <1>1
      <4> QED
        BY <4>1
    <3>2. ks3[q][k] = ks1[c][(n - 1) + k] /\ ks3[q][j + 1] = ks2[q][j]
      BY <2>1, <2>2, <2>3, <3>1
    <3> QED
      BY <3>1, <3>2
  <2> QED
    BY <1>1, <1>4, <2>1, <2>2, <2>4, <2>5, <2>6
<1> QED
  BY <1>1, <1>3, <1>5, <1>6, <1>7 DEF Contents

ThePair(c, q, u) == c = Left /\ q = Right /\ u = parent[cur] /\ (cur = c \/ cur = q)

\* Two neighbours hold the same together, in other shares: the tree stays one.
LEMMA RefilledStep ==
    ASSUME Inv, NEW le, NEW lo, NEW hi, IsTree(le, lo, hi), loc = "underflow",
           NEW c, NEW q, NEW u, NEW i, NEW m, NEW w, Neighbours(c, q, u, i, m, w),
           ThePair(c, q, u),
           NEW moved, NEW to, Refilled(moved, to),
           NEW pa1, NEW nx1, NEW ks1, NEW vs1, Joined(c, q, u, i, m, pa1, nx1, ks1, vs1),
           NEW m2, NEW n2 \in Nat, NEW r2 \in Nat,
           Joins(c, q, u, i, m2, n2, r2, w, pages \ {q}, leaves \ {q}, pa1, nx1, ks1, vs1,
                 pages, leaves, parent', next, keys', vals'),
           Typed(root, pages, leaves, parent', next, keys', vals'),
           c \in leaves => m2 = keys'[q][1],
           n2 >= MinSize(c), n2 <= MaxSize(c), r2 >= MinSize(c), r2 <= MaxSize(c)
    PROVE  Inv' /\ Pairs' = Pairs
<1>1. /\ c \in pages /\ q \in pages /\ u \in pages /\ u \notin leaves
      /\ c # q /\ c # u /\ q # u /\ c # root /\ q # root /\ (c \in leaves <=> q \in leaves)
      /\ w \in Nat /\ i \in 1 .. w /\ Len(vals[u]) = w + 1
  BY DEF Neighbours
<1>2. /\ root' = root /\ pages' = pages /\ leaves' = leaves /\ next' = next
      /\ Fetching({Family} \cup {Family \cup {moved} : p \in {cur} \ leaves})
      /\ pins' = Unpin(Fetch(pins, Family), {c, q, u})
      /\ loc' = "idle" /\ cur' = INVALID_PAGE_ID /\ due' = {}
  BY DEF Refilled, Return, GoTo, ThePair
<1>3. PICK n, r : n = Size(c) /\ r = Size(q)
  OBVIOUS
<1>4. Sized(c, q, n, r)
  <2>1. c \notin leaves => Size(c) >= 1 /\ Size(q) >= 1
    BY NeighbourSizes DEF ThePair
  <2> QED
    BY <1>3, <2>1 DEF Sized, Size
<1>5. /\ Joins(c, q, u, i, m, n, r, w, pages \ {q}, leaves \ {q}, pa1, nx1, ks1, vs1,
               pages, leaves, parent, next, keys, vals)
      /\ Tree(root, pages \ {q}, leaves \ {q}, pa1, nx1, ks1, vs1,
              le, lo, [hi EXCEPT ![c] = hi[q]])
  BY <1>4, JoinedIsTree
<1>6. PICK hi1 : Tree(root, pages \ {q}, leaves \ {q}, pa1, nx1, ks1, vs1, le, lo, hi1)
  BY <1>5
<1>7. Tree(root, pages, leaves, parent', next, keys', vals',
           [le EXCEPT ![q] = le[c]], [lo EXCEPT ![q] = From(m2)],
           [hi1 EXCEPT ![c] = From(m2), ![q] = hi1[c]])
  <2>1. n2 >= 1 /\ r2 >= 1
    <3>1. MinSize(c) \in Nat /\ MinSize(c) >= 1
      BY SizeFacts
    <3> QED
      BY <3>1
  <2>2. c \in leaves \ {q} => m2 = keys'[q][1]
    OBVIOUS
  <2> QED
    BY <1>6, <2>1, <2>2, SplitKeepsTree
<1>8. PICK le2, lo2, hi2 : Tree(root, pages, leaves, parent', next, keys', vals', le2, lo2, hi2)
  BY <1>7
<1>9. IsTree(le2, lo2, hi2)'
  BY <1>2, <1>8 DEF IsTree
<1>10. Pairs' = Pairs
  <2>1. leaves \ {q} \subseteq pages \ {q}
    BY TreeTypes
  <2>2. LeafPairs(leaves \ {q}, ks1, vs1) = LeafPairs(leaves, keys, vals)
    BY <1>5, <2>1, JoinsKeepPairs
  <2>3. LeafPairs(leaves \ {q}, ks1, vs1) = LeafPairs(leaves, keys', vals')
    BY <2>1, JoinsKeepPairs
  <2>4. Pairs' = LeafPairs(leaves, keys', vals')
    BY <1>2 DEF Pairs, LeafPairs
  <2> QED
    BY <2>2, <2>3, <2>4, PairsAre
<1>11. (Pairs \subseteq Entries)'
  BY <1>10 DEF Inv
<1>12. /\ starved = FALSE
       /\ \E H : pins = Pinned(H) /\ H \cup Family = {c, q, u} /\ H \cap Family = {}
  BY FamilyPins DEF ThePair
<1>13. PICK H : pins = Pinned(H) /\ H \cup Family = {c, q, u} /\ H \cap Family = {}
  BY <1>12
<1>14. starved' = FALSE
  <2>1. AtMostFour(H, {Family} \cup {Family \cup {moved} : p \in {cur} \ leaves})
    <3> SUFFICES ASSUME NEW set \in {Family} \cup {Family \cup {moved} : p \in {cur} \ leaves}
                 PROVE  \E a, b, x, y : H \cup set \subseteq {a, b, x, y}
      BY DEF AtMostFour
    <3>1. set \subseteq Family \cup {moved}
      OBVIOUS
    <3>2. H \cup set \subseteq {c, q, u, moved}
      BY <1>13, <3>1
    <3> QED
      BY <3>2
  <2> QED
    BY <1>2, <1>12, <1>13, <2>1, FetchingFits
<1>15. pins' = Pinned({})
  <2>1. Fetch(pins, Family) = Pinned({c, q, u})
    BY <1>13, PinnedFacts
  <2>2. Unpin(Pinned({c, q, u}), {c, q, u}) = Pinned({c, q, u} \ {c, q, u})
    BY PinnedFacts
  <2>3. {c, q, u} \ {c, q, u} = {}
    OBVIOUS
  <2> QED
    BY <1>2, <2>1, <2>2, <2>3
<1>16. Course'
  BY <1>2, <1>14, <1>15, CourseAfter
<1>17. /\ Len(vals'[c]) = n2 /\ Len(vals'[q]) = r2 /\ Len(vals'[u]) = w + 1
       /\ \A p \in pages \ {q} : p # c /\ p # u => vals'[p] = vs1[p]
  BY DEF Joins, Contents
<1>18. \A p \in pages \ {q} : p # c /\ p # u => vals[p] = vs1[p]
  BY <1>5 DEF Joins, Contents
<1>19. Sizes'
  <2> SUFFICES ASSUME NEW p \in pages PROVE Fits(p)'
    BY <1>2 DEF Sizes, SizeOK
  <2>1. CASE p = c
    BY <1>1, <1>2, <1>17, <2>1, SplitSizes
  <2>2. CASE p = q
    BY <1>1, <1>2, <1>17, <2>2, SplitSizes
  <2>3. CASE p # c /\ p # q
    <3>1. Fits(p)
      BY <2>3, OthersFit DEF ThePair
    <3>2. Len(vals'[p]) = Len(vals[p])
      BY <1>1, <1>17, <1>18, <2>3
    <3> QED
      BY <1>2, <3>1, <3>2, FitsSame
  <2> QED
    BY <2>1, <2>2, <2>3
<1>20. due' \in UpSets
  BY <1>2, UpSetFacts
<1>21. Inv'
  BY <1>2, <1>9, <1>11, <1>16, <1>19, <1>20, ChangeKeepsInv
<1> QED
  BY <1>10, <1>21

\* A sequence without its last element.
LEMMA FrontFacts ==
    ASSUME NEW T, NEW s \in Seq(T), NEW a \in Nat, a = Len(s), a >= 1, NEW x, x = S!Front(s)
    PROVE  x \in Seq(T) /\ Len(x) = a - 1 /\ \A j \in 1 .. a - 1 : x[j] = s[j]
<1>1. PICK b \in Nat : b = a - 1 /\ b <= Len(s) /\ 1 <= b + 1 /\ b - 1 + 1 = a - 1
  OBVIOUS
<1>2. x = SubSeq(s, 1, b)
  BY <1>1 DEF S!Front
<1>3. /\ x \in Seq(T) /\ Len(x) = b - 1 + 1
      /\ \A j \in 1 .. b - 1 + 1 : x[j] = s[1 + j - 1]
  BY <1>1, <1>2, SubSeqFacts
<1>4. \A j \in 1 .. a - 1 : 1 + j - 1 = j
  OBVIOUS
<1> QED
  BY <1>1, <1>3, <1>4

\* With an element put before it.
LEMMA PrependFacts ==
    ASSUME NEW T, NEW s \in Seq(T), NEW a \in Nat, a = Len(s), NEW e \in T, NEW x, x = <<e>> \o s
    PROVE  x \in Seq(T) /\ Len(x) = a + 1 /\ x[1] = e /\ \A j \in 1 .. a : x[j + 1] = s[j]
<1>1. PICK o \in Seq(T) : o = <<e>> /\ 1 = Len(o) /\ o[1] = e
  <2>1. <<e>> \in Seq(T) /\ Len(<<e>>) = 1 /\ <<e>>[1] = e
    OBVIOUS
  <2> QED
    BY <2>1
<1>2. x = o \o s /\ 1 = Len(o)
  BY <1>1
<1>3. /\ x \in Seq(T) /\ Len(x) = 1 + a
      /\ \A j \in 1 .. 1 : x[j] = o[j]
      /\ \A j \in 1 .. a : x[1 + j] = s[j]
  BY <1>2, ConcatFacts
<1>4. 1 + a = a + 1 /\ \A j \in 1 .. a : 1 + j = j + 1
  OBVIOUS
<1> QED
  BY <1>1, <1>3, <1>4

\* With an element put after it.
LEMMA AppendFacts ==
    ASSUME NEW T, NEW s \in Seq(T), NEW a \in Nat, a = Len(s), NEW e \in T, NEW x, x = Append(s, e)
    PROVE  x \in Seq(T) /\ Len(x) = a + 1 /\ x[a + 1] = e /\ \A j \in 1 .. a : x[j] = s[j]
  OBVIOUS

\* Without its first element.
LEMMA TailFacts ==
    ASSUME NEW T, NEW s \in Seq(T), NEW a \in Nat, a = Len(s), a >= 1, NEW x, x = Tail(s)
    PROVE  /\ x \in Seq(T) /\ Len(x) = a - 1 /\ Head(s) = s[1]
           /\ \A j \in 1 .. a - 1 : s[j + 1] = x[j]
  OBVIOUS

\* With one element replaced.
LEMMA ReplaceFacts ==
    ASSUME NEW T, NEW s \in Seq(T), NEW a \in Nat, a = Len(s), NEW i \in 1 .. a, NEW e \in T,
           NEW x, x = [s EXCEPT ![i] = e]
    PROVE  /\ x \in Seq(T) /\ Len(x) = a /\ x[i] = e
           /\ \A j \in 1 .. a : j # i => x[j] = s[j]
  OBVIOUS

Named(c, q, u, i, m) ==
    c = Left /\ q = Right /\ u = parent[cur] /\ i = RightIndex /\ m = Separator

\* What a step that refills cur finds.
LEMMA BorrowFinds ==
    ASSUME Inv, loc = "underflow", ~IsRoot(cur),
           NEW c, NEW q, NEW u, NEW i, NEW m, Named(c, q, u, i, m)
    PROVE  \E le, lo, hi, w, pa1, nx1, ks1, vs1 :
              /\ IsTree(le, lo, hi) /\ Neighbours(c, q, u, i, m, w) /\ ThePair(c, q, u)
              /\ Joined(c, q, u, i, m, pa1, nx1, ks1, vs1)
              /\ Joins(c, q, u, i, m, Size(c), Size(q), w, pages \ {q}, leaves \ {q}, pa1, nx1, ks1, vs1,
                       pages, leaves, parent, next, keys, vals)
              /\ Adopted(c, q, Size(q), pa1)
<1>1. PICK le, lo, hi : IsTree(le, lo, hi)
  BY TreeThere
<1>2. /\ \E w : Neighbours(c, q, u, i, m, w)
      /\ ThePair(c, q, u)
  BY <1>1, NeighboursThere DEF ThePair, Named
<1>3. PICK w : Neighbours(c, q, u, i, m, w)
  BY <1>2
<1>4. PICK ks1 : ks1 = [keys EXCEPT ![c] = @ \o (IF c \in leaves THEN <<>> ELSE <<m>>) \o keys[q],
                                    ![q] = <<>>, ![u] = S!RemoveAt(@, i)]
  OBVIOUS
<1>5. PICK vs1 : vs1 = [vals EXCEPT ![c] = vals[c] \o vals[q], ![q] = <<>>,
                                    ![u] = S!RemoveAt(@, i + 1)]
  OBVIOUS
<1>6. PICK pa1 : pa1 = Cleared(Adopt(parent, IF c \in leaves THEN {} ELSE S!ToSet(vals[c] \o vals[q]), c),
                               {q}, INVALID_PAGE_ID)
  OBVIOUS
<1>7. PICK nx1 : nx1 = Cleared(IF c \in leaves THEN [next EXCEPT ![c] = next[q]] ELSE next,
                               {q}, INVALID_PAGE_ID)
  OBVIOUS
<1>8. Joined(c, q, u, i, m, pa1, nx1, ks1, vs1)
  BY <1>4, <1>5, <1>6, <1>7 DEF Joined
<1>9. PICK n, r : n = Size(c) /\ r = Size(q)
  OBVIOUS
<1>10. Sized(c, q, n, r)
  <2>1. c \notin leaves => Size(c) >= 1 /\ Size(q) >= 1
    BY <1>1, <1>2, <1>3, NeighbourSizes DEF ThePair
  <2> QED
    BY <1>9, <2>1 DEF Sized, Size
<1>11. /\ Joins(c, q, u, i, m, n, r, w, pages \ {q}, leaves \ {q}, pa1, nx1, ks1, vs1,
                pages, leaves, parent, next, keys, vals)
       /\ Adopted(c, q, r, pa1)
  BY <1>1, <1>3, <1>8, <1>10, JoinedIsTree
<1> QED
  BY <1>1, <1>2, <1>3, <1>8, <1>9, <1>11

\* The left neighbour's last entry goes to the page that has too few.
LEMMA BorrowFromLeftStep ==
    ASSUME Inv, BorrowFromLeft
    PROVE  Inv' /\ Pairs' = Pairs
<1>1. PICK c, q, u, i, m : Named(c, q, u, i, m)
  BY DEF Named
<1>2. /\ loc = "underflow" /\ ~IsRoot(cur) /\ CanBorrow /\ cur = q
      /\ Size(c) > MinSize(c) \/ Size(q) > MinSize(q)
  BY <1>1 DEF BorrowFromLeft, CanBorrow, Named
<1>3. PICK le, lo, hi, w, pa1, nx1, ks1, vs1 :
         /\ IsTree(le, lo, hi) /\ Neighbours(c, q, u, i, m, w) /\ ThePair(c, q, u)
         /\ Joined(c, q, u, i, m, pa1, nx1, ks1, vs1)
         /\ Joins(c, q, u, i, m, Size(c), Size(q), w, pages \ {q}, leaves \ {q}, pa1, nx1, ks1, vs1,
                  pages, leaves, parent, next, keys, vals)
         /\ Adopted(c, q, Size(q), pa1)
  BY <1>1, <1>2, BorrowFinds
<1>4. PICK n, r : n = Size(c) /\ r = Size(q)
  OBVIOUS
<1>5. /\ c \in pages /\ q \in pages /\ u \in pages /\ u \notin leaves
      /\ c # q /\ c # u /\ q # u /\ (c \in leaves <=> q \in leaves)
      /\ (cur \in leaves <=> c \in leaves) /\ m \in Keys
      /\ w \in Nat /\ i \in 1 .. w /\ Len(vals[u]) = w + 1 /\ Len(keys[u]) = w /\ keys[u][i] = m
  BY <1>2, <1>3 DEF Neighbours
<1>6. /\ pages \subseteq PageIds /\ leaves \subseteq pages /\ root \in pages
      /\ parent \in [PageIds -> AnyId] /\ next \in [PageIds -> AnyId]
      /\ keys \in [PageIds -> Seq(Keys)] /\ vals \in [PageIds -> Seq(PageVals)]
      /\ \A p \in PageIds : p \notin pages => parent[p] = INVALID_PAGE_ID
      /\ \A p \in PageIds : p \notin leaves => next[p] = INVALID_PAGE_ID
  BY <1>3, TreeTypes
<1>7. c \in PageIds /\ q \in PageIds /\ u \in PageIds
  BY <1>5, <1>6
<1>8. /\ n \in Nat /\ r \in Nat /\ n > MinSize(c) /\ n <= MaxSize(c) /\ r = MinSize(c) - 1
      /\ MinSize(c) \in Nat /\ MaxSize(c) \in Nat /\ MinSize(c) >= 1
      /\ MinSize(c) <= MaxSize(c) /\ (c \notin leaves => MinSize(c) >= 2)
  <2>1. /\ n \in Nat /\ r \in Nat /\ n <= MaxSize(c) /\ r = MinSize(c) - 1
        /\ MinSize(q) = MinSize(c)
    BY <1>2, <1>3, <1>4, NeighbourSizes
  <2>2. /\ MinSize(c) \in Nat /\ MaxSize(c) \in Nat /\ MinSize(c) >= 1
        /\ MinSize(c) <= MaxSize(c) /\ (c \notin leaves => MinSize(c) >= 2)
    BY SizeFacts
  <2>3. ~(r > MinSize(c))
    BY <2>1, <2>2
  <2> QED
    BY <1>2, <1>4, <2>1, <2>2, <2>3
<1>9. /\ n - 1 \in Nat /\ r + 1 \in Nat /\ n >= 2 /\ n >= 1
      /\ (c \notin leaves => n >= 2 /\ r >= 1 /\ n - 1 >= 1)
      /\ n - 1 >= MinSize(c) /\ n - 1 <= MaxSize(c) /\ r + 1 >= MinSize(c) /\ r + 1 <= MaxSize(c)
  BY <1>8
<1>10. /\ Len(vals[c]) = n /\ Len(vals[q]) = r
       /\ c \in leaves => Len(keys[c]) = n /\ Len(keys[q]) = r
       /\ c \notin leaves => Len(keys[c]) = n - 1 /\ Len(keys[q]) = r - 1
  BY <1>3, <1>4, <1>5 DEF IsTree, Tree, Counted, Size
<1>11. PICK a : a = Len(keys[c])
  OBVIOUS
<1>12. PICK b : b = Len(keys[q])
  OBVIOUS
<1>13. a \in Nat /\ b \in Nat /\ a >= 1
  <2>1. CASE c \in leaves
    BY <1>8, <1>9, <1>10, <1>11, <1>12, <2>1
  <2>2. CASE c \notin leaves
    <3>1. a = n - 1 /\ b = r - 1
      BY <1>10, <1>11, <1>12, <2>2
    <3>2. r >= 1 /\ n - 1 >= 1 /\ r \in Nat /\ n \in Nat
      BY <1>8, <1>9, <2>2
    <3> QED
      BY <3>1, <3>2
  <2> QED
    BY <2>1, <2>2
<1>14. PICK m2 : m2 = S!Last(keys[c])
  OBVIOUS
<1>15. m2 = keys[c][a] /\ m2 \in Keys
  <2>1. m2 = keys[c][a]
    BY <1>11, <1>14 DEF S!Last
  <2>2. keys[c] \in Seq(Keys) /\ a \in 1 .. Len(keys[c])
    BY <1>6, <1>7, <1>11, <1>13
  <2> QED
    BY <2>1, <2>2
<1>16. PICK moved : moved = S!Last(vals[c])
  OBVIOUS
<1>17. moved = vals[c][n] /\ moved \in PageVals
  <2>1. moved = vals[c][n]
    BY <1>10, <1>16 DEF S!Last
  <2>2. vals[c] \in Seq(PageVals) /\ n \in 1 .. Len(vals[c])
    BY <1>6, <1>7, <1>8, <1>9, <1>10
  <2> QED
    BY <2>1, <2>2
<1>18. PICK e \in Keys : e = IF c \in leaves THEN m2 ELSE m
  BY <1>5, <1>15
<1>19. PICK kc \in Seq(Keys) : /\ kc = S!Front(keys[c]) /\ Len(kc) = a - 1
                               /\ \A j \in 1 .. a - 1 : kc[j] = keys[c][j]
  <2>1. PICK s \in Seq(Keys) : s = keys[c]
    BY <1>6, <1>7
  <2>2. PICK x : x = S!Front(s)
    OBVIOUS
  <2>3. x \in Seq(Keys) /\ Len(x) = a - 1 /\ \A j \in 1 .. a - 1 : x[j] = s[j]
    <3>1. a \in Nat /\ a = Len(s) /\ a >= 1
      BY <1>11, <1>13, <2>1
    <3> QED
      BY <2>2, <3>1, FrontFacts
  <2> QED
    BY <2>1, <2>2, <2>3
<1>20. PICK vc \in Seq(PageVals) : /\ vc = S!Front(vals[c]) /\ Len(vc) = n - 1
                                   /\ \A j \in 1 .. n - 1 : vc[j] = vals[c][j]
  <2>1. PICK s \in Seq(PageVals) : s = vals[c]
    BY <1>6, <1>7
  <2>2. PICK x : x = S!Front(s)
    OBVIOUS
  <2>3. x \in Seq(PageVals) /\ Len(x) = n - 1 /\ \A j \in 1 .. n - 1 : x[j] = s[j]
    <3>1. n \in Nat /\ n = Len(s) /\ n >= 1
      BY <1>8, <1>9, <1>10, <2>1
    <3> QED
      BY <2>2, <3>1, FrontFacts
  <2> QED
    BY <2>1, <2>2, <2>3
<1>21. PICK kq \in Seq(Keys) : /\ kq = <<e>> \o keys[q] /\ Len(kq) = b + 1 /\ kq[1] = e
                               /\ \A j \in 1 .. b : kq[j + 1] = keys[q][j]
  <2>1. PICK s \in Seq(Keys) : s = keys[q]
    BY <1>6, <1>7
  <2>2. PICK x : x = <<e>> \o s
    OBVIOUS
  <2>3. x \in Seq(Keys) /\ Len(x) = b + 1 /\ x[1] = e /\ \A j \in 1 .. b : x[j + 1] = s[j]
    <3>1. b \in Nat /\ b = Len(s)
      BY <1>12, <1>13, <2>1
    <3> QED
      BY <2>2, <3>1, PrependFacts
  <2> QED
    BY <2>1, <2>2, <2>3
<1>22. PICK vq \in Seq(PageVals) : /\ vq = <<moved>> \o vals[q] /\ Len(vq) = r + 1 /\ vq[1] = moved
                                   /\ \A j \in 1 .. r : vq[j + 1] = vals[q][j]
  <2>1. PICK s \in Seq(PageVals) : s = vals[q]
    BY <1>6, <1>7
  <2>2. PICK x : x = <<moved>> \o s
    OBVIOUS
  <2>3. x \in Seq(PageVals) /\ Len(x) = r + 1 /\ x[1] = moved /\ \A j \in 1 .. r : x[j + 1] = s[j]
    <3>1. r \in Nat /\ r = Len(s) /\ moved \in PageVals
      BY <1>8, <1>10, <1>17, <2>1
    <3> QED
      BY <2>2, <3>1, PrependFacts
  <2> QED
    BY <2>1, <2>2, <2>3
<1>23. PICK ku \in Seq(Keys) : /\ ku = [keys[u] EXCEPT ![i] = m2] /\ Len(ku) = w /\ ku[i] = m2
                               /\ \A j \in 1 .. w : j # i => ku[j] = keys[u][j]
  <2>1. PICK s \in Seq(Keys) : s = keys[u]
    BY <1>6, <1>7
  <2>2. PICK x : x = [s EXCEPT ![i] = m2]
    OBVIOUS
  <2>3. x \in Seq(Keys) /\ Len(x) = w /\ x[i] = m2 /\ \A j \in 1 .. w : j # i => x[j] = s[j]
    <3>1. w \in Nat /\ w = Len(s) /\ i \in 1 .. w /\ m2 \in Keys
      BY <1>5, <1>15, <2>1
    <3> QED
      BY <2>2, <3>1, ReplaceFacts
  <2>4. x = [keys[u] EXCEPT ![i] = m2]
    BY <2>1, <2>2
  <2> QED
    BY <2>1, <2>3, <2>4
<1>24. /\ keys' = [keys EXCEPT ![c] = S!Front(@), ![q] = <<e>> \o @, ![u] = [@ EXCEPT ![i] = m2]]
       /\ vals' = [vals EXCEPT ![c] = S!Front(@), ![q] = <<moved>> \o @]
       /\ Refilled(moved, q)
  <2>1. c = Left /\ q = Right /\ u = parent[cur] /\ i = RightIndex /\ m = Separator
    BY <1>1 DEF Named
  <2> QED
    BY <1>5, <1>14, <1>16, <1>18, <2>1 DEF BorrowFromLeft
<1>25. /\ keys' \in [PageIds -> Seq(Keys)]
       /\ keys'[c] = kc /\ keys'[q] = kq /\ keys'[u] = ku
       /\ \A p \in PageIds : p # c /\ p # q /\ p # u => keys'[p] = keys[p]
  <2>1. keys' = [keys EXCEPT ![c] = kc, ![q] = kq, ![u] = ku]
    BY <1>5, <1>6, <1>7, <1>19, <1>21, <1>23, <1>24
  <2> QED
    BY <1>5, <1>6, <1>7, <2>1
<1>26. /\ vals' \in [PageIds -> Seq(PageVals)]
       /\ vals'[c] = vc /\ vals'[q] = vq
       /\ \A p \in PageIds : p # c /\ p # q => vals'[p] = vals[p]
  <2>1. vals' = [vals EXCEPT ![c] = vc, ![q] = vq]
    BY <1>5, <1>6, <1>7, <1>20, <1>22, <1>24
  <2> QED
    BY <1>5, <1>6, <1>7, <2>1
<1>27. ToRight(c, q, u, i, m, m2, n, r, w, pages \ {q}, leaves \ {q}, keys, vals, keys', vals')
  <2>1. c \in leaves \ {q} <=> c \in leaves
    BY <1>5
  <2>2. c \in leaves => /\ Len(keys[c]) = n /\ Len(keys'[c]) = n - 1
                        /\ Len(keys[q]) = r /\ Len(keys'[q]) = r + 1
                        /\ \A j \in 1 .. n - 1 : keys'[c][j] = keys[c][j]
                        /\ keys'[q][1] = keys[c][n]
                        /\ \A j \in 1 .. r : keys'[q][j + 1] = keys[q][j]
    <3> SUFFICES ASSUME c \in leaves
                 PROVE  /\ Len(keys[c]) = n /\ Len(keys'[c]) = n - 1
                        /\ Len(keys[q]) = r /\ Len(keys'[q]) = r + 1
                        /\ \A j \in 1 .. n - 1 : keys'[c][j] = keys[c][j]
                        /\ keys'[q][1] = keys[c][n]
                        /\ \A j \in 1 .. r : keys'[q][j + 1] = keys[q][j]
      OBVIOUS
    <3>1. a = n /\ b = r /\ e = keys[c][n]
      BY <1>10, <1>11, <1>12, <1>15, <1>18
    <3> QED
      BY <1>10, <1>19, <1>21, <1>25, <3>1
  <2>3. c \notin leaves => /\ Len(keys[c]) = n - 1 /\ Len(keys'[c]) = n - 2
                           /\ Len(keys[q]) = r - 1 /\ Len(keys'[q]) = r
                           /\ \A j \in 1 .. n - 2 : keys'[c][j] = keys[c][j]
                           /\ keys[c][n - 1] = m2 /\ keys'[q][1] = m
                           /\ \A j \in 1 .. r - 1 : keys'[q][j + 1] = keys[q][j]
    <3> SUFFICES ASSUME c \notin leaves
                 PROVE  /\ Len(keys[c]) = n - 1 /\ Len(keys'[c]) = n - 2
                        /\ Len(keys[q]) = r - 1 /\ Len(keys'[q]) = r
                        /\ \A j \in 1 .. n - 2 : keys'[c][j] = keys[c][j]
                        /\ keys[c][n - 1] = m2 /\ keys'[q][1] = m
                        /\ \A j \in 1 .. r - 1 : keys'[q][j + 1] = keys[q][j]
      OBVIOUS
    <3>1. a = n - 1 /\ b = r - 1 /\ e = m
      BY <1>10, <1>11, <1>12, <1>18
    <3>2. a - 1 = n - 2 /\ b + 1 = r
      BY <1>8, <3>1
    <3> QED
      BY <1>10, <1>15, <1>19, <1>21, <1>25, <3>1, <3>2
  <2>4. /\ Len(vals[c]) = n /\ Len(vals'[c]) = n - 1 /\ Len(vals[q]) = r /\ Len(vals'[q]) = r + 1
        /\ \A j \in 1 .. n - 1 : vals'[c][j] = vals[c][j]
        /\ vals'[q][1] = vals[c][n]
        /\ \A j \in 1 .. r : vals'[q][j + 1] = vals[q][j]
    BY <1>10, <1>17, <1>20, <1>22, <1>26
  <2>5. /\ vals'[u] = vals[u] /\ Len(keys'[u]) = w /\ Len(keys[u]) = w
        /\ keys[u][i] = m /\ keys'[u][i] = m2
        /\ \A j \in 1 .. w : j # i => keys'[u][j] = keys[u][j]
    BY <1>5, <1>7, <1>23, <1>25, <1>26
  <2>6. \A p \in pages \ {q} : p # c /\ p # u => keys'[p] = keys[p] /\ vals'[p] = vals[p]
    BY <1>6, <1>25, <1>26
  <2> QED
    BY <1>8, <1>9, <2>1, <2>2, <2>3, <2>4, <2>5, <2>6 DEF ToRight
<1>28. /\ Contents(c, q, u, i, m, n, r, w, pages \ {q}, leaves \ {q}, ks1, vs1, keys, vals)
       /\ Links(c, q, u, r, pages \ {q}, leaves \ {q}, pa1, nx1, parent, next, vals)
       /\ c \in pages \ {q} /\ u \in pages \ {q} /\ u \notin leaves \ {q} /\ u # c
       /\ q \in PageIds /\ q \notin pages \ {q} /\ pages = (pages \ {q}) \cup {q}
       /\ leaves = IF c \in leaves \ {q} THEN (leaves \ {q}) \cup {q} ELSE leaves \ {q}
  BY <1>3, <1>4 DEF Joins
<1>29. Contents(c, q, u, i, m2, n - 1, r + 1, w, pages \ {q}, leaves \ {q}, ks1, vs1, keys', vals')
  BY <1>27, <1>28, ToRightContents
<1>30. /\ parent' = IF c \in leaves THEN parent ELSE [parent EXCEPT ![moved] = q]
       /\ c \notin leaves => moved \in pages /\ moved \in PageIds
  <2>1. parent' = IF c \in leaves THEN parent ELSE [parent EXCEPT ![moved] = q]
    BY <1>5, <1>24 DEF Refilled
  <2>2. c \notin leaves => vals[c][n] \in pages
    <3>1. n \in 1 .. Len(vals[c])
      BY <1>8, <1>9, <1>10
    <3> QED
      BY <1>3, <1>5, <3>1 DEF IsTree, Tree, Down
  <2> QED
    BY <1>6, <1>17, <2>1, <2>2
<1>31. /\ parent' \in [PageIds -> AnyId]
       /\ \A p \in PageIds : parent'[p] = IF c \notin leaves /\ p = moved THEN q ELSE parent[p]
  BY <1>6, <1>7, <1>30 DEF AnyId
<1>32. Links(c, q, u, r + 1, pages \ {q}, leaves \ {q}, pa1, nx1, parent', next, vals')
  <2>1. /\ parent[q] = u
        /\ \A p \in pages \ {q} : parent[p] = IF c \notin leaves \ {q} /\ \E j \in 1 .. r : vals[q][j] = p
                                              THEN q ELSE pa1[p]
        /\ c \in leaves \ {q} => next[c] = q /\ next[q] = nx1[c]
        /\ \A p \in pages \ {q} : p # c \/ c \notin leaves \ {q} => next[p] = nx1[p]
    BY <1>28 DEF Links
  <2>2. ASSUME NEW p \in pages \ {q}
        PROVE  parent'[p] = IF c \notin leaves \ {q} /\ \E j \in 1 .. r + 1 : vals'[q][j] = p
                            THEN q ELSE pa1[p]
    <3>1. p \in PageIds
      BY <1>6
    <3>2. CASE c \in leaves
      BY <1>5, <1>31, <2>1, <3>1, <3>2
    <3>3. CASE c \notin leaves
      <4>1. (\E j \in 1 .. r + 1 : vals'[q][j] = p) <=> p = moved \/ \E j \in 1 .. r : vals[q][j] = p
        <5>1. ASSUME NEW j \in 1 .. r + 1, vals'[q][j] = p
              PROVE  p = moved \/ \E k \in 1 .. r : vals[q][k] = p
          <6>1. CASE j = 1
            BY <1>22, <1>26, <5>1, <6>1
          <6>2. CASE j # 1
            <7>1. PICK k \in 1 .. r : k + 1 = j
              <8>1. j - 1 \in 1 .. r /\ (j - 1) + 1 = j
                BY <1>8, <6>2
              <8> QED
                BY <8>1
            <7> QED
              BY <1>22, <1>26, <5>1, <7>1
          <6> QED
            BY <6>1, <6>2
        <5>2. ASSUME NEW k \in 1 .. r, vals[q][k] = p
              PROVE  \E j \in 1 .. r + 1 : vals'[q][j] = p
          <6>1. k + 1 \in 1 .. r + 1
            <7>1. r \in Nat
              BY <1>8
            <7> QED
              BY <7>1
          <6> QED
            BY <1>22, <1>26, <5>2, <6>1
        <5>3. 1 \in 1 .. r + 1 /\ vals'[q][1] = moved
          BY <1>8, <1>22, <1>26
        <5> QED
          BY <5>1, <5>2, <5>3
      <4> QED
        BY <1>31, <2>1, <3>1, <3>3, <4>1
    <3> QED
      BY <3>2, <3>3
  <2>3. parent'[q] = u
    <3>1. c \notin leaves => moved # q
      <4>1. c \notin leaves => parent[moved] = c
        <5>1. n \in 1 .. Len(vals[c])
          BY <1>8, <1>9, <1>10
        <5> QED
          BY <1>3, <1>5, <1>17, <5>1 DEF IsTree, Tree, Down
      <4> QED
        BY <1>5, <2>1, <4>1
    <3> QED
      BY <1>7, <1>31, <2>1, <3>1
  <2> QED
    BY <2>1, <2>2, <2>3 DEF Links
<1>33. Joins(c, q, u, i, m2, n - 1, r + 1, w, pages \ {q}, leaves \ {q}, pa1, nx1, ks1, vs1,
             pages, leaves, parent', next, keys', vals')
  BY <1>15, <1>28, <1>29, <1>32 DEF Joins
<1>34. Typed(root, pages, leaves, parent', next, keys', vals')
  BY <1>6, <1>25, <1>26, <1>30, <1>31 DEF Typed
<1>35. c \in leaves => m2 = keys'[q][1]
  BY <1>18, <1>21, <1>25
<1>36. PICK n2 \in Nat, r2 \in Nat : n2 = n - 1 /\ r2 = r + 1
  BY <1>9
<1>37. /\ Joins(c, q, u, i, m2, n2, r2, w, pages \ {q}, leaves \ {q}, pa1, nx1, ks1, vs1,
                pages, leaves, parent', next, keys', vals')
       /\ n2 >= MinSize(c) /\ n2 <= MaxSize(c) /\ r2 >= MinSize(c) /\ r2 <= MaxSize(c)
  BY <1>9, <1>33, <1>36
<1>38. Refilled(moved, q)
  BY <1>24
<1> QED
  BY <1>2, <1>3, <1>34, <1>35, <1>37, <1>38, RefilledStep

\* The right neighbour's first entry goes to the page that has too few.
LEMMA BorrowFromRightStep ==
    ASSUME Inv, BorrowFromRight
    PROVE  Inv' /\ Pairs' = Pairs
<1>1. PICK c, q, u, i, m : Named(c, q, u, i, m)
  BY DEF Named
<1>2. /\ loc = "underflow" /\ ~IsRoot(cur) /\ CanBorrow /\ cur # q
      /\ Size(c) > MinSize(c) \/ Size(q) > MinSize(q)
  BY <1>1 DEF BorrowFromRight, CanBorrow, Named
<1>3. PICK le, lo, hi, w, pa1, nx1, ks1, vs1 :
         /\ IsTree(le, lo, hi) /\ Neighbours(c, q, u, i, m, w) /\ ThePair(c, q, u)
         /\ Joined(c, q, u, i, m, pa1, nx1, ks1, vs1)
         /\ Joins(c, q, u, i, m, Size(c), Size(q), w, pages \ {q}, leaves \ {q}, pa1, nx1, ks1, vs1,
                  pages, leaves, parent, next, keys, vals)
         /\ Adopted(c, q, Size(q), pa1)
  BY <1>1, <1>2, BorrowFinds
<1>4. PICK n, r : n = Size(c) /\ r = Size(q)
  OBVIOUS
<1>5. /\ c \in pages /\ q \in pages /\ u \in pages /\ u \notin leaves /\ cur = c
      /\ c # q /\ c # u /\ q # u /\ (c \in leaves <=> q \in leaves)
      /\ (cur \in leaves <=> c \in leaves) /\ m \in Keys
      /\ w \in Nat /\ i \in 1 .. w /\ Len(vals[u]) = w + 1 /\ Len(keys[u]) = w /\ keys[u][i] = m
  BY <1>2, <1>3 DEF Neighbours, ThePair
<1>6. /\ pages \subseteq PageIds /\ leaves \subseteq pages /\ root \in pages
      /\ parent \in [PageIds -> AnyId] /\ next \in [PageIds -> AnyId]
      /\ keys \in [PageIds -> Seq(Keys)] /\ vals \in [PageIds -> Seq(PageVals)]
      /\ \A p \in PageIds : p \notin pages => parent[p] = INVALID_PAGE_ID
      /\ \A p \in PageIds : p \notin leaves => next[p] = INVALID_PAGE_ID
  BY <1>3, TreeTypes
<1>7. c \in PageIds /\ q \in PageIds /\ u \in PageIds
  BY <1>5, <1>6
<1>8. /\ n \in Nat /\ r \in Nat /\ r > MinSize(c) /\ r <= MaxSize(c) /\ n = MinSize(c) - 1
      /\ MinSize(c) \in Nat /\ MaxSize(c) \in Nat /\ MinSize(c) >= 1
      /\ MinSize(c) <= MaxSize(c) /\ (c \notin leaves => MinSize(c) >= 2)
  <2>1. /\ n \in Nat /\ r \in Nat /\ r <= MaxSize(c) /\ n = MinSize(c) - 1
        /\ MinSize(q) = MinSize(c)
    BY <1>3, <1>2, <1>4, <1>5, NeighbourSizes
  <2>2. /\ MinSize(c) \in Nat /\ MaxSize(c) \in Nat /\ MinSize(c) >= 1
        /\ MinSize(c) <= MaxSize(c) /\ (c \notin leaves => MinSize(c) >= 2)
    BY SizeFacts
  <2>3. ~(n > MinSize(c))
    BY <2>1, <2>2
  <2> QED
    BY <1>2, <1>4, <2>1, <2>2, <2>3
<1>9. PICK n2 \in Nat, r2 \in Nat :
         /\ n2 = n + 1 /\ r2 = r - 1 /\ n = n2 - 1 /\ r = r2 + 1
         /\ n2 >= 1 /\ r >= 2 /\ r >= 1
         /\ (c \notin leaves => n >= 1 /\ n2 >= 2 /\ r2 >= 1)
         /\ n2 >= MinSize(c) /\ n2 <= MaxSize(c) /\ r2 >= MinSize(c) /\ r2 <= MaxSize(c)
  <2>1. /\ n + 1 \in Nat /\ r - 1 \in Nat /\ n = (n + 1) - 1 /\ r = (r - 1) + 1
        /\ n + 1 >= 1 /\ r >= 2 /\ r >= 1
        /\ (c \notin leaves => n >= 1 /\ n + 1 >= 2 /\ r - 1 >= 1)
        /\ n + 1 >= MinSize(c) /\ n + 1 <= MaxSize(c) /\ r - 1 >= MinSize(c) /\ r - 1 <= MaxSize(c)
    BY <1>8
  <2> QED
    BY <2>1
<1>10. /\ Len(vals[c]) = n /\ Len(vals[q]) = r
       /\ c \in leaves => Len(keys[c]) = n /\ Len(keys[q]) = r
       /\ c \notin leaves => Len(keys[c]) = n - 1 /\ Len(keys[q]) = r - 1
  BY <1>3, <1>4, <1>5 DEF IsTree, Tree, Counted, Size
<1>11. PICK a : a = Len(keys[c])
  OBVIOUS
<1>12. PICK b : b = Len(keys[q])
  OBVIOUS
<1>13. a \in Nat /\ b \in Nat /\ b >= 1 /\ (c \in leaves => b >= 2)
  <2>1. CASE c \in leaves
    BY <1>8, <1>9, <1>10, <1>11, <1>12, <2>1
  <2>2. CASE c \notin leaves
    <3>1. a = n - 1 /\ b = r - 1
      BY <1>10, <1>11, <1>12, <2>2
    <3>2. n >= 1 /\ r - 1 >= 1 /\ r \in Nat /\ n \in Nat
      BY <1>8, <1>9, <2>2
    <3> QED
      BY <2>2, <3>1, <3>2
  <2> QED
    BY <2>1, <2>2
<1>14. PICK m2 : m2 = IF c \in leaves THEN keys[q][2] ELSE Head(keys[q])
  OBVIOUS
<1>15. /\ m2 = (IF c \in leaves THEN keys[q][2] ELSE keys[q][1]) /\ m2 \in Keys
       /\ Head(keys[q]) = keys[q][1] /\ keys[q][1] \in Keys
  <2>1. PICK s \in Seq(Keys) : s = keys[q] /\ b = Len(s)
    BY <1>6, <1>7, <1>12
  <2>2. Head(s) = s[1] /\ s[1] \in Keys /\ (c \in leaves => s[2] \in Keys)
    BY <1>13, <2>1
  <2> QED
    BY <1>14, <2>1, <2>2
<1>16. PICK moved : moved = Head(vals[q])
  OBVIOUS
<1>17. moved = vals[q][1] /\ moved \in PageVals
  <2>1. PICK s \in Seq(PageVals) : s = vals[q] /\ r = Len(s)
    BY <1>6, <1>7, <1>10
  <2>2. r >= 1 /\ r \in Nat
    BY <1>8, <1>9
  <2>3. Head(s) = s[1] /\ s[1] \in PageVals
    BY <2>1, <2>2
  <2> QED
    BY <1>16, <2>1, <2>3
<1>18. PICK e \in Keys : e = IF c \in leaves THEN keys[q][1] ELSE m
  BY <1>5, <1>15
<1>19. PICK kc \in Seq(Keys) : /\ kc = Append(keys[c], e) /\ Len(kc) = a + 1 /\ kc[a + 1] = e
                               /\ \A j \in 1 .. a : kc[j] = keys[c][j]
  <2>1. PICK s \in Seq(Keys) : s = keys[c]
    BY <1>6, <1>7
  <2>2. PICK x : x = Append(s, e)
    OBVIOUS
  <2>3. x \in Seq(Keys) /\ Len(x) = a + 1 /\ x[a + 1] = e /\ \A j \in 1 .. a : x[j] = s[j]
    <3>1. a \in Nat /\ a = Len(s)
      BY <1>11, <1>13, <2>1
    <3> QED
      BY <2>2, <3>1, AppendFacts
  <2> QED
    BY <2>1, <2>2, <2>3
<1>20. PICK vc \in Seq(PageVals) : /\ vc = Append(vals[c], moved) /\ Len(vc) = n + 1
                                   /\ vc[n + 1] = moved
                                   /\ \A j \in 1 .. n : vc[j] = vals[c][j]
  <2>1. PICK s \in Seq(PageVals) : s = vals[c]
    BY <1>6, <1>7
  <2>2. PICK x : x = Append(s, moved)
    OBVIOUS
  <2>3. x \in Seq(PageVals) /\ Len(x) = n + 1 /\ x[n + 1] = moved /\ \A j \in 1 .. n : x[j] = s[j]
    <3>1. n \in Nat /\ n = Len(s) /\ moved \in PageVals
      BY <1>8, <1>10, <1>17, <2>1
    <3> QED
      BY <2>2, <3>1, AppendFacts
  <2> QED
    BY <2>1, <2>2, <2>3
<1>21. PICK kq \in Seq(Keys) : /\ kq = Tail(keys[q]) /\ Len(kq) = b - 1
                               /\ \A j \in 1 .. b - 1 : keys[q][j + 1] = kq[j]
  <2>1. PICK s \in Seq(Keys) : s = keys[q]
    BY <1>6, <1>7
  <2>2. PICK x : x = Tail(s)
    OBVIOUS
  <2>3. x \in Seq(Keys) /\ Len(x) = b - 1 /\ \A j \in 1 .. b - 1 : s[j + 1] = x[j]
    <3>1. b \in Nat /\ b = Len(s) /\ b >= 1
      BY <1>12, <1>13, <2>1
    <3> QED
      BY <2>2, <3>1, TailFacts
  <2> QED
    BY <2>1, <2>2, <2>3
<1>22. PICK vq \in Seq(PageVals) : /\ vq = Tail(vals[q]) /\ Len(vq) = r - 1
                                   /\ \A j \in 1 .. r - 1 : vals[q][j + 1] = vq[j]
  <2>1. PICK s \in Seq(PageVals) : s = vals[q]
    BY <1>6, <1>7
  <2>2. PICK x : x = Tail(s)
    OBVIOUS
  <2>3. x \in Seq(PageVals) /\ Len(x) = r - 1 /\ \A j \in 1 .. r - 1 : s[j + 1] = x[j]
    <3>1. r \in Nat /\ r = Len(s) /\ r >= 1
      BY <1>8, <1>9, <1>10, <2>1
    <3> QED
      BY <2>2, <3>1, TailFacts
  <2> QED
    BY <2>1, <2>2, <2>3
<1>23. PICK ku \in Seq(Keys) : /\ ku = [keys[u] EXCEPT ![i] = m2] /\ Len(ku) = w /\ ku[i] = m2
                               /\ \A j \in 1 .. w : j # i => ku[j] = keys[u][j]
  <2>1. PICK s \in Seq(Keys) : s = keys[u]
    BY <1>6, <1>7
  <2>2. PICK x : x = [s EXCEPT ![i] = m2]
    OBVIOUS
  <2>3. x \in Seq(Keys) /\ Len(x) = w /\ x[i] = m2 /\ \A j \in 1 .. w : j # i => x[j] = s[j]
    <3>1. w \in Nat /\ w = Len(s) /\ i \in 1 .. w /\ m2 \in Keys
      BY <1>5, <1>15, <2>1
    <3> QED
      BY <2>2, <3>1, ReplaceFacts
  <2>4. x = [keys[u] EXCEPT ![i] = m2]
    BY <2>1, <2>2
  <2> QED
    BY <2>1, <2>3, <2>4
<1>24. /\ keys' = [keys EXCEPT ![c] = Append(@, e), ![q] = Tail(@), ![u] = [@ EXCEPT ![i] = m2]]
       /\ vals' = [vals EXCEPT ![c] = Append(@, moved), ![q] = Tail(@)]
       /\ Refilled(moved, c)
  <2>1. c = Left /\ q = Right /\ u = parent[cur] /\ i = RightIndex /\ m = Separator
    BY <1>1 DEF Named
  <2>2. e = IF cur \in leaves THEN Head(keys[q]) ELSE m
    BY <1>5, <1>15, <1>18
  <2>3. m2 = IF cur \in leaves THEN keys[q][2] ELSE Head(keys[q])
    BY <1>5, <1>14
  <2> QED
    BY <1>16, <2>1, <2>2, <2>3 DEF BorrowFromRight
<1>25. /\ keys' \in [PageIds -> Seq(Keys)]
       /\ keys'[c] = kc /\ keys'[q] = kq /\ keys'[u] = ku
       /\ \A p \in PageIds : p # c /\ p # q /\ p # u => keys'[p] = keys[p]
  <2>1. keys' = [keys EXCEPT ![c] = kc, ![q] = kq, ![u] = ku]
    BY <1>5, <1>6, <1>7, <1>19, <1>21, <1>23, <1>24
  <2> QED
    BY <1>5, <1>6, <1>7, <2>1
<1>26. /\ vals' \in [PageIds -> Seq(PageVals)]
       /\ vals'[c] = vc /\ vals'[q] = vq
       /\ \A p \in PageIds : p # c /\ p # q => vals'[p] = vals[p]
  <2>1. vals' = [vals EXCEPT ![c] = vc, ![q] = vq]
    BY <1>5, <1>6, <1>7, <1>20, <1>22, <1>24
  <2> QED
    BY <1>5, <1>6, <1>7, <2>1
<1>27. ToRight(c, q, u, i, m2, m, n2, r2, w, pages \ {q}, leaves \ {q}, keys', vals', keys, vals)
  <2>1. c \in leaves \ {q} <=> c \in leaves
    BY <1>5
  <2>2. c \in leaves => /\ Len(keys'[c]) = n2 /\ Len(keys[c]) = n2 - 1
                        /\ Len(keys'[q]) = r2 /\ Len(keys[q]) = r2 + 1
                        /\ \A j \in 1 .. n2 - 1 : keys[c][j] = keys'[c][j]
                        /\ keys[q][1] = keys'[c][n2]
                        /\ \A j \in 1 .. r2 : keys[q][j + 1] = keys'[q][j]
    <3> SUFFICES ASSUME c \in leaves
                 PROVE  /\ Len(keys'[c]) = n2 /\ Len(keys[c]) = n2 - 1
                        /\ Len(keys'[q]) = r2 /\ Len(keys[q]) = r2 + 1
                        /\ \A j \in 1 .. n2 - 1 : keys[c][j] = keys'[c][j]
                        /\ keys[q][1] = keys'[c][n2]
                        /\ \A j \in 1 .. r2 : keys[q][j + 1] = keys'[q][j]
      OBVIOUS
    <3>1. a = n /\ b = r /\ e = keys[q][1]
      BY <1>10, <1>11, <1>12, <1>18
    <3>2. a = n2 - 1 /\ a + 1 = n2 /\ b - 1 = r2 /\ b = r2 + 1
      BY <1>9, <3>1
    <3> QED
      BY <1>11, <1>12, <1>19, <1>21, <1>25, <3>1, <3>2
  <2>3. c \notin leaves => /\ Len(keys'[c]) = n2 - 1 /\ Len(keys[c]) = n2 - 2
                           /\ Len(keys'[q]) = r2 - 1 /\ Len(keys[q]) = r2
                           /\ \A j \in 1 .. n2 - 2 : keys[c][j] = keys'[c][j]
                           /\ keys'[c][n2 - 1] = m /\ keys[q][1] = m2
                           /\ \A j \in 1 .. r2 - 1 : keys[q][j + 1] = keys'[q][j]
    <3> SUFFICES ASSUME c \notin leaves
                 PROVE  /\ Len(keys'[c]) = n2 - 1 /\ Len(keys[c]) = n2 - 2
                        /\ Len(keys'[q]) = r2 - 1 /\ Len(keys[q]) = r2
                        /\ \A j \in 1 .. n2 - 2 : keys[c][j] = keys'[c][j]
                        /\ keys'[c][n2 - 1] = m /\ keys[q][1] = m2
                        /\ \A j \in 1 .. r2 - 1 : keys[q][j + 1] = keys'[q][j]
      OBVIOUS
    <3>1. a = n - 1 /\ b = r - 1 /\ e = m
      BY <1>10, <1>11, <1>12, <1>18
    <3>2. a = n2 - 2 /\ a + 1 = n2 - 1 /\ b - 1 = r2 - 1 /\ b = r2
      <4>1. n2 \in Nat /\ n = n2 - 1 /\ r2 = r - 1
        BY <1>9
      <4> QED
        BY <3>1, <4>1
    <3> QED
      BY <1>11, <1>12, <1>15, <1>19, <1>21, <1>25, <3>1, <3>2
  <2>4. /\ Len(vals'[c]) = n2 /\ Len(vals[c]) = n2 - 1 /\ Len(vals'[q]) = r2 /\ Len(vals[q]) = r2 + 1
        /\ \A j \in 1 .. n2 - 1 : vals[c][j] = vals'[c][j]
        /\ vals[q][1] = vals'[c][n2]
        /\ \A j \in 1 .. r2 : vals[q][j + 1] = vals'[q][j]
    <3>1. n2 = n + 1 /\ n2 - 1 = n /\ r2 = r - 1 /\ r2 + 1 = r
      BY <1>9
    <3> QED
      BY <1>10, <1>17, <1>20, <1>22, <1>26, <3>1
  <2>5. /\ vals[u] = vals'[u] /\ Len(keys'[u]) = w /\ Len(keys[u]) = w
        /\ keys[u][i] = m /\ keys'[u][i] = m2
        /\ \A j \in 1 .. w : j # i => keys[u][j] = keys'[u][j]
    BY <1>5, <1>7, <1>23, <1>25, <1>26
  <2>6. \A p \in pages \ {q} : p # c /\ p # u => keys[p] = keys'[p] /\ vals[p] = vals'[p]
    BY <1>6, <1>25, <1>26
  <2>7. n2 \in Nat /\ r2 \in Nat /\ n2 >= 1 /\ (c \notin leaves \ {q} => n2 >= 2 /\ r2 >= 1)
    BY <1>9, <2>1
  <2> QED
    BY <2>1, <2>2, <2>3, <2>4, <2>5, <2>6, <2>7 DEF ToRight
<1>28. /\ Contents(c, q, u, i, m, n, r, w, pages \ {q}, leaves \ {q}, ks1, vs1, keys, vals)
       /\ Links(c, q, u, r, pages \ {q}, leaves \ {q}, pa1, nx1, parent, next, vals)
       /\ c \in pages \ {q} /\ u \in pages \ {q} /\ u \notin leaves \ {q} /\ u # c
       /\ q \in PageIds /\ q \notin pages \ {q} /\ pages = (pages \ {q}) \cup {q}
       /\ leaves = IF c \in leaves \ {q} THEN (leaves \ {q}) \cup {q} ELSE leaves \ {q}
  BY <1>3, <1>4 DEF Joins
<1>29. Contents(c, q, u, i, m2, n2, r2, w, pages \ {q}, leaves \ {q}, ks1, vs1, keys', vals')
  <2>1. Contents(c, q, u, i, m, n2 - 1, r2 + 1, w, pages \ {q}, leaves \ {q}, ks1, vs1, keys, vals)
    BY <1>9, <1>28
  <2> QED
    BY <1>27, <2>1, ToLeftContents
<1>30. /\ parent' = IF c \in leaves THEN parent ELSE [parent EXCEPT ![moved] = c]
       /\ c \notin leaves => /\ moved \in pages /\ moved \in PageIds /\ parent[moved] = q
                             /\ \A j \in 1 .. r : vals[q][j] = moved => j = 1
  <2>1. parent' = IF c \in leaves THEN parent ELSE [parent EXCEPT ![moved] = c]
    BY <1>5, <1>24 DEF Refilled
  <2>2. c \notin leaves => /\ vals[q][1] \in pages /\ parent[vals[q][1]] = q
                           /\ \A j \in 1 .. r : vals[q][j] = vals[q][1] => j = 1
    <3>1. 1 \in 1 .. Len(vals[q])
      BY <1>8, <1>9, <1>10
    <3> QED
      BY <1>3, <1>5, <1>10, <3>1 DEF IsTree, Tree, Down
  <2> QED
    BY <1>6, <1>17, <2>1, <2>2
<1>31. /\ parent' \in [PageIds -> AnyId]
       /\ \A p \in PageIds : parent'[p] = IF c \notin leaves /\ p = moved THEN c ELSE parent[p]
  BY <1>6, <1>7, <1>30 DEF AnyId
<1>32. Links(c, q, u, r2, pages \ {q}, leaves \ {q}, pa1, nx1, parent', next, vals')
  <2>1. /\ parent[q] = u
        /\ \A p \in pages \ {q} : parent[p] = IF c \notin leaves \ {q} /\ \E j \in 1 .. r : vals[q][j] = p
                                              THEN q ELSE pa1[p]
        /\ c \in leaves \ {q} => next[c] = q /\ next[q] = nx1[c]
        /\ \A p \in pages \ {q} : p # c \/ c \notin leaves \ {q} => next[p] = nx1[p]
    BY <1>28 DEF Links
  <2>2. ASSUME NEW p \in pages \ {q}
        PROVE  parent'[p] = IF c \notin leaves \ {q} /\ \E j \in 1 .. r2 : vals'[q][j] = p
                            THEN q ELSE pa1[p]
    <3>1. p \in PageIds
      BY <1>6
    <3>2. CASE c \in leaves
      BY <1>5, <1>31, <2>1, <3>1, <3>2
    <3>3. CASE c \notin leaves
      <4>1. (\E j \in 1 .. r2 : vals'[q][j] = p) <=> p # moved /\ \E j \in 1 .. r : vals[q][j] = p
        <5>1. ASSUME NEW j \in 1 .. r2, vals'[q][j] = p
              PROVE  p # moved /\ \E k \in 1 .. r : vals[q][k] = p
          <6>1. PICK k \in 1 .. r : k = j + 1 /\ k # 1
            <7>1. j + 1 \in 1 .. r /\ j + 1 # 1
              BY <1>9
            <7> QED
              BY <7>1
          <6>2. vals[q][k] = p
            <7>1. j \in 1 .. r - 1
              BY <1>9
            <7> QED
              BY <1>22, <1>26, <5>1, <6>1, <7>1
          <6> QED
            BY <1>30, <3>3, <6>1, <6>2
        <5>2. ASSUME NEW k \in 1 .. r, vals[q][k] = p, p # moved
              PROVE  \E j \in 1 .. r2 : vals'[q][j] = p
          <6>1. k # 1
            BY <1>17, <5>2
          <6>2. PICK j \in 1 .. r - 1 : j + 1 = k
            <7>1. r \in Nat
              BY <1>8
            <7>2. k - 1 \in 1 .. r - 1 /\ (k - 1) + 1 = k
              BY <6>1, <7>1
            <7> QED
              BY <7>2
          <6>3. vals'[q][j] = p /\ j \in 1 .. r2
            BY <1>9, <1>22, <1>26, <5>2, <6>2
          <6> QED
            BY <6>3
        <5> QED
          BY <5>1, <5>2
      <4>2. pa1[moved] = c
        <5>1. \A j \in 1 .. r : pa1[vals[q][j]] = c
          BY <1>3, <1>4, <3>3 DEF Adopted
        <5>2. 1 \in 1 .. r
          BY <1>8, <1>9
        <5> QED
          BY <1>17, <5>1, <5>2
      <4>3. CASE p = moved
        BY <1>31, <3>1, <3>3, <4>1, <4>2, <4>3
      <4>4. CASE p # moved
        <5>1. parent'[p] = parent[p]
          BY <1>31, <3>1, <4>4
        <5> QED
          BY <2>1, <3>3, <4>1, <4>4, <5>1
      <4> QED
        BY <4>3, <4>4
    <3> QED
      BY <3>2, <3>3
  <2>3. parent'[q] = u
    <3>1. c \notin leaves => moved # q
      BY <1>5, <1>30, <2>1
    <3> QED
      BY <1>7, <1>31, <2>1, <3>1
  <2> QED
    BY <2>1, <2>2, <2>3 DEF Links
<1>33. Joins(c, q, u, i, m2, n2, r2, w, pages \ {q}, leaves \ {q}, pa1, nx1, ks1, vs1,
             pages, leaves, parent', next, keys', vals')
  BY <1>15, <1>28, <1>29, <1>32 DEF Joins
<1>34. Typed(root, pages, leaves, parent', next, keys', vals')
  BY <1>6, <1>25, <1>26, <1>30, <1>31 DEF Typed
<1>35. c \in leaves => m2 = keys'[q][1]
  <2>1. c \in leaves => 1 \in 1 .. b - 1
    BY <1>13
  <2> QED
    BY <1>15, <1>21, <1>25, <2>1
<1>36. Refilled(moved, c)
  BY <1>24
<1>37. n2 >= MinSize(c) /\ n2 <= MaxSize(c) /\ r2 >= MinSize(c) /\ r2 <= MaxSize(c)
  BY <1>9
<1> QED
  BY <1>2, <1>3, <1>33, <1>34, <1>35, <1>36, <1>37, RefilledStep

-----------------------------------------------------------------------------
(* Every behaviour. *)

\* The constructor leaves an empty tree.
LEMMA InitInv == Init => Inv
<1> SUFFICES ASSUME Init PROVE Inv
  OBVIOUS
<1>1. {} \in UpSets
  BY DEF UpSets
<1>2. Pairs = {}
  BY DEF Init, Pairs
<1>3. Held = {}
  BY DEF Init, Held
<1>4. Course
  BY <1>3 DEF Init, Course, Pinned
<1>5. Empty
  BY DEF Init, Empty
<1>6. ScansInOrder /\ Sizes
  BY DEF Init, ScansInOrder, Sizes
<1>7. due \in UpSets
  BY <1>1 DEF Init
<1> QED
  BY <1>2, <1>4, <1>5, <1>6, <1>7 DEF Inv

\* Every step keeps the invariant.
LEMMA NextInv == Inv /\ [Next]_vars => Inv'
<1> SUFFICES ASSUME Inv, [Next]_vars PROVE Inv'
  OBVIOUS
<1>1. CASE \E entry \in Entries : InsertFirst(entry[1], entry[2])
  BY <1>1, EntriesAssumption, InsertFirstStep
<1>2. CASE RemoveFromEmpty \/ BeginOfEmpty \/ GetValueOfEmpty
  BY <1>2, EmptySteps
<1>3. CASE Begin \/ \E key \in Keys : Find(key)
  BY <1>3, BeginningSteps
<1>4. CASE Descend
  BY <1>4, DescendStep
<1>5. CASE InsertPresent \/ RemoveAbsent \/ GetValue \/ ScanEnds
  BY <1>5, ReadSteps
<1>6. CASE \E val \in Rids : Insert(val)
  BY <1>6, InsertStep
<1>7. CASE SplitRoot
  BY <1>7, SplitRootStep
<1>8. CASE SplitPage
  BY <1>8, SplitPageStep
<1>9. CASE RemoveEntry
  BY <1>9, RemoveEntryStep
<1>10. CASE RemoveLast
  BY <1>10, RemoveLastStep
<1>11. CASE BorrowFromLeft
  BY <1>11, BorrowFromLeftStep
<1>12. CASE BorrowFromRight
  BY <1>12, BorrowFromRightStep
<1>13. CASE Merge
  BY <1>13, MergeStep
<1>14. CASE Collapse
  BY <1>14, CollapseStep
<1>15. CASE BeginAt
  BY <1>15, BeginAtStep
<1>16. CASE BeginFirst
  BY <1>16, BeginFirstStep
<1>17. CASE Advance
  BY <1>17, AdvanceStep
<1>18. CASE UNCHANGED vars
  BY <1>18, SMTT(30)
  DEF vars, tree, pool, Inv, Course, Held, Pinned, Size, MaxSize, MinSize, Sizes, SizeOK,
      Fits, ScansInOrder, Pairs, Empty, IsTree, OnTheWay
<1> QED
  BY <1>1, <1>2, <1>3, <1>4, <1>5, <1>6, <1>7, <1>8, <1>9, <1>10, <1>11, <1>12, <1>13,
     <1>14, <1>15, <1>16, <1>17, <1>18, Zenon DEF Next

\* The inductive invariant holds of every behaviour.
THEOREM Invariance == Spec => []Inv
BY InitInv, NextInv, PTL DEF Spec

-----------------------------------------------------------------------------
(* What the runs check, for every instance. *)

\* A sequence of elements of a set.
LEMMA SeqOf ==
    ASSUME NEW T, NEW U, NEW s \in Seq(T), \A i \in 1 .. Len(s) : s[i] \in U
    PROVE  s \in Seq(U)
<1>1. Len(s) \in Nat /\ s \in [1 .. Len(s) -> T]
  BY LenProperties
<1>2. s \in [1 .. Len(s) -> U]
  BY <1>1
<1> QED
  BY <1>1, <1>2, SeqDef

\* Type correctness: whatever sequence of inserts, removes, lookups and scans
\* ran, the pages' arrays hold what their type says and no size is exceeded.
LEMMA TypeHolds == Inv => TypeOK
<1> SUFFICES ASSUME Inv PROVE TypeOK
  OBVIOUS
<1>1. /\ starved \in BOOLEAN
      /\ loc \in {"idle", "descend", "first", "overflow", "underflow", "iterate"}
      /\ cur \in pages \cup {INVALID_PAGE_ID}
  BY DEF Inv, Course
<1>2. CASE Empty
  BY <1>1, <1>2 DEF Empty, TypeOK
<1>3. CASE ~Empty
  <2>1. PICK le, lo, hi : IsTree(le, lo, hi)
    BY <1>3 DEF Inv
  <2>2. /\ root \in pages /\ pages \subseteq PageIds /\ leaves \subseteq pages
        /\ parent \in [PageIds -> AnyId] /\ next \in [PageIds -> AnyId]
        /\ keys \in [PageIds -> Seq(Keys)] /\ vals \in [PageIds -> Seq(PageVals)]
        /\ \A p \in PageIds : p \notin pages => parent[p] = INVALID_PAGE_ID
        /\ \A p \in PageIds : p \notin leaves => next[p] = INVALID_PAGE_ID
        /\ \A p \in pages : IsRoot(p) <=> p = root
    BY <2>1, TreeTypes
  <2>3. parent \in [PageIds -> pages \cup {INVALID_PAGE_ID}]
    <3>1. \A p \in PageIds : parent[p] \in pages \cup {INVALID_PAGE_ID}
      BY <2>1, <2>2, ParentThere DEF IsRoot
    <3> QED
      BY <2>2, <3>1
  <2>4. next \in [PageIds -> leaves \cup {INVALID_PAGE_ID}]
    <3>1. \A p \in PageIds : next[p] \in leaves \cup {INVALID_PAGE_ID}
      BY <2>1, <2>2 DEF IsTree, Tree, Chained
    <3> QED
      BY <2>2, <3>1
  <2>5. ASSUME NEW p \in pages
        PROVE  /\ keys[p] \in Seq(Keys)
               /\ vals[p] \in Seq(IF p \in leaves THEN Rids ELSE pages)
               /\ Len(keys[p]) = IF p \in leaves THEN Size(p) ELSE Size(p) - 1
               /\ loc = "idle" => Size(p) \in 1 .. MaxSize(p)
    <3>1. keys[p] \in Seq(Keys) /\ vals[p] \in Seq(PageVals) /\ Size(p) \in Nat
      BY <2>2 DEF Size
    <3>2. Len(keys[p]) = IF p \in leaves THEN Size(p) ELSE Size(p) - 1
      BY <2>1 DEF IsTree, Tree, Counted, Size
    <3>3. ASSUME p \in leaves PROVE vals[p] \in Seq(Rids)
      <4>1. \A i \in 1 .. Len(vals[p]) : vals[p][i] \in Rids
        BY <2>1, <3>3 DEF IsTree, Tree, Counted
      <4> QED
        BY <3>1, <4>1, SeqOf
    <3>4. ASSUME p \notin leaves PROVE vals[p] \in Seq(pages)
      <4>1. \A i \in 1 .. Len(vals[p]) : vals[p][i] \in pages
        BY <2>1, <3>4 DEF IsTree, Tree, Down
      <4> QED
        BY <3>1, <4>1, SeqOf
    <3>5. ASSUME loc = "idle" PROVE Size(p) \in 1 .. MaxSize(p)
      <4>1. Fits(p)
        BY <3>5, OthersFit
      <4>2. Size(p) >= 1 /\ Size(p) <= MaxSize(p) /\ MaxSize(p) \in Nat
        BY <3>1, <4>1, FitsNonempty, SizeFacts DEF Fits
      <4> QED
        BY <3>1, <4>2
    <3>6. vals[p] \in Seq(IF p \in leaves THEN Rids ELSE pages)
      BY <3>3, <3>4
    <3> QED
      BY <3>1, <3>2, <3>5, <3>6
  <2> QED
    BY <1>1, <2>2, <2>3, <2>4, <2>5 DEF TypeOK
<1> QED
  BY <1>2, <1>3

\* The pins of the pages are all given back, and the pool never runs out.
LEMMA PinsHold == Inv => PinsReleased
BY DEF Inv, Course, Held, Pinned, PinsReleased

\* A scan stands where it should: it is part of the invariant.
LEMMA ScansHold == Inv => ScansInOrder
BY DEF Inv

\* The functions that Depth is chosen from.
Depths(f) == f = [p \in pages |-> IF p = root THEN 0 ELSE 1 + f[parent[p]]]

\* In a tree there is one such function: how far a page's level is below the
\* root's.
LEMMA DepthIs ==
    ASSUME NEW le, NEW lo, NEW hi, IsTree(le, lo, hi)
    PROVE  Depth = [p \in pages |-> le[root] - le[p]]
<1>1. /\ root \in pages /\ le[root] \in Nat
      /\ \A p \in pages : le[p] \in Nat /\ le[p] <= le[root]
  BY TreeTypes DEF IsTree, Tree, Levelled
<1>2. \A p \in pages : p # root => parent[p] \in pages /\ le[parent[p]] = le[p] + 1
  BY ParentThere DEF IsTree, Tree, Levelled
<1> DEFINE d == [p \in pages |-> le[root] - le[p]]
<1>3. Depths(d)
  <2>1. \A p \in pages : le[root] - le[p] = IF p = root THEN 0 ELSE 1 + d[parent[p]]
    BY <1>1, <1>2
  <2> QED
    BY <2>1 DEF Depths
<1>4. ASSUME NEW f, Depths(f) PROVE f = d
  <2>1. ASSUME NEW p \in pages, f[p] # d[p] PROVE FALSE
    <3> DEFINE T == {d[q] : q \in {x \in pages : f[x] # d[x]}}
    <3>1. T \subseteq Nat /\ T # {}
      <4>1. \A q \in pages : d[q] \in Nat
        BY <1>1
      <4>2. d[p] \in T
        BY <2>1
      <4> QED
        BY <4>1, <4>2
    <3> HIDE DEF T
    <3>2. PICK m \in T : \A k \in T : m <= k
      BY <3>1, LeastOf
    <3>3. PICK q \in pages : m = d[q] /\ f[q] # d[q]
      BY <3>2 DEF T
    <3>4. f[q] = IF q = root THEN 0 ELSE 1 + f[parent[q]]
      BY <1>4, <3>3 DEF Depths
    <3>5. d[q] = IF q = root THEN 0 ELSE 1 + d[parent[q]]
      BY <1>1, <1>2
    <3>6. q # root /\ f[parent[q]] # d[parent[q]] /\ parent[q] \in pages
      BY <1>2, <3>3, <3>4, <3>5
    <3>7. d[parent[q]] \in T
      BY <3>6 DEF T
    <3>8. d[parent[q]] < d[q]
      BY <1>1, <1>2, <3>6
    <3> QED
      BY <1>1, <3>1, <3>2, <3>3, <3>6, <3>7, <3>8
  <2>2. f = [p \in pages |-> IF p = root THEN 0 ELSE 1 + f[parent[p]]]
    BY <1>4 DEF Depths
  <2> HIDE DEF d
  <2>3. \A p \in pages : f[p] = d[p]
    BY <2>1
  <2> QED
    BY <2>2, <2>3 DEF d
<1> HIDE DEF d
<1>5. Depth = CHOOSE f : Depths(f)
  BY DEF Depth, Depths
<1>6. Depths(CHOOSE f : Depths(f))
  BY <1>3
<1> QED
  BY <1>4, <1>5, <1>6 DEF d

\* The shape of the tree, from the levels.
LEMMA ShapeHolds == Inv => WellFormed
<1> SUFFICES ASSUME Inv PROVE WellFormed
  OBVIOUS
<1>1. CASE Empty
  BY <1>1 DEF Empty, WellFormed, ParentsCorrect, Balanced, NoOrphans
<1>2. CASE ~Empty
  <2>1. PICK le, lo, hi : IsTree(le, lo, hi)
    BY <1>2 DEF Inv
  <2>2. /\ root \in pages /\ pages \subseteq PageIds /\ leaves \subseteq pages
        /\ root # INVALID_PAGE_ID
        /\ vals \in [PageIds -> Seq(PageVals)]
        /\ \A p \in pages : IsRoot(p) <=> p = root
    BY <2>1, TreeTypes
  <2>3. \A p \in pages : /\ le[p] \in Nat /\ le[p] <= le[root]
                         /\ p \in leaves <=> le[p] = 0
    BY <2>1, <2>2 DEF IsTree, Tree, Levelled
  <2>4. Depth = [p \in pages |-> le[root] - le[p]]
    BY <2>1, DepthIs
  <2>5. ASSUME NEW p \in pages, p \notin leaves
        PROVE  Children(p) = {vals[p][i] : i \in 1 .. Len(vals[p])}
    <3>1. vals[p] \in Seq(PageVals)
      BY <2>2
    <3>2. DOMAIN vals[p] = 1 .. Len(vals[p])
      BY <3>1, LenProperties
    <3> QED
      BY <2>5, <3>2 DEF Children, S!ToSet
  <2>6. ParentsCorrect
    <3>1. ASSUME NEW p \in pages, NEW c \in Children(p) PROVE parent[c] = p
      <4>1. p \notin leaves
        BY <3>1 DEF Children
      <4>2. PICK i \in 1 .. Len(vals[p]) : c = vals[p][i]
        BY <2>5, <3>1, <4>1
      <4> QED
        BY <2>1, <4>1, <4>2 DEF IsTree, Tree, Down
    <3> QED
      BY <2>2, <3>1 DEF ParentsCorrect
  <2>7. Balanced
    <3>1. \A p, q \in leaves : Depth[p] = Depth[q]
      BY <2>2, <2>3, <2>4
    <3>2. ASSUME loc = "idle", NEW p \in pages
          PROVE  IF p = root THEN p \in leaves \/ Size(p) >= 2
                 ELSE 2 * Size(p) + (IF p \in leaves THEN 1 ELSE 0) >= MaxSize(p)
      <4>1. Fits(p) /\ Size(p) \in Nat
        BY <2>2, <3>2, OthersFit DEF Size
      <4>2. CASE p = root
        BY <4>1, <4>2 DEF Fits
      <4>3. CASE p # root
        <5>1. Size(p) >= MinSize(p)
          BY <4>1, <4>3 DEF Fits
        <5>2. /\ MinSize(p) \in Nat /\ MaxSize(p) \in Nat
              /\ p \notin leaves => 2 * MinSize(p) >= MaxSize(p)
              /\ p \in leaves => 2 * MinSize(p) + 1 >= MaxSize(p)
          BY SizeFacts
        <5>3. CASE p \in leaves
          BY <4>1, <4>3, <5>1, <5>2, <5>3
        <5>4. CASE p \notin leaves
          BY <4>1, <4>3, <5>1, <5>2, <5>4
        <5> QED
          BY <5>3, <5>4
      <4> QED
        BY <4>2, <4>3
    <3> QED
      BY <3>1, <3>2 DEF Balanced
  <2>8. NoOrphans
    <3>1. \A p \in pages : Depth[p] \in Nat
      BY <2>2, <2>3, <2>4
    <3>2. ASSUME NEW p \in pages, p # root PROVE p \in Children(parent[p])
      BY <2>1, <2>5, <3>2, ParentThere
    <3> QED
      BY <2>2, <3>1, <3>2 DEF NoOrphans
  <2> QED
    BY <2>6, <2>7, <2>8 DEF WellFormed
<1> QED
  BY <1>1, <1>2

\* Every tree the operations can make is well typed, whatever the max sizes.
THEOREM TreeTyped == Spec => []TypeOK
BY Invariance, TypeHolds, PTL

\* Splits, borrows, merges and changes of the root leave a balanced tree whose
\* parent pointers are right and that no page is lost from, between the levels
\* of a reorganisation too.
THEOREM TreeWellFormed == Spec => []WellFormed
BY Invariance, ShapeHolds, PTL

\* Insert, Remove, GetValue and Begin release every page they fetch on every
\* path, and four frames are enough for any of them.
THEOREM TreeReleasesPins == Spec => []PinsReleased
BY Invariance, PinsHold, PTL

\* An iterator never skips and never repeats an entry: it stands at the least
\* one not passed, across the ends of leaves.
THEOREM TreeScansInOrder == Spec => []ScansInOrder
BY Invariance, ScansHold, PTL

-----------------------------------------------------------------------------
(* The tree as a map. *)

\* A step of the map, or one that it does not see.
MapStep == Map!Next \/ UNCHANGED <<Pairs, answer>>

\* What the search in the leaf that an operation has come to says of the whole
\* tree: the key is found there or it is nowhere.
LEMMA SearchDecides ==
    ASSUME Inv, AtLeaf, NEW i, i = KeyIndex(keys[cur], sought)
    PROVE  /\ sought \in Keys
           /\ HasKeyAt(keys[cur], i, sought) => <<sought, vals[cur][i + 1]>> \in Pairs
           /\ ~HasKeyAt(keys[cur], i, sought) => \A e \in Pairs : e[1] # sought
<1>1. loc = "descend" /\ cur \in leaves
  BY DEF AtLeaf
<1>2. PICK le, lo, hi : IsTree(le, lo, hi) /\ OnTheWay(lo, hi)
  BY <1>1, TreeThere
<1>3. InRange(sought, cur, lo, hi)
  BY <1>1, <1>2 DEF OnTheWay, InRange
<1>4. /\ sought \in Keys /\ sought \in Int
      /\ Len(keys[cur]) \in Nat
      /\ \A j \in 1 .. Len(keys[cur]) : keys[cur][j] \in Int
      /\ i \in 0 .. Len(keys[cur])
      /\ \A j \in 1 .. Len(keys[cur]) : j <= i <=> keys[cur][j] < sought
  BY <1>1, <1>2, <1>3, LeafSearch
<1>5. ASSUME HasKeyAt(keys[cur], i, sought) PROVE <<sought, vals[cur][i + 1]>> \in Pairs
  <2>1. i + 1 \in 1 .. Len(keys[cur]) /\ keys[cur][i + 1] = sought
    BY <1>4, <1>5 DEF HasKeyAt
  <2> QED
    BY <1>1, <2>1, PairsAre, LeafPairsMember
<1>6. ASSUME ~HasKeyAt(keys[cur], i, sought), NEW e \in Pairs, e[1] = sought PROVE FALSE
  <2>1. e \in LeafPairs(leaves, keys, vals) /\ InRange(e[1], cur, lo, hi)
    BY <1>3, <1>6, PairsAre
  <2>2. PICK j \in 1 .. Len(keys[cur]) : e[1] = keys[cur][j]
    BY <1>1, <1>2, <2>1, PairInLeaf DEF IsTree
  <2>3. j > i /\ i + 1 \in 1 .. Len(keys[cur])
    BY <1>4, <1>6, <2>2
  <2>4. ~(keys[cur][i + 1] < sought)
    BY <1>4, <2>3
  <2>5. keys[cur][i + 1] # sought
    BY <1>4, <1>6, <2>3 DEF HasKeyAt
  <2>6. cur \in pages
    BY <1>1, <1>2, TreeTypes
  <2>7. i + 1 < j => keys[cur][i + 1] < keys[cur][j]
    BY <1>2, <2>3, <2>6 DEF IsTree, Tree, Ordered
  <2> QED
    BY <1>4, <1>6, <2>2, <2>3, <2>4, <2>5, <2>7
<1> QED
  BY <1>4, <1>5, <1>6

\* Every call begins as one of the map.
LEMMA CallStep ==
    ASSUME answer' = <<>>, Pairs' = Pairs
    PROVE  MapStep
BY DEF MapStep, Map!Next, Map!Call

\* The lookups are the map's.
LEMMA LookupStep ==
    ASSUME NEW key \in Keys, Pairs' = Pairs,
           \/ answer' = <<FALSE>> /\ \A e \in Pairs : e[1] # key
           \/ \E v : answer' = <<TRUE, v>> /\ <<key, v>> \in Pairs
    PROVE  MapStep
<1>1. CASE answer' = <<FALSE>> /\ \A e \in Pairs : e[1] # key
  <2>1. Map!PairsOf(key) = {}
    BY <1>1 DEF Map!PairsOf
  <2> QED
    BY <1>1, <2>1 DEF MapStep, Map!Next, Map!GetValue
<1>2. ASSUME NEW v, answer' = <<TRUE, v>>, <<key, v>> \in Pairs PROVE MapStep
  <2>1. PICK e : e = <<key, v>>
    OBVIOUS
  <2>2. e \in Map!PairsOf(key) /\ answer' = <<TRUE, e[2]>>
    BY <1>2, <2>1 DEF Map!PairsOf
  <2>3. Map!GetValue(key)
    BY <2>2 DEF Map!GetValue
  <2> QED
    BY <2>3 DEF MapStep, Map!Next
<1> QED
  BY <1>1, <1>2

\* The removals are the map's.
LEMMA RemovalStep ==
    ASSUME NEW key \in Keys, answer' = <<>>, Pairs' = {e \in Pairs : e[1] # key}
    PROVE  MapStep
<1>1. Pairs' = Pairs \ Map!PairsOf(key)
  BY DEF Map!PairsOf
<1> QED
  BY <1>1 DEF MapStep, Map!Next, Map!Remove

\* The insertions are the map's.
LEMMA InsertionStep ==
    ASSUME NEW key, NEW val, <<key, val>> \in Entries,
           \/ /\ answer' = <<TRUE>> /\ \A e \in Pairs : e[1] # key
              /\ Pairs' = Pairs \cup {<<key, val>>}
           \/ answer' = <<FALSE>> /\ <<key, val>> \in Pairs /\ Pairs' = Pairs
    PROVE  MapStep
<1>1. PICK entry \in Entries : entry = <<key, val>>
  OBVIOUS
<1>2. entry[1] = key /\ entry[2] = val
  BY <1>1
<1>3. CASE /\ answer' = <<TRUE>> /\ \A e \in Pairs : e[1] # key
           /\ Pairs' = Pairs \cup {<<key, val>>}
  <2>1. Map!PairsOf(key) = {}
    BY <1>3 DEF Map!PairsOf
  <2>2. (Map!PairsOf(key) = {}) = TRUE
    BY <2>1
  <2>3. Map!Insert(key, val)
    BY <1>3, <2>1, <2>2 DEF Map!Insert
  <2> QED
    BY <1>2, <2>3 DEF MapStep, Map!Next
<1>4. CASE answer' = <<FALSE>> /\ <<key, val>> \in Pairs /\ Pairs' = Pairs
  <2>1. entry \in Map!PairsOf(key)
    BY <1>1, <1>2, <1>4 DEF Map!PairsOf
  <2>2. (Map!PairsOf(key) = {}) = FALSE
    BY <2>1
  <2>3. Map!Insert(key, val)
    BY <1>4, <2>1, <2>2 DEF Map!Insert
  <2> QED
    BY <1>2, <2>3 DEF MapStep, Map!Next
<1> QED
  BY <1>3, <1>4

\* Every step is one of the map or one that it does not see.
LEMMA NextMap == Inv /\ [Next]_vars => MapStep
<1> SUFFICES ASSUME Inv, [Next]_vars PROVE MapStep
  OBVIOUS
<1>1. ASSUME NEW entry \in Entries, InsertFirst(entry[1], entry[2]) PROVE MapStep
  <2>1. <<entry[1], entry[2]>> \in Entries
    BY EntriesAssumption
  <2>2. PICK k, v : k = entry[1] /\ v = entry[2]
    OBVIOUS
  <2>3. Pairs = {} /\ Pairs' = {<<k, v>>} /\ answer' = <<TRUE>>
    BY <1>1, <2>1, <2>2, InsertFirstStep DEF InsertFirst
  <2>4. Pairs' = Pairs \cup {<<k, v>>} /\ \A e \in Pairs : e[1] # k
    BY <2>3
  <2> QED
    BY <2>1, <2>2, <2>3, <2>4, InsertionStep
<1>2. CASE RemoveFromEmpty \/ BeginOfEmpty
  <2>1. Pairs' = Pairs /\ answer' = <<>>
    BY <1>2, EmptySteps DEF RemoveFromEmpty, BeginOfEmpty
  <2> QED
    BY <2>1, CallStep
<1>3. ASSUME NEW key \in Keys, GetValueOfEmpty PROVE MapStep
  <2>1. Pairs' = Pairs /\ answer' = <<FALSE>>
    BY <1>3, EmptySteps DEF GetValueOfEmpty
  <2>2. Pairs = {}
    <3>1. Empty
      BY <1>3, TreeTypes DEF Inv, GetValueOfEmpty
    <3> QED
      BY <3>1 DEF Empty, Pairs
  <2> QED
    BY <2>1, <2>2, LookupStep
<1>4. CASE Begin \/ \E key \in Keys : Find(key)
  <2>1. Pairs' = Pairs /\ answer' = <<>>
    BY <1>4, BeginningSteps DEF Begin, Find
  <2> QED
    BY <2>1, CallStep
<1>5. CASE InsertPresent
  <2>1. PICK i : i = KeyIndex(keys[cur], sought)
    OBVIOUS
  <2>2. AtLeaf /\ HasKeyAt(keys[cur], i, sought) /\ answer' = <<FALSE>> /\ Pairs' = Pairs
    BY <1>5, <2>1, ReadSteps DEF InsertPresent
  <2>3. PICK v : v = vals[cur][i + 1]
    OBVIOUS
  <2>4. <<sought, v>> \in Pairs /\ <<sought, v>> \in Entries
    BY <2>1, <2>2, <2>3, SearchDecides DEF Inv
  <2> QED
    BY <2>2, <2>4, InsertionStep
<1>6. ASSUME NEW val \in Rids, Insert(val) PROVE MapStep
  <2>1. /\ <<sought, val>> \in Entries /\ Pairs' = Pairs \cup {<<sought, val>>}
        /\ \A e \in Pairs : e[1] # sought
    BY <1>6, InsertStep
  <2>2. answer' = <<TRUE>>
    BY <1>6 DEF Insert
  <2> QED
    BY <2>1, <2>2, InsertionStep
<1>7. CASE RemoveAbsent
  <2>1. Pairs' = Pairs /\ answer' = <<>>
    BY <1>7, ReadSteps DEF RemoveAbsent
  <2> QED
    BY <2>1, CallStep
<1>8. CASE RemoveEntry \/ RemoveLast
  <2>1. sought \in Keys /\ Pairs' = {e \in Pairs : e[1] # sought}
    BY <1>8, RemoveEntryStep, RemoveLastStep
  <2>2. answer' = <<>>
    BY <1>8 DEF RemoveEntry, RemoveLast
  <2> QED
    BY <2>1, <2>2, RemovalStep
<1>9. CASE GetValue
  <2>1. PICK i : i = KeyIndex(keys[cur], sought)
    OBVIOUS
  <2>2. /\ AtLeaf /\ Pairs' = Pairs
        /\ answer' = IF HasKeyAt(keys[cur], i, sought) THEN <<TRUE, vals[cur][i + 1]>>
                                                       ELSE <<FALSE>>
    BY <1>9, <2>1, ReadSteps DEF GetValue
  <2>3. /\ sought \in Keys
        /\ HasKeyAt(keys[cur], i, sought) => <<sought, vals[cur][i + 1]>> \in Pairs
        /\ ~HasKeyAt(keys[cur], i, sought) => \A e \in Pairs : e[1] # sought
    BY <2>1, <2>2, SearchDecides
  <2> QED
    BY <2>2, <2>3, LookupStep
<1>10. CASE Descend \/ BeginAt \/ BeginFirst \/ Advance \/ ScanEnds
  <2>1. Pairs' = Pairs
    BY <1>10, DescendStep, BeginAtStep, BeginFirstStep, AdvanceStep, ReadSteps
  <2>2. answer' = answer
    BY <1>10 DEF Descend, BeginAt, BeginFirst, Advance, ScanEnds
  <2> QED
    BY <2>1, <2>2 DEF MapStep
<1>11. CASE SplitRoot \/ SplitPage \/ BorrowFromLeft \/ BorrowFromRight \/ Merge \/ Collapse
  <2>1. Pairs' = Pairs
    BY <1>11, SplitRootStep, SplitPageStep, BorrowFromLeftStep, BorrowFromRightStep,
       MergeStep, CollapseStep, SMTT(30)
  <2>2. answer' = answer
    BY <1>11 DEF SplitRoot, SplitPage, BorrowFromLeft, BorrowFromRight, Refilled, Merge, Collapse
  <2> QED
    BY <2>1, <2>2 DEF MapStep
<1>12. CASE UNCHANGED vars
  <2>1. Pairs' = Pairs /\ answer' = answer
    BY <1>12 DEF vars, tree, Pairs
  <2> QED
    BY <2>1 DEF MapStep
<1> QED
  BY <1>1, <1>2, <1>3, <1>4, <1>5, <1>6, <1>7, <1>8, <1>9, <1>10, <1>11, <1>12, Zenon
  DEF Next

\* The tree implements a map with unique keys: Insert refuses a key that is
\* present, Remove and GetValue find every key inserted and not removed, and no
\* split, borrow, merge or change of the root adds, loses or alters an entry.
THEOREM TreeImplementsMap == Spec => ImplementsOrderedMap
<1>1. Init => Map!Init
  BY DEF Init, Map!Init, Pairs
<1>2. Inv /\ [Next]_vars => [Map!Next]_(Map!vars)
  BY NextMap DEF MapStep, Map!vars
<1> QED
  BY <1>1, <1>2, Invariance, PTL DEF Spec, ImplementsOrderedMap, Map!Spec
==============================================================================

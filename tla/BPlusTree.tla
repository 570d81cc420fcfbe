------------------------------ MODULE BPlusTree ------------------------------
(***************************************************************************)
(* The B+ tree of src/src/storage/index/b_plus_tree.cpp, its pages and its *)
(* iterator.  The tree has no latch and runs one operation at a time; an   *)
(* operation is one step per page it comes to on the way down and one per  *)
(* page it splits, refills or merges on the way up.  Insert, Remove,       *)
(* GetValue and Begin(key) go down the same way, so the descent is theirs  *)
(* in common and the leaf step says which of them it was.                  *)
(*                                                                         *)
(* Of a leaf, keys[p][i] and vals[p][i] are the entry array_[i - 1]; of an *)
(* internal page, whose array_[0].first is unused, keys[p][i] is           *)
(* array_[i].first and vals[p][i] is array_[i - 1].second.                 *)
(***************************************************************************)
EXTENDS Integers, Sequences, FiniteSets

CONSTANTS
    Keys,                     \* the keys: integers
    Entries,                  \* the pairs <<key, rid>> that may be inserted
    PageIds,                  \* bound: ids of the pages that exist at once
    leaf_max_size,            \* leaf_max_size_ and internal_max_size_ (the
    internal_max_size,        \* constructor's default for 0 is what fits a page)
    pool_size                 \* frames of the buffer pool

ASSUME KeysAssumption == Keys \subseteq Int
ASSUME EntriesAssumption == \A e \in Entries : e[1] \in Keys /\ e = <<e[1], e[2]>>
ASSUME PageIdsAssumption == PageIds \subseteq Nat
ASSUME MaxSizeAssumption == /\ leaf_max_size \in Nat /\ leaf_max_size >= 2
                            /\ internal_max_size \in Nat /\ internal_max_size >= 3
ASSUME PoolAssumption == pool_size \in Nat /\ pool_size >= 4

INVALID_PAGE_ID == -1
Rids == {e[2] : e \in Entries}

S == INSTANCE SequencesExt

VARIABLES
    root,       \* root_page_id_
    pages,      \* the pages of the tree that exist
    leaves,     \* those of type LEAF_PAGE
    parent,     \* parent_page_id_ of every page
    next,       \* next_page_id_ of every leaf
    keys,       \* array_ of every page: the keys
    vals,       \* and the rids of a leaf or the children of an internal page
    pins,       \* pin counts in the buffer pool
    starved,    \* a fetch found every frame pinned (the code then uses nullptr)
    loc,        \* where the running operation is, "idle" if none runs
    cur,        \* the page it has come to
    sought,     \* the key it goes down for
    index,      \* index_ of the iterator, whose page_id_ is cur
    due,        \* ghost: the keys a scan has not yet passed
    answer      \* what the operation returns, <<>> before it is known

tree == <<root, pages, leaves, parent, next, keys, vals>>
pool == <<pins, starved>>
vars == <<tree, pool, loc, cur, sought, index, due, answer>>

-----------------------------------------------------------------------------
(* Pages. *)
IsRoot(p) == parent[p] = INVALID_PAGE_ID
Size(p) == Len(vals[p])
MaxSize(p) == IF p \in leaves THEN leaf_max_size ELSE internal_max_size
MinSize(p) == IF p \in leaves THEN leaf_max_size \div 2 ELSE (internal_max_size + 1) \div 2
Children(p) == IF p \in leaves THEN {} ELSE S!ToSet(vals[p])

\* NewPage gives page p, when those in used exist: the least id is as good as any.
NewPage(p, used) == p \in PageIds \ used /\ \A q \in PageIds \ used : p <= q

\* DeletePage refuses a page that is pinned.
Deleted(p, counts) == IF counts[p] = 0 THEN {p} ELSE {}

\* A page's fields, reset once the page is gone.
Cleared(f, gone, none) == [p \in PageIds |-> IF p \in gone THEN none ELSE f[p]]

\* The pages in children get the parent p.
Adopt(f, children, p) == [c \in PageIds |-> IF c \in children THEN p ELSE f[c]]

Fetch(counts, set) == [p \in PageIds |-> IF p \in set THEN counts[p] + 1 ELSE counts[p]]

Mutant_Unpin(counts, set) ==               \* forgets one of the pages
    [p \in PageIds |-> IF p \in set /\ (\E q \in set : q < p \/ set = {p})
                       THEN counts[p] - 1 ELSE counts[p]]

Unpin(counts, set) == [p \in PageIds |-> IF p \in set THEN counts[p] - 1 ELSE counts[p]]

\* The step fetches these sets of pages, each at one moment, and holds them
\* together with the pages pinned before.
Fetching(moments) ==
    starved' = (starved \/ \E set \in moments :
                   Cardinality({p \in PageIds : Fetch(pins, set)[p] > 0}) > pool_size)

-----------------------------------------------------------------------------
(* Searching in a page: the binary searches, a round of the loop at a time. *)

\* n applications of the function step to start.
Iterate(step, start, n) ==
    LET rounds[i \in 0 .. n] == IF i = 0 THEN start ELSE step[rounds[i - 1]]
    IN  rounds[n]

\* A round of the leaf's search, on <<low, high>>; once low > high it is over.
KeyIndexRound(ks, key) ==
    [s \in (0 .. Len(ks)) \X (-1 .. Len(ks) - 1) |->
        LET mid == (s[1] + s[2]) \div 2 IN
        IF s[1] > s[2] THEN s
        ELSE IF ks[mid + 1] < key THEN <<mid + 1, s[2]>> ELSE <<s[1], mid - 1>>]

\* The code's index of the first key that is not below key.
KeyIndex(ks, key) == Iterate(KeyIndexRound(ks, key), <<0, Len(ks) - 1>>, Len(ks))[1]

HasKeyAt(ks, i, key) == i < Len(ks) /\ ks[i + 1] = key

\* A round of the internal page's search, on <<low, high, index>>.
LookupRound(ks, key) ==
    [s \in (1 .. Len(ks) + 1) \X (0 .. Len(ks)) \X (0 .. Len(ks)) |->
        LET mid == (s[1] + s[2]) \div 2 IN
        IF s[1] > s[2] THEN s
        ELSE IF key < ks[mid] THEN <<s[1], mid - 1, s[3]>> ELSE <<mid + 1, s[2], mid>>]

LookupIndex(ks, key) == Iterate(LookupRound(ks, key), <<1, Len(ks), 0>>, Len(ks))[3]

Mutant_Lookup(p, key) ==                   \* a separator goes to the left
    vals[p][1 + LookupIndex(keys[p], key - 1)]

\* The child of p whose subtree is to hold key.
Lookup(p, key) == vals[p][1 + LookupIndex(keys[p], key)]

\* Where page c is among the values vs: the code's index plus 1, 0 if nowhere.
ValueIndex(vs, c) ==
    IF \E i \in 1 .. Len(vs) : vs[i] = c
    THEN CHOOSE i \in 1 .. Len(vs) : vs[i] = c /\ \A j \in 1 .. i - 1 : vs[j] # c
    ELSE 0

-----------------------------------------------------------------------------
(* An operation's course. *)
GoTo(where, p) == loc' = where /\ cur' = p
Stay == UNCHANGED <<sought, index, due>>
Return == GoTo("idle", INVALID_PAGE_ID) /\ sought' = 0 /\ index' = 0 /\ due' = {}
Iterating(p, i, keysDue) == GoTo("iterate", p) /\ index' = i /\ due' = keysDue /\ sought' = 0

Init ==
    /\ root = INVALID_PAGE_ID /\ pages = {} /\ leaves = {}
    /\ parent = [p \in PageIds |-> INVALID_PAGE_ID]
    /\ next = [p \in PageIds |-> INVALID_PAGE_ID]
    /\ keys = [p \in PageIds |-> <<>>]
    /\ vals = [p \in PageIds |-> <<>>]
    /\ pins = [p \in PageIds |-> 0]
    /\ starved = FALSE
    /\ loc = "idle" /\ cur = INVALID_PAGE_ID /\ sought = 0 /\ index = 0 /\ due = {}
    /\ answer = <<>>

\* The calls that find the tree empty.
InsertFirst(key, val) ==
    /\ loc = "idle" /\ root = INVALID_PAGE_ID
    /\ \E p \in PageIds :
          /\ NewPage(p, pages)
          /\ root' = p /\ pages' = pages \cup {p} /\ leaves' = leaves \cup {p}
          /\ keys' = [keys EXCEPT ![p] = <<key>>]
          /\ vals' = [vals EXCEPT ![p] = <<val>>]
          /\ Fetching({{p}})
          /\ pins' = Unpin(Fetch(pins, {p}), {p})
    /\ answer' = <<TRUE>>
    /\ UNCHANGED <<parent, next, loc, cur>> /\ Stay

RemoveFromEmpty ==
    /\ loc = "idle" /\ root = INVALID_PAGE_ID
    /\ answer' = <<>>
    /\ UNCHANGED <<tree, pool, loc, cur>> /\ Stay

GetValueOfEmpty ==
    /\ loc = "idle" /\ root = INVALID_PAGE_ID
    /\ answer' = <<FALSE>>
    /\ UNCHANGED <<tree, pool, loc, cur>> /\ Stay

BeginOfEmpty ==
    /\ loc = "idle" /\ root = INVALID_PAGE_ID
    /\ answer' = <<>>
    /\ Iterating(INVALID_PAGE_ID, 0, Keys)
    /\ UNCHANGED <<tree, pool>>

\* The start of the way down: for a key, and for Begin() to the first leaf.
Find(key) ==
    /\ loc = "idle" /\ root # INVALID_PAGE_ID
    /\ GoTo("descend", root) /\ sought' = key
    /\ answer' = <<>>
    /\ Fetching({{root}}) /\ pins' = Fetch(pins, {root})
    /\ UNCHANGED <<tree, index, due>>

Begin ==
    /\ loc = "idle" /\ root # INVALID_PAGE_ID
    /\ GoTo("first", root)
    /\ answer' = <<>>
    /\ Fetching({{root}}) /\ pins' = Fetch(pins, {root})
    /\ UNCHANGED tree /\ Stay

\* One page further down: the page is unpinned before its child is fetched,
\* which so finds a frame.
Descend ==
    /\ loc \in {"descend", "first"} /\ cur \notin leaves
    /\ LET child == IF loc = "first" THEN vals[cur][1] ELSE Lookup(cur, sought) IN
       /\ GoTo(loc, child)
       /\ pins' = Fetch(Unpin(pins, {cur}), {child})
    /\ UNCHANGED <<tree, starved, answer>> /\ Stay

AtLeaf == loc = "descend" /\ cur \in leaves

-----------------------------------------------------------------------------
(* Insert. *)
InsertPresent ==
    /\ AtLeaf /\ HasKeyAt(keys[cur], KeyIndex(keys[cur], sought), sought)
    /\ answer' = <<FALSE>>
    /\ pins' = Unpin(pins, {cur})
    /\ Return /\ UNCHANGED <<tree, starved>>

Insert(val) ==
    LET i == KeyIndex(keys[cur], sought) IN
    /\ AtLeaf /\ <<sought, val>> \in Entries
    /\ ~HasKeyAt(keys[cur], i, sought)
    /\ keys' = [keys EXCEPT ![cur] = S!InsertAt(@, i + 1, sought)]
    /\ vals' = [vals EXCEPT ![cur] = S!InsertAt(@, i + 1, val)]
    /\ answer' = <<TRUE>>
    /\ IF Size(cur) + 1 <= MaxSize(cur)
       THEN pins' = Unpin(pins, {cur}) /\ Return
       ELSE /\ GoTo("overflow", cur) /\ sought' = 0
            /\ UNCHANGED <<pins, index, due>>
    /\ UNCHANGED <<root, pages, leaves, parent, next, starved>>

\* MoveHalfTo, of page p that has one entry too many: the two parts, and the
\* key that is to separate them in the parent.
Half(p) == Size(p) \div 2
LowerKeys(p) == SubSeq(keys[p], 1, IF p \in leaves THEN Half(p) ELSE Half(p) - 1)
LowerVals(p) == SubSeq(vals[p], 1, Half(p))

Mutant_UpperKeys(p) == SubSeq(keys[p], Half(p), Len(keys[p]))    \* the middle key too

UpperKeys(p) == SubSeq(keys[p], Half(p) + 1, Len(keys[p]))
UpperVals(p) == SubSeq(vals[p], Half(p) + 1, Size(p))
MiddleKey(p) == keys[p][IF p \in leaves THEN Half(p) + 1 ELSE Half(p)]

\* The children that move to the new page, and the chain of the leaves.
MovedUp(p) == IF p \in leaves THEN {} ELSE S!ToSet(UpperVals(p))
Linked(p, right) == IF p \in leaves THEN [next EXCEPT ![right] = next[p], ![p] = right]
                                    ELSE next

\* The new page right of cur is given its contents; pages, leaves, next.
SplitOff(right, more) ==
    /\ pages' = pages \cup {right} \cup more
    /\ leaves' = IF cur \in leaves THEN leaves \cup {right} ELSE leaves
    /\ next' = Linked(cur, right)

\* The page that overflows is the root: a new root over its two parts.
SplitRoot ==
    /\ loc = "overflow" /\ IsRoot(cur)
    /\ \E right, top \in PageIds :
          /\ NewPage(right, pages) /\ NewPage(top, pages \cup {right})
          /\ SplitOff(right, {top})
          /\ root' = top
          /\ keys' = [keys EXCEPT ![cur] = LowerKeys(cur), ![right] = UpperKeys(cur),
                                  ![top] = <<MiddleKey(cur)>>]
          /\ vals' = [vals EXCEPT ![cur] = LowerVals(cur), ![right] = UpperVals(cur),
                                  ![top] = <<cur, right>>]
          /\ parent' = Adopt(Adopt(parent, MovedUp(cur), right), {cur, right}, top)
          /\ Fetching({{right, c} : c \in MovedUp(cur)} \cup {{right, top}})
          /\ pins' = Unpin(Fetch(pins, {right, top}), {cur, right, top})
    /\ Return /\ UNCHANGED answer

\* It is not the root: its new neighbour is entered in the parent, which may
\* overflow in turn.
SplitPage ==
    LET up == parent[cur]
        i == ValueIndex(vals[up], cur)
        held == IF Size(up) + 1 <= MaxSize(up) THEN {} ELSE {up}
    IN
    /\ loc = "overflow" /\ ~IsRoot(cur)
    /\ \E right \in PageIds :
          /\ NewPage(right, pages)
          /\ SplitOff(right, {})
          /\ keys' = [keys EXCEPT ![cur] = LowerKeys(cur), ![right] = UpperKeys(cur),
                                  ![up] = S!InsertAt(@, i, MiddleKey(cur))]
          /\ vals' = [vals EXCEPT ![cur] = LowerVals(cur), ![right] = UpperVals(cur),
                                  ![up] = S!InsertAt(@, i + 1, right)]
          /\ parent' = Adopt(Adopt(parent, MovedUp(cur), right), {right}, up)
          /\ Fetching({{right, c} : c \in MovedUp(cur)} \cup {{right, up}})
          /\ pins' = Unpin(Fetch(pins, {right, up}), {cur, right, up} \ held)
    /\ IF held = {} THEN Return ELSE GoTo("overflow", up) /\ Stay
    /\ UNCHANGED <<root, answer>>

-----------------------------------------------------------------------------
(* Remove. *)

\* The leaf's parent is fetched before the leaf is searched.
ParentOf(p) == IF IsRoot(p) THEN {} ELSE {parent[p]}

RemoveAbsent ==
    /\ AtLeaf /\ ~HasKeyAt(keys[cur], KeyIndex(keys[cur], sought), sought)
    /\ answer' = <<>>
    /\ Fetching({ParentOf(cur)})
    /\ pins' = Unpin(Fetch(pins, ParentOf(cur)), {cur} \cup ParentOf(cur))
    /\ Return /\ UNCHANGED tree

RemoveEntry ==
    LET i == KeyIndex(keys[cur], sought) IN
    /\ AtLeaf /\ HasKeyAt(keys[cur], i, sought)
    /\ Size(cur) - 1 >= MinSize(cur) \/ ~IsRoot(cur) \/ Size(cur) - 1 # 0
    /\ keys' = [keys EXCEPT ![cur] = S!RemoveAt(@, i + 1)]
    /\ vals' = [vals EXCEPT ![cur] = S!RemoveAt(@, i + 1)]
    /\ answer' = <<>>
    /\ Fetching({ParentOf(cur)})
    /\ IF Size(cur) - 1 >= MinSize(cur) \/ IsRoot(cur)
       THEN /\ pins' = Unpin(Fetch(pins, ParentOf(cur)), {cur} \cup ParentOf(cur))
            /\ Return
       ELSE /\ pins' = Fetch(pins, ParentOf(cur))
            /\ GoTo("underflow", cur) /\ sought' = 0
            /\ UNCHANGED <<index, due>>
    /\ UNCHANGED <<root, pages, leaves, parent, next>>

\* The last entry of a tree that is one leaf.
RemoveLast ==
    LET i == KeyIndex(keys[cur], sought)
        counts == Unpin(pins, {cur})
        gone == Deleted(cur, counts)
    IN
    /\ AtLeaf /\ HasKeyAt(keys[cur], i, sought)
    /\ Size(cur) - 1 < MinSize(cur) /\ IsRoot(cur) /\ Size(cur) - 1 = 0
    /\ root' = INVALID_PAGE_ID
    /\ pages' = pages \ gone /\ leaves' = leaves \ gone
    /\ parent' = Cleared(parent, gone, INVALID_PAGE_ID)
    /\ next' = Cleared(next, gone, INVALID_PAGE_ID)
    /\ keys' = [keys EXCEPT ![cur] = S!RemoveAt(@, i + 1)]
    /\ vals' = [vals EXCEPT ![cur] = S!RemoveAt(@, i + 1)]
    /\ answer' = <<>>
    /\ pins' = counts
    /\ Return /\ UNCHANGED starved

\* cur has too few entries and is not the root.  It is the right one of two
\* neighbours, or the left one if it is its parent's first child; RightIndex
\* is right_page_index, Separator the parent's key between the two.
RightIndex ==
    LET i == ValueIndex(vals[parent[cur]], cur) IN IF i = 1 THEN 1 ELSE i - 1
Left == vals[parent[cur]][RightIndex]
Right == vals[parent[cur]][RightIndex + 1]
Separator == keys[parent[cur]][RightIndex]
Siblings == {Left, Right} \ {cur}

CanBorrow == Size(Left) > MinSize(Left) \/ Size(Right) > MinSize(Right)

\* A leaf came here with its parent pinned; an internal page fetches it now.
Family == IF cur \in leaves THEN Siblings ELSE Siblings \cup {parent[cur]}

Refilled(moved, to) ==
    /\ parent' = IF cur \in leaves THEN parent ELSE [parent EXCEPT ![moved] = to]
    /\ Fetching({Family} \cup {Family \cup {moved} : p \in {cur} \ leaves})
    /\ pins' = Unpin(Fetch(pins, Family), {Left, Right, parent[cur]})
    /\ Return /\ UNCHANGED <<root, pages, leaves, next, answer>>

\* MoveLastToFrontOf.
BorrowFromLeft ==
    LET lastKey == S!Last(keys[Left])
        lastVal == S!Last(vals[Left])
    IN
    /\ loc = "underflow" /\ ~IsRoot(cur) /\ CanBorrow /\ cur = Right
    /\ keys' = [keys EXCEPT
                  ![Left] = S!Front(@),
                  ![Right] = <<IF cur \in leaves THEN lastKey ELSE Separator>> \o @,
                  ![parent[cur]] = [@ EXCEPT ![RightIndex] = lastKey]]
    /\ vals' = [vals EXCEPT ![Left] = S!Front(@), ![Right] = <<lastVal>> \o @]
    /\ Refilled(lastVal, Right)

\* MoveFirstToEndOf.
BorrowFromRight ==
    LET firstVal == Head(vals[Right]) IN
    /\ loc = "underflow" /\ ~IsRoot(cur) /\ CanBorrow /\ cur # Right
    /\ keys' = [keys EXCEPT
                  ![Left] = Append(@, IF cur \in leaves THEN Head(keys[Right]) ELSE Separator),
                  ![Right] = Tail(@),
                  ![parent[cur]] = [@ EXCEPT ![RightIndex] =
                      IF cur \in leaves THEN keys[Right][2] ELSE Head(keys[Right])]]
    /\ vals' = [vals EXCEPT ![Left] = Append(@, firstVal), ![Right] = Tail(@)]
    /\ Refilled(firstVal, Left)

\* MoveAllTo: the right page's entries go to the left one and the page is
\* deleted; the parent has lost a child and may have too few in turn.
Merge ==
    LET up == parent[cur]
        merged == vals[Left] \o vals[Right]
        adopted == IF cur \in leaves THEN {} ELSE S!ToSet(merged)
        counts == Unpin(Fetch(pins, Family), {Left, Right})
        gone == Deleted(Right, counts)
        done == Size(up) - 1 >= MinSize(up) \/ (IsRoot(up) /\ Size(up) - 1 # 1)
        middle == IF cur \in leaves THEN <<>> ELSE <<Separator>>
    IN
    /\ loc = "underflow" /\ ~IsRoot(cur) /\ ~CanBorrow
    /\ keys' = [keys EXCEPT ![Left] = @ \o middle \o keys[Right], ![Right] = <<>>,
                            ![up] = S!RemoveAt(@, RightIndex)]
    /\ vals' = [vals EXCEPT ![Left] = merged, ![Right] = <<>>,
                            ![up] = S!RemoveAt(@, RightIndex + 1)]
    /\ parent' = Cleared(Adopt(parent, adopted, Left), gone, INVALID_PAGE_ID)
    /\ next' = Cleared(IF cur \in leaves THEN [next EXCEPT ![Left] = next[Right]] ELSE next,
                       gone, INVALID_PAGE_ID)
    /\ pages' = pages \ gone /\ leaves' = leaves \ gone
    /\ Fetching({Family} \cup {Family \cup {c} : c \in adopted})
    /\ pins' = Unpin(counts, IF done THEN {up} ELSE {})
    /\ IF done THEN Return ELSE GoTo("underflow", up) /\ Stay
    /\ UNCHANGED <<root, answer>>

Mutant_Collapse ==                         \* deletes the old root while pinned
    LET child == vals[cur][1]
        gone == Deleted(cur, pins)
    IN
    /\ loc = "underflow" /\ IsRoot(cur)
    /\ root' = child
    /\ parent' = Adopt(parent, {child}, INVALID_PAGE_ID)
    /\ pages' = pages \ gone
    /\ vals' = [vals EXCEPT ![cur] = <<>>]
    /\ Fetching({{child}})
    /\ pins' = Unpin(pins, {cur})
    /\ Return /\ UNCHANGED <<leaves, next, keys, answer>>

\* The root has one child left, which becomes the root.
Collapse ==
    LET child == vals[cur][1]
        counts == Unpin(pins, {cur})
        gone == Deleted(cur, counts)
    IN
    /\ loc = "underflow" /\ IsRoot(cur)
    /\ root' = child
    /\ parent' = Adopt(parent, {child}, INVALID_PAGE_ID)
    /\ pages' = pages \ gone
    /\ vals' = [vals EXCEPT ![cur] = <<>>]
    /\ Fetching({{child}})
    /\ pins' = counts
    /\ Return /\ UNCHANGED <<leaves, next, keys, answer>>

-----------------------------------------------------------------------------
(* GetValue, and iterators: page cur and index, the end having no page. *)
GetValue ==
    LET i == KeyIndex(keys[cur], sought) IN
    /\ AtLeaf
    /\ answer' = IF HasKeyAt(keys[cur], i, sought) THEN <<TRUE, vals[cur][i + 1]>>
                                                   ELSE <<FALSE>>
    /\ pins' = Unpin(pins, {cur})
    /\ Return /\ UNCHANGED <<tree, starved>>

Mutant_BeginAt ==                          \* stays on the leaf it came to
    LET i == KeyIndex(keys[cur], sought) IN
    /\ AtLeaf
    /\ Iterating(IF i >= Size(cur) THEN INVALID_PAGE_ID ELSE cur,
                 IF i >= Size(cur) THEN 0 ELSE i, {k \in Keys : k >= sought})
    /\ pins' = Unpin(pins, {cur})
    /\ UNCHANGED <<tree, starved, answer>>

\* Begin(key) and Begin(), come to the leaf.
BeginAt ==
    LET i == KeyIndex(keys[cur], sought) IN
    /\ AtLeaf
    /\ Iterating(IF i >= Size(cur) THEN next[cur] ELSE cur,
                 IF i >= Size(cur) THEN 0 ELSE i, {k \in Keys : k >= sought})
    /\ pins' = Unpin(pins, {cur})
    /\ UNCHANGED <<tree, starved, answer>>

BeginFirst ==
    /\ loc = "first" /\ cur \in leaves
    /\ Iterating(cur, 0, Keys)
    /\ pins' = Unpin(pins, {cur})
    /\ UNCHANGED <<tree, starved, answer>>

\* A round of a scan's loop: operator* reads the pair, operator++ goes on.
Advance ==
    LET key == keys[cur][index + 1]
        over == index + 1 >= Size(cur)
    IN
    /\ loc = "iterate" /\ cur # INVALID_PAGE_ID
    /\ Iterating(IF over THEN next[cur] ELSE cur, IF over THEN 0 ELSE index + 1,
                 {k \in due : k > key})
    /\ Fetching({{cur}})
    /\ UNCHANGED <<tree, pins, answer>>

\* The iterator equals End().
ScanEnds ==
    /\ loc = "iterate" /\ cur = INVALID_PAGE_ID
    /\ Return /\ UNCHANGED <<tree, pool, answer>>

-----------------------------------------------------------------------------
Next == \/ \E entry \in Entries : InsertFirst(entry[1], entry[2])
        \/ RemoveFromEmpty \/ BeginOfEmpty
        \/ \E key \in Keys : Find(key) \/ GetValueOfEmpty
        \/ Begin \/ Descend
        \/ InsertPresent \/ \E val \in Rids : Insert(val)
        \/ SplitRoot \/ SplitPage
        \/ RemoveAbsent \/ RemoveEntry \/ RemoveLast
        \/ BorrowFromLeft \/ BorrowFromRight \/ Merge \/ Collapse
        \/ GetValue \/ BeginAt \/ BeginFirst \/ Advance \/ ScanEnds

Spec == Init /\ [][Next]_vars

-----------------------------------------------------------------------------
(* Properties. *)

\* Type invariant: an internal page has one key fewer than children, and no
\* page is left larger than its max_size_ when an operation returns.
TypeOK ==
    /\ pages \subseteq PageIds /\ leaves \subseteq pages
    /\ root \in pages \cup {INVALID_PAGE_ID}
    /\ parent \in [PageIds -> pages \cup {INVALID_PAGE_ID}]
    /\ next \in [PageIds -> leaves \cup {INVALID_PAGE_ID}]
    /\ \A p \in pages :
          /\ keys[p] \in Seq(Keys)
          /\ vals[p] \in Seq(IF p \in leaves THEN Rids ELSE pages)
          /\ Len(keys[p]) = IF p \in leaves THEN Size(p) ELSE Size(p) - 1
          /\ loc = "idle" => Size(p) \in 1 .. MaxSize(p)
    /\ starved \in BOOLEAN
    /\ loc \in {"idle", "descend", "first", "overflow", "underflow", "iterate"}
    /\ cur \in pages \cup {INVALID_PAGE_ID}

\* The number of steps from page p to the root along the parent pointers.
Depth[p \in pages] == IF p = root THEN 0 ELSE 1 + Depth[parent[p]]

\* Parent pointers, which the code rewrites one child at a time in splits,
\* borrows and merges and trusts on the way up, name the page that lists the
\* child: no page is left pointing to a page it was moved away from.
ParentsCorrect ==
    /\ root # INVALID_PAGE_ID => IsRoot(root)
    /\ \A p \in pages : \A c \in Children(p) : parent[c] = p

\* The tree stays balanced whatever splits, borrows and merges have happened:
\* all leaves have the same depth and, when no operation runs, every page but
\* the root is half full (a leaf up to rounding) and an internal root has two
\* children.
Balanced ==
    /\ \A p, q \in leaves : Depth[p] = Depth[q]
    /\ loc = "idle" => \A p \in pages :
          IF p = root THEN p \in leaves \/ Size(p) >= 2
          ELSE 2 * Size(p) + (IF p \in leaves THEN 1 ELSE 0) >= MaxSize(p)

\* Every page the tree has allocated and not deleted is listed by its parent
\* and so on up to the root: a merged page or an old root is really deleted,
\* so pages do not leak.
NoOrphans ==
    /\ root = INVALID_PAGE_ID => pages = {}
    /\ \A p \in pages : Depth[p] \in Nat /\ (p # root => p \in Children(parent[p]))

\* What Insert and Remove find on their way up and leave behind: a balanced
\* tree of all the pages, linked both ways, after every reorganisation over
\* several levels, and between the reorganisations of two levels too.
WellFormed == ParentsCorrect /\ Balanced /\ NoOrphans

\* Every path through Insert and Remove gives back each pin it took (a page
\* left pinned could never be evicted), and none finds a pool of 4 frames full.
PinsReleased == (loc = "idle" => \A p \in PageIds : pins[p] = 0) /\ ~starved

\* The pairs of all leaves.
Pairs == UNION {{<<keys[p][i], vals[p][i]>> : i \in 1 .. Len(keys[p])} : p \in leaves}

\* The leaf chain agrees with the tree above it: an iterator, from Begin() or
\* from Begin(key) on, also when key lies between two leaves, always stands at
\* the least pair that it has not passed, and is at the end when none is left.
ScansInOrder ==
    loc = "iterate" =>
      LET left == {e \in Pairs : e[1] \in due} IN
      IF cur = INVALID_PAGE_ID THEN left = {}
      ELSE LET here == <<keys[cur][index + 1], vals[cur][index + 1]>>
           IN  here \in left /\ \A e \in left : here[1] <= e[1]

Map == INSTANCE OrderedMap WITH map <- Pairs

\* Through every reorganisation the tree implements a map with unique keys:
\* Insert refuses a key that is present, Remove removes that key only, and
\* GetValue finds every key inserted and not removed, with its own rid; each
\* takes effect once, and no other step of theirs changes what is found.
ImplementsOrderedMap == Map!Spec
=============================================================================

--------------------------- MODULE PageGuardProofs ---------------------------
(***************************************************************************)
(* The page guards are correct for every number of threads, guards, frames *)
(* and pages, on a device that may fail.                                   *)
(***************************************************************************)
EXTENDS PageGuard, BufferPoolProofs

\* A guard and a pin belong to each other one to one.
Owned ==
    /\ \A g \in Guards : Holding(g) => pin[guard[g].page] # NoPin
    /\ \A g, b \in Guards : Holding(g) /\ guard[g].page = guard[b].page => g = b
    /\ \A h \in Handles : pin[h] # NoPin => \E g \in Guards : guard[g].page = h

InCall(g) == guard[g].stage \in {"latching", "unlatched"}

\* A thread is in one call at a time, a BasicPageGuard waits for no latch, and
\* while a guard is assigned over, the one to be moved is left alone.
Calls ==
    /\ \A g \in Guards : guard[g].stage = "latching" => guard[g].kind # "basic"
    /\ \A g, b \in Guards : InCall(g) /\ InCall(b) /\ Owner[g] = Owner[b] => g = b
    /\ \A g \in Guards : guard[g].stage = "unlatched" /\ guard[g].that # NoGuard
          => guard[guard[g].that].stage = "held" /\ Owner[guard[g].that] = Owner[g]

\* What a latch records of the guards that took it.
LatchAgrees(f) ==
    /\ latch[f].readers = Cardinality(LatchHolders(f, "read"))
    /\ Cardinality(LatchHolders(f, "write")) = IF latch[f].writer THEN 1 ELSE 0
    /\ latch[f].writer => latch[f].readers = 0

\* The inductive invariant.
GuardInv ==
    /\ Bookkeeping
    /\ GuardTypeOK
    /\ Owned
    /\ Calls
    /\ \A f \in Frames : LatchAgrees(f)

-----------------------------------------------------------------------------
\* The fields of a guard and of a latch have their types.
LEMMA GuardFields ==
    ASSUME GuardTypeOK, NEW g \in Guards
    PROVE  /\ guard[g] \in GuardType
           /\ guard[g] = [kind |-> guard[g].kind, page |-> guard[g].page,
                          is_dirty |-> guard[g].is_dirty, stage |-> guard[g].stage,
                          that |-> guard[g].that]
           /\ guard[g].kind \in {"basic", "read", "write"}
           /\ guard[g].page \in Handles \cup {NoHandle}
           /\ Holding(g) => guard[g].page \in Handles
           /\ guard[g].is_dirty \in BOOLEAN
           /\ guard[g].stage \in Stages
           /\ guard[g].that \in Guards \cup {NoGuard}
           /\ Holding(g) <=> guard[g].stage # "empty"
  BY DEF GuardTypeOK, GuardType, Holding

\* A guard with another stage.
WithStage(r, stage, that) ==
    [kind |-> r.kind, page |-> r.page, is_dirty |-> r.is_dirty, stage |-> stage, that |-> that]

\* An EXCEPT on the stage, field by field.
LEMMA StageChanged ==
    ASSUME NEW r \in GuardType, NEW stage
    PROVE  [r EXCEPT !.stage = stage] = WithStage(r, stage, r.that)
<1>1. r = [kind |-> r.kind, page |-> r.page, is_dirty |-> r.is_dirty, stage |-> r.stage,
           that |-> r.that]
  BY DEF GuardType
<1> QED
  BY <1>1 DEF WithStage

\* A guard that holds nothing has the fields the destructor leaves.
LEMMA EmptyFields ==
    /\ Empty \in GuardType
    /\ Empty.page = NoHandle /\ Empty.stage = "empty"
  BY DEF Empty, GuardType, Stages

\* The holders of a latch are finitely many guards.
LEMMA LatchHoldersFinite ==
    ASSUME NEW f, NEW k
    PROVE  /\ LatchHolders(f, k) \subseteq Guards
           /\ IsFiniteSet(LatchHolders(f, k))
           /\ Cardinality(LatchHolders(f, k)) \in 0 .. Cardinality(Guards)
<1>1. LatchHolders(f, k) \subseteq Guards
  BY DEF LatchHolders
<1> QED
  BY <1>1, GuardsAssumption, FS_Subset, FS_CardinalityType

\* A set with one element exchanged for another keeps its cardinality.
LEMMA Exchanged ==
    ASSUME NEW S, IsFiniteSet(S), NEW a, NEW b, b \notin S
    PROVE  Cardinality(IF a \in S THEN (S \ {a}) \cup {b} ELSE S) = Cardinality(S)
<1>1. CASE a \in S
  <2>1. IsFiniteSet(S \ {a}) /\ Cardinality(S \ {a}) = Cardinality(S) - 1
    BY <1>1, FS_RemoveElement
  <2>2. Cardinality((S \ {a}) \cup {b}) = Cardinality(S \ {a}) + 1
    BY <2>1, FS_AddElement
  <2> QED
    BY <1>1, <2>1, <2>2, FS_CardinalityType
<1> QED
  BY <1>1

-----------------------------------------------------------------------------
\* The first handle that is free is one.
LEMMA FreeHandleExists ==
    ASSUME NEW g, MayConstruct(g)
    PROVE  FreeHandle \in Handles
  BY DEF MayConstruct, FreeHandle

\* Every step of a guard is one of the pool, or leaves the pool alone.
LEMMA GuardStepsAreSteps ==
    ASSUME GuardTypeOK, Owned, [GuardNext]_guard_vars
    PROVE  [Next]_vars
<1>1. ASSUME NEW g \in Guards, NEW k \in Kinds, ConstructNew(g, k)
      PROVE  Next
  BY <1>1, FreeHandleExists DEF ConstructNew, Next
<1>2. ASSUME NEW g \in Guards, NEW k \in Kinds, NEW p \in PageIds, ConstructFetched(g, k, p)
      PROVE  Next
  BY <1>2, FreeHandleExists DEF ConstructFetched, Next, FetchPage
<1>3. ASSUME NEW g \in Guards, Unpin(g)
      PROVE  Next
  <2>1. guard[g].page \in Handles /\ DropDirty(g) \in BOOLEAN
    BY <1>3, GuardFields DEF Unpin, DropDirty
  <2> QED
    BY <1>3, <2>1 DEF Unpin, Next
<1>4. ASSUME NEW g \in Guards, NEW v \in Data, GetDataMut(g, v)
      PROVE  Next
  <2>1. guard[g].page \in Handles
    BY <1>4, GuardFields DEF GetDataMut
  <2> QED
    BY <1>4, <2>1 DEF GetDataMut, Next
<1>5. ASSUME NEW p \in Unguarded, PoolOnly(p)
      PROVE  Next
  BY <1>5, UnguardedAssumption DEF PoolOnly, Next
<1> QED
  BY <1>1, <1>2, <1>3, <1>4, <1>5
     DEF GuardNext, guard_vars, Latch, Drop, Unlatch, MoveToEmpty, MoveAssign

-----------------------------------------------------------------------------
\* A new pin: under a free name, on a page, not yet written through unless
\* the client means to unpin it dirty.
NewPin(h, new) == pin[h] = NoPin /\ new # NoPin /\ pin' = [pin EXCEPT ![h] = new]

\* FetchPage and NewPage make one.
LEMMA PoolPins ==
    ASSUME Bookkeeping, NEW h \in Handles
    PROVE  /\ \A p \in PageIds : FetchHit(h, p) \/ FetchMiss(h, p)
                 => \E new \in HandleType : NewPin(h, new) /\ new.wrote = FALSE
           /\ NewPage(h) => \E new \in HandleType : NewPin(h, new) /\ new.wrote = DirtyNewPages
<1>1. ASSUME NEW p \in PageIds, NEW f \in Frames, NEW w \in BOOLEAN
      PROVE  /\ [page_id |-> p, frame |-> f, wrote |-> w] \in HandleType
             /\ [page_id |-> p, frame |-> f, wrote |-> w] # NoPin
  BY DEF HandleType, NoPin, PageIds, INVALID_PAGE_ID
<1>2. ASSUME NEW p \in PageIds, FetchHit(h, p)
      PROVE  \E new \in HandleType : NewPin(h, new) /\ new.wrote = FALSE
  <2> PICK f : f = page_table[p]
    OBVIOUS
  <2>1. f \in Frames
    BY <1>2 DEF FetchHit, Resident, Bookkeeping, TypeOK
  <2>2. pin[h] = NoPin /\ pin' = [pin EXCEPT ![h] = [page_id |-> p, frame |-> f, wrote |-> FALSE]]
    BY <1>2 DEF FetchHit
  <2> QED
    BY <1>1, <2>1, <2>2 DEF NewPin
<1>3. ASSUME NEW p \in PageIds, FetchMiss(h, p)
      PROVE  \E new \in HandleType : NewPin(h, new) /\ new.wrote = FALSE
  <2>1. PICK f \in Frames :
           pin' = [pin EXCEPT ![h] = [page_id |-> p, frame |-> f, wrote |-> FALSE]]
    BY <1>3 DEF FetchMiss, Admit
  <2>2. pin[h] = NoPin
    BY <1>3 DEF FetchMiss
  <2> QED
    BY <1>1, <2>1, <2>2 DEF NewPin
<1>4. ASSUME NewPage(h)
      PROVE  \E new \in HandleType : NewPin(h, new) /\ new.wrote = DirtyNewPages
  <2> PICK p : p = disk.next_page_id
    OBVIOUS
  <2>1. PICK f \in Frames :
           pin' = [pin EXCEPT ![h] = [page_id |-> p, frame |-> f, wrote |-> DirtyNewPages]]
    BY <1>4 DEF NewPage, Admit
  <2>2. pin[h] = NoPin /\ p < MaxPages
    BY <1>4 DEF NewPage
  <2>3. p \in PageIds /\ DirtyNewPages \in BOOLEAN
    BY <2>2, LiveIds, MaxPagesAssumption, SwitchAssumption DEF PageIds
  <2> QED
    BY <1>1, <2>1, <2>2, <2>3 DEF NewPin
<1> QED
  BY <1>2, <1>3, <1>4

\* A latch that nobody takes or releases, while its holders stay or one of them
\* is moved to another variable.
LEMMA LatchKept ==
    ASSUME NEW f, LatchAgrees(f), latch'[f] = latch[f],
           \A k \in {"read", "write"} :
              Cardinality(LatchHolders(f, k)') = Cardinality(LatchHolders(f, k))
    PROVE  LatchAgrees(f)'
  BY DEF LatchAgrees

\* The parts of the invariant that do not concern the pool.
GuardsInv == GuardTypeOK /\ Owned /\ Calls /\ \A f \in Frames : LatchAgrees(f)

\* A constructor.
LEMMA ConstructKeeps ==
    ASSUME GuardInv, NEW g \in Guards, NEW k \in Kinds, MayConstruct(g),
           NEW h \in Handles, NEW new \in HandleType, NewPin(h, new), Constructed(g, k, h)
    PROVE  GuardsInv'
<1> USE DEF GuardInv
<1> PICK stage : stage = IF k = "basic" THEN "held" ELSE "latching"
  OBVIOUS
<1> PICK made : made = [kind |-> k, page |-> h, is_dirty |-> FALSE, stage |-> stage,
                        that |-> NoGuard]
  OBVIOUS
<1>1. guard' = [guard EXCEPT ![g] = made]
  BY DEF Constructed
<1>2. /\ guard'[g] = made /\ made \in GuardType /\ made.page = h /\ made.stage = stage
      /\ made.kind = k /\ k \in {"basic", "read", "write"} /\ h # NoHandle
      /\ stage \in {"held", "latching"}
      /\ \A b \in Guards : b # g => guard'[b] = guard[b]
  BY <1>1, KindsAssumption, GuardNamesAssumption DEF GuardTypeOK, GuardType, Stages
<1>3. GuardTypeOK'
  <2>1. guard' \in [Guards -> GuardType]
    BY <1>1, <1>2 DEF GuardTypeOK
  <2>2. \A b \in Guards : (guard[b].stage = "empty" <=> ~Holding(b))'
    BY <1>2 DEF GuardTypeOK, Holding
  <2>3. acquires' \in [Threads -> Nat] /\ \A t \in Threads : acquires'[t] <= MaxAcquires[t]
    <3> PICK t : t = Owner[g]
      OBVIOUS
    <3>1. /\ acquires' = [acquires EXCEPT ![t] = acquires[t] + 1]
          /\ acquires[t] < MaxAcquires[t]
          /\ acquires \in [Threads -> Nat]
          /\ \A u \in Threads : acquires[u] <= MaxAcquires[u]
      BY DEF Constructed, MayConstruct, GuardTypeOK
    <3>2. t \in Threads
      BY OwnerAssumption
    <3>3. acquires[t] + 1 \in Nat /\ acquires[t] + 1 <= MaxAcquires[t]
      <4>1. acquires[t] \in Nat /\ MaxAcquires[t] \in Nat
        BY <3>1, <3>2, MaxAcquiresAssumption
      <4> QED
        BY <3>1, <4>1
    <3>4. \A u \in Threads : acquires'[u] = IF u = t THEN acquires[t] + 1 ELSE acquires[u]
      BY <3>1
    <3>5. acquires' \in [Threads -> Nat]
      BY <3>1, <3>3
    <3> QED
      BY <3>1, <3>3, <3>4, <3>5
  <2> QED
    BY <2>1, <2>2, <2>3 DEF GuardTypeOK, Constructed
<1>4. pin'[h] = new /\ new # NoPin /\ \A x \in Handles : x # h => pin'[x] = pin[x]
  BY DEF NewPin, Bookkeeping, TypeOK
<1>5. ~Holding(g) /\ guard[g].stage = "empty"
  BY GuardFields DEF MayConstruct
<1>6. ASSUME NEW b \in Guards, Holding(b)
      PROVE  b # g /\ guard[b].page \in Handles /\ guard[b].page # h
             /\ guard'[b] = guard[b] /\ pin'[guard[b].page] = pin[guard[b].page]
  BY <1>6, <1>2, <1>4, <1>5, GuardFields DEF Owned, NewPin
<1>7. Owned'
  <2>1. \A b \in Guards : Holding(b)' => pin'[guard'[b].page] # NoPin
    BY <1>2, <1>4, <1>6 DEF Owned, Holding
  <2>2. \A b, c \in Guards : Holding(b)' /\ guard'[b].page = guard'[c].page => b = c
    BY <1>2, <1>6 DEF Owned, Holding
  <2>3. \A x \in Handles : pin'[x] # NoPin => \E b \in Guards : guard'[b].page = x
    <3> SUFFICES ASSUME NEW x \in Handles, x # h, pin'[x] # NoPin
                 PROVE  \E b \in Guards : guard'[b].page = x
      BY <1>2
    <3>1. PICK b \in Guards : guard[b].page = x
      BY <1>4 DEF Owned
    <3>2. Holding(b)
      BY <3>1, GuardNamesAssumption DEF Holding
    <3> QED
      BY <3>1, <3>2, <1>6
  <2> QED
    BY <2>1, <2>2, <2>3 DEF Owned, Holding, NoPin, INVALID_PAGE_ID, NoFrame
<1>8. Calls'
  <2>1. \A b \in Guards : Owner[b] = Owner[g] => ~InCall(b)
    BY DEF MayConstruct, Busy, InCall
  <2>2. \A b \in Guards : guard'[b].stage = "latching" => guard'[b].kind # "basic"
    BY <1>2 DEF Calls
  <2>3. \A b \in Guards : b # g => (InCall(b)' <=> InCall(b))
    BY <1>2 DEF InCall
  <2>4. \A b, c \in Guards : InCall(b)' /\ InCall(c)' /\ Owner[b] = Owner[c] => b = c
    BY <2>1, <2>3 DEF Calls
  <2>5. ASSUME NEW b \in Guards, guard'[b].stage = "unlatched", guard'[b].that # NoGuard
        PROVE  guard'[guard'[b].that].stage = "held" /\ Owner[guard'[b].that] = Owner[b]
    <3>1. b # g /\ guard'[b] = guard[b]
      BY <2>5, <1>2
    <3>2. /\ guard[b].that \in Guards
          /\ guard[guard[b].that].stage = "held" /\ Owner[guard[b].that] = Owner[b]
      BY <2>5, <3>1, GuardFields DEF Calls
    <3>3. guard[b].that # g
      BY <3>2, <1>5
    <3> QED
      BY <3>1, <3>2, <3>3, <1>2
  <2> QED
    BY <2>2, <2>4, <2>5 DEF Calls
<1>9. ASSUME NEW f \in Frames
      PROVE  LatchAgrees(f)'
  <2>1. ASSUME NEW kk \in {"read", "write"}
        PROVE  LatchHolders(f, kk)' = LatchHolders(f, kk)
    <3>1. ASSUME NEW b \in Guards
          PROVE  (Latched(b, kk) /\ Frame(b) = f)' <=> Latched(b, kk) /\ Frame(b) = f
      <4>1. CASE b = g
        BY <4>1, <1>2, <1>5 DEF Latched
      <4>2. CASE b # g /\ Holding(b)
        BY <4>2, <1>6 DEF Latched, Frame
      <4>3. CASE b # g /\ ~Holding(b)
        BY <4>3, <1>2, GuardFields DEF Latched
      <4> QED
        BY <4>1, <4>2, <4>3
    <3> QED
      BY <3>1 DEF LatchHolders
  <2>2. LatchAgrees(f) /\ latch'[f] = latch[f]
    BY DEF Constructed
  <2> QED
    BY <2>1, <2>2, LatchKept
<1> QED
  BY <1>3, <1>7, <1>8, <1>9 DEF GuardsInv

\* A step within a call changes how far one guard is, not what it points to.
Advances(g, new) ==
    /\ guard' = [guard EXCEPT ![g] = new]
    /\ new \in GuardType
    /\ new.page = guard[g].page /\ new.stage # "empty"
    /\ pin' = pin /\ acquires' = acquires

\* Such a step keeps owners, frames and types.
LEMMA AdvanceKeeps ==
    ASSUME GuardInv, NEW g \in Guards, Holding(g), NEW new, Advances(g, new)
    PROVE  /\ guard'[g] = new /\ \A b \in Guards : b # g => guard'[b] = guard[b]
           /\ \A b \in Guards : Frame(b)' = Frame(b)
           /\ Owned'
           /\ latch' \in [Frames -> LatchType] => GuardTypeOK'
<1> USE DEF GuardInv
<1>1. guard'[g] = new /\ \A b \in Guards : b # g => guard'[b] = guard[b]
  BY DEF Advances, GuardTypeOK
<1>2. \A b \in Guards : guard'[b].page = guard[b].page
  BY <1>1 DEF Advances
<1>3. Owned'
  BY <1>2 DEF Owned, Holding, Advances, NoPin, NoFrame, INVALID_PAGE_ID
<1>4. \A b \in Guards : Frame(b)' = Frame(b)
  BY <1>2 DEF Frame, Advances
<1>5. ASSUME latch' \in [Frames -> LatchType]
      PROVE  GuardTypeOK'
  <2>1. guard' \in [Guards -> GuardType]
    BY DEF Advances, GuardTypeOK
  <2>2. \A b \in Guards : (guard[b].stage = "empty" <=> ~Holding(b))'
    BY <1>1, <1>2 DEF GuardTypeOK, Holding, Advances
  <2> QED
    BY <1>5, <2>1, <2>2 DEF GuardTypeOK, Advances
<1> QED
  BY <1>1, <1>3, <1>4, <1>5

\* A guard that holds a page has a pin on a frame.
LEMMA HoldingPins ==
    ASSUME GuardInv, NEW g \in Guards, Holding(g)
    PROVE  /\ guard[g].page \in Handles /\ pin[guard[g].page] # NoPin
           /\ Frame(g) \in Frames
           /\ guard[g].page \in Holders(Frame(g))
           /\ pages[Frame(g)].pin_count > 0
<1>1. guard[g].page \in Handles /\ pin[guard[g].page] # NoPin
  BY GuardFields DEF GuardInv, Owned
<1>2. Frame(g) \in Frames /\ guard[g].page \in Holders(Frame(g))
  BY <1>1 DEF GuardInv, Bookkeeping, HandlesStayValid, Frame, Holders
<1>3. pages[Frame(g)].pin_count = Cardinality(Holders(Frame(g)))
  BY <1>2 DEF GuardInv, Bookkeeping, PinCountIsHolders
<1>4. Cardinality(Holders(Frame(g))) \in Nat /\ Cardinality(Holders(Frame(g))) # 0
  BY <1>2, HoldersFinite, FS_CardinalityType
<1> QED
  BY <1>1, <1>2, <1>3, <1>4

\* RLatch and WLatch.
LEMMA LatchKeeps ==
    ASSUME GuardInv, NEW g \in Guards, Latch(g)
    PROVE  GuardsInv'
<1> USE DEF GuardInv
<1> PICK f : f = Frame(g)
  OBVIOUS
<1> PICK k : k = guard[g].kind
  OBVIOUS
<1> PICK new : new = WithStage(guard[g], "held", guard[g].that)
  OBVIOUS
<1> PICK r : r = latch[f]
  OBVIOUS
<1>1. Holding(g) /\ k \in {"read", "write"} /\ guard[g].stage = "latching"
  BY GuardFields DEF Latch, Calls
<1>2. f \in Frames /\ r \in LatchType
  BY <1>1, HoldingPins DEF GuardTypeOK
<1>3. Advances(g, new)
  <2>1. guard' = [guard EXCEPT ![g] = new]
    <3>1. guard' = [guard EXCEPT ![g] = [guard[g] EXCEPT !.stage = "held"]]
      BY DEF Latch
    <3> QED
      BY <3>1, GuardFields, StageChanged
  <2>2. new \in GuardType /\ new.page = guard[g].page /\ new.stage = "held"
    BY GuardFields DEF GuardType, Stages, WithStage
  <2> QED
    BY <2>1, <2>2 DEF Advances, Latch, vars
<1>f. new.stage = "held" /\ new.kind = k
  BY DEF WithStage
<1>4. /\ guard'[g] = new /\ \A b \in Guards : b # g => guard'[b] = guard[b]
      /\ \A b \in Guards : Frame(b)' = Frame(b)
      /\ Owned'
      /\ latch' \in [Frames -> LatchType] => GuardTypeOK'
  BY <1>1, <1>3, AdvanceKeeps
<1>5. Calls'
  <2>1. \A b \in Guards : guard'[b].stage = "latching" => guard'[b].kind # "basic"
    BY <1>4, <1>f DEF Calls
  <2>2. \A b \in Guards : InCall(b)' => InCall(b)
    BY <1>1, <1>4, <1>f DEF InCall
  <2>3. \A b, c \in Guards : InCall(b)' /\ InCall(c)' /\ Owner[b] = Owner[c] => b = c
    BY <2>2 DEF Calls
  <2>4. ASSUME NEW b \in Guards, guard'[b].stage = "unlatched", guard'[b].that # NoGuard
        PROVE  guard'[guard'[b].that].stage = "held" /\ Owner[guard'[b].that] = Owner[b]
    <3>1. b # g /\ guard'[b] = guard[b]
      BY <2>4, <1>4, <1>f
    <3>2. /\ guard[b].that \in Guards
          /\ guard[guard[b].that].stage = "held" /\ Owner[guard[b].that] = Owner[b]
      BY <2>4, <3>1, GuardFields DEF Calls
    <3>3. guard[b].that # g
      BY <3>2, <1>1
    <3> QED
      BY <3>1, <3>2, <3>3, <1>4
  <2> QED
    BY <2>1, <2>3, <2>4 DEF Calls
<1>6. ASSUME NEW x \in Frames, NEW kk \in {"read", "write"}
      PROVE  LatchHolders(x, kk)' = IF x = f /\ kk = k THEN LatchHolders(x, kk) \cup {g}
                                    ELSE LatchHolders(x, kk)
  <2>1. ASSUME NEW b \in Guards, b # g
        PROVE  (Latched(b, kk) /\ Frame(b) = x)' <=> Latched(b, kk) /\ Frame(b) = x
    BY <2>1, <1>4, <1>f DEF Latched
  <2>2. (Latched(g, kk) /\ Frame(g) = x)' <=> x = f /\ kk = k
    BY <1>4, <1>f DEF Latched
  <2>3. ~Latched(g, kk)
    BY <1>1 DEF Latched
  <2> QED
    BY <2>1, <2>2, <2>3 DEF LatchHolders
<1>7. g \notin LatchHolders(f, k)
  BY <1>1 DEF LatchHolders, Latched
<1>8. ASSUME NEW x \in Frames, NEW kk \in {"read", "write"}
      PROVE  /\ Cardinality(LatchHolders(x, kk)) \in Nat
             /\ Cardinality(LatchHolders(x, kk)')
                  = IF x = f /\ kk = k THEN Cardinality(LatchHolders(x, kk)) + 1
                    ELSE Cardinality(LatchHolders(x, kk))
  BY <1>6, <1>7, LatchHoldersFinite, FS_AddElement, FS_CardinalityType
<1>9. /\ r.writer = FALSE
      /\ k = "write" => r.readers = 0
      /\ r.readers \in Nat
  BY <1>2 DEF Latch, LatchType
<1>10. PICK s : s = Taken(r, k)
  OBVIOUS
<1>11. latch' = [latch EXCEPT ![f] = s]
  BY <1>10 DEF Latch
<1>12. /\ k = "write" => s.readers = 0 /\ s.writer = TRUE
       /\ k = "read" => s.readers = r.readers + 1 /\ s.writer = FALSE
       /\ s.writer \in BOOLEAN /\ s = [readers |-> s.readers, writer |-> s.writer]
  BY <1>1, <1>9, <1>10 DEF Taken
<1>13. ASSUME NEW x \in Frames
       PROVE  LatchAgrees(x)'
  <2>1. CASE x # f
    BY <2>1, <1>8, <1>11, LatchKept DEF GuardTypeOK
  <2>2. CASE x = f
    <3> SUFFICES LatchAgrees(f)'
      BY <2>2
    <3>1. latch'[f] = s
      BY <1>2, <1>11 DEF GuardTypeOK
    <3>2. LatchAgrees(f)
      BY <1>2
    <3>3. CASE k = "read"
      <4>1. s.readers = r.readers + 1 /\ s.writer = FALSE
        BY <3>3, <1>12
      <4>2. /\ Cardinality(LatchHolders(f, "read")') = Cardinality(LatchHolders(f, "read")) + 1
            /\ Cardinality(LatchHolders(f, "write")') = Cardinality(LatchHolders(f, "write"))
        BY <3>3, <1>2, <1>8
      <4> QED
        BY <3>1, <3>2, <4>1, <4>2, <1>9 DEF LatchAgrees
    <3>4. CASE k = "write"
      <4>1. s.readers = 0 /\ s.writer = TRUE
        BY <3>4, <1>12
      <4>2. /\ Cardinality(LatchHolders(f, "write")') = Cardinality(LatchHolders(f, "write")) + 1
            /\ Cardinality(LatchHolders(f, "read")') = Cardinality(LatchHolders(f, "read"))
        BY <3>4, <1>2, <1>8
      <4> QED
        BY <3>1, <3>2, <3>4, <4>1, <4>2, <1>9 DEF LatchAgrees
    <3> QED
      BY <1>1, <3>3, <3>4
  <2> QED
    BY <2>1, <2>2
<1>14. GuardTypeOK'
  <2>1. s.readers = Cardinality(LatchHolders(f, "read")')
    BY <1>2, <1>11, <1>13 DEF LatchAgrees, GuardTypeOK
  <2>2. Cardinality(LatchHolders(f, "read")') \in 0 .. Cardinality(Guards)
    <3>1. LatchHolders(f, "read")' \subseteq Guards
      BY DEF LatchHolders
    <3> QED
      BY <3>1, GuardsAssumption, FS_Subset, FS_CardinalityType
  <2>3. s \in LatchType
    BY <1>12, <2>1, <2>2 DEF LatchType
  <2> QED
    BY <1>2, <1>4, <1>11, <2>3 DEF GuardTypeOK
<1> QED
  BY <1>4, <1>5, <1>13, <1>14 DEF GuardsInv

\* RUnlatch and WUnlatch, the first half of Drop.
LEMMA UnlatchKeeps ==
    ASSUME GuardInv, NEW g \in Guards, ~Busy(Owner[g]),
           NEW that \in Guards \cup {NoGuard},
           that # NoGuard => that # g /\ Owner[that] = Owner[g] /\ Holding(that),
           Unlatch(g, that)
    PROVE  GuardsInv'
<1> USE DEF GuardInv
<1> PICK f : f = Frame(g)
  OBVIOUS
<1> PICK k : k = guard[g].kind
  OBVIOUS
<1> PICK new : new = WithStage(guard[g], "unlatched", that)
  OBVIOUS
<1> PICK r : r = latch[f]
  OBVIOUS
<1>1. Holding(g) /\ k \in {"basic", "read", "write"} /\ guard[g].stage = "held"
  BY GuardFields DEF Unlatch
<1>2. f \in Frames /\ r \in LatchType
  BY <1>1, HoldingPins DEF GuardTypeOK
<1>3. Advances(g, new)
  <2>1. guard' = [guard EXCEPT ![g] = new]
    <3>1. guard' = [guard EXCEPT ![g] = [guard[g] EXCEPT !.stage = "unlatched", !.that = that]]
      BY Zenon DEF Unlatch
    <3>2. [guard[g] EXCEPT !.stage = "unlatched"] = WithStage(guard[g], "unlatched", guard[g].that)
      BY GuardFields, StageChanged
    <3>3. [WithStage(guard[g], "unlatched", guard[g].that) EXCEPT !.that = that] = new
      BY DEF WithStage
    <3> QED
      BY <3>1, <3>2, <3>3
  <2>2. new \in GuardType /\ new.page = guard[g].page /\ new.stage = "unlatched"
    BY GuardFields DEF GuardType, Stages, WithStage
  <2> QED
    BY <2>1, <2>2 DEF Advances, Unlatch, vars
<1>f. new.stage = "unlatched" /\ new.kind = k /\ new.that = that
  BY DEF WithStage
<1>4. /\ guard'[g] = new /\ \A b \in Guards : b # g => guard'[b] = guard[b]
      /\ \A b \in Guards : Frame(b)' = Frame(b)
      /\ Owned'
      /\ latch' \in [Frames -> LatchType] => GuardTypeOK'
  BY <1>1, <1>3, AdvanceKeeps
<1>5. Calls'
  <2>0. \A b \in Guards : Owner[b] = Owner[g] => ~InCall(b)
    BY DEF Busy, InCall
  <2>1. \A b \in Guards : guard'[b].stage = "latching" => guard'[b].kind # "basic"
    BY <1>4, <1>f DEF Calls
  <2>2. \A b \in Guards : b # g => (InCall(b)' <=> InCall(b))
    BY <1>4 DEF InCall
  <2>3. \A b, c \in Guards : InCall(b)' /\ InCall(c)' /\ Owner[b] = Owner[c] => b = c
    BY <2>0, <2>2 DEF Calls
  <2>4. ASSUME NEW b \in Guards, guard'[b].stage = "unlatched", guard'[b].that # NoGuard
        PROVE  guard'[guard'[b].that].stage = "held" /\ Owner[guard'[b].that] = Owner[b]
    <3>1. CASE b = g
      <4>1. guard'[b].that = that /\ that # NoGuard
        BY <3>1, <2>4, <1>4, <1>f
      <4>2. that \in Guards /\ guard'[that] = guard[that] /\ guard[that].stage = "held"
        BY <4>1, <1>4, <2>0, GuardFields DEF InCall, Stages
      <4> QED
        BY <3>1, <4>1, <4>2
    <3>2. CASE b # g
      <4>1. guard'[b] = guard[b] /\ InCall(b)
        BY <3>2, <2>4, <1>4 DEF InCall
      <4>2. /\ guard[b].that \in Guards
            /\ guard[guard[b].that].stage = "held" /\ Owner[guard[b].that] = Owner[b]
        BY <2>4, <4>1, GuardFields DEF Calls
      <4>3. guard[b].that # g
        BY <4>1, <4>2, <2>0
      <4> QED
        BY <4>1, <4>2, <4>3, <1>4
    <3> QED
      BY <3>1, <3>2
  <2> QED
    BY <2>1, <2>3, <2>4 DEF Calls
<1>6. ASSUME NEW x \in Frames, NEW kk \in {"read", "write"}
      PROVE  LatchHolders(x, kk)' = IF x = f /\ kk = k THEN LatchHolders(x, kk) \ {g}
                                    ELSE LatchHolders(x, kk)
  <2>1. ASSUME NEW b \in Guards, b # g
        PROVE  (Latched(b, kk) /\ Frame(b) = x)' <=> Latched(b, kk) /\ Frame(b) = x
    BY <2>1, <1>4 DEF Latched
  <2>2. Latched(g, kk) /\ Frame(g) = x <=> x = f /\ kk = k
    BY <1>1 DEF Latched
  <2>3. ~Latched(g, kk)'
    BY <1>4, <1>f DEF Latched
  <2> QED
    BY <2>1, <2>2, <2>3 DEF LatchHolders
<1>7. g \in LatchHolders(f, k)
  BY <1>1 DEF LatchHolders, Latched
<1>8. ASSUME NEW x \in Frames, NEW kk \in {"read", "write"}
      PROVE  /\ Cardinality(LatchHolders(x, kk)) \in Nat
             /\ Cardinality(LatchHolders(x, kk)')
                  = IF x = f /\ kk = k THEN Cardinality(LatchHolders(x, kk)) - 1
                    ELSE Cardinality(LatchHolders(x, kk))
  BY <1>6, <1>7, LatchHoldersFinite, FS_RemoveElement, FS_CardinalityType
<1>9. /\ r.readers \in Int
      /\ r.writer \in BOOLEAN
      /\ r = [readers |-> r.readers, writer |-> r.writer]
  <2>1. r.readers \in 0 .. Cardinality(Guards)
    BY <1>2 DEF LatchType
  <2>2. Cardinality(Guards) \in Nat
    BY GuardsAssumption, FS_CardinalityType
  <2> QED
    BY <1>2, <2>1, <2>2 DEF LatchType
<1>10. PICK s : s = Released(r, k)
  OBVIOUS
<1>11. latch' = [latch EXCEPT ![f] = s]
  BY <1>10 DEF Unlatch
<1>12. /\ k = "basic" => s = r
       /\ k = "read" => s = [readers |-> r.readers - 1, writer |-> r.writer]
       /\ k = "write" => s = [readers |-> r.readers, writer |-> FALSE]
  BY <1>1, <1>10 DEF Released
<1>13. ASSUME NEW x \in Frames
       PROVE  LatchAgrees(x)'
  <2>1. CASE x # f
    BY <2>1, <1>8, <1>11, LatchKept DEF GuardTypeOK
  <2>2. CASE x = f
    <3> SUFFICES LatchAgrees(f)'
      BY <2>2
    <3>1. latch'[f] = s
      BY <1>2, <1>11 DEF GuardTypeOK
    <3>2. LatchAgrees(f)
      BY <1>2
    <3>3. CASE k = "basic"
      BY <3>1, <3>2, <3>3, <1>2, <1>8, <1>12, LatchKept
    <3>4. CASE k = "read"
      <4>1. s.readers = r.readers - 1 /\ s.writer = r.writer
        BY <3>4, <1>12
      <4>2. /\ Cardinality(LatchHolders(f, "read")') = Cardinality(LatchHolders(f, "read")) - 1
            /\ Cardinality(LatchHolders(f, "write")') = Cardinality(LatchHolders(f, "write"))
        BY <3>4, <1>2, <1>8
      <4>3. Cardinality(LatchHolders(f, "read")) # 0
        BY <3>4, <1>7, LatchHoldersFinite, FS_EmptySet
      <4> QED
        BY <3>1, <3>2, <4>1, <4>2, <4>3, <1>9 DEF LatchAgrees
    <3>5. CASE k = "write"
      <4>1. s.readers = r.readers /\ s.writer = FALSE
        BY <3>5, <1>12
      <4>2. /\ Cardinality(LatchHolders(f, "write")') = Cardinality(LatchHolders(f, "write")) - 1
            /\ Cardinality(LatchHolders(f, "read")') = Cardinality(LatchHolders(f, "read"))
        BY <3>5, <1>2, <1>8
      <4>3. Cardinality(LatchHolders(f, "write")) # 0
        BY <3>5, <1>7, LatchHoldersFinite, FS_EmptySet
      <4> QED
        BY <3>1, <3>2, <4>1, <4>2, <4>3, <1>9 DEF LatchAgrees
    <3> QED
      BY <1>1, <3>3, <3>4, <3>5
  <2> QED
    BY <2>1, <2>2
<1>14. GuardTypeOK'
  <2>1. s.readers = Cardinality(LatchHolders(f, "read")')
    BY <1>2, <1>11, <1>13 DEF LatchAgrees, GuardTypeOK
  <2>2. Cardinality(LatchHolders(f, "read")') \in 0 .. Cardinality(Guards)
    <3>1. LatchHolders(f, "read")' \subseteq Guards
      BY DEF LatchHolders
    <3> QED
      BY <3>1, GuardsAssumption, FS_Subset, FS_CardinalityType
  <2>3. s.writer \in BOOLEAN /\ s = [readers |-> s.readers, writer |-> s.writer]
    <3>1. CASE k = "basic"
      BY <3>1, <1>9, <1>12
    <3>2. CASE k = "read"
      BY <3>2, <1>9, <1>12
    <3>3. CASE k = "write"
      <4>1. s = [readers |-> r.readers, writer |-> FALSE]
        BY <3>3, <1>12
      <4> QED
        BY ONLY <4>1
    <3> QED
      BY <1>1, <3>1, <3>2, <3>3
  <2>4. s \in LatchType
    BY <2>1, <2>2, <2>3 DEF LatchType
  <2> QED
    BY <1>2, <1>4, <1>11, <2>4 DEF GuardTypeOK
<1> QED
  BY <1>4, <1>5, <1>13, <1>14 DEF GuardsInv

\* A guard that holds no latch lets go of its page, or takes over the page of
\* `from', which keeps nothing.  No other pin changes.
Lets(to, from) ==
    /\ guard[to].stage \in {"empty", "unlatched"}
    /\ \A b \in Guards : InCall(b) /\ Owner[b] = Owner[to] => b = to
    /\ \A b \in Guards : b # to /\ Holding(b) => pin'[guard[b].page] = pin[guard[b].page]
    /\ \A h \in Handles : pin'[h] # NoPin => pin[h] # NoPin /\ guard[to].page # h
    /\ latch' = latch /\ acquires' = acquires
    /\ \/ from = NoGuard /\ guard' = [guard EXCEPT ![to] = Empty]
       \/ /\ from \in Guards /\ from # to
          /\ guard[from].stage = "held" /\ Owner[from] = Owner[to]
          /\ guard' = Moved(to, from)

\* The destructor, the move constructor and the move assignment.
LEMMA LetsKeeps ==
    ASSUME GuardInv, NEW to \in Guards, NEW from, Lets(to, from)
    PROVE  GuardsInv'
<1> USE DEF GuardInv
<1>1. /\ from # NoGuard => /\ from \in Guards /\ from # to /\ guard[from].stage = "held"
                           /\ Owner[from] = Owner[to] /\ Holding(from)
      /\ guard[to].stage \in {"empty", "unlatched"}
  BY GuardFields DEF Lets
<1>2. /\ guard' \in [Guards -> GuardType]
      /\ guard'[to] = IF from = NoGuard THEN Empty ELSE guard[from]
      /\ from # NoGuard => guard'[from] = Empty
      /\ \A b \in Guards : b # to /\ b # from => guard'[b] = guard[b]
  <2>1. CASE from = NoGuard
    BY <2>1, EmptyFields, GuardNamesAssumption DEF Lets, GuardTypeOK
  <2>2. CASE from # NoGuard
    <3>1. guard' = [[guard EXCEPT ![to] = guard[from]] EXCEPT ![from] = Empty]
      BY <2>2 DEF Lets, Moved
    <3>2. PICK mid : mid = [guard EXCEPT ![to] = guard[from]]
      OBVIOUS
    <3>3. /\ mid \in [Guards -> GuardType] /\ mid[to] = guard[from]
          /\ \A b \in Guards : b # to => mid[b] = guard[b]
      BY <3>2, <2>2, <1>1, GuardFields DEF GuardTypeOK
    <3>4. guard' = [mid EXCEPT ![from] = Empty]
      BY <3>1, <3>2
    <3>5. /\ guard' \in [Guards -> GuardType] /\ guard'[from] = Empty
          /\ \A b \in Guards : b # from => guard'[b] = mid[b]
      BY <3>3, <3>4, <2>2, <1>1, EmptyFields
    <3> QED
      BY <3>3, <3>5, <2>2, <1>1
  <2> QED
    BY <2>1, <2>2
<1>3. GuardTypeOK'
  <2>1. \A b \in Guards : (guard[b].stage = "empty" <=> ~Holding(b))'
    <3> TAKE b \in Guards
    <3>1. guard'[b] = Empty \/ \E c \in Guards : guard'[b] = guard[c]
      <4>1. CASE from = NoGuard
        BY <4>1, <1>2, GuardNamesAssumption
      <4>2. CASE from # NoGuard
        BY <4>2, <1>1, <1>2
      <4> QED
        BY <4>1, <4>2
    <3> QED
      BY <3>1, EmptyFields, GuardFields DEF Holding
  <2> QED
    BY <1>2, <2>1 DEF GuardTypeOK, Lets
<1>4. \* Every guard that holds a page afterwards held it before, perhaps as `from'.
      ASSUME NEW b \in Guards
      PROVE  /\ Holding(b)' => /\ b # from /\ (b = to => from # NoGuard)
                               /\ pin'[guard'[b].page] = pin[guard'[b].page]
                               /\ pin'[guard'[b].page] # NoPin
             /\ guard'[b].stage # "empty" => Holding(b)'
  <2>0. guard'[b].stage # "empty" => Holding(b)'
    BY <1>3 DEF GuardTypeOK
  <2>1. CASE b = to
    <3>1. CASE from = NoGuard
      BY <2>0, <2>1, <3>1, <1>2, EmptyFields DEF Holding
    <3>2. CASE from # NoGuard
      <4>1. /\ guard'[b] = guard[from]
            /\ pin'[guard[from].page] = pin[guard[from].page] /\ pin[guard[from].page] # NoPin
        BY <2>1, <3>2, <1>1, <1>2 DEF Lets, Owned
      <4> QED
        BY <2>0, <2>1, <3>2, <4>1, <1>1
    <3> QED
      BY <3>1, <3>2
  <2>2. CASE b # to /\ b = from
    <3>1. from # NoGuard
      BY <2>2, GuardNamesAssumption
    <3> QED
      BY <2>0, <2>2, <3>1, <1>2, EmptyFields DEF Holding
  <2>3. CASE b # to /\ b # from
    BY <2>0, <2>3, <1>2 DEF Lets, Owned, Holding
  <2> QED
    BY <2>1, <2>2, <2>3
<1>5. Owned'
  <2>1. \A b \in Guards : Holding(b)' => pin'[guard'[b].page] # NoPin
    BY <1>4
  <2>2. ASSUME NEW b \in Guards, NEW c \in Guards, Holding(b)', guard'[b].page = guard'[c].page
        PROVE  b = c
    <3>1. Holding(c)'
      BY <2>2 DEF Holding
    <3>2. /\ guard'[b] = guard[IF b = to THEN from ELSE b]
          /\ guard'[c] = guard[IF c = to THEN from ELSE c]
          /\ (IF b = to THEN from ELSE b) \in Guards /\ (IF c = to THEN from ELSE c) \in Guards
          /\ b # from /\ c # from
      BY <2>2, <3>1, <1>1, <1>2, <1>4
    <3>3. (IF b = to THEN from ELSE b) = (IF c = to THEN from ELSE c)
      BY <2>2, <3>2 DEF Owned, Holding
    <3> QED
      BY <3>2, <3>3
  <2>3. ASSUME NEW h \in Handles, pin'[h] # NoPin
        PROVE  \E b \in Guards : guard'[b].page = h
    <3>1. pin[h] # NoPin /\ guard[to].page # h
      BY <2>3 DEF Lets
    <3>2. PICK b \in Guards : guard[b].page = h
      BY <3>1 DEF Owned
    <3>3. CASE b = from
      <4>1. from # NoGuard
        BY <3>3, GuardNamesAssumption
      <4> QED
        BY <3>2, <3>3, <4>1, <1>2
    <3>4. CASE b # from
      BY <3>1, <3>2, <3>4, <1>2
    <3> QED
      BY <3>3, <3>4
  <2> QED
    BY <2>1, <2>2, <2>3 DEF Owned, Holding, NoPin, INVALID_PAGE_ID, NoFrame
<1>6. Calls'
  <2>1. ASSUME NEW b \in Guards, InCall(b)'
        PROVE  b # to /\ b # from /\ guard'[b] = guard[b] /\ InCall(b)
    <3>1. b # to
      BY <2>1, <1>1, <1>2, EmptyFields DEF InCall
    <3>2. b # from
      <4> SUFFICES ASSUME b = from PROVE FALSE
        OBVIOUS
      <4>1. guard'[b] = Empty
        BY <1>2, GuardNamesAssumption
      <4> QED
        BY <2>1, <4>1, EmptyFields DEF InCall
    <3> QED
      BY <2>1, <3>1, <3>2, <1>2 DEF InCall
  <2>2. \A b \in Guards : guard'[b].stage = "latching" => guard'[b].kind # "basic"
    BY <2>1 DEF Calls, InCall
  <2>3. \A b, c \in Guards : InCall(b)' /\ InCall(c)' /\ Owner[b] = Owner[c] => b = c
    BY <2>1 DEF Calls
  <2>4. ASSUME NEW b \in Guards, guard'[b].stage = "unlatched", guard'[b].that # NoGuard
        PROVE  guard'[guard'[b].that].stage = "held" /\ Owner[guard'[b].that] = Owner[b]
    <3>1. b # to /\ guard'[b] = guard[b] /\ InCall(b)
      BY <2>1, <2>4 DEF InCall
    <3>2. /\ guard[b].that \in Guards
          /\ guard[guard[b].that].stage = "held" /\ Owner[guard[b].that] = Owner[b]
      BY <2>4, <3>1, GuardFields DEF Calls
    <3>3. Owner[b] # Owner[to]
      BY <3>1 DEF Lets
    <3>4. guard[b].that # to /\ guard[b].that # from
      BY <3>2, <3>3, <1>1, GuardNamesAssumption
    <3> QED
      BY <3>1, <3>2, <3>4, <1>2
  <2> QED
    BY <2>2, <2>3, <2>4 DEF Calls
<1>7. ASSUME NEW f \in Frames
      PROVE  LatchAgrees(f)'
  <2>1. ASSUME NEW k \in {"read", "write"}
        PROVE  Cardinality(LatchHolders(f, k)') = Cardinality(LatchHolders(f, k))
    <3>1. to \notin LatchHolders(f, k)
      BY <1>1 DEF LatchHolders, Latched
    <3>2. ASSUME NEW b \in Guards, b # to
          PROVE  b \in LatchHolders(f, k)' <=> b \in LatchHolders(f, k) /\ b # from
      <4>1. CASE b = from
        <5>1. guard'[b] = Empty
          BY <4>1, <1>2, GuardNamesAssumption
        <5> QED
          BY <4>1, <5>1, EmptyFields DEF LatchHolders, Latched
      <4>2. CASE b # from
        <5>1. guard'[b] = guard[b]
          BY <3>2, <4>2, <1>2
        <5>2. Holding(b) => pin'[guard[b].page] = pin[guard[b].page]
          BY <3>2 DEF Lets
        <5>3. guard[b].stage = "held" => Holding(b)
          BY GuardFields
        <5> QED
          BY <4>2, <5>1, <5>2, <5>3 DEF LatchHolders, Latched, Frame
      <4> QED
        BY <4>1, <4>2
    <3>3. to \in LatchHolders(f, k)' <=> from \in LatchHolders(f, k)
      <4>1. CASE from = NoGuard
        BY <4>1, <1>2, EmptyFields, GuardNamesAssumption DEF LatchHolders, Latched
      <4>2. CASE from # NoGuard
        <5>1. /\ guard'[to] = guard[from] /\ from \in Guards
              /\ pin'[guard[from].page] = pin[guard[from].page]
          BY <4>2, <1>1, <1>2 DEF Lets
        <5> QED
          BY <5>1 DEF LatchHolders, Latched, Frame
      <4> QED
        BY <4>1, <4>2
    <3>4. LatchHolders(f, k)' \subseteq Guards /\ LatchHolders(f, k) \subseteq Guards
      BY DEF LatchHolders
    <3>5. LatchHolders(f, k)' = IF from \in LatchHolders(f, k)
                                THEN (LatchHolders(f, k) \ {from}) \cup {to}
                                ELSE LatchHolders(f, k)
      BY <3>1, <3>2, <3>3, <3>4
    <3> QED
      BY <3>1, <3>5, LatchHoldersFinite, Exchanged
  <2> QED
    BY <2>1, LatchKept DEF Lets
<1> QED
  BY <1>3, <1>5, <1>6, <1>7 DEF GuardsInv

\* The move constructor and the second half of Drop.
LEMMA MoveToEmptyKeeps ==
    ASSUME GuardInv, NEW to \in Guards, NEW from \in Guards, MoveToEmpty(to, from)
    PROVE  GuardsInv'
<1> USE DEF GuardInv
<1>1. guard[to].stage = "empty" /\ guard[from].stage # "empty" /\ to # from
  BY GuardFields DEF MoveToEmpty
<1>2. \A b \in Guards : Owner[b] = Owner[to] => ~InCall(b)
  BY DEF MoveToEmpty, Busy, InCall
<1>3. guard[from].stage = "held" /\ Owner[from] = Owner[to]
  BY <1>1, <1>2, GuardFields DEF MoveToEmpty, InCall, Stages
<1>4. pin' = pin /\ latch' = latch /\ acquires' = acquires /\ guard' = Moved(to, from)
  BY DEF MoveToEmpty, vars
<1>5. \A h \in Handles : guard[to].page # h
  BY <1>1, GuardFields, GuardNamesAssumption DEF Holding
<1>6. Lets(to, from)
  BY <1>1, <1>2, <1>3, <1>4, <1>5 DEF Lets, NoPin, NoFrame, INVALID_PAGE_ID
<1> QED
  BY <1>6, LetsKeeps

\* The end of Drop, with what a move assignment then takes over.
LEMMA UnpinKeeps ==
    ASSUME GuardInv, NEW g \in Guards, Unpin(g)
    PROVE  GuardsInv'
<1> USE DEF GuardInv
<1> PICK from : from = guard[g].that
  OBVIOUS
<1> PICK x : x = guard[g].page
  OBVIOUS
<1>1. guard[g].stage = "unlatched" /\ Holding(g) /\ x \in Handles
  BY GuardFields DEF Unpin
<1>2. pin' = [pin EXCEPT ![x] = NoPin] /\ latch' = latch /\ acquires' = acquires
  BY DEF Unpin, UnpinPage
<1>3. /\ pin'[x] = NoPin
      /\ \A h \in Handles : h # x => pin'[h] = pin[h]
  BY <1>1, <1>2 DEF Bookkeeping, TypeOK
<1>4. \A h \in Handles : pin'[h] # NoPin => pin[h] # NoPin /\ guard[g].page # h
  BY <1>3
<1>5. \A b \in Guards : b # g /\ Holding(b) => pin'[guard[b].page] = pin[guard[b].page]
  BY <1>1, <1>3, GuardFields DEF Owned
<1>6. \A b \in Guards : InCall(b) /\ Owner[b] = Owner[g] => b = g
  BY <1>1 DEF Calls, InCall
<1>7. \/ from = NoGuard /\ guard' = [guard EXCEPT ![g] = Empty]
      \/ /\ from \in Guards /\ from # g
         /\ guard[from].stage = "held" /\ Owner[from] = Owner[g]
         /\ guard' = Moved(g, from)
  <2>1. CASE from = NoGuard
    BY <2>1 DEF Unpin
  <2>2. CASE from # NoGuard
    BY <2>2, <1>1, GuardFields DEF Unpin, Calls
  <2> QED
    BY <2>1, <2>2
<1>8. Lets(g, from)
  BY <1>1, <1>2, <1>4, <1>5, <1>6, <1>7 DEF Lets
<1> QED
  BY <1>8, LetsKeeps

\* GetDataMut marks the guard and the pin, and moves neither.
LEMMA GetDataMutEffect ==
    ASSUME GuardInv, NEW g \in Guards, NEW v \in Data, GetDataMut(g, v)
    PROVE  /\ Holding(g)
           /\ \A b \in Guards : /\ b # g => guard'[b] = guard[b]
                                /\ guard'[b].page = guard[b].page
                                /\ guard'[b].kind = guard[b].kind
                                /\ guard'[b].stage = guard[b].stage
                                /\ guard'[b].that = guard[b].that
           /\ guard' \in [Guards -> GuardType]
           /\ guard[g].kind = "basic" => guard'[g].is_dirty = TRUE
           /\ \A h \in Handles : /\ pin'[h].frame = pin[h].frame
                                 /\ pin'[h] = NoPin <=> pin[h] = NoPin
                                 /\ h # guard[g].page => pin'[h] = pin[h]
<1> USE DEF GuardInv
<1> PICK x : x = guard[g].page
  OBVIOUS
<1>1. Holding(g) /\ x \in Handles /\ pin[x] # NoPin
  BY GuardFields DEF GetDataMut, Owned
<1>2. PICK d \in BOOLEAN : d = (guard[g].is_dirty \/ guard[g].kind = "basic")
  BY GuardFields
<1>3. guard' = [guard EXCEPT ![g] = [guard[g] EXCEPT !.is_dirty = d]]
  BY <1>2 DEF GetDataMut
<1>4. PICK new : new = [guard[g] EXCEPT !.is_dirty = d]
  OBVIOUS
<1>5. /\ new \in GuardType /\ new.is_dirty = d
      /\ new.page = guard[g].page /\ new.kind = guard[g].kind
      /\ new.stage = guard[g].stage /\ new.that = guard[g].that
  BY <1>4, GuardFields DEF GuardType
<1>6. guard' = [guard EXCEPT ![g] = new]
  BY <1>3, <1>4
<1>7. pin' = [pin EXCEPT ![x] = [pin[x] EXCEPT !.wrote = TRUE]]
  BY DEF GetDataMut, Write
<1>8. PICK p : p = [pin[x] EXCEPT !.wrote = TRUE]
  OBVIOUS
<1>9. p.frame = pin[x].frame /\ p # NoPin
  BY <1>1, <1>8 DEF Bookkeeping, TypeOK, HandleType, NoPin
<1>10. pin' = [pin EXCEPT ![x] = p]
  BY <1>7, <1>8
<1>11. pin'[x] = p /\ \A h \in Handles : h # x => pin'[h] = pin[h]
  BY <1>1, <1>10 DEF Bookkeeping, TypeOK
<1>12. guard'[g] = new /\ \A b \in Guards : b # g => guard'[b] = guard[b]
  BY <1>6 DEF GuardTypeOK
<1>13. guard' \in [Guards -> GuardType]
  BY <1>5, <1>6 DEF GuardTypeOK
<1>14. guard[g].kind = "basic" => guard'[g].is_dirty = TRUE
  BY <1>2, <1>5, <1>12
<1> QED
  BY <1>1, <1>5, <1>9, <1>11, <1>12, <1>13, <1>14

\* A step that moves no guard and no pin.
Still ==
    /\ guard' \in [Guards -> GuardType]
    /\ \A b \in Guards : /\ guard'[b].page = guard[b].page
                         /\ guard'[b].kind = guard[b].kind
                         /\ guard'[b].stage = guard[b].stage
                         /\ guard'[b].that = guard[b].that
    /\ \A h \in Handles : /\ pin'[h].frame = pin[h].frame
                          /\ pin'[h] = NoPin <=> pin[h] = NoPin
    /\ latch' = latch /\ acquires' = acquires

\* Such a step keeps what is known of the guards.
LEMMA StillKeeps ==
    ASSUME GuardInv, Still
    PROVE  GuardsInv'
<1> USE DEF GuardInv
<1>1. \A b \in Guards : Holding(b)' <=> Holding(b)
  BY DEF Still, Holding
<1>2. GuardTypeOK'
  BY <1>1 DEF GuardTypeOK, Still
<1>3. Owned'
  <2>1. \A b \in Guards : Holding(b) => guard[b].page \in Handles
    BY GuardFields
  <2> QED
    BY <1>1, <2>1 DEF Owned, Still, NoPin, INVALID_PAGE_ID, NoFrame
<1>4. Calls'
  <2>1. \A b \in Guards : InCall(b)' <=> InCall(b)
    BY DEF InCall, Still
  <2>2. \A b \in Guards : guard[b].that # NoGuard => guard[b].that \in Guards
    BY GuardFields
  <2> QED
    BY <2>1, <2>2 DEF Calls, Still
<1>5. ASSUME NEW f \in Frames
      PROVE  LatchAgrees(f)'
  <2>1. ASSUME NEW k, NEW b \in Guards
        PROVE  (Latched(b, k) /\ Frame(b) = f)' <=> Latched(b, k) /\ Frame(b) = f
    <3>1. Latched(b, k)' <=> Latched(b, k)
      BY DEF Latched, Still
    <3>2. Latched(b, k) => guard[b].page \in Handles
      BY GuardFields DEF Latched
    <3> QED
      BY <3>1, <3>2 DEF Frame, Still
  <2>2. \A k : LatchHolders(f, k)' = LatchHolders(f, k)
    BY <2>1 DEF LatchHolders
  <2>3. LatchAgrees(f) /\ latch'[f] = latch[f]
    BY DEF Still
  <2> QED
    BY <2>2, <2>3, LatchKept
<1> QED
  BY <1>2, <1>3, <1>4, <1>5 DEF GuardsInv

\* The inductive step, one action after the other.
LEMMA GuardNextKeeps == GuardInv /\ [GuardNext]_guard_vars => GuardInv'
<1> SUFFICES ASSUME GuardInv, [GuardNext]_guard_vars PROVE GuardInv'
  OBVIOUS
<1>1. Bookkeeping'
  BY GuardStepsAreSteps, NextBookkeeping DEF GuardInv
<1>2. ASSUME NEW g \in Guards, NEW k \in Kinds, ConstructNew(g, k)
      PROVE  GuardsInv'
  <2>1. PICK h \in Handles : h = FreeHandle
    BY <1>2, FreeHandleExists DEF ConstructNew
  <2>2. PICK new \in HandleType : NewPin(h, new)
    BY <1>2, <2>1, PoolPins DEF ConstructNew, GuardInv
  <2> QED
    BY <1>2, <2>1, <2>2, ConstructKeeps DEF ConstructNew
<1>3. ASSUME NEW g \in Guards, NEW k \in Kinds, NEW p \in PageIds, ConstructFetched(g, k, p)
      PROVE  GuardsInv'
  <2>1. PICK h \in Handles : h = FreeHandle
    BY <1>3, FreeHandleExists DEF ConstructFetched
  <2>2. PICK new \in HandleType : NewPin(h, new)
    BY <1>3, <2>1, PoolPins DEF ConstructFetched, GuardInv
  <2> QED
    BY <1>3, <2>1, <2>2, ConstructKeeps DEF ConstructFetched
<1>4. ASSUME NEW g \in Guards, Latch(g) \/ Unpin(g)
      PROVE  GuardsInv'
  BY <1>4, LatchKeeps, UnpinKeeps
<1>5. ASSUME NEW g \in Guards, Drop(g)
      PROVE  GuardsInv'
  <2>1. ~Busy(Owner[g]) /\ Unlatch(g, NoGuard)
    BY <1>5 DEF Drop
  <2> QED
    BY <2>1, UnlatchKeeps
<1>6. ASSUME NEW g \in Guards, NEW v \in Data, GetDataMut(g, v)
      PROVE  GuardsInv'
  <2>1. latch' = latch /\ acquires' = acquires
    BY <1>6 DEF GetDataMut
  <2>2. Still
    BY <1>6, <2>1, GetDataMutEffect DEF Still
  <2> QED
    BY <2>2, StillKeeps
<1>7. ASSUME NEW to \in Guards, NEW from \in Guards, MoveToEmpty(to, from)
      PROVE  GuardsInv'
  BY <1>7, MoveToEmptyKeeps
<1>8. ASSUME NEW to \in Guards, NEW from \in Guards, MoveAssign(to, from)
      PROVE  GuardsInv'
  <2>1. /\ ~Busy(Owner[to]) /\ Unlatch(to, from)
        /\ from # to /\ Owner[from] = Owner[to] /\ Holding(from)
    BY <1>8 DEF MoveAssign
  <2> QED
    BY <2>1, UnlatchKeeps
<1>9. ASSUME UNCHANGED <<pin, guard, latch, acquires>>
      PROVE  GuardsInv'
  <2>1. Still
    BY <1>9 DEF Still, GuardInv, GuardTypeOK, NoPin, NoFrame, INVALID_PAGE_ID
  <2> QED
    BY <2>1, StillKeeps
<1>10. ASSUME NEW p \in Unguarded, PoolOnly(p)
       PROVE  GuardsInv'
  BY <1>9, <1>10 DEF PoolOnly, FlushPage, DeletePage, DeleteAbsent, DeleteResident
<1>11. GuardsInv'
  BY <1>2, <1>3, <1>4, <1>5, <1>6, <1>7, <1>8, <1>9, <1>10 DEF GuardNext, guard_vars, vars
<1> QED
  BY <1>1, <1>11 DEF GuardInv, GuardsInv

\* No guard, no pin, no latch.
LEMMA GuardInitInv == GuardInit => GuardInv
<1> SUFFICES ASSUME GuardInit PROVE GuardInv
  OBVIOUS
<1>1. Bookkeeping
  BY InitBookkeeping DEF GuardInit
<1>2. \A g \in Guards : guard[g] = Empty
  BY DEF GuardInit
<1>3. Cardinality(Guards) \in Nat
  BY GuardsAssumption, FS_CardinalityType
<1>4. GuardTypeOK
  <2>1. guard \in [Guards -> GuardType]
    BY EmptyFields DEF GuardInit
  <2>2. latch \in [Frames -> LatchType]
    BY <1>3 DEF GuardInit, LatchType
  <2>3. acquires \in [Threads -> Nat] /\ \A t \in Threads : acquires[t] <= MaxAcquires[t]
    BY MaxAcquiresAssumption DEF GuardInit
  <2> QED
    BY <1>2, <2>1, <2>2, <2>3, EmptyFields DEF GuardTypeOK, Holding
<1>5. Owned
  BY <1>2, EmptyFields DEF Owned, Holding, GuardInit, Init
<1>6. Calls
  BY <1>2, EmptyFields DEF Calls, InCall
<1>7. \A f \in Frames : LatchAgrees(f)
  <2>1. \A f, k : LatchHolders(f, k) = {}
    BY <1>2, EmptyFields DEF LatchHolders, Latched
  <2> QED
    BY <2>1, FS_EmptySet DEF LatchAgrees, GuardInit
<1> QED
  BY <1>1, <1>4, <1>5, <1>6, <1>7 DEF GuardInv

-----------------------------------------------------------------------------
(* Whatever the threads do with their guards, each pin has its guard and   *)
(* each latch its holders, on a pool whose bookkeeping is right.           *)
THEOREM GuardInvariant == GuardSpec => []GuardInv
  BY GuardInitInv, GuardNextKeeps, PTL DEF GuardSpec

(* Guards, latches and counters keep their types.                          *)
THEOREM GuardTypes == GuardSpec => []GuardTypeOK
<1>1. GuardInv => GuardTypeOK
  BY DEF GuardInv
<1> QED
  BY <1>1, GuardInvariant, PTL

(* No interleaving of constructors, moves and drops leaks a pin or gives   *)
(* one back twice.                                                         *)
THEOREM PinsReleasedOnce == GuardSpec => []PinsHaveOneGuard
<1>1. ASSUME GuardInv
      PROVE  PinsHaveOneGuard
  <2> SUFFICES ASSUME NEW h \in Handles
               PROVE  Cardinality({g \in Guards : guard[g].page = h})
                        = IF pin[h] = NoPin THEN 0 ELSE 1
    BY DEF PinsHaveOneGuard
  <2>0. \A g \in Guards : guard[g].page = h => Holding(g)
    BY GuardNamesAssumption DEF Holding
  <2>1. CASE pin[h] = NoPin
    <3>1. {g \in Guards : guard[g].page = h} = {}
      BY <1>1, <2>0, <2>1 DEF GuardInv, Owned
    <3> QED
      BY <2>1, <3>1, FS_EmptySet
  <2>2. CASE pin[h] # NoPin
    <3>1. PICK g \in Guards : guard[g].page = h
      BY <1>1, <2>2 DEF GuardInv, Owned
    <3>2. {b \in Guards : guard[b].page = h} = {g}
      BY <1>1, <2>0, <3>1 DEF GuardInv, Owned
    <3> QED
      BY <2>2, <3>2, FS_Singleton
  <2> QED
    BY <2>1, <2>2
<1> QED
  BY <1>1, GuardInvariant, PTL

(* A latch is held by exactly the guards that will release it, by one      *)
(* writer or any readers, and by nobody when the frame may be evicted.     *)
THEOREM LatchesReleasedInTime == GuardSpec => []LatchesHaveGuards
<1>1. ASSUME GuardInv
      PROVE  LatchesHaveGuards
  <2> SUFFICES ASSUME NEW f \in Frames
               PROVE  /\ LatchAgrees(f)
                      /\ pages[f].pin_count = 0 => ~latch[f].writer /\ latch[f].readers = 0
    BY DEF LatchesHaveGuards, LatchAgrees
  <2>1. LatchAgrees(f)
    BY <1>1 DEF GuardInv
  <2>2. ASSUME pages[f].pin_count = 0, NEW k
        PROVE  Cardinality(LatchHolders(f, k)) = 0
    <3>1. ASSUME NEW g \in LatchHolders(f, k)
          PROVE  FALSE
      <4>1. g \in Guards /\ Frame(g) = f /\ guard[g].stage = "held"
        BY DEF LatchHolders, Latched
      <4>2. Holding(g)
        BY <1>1, <4>1, GuardFields DEF GuardInv
      <4>3. pages[f].pin_count > 0
        BY <1>1, <4>1, <4>2, HoldingPins
      <4> QED
        BY <2>2, <4>3
    <3>2. LatchHolders(f, k) = {}
      BY <3>1
    <3> QED
      BY <3>2, FS_EmptySet
  <2> QED
    BY <2>1, <2>2 DEF LatchAgrees
<1> QED
  BY <1>1, GuardInvariant, PTL

(* A guard through which a page was changed reports it, wherever it was    *)
(* moved, if clients do not count a page they have only created as changed.*)
THEOREM ChangesAreReported ==
    ASSUME ~DirtyNewPages
    PROVE  GuardSpec => []ChangesReported
<1>1. GuardInit => ChangesReported
  BY EmptyFields DEF GuardInit, ChangesReported, Holding
<1>2. GuardInv /\ ChangesReported /\ [GuardNext]_guard_vars => ChangesReported'
  <2> SUFFICES ASSUME GuardInv, ChangesReported, [GuardNext]_guard_vars
               PROVE  ChangesReported'
    OBVIOUS
  <2> USE DEF GuardInv
  <2>0. ASSUME NEW g \in Guards, Holding(g)
        PROVE  guard[g].page \in Handles
    BY <2>0, GuardFields
  <2>1. ASSUME NEW g \in Guards, NEW k \in Kinds, NEW h \in Handles, MayConstruct(g),
               Constructed(g, k, h),
               NEW new \in HandleType, NewPin(h, new), new.wrote = FALSE
        PROVE  ChangesReported'
    <3>1. /\ \A b \in Guards : b # g => guard'[b] = guard[b]
          /\ guard'[g].page = h
      BY <2>1 DEF Constructed, GuardTypeOK
    <3>2. pin'[h] = new /\ \A x \in Handles : x # h => pin'[x] = pin[x]
      BY <2>1 DEF NewPin, Bookkeeping, TypeOK
    <3>3. \A b \in Guards : Holding(b) => guard[b].page # h
      BY <2>1 DEF Owned, NewPin
    <3>4. ASSUME NEW b \in Guards, b # g, Holding(b)', pin'[guard'[b].page].wrote
          PROVE  DropDirty(b)'
      <4>1. guard'[b] = guard[b] /\ Holding(b)
        BY <3>1, <3>4 DEF Holding
      <4>2. pin[guard[b].page].wrote
        BY <2>0, <3>2, <3>3, <3>4, <4>1
      <4> QED
        BY <4>1, <4>2 DEF ChangesReported, DropDirty
    <3>5. pin'[guard'[g].page].wrote = FALSE
      BY <2>1, <3>1, <3>2
    <3> QED
      BY <3>4, <3>5 DEF ChangesReported
  <2>2. ASSUME NEW g \in Guards, NEW k \in Kinds, ConstructNew(g, k)
        PROVE  ChangesReported'
    <3>1. PICK h \in Handles : h = FreeHandle
      BY <2>2, FreeHandleExists DEF ConstructNew
    <3>2. PICK new \in HandleType : NewPin(h, new) /\ new.wrote = DirtyNewPages
      BY <2>2, <3>1, PoolPins DEF ConstructNew
    <3>3. DirtyNewPages = FALSE
      BY SwitchAssumption
    <3> QED
      BY <2>1, <2>2, <3>1, <3>2, <3>3 DEF ConstructNew
  <2>3. ASSUME NEW g \in Guards, NEW k \in Kinds, NEW p \in PageIds, ConstructFetched(g, k, p)
        PROVE  ChangesReported'
    <3>1. PICK h \in Handles : h = FreeHandle
      BY <2>3, FreeHandleExists DEF ConstructFetched
    <3>2. PICK new \in HandleType : NewPin(h, new) /\ new.wrote = FALSE
      BY <2>3, <3>1, PoolPins DEF ConstructFetched
    <3> QED
      BY <2>1, <2>3, <3>1, <3>2 DEF ConstructFetched
  <2>4. ASSUME pin' = pin,
               \A b \in Guards : Holding(b)' =>
                  \E c \in Guards : /\ guard'[b].page = guard[c].page
                                    /\ guard'[b].kind = guard[c].kind
                                    /\ guard'[b].is_dirty = guard[c].is_dirty
        PROVE  ChangesReported'
    BY <2>4 DEF ChangesReported, DropDirty, Holding
  <2>5. ASSUME NEW g \in Guards, NEW stage, NEW that,
               guard' = [guard EXCEPT ![g] = WithStage(guard[g], stage, that)]
        PROVE  \A b \in Guards : /\ guard'[b].page = guard[b].page
                                 /\ guard'[b].kind = guard[b].kind
                                 /\ guard'[b].is_dirty = guard[b].is_dirty
    BY <2>5 DEF GuardTypeOK, WithStage
  <2>6. ASSUME NEW g \in Guards, Latch(g)
        PROVE  ChangesReported'
    <3>1. guard' = [guard EXCEPT ![g] = [guard[g] EXCEPT !.stage = "held"]]
      BY <2>6 DEF Latch
    <3>2. guard' = [guard EXCEPT ![g] = WithStage(guard[g], "held", guard[g].that)]
      BY <3>1, GuardFields, StageChanged
    <3>3. pin' = pin
      BY <2>6 DEF Latch, vars
    <3> QED
      BY <2>4, <2>5, <3>2, <3>3
  <2>7. ASSUME NEW g \in Guards, NEW that, Unlatch(g, that)
        PROVE  ChangesReported'
    <3>1. guard' = [guard EXCEPT ![g] = [guard[g] EXCEPT !.stage = "unlatched", !.that = that]]
      BY <2>7, Zenon DEF Unlatch
    <3>2. [guard[g] EXCEPT !.stage = "unlatched"] = WithStage(guard[g], "unlatched", guard[g].that)
      BY GuardFields, StageChanged
    <3>3. [WithStage(guard[g], "unlatched", guard[g].that) EXCEPT !.that = that]
            = WithStage(guard[g], "unlatched", that)
      BY DEF WithStage
    <3>4. guard' = [guard EXCEPT ![g] = WithStage(guard[g], "unlatched", that)]
      BY <3>1, <3>2, <3>3
    <3>5. pin' = pin
      BY <2>7 DEF Unlatch, vars
    <3> QED
      BY <2>4, <2>5, <3>4, <3>5
  <2>8. ASSUME NEW to \in Guards, NEW from \in Guards, guard' = Moved(to, from)
        PROVE  \A b \in Guards : guard'[b] = Empty \/ \E c \in Guards : c # to /\ guard'[b] = guard[c]
    <3>1. guard' = [[guard EXCEPT ![to] = guard[from]] EXCEPT ![from] = Empty]
      BY <2>8 DEF Moved
    <3>2. PICK mid : mid = [guard EXCEPT ![to] = guard[from]]
      OBVIOUS
    <3>3. /\ mid \in [Guards -> GuardType] /\ mid[to] = guard[from]
          /\ \A b \in Guards : b # to => mid[b] = guard[b]
      BY <3>2, GuardFields DEF GuardTypeOK
    <3>4. guard' = [mid EXCEPT ![from] = Empty]
      BY <3>1, <3>2
    <3>5. guard'[from] = Empty /\ \A b \in Guards : b # from => guard'[b] = mid[b]
      BY <3>3, <3>4
    <3> QED
      BY <3>3, <3>5
  <2>9. ASSUME NEW to \in Guards, NEW from \in Guards, MoveToEmpty(to, from)
        PROVE  ChangesReported'
    BY <2>4, <2>8, <2>9, EmptyFields DEF MoveToEmpty, vars, Holding
  <2>10. ASSUME NEW g \in Guards, Unpin(g)
         PROVE  ChangesReported'
    <3>1. guard[g].stage = "unlatched" /\ guard[g].page \in Handles
      BY <2>10, GuardFields DEF Unpin
    <3>2. pin' = [pin EXCEPT ![guard[g].page] = NoPin]
      BY <2>10 DEF Unpin, UnpinPage
    <3>3. \A b \in Guards : guard'[b] = Empty \/ \E c \in Guards : c # g /\ guard'[b] = guard[c]
      <4>1. CASE guard[g].that = NoGuard
        <5>1. guard' = [guard EXCEPT ![g] = Empty]
          BY <2>10, <4>1 DEF Unpin
        <5> QED
          BY <5>1 DEF GuardTypeOK
      <4>2. CASE guard[g].that # NoGuard
        <5>1. guard[g].that \in Guards /\ guard' = Moved(g, guard[g].that)
          BY <2>10, <4>2, GuardFields DEF Unpin
        <5> QED
          BY <5>1, <2>8
      <4> QED
        BY <4>1, <4>2
    <3>4. ASSUME NEW b \in Guards, Holding(b)', pin'[guard'[b].page].wrote
          PROVE  DropDirty(b)'
      <4>1. PICK c \in Guards : c # g /\ guard'[b] = guard[c] /\ Holding(c)
        BY <3>3, <3>4, EmptyFields DEF Holding
      <4>2. guard[c].page # guard[g].page /\ guard[c].page \in Handles
        BY <2>0, <4>1 DEF Owned
      <4>3. pin'[guard[c].page] = pin[guard[c].page]
        BY <3>2, <4>2 DEF Bookkeeping, TypeOK
      <4>4. DropDirty(c)
        BY <3>4, <4>1, <4>3 DEF ChangesReported
      <4> QED
        BY <4>1, <4>4 DEF DropDirty
    <3> QED
      BY <3>4 DEF ChangesReported
  <2>11. ASSUME NEW g \in Guards, NEW v \in Data, GetDataMut(g, v)
         PROVE  ChangesReported'
    <3>1. DropDirty(g)'
      <4>1. guard[g].kind \in {"basic", "write"}
        BY <2>11 DEF GetDataMut
      <4>2. guard'[g].kind = guard[g].kind /\ (guard[g].kind = "basic" => guard'[g].is_dirty = TRUE)
        BY <2>11, GetDataMutEffect
      <4> QED
        BY <4>1, <4>2 DEF DropDirty
    <3>2. ASSUME NEW b \in Guards, b # g, Holding(b)', pin'[guard'[b].page].wrote
          PROVE  DropDirty(b)'
      <4>1. guard'[b] = guard[b] /\ Holding(g)
        BY <2>11, <3>2, GetDataMutEffect
      <4>2. Holding(b) /\ guard[b].page \in Handles /\ guard[b].page # guard[g].page
        BY <2>0, <3>2, <4>1 DEF Holding, Owned
      <4>3. pin'[guard[b].page] = pin[guard[b].page]
        BY <2>11, <4>2, GetDataMutEffect
      <4>4. DropDirty(b)
        BY <3>2, <4>1, <4>2, <4>3 DEF ChangesReported
      <4> QED
        BY <4>1, <4>4 DEF DropDirty
    <3> QED
      BY <3>1, <3>2 DEF ChangesReported
  <2>12. ASSUME UNCHANGED <<pin, guard>>
         PROVE  ChangesReported'
    BY <2>4, <2>12
  <2>13. ASSUME NEW p \in Unguarded, PoolOnly(p)
         PROVE  ChangesReported'
    BY <2>12, <2>13 DEF PoolOnly, FlushPage, DeletePage, DeleteAbsent, DeleteResident
  <2> QED
    BY <2>2, <2>3, <2>6, <2>7, <2>9, <2>10, <2>11, <2>12, <2>13
       DEF GuardNext, guard_vars, vars, Drop, MoveAssign
<1> QED
  BY <1>1, <1>2, GuardInvariant, PTL DEF GuardSpec

-----------------------------------------------------------------------------
\* The pool itself does not touch the bytes of a frame somebody has pinned.
LEMMA PinnedBytesStay ==
    ASSUME Bookkeeping, NEW f \in Frames, Holders(f) # {},
           \/ \E h \in Handles, p \in PageIds : FetchHit(h, p) \/ FetchMiss(h, p)
           \/ \E h \in Handles : NewPage(h)
           \/ \E h \in Handles, b \in BOOLEAN : UnpinPage(h, b)
           \/ \E p \in PageIds : FlushPage(p) \/ DeletePage(p)
    PROVE  pages'[f].data = pages[f].data
<1> USE DEF Bookkeeping
<1>0. pages \in [Frames -> PageType]
  BY DEF TypeOK
<1>1. ASSUME NEW h, NEW x \in Frames, NEW p, NEW v, NEW wrote,
             Candidate(x), Admit(h, x, p, v, wrote)
      PROVE  pages'[f] = pages[f]
  <2>1. x # f
    BY <1>1, TakenFrame
  <2> QED
    BY <1>0, <1>1, <2>1 DEF Admit
<1>2. ASSUME NEW h \in Handles, NewPage(h)
      PROVE  pages'[f] = pages[f]
  BY <1>1, <1>2 DEF NewPage
<1>3. ASSUME NEW h \in Handles, NEW p \in PageIds, FetchMiss(h, p)
      PROVE  pages'[f] = pages[f]
  BY <1>1, <1>3 DEF FetchMiss
<1>4. ASSUME NEW h \in Handles, NEW p \in PageIds, FetchHit(h, p)
      PROVE  pages'[f].data = pages[f].data
  <2>1. PICK x : x = page_table[p] /\ pages' = [pages EXCEPT ![x].pin_count = @ + 1]
    BY <1>4 DEF FetchHit
  <2> QED
    BY <1>0, <2>1 DEF PageType
<1>5. ASSUME NEW h \in Handles, NEW b \in BOOLEAN, UnpinPage(h, b)
      PROVE  pages'[f].data = pages[f].data
  <2>1. CASE pages' = pages
    BY <2>1
  <2>2. CASE pages' # pages
    <3>1. PICK x : /\ x = page_table[pin[h].page_id]
                   /\ pages' = [pages EXCEPT ![x].pin_count = @ - 1,
                                             ![x].is_dirty = @ \/ b]
      BY <1>5, <2>2 DEF UnpinPage
    <3> QED
      BY <1>0, <3>1 DEF PageType
  <2> QED
    BY <2>1, <2>2
<1>6. ASSUME NEW p \in PageIds, FlushPage(p)
      PROVE  pages'[f].data = pages[f].data
  <2>1. PICK x : x = page_table[p] /\ pages' = [pages EXCEPT ![x].is_dirty = FALSE]
    BY <1>6 DEF FlushPage
  <2> QED
    BY <1>0, <2>1 DEF PageType
<1>7. ASSUME NEW p \in PageIds, DeletePage(p)
      PROVE  pages'[f] = pages[f]
  <2>1. CASE pages' = pages
    BY <2>1
  <2>2. CASE pages' # pages
    <3>1. PICK x : /\ x = page_table[p] /\ pages[x].pin_count = 0 /\ Resident(p)
                   /\ pages' = [pages EXCEPT ![x] = ResetPage]
      BY <1>7, <2>2 DEF DeletePage, DeleteAbsent, DeleteResident
    <3>2. x \in Frames
      BY <3>1 DEF TypeOK, Resident
    <3>3. x # f
      BY <3>1, <3>2, HoldersFinite DEF PinCountIsHolders
    <3> QED
      BY <1>0, <3>1, <3>3
  <2> QED
    BY <2>1, <2>2
<1> QED
  BY <1>2, <1>3, <1>4, <1>5, <1>6, <1>7

(* The page under a ReadPageGuard changes only through a BasicPageGuard:   *)
(* the pool keeps its hands off a pinned frame and the latch keeps every   *)
(* WritePageGuard away.                                                    *)
THEOREM ReadersAreUndisturbed == GuardSpec => ReadersUndisturbed
<1> DEFINE Undisturbed(g) ==
               Latched(g, "read") /\ Latched(g, "read")' /\ guard'[g].page = guard[g].page
               /\ (\A b \in Guards : Latched(b, "basic") => Frame(b) # Frame(g))
                 => pages'[Frame(g)].data = pages[Frame(g)].data
<1>1. GuardInv /\ [GuardNext]_guard_vars => [\A g \in Guards : Undisturbed(g)]_guard_vars
  <2> SUFFICES ASSUME GuardInv, GuardNext,
                      NEW g \in Guards, Latched(g, "read"),
                      \A b \in Guards : Latched(b, "basic") => Frame(b) # Frame(g)
               PROVE  pages'[Frame(g)].data = pages[Frame(g)].data
    OBVIOUS
  <2> USE DEF GuardInv
  <2> PICK f : f = Frame(g)
    OBVIOUS
  <2>1. Holding(g) /\ f \in Frames /\ Holders(f) # {}
    BY GuardFields, HoldingPins DEF Latched
  <2>2. ASSUME NEW b \in Guards, NEW v \in Data, GetDataMut(b, v)
        PROVE  pages'[f].data = pages[f].data
    <3>1. Holding(b) /\ guard[b].kind \in {"basic", "write"} /\ guard[b].stage = "held"
      BY <2>2, GuardFields DEF GetDataMut
    <3>2. Frame(b) # f
      <4>1. CASE guard[b].kind = "basic"
        BY <3>1, <4>1 DEF Latched
      <4>2. CASE guard[b].kind = "write"
        <5> SUFFICES ASSUME Frame(b) = f PROVE FALSE
          OBVIOUS
        <5>1. g \in LatchHolders(f, "read") /\ b \in LatchHolders(f, "write")
          BY <3>1, <4>2 DEF LatchHolders, Latched
        <5>2. Cardinality(LatchHolders(f, "read")) # 0 /\ Cardinality(LatchHolders(f, "write")) # 0
          BY <5>1, LatchHoldersFinite, FS_EmptySet
        <5>3. LatchAgrees(f)
          BY <2>1
        <5> QED
          BY <5>2, <5>3 DEF LatchAgrees
      <4> QED
        BY <3>1, <4>1, <4>2
    <3>3. pages' = [pages EXCEPT ![Frame(b)].data = v]
      BY <2>2 DEF GetDataMut, Write, Frame
    <3> QED
      BY <2>1, <3>2, <3>3 DEF Bookkeeping, TypeOK
  <2>3. ASSUME NEW b \in Guards, NEW k \in Kinds, ConstructNew(b, k)
        PROVE  pages'[f].data = pages[f].data
    BY <2>1, <2>3, FreeHandleExists, PinnedBytesStay DEF ConstructNew
  <2>4. ASSUME NEW b \in Guards, NEW k \in Kinds, NEW p \in PageIds, ConstructFetched(b, k, p)
        PROVE  pages'[f].data = pages[f].data
    BY <2>1, <2>4, FreeHandleExists, PinnedBytesStay DEF ConstructFetched
  <2>5. ASSUME NEW b \in Guards, Unpin(b)
        PROVE  pages'[f].data = pages[f].data
    <3>1. guard[b].page \in Handles /\ DropDirty(b) \in BOOLEAN
      BY <2>5, GuardFields DEF Unpin, DropDirty
    <3> QED
      BY <2>1, <2>5, <3>1, PinnedBytesStay DEF Unpin
  <2>6. ASSUME NEW p \in Unguarded, PoolOnly(p)
        PROVE  pages'[f].data = pages[f].data
    BY <2>1, <2>6, UnguardedAssumption, PinnedBytesStay DEF PoolOnly
  <2>7. ASSUME UNCHANGED vars
        PROVE  pages'[f].data = pages[f].data
    BY <2>7 DEF vars
  <2>8. pages'[f].data = pages[f].data
    BY <2>2, <2>3, <2>4, <2>5, <2>6, <2>7
       DEF GuardNext, Latch, Drop, Unlatch, MoveToEmpty, MoveAssign
  <2> QED
    BY <2>8
<1> QED
  BY <1>1, GuardInvariant, PTL DEF GuardSpec, ReadersUndisturbed
==============================================================================

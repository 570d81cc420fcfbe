------------------------------ MODULE PageGuard ------------------------------
(***************************************************************************)
(* The page guards of src/src/buffer/page_guard.cpp over the buffer pool.  *)
(* A guard owns one pin (a handle of BufferPoolManager) and, if it is a    *)
(* ReadPageGuard or a WritePageGuard, the reader-writer latch of the frame *)
(* the pin points to.  Threads construct, move and drop their guards; a    *)
(* pool method is one step, and so is one operation on a latch, so a drop  *)
(* is two steps between which the other threads run.                       *)
(***************************************************************************)
EXTENDS BufferPoolManager

CONSTANTS
    Threads,
    Guards,          \* the guard variables of all threads
    Owner,           \* Owner[g]: the thread whose variable g is
    Kinds,           \* the guard classes the clients use
    Unguarded,       \* the pages that are also flushed and deleted without a guard
    MaxAcquires      \* bound: the pages each thread fetches in a behaviour

ASSUME GuardsAssumption == IsFiniteSet(Guards)
ASSUME OwnerAssumption == Owner \in [Guards -> Threads]
ASSUME KindsAssumption == Kinds \subseteq {"basic", "read", "write"}
ASSUME UnguardedAssumption == Unguarded \subseteq PageIds
ASSUME MaxAcquiresAssumption == MaxAcquires \in [Threads -> Nat]

NoGuard == "no guard"
NoHandle == "nullptr"
ASSUME GuardNamesAssumption == NoGuard \notin Guards /\ NoHandle \notin Handles

VARIABLES
    guard,           \* guard[g]: the object, and how far its thread is in a call
    latch,           \* latch[f]: rwlatch_ of frame f
    acquires         \* acquires[t]: pages fetched so far

guard_vars == <<vars, guard, latch, acquires>>

\* "latching": in the constructor, pinned and waiting for the latch.
\* "unlatched": in Drop, the latch released and the page still pinned.
Stages == {"empty", "latching", "held", "unlatched"}

GuardType == [kind : {"basic", "read", "write"}, page : Handles \cup {NoHandle}, is_dirty : BOOLEAN,
              stage : Stages, that : Guards \cup {NoGuard}]
LatchType == [readers : 0 .. Cardinality(Guards), writer : BOOLEAN]

\* A guard that holds nothing; its class no longer matters.
Empty == [kind |-> "basic", page |-> NoHandle, is_dirty |-> FALSE, stage |-> "empty",
          that |-> NoGuard]

Holding(g) == guard[g].page # NoHandle
Frame(g) == pin[guard[g].page].frame
Latched(g, k) == guard[g].stage = "held" /\ guard[g].kind = k
LatchHolders(f, k) == {g \in Guards : Latched(g, k) /\ Frame(g) = f}

\* The thread is inside a constructor or a Drop.
Busy(t) == \E g \in Guards : /\ Owner[g] = t
                             /\ guard[g].stage \in {"latching", "unlatched"}

(* The guards, the latches and the counters have their types.              *)
GuardTypeOK ==
    /\ guard \in [Guards -> GuardType]
    /\ \A g \in Guards : guard[g].stage = "empty" <=> ~Holding(g)
    /\ latch \in [Frames -> LatchType]
    /\ acquires \in [Threads -> Nat]
    /\ \A t \in Threads : acquires[t] <= MaxAcquires[t]

GuardInit ==
    /\ Init
    /\ guard = [g \in Guards |-> Empty]
    /\ latch = [f \in Frames |-> [readers |-> 0, writer |-> FALSE]]
    /\ acquires = [t \in Threads |-> 0]

-----------------------------------------------------------------------------
(* The constructors.  Page latches are taken in the order of the page ids: *)
(* an assumption on the clients, who would otherwise wait for each other   *)
(* (or for themselves, with two guards on one page).                       *)
InOrder(t, k, p) ==
    k # "basic" => \A g \in Guards : Owner[g] = t /\ Holding(g) /\ guard[g].kind # "basic"
                                        => pin[guard[g].page].page_id < p

\* Which of the unused names the new pin gets makes no difference.
FreeHandle == CHOOSE h \in Handles : pin[h] = NoPin

Constructed(g, k, h) ==
    /\ guard' = [guard EXCEPT ![g] =
                    [kind |-> k, page |-> h, is_dirty |-> FALSE,
                     stage |-> IF k = "basic" THEN "held" ELSE "latching", that |-> NoGuard]]
    /\ acquires' = [acquires EXCEPT ![Owner[g]] = @ + 1]
    /\ UNCHANGED latch

MayConstruct(g) == /\ ~Busy(Owner[g])
                   /\ ~Holding(g)
                   /\ acquires[Owner[g]] < MaxAcquires[Owner[g]]
                   /\ \E h \in Handles : pin[h] = NoPin

\* Guard(bpm, bpm->FetchPage(p)): the page is pinned before the latch is
\* waited for.  A nullptr from the pool makes a guard that holds nothing.
ConstructFetched(g, k, p) ==
    /\ MayConstruct(g)
    /\ InOrder(Owner[g], k, p)
    /\ FetchHit(FreeHandle, p) \/ FetchMiss(FreeHandle, p)
    /\ Constructed(g, k, FreeHandle)

ConstructNew(g, k) ==
    /\ MayConstruct(g)
    /\ NewPage(FreeHandle)
    /\ Constructed(g, k, FreeHandle)

\* What lock and lock_shared, unlock and unlock_shared make of the mutex l.
Taken(l, kind) ==
    IF kind = "write" THEN [readers |-> l.readers, writer |-> TRUE]
    ELSE [readers |-> l.readers + 1, writer |-> l.writer]

Released(l, kind) ==
    CASE kind = "basic" -> l
      [] kind = "read"  -> [readers |-> l.readers - 1, writer |-> l.writer]
      [] kind = "write" -> [readers |-> l.readers, writer |-> FALSE]

\* RLatch and WLatch: the thread goes on when the latch is free for it.
Mutant_Latch(g) ==                         \* WLatch does not wait for readers
    /\ guard[g].stage = "latching"
    /\ LET f == Frame(g) IN
          /\ ~latch[f].writer
          /\ latch' = [latch EXCEPT ![f] = Taken(@, guard[g].kind)]
    /\ guard' = [guard EXCEPT ![g].stage = "held"]
    /\ UNCHANGED <<vars, acquires>>

Latch(g) ==
    /\ guard[g].stage = "latching"
    /\ LET f == Frame(g) IN
          /\ ~latch[f].writer
          /\ guard[g].kind = "write" => latch[f].readers = 0
          /\ latch' = [latch EXCEPT ![f] = Taken(@, guard[g].kind)]
    /\ guard' = [guard EXCEPT ![g].stage = "held"]
    /\ UNCHANGED <<vars, acquires>>

\* A change of the page through GetDataMut.
Mutant_GetDataMut(g, v) ==                 \* does not note the change
    /\ ~Busy(Owner[g])
    /\ guard[g].stage = "held"
    /\ guard[g].kind \in {"basic", "write"}
    /\ Write(guard[g].page, v)
    /\ UNCHANGED <<guard, latch, acquires>>

GetDataMut(g, v) ==
    /\ ~Busy(Owner[g])
    /\ guard[g].stage = "held"
    /\ guard[g].kind \in {"basic", "write"}
    /\ Write(guard[g].page, v)
    /\ guard' = [guard EXCEPT ![g].is_dirty = @ \/ guard[g].kind = "basic"]
    /\ UNCHANGED <<latch, acquires>>

-----------------------------------------------------------------------------
(* Drop, called by the client, by the destructor, or by the move           *)
(* assignment from `that'.  First the latch ...                            *)
Mutant_Unlatch(g, that) ==                 \* unpins before it unlatches
    /\ guard[g].stage = "held"
    /\ UnpinPage(guard[g].page, TRUE)
    /\ guard' = [guard EXCEPT ![g] = [@ EXCEPT !.stage = "unlatched", !.that = that]]
    /\ UNCHANGED <<latch, acquires>>

Mutant_UnlatchForgets(g, that) ==          \* leaves the read latch taken
    /\ guard[g].stage = "held"
    /\ latch' = [latch EXCEPT ![Frame(g)] =
                    IF guard[g].kind = "write" THEN Released(@, "write") ELSE @]
    /\ guard' = [guard EXCEPT ![g] = [@ EXCEPT !.stage = "unlatched", !.that = that]]
    /\ UNCHANGED <<vars, acquires>>

Mutant_UnlatchAlwaysRead(g, that) ==       \* RUnlatch, whatever was taken
    /\ guard[g].stage = "held"
    /\ latch' = [latch EXCEPT ![Frame(g)] =
                    IF guard[g].kind = "basic" THEN @ ELSE Released(@, "read")]
    /\ guard' = [guard EXCEPT ![g] = [@ EXCEPT !.stage = "unlatched", !.that = that]]
    /\ UNCHANGED <<vars, acquires>>

Unlatch(g, that) ==
    /\ guard[g].stage = "held"
    /\ latch' = [latch EXCEPT ![Frame(g)] = Released(@, guard[g].kind)]
    /\ guard' = [guard EXCEPT ![g] = [@ EXCEPT !.stage = "unlatched", !.that = that]]
    /\ UNCHANGED <<vars, acquires>>

\* ... then the pin.
DropDirty(g) == CASE guard[g].kind = "basic" -> guard[g].is_dirty
                  [] guard[g].kind = "read"  -> FALSE
                  [] guard[g].kind = "write" -> TRUE

\* The guards after `to' has taken over from `from', which keeps nothing.
Mutant_Moved(to, from) ==                  \* `from' still points to the page
    [guard EXCEPT ![to] = guard[from]]

Moved(to, from) == [guard EXCEPT ![to] = guard[from], ![from] = Empty]

Unpin(g) ==
    /\ guard[g].stage = "unlatched"
    /\ UnpinPage(guard[g].page, DropDirty(g))
    /\ guard' = IF guard[g].that = NoGuard
                THEN [guard EXCEPT ![g] = Empty]
                ELSE Moved(g, guard[g].that)
    /\ UNCHANGED <<latch, acquires>>

Drop(g) == ~Busy(Owner[g]) /\ Unlatch(g, NoGuard)

\* The move constructor, or the move assignment to a guard that holds nothing.
MoveToEmpty(to, from) ==
    /\ Owner[to] = Owner[from]
    /\ ~Busy(Owner[to])
    /\ ~Holding(to) /\ Holding(from)
    /\ guard' = Moved(to, from)
    /\ UNCHANGED <<vars, latch, acquires>>

\* The move assignment to a guard of the same class that holds a page.
MoveAssign(to, from) ==
    /\ to # from
    /\ Owner[to] = Owner[from]
    /\ ~Busy(Owner[to])
    /\ Holding(from) /\ guard[to].kind = guard[from].kind
    /\ Unlatch(to, from)

-----------------------------------------------------------------------------
\* Threads that work on the pool without a guard.
PoolOnly(p) ==
    /\ FlushPage(p) \/ DeletePage(p)
    /\ UNCHANGED <<guard, latch, acquires>>

GuardNext ==
    \/ \E g \in Guards, k \in Kinds :
          ConstructNew(g, k) \/ \E p \in PageIds : ConstructFetched(g, k, p)
    \/ \E g \in Guards : Latch(g) \/ Drop(g) \/ Unpin(g)
    \/ \E g \in Guards, v \in Data : GetDataMut(g, v)
    \/ \E g, that \in Guards : MoveToEmpty(g, that) \/ MoveAssign(g, that)
    \/ \E p \in Unguarded : PoolOnly(p)

\* A thread that is not waiting goes on, and a client keeps no guard for
\* ever (guards are local variables, dropped at the end of their scope).
Proceed(t) == \E g \in Guards : Owner[g] = t /\ (Latch(g) \/ Unpin(g) \/ Drop(g))
Fairness == \A t \in Threads : WF_guard_vars(Proceed(t))

GuardSpec == GuardInit /\ [][GuardNext]_guard_vars

FairGuardSpec == GuardSpec /\ Fairness

-----------------------------------------------------------------------------
(* Every pin has exactly one guard that will release it, however guards    *)
(* are moved, assigned over and dropped again: a pin is neither leaked nor *)
(* given back twice (which would take another client's pin away).          *)
PinsHaveOneGuard ==
    \A h \in Handles :
        Cardinality({g \in Guards : guard[g].page = h}) = IF pin[h] = NoPin THEN 0 ELSE 1

(* A latch is taken by exactly the guards that will release it, and never  *)
(* by a writer and someone else at once.  It belongs to a frame, not to a  *)
(* page: it is free before the frame can get another page, which is why    *)
(* Drop unlatches before it unpins.                                        *)
LatchesHaveGuards ==
    \A f \in Frames :
        /\ latch[f].readers = Cardinality(LatchHolders(f, "read"))
        /\ Cardinality(LatchHolders(f, "write")) = IF latch[f].writer THEN 1 ELSE 0
        /\ latch[f].writer => latch[f].readers = 0
        /\ pages[f].pin_count = 0 => ~latch[f].writer /\ latch[f].readers = 0

(* The guard that changed a page tells the pool when it lets go of it,     *)
(* whichever variable the guard has been moved to meanwhile.               *)
ChangesReported ==
    \A g \in Guards : Holding(g) /\ pin[guard[g].page].wrote => DropDirty(g)

(* While a ReadPageGuard is held, the bytes it shows only change through a *)
(* BasicPageGuard, which takes no latch.                                   *)
ReadersUndisturbed ==
    [][\A g \in Guards :
          Latched(g, "read") /\ Latched(g, "read")' /\ guard'[g].page = guard[g].page
          /\ (\A b \in Guards : Latched(b, "basic") => Frame(b) # Frame(g))
            => pages'[Frame(g)].data = pages[Frame(g)].data]_guard_vars

(* No thread waits for a latch for ever: for finitely many acquisitions in *)
(* page order, the pins a waiting thread keeps block nobody it waits for.  *)
WaitersServed ==
    \A g \in Guards : guard[g].stage = "latching" ~> guard[g].stage = "held"
=============================================================================

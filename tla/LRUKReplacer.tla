---------------------------- MODULE LRUKReplacer ----------------------------
(***************************************************************************)
(* The LRU-K replacer of src/src/buffer/lru_k_replacer.cpp.  Every method  *)
(* but Size runs under latch_, so it is one atomic step, except Evict: its *)
(* loop visits entries_ in the unspecified order of an unordered_map and   *)
(* is modelled iteration by iteration, with the latch held throughout.     *)
(***************************************************************************)
EXTENDS Integers, Sequences, FiniteSets

CONSTANTS
    Frames,            \* the valid frame ids, 0 .. max_frames_ - 1
    K,                 \* k_
    MaxTimestamp       \* bound: the accesses that are recorded

ASSUME FramesAssumption == Frames \subseteq Nat /\ IsFiniteSet(Frames)
ASSUME KAssumption == K \in Nat \ {0}
ASSUME MaxTimestampAssumption == MaxTimestamp \in Nat

VARIABLES
    tracked,           \* the keys of entries_
    history,           \* history[f]: entries_[f].history_ (<<>> if untracked)
    is_evictable,      \* is_evictable[f]: entries_[f].is_evictable_
    curr_size,         \* curr_size_
    current_timestamp, \* current_timestamp_
    scan,              \* the locals of the Evict that holds latch_
    log                \* history variable: ALL accesses of f's current entry

vars == <<tracked, history, is_evictable, curr_size, current_timestamp, scan, log>>

Infinity == MaxTimestamp + 1   \* numeric_limits<size_t>::max()
NoFrame == -1

Idle == [running |-> FALSE, todo |-> {}, victim |-> NoFrame,
         time |-> Infinity, found |-> FALSE]

Evictable == {f \in tracked : is_evictable[f]}

(* The containers have their types, and history_ never outgrows k_.        *)
TypeOK ==
    /\ tracked \subseteq Frames
    /\ history \in [Frames -> Seq(0 .. MaxTimestamp)]
    /\ \A f \in Frames : Len(history[f]) <= K
    /\ log \in [Frames -> Seq(0 .. MaxTimestamp)]
    /\ is_evictable \in [Frames -> BOOLEAN]
    /\ curr_size \in Nat
    /\ current_timestamp \in 0 .. MaxTimestamp
    /\ scan \in [running : BOOLEAN, todo : SUBSET Frames,
                 victim : Frames \cup {NoFrame}, time : 0 .. Infinity,
                 found : BOOLEAN]

Init ==
    /\ tracked = {}
    /\ history = [f \in Frames |-> <<>>]
    /\ is_evictable = [f \in Frames |-> FALSE]
    /\ curr_size = 0
    /\ current_timestamp = 0
    /\ scan = Idle
    /\ log = [f \in Frames |-> <<>>]

-----------------------------------------------------------------------------
(* An entry's deque keeps the K latest accesses, the oldest in front. *)
Mutant_Push(h, t) == IF Len(h) = K + 1 THEN Append(Tail(h), t) ELSE Append(h, t)

Push(h, t) == IF Len(h) = K THEN Append(Tail(h), t) ELSE Append(h, t)

RecordAccess(f) ==
    /\ ~scan.running
    /\ current_timestamp < MaxTimestamp
    /\ tracked' = tracked \cup {f}
    /\ history' = [history EXCEPT ![f] = Push(@, current_timestamp)]
    /\ log' = [log EXCEPT ![f] = Append(@, current_timestamp)]
    /\ current_timestamp' = current_timestamp + 1
    /\ UNCHANGED <<is_evictable, curr_size, scan>>

Mutant_SetEvictable(f, set_evictable) ==   \* counts a repeated call twice
    /\ ~scan.running
    /\ f \in tracked
    /\ current_timestamp < MaxTimestamp
    /\ curr_size' = IF set_evictable THEN curr_size + 1 ELSE curr_size - 1
    /\ is_evictable' = [is_evictable EXCEPT ![f] = set_evictable]
    /\ UNCHANGED <<tracked, history, current_timestamp, scan, log>>

SetEvictable(f, set_evictable) ==
    /\ ~scan.running
    /\ f \in tracked
    /\ is_evictable[f] # set_evictable
    /\ curr_size' = IF set_evictable THEN curr_size + 1 ELSE curr_size - 1
    /\ is_evictable' = [is_evictable EXCEPT ![f] = set_evictable]
    /\ UNCHANGED <<tracked, history, current_timestamp, scan, log>>

\* entries_.erase: a later access of the frame starts a new entry.
EraseEntry(f) ==
    /\ tracked' = tracked \ {f}
    /\ history' = [history EXCEPT ![f] = <<>>]
    /\ log' = [log EXCEPT ![f] = <<>>]
    /\ is_evictable' = [is_evictable EXCEPT ![f] = FALSE]
    /\ curr_size' = curr_size - 1
    /\ UNCHANGED current_timestamp

Mutant_Remove(f) ==                        \* also removes a pinned frame
    /\ ~scan.running
    /\ f \in tracked
    /\ EraseEntry(f)
    /\ UNCHANGED scan

\* Remove of a frame without an entry returns, of a pinned one throws: in
\* neither case does anything change.
Remove(f) ==
    /\ ~scan.running
    /\ f \in Evictable
    /\ EraseEntry(f)
    /\ UNCHANGED scan

-----------------------------------------------------------------------------
(* Evict: lock latch_, visit every entry once, erase the victim. *)
EvictBegin ==
    /\ ~scan.running
    /\ scan' = [Idle EXCEPT !.running = TRUE, !.todo = tracked]
    /\ UNCHANGED <<tracked, history, is_evictable, curr_size, current_timestamp, log>>

\* The two tests of the loop body under which f becomes the victim.
LessThanK(f) == Len(history[f]) < K

Mutant_Beats(f, s) ==                      \* does not prefer LessThanK
    is_evictable[f] /\ s.time > Head(history[f])

Beats(f, s) ==
    /\ is_evictable[f]
    /\ IF LessThanK(f) THEN s.time > Head(history[f]) \/ ~s.found
                       ELSE s.time > Head(history[f]) /\ ~s.found

Visit(f) ==
    /\ scan.running
    /\ f \in scan.todo
    /\ scan' = [scan EXCEPT
                  !.todo = @ \ {f},
                  !.victim = IF Beats(f, scan) THEN f ELSE @,
                  !.time = IF Beats(f, scan) THEN Head(history[f]) ELSE @,
                  !.found = @ \/ (Beats(f, scan) /\ LessThanK(f))]
    /\ UNCHANGED <<tracked, history, is_evictable, curr_size, current_timestamp, log>>

EvictReturnTrue ==
    /\ scan.running /\ scan.todo = {} /\ scan.victim # NoFrame
    /\ EraseEntry(scan.victim)
    /\ scan' = Idle

EvictReturnFalse ==
    /\ scan.running /\ scan.todo = {} /\ scan.victim = NoFrame
    /\ scan' = Idle
    /\ UNCHANGED <<tracked, history, is_evictable, curr_size, current_timestamp, log>>

-----------------------------------------------------------------------------
Next ==
    \/ \E f \in Frames : RecordAccess(f)
    \/ \E f \in Frames, b \in BOOLEAN : SetEvictable(f, b)
    \/ \E f \in Frames : Remove(f)
    \/ EvictBegin
    \/ \E f \in Frames : Visit(f)
    \/ EvictReturnTrue
    \/ EvictReturnFalse

Spec == Init /\ [][Next]_vars

-----------------------------------------------------------------------------
(* The eviction policy of the documentation, on the complete access log.   *)

\* The time of the K-th most recent access; only for K accesses or more.
KthLatest(f) == log[f][Len(log[f]) - K + 1]

\* g is evicted no later than f: a frame with fewer than K accesses before
\* any other, by earliest first access; else by the larger backward
\* k-distance, current_timestamp - KthLatest.
NoLater(g, f) ==
    IF Len(log[g]) < K
    THEN Len(log[f]) >= K \/ log[g][1] <= log[f][1]
    ELSE /\ Len(log[f]) >= K
         /\ current_timestamp - KthLatest(g) >= current_timestamp - KthLatest(f)

(* When the loop of Evict has visited every entry, in whatever order, its  *)
(* victim is an evictable frame that LRU-K evicts no later than any other  *)
(* evictable one, and there is none only if no frame is evictable.         *)
VictimIsLRUK ==
    scan.running /\ scan.todo = {} =>
        \/ scan.victim = NoFrame /\ Evictable = {}
        \/ /\ scan.victim \in Evictable
           /\ \A f \in Evictable : NoLater(scan.victim, f)

(* curr_size_, which Size reports without scanning, is the number of       *)
(* evictable entries after any sequence of the five methods (a size_t that *)
(* went below zero would wrap around).                                     *)
SizeCountsEvictable == curr_size = Cardinality(Evictable)

(* Every method does what the buffer pool's model of a replacer says: in   *)
(* particular Evict and Remove only ever forget an evictable frame.        *)
Contract == INSTANCE Replacer
    WITH replacer <- [tracked |-> tracked, evictable |-> Evictable]

ImplementsReplacer == Contract!Spec
=============================================================================

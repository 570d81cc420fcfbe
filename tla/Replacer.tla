------------------------------ MODULE Replacer ------------------------------
(***************************************************************************)
(* What the buffer pool relies on a frame replacer for: a set of tracked   *)
(* frames, some of them evictable, and an Evict that hands out and forgets *)
(* SOME evictable frame whenever there is one.  LRUKReplacer is shown to   *)
(* implement this specification; BufferPoolManager uses the same operators *)
(* for the replacer_ it owns, so what it proves holds for any eviction     *)
(* policy.                                                                 *)
(***************************************************************************)
CONSTANT Frames            \* the frame ids 0 .. max_frames_ - 1

VARIABLE replacer          \* [tracked, evictable]: sets of frames

ReplacerType == [tracked : SUBSET Frames, evictable : SUBSET Frames]

Empty == [tracked |-> {}, evictable |-> {}]

-----------------------------------------------------------------------------
(* The operations, as functions of the replacer's state. *)

\* RecordAccess creates the entry of an untracked frame, not evictable.
Accessed(r, f) == [r EXCEPT !.tracked = @ \cup {f}]

\* SetEvictable ignores a frame that has no entry.
MadeEvictable(r, f, b) ==
    [r EXCEPT !.evictable = IF b THEN @ \cup ({f} \cap r.tracked)
                                 ELSE @ \ {f}]

\* Evict and Remove erase the entry.
Forgotten(r, f) == [tracked |-> r.tracked \ {f}, evictable |-> r.evictable \ {f}]

\* Remove throws for a tracked frame that is not evictable.
RemoveThrows(r, f) == f \in r.tracked \ r.evictable

-----------------------------------------------------------------------------
Init == replacer = Empty

RecordAccess(f) == replacer' = Accessed(replacer, f)

SetEvictable(f, b) == replacer' = MadeEvictable(replacer, f, b)

Evict(f) == f \in replacer.evictable /\ replacer' = Forgotten(replacer, f)

Remove(f) == ~RemoveThrows(replacer, f) /\ replacer' = Forgotten(replacer, f)

Next == \E f \in Frames :
            \/ RecordAccess(f)
            \/ \E b \in BOOLEAN : SetEvictable(f, b)
            \/ Evict(f)
            \/ Remove(f)

Spec == Init /\ [][Next]_replacer
=============================================================================

----------------------------- MODULE OrderedMap -----------------------------
(***************************************************************************)
(* What an index promises (src/src/include/onebase/storage/index/          *)
(* b_plus_tree.h, Index): a map from keys to record ids with unique keys.  *)
(* The first rid of a key stays until the key is removed.                  *)
(***************************************************************************)
CONSTANTS Keys, Entries      \* the keys, and the pairs <<key, rid>> inserted

VARIABLES map,               \* the pairs <<key, rid>> present
          answer             \* what the last call returned, <<>> if nothing yet

vars == <<map, answer>>

PairsOf(key) == {e \in map : e[1] = key}

Init == map = {} /\ answer = <<>>

\* A call begins.
Call == answer' = <<>> /\ UNCHANGED map

Insert(key, val) ==
    /\ answer' = <<PairsOf(key) = {}>>
    /\ map' = IF PairsOf(key) = {} THEN map \cup {<<key, val>>} ELSE map

Remove(key) ==
    /\ map' = map \ PairsOf(key)
    /\ answer' = <<>>

GetValue(key) ==
    /\ IF PairsOf(key) = {} THEN answer' = <<FALSE>>
       ELSE \E e \in PairsOf(key) : answer' = <<TRUE, e[2]>>
    /\ UNCHANGED map

Next == \/ Call
        \/ \E entry \in Entries : Insert(entry[1], entry[2])
        \/ \E key \in Keys : Remove(key) \/ GetValue(key)

Spec == Init /\ [][Next]_vars
=============================================================================

----------------------------- MODULE MCBPlusTree -----------------------------
(* Small instances of BPlusTree. *)
EXTENDS BPlusTree

\* Every key has a rid of its own; key 1 is also inserted with another one.
MCKeys == 1 .. 6
MCEntries == {<<k, 10 + k>> : k \in MCKeys} \cup {<<1, 20>>}
MCPageIds == 1 .. 8
==============================================================================

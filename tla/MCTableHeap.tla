----------------------------- MODULE MCTableHeap -----------------------------
(* Small instances of TableHeap: pages with room for a few rows. *)
EXTENDS TableHeap

\* Rows named by their size; 40 is larger than any page of the runs.
MCRows == {4, 8, 40}
MCSize(row) == row

\* A slot written over reads as deleted.
MCNoise == {[off |-> 0, len |-> 0, row |-> 4]}
==============================================================================

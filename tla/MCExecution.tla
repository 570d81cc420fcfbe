---------------------------- MODULE MCExecution ----------------------------
(* Two tables of two columns, indexes on the first column or on both.      *)
EXTENDS Execution, TLC

MCKeyAttrs == {<<1>>, <<1, 2>>}
MCNoise == {Deleted}

\* SET col = f(col): f exchanges the two values, or throws for one of them.
MCSetters == {[x \in Vals |-> CHOOSE y \in Vals : y # x]}
             \cup {[x \in Vals |-> IF x = y THEN Error ELSE y] : y \in Vals}
Interchangeable == Permutations(Tables) \cup Permutations(Names) \cup Permutations(Vals)
=============================================================================

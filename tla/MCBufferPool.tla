---------------------------- MODULE MCBufferPool ----------------------------
(* The buffer pool on small instances; the .cfg files choose what the      *)
(* device and the clients do.                                              *)
EXTENDS BufferPoolManager, TLC

CONSTANTS h1, h2, h3, zero, one, nopage

MCHandles2 == {h1, h2}
MCHandles3 == {h1, h2, h3}
MCData == {zero, one}
MCOneData == {zero}      \* enough where no property is about the contents
MCFaulty == {FALSE, TRUE}
MCReliable == {FALSE}

\* Handles are interchangeable.
HandleSymmetry == Permutations(Handles)
=============================================================================

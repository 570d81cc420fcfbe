---------------------------- MODULE MCPageGuard ----------------------------
(* The page guards of two threads on a pool of one frame and two pages.    *)
EXTENDS PageGuard, TLC

CONSTANTS t1, t2, g1, g2, g3, h1, h2, h3, zero, one, nopage

MCThreads == {t1, t2}
\* t1 can hold two guards and move one to the other, t2 holds one.
MCGuards == {g1, g2, g3}
MCOwner == (g1 :> t1) @@ (g2 :> t1) @@ (g3 :> t2)
MCMaxAcquires == (t1 :> 2) @@ (t2 :> 1)
MCHandles == {h1, h2, h3}
MCKinds == {"basic", "read", "write"}
MCData == {zero, one}
MCReliable == {FALSE}
=============================================================================

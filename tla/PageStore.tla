------------------------------ MODULE PageStore ------------------------------
(***************************************************************************)
(* What the buffer pool promises its clients: it behaves as a store that   *)
(* holds every page at once, whichever pages happen to be in a frame.      *)
(* `durable' says what a crash may leave of a page: any content it had     *)
(* since it was last flushed, and for a page never flushed, nothing.       *)
(***************************************************************************)
CONSTANTS
    PageIds, Data, Zero,
    NoPage          \* the content of a page that does not exist

VARIABLES
    content,        \* content[p]: what a client that fetches p sees
    durable         \* durable[p]: what p may be after a crash

vars == <<content, durable>>

Init ==
    /\ content = [p \in PageIds |-> NoPage]
    /\ durable = [p \in PageIds |-> {NoPage}]

\* NewPage returns an id no existing page has; its page is all zeros.
New(p) ==
    /\ content[p] = NoPage
    /\ content' = [content EXCEPT ![p] = Zero]
    /\ durable' = [durable EXCEPT ![p] = {NoPage, Zero}]

\* A client that has the page pinned changes it in place.
Write(p, v) ==
    /\ content[p] # NoPage
    /\ content' = [content EXCEPT ![p] = v]
    /\ durable' = [durable EXCEPT ![p] = @ \cup {v}]

Flush(S) ==
    /\ UNCHANGED content
    /\ \A p \in S : content[p] # NoPage
    /\ durable' = [p \in PageIds |-> IF p \in S THEN {content[p]} ELSE durable[p]]

Delete(p) ==
    /\ content[p] # NoPage
    /\ content' = [content EXCEPT ![p] = NoPage]
    /\ durable' = [durable EXCEPT ![p] = {NoPage}]

Crash ==
    /\ \A p \in PageIds : content'[p] \in durable[p]
    /\ content' \in [PageIds -> Data \cup {NoPage}]
    /\ durable' = [p \in PageIds |-> {content'[p]}]

Next ==
    \/ \E S \in SUBSET PageIds : Flush(S)
    \/ \E p \in PageIds : New(p) \/ Delete(p)
    \/ \E p \in PageIds, v \in Data : Write(p, v)
    \/ Crash

Spec == Init /\ [][Next]_vars
=============================================================================

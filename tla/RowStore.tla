------------------------------ MODULE RowStore ------------------------------
(***************************************************************************)
(* What a table heap promises its executors: rows with record ids that     *)
(* name them until they are deleted and are never given out again.  A rid  *)
(* is a page and a slot; of the rows on a torn page nothing is promised.   *)
(***************************************************************************)
CONSTANT Rows

VARIABLES rows,              \* the row of each rid in use, of pages not torn
          used,              \* the rids handed out so far
          torn               \* the pages whose rows are lost

vars == <<rows, used, torn>>

Init == rows = [rid \in {} |-> 0] /\ used = {} /\ torn = {}

Insert(rid, row) ==
    /\ rid \notin used
    /\ used' = used \cup {rid}
    /\ rows' = IF rid[1] \in torn THEN rows
               ELSE [r \in DOMAIN rows \cup {rid} |-> IF r = rid THEN row ELSE rows[r]]
    /\ UNCHANGED torn

Delete(rid) ==
    /\ rid \in DOMAIN rows
    /\ rows' = [r \in DOMAIN rows \ {rid} |-> rows[r]]
    /\ UNCHANGED <<used, torn>>

Update(rid, row) ==
    /\ rid \in DOMAIN rows
    /\ rows' = [rows EXCEPT ![rid] = row]
    /\ UNCHANGED <<used, torn>>

\* An update of rid loses the rows of its page.
Tear(rid) ==
    /\ torn' = torn \cup {rid[1]}
    /\ rows' = [r \in {q \in DOMAIN rows : q[1] # rid[1]} |-> rows[r]]
    /\ UNCHANGED used

Next == \E rid \in used' :
            \/ \E row \in Rows : Insert(rid, row) \/ Update(rid, row)
            \/ Delete(rid)
            \/ Tear(rid)

Spec == Init /\ [][Next]_vars
=============================================================================

----------------------------- MODULE DiskManager -----------------------------
(***************************************************************************)
(* The disk manager of src/src/storage/disk/disk_manager.cpp: a database   *)
(* file of pages behind one std::fstream whose error state is never        *)
(* cleared.  The operations are functions of the disk's state, because     *)
(* the buffer pool performs several of them in one of its own steps.       *)
(***************************************************************************)
EXTENDS Integers

CONSTANTS
    MaxPages,     \* bound: the page ids that are ever allocated
    Data,         \* the contents a page can have
    Zero          \* the content of a page of zero bytes

ASSUME MaxPagesAssumption == MaxPages \in Nat
ASSUME ZeroAssumption == Zero \in Data

PageIds == 0 .. MaxPages - 1
INVALID_PAGE_ID == -1

\* What db_io_ reports: no error bit, failbit (good, bad are false), badbit.
StreamStates == {"good", "fail", "bad"}

\* file[p] is Zero at and past the end of the file, which a write past the
\* end fills with zero bytes.
DiskType ==
    [file : [PageIds -> Data],
     size : 0 .. MaxPages,             \* pages in the file
     num_pages : 0 .. MaxPages,        \* num_pages_
     next_page_id : 0 .. MaxPages,     \* next_page_id_
     stream : StreamStates]

-----------------------------------------------------------------------------
(* The constructor opens the file or creates an empty one. *)
Mutant_Opened(file, size) ==               \* forgets the pages in the file
    [file |-> file, size |-> size, num_pages |-> 0, next_page_id |-> 0,
     stream |-> "good"]

Opened(file, size) ==
    [file |-> file, size |-> size, num_pages |-> size, next_page_id |-> size,
     stream |-> "good"]

EmptyFile == Opened([p \in PageIds |-> Zero], 0)

\* seekg is checked for badbit only: a stream that only failed reads nothing.
ReadThrows(d) == d.stream = "bad"

\* A short read is completed with zeros.  `fault`: the read itself fails.
PageRead(d, p, fault) ==
    IF d.stream = "good" /\ p < d.size /\ ~fault THEN d.file[p] ELSE Zero

\* Reading past the end leaves eofbit and failbit set; the next seekg clears
\* eofbit only.  A failing read sets badbit, which nobody looks at.
AfterRead(d, p, fault) ==
    [d EXCEPT !.stream = IF d.stream # "good" THEN d.stream
                         ELSE IF fault THEN "bad"
                         ELSE IF p < d.size THEN "good" ELSE "fail"]

\* write is checked for badbit only.
WriteThrows(d, fault) == d.stream = "bad" \/ (d.stream = "good" /\ fault)

AfterWriteThrows(d) == [d EXCEPT !.stream = "bad"]

\* On a failed stream seekp and write do nothing, and no exception tells.
AfterWrite(d, p, data) ==
    [d EXCEPT !.file = IF d.stream = "good" THEN [@ EXCEPT ![p] = data] ELSE @,
              !.size = IF d.stream = "good" /\ p >= @ THEN p + 1 ELSE @,
              !.num_pages = IF p >= @ THEN p + 1 ELSE @]

\* AllocatePage; DeallocatePage does nothing, so an id is never reused.
AfterAllocate(d) == [d EXCEPT !.next_page_id = @ + 1]
=============================================================================

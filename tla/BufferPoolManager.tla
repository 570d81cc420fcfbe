-------------------------- MODULE BufferPoolManager --------------------------
(***************************************************************************)
(* The buffer pool of src/src/buffer/buffer_pool_manager.cpp, over the     *)
(* disk manager and a replacer.  Every method holds latch_ from its first  *)
(* to its last line, so it is one atomic step; the clients interleave      *)
(* between the methods.  A client is seen as a set of handles: a handle is *)
(* one pin, the Page pointer that NewPage or FetchPage returned and that   *)
(* one UnpinPage gives back (a PageGuard is such a handle).                *)
(***************************************************************************)
EXTENDS Integers, Sequences, FiniteSets, DiskManager

CONSTANTS
    PoolSize,        \* pool_size_
    Handles,         \* bound: the pins that clients hold at once
    NoPage,          \* no content: a page that does not exist
    IOFaults,        \* {FALSE}, or {FALSE, TRUE} if the device may fail
    MayCrash,        \* TRUE if the process may crash and be restarted
    DirtyNewPages    \* TRUE if the client that creates a page unpins it
                     \* dirty, as TableHeap and BPlusTree do

ASSUME PoolSizeAssumption == PoolSize \in Nat
ASSUME HandlesAssumption == IsFiniteSet(Handles)
ASSUME NoPageAssumption == NoPage \notin Data
ASSUME SwitchAssumption == /\ IOFaults \subseteq BOOLEAN /\ FALSE \in IOFaults
                           /\ MayCrash \in BOOLEAN
                           /\ DirtyNewPages \in BOOLEAN

Frames == 0 .. PoolSize - 1
NoFrame == -1

VARIABLES
    disk,            \* *disk_manager_
    replacer,        \* *replacer_, by the contract of module Replacer
    pages,           \* pages_, by frame
    page_table,      \* page_table_: a frame, or NoFrame for an absent key
    free_list,       \* free_list_
    pin,             \* pin[h]: what handle h points to
    live,            \* the pages that exist: created and not deleted
    durable          \* history variable: what a crash may leave of a page

vars == <<disk, replacer, pages, page_table, free_list, pin, live, durable>>

R == INSTANCE Replacer

PageType == [data : Data, page_id : PageIds \cup {INVALID_PAGE_ID},
             pin_count : Int, is_dirty : BOOLEAN]
HandleType == [page_id : PageIds \cup {INVALID_PAGE_ID},
               frame : Frames \cup {NoFrame}, wrote : BOOLEAN]

ResetPage == [data |-> Zero, page_id |-> INVALID_PAGE_ID, pin_count |-> 0,
              is_dirty |-> FALSE]
NoPin == [page_id |-> INVALID_PAGE_ID, frame |-> NoFrame, wrote |-> FALSE]

Resident(p) == page_table[p] # NoFrame
Holders(f) == {h \in Handles : pin[h].frame = f}

(* The containers and fields have their types; a pin count is never        *)
(* negative, and the page ids of the pool are ids that were allocated.     *)
TypeOK ==
    /\ disk \in DiskType
    /\ replacer \in R!ReplacerType
    /\ pages \in [Frames -> PageType]
    /\ \A f \in Frames : pages[f].pin_count >= 0
    /\ page_table \in [PageIds -> Frames \cup {NoFrame}]
    /\ free_list \in Seq(Frames)
    /\ pin \in [Handles -> HandleType]
    /\ live \subseteq 0 .. disk.next_page_id - 1
    /\ durable \in [PageIds -> SUBSET (Data \cup {NoPage})]

-----------------------------------------------------------------------------
(* The constructor. *)
AllReset == [f \in Frames |-> ResetPage]
EmptyTable == [p \in PageIds |-> NoFrame]
AllFree == [i \in 1 .. PoolSize |-> i - 1]

Init ==
    /\ disk = EmptyFile
    /\ replacer = R!Empty
    /\ pages = AllReset
    /\ page_table = EmptyTable
    /\ free_list = AllFree
    /\ pin = [h \in Handles |-> NoPin]
    /\ live = {}
    /\ durable = [p \in PageIds |-> {NoPage}]

-----------------------------------------------------------------------------
(* Picking a frame: the front of the free list, else a victim of the       *)
(* replacer, which is written back if dirty and leaves the page table.     *)
(* With neither, NewPage and FetchPage return nullptr and change nothing.  *)
Evicting == free_list = <<>>

Candidate(f) == IF Evicting THEN f \in replacer.evictable ELSE f = Head(free_list)

WritesBack(f) == Evicting /\ pages[f].is_dirty

FreeListAfter == IF Evicting THEN free_list ELSE Tail(free_list)
ReplacerAfter(f) == IF Evicting THEN R!Forgotten(replacer, f) ELSE replacer

TableAfter(f) ==
    IF Evicting THEN [page_table EXCEPT ![pages[f].page_id] = NoFrame] ELSE page_table

DiskAfter(f) ==
    IF WritesBack(f) THEN AfterWrite(disk, pages[f].page_id, pages[f].data) ELSE disk

\* Page p with content v is put in frame f, pinned once, by handle h.
Admit(h, f, p, v, wrote) ==
    /\ pages' = [pages EXCEPT ![f] = [data |-> v, page_id |-> p,
                                      pin_count |-> 1, is_dirty |-> FALSE]]
    /\ page_table' = [TableAfter(f) EXCEPT ![p] = f]
    /\ free_list' = FreeListAfter
    /\ replacer' = R!MadeEvictable(R!Accessed(ReplacerAfter(f), f), f, FALSE)
    /\ pin' = [pin EXCEPT ![h] = [page_id |-> p, frame |-> f, wrote |-> wrote]]

\* WritePage of the victim throws: the replacer has already forgotten it.
WriteBackThrows ==
    /\ \E f \in Frames, fault \in IOFaults :
          /\ Candidate(f) /\ WritesBack(f) /\ WriteThrows(disk, fault)
          /\ replacer' = R!Forgotten(replacer, f)
    /\ disk' = AfterWriteThrows(disk)
    /\ UNCHANGED <<pages, page_table, free_list, pin, live, durable>>

-----------------------------------------------------------------------------
NewPage(h) ==
    /\ pin[h] = NoPin
    /\ disk.next_page_id < MaxPages
    /\ \E f \in Frames :
          /\ Candidate(f)
          /\ ~(WritesBack(f) /\ WriteThrows(disk, FALSE))
          /\ Admit(h, f, disk.next_page_id, Zero, DirtyNewPages)
          /\ disk' = AfterAllocate(DiskAfter(f))
    /\ live' = live \cup {disk.next_page_id}
    /\ durable' = [durable EXCEPT ![disk.next_page_id] = {NoPage, Zero}]

NewPageThrows(h) ==
    /\ pin[h] = NoPin
    /\ WriteBackThrows

Mutant_FetchHit(h, p) ==                   \* leaves the frame evictable
    /\ pin[h] = NoPin
    /\ p \in live
    /\ Resident(p)
    /\ LET f == page_table[p] IN
          /\ pages' = [pages EXCEPT ![f].pin_count = @ + 1]
          /\ replacer' = R!Accessed(replacer, f)
          /\ pin' = [pin EXCEPT ![h] = [page_id |-> p, frame |-> f, wrote |-> FALSE]]
    /\ UNCHANGED <<disk, page_table, free_list, live, durable>>

FetchHit(h, p) ==
    /\ pin[h] = NoPin
    /\ p \in live
    /\ Resident(p)
    /\ LET f == page_table[p] IN
          /\ pages' = [pages EXCEPT ![f].pin_count = @ + 1]
          /\ replacer' = R!MadeEvictable(R!Accessed(replacer, f), f, FALSE)
          /\ pin' = [pin EXCEPT ![h] = [page_id |-> p, frame |-> f, wrote |-> FALSE]]
    /\ UNCHANGED <<disk, page_table, free_list, live, durable>>

FetchMiss(h, p) ==
    /\ pin[h] = NoPin
    /\ p \in live
    /\ ~Resident(p)
    /\ \E f \in Frames, fault \in IOFaults :
          /\ Candidate(f)
          /\ ~(WritesBack(f) /\ WriteThrows(disk, FALSE))
          /\ ~ReadThrows(DiskAfter(f))
          /\ Admit(h, f, p, PageRead(DiskAfter(f), p, fault), FALSE)
          /\ disk' = AfterRead(DiskAfter(f), p, fault)
    /\ UNCHANGED <<live, durable>>

FetchThrows(h, p) ==
    /\ pin[h] = NoPin
    /\ p \in live
    /\ ~Resident(p)
    /\ WriteBackThrows

\* ReadPage throws once the frame is taken: nothing gives it back.
FetchReadThrows(h, p) ==
    /\ pin[h] = NoPin
    /\ p \in live
    /\ ~Resident(p)
    /\ \E f \in Frames :
          /\ Candidate(f)
          /\ ~(WritesBack(f) /\ WriteThrows(disk, FALSE))
          /\ ReadThrows(DiskAfter(f))
          /\ page_table' = TableAfter(f)
          /\ replacer' = ReplacerAfter(f)
          /\ disk' = DiskAfter(f)
    /\ free_list' = FreeListAfter
    /\ UNCHANGED <<pages, pin, live, durable>>

FetchPage(h, p) == FetchHit(h, p) \/ FetchMiss(h, p) \/ FetchThrows(h, p)
                       \/ FetchReadThrows(h, p)

-----------------------------------------------------------------------------
\* A client that changed the page through this handle says so.  The method
\* refuses a page that is not in the pool or is not pinned.
Mutant_UnpinPage(h, is_dirty) ==           \* FALSE clears the dirty flag
    /\ pin[h] # NoPin
    /\ pin[h].wrote => is_dirty
    /\ LET f == page_table[pin[h].page_id] IN
          /\ pages' = [pages EXCEPT ![f].pin_count = @ - 1, ![f].is_dirty = is_dirty]
          /\ replacer' = IF pages[f].pin_count = 1
                         THEN R!MadeEvictable(replacer, f, TRUE) ELSE replacer
    /\ pin' = [pin EXCEPT ![h] = NoPin]
    /\ UNCHANGED <<disk, page_table, free_list, live, durable>>

UnpinPage(h, is_dirty) ==
    /\ pin[h] # NoPin
    /\ pin[h].wrote => is_dirty
    /\ LET p == pin[h].page_id
           f == page_table[p]
       IN  IF ~Resident(p) \/ pages[f].pin_count <= 0
           THEN UNCHANGED <<pages, replacer>>
           ELSE /\ pages' = [pages EXCEPT ![f].pin_count = @ - 1,
                                          ![f].is_dirty = @ \/ is_dirty]
                /\ replacer' = IF pages[f].pin_count = 1
                               THEN R!MadeEvictable(replacer, f, TRUE)
                               ELSE replacer
    /\ pin' = [pin EXCEPT ![h] = NoPin]
    /\ UNCHANGED <<disk, page_table, free_list, live, durable>>

\* The client writes through the pointer it was given, under no latch.
Write(h, v) ==
    /\ pin[h] # NoPin
    /\ pages' = [pages EXCEPT ![pin[h].frame].data = v]
    /\ pin' = [pin EXCEPT ![h].wrote = TRUE]
    /\ durable' = [durable EXCEPT ![pin[h].page_id] = @ \cup {v}]
    /\ UNCHANGED <<disk, replacer, page_table, free_list, live>>

-----------------------------------------------------------------------------
Forget(p) ==
    /\ live' = live \ {p}
    /\ durable' = [durable EXCEPT ![p] = {NoPage}]

DeleteAbsent(p) ==
    /\ p \in live
    /\ ~Resident(p)
    /\ Forget(p)
    /\ UNCHANGED <<disk, replacer, pages, page_table, free_list, pin>>

Mutant_DeleteResident(p) ==                \* deletes under other clients
    /\ p \in live
    /\ Resident(p)
    /\ LET f == page_table[p] IN
          /\ page_table' = [page_table EXCEPT ![p] = NoFrame]
          /\ replacer' = R!Forgotten(replacer, f)
          /\ free_list' = Append(free_list, f)
          /\ pages' = [pages EXCEPT ![f] = ResetPage]
    /\ Forget(p)
    /\ UNCHANGED <<disk, pin>>

Mutant_DeleteLosesFrame(p) ==              \* f does not go to the free list
    /\ p \in live
    /\ Resident(p)
    /\ pages[page_table[p]].pin_count = 0
    /\ LET f == page_table[p] IN
          /\ page_table' = [page_table EXCEPT ![p] = NoFrame]
          /\ replacer' = R!Forgotten(replacer, f)
          /\ pages' = [pages EXCEPT ![f] = ResetPage]
    /\ Forget(p)
    /\ UNCHANGED <<disk, pin, free_list>>

DeleteResident(p) ==
    /\ p \in live
    /\ Resident(p)
    /\ pages[page_table[p]].pin_count = 0
    /\ LET f == page_table[p] IN
          /\ page_table' = [page_table EXCEPT ![p] = NoFrame]
          /\ IF R!RemoveThrows(replacer, f)
             THEN UNCHANGED <<replacer, free_list, pages>>
             ELSE /\ replacer' = R!Forgotten(replacer, f)
                  /\ free_list' = Append(free_list, f)
                  /\ pages' = [pages EXCEPT ![f] = ResetPage]
    /\ Forget(p)
    /\ UNCHANGED <<disk, pin>>

\* A page that is pinned is not deleted: the call returns false.
DeletePage(p) == DeleteAbsent(p) \/ DeleteResident(p)

-----------------------------------------------------------------------------
FlushPage(p) ==
    /\ Resident(p)
    /\ ~WriteThrows(disk, FALSE)
    /\ LET f == page_table[p] IN
          /\ disk' = AfterWrite(disk, p, pages[f].data)
          /\ pages' = [pages EXCEPT ![f].is_dirty = FALSE]
          /\ durable' = [durable EXCEPT ![p] = {pages[f].data}]
    /\ UNCHANGED <<replacer, page_table, free_list, pin, live>>

FlushThrows(p) ==
    /\ Resident(p)
    /\ \E fault \in IOFaults : WriteThrows(disk, fault)
    /\ disk' = AfterWriteThrows(disk)
    /\ UNCHANGED <<replacer, pages, page_table, free_list, pin, live, durable>>

ResidentPages == {p \in PageIds : Resident(p)}

IsMax(n, S) == n \in S /\ \A m \in S : m <= n

\* The pages of S are written one by one, in the order of the hash table,
\* and each is marked clean; the stream ends in state `stream'.
FlushSet(S, stream) ==
    /\ \E size, num_pages \in 0 .. MaxPages :
          /\ IsMax(size, {disk.size} \cup
                         {p + 1 : p \in {q \in S : disk.stream = "good"}})
          /\ IsMax(num_pages, {disk.num_pages} \cup {p + 1 : p \in S})
          /\ disk' = [disk EXCEPT
                        !.file = [p \in PageIds |->
                                    IF p \in S /\ disk.stream = "good"
                                    THEN pages[page_table[p]].data ELSE @[p]],
                        !.size = size, !.num_pages = num_pages,
                        !.stream = stream]
    /\ pages' = [f \in Frames |->
                    [pages[f] EXCEPT !.is_dirty = @ /\ \A p \in S : page_table[p] # f]]
    /\ durable' = [p \in PageIds |-> IF p \in S THEN {pages[page_table[p]].data}
                                     ELSE durable[p]]
    /\ UNCHANGED <<replacer, page_table, free_list, pin, live>>

FlushAllPages ==
    /\ ResidentPages = {} \/ ~WriteThrows(disk, FALSE)
    /\ FlushSet(ResidentPages, disk.stream)

\* The loop stops at the first WritePage that throws.
FlushAllThrows ==
    /\ \E fault \in IOFaults : WriteThrows(disk, fault)
    /\ \E S \in SUBSET ResidentPages :
          /\ S # ResidentPages
          /\ disk.stream = "bad" => S = {}
          /\ FlushSet(S, "bad")

-----------------------------------------------------------------------------
\* The process ends without flushing (~BufferPoolManager flushes nothing)
\* and a new one opens the file.  A page past the end of it is gone.
Crash ==
    /\ MayCrash
    /\ disk' = Opened(disk.file, disk.size)
    /\ replacer' = R!Empty
    /\ pages' = AllReset
    /\ page_table' = EmptyTable
    /\ free_list' = AllFree
    /\ pin' = [h \in Handles |-> NoPin]
    /\ live' = {p \in live : p < disk.size}
    /\ durable' = [p \in PageIds |-> IF p \in live' THEN {disk.file[p]} ELSE {NoPage}]

Next ==
    \/ \E h \in Handles : NewPage(h) \/ NewPageThrows(h)
    \/ \E h \in Handles, p \in PageIds : FetchPage(h, p)
    \/ \E h \in Handles, b \in BOOLEAN : UnpinPage(h, b)
    \/ \E h \in Handles, v \in Data : Write(h, v)
    \/ \E p \in PageIds : DeletePage(p) \/ FlushPage(p) \/ FlushThrows(p)
    \/ FlushAllPages
    \/ FlushAllThrows
    \/ Crash

Spec == Init /\ [][Next]_vars

-----------------------------------------------------------------------------
(* The bookkeeping, whatever the device does.                              *)

(* page_table_ maps live pages only and agrees with the frames' page ids:  *)
(* two ids never share a frame, and a mapped frame knows which page it     *)
(* must be written back to.                                                *)
TableAgreesWithFrames ==
    \A p \in PageIds : Resident(p) => p \in live /\ pages[page_table[p]].page_id = p

(* A frame is on the free list at most once, and then nothing refers to    *)
(* it: it is not mapped, not pinned and not known to the replacer.         *)
FreeFramesAreFree ==
    /\ \A i, j \in 1 .. Len(free_list) : i # j => free_list[i] # free_list[j]
    /\ \A i \in 1 .. Len(free_list) :
          /\ pages[free_list[i]] = ResetPage
          /\ free_list[i] \notin replacer.tracked
          /\ \A p \in PageIds : page_table[p] # free_list[i]

(* Evict can only return a frame that holds a page nobody has pinned, and  *)
(* DeletePage's Remove never throws after the table entry is gone.         *)
ReplacerTracksUnpinned ==
    /\ replacer.evictable = {f \in replacer.tracked : pages[f].pin_count = 0}
    /\ \A f \in replacer.tracked : \E p \in PageIds : page_table[p] = f
    /\ \A f \in Frames : pages[f].pin_count > 0 => f \in replacer.tracked

(* pin_count_ is the number of handles that clients hold on the frame,     *)
(* through every interleaving of fetches, unpins, failures and restarts.   *)
PinCountIsHolders == \A f \in Frames : pages[f].pin_count = Cardinality(Holders(f))

(* While a client holds a handle, its page stays in the frame the handle   *)
(* points to: no eviction or deletion can pull it away, so the client      *)
(* never reads or writes another page's bytes.                             *)
HandlesStayValid ==
    \A h \in Handles :
        pin[h] # NoPin => /\ pin[h].page_id \in PageIds
                          /\ pin[h].frame \in Frames
                          /\ page_table[pin[h].page_id] = pin[h].frame

(* As long as the device has not failed, no frame is lost: each is on the  *)
(* free list or holds a page that the replacer will hand out again.        *)
NoFrameLeaks ==
    disk.stream # "bad" =>
        \A f \in Frames : \/ \E i \in 1 .. Len(free_list) : free_list[i] = f
                          \/ f \in replacer.tracked

(* page_table_, free_list_, the replacer, the pin counts and the clients'  *)
(* pointers describe one and the same pool after every method, also one    *)
(* that has thrown: the parts rest on each other, and only together are    *)
(* they preserved by every step.                                           *)
Bookkeeping ==
    /\ TypeOK
    /\ TableAgreesWithFrames
    /\ FreeFramesAreFree
    /\ ReplacerTracksUnpinned
    /\ PinCountIsHolders
    /\ HandlesStayValid
    /\ NoFrameLeaks

-----------------------------------------------------------------------------
(* The data, on a device that does not fail.                               *)

(* A resident page that is clean, and that no client has changed since,    *)
(* is the page on disk: evicting it without a write loses nothing.         *)
CleanMatchesDisk ==
    \A p \in ResidentPages :
        LET f == page_table[p] IN
            ~pages[f].is_dirty /\ (\A h \in Holders(f) : ~pin[h].wrote)
                => pages[f].data = disk.file[p]

(* The pool is a page store: fetches, evictions and write-backs are        *)
(* invisible, no write is lost or applied to another page, NewPage never   *)
(* hands out the id of a live page, and a crash leaves of every page a     *)
(* content it had since its last flush.                                    *)
Content == [p \in PageIds |->
              IF p \notin live THEN NoPage
              ELSE IF Resident(p) THEN pages[page_table[p]].data
              ELSE PageRead(disk, p, FALSE)]

Store == INSTANCE PageStore WITH content <- Content

ImplementsPageStore == Store!Spec
=============================================================================

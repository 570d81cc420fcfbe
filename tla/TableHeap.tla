------------------------------ MODULE TableHeap ------------------------------
(***************************************************************************)
(* The table heap of src/src/storage/table/table_heap.cpp and its slotted  *)
(* pages, src/src/storage/page/table_page.cpp, with one sequential scan    *)
(* (seq_scan_executor.cpp) whose rows an UPDATE or a DELETE changes while  *)
(* the scan goes on, as the executors do.                                  *)
(*                                                                         *)
(* pages[i] is the i-th page of the chain that starts at first_page_id_:   *)
(* pages are only ever added at its end.  A page holds a header, an array  *)
(* of slots growing upwards behind it, and the tuples, growing downwards   *)
(* from the end of the page to the free space pointer.  Of a tuple's bytes *)
(* the model keeps their place (slot.off, slot.len) and the row they       *)
(* encode (slot.row); that rows read back what was written is the          *)
(* statement that these places do not overlap.                             *)
(*                                                                         *)
(* UpdateTuple writes its copy without asking whether the page has room    *)
(* for it.  A copy without room is written over slots, which then read as  *)
(* any Noise, or over the header too, and the page is torn.  When a        *)
(* header is lost, or the copy would begin before the page, the program    *)
(* crashes or follows row bytes as page ids: the behaviour ends there.     *)
(***************************************************************************)
EXTENDS Integers, Sequences

CONSTANTS
    PageSize,          \* ONEBASE_PAGE_SIZE
    Word,              \* unsigned arithmetic is modulo Word (2^32 in the code)
    Rows,              \* the rows stored
    Size(_),           \* the bytes of a row: Tuple::GetLength
    MaxPages,          \* bound: the pages of the heap
    Noise              \* what the bytes of a row may read as, taken for a slot

HeaderSize == 16       \* SIZE_TABLE_PAGE_HEADER
HeaderUsed == 12       \* next page id, number of tuples, free space pointer
SlotSize == 4          \* SIZE_TUPLE_SLOT

ASSUME PageSizeAssumption == PageSize \in Nat /\ PageSize >= HeaderSize
ASSUME WordAssumption == Word \in Nat /\ Word > PageSize
ASSUME RowsAssumption == \A row \in Rows : Size(row) \in Nat \ {0}
ASSUME MaxPagesAssumption == MaxPages \in Nat
ASSUME NoiseAssumption == Noise \subseteq [off : Nat, len : Nat, row : Rows]

VARIABLES
    pages,             \* [fsp, slots] of each page
    torn,              \* history: the pages on which UpdateTuple had no room
    lost,              \* a page's header is written over, or the process gone
    it,                \* the scan's iterator: the rid it stands on, or End
    cursor,            \* <<page_id, slot>> in Begin() and operator++, or Stopped
    seen,              \* ghost: the rids the scan has returned
    due                \* ghost: those it owes: live at Begin() and since

vars == <<pages, torn, lost, it, cursor, seen, due>>

End == <<-1, 0>>       \* RID(INVALID_PAGE_ID, 0)
Stopped == <<0, 0>>

-----------------------------------------------------------------------------
(* A page. *)
EmptyPage == [fsp |-> PageSize, slots |-> <<>>]

SlotEnd(page) == HeaderSize + Len(page.slots) * SlotSize
GetFreeSpaceRemaining(page) == (page.fsp - SlotEnd(page)) % Word

Mutant_Fits(page, row) == GetFreeSpaceRemaining(page) >= Size(row)

\* InsertTuple does not return nullopt.
Fits(page, row) == GetFreeSpaceRemaining(page) >= Size(row) + SlotSize

\* The slot of a row written below the free space pointer.
Placed(page, row) == [off |-> (page.fsp - Size(row)) % Word, len |-> Size(row), row |-> row]

Mutant_WithTuple(page, row) ==             \* takes a deleted slot again
    LET dead == {s \in DOMAIN page.slots : page.slots[s].len = 0} IN
    [fsp |-> Placed(page, row).off,
     slots |-> IF dead = {} THEN Append(page.slots, Placed(page, row))
               ELSE [page.slots EXCEPT ![CHOOSE s \in dead : TRUE] = Placed(page, row)]]

WithTuple(page, row) ==
    [fsp |-> Placed(page, row).off, slots |-> Append(page.slots, Placed(page, row))]

\* DeleteTuple: the slot stays, with length 0 (and no row to read).
Cleared(slot) == [off |-> 0, len |-> 0, row |-> slot.row]

Mutant_WithoutTuple(page, s) ==            \* closes the gap in the slot array
    [fsp |-> page.fsp,
     slots |-> [r \in 1 .. Len(page.slots) - 1 |->
                   page.slots[IF r < s THEN r ELSE r + 1]]]

WithoutTuple(page, s) ==
    [fsp |-> page.fsp, slots |-> [page.slots EXCEPT ![s] = Cleared(page.slots[s])]]

\* UpdateTuple returns true.  It asks for the growth only, and writes a copy.
UpdateFits(page, s, row) ==
    \/ Size(row) <= page.slots[s].len
    \/ Size(row) - page.slots[s].len <= GetFreeSpaceRemaining(page)

Updated(page, s, row) ==
    [fsp |-> Placed(page, row).off,
     slots |-> [page.slots EXCEPT ![s] = Placed(page, row)]]

\* What memcpy() does to the page: the slots from which a row placed below the
\* free space pointer takes bytes.
HasRoom(page, row) == SlotEnd(page) + Size(row) <= page.fsp
ReachesHeader(page, row) == page.fsp < HeaderUsed + Size(row)

Hit(page, row) == {s \in DOMAIN page.slots :
                      /\ HeaderSize + (s - 1) * SlotSize < page.fsp
                      /\ page.fsp - Size(row) < HeaderSize + s * SlotSize}

Written(page, row) ==
    {[page EXCEPT !.slots = [s \in DOMAIN page.slots |->
                                IF s \in Hit(page, row) THEN noise[s] ELSE page.slots[s]]] :
        noise \in [Hit(page, row) -> Noise]}

-----------------------------------------------------------------------------
(* The heap.  A rid is <<page, slot>>, both counted from 1. *)
Slots == UNION {{i} \X DOMAIN pages[i].slots : i \in DOMAIN pages}
SlotAt(rid) == pages[rid[1]].slots[rid[2]]
Live == {rid \in Slots : SlotAt(rid).len > 0}

Init ==
    /\ pages = <<EmptyPage>> /\ torn = {} /\ lost = FALSE
    /\ it = End /\ cursor = Stopped
    /\ seen = {} /\ due = {}

\* The first page of the chain with room takes the row.
InsertFirstFit(row) ==
    \E i \in DOMAIN pages :
        /\ Fits(pages[i], row)
        /\ \A j \in 1 .. i - 1 : ~Fits(pages[j], row)
        /\ \/ /\ ~ReachesHeader(pages[i], row)
              /\ \E page \in Written(pages[i], row) :
                    pages' = [pages EXCEPT ![i] = WithTuple(page, row)]
              /\ UNCHANGED lost
           \/ /\ ReachesHeader(pages[i], row)
              /\ lost' = TRUE
              /\ UNCHANGED pages

\* Otherwise a page is added, which stays empty if the row is too large.
InsertNewPage(row) ==
    /\ \A i \in DOMAIN pages : ~Fits(pages[i], row)
    /\ Len(pages) < MaxPages
    /\ pages' = Append(pages, IF Fits(EmptyPage, row) THEN WithTuple(EmptyPage, row)
                                                      ELSE EmptyPage)
    /\ UNCHANGED lost

AtRest == cursor = Stopped

InsertTuple(row) ==
    /\ AtRest
    /\ InsertFirstFit(row) \/ InsertNewPage(row)
    /\ UNCHANGED <<torn, it, cursor, seen, due>>

\* The rids DeleteExecutor and UpdateExecutor have: during a scan, what it
\* returned; otherwise (an index scan's rids) any.  They are live, unless the
\* slot was written over.
Named == {rid \in Slots : rid \in Live \/ rid[1] \in torn}
Known == IF it = End THEN Named ELSE Named \cap seen

DeleteTuple(rid) ==
    /\ AtRest
    /\ rid \in Known
    /\ pages' = [pages EXCEPT ![rid[1]] = WithoutTuple(@, rid[2])]
    /\ due' = due \ {rid}
    /\ UNCHANGED <<torn, lost, it, cursor, seen>>

\* When UpdateTuple returns false nothing changes.
UpdateTuple(rid, row) ==
    /\ AtRest
    /\ rid \in Known
    /\ UpdateFits(pages[rid[1]], rid[2], row)
    /\ torn' = IF HasRoom(pages[rid[1]], row) THEN torn ELSE torn \cup {rid[1]}
    /\ \/ /\ ~ReachesHeader(pages[rid[1]], row)
          /\ \E page \in Written(pages[rid[1]], row) :
                pages' = [pages EXCEPT ![rid[1]] = Updated(page, rid[2], row)]
          /\ UNCHANGED lost
       \/ /\ ReachesHeader(pages[rid[1]], row)
          /\ lost' = TRUE
          /\ UNCHANGED pages
    /\ UNCHANGED <<it, cursor, seen, due>>

-----------------------------------------------------------------------------
(* The scan. *)

\* SeqScanExecutor::Init calls Begin(), whose loop starts at the first slot.
ScanBegin ==
    /\ AtRest
    /\ it = End
    /\ cursor' = <<1, 1>>
    /\ seen' = {}
    /\ due' = Live
    /\ UNCHANGED <<pages, torn, lost, it>>

Mutant_ScanNext ==                         \* advances at the next call
    /\ AtRest
    /\ it # End
    /\ cursor' = IF it \in seen THEN <<it[1], it[2] + 1>> ELSE Stopped
    /\ seen' = seen \cup {it}
    /\ due' = due \ {it}
    /\ UNCHANGED <<pages, torn, lost, it>>

Mutant_ScanNextRestart ==                  \* starts again at the page's slot 0
    /\ AtRest
    /\ it # End
    /\ cursor' = <<it[1], 1>>
    /\ seen' = seen \cup {it}
    /\ due' = due \ {it}
    /\ UNCHANGED <<pages, torn, lost, it>>

\* SeqScanExecutor::Next reads the row, then calls operator++, whose loop
\* starts behind it; the row is returned when the loop has come to an end.
ScanNext ==
    /\ AtRest
    /\ it # End
    /\ cursor' = <<it[1], it[2] + 1>>
    /\ seen' = seen \cup {it}
    /\ due' = due \ {it}
    /\ UNCHANGED <<pages, torn, lost, it>>

\* A round of the loop: the slot is live, deleted, or not of this page.
InPage == ~AtRest /\ cursor \in Slots
PastPage == ~AtRest /\ cursor \notin Slots

StopAtSlot ==
    /\ InPage
    /\ SlotAt(cursor).len > 0
    /\ it' = cursor
    /\ cursor' = Stopped
    /\ UNCHANGED <<pages, torn, lost, seen, due>>

SkipSlot ==
    /\ InPage
    /\ SlotAt(cursor).len = 0
    /\ cursor' = <<cursor[1], cursor[2] + 1>>
    /\ UNCHANGED <<pages, torn, lost, it, seen, due>>

Mutant_NextPage ==                         \* slot is not reset to 0
    /\ PastPage
    /\ cursor[1] < Len(pages)
    /\ cursor' = <<cursor[1] + 1, cursor[2]>>
    /\ UNCHANGED <<pages, torn, lost, it, seen, due>>

NextPage ==
    /\ PastPage
    /\ cursor[1] < Len(pages)
    /\ cursor' = <<cursor[1] + 1, 1>>
    /\ UNCHANGED <<pages, torn, lost, it, seen, due>>

ReachEnd ==
    /\ PastPage
    /\ cursor[1] = Len(pages)
    /\ it' = End
    /\ cursor' = Stopped
    /\ UNCHANGED <<pages, torn, lost, seen, due>>

ScanStep == ScanBegin \/ ScanNext \/ StopAtSlot \/ SkipSlot \/ NextPage \/ ReachEnd

Next ==
    /\ ~lost
    /\ \/ \E row \in Rows : InsertTuple(row)
       \/ \E rid \in Slots : DeleteTuple(rid) \/ \E row \in Rows : UpdateTuple(rid, row)
       \/ ScanStep

Spec == Init /\ [][Next]_vars

-----------------------------------------------------------------------------
(* Properties. *)

SlotRecord == [off : 0 .. PageSize, len : 0 .. PageSize, row : Rows]
Page == [fsp : 0 .. PageSize, slots : Seq(SlotRecord)]
AnyPage == [fsp : 0 .. PageSize, slots : Seq(SlotRecord \cup Noise)]

\* Type invariant: a page's free space pointer stays in the page, and so do
\* offsets and lengths, unless an update without room has torn the page.
TypeOK ==
    /\ pages \in Seq(AnyPage)
    /\ \A i \in DOMAIN pages \ torn : pages[i] \in Page
    /\ torn \subseteq DOMAIN pages
    /\ lost \in BOOLEAN
    /\ it \in Slots \cup {End}
    /\ cursor = Stopped \/ (cursor[1] \in DOMAIN pages /\ cursor[2] \in Nat \ {0})
    /\ seen \subseteq Slots
    /\ due \subseteq Slots

\* A tuple's bytes lie between the free space pointer and the page's end.
Within(page, slot) == page.fsp <= slot.off /\ slot.off + slot.len <= PageSize
Apart(a, b) == a.off + a.len <= b.off \/ b.off + b.len <= a.off

Sound(page) ==
    /\ SlotEnd(page) <= page.fsp
    /\ page.fsp <= PageSize
    /\ \A s \in DOMAIN page.slots :
          page.slots[s].len > 0 => Within(page, page.slots[s])
    /\ \A s, r \in DOMAIN page.slots :
          s # r /\ page.slots[s].len > 0 /\ page.slots[r].len > 0
             => Apart(page.slots[s], page.slots[r])

\* No byte of a page has two uses: the slot array ends below the free space
\* pointer, every tuple lies above it, and no two tuples overlap.  Only an
\* UpdateTuple whose copy has no room breaks this, on its own page.
TuplesIntact == \A i \in DOMAIN pages \ torn : Sound(pages[i])

\* The row a scan stands on is not deleted under it: the executors delete only
\* rows that the scan has already left, so *iter_ never reads a cleared slot.
ScanReadsLiveRows == AtRest /\ it # End /\ it[1] \notin torn => it \in Live

\* A scan comes to no row that it has returned before, though rows are
\* inserted, updated and deleted between its steps: UPDATE and DELETE meet
\* each row once.
RowsMetOnce == AtRest /\ it # End => it \notin seen

\* A scan that has ended has returned every row that was there when it began
\* and was not deleted meanwhile, whatever was inserted, updated and deleted,
\* and also the rows behind a torn page.
ScanComplete == AtRest /\ it = End => \A rid \in due : rid[1] \in torn

Store == INSTANCE RowStore WITH
    rows <- [rid \in {r \in Live : r[1] \notin torn} |-> SlotAt(rid).row],
    used <- Slots

\* The heap implements a row store: a rid names its row until that row is
\* deleted or an update tears its page, an update keeps the rid, and no
\* deleted rid is given out again.
ImplementsRowStore == Store!Spec

RowsStored == [rid \in Live |-> SlotAt(rid).row]

\* What UPDATE is documented to do: compute the new values and perform the
\* update.  Every UpdateTuple that returns true changes its row and no other.
UpdatesPerformed ==
    [][\A rid \in Slots, row \in Rows :
          UpdateTuple(rid, row) => RowsStored' = [RowsStored EXCEPT ![rid] = row]]_vars
=============================================================================

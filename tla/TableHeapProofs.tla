--------------------------- MODULE TableHeapProofs ---------------------------
(***************************************************************************)
(* Proofs about TableHeap, for pages and rows of any size.                 *)
(***************************************************************************)
EXTENDS TableHeap, TLAPS

-----------------------------------------------------------------------------
(* Pages. *)

\* The unsigned arithmetic does not wrap below Word.
LEMMA NoWrap ==
    ASSUME NEW x \in Nat, x < Word
    PROVE  x % Word = x
BY WordAssumption

\* The slots of a page are records of numbers and a row.
LEMMA SlotTypes ==
    ASSUME NEW page \in Page, NEW s \in DOMAIN page.slots
    PROVE  /\ page.slots[s] \in SlotRecord
           /\ page.slots[s].off \in 0 .. PageSize
           /\ page.slots[s].len \in 0 .. PageSize
           /\ page.slots[s].row \in Rows
<1>1. page.slots \in Seq(SlotRecord)
  BY DEF Page
<1>2. page.slots[s] \in SlotRecord
  BY <1>1
<1> QED
  BY <1>2 DEF SlotRecord

\* What a sound page offers: its free space is the gap between the slot array
\* and the tuples, and a row that fits is placed at the gap's upper end.
LEMMA FreeSpace ==
    ASSUME NEW page \in Page, Sound(page)
    PROVE  /\ GetFreeSpaceRemaining(page) = page.fsp - SlotEnd(page)
           /\ GetFreeSpaceRemaining(page) \in Nat
           /\ SlotEnd(page) \in Nat
<1>1. page.fsp \in 0 .. PageSize /\ Len(page.slots) \in Nat
  BY DEF Page
<1>2. SlotEnd(page) \in Nat
  BY <1>1 DEF SlotEnd, HeaderSize, SlotSize
<1>3. page.fsp - SlotEnd(page) \in Nat /\ page.fsp - SlotEnd(page) < Word
  BY <1>1, <1>2, WordAssumption, PageSizeAssumption DEF Sound
<1> QED
  BY <1>2, <1>3, NoWrap DEF GetFreeSpaceRemaining

\* A row no larger than the free space gets the bytes just below the tuples.
LEMMA PlacedBelow ==
    ASSUME NEW page \in Page, Sound(page), NEW row \in Rows,
           Size(row) <= GetFreeSpaceRemaining(page)
    PROVE  /\ Placed(page, row) \in SlotRecord
           /\ Placed(page, row).off = page.fsp - Size(row)
           /\ Placed(page, row).len = Size(row)
           /\ SlotEnd(page) <= Placed(page, row).off
<1>1. page.fsp \in 0 .. PageSize /\ Size(row) \in Nat \ {0}
  BY RowsAssumption DEF Page
<1>2. Size(row) <= page.fsp - SlotEnd(page) /\ SlotEnd(page) \in Nat
  BY FreeSpace
<1>3. page.fsp - Size(row) \in Nat /\ page.fsp - Size(row) < Word
      /\ SlotEnd(page) <= page.fsp - Size(row)
  BY <1>1, <1>2, WordAssumption, PageSizeAssumption
<1>4. (page.fsp - Size(row)) % Word = page.fsp - Size(row)
  BY <1>3, NoWrap
<1>5. page.fsp - Size(row) \in 0 .. PageSize /\ Size(row) \in 0 .. PageSize
  BY <1>1, <1>3, PageSizeAssumption
<1> QED
  BY <1>3, <1>4, <1>5 DEF Placed, SlotRecord

\* InsertTuple on a page keeps it sound: the test leaves room for the slot.
LEMMA WithTupleSound ==
    ASSUME NEW page \in Page, Sound(page), NEW row \in Rows, Fits(page, row)
    PROVE  WithTuple(page, row) \in Page /\ Sound(WithTuple(page, row))
<1> PICK new : new = WithTuple(page, row)
  OBVIOUS
<1> PICK slot : slot = Placed(page, row)
  OBVIOUS
<1>1. Size(row) \in Nat \ {0} /\ page.fsp \in 0 .. PageSize
      /\ page.slots \in Seq(SlotRecord)
  BY RowsAssumption DEF Page
<1>2. /\ Size(row) + SlotSize <= page.fsp - SlotEnd(page)
      /\ Size(row) <= GetFreeSpaceRemaining(page)
      /\ SlotEnd(page) \in Nat
  BY FreeSpace, <1>1 DEF Fits, SlotSize
<1>3. /\ slot \in SlotRecord
      /\ slot.off = page.fsp - Size(row) /\ slot.len = Size(row)
  BY PlacedBelow, <1>2
<1>4. new.fsp = slot.off /\ new.slots = Append(page.slots, slot)
  BY DEF WithTuple
<1>5. new \in Page
  <2>1. slot.off \in 0 .. PageSize
    BY <1>3 DEF SlotRecord
  <2>2. Append(page.slots, slot) \in Seq(SlotRecord)
    BY <1>1, <1>3
  <2> QED
    BY <2>1, <2>2 DEF WithTuple, Page
<1>6. /\ Len(new.slots) = Len(page.slots) + 1
      /\ \A s \in DOMAIN new.slots : new.slots[s] = IF s = Len(page.slots) + 1 THEN slot
                                                    ELSE page.slots[s]
      /\ \A s \in DOMAIN new.slots : s = Len(page.slots) + 1 \/ s \in DOMAIN page.slots
  BY <1>1, <1>3, <1>4
<1>7. SlotEnd(new) <= new.fsp /\ new.fsp <= PageSize
  BY <1>1, <1>2, <1>3, <1>4, <1>6, PageSizeAssumption DEF SlotEnd, HeaderSize, SlotSize
<1>8. ASSUME NEW s \in DOMAIN page.slots, page.slots[s].len > 0
      PROVE  Within(new, page.slots[s]) /\ Apart(page.slots[s], slot)
             /\ Apart(slot, page.slots[s])
  <2>1. page.slots[s].off \in 0 .. PageSize /\ page.slots[s].len \in 0 .. PageSize
    BY SlotTypes
  <2>2. Within(page, page.slots[s])
    BY <1>8 DEF Sound
  <2> QED
    BY <2>1, <2>2, <1>1, <1>3, <1>4, PageSizeAssumption DEF Within, Apart
<1>9. Within(new, slot)
  BY <1>1, <1>3, <1>4, PageSizeAssumption DEF Within
<1>10. \A s \in DOMAIN new.slots : new.slots[s].len > 0 => Within(new, new.slots[s])
  BY <1>6, <1>8, <1>9
<1>11. \A s, r \in DOMAIN page.slots :
          s # r /\ page.slots[s].len > 0 /\ page.slots[r].len > 0
             => Apart(page.slots[s], page.slots[r])
  BY DEF Sound
<1>12. \A s, r \in DOMAIN new.slots :
          s # r /\ new.slots[s].len > 0 /\ new.slots[r].len > 0
             => Apart(new.slots[s], new.slots[r])
  BY <1>6, <1>8, <1>11
<1> QED
  BY <1>5, <1>7, <1>10, <1>12 DEF Sound

\* DeleteTuple keeps a page sound: it only takes bytes out of use.
LEMMA WithoutTupleSound ==
    ASSUME NEW page \in Page, Sound(page), NEW s \in DOMAIN page.slots
    PROVE  WithoutTuple(page, s) \in Page /\ Sound(WithoutTuple(page, s))
<1> PICK new : new = WithoutTuple(page, s)
  OBVIOUS
<1> PICK slot : slot = Cleared(page.slots[s])
  OBVIOUS
<1>1. page.slots \in Seq(SlotRecord) /\ page.fsp \in 0 .. PageSize
  BY DEF Page
<1>2. slot \in SlotRecord /\ slot.len = 0
  BY SlotTypes, PageSizeAssumption DEF Cleared, SlotRecord
<1>3. new.fsp = page.fsp /\ new.slots = [page.slots EXCEPT ![s] = slot]
  BY DEF WithoutTuple
<1>4. [page.slots EXCEPT ![s] = slot] \in Seq(SlotRecord)
  BY <1>1, <1>2
<1>5. new \in Page
  BY <1>1, <1>4 DEF WithoutTuple, Page
<1>6. /\ Len(new.slots) = Len(page.slots)
      /\ DOMAIN new.slots = DOMAIN page.slots
      /\ \A r \in DOMAIN new.slots : new.slots[r] = IF r = s THEN slot ELSE page.slots[r]
  BY <1>1, <1>3, <1>4
<1>7. \A r \in DOMAIN new.slots :
         new.slots[r].len > 0 => page.slots[r].len > 0 /\ new.slots[r] = page.slots[r]
  BY <1>2, <1>6
<1>8. SlotEnd(new) <= new.fsp /\ new.fsp <= PageSize
  BY <1>3, <1>6 DEF Sound, SlotEnd
<1>9. \A r \in DOMAIN new.slots : new.slots[r].len > 0 => Within(new, new.slots[r])
  BY <1>3, <1>6, <1>7 DEF Sound, Within
<1>10. \A q, r \in DOMAIN new.slots :
          q # r /\ new.slots[q].len > 0 /\ new.slots[r].len > 0
             => Apart(new.slots[q], new.slots[r])
  BY <1>6, <1>7 DEF Sound
<1> QED
  BY <1>5, <1>8, <1>9, <1>10 DEF Sound

\* UpdateTuple keeps a page sound if the new row fits into the free space.
LEMMA UpdatedSound ==
    ASSUME NEW page \in Page, Sound(page), NEW s \in DOMAIN page.slots,
           NEW row \in Rows, Size(row) <= GetFreeSpaceRemaining(page)
    PROVE  Updated(page, s, row) \in Page /\ Sound(Updated(page, s, row))
<1> PICK new : new = Updated(page, s, row)
  OBVIOUS
<1> PICK slot : slot = Placed(page, row)
  OBVIOUS
<1>1. Size(row) \in Nat \ {0} /\ page.fsp \in 0 .. PageSize
      /\ page.slots \in Seq(SlotRecord)
  BY RowsAssumption DEF Page
<1>2. /\ slot \in SlotRecord
      /\ slot.off = page.fsp - Size(row) /\ slot.len = Size(row)
      /\ SlotEnd(page) <= slot.off
  BY PlacedBelow
<1>3. new.fsp = slot.off /\ new.slots = [page.slots EXCEPT ![s] = slot]
  BY DEF Updated
<1>4. [page.slots EXCEPT ![s] = slot] \in Seq(SlotRecord)
  BY <1>1, <1>2
<1>5. new \in Page
  <2>1. slot.off \in 0 .. PageSize
    BY <1>2 DEF SlotRecord
  <2> QED
    BY <2>1, <1>4 DEF Updated, Page
<1>6. /\ Len(new.slots) = Len(page.slots)
      /\ DOMAIN new.slots = DOMAIN page.slots
      /\ \A r \in DOMAIN new.slots : new.slots[r] = IF r = s THEN slot ELSE page.slots[r]
  BY <1>1, <1>3, <1>4
<1>7. SlotEnd(new) <= new.fsp /\ new.fsp <= PageSize
  BY <1>1, <1>2, <1>3, <1>6, PageSizeAssumption DEF SlotEnd
<1>8. ASSUME NEW r \in DOMAIN page.slots, page.slots[r].len > 0
      PROVE  Within(new, page.slots[r]) /\ Apart(page.slots[r], slot)
             /\ Apart(slot, page.slots[r])
  <2>1. page.slots[r].off \in 0 .. PageSize /\ page.slots[r].len \in 0 .. PageSize
    BY SlotTypes
  <2>2. Within(page, page.slots[r])
    BY <1>8 DEF Sound
  <2>3. new.fsp = page.fsp - Size(row)
    BY <1>2, <1>3
  <2>4. Within(new, page.slots[r])
    BY <2>1, <2>2, <2>3, <1>1, PageSizeAssumption DEF Within
  <2>5. slot.off + slot.len <= page.slots[r].off
    BY <2>1, <2>2, <1>1, <1>2, PageSizeAssumption DEF Within
  <2> QED
    BY <2>4, <2>5 DEF Apart
<1>9. Within(new, slot)
  BY <1>1, <1>2, <1>3, PageSizeAssumption DEF Within
<1>10. \A r \in DOMAIN new.slots : new.slots[r].len > 0 => Within(new, new.slots[r])
  BY <1>6, <1>8, <1>9
<1>11. \A q, r \in DOMAIN page.slots :
          q # r /\ page.slots[q].len > 0 /\ page.slots[r].len > 0
             => Apart(page.slots[q], page.slots[r])
  BY DEF Sound
<1>12. \A q, r \in DOMAIN new.slots :
          q # r /\ new.slots[q].len > 0 /\ new.slots[r].len > 0
             => Apart(new.slots[q], new.slots[r])
  BY <1>6, <1>8, <1>11
<1> QED
  BY <1>5, <1>7, <1>10, <1>12 DEF Sound

\* A page fresh from Init is sound.
LEMMA EmptyPageSound == EmptyPage \in Page /\ Sound(EmptyPage)
<1>1. PageSize \in 0 .. PageSize /\ << >> \in Seq(SlotRecord)
  BY PageSizeAssumption
<1>2. EmptyPage \in Page
  BY <1>1 DEF EmptyPage, Page
<1> QED
  BY <1>2, PageSizeAssumption DEF EmptyPage, Sound, SlotEnd, HeaderSize, SlotSize

-----------------------------------------------------------------------------
(* Pages that may be torn. *)

\* A page with the types of an intact one has those of any page.
LEMMA PageIsAnyPage == Page \subseteq AnyPage
<1> SUFFICES ASSUME NEW page \in Page PROVE page \in AnyPage
  OBVIOUS
<1>1. page.slots \in Seq(SlotRecord)
  BY DEF Page
<1>2. page.slots \in Seq(SlotRecord \cup Noise)
  BY <1>1
<1> QED
  BY <1>2 DEF Page, AnyPage

\* A copy above the header lands in the page, also on one that is torn.
LEMMA PlacedInPage ==
    ASSUME NEW page \in AnyPage, NEW row \in Rows, ~ReachesHeader(page, row)
    PROVE  /\ Placed(page, row) \in SlotRecord
           /\ Placed(page, row).off = page.fsp - Size(row)
           /\ Placed(page, row).len = Size(row)
<1>1. page.fsp \in 0 .. PageSize /\ Size(row) \in Nat \ {0}
  BY RowsAssumption DEF AnyPage
<1>2. 12 + Size(row) <= page.fsp
  BY <1>1, PageSizeAssumption DEF ReachesHeader, HeaderUsed
<1>3. page.fsp - Size(row) \in Nat /\ page.fsp - Size(row) < Word
  BY <1>1, <1>2, WordAssumption, PageSizeAssumption
<1>4. (page.fsp - Size(row)) % Word = page.fsp - Size(row)
  BY <1>3, NoWrap
<1>5. page.fsp - Size(row) \in 0 .. PageSize /\ Size(row) \in 0 .. PageSize
  BY <1>1, <1>2, <1>3, PageSizeAssumption
<1> QED
  BY <1>4, <1>5 DEF Placed, SlotRecord

\* memcpy() leaves the free space pointer and the number of slots alone when it
\* stays above the header, ...
LEMMA WrittenPage ==
    ASSUME NEW page \in AnyPage, NEW row \in Rows, NEW new \in Written(page, row)
    PROVE  /\ new \in AnyPage /\ new.fsp = page.fsp
           /\ DOMAIN new.slots = DOMAIN page.slots /\ Len(new.slots) = Len(page.slots)
<1> PICK noise \in [Hit(page, row) -> Noise] :
         new = [page EXCEPT !.slots = [s \in DOMAIN page.slots |->
                  IF s \in Hit(page, row) THEN noise[s] ELSE page.slots[s]]]
  BY DEF Written
<1> PICK slots : slots = [s \in DOMAIN page.slots |->
                  IF s \in Hit(page, row) THEN noise[s] ELSE page.slots[s]]
  OBVIOUS
<1>1. page.slots \in Seq(SlotRecord \cup Noise) /\ page.fsp \in 0 .. PageSize
  BY DEF AnyPage
<1>2. /\ slots = [s \in 1 .. Len(page.slots) |-> slots[s]]
      /\ Len(page.slots) \in Nat
      /\ \A s \in 1 .. Len(page.slots) : slots[s] \in SlotRecord \cup Noise
  BY <1>1
<1>3. slots \in Seq(SlotRecord \cup Noise) /\ Len(slots) = Len(page.slots)
      /\ DOMAIN slots = DOMAIN page.slots
  BY <1>1, <1>2
<1>4. new.fsp = page.fsp /\ new.slots = slots /\ new = [fsp |-> page.fsp, slots |-> slots]
  BY DEF AnyPage
<1> QED
  BY <1>1, <1>3, <1>4 DEF AnyPage

\* ... and every slot too when the page has room.
LEMMA WrittenWithRoom ==
    ASSUME NEW page \in AnyPage, NEW row \in Rows, HasRoom(page, row)
    PROVE  ~ReachesHeader(page, row) /\ \A new \in Written(page, row) : new = page
<1>1. /\ page.slots \in Seq(SlotRecord \cup Noise) /\ page.fsp \in 0 .. PageSize
      /\ page = [fsp |-> page.fsp, slots |-> page.slots]
      /\ Size(row) \in Nat \ {0} /\ Len(page.slots) \in Nat
  BY RowsAssumption DEF AnyPage
<1>2. 16 + Len(page.slots) * 4 + Size(row) <= page.fsp
  BY DEF HasRoom, SlotEnd, HeaderSize, SlotSize
<1>3. ~ReachesHeader(page, row)
  BY <1>1, <1>2, PageSizeAssumption DEF ReachesHeader, HeaderUsed
<1>4. Hit(page, row) = {}
  <2> SUFFICES ASSUME NEW s \in Hit(page, row) PROVE FALSE
    OBVIOUS
  <2>1. s \in 1 .. Len(page.slots) /\ page.fsp - Size(row) < 16 + s * 4
    BY <1>1 DEF Hit, HeaderSize, SlotSize
  <2> QED
    BY <2>1, <1>1, <1>2, PageSizeAssumption
<1>5. ASSUME NEW new \in Written(page, row)
      PROVE  new = page
  <2>1. new = [page EXCEPT !.slots = [s \in DOMAIN page.slots |-> page.slots[s]]]
    BY <1>4 DEF Written
  <2>2. [s \in DOMAIN page.slots |-> page.slots[s]] = page.slots
    BY <1>1
  <2> QED
    BY <2>1, <2>2, <1>1
<1> QED
  BY <1>3, <1>5

\* A row that InsertTuple accepts has room on a sound page.
LEMMA FitsHasRoom ==
    ASSUME NEW page \in Page, Sound(page), NEW row \in Rows, Fits(page, row)
    PROVE  HasRoom(page, row)
BY FreeSpace, RowsAssumption DEF Fits, HasRoom, SlotSize, Page

-----------------------------------------------------------------------------
(* The heap. *)

\* The inductive invariant behind TuplesIntact: types on every page, and sound
\* pages except for the torn ones.
Layout ==
    /\ pages \in Seq(AnyPage) /\ pages # <<>>
    /\ torn \subseteq DOMAIN pages
    /\ \A i \in DOMAIN pages \ torn : pages[i] \in Page /\ Sound(pages[i])

\* What a page that takes the place of page i must be.
Good(page, i, tears) ==
    page \in AnyPage /\ (i \notin tears => page \in Page /\ Sound(page))

\* A good page in the place of another keeps the layout invariant.
LEMMA ReplacedPage ==
    ASSUME Layout, NEW i \in DOMAIN pages, NEW page, Good(page, i, torn'),
           pages' = [pages EXCEPT ![i] = page], torn \subseteq torn', torn' \subseteq DOMAIN pages
    PROVE  Layout'
BY DEF Layout, Good

\* A sound page behind the others keeps the layout invariant.
LEMMA AddedPage ==
    ASSUME Layout, NEW page \in Page, Sound(page), pages' = Append(pages, page),
           UNCHANGED torn
    PROVE  Layout'
BY PageIsAnyPage DEF Layout

\* A rid of a slot names a page of the chain and a slot of that page.
LEMMA SlotsOfPages ==
    ASSUME Layout, NEW rid \in Slots
    PROVE  /\ rid = <<rid[1], rid[2]>>
           /\ rid[1] \in DOMAIN pages /\ rid[2] \in DOMAIN pages[rid[1]].slots
           /\ pages[rid[1]] \in AnyPage
           /\ rid[1] \in Nat /\ rid[2] \in Nat \ {0}
<1>1. PICK i \in DOMAIN pages : rid \in {i} \X DOMAIN pages[i].slots
  BY DEF Slots
<1>2. pages[i] \in AnyPage /\ i \in Nat
  BY DEF Layout
<1>3. pages[i].slots \in Seq(SlotRecord \cup Noise)
  BY <1>2 DEF AnyPage
<1>4. rid[1] = i /\ rid[2] \in DOMAIN pages[i].slots /\ rid = <<rid[1], rid[2]>>
  BY <1>1
<1>5. rid[2] \in Nat \ {0}
  BY <1>3, <1>4
<1> QED
  BY <1>2, <1>4, <1>5

\* The page that InsertTuple leaves has one more slot; the others are as they
\* were unless the page is torn.
LEMMA InsertedPage ==
    ASSUME Layout, NEW row \in Rows, NEW i \in DOMAIN pages, Fits(pages[i], row),
           ~ReachesHeader(pages[i], row), NEW page \in Written(pages[i], row),
           NEW new, new = WithTuple(page, row), NEW n, n = Len(pages[i].slots) + 1
    PROVE  /\ Good(new, i, torn)
           /\ n \notin DOMAIN pages[i].slots
           /\ DOMAIN new.slots = DOMAIN pages[i].slots \cup {n}
           /\ new.slots[n].len > 0 /\ new.slots[n].row = row
           /\ i \notin torn => \A s \in DOMAIN pages[i].slots : new.slots[s] = pages[i].slots[s]
<1>1. pages[i] \in AnyPage
  BY DEF Layout
<1>2. page \in AnyPage /\ page.fsp = pages[i].fsp
      /\ DOMAIN page.slots = DOMAIN pages[i].slots /\ Len(page.slots) = Len(pages[i].slots)
  BY <1>1, WrittenPage
<1>3. ~ReachesHeader(page, row)
  BY <1>2 DEF ReachesHeader
<1> PICK slot : slot = Placed(page, row)
  OBVIOUS
<1>4. slot \in SlotRecord /\ slot.off = page.fsp - Size(row) /\ slot.len = Size(row)
      /\ slot.row = row
  BY <1>2, <1>3, PlacedInPage DEF Placed
<1>5. page.slots \in Seq(SlotRecord \cup Noise)
  BY <1>2 DEF AnyPage
<1>6. new = [fsp |-> slot.off, slots |-> Append(page.slots, slot)]
  BY DEF WithTuple
<1>7. new \in AnyPage
  <2>1. slot.off \in 0 .. PageSize
    BY <1>4 DEF SlotRecord
  <2>2. Append(page.slots, slot) \in Seq(SlotRecord \cup Noise)
    BY <1>4, <1>5
  <2> QED
    BY <2>1, <2>2, <1>6 DEF AnyPage
<1>8. /\ DOMAIN new.slots = DOMAIN page.slots \cup {n} /\ n \notin DOMAIN page.slots
      /\ new.slots[n] = slot
      /\ \A s \in DOMAIN page.slots : new.slots[s] = page.slots[s]
  BY <1>2, <1>5, <1>6
<1>9. ASSUME i \notin torn
      PROVE  page = pages[i] /\ new \in Page /\ Sound(new)
  <2>1. pages[i] \in Page /\ Sound(pages[i])
    BY <1>9 DEF Layout
  <2>2. page = pages[i]
    BY <2>1, <1>1, FitsHasRoom, WrittenWithRoom
  <2> QED
    BY <2>1, <2>2, WithTupleSound
<1> QED
  BY <1>2, <1>4, <1>7, <1>8, <1>9, RowsAssumption DEF Good

\* The page that DeleteTuple leaves.
LEMMA DeletedPage ==
    ASSUME Layout, NEW i \in DOMAIN pages, NEW s \in DOMAIN pages[i].slots,
           NEW new, new = WithoutTuple(pages[i], s)
    PROVE  /\ Good(new, i, torn)
           /\ DOMAIN new.slots = DOMAIN pages[i].slots
           /\ \A r \in DOMAIN pages[i].slots : r # s => new.slots[r] = pages[i].slots[r]
           /\ new.slots[s].len = 0
<1> PICK slot : slot = Cleared(pages[i].slots[s])
  OBVIOUS
<1>1. pages[i] \in AnyPage /\ pages[i].slots \in Seq(SlotRecord \cup Noise)
  <2>1. pages[i] \in AnyPage
    BY DEF Layout
  <2> QED
    BY <2>1 DEF AnyPage
<1>2. pages[i].slots[s] \in SlotRecord \cup Noise
  BY <1>1
<1>3. slot \in SlotRecord /\ slot.len = 0
  BY <1>2, PageSizeAssumption, NoiseAssumption DEF Cleared, SlotRecord
<1>4. new = [fsp |-> pages[i].fsp, slots |-> [pages[i].slots EXCEPT ![s] = slot]]
  BY DEF WithoutTuple
<1>5. [pages[i].slots EXCEPT ![s] = slot] \in Seq(SlotRecord \cup Noise)
  BY <1>1, <1>3
<1>6. new \in AnyPage
  BY <1>1, <1>4, <1>5 DEF AnyPage
<1>7. i \notin torn => new \in Page /\ Sound(new)
  BY WithoutTupleSound DEF Layout
<1> QED
  BY <1>1, <1>3, <1>4, <1>6, <1>7 DEF Good

\* The page that UpdateTuple leaves: its slot holds the row; the others are as
\* they were unless the page is torn, as it is without room.
LEMMA UpdatedPage ==
    ASSUME Layout, NEW row \in Rows, NEW i \in DOMAIN pages, NEW s \in DOMAIN pages[i].slots,
           ~ReachesHeader(pages[i], row), NEW page \in Written(pages[i], row),
           NEW new, new = Updated(page, s, row),
           NEW tears, HasRoom(pages[i], row) => tears = torn,
           ~HasRoom(pages[i], row) => tears = torn \cup {i}
    PROVE  /\ Good(new, i, tears)
           /\ DOMAIN new.slots = DOMAIN pages[i].slots
           /\ new.slots[s].len > 0 /\ new.slots[s].row = row
           /\ i \notin tears =>
                 \A r \in DOMAIN pages[i].slots : r # s => new.slots[r] = pages[i].slots[r]
<1>1. pages[i] \in AnyPage
  BY DEF Layout
<1>2. page \in AnyPage /\ page.fsp = pages[i].fsp
      /\ DOMAIN page.slots = DOMAIN pages[i].slots
  BY <1>1, WrittenPage
<1>3. ~ReachesHeader(page, row)
  BY <1>2 DEF ReachesHeader
<1> PICK slot : slot = Placed(page, row)
  OBVIOUS
<1>4. slot \in SlotRecord /\ slot.off = page.fsp - Size(row) /\ slot.len = Size(row)
      /\ slot.row = row
  BY <1>2, <1>3, PlacedInPage DEF Placed
<1>5. page.slots \in Seq(SlotRecord \cup Noise)
  BY <1>2 DEF AnyPage
<1>6. new = [fsp |-> slot.off, slots |-> [page.slots EXCEPT ![s] = slot]]
  BY DEF Updated
<1>7. [page.slots EXCEPT ![s] = slot] \in Seq(SlotRecord \cup Noise)
  BY <1>2, <1>4, <1>5
<1>8. new \in AnyPage
  <2>1. slot.off \in 0 .. PageSize
    BY <1>4 DEF SlotRecord
  <2> QED
    BY <2>1, <1>6, <1>7 DEF AnyPage
<1>9. /\ DOMAIN new.slots = DOMAIN page.slots
      /\ new.slots[s] = slot
      /\ \A r \in DOMAIN page.slots : r # s => new.slots[r] = page.slots[r]
  BY <1>2, <1>5, <1>6
<1>10. ASSUME i \notin tears
       PROVE  page = pages[i] /\ new \in Page /\ Sound(new)
  <2>1. i \notin torn /\ HasRoom(pages[i], row)
    BY <1>10
  <2>2. pages[i] \in Page /\ Sound(pages[i])
    BY <2>1 DEF Layout
  <2>3. page = pages[i]
    BY <2>1, <1>1, WrittenWithRoom
  <2>4. Size(row) <= GetFreeSpaceRemaining(pages[i])
    BY <2>1, <2>2, FreeSpace, RowsAssumption DEF HasRoom, Page
  <2> QED
    BY <2>2, <2>3, <2>4, UpdatedSound
<1> QED
  BY <1>2, <1>4, <1>8, <1>9, <1>10, RowsAssumption DEF Good

\* The constructor's one empty page is sound.
LEMMA InitLayout == Init => Layout
<1> SUFFICES ASSUME Init PROVE Layout
  OBVIOUS
<1>1. pages = <<EmptyPage>> /\ torn = {}
  BY DEF Init
<1>2. EmptyPage \in Page /\ EmptyPage \in AnyPage /\ Sound(EmptyPage)
  BY EmptyPageSound, PageIsAnyPage
<1> QED
  BY <1>1, <1>2 DEF Layout

\* A page takes the place of page i and has the slots S besides.
Replaces(page, i, S) ==
    /\ pages' = [pages EXCEPT ![i] = page]
    /\ DOMAIN page.slots = DOMAIN pages[i].slots \cup S

\* A page replaced: its slots change, and no others.
LEMMA SlotsChange ==
    ASSUME Layout, NEW i \in DOMAIN pages, NEW page, NEW S, Replaces(page, i, S)
    PROVE  /\ DOMAIN pages' = DOMAIN pages
           /\ Slots' = Slots \cup ({i} \X S)
           /\ \A r \in Slots : r[1] # i => SlotAt(r)' = SlotAt(r)
           /\ \A s : SlotAt(<<i, s>>)' = page.slots[s]
<1>1. DOMAIN pages' = DOMAIN pages
      /\ (\A j \in DOMAIN pages : pages'[j] = IF j = i THEN page ELSE pages[j])
      /\ DOMAIN page.slots = DOMAIN pages[i].slots \cup S
  BY DEF Layout, Replaces
<1>2. ASSUME NEW r
      PROVE  r \in Slots' <=> r \in Slots \cup ({i} \X S)
  <2>1. r \in Slots' <=> \E j \in DOMAIN pages : r \in {j} \X DOMAIN pages'[j].slots
    BY <1>1 DEF Slots
  <2>2. r \in Slots <=> \E j \in DOMAIN pages : r \in {j} \X DOMAIN pages[j].slots
    BY DEF Slots
  <2>3. \A j \in DOMAIN pages :
           r \in {j} \X DOMAIN pages'[j].slots
              <=> r \in {j} \X DOMAIN pages[j].slots \/ (j = i /\ r \in {i} \X S)
    BY <1>1
  <2> QED
    BY <2>1, <2>2, <2>3
<1>3. ASSUME NEW r \in Slots, r[1] # i
      PROVE  SlotAt(r)' = SlotAt(r)
  BY <1>1, <1>3, SlotsOfPages DEF SlotAt
<1>4. \A s : SlotAt(<<i, s>>)' = page.slots[s]
  BY <1>1 DEF SlotAt
<1> QED
  BY <1>1, <1>2, <1>3, <1>4

\* A page added to the chain.
LEMMA PageAdded ==
    ASSUME Layout, NEW page, pages' = Append(pages, page), NEW n, n = Len(pages) + 1
    PROVE  /\ n \notin DOMAIN pages /\ DOMAIN pages' = DOMAIN pages \cup {n}
           /\ Slots' = Slots \cup ({n} \X DOMAIN page.slots)
           /\ \A r \in Slots : SlotAt(r)' = SlotAt(r)
           /\ \A s : SlotAt(<<n, s>>)' = page.slots[s]
<1>1. /\ DOMAIN pages' = DOMAIN pages \cup {n} /\ n \notin DOMAIN pages
      /\ \A j \in DOMAIN pages : pages'[j] = pages[j]
      /\ pages'[n] = page
  BY DEF Layout
<1>2. ASSUME NEW r
      PROVE  r \in Slots' <=> r \in Slots \cup ({n} \X DOMAIN page.slots)
  BY <1>1 DEF Slots
<1>3. \A r \in Slots : SlotAt(r)' = SlotAt(r)
  BY <1>1, SlotsOfPages DEF SlotAt
<1>4. \A s : SlotAt(<<n, s>>)' = page.slots[s]
  BY <1>1 DEF SlotAt
<1> QED
  BY <1>1, <1>2, <1>3, <1>4

-----------------------------------------------------------------------------
(* What each operation does to the heap. *)

\* The slots of pages that are not torn stay, but for the one at rid.
OthersStay(rid) ==
    \A r \in Slots : r # rid /\ r[1] \notin torn' => SlotAt(r)' = SlotAt(r)

\* A rid is handed out, and the row is found there.
Inserted(rid, row) ==
    /\ rid \notin Slots /\ Slots' = Slots \cup {rid}
    /\ OthersStay(rid)
    /\ SlotAt(rid)'.len > 0 /\ SlotAt(rid)'.row = row

\* InsertTuple hands out a rid never used before, adds an empty page, or, on a
\* torn page, destroys the header.
LEMMA InsertEffect ==
    ASSUME Layout, NEW row \in Rows, InsertTuple(row)
    PROVE  /\ Layout' /\ DOMAIN pages \subseteq DOMAIN pages'
           /\ \/ \E rid : Inserted(rid, row)
              \/ Slots' = Slots /\ \A r \in Slots : SlotAt(r)' = SlotAt(r)
<1>1. UNCHANGED torn /\ torn \subseteq DOMAIN pages
  BY DEF InsertTuple, Layout
<1>2. CASE InsertFirstFit(row)
  <2>1. PICK i \in DOMAIN pages :
            /\ Fits(pages[i], row)
            /\ \/ /\ ~ReachesHeader(pages[i], row)
                  /\ \E page \in Written(pages[i], row) :
                        pages' = [pages EXCEPT ![i] = WithTuple(page, row)]
               \/ UNCHANGED pages
    BY <1>2 DEF InsertFirstFit
  <2>2. CASE UNCHANGED pages
    BY <1>1, <2>2 DEF Layout, Slots, SlotAt
  <2>3. ASSUME ~ReachesHeader(pages[i], row), NEW page \in Written(pages[i], row),
               pages' = [pages EXCEPT ![i] = WithTuple(page, row)]
        PROVE  Layout' /\ DOMAIN pages \subseteq DOMAIN pages' /\ \E rid : Inserted(rid, row)
    <3> PICK new : new = WithTuple(page, row)
      OBVIOUS
    <3> PICK n : n = Len(pages[i].slots) + 1
      OBVIOUS
    <3>1. /\ Good(new, i, torn)
          /\ n \notin DOMAIN pages[i].slots
          /\ DOMAIN new.slots = DOMAIN pages[i].slots \cup {n}
          /\ new.slots[n].len > 0 /\ new.slots[n].row = row
          /\ i \notin torn => \A s \in DOMAIN pages[i].slots : new.slots[s] = pages[i].slots[s]
      BY <2>1, <2>3, InsertedPage
    <3>2. pages' = [pages EXCEPT ![i] = new]
      BY <2>3
    <3>3. Layout'
      BY <1>1, <3>1, <3>2, ReplacedPage
    <3>4. /\ DOMAIN pages' = DOMAIN pages
          /\ Slots' = Slots \cup ({i} \X {n})
          /\ \A r \in Slots : r[1] # i => SlotAt(r)' = SlotAt(r)
          /\ \A s : SlotAt(<<i, s>>)' = new.slots[s]
      <4>1. Replaces(new, i, {n})
        BY <3>1, <3>2 DEF Replaces
      <4> QED
        BY <4>1, SlotsChange
    <3>5. OthersStay(<<i, n>>)
      <4> SUFFICES ASSUME NEW r \in Slots, r[1] \notin torn, r[1] = i
                   PROVE  SlotAt(r)' = SlotAt(r)
        BY <1>1, <3>4 DEF OthersStay
      <4>1. r = <<i, r[2]>> /\ r[2] \in DOMAIN pages[i].slots
        BY SlotsOfPages
      <4> QED
        BY <3>1, <3>4, <4>1 DEF SlotAt
    <3>6. <<i, n>> \notin Slots
      BY <3>1, SlotsOfPages
    <3>7. Inserted(<<i, n>>, row)
      BY <3>1, <3>4, <3>5, <3>6 DEF Inserted
    <3> QED
      BY <3>3, <3>4, <3>7
  <2> QED
    BY <2>1, <2>2, <2>3
<1>3. CASE InsertNewPage(row)
  <2> PICK n : n = Len(pages) + 1
    OBVIOUS
  <2>1. PICK page : /\ page = IF Fits(EmptyPage, row) THEN WithTuple(EmptyPage, row)
                                                      ELSE EmptyPage
                    /\ pages' = Append(pages, page)
    BY <1>3 DEF InsertNewPage
  <2>2. page \in Page /\ Sound(page)
    BY <2>1, EmptyPageSound, WithTupleSound
  <2>3. Layout'
    BY <1>1, <2>1, <2>2, AddedPage
  <2>4. /\ n \notin DOMAIN pages /\ DOMAIN pages' = DOMAIN pages \cup {n}
        /\ Slots' = Slots \cup ({n} \X DOMAIN page.slots)
        /\ \A r \in Slots : SlotAt(r)' = SlotAt(r)
        /\ \A s : SlotAt(<<n, s>>)' = page.slots[s]
    BY <2>1, PageAdded
  <2>5. CASE Fits(EmptyPage, row)
    <3>1. DOMAIN page.slots = {1} /\ page.slots[1] = Placed(EmptyPage, row)
      BY <2>1, <2>5 DEF WithTuple, EmptyPage
    <3>2. page.slots[1].len > 0 /\ page.slots[1].row = row
      BY <3>1, RowsAssumption DEF Placed
    <3>3. <<n, 1>> \notin Slots
      BY <2>4, SlotsOfPages
    <3>4. Inserted(<<n, 1>>, row)
      BY <2>4, <3>1, <3>2, <3>3 DEF Inserted, OthersStay
    <3> QED
      BY <2>3, <2>4, <3>4
  <2>6. CASE ~Fits(EmptyPage, row)
    <3>1. DOMAIN page.slots = {}
      BY <2>1, <2>6 DEF EmptyPage
    <3> QED
      BY <2>3, <2>4, <3>1
  <2> QED
    BY <2>5, <2>6
<1> QED
  BY <1>2, <1>3 DEF InsertTuple

\* DeleteTuple clears the slot it is given.
LEMMA DeleteEffect ==
    ASSUME Layout, NEW rid \in Slots, DeleteTuple(rid)
    PROVE  /\ Layout' /\ DOMAIN pages' = DOMAIN pages /\ Slots' = Slots
           /\ OthersStay(rid) /\ SlotAt(rid)'.len = 0
<1>1. /\ rid = <<rid[1], rid[2]>> /\ rid[1] \in DOMAIN pages
      /\ rid[2] \in DOMAIN pages[rid[1]].slots
  BY SlotsOfPages
<1> PICK i \in DOMAIN pages : i = rid[1]
  BY <1>1
<1> PICK d \in DOMAIN pages[i].slots : d = rid[2]
  BY <1>1
<1> PICK new : new = WithoutTuple(pages[i], d)
  OBVIOUS
<1>2. /\ Good(new, i, torn)
      /\ DOMAIN new.slots = DOMAIN pages[i].slots
      /\ \A s \in DOMAIN pages[i].slots : s # d => new.slots[s] = pages[i].slots[s]
      /\ new.slots[d].len = 0
  BY DeletedPage
<1>3. pages' = [pages EXCEPT ![i] = new] /\ UNCHANGED torn /\ torn \subseteq DOMAIN pages
  BY DEF DeleteTuple, Layout
<1>4. Layout'
  BY <1>2, <1>3, ReplacedPage
<1>5. /\ DOMAIN pages' = DOMAIN pages
      /\ Slots' = Slots \cup ({i} \X {})
      /\ \A r \in Slots : r[1] # i => SlotAt(r)' = SlotAt(r)
      /\ \A s : SlotAt(<<i, s>>)' = new.slots[s]
  <2>1. Replaces(new, i, {})
    BY <1>2, <1>3 DEF Replaces
  <2> QED
    BY <2>1, SlotsChange
<1>6. OthersStay(rid)
  <2> SUFFICES ASSUME NEW r \in Slots, r # rid, r[1] = i
               PROVE  SlotAt(r)' = SlotAt(r)
    BY <1>5 DEF OthersStay
  <2>1. r = <<i, r[2]>> /\ r[2] \in DOMAIN pages[i].slots /\ r[2] # d
    BY <1>1, SlotsOfPages
  <2> QED
    BY <1>2, <1>5, <2>1 DEF SlotAt
<1>7. SlotAt(rid)'.len = 0
  BY <1>1, <1>2, <1>5
<1> QED
  BY <1>4, <1>5, <1>6, <1>7

\* UpdateTuple puts the row at the rid it is given, or tears the rid's page.
LEMMA UpdateEffect ==
    ASSUME Layout, NEW rid \in Slots, NEW row \in Rows, UpdateTuple(rid, row)
    PROVE  /\ Layout' /\ DOMAIN pages' = DOMAIN pages /\ Slots' = Slots
           /\ OthersStay(rid) /\ torn \subseteq torn'
           /\ rid[1] \notin torn' => /\ SlotAt(rid)'.len > 0 /\ SlotAt(rid)'.row = row
                                     /\ UNCHANGED torn
           /\ torn' \subseteq torn \cup {rid[1]}
<1>1. /\ rid = <<rid[1], rid[2]>> /\ rid[1] \in DOMAIN pages
      /\ rid[2] \in DOMAIN pages[rid[1]].slots
  BY SlotsOfPages
<1> PICK i \in DOMAIN pages : i = rid[1]
  BY <1>1
<1> PICK d \in DOMAIN pages[i].slots : d = rid[2]
  BY <1>1
<1>2. /\ torn' = IF HasRoom(pages[i], row) THEN torn ELSE torn \cup {i}
      /\ \/ /\ ~ReachesHeader(pages[i], row)
            /\ \E page \in Written(pages[i], row) :
                  pages' = [pages EXCEPT ![i] = Updated(page, d, row)]
         \/ ReachesHeader(pages[i], row) /\ UNCHANGED pages
  BY DEF UpdateTuple
<1>3. torn \subseteq torn' /\ torn' \subseteq DOMAIN pages
      /\ torn' \subseteq torn \cup {rid[1]}
      /\ (i \notin torn' => UNCHANGED torn)
  BY <1>2 DEF Layout
<1>4. CASE ReachesHeader(pages[i], row) /\ UNCHANGED pages
  <2>1. pages[i] \in AnyPage
    BY DEF Layout
  <2>2. i \in torn'
    BY <1>2, <1>4, <2>1, WrittenWithRoom
  <2>3. Layout'
    BY <1>3, <1>4 DEF Layout
  <2> QED
    BY <1>3, <1>4, <2>2, <2>3 DEF Slots, SlotAt, OthersStay
<1>5. ASSUME ~ReachesHeader(pages[i], row), NEW page \in Written(pages[i], row),
             pages' = [pages EXCEPT ![i] = Updated(page, d, row)]
      PROVE  /\ Layout' /\ DOMAIN pages' = DOMAIN pages /\ Slots' = Slots
             /\ OthersStay(rid)
             /\ SlotAt(rid)'.len > 0 /\ SlotAt(rid)'.row = row
  <2> PICK new : new = Updated(page, d, row)
    OBVIOUS
  <2>1. /\ Good(new, i, torn')
        /\ DOMAIN new.slots = DOMAIN pages[i].slots
        /\ new.slots[d].len > 0 /\ new.slots[d].row = row
        /\ i \notin torn' =>
              \A s \in DOMAIN pages[i].slots : s # d => new.slots[s] = pages[i].slots[s]
    BY <1>2, <1>5, UpdatedPage
  <2>2. pages' = [pages EXCEPT ![i] = new]
    BY <1>5
  <2>3. Layout'
    BY <1>3, <2>1, <2>2, ReplacedPage
  <2>4. /\ DOMAIN pages' = DOMAIN pages
        /\ Slots' = Slots \cup ({i} \X {})
        /\ \A r \in Slots : r[1] # i => SlotAt(r)' = SlotAt(r)
        /\ \A s : SlotAt(<<i, s>>)' = new.slots[s]
    <3>1. Replaces(new, i, {})
      BY <2>1, <2>2 DEF Replaces
    <3> QED
      BY <3>1, SlotsChange
  <2>5. OthersStay(rid)
    <3> SUFFICES ASSUME NEW r \in Slots, r # rid, r[1] = i, r[1] \notin torn'
                 PROVE  SlotAt(r)' = SlotAt(r)
      BY <2>4 DEF OthersStay
    <3>1. r = <<i, r[2]>> /\ r[2] \in DOMAIN pages[i].slots /\ r[2] # d
      BY <1>1, SlotsOfPages
    <3> QED
      BY <2>1, <2>4, <3>1 DEF SlotAt
  <2> QED
    BY <1>1, <2>1, <2>3, <2>4, <2>5
<1> QED
  BY <1>2, <1>3, <1>4, <1>5

\* Every step keeps the pages that are not torn sound.
LEMMA NextLayout ==
    ASSUME Layout, [Next]_vars
    PROVE  Layout'
<1>1. CASE UNCHANGED <<pages, torn>>
  BY <1>1 DEF Layout
<1> QED
  BY <1>1, InsertEffect, DeleteEffect, UpdateEffect
     DEF Next, ScanStep, ScanBegin, ScanNext, StopAtSlot, SkipSlot, NextPage, ReachEnd, vars

\* Whatever is inserted, deleted and updated, on pages and with rows of any
\* size, no byte of a table page has two uses until an update without room for
\* its copy comes to that very page; the other pages are not affected.
THEOREM TuplesStayIntact == Spec => []TuplesIntact
<1>1. Layout /\ [Next]_vars => Layout'
  BY NextLayout
<1>2. Layout => TuplesIntact
  BY DEF Layout, TuplesIntact
<1> QED
  BY InitLayout, <1>1, <1>2, PTL DEF Spec

-----------------------------------------------------------------------------
(* The scan. *)

\* The order in which a scan comes to rids, and the rid where it is.
Before(q, r) == q[1] < r[1] \/ (q[1] = r[1] /\ q[2] < r[2])
Position == IF AtRest THEN it ELSE cursor

\* The types of the scan's variables.
InChain(q) == q = <<q[1], q[2]>> /\ q[1] \in DOMAIN pages /\ q[2] \in Nat \ {0}
ScanTypes ==
    /\ it \in Slots \cup {End}
    /\ cursor = Stopped \/ InChain(cursor)
    /\ seen \subseteq Slots
    /\ due \subseteq Slots

SeenBehind == Position # End => \A r \in seen : Before(r, Position)

DueAhead ==
    \A r \in due : r[1] \notin torn => r \in Live /\ Position # End /\ ~Before(r, Position)

\* The inductive invariant of a scan: it rests on a live row, what it returned
\* lies before its position, and no row it owes does, torn pages aside.
ScanInv == ScanTypes /\ ScanReadsLiveRows /\ SeenBehind /\ DueAhead

\* Rids are pairs of numbers above 0, which End and Stopped are not.
LEMMA RidTypes ==
    ASSUME Layout
    PROVE  /\ \A r \in Slots : InChain(r)
           /\ Live \subseteq Slots
           /\ DOMAIN pages = 1 .. Len(pages) /\ Len(pages) \in Nat \ {0}
           /\ \A q : InChain(q) => q # End /\ q # Stopped /\ q[1] \in Nat \ {0} /\ q[2] \in Nat \ {0}
<1>1. DOMAIN pages = 1 .. Len(pages) /\ Len(pages) \in Nat \ {0}
  BY DEF Layout
<1>2. \A r \in Slots : InChain(r)
  BY SlotsOfPages DEF InChain
<1>3. \A q : InChain(q) => q # End /\ q # Stopped /\ q[1] \in Nat \ {0} /\ q[2] \in Nat \ {0}
  BY <1>1 DEF InChain, End, Stopped
<1> QED
  BY <1>1, <1>2, <1>3 DEF Live

\* Later in the order stays later, past the rid where the scan was.
LEMMA BeforeSteps ==
    ASSUME NEW r, InChain(r), NEW q, InChain(q), Layout
    PROVE  /\ Before(r, <<q[1], q[2] + 1>>) <=> Before(r, q) \/ r = q
           /\ Before(r, q) => Before(r, <<q[1] + 1, 1>>)
           /\ r[1] > q[1] => ~Before(r, <<q[1] + 1, 1>>)
           /\ InChain(<<q[1], q[2] + 1>>)
           /\ q[1] < Len(pages) => InChain(<<q[1] + 1, 1>>)
<1>1. r[1] \in Nat /\ r[2] \in Nat \ {0} /\ q[1] \in Nat /\ q[2] \in Nat \ {0}
      /\ r = <<r[1], r[2]>> /\ q = <<q[1], q[2]>> /\ q[1] \in DOMAIN pages
  BY RidTypes DEF InChain
<1>2. DOMAIN pages = 1 .. Len(pages) /\ Len(pages) \in Nat \ {0}
  BY RidTypes
<1>3. Before(r, <<q[1], q[2] + 1>>) <=> Before(r, q) \/ r = q
  BY <1>1 DEF Before
<1> QED
  BY <1>1, <1>2, <1>3 DEF Before, InChain

\* The pages and rows do not change when only the scan moves.
LEMMA ScanSlots ==
    ASSUME UNCHANGED pages
    PROVE  /\ Slots' = Slots /\ Live' = Live
           /\ \A q : InChain(q)' <=> InChain(q)
           /\ \A r : SlotAt(r)' = SlotAt(r)
BY DEF Slots, Live, SlotAt, InChain

\* A change of the pages leaves a scan at rest in order if the rows it removes
\* are not owed any more and are not the row the scan stands on.
LEMMA ScanSurvives ==
    ASSUME Layout, ScanInv, AtRest, UNCHANGED <<it, cursor, seen>>,
           torn \subseteq torn', DOMAIN pages \subseteq DOMAIN pages',
           Slots \subseteq Slots', due' \subseteq due,
           \A r \in Live : r[1] \notin torn' /\ r \notin Live' => r \notin due' /\ r # it
    PROVE  ScanInv'
<1>1. AtRest' /\ Position' = it /\ Position = it
  BY DEF AtRest, Position
<1>2. ScanTypes'
  BY DEF ScanInv, ScanTypes, InChain
<1>3. ScanReadsLiveRows'
  BY <1>1 DEF ScanInv, ScanTypes, ScanReadsLiveRows
<1>4. DueAhead'
  BY <1>1 DEF ScanInv, DueAhead
<1>5. SeenBehind'
  BY <1>1 DEF ScanInv, SeenBehind
<1> QED
  BY <1>2, <1>3, <1>4, <1>5 DEF ScanInv

\* InsertTuple removes no row.
LEMMA InsertKeepsScan ==
    ASSUME Layout, ScanInv, NEW row \in Rows, InsertTuple(row)
    PROVE  ScanInv'
<1>1. UNCHANGED <<torn, it, cursor, seen, due>> /\ AtRest
  BY DEF InsertTuple
<1>2. DOMAIN pages \subseteq DOMAIN pages' /\ Slots \subseteq Slots'
  BY InsertEffect DEF Inserted
<1>3. \A r \in Slots : r[1] \notin torn' => SlotAt(r)' = SlotAt(r)
  BY InsertEffect DEF Inserted, OthersStay
<1>4. \A r \in Live : r[1] \notin torn' => r \in Live'
  BY <1>2, <1>3 DEF Live
<1> QED
  BY <1>1, <1>2, <1>4, ScanSurvives

\* DeleteTuple removes a row the scan has passed, so not the one it is on.
LEMMA DeleteKeepsScan ==
    ASSUME Layout, ScanInv, NEW rid \in Slots, DeleteTuple(rid)
    PROVE  ScanInv'
<1>1. UNCHANGED <<torn, it, cursor, seen>> /\ AtRest /\ due' = due \ {rid}
  BY DEF DeleteTuple
<1>2. DOMAIN pages' = DOMAIN pages /\ Slots' = Slots
      /\ \A r \in Slots : r # rid /\ r[1] \notin torn' => SlotAt(r)' = SlotAt(r)
  BY DeleteEffect DEF OthersStay
<1>3. \A r \in Live : r[1] \notin torn' /\ r \notin Live' => r = rid
  BY <1>2 DEF Live
<1>4. rid # it
  <2> SUFFICES ASSUME rid = it PROVE FALSE
    OBVIOUS
  <2>1. it # End /\ rid \in seen
    BY RidTypes DEF DeleteTuple, Known
  <2>2. Before(rid, rid)
    BY <1>1, <2>1 DEF ScanInv, SeenBehind, Position
  <2>3. rid[1] \in Nat /\ rid[2] \in Nat
    BY SlotsOfPages
  <2> QED
    BY <2>2, <2>3 DEF Before
<1> QED
  BY <1>1, <1>2, <1>3, <1>4, ScanSurvives

\* UpdateTuple keeps the rid and its row live, or tears the page.
LEMMA UpdateKeepsScan ==
    ASSUME Layout, ScanInv, NEW rid \in Slots, NEW row \in Rows, UpdateTuple(rid, row)
    PROVE  ScanInv'
<1>1. UNCHANGED <<it, cursor, seen, due>> /\ AtRest
  BY DEF UpdateTuple
<1>2. /\ DOMAIN pages' = DOMAIN pages /\ Slots' = Slots /\ torn \subseteq torn'
      /\ \A r \in Slots : r # rid /\ r[1] \notin torn' => SlotAt(r)' = SlotAt(r)
      /\ rid[1] \notin torn' => SlotAt(rid)'.len > 0
  BY UpdateEffect DEF OthersStay
<1>3. \A r \in Live : r[1] \notin torn' => r \in Live'
  BY <1>2 DEF Live
<1> QED
  BY <1>1, <1>2, <1>3, ScanSurvives

\* Begin() starts before all rows.
LEMMA BeginKeepsScan ==
    ASSUME Layout, ScanInv, ScanBegin
    PROVE  ScanInv'
<1>1. /\ UNCHANGED <<pages, torn, it>>
      /\ cursor' = <<1, 1>> /\ seen' = {} /\ due' = Live
  BY DEF ScanBegin
<1>2. InChain(<<1, 1>>)
  BY RidTypes DEF InChain
<1>3. ~AtRest' /\ Position' = <<1, 1>> /\ <<1, 1>> # End
  BY <1>1, <1>2, RidTypes DEF AtRest, Position
<1>4. ScanTypes'
  BY <1>1, <1>2, ScanSlots, RidTypes DEF ScanInv, ScanTypes
<1>5. DueAhead'
  <2>1. \A r \in Live : r[1] \in Nat \ {0} /\ r[2] \in Nat \ {0}
    BY RidTypes
  <2>2. \A r \in Live : ~Before(r, <<1, 1>>)
    BY <2>1 DEF Before
  <2> QED
    BY <1>1, <1>3, <2>2, ScanSlots DEF DueAhead
<1> QED
  BY <1>1, <1>3, <1>4, <1>5 DEF ScanInv, ScanReadsLiveRows, SeenBehind

\* operator++ starts behind the row returned, which is not owed any more.
LEMMA NextKeepsScan ==
    ASSUME Layout, ScanInv, ScanNext
    PROVE  ScanInv'
<1> PICK next : next = <<it[1], it[2] + 1>>
  OBVIOUS
<1>1. /\ UNCHANGED <<pages, torn, it>> /\ AtRest /\ it # End
      /\ cursor' = next /\ seen' = seen \cup {it} /\ due' = due \ {it}
  BY DEF ScanNext
<1>2. it \in Slots /\ InChain(it)
  BY <1>1, RidTypes DEF ScanInv, ScanTypes
<1>3. InChain(next) /\ next # End /\ next # Stopped
  BY <1>2, BeforeSteps, RidTypes
<1>4. Position = it /\ ~AtRest' /\ Position' = next
  BY <1>1, <1>3 DEF AtRest, Position
<1>5. ScanTypes'
  BY <1>1, <1>2, <1>3, ScanSlots DEF ScanInv, ScanTypes
<1>6. SeenBehind'
  <2>1. \A r \in seen : InChain(r) /\ Before(r, it)
    BY <1>1, <1>4, RidTypes DEF ScanInv, ScanTypes, SeenBehind
  <2>2. \A r \in seen \cup {it} : Before(r, next)
    BY <1>2, <2>1, BeforeSteps
  <2> QED
    BY <1>1, <1>4, <2>2 DEF SeenBehind
<1>7. DueAhead'
  <2> SUFFICES ASSUME NEW r \in due, r # it, r[1] \notin torn
               PROVE  r \in Live /\ ~Before(r, next)
    BY <1>1, <1>3, <1>4, ScanSlots DEF DueAhead
  <2>1. InChain(r) /\ r \in Live /\ ~Before(r, it)
    BY <1>4, RidTypes DEF ScanInv, ScanTypes, DueAhead
  <2> QED
    BY <1>2, <2>1, BeforeSteps
<1> QED
  BY <1>4, <1>5, <1>6, <1>7 DEF ScanInv, ScanReadsLiveRows

\* The loop comes to rest on a live slot.
LEMMA StopKeepsScan ==
    ASSUME Layout, ScanInv, StopAtSlot
    PROVE  ScanInv'
<1>1. /\ UNCHANGED <<pages, torn, seen, due>>
      /\ ~AtRest /\ cursor \in Slots /\ cursor \in Live
      /\ it' = cursor /\ cursor' = Stopped
  BY DEF StopAtSlot, InPage, Live
<1>2. AtRest' /\ Position' = cursor /\ Position = cursor
  BY <1>1 DEF AtRest, Position
<1>3. ScanTypes'
  BY <1>1, ScanSlots DEF ScanInv, ScanTypes
<1>4. ScanReadsLiveRows'
  BY <1>1, ScanSlots DEF ScanReadsLiveRows
<1>5. SeenBehind' /\ DueAhead'
  BY <1>1, <1>2, ScanSlots DEF ScanInv, SeenBehind, DueAhead
<1> QED
  BY <1>3, <1>4, <1>5 DEF ScanInv

\* The loop passes a slot only when it is deleted.
LEMMA SkipKeepsScan ==
    ASSUME Layout, ScanInv, SkipSlot
    PROVE  ScanInv'
<1> PICK next : next = <<cursor[1], cursor[2] + 1>>
  OBVIOUS
<1>1. /\ UNCHANGED <<pages, torn, it, seen, due>>
      /\ ~AtRest /\ cursor \in Slots /\ cursor \notin Live /\ cursor' = next
  BY DEF SkipSlot, InPage, Live
<1>2. InChain(cursor) /\ cursor # End
  BY <1>1, RidTypes
<1>3. InChain(next) /\ next # End /\ next # Stopped
  BY <1>2, BeforeSteps, RidTypes
<1>4. Position = cursor /\ ~AtRest' /\ Position' = next
  BY <1>1, <1>3 DEF AtRest, Position
<1>5. ScanTypes'
  BY <1>1, <1>3, ScanSlots DEF ScanInv, ScanTypes
<1>6. SeenBehind'
  <2>1. \A r \in seen : InChain(r) /\ Before(r, cursor)
    BY <1>2, <1>4, RidTypes DEF ScanInv, ScanTypes, SeenBehind
  <2>2. \A r \in seen : Before(r, next)
    BY <1>2, <2>1, BeforeSteps
  <2> QED
    BY <1>1, <1>4, <2>2 DEF SeenBehind
<1>7. DueAhead'
  <2> SUFFICES ASSUME NEW r \in due, r[1] \notin torn
               PROVE  r \in Live /\ ~Before(r, next)
    BY <1>1, <1>3, <1>4, ScanSlots DEF DueAhead
  <2>1. InChain(r) /\ r \in Live /\ ~Before(r, cursor)
    BY <1>4, RidTypes DEF ScanInv, ScanTypes, DueAhead
  <2>2. r # cursor
    BY <1>1, <2>1
  <2> QED
    BY <1>2, <2>1, <2>2, BeforeSteps
<1> QED
  BY <1>4, <1>5, <1>6, <1>7 DEF ScanInv, ScanReadsLiveRows

\* A position behind the last slot of its page is behind all rows of the page.
LEMMA PastPageIsBehind ==
    ASSUME Layout, ScanInv, PastPage
    PROVE  /\ InChain(cursor) /\ cursor # End
           /\ \A r \in Slots : ~Before(r, cursor) => r[1] > cursor[1]
<1>1. InChain(cursor) /\ cursor \notin Slots /\ cursor # End
      /\ cursor[1] \in Nat /\ cursor[2] \in Nat \ {0}
  BY RidTypes DEF ScanInv, ScanTypes, PastPage, AtRest
<1> PICK i : i = cursor[1]
  OBVIOUS
<1> PICK c : c = cursor[2]
  OBVIOUS
<1>2. cursor = <<i, c>> /\ i \in DOMAIN pages /\ c \in Nat \ {0} /\ i \in Nat
  BY <1>1 DEF InChain
<1>3. pages[i].slots \in Seq(SlotRecord \cup Noise)
  <2>1. pages[i] \in AnyPage
    BY <1>2 DEF Layout
  <2> QED
    BY <2>1 DEF AnyPage
<1>4. c \notin DOMAIN pages[i].slots
  BY <1>1, <1>2 DEF Slots
<1>5. c > Len(pages[i].slots)
  BY <1>2, <1>3, <1>4
<1>6. ASSUME NEW r \in Slots, ~Before(r, cursor)
      PROVE  r[1] > i
  <2>1. r[2] \in DOMAIN pages[r[1]].slots /\ r[1] \in Nat /\ r[2] \in Nat
    BY SlotsOfPages
  <2>2. CASE r[1] = i
    BY <1>2, <1>3, <1>5, <1>6, <2>1, <2>2 DEF Before
  <2> QED
    BY <1>2, <1>6, <2>1, <2>2 DEF Before
<1> QED
  BY <1>1, <1>6

\* The loop goes on at the first slot of the next page.
LEMMA NextPageKeepsScan ==
    ASSUME Layout, ScanInv, NextPage
    PROVE  ScanInv'
<1> PICK next : next = <<cursor[1] + 1, 1>>
  OBVIOUS
<1>1. /\ UNCHANGED <<pages, torn, it, seen, due>>
      /\ ~AtRest /\ PastPage /\ cursor[1] < Len(pages) /\ cursor' = next
  BY DEF NextPage, PastPage
<1>2. InChain(cursor) /\ cursor # End
      /\ \A r \in Slots : ~Before(r, cursor) => r[1] > cursor[1]
  BY <1>1, PastPageIsBehind
<1>3. InChain(next) /\ next # End /\ next # Stopped
  BY <1>1, <1>2, BeforeSteps, RidTypes
<1>4. Position = cursor /\ ~AtRest' /\ Position' = next
  BY <1>1, <1>3 DEF AtRest, Position
<1>5. ScanTypes'
  BY <1>1, <1>3, ScanSlots DEF ScanInv, ScanTypes
<1>6. SeenBehind'
  <2>1. \A r \in seen : InChain(r) /\ Before(r, cursor)
    BY <1>2, <1>4, RidTypes DEF ScanInv, ScanTypes, SeenBehind
  <2>2. \A r \in seen : Before(r, next)
    BY <1>2, <2>1, BeforeSteps
  <2> QED
    BY <1>1, <1>4, <2>2 DEF SeenBehind
<1>7. DueAhead'
  <2> SUFFICES ASSUME NEW r \in due, r[1] \notin torn
               PROVE  r \in Live /\ ~Before(r, next)
    BY <1>1, <1>3, <1>4, ScanSlots DEF DueAhead
  <2>1. r \in Slots /\ InChain(r) /\ r \in Live /\ ~Before(r, cursor)
    BY <1>4, RidTypes DEF ScanInv, ScanTypes, DueAhead
  <2> QED
    BY <1>2, <2>1, BeforeSteps
<1> QED
  BY <1>4, <1>5, <1>6, <1>7 DEF ScanInv, ScanReadsLiveRows

\* At the end of the chain no row is owed, torn pages aside.
LEMMA EndKeepsScan ==
    ASSUME Layout, ScanInv, ReachEnd
    PROVE  ScanInv'
<1>1. /\ UNCHANGED <<pages, torn, seen, due>>
      /\ ~AtRest /\ PastPage /\ cursor[1] = Len(pages) /\ it' = End /\ cursor' = Stopped
  BY DEF ReachEnd, PastPage
<1>2. AtRest' /\ Position' = End /\ Position = cursor
  BY <1>1 DEF AtRest, Position
<1>3. ASSUME NEW r \in due, r[1] \notin torn
      PROVE  FALSE
  <2>1. r \in Slots /\ ~Before(r, cursor)
    BY <1>2, <1>3 DEF ScanInv, ScanTypes, DueAhead
  <2>2. r[1] > Len(pages) /\ r[1] \in DOMAIN pages
    BY <1>1, <2>1, PastPageIsBehind, SlotsOfPages
  <2> QED
    BY <2>2, RidTypes
<1>4. ScanTypes'
  BY <1>1, ScanSlots DEF ScanInv, ScanTypes
<1> QED
  BY <1>1, <1>2, <1>3, <1>4 DEF ScanInv, ScanReadsLiveRows, SeenBehind, DueAhead

\* No row is owed, or returned, before the first scan.
LEMMA InitScan == Init => ScanInv
BY DEF Init, ScanInv, ScanTypes, ScanReadsLiveRows, SeenBehind, DueAhead, Position, AtRest

\* Every step keeps the scan in order.
LEMMA NextScan ==
    ASSUME Layout, ScanInv, [Next]_vars
    PROVE  ScanInv'
<1>1. CASE UNCHANGED vars
  <2>1. UNCHANGED <<pages, torn, it, cursor, seen, due>>
    BY <1>1 DEF vars
  <2> QED
    BY <2>1, ScanSlots
       DEF ScanInv, ScanTypes, ScanReadsLiveRows, SeenBehind, DueAhead, Position, AtRest
<1> QED
  BY <1>1, InsertKeepsScan, DeleteKeepsScan, UpdateKeepsScan, BeginKeepsScan, NextKeepsScan,
     StopKeepsScan, SkipKeepsScan, NextPageKeepsScan, EndKeepsScan
     DEF Next, ScanStep

\* Both invariants hold together, ScanInv needing the layout.
LEMMA HeapInvariants == Spec => [](Layout /\ ScanInv)
<1>1. Layout /\ ScanInv /\ [Next]_vars => Layout' /\ ScanInv'
  BY NextLayout, NextScan
<1> QED
  BY InitLayout, InitScan, <1>1, PTL DEF Spec

\* The flag of a lost heap is a Boolean.
LostTyped == lost \in BOOLEAN

LEMMA LostIsTyped == Spec => []LostTyped
<1>1. Init => LostTyped
  BY DEF Init, LostTyped
<1>2. LostTyped /\ [Next]_vars => LostTyped'
  BY DEF LostTyped, Next, InsertTuple, InsertFirstFit, InsertNewPage, DeleteTuple, UpdateTuple,
         ScanStep, ScanBegin, ScanNext, StopAtSlot, SkipSlot, NextPage, ReachEnd, vars
<1> QED
  BY <1>1, <1>2, PTL DEF Spec

\* The heap's variables always have their types: an offset or a length leaves
\* the page, or wraps below 0, only in slots that an update without room for
\* its copy wrote over, and those are on the page it tore.
THEOREM TypeCorrect == Spec => []TypeOK
<1>1. Layout /\ ScanInv /\ LostTyped => TypeOK
  <2> SUFFICES ASSUME Layout, ScanInv, LostTyped PROVE TypeOK
    OBVIOUS
  <2>1. cursor = Stopped \/ (cursor[1] \in DOMAIN pages /\ cursor[2] \in Nat \ {0})
    BY DEF ScanInv, ScanTypes, InChain
  <2>2. it \in Slots \cup {End} /\ seen \subseteq Slots /\ due \subseteq Slots
    BY DEF ScanInv, ScanTypes
  <2> QED
    BY <2>1, <2>2 DEF Layout, LostTyped, TypeOK
<1> QED
  BY HeapInvariants, LostIsTyped, <1>1, PTL

\* In every heap, the row a scan is about to read has not been deleted by the
\* statement that scans, nor lost, unless an update tore the row's page.
THEOREM ScansReadLiveRows == Spec => []ScanReadsLiveRows
<1>1. ScanInv => ScanReadsLiveRows
  BY DEF ScanInv
<1> QED
  BY HeapInvariants, <1>1, PTL

\* In every heap, the loops of Begin() and operator++ come to no row twice in
\* a scan, whatever they find on torn pages.
THEOREM RowsAreMetOnce == Spec => []RowsMetOnce
<1>1. Layout /\ ScanInv => RowsMetOnce
  <2> SUFFICES ASSUME Layout, ScanInv, AtRest, it # End, it \in seen
               PROVE  FALSE
    BY DEF RowsMetOnce
  <2>1. Before(it, it) /\ it \in Slots
    BY DEF ScanInv, ScanTypes, SeenBehind, Position
  <2>2. it[1] \in Nat /\ it[2] \in Nat
    BY <2>1, SlotsOfPages
  <2> QED
    BY <2>1, <2>2 DEF Before
<1> QED
  BY HeapInvariants, <1>1, PTL

\* In every heap, a finished scan has returned all the rows that were there
\* from its beginning to its end, although the statement changed the table;
\* only rows on pages that an update tore may be missing.
THEOREM ScansAreComplete == Spec => []ScanComplete
<1>1. ScanInv => ScanComplete
  BY DEF ScanInv, DueAhead, Position, ScanComplete
<1> QED
  BY HeapInvariants, <1>1, PTL

-----------------------------------------------------------------------------
(* The heap is a row store. *)

Whole == {r \in Live : r[1] \notin torn}
TheRows == [rid \in Whole |-> SlotAt(rid).row]

\* A rid handed out is a row inserted, unless its page is torn.
LEMMA StoreInsert ==
    ASSUME NEW row \in Rows, NEW rid, Inserted(rid, row), UNCHANGED torn
    PROVE  Store!Next
<1>1. rid \notin Slots /\ Slots' = Slots \cup {rid}
      /\ (\A r \in Slots : r[1] \notin torn => SlotAt(r)' = SlotAt(r))
      /\ SlotAt(rid)'.len > 0 /\ SlotAt(rid)'.row = row
  BY DEF Inserted, OthersStay
<1>2. Whole' = IF rid[1] \in torn THEN Whole ELSE Whole \cup {rid}
  BY <1>1 DEF Whole, Live
<1>3. \A r \in Whole : TheRows'[r] = TheRows[r] /\ r # rid
  BY <1>1, <1>2 DEF TheRows, Whole, Live
<1>4. DOMAIN TheRows = Whole /\ TheRows' = [r \in Whole' |-> TheRows'[r]]
      /\ TheRows = [r \in Whole |-> TheRows[r]]
  BY DEF TheRows
<1>5. CASE rid[1] \in torn
  <2>1. TheRows' = TheRows
    BY <1>2, <1>3, <1>4, <1>5
  <2>2. Store!Insert(rid, row)
    BY <1>1, <1>5, <2>1 DEF Store!Insert, TheRows, Whole
  <2> QED
    BY <1>1, <2>2 DEF Store!Next
<1>6. CASE rid[1] \notin torn
  <2>1. TheRows'[rid] = row
    BY <1>1, <1>2, <1>6 DEF TheRows
  <2>2. TheRows' = [r \in DOMAIN TheRows \cup {rid} |-> IF r = rid THEN row ELSE TheRows[r]]
    BY <1>2, <1>3, <1>4, <1>6, <2>1
  <2>3. Store!Insert(rid, row)
    BY <1>1, <1>6, <2>2 DEF Store!Insert, TheRows, Whole
  <2> QED
    BY <1>1, <2>3 DEF Store!Next
<1> QED
  BY <1>5, <1>6

\* InsertTuple inserts, or changes no row.
LEMMA InsertIsStoreStep ==
    ASSUME Layout, NEW row \in Rows, InsertTuple(row)
    PROVE  Store!Next \/ UNCHANGED <<TheRows, Slots, torn>>
<1>1. UNCHANGED torn
  BY DEF InsertTuple
<1>2. CASE \E rid : Inserted(rid, row)
  BY <1>1, <1>2, StoreInsert
<1>3. CASE Slots' = Slots /\ \A r \in Slots : SlotAt(r)' = SlotAt(r)
  <2>1. Whole' = Whole /\ \A r \in Whole : SlotAt(r)' = SlotAt(r)
    BY <1>1, <1>3 DEF Whole, Live
  <2> QED
    BY <1>1, <1>3, <2>1 DEF TheRows
<1> QED
  BY <1>2, <1>3, InsertEffect

\* DeleteTuple removes the row and keeps its rid from being used again; what it
\* does to a slot of a torn page changes no row.
LEMMA DeleteIsStoreStep ==
    ASSUME Layout, NEW rid \in Slots, DeleteTuple(rid)
    PROVE  Store!Next \/ UNCHANGED <<TheRows, Slots, torn>>
<1>1. Slots' = Slots /\ SlotAt(rid)'.len = 0 /\ UNCHANGED torn
      /\ \A r \in Slots : r # rid /\ r[1] \notin torn => SlotAt(r)' = SlotAt(r)
  BY DeleteEffect DEF DeleteTuple, OthersStay
<1>2. Whole' = Whole \ {rid}
  BY <1>1 DEF Whole, Live
<1>3. \A r \in Whole' : TheRows'[r] = TheRows[r]
  BY <1>1, <1>2 DEF TheRows, Whole, Live
<1>4. DOMAIN TheRows = Whole /\ TheRows' = [r \in Whole' |-> TheRows'[r]]
      /\ TheRows = [r \in Whole |-> TheRows[r]]
  BY DEF TheRows
<1>5. CASE rid[1] \in torn
  <2>1. Whole' = Whole
    BY <1>2, <1>5 DEF Whole
  <2> QED
    BY <1>1, <1>3, <1>4, <2>1
<1>6. CASE rid[1] \notin torn
  <2>1. rid \in DOMAIN TheRows
    BY <1>4, <1>6 DEF DeleteTuple, Known, Named, Whole
  <2>2. TheRows' = [r \in DOMAIN TheRows \ {rid} |-> TheRows[r]]
    BY <1>2, <1>3, <1>4
  <2>3. Store!Delete(rid)
    BY <1>1, <2>1, <2>2 DEF Store!Delete, TheRows, Whole
  <2> QED
    BY <1>1, <2>3 DEF Store!Next
<1> QED
  BY <1>5, <1>6

\* UpdateTuple changes the row of the rid it was given and no other, or loses
\* the rows of the page it tears.
LEMMA UpdateIsStoreStep ==
    ASSUME Layout, NEW rid \in Slots, NEW row \in Rows, UpdateTuple(rid, row)
    PROVE  Store!Next
<1>1. /\ Slots' = Slots
      /\ torn \subseteq torn' /\ torn' \subseteq torn \cup {rid[1]}
      /\ \A r \in Slots : r # rid /\ r[1] \notin torn' => SlotAt(r)' = SlotAt(r)
      /\ rid[1] \notin torn' => /\ SlotAt(rid)'.len > 0 /\ SlotAt(rid)'.row = row
                                /\ UNCHANGED torn
  BY UpdateEffect DEF OthersStay
<1>2. DOMAIN TheRows = Whole /\ TheRows' = [r \in Whole' |-> TheRows'[r]]
      /\ TheRows = [r \in Whole |-> TheRows[r]]
  BY DEF TheRows
<1>3. CASE rid[1] \in torn'
  <2>1. torn' = torn \cup {rid[1]}
    BY <1>1, <1>3
  <2>2. Whole' = {r \in Whole : r[1] # rid[1]}
    BY <1>1, <2>1 DEF Whole, Live
  <2>3. \A r \in Whole' : TheRows'[r] = TheRows[r]
    BY <1>1, <2>1, <2>2 DEF TheRows, Whole, Live
  <2>4. TheRows' = [r \in {q \in DOMAIN TheRows : q[1] # rid[1]} |-> TheRows[r]]
    BY <1>2, <2>2, <2>3
  <2>5. Store!Tear(rid)
    BY <1>1, <2>1, <2>4 DEF Store!Tear, TheRows, Whole
  <2> QED
    BY <1>1, <2>5 DEF Store!Next
<1>4. CASE rid[1] \notin torn'
  <2>1. UNCHANGED torn /\ rid \in Live /\ rid[1] \notin torn
    BY <1>1, <1>4 DEF UpdateTuple, Known, Named
  <2>2. Whole' = Whole /\ rid \in Whole
    BY <1>1, <1>4, <2>1 DEF Whole, Live
  <2>3. \A r \in Whole : TheRows'[r] = IF r = rid THEN row ELSE TheRows[r]
    BY <1>1, <1>4, <2>1, <2>2 DEF TheRows, Whole, Live
  <2>4. TheRows' = [TheRows EXCEPT ![rid] = row]
    BY <1>2, <2>2, <2>3
  <2>5. Store!Update(rid, row)
    BY <1>1, <1>2, <2>1, <2>2, <2>4 DEF Store!Update, TheRows, Whole
  <2> QED
    BY <1>1, <2>5 DEF Store!Next
<1> QED
  BY <1>3, <1>4

\* The heap implements a row store: whatever pages rows land on, a rid names
\* its row until that is deleted or an update without room tears its page,
\* which costs the rows of that page only; no rid is ever given out again.
THEOREM HeapImplementsRowStore == Spec => ImplementsRowStore
<1>1. Init => Store!Init
  <2> SUFFICES ASSUME Init PROVE Store!Init
    OBVIOUS
  <2>1. Slots = {} /\ torn = {}
    BY DEF Init, Slots, EmptyPage
  <2> QED
    BY <2>1 DEF Store!Init, Live
<1>2. ASSUME Layout, [Next]_vars
      PROVE  Store!Next \/ UNCHANGED <<TheRows, Slots, torn>>
  <2>1. CASE UNCHANGED <<pages, torn>>
    BY <2>1 DEF TheRows, Whole, Live, Slots, SlotAt
  <2> QED
    BY <1>2, <2>1, InsertIsStoreStep, DeleteIsStoreStep, UpdateIsStoreStep
       DEF Next, ScanStep, ScanBegin, ScanNext, StopAtSlot, SkipSlot, NextPage, ReachEnd, vars
<1>3. Layout /\ [Next]_vars => [Store!Next]_(Store!vars)
  BY <1>2 DEF Store!vars, TheRows, Whole
<1>4. Spec => []Layout
  BY HeapInvariants, PTL
<1> QED
  BY <1>1, <1>3, <1>4, PTL DEF Spec, ImplementsRowStore, Store!Spec
=============================================================================

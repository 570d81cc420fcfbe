-------------------------- MODULE BufferPoolProofs --------------------------
(***************************************************************************)
(* The buffer pool's bookkeeping is an invariant for every pool size,      *)
(* every number of pages and clients, whatever the device does.  On a      *)
(* device that does not fail, the pool is a page store, through every      *)
(* eviction, write-back and crash.                                         *)
(***************************************************************************)
EXTENDS BufferPoolManager, FiniteSetTheorems, TLAPS

\* The operations of the disk manager keep the type of its state.
LEMMA DiskTypes ==
    ASSUME NEW d \in DiskType
    PROVE  /\ \A p \in PageIds, v \in Data : AfterWrite(d, p, v) \in DiskType
           /\ \A p \in PageIds, fault \in BOOLEAN :
                 /\ AfterRead(d, p, fault) \in DiskType
                 /\ PageRead(d, p, fault) \in Data
           /\ AfterWriteThrows(d) \in DiskType
           /\ d.next_page_id < MaxPages => AfterAllocate(d) \in DiskType
           /\ Opened(d.file, d.size) \in DiskType
  <1> USE MaxPagesAssumption, ZeroAssumption DEF DiskType, StreamStates, PageIds
  <1>1. \A p \in PageIds, v \in Data : AfterWrite(d, p, v) \in DiskType
    <2> TAKE p \in PageIds, v \in Data
    <2> DEFINE file == IF d.stream = "good" THEN [d.file EXCEPT ![p] = v] ELSE d.file
               size == IF d.stream = "good" /\ p >= d.size THEN p + 1 ELSE d.size
               num == IF p >= d.num_pages THEN p + 1 ELSE d.num_pages
    <2>1. file \in [PageIds -> Data] /\ size \in 0 .. MaxPages /\ num \in 0 .. MaxPages
      OBVIOUS
    <2>2. AfterWrite(d, p, v) = [d EXCEPT !.file = file, !.size = size, !.num_pages = num]
      BY DEF AfterWrite
    <2> HIDE DEF file, size, num
    <2> QED BY <2>1, <2>2
  <1>2. \A p \in PageIds, fault \in BOOLEAN : AfterRead(d, p, fault) \in DiskType
    BY DEF AfterRead
  <1>3. \A p \in PageIds, fault \in BOOLEAN : PageRead(d, p, fault) \in Data
    BY DEF PageRead
  <1>4. AfterWriteThrows(d) \in DiskType
    BY DEF AfterWriteThrows
  <1>5. d.next_page_id < MaxPages => AfterAllocate(d) \in DiskType
    BY DEF AfterAllocate
  <1>6. Opened(d.file, d.size) \in DiskType
    BY DEF Opened
  <1> QED BY <1>1, <1>2, <1>3, <1>4, <1>5, <1>6

\* The fields of a disk state have their types.
LEMMA DiskFields ==
    ASSUME NEW d \in DiskType
    PROVE  /\ \A p \in PageIds, v \in Data :
                 /\ AfterWrite(d, p, v).next_page_id = d.next_page_id
                 /\ AfterWrite(d, p, v).stream = d.stream
           /\ \A p \in PageIds, fault \in BOOLEAN :
                 /\ AfterRead(d, p, fault).next_page_id = d.next_page_id
                 /\ d.stream = "bad" => AfterRead(d, p, fault).stream = "bad"
           /\ AfterWriteThrows(d).next_page_id = d.next_page_id
           /\ AfterWriteThrows(d).stream = "bad"
           /\ AfterAllocate(d).next_page_id = d.next_page_id + 1
           /\ AfterAllocate(d).stream = d.stream
  BY DEF DiskType, AfterWrite, AfterRead, AfterWriteThrows, AfterAllocate, StreamStates

-----------------------------------------------------------------------------
\* Frames are numbers, and NoFrame is none of them.
LEMMA FramesInt == Frames \subseteq Int /\ NoFrame \notin Frames
  BY PoolSizeAssumption DEF Frames, NoFrame

\* The holders of a page are a finite set, with a cardinality.
LEMMA HoldersFinite ==
    ASSUME NEW f
    PROVE  IsFiniteSet(Holders(f)) /\ (Cardinality(Holders(f)) = 0 <=> Holders(f) = {})
  BY HandlesAssumption, FS_Subset, FS_EmptySet DEF Holders

Listed(g, list) == \E i \in 1 .. Len(list) : list[i] = g
NoRepeats(list) == \A i, j \in 1 .. Len(list) : i # j => list[i] # list[j]

\* The free list without its front, and with a frame pushed back.
LEMMA PoppedList ==
    ASSUME NEW S, NEW list \in Seq(S), list # <<>>, NoRepeats(list)
    PROVE  /\ Head(list) \in S /\ Listed(Head(list), list)
           /\ Tail(list) \in Seq(S) /\ NoRepeats(Tail(list))
           /\ \A g : Listed(g, Tail(list)) <=> Listed(g, list) /\ g # Head(list)
  <1>1. /\ Len(list) \in Nat \ {0} /\ Len(Tail(list)) = Len(list) - 1
        /\ Head(list) = list[1] /\ Tail(list) \in Seq(S)
        /\ \A i \in 1 .. Len(list) : list[i] \in S
        /\ \A i \in 1 .. Len(list) - 1 : Tail(list)[i] = list[i + 1]
    OBVIOUS
  <1>2. Head(list) \in S /\ Listed(Head(list), list)
    BY <1>1 DEF Listed
  <1>3. NoRepeats(Tail(list))
    BY <1>1 DEF NoRepeats
  <1>4. ASSUME NEW g PROVE Listed(g, Tail(list)) <=> Listed(g, list) /\ g # Head(list)
    <2>1. ASSUME Listed(g, Tail(list)) PROVE Listed(g, list) /\ g # Head(list)
      <3>1. PICK i \in 1 .. Len(list) - 1 : list[i + 1] = g
        BY <1>1, <2>1 DEF Listed
      <3>2. i + 1 \in 1 .. Len(list) /\ i + 1 # 1 /\ 1 \in 1 .. Len(list)
        BY <1>1
      <3> QED BY <1>1, <3>1, <3>2 DEF Listed, NoRepeats
    <2>2. ASSUME Listed(g, list), g # Head(list) PROVE Listed(g, Tail(list))
      <3>1. PICK i \in 1 .. Len(list) : list[i] = g
        BY <2>2 DEF Listed
      <3>2. i - 1 \in 1 .. Len(list) - 1 /\ Tail(list)[i - 1] = g
        BY <1>1, <2>2, <3>1
      <3> QED BY <1>1, <3>2 DEF Listed
    <2> QED BY <2>1, <2>2
  <1> QED BY <1>1, <1>2, <1>3, <1>4

\* What push_back on the free list makes of its entries.
LEMMA PushedList ==
    ASSUME NEW S, NEW list \in Seq(S), NEW f \in S, NoRepeats(list), ~Listed(f, list)
    PROVE  /\ Append(list, f) \in Seq(S) /\ NoRepeats(Append(list, f))
           /\ \A g : Listed(g, Append(list, f)) <=> Listed(g, list) \/ g = f
  <1>1. /\ Len(list) \in Nat /\ Len(Append(list, f)) = Len(list) + 1
        /\ Append(list, f) \in Seq(S)
        /\ \A i \in 1 .. Len(list) : Append(list, f)[i] = list[i]
        /\ Append(list, f)[Len(list) + 1] = f
    OBVIOUS
  <1>2. NoRepeats(Append(list, f))
    BY <1>1 DEF NoRepeats, Listed
  <1>3. ASSUME NEW g PROVE Listed(g, Append(list, f)) <=> Listed(g, list) \/ g = f
    BY <1>1 DEF Listed
  <1> QED BY <1>1, <1>2, <1>3

\* The replacer's operations, field by field.
LEMMA ReplacerOperations ==
    ASSUME NEW r \in R!ReplacerType, NEW f \in Frames
    PROVE  /\ R!MadeEvictable(R!Accessed(r, f), f, FALSE)
                 = [tracked |-> r.tracked \cup {f}, evictable |-> r.evictable \ {f}]
           /\ f \in r.tracked =>
                 R!MadeEvictable(r, f, TRUE)
                   = [tracked |-> r.tracked, evictable |-> r.evictable \cup {f}]
  <1>1. r = [tracked |-> r.tracked, evictable |-> r.evictable]
    BY DEF R!ReplacerType
  <1>2. R!Accessed(r, f) = [tracked |-> r.tracked \cup {f}, evictable |-> r.evictable]
    BY <1>1 DEF R!Accessed
  <1>3. R!MadeEvictable(R!Accessed(r, f), f, FALSE)
          = [tracked |-> r.tracked \cup {f}, evictable |-> r.evictable \ {f}]
    BY <1>2 DEF R!MadeEvictable
  <1>4. ASSUME f \in r.tracked
        PROVE R!MadeEvictable(r, f, TRUE)
                = [tracked |-> r.tracked, evictable |-> r.evictable \cup {f}]
    <2>1. {f} \cap r.tracked = {f}
      BY <1>4
    <2> QED BY <1>1, <2>1 DEF R!MadeEvictable
  <1> QED BY <1>3, <1>4

-----------------------------------------------------------------------------
(* What is left of the pool once a frame has been taken for a new page:    *)
(* the frame is nobody's, and nothing else has moved.                      *)
LEMMA TakenFrame ==
    ASSUME Bookkeeping, NEW f \in Frames, Candidate(f)
    PROVE  /\ Holders(f) = {}
           /\ Evicting => /\ pages[f].page_id \in live
                          /\ page_table[pages[f].page_id] = f
                          /\ f \in replacer.tracked
           /\ ~Evicting => \A p \in PageIds : page_table[p] # f
           /\ TableAfter(f) = [p \in PageIds |-> IF page_table[p] = f THEN NoFrame
                                                 ELSE page_table[p]]
           /\ ReplacerAfter(f) = [tracked |-> replacer.tracked \ {f},
                                  evictable |-> replacer.evictable \ {f}]
           /\ FreeListAfter \in Seq(Frames) /\ NoRepeats(FreeListAfter)
           /\ \A g : Listed(g, FreeListAfter) <=> Listed(g, free_list) /\ g # f
  <1> USE DEF Bookkeeping
  <1>t. TypeOK
    OBVIOUS
  <1>1. CASE Evicting
    <2>1. f \in replacer.tracked /\ f \in replacer.evictable /\ pages[f].pin_count = 0
      BY <1>1 DEF Candidate, ReplacerTracksUnpinned
    <2>2. PICK p \in PageIds : page_table[p] = f
      BY <2>1 DEF ReplacerTracksUnpinned
    <2>3. p \in live /\ pages[f].page_id = p
      BY <2>2, FramesInt DEF TableAgreesWithFrames, Resident
    <2>4. \A q \in PageIds : page_table[q] = f => q = p
      BY <2>3, FramesInt DEF TableAgreesWithFrames, Resident
    <2>5. TableAfter(f) = [q \in PageIds |-> IF page_table[q] = f THEN NoFrame
                                             ELSE page_table[q]]
      BY <1>1, <1>t, <2>2, <2>3, <2>4 DEF TableAfter, TypeOK
    <2>6. ReplacerAfter(f) = [tracked |-> replacer.tracked \ {f},
                              evictable |-> replacer.evictable \ {f}]
      BY <1>1 DEF ReplacerAfter, R!Forgotten
    <2>7. FreeListAfter = free_list /\ ~Listed(f, free_list)
      BY <1>1, <2>1 DEF FreeListAfter, Evicting, Listed
    <2>8. Holders(f) = {}
      BY <2>1, HoldersFinite DEF PinCountIsHolders
    <2> QED BY <1>1, <1>t, <2>1, <2>2, <2>3, <2>5, <2>6, <2>7, <2>8
            DEF TypeOK, FreeFramesAreFree, NoRepeats
  <1>2. CASE ~Evicting
    <2>1. f = Head(free_list) /\ free_list # <<>> /\ NoRepeats(free_list)
      BY <1>2 DEF Candidate, Evicting, FreeFramesAreFree, NoRepeats
    <2>2. /\ FreeListAfter \in Seq(Frames) /\ NoRepeats(FreeListAfter)
          /\ \A g : Listed(g, FreeListAfter) <=> Listed(g, free_list) /\ g # f
          /\ Listed(f, free_list)
      BY <1>2, <1>t, <2>1, PoppedList DEF TypeOK, FreeListAfter
    <2>3. /\ pages[f] = ResetPage /\ f \notin replacer.tracked
          /\ \A p \in PageIds : page_table[p] # f
      BY <2>2 DEF Listed, FreeFramesAreFree
    <2>4. f \notin replacer.evictable
      BY <2>3 DEF ReplacerTracksUnpinned
    <2>5. ReplacerAfter(f) = [tracked |-> replacer.tracked \ {f},
                              evictable |-> replacer.evictable \ {f}]
      BY <1>2, <1>t, <2>3, <2>4 DEF ReplacerAfter, TypeOK, R!ReplacerType
    <2>6. TableAfter(f) = [p \in PageIds |-> IF page_table[p] = f THEN NoFrame
                                             ELSE page_table[p]]
      BY <1>2, <1>t, <2>3 DEF TableAfter, TypeOK
    <2>7. Holders(f) = {}
      BY <2>3, HoldersFinite DEF PinCountIsHolders, ResetPage
    <2> QED BY <1>2, <2>2, <2>3, <2>5, <2>6, <2>7
  <1> QED BY <1>1, <1>2

(* Admit puts a page that is not resident into a frame that was taken. *)
LEMMA AdmitKeepsBookkeeping ==
    ASSUME Bookkeeping,
           NEW h \in Handles, pin[h] = NoPin,
           NEW f \in Frames, Candidate(f),
           NEW p \in PageIds, ~Resident(p),
           NEW v \in Data, NEW wrote \in BOOLEAN,
           Admit(h, f, p, v, wrote),
           disk' \in DiskType,
           disk.stream = "bad" => disk'.stream = "bad",
           p \in live', live \subseteq live',
           live' \subseteq 0 .. disk'.next_page_id - 1,
           durable' \in [PageIds -> SUBSET (Data \cup {NoPage})]
    PROVE  Bookkeeping'
  <1> USE DEF Bookkeeping
  <1>t. TypeOK
    OBVIOUS
  <1>taken. /\ Holders(f) = {}
            /\ TableAfter(f) = [q \in PageIds |-> IF page_table[q] = f THEN NoFrame
                                                  ELSE page_table[q]]
            /\ ReplacerAfter(f) = [tracked |-> replacer.tracked \ {f},
                                   evictable |-> replacer.evictable \ {f}]
            /\ FreeListAfter \in Seq(Frames) /\ NoRepeats(FreeListAfter)
            /\ \A g : Listed(g, FreeListAfter) <=> Listed(g, free_list) /\ g # f
    BY TakenFrame
  <1>pages. pages' = [pages EXCEPT ![f] = [data |-> v, page_id |-> p,
                                           pin_count |-> 1, is_dirty |-> FALSE]]
    BY DEF Admit
  <1>table. page_table' = [q \in PageIds |-> IF q = p THEN f
                                             ELSE IF page_table[q] = f THEN NoFrame
                                             ELSE page_table[q]]
    BY <1>taken DEF Admit
  <1>list. free_list' = FreeListAfter
    BY DEF Admit
  <1>repl. /\ replacer'.tracked = replacer.tracked \cup {f}
           /\ replacer'.evictable = replacer.evictable \ {f}
           /\ replacer' \in R!ReplacerType
    <2>1. ReplacerAfter(f) \in R!ReplacerType
      BY <1>t, <1>taken DEF TypeOK, R!ReplacerType
    <2>2. replacer' = R!MadeEvictable(R!Accessed(ReplacerAfter(f), f), f, FALSE)
      BY DEF Admit
    <2>3. replacer' = [tracked |-> ReplacerAfter(f).tracked \cup {f},
                       evictable |-> ReplacerAfter(f).evictable \ {f}]
      BY <2>1, <2>2, ReplacerOperations
    <2>4. /\ ReplacerAfter(f).tracked = replacer.tracked \ {f}
          /\ ReplacerAfter(f).evictable = replacer.evictable \ {f}
      BY <1>taken
    <2> QED BY <1>t, <2>3, <2>4 DEF TypeOK, R!ReplacerType
  <1>pin. pin' = [pin EXCEPT ![h] = [page_id |-> p, frame |-> f, wrote |-> wrote]]
    BY DEF Admit
  <1>holders. /\ Holders(f)' = {h}
              /\ \A g \in Frames \ {f} : Holders(g)' = Holders(g)
    BY <1>t, <1>taken, <1>pin, FramesInt DEF Holders, TypeOK, NoPin
  <1>1. TypeOK'
    <2>1. pages' \in [Frames -> PageType]
      BY <1>t, <1>pages DEF TypeOK, PageType
    <2>2. \A g \in Frames : pages'[g].pin_count >= 0
      BY <1>t, <1>pages DEF TypeOK, PageType
    <2>3. page_table' \in [PageIds -> Frames \cup {NoFrame}]
      BY <1>t, <1>table DEF TypeOK
    <2>4. pin' \in [Handles -> HandleType]
      BY <1>t, <1>pin DEF TypeOK, HandleType
    <2> QED BY <1>taken, <1>list, <1>repl, <2>1, <2>2, <2>3, <2>4 DEF TypeOK
  <1>2. TableAgreesWithFrames'
    BY <1>t, <1>pages, <1>table, FramesInt DEF TableAgreesWithFrames, Resident, TypeOK
  <1>3. FreeFramesAreFree'
    <2>1. ASSUME NEW i \in 1 .. Len(free_list')
          PROVE  /\ pages'[free_list'[i]] = ResetPage
                 /\ free_list'[i] \notin replacer'.tracked
                 /\ \A q \in PageIds : page_table'[q] # free_list'[i]
      <3>1. Listed(free_list'[i], free_list) /\ free_list'[i] # f
        BY <1>list, <1>taken DEF Listed
      <3>2. PICK j \in 1 .. Len(free_list) : free_list[j] = free_list'[i]
        BY <3>1 DEF Listed
      <3>3. free_list'[i] \in Frames
        BY <1>t, <3>2 DEF TypeOK
      <3> QED BY <1>t, <1>pages, <1>table, <1>repl, <3>1, <3>2, <3>3, FramesInt
              DEF FreeFramesAreFree, TypeOK
    <2> QED BY <1>taken, <1>list, <2>1 DEF FreeFramesAreFree, NoRepeats
  <1>4. ReplacerTracksUnpinned'
    <2>1. \A g \in Frames : pages'[g].pin_count = IF g = f THEN 1 ELSE pages[g].pin_count
      BY <1>t, <1>pages DEF TypeOK, PageType
    <2>2. replacer'.tracked \subseteq Frames
      BY <1>repl DEF R!ReplacerType
    <2>3. replacer'.evictable = {g \in replacer'.tracked : pages'[g].pin_count = 0}
      BY <1>t, <1>repl, <2>1, <2>2 DEF ReplacerTracksUnpinned, TypeOK, R!ReplacerType
    <2>4. \A g \in replacer'.tracked : \E q \in PageIds : page_table'[q] = g
      <3> SUFFICES ASSUME NEW g \in replacer'.tracked
                   PROVE  \E q \in PageIds : page_table'[q] = g
        OBVIOUS
      <3>1. CASE g = f
        BY <1>table, <3>1
      <3>2. CASE g # f
        <4>1. PICK q \in PageIds : page_table[q] = g
          BY <1>repl, <3>2 DEF ReplacerTracksUnpinned
        <4>2. g # NoFrame
          BY <2>2, FramesInt
        <4> QED BY <1>table, <3>2, <4>1, <4>2 DEF Resident
      <3> QED BY <3>1, <3>2
    <2>5. \A g \in Frames : pages'[g].pin_count > 0 => g \in replacer'.tracked
      BY <1>repl, <2>1 DEF ReplacerTracksUnpinned
    <2> QED BY <2>3, <2>4, <2>5 DEF ReplacerTracksUnpinned
  <1>5. PinCountIsHolders'
    <2>1. Cardinality({h}) = 1
      BY FS_Singleton
    <2> QED BY <1>t, <1>pages, <1>holders, <2>1 DEF PinCountIsHolders, TypeOK, PageType
  <1>6. HandlesStayValid'
    <2> SUFFICES ASSUME NEW k \in Handles, pin'[k] # NoPin
                 PROVE  /\ pin'[k].page_id \in PageIds
                        /\ pin'[k].frame \in Frames
                        /\ page_table'[pin'[k].page_id] = pin'[k].frame
      BY DEF HandlesStayValid
    <2>1. CASE k = h
      BY <1>t, <1>pin, <1>table, <2>1 DEF TypeOK
    <2>2. CASE k # h
      <3>1. pin'[k] = pin[k] /\ pin[k] # NoPin
        BY <1>t, <1>pin, <2>2 DEF TypeOK
      <3>2. /\ pin[k].page_id \in PageIds /\ pin[k].frame \in Frames
            /\ page_table[pin[k].page_id] = pin[k].frame
        BY <3>1 DEF HandlesStayValid
      <3>3. pin[k].frame # f
        BY <1>taken DEF Holders
      <3>4. pin[k].page_id # p
        BY <3>2, FramesInt DEF Resident
      <3> QED BY <1>table, <3>1, <3>2, <3>3, <3>4
    <2> QED BY <2>1, <2>2
  <1>7. NoFrameLeaks'
    <2> SUFFICES ASSUME disk'.stream # "bad", NEW g \in Frames
                 PROVE  Listed(g, free_list') \/ g \in replacer'.tracked
      BY DEF NoFrameLeaks, Listed
    <2>1. Listed(g, free_list) \/ g \in replacer.tracked
      BY DEF NoFrameLeaks, Listed
    <2> QED BY <1>taken, <1>list, <1>repl, <2>1
  <1> QED BY <1>1, <1>2, <1>3, <1>4, <1>5, <1>6, <1>7

-----------------------------------------------------------------------------
(* One lemma per operation. *)

\* The pages in use have ids below next_page_id_.
LEMMA LiveIds ==
    ASSUME Bookkeeping
    PROVE  /\ disk.next_page_id \in Nat /\ disk.next_page_id <= MaxPages
           /\ live \subseteq PageIds
           /\ \A p \in live : p \in Nat /\ p < disk.next_page_id
  <1>1. disk \in DiskType /\ live \subseteq 0 .. disk.next_page_id - 1
    BY DEF Bookkeeping, TypeOK
  <1>2. disk.next_page_id \in 0 .. MaxPages
    BY <1>1 DEF DiskType
  <1> QED BY <1>1, <1>2, MaxPagesAssumption DEF PageIds

\* DiskAfter writes the victim's own page, and keeps the ids and the stream.
LEMMA DiskAfterFacts ==
    ASSUME Bookkeeping, NEW f \in Frames, Candidate(f)
    PROVE  /\ DiskAfter(f) \in DiskType
           /\ DiskAfter(f).next_page_id = disk.next_page_id
           /\ DiskAfter(f).stream = disk.stream
  <1>1. disk \in DiskType /\ pages[f].data \in Data
    BY DEF Bookkeeping, TypeOK, PageType
  <1>2. WritesBack(f) => pages[f].page_id \in PageIds
    <2> SUFFICES ASSUME Evicting PROVE pages[f].page_id \in PageIds
      BY DEF WritesBack
    <2>1. pages[f].page_id \in live
      BY TakenFrame
    <2> QED BY <2>1, LiveIds
  <1> QED BY <1>1, <1>2, DiskTypes, DiskFields DEF DiskAfter

\* NewPage keeps the bookkeeping.
LEMMA NewPageStep ==
    ASSUME Bookkeeping, NEW h \in Handles, NewPage(h)
    PROVE  Bookkeeping'
  <1>1. PICK f \in Frames :
           /\ Candidate(f)
           /\ Admit(h, f, disk.next_page_id, Zero, DirtyNewPages)
           /\ disk' = AfterAllocate(DiskAfter(f))
    BY DEF NewPage
  <1>t. disk \in DiskType /\ live \subseteq 0 .. disk.next_page_id - 1
    BY DEF Bookkeeping, TypeOK
  <1>2. disk.next_page_id \in PageIds
    BY <1>t, MaxPagesAssumption DEF NewPage, DiskType, PageIds
  <1>3. ~Resident(disk.next_page_id)
    BY <1>t, <1>2 DEF Bookkeeping, TableAgreesWithFrames, PageIds
  <1>4. /\ disk' \in DiskType
        /\ disk'.next_page_id = disk.next_page_id + 1
        /\ disk'.stream = disk.stream
    <2>1. PICK d \in DiskType : /\ d = DiskAfter(f)
                                /\ d.next_page_id = disk.next_page_id
                                /\ d.stream = disk.stream
      BY <1>1, DiskAfterFacts
    <2>2. disk' = AfterAllocate(d) /\ d.next_page_id < MaxPages
      BY <1>1, <2>1 DEF NewPage
    <2>3. AfterAllocate(d) \in DiskType
      BY <2>2, DiskTypes
    <2>4. AfterAllocate(d).next_page_id = d.next_page_id + 1 /\ AfterAllocate(d).stream = d.stream
      BY DiskFields
    <2> QED BY <2>1, <2>2, <2>3, <2>4
  <1>5. /\ live' = live \cup {disk.next_page_id}
        /\ live' \subseteq 0 .. disk'.next_page_id - 1
    <2>1. live' = live \cup {disk.next_page_id}
      BY DEF NewPage
    <2> QED BY <1>4, <2>1, LiveIds
  <1>6. durable' \in [PageIds -> SUBSET (Data \cup {NoPage})]
    BY <1>2, ZeroAssumption DEF NewPage, Bookkeeping, TypeOK
  <1>7. pin[h] = NoPin /\ Zero \in Data /\ DirtyNewPages \in BOOLEAN
    BY ZeroAssumption, SwitchAssumption DEF NewPage
  <1> HIDE DEF NewPage
  <1> QED BY <1>1, <1>2, <1>3, <1>4, <1>5, <1>6, <1>7, AdmitKeepsBookkeeping

\* FetchPage of a page that is not resident keeps the bookkeeping.
LEMMA FetchMissStep ==
    ASSUME Bookkeeping, NEW h \in Handles, NEW p \in PageIds, FetchMiss(h, p)
    PROVE  Bookkeeping'
  <1>1. PICK f \in Frames, fault \in IOFaults :
           /\ Candidate(f)
           /\ Admit(h, f, p, PageRead(DiskAfter(f), p, fault), FALSE)
           /\ disk' = AfterRead(DiskAfter(f), p, fault)
    BY DEF FetchMiss
  <1>2. fault \in BOOLEAN
    BY SwitchAssumption
  <1>3. /\ disk' \in DiskType
        /\ disk'.next_page_id = disk.next_page_id
        /\ disk.stream = "bad" => disk'.stream = "bad"
        /\ PageRead(DiskAfter(f), p, fault) \in Data
    <2>1. /\ DiskAfter(f) \in DiskType
          /\ DiskAfter(f).next_page_id = disk.next_page_id
          /\ DiskAfter(f).stream = disk.stream
      BY <1>1, DiskAfterFacts
    <2>2. PICK d \in DiskType : d = DiskAfter(f)
      BY <2>1
    <2>3. AfterRead(d, p, fault) \in DiskType /\ PageRead(d, p, fault) \in Data
      BY <1>2, DiskTypes
    <2>4. /\ AfterRead(d, p, fault).next_page_id = d.next_page_id
          /\ d.stream = "bad" => AfterRead(d, p, fault).stream = "bad"
      BY <1>2, DiskFields
    <2> QED BY <1>1, <2>1, <2>2, <2>3, <2>4
  <1>4. pin[h] = NoPin /\ ~Resident(p) /\ p \in live' /\ live' = live /\ durable' = durable
    BY DEF FetchMiss
  <1>5. /\ live' \subseteq 0 .. disk'.next_page_id - 1
        /\ durable' \in [PageIds -> SUBSET (Data \cup {NoPage})]
    BY <1>3, <1>4 DEF Bookkeeping, TypeOK
  <1> QED BY <1>1, <1>3, <1>4, <1>5, AdmitKeepsBookkeeping

\* FetchPage of a resident page keeps the bookkeeping.
LEMMA FetchHitStep ==
    ASSUME Bookkeeping, NEW h \in Handles, NEW p \in PageIds, FetchHit(h, p)
    PROVE  Bookkeeping'
  <1> USE DEF Bookkeeping
  <1>t. TypeOK
    OBVIOUS
  <1>f. PICK f \in Frames : f = page_table[p]
    BY <1>t DEF FetchHit, Resident, TypeOK
  <1>free. ~Listed(f, free_list)
    BY <1>f DEF FreeFramesAreFree, Listed
  <1>u. /\ page_table' = page_table /\ free_list' = free_list /\ disk' = disk
        /\ live' = live /\ durable' = durable /\ pin[h] = NoPin
    BY DEF FetchHit
  <1>pages. pages' = [pages EXCEPT ![f].pin_count = @ + 1]
    BY <1>f DEF FetchHit
  <1>pin. pin' = [pin EXCEPT ![h] = [page_id |-> p, frame |-> f, wrote |-> FALSE]]
    BY <1>f DEF FetchHit
  <1>repl. /\ replacer'.tracked = replacer.tracked \cup {f}
           /\ replacer'.evictable = replacer.evictable \ {f}
           /\ replacer' \in R!ReplacerType
    <2>1. replacer' = R!MadeEvictable(R!Accessed(replacer, f), f, FALSE)
      BY <1>f DEF FetchHit
    <2>2. replacer' = [tracked |-> replacer.tracked \cup {f},
                       evictable |-> replacer.evictable \ {f}]
      BY <1>t, <1>f, <2>1, ReplacerOperations DEF TypeOK
    <2> QED BY <1>t, <1>f, <2>2 DEF TypeOK, R!ReplacerType
  <1>counts. /\ pages' \in [Frames -> PageType]
             /\ pages'[f].pin_count = pages[f].pin_count + 1
             /\ pages'[f].page_id = pages[f].page_id
             /\ \A g \in Frames \ {f} : pages'[g] = pages[g]
    <2>1. pages[f] \in PageType /\ pages[f].pin_count \in Int
      BY <1>t DEF TypeOK, PageType
    <2>2. PICK r : r = [pages[f] EXCEPT !.pin_count = pages[f].pin_count + 1]
      OBVIOUS
    <2>3. r \in PageType /\ r.pin_count = pages[f].pin_count + 1
                         /\ r.page_id = pages[f].page_id
      BY <2>1, <2>2 DEF PageType
    <2>4. pages' = [pages EXCEPT ![f] = r]
      BY <1>pages, <2>2
    <2> QED BY <1>t, <2>3, <2>4 DEF TypeOK
  <1>holders. /\ Holders(f)' = Holders(f) \cup {h} /\ h \notin Holders(f)
              /\ \A g \in Frames \ {f} : Holders(g)' = Holders(g)
    BY <1>t, <1>f, <1>u, <1>pin, FramesInt DEF Holders, TypeOK, NoPin
  <1>1. TypeOK'
    <2>1. \A g \in Frames : pages'[g].pin_count >= 0
      <3>1. \A g \in Frames : pages[g].pin_count \in Int /\ pages[g].pin_count >= 0
        BY <1>t DEF TypeOK, PageType
      <3> QED BY <1>counts, <3>1
    <2>2. pin' \in [Handles -> HandleType]
      BY <1>t, <1>f, <1>pin DEF TypeOK, HandleType
    <2> QED BY <1>t, <1>u, <1>counts, <1>repl, <2>1, <2>2 DEF TypeOK
  <1>2. TableAgreesWithFrames'
    BY <1>t, <1>u, <1>counts, FramesInt DEF TableAgreesWithFrames, Resident, TypeOK
  <1>3. FreeFramesAreFree'
    <2>1. \A i \in 1 .. Len(free_list) : free_list[i] \in Frames \ {f}
      BY <1>t, <1>free DEF TypeOK, Listed
    <2> QED BY <1>u, <1>counts, <1>repl, <2>1 DEF FreeFramesAreFree
  <1>4. ReplacerTracksUnpinned'
    <2>1. pages'[f].pin_count # 0 /\ pages[f].pin_count \in Int
      BY <1>t, <1>f, <1>counts DEF TypeOK, PageType
    <2>2. replacer.tracked \subseteq Frames
      BY <1>t DEF TypeOK, R!ReplacerType
    <2>3. replacer'.evictable = {g \in replacer'.tracked : pages'[g].pin_count = 0}
      BY <1>f, <1>counts, <1>repl, <2>1, <2>2 DEF ReplacerTracksUnpinned
    <2> QED BY <1>f, <1>u, <1>counts, <1>repl, <2>3 DEF ReplacerTracksUnpinned
  <1>5. PinCountIsHolders'
    <2>1. Cardinality(Holders(f)') = Cardinality(Holders(f)) + 1
      BY <1>holders, HoldersFinite, FS_AddElement
    <2> QED BY <1>f, <1>counts, <1>holders, <2>1 DEF PinCountIsHolders
  <1>6. HandlesStayValid'
    BY <1>t, <1>f, <1>u, <1>pin DEF HandlesStayValid, TypeOK
  <1>7. NoFrameLeaks'
    BY <1>u, <1>repl DEF NoFrameLeaks
  <1> QED BY <1>1, <1>2, <1>3, <1>4, <1>5, <1>6, <1>7

(* A step that moves no page, no pin and no frame: it may write data, set  *)
(* or clear dirty flags of mapped frames, and use the disk.                *)
LEMMA QuietStep ==
    ASSUME Bookkeeping,
           disk' \in DiskType,
           disk'.next_page_id = disk.next_page_id,
           disk.stream = "bad" => disk'.stream = "bad",
           UNCHANGED <<replacer, page_table, free_list, live>>,
           durable' \in [PageIds -> SUBSET (Data \cup {NoPage})],
           pages' \in [Frames -> PageType],
           \A g \in Frames : /\ pages'[g].page_id = pages[g].page_id
                             /\ pages'[g].pin_count = pages[g].pin_count
                             /\ \/ pages'[g] = pages[g]
                                \/ \E p \in PageIds : page_table[p] = g,
           pin' \in [Handles -> HandleType],
           \A k \in Handles : /\ pin'[k].page_id = pin[k].page_id
                              /\ pin'[k].frame = pin[k].frame
                              /\ pin[k] = NoPin => pin'[k] = NoPin
    PROVE  Bookkeeping'
  <1> USE DEF Bookkeeping
  <1>t. TypeOK
    OBVIOUS
  <1>1. TypeOK'
    BY <1>t DEF TypeOK
  <1>2. TableAgreesWithFrames'
    <2>1. \A p \in PageIds : Resident(p) => page_table[p] \in Frames
      BY <1>t DEF Resident, TypeOK
    <2> QED BY <2>1 DEF TableAgreesWithFrames, Resident
  <1>3. FreeFramesAreFree'
    BY <1>t DEF FreeFramesAreFree, TypeOK
  <1>4. ReplacerTracksUnpinned'
    <2>1. replacer.tracked \subseteq Frames
      BY <1>t DEF TypeOK, R!ReplacerType
    <2> QED BY <2>1 DEF ReplacerTracksUnpinned
  <1>5. PinCountIsHolders'
    <2>1. \A g \in Frames : Holders(g)' = Holders(g)
      BY DEF Holders
    <2> QED BY <2>1 DEF PinCountIsHolders
  <1>6. HandlesStayValid'
    BY DEF HandlesStayValid
  <1>7. NoFrameLeaks'
    BY DEF NoFrameLeaks
  <1> QED BY <1>1, <1>2, <1>3, <1>4, <1>5, <1>6, <1>7

\* Writing through a handle keeps the bookkeeping.
LEMMA WriteStep ==
    ASSUME Bookkeeping, NEW h \in Handles, NEW v \in Data, Write(h, v)
    PROVE  Bookkeeping'
  <1>t. TypeOK
    BY DEF Bookkeeping
  <1>1. /\ pin[h].page_id \in PageIds
        /\ page_table[pin[h].page_id] = pin[h].frame
    BY DEF Write, Bookkeeping, HandlesStayValid
  <1>2. PICK f \in Frames : f = pin[h].frame
    BY DEF Write, Bookkeeping, HandlesStayValid
  <1>3. PICK r : r = [pages[f] EXCEPT !.data = v]
    OBVIOUS
  <1>4. /\ r \in PageType /\ r.pin_count = pages[f].pin_count
        /\ r.page_id = pages[f].page_id
    BY <1>t, <1>3 DEF TypeOK, PageType
  <1>5. pages' = [pages EXCEPT ![f] = r]
    BY <1>2, <1>3 DEF Write
  <1>6. /\ pages' \in [Frames -> PageType]
        /\ \A g \in Frames : /\ pages'[g].page_id = pages[g].page_id
                             /\ pages'[g].pin_count = pages[g].pin_count
                             /\ \/ pages'[g] = pages[g]
                                \/ \E p \in PageIds : page_table[p] = g
    BY <1>t, <1>1, <1>2, <1>4, <1>5 DEF TypeOK
  <1>7. /\ pin' \in [Handles -> HandleType]
        /\ \A k \in Handles : /\ pin'[k].page_id = pin[k].page_id
                              /\ pin'[k].frame = pin[k].frame
                              /\ pin[k] = NoPin => pin'[k] = NoPin
    <2>1. PICK w : w = [pin[h] EXCEPT !.wrote = TRUE]
      OBVIOUS
    <2>2. w \in HandleType /\ w.page_id = pin[h].page_id /\ w.frame = pin[h].frame
      BY <1>t, <2>1 DEF TypeOK, HandleType
    <2>3. pin' = [pin EXCEPT ![h] = w] /\ pin[h] # NoPin
      BY <2>1 DEF Write
    <2> QED BY <1>t, <2>2, <2>3 DEF TypeOK
  <1>8. durable' \in [PageIds -> SUBSET (Data \cup {NoPage})]
    BY <1>t, <1>1 DEF Write, TypeOK
  <1>9. disk' = disk /\ disk' \in DiskType /\ UNCHANGED <<replacer, page_table, free_list, live>>
    BY <1>t DEF Write, TypeOK
  <1> QED BY <1>6, <1>7, <1>8, <1>9, QuietStep

\* FlushPage keeps the bookkeeping.
LEMMA FlushPageStep ==
    ASSUME Bookkeeping, NEW p \in PageIds, FlushPage(p)
    PROVE  Bookkeeping'
  <1>t. TypeOK
    BY DEF Bookkeeping
  <1>1. PICK f \in Frames : f = page_table[p]
    BY <1>t DEF FlushPage, Resident, TypeOK
  <1>2. PICK r : r = [pages[f] EXCEPT !.is_dirty = FALSE]
    OBVIOUS
  <1>3. /\ r \in PageType /\ r.pin_count = pages[f].pin_count
        /\ r.page_id = pages[f].page_id /\ pages[f].data \in Data
    BY <1>t, <1>2 DEF TypeOK, PageType
  <1>4. pages' = [pages EXCEPT ![f] = r]
    BY <1>1, <1>2 DEF FlushPage
  <1>5. /\ pages' \in [Frames -> PageType]
        /\ \A g \in Frames : /\ pages'[g].page_id = pages[g].page_id
                             /\ pages'[g].pin_count = pages[g].pin_count
                             /\ \/ pages'[g] = pages[g]
                                \/ \E q \in PageIds : page_table[q] = g
    BY <1>t, <1>1, <1>3, <1>4 DEF TypeOK
  <1>6. durable' \in [PageIds -> SUBSET (Data \cup {NoPage})]
    BY <1>t, <1>1, <1>3 DEF FlushPage, TypeOK
  <1>7. /\ disk' \in DiskType /\ disk'.next_page_id = disk.next_page_id
        /\ disk'.stream = disk.stream
    <2>1. disk' = AfterWrite(disk, p, pages[f].data) /\ disk \in DiskType
      BY <1>t, <1>1 DEF FlushPage, TypeOK
    <2> QED BY <1>3, <2>1, DiskTypes, DiskFields
  <1>8. pin' = pin /\ pin \in [Handles -> HandleType]
                   /\ UNCHANGED <<replacer, page_table, free_list, live>>
    BY <1>t DEF FlushPage, TypeOK
  <1> QED BY <1>5, <1>6, <1>7, <1>8, QuietStep

\* A FlushPage whose write fails keeps the bookkeeping.
LEMMA FlushThrowsStep ==
    ASSUME Bookkeeping, NEW p \in PageIds, FlushThrows(p)
    PROVE  Bookkeeping'
  <1>t. TypeOK
    BY DEF Bookkeeping
  <1>1. disk \in DiskType /\ disk' = AfterWriteThrows(disk)
    BY <1>t DEF FlushThrows, TypeOK
  <1>2. disk' \in DiskType /\ disk'.next_page_id = disk.next_page_id /\ disk'.stream = "bad"
    BY <1>1, DiskTypes, DiskFields
  <1>3. /\ UNCHANGED <<replacer, page_table, free_list, live, pages, pin, durable>>
        /\ pages \in [Frames -> PageType] /\ pin \in [Handles -> HandleType]
        /\ durable \in [PageIds -> SUBSET (Data \cup {NoPage})]
    BY <1>t DEF FlushThrows, TypeOK
  <1> QED BY <1>2, <1>3, QuietStep

\* FlushAllPages, also when it stops half way, keeps the bookkeeping.
LEMMA FlushSetStep ==
    ASSUME Bookkeeping, NEW S \in SUBSET ResidentPages, NEW stream \in StreamStates,
           disk.stream = "bad" => stream = "bad", FlushSet(S, stream)
    PROVE  Bookkeeping'
  <1>t. TypeOK
    BY DEF Bookkeeping
  <1>1. \A p \in S : p \in PageIds /\ page_table[p] \in Frames
                                  /\ pages[page_table[p]].data \in Data
    BY <1>t DEF ResidentPages, Resident, TypeOK, PageType
  <1>2. /\ disk' \in DiskType /\ disk'.next_page_id = disk.next_page_id
        /\ disk'.stream = stream
    <2>0. PICK file : file = [p \in PageIds |-> IF p \in S /\ disk.stream = "good"
                                                THEN pages[page_table[p]].data
                                                ELSE disk.file[p]]
      OBVIOUS
    <2>1. PICK size, num_pages \in 0 .. MaxPages :
             disk' = [disk EXCEPT !.file = file, !.size = size,
                                  !.num_pages = num_pages, !.stream = stream]
      BY <2>0 DEF FlushSet
    <2>2. disk \in DiskType
      BY <1>t DEF TypeOK
    <2>3. file \in [PageIds -> Data]
      BY <1>1, <2>0, <2>2 DEF DiskType
    <2> QED BY <2>1, <2>2, <2>3 DEF DiskType
  <1>3. ASSUME NEW g \in Frames
        PROVE  /\ pages'[g] \in PageType
               /\ pages'[g].page_id = pages[g].page_id
               /\ pages'[g].pin_count = pages[g].pin_count
               /\ pages'[g] = pages[g] \/ \E p \in PageIds : page_table[p] = g
    <2>1. PICK b \in BOOLEAN : b = (pages[g].is_dirty /\ \A p \in S : page_table[p] # g)
      OBVIOUS
    <2>2. pages'[g] = [pages[g] EXCEPT !.is_dirty = b] /\ pages[g] \in PageType
      BY <1>t, <2>1 DEF FlushSet, TypeOK
    <2>3. \/ \E p \in PageIds : page_table[p] = g
          \/ b = pages[g].is_dirty
      BY <1>1, <2>1, <2>2 DEF PageType
    <2> QED BY <2>2, <2>3 DEF PageType
  <1>4. pages' \in [Frames -> PageType]
    BY <1>3 DEF FlushSet
  <1>5. durable' \in [PageIds -> SUBSET (Data \cup {NoPage})]
    BY <1>t, <1>1 DEF FlushSet, TypeOK
  <1>6. pin' = pin /\ pin \in [Handles -> HandleType]
                   /\ UNCHANGED <<replacer, page_table, free_list, live>>
    BY <1>t DEF FlushSet, TypeOK
  <1> QED BY <1>2, <1>3, <1>4, <1>5, <1>6, QuietStep

-----------------------------------------------------------------------------
\* A write-back that fails during NewPage or FetchPage keeps the bookkeeping.
LEMMA WriteBackThrowsStep ==
    ASSUME Bookkeeping, WriteBackThrows
    PROVE  Bookkeeping'
  <1> USE DEF Bookkeeping
  <1>t. TypeOK
    OBVIOUS
  <1>1. PICK f \in Frames : Candidate(f) /\ Evicting /\ replacer' = R!Forgotten(replacer, f)
    BY DEF WriteBackThrows, WritesBack
  <1>2. /\ replacer'.tracked = replacer.tracked \ {f}
        /\ replacer'.evictable = replacer.evictable \ {f}
        /\ replacer' \in R!ReplacerType
    BY <1>t, <1>1 DEF R!Forgotten, R!ReplacerType, TypeOK
  <1>3. disk' \in DiskType /\ disk'.next_page_id = disk.next_page_id /\ disk'.stream = "bad"
    BY <1>t, DiskTypes, DiskFields DEF WriteBackThrows, TypeOK
  <1>4. pages[f].pin_count = 0
    BY <1>1 DEF Candidate, ReplacerTracksUnpinned
  <1>5. UNCHANGED <<pages, page_table, free_list, pin, live, durable>>
    BY DEF WriteBackThrows
  <1>6. TypeOK'
    BY <1>t, <1>2, <1>3, <1>5 DEF TypeOK
  <1>7. TableAgreesWithFrames' /\ HandlesStayValid'
    BY <1>5 DEF TableAgreesWithFrames, HandlesStayValid, Resident
  <1>8. FreeFramesAreFree'
    BY <1>2, <1>5 DEF FreeFramesAreFree
  <1>9. ReplacerTracksUnpinned'
    BY <1>2, <1>4, <1>5 DEF ReplacerTracksUnpinned
  <1>10. PinCountIsHolders'
    BY <1>5 DEF PinCountIsHolders, Holders
  <1>11. NoFrameLeaks'
    BY <1>3 DEF NoFrameLeaks
  <1> QED BY <1>6, <1>7, <1>8, <1>9, <1>10, <1>11

\* A FetchPage whose read fails keeps the bookkeeping.
LEMMA FetchReadThrowsStep ==
    ASSUME Bookkeeping, NEW h \in Handles, NEW p \in PageIds, FetchReadThrows(h, p)
    PROVE  Bookkeeping'
  <1> USE DEF Bookkeeping
  <1>t. TypeOK
    OBVIOUS
  <1>1. PICK f \in Frames : /\ Candidate(f)
                            /\ ReadThrows(DiskAfter(f))
                            /\ page_table' = TableAfter(f)
                            /\ replacer' = ReplacerAfter(f)
                            /\ disk' = DiskAfter(f)
    BY DEF FetchReadThrows
  <1>taken. /\ Holders(f) = {}
            /\ page_table' = [q \in PageIds |-> IF page_table[q] = f THEN NoFrame
                                                ELSE page_table[q]]
            /\ replacer'.tracked = replacer.tracked \ {f}
            /\ replacer'.evictable = replacer.evictable \ {f}
            /\ replacer' = [tracked |-> replacer.tracked \ {f},
                            evictable |-> replacer.evictable \ {f}]
            /\ free_list' \in Seq(Frames) /\ NoRepeats(free_list')
            /\ \A g : Listed(g, free_list') <=> Listed(g, free_list) /\ g # f
    <2>1. free_list' = FreeListAfter
      BY DEF FetchReadThrows
    <2>2. ReplacerAfter(f) = [tracked |-> replacer.tracked \ {f},
                              evictable |-> replacer.evictable \ {f}]
      BY <1>1, TakenFrame
    <2> QED BY <1>1, <2>1, <2>2, TakenFrame
  <1>2. /\ disk' \in DiskType /\ disk'.next_page_id = disk.next_page_id
        /\ disk'.stream = "bad"
    BY <1>1, DiskAfterFacts DEF ReadThrows
  <1>3. UNCHANGED <<pages, pin, live, durable>>
    BY DEF FetchReadThrows
  <1>4. pages[f].pin_count = 0
    BY <1>taken, HoldersFinite DEF PinCountIsHolders
  <1>5. TypeOK'
    BY <1>t, <1>taken, <1>2, <1>3 DEF TypeOK, R!ReplacerType
  <1>6. TableAgreesWithFrames'
    BY <1>taken, <1>3 DEF TableAgreesWithFrames, Resident
  <1>7. FreeFramesAreFree'
    <2>1. ASSUME NEW i \in 1 .. Len(free_list')
          PROVE  /\ pages'[free_list'[i]] = ResetPage
                 /\ free_list'[i] \notin replacer'.tracked
                 /\ \A q \in PageIds : page_table'[q] # free_list'[i]
      <3>1. Listed(free_list'[i], free_list)
        BY <1>taken DEF Listed
      <3>2. PICK j \in 1 .. Len(free_list) : free_list[j] = free_list'[i]
        BY <3>1 DEF Listed
      <3>3. free_list'[i] \in Frames
        BY <1>t, <3>2 DEF TypeOK
      <3> QED BY <1>taken, <1>3, <3>2, <3>3, FramesInt DEF FreeFramesAreFree
    <2> QED BY <1>taken, <2>1 DEF FreeFramesAreFree, NoRepeats
  <1>8. ReplacerTracksUnpinned'
    <2>1. \A g \in replacer'.tracked : \E q \in PageIds : page_table'[q] = g
      BY <1>t, <1>taken, FramesInt DEF ReplacerTracksUnpinned, TypeOK, R!ReplacerType
    <2> QED BY <1>taken, <1>3, <1>4, <2>1 DEF ReplacerTracksUnpinned
  <1>9. PinCountIsHolders'
    BY <1>3 DEF PinCountIsHolders, Holders
  <1>10. HandlesStayValid'
    BY <1>taken, <1>3 DEF HandlesStayValid, Holders
  <1>11. NoFrameLeaks'
    BY <1>2 DEF NoFrameLeaks
  <1> QED BY <1>5, <1>6, <1>7, <1>8, <1>9, <1>10, <1>11

\* DeletePage of a page that is not resident keeps the bookkeeping.
LEMMA DeleteAbsentStep ==
    ASSUME Bookkeeping, NEW p \in PageIds, DeleteAbsent(p)
    PROVE  Bookkeeping'
  <1> USE DEF Bookkeeping
  <1>1. /\ UNCHANGED <<disk, replacer, pages, page_table, free_list, pin>>
        /\ live' = live \ {p} /\ ~Resident(p)
        /\ durable' = [durable EXCEPT ![p] = {NoPage}]
    BY DEF DeleteAbsent, Forget
  <1>2. TypeOK'
    BY <1>1 DEF TypeOK
  <1>3. TableAgreesWithFrames'
    BY <1>1 DEF TableAgreesWithFrames, Resident
  <1>4. FreeFramesAreFree' /\ ReplacerTracksUnpinned' /\ HandlesStayValid' /\ NoFrameLeaks'
    BY <1>1 DEF FreeFramesAreFree, ReplacerTracksUnpinned, HandlesStayValid, NoFrameLeaks
  <1>5. PinCountIsHolders'
    BY <1>1 DEF PinCountIsHolders, Holders
  <1> QED BY <1>2, <1>3, <1>4, <1>5

\* DeletePage of a resident, unpinned page keeps the bookkeeping.
LEMMA DeleteResidentStep ==
    ASSUME Bookkeeping, NEW p \in PageIds, DeleteResident(p)
    PROVE  Bookkeeping'
  <1> USE DEF Bookkeeping
  <1>t. TypeOK
    OBVIOUS
  <1>1. PICK f \in Frames : f = page_table[p]
    BY <1>t DEF DeleteResident, Resident, TypeOK
  <1>2. pages[f].pin_count = 0 /\ Holders(f) = {} /\ ~Listed(f, free_list)
    BY <1>1, HoldersFinite DEF DeleteResident, PinCountIsHolders, FreeFramesAreFree, Listed
  <1>3. ~R!RemoveThrows(replacer, f)
    BY <1>2 DEF ReplacerTracksUnpinned, R!RemoveThrows
  <1>4. /\ page_table' = [page_table EXCEPT ![p] = NoFrame]
        /\ replacer' = R!Forgotten(replacer, f)
        /\ free_list' = Append(free_list, f)
        /\ pages' = [pages EXCEPT ![f] = ResetPage]
        /\ live' = live \ {p} /\ durable' = [durable EXCEPT ![p] = {NoPage}]
        /\ disk' = disk /\ pin' = pin
    BY <1>1, <1>3 DEF DeleteResident, Forget
  <1>5. /\ replacer'.tracked = replacer.tracked \ {f}
        /\ replacer'.evictable = replacer.evictable \ {f}
        /\ replacer' \in R!ReplacerType
    BY <1>t, <1>4 DEF R!Forgotten, R!ReplacerType, TypeOK
  <1>6. /\ free_list' \in Seq(Frames) /\ NoRepeats(free_list')
        /\ \A g : Listed(g, free_list') <=> Listed(g, free_list) \/ g = f
    BY <1>t, <1>2, <1>4, PushedList DEF TypeOK, FreeFramesAreFree, NoRepeats
  <1>7. /\ pages' \in [Frames -> PageType] /\ pages'[f] = ResetPage
        /\ pages'[f].pin_count = 0
        /\ \A g \in Frames \ {f} : pages'[g] = pages[g]
    BY <1>t, <1>4, ZeroAssumption DEF TypeOK, PageType, ResetPage
  <1>8. \A q \in PageIds : page_table[q] = f => q = p
    BY <1>1, FramesInt DEF TableAgreesWithFrames, Resident
  <1>9. page_table' = [q \in PageIds |-> IF page_table[q] = f THEN NoFrame ELSE page_table[q]]
    BY <1>t, <1>1, <1>4, <1>8 DEF TypeOK
  <1>10. TypeOK'
    <2>1. \A g \in Frames : pages'[g].pin_count >= 0
      BY <1>t, <1>7 DEF TypeOK
    <2>2. durable' \in [PageIds -> SUBSET (Data \cup {NoPage})]
      BY <1>t, <1>4 DEF TypeOK
    <2>3. page_table' \in [PageIds -> Frames \cup {NoFrame}]
      BY <1>t, <1>9 DEF TypeOK
    <2> QED BY <1>t, <1>4, <1>5, <1>6, <1>7, <2>1, <2>2, <2>3 DEF TypeOK
  <1>11. TableAgreesWithFrames'
    BY <1>t, <1>1, <1>4, <1>7, <1>9 DEF TableAgreesWithFrames, Resident, TypeOK
  <1>12. FreeFramesAreFree'
    <2>1. ASSUME NEW i \in 1 .. Len(free_list')
          PROVE  /\ pages'[free_list'[i]] = ResetPage
                 /\ free_list'[i] \notin replacer'.tracked
                 /\ \A q \in PageIds : page_table'[q] # free_list'[i]
      <3>1. Listed(free_list'[i], free_list) \/ free_list'[i] = f
        BY <1>6 DEF Listed
      <3>2. CASE free_list'[i] = f
        BY <1>5, <1>7, <1>9, <3>2, FramesInt
      <3>3. CASE free_list'[i] # f
        <4>1. PICK j \in 1 .. Len(free_list) : free_list[j] = free_list'[i]
          BY <3>1, <3>3 DEF Listed
        <4>2. PICK g \in Frames : g = free_list[j]
          BY <1>t, <4>1 DEF TypeOK
        <4>3. /\ pages[g] = ResetPage /\ g \notin replacer.tracked
              /\ \A q \in PageIds : page_table[q] # g
          BY <4>1, <4>2 DEF FreeFramesAreFree
        <4>4. \A q \in PageIds : page_table'[q] # g
          BY <1>9, <4>3, FramesInt
        <4> QED BY <1>5, <1>7, <3>3, <4>1, <4>2, <4>3, <4>4
      <3> QED BY <3>2, <3>3
    <2> QED BY <1>6, <2>1 DEF FreeFramesAreFree, NoRepeats
  <1>13. ReplacerTracksUnpinned'
    <2>1. replacer.tracked \subseteq Frames
      BY <1>t DEF TypeOK, R!ReplacerType
    <2>2. replacer'.evictable = {g \in replacer'.tracked : pages'[g].pin_count = 0}
      BY <1>5, <1>7, <2>1 DEF ReplacerTracksUnpinned
    <2>3. \A g \in replacer'.tracked : \E q \in PageIds : page_table'[q] = g
      BY <1>5, <1>9, <2>1, FramesInt DEF ReplacerTracksUnpinned
    <2>4. \A g \in Frames : pages'[g].pin_count > 0 => g \in replacer'.tracked
      BY <1>5, <1>7 DEF ReplacerTracksUnpinned
    <2> QED BY <2>2, <2>3, <2>4 DEF ReplacerTracksUnpinned
  <1>14. PinCountIsHolders'
    <2>1. \A g \in Frames : Holders(g)' = Holders(g)
      BY <1>4 DEF Holders
    <2>2. Cardinality(Holders(f)) = 0
      BY <1>2, HoldersFinite
    <2> QED BY <1>7, <2>1, <2>2 DEF PinCountIsHolders
  <1>15. HandlesStayValid'
    BY <1>2, <1>4, <1>9 DEF HandlesStayValid, Holders
  <1>16. NoFrameLeaks'
    <2> SUFFICES ASSUME disk'.stream # "bad", NEW g \in Frames
                 PROVE  Listed(g, free_list') \/ g \in replacer'.tracked
      BY DEF NoFrameLeaks, Listed
    <2>1. Listed(g, free_list) \/ g \in replacer.tracked
      BY <1>4 DEF NoFrameLeaks, Listed
    <2> QED BY <1>5, <1>6, <2>1
  <1> QED BY <1>10, <1>11, <1>12, <1>13, <1>14, <1>15, <1>16

\* UnpinPage keeps the bookkeeping.
LEMMA UnpinPageStep ==
    ASSUME Bookkeeping, NEW h \in Handles, NEW b \in BOOLEAN, UnpinPage(h, b)
    PROVE  Bookkeeping'
  <1> USE DEF Bookkeeping
  <1>t. TypeOK
    OBVIOUS
  <1>1. PICK p \in PageIds : p = pin[h].page_id
    BY DEF UnpinPage, HandlesStayValid
  <1>2. PICK f \in Frames : f = page_table[p] /\ f = pin[h].frame
    BY <1>1 DEF UnpinPage, HandlesStayValid
  <1>3. h \in Holders(f) /\ pages[f] \in PageType /\ pages[f].pin_count \in Int
    BY <1>t, <1>2 DEF Holders, TypeOK, PageType
  <1>4. pages[f].pin_count > 0
    BY <1>t, <1>3, HoldersFinite DEF TypeOK, PinCountIsHolders
  <1>5. ~Listed(f, free_list) /\ Resident(p) /\ f \in replacer.tracked
    BY <1>2, <1>4, FramesInt
       DEF FreeFramesAreFree, Listed, Resident, ReplacerTracksUnpinned
  <1>d. PICK d \in BOOLEAN : d = (pages[f].is_dirty \/ b)
    OBVIOUS
  <1>6. PICK r : r = [pages[f] EXCEPT !.pin_count = pages[f].pin_count - 1,
                                      !.is_dirty = d]
    OBVIOUS
  <1>7. /\ pages' = [pages EXCEPT ![f] = r]
        /\ replacer' = IF pages[f].pin_count = 1 THEN R!MadeEvictable(replacer, f, TRUE)
                       ELSE replacer
    <2>1. ~(~Resident(p) \/ pages[f].pin_count <= 0)
      BY <1>3, <1>4, <1>5
    <2>2. /\ pages' = [pages EXCEPT ![f].pin_count = @ - 1, ![f].is_dirty = @ \/ b]
          /\ replacer' = IF pages[f].pin_count = 1 THEN R!MadeEvictable(replacer, f, TRUE)
                         ELSE replacer
      BY <1>1, <1>2, <2>1 DEF UnpinPage
    <2>3. pages' = [pages EXCEPT ![f] = r]
      BY <1>t, <1>3, <1>d, <1>6, <2>2 DEF TypeOK, PageType
    <2> QED BY <2>2, <2>3
  <1>u. /\ pin' = [pin EXCEPT ![h] = NoPin]
        /\ UNCHANGED <<disk, page_table, free_list, live, durable>>
    BY DEF UnpinPage
  <1>8. /\ r \in PageType /\ r.pin_count = pages[f].pin_count - 1
        /\ r.page_id = pages[f].page_id
    <2>1. PICK n \in Int : n = pages[f].pin_count - 1
      BY <1>3
    <2>2. r = [pages[f] EXCEPT !.pin_count = n, !.is_dirty = d]
      BY <1>6, <2>1
    <2>3. r \in PageType /\ r.pin_count = n /\ r.page_id = pages[f].page_id
      BY <1>3, <2>2 DEF PageType
    <2> QED BY <2>1, <2>3
  <1>9. /\ pages' \in [Frames -> PageType] /\ pages'[f] = r
        /\ \A g \in Frames \ {f} : pages'[g] = pages[g]
    BY <1>t, <1>7, <1>8 DEF TypeOK
  <1>10. /\ replacer'.tracked = replacer.tracked /\ replacer' \in R!ReplacerType
         /\ replacer'.evictable = IF pages[f].pin_count = 1 THEN replacer.evictable \cup {f}
                                  ELSE replacer.evictable
    <2>1. CASE pages[f].pin_count = 1
      <3>1. replacer' = [tracked |-> replacer.tracked, evictable |-> replacer.evictable \cup {f}]
        BY <1>t, <1>5, <1>7, <2>1, ReplacerOperations DEF TypeOK
      <3> QED BY <1>t, <2>1, <3>1 DEF TypeOK, R!ReplacerType
    <2>2. CASE pages[f].pin_count # 1
      BY <1>t, <1>7, <2>2 DEF TypeOK
    <2> QED BY <2>1, <2>2
  <1>11. /\ Holders(f)' = Holders(f) \ {h}
         /\ \A g \in Frames \ {f} : Holders(g)' = Holders(g)
    BY <1>t, <1>2, <1>u, FramesInt DEF Holders, TypeOK, NoPin
  <1>12. TypeOK'
    <2>1. \A g \in Frames : pages'[g].pin_count >= 0
      <3>1. \A g \in Frames : pages[g].pin_count >= 0
        BY <1>t DEF TypeOK
      <3> QED BY <1>3, <1>4, <1>8, <1>9, <3>1
    <2>2. pin' \in [Handles -> HandleType]
      BY <1>t, <1>u DEF TypeOK, HandleType, NoPin
    <2> QED BY <1>t, <1>u, <1>9, <1>10, <2>1, <2>2 DEF TypeOK
  <1>13. TableAgreesWithFrames'
    <2>1. \A q \in PageIds : Resident(q) => page_table[q] \in Frames
      BY <1>t DEF Resident, TypeOK
    <2> QED BY <1>u, <1>8, <1>9, <2>1 DEF TableAgreesWithFrames, Resident
  <1>14. FreeFramesAreFree'
    <2>1. \A i \in 1 .. Len(free_list) : free_list[i] \in Frames \ {f}
      BY <1>t, <1>5 DEF TypeOK, Listed
    <2> QED BY <1>u, <1>9, <1>10, <2>1 DEF FreeFramesAreFree
  <1>15. ReplacerTracksUnpinned'
    <2>1. replacer.tracked \subseteq Frames
      BY <1>t DEF TypeOK, R!ReplacerType
    <2>2. replacer'.evictable = {g \in replacer'.tracked : pages'[g].pin_count = 0}
      BY <1>3, <1>4, <1>5, <1>8, <1>9, <1>10, <2>1 DEF ReplacerTracksUnpinned
    <2>3. \A g \in Frames : pages'[g].pin_count > 0 => g \in replacer'.tracked
      BY <1>5, <1>9, <1>10 DEF ReplacerTracksUnpinned
    <2> QED BY <1>u, <1>10, <2>2, <2>3 DEF ReplacerTracksUnpinned
  <1>16. PinCountIsHolders'
    <2>1. Cardinality(Holders(f)') = Cardinality(Holders(f)) - 1
      BY <1>3, <1>11, HoldersFinite, FS_RemoveElement
    <2> QED BY <1>8, <1>9, <1>11, <2>1 DEF PinCountIsHolders
  <1>17. HandlesStayValid'
    BY <1>t, <1>u DEF HandlesStayValid, TypeOK
  <1>18. NoFrameLeaks'
    BY <1>u, <1>10 DEF NoFrameLeaks
  <1> QED BY <1>12, <1>13, <1>14, <1>15, <1>16, <1>17, <1>18

-----------------------------------------------------------------------------
(* The constructor's pool, at the first start and after a crash. *)
Fresh ==
    /\ replacer = R!Empty /\ pages = AllReset /\ page_table = EmptyTable
    /\ free_list = AllFree /\ pin = [h \in Handles |-> NoPin]
    /\ disk \in DiskType /\ live \subseteq 0 .. disk.next_page_id - 1
    /\ durable \in [PageIds -> SUBSET (Data \cup {NoPage})]

\* A pool as the constructor leaves it satisfies the bookkeeping.
LEMMA FreshPoolFacts == Fresh => Bookkeeping
  <1> SUFFICES ASSUME Fresh PROVE Bookkeeping
    OBVIOUS
  <1> USE DEF Fresh
  <1>0. /\ free_list \in Seq(Frames) /\ Len(free_list) = PoolSize
        /\ \A i \in 1 .. PoolSize : free_list[i] = i - 1
    BY PoolSizeAssumption DEF AllFree, Frames
  <1>1. TypeOK
    <2>1. ResetPage \in PageType /\ NoPin \in HandleType /\ ResetPage.pin_count = 0
      BY ZeroAssumption DEF ResetPage, PageType, NoPin, HandleType
    <2>2. replacer \in R!ReplacerType
      BY DEF R!Empty, R!ReplacerType
    <2> QED BY <1>0, <2>1, <2>2 DEF TypeOK, AllReset, EmptyTable
  <1>2. TableAgreesWithFrames
    BY DEF TableAgreesWithFrames, Resident, EmptyTable
  <1>3. FreeFramesAreFree
    BY <1>0, PoolSizeAssumption
       DEF FreeFramesAreFree, AllReset, EmptyTable, R!Empty, NoFrame, Frames
  <1>4. ReplacerTracksUnpinned
    BY DEF ReplacerTracksUnpinned, R!Empty, AllReset, ResetPage
  <1>5. PinCountIsHolders
    <2>1. \A f \in Frames : Holders(f) = {}
      BY FramesInt DEF Holders, NoPin
    <2> QED BY <2>1, FS_EmptySet DEF PinCountIsHolders, AllReset, ResetPage
  <1>6. HandlesStayValid
    BY DEF HandlesStayValid
  <1>7. NoFrameLeaks
    <2> SUFFICES ASSUME NEW f \in Frames
                 PROVE  \E i \in 1 .. Len(free_list) : free_list[i] = f
      BY DEF NoFrameLeaks
    <2>1. f + 1 \in 1 .. PoolSize /\ (f + 1) - 1 = f
      BY PoolSizeAssumption DEF Frames
    <2> QED BY <1>0, <2>1
  <1> QED BY <1>1, <1>2, <1>3, <1>4, <1>5, <1>6, <1>7 DEF Bookkeeping

\* A restart keeps the bookkeeping.
LEMMA CrashStep ==
    ASSUME Bookkeeping, Crash
    PROVE  Bookkeeping'
  <1>1. disk \in DiskType
    BY DEF Bookkeeping, TypeOK
  <1>2. disk' \in DiskType /\ disk'.next_page_id = disk.size
    BY <1>1, DiskTypes DEF Crash, Opened
  <1>3. live' \subseteq 0 .. disk'.next_page_id - 1
    <2>1. disk.size \in Nat
      BY <1>1, MaxPagesAssumption DEF DiskType
    <2> QED BY <1>2, <2>1, LiveIds DEF Crash
  <1>4. durable' \in [PageIds -> SUBSET (Data \cup {NoPage})]
    BY <1>1 DEF Crash, DiskType
  <1>5. Fresh'
    BY <1>2, <1>3, <1>4 DEF Fresh, Crash, R!Empty, AllReset, EmptyTable, AllFree
  <1> QED BY <1>5, FreshPoolFacts, PTL

\* The bookkeeping holds initially.
LEMMA InitBookkeeping == Init => Bookkeeping
  <1> SUFFICES ASSUME Init PROVE Bookkeeping
    OBVIOUS
  <1>1. disk \in DiskType /\ live \subseteq 0 .. disk.next_page_id - 1
    BY MaxPagesAssumption, ZeroAssumption
       DEF Init, EmptyFile, Opened, DiskType, StreamStates
  <1>2. durable \in [PageIds -> SUBSET (Data \cup {NoPage})]
    BY DEF Init
  <1> QED BY <1>1, <1>2, FreshPoolFacts DEF Init, Fresh

\* Every step keeps the bookkeeping: it is inductive.
LEMMA NextBookkeeping == Bookkeeping /\ [Next]_vars => Bookkeeping'
  <1> SUFFICES ASSUME Bookkeeping, [Next]_vars PROVE Bookkeeping'
    OBVIOUS
  <1>1. ASSUME NEW h \in Handles, NewPage(h) PROVE Bookkeeping'
    BY <1>1, NewPageStep
  <1>2. ASSUME WriteBackThrows PROVE Bookkeeping'
    BY <1>2, WriteBackThrowsStep
  <1>3. ASSUME NEW h \in Handles, NEW p \in PageIds, FetchPage(h, p) PROVE Bookkeeping'
    BY <1>2, <1>3, FetchHitStep, FetchMissStep, FetchReadThrowsStep
       DEF FetchPage, FetchThrows
  <1>4. ASSUME NEW h \in Handles, NEW b \in BOOLEAN, UnpinPage(h, b) PROVE Bookkeeping'
    BY <1>4, UnpinPageStep
  <1>5. ASSUME NEW h \in Handles, NEW v \in Data, Write(h, v) PROVE Bookkeeping'
    BY <1>5, WriteStep
  <1>6. ASSUME NEW p \in PageIds, DeletePage(p) PROVE Bookkeeping'
    BY <1>6, DeleteAbsentStep, DeleteResidentStep DEF DeletePage
  <1>7. ASSUME NEW p \in PageIds, FlushPage(p) \/ FlushThrows(p) PROVE Bookkeeping'
    BY <1>7, FlushPageStep, FlushThrowsStep
  <1>8. ASSUME FlushAllPages PROVE Bookkeeping'
    <2>1. disk.stream \in StreamStates
      BY DEF Bookkeeping, TypeOK, DiskType
    <2> QED BY <1>8, <2>1, FlushSetStep DEF FlushAllPages
  <1>9. ASSUME FlushAllThrows PROVE Bookkeeping'
    BY <1>9, FlushSetStep DEF FlushAllThrows, StreamStates
  <1>10. ASSUME Crash PROVE Bookkeeping'
    BY <1>10, CrashStep
  <1>11. ASSUME UNCHANGED vars PROVE Bookkeeping'
    BY <1>11 DEF vars, Bookkeeping, TypeOK, TableAgreesWithFrames, FreeFramesAreFree,
       ReplacerTracksUnpinned, PinCountIsHolders, HandlesStayValid, NoFrameLeaks,
       Resident, Holders
  <1> QED BY <1>1, <1>2, <1>3, <1>4, <1>5, <1>6, <1>7, <1>8, <1>9, <1>10, <1>11
          DEF Next, NewPageThrows

(* For every pool size and every number of pages and clients, through I/O  *)
(* errors and restarts, the pool's bookkeeping (page table, free list,     *)
(* replacer, pin counts) stays consistent.                                 *)
THEOREM BookkeepingHolds == Spec => []Bookkeeping
  BY InitBookkeeping, NextBookkeeping, PTL DEF Spec

(* The variables keep their types and no pin count goes negative.          *)
THEOREM TypeCorrect == Spec => []TypeOK
  <1>1. Bookkeeping => TypeOK
    BY DEF Bookkeeping
  <1> QED BY <1>1, BookkeepingHolds, PTL

(* No page is evicted, deleted or replaced under a client that has it      *)
(* pinned: the frame a handle points to holds the handle's page.           *)
THEOREM HandlesAlwaysValid == Spec => []HandlesStayValid
  <1>1. Bookkeeping => HandlesStayValid
    BY DEF Bookkeeping
  <1> QED BY <1>1, BookkeepingHolds, PTL

(* No frame is lost as long as the device works.                           *)
THEOREM FramesNeverLeak == Spec => []NoFrameLeaks
  <1>1. Bookkeeping => NoFrameLeaks
    BY DEF Bookkeeping
  <1> QED BY <1>1, BookkeepingHolds, PTL

-----------------------------------------------------------------------------
(* The contents of pages. *)

\* The device never fails, and who creates a page unpins it dirty.
Reliable == IOFaults = {FALSE} /\ DirtyNewPages = TRUE

\* Nobody has changed page q since it was read or written back.
Clean(q) == /\ ~pages[page_table[q]].is_dirty
            /\ \A h \in Holders(page_table[q]) : ~pin[h].wrote

\* What the file holds of page q is something a crash may leave of it.
Survives(d, q) == IF q < d.size THEN d.file[q] \in durable[q]
                  ELSE {NoPage, Zero} \subseteq durable[q]

\* A disk that has not failed; past its end there are only zeros.
Sound(d) == /\ d.stream = "good"
            /\ d.size <= d.next_page_id
            /\ \A q \in PageIds : q >= d.size => d.file[q] = Zero

\* What is needed besides the bookkeeping.
DataInv ==
    /\ Sound(disk)
    /\ \A q \in PageIds : q \notin live => durable[q] = {NoPage}
    /\ \A q \in live : Survives(disk, q)
    /\ \A q \in live : ~Resident(q) => q < disk.size
    /\ \A q \in live : Resident(q) =>
          /\ pages[page_table[q]].data \in durable[q]
          /\ Clean(q) => q < disk.size /\ pages[page_table[q]].data = disk.file[q]

-----------------------------------------------------------------------------
\* What a client sees of a page: the frame if there is one, else the file.
Seen(q) == IF q \notin live THEN NoPage
           ELSE IF Resident(q) THEN pages[page_table[q]].data
           ELSE disk.file[q]

ContentFacts ==
    /\ Content = [q \in PageIds |-> Content[q]]
    /\ \A q \in PageIds : /\ Content[q] = Seen(q)
                          /\ Content[q] \in Data \cup {NoPage}
                          /\ Content[q] # NoPage <=> q \in live

\* Content, the mapping to the store, is what clients see.
LEMMA ContentIs == Bookkeeping /\ DataInv => ContentFacts
<1> SUFFICES ASSUME Bookkeeping, DataInv PROVE ContentFacts
  OBVIOUS
<1>1. ASSUME NEW q \in live, ~Resident(q)
      PROVE  PageRead(disk, q, FALSE) = disk.file[q]
  BY <1>1 DEF DataInv, Sound, PageRead
<1>2. ASSUME NEW q \in PageIds
      PROVE  Content[q] = Seen(q)
  BY <1>1 DEF Content, Seen
<1>3. ASSUME NEW q \in PageIds
      PROVE  disk.file[q] \in Data /\ (Resident(q) => pages[page_table[q]].data \in Data)
  BY DEF Bookkeeping, TypeOK, DiskType, PageType, Resident
<1>4. ASSUME NEW q \in PageIds
      PROVE  Seen(q) \in Data \cup {NoPage} /\ (Seen(q) # NoPage <=> q \in live)
  BY <1>3, NoPageAssumption DEF Seen
<1>5. Content = [q \in PageIds |-> Content[q]]
  BY DEF Content
<1> QED
  BY <1>2, <1>4, <1>5 DEF ContentFacts

\* The same of the state a step leads to.
LEMMA ContentIsNext == (Bookkeeping /\ DataInv => ContentFacts)'
  BY ContentIs, PTL

-----------------------------------------------------------------------------
\* A page written to the file.
LEMMA WrittenDisk ==
    ASSUME Bookkeeping, DataInv, NEW p \in live, NEW v \in Data, NEW d,
           d = AfterWrite(disk, p, v)
    PROVE  /\ d \in DiskType /\ Sound(d)
           /\ d.next_page_id = disk.next_page_id
           /\ \A q \in PageIds : d.file[q] = IF q = p THEN v ELSE disk.file[q]
           /\ p < d.size
           /\ \A q \in PageIds : q < disk.size => q < d.size
<1>1. /\ disk \in DiskType /\ disk.stream = "good" /\ disk.size <= disk.next_page_id
      /\ \A q \in PageIds : q >= disk.size => disk.file[q] = Zero
      /\ p \in PageIds /\ p \in Nat /\ p < disk.next_page_id
      /\ disk.next_page_id \in Nat
  BY LiveIds DEF Bookkeeping, TypeOK, DataInv, Sound
<1>2. disk.size \in Nat /\ disk.file \in [PageIds -> Data] /\ PageIds \subseteq Int
  BY <1>1, MaxPagesAssumption DEF DiskType, PageIds
<1>3. /\ d.file = [disk.file EXCEPT ![p] = v]
      /\ d.size = IF p >= disk.size THEN p + 1 ELSE disk.size
      /\ d.next_page_id = disk.next_page_id /\ d.stream = "good"
  BY <1>1 DEF AfterWrite, DiskType
<1>4. d \in DiskType
  BY <1>1, DiskTypes
<1>5. \A q \in PageIds : d.file[q] = IF q = p THEN v ELSE disk.file[q]
  BY <1>1, <1>2, <1>3
<1>6. /\ p < d.size /\ d.size <= d.next_page_id
      /\ \A q \in PageIds : q < disk.size => q < d.size
      /\ \A q \in PageIds : q >= d.size => q # p /\ q >= disk.size
  BY <1>1, <1>2, <1>3
<1> QED
  BY <1>1, <1>3, <1>4, <1>5, <1>6 DEF Sound

\* The disk once frame f is free: the page it held, if any, is in the file.
LEMMA EvictedDisk ==
    ASSUME Bookkeeping, DataInv, NEW f \in Frames, Candidate(f), NEW d, d = DiskAfter(f)
    PROVE  /\ d \in DiskType /\ Sound(d)
           /\ d.next_page_id = disk.next_page_id
           /\ \A q \in live : page_table[q] = f => q < d.size /\ d.file[q] = pages[f].data
           /\ \A q \in live : page_table[q] # f => d.file[q] = disk.file[q]
           /\ \A q \in live : q < disk.size => q < d.size
           /\ \A q \in live : Survives(d, q)
<1>0. live \subseteq PageIds /\ PageIds \subseteq Int
  BY LiveIds DEF PageIds
<1>t. Holders(f) = {}
  BY TakenFrame
<1>1. CASE WritesBack(f)
  <2> PICK p : p = pages[f].page_id
    OBVIOUS
  <2>1. p \in live /\ page_table[p] = f /\ Resident(p)
    <3>1. Evicting
      BY <1>1 DEF WritesBack
    <3>2. p \in live /\ page_table[p] = f
      BY <3>1, TakenFrame
    <3> QED
      BY <3>2, FramesInt DEF Resident
  <2>2. pages[f].data \in Data
    BY DEF Bookkeeping, TypeOK, PageType
  <2>3. d = AfterWrite(disk, p, pages[f].data)
    BY <1>1 DEF DiskAfter
  <2>4. /\ d \in DiskType /\ Sound(d) /\ d.next_page_id = disk.next_page_id
        /\ \A q \in PageIds : d.file[q] = IF q = p THEN pages[f].data ELSE disk.file[q]
        /\ p < d.size
        /\ \A q \in PageIds : q < disk.size => q < d.size
    BY <2>1, <2>2, <2>3, WrittenDisk
  <2>5. \A q \in live : page_table[q] = f => q = p
    BY <1>0, FramesInt DEF Bookkeeping, TableAgreesWithFrames, Resident
  <2>6. ASSUME NEW q \in live
        PROVE  Survives(d, q)
    <3>1. CASE q = p
      <4>1. pages[f].data \in durable[p]
        BY <2>1 DEF DataInv
      <4> QED
        BY <1>0, <3>1, <4>1, <2>1, <2>4 DEF Survives
    <3>2. CASE q # p
      <4>1. d.file[q] = disk.file[q] /\ q \in PageIds
        BY <1>0, <3>2, <2>4
      <4>2. Survives(disk, q)
        BY DEF DataInv
      <4>3. CASE q < disk.size
        BY <4>1, <4>2, <4>3, <2>4 DEF Survives
      <4>4. CASE ~(q < disk.size)
        <5>1. disk.size \in Int /\ q \in Int
          BY <1>0, <4>1 DEF Bookkeeping, TypeOK, DiskType
        <5>2. disk.file[q] = Zero
          BY <4>1, <4>4, <5>1 DEF DataInv, Sound
        <5> QED
          BY <4>1, <4>2, <4>4, <5>2 DEF Survives
      <4> QED
        BY <4>3, <4>4
    <3> QED
      BY <3>1, <3>2
  <2> QED
    BY <1>0, <2>1, <2>4, <2>5, <2>6
<1>2. CASE ~WritesBack(f)
  <2>1. d = disk
    BY <1>2 DEF DiskAfter
  <2>2. ASSUME NEW q \in live, page_table[q] = f
        PROVE  q < d.size /\ d.file[q] = pages[f].data
    <3>1. Resident(q) /\ Evicting /\ ~pages[f].is_dirty
      BY <1>0, <1>2, <2>2, TakenFrame, FramesInt DEF Resident, WritesBack
    <3>2. Clean(q)
      BY <1>t, <2>2, <3>1 DEF Clean
    <3> QED
      BY <2>1, <2>2, <3>1, <3>2 DEF DataInv
  <2> QED
    BY <2>1, <2>2 DEF DataInv, Bookkeeping, TypeOK
<1> QED
  BY <1>1, <1>2

-----------------------------------------------------------------------------
\* A page is put in frame f.  It is what the file holds, or its handle says
\* that it will be written back.
Admission(h, f, p, v, wrote) ==
    /\ pin[h] = NoPin /\ Candidate(f) /\ ~Resident(p)
    /\ Admit(h, f, p, v, wrote)
    /\ Sound(disk')
    /\ disk'.file = DiskAfter(f).file /\ disk'.size = DiskAfter(f).size
    /\ live' = live \cup {p}
    /\ \A q \in PageIds : q # p => durable'[q] = durable[q]
    /\ v \in durable'[p] /\ Survives(disk, p)'
    /\ wrote = FALSE => p < disk'.size /\ v = disk'.file[p]

\* NewPage and FetchPage leave every page as it was and bring p in with v.
LEMMA AdmitData ==
    ASSUME Bookkeeping, DataInv, NEW h \in Handles, NEW f \in Frames, NEW p \in PageIds,
           NEW v \in Data, NEW wrote \in BOOLEAN, Admission(h, f, p, v, wrote)
    PROVE  DataInv' /\ \A q \in PageIds : Seen(q)' = IF q = p THEN v ELSE Seen(q)
<1> USE DEF Admission
<1>0. live \subseteq PageIds
  BY LiveIds
<1>1. PICK d : d = DiskAfter(f)
  OBVIOUS
<1>2. /\ d \in DiskType /\ Sound(d)
      /\ \A q \in live : page_table[q] = f => q < d.size /\ d.file[q] = pages[f].data
      /\ \A q \in live : page_table[q] # f => d.file[q] = disk.file[q]
      /\ \A q \in live : q < disk.size => q < d.size
      /\ \A q \in live : Survives(d, q)
  BY <1>1, EvictedDisk
<1>3. disk'.file = d.file /\ disk'.size = d.size
  BY <1>1
<1>4. /\ page_table \in [PageIds -> Frames \cup {NoFrame}] /\ pages \in [Frames -> PageType]
      /\ pin \in [Handles -> HandleType]
  BY DEF Bookkeeping, TypeOK
<1>5. \A q \in PageIds : page_table'[q] = IF q = p THEN f
                                          ELSE IF page_table[q] = f THEN NoFrame
                                          ELSE page_table[q]
  <2>1. TableAfter(f) = [q \in PageIds |-> IF page_table[q] = f THEN NoFrame ELSE page_table[q]]
    BY TakenFrame
  <2>2. page_table' = [TableAfter(f) EXCEPT ![p] = f]
    BY DEF Admit
  <2> QED
    BY <2>1, <2>2
<1>6. pages'[f].data = v /\ \A g \in Frames : g # f => pages'[g] = pages[g]
  BY <1>4 DEF Admit
<1>7. /\ pin'[h].frame = f /\ pin'[h].wrote = wrote
      /\ \A k \in Handles : k # h => pin'[k] = pin[k]
  BY <1>4 DEF Admit
<1>8. h \in Holders(f)'
  BY <1>7 DEF Holders
<1>9. ASSUME NEW g \in Frames, g # f
      PROVE  Holders(g)' = Holders(g) /\ \A k \in Holders(g) : pin'[k] = pin[k]
  <2>1. pin[h].frame # g
    BY FramesInt DEF NoPin
  <2> QED
    BY <1>7, <1>9, <2>1 DEF Holders
<1>10. ASSUME NEW q \in live, q # p, page_table[q] \in {f, NoFrame}
       PROVE  /\ Seen(q)' = Seen(q) /\ ~Resident(q)' /\ q < disk'.size
  <2>1. page_table'[q] = NoFrame /\ ~Resident(q)'
    BY <1>0, <1>5, <1>10 DEF Resident, NoFrame
  <2>2. Seen(q)' = disk'.file[q]
    BY <2>1 DEF Seen
  <2>3. CASE page_table[q] = f
    BY <1>2, <1>3, <2>1, <2>2, <2>3, FramesInt DEF Seen, Resident
  <2>4. CASE page_table[q] = NoFrame
    <3>1. ~Resident(q) /\ q < disk.size
      BY <2>4 DEF Resident, DataInv
    <3> QED
      BY <1>2, <1>3, <2>1, <2>2, <2>4, <3>1, FramesInt DEF Seen
  <2> QED
    BY <1>10, <2>3, <2>4
<1>11. ASSUME NEW q \in live, q # p, page_table[q] \notin {f, NoFrame}
       PROVE  /\ Seen(q)' = Seen(q) /\ Resident(q)'
              /\ pages'[page_table'[q]].data \in durable'[q]
              /\ Clean(q)' => q < disk'.size /\ pages'[page_table'[q]].data = disk'.file[q]
  <2> PICK g : g = page_table[q]
    OBVIOUS
  <2>1. g \in Frames /\ g # f /\ page_table'[q] = g /\ Resident(q)' /\ Resident(q)
    BY <1>0, <1>4, <1>5, <1>11 DEF Resident, NoFrame
  <2>2. pages'[g] = pages[g] /\ Holders(g)' = Holders(g) /\ \A k \in Holders(g) : pin'[k] = pin[k]
    BY <1>6, <1>9, <2>1
  <2>3. Seen(q)' = Seen(q)
    BY <2>1, <2>2 DEF Seen
  <2>4. pages[g].data \in durable[q] /\ durable'[q] = durable[q]
    BY <1>0, <1>11, <2>1 DEF DataInv
  <2>5. ASSUME Clean(q)'
        PROVE  q < disk'.size /\ pages[g].data = disk'.file[q]
    <3>1. Clean(q)
      BY <2>1, <2>2, <2>5 DEF Clean
    <3>2. q < disk.size /\ pages[g].data = disk.file[q]
      BY <2>1, <3>1 DEF DataInv
    <3> QED
      BY <1>2, <1>3, <2>1, <3>2
  <2> QED
    BY <2>1, <2>2, <2>3, <2>4, <2>5
<1>12. /\ Seen(p)' = v /\ Resident(p)'
       /\ pages'[page_table'[p]].data \in durable'[p]
       /\ Clean(p)' => p < disk'.size /\ pages'[page_table'[p]].data = disk'.file[p]
  <2>1. page_table'[p] = f /\ Resident(p)'
    BY <1>5, FramesInt DEF Resident, NoFrame
  <2>2. Clean(p)' => wrote = FALSE
    BY <1>7, <1>8, <2>1 DEF Clean
  <2> QED
    BY <1>6, <2>1, <2>2 DEF Seen
<1>13. ASSUME NEW q \in PageIds, q \notin live'
       PROVE  durable'[q] = {NoPage} /\ Seen(q)' = Seen(q)
  BY <1>13 DEF DataInv, Seen
<1>14. ASSUME NEW q \in live'
       PROVE  Survives(disk, q)'
  <2>1. CASE q = p
    BY <2>1
  <2>2. CASE q # p
    <3>1. q \in live /\ durable'[q] = durable[q]
      BY <1>0, <2>2
    <3> QED
      BY <1>2, <1>3, <3>1 DEF Survives
  <2> QED
    BY <2>1, <2>2
<1>15. DataInv'
  BY <1>10, <1>11, <1>12, <1>13, <1>14 DEF DataInv
<1>16. ASSUME NEW q \in PageIds, q # p
       PROVE  Seen(q)' = Seen(q)
  BY <1>10, <1>11, <1>13, <1>16
<1> QED
  BY <1>12, <1>15, <1>16

\* What the clients see after a step that shows them page p with content v.
LEMMA ContentStep ==
    ASSUME ContentFacts, ContentFacts', NEW p \in PageIds, NEW v,
           \A q \in PageIds : Seen(q)' = IF q = p THEN v ELSE Seen(q)
    PROVE  /\ Content' = [Content EXCEPT ![p] = v]
           /\ v = Seen(p) => Content' = Content
<1>1. \A q \in PageIds : Content'[q] = IF q = p THEN v ELSE Content[q]
  BY DEF ContentFacts
<1>2. Content' = [q \in PageIds |-> Content'[q]] /\ Content = [q \in PageIds |-> Content[q]]
  BY DEF ContentFacts
<1>3. Content' = [Content EXCEPT ![p] = v]
  BY <1>1, <1>2
<1>4. ASSUME v = Seen(p)
      PROVE  Content' = Content
  BY <1>1, <1>2, <1>4 DEF ContentFacts
<1> QED
  BY <1>3, <1>4

\* A step of the store, or one that it does not see.
StoreStep == Store!Next \/ UNCHANGED <<Content, durable>>

\* What is proved of every step.
Refines == DataInv' /\ (ContentFacts /\ ContentFacts' => StoreStep)

\* NewPage makes a page of zeros with an id that no page has.
LEMMA NewPageData ==
    ASSUME Reliable, Bookkeeping, DataInv, NEW h \in Handles, NewPage(h)
    PROVE  Refines
<1> PICK p : p = disk.next_page_id
  OBVIOUS
<1>1. PICK f \in Frames : /\ Candidate(f)
                          /\ Admit(h, f, p, Zero, DirtyNewPages)
                          /\ disk' = AfterAllocate(DiskAfter(f))
  BY DEF NewPage
<1>2. PICK d : d = DiskAfter(f)
  OBVIOUS
<1>3. d \in DiskType /\ Sound(d) /\ d.next_page_id = p
  BY <1>1, <1>2, EvictedDisk
<1>4. p \in PageIds /\ p \notin live /\ p \in Nat
  BY LiveIds, MaxPagesAssumption DEF NewPage, PageIds
<1>5. ~Resident(p)
  BY <1>4 DEF Bookkeeping, TableAgreesWithFrames
<1>6. /\ disk'.file = d.file /\ disk'.size = d.size /\ disk'.stream = d.stream
      /\ disk'.next_page_id = p + 1
  BY <1>1, <1>2, <1>3 DEF AfterAllocate, DiskType
<1>7. d.size \in Nat /\ d.size <= p
  BY <1>3 DEF DiskType, Sound
<1>8. Sound(disk')
  BY <1>3, <1>4, <1>6, <1>7 DEF Sound
<1>9. durable' = [durable EXCEPT ![p] = {NoPage, Zero}] /\ live' = live \cup {p}
  BY DEF NewPage
<1>10. durable'[p] = {NoPage, Zero} /\ \A q \in PageIds : q # p => durable'[q] = durable[q]
  BY <1>4, <1>9 DEF Bookkeeping, TypeOK
<1>11. Survives(disk, p)'
  BY <1>4, <1>6, <1>7, <1>10 DEF Survives
<1>12. Admission(h, f, p, Zero, DirtyNewPages)
  <2>1. pin[h] = NoPin
    BY DEF NewPage
  <2> QED
    BY <1>1, <1>2, <1>5, <1>6, <1>8, <1>9, <1>10, <1>11, <2>1 DEF Admission, Reliable
<1>13. DataInv' /\ \A q \in PageIds : Seen(q)' = IF q = p THEN Zero ELSE Seen(q)
  BY <1>4, <1>12, AdmitData, ZeroAssumption, SwitchAssumption
<1>14. ASSUME ContentFacts, ContentFacts'
       PROVE  Store!Next
  <2>1. Content' = [Content EXCEPT ![p] = Zero]
    BY <1>4, <1>13, <1>14, ContentStep
  <2>2. Content[p] = NoPage
    BY <1>4, <1>14 DEF ContentFacts
  <2>3. Store!New(p)
    BY <1>9, <2>1, <2>2 DEF Store!New
  <2> QED
    BY <1>4, <2>3 DEF Store!Next
<1> QED
  BY <1>13, <1>14 DEF Refines, StoreStep

\* FetchPage of a page that is not in a frame reads it from the file.
LEMMA FetchMissData ==
    ASSUME Reliable, Bookkeeping, DataInv, NEW h \in Handles, NEW p \in PageIds, FetchMiss(h, p)
    PROVE  Refines
<1>1. PICK f \in Frames : /\ Candidate(f)
                          /\ Admit(h, f, p, PageRead(DiskAfter(f), p, FALSE), FALSE)
                          /\ disk' = AfterRead(DiskAfter(f), p, FALSE)
  BY DEF FetchMiss, Reliable
<1>2. PICK d : d = DiskAfter(f)
  OBVIOUS
<1>3. /\ pin[h] = NoPin /\ p \in live /\ ~Resident(p) /\ live' = live /\ durable' = durable
  BY DEF FetchMiss
<1>4. /\ d \in DiskType /\ Sound(d)
      /\ \A q \in live : page_table[q] # f => d.file[q] = disk.file[q]
      /\ \A q \in live : q < disk.size => q < d.size
      /\ \A q \in live : Survives(d, q)
  BY <1>1, <1>2, EvictedDisk
<1>5. d.file[p] = disk.file[p] /\ p < d.size /\ Survives(d, p)
  <2>1. page_table[p] # f
    BY <1>3, FramesInt DEF Resident
  <2>2. p < disk.size
    BY <1>3 DEF DataInv
  <2> QED
    BY <1>3, <1>4, <2>1, <2>2
<1>6. PageRead(d, p, FALSE) = disk.file[p]
  BY <1>4, <1>5 DEF PageRead, Sound
<1>7. disk' = d
  BY <1>1, <1>2, <1>4, <1>5 DEF AfterRead, Sound, DiskType
<1>8. PICK v \in Data : v = disk.file[p]
  BY DEF Bookkeeping, TypeOK, DiskType
<1>9. v \in durable[p] /\ v = d.file[p]
  BY <1>5, <1>8 DEF Survives
<1>10. Survives(disk, p)'
  BY <1>3, <1>5, <1>7 DEF Survives
<1>11. Admission(h, f, p, v, FALSE)
  BY <1>1, <1>2, <1>3, <1>4, <1>5, <1>6, <1>7, <1>8, <1>9, <1>10 DEF Admission
<1>12. DataInv' /\ \A q \in PageIds : Seen(q)' = IF q = p THEN v ELSE Seen(q)
  BY <1>11, AdmitData
<1>13. v = Seen(p)
  BY <1>3, <1>8 DEF Seen
<1>14. ASSUME ContentFacts, ContentFacts'
       PROVE  UNCHANGED <<Content, durable>>
  <2>1. Content' = Content
    BY <1>12, <1>13, <1>14, ContentStep
  <2> QED
    BY <1>3, <2>1
<1> QED
  BY <1>12, <1>14 DEF Refines, StoreStep

\* A step that the store does not see: the pages stay where they are and what
\* they are, and none is taken for clean that was not.
Unseen == /\ UNCHANGED <<disk, page_table, live, durable>>
          /\ \A g \in Frames : pages'[g].data = pages[g].data
          /\ \A q \in live : Resident(q) /\ Clean(q)' => Clean(q)

\* Such a step is a stutter of the store.
LEMMA UnseenData ==
    ASSUME Bookkeeping, DataInv, Unseen
    PROVE  Refines
<1> USE DEF Unseen
<1>1. \A q \in live : Resident(q)' <=> Resident(q)
  BY DEF Resident, NoFrame
<1>2. ASSUME NEW q \in live, Resident(q)
      PROVE  pages'[page_table[q]].data = pages[page_table[q]].data
  BY <1>2, LiveIds DEF Resident, Bookkeeping, TypeOK
<1>3. DataInv'
  BY <1>1, <1>2 DEF DataInv, Sound, Survives
<1>4. \A q \in PageIds : Seen(q)' = Seen(q)
  BY <1>1, <1>2 DEF Seen
<1>5. ASSUME ContentFacts, ContentFacts'
      PROVE  Content' = Content
  <2>1. \A q \in PageIds : Content'[q] = Content[q]
    BY <1>4, <1>5 DEF ContentFacts
  <2>2. Content' = [q \in PageIds |-> Content'[q]] /\ Content = [q \in PageIds |-> Content[q]]
    BY <1>5 DEF ContentFacts
  <2> QED
    BY <2>1, <2>2
<1> QED
  BY <1>3, <1>5 DEF Refines, StoreStep

\* FetchPage of a page that is in a frame.
LEMMA FetchHitData ==
    ASSUME Bookkeeping, DataInv, NEW h \in Handles, NEW p \in PageIds, FetchHit(h, p)
    PROVE  Refines
<1>1. PICK f : f = page_table[p]
  OBVIOUS
<1>2. /\ pages' = [pages EXCEPT ![f].pin_count = @ + 1]
      /\ pin' = [pin EXCEPT ![h] = [page_id |-> p, frame |-> f, wrote |-> FALSE]]
      /\ pin[h] = NoPin
      /\ UNCHANGED <<disk, page_table, live, durable>>
  BY <1>1 DEF FetchHit
<1>3. /\ pages \in [Frames -> PageType] /\ pin \in [Handles -> HandleType]
      /\ page_table \in [PageIds -> Frames \cup {NoFrame}]
  BY DEF Bookkeeping, TypeOK
<1>4. \A g \in Frames : pages'[g].data = pages[g].data /\ pages'[g].is_dirty = pages[g].is_dirty
  BY <1>2, <1>3 DEF PageType
<1>5. ASSUME NEW g \in Frames, NEW k \in Holders(g)
      PROVE  k \in Holders(g)' /\ pin'[k] = pin[k]
  <2>1. k # h
    BY <1>2, FramesInt DEF Holders, NoPin
  <2> QED
    BY <1>2, <1>3, <2>1 DEF Holders
<1>6. ASSUME NEW q \in live, Resident(q), Clean(q)'
      PROVE  Clean(q)
  <2>1. page_table[q] \in Frames
    BY <1>3, <1>6, LiveIds DEF Resident
  <2> QED
    BY <1>2, <1>4, <1>5, <1>6, <2>1 DEF Clean
<1>7. Unseen
  BY <1>2, <1>4, <1>6 DEF Unseen
<1> QED
  BY <1>7, UnseenData

\* UnpinPage: the change that the handle made is noted in the frame.
LEMMA UnpinPageData ==
    ASSUME Bookkeeping, DataInv, NEW h \in Handles, NEW b \in BOOLEAN, UnpinPage(h, b)
    PROVE  Refines
<1> PICK f : f = pin[h].frame
  OBVIOUS
<1>1. /\ pin[h] # NoPin
      /\ pin[h].wrote => b
      /\ pin' = [pin EXCEPT ![h] = NoPin]
      /\ UNCHANGED <<disk, page_table, live, durable>>
  BY DEF UnpinPage
<1>2. f \in Frames /\ page_table[pin[h].page_id] = f /\ h \in Holders(f)
  BY <1>1 DEF Bookkeeping, HandlesStayValid, Holders
<1>3. pages[f].pin_count > 0
  <2>1. Cardinality(Holders(f)) \in Nat /\ Cardinality(Holders(f)) # 0
    BY <1>2, HoldersFinite, FS_CardinalityType
  <2>2. pages[f].pin_count = Cardinality(Holders(f))
    BY <1>2 DEF Bookkeeping, PinCountIsHolders
  <2> QED
    BY <2>1, <2>2
<1>4. pages' = [pages EXCEPT ![f].pin_count = @ - 1, ![f].is_dirty = @ \/ b]
  <2>1. Resident(pin[h].page_id) /\ ~(pages[f].pin_count <= 0)
    BY <1>2, <1>3, FramesInt DEF Resident, Bookkeeping, TypeOK, PageType
  <2> QED
    BY <1>2, <2>1 DEF UnpinPage
<1>5. /\ pages \in [Frames -> PageType] /\ pin \in [Handles -> HandleType]
      /\ page_table \in [PageIds -> Frames \cup {NoFrame}]
  BY DEF Bookkeeping, TypeOK
<1>6. /\ \A g \in Frames : pages'[g].data = pages[g].data
      /\ \A g \in Frames : pages[g].is_dirty => pages'[g].is_dirty
      /\ b => pages'[f].is_dirty
  <2>1. PICK d \in BOOLEAN : d = (pages[f].is_dirty \/ b)
    OBVIOUS
  <2>2. PICK r : r = [pages[f] EXCEPT !.pin_count = pages[f].pin_count - 1, !.is_dirty = d]
    OBVIOUS
  <2>3. pages' = [pages EXCEPT ![f] = r]
    BY <1>2, <1>4, <1>5, <2>1, <2>2 DEF PageType
  <2>4. r.data = pages[f].data /\ r.is_dirty = d
    BY <1>2, <1>5, <2>2 DEF PageType
  <2> QED
    BY <1>2, <1>5, <2>1, <2>3, <2>4
<1>7. ASSUME NEW g \in Frames, NEW k \in Holders(g), k # h
      PROVE  k \in Holders(g)' /\ pin'[k] = pin[k]
  BY <1>1, <1>5, <1>7 DEF Holders
<1>8. ASSUME NEW q \in live, Resident(q), Clean(q)'
      PROVE  Clean(q)
  <2> PICK g : g = page_table[q]
    OBVIOUS
  <2>1. g \in Frames
    BY <1>5, <1>8, LiveIds DEF Resident
  <2>2. /\ ~pages'[g].is_dirty /\ \A k \in Holders(g)' : ~pin'[k].wrote
    BY <1>1, <1>8 DEF Clean
  <2>3. ASSUME NEW k \in Holders(g)
        PROVE  ~pin[k].wrote
    <3>1. CASE k = h
      <4>1. g = f
        BY <3>1 DEF Holders
      <4> QED
        BY <1>1, <1>6, <2>2, <3>1, <4>1
    <3>2. CASE k # h
      BY <1>7, <2>1, <2>2, <3>2
    <3> QED
      BY <3>1, <3>2
  <2> QED
    BY <1>6, <2>1, <2>2, <2>3 DEF Clean
<1>9. Unseen
  BY <1>1, <1>6, <1>8 DEF Unseen
<1> QED
  BY <1>9, UnseenData

\* A write through a handle reaches the handle's page and no other.
LEMMA WriteData ==
    ASSUME Bookkeeping, DataInv, NEW h \in Handles, NEW v \in Data, Write(h, v)
    PROVE  Refines
<1> PICK p : p = pin[h].page_id
  OBVIOUS
<1> PICK f : f = pin[h].frame
  OBVIOUS
<1>1. /\ pin[h] # NoPin
      /\ pages' = [pages EXCEPT ![f].data = v]
      /\ pin' = [pin EXCEPT ![h].wrote = TRUE]
      /\ durable' = [durable EXCEPT ![p] = @ \cup {v}]
      /\ UNCHANGED <<disk, page_table, live>>
  BY DEF Write
<1>2. /\ pages \in [Frames -> PageType] /\ pin \in [Handles -> HandleType]
      /\ page_table \in [PageIds -> Frames \cup {NoFrame}]
      /\ durable \in [PageIds -> SUBSET (Data \cup {NoPage})]
  BY DEF Bookkeeping, TypeOK
<1>3. p \in PageIds /\ f \in Frames /\ page_table[p] = f /\ Resident(p)
  BY <1>1, FramesInt DEF Bookkeeping, HandlesStayValid, Resident
<1>4. p \in live /\ pages[f].page_id = p
  BY <1>3 DEF Bookkeeping, TableAgreesWithFrames
<1>5. live \subseteq PageIds
  BY LiveIds
<1>6. /\ pages'[f].data = v /\ \A g \in Frames : g # f => pages'[g] = pages[g]
      /\ durable'[p] = durable[p] \cup {v}
      /\ \A q \in PageIds : q # p => durable'[q] = durable[q]
      /\ pin'[h].wrote = TRUE /\ pin'[h].frame = f
      /\ \A k \in Handles : pin'[k].frame = pin[k].frame /\ (k # h => pin'[k] = pin[k])
  BY <1>1, <1>2, <1>3 DEF PageType, HandleType
<1>7. /\ \A g : Holders(g)' = Holders(g)
      /\ h \in Holders(f)'
  BY <1>6 DEF Holders
<1>8. \A q \in PageIds : Resident(q)' <=> Resident(q)
  BY <1>1 DEF Resident, NoFrame
<1>9. ASSUME NEW q \in live, q # p, Resident(q)
      PROVE  /\ page_table[q] \in Frames /\ page_table[q] # f
             /\ pages'[page_table[q]] = pages[page_table[q]]
             /\ Clean(q)' => Clean(q)
  <2>1. page_table[q] \in Frames /\ pages[page_table[q]].page_id = q
    BY <1>2, <1>5, <1>9 DEF Resident, Bookkeeping, TableAgreesWithFrames
  <2>2. page_table[q] # f /\ pages'[page_table[q]] = pages[page_table[q]]
    BY <1>4, <1>6, <1>9, <2>1
  <2>3. \A k \in Holders(page_table[q]) : pin'[k] = pin[k]
    BY <1>6, <2>2 DEF Holders
  <2> QED
    BY <1>1, <1>7, <2>1, <2>2, <2>3 DEF Clean
<1>10. ~Clean(p)'
  BY <1>1, <1>3, <1>6, <1>7 DEF Clean
<1>11. DataInv'
  <2>1. Sound(disk')
    BY <1>1 DEF DataInv
  <2>2. \A q \in PageIds : q \notin live' => durable'[q] = {NoPage}
    BY <1>1, <1>4, <1>6 DEF DataInv
  <2>3. ASSUME NEW q \in live'
        PROVE  Survives(disk, q)'
    <3>1. Survives(disk, q) /\ durable[q] \subseteq durable'[q]
      BY <1>1, <1>5, <1>6 DEF DataInv
    <3> QED
      BY <1>1, <3>1 DEF Survives
  <2>4. \A q \in live' : ~Resident(q)' => q < disk'.size
    BY <1>1, <1>5, <1>8 DEF DataInv
  <2>5. ASSUME NEW q \in live', Resident(q)'
        PROVE  /\ pages'[page_table'[q]].data \in durable'[q]
               /\ Clean(q)' => q < disk'.size /\ pages'[page_table'[q]].data = disk'.file[q]
    <3>1. CASE q = p
      BY <1>1, <1>3, <1>6, <1>10, <3>1
    <3>2. CASE q # p
      BY <1>1, <1>5, <1>6, <1>8, <1>9, <2>5, <3>2 DEF DataInv
    <3> QED
      BY <3>1, <3>2
  <2> QED
    BY <2>1, <2>2, <2>3, <2>4, <2>5 DEF DataInv
<1>12. \A q \in PageIds : Seen(q)' = IF q = p THEN v ELSE Seen(q)
  BY <1>1, <1>3, <1>4, <1>6, <1>8, <1>9 DEF Seen
<1>13. ASSUME ContentFacts, ContentFacts'
       PROVE  Store!Next
  <2>1. Content' = [Content EXCEPT ![p] = v]
    BY <1>3, <1>12, <1>13, ContentStep
  <2>2. Content[p] # NoPage
    BY <1>3, <1>4, <1>13 DEF ContentFacts
  <2>3. Store!Write(p, v)
    BY <1>1, <2>1, <2>2 DEF Store!Write
  <2> QED
    BY <1>3, <2>3 DEF Store!Next
<1> QED
  BY <1>11, <1>13 DEF Refines, StoreStep

\* A page that goes away and leaves the other pages where they are.
Deletion(p) ==
    /\ Forget(p)
    /\ page_table'[p] = NoFrame
    /\ \A q \in live : q # p => page_table'[q] = page_table[q]
    /\ \A q \in live : q # p /\ Resident(q) => pages'[page_table[q]] = pages[page_table[q]]
    /\ UNCHANGED <<disk, pin>>

\* Such a step is the store's Delete.
LEMMA DeletionData ==
    ASSUME Bookkeeping, DataInv, NEW p \in PageIds, p \in live, Deletion(p)
    PROVE  Refines
<1> USE DEF Deletion
<1>0. live \subseteq PageIds
  BY LiveIds
<1>1. /\ live' = live \ {p} /\ durable' = [durable EXCEPT ![p] = {NoPage}]
      /\ durable'[p] = {NoPage}
      /\ \A q \in PageIds : q # p => durable'[q] = durable[q]
  BY DEF Forget, Bookkeeping, TypeOK
<1>2. ASSUME NEW q \in live, q # p
      PROVE  /\ Resident(q)' <=> Resident(q)
             /\ Resident(q) => pages'[page_table'[q]] = pages[page_table[q]]
             /\ Clean(q)' /\ Resident(q) => Clean(q)
             /\ Seen(q)' = Seen(q)
  <2>1. page_table'[q] = page_table[q] /\ (Resident(q)' <=> Resident(q))
    BY <1>2 DEF Resident, NoFrame
  <2>2. Resident(q) => pages'[page_table'[q]] = pages[page_table[q]]
    BY <1>2, <2>1
  <2>3. \A g : Holders(g)' = Holders(g)
    BY DEF Holders
  <2> QED
    BY <1>1, <1>2, <2>1, <2>2, <2>3 DEF Clean, Seen
<1>3. Seen(p)' = NoPage /\ \A q \in PageIds : q \notin live => Seen(q)' = Seen(q)
  BY <1>1 DEF Seen
<1>4. \A q \in live' : q \in live /\ q # p /\ durable'[q] = durable[q]
  BY <1>0, <1>1
<1>5. \A q \in live' : Survives(disk, q)'
  BY <1>4 DEF DataInv, Survives
<1>6. DataInv'
  BY <1>1, <1>2, <1>4, <1>5 DEF DataInv
<1>7. \A q \in PageIds : Seen(q)' = IF q = p THEN NoPage ELSE Seen(q)
  BY <1>2, <1>3
<1>8. ASSUME ContentFacts, ContentFacts'
      PROVE  Store!Next
  <2>1. Content' = [Content EXCEPT ![p] = NoPage]
    BY <1>7, <1>8, ContentStep
  <2>2. Content[p] # NoPage
    BY <1>8 DEF ContentFacts
  <2>3. Store!Delete(p)
    BY <1>1, <2>1, <2>2 DEF Store!Delete
  <2> QED
    BY <2>3 DEF Store!Next
<1> QED
  BY <1>6, <1>8 DEF Refines, StoreStep

\* DeletePage removes the page it is given and no other.
LEMMA DeletePageData ==
    ASSUME Bookkeeping, DataInv, NEW p \in PageIds, DeletePage(p)
    PROVE  Refines
<1>1. CASE DeleteAbsent(p)
  <2>1. Deletion(p) /\ p \in live
    BY <1>1 DEF DeleteAbsent, Deletion, Resident
  <2> QED
    BY <2>1, DeletionData
<1>2. CASE DeleteResident(p)
  <2> PICK f : f = page_table[p]
    OBVIOUS
  <2>1. /\ p \in live /\ Resident(p) /\ Forget(p) /\ UNCHANGED <<disk, pin>>
        /\ page_table' = [page_table EXCEPT ![p] = NoFrame]
        /\ pages' = pages \/ pages' = [pages EXCEPT ![f] = ResetPage]
    BY <1>2 DEF DeleteResident
  <2>2. page_table \in [PageIds -> Frames \cup {NoFrame}] /\ pages \in [Frames -> PageType]
    BY DEF Bookkeeping, TypeOK
  <2>3. page_table'[p] = NoFrame /\ \A q \in live : q # p => page_table'[q] = page_table[q]
    BY <2>1, <2>2, LiveIds
  <2>4. ASSUME NEW q \in live, q # p, Resident(q)
        PROVE  pages'[page_table[q]] = pages[page_table[q]]
    <3>1. page_table[q] \in Frames /\ pages[page_table[q]].page_id = q /\ pages[f].page_id = p
      BY <2>1, <2>2, <2>4, LiveIds DEF Resident, Bookkeeping, TableAgreesWithFrames
    <3> QED
      BY <2>1, <2>2, <2>4, <3>1
  <2>5. Deletion(p)
    BY <2>1, <2>3, <2>4 DEF Deletion
  <2> QED
    BY <2>1, <2>5, DeletionData
<1> QED
  BY <1>1, <1>2 DEF DeletePage

-----------------------------------------------------------------------------
\* The pages of S are written to the file and marked clean.
Flushing(S) ==
    /\ \A q \in S : q \in PageIds /\ Resident(q)
    /\ UNCHANGED <<page_table, live, pin>>
    /\ disk'.stream = "good" /\ disk'.next_page_id = disk.next_page_id
    /\ \A q \in PageIds :
          disk'.file[q] = IF q \in S THEN pages[page_table[q]].data ELSE disk.file[q]
    /\ disk'.size \in Nat /\ disk.size <= disk'.size /\ disk'.size <= disk.next_page_id
    /\ \A q \in S : q < disk'.size
    /\ \A g \in Frames : /\ pages'[g].data = pages[g].data
                         /\ (\A q \in S : page_table[q] # g)
                               => pages'[g].is_dirty = pages[g].is_dirty
    /\ durable' = [q \in PageIds |-> IF q \in S THEN {pages[page_table[q]].data}
                                     ELSE durable[q]]

\* Such a step is the store's Flush.
LEMMA FlushingData ==
    ASSUME Bookkeeping, DataInv, NEW S, Flushing(S)
    PROVE  Refines
<1> USE DEF Flushing
<1>0. live \subseteq PageIds /\ PageIds \subseteq Int /\ S \subseteq PageIds /\ S \subseteq live
  BY LiveIds DEF PageIds, Bookkeeping, TableAgreesWithFrames
<1>1. disk.size \in Nat /\ page_table \in [PageIds -> Frames \cup {NoFrame}]
  BY MaxPagesAssumption DEF Bookkeeping, TypeOK, DiskType
<1>g. \A q \in PageIds : q < disk.size => q < disk'.size
  <2>1. PICK m \in Nat, n \in Nat : m = disk.size /\ n = disk'.size
    BY <1>1
  <2>2. m <= n
    BY <2>1
  <2> QED
    BY <1>0, <2>1, <2>2
<1>2. /\ \A q : Resident(q)' <=> Resident(q)
      /\ \A q \in PageIds : Resident(q) => page_table[q] \in Frames
      /\ \A g : Holders(g)' = Holders(g)
  BY <1>1 DEF Resident, NoFrame, Holders
<1>3. \A q \in PageIds : Seen(q)' = Seen(q)
  <2> TAKE q \in PageIds
  <2>1. CASE q \in S
    BY <1>0, <1>2, <2>1 DEF Seen
  <2>2. CASE q \notin S
    BY <1>2, <2>2 DEF Seen
  <2> QED
    BY <2>1, <2>2
<1>4. Sound(disk')
  <2>1. ASSUME NEW q \in PageIds, q >= disk'.size
        PROVE  disk'.file[q] = Zero
    <3>1. q \notin S /\ q >= disk.size
      BY <1>0, <1>1, <2>1
    <3> QED
      BY <3>1 DEF DataInv, Sound
  <2> QED
    BY <2>1 DEF Sound
<1>5. \A q \in PageIds : q \notin live' => durable'[q] = {NoPage}
  BY <1>0 DEF DataInv
<1>6. ASSUME NEW q \in live'
      PROVE  Survives(disk, q)'
  <2>1. CASE q \in S
    BY <1>0, <2>1 DEF Survives
  <2>2. CASE q \notin S
    <3>1. Survives(disk, q) /\ durable'[q] = durable[q] /\ disk'.file[q] = disk.file[q]
      BY <1>0, <2>2 DEF DataInv
    <3>2. ~(q < disk.size) => disk.file[q] = Zero
      BY <1>0, <1>1 DEF DataInv, Sound
    <3>3. q < disk.size => q < disk'.size
      BY <1>0, <1>g
    <3> QED
      BY <3>1, <3>2, <3>3 DEF Survives
  <2> QED
    BY <2>1, <2>2
<1>7. \A q \in live' : ~Resident(q)' => q < disk'.size
  BY <1>0, <1>1, <1>2 DEF DataInv
<1>8. ASSUME NEW q \in live', Resident(q)'
      PROVE  /\ pages'[page_table'[q]].data \in durable'[q]
             /\ Clean(q)' => q < disk'.size /\ pages'[page_table'[q]].data = disk'.file[q]
  <2> PICK g : g = page_table[q]
    OBVIOUS
  <2>1. q \in live /\ q \in PageIds /\ Resident(q) /\ g \in Frames /\ page_table'[q] = g
        /\ pages'[g].data = pages[g].data
    BY <1>0, <1>2, <1>8
  <2>2. CASE q \in S
    BY <2>1, <2>2
  <2>3. CASE q \notin S
    <3>1. \A p \in S : page_table[p] # g
      BY <1>0, <2>1, <2>3 DEF Bookkeeping, TableAgreesWithFrames
    <3>2. pages'[g].is_dirty = pages[g].is_dirty
      BY <2>1, <3>1
    <3>3. Clean(q)' => Clean(q)
      BY <1>2, <2>1, <3>2 DEF Clean
    <3>4. pages[g].data \in durable[q] /\ (Clean(q) => q < disk.size /\ pages[g].data = disk.file[q])
      BY <2>1 DEF DataInv
    <3> QED
      BY <1>0, <1>1, <2>1, <2>3, <3>3, <3>4
  <2> QED
    BY <2>2, <2>3
<1>9. DataInv'
  BY <1>4, <1>5, <1>6, <1>7, <1>8 DEF DataInv
<1>10. ASSUME ContentFacts, ContentFacts'
       PROVE  Store!Next
  <2>1. \A q \in PageIds : Content'[q] = Content[q]
    BY <1>3, <1>10 DEF ContentFacts
  <2>2. Content' = Content
    BY <1>10, <2>1 DEF ContentFacts
  <2>3. \A q \in S : Content[q] # NoPage /\ Content[q] = pages[page_table[q]].data
    BY <1>0, <1>10 DEF ContentFacts, Seen
  <2>4. durable' = [q \in PageIds |-> IF q \in S THEN {Content[q]} ELSE durable[q]]
    BY <2>3
  <2>5. Store!Flush(S)
    BY <2>2, <2>3, <2>4 DEF Store!Flush
  <2> QED
    BY <1>0, <2>5 DEF Store!Next
<1> QED
  BY <1>9, <1>10 DEF Refines, StoreStep

\* FlushPage writes the page that it is given.
LEMMA FlushPageData ==
    ASSUME Bookkeeping, DataInv, NEW p \in PageIds, FlushPage(p)
    PROVE  Refines
<1> PICK f : f = page_table[p]
  OBVIOUS
<1>1. /\ Resident(p)
      /\ disk' = AfterWrite(disk, p, pages[f].data)
      /\ pages' = [pages EXCEPT ![f].is_dirty = FALSE]
      /\ durable' = [durable EXCEPT ![p] = {pages[f].data}]
      /\ UNCHANGED <<page_table, live, pin>>
  BY DEF FlushPage
<1>2. /\ pages \in [Frames -> PageType] /\ page_table \in [PageIds -> Frames \cup {NoFrame}]
      /\ durable \in [PageIds -> SUBSET (Data \cup {NoPage})]
      /\ disk \in DiskType
  BY DEF Bookkeeping, TypeOK
<1>3. f \in Frames /\ p \in live
  BY <1>1, <1>2 DEF Resident, Bookkeeping, TableAgreesWithFrames
<1>4. pages[f].data \in Data
  BY <1>2, <1>3 DEF PageType
<1>5. PICK d : d = disk'
  OBVIOUS
<1>6. /\ d \in DiskType /\ Sound(d)
      /\ d.next_page_id = disk.next_page_id
      /\ \A q \in PageIds : d.file[q] = IF q = p THEN pages[f].data ELSE disk.file[q]
      /\ p < d.size
  BY <1>1, <1>3, <1>4, <1>5, WrittenDisk
<1>7. disk.size <= d.size /\ d.size \in Nat /\ d.size <= disk.next_page_id
  <2>1. d.size \in Nat /\ d.size <= disk.next_page_id /\ disk.size \in Nat
    BY <1>2, <1>6 DEF DiskType, Sound
  <2>2. d.size = IF p >= disk.size THEN p + 1 ELSE disk.size
    BY <1>1, <1>2, <1>5 DEF AfterWrite, DiskType, DataInv, Sound
  <2> QED
    BY <2>1, <2>2 DEF PageIds
<1>8. \A g \in Frames : /\ pages'[g].data = pages[g].data
                        /\ g # f => pages'[g].is_dirty = pages[g].is_dirty
  BY <1>1, <1>2 DEF PageType
<1>9. durable' = [q \in PageIds |-> IF q \in {p} THEN {pages[page_table[q]].data}
                                    ELSE durable[q]]
  BY <1>1, <1>2
<1>10. Flushing({p})
  BY <1>1, <1>5, <1>6, <1>7, <1>8, <1>9 DEF Flushing, Sound
<1> QED
  BY <1>10, FlushingData

\* FlushAllPages writes every page that is in a frame.
LEMMA FlushAllData ==
    ASSUME Bookkeeping, DataInv, FlushAllPages
    PROVE  Refines
<1>r. PICK S : S = ResidentPages
  OBVIOUS
<1>a. FlushSet(S, disk.stream)
  BY <1>r DEF FlushAllPages
<1>1. PICK file : file = [p \in PageIds |-> IF p \in S /\ disk.stream = "good"
                                            THEN pages[page_table[p]].data ELSE disk.file[p]]
  OBVIOUS
<1>2. PICK T : T = {disk.size} \cup {p + 1 : p \in {q \in S : disk.stream = "good"}}
  OBVIOUS
<1>3. PICK size, num_pages \in 0 .. MaxPages :
          /\ IsMax(size, T)
          /\ disk' = [disk EXCEPT !.file = file, !.size = size, !.num_pages = num_pages,
                                  !.stream = disk.stream]
  BY <1>1, <1>2, <1>a DEF FlushSet
<1>4. /\ disk \in DiskType /\ disk.stream = "good" /\ disk.size \in Nat
      /\ disk.next_page_id \in Nat /\ disk.size <= disk.next_page_id
      /\ pages \in [Frames -> PageType]
  BY MaxPagesAssumption DEF Bookkeeping, TypeOK, DiskType, DataInv, Sound
<1>5. disk'.file = file /\ disk'.size = size /\ disk'.stream = "good"
      /\ disk'.next_page_id = disk.next_page_id
  BY <1>3, <1>4 DEF DiskType
<1>6. \A q \in S : q \in PageIds /\ Resident(q) /\ q \in live /\ q \in Nat
                   /\ q < disk.next_page_id
  BY <1>r, LiveIds, MaxPagesAssumption
     DEF ResidentPages, Bookkeeping, TableAgreesWithFrames, TypeOK, PageIds
<1>7. size \in T /\ \A m \in T : m <= size
  BY <1>3 DEF IsMax
<1>8. disk.size <= size /\ \A q \in S : q < size
  <2>1. \A q \in S : q + 1 \in T
    BY <1>2, <1>4
  <2>2. disk.size \in T
    BY <1>2
  <2>3. size \in Int
    BY <1>3
  <2>4. \A q \in S : q + 1 <= size
    BY <1>7, <2>1
  <2>5. \A q \in S : q < size
    BY <1>6, <2>3, <2>4
  <2> QED
    BY <1>7, <2>2, <2>5
<1>9. size \in Nat /\ size <= disk.next_page_id
  <2>1. size = disk.size \/ \E q \in S : size = q + 1
    BY <1>2, <1>7
  <2> QED
    BY <1>4, <1>6, <2>1
<1>10. \A q \in PageIds : disk'.file[q] = IF q \in S THEN pages[page_table[q]].data
                                          ELSE disk.file[q]
  BY <1>1, <1>4, <1>5
<1>11. ASSUME NEW g \in Frames
       PROVE  /\ pages'[g].data = pages[g].data
              /\ (\A q \in S : page_table[q] # g) => pages'[g].is_dirty = pages[g].is_dirty
  <2>1. PICK b \in BOOLEAN : b = (pages[g].is_dirty /\ \A p \in S : page_table[p] # g)
    OBVIOUS
  <2>2. pages'[g] = [pages[g] EXCEPT !.is_dirty = b] /\ pages[g] \in PageType
    BY <1>4, <1>a, <2>1 DEF FlushSet
  <2>3. (\A q \in S : page_table[q] # g) => b = pages[g].is_dirty
    BY <2>1, <2>2 DEF PageType
  <2> QED
    BY <2>2, <2>3 DEF PageType
<1>12. /\ UNCHANGED <<page_table, live, pin>>
       /\ durable' = [q \in PageIds |-> IF q \in S THEN {pages[page_table[q]].data}
                                        ELSE durable[q]]
  BY <1>a DEF FlushSet
<1>13. Flushing(S)
  BY <1>5, <1>6, <1>8, <1>9, <1>10, <1>11, <1>12 DEF Flushing
<1> QED
  BY <1>13, FlushingData

\* A restart finds of every page what the file holds of it.
LEMMA CrashData ==
    ASSUME Bookkeeping, DataInv, Crash
    PROVE  Refines
<1>0. live \subseteq PageIds
  BY LiveIds
<1>1. /\ disk'.file = disk.file /\ disk'.size = disk.size /\ disk'.next_page_id = disk.size
      /\ disk'.stream = "good"
  BY DEF Crash, Opened
<1>2. /\ live' = {p \in live : p < disk.size}
      /\ durable' = [p \in PageIds |-> IF p \in live' THEN {disk.file[p]} ELSE {NoPage}]
      /\ page_table' = [p \in PageIds |-> NoFrame]
  BY DEF Crash, EmptyTable
<1>3. disk.size \in Nat
  BY MaxPagesAssumption DEF Bookkeeping, TypeOK, DiskType
<1>4. \A q \in PageIds : ~Resident(q)'
  BY <1>2 DEF Resident, NoFrame
<1>5. Sound(disk')
  BY <1>1, <1>3 DEF DataInv, Sound
<1>6. \A q \in live' : Survives(disk, q)'
  BY <1>0, <1>1, <1>2 DEF Survives
<1>7. DataInv'
  BY <1>0, <1>1, <1>2, <1>4, <1>5, <1>6 DEF DataInv
<1>8. \A q \in PageIds : Seen(q)' = IF q \in live' THEN disk.file[q] ELSE NoPage
  BY <1>1, <1>4 DEF Seen
<1>9. ASSUME NEW q \in PageIds
      PROVE  Seen(q)' \in durable[q]
  <2>1. CASE q \in live'
    BY <1>2, <1>8, <2>1 DEF DataInv, Survives
  <2>2. CASE q \notin live'
    <3>1. CASE q \in live
      BY <1>2, <1>8, <2>2, <3>1 DEF DataInv, Survives
    <3>2. CASE q \notin live
      BY <1>8, <2>2, <3>2 DEF DataInv
    <3> QED
      BY <3>1, <3>2
  <2> QED
    BY <2>1, <2>2
<1>10. ASSUME ContentFacts, ContentFacts'
       PROVE  Store!Next
  <2>1. \A q \in PageIds : Content'[q] \in durable[q]
    BY <1>9, <1>10 DEF ContentFacts
  <2>2. Content' \in [PageIds -> Data \cup {NoPage}]
    BY <1>10 DEF ContentFacts
  <2>3. durable' = [q \in PageIds |-> {Content'[q]}]
    BY <1>2, <1>8, <1>10 DEF ContentFacts
  <2>4. Store!Crash
    BY <2>1, <2>2, <2>3 DEF Store!Crash
  <2> QED
    BY <2>4 DEF Store!Next
<1> QED
  BY <1>7, <1>10 DEF Refines, StoreStep

-----------------------------------------------------------------------------
\* No I/O call throws on a device that does not fail.
LEMMA NothingThrows ==
    ASSUME Reliable, Bookkeeping, DataInv
    PROVE  /\ ~WriteBackThrows /\ ~FlushAllThrows
           /\ \A h \in Handles, p \in PageIds : ~FetchReadThrows(h, p)
           /\ \A p \in PageIds : ~FlushThrows(p)
<1>1. \A fault \in IOFaults : ~WriteThrows(disk, fault)
  BY DEF Reliable, WriteThrows, DataInv, Sound
<1>2. ASSUME NEW f \in Frames, Candidate(f)
      PROVE  ~ReadThrows(DiskAfter(f))
  <2>1. PICK d : d = DiskAfter(f)
    OBVIOUS
  <2>2. Sound(d)
    BY <1>2, <2>1, EvictedDisk
  <2> QED
    BY <2>1, <2>2 DEF Sound, ReadThrows
<1> QED
  BY <1>1, <1>2 DEF WriteBackThrows, FlushAllThrows, FetchReadThrows, FlushThrows

\* The new pool.
LEMMA InitData == Init => DataInv /\ Store!Init
<1> SUFFICES ASSUME Init PROVE DataInv /\ Store!Init
  OBVIOUS
<1>1. /\ disk.file = [p \in PageIds |-> Zero] /\ disk.size = 0 /\ disk.next_page_id = 0
      /\ disk.stream = "good"
  BY DEF Init, EmptyFile, Opened
<1>2. live = {} /\ durable = [p \in PageIds |-> {NoPage}]
  BY DEF Init
<1>3. Sound(disk)
  BY <1>1 DEF Sound
<1>4. DataInv
  BY <1>2, <1>3 DEF DataInv
<1>5. Content = [p \in PageIds |-> NoPage]
  BY <1>2 DEF Content
<1> QED
  BY <1>2, <1>4, <1>5 DEF Store!Init

\* Every step keeps DataInv and is a step of the store.
LEMMA NextData ==
    ASSUME Reliable, Bookkeeping, DataInv, [Next]_vars
    PROVE  Refines
<1>1. ASSUME NEW h \in Handles, NewPage(h) \/ NewPageThrows(h) PROVE Refines
  BY <1>1, NewPageData, NothingThrows DEF NewPageThrows
<1>2. ASSUME NEW h \in Handles, NEW p \in PageIds, FetchPage(h, p) PROVE Refines
  BY <1>2, FetchHitData, FetchMissData, NothingThrows DEF FetchPage, FetchThrows
<1>3. ASSUME NEW h \in Handles, NEW b \in BOOLEAN, UnpinPage(h, b) PROVE Refines
  BY <1>3, UnpinPageData
<1>4. ASSUME NEW h \in Handles, NEW v \in Data, Write(h, v) PROVE Refines
  BY <1>4, WriteData
<1>5. ASSUME NEW p \in PageIds, DeletePage(p) \/ FlushPage(p) \/ FlushThrows(p) PROVE Refines
  BY <1>5, DeletePageData, FlushPageData, NothingThrows
<1>6. ASSUME FlushAllPages PROVE Refines
  BY <1>6, FlushAllData
<1>7. ASSUME Crash PROVE Refines
  BY <1>7, CrashData
<1>8. ASSUME UNCHANGED vars PROVE Refines
  <2>1. Unseen
    BY <1>8 DEF vars, Unseen, Clean, Holders
  <2> QED
    BY <2>1, UnseenData
<1> QED
  BY <1>1, <1>2, <1>3, <1>4, <1>5, <1>6, <1>7, <1>8, NothingThrows DEF Next

(* On a device that does not fail, what the data theorems rest on holds in *)
(* every state: every page can be found, in its frame or in the file, and  *)
(* the file holds of it what a crash may leave.                            *)
THEOREM DataInvariant ==
    ASSUME Reliable
    PROVE  Spec => [](Bookkeeping /\ DataInv)
<1>1. Init => Bookkeeping /\ DataInv
  BY InitBookkeeping, InitData
<1>2. Bookkeeping /\ DataInv /\ [Next]_vars => Bookkeeping' /\ DataInv'
  BY NextBookkeeping, NextData DEF Refines
<1> QED
  BY <1>1, <1>2, PTL DEF Spec

(* A resident page that is not dirty and that no holder has changed is the *)
(* page in the file, so Evict may drop it without a write.                 *)
THEOREM CleanPagesMatch ==
    ASSUME Reliable
    PROVE  Spec => []CleanMatchesDisk
<1>1. Bookkeeping /\ DataInv => CleanMatchesDisk
  BY DEF Bookkeeping, TableAgreesWithFrames, DataInv, Clean, CleanMatchesDisk, ResidentPages
<1> QED
  BY <1>1, DataInvariant, PTL

(* The buffer pool implements the page store: to its clients every page    *)
(* that exists is there with what was last written to it, evictions and    *)
(* fetches change nothing, and a crash leaves of every page a content it   *)
(* had since its last flush.                                               *)
THEOREM PoolImplementsPageStore ==
    ASSUME Reliable
    PROVE  Spec => ImplementsPageStore
<1>1. Init => Store!Init
  BY InitData
<1>2. ASSUME Bookkeeping, DataInv, [Next]_vars
      PROVE  StoreStep
  <2>1. Refines /\ Bookkeeping'
    BY <1>2, NextData, NextBookkeeping
  <2>2. ContentFacts /\ ContentFacts'
    BY <1>2, <2>1, ContentIs, ContentIsNext DEF Refines
  <2> QED
    BY <2>1, <2>2 DEF Refines
<1>3. Bookkeeping /\ DataInv /\ [Next]_vars => [Store!Next]_(Store!vars)
  BY <1>2 DEF StoreStep, Store!vars
<1>4. Spec => [](Bookkeeping /\ DataInv)
  BY DataInvariant
<1> QED
  BY <1>1, <1>3, <1>4, PTL DEF Spec, ImplementsPageStore, Store!Spec
==============================================================================

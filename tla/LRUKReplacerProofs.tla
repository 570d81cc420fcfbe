------------------------- MODULE LRUKReplacerProofs -------------------------
(***************************************************************************)
(* The LRU-K replacer evicts what LRU-K evicts, counts its evictable       *)
(* frames and implements the contract the buffer pool relies on, for every *)
(* number of frames, every K and every order in which the loop of Evict    *)
(* meets the entries.                                                      *)
(***************************************************************************)
EXTENDS LRUKReplacer, FiniteSetTheorems, SequenceTheorems, TLAPS

\* The entry of a frame: its deque is the end, K accesses long at most, of
\* all the accesses that its log has.
LastOf(h, l) ==
    /\ Len(h) <= K
    /\ Len(h) <= Len(l)
    /\ Len(h) < K => Len(l) = Len(h)
    /\ \A i \in 1 .. Len(h) : h[i] = l[Len(l) - Len(h) + i]

EntriesInv ==
    /\ \A f \in Frames : LastOf(history[f], log[f])
    /\ \A f \in tracked : log[f] # <<>>
    /\ \A f \in Frames \ tracked : log[f] = <<>> /\ ~is_evictable[f]

\* The loop of Evict: f is no better a victim than the one of scan s.
NoBetter(f, s) ==
    IF s.found THEN LessThanK(f) => s.time <= Head(history[f])
               ELSE ~LessThanK(f) /\ s.time <= Head(history[f])

\* While it holds the latch, the victim is the best of the entries visited.
ScanInv ==
    /\ ~scan.running => scan = Idle
    /\ scan.todo \subseteq tracked
    /\ scan.running /\ scan.victim = NoFrame =>
          /\ scan.time = Infinity /\ ~scan.found
          /\ \A f \in tracked \ scan.todo : ~is_evictable[f]
    /\ scan.victim # NoFrame =>
          /\ scan.victim \in Evictable
          /\ scan.time = Head(history[scan.victim])
          /\ scan.found <=> LessThanK(scan.victim)
          /\ \A f \in tracked \ scan.todo : is_evictable[f] => NoBetter(f, scan)

\* The inductive invariant.
IInv == TypeOK /\ EntriesInv /\ ScanInv /\ SizeCountsEvictable

-----------------------------------------------------------------------------
(* The deque of an entry. *)

Times == 0 .. MaxTimestamp

\* Push keeps the deque the end of the log.
LEMMA PushKeepsLast ==
    ASSUME NEW h \in Seq(Times), NEW l \in Seq(Times), NEW t \in Times, LastOf(h, l)
    PROVE  /\ Push(h, t) \in Seq(Times)
           /\ Append(l, t) \in Seq(Times) /\ Append(l, t) # <<>>
           /\ LastOf(Push(h, t), Append(l, t))
<1> DEFINE ll == Append(l, t)
<1>1. /\ ll \in Seq(Times) /\ ll # <<>> /\ Len(ll) = Len(l) + 1
      /\ \A i \in 1 .. Len(l) : ll[i] = l[i]
      /\ ll[Len(l) + 1] = t
  BY AppendProperties
<1>2. Len(h) \in Nat /\ Len(l) \in Nat
  BY LenProperties
<1>3. CASE Len(h) = K
  <2>1. h # <<>> /\ Push(h, t) = Append(Tail(h), t)
    BY <1>3, KAssumption DEF Push
  <2>2. /\ Tail(h) \in Seq(Times) /\ Len(Tail(h)) = Len(h) - 1
        /\ \A i \in 1 .. Len(h) - 1 : Tail(h)[i] = h[i + 1]
    BY <2>1, HeadTailProperties
  <2> DEFINE tl == Tail(h)
             hh == Append(tl, t)
  <2>3. /\ hh \in Seq(Times) /\ Len(hh) = Len(h)
        /\ \A i \in 1 .. Len(h) - 1 : hh[i] = h[i + 1]
        /\ hh[Len(h)] = t
    BY <2>2, <1>2, AppendProperties
  <2> HIDE DEF tl, hh, ll
  <2>4. LastOf(hh, ll)
    <3>1. ASSUME NEW i \in 1 .. Len(hh)
          PROVE  hh[i] = ll[Len(ll) - Len(hh) + i]
      <4>1. CASE i = Len(h)
        BY <4>1, <1>1, <1>2, <2>3
      <4>2. CASE i # Len(h)
        <5>1. i \in 1 .. Len(h) - 1 /\ i + 1 \in 1 .. Len(h)
          BY <4>2, <1>2, <2>3
        <5>2. hh[i] = l[Len(l) - Len(h) + (i + 1)]
          BY <5>1, <2>3 DEF LastOf
        <5>3. Len(ll) - Len(hh) + i = Len(l) - Len(h) + (i + 1)
          BY <1>1, <1>2, <2>3
        <5>4. Len(l) - Len(h) + (i + 1) \in 1 .. Len(l)
          BY <5>1, <1>2 DEF LastOf
        <5> QED
          BY <5>2, <5>3, <5>4, <1>1
      <4> QED
        BY <4>1, <4>2
    <3> QED
      BY <3>1, <1>1, <1>2, <1>3, <2>3, KAssumption DEF LastOf
  <2> QED
    BY <1>1, <2>1, <2>3, <2>4 DEF tl, hh, ll
<1>4. CASE Len(h) # K
  <2> DEFINE hh == Append(h, t)
  <2>1. /\ hh \in Seq(Times) /\ Len(hh) = Len(h) + 1
        /\ \A i \in 1 .. Len(h) : hh[i] = h[i]
        /\ hh[Len(h) + 1] = t
    BY AppendProperties
  <2>2. Push(h, t) = hh
    BY <1>4 DEF Push
  <2> HIDE DEF hh, ll
  <2>3. LastOf(hh, ll)
    BY <1>1, <1>2, <1>4, <2>1, KAssumption DEF LastOf
  <2> QED
    BY <1>1, <2>1, <2>2, <2>3 DEF hh, ll
<1> QED
  BY <1>3, <1>4

\* The front of a tracked frame's deque is the K-th latest access, or the
\* first one if there are fewer.
LEMMA FrontOfEntry ==
    ASSUME TypeOK, EntriesInv, NEW f \in tracked
    PROVE  /\ f \in Frames
           /\ Head(history[f]) \in Times
           /\ Len(log[f]) \in Nat
           /\ LessThanK(f) <=> Len(log[f]) < K
           /\ LessThanK(f) => Head(history[f]) = log[f][1]
           /\ ~LessThanK(f) => Head(history[f]) = KthLatest(f)
<1> DEFINE h == history[f]
           l == log[f]
<1>1. /\ f \in Frames /\ h \in Seq(Times) /\ l \in Seq(Times) /\ l # <<>> /\ LastOf(h, l)
  BY DEF TypeOK, EntriesInv, Times
<1>2. Len(h) \in Nat /\ Len(l) \in Nat /\ Len(l) > 0
  BY <1>1, LenProperties, EmptySeq
<1> HIDE DEF h, l
<1>3. Len(h) > 0 /\ (Len(h) < K <=> Len(l) < K) /\ Len(h) <= K
  BY <1>1, <1>2, KAssumption DEF LastOf
<1>4. Head(h) = h[1] /\ h[1] \in Times
  BY <1>1, <1>2, <1>3, ElementOfSeq
<1>5. h[1] = l[Len(l) - Len(h) + 1] /\ (Len(h) < K => Len(l) = Len(h))
  BY <1>1, <1>2, <1>3 DEF LastOf
<1>6. Len(h) < K => h[1] = l[1]
  BY <1>5, <1>2
<1>7. ~(Len(h) < K) => h[1] = l[Len(l) - K + 1]
  BY <1>5, <1>2, <1>3, KAssumption
<1> QED
  BY <1>1, <1>2, <1>3, <1>4, <1>6, <1>7 DEF h, l, LessThanK, KthLatest

-----------------------------------------------------------------------------
(* The steps. *)

\* The evictable frames are finitely many.
LEMMA EvictableFinite ==
    ASSUME TypeOK
    PROVE  Evictable \subseteq Frames /\ IsFiniteSet(Evictable)
<1>1. Evictable \subseteq Frames
  BY DEF TypeOK, Evictable
<1> QED
  BY <1>1, FramesAssumption, FS_Subset

\* The constructor's state satisfies the invariant.
LEMMA InitInv == Init => IInv
<1> SUFFICES ASSUME Init PROVE IInv
  OBVIOUS
<1>1. TypeOK
  BY KAssumption, MaxTimestampAssumption DEF Init, TypeOK, Idle, Infinity
<1>2. EntriesInv
  BY KAssumption DEF Init, EntriesInv, LastOf
<1>3. ScanInv
  BY DEF Init, ScanInv, Idle
<1>4. SizeCountsEvictable
  BY FS_EmptySet DEF Init, SizeCountsEvictable, Evictable
<1> QED
  BY <1>1, <1>2, <1>3, <1>4 DEF IInv

\* RecordAccess logs the access and drops the oldest of more than K.
LEMMA RecordAccessStep ==
    ASSUME IInv, NEW f \in Frames, RecordAccess(f)
    PROVE  IInv' /\ Evictable' = Evictable
<1> USE DEF IInv
<1>1. scan = Idle /\ scan' = scan
  BY DEF RecordAccess, ScanInv
<1> DEFINE t == current_timestamp
<1>2. t \in Times /\ t + 1 \in Times
  BY MaxTimestampAssumption DEF RecordAccess, TypeOK, Times
<1>3. /\ history[f] \in Seq(Times) /\ log[f] \in Seq(Times)
      /\ LastOf(history[f], log[f])
  BY DEF TypeOK, EntriesInv, Times
<1>4. /\ Push(history[f], t) \in Seq(Times)
      /\ Append(log[f], t) \in Seq(Times) /\ Append(log[f], t) # <<>>
      /\ LastOf(Push(history[f], t), Append(log[f], t))
  BY <1>2, <1>3, PushKeepsLast
<1>5. /\ history' = [history EXCEPT ![f] = Push(history[f], t)]
      /\ log' = [log EXCEPT ![f] = Append(log[f], t)]
      /\ tracked' = tracked \cup {f} /\ current_timestamp' = t + 1
      /\ is_evictable' = is_evictable /\ curr_size' = curr_size
  BY DEF RecordAccess
<1> HIDE DEF t
<1>6. TypeOK'
  BY <1>1, <1>2, <1>4, <1>5 DEF TypeOK, Times, LastOf
<1>7. EntriesInv'
  BY <1>4, <1>5 DEF TypeOK, EntriesInv
<1>8. Evictable' = Evictable
  BY <1>5 DEF EntriesInv, Evictable
<1>9. ScanInv'
  BY <1>1 DEF ScanInv, Idle, NoFrame
<1> QED
  BY <1>5, <1>6, <1>7, <1>8, <1>9 DEF SizeCountsEvictable

\* SetEvictable keeps curr_size_ in step with the flags.
LEMMA SetEvictableStep ==
    ASSUME IInv, NEW f \in Frames, NEW b \in BOOLEAN, SetEvictable(f, b)
    PROVE  /\ IInv'
           /\ f \in tracked /\ tracked' = tracked
           /\ Evictable' = IF b THEN Evictable \cup {f} ELSE Evictable \ {f}
<1> USE DEF IInv
<1>1. scan = Idle /\ scan' = scan
  BY DEF SetEvictable, ScanInv
<1>2. /\ f \in tracked /\ tracked' = tracked /\ is_evictable[f] # b
      /\ is_evictable' = [is_evictable EXCEPT ![f] = b]
      /\ curr_size' = IF b THEN curr_size + 1 ELSE curr_size - 1
      /\ history' = history /\ log' = log /\ current_timestamp' = current_timestamp
  BY DEF SetEvictable
<1>3. Evictable' = IF b THEN Evictable \cup {f} ELSE Evictable \ {f}
  BY <1>2 DEF TypeOK, Evictable
<1>4. f \in Evictable <=> ~b
  BY <1>2 DEF TypeOK, Evictable
<1>5. Evictable' \subseteq Frames /\ IsFiniteSet(Evictable') /\ curr_size' = Cardinality(Evictable')
  <2>1. IsFiniteSet(Evictable) /\ Evictable \subseteq Frames
    BY EvictableFinite
  <2>2. Cardinality(Evictable) \in Nat
    BY <2>1, FS_CardinalityType
  <2>3. CASE b
    BY <2>1, <2>2, <2>3, <1>2, <1>3, <1>4, FS_AddElement DEF SizeCountsEvictable
  <2>4. CASE ~b
    BY <2>1, <2>2, <2>4, <1>2, <1>3, <1>4, FS_RemoveElement DEF SizeCountsEvictable
  <2> QED
    BY <2>3, <2>4
<1>6. curr_size' \in Nat
  BY <1>5, FS_CardinalityType
<1>7. TypeOK'
  BY <1>1, <1>2, <1>6 DEF TypeOK
<1>8. EntriesInv'
  BY <1>2 DEF EntriesInv, TypeOK
<1>9. ScanInv'
  BY <1>1 DEF ScanInv, Idle, NoFrame
<1> QED
  BY <1>2, <1>3, <1>5, <1>7, <1>8, <1>9 DEF SizeCountsEvictable

\* Erasing the entry of an evictable frame, with no Evict running afterwards.
LEMMA EraseEntryStep ==
    ASSUME IInv, NEW f \in Evictable, EraseEntry(f), scan' = Idle
    PROVE  IInv' /\ tracked' = tracked \ {f} /\ Evictable' = Evictable \ {f}
<1> USE DEF IInv
<1>1. /\ tracked' = tracked \ {f}
      /\ history' = [history EXCEPT ![f] = <<>>]
      /\ log' = [log EXCEPT ![f] = <<>>]
      /\ is_evictable' = [is_evictable EXCEPT ![f] = FALSE]
      /\ curr_size' = curr_size - 1
      /\ current_timestamp' = current_timestamp
  BY DEF EraseEntry
<1>2. f \in Frames /\ f \in tracked
  BY DEF Evictable, TypeOK
<1>3. Evictable' = Evictable \ {f}
  BY <1>1, <1>2 DEF TypeOK, Evictable
<1>4. /\ IsFiniteSet(Evictable) /\ IsFiniteSet(Evictable')
      /\ Cardinality(Evictable') = Cardinality(Evictable) - 1
  BY <1>3, EvictableFinite, FS_RemoveElement
<1>5. curr_size' = Cardinality(Evictable') /\ curr_size' \in Nat
  BY <1>1, <1>4, FS_CardinalityType DEF SizeCountsEvictable
<1>6. TypeOK'
  <2>1. Idle \in [running : BOOLEAN, todo : SUBSET Frames,
                  victim : Frames \cup {NoFrame}, time : 0 .. Infinity, found : BOOLEAN]
    BY MaxTimestampAssumption DEF Idle, Infinity
  <2>2. <<>> \in Seq(0 .. MaxTimestamp) /\ Len(<<>>) <= K
    BY KAssumption
  <2> QED
    BY <1>1, <1>2, <1>5, <2>1, <2>2 DEF TypeOK
<1>7. EntriesInv'
  <2>1. LastOf(<<>>, <<>>)
    BY KAssumption DEF LastOf
  <2> QED
    BY <1>1, <1>2, <2>1 DEF EntriesInv, TypeOK
<1>8. ScanInv'
  BY DEF ScanInv, Idle, NoFrame
<1> QED
  BY <1>1, <1>3, <1>5, <1>6, <1>7, <1>8 DEF SizeCountsEvictable

\* The last step of Evict, or its first, and one more entry visited.
LEMMA ScanStep ==
    ASSUME IInv, UNCHANGED <<tracked, history, is_evictable, curr_size, current_timestamp, log>>,
           ScanInv',
           scan' \in [running : BOOLEAN, todo : SUBSET Frames, victim : Frames \cup {NoFrame},
                      time : 0 .. Infinity, found : BOOLEAN]
    PROVE  IInv' /\ Evictable' = Evictable /\ tracked' = tracked
<1> USE DEF IInv
<1>1. TypeOK'
  BY DEF TypeOK
<1>2. EntriesInv'
  BY DEF EntriesInv
<1>3. Evictable' = Evictable
  BY DEF Evictable
<1> QED
  BY <1>1, <1>2, <1>3 DEF SizeCountsEvictable

\* Evict starts with no candidate.
LEMMA EvictBeginStep ==
    ASSUME IInv, EvictBegin
    PROVE  IInv' /\ Evictable' = Evictable /\ tracked' = tracked
<1>1. scan' = [running |-> TRUE, todo |-> tracked, victim |-> NoFrame, time |-> Infinity,
               found |-> FALSE]
  BY DEF EvictBegin, Idle
<1>2. ScanInv'
  <2>1. /\ scan'.running = TRUE /\ scan'.todo = tracked
        /\ scan'.victim = NoFrame /\ scan'.time = Infinity /\ scan'.found = FALSE
    BY <1>1
  <2>2. tracked' = tracked
    BY DEF EvictBegin
  <2> QED
    BY <2>1, <2>2 DEF ScanInv, Infinity, NoFrame
<1>3. scan' \in [running : BOOLEAN, todo : SUBSET Frames, victim : Frames \cup {NoFrame},
                 time : 0 .. Infinity, found : BOOLEAN]
  BY <1>1, MaxTimestampAssumption DEF IInv, TypeOK, Infinity
<1> QED
  BY <1>2, <1>3, ScanStep DEF EvictBegin

\* One iteration: whether f replaces the victim or not, the victim is the
\* best of the entries visited, f included.
LEMMA VisitStep ==
    ASSUME IInv, NEW f \in Frames, Visit(f)
    PROVE  IInv' /\ Evictable' = Evictable /\ tracked' = tracked
<1> USE DEF IInv
<1>1. /\ scan.running /\ f \in scan.todo /\ f \in tracked
      /\ tracked' = tracked /\ history' = history /\ is_evictable' = is_evictable
  BY DEF Visit, ScanInv
<1>2. scan \in [running : BOOLEAN, todo : SUBSET Frames, victim : Frames \cup {NoFrame},
                time : 0 .. Infinity, found : BOOLEAN]
  BY DEF TypeOK
<1>3. \A g \in tracked : Head(history[g]) \in Times /\ Head(history[g]) < Infinity
  BY FrontOfEntry, MaxTimestampAssumption DEF Times, Infinity
<1>4. Times \subseteq 0 .. Infinity /\ 0 .. Infinity \subseteq Int
  BY MaxTimestampAssumption DEF Times, Infinity
<1>5. /\ scan'.running = TRUE
      /\ scan'.todo = scan.todo \ {f}
      /\ scan'.victim = IF Beats(f, scan) THEN f ELSE scan.victim
      /\ scan'.time = IF Beats(f, scan) THEN Head(history[f]) ELSE scan.time
      /\ scan'.found = (scan.found \/ (Beats(f, scan) /\ LessThanK(f)))
  BY <1>1, <1>2 DEF Visit
<1>6. scan' \in [running : BOOLEAN, todo : SUBSET Frames, victim : Frames \cup {NoFrame},
                 time : 0 .. Infinity, found : BOOLEAN]
  <2> DEFINE v == IF Beats(f, scan) THEN f ELSE scan.victim
             t == IF Beats(f, scan) THEN Head(history[f]) ELSE scan.time
             b == scan.found \/ (Beats(f, scan) /\ LessThanK(f))
  <2>1. v \in Frames \cup {NoFrame} /\ t \in 0 .. Infinity
    BY <1>1, <1>2, <1>3, <1>4
  <2>2. b \in BOOLEAN
    BY <1>2 DEF Beats, LessThanK
  <2>3. scan' = [scan EXCEPT !.todo = @ \ {f}, !.victim = v, !.time = t, !.found = b]
    BY DEF Visit
  <2> HIDE DEF v, t, b
  <2> QED
    BY <1>2, <2>1, <2>2, <2>3
<1>8. Evictable' = Evictable
  BY <1>1 DEF Evictable
<1>9. f \notin Frames \/ f # NoFrame
  BY FramesAssumption DEF NoFrame
<1>10. CASE Beats(f, scan)
  <2>1. is_evictable[f] /\ f \in Evictable
    BY <1>1, <1>10 DEF Beats, Evictable
  <2>2. scan'.victim = f /\ scan'.time = Head(history[f])
    BY <1>5, <1>10
  <2>3. scan'.found <=> LessThanK(f)
    BY <1>5, <1>10 DEF Beats
  <2>4. ASSUME NEW g \in tracked \ scan'.todo, is_evictable[g]
        PROVE  NoBetter(g, scan')
    <3>1. CASE g = f
      BY <3>1, <1>3, <2>2, <2>3 DEF NoBetter, Times
    <3>2. CASE g # f
      <4>1. g \in tracked \ scan.todo
        BY <3>2, <1>5
      <4>2. scan.victim # NoFrame /\ NoBetter(g, scan)
        BY <4>1, <1>1, <2>4 DEF ScanInv
      <4> QED
        <5>1. /\ scan.time \in Int
              /\ Head(history[f]) \in Int /\ Head(history[g]) \in Int
          BY <4>1, <1>1, <1>2, <1>3, <1>4
        <5> QED
          BY <5>1, <4>2, <1>10, <2>2, <2>3 DEF NoBetter, Beats
    <3> QED
      BY <3>1, <3>2
  <2>5. ScanInv'
    BY <2>1, <2>2, <2>3, <2>4, <1>1, <1>5, <1>8, <1>9
      DEF ScanInv, NoBetter, LessThanK, NoFrame
  <2> QED
    BY <2>5, <1>6, ScanStep DEF Visit
<1>11. CASE ~Beats(f, scan)
  <2>1. /\ scan'.victim = scan.victim /\ scan'.time = scan.time
        /\ scan'.found = scan.found
    BY <1>2, <1>5, <1>11
  <2>2. ASSUME is_evictable[f]
        PROVE  scan.victim # NoFrame /\ NoBetter(f, scan)
    <3>1. scan.victim # NoFrame
      BY <2>2, <1>1, <1>3, <1>11 DEF ScanInv, Beats
    <3>2. NoBetter(f, scan)
      BY <2>2, <1>1, <1>2, <1>3, <1>11 DEF NoBetter, Beats, Times
    <3> QED
      BY <3>1, <3>2
  <2>3. ScanInv'
    BY <2>1, <2>2, <1>1, <1>5, <1>8 DEF ScanInv, NoBetter, LessThanK, NoFrame, Infinity
  <2> QED
    BY <2>3, <1>6, ScanStep DEF Visit
<1> QED
  BY <1>10, <1>11

\* Evict finds no evictable frame.
LEMMA EvictReturnFalseStep ==
    ASSUME IInv, EvictReturnFalse
    PROVE  IInv' /\ Evictable' = Evictable /\ tracked' = tracked
<1>1. scan' = Idle
  BY DEF EvictReturnFalse
<1>2. ScanInv'
  BY <1>1 DEF ScanInv, Idle, NoFrame
<1>3. scan' \in [running : BOOLEAN, todo : SUBSET Frames, victim : Frames \cup {NoFrame},
                 time : 0 .. Infinity, found : BOOLEAN]
  BY <1>1, MaxTimestampAssumption DEF Idle, Infinity
<1> QED
  BY <1>2, <1>3, ScanStep DEF EvictReturnFalse

-----------------------------------------------------------------------------
(* What the steps do to the two sets the buffer pool relies on. *)

\* Every step of the replacer is a step of its contract, or none.
LEMMA NextStep ==
    ASSUME IInv, [Next]_vars
    PROVE  IInv' /\ [Contract!Next]_([tracked |-> tracked, evictable |-> Evictable])
<1> USE DEF IInv
<1> DEFINE r == [tracked |-> tracked, evictable |-> Evictable]
<1>1. ASSUME NEW f \in Frames, RecordAccess(f)
      PROVE  IInv' /\ Contract!RecordAccess(f)
  <2>1. IInv' /\ Evictable' = Evictable /\ tracked' = tracked \cup {f}
    BY <1>1, RecordAccessStep DEF RecordAccess
  <2> QED
    BY <2>1 DEF Contract!RecordAccess, Contract!Accessed
<1>2. ASSUME NEW f \in Frames, NEW b \in BOOLEAN, SetEvictable(f, b)
      PROVE  IInv' /\ Contract!SetEvictable(f, b)
  <2>1. /\ IInv' /\ f \in tracked /\ tracked' = tracked
        /\ Evictable' = IF b THEN Evictable \cup {f} ELSE Evictable \ {f}
    BY <1>2, SetEvictableStep
  <2> QED
    BY <2>1 DEF Contract!SetEvictable, Contract!MadeEvictable
<1>3. ASSUME NEW f \in Frames, Remove(f)
      PROVE  IInv' /\ Contract!Remove(f)
  <2>1. scan' = Idle /\ f \in Evictable /\ EraseEntry(f)
    BY <1>3 DEF Remove, ScanInv
  <2>2. IInv' /\ tracked' = tracked \ {f} /\ Evictable' = Evictable \ {f}
    BY <2>1, EraseEntryStep
  <2> QED
    BY <2>1, <2>2 DEF Contract!Remove, Contract!RemoveThrows, Contract!Forgotten
<1>4. ASSUME EvictReturnTrue
      PROVE  IInv' /\ scan.victim \in Frames /\ Contract!Evict(scan.victim)
  <2>1. scan' = Idle /\ EraseEntry(scan.victim) /\ scan.victim \in Evictable
    BY <1>4 DEF EvictReturnTrue, ScanInv
  <2>2. IInv' /\ tracked' = tracked \ {scan.victim} /\ Evictable' = Evictable \ {scan.victim}
    BY <2>1, EraseEntryStep
  <2> QED
    BY <2>1, <2>2 DEF Contract!Evict, Contract!Forgotten, Evictable, TypeOK
<1>5. ASSUME EvictBegin \/ (\E f \in Frames : Visit(f)) \/ EvictReturnFalse
      PROVE  IInv' /\ r' = r
  BY <1>5, EvictBeginStep, VisitStep, EvictReturnFalseStep
<1>6. ASSUME UNCHANGED vars
      PROVE  IInv' /\ r' = r
  <2>1. Evictable' = Evictable
    BY <1>6 DEF vars, Evictable
  <2>2. TypeOK' /\ EntriesInv' /\ SizeCountsEvictable'
    BY <1>6, <2>1 DEF vars, TypeOK, EntriesInv, SizeCountsEvictable
  <2>3. ScanInv'
    BY <1>6, <2>1 DEF vars, ScanInv, NoBetter, LessThanK
  <2> QED
    BY <1>6, <2>1, <2>2, <2>3 DEF vars
<1> QED
  BY <1>1, <1>2, <1>3, <1>4, <1>5, <1>6 DEF Next, Contract!Next

-----------------------------------------------------------------------------
(* The theorems. *)

\* The inductive invariant holds: the deques are the ends of the logs, and
\* the loop of Evict has the best victim of the entries it has visited.
THEOREM ReplacerInvariant == Spec => []IInv
<1>1. IInv /\ [Next]_vars => IInv'
  BY NextStep
<1> QED
  BY InitInv, <1>1, PTL DEF Spec

\* The deques, the counters and the locals of Evict have their types, and no
\* deque outgrows k_.
THEOREM TypeCorrect == Spec => []TypeOK
<1>1. IInv => TypeOK
  BY DEF IInv
<1> QED
  BY ReplacerInvariant, <1>1, PTL

\* curr_size_ is the number of evictable frames, so it never wraps around.
THEOREM SizeIsExact == Spec => []SizeCountsEvictable
<1>1. IInv => SizeCountsEvictable
  BY DEF IInv
<1> QED
  BY ReplacerInvariant, <1>1, PTL

\* Whatever order the hash table gives the entries, Evict picks the frame
\* that LRU-K evicts, judged by the complete access log.
THEOREM EvictsLRUK == Spec => []VictimIsLRUK
<1>1. ASSUME IInv PROVE VictimIsLRUK
  <2> SUFFICES ASSUME scan.running, scan.todo = {}
               PROVE  \/ scan.victim = NoFrame /\ Evictable = {}
                      \/ /\ scan.victim \in Evictable
                         /\ \A f \in Evictable : NoLater(scan.victim, f)
    BY DEF VictimIsLRUK
  <2>1. CASE scan.victim = NoFrame
    BY <1>1, <2>1 DEF IInv, ScanInv, Evictable
  <2>2. CASE scan.victim # NoFrame
    <3> DEFINE v == scan.victim
    <3>1. v \in Evictable /\ v \in tracked
      BY <1>1, <2>2 DEF IInv, ScanInv, Evictable
    <3>2. ASSUME NEW f \in Evictable
          PROVE  NoLater(v, f)
      <4>1. f \in tracked /\ NoBetter(f, scan)
        BY <1>1, <2>2 DEF IInv, ScanInv, Evictable
      <4>2. scan.time = Head(history[v]) /\ (scan.found <=> LessThanK(v))
        BY <1>1, <2>2 DEF IInv, ScanInv
      <4>3. current_timestamp \in Int
        BY <1>1 DEF IInv, TypeOK
      <4>4. \A g \in {v, f} :
               /\ Head(history[g]) \in Int /\ Len(log[g]) \in Nat
               /\ LessThanK(g) <=> Len(log[g]) < K
               /\ LessThanK(g) => Head(history[g]) = log[g][1]
               /\ ~LessThanK(g) => Head(history[g]) = KthLatest(g)
        BY <1>1, <3>1, <4>1, FrontOfEntry DEF IInv, Times
      <4> HIDE DEF v
      <4> QED
        BY <4>1, <4>2, <4>3, <4>4, KAssumption DEF NoBetter, NoLater
    <3> QED
      BY <3>1, <3>2
  <2> QED
    BY <2>1, <2>2
<1> QED
  BY ReplacerInvariant, <1>1, PTL

\* The replacer implements the contract: its methods change the sets of
\* tracked and evictable frames as the buffer pool's model says.
THEOREM Implements == Spec => ImplementsReplacer
<1>1. Init => Contract!Init
  BY DEF Init, Evictable, Contract!Init, Contract!Empty
<1>2. IInv /\ [Next]_vars =>
         [Contract!Next]_([tracked |-> tracked, evictable |-> Evictable])
  BY NextStep
<1> QED
  BY ReplacerInvariant, <1>1, <1>2, PTL DEF Spec, ImplementsReplacer, Contract!Spec
=============================================================================

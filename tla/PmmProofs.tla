----------------------------- MODULE PmmProofs ------------------------------
(* Proofs about the physical memory manager of module Pmm, for every number  *)
(* of frames, every hint cache size and every set of requests.               *)
EXTENDS Pmm, FiniteSetTheorems, TLAPS

(* A valid hint never points below the minimum it was stored for, and a run  *)
(* hint stands for a run of at least one frame.                              *)
HintsShaped ==
    /\ \A s \in Slots : search_hints[s].valid =>
           search_hints[s].minimum <= search_hints[s].floor
    /\ \A s \in Slots : run_hints[s].valid =>
           run_hints[s].minimum <= run_hints[s].floor /\ run_hints[s].count > 0

IInv == TypeOK /\ Accounting /\ HintsSound /\ HintsShaped

-----------------------------------------------------------------------------
(* Facts about sets of frames.                                               *)

(* The frames are finite, and so is every set of them. *)
LEMMA FramesFinite ==
    ASSUME NEW S \in SUBSET Frames
    PROVE  IsFiniteSet(S) /\ Cardinality(S) \in Nat
<1>1. IsFiniteSet(Frames)
  BY PmmAssumption, FS_Interval DEF Frames
<1>2. IsFiniteSet(S)
  BY <1>1, FS_Subset
<1>. QED  BY <1>2, FS_CardinalityType

(* A run of count frames has count elements. *)
LEMMA RunCardinality ==
    ASSUME NEW r \in Nat, NEW count \in Nat \ {0}
    PROVE  IsFiniteSet(Run(r, count)) /\ Cardinality(Run(r, count)) = count
<1>1. r \in Int /\ r + count - 1 \in Int /\ r <= r + count - 1
  OBVIOUS
<1>. QED  BY <1>1, FS_Interval DEF Run

(* Taking away a subset, or adding a disjoint set, changes the cardinality   *)
(* by that set's own.                                                        *)
LEMMA CardinalityMinus ==
    ASSUME NEW S \in SUBSET Frames, NEW T \in SUBSET S
    PROVE  Cardinality(S \ T) = Cardinality(S) - Cardinality(T)
<1>1. IsFiniteSet(T) /\ IsFiniteSet(S \ T) /\ Cardinality(T) \in Nat
      /\ Cardinality(S \ T) \in Nat /\ Cardinality(S) \in Nat
  BY FramesFinite
<1>2. (S \ T) \cup T = S /\ (S \ T) \cap T = {}
  OBVIOUS
<1>3. Cardinality((S \ T) \cup T)
        = Cardinality(S \ T) + Cardinality(T) - Cardinality((S \ T) \cap T)
  BY <1>1, FS_Union
<1>4. Cardinality((S \ T) \cup T) = Cardinality(S) /\ Cardinality((S \ T) \cap T) = 0
  <2>1. Cardinality({}) = 0
    BY FS_EmptySet
  <2>. QED  BY <1>2, <2>1, Zenon
<1>. QED  BY <1>1, <1>3, <1>4

LEMMA CardinalityPlus ==
    ASSUME NEW S \in SUBSET Frames, NEW T \in SUBSET Frames, S \cap T = {}
    PROVE  Cardinality(S \cup T) = Cardinality(S) + Cardinality(T)
<1>1. IsFiniteSet(S) /\ IsFiniteSet(T) /\ Cardinality(T) \in Nat /\ Cardinality(S) \in Nat
  BY FramesFinite
<1>2. Cardinality(S \cup T) = Cardinality(S) + Cardinality(T) - Cardinality(S \cap T)
  BY <1>1, FS_Union
<1>3. Cardinality(S \cap T) = 0
  <2>1. Cardinality({}) = 0
    BY FS_EmptySet
  <2>. QED  BY <2>1, Zenon
<1>. QED  BY <1>1, <1>2, <1>3
-----------------------------------------------------------------------------
(* Facts about a scan.                                                       *)

(* The slots an allocation picks, and the floors they hold, are sound before *)
(* the scan, and not below the requested minimum.                            *)
LEMMA FloorsSound ==
    ASSUME IInv, ~halted, NEW minimum \in Nat, NEW count \in Nat \ {0},
           NEW s \in Slots, NEW h \in Slots
    PROVE  LET sf == SearchFloor(s, minimum)
               rf == RunFloor(h, minimum, count)
           IN /\ sf \in Nat /\ rf \in Nat
              /\ minimum <= sf /\ minimum <= rf
              /\ \A f \in FreeFrames : minimum <= f => sf <= f
              /\ \A r \in RunsFrom(minimum, count) : rf <= r
<1>1. SearchFloor(s, minimum) \in Nat /\ RunFloor(h, minimum, count) \in Nat
  BY DEF IInv, TypeOK, SearchFloor, RunFloor, SearchMatch, RunMatch, SearchHint, RunHint
<1>2. minimum <= SearchFloor(s, minimum) /\ minimum <= RunFloor(h, minimum, count)
  BY DEF IInv, HintsShaped, SearchFloor, RunFloor, SearchMatch, RunMatch
<1>3. \A f \in FreeFrames : minimum <= f => SearchFloor(s, minimum) <= f
  BY DEF IInv, HintsSound, SearchFloor, SearchMatch
<1>4. \A r \in RunsFrom(minimum, count) : RunFloor(h, minimum, count) <= r
  BY DEF IInv, HintsSound, RunFloor, RunMatch, RunsFrom
<1>. QED  BY <1>1, <1>2, <1>3, <1>4

(* A scan from the floors meets exactly the runs a scan from the requested   *)
(* minimum would meet.                                                       *)
LEMMA ScanComplete ==
    ASSUME IInv, ~halted, NEW minimum \in Nat, NEW count \in Nat \ {0},
           NEW s \in Slots, NEW h \in Slots
    PROVE  RunsFrom(Larger(SearchFloor(s, minimum), RunFloor(h, minimum, count)), count)
             = RunsFrom(minimum, count)
<1>. DEFINE sf == SearchFloor(s, minimum)
            rf == RunFloor(h, minimum, count)
<1>1. /\ sf \in Nat /\ rf \in Nat
      /\ minimum <= sf /\ minimum <= rf
      /\ \A f \in FreeFrames : minimum <= f => sf <= f
      /\ \A r \in RunsFrom(minimum, count) : rf <= r
  BY FloorsSound
<1>2. \A r \in RunsFrom(minimum, count) : r \in FreeFrames /\ r \in Nat /\ minimum <= r
  BY PmmAssumption DEF RunsFrom, Run, Frames
<1>. HIDE DEF sf, rf
<1>3. \A r \in RunsFrom(minimum, count) : Larger(sf, rf) <= r
  BY <1>1, <1>2 DEF Larger
<1>4. RunsFrom(minimum, count) \subseteq RunsFrom(Larger(sf, rf), count)
  BY <1>3 DEF RunsFrom
<1>5. RunsFrom(Larger(sf, rf), count) \subseteq RunsFrom(minimum, count)
  BY <1>1, PmmAssumption DEF RunsFrom, Larger, Frames
<1>. QED  BY <1>4, <1>5 DEF sf, rf
-----------------------------------------------------------------------------
(* Preservation of the inductive invariant.                                  *)

LEMMA InitIInv == pmm_init => IInv
<1>. SUFFICES ASSUME pmm_init PROVE IInv
  OBVIOUS
<1>1. PICK usable \in SUBSET Frames :
        /\ bitmap = [f \in Frames |-> f \notin usable]
        /\ frame_tags = [f \in Frames |-> IF f \in usable THEN "free" ELSE "reserved"]
        /\ free_count = Cardinality(usable)
  BY DEF pmm_init
<1>2. FreeFrames = usable /\ free_count \in Nat
  BY <1>1, FramesFinite, Zenon DEF FreeFrames
<1>3. 0 \in Slots /\ 0 \in Frames
  BY PmmAssumption DEF Slots, Frames
<1>4. TypeOK
  BY <1>1, <1>2, <1>3, Zenon DEF pmm_init, TypeOK, SearchHint, RunHint, NoSearchHint, NoRunHint, Tags
<1>5. Accounting
  <2>1. free_count = Cardinality(FreeFrames)
    BY <1>1, <1>2, Zenon
  <2>2. \A f \in Frames : frame_tags[f] = "free" <=> ~bitmap[f]
    BY <1>1, Zenon
  <2>. QED  BY <2>1, <2>2 DEF Accounting
<1>6. HintsSound /\ HintsShaped
  BY DEF pmm_init, HintsSound, HintsShaped, NoSearchHint, NoRunHint
<1>. QED  BY <1>4, <1>5, <1>6 DEF IInv

(* Fewer free frames keep every stored hint sound. *)
LEMMA ShrinkKeepsHints ==
    ASSUME NEW smaller \in SUBSET FreeFrames, NEW start, NEW count
    PROVE  {r \in Frames : start <= r /\ Run(r, count) \subseteq smaller}
             \subseteq RunsFrom(start, count)
BY DEF RunsFrom

(* The first frame of a nonempty run belongs to it. *)
LEMMA RunHead ==
    ASSUME NEW r \in Int, NEW count \in Nat \ {0}
    PROVE  r \in Run(r, count)
BY DEF Run

LEMMA FoundIInv ==
    ASSUME IInv, ~halted, halted' = halted,
           NEW minimum \in Nat, NEW count \in Nat \ {0}, NEW tag \in {"heap", "general"},
           NEW s \in Slots, NEW h \in Slots,
           AllocFound(minimum, count, tag, s, h)
    PROVE  IInv'
<1>. DEFINE sf == SearchFloor(s, minimum)
            rf == RunFloor(h, minimum, count)
            start == Larger(sf, rf)
<1>1. PICK r \in RunsFrom(start, count), first \in 0 .. frame_count :
        /\ \A q \in RunsFrom(start, count) : r <= q
        /\ FirstFree(first, start)
        /\ bitmap' = [f \in Frames |-> bitmap[f] \/ f \in Run(r, count)]
        /\ frame_tags' = [f \in Frames |-> IF f \in Run(r, count) THEN tag
                                                                  ELSE frame_tags[f]]
        /\ free_count' = free_count - count
        /\ StoreHints(s, h, minimum, count, r + count,
               IF start # sf THEN sf ELSE IF first = r THEN r + count ELSE first)
        /\ result' = r
  BY DEF AllocFound
<1>2. /\ sf \in Nat /\ rf \in Nat
      /\ minimum <= sf /\ minimum <= rf
      /\ \A f \in FreeFrames : minimum <= f => sf <= f
      /\ \A q \in RunsFrom(minimum, count) : rf <= q
  BY FloorsSound
<1>3. RunsFrom(start, count) = RunsFrom(minimum, count)
  BY ScanComplete
<1>4. start \in Nat /\ sf <= start
  BY <1>2 DEF Larger
<1>. HIDE DEF sf, rf, start
<1>5. r \in Frames /\ r \in Nat /\ start <= r /\ Run(r, count) \subseteq FreeFrames
  BY PmmAssumption DEF RunsFrom, Frames
<1>6. Run(r, count) \subseteq Frames /\ FreeFrames \subseteq Frames /\ r \in Run(r, count)
  BY <1>5, RunHead DEF FreeFrames
<1>7. FreeFrames' = FreeFrames \ Run(r, count)
  BY <1>1, Zenon DEF FreeFrames
<1>8. Cardinality(FreeFrames') = Cardinality(FreeFrames) - count
  <2>1. Cardinality(FreeFrames \ Run(r, count))
          = Cardinality(FreeFrames) - Cardinality(Run(r, count))
    BY <1>5, <1>6, CardinalityMinus
  <2>2. Cardinality(Run(r, count)) = count
    BY <1>5, RunCardinality
  <2>3. Cardinality(FreeFrames') = Cardinality(FreeFrames \ Run(r, count))
    BY <1>7, Zenon
  <2>. QED  BY <2>1, <2>2, <2>3
<1>9. Accounting'
  <2>1. free_count' = Cardinality(FreeFrames')
    BY <1>1, <1>8 DEF IInv, Accounting
  <2>2. \A f \in Frames : frame_tags'[f] = "free" <=> ~bitmap'[f]
    BY <1>1, Zenon DEF IInv, Accounting, TypeOK
  <2>. QED  BY <2>1, <2>2 DEF Accounting, FreeFrames
<1>10. free_count' \in Nat
  <2>1. Cardinality(FreeFrames') \in Nat
    BY <1>6, <1>7, FramesFinite, Zenon
  <2>. QED  BY <2>1, <1>9 DEF Accounting, FreeFrames
<1>. DEFINE newFloor == IF start # sf THEN sf ELSE IF first = r THEN r + count ELSE first
<1>11. newFloor \in Nat /\ minimum <= newFloor
  <2>1. first <= r /\ first \in Nat /\ r < frame_count
    BY <1>1, <1>5, <1>6, PmmAssumption DEF FirstFree, Frames
  <2>2. start <= first
    BY <1>1, <1>5, <2>1, PmmAssumption DEF FirstFree
  <2>. QED  BY <1>2, <1>4, <1>5, <2>1, <2>2
<1>12. \A f \in FreeFrames' : minimum <= f => newFloor <= f
  <2>. SUFFICES ASSUME NEW f \in FreeFrames', minimum <= f PROVE newFloor <= f
    OBVIOUS
  <2>1. f \in FreeFrames /\ f \notin Run(r, count) /\ f \in Nat /\ sf <= f
    BY <1>2, <1>7, PmmAssumption DEF FreeFrames, Frames
  <2>2. CASE start # sf
    BY <2>1, <2>2
  <2>3. CASE start = sf
    <3>1. first <= f
      BY <1>1, <2>1, <2>3 DEF FirstFree
    <3>. QED  BY <1>5, <2>1, <2>3, <3>1 DEF Run
  <2>. QED  BY <2>2, <2>3
<1>13. \A q \in RunsFrom(minimum, count)' : r + count <= q
  <2>. SUFFICES ASSUME NEW q \in RunsFrom(minimum, count)' PROVE r + count <= q
    OBVIOUS
  <2>1. q \in Frames /\ q \in Nat /\ minimum <= q /\ Run(q, count) \subseteq FreeFrames'
    BY PmmAssumption DEF RunsFrom, Frames
  <2>2. q \in Run(q, count)
    BY <2>1, RunHead
  <2>3. q \in RunsFrom(minimum, count) /\ q \notin Run(r, count)
    BY <1>7, <2>1, <2>2 DEF RunsFrom
  <2>4. r <= q
    BY <1>1, <1>3, <2>3
  <2>. QED  BY <1>5, <2>1, <2>3, <2>4 DEF Run
<1>. HIDE DEF newFloor
<1>14. /\ run_hints' = [run_hints EXCEPT ![h] =
             [valid |-> TRUE, minimum |-> minimum, count |-> count, floor |-> r + count]]
       /\ search_hints' = [search_hints EXCEPT ![s] =
             [valid |-> TRUE, minimum |-> minimum, floor |-> newFloor]]
  BY <1>1 DEF StoreHints, newFloor
<1>15. TypeOK'
  <2>1. next_search_hint' \in Slots /\ next_run_hint' \in Slots
    BY <1>1, PmmAssumption DEF IInv, TypeOK, StoreHints, NextCursor, Slots
  <2>2. search_hints' \in [Slots -> SearchHint] /\ run_hints' \in [Slots -> RunHint]
    BY <1>5, <1>11, <1>14 DEF IInv, TypeOK, SearchHint, RunHint
  <2>3. bitmap' \in [Frames -> BOOLEAN] /\ frame_tags' \in [Frames -> Tags]
    BY <1>1 DEF IInv, TypeOK, Tags
  <2>. QED  BY <1>1, <1>5, <1>10, <2>1, <2>2, <2>3 DEF TypeOK, IInv
<1>16. HintsShaped'
  BY <1>2, <1>4, <1>5, <1>11, <1>14 DEF IInv, TypeOK, HintsShaped
<1>17. HintsSound'
  <2>1. ASSUME NEW t \in Slots, search_hints'[t].valid, NEW f \in FreeFrames',
               search_hints'[t].minimum <= f
        PROVE  search_hints'[t].floor <= f
    <3>1. CASE t = s
      BY <1>12, <1>14, <2>1, <3>1 DEF IInv, TypeOK
    <3>2. CASE t # s
      <4>1. search_hints'[t] = search_hints[t] /\ f \in FreeFrames
        BY <1>7, <1>14, <3>2 DEF IInv, TypeOK
      <4>. QED  BY <2>1, <4>1 DEF IInv, HintsSound
    <3>. QED  BY <3>1, <3>2
  <2>2. ASSUME NEW t \in Slots, run_hints'[t].valid,
               NEW q \in RunsFrom(run_hints[t].minimum, run_hints[t].count)'
        PROVE  run_hints'[t].floor <= q
    <3>1. CASE t = h
      BY <1>13, <1>14, <3>1 DEF IInv, TypeOK
    <3>2. CASE t # h
      <4>1. run_hints'[t] = run_hints[t]
        BY <1>14, <3>2 DEF IInv, TypeOK
      <4>2. q \in RunsFrom(run_hints[t].minimum, run_hints[t].count)
        BY <1>7, <4>1 DEF RunsFrom
      <4>. QED  BY <2>2, <4>1, <4>2 DEF IInv, HintsSound
    <3>. QED  BY <3>1, <3>2
  <2>. QED  BY <2>1, <2>2 DEF HintsSound
<1>. QED  BY <1>9, <1>15, <1>16, <1>17 DEF IInv

LEMMA ExhaustedIInv ==
    ASSUME IInv, ~halted, halted' = halted,
           NEW minimum \in Nat, NEW count \in Nat \ {0}, NEW s \in Slots, NEW h \in Slots,
           AllocExhausted(minimum, count, s, h)
    PROVE  IInv'
<1>. DEFINE sf == SearchFloor(s, minimum)
            rf == RunFloor(h, minimum, count)
            start == Larger(sf, rf)
<1>1. PICK first \in 0 .. frame_count :
        /\ RunsFrom(start, count) = {}
        /\ FirstFree(first, start)
        /\ StoreHints(s, h, minimum, count, Larger(frame_count, minimum),
               IF start # sf THEN sf ELSE Larger(first, minimum))
        /\ result' = 0
        /\ UNCHANGED <<bitmap, frame_tags, free_count>>
  BY DEF AllocExhausted
<1>2. /\ sf \in Nat /\ rf \in Nat
      /\ minimum <= sf /\ minimum <= rf
      /\ \A f \in FreeFrames : minimum <= f => sf <= f
  BY FloorsSound
<1>3. RunsFrom(start, count) = RunsFrom(minimum, count)
  BY ScanComplete
<1>4. start \in Nat /\ sf <= start
  BY <1>2 DEF Larger
<1>. HIDE DEF sf, rf, start
<1>5. FreeFrames' = FreeFrames
  BY <1>1 DEF FreeFrames
<1>. DEFINE newFloor == IF start # sf THEN sf ELSE Larger(first, minimum)
            top == Larger(frame_count, minimum)
<1>6. newFloor \in Nat /\ minimum <= newFloor /\ top \in Nat /\ minimum <= top
  BY <1>1, <1>2, <1>4, PmmAssumption DEF Larger
<1>7. \A f \in FreeFrames : minimum <= f => newFloor <= f
  <2>. SUFFICES ASSUME NEW f \in FreeFrames, minimum <= f PROVE newFloor <= f
    OBVIOUS
  <2>1. f \in Nat /\ sf <= f
    BY <1>2, PmmAssumption DEF FreeFrames, Frames
  <2>2. start = sf => first <= f
    BY <1>1, <2>1 DEF FirstFree
  <2>. QED  BY <2>1, <2>2 DEF Larger
<1>. HIDE DEF newFloor, top
<1>8. /\ run_hints' = [run_hints EXCEPT ![h] =
            [valid |-> TRUE, minimum |-> minimum, count |-> count, floor |-> top]]
      /\ search_hints' = [search_hints EXCEPT ![s] =
            [valid |-> TRUE, minimum |-> minimum, floor |-> newFloor]]
  BY <1>1 DEF StoreHints, newFloor, top
<1>9. TypeOK'
  <2>1. next_search_hint' \in Slots /\ next_run_hint' \in Slots
    BY <1>1, PmmAssumption DEF IInv, TypeOK, StoreHints, NextCursor, Slots
  <2>2. search_hints' \in [Slots -> SearchHint] /\ run_hints' \in [Slots -> RunHint]
    BY <1>6, <1>8 DEF IInv, TypeOK, SearchHint, RunHint
  <2>3. 0 \in Frames
    BY PmmAssumption DEF Frames
  <2>. QED  BY <1>1, <2>1, <2>2, <2>3 DEF TypeOK, IInv
<1>10. Accounting'
  BY <1>1, <1>5 DEF IInv, Accounting, FreeFrames
<1>11. HintsShaped'
  BY <1>6, <1>8 DEF IInv, TypeOK, HintsShaped
<1>12. HintsSound'
  <2>1. ASSUME NEW t \in Slots, search_hints'[t].valid, NEW f \in FreeFrames',
               search_hints'[t].minimum <= f
        PROVE  search_hints'[t].floor <= f
    <3>1. CASE t = s
      BY <1>5, <1>7, <1>8, <2>1, <3>1 DEF IInv, TypeOK
    <3>2. CASE t # s
      <4>1. search_hints'[t] = search_hints[t] /\ f \in FreeFrames
        BY <1>5, <1>8, <3>2 DEF IInv, TypeOK
      <4>. QED  BY <2>1, <4>1 DEF IInv, HintsSound
    <3>. QED  BY <3>1, <3>2
  <2>2. ASSUME NEW t \in Slots, run_hints'[t].valid,
               NEW q \in RunsFrom(run_hints[t].minimum, run_hints[t].count)'
        PROVE  run_hints'[t].floor <= q
    <3>1. CASE t = h
      <4>1. q \in RunsFrom(minimum, count)
        BY <1>5, <1>8, <3>1 DEF IInv, TypeOK, RunsFrom
      <4>. QED  BY <1>1, <1>3, <4>1
    <3>2. CASE t # h
      <4>1. run_hints'[t] = run_hints[t]
        BY <1>8, <3>2 DEF IInv, TypeOK
      <4>2. q \in RunsFrom(run_hints[t].minimum, run_hints[t].count)
        BY <1>5, <4>1 DEF RunsFrom
      <4>. QED  BY <2>2, <4>1, <4>2 DEF IInv, HintsSound
    <3>. QED  BY <3>1, <3>2
  <2>. QED  BY <2>1, <2>2 DEF HintsSound
<1>. QED  BY <1>9, <1>10, <1>11, <1>12 DEF IInv

(* Releasing frames that are in use keeps the accounting exact, whether the  *)
(* call completes or halts part of the way.                                  *)
LEMMA ReleaseAccounting ==
    ASSUME IInv, NEW freed \in SUBSET Frames, \A f \in freed : bitmap[f],
           ReleaseFrames(freed)
    PROVE  /\ Accounting'
           /\ bitmap' \in [Frames -> BOOLEAN]
           /\ frame_tags' \in [Frames -> Tags]
           /\ free_count' \in Nat
           /\ FreeFrames' = FreeFrames \cup freed
<1>1. FreeFrames' = FreeFrames \cup freed
  BY Zenon DEF FreeFrames, ReleaseFrames, IInv, TypeOK
<1>2. Cardinality(FreeFrames') = Cardinality(FreeFrames) + Cardinality(freed)
  <2>1. FreeFrames \in SUBSET Frames /\ FreeFrames \cap freed = {}
    BY DEF FreeFrames
  <2>2. Cardinality(FreeFrames \cup freed) = Cardinality(FreeFrames) + Cardinality(freed)
    BY <2>1, CardinalityPlus
  <2>3. Cardinality(FreeFrames') = Cardinality(FreeFrames \cup freed)
    BY <1>1, Zenon
  <2>. QED  BY <2>2, <2>3
<1>3. free_count' = Cardinality(FreeFrames')
  BY <1>2 DEF IInv, Accounting, ReleaseFrames
<1>4. free_count' \in Nat
  BY FramesFinite DEF ReleaseFrames, IInv, TypeOK
<1>5. \A f \in Frames : frame_tags'[f] = "free" <=> ~bitmap'[f]
  BY Zenon DEF IInv, Accounting, ReleaseFrames, TypeOK
<1>6. bitmap' \in [Frames -> BOOLEAN] /\ frame_tags' \in [Frames -> Tags]
  BY DEF IInv, TypeOK, ReleaseFrames, Tags
<1>. QED  BY <1>1, <1>3, <1>4, <1>5, <1>6 DEF Accounting, FreeFrames

LEMMA FreeIInv ==
    ASSUME IInv, NEW frame \in Frames, NEW count \in Nat \ {0},
           pmm_free_frame_range(frame, count)
    PROVE  IInv'
<1>1. frame \in Nat /\ Run(frame, count) \in SUBSET Frames
  BY PmmAssumption DEF pmm_free_frame_range, Frames
<1>2. \A f \in Run(frame, count) : bitmap[f]
  BY DEF pmm_free_frame_range, Unfreeable
<1>3. /\ Accounting'
      /\ bitmap' \in [Frames -> BOOLEAN] /\ frame_tags' \in [Frames -> Tags]
      /\ free_count' \in Nat
      /\ FreeFrames' = FreeFrames \cup Run(frame, count)
  BY <1>1, <1>2, ReleaseAccounting DEF pmm_free_frame_range
<1>4. /\ search_hints' = [s \in Slots |-> RewindSearch(search_hints[s], frame, count)]
      /\ run_hints' = [s \in Slots |-> RewindRun(run_hints[s], frame, count)]
      /\ ~halted /\ UNCHANGED <<next_search_hint, next_run_hint, result, halted>>
  BY DEF pmm_free_frame_range
<1>5. ASSUME NEW s \in Slots
      PROVE  /\ search_hints'[s] \in SearchHint
             /\ search_hints'[s].valid = search_hints[s].valid
             /\ search_hints'[s].minimum = search_hints[s].minimum
             /\ search_hints'[s].floor <= search_hints[s].floor
             /\ search_hints[s].valid /\ search_hints[s].minimum < frame + count
                  => search_hints'[s].floor <= Larger(frame, search_hints[s].minimum)
             /\ search_hints[s].valid => search_hints[s].minimum <= search_hints'[s].floor
  <2>1. search_hints[s] \in SearchHint
    BY DEF IInv, TypeOK
  <2>2. search_hints[s].valid => search_hints[s].minimum <= search_hints[s].floor
    BY DEF IInv, HintsShaped
  <2>. QED  BY <1>1, <1>4, <2>1, <2>2 DEF SearchHint, RewindSearch, Larger, Smaller
<1>6. ASSUME NEW s \in Slots
      PROVE  /\ run_hints'[s] \in RunHint
             /\ run_hints'[s].valid = run_hints[s].valid
             /\ run_hints'[s].minimum = run_hints[s].minimum
             /\ run_hints'[s].count = run_hints[s].count
             /\ run_hints'[s].floor <= run_hints[s].floor
             /\ run_hints[s].valid /\ run_hints[s].minimum < frame + count
                  => run_hints'[s].floor <= Larger(run_hints[s].minimum,
                                                   frame - run_hints[s].count + 1)
             /\ run_hints[s].valid =>
                    run_hints[s].minimum <= run_hints'[s].floor /\ run_hints[s].count > 0
  <2>1. run_hints[s] \in RunHint
    BY DEF IInv, TypeOK
  <2>2. run_hints[s].valid =>
          run_hints[s].minimum <= run_hints[s].floor /\ run_hints[s].count > 0
    BY DEF IInv, HintsShaped
  <2>3. PICK h \in RunHint : h = run_hints[s] /\ run_hints'[s] = RewindRun(h, frame, count)
    BY <1>4, <2>1
  <2>4. /\ h.minimum \in Nat /\ h.count \in Nat /\ h.floor \in Nat /\ h.valid \in BOOLEAN
        /\ h.valid => h.minimum <= h.floor /\ h.count > 0
    BY <2>2, <2>3 DEF RunHint
  <2>5. CASE h.valid /\ h.minimum < frame + count
    <3>1. PICK b \in Nat :
            /\ b = Larger(h.minimum, Larger(Larger(frame, h.minimum) - (h.count - 1), 0))
            /\ b <= Larger(h.minimum, frame - h.count + 1) /\ h.minimum <= b
      BY <1>1, <2>4, <2>5 DEF Larger
    <3>2. PICK l \in Nat : l = Smaller(h.floor, b) /\ l <= h.floor /\ l <= b /\ h.minimum <= l
      BY <2>4, <2>5, <3>1 DEF Smaller
    <3>3. run_hints'[s] = [h EXCEPT !.floor = l]
      BY <2>3, <2>5, <3>1, <3>2 DEF RewindRun
    <3>4. /\ run_hints'[s] \in RunHint /\ run_hints'[s].floor = l /\ run_hints'[s].valid = h.valid
          /\ run_hints'[s].minimum = h.minimum /\ run_hints'[s].count = h.count
      BY <2>4, <3>2, <3>3 DEF RunHint
    <3>5. l <= Larger(h.minimum, frame - h.count + 1)
      BY <1>1, <2>4, <3>1, <3>2 DEF Larger
    <3>. QED  BY <2>2, <2>3, <3>2, <3>4, <3>5
  <2>6. CASE ~(h.valid /\ h.minimum < frame + count)
    BY <2>3, <2>4, <2>6 DEF RewindRun
  <2>. QED  BY <2>5, <2>6
<1>7. TypeOK'
  <2>1. search_hints' \in [Slots -> SearchHint] /\ run_hints' \in [Slots -> RunHint]
    BY <1>4, <1>5, <1>6
  <2>. QED  BY <1>3, <1>4, <2>1 DEF IInv, TypeOK
<1>8. HintsShaped'
  BY <1>5, <1>6 DEF HintsShaped
<1>9. HintsSound'
  <2>1. ASSUME NEW s \in Slots, search_hints'[s].valid, NEW f \in FreeFrames',
               search_hints'[s].minimum <= f
        PROVE  search_hints'[s].floor <= f
    <3>1. /\ search_hints[s] \in SearchHint /\ search_hints'[s] \in SearchHint
          /\ f \in Nat
      BY <1>5, PmmAssumption DEF IInv, TypeOK, FreeFrames, Frames
    <3>2. CASE f \in FreeFrames
      <4>1. search_hints[s].floor <= f
        BY <1>4, <1>5, <2>1, <3>2, Zenon DEF IInv, HintsSound
      <4>. QED  BY <1>5, <3>1, <4>1 DEF SearchHint
    <3>3. CASE f \in Run(frame, count)
      <4>1. frame <= f /\ f < frame + count
        BY <1>1, <3>3 DEF Run
      <4>2. search_hints'[s].floor <= Larger(frame, search_hints[s].minimum)
        BY <1>1, <1>5, <2>1, <3>1, <4>1 DEF SearchHint
      <4>. QED  BY <1>1, <1>5, <2>1, <3>1, <4>1, <4>2 DEF SearchHint, Larger
    <3>. QED  BY <1>3, <3>2, <3>3
  <2>2. ASSUME NEW s \in Slots, run_hints'[s].valid,
               NEW q \in RunsFrom(run_hints[s].minimum, run_hints[s].count)'
        PROVE  run_hints'[s].floor <= q
    <3>. DEFINE m == run_hints[s].minimum
                c == run_hints[s].count
    <3>1. /\ run_hints[s] \in RunHint /\ run_hints'[s] \in RunHint
          /\ m \in Nat /\ c \in Nat /\ c > 0
          /\ run_hints[s].floor \in Nat /\ run_hints'[s].floor \in Nat
      BY <1>6, <2>2 DEF IInv, TypeOK, RunHint
    <3>2. /\ q \in Frames /\ q \in Nat /\ m <= q
          /\ Run(q, c) \subseteq FreeFrames \cup Run(frame, count)
      BY <1>3, <1>6, PmmAssumption, SMTT(30) DEF RunsFrom, Frames
    <3>3. CASE Run(q, c) \subseteq FreeFrames
      <4>1. q \in RunsFrom(m, c)
        BY <3>2, <3>3 DEF RunsFrom
      <4>2. run_hints[s].floor <= q
        BY <1>4, <1>6, <2>2, <4>1, Zenon DEF IInv, HintsSound
      <4>. QED  BY <1>6, <3>1, <3>2, <4>2
    <3>4. CASE ~(Run(q, c) \subseteq FreeFrames)
      <4>1. PICK g \in Run(q, c) : g \in Run(frame, count)
        BY <3>2, <3>4
      <4>2. g \in Int /\ q <= g /\ g <= q + c - 1 /\ frame <= g /\ g <= frame + count - 1
        BY <1>1, <3>1, <3>2, <4>1 DEF Run
      <4>3. m < frame + count /\ frame - c + 1 <= q
        BY <1>1, <3>1, <3>2, <4>2
      <4>4. run_hints'[s].floor <= Larger(m, frame - c + 1)
        BY <1>6, <2>2, <4>3
      <4>. HIDE DEF m, c
      <4>. QED  BY <1>1, <3>1, <3>2, <4>3, <4>4 DEF Larger
    <3>. QED  BY <3>3, <3>4
  <2>. QED  BY <2>1, <2>2 DEF HintsSound
<1>. QED  BY <1>3, <1>7, <1>8, <1>9 DEF IInv

LEMMA HaltIInv ==
    ASSUME IInv, NEW frame \in Frames, NEW count \in Nat \ {0}, HaltOnFree(frame, count)
    PROVE  IInv'
<1>1. PICK bad \in Run(frame, count) :
        /\ \A f \in frame .. bad - 1 : ~Unfreeable(f)
        /\ ReleaseFrames(frame .. bad - 1)
  BY DEF HaltOnFree
<1>2. frame .. bad - 1 \in SUBSET Frames
  BY PmmAssumption DEF HaltOnFree, Run, Frames
<1>3. /\ Accounting'
      /\ bitmap' \in [Frames -> BOOLEAN] /\ frame_tags' \in [Frames -> Tags]
      /\ free_count' \in Nat
  BY <1>1, <1>2, ReleaseAccounting, Zenon DEF Unfreeable
<1>4. /\ halted' = TRUE
      /\ UNCHANGED <<search_hints, run_hints, next_search_hint, next_run_hint, result>>
  BY DEF HaltOnFree
<1>. QED  BY <1>3, <1>4 DEF IInv, TypeOK, HintsSound, HintsShaped

LEMMA StepIInv == IInv /\ [Next]_vars => IInv'
<1>. SUFFICES ASSUME IInv, [Next]_vars PROVE IInv'
  OBVIOUS
<1>1. ASSUME NEW m \in Minimums, NEW c \in Counts, NEW tag \in AllocTags,
             pmm_alloc_frames_above_tagged(m, c, tag)
      PROVE  IInv'
  <2>1. m \in Nat /\ c \in Nat \ {0} /\ tag \in {"heap", "general"}
    BY PmmAssumption
  <2>2. ~halted /\ halted' = halted
    BY <1>1 DEF pmm_alloc_frames_above_tagged
  <2>3. CASE /\ result' = 0
             /\ UNCHANGED <<bitmap, frame_tags, free_count, search_hints, run_hints,
                            next_search_hint, next_run_hint>>
    <3>1. 0 \in Frames
      BY PmmAssumption DEF Frames
    <3>. QED  BY <2>2, <2>3, <3>1 DEF IInv, TypeOK, Accounting, HintsSound, HintsShaped,
                                      FreeFrames, RunsFrom
  <2>4. CASE \E s, h \in Slots : AllocFound(m, c, tag, s, h)
    BY <2>1, <2>2, <2>4, FoundIInv
  <2>5. CASE \E s, h \in Slots : AllocExhausted(m, c, s, h)
    BY <2>1, <2>2, <2>5, ExhaustedIInv
  <2>. QED  BY <1>1, <2>3, <2>4, <2>5 DEF pmm_alloc_frames_above_tagged
<1>2. ASSUME NEW frame \in Frames, NEW c \in Counts, pmm_free_frame_range(frame, c)
      PROVE  IInv'
  BY <1>2, FreeIInv, PmmAssumption
<1>3. ASSUME NEW frame \in Frames, NEW c \in Counts, HaltOnFree(frame, c)
      PROVE  IInv'
  BY <1>3, HaltIInv, PmmAssumption
<1>4. CASE UNCHANGED vars
  BY <1>4 DEF vars, IInv, TypeOK, Accounting, HintsSound, HintsShaped, FreeFrames, RunsFrom
<1>. QED  BY <1>1, <1>2, <1>3, <1>4 DEF Next

(* The memory manager keeps its types, its accounting and the soundness of   *)
(* every hint it will start a scan from, for any number of frames and slots. *)
THEOREM PmmInvariant == Spec => []AllocatorSound
<1>1. IInv => AllocatorSound
  BY DEF IInv, AllocatorSound
<1>. QED  BY <1>1, InitIInv, StepIInv, PTL DEF Spec
-----------------------------------------------------------------------------
(* Refinement of the first-fit promise.                                      *)

(* The early refusal of a request larger than the free count is right: a     *)
(* run of that length would hold more free frames than there are.            *)
LEMMA TooLargeMeansNoRun ==
    ASSUME IInv, NEW minimum \in Nat, NEW count \in Nat \ {0}, count > free_count
    PROVE  RunsFrom(minimum, count) = {}
<1>. SUFFICES ASSUME NEW r \in RunsFrom(minimum, count) PROVE FALSE
  OBVIOUS
<1>1. r \in Nat /\ Run(r, count) \in SUBSET FreeFrames /\ FreeFrames \in SUBSET Frames
  BY PmmAssumption DEF RunsFrom, Frames, FreeFrames
<1>2. Cardinality(Run(r, count)) <= Cardinality(FreeFrames)
  BY <1>1, FramesFinite, FS_Subset
<1>3. Cardinality(Run(r, count)) = count
  BY <1>1, RunCardinality
<1>. QED  BY <1>2, <1>3 DEF IInv, Accounting, TypeOK

(* The promise's runs are the ones this module's scan finds. *)
LEMMA PromiseRuns ==
    ASSUME NEW minimum, NEW count
    PROVE  Promise!Runs(minimum, count) = RunsFrom(minimum, count)
BY DEF Promise!Runs, Promise!Frames, RunsFrom, Frames, Run

LEMMA StepPromise == IInv /\ [Next]_vars => [Promise!Next]_(Promise!vars)
<1>. SUFFICES ASSUME IInv, [Next]_vars PROVE [Promise!Next]_(Promise!vars)
  OBVIOUS
<1>1. ASSUME NEW m \in Minimums, NEW c \in Counts, NEW tag \in AllocTags,
             pmm_alloc_frames_above_tagged(m, c, tag)
      PROVE  Promise!Alloc(m, c) \/ Promise!Refuse(m, c)
  <2>1. m \in Nat /\ c \in Nat \ {0} /\ ~halted
    BY <1>1, PmmAssumption DEF pmm_alloc_frames_above_tagged
  <2>2. CASE /\ c > free_count
             /\ result' = 0
             /\ UNCHANGED bitmap
    <3>1. RunsFrom(m, c) = {}
      BY <2>1, <2>2, TooLargeMeansNoRun
    <3>2. Promise!Runs(m, c) = {} /\ FreeFrames' = FreeFrames
      BY <2>2, <3>1, PromiseRuns DEF FreeFrames
    <3>. QED  BY <2>2, <3>2 DEF Promise!Refuse
  <2>3. ASSUME NEW s \in Slots, NEW h \in Slots, AllocFound(m, c, tag, s, h)
        PROVE  Promise!Alloc(m, c)
    <3>1. PICK r \in RunsFrom(m, c) :
            /\ \A q \in RunsFrom(m, c) : r <= q
            /\ bitmap' = [f \in Frames |-> bitmap[f] \/ f \in Run(r, c)]
            /\ result' = r
      BY <2>1, <2>3, ScanComplete DEF AllocFound
    <3>2. FreeFrames' = FreeFrames \ Run(r, c)
      BY <3>1, Zenon DEF FreeFrames
    <3>. QED  BY <3>1, <3>2, PromiseRuns DEF Promise!Alloc, Run
  <2>4. ASSUME NEW s \in Slots, NEW h \in Slots, AllocExhausted(m, c, s, h)
        PROVE  Promise!Refuse(m, c)
    <3>1. RunsFrom(m, c) = {} /\ result' = 0 /\ UNCHANGED bitmap
      BY <2>1, <2>4, ScanComplete DEF AllocExhausted
    <3>2. Promise!Runs(m, c) = {} /\ FreeFrames' = FreeFrames
      BY <3>1, PromiseRuns DEF FreeFrames
    <3>. QED  BY <3>1, <3>2 DEF Promise!Refuse
  <2>. QED  BY <1>1, <2>2, <2>3, <2>4 DEF pmm_alloc_frames_above_tagged
<1>2. ASSUME NEW frame \in Frames, NEW c \in Counts,
             pmm_free_frame_range(frame, c) \/ HaltOnFree(frame, c)
      PROVE  Promise!Free
  <2>1. PICK freed : ReleaseFrames(freed)
    BY <1>2 DEF pmm_free_frame_range, HaltOnFree
  <2>2. FreeFrames \subseteq FreeFrames' /\ FreeFrames' \subseteq Frames
    BY <2>1, Zenon DEF ReleaseFrames, FreeFrames
  <2>. QED  BY <1>2, <2>2 DEF Promise!Free, Promise!Frames, Frames,
                              pmm_free_frame_range, HaltOnFree
<1>3. CASE UNCHANGED vars
  BY <1>3 DEF vars, Promise!vars, FreeFrames
<1>. QED  BY <1>1, <1>2, <1>3 DEF Next, Promise!Next

(* The hint caches never change an answer: with any number of slots, any     *)
(* eviction order and any mix of requests and frees, every call of the       *)
(* memory manager is a call of the plain first-fit allocator.                *)
THEOREM PmmIsFirstFit == Spec => ImplementsFirstFit
<1>1. pmm_init => Promise!Init
  BY DEF pmm_init, Promise!Init, Promise!Frames, FreeFrames, Frames
<1>. QED  BY <1>1, InitIInv, StepIInv, StepPromise, PTL
          DEF Spec, ImplementsFirstFit, Promise!Spec
=============================================================================

-------------------------------- MODULE Pmm ---------------------------------
(* The physical memory manager, kernel/src/memory/pmm.c: a frame bitmap with *)
(* owner tags, searched first-fit from cached floors.  Every operation runs  *)
(* with interrupts masked, so each is one step.  The bitmap's bytes and the  *)
(* word-at-a-time skips of the scan are abstracted to the set of runs the    *)
(* scan can find.                                                            *)
EXTENDS Integers, FiniteSets

CONSTANTS frame_count,       \* number of physical frames
          Minimums,          \* minimum frames the callers pass, never frame 0
          Counts,            \* run lengths the callers pass
          AllocTags,         \* owner tags the callers pass
          PMM_SEARCH_HINTS   \* slots in each hint cache

ASSUME PmmAssumption ==
    /\ frame_count \in Nat \ {0}
    /\ Minimums \subseteq Nat \ {0}
    /\ Counts \subseteq Nat \ {0}
    /\ AllocTags \subseteq {"heap", "general"}
    /\ PMM_SEARCH_HINTS \in Nat \ {0}

VARIABLES bitmap,            \* bitmap[f]: frame f is in use
          frame_tags,        \* owner tag of each frame
          free_count,        \* cached number of clear bits
          search_hints,      \* per minimum: no free frame in minimum..floor-1
          run_hints,         \* per minimum and count: no run starts below floor
          next_search_hint,  \* round-robin eviction cursors
          next_run_hint,
          result,            \* frame returned by the last allocation, 0 if none
          halted             \* the machine stopped in halt_forever()

vars == <<bitmap, frame_tags, free_count, search_hints, run_hints,
          next_search_hint, next_run_hint, result, halted>>

Frames == 0 .. frame_count - 1
Slots == 0 .. PMM_SEARCH_HINTS - 1
Run(first, count) == first .. first + count - 1
Larger(a, b) == IF a > b THEN a ELSE b
Smaller(a, b) == IF a < b THEN a ELSE b

(* The tags the code tells apart: the general, page-table, user, stack and   *)
(* DMA tags are all "general".                                               *)
Tags == {"free", "reserved", "heap", "general"}
FreeFrames == {f \in Frames : ~bitmap[f]}

NoSearchHint == [valid |-> FALSE, minimum |-> 0, floor |-> 0]
NoRunHint == [valid |-> FALSE, minimum |-> 0, count |-> 0, floor |-> 0]

-----------------------------------------------------------------------------
(* pmm_init: everything reserved, then the usable ranges of the boot memory  *)
(* map freed and the metadata itself reserved again.                         *)
pmm_init ==
    /\ \E usable \in SUBSET Frames :
        /\ bitmap = [f \in Frames |-> f \notin usable]
        /\ frame_tags = [f \in Frames |-> IF f \in usable THEN "free" ELSE "reserved"]
        /\ free_count = Cardinality(usable)
    /\ search_hints = [s \in Slots |-> NoSearchHint]
    /\ run_hints = [s \in Slots |-> NoRunHint]
    /\ next_search_hint = 0
    /\ next_run_hint = 0
    /\ result = 0
    /\ halted = FALSE

(* Mutant: a run hint answers for every run length at its minimum. *)
RunMatchAnyCount(s, minimum, count) ==
    run_hints[s].valid /\ run_hints[s].minimum = minimum

(* The slot whose hint answers for `minimum`: the first match, or the slot   *)
(* the eviction cursor names when there is none.                             *)
SearchMatch(s, minimum) ==
    search_hints[s].valid /\ search_hints[s].minimum = minimum

SearchSlot(s, minimum) ==
    IF \E t \in Slots : SearchMatch(t, minimum)
    THEN SearchMatch(s, minimum) /\ \A t \in Slots : SearchMatch(t, minimum) => s <= t
    ELSE s = next_search_hint % PMM_SEARCH_HINTS

RunMatch(s, minimum, count) ==
    run_hints[s].valid /\ run_hints[s].minimum = minimum /\ run_hints[s].count = count

RunSlot(s, minimum, count) ==
    IF \E t \in Slots : RunMatch(t, minimum, count)
    THEN /\ RunMatch(s, minimum, count)
         /\ \A t \in Slots : RunMatch(t, minimum, count) => s <= t
    ELSE s = next_run_hint % PMM_SEARCH_HINTS

(* The floor a slot holds once it has been looked up or (re)filled. *)
SearchFloor(s, minimum) ==
    IF SearchMatch(s, minimum) THEN search_hints[s].floor ELSE minimum

RunFloor(s, minimum, count) ==
    IF RunMatch(s, minimum, count) THEN run_hints[s].floor ELSE minimum

(* What the scan from `start` meets: the runs, and the first free frame      *)
(* (frame_count when it meets none).                                         *)
RunsFrom(start, count) ==
    {r \in Frames : start <= r /\ Run(r, count) \subseteq FreeFrames}

FirstFree(f, start) ==
    /\ f \in 0 .. frame_count
    /\ f < frame_count => f \in FreeFrames /\ start <= f
    /\ \A g \in FreeFrames : start <= g => f <= g

(* Mutant: the eviction cursor walks off the end of the cache. *)
NextCursorUnreduced(cursor, hit) == IF hit THEN cursor ELSE cursor + 1

(* The cursors are unsigned and only ever used modulo the slot count, which  *)
(* divides their range: they are kept reduced here.                          *)
NextCursor(cursor, hit) ==
    IF hit THEN cursor ELSE (cursor + 1) % PMM_SEARCH_HINTS

(* The hint updates shared by a successful and a failed scan. *)
StoreHints(s, h, minimum, count, runFloor, searchFloor) ==
    /\ run_hints' = [run_hints EXCEPT ![h] =
           [valid |-> TRUE, minimum |-> minimum, count |-> count, floor |-> runFloor]]
    /\ search_hints' = [search_hints EXCEPT ![s] =
           [valid |-> TRUE, minimum |-> minimum, floor |-> searchFloor]]
    /\ next_search_hint' = NextCursor(next_search_hint, SearchMatch(s, minimum))
    /\ next_run_hint' = NextCursor(next_run_hint, RunMatch(h, minimum, count))

(* pmm_alloc_frames_above_tagged finds a run, marks it and returns it. *)
AllocFound(minimum, count, tag, s, h) ==
    LET searchFloor == SearchFloor(s, minimum)
        start == Larger(searchFloor, RunFloor(h, minimum, count))
    IN \E r \in RunsFrom(start, count), first \in 0 .. frame_count :
        /\ \A q \in RunsFrom(start, count) : r <= q
        /\ FirstFree(first, start)
        /\ bitmap' = [f \in Frames |-> bitmap[f] \/ f \in Run(r, count)]
        /\ frame_tags' = [f \in Frames |-> IF f \in Run(r, count) THEN tag
                                                                  ELSE frame_tags[f]]
        /\ free_count' = free_count - count
        /\ StoreHints(s, h, minimum, count, r + count,
               IF start # searchFloor THEN searchFloor
               ELSE IF first = r THEN r + count ELSE first)
        /\ result' = r

(* The same call when the scan reaches the end of memory. *)
AllocExhausted(minimum, count, s, h) ==
    LET searchFloor == SearchFloor(s, minimum)
        start == Larger(searchFloor, RunFloor(h, minimum, count))
    IN \E first \in 0 .. frame_count :
        /\ RunsFrom(start, count) = {}
        /\ FirstFree(first, start)
        /\ StoreHints(s, h, minimum, count, Larger(frame_count, minimum),
               IF start # searchFloor THEN searchFloor ELSE Larger(first, minimum))
        /\ result' = 0
        /\ UNCHANGED <<bitmap, frame_tags, free_count>>

pmm_alloc_frames_above_tagged(minimum, count, tag) ==
    /\ ~halted
    /\ UNCHANGED halted
    /\ \/ /\ count > free_count
          /\ result' = 0
          /\ UNCHANGED <<bitmap, frame_tags, free_count, search_hints, run_hints,
                         next_search_hint, next_run_hint>>
       \/ /\ count <= free_count
          /\ \E s, h \in Slots :
                /\ SearchSlot(s, minimum)
                /\ RunSlot(h, minimum, count)
                /\ \/ AllocFound(minimum, count, tag, s, h)
                   \/ AllocExhausted(minimum, count, s, h)

(* Mutant: a freed frame that completes a run started earlier is overlooked. *)
RewindRunNoPrefix(hint, frame, count) ==
    IF hint.valid /\ hint.minimum < frame + count
    THEN [hint EXCEPT !.floor = Smaller(hint.floor, Larger(frame, hint.minimum))]
    ELSE hint

(* The floors after frames frame..frame+count-1 came back: a search hint     *)
(* drops to the first eligible freed frame, a run hint also steps back over  *)
(* the count-1 frames a bridging run may start in.                           *)
RewindSearch(hint, frame, count) ==
    IF hint.valid /\ hint.minimum < frame + count
    THEN [hint EXCEPT !.floor = Smaller(hint.floor, Larger(frame, hint.minimum))]
    ELSE hint

RewindRun(hint, frame, count) ==
    IF hint.valid /\ hint.minimum < frame + count
    THEN LET first == Larger(frame, hint.minimum)
             possible == Larger(hint.minimum, Larger(first - (hint.count - 1), 0))
         IN [hint EXCEPT !.floor = Smaller(hint.floor, possible)]
    ELSE hint

(* A frame pmm_free_frame_range refuses: already free, reserved or heap. *)
Unfreeable(f) == ~bitmap[f] \/ frame_tags[f] \in {"reserved", "heap"}

(* Mutant: the tag of a released frame is not reset. *)
ReleaseFramesKeepTag(freed) ==
    /\ bitmap' = [f \in Frames |-> bitmap[f] /\ f \notin freed]
    /\ free_count' = free_count + Cardinality(freed)
    /\ UNCHANGED frame_tags

ReleaseFrames(freed) ==
    /\ bitmap' = [f \in Frames |-> bitmap[f] /\ f \notin freed]
    /\ frame_tags' = [f \in Frames |-> IF f \in freed THEN "free" ELSE frame_tags[f]]
    /\ free_count' = free_count + Cardinality(freed)

pmm_free_frame_range(frame, count) ==
    /\ ~halted
    /\ Run(frame, count) \subseteq Frames
    /\ \A f \in Run(frame, count) : ~Unfreeable(f)
    /\ ReleaseFrames(Run(frame, count))
    /\ search_hints' = [s \in Slots |-> RewindSearch(search_hints[s], frame, count)]
    /\ run_hints' = [s \in Slots |-> RewindRun(run_hints[s], frame, count)]
    /\ UNCHANGED <<next_search_hint, next_run_hint, result, halted>>

(* The same call on a range it refuses: the frames before the offending one  *)
(* are already back when the machine halts, and no hint has been rewound.    *)
HaltOnFree(frame, count) ==
    /\ ~halted
    /\ Run(frame, count) \subseteq Frames
    /\ \E bad \in Run(frame, count) :
        /\ Unfreeable(bad)
        /\ \A f \in frame .. bad - 1 : ~Unfreeable(f)
        /\ ReleaseFrames(frame .. bad - 1)
    /\ halted' = TRUE
    /\ UNCHANGED <<search_hints, run_hints, next_search_hint, next_run_hint, result>>

Next ==
    \/ \E m \in Minimums, c \in Counts, tag \in AllocTags :
           pmm_alloc_frames_above_tagged(m, c, tag)
    \/ \E frame \in Frames, c \in Counts :
           pmm_free_frame_range(frame, c) \/ HaltOnFree(frame, c)

Spec == pmm_init /\ [][Next]_vars
-----------------------------------------------------------------------------
SearchHint == [valid : BOOLEAN, minimum : Nat, floor : Nat]
RunHint == [valid : BOOLEAN, minimum : Nat, count : Nat, floor : Nat]

TypeOK ==
    /\ bitmap \in [Frames -> BOOLEAN]
    /\ frame_tags \in [Frames -> Tags]
    /\ free_count \in Nat
    /\ search_hints \in [Slots -> SearchHint]
    /\ run_hints \in [Slots -> RunHint]
    /\ next_search_hint \in Slots
    /\ next_run_hint \in Slots
    /\ result \in Frames
    /\ halted \in BOOLEAN

(* pmm_frame_has_tag and the early refusal trust cached facts: the count of  *)
(* clear bits is exact, and a frame carries the free tag exactly when its    *)
(* bit is clear.                                                             *)
Accounting ==
    /\ free_count = Cardinality(FreeFrames)
    /\ \A f \in Frames : frame_tags[f] = "free" <=> ~bitmap[f]

(* The scan may start at a cached floor because nothing it skips could have  *)
(* been the answer: no free frame lies below a search hint's floor, and no   *)
(* run of the hint's size starts below a run hint's floor, whatever          *)
(* allocations, frees and evictions happened since the hint was stored.      *)
HintsSound ==
    ~halted =>
        /\ \A s \in Slots : search_hints[s].valid =>
               \A f \in FreeFrames : search_hints[s].minimum <= f => search_hints[s].floor <= f
        /\ \A s \in Slots : run_hints[s].valid =>
               \A r \in RunsFrom(run_hints[s].minimum, run_hints[s].count) :
                   run_hints[s].floor <= r

(* The hints are only an optimization: every call returns what a scan of the *)
(* whole bitmap from the requested minimum would have returned.              *)
Promise == INSTANCE FirstFit WITH free <- FreeFrames, result <- result
ImplementsFirstFit == Promise!Spec

(* The allocator's cached knowledge is right: its tags and its free count    *)
(* agree with the bitmap, and no hint hides a frame or run that would fit.   *)
AllocatorSound ==
    /\ TypeOK
    /\ Accounting
    /\ HintsSound
=============================================================================

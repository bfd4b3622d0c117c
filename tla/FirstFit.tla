------------------------------ MODULE FirstFit ------------------------------
(* What the physical memory manager promises its callers, without the hint   *)
(* caches that make it fast: an allocation takes the lowest run of free      *)
(* frames at or above the requested minimum, and fails only when there is    *)
(* no such run ("Eviction only loses the optimization, never changes         *)
(* first-fit semantics", kernel/src/memory/pmm.c).                           *)
EXTENDS Integers

CONSTANTS frame_count,   \* number of physical frames
          Minimums,      \* minimum frame numbers callers ask for
          Counts         \* run lengths callers ask for

VARIABLES free,          \* the free frames
          result         \* first frame of the last allocation, 0 if refused

vars == <<free, result>>

Frames == 0 .. frame_count - 1

(* First frames of the runs of `count` free frames at or above `minimum`. *)
Runs(minimum, count) ==
    {r \in Frames : /\ minimum <= r
                    /\ r .. r + count - 1 \subseteq free}

Init == free \subseteq Frames /\ result = 0

Alloc(minimum, count) ==
    \E r \in Runs(minimum, count) :
        /\ \A q \in Runs(minimum, count) : r <= q
        /\ free' = free \ (r .. r + count - 1)
        /\ result' = r

Refuse(minimum, count) ==
    /\ Runs(minimum, count) = {}
    /\ result' = 0
    /\ UNCHANGED free

(* Frames come back in any quantity; the caller learns nothing from it. *)
Free ==
    /\ free \subseteq free'
    /\ free' \subseteq Frames
    /\ UNCHANGED result

Next ==
    \/ \E m \in Minimums, c \in Counts : Alloc(m, c) \/ Refuse(m, c)
    \/ Free

Spec == Init /\ [][Next]_vars
=============================================================================

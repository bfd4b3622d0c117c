--------------------------- MODULE PthreadRwlock ---------------------------
(***************************************************************************)
(* The reader-writer lock of userspace/lib/src/posix_pthread.c: one word,  *)
(* negative for a writer, else the number of readers.  Readers come and go *)
(* without waking anybody; only the last one out wakes everybody.          *)
(***************************************************************************)
EXTENDS Integers, FiniteSets

CONSTANTS Threads, Rounds       \* each thread locks and unlocks Rounds times

PthreadRwlockAssumption == Rounds \in Nat

VARIABLES state, pc, seen, kind, left

vars == <<state, pc, seen, kind, left>>

Init ==
    /\ state = 0
    /\ pc = [t \in Threads |-> "idle"]
    /\ seen = [t \in Threads |-> 0]
    /\ kind = [t \in Threads |-> "read"]
    /\ left = [t \in Threads |-> Rounds]

Goto(t, l) == pc' = [pc EXCEPT ![t] = l]

-----------------------------------------------------------------------------

start(t, k) ==
    /\ pc[t] = "idle" /\ left[t] > 0
    /\ kind' = [kind EXCEPT ![t] = k]
    /\ left' = [left EXCEPT ![t] = @ - 1]
    /\ Goto(t, IF k = "read" THEN "rd_load" ELSE "wr_cas")
    /\ UNCHANGED <<state, seen>>

\* pthread_rwlock_tryrdlock: the first load.
rd_load(t) ==
    /\ pc[t] = "rd_load"
    /\ seen' = [seen EXCEPT ![t] = state]
    /\ Goto(t, "rd_cas")
    /\ UNCHANGED <<state, kind, left>>

\* A mutant: the value is not compared when it is exchanged.
rd_cas_blind(t) ==
    /\ pc[t] = "rd_cas"
    /\ IF seen[t] < 0 THEN seen' = [seen EXCEPT ![t] = -1] /\ Goto(t, "futex") /\ UNCHANGED state
       ELSE state' = seen[t] + 1 /\ Goto(t, "held") /\ UNCHANGED seen
    /\ UNCHANGED <<kind, left>>

\* A mutant: the loop does not take over the value that made it fail.
rd_cas_stale(t) ==
    /\ pc[t] = "rd_cas"
    /\ IF seen[t] < 0 THEN Goto(t, "futex") /\ UNCHANGED state
       ELSE state = seen[t] /\ state' = state + 1 /\ Goto(t, "held")
    /\ UNCHANGED <<seen, kind, left>>

\* The loop of pthread_rwlock_tryrdlock; a writer makes rdlock wait for -1.
rd_cas(t) ==
    /\ pc[t] = "rd_cas"
    /\ \/ /\ seen[t] < 0
          /\ seen' = [seen EXCEPT ![t] = -1] /\ Goto(t, "futex") /\ UNCHANGED state
       \/ /\ seen[t] >= 0 /\ state = seen[t]
          /\ state' = state + 1 /\ Goto(t, "held") /\ UNCHANGED seen
       \/ /\ seen[t] >= 0 /\ state # seen[t]
          /\ seen' = [seen EXCEPT ![t] = state] /\ UNCHANGED <<state, pc>>
    /\ UNCHANGED <<kind, left>>

\* pthread_rwlock_trywrlock
wr_cas(t) ==
    /\ pc[t] = "wr_cas"
    /\ IF state = 0 THEN state' = -1 /\ Goto(t, "held")
       ELSE Goto(t, "wr_load") /\ UNCHANGED state
    /\ UNCHANGED <<seen, kind, left>>

\* pthread_rwlock_wrlock waits for the value it has just loaded.
wr_load(t) ==
    /\ pc[t] = "wr_load"
    /\ seen' = [seen EXCEPT ![t] = state]
    /\ Goto(t, IF state = 0 THEN "wr_cas" ELSE "futex")
    /\ UNCHANGED <<state, kind, left>>

\* process_futex_wait: parked only if the word still has the value; otherwise, or
\* after a signal or with a full table, back to the start.
futex(t) ==
    /\ pc[t] = "futex"
    /\ \/ state = seen[t] /\ Goto(t, "parked")
       \/ Goto(t, IF kind[t] = "read" THEN "rd_load" ELSE "wr_cas")
    /\ UNCHANGED <<state, seen, kind, left>>

\* pthread_rwlock_unlock: the relaxed load.
unlock_load(t) ==
    /\ pc[t] = "held"
    /\ seen' = [seen EXCEPT ![t] = state]
    /\ Goto(t, "unlock")
    /\ UNCHANGED <<state, kind, left>>

\* A mutant: only the writer wakes.
unlock_writer_wakes(t) ==
    /\ pc[t] = "unlock" /\ seen[t] = state
    /\ state' = IF state < 0 THEN 0 ELSE state - 1
    /\ Goto(t, IF state < 0 THEN "wake" ELSE "idle")
    /\ UNCHANGED <<seen, kind, left>>

unlock(t) ==
    /\ pc[t] = "unlock"
    /\ IF seen[t] = state
       THEN /\ state' = (IF state < 0 THEN 0 ELSE state - 1)
            /\ Goto(t, IF state' = 0 THEN "wake" ELSE "idle")
            /\ UNCHANGED seen
       ELSE seen' = [seen EXCEPT ![t] = state] /\ UNCHANGED <<state, pc>>
    /\ UNCHANGED <<kind, left>>

\* srv_futex_wake of every waiter.
wake(t) ==
    /\ pc[t] = "wake"
    /\ pc' = [u \in Threads |-> IF u = t THEN "idle"
                                ELSE IF pc[u] = "parked" THEN "futex" ELSE pc[u]]
    /\ UNCHANGED <<state, seen, kind, left>>

Step(t) ==
    \/ \E k \in {"read", "write"} : start(t, k)
    \/ rd_load(t) \/ rd_cas(t) \/ wr_cas(t) \/ wr_load(t) \/ futex(t)
    \/ unlock_load(t) \/ unlock(t) \/ wake(t)

Next == \E t \in Threads : Step(t)

Spec == Init /\ [][Next]_vars

\* Round-robin scheduling.
FairSpec == Spec /\ \A t \in Threads : WF_vars(Step(t))

-----------------------------------------------------------------------------
(* Properties.                                                             *)

Holders(k) == {t \in Threads : pc[t] \in {"held", "unlock"} /\ kind[t] = k}

\* A writer is alone, and otherwise the word counts the readers.
RwExclusion ==
    \/ \E t \in Threads : state = -1 /\ Holders("write") = {t} /\ Holders("read") = {}
    \/ Holders("write") = {} /\ state = Cardinality(Holders("read"))

\* Nobody is parked on a free lock, except while the last holder is about to wake
\* everybody: a writer that waits for a number of readers misses nothing although
\* that number changes without a wake-up.
RwNotStranded ==
    state = 0 /\ (\E t \in Threads : pc[t] = "parked") => \E u \in Threads : pc[u] = "wake"

\* Every thread gets all its rounds.
AllDone == <>(\A t \in Threads : left[t] = 0 /\ pc[t] = "idle")

\* Readers and writers exclude each other, and nobody is left parked on a lock that
\* would have them (pthread_rwlock_unlock wakes).
RwlockSound ==
    /\ RwExclusion
    /\ RwNotStranded
=============================================================================

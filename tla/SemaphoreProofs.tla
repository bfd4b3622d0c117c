-------------------------- MODULE SemaphoreProofs --------------------------
(***************************************************************************)
(* The kernel semaphore for every number of threads and units.             *)
(*                                                                         *)
(* SemaphoreSound is inductive as it stands.  A thread that leaves its     *)
(* search for a unit has taken one, found none or found the semaphore      *)
(* closed, and a thread falls asleep only when there is no unit; so the    *)
(* threads that search are at least as many as the units while somebody    *)
(* sleeps.  The counting rests on two sets that change by one element.     *)
(***************************************************************************)
EXTENDS Semaphore, FiniteSetTheorems, TLAPS

Searching == {t \in Threads : pc[t] \in {"loop", "check"}}

\* The counted sets are finite, and a subset counts no more than its superset.
LEMMA Counts ==
    ASSUME NEW S \in SUBSET Threads
    PROVE  /\ IsFiniteSet(S) /\ Cardinality(S) \in Nat
           /\ S # {} => Cardinality(S) > 0
<1>1. IsFiniteSet(S)
  BY FS_Subset, SemaphoreAssumption DEF SemaphoreAssumption
<1>2. Cardinality(S) \in Nat /\ (Cardinality(S) = 0 <=> S = {})
  BY <1>1, FS_CardinalityType, FS_EmptySet
<1> QED
  BY <1>1, <1>2

\* semaphore_init: nobody is registered, nobody searches.
LEMMA InitSound == semaphore_init => SemaphoreSound
<1> SUFFICES ASSUME semaphore_init PROVE SemaphoreSound
  OBVIOUS
<1>1. TypeOK
  BY SemaphoreAssumption, Zenon DEF semaphore_init, TypeOK, SemaphoreAssumption
<1>2. Registered = {} /\ Blocked = {}
  BY DEF semaphore_init, Registered, Blocked
<1> QED
  BY <1>1, <1>2, FS_EmptySet DEF SemaphoreSound, WaitersExact, NoLostWakeup, semaphore_init

\* The end of semaphore_wait: one registered thread goes, and the count with it.
LEMMA LeaveStep ==
    ASSUME TypeOK, WaitersExact, NEW t \in Threads, pc[t] # "out", Leave(t)
    PROVE  /\ waiters' \in Nat /\ WaitersExact'
           /\ pc' \in [Threads -> {"out", "loop", "check", "blocked", "refused"}]
           /\ finite' \subseteq Threads /\ expired' \subseteq finite'
           /\ Searching' = Searching \ {t} /\ Blocked' = Blocked \ {t}
           /\ Registered' \subseteq Registered
<1>1. Registered' = Registered \ {t} /\ t \in Registered
  BY DEF Registered, Leave, TypeOK
<1>2. Cardinality(Registered') = Cardinality(Registered) - 1
  BY <1>1, FS_RemoveElement, Counts, Zenon DEF Registered
<1>3. Cardinality(Registered) \in Nat /\ Cardinality(Registered) > 0
  BY <1>1, Counts DEF Registered
<1>4. waiters' \in Nat /\ WaitersExact'
  BY <1>2, <1>3 DEF WaitersExact, Leave
<1> QED
  BY <1>1, <1>4 DEF Leave, TypeOK, Searching, Blocked

\* A thread that neither enters nor leaves semaphore_wait is counted as before.
LEMMA StayStep ==
    ASSUME TypeOK, WaitersExact, UNCHANGED waiters,
           pc' \in [Threads -> {"out", "loop", "check", "blocked", "refused"}],
           \A t \in Threads : pc'[t] = "out" <=> pc[t] = "out"
    PROVE  WaitersExact' /\ Registered' = Registered
<1>1. Registered' = Registered
  BY DEF Registered
<1> QED
  BY <1>1 DEF WaitersExact

\* One searcher fewer is one unit fewer, or there was no unit.
LEMMA FewerSearch ==
    ASSUME TypeOK, NoLostWakeup, NEW t \in Threads, units' \in 0 .. MaxUnits,
           Searching' = Searching \ {t}, Blocked' \subseteq Blocked, UNCHANGED closed,
           \/ units' = units - 1
           \/ units' = 0
           \/ closed
    PROVE  NoLostWakeup'
<1> SUFFICES ASSUME Blocked' # {} PROVE ~closed' /\ units' <= Cardinality(Searching')
  BY DEF NoLostWakeup, Searching
<1>1. ~closed /\ units <= Cardinality(Searching)
  BY DEF NoLostWakeup, Searching
<1>2. /\ Cardinality(Searching) \in Nat
      /\ Cardinality(Searching \ {t}) \in {Cardinality(Searching), Cardinality(Searching) - 1}
      /\ Cardinality(Searching \ {t}) \in Nat
  BY FS_RemoveElement, Counts DEF Searching
<1> QED
  BY <1>1, <1>2, SemaphoreAssumption DEF TypeOK, SemaphoreAssumption

\* Nobody who searched stopped searching, and no unit was added.
LEMMA SameSearch ==
    ASSUME TypeOK, NoLostWakeup, units' \in 0 .. MaxUnits, Searching \subseteq Searching',
           Searching' \subseteq Threads,
           Blocked' # {} => (Blocked # {} /\ units' <= units) \/ (units' = 0),
           Blocked' # {} => ~closed'
    PROVE  NoLostWakeup'
<1> SUFFICES ASSUME Blocked' # {} PROVE units' <= Cardinality(Searching')
  BY DEF NoLostWakeup, Searching
<1>1. /\ Cardinality(Searching) \in Nat /\ Cardinality(Searching') \in Nat
      /\ Cardinality(Searching) <= Cardinality(Searching')
  BY FS_Subset, Counts DEF Searching
<1>2. Blocked # {} => units <= Cardinality(Searching)
  BY DEF NoLostWakeup, Searching
<1> QED
  BY <1>1, <1>2, SemaphoreAssumption DEF TypeOK, SemaphoreAssumption

\* Every step of a thread, of a signaller, of the closer and of the clock.
LEMMA SoundStep == SemaphoreSound /\ [Next]_vars => SemaphoreSound'
<1> SUFFICES ASSUME TypeOK, WaitersExact, NoLostWakeup, [Next]_vars
             PROVE  TypeOK' /\ WaitersExact' /\ NoLostWakeup'
  BY DEF SemaphoreSound
<1> USE SemaphoreAssumption DEF SemaphoreAssumption
<1>1. ASSUME NEW t \in Threads, semaphore_wait(t)
      PROVE  TypeOK' /\ WaitersExact' /\ NoLostWakeup'
  <2>1. CASE UNCHANGED <<waiters, pc, finite, expired>>
    <3>1. TypeOK' /\ Searching' = Searching /\ Blocked' = Blocked
      BY <1>1, <2>1 DEF semaphore_wait, TypeOK, Searching, Blocked
    <3>2. WaitersExact'
      BY <2>1, StayStep DEF TypeOK
    <3>3. NoLostWakeup'
      BY <1>1, <3>1, SameSearch DEF semaphore_wait, TypeOK, Searching, NoLostWakeup
    <3> QED
      BY <3>1, <3>2, <3>3
  <2>2. CASE pc' = [pc EXCEPT ![t] = "loop"] /\ waiters' = waiters + 1
    <3>1. TypeOK'
      BY <1>1, <2>2 DEF semaphore_wait, TypeOK
    <3>2. Registered' = Registered \cup {t} /\ t \notin Registered
      BY <1>1, <2>2 DEF semaphore_wait, TypeOK, Registered
    <3>3. WaitersExact'
      BY <2>2, <3>2, FS_AddElement, Counts DEF WaitersExact, Registered
    <3>4. Searching \subseteq Searching' /\ Blocked' \subseteq Blocked
      BY <1>1, <2>2 DEF semaphore_wait, TypeOK, Searching, Blocked
    <3>5. NoLostWakeup'
      BY <1>1, <2>2, <3>1, <3>4, SameSearch DEF semaphore_wait, TypeOK, Searching, NoLostWakeup
    <3> QED
      BY <3>1, <3>3, <3>5
  <2> QED
    BY <1>1, <2>1, <2>2 DEF semaphore_wait
<1>2. ASSUME NEW t \in Threads, Loop(t)
      PROVE  TypeOK' /\ WaitersExact' /\ NoLostWakeup'
  <2>1. CASE Leave(t)
    <3>1. TypeOK' /\ WaitersExact' /\ Searching' = Searching \ {t} /\ Blocked' \subseteq Blocked
      BY <1>2, <2>1, LeaveStep DEF Loop, TypeOK
    <3>2. units' = units - 1 \/ units' = 0 \/ closed
      BY <1>2 DEF Loop
    <3> QED
      BY <1>2, <3>1, <3>2, FewerSearch DEF TypeOK, Loop
  <2>2. CASE pc' = [pc EXCEPT ![t] = "check"] /\ UNCHANGED <<units, waiters, finite, expired>>
    <3>1. TypeOK' /\ Searching' = Searching /\ Blocked' = Blocked /\ UNCHANGED closed
      BY <1>2, <2>2 DEF Loop, TypeOK, Searching, Blocked
    <3>2. WaitersExact'
      BY <1>2, <2>2, StayStep DEF TypeOK, Loop
    <3> QED
      BY <2>2, <3>1, <3>2, SameSearch DEF TypeOK, Searching, NoLostWakeup
  <2> QED
    BY <1>2, <2>1, <2>2 DEF Loop
<1>3. ASSUME NEW t \in Threads, scheduler_wait_timeout(t)
      PROVE  TypeOK' /\ WaitersExact' /\ NoLostWakeup'
  <2>1. PICK place \in {"loop", "blocked", "refused"} :
           pc' = [pc EXCEPT ![t] = place] /\ (place # "loop" => ~closed /\ units = 0)
                                          /\ (place = "loop" => Searching' = Searching)
    BY <1>3, Zenon DEF scheduler_wait_timeout, ready, Searching, TypeOK
  <2>2. TypeOK' /\ pc[t] = "check" /\ UNCHANGED <<units, closed, waiters>>
    BY <1>3, <2>1 DEF scheduler_wait_timeout, TypeOK
  <2>3. WaitersExact'
    BY <2>1, <2>2, StayStep DEF TypeOK
  <2>4. CASE place = "loop"
    <3>1. Searching' = Searching /\ Blocked' = Blocked
      BY <2>1, <2>2, <2>4 DEF TypeOK, Searching, Blocked
    <3> QED
      BY <2>2, <2>3, <3>1, SameSearch DEF TypeOK, Searching, NoLostWakeup
  <2>5. CASE place # "loop"
    <3>1. Cardinality(Searching') \in Nat
      BY Counts DEF Searching
    <3> QED
      BY <2>1, <2>2, <2>3, <2>5, <3>1 DEF NoLostWakeup, Searching, TypeOK
  <2> QED
    BY <2>4, <2>5
<1>4. ASSUME NEW t \in Threads, GiveUp(t)
      PROVE  TypeOK' /\ WaitersExact' /\ NoLostWakeup'
  <2>1. TypeOK' /\ WaitersExact' /\ Searching' = Searching \ {t} /\ Blocked' \subseteq Blocked
    BY <1>4, LeaveStep DEF GiveUp, TypeOK
  <2>2. Searching' = Searching
    BY <1>4, <2>1 DEF GiveUp, Searching
  <2> QED
    BY <1>4, <2>1, <2>2, SameSearch DEF GiveUp, TypeOK, Searching, NoLostWakeup
<1>5. ASSUME NEW t \in Threads, Expire(t)
      PROVE  TypeOK' /\ WaitersExact' /\ NoLostWakeup'
  BY <1>5 DEF Expire, TypeOK, WaitersExact, NoLostWakeup, Registered, Blocked
<1>6. ASSUME NEW t \in Threads, wake_expired_waits(t)
      PROVE  TypeOK' /\ WaitersExact' /\ NoLostWakeup'
  <2>1. TypeOK' /\ Searching \subseteq Searching' /\ Blocked' \subseteq Blocked
    BY <1>6 DEF wake_expired_waits, TypeOK, Searching, Blocked
  <2>2. WaitersExact'
    BY <1>6, <2>1, StayStep DEF wake_expired_waits, TypeOK
  <2> QED
    BY <1>6, <2>1, <2>2, SameSearch DEF wake_expired_waits, TypeOK, Searching, NoLostWakeup
<1>7. ASSUME semaphore_signal
      PROVE  TypeOK' /\ WaitersExact' /\ NoLostWakeup'
  <2>1. PICK S \in SUBSET Blocked :
           Cardinality(S) = (IF Blocked = {} THEN 0 ELSE 1) /\ pc' = Woken(S)
    BY <1>7 DEF semaphore_signal
  <2>2. TypeOK'
    BY <1>7, <2>1 DEF semaphore_signal, TypeOK, Woken
  <2>3. WaitersExact'
    BY <1>7, <2>1, <2>2, StayStep DEF semaphore_signal, TypeOK, Woken, Blocked
  <2>4. Searching' = Searching \cup S /\ Searching \cap S = {} /\ Blocked' \subseteq Blocked
    BY <2>1 DEF Searching, Woken, Blocked, TypeOK
  <2>5. ASSUME Blocked' # {} PROVE units' <= Cardinality(Searching') /\ ~closed'
    <3>1. PICK s \in S : S = {s}
      <4>1. S # {} /\ IsFiniteSet(S)
        BY <2>1, <2>4, <2>5, FS_EmptySet, Counts DEF Blocked
      <4> QED
        BY <2>1, <2>4, <2>5, <4>1, FS_Singleton
    <3>2. Cardinality(Searching') = Cardinality(Searching) + 1
      BY <2>4, <3>1, FS_AddElement, Counts, Zenon DEF Searching
    <3>3. units <= Cardinality(Searching) /\ Cardinality(Searching) \in Nat
      BY <2>4, <2>5, Counts DEF NoLostWakeup, Searching
    <3> QED
      BY <1>7, <3>2, <3>3 DEF semaphore_signal, TypeOK
  <2> QED
    BY <2>2, <2>3, <2>5 DEF NoLostWakeup, Searching
<1>8. ASSUME semaphore_close
      PROVE  TypeOK' /\ WaitersExact' /\ NoLostWakeup'
  <2>1. TypeOK' /\ Blocked' = {}
    BY <1>8 DEF semaphore_close, TypeOK, Woken, Blocked
  <2>2. WaitersExact'
    BY <1>8, <2>1, StayStep DEF semaphore_close, TypeOK, Woken, Blocked
  <2> QED
    BY <2>1, <2>2 DEF NoLostWakeup
<1>9. CASE UNCHANGED vars
  BY <1>9 DEF vars, TypeOK, WaitersExact, NoLostWakeup, Registered, Blocked
<1> QED
  BY <1>1, <1>2, <1>3, <1>4, <1>5, <1>6, <1>7, <1>8, <1>9 DEF Next, Continue

\* For every number of threads and units, semaphore_drained may be believed and no
\* waiter of semaphore_wait sleeps past a unit or a close.
THEOREM SemaphoreInvariant == Spec => []SemaphoreSound
<1>1. semaphore_init => SemaphoreSound
  BY InitSound
<1>2. SemaphoreSound /\ [Next]_vars => SemaphoreSound'
  BY SoundStep
<1> QED
  BY <1>1, <1>2, PTL DEF Spec

\* Nothing opens a closed semaphore, registers at it or takes a unit of it.
LEMMA CloseStep ==
    ASSUME TypeOK, Next, closed
    PROVE  closed' /\ Registered' \subseteq Registered /\ units' = units
<1>1. ASSUME NEW t \in Threads, semaphore_wait(t)
      PROVE  closed' /\ Registered' \subseteq Registered /\ units' = units
  BY <1>1 DEF semaphore_wait, Registered
<1>2. ASSUME NEW t \in Threads, Loop(t) \/ GiveUp(t)
      PROVE  closed' /\ Registered' \subseteq Registered /\ units' = units
  <2>1. closed' /\ Leave(t) /\ units' = units
    BY <1>2, Zenon DEF Loop, GiveUp
  <2> QED
    BY <2>1 DEF Leave, Registered, TypeOK
<1>3. ASSUME NEW t \in Threads, scheduler_wait_timeout(t) \/ Expire(t) \/ wake_expired_waits(t)
      PROVE  closed' /\ Registered' \subseteq Registered /\ units' = units
  <2>1. closed' /\ units' = units /\ \A s \in Threads : pc[s] = "out" => pc'[s] = "out"
    BY <1>3, Zenon DEF scheduler_wait_timeout, Expire, wake_expired_waits, TypeOK
  <2> QED
    BY <2>1 DEF Registered
<1> QED
  BY <1>1, <1>2, <1>3 DEF Next, Continue, semaphore_signal, semaphore_close

\* A closed semaphore stays closed and admits nobody, so what semaphore_drained said
\* to the destroyer can never become false again.
THEOREM SemaphoreCloses == Spec => CloseIsFinal
<1>1. TypeOK /\ [Next]_vars =>
        [closed => closed' /\ Registered' \subseteq Registered /\ units' = units]_vars
  BY CloseStep
<1>2. SemaphoreSound => TypeOK
  BY DEF SemaphoreSound
<1> QED
  BY <1>1, <1>2, SemaphoreInvariant, PTL DEF Spec, CloseIsFinal
=============================================================================

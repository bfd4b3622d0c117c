---------------------------- MODULE PthreadCond ----------------------------
(***************************************************************************)
(* The mutex and the condition variable of userspace/lib/src/              *)
(* posix_pthread.c.  Every atomic access and every system call is a step.  *)
(* The clients are producers and consumers of items: a consumer waits for  *)
(* the condition while there is no item, a producer signals before or      *)
(* after it unlocks.                                                       *)
(***************************************************************************)
EXTENDS Naturals, FiniteSets

CONSTANTS
    Producers, Consumers,
    Timed,          \* the consumers that use pthread_cond_timedwait
    Broadcast,      \* producers use pthread_cond_broadcast
    Quota,          \* Quota[t]: how many items t produces or consumes
    MaxDepth        \* how deep a recursive mutex is locked

AllThreads == Producers \cup Consumers
Nobody == 0

PthreadCondAssumption ==
    /\ Producers \cap Consumers = {} /\ Nobody \notin AllThreads /\ Timed \subseteq Consumers
    /\ Quota \in [AllThreads -> Nat] /\ MaxDepth \in Nat \ {0} /\ Broadcast \in BOOLEAN

VARIABLES
    locked, owner, depth,   \* the mutex, PTHREAD_MUTEX_RECURSIVE
    sequence,               \* the condition variable
    items, left,            \* the items at hand, and what each thread has left to do
    pc, observed,
    then                    \* then[t]: what t does once it has unlocked

vars == <<locked, owner, depth, sequence, items, left, pc, observed, then>>

Init ==
    /\ locked = 0 /\ owner = Nobody /\ depth = 0 /\ sequence = 0 /\ items = 0
    /\ left = Quota
    /\ pc = [t \in AllThreads |-> "idle"]
    /\ observed = [t \in AllThreads |-> 0]
    /\ then = [t \in AllThreads |-> "idle"]

Goto(t, l) == pc' = [pc EXCEPT ![t] = l]

\* srv_futex_wake on the mutex or on the condition: up to one waiter or all of
\* them return into the loop of process_futex_wait, which looks at the word again.
Wake(t, next, parked, round, all) ==
    LET queue == {u \in AllThreads : pc[u] = parked} IN
    \E T \in SUBSET queue :
        /\ IF all \/ queue = {} THEN T = queue ELSE Cardinality(T) = 1
        /\ pc' = [u \in AllThreads |-> IF u = t THEN next ELSE IF u \in T THEN round ELSE pc[u]]

-----------------------------------------------------------------------------
(* pthread_mutex_lock.                                                     *)

lock_start(t) ==
    /\ pc[t] = "idle" /\ left[t] > 0
    /\ Goto(t, "test_locked")
    /\ UNCHANGED <<locked, owner, depth, sequence, items, left, observed, then>>

lock_test_locked(t) ==
    /\ pc[t] = "test_locked"
    /\ Goto(t, IF locked # 0 THEN "test_owner" ELSE "cas")
    /\ UNCHANGED <<locked, owner, depth, sequence, items, left, observed, then>>

lock_test_owner(t) ==
    /\ pc[t] = "test_owner"
    /\ IF owner = t THEN depth' = depth + 1 /\ Goto(t, "critical")
       ELSE Goto(t, "cas") /\ UNCHANGED depth
    /\ UNCHANGED <<locked, owner, sequence, items, left, observed, then>>

\* A mutant: a load and a store instead of one compare-exchange.
lock_cas_split(t) ==
    /\ pc[t] = "cas" /\ locked = 0
    /\ Goto(t, "own") /\ UNCHANGED locked
    /\ UNCHANGED <<owner, depth, sequence, items, left, observed, then>>

lock_cas(t) ==
    /\ pc[t] = "cas"
    /\ IF locked = 0 THEN locked' = 1 /\ Goto(t, "own")
       ELSE Goto(t, "futex") /\ UNCHANGED locked
    /\ UNCHANGED <<owner, depth, sequence, items, left, observed, then>>

\* process_futex_wait on the mutex: it parks in the step that sees the value 1;
\* a changed word, a signal or a full table return to the compare-exchange.
lock_futex(t) ==
    /\ pc[t] = "futex"
    /\ \/ locked = 1 /\ Goto(t, "parked")
       \/ Goto(t, "cas")
    /\ UNCHANGED <<locked, owner, depth, sequence, items, left, observed, then>>

lock_own(t) ==
    /\ pc[t] = "own"
    /\ owner' = t /\ depth' = 1
    /\ Goto(t, "critical")
    /\ UNCHANGED <<locked, sequence, items, left, observed, then>>

-----------------------------------------------------------------------------
(* The clients, with the mutex held.                                       *)

\* A recursive lock of the mutex it holds.
relock(t) ==
    /\ pc[t] = "critical" /\ t \in Producers /\ depth < MaxDepth
    /\ Goto(t, "test_locked")
    /\ UNCHANGED <<locked, owner, depth, sequence, items, left, observed, then>>

\* The item is produced; the condition is signalled while the mutex is held, or
\* after it is released.
produce(t) ==
    /\ pc[t] = "critical" /\ t \in Producers /\ left[t] > 0
    /\ items' = items + 1
    /\ left' = [left EXCEPT ![t] = @ - 1]
    /\ \/ then' = [then EXCEPT ![t] = "idle"] /\ Goto(t, "signal")
       \/ then' = [then EXCEPT ![t] = "signal"] /\ Goto(t, "unlock")
    /\ UNCHANGED <<locked, owner, depth, sequence, observed>>

consume(t) ==
    /\ pc[t] = "critical" /\ t \in Consumers /\ items > 0
    /\ items' = items - 1
    /\ left' = [left EXCEPT ![t] = @ - 1]
    /\ then' = [then EXCEPT ![t] = "idle"] /\ Goto(t, "unlock")
    /\ UNCHANGED <<locked, owner, depth, sequence, observed>>

-----------------------------------------------------------------------------
(* pthread_mutex_unlock.                                                   *)

\* A mutant: the owner is left in place.
unlock_owned(t) ==
    /\ pc[t] = "unlock"
    /\ IF depth > 1 THEN depth' = depth - 1 /\ UNCHANGED pc
       ELSE depth' = 0 /\ Goto(t, "unlock_store")
    /\ UNCHANGED <<locked, owner, sequence, items, left, observed, then>>

\* An inner level of a recursive mutex, or the owner is cleared.
unlock(t) ==
    /\ pc[t] = "unlock"
    /\ IF depth > 1 THEN depth' = depth - 1 /\ UNCHANGED <<owner, pc>>
       ELSE owner' = Nobody /\ depth' = 0 /\ Goto(t, "unlock_store")
    /\ UNCHANGED <<locked, sequence, items, left, observed, then>>

\* A mutant: released without a wake-up.
unlock_silent(t) ==
    /\ pc[t] = "unlock_store"
    /\ locked' = 0 /\ Goto(t, then[t])
    /\ UNCHANGED <<owner, depth, sequence, items, left, observed, then>>

unlock_store(t) ==
    /\ pc[t] = "unlock_store"
    /\ locked' = 0 /\ Goto(t, "unlock_wake")
    /\ UNCHANGED <<owner, depth, sequence, items, left, observed, then>>

unlock_wake(t) ==
    /\ pc[t] = "unlock_wake"
    /\ Wake(t, then[t], "parked", "futex", FALSE)
    /\ UNCHANGED <<locked, owner, depth, sequence, items, left, observed, then>>

-----------------------------------------------------------------------------
(* pthread_cond_wait_until, pthread_cond_signal and pthread_cond_broadcast. *)

\* The sequence is read while the mutex is held.
cond_wait(t) ==
    /\ pc[t] = "critical" /\ t \in Consumers /\ items = 0
    /\ observed' = [observed EXCEPT ![t] = sequence]
    /\ then' = [then EXCEPT ![t] = "cond_test"] /\ Goto(t, "unlock")
    /\ UNCHANGED <<locked, owner, depth, sequence, items, left>>

\* The loop: a changed sequence or a passed deadline ends it.
cond_test(t) ==
    /\ pc[t] = "cond_test"
    /\ \/ sequence # observed[t] /\ Goto(t, "test_locked")
       \/ t \in Timed /\ sequence = observed[t] /\ Goto(t, "test_locked")
       \/ sequence = observed[t] /\ Goto(t, "cond_futex")
    /\ UNCHANGED <<locked, owner, depth, sequence, items, left, observed, then>>

\* process_futex_wait on the sequence.
cond_futex(t) ==
    /\ pc[t] = "cond_futex"
    /\ \/ sequence = observed[t] /\ Goto(t, "cond_parked")
       \/ Goto(t, "cond_test")
    /\ UNCHANGED <<locked, owner, depth, sequence, items, left, observed, then>>

\* The relative deadline of a slice passes.
cond_timeout(t) ==
    /\ pc[t] = "cond_parked" /\ t \in Timed
    /\ Goto(t, "cond_test")
    /\ UNCHANGED <<locked, owner, depth, sequence, items, left, observed, then>>

pthread_cond_signal(t) ==
    /\ pc[t] = "signal"
    /\ sequence' = sequence + 1
    /\ Goto(t, "signal_wake")
    /\ UNCHANGED <<locked, owner, depth, items, left, observed, then>>

\* A mutant: the signal reaches nobody.
signal_wake_none(t) ==
    /\ pc[t] = "signal_wake"
    /\ Goto(t, IF owner = t THEN "unlock" ELSE "idle")
    /\ UNCHANGED <<locked, owner, depth, sequence, items, left, observed, then>>

signal_wake(t) ==
    /\ pc[t] = "signal_wake"
    /\ Wake(t, IF then[t] = "idle" THEN "unlock" ELSE "idle", "cond_parked", "cond_futex", Broadcast)
    /\ UNCHANGED <<locked, owner, depth, sequence, items, left, observed, then>>

Step(t) ==
    \/ lock_start(t) \/ lock_test_locked(t) \/ lock_test_owner(t) \/ lock_cas(t)
    \/ lock_futex(t) \/ lock_own(t) \/ relock(t) \/ produce(t) \/ consume(t)
    \/ unlock(t) \/ unlock_store(t) \/ unlock_wake(t)
    \/ cond_wait(t) \/ cond_test(t) \/ cond_futex(t) \/ cond_timeout(t)
    \/ pthread_cond_signal(t) \/ signal_wake(t)

Next == \E t \in AllThreads : Step(t)

Spec == Init /\ [][Next]_vars

\* The scheduler is round-robin and preemptive: a runnable thread runs again.
FairSpec == Spec /\ \A t \in AllThreads : WF_vars(Step(t))

-----------------------------------------------------------------------------
(* Properties.                                                             *)

Holding(t) == \/ pc[t] \in {"own", "critical", "unlock", "unlock_store"}
              \/ pc[t] \in {"signal", "signal_wake"} /\ then[t] = "idle"
              \/ pc[t] \in {"test_locked", "test_owner"} /\ owner = t

\* The words and what the threads have left are in range.
TypeOK ==
    /\ locked \in {0, 1} /\ owner \in AllThreads \cup {Nobody} /\ depth \in 0..MaxDepth
    /\ \A t \in AllThreads : left[t] \in 0..Quota[t]

\* pthread_mutex_lock excludes: one holder, also across a condition wait.
MutualExclusion ==
    /\ \A t, u \in AllThreads : Holding(t) /\ Holding(u) => t = u
    /\ \A t \in AllThreads : Holding(t) => locked = 1

\* The recursion test is never fooled: the mutex names its holder as owner, and
\* nobody else, from the moment pthread_mutex_lock returns until it is unlocked.
OwnerIsHolder ==
    /\ \A t \in AllThreads : pc[t] \in {"critical", "unlock"} => owner = t
    /\ \A t \in AllThreads : owner = t => Holding(t)

\* No wake-up of the mutex is lost: a thread is parked on a free mutex only while
\* somebody is about to wake it or is awake and competing for it.
MutexNotStranded ==
    (locked = 0 /\ \E t \in AllThreads : pc[t] = "parked")
        => \E u \in AllThreads : pc[u] \in {"unlock_wake", "cas", "futex"}

\* No signal that matters is lost: every producer and consumer gets done, although
\* a signal can reach a consumer that came after it and parks again.
AllServed == <>(\A t \in AllThreads : left[t] = 0 /\ pc[t] = "idle")

\* The mutex excludes, also across condition waits and recursion, and hands itself
\* on to somebody who waits for it.
MutexSound ==
    /\ TypeOK
    /\ MutualExclusion
    /\ OwnerIsHolder
    /\ MutexNotStranded
=============================================================================

----------------------------- MODULE Semaphore -----------------------------
(***************************************************************************)
(* The counting semaphore of kernel/src/semaphore.c.  Every access to it   *)
(* is under lock() (interrupts masked), but semaphore_wait lets go of the  *)
(* lock between registering, testing, and scheduler_wait_timeout, which    *)
(* tests again and blocks under its own mask.  Threads are where           *)
(* semaphore_wait left them:                                               *)
(*   out      not in semaphore_wait                                        *)
(*   loop     registered in s->waiters, about to lock and test             *)
(*   check    found nothing, about to call scheduler_wait_timeout          *)
(*   blocked  on s->queue                                                  *)
(*   refused  scheduler_wait_timeout returned false, about to give up      *)
(***************************************************************************)
EXTENDS Integers, FiniteSets

CONSTANTS Threads, InitialUnits,
          MaxUnits      \* UINT64_MAX

ASSUME SemaphoreAssumption ==
    /\ IsFiniteSet(Threads)
    /\ MaxUnits \in Nat /\ InitialUnits \in 0 .. MaxUnits

VARIABLES units, closed, waiters, pc,
          finite,       \* the threads whose wait has a deadline
          expired       \* those whose deadline has passed
vars == <<units, closed, waiters, pc, finite, expired>>

semaphore_init ==
    /\ units = InitialUnits /\ closed = FALSE /\ waiters = 0
    /\ pc = [t \in Threads |-> "out"] /\ finite = {} /\ expired = {}

Registered == {t \in Threads : pc[t] # "out"}
Blocked == {t \in Threads : pc[t] = "blocked"}

\* A mutant: a unit is handed out although the semaphore is closed.
semaphore_wait_reopened(t) ==
    /\ pc[t] = "out"
    /\ \/ /\ units # 0
          /\ units' = units - 1
          /\ UNCHANGED <<waiters, pc, finite, expired>>
       \/ /\ units = 0
          /\ waiters' = waiters + 1
          /\ pc' = [pc EXCEPT ![t] = "loop"]
          /\ finite' \in {finite, finite \cup {t}}
          /\ UNCHANGED <<units, expired>>
    /\ UNCHANGED closed

\* semaphore_wait up to the registration; a caller that finds the semaphore
\* closed, a unit, or has no time to wait returns at once.
semaphore_wait(t) ==
    /\ pc[t] = "out"
    /\ \/ closed /\ UNCHANGED <<units, waiters, pc, finite, expired>>
       \/ /\ ~closed /\ units # 0
          /\ units' = units - 1
          /\ UNCHANGED <<waiters, pc, finite, expired>>
       \/ /\ ~closed /\ units = 0
          /\ waiters' = waiters + 1
          /\ pc' = [pc EXCEPT ![t] = "loop"]
          /\ finite' \in {finite, finite \cup {t}}
          /\ UNCHANGED <<units, expired>>
    /\ UNCHANGED closed

\* A mutant: the registration outlives the call.
LeaveRegistered(t) ==
    /\ pc' = [pc EXCEPT ![t] = "out"]
    /\ finite' = finite \ {t} /\ expired' = expired \ {t}
    /\ UNCHANGED waiters

\* The end of semaphore_wait: the registration is dropped under the lock.
Leave(t) ==
    /\ waiters' = waiters - 1
    /\ pc' = [pc EXCEPT ![t] = "out"]
    /\ finite' = finite \ {t} /\ expired' = expired \ {t}

\* One pass of the loop: closed, a unit, the deadline, or wait.
Loop(t) ==
    /\ pc[t] = "loop"
    /\ \/ closed /\ Leave(t) /\ UNCHANGED units
       \/ ~closed /\ units # 0 /\ units' = units - 1 /\ Leave(t)
       \/ ~closed /\ units = 0 /\ t \in expired /\ Leave(t) /\ UNCHANGED units
       \/ /\ ~closed /\ units = 0 /\ t \notin expired
          /\ pc' = [pc EXCEPT ![t] = "check"]
          /\ UNCHANGED <<units, waiters, finite, expired>>
    /\ UNCHANGED closed

\* A mutant: the condition is not tested again before the thread blocks.
readyUntested == FALSE

ready == closed \/ units # 0

\* scheduler_wait_timeout: ready again, blocked, or refused because no other
\* thread could run.
scheduler_wait_timeout(t) ==
    /\ pc[t] = "check"
    /\ \E place \in (IF ready THEN {"loop"} ELSE {"blocked", "refused"}) :
          pc' = [pc EXCEPT ![t] = place]
    /\ UNCHANGED <<units, closed, waiters, finite, expired>>

GiveUp(t) ==
    /\ pc[t] = "refused" /\ Leave(t)
    /\ UNCHANGED <<units, closed>>

\* A mutant: the waiters are not woken.
WokenNone(S) == pc

\* Waking puts the threads of S back at the head of their loop.
Woken(S) == [t \in Threads |-> IF t \in S THEN "loop" ELSE pc[t]]

\* One unit, one waiter woken (the scheduler picks it by slot).
semaphore_signal ==
    /\ ~closed /\ units # MaxUnits
    /\ units' = units + 1
    /\ \E S \in SUBSET Blocked :
          /\ Cardinality(S) = IF Blocked = {} THEN 0 ELSE 1
          /\ pc' = Woken(S)
    /\ UNCHANGED <<closed, waiters, finite, expired>>

semaphore_close ==
    /\ ~closed /\ closed' = TRUE
    /\ pc' = Woken(Blocked)
    /\ UNCHANGED <<units, waiters, finite, expired>>

\* The monotonic clock passes the deadline of t.
Expire(t) ==
    /\ t \in finite \ expired
    /\ expired' = expired \cup {t}
    /\ UNCHANGED <<units, closed, waiters, pc, finite>>

\* A mutant: the deadline is lost when the wait is repeated.
wake_expired_waits_lost(t) == FALSE

\* The timer tick of the scheduler wakes t; its due tick is rounded up past end.
wake_expired_waits(t) ==
    /\ pc[t] = "blocked" /\ t \in expired
    /\ pc' = [pc EXCEPT ![t] = "loop"]
    /\ UNCHANGED <<units, closed, waiters, finite, expired>>

Continue(t) == Loop(t) \/ scheduler_wait_timeout(t) \/ GiveUp(t)

Next == \/ \E t \in Threads : \/ semaphore_wait(t) \/ Continue(t)
                              \/ Expire(t) \/ wake_expired_waits(t)
        \/ semaphore_signal \/ semaphore_close

Spec == semaphore_init /\ [][Next]_vars

\* Kernel threads that can run do run, and the clock and its tick advance.
LiveSpec == /\ Spec
            /\ \A t \in Threads : /\ WF_vars(Continue(t)) /\ WF_vars(Expire(t))
                                  /\ WF_vars(wake_expired_waits(t))

-----------------------------------------------------------------------------

TypeOK ==
    /\ units \in 0 .. MaxUnits /\ closed \in BOOLEAN /\ waiters \in Nat
    /\ pc \in [Threads -> {"out", "loop", "check", "blocked", "refused"}]
    /\ finite \subseteq Threads /\ expired \subseteq finite

\* semaphore_drained is an honest answer: s->waiters counts exactly the threads
\* inside semaphore_wait, so a closed semaphore without waiters can be freed.
WaitersExact == waiters = Cardinality(Registered)

\* No unit is stranded: while a thread sleeps on the queue, every available unit
\* is matched by a thread that has been woken and will look for it; and nobody
\* sleeps on a closed semaphore.
NoLostWakeup ==
    Blocked # {} =>
        /\ ~closed
        /\ units <= Cardinality({t \in Threads : pc[t] \in {"loop", "check"}})

\* A closed semaphore stays closed and admits nobody: what semaphore_drained
\* reported can never become false again.
CloseIsFinal == [][closed => closed' /\ Registered' \subseteq Registered /\ units' = units]_vars

\* Closing drains: every thread inside leaves.
CloseDrains == closed ~> waiters = 0

\* A wait with a deadline returns, whoever else takes the units.
FiniteWaitReturns == \A t \in Threads : t \in finite ~> t \notin finite

\* Waiters are counted exactly, so that drained may be believed, and none of them
\* sleeps on a unit or on a close (semaphore_wait against signal and close).
SemaphoreSound ==
    /\ TypeOK
    /\ WaitersExact
    /\ NoLostWakeup

\* A closed semaphore empties, so that its destroyer may go on, and a wait with a
\* deadline returns.
SemaphoreEnds ==
    /\ CloseDrains
    /\ FiniteWaitReturns
=============================================================================

----------------------------- MODULE Workqueue -----------------------------
(***************************************************************************)
(* The deferred-work queue of kernel/src/workqueue.c: a ring of pending    *)
(* (fn, arg) pairs, one worker thread, and requests from any thread or     *)
(* interrupt.  A request stores its item with interrupts masked and wakes  *)
(* the worker after the mask is lifted: in between the caller may be       *)
(* preempted, and a caller whose process was killed is cancelled there by  *)
(* the timer tick.  The worker is an I/O service: while a storage owner    *)
(* has a scope open, the scheduler resumes it only if                      *)
(* workqueue_io_service_ready says that its callback is io-safe.  The      *)
(* scheduler itself is reduced to who has the processor and whether a      *)
(* storage scope is open; the details are in module Scheduler.             *)
(***************************************************************************)
EXTENDS Integers, Sequences

CONSTANTS
    Works,                  \* the (fn, arg) pairs that are scheduled
    SafeFlags,              \* SafeFlags[w]: the io_safe arguments w is scheduled with
    WORKQUEUE_MAX_ITEMS,
    MaxDropped,             \* bound on dropped_count
    MaxCallers              \* bound on the callers between store and wake-up

ASSUME WorkqueueAssumption ==
    /\ WORKQUEUE_MAX_ITEMS \in Nat \ {0}
    /\ MaxDropped \in Nat /\ MaxCallers \in Nat
    /\ SafeFlags \in [Works -> SUBSET BOOLEAN]

NoWork == [fn |-> "none", io_safe |-> FALSE]
Items == [fn : Works, io_safe : BOOLEAN]
Ring == 0 .. WORKQUEUE_MAX_ITEMS - 1

VARIABLES
    items, queue_head, queue_count, dropped_count,
    callback_active, callback_io_safe,
    running,        \* the work whose callback the worker executes
    worker,         \* loop, run, after (callback_active to be cleared) or blocked
    callers,        \* how many have stored an item and not yet woken the worker
    on_cpu,         \* the worker has the processor
    owned,          \* a storage scope is open
    lost,           \* ghost: a caller was cancelled before its wake-up, and nobody
                    \* else woke the worker since it last found the ring empty
    late,           \* ghost: the head was demoted after the worker was admitted
    ordinary        \* ghost: the pending or running works with an ordinary request

vars == <<items, queue_head, queue_count, dropped_count, callback_active,
          callback_io_safe, running, worker, callers, on_cpu, owned, lost, late, ordinary>>
wakeup == <<callers, lost>>
ring == <<items, queue_head, queue_count, dropped_count>>

At(i) == (queue_head + i) % WORKQUEUE_MAX_ITEMS

workqueue_init ==
    /\ items = [i \in Ring |-> NoWork]
    /\ queue_head = 0 /\ queue_count = 0 /\ dropped_count = 0
    /\ callback_active = FALSE /\ callback_io_safe = FALSE
    /\ running = NoWork /\ worker = "loop" /\ callers = 0 /\ on_cpu = FALSE
    /\ owned = FALSE /\ lost = FALSE /\ late = FALSE /\ ordinary = {}

Pending(w) == {i \in 0 .. queue_count - 1 : items[At(i)].fn = w}

\* A mutant: joined work keeps the flag of its first request.
DemoteKept(item, io_safe) == item

Demote(item, io_safe) == [item EXCEPT !.io_safe = @ /\ io_safe]

\* A mutant: the slot after the tail.
TailPast == At(queue_count + 1)

TailSlot == At(queue_count)

Asked(w, io_safe) == IF io_safe THEN ordinary ELSE ordinary \cup {<<"queued", w>>}

\* The masked part of a request, from any thread or interrupt handler, whoever has
\* the processor.
schedule_work(w, io_safe) ==
    /\ \/ \E i \in Pending(w) :
             /\ items' = [items EXCEPT ![At(i)] = Demote(@, io_safe)]
             /\ ordinary' = Asked(w, io_safe)
             /\ late' = (late \/ (i = 0 /\ on_cpu /\ worker = "loop" /\ ~io_safe))
             /\ UNCHANGED <<queue_count, dropped_count, callers>>
       \/ /\ Pending(w) = {} /\ queue_count < WORKQUEUE_MAX_ITEMS
          /\ callers < MaxCallers
          /\ items' = [items EXCEPT ![TailSlot] = [fn |-> w, io_safe |-> io_safe]]
          /\ queue_count' = queue_count + 1
          /\ callers' = callers + 1
          /\ ordinary' = Asked(w, io_safe)
          /\ UNCHANGED <<dropped_count, late>>
       \/ /\ Pending(w) = {} /\ queue_count = WORKQUEUE_MAX_ITEMS
          /\ dropped_count < MaxDropped
          /\ dropped_count' = dropped_count + 1
          /\ UNCHANGED <<items, queue_count, callers, late, ordinary>>
    /\ UNCHANGED <<queue_head, callback_active, callback_io_safe, running, worker, on_cpu,
                   owned, lost>>

\* A mutant: the waiting worker is not woken.
WakeNobody == worker

\* scheduler_wake_all(&wait_queue).
Wake == IF worker = "blocked" THEN "loop" ELSE worker

\* The rest of a request that stored an item, after irq_restore.
WakeWorker ==
    /\ callers > 0 /\ callers' = callers - 1
    /\ worker' = Wake /\ lost' = FALSE
    /\ UNCHANGED <<ring, callback_active, callback_io_safe, running, on_cpu, owned, late, ordinary>>

\* The timer tick cancels a caller of a killed process: process_exit does not return.
CallerCancelled ==
    /\ callers > 0 /\ callers' = callers - 1
    /\ lost' = TRUE
    /\ UNCHANGED <<ring, callback_active, callback_io_safe, running, worker, on_cpu, owned, late,
                   ordinary>>

\* The worker dequeues; NextHead is where the ring continues.
NextHead == (queue_head + 1) % WORKQUEUE_MAX_ITEMS

take_work ==
    /\ on_cpu /\ worker = "loop" /\ queue_count # 0
    /\ callback_active' = TRUE
    /\ callback_io_safe' = items[queue_head].io_safe
    /\ running' = items[queue_head]
    /\ items' = [items EXCEPT ![queue_head] = NoWork]
    /\ queue_head' = NextHead
    /\ queue_count' = queue_count - 1
    /\ worker' = "run"
    /\ ordinary' = {IF x[2] = items[queue_head].fn THEN <<"running", x[2]>> ELSE x :
                      x \in ordinary}
    /\ UNCHANGED <<dropped_count, wakeup, on_cpu, owned, late>>

\* The callback returns.
CallbackReturns ==
    /\ on_cpu /\ worker = "run"
    /\ worker' = "after"
    /\ running' = NoWork
    /\ ordinary' = {x \in ordinary : x[1] = "queued"}
    /\ UNCHANGED <<ring, callback_active, callback_io_safe, wakeup, on_cpu, owned, late>>

\* callback_active is cleared under the mask, then the worker yields.
CallbackDone ==
    /\ on_cpu /\ worker = "after"
    /\ callback_active' = FALSE
    /\ worker' = "loop" /\ on_cpu' = FALSE
    /\ UNCHANGED <<ring, callback_io_safe, running, wakeup, owned, late, ordinary>>

\* scheduler_wait blocks after testing work_pending under the mask.
WorkerWait ==
    /\ on_cpu /\ worker = "loop" /\ queue_count = 0
    /\ worker' = "blocked" /\ on_cpu' = FALSE /\ lost' = FALSE
    /\ UNCHANGED <<ring, callback_active, callback_io_safe, running, callers, owned, late, ordinary>>

workqueue_io_service_ready ==
    IF callback_active THEN callback_io_safe
    ELSE queue_count # 0 /\ items[queue_head].io_safe

\* The scheduler gives the worker the processor, in an owner's service window
\* only if it is eligible.
Resume ==
    /\ ~on_cpu /\ worker # "blocked"
    /\ owned => workqueue_io_service_ready
    /\ on_cpu' = TRUE /\ late' = FALSE
    /\ UNCHANGED <<ring, callback_active, callback_io_safe, running, worker, wakeup, owned, ordinary>>

Preempt ==
    /\ on_cpu /\ on_cpu' = FALSE
    /\ UNCHANGED <<ring, callback_active, callback_io_safe, running, worker, wakeup, owned, late,
                   ordinary>>

\* Another thread opens or closes a storage scope while it has the processor.
scheduler_io_scope ==
    /\ ~on_cpu /\ owned' = ~owned
    /\ UNCHANGED <<ring, callback_active, callback_io_safe, running, worker, wakeup, on_cpu, late,
                   ordinary>>

Next ==
    \/ \E w \in Works : \E safe \in SafeFlags[w] : schedule_work(w, safe)
    \/ WakeWorker \/ CallerCancelled
    \/ take_work \/ CallbackReturns \/ CallbackDone \/ WorkerWait
    \/ Resume \/ Preempt \/ scheduler_io_scope

Spec == workqueue_init /\ [][Next]_vars

\* Callbacks return, callers that are not cancelled go on, owners end their scopes,
\* and the worker gets the processor again and again in between.
Fairness ==
    /\ WF_vars(WakeWorker)
    /\ SF_vars(take_work) /\ SF_vars(CallbackReturns) /\ SF_vars(CallbackDone)
    /\ WF_vars(owned /\ scheduler_io_scope)
    /\ SF_vars(~owned /\ Resume)

LiveSpec == Spec /\ Fairness

-----------------------------------------------------------------------------

TypeOK ==
    /\ items \in [Ring -> Items \cup {NoWork}]
    /\ queue_head \in Ring /\ queue_count \in 0 .. WORKQUEUE_MAX_ITEMS
    /\ dropped_count \in 0 .. MaxDropped
    /\ callback_active \in BOOLEAN /\ callback_io_safe \in BOOLEAN
    /\ running \in Items \cup {NoWork}
    /\ worker \in {"loop", "run", "after", "blocked"}
    /\ callers \in 0 .. MaxCallers /\ lost \in BOOLEAN
    /\ on_cpu \in BOOLEAN /\ owned \in BOOLEAN /\ late \in BOOLEAN
    /\ ordinary \subseteq {"queued", "running"} \X Works

\* The ring is a FIFO with coalescing, whatever the interleaving of requests
\* with take_work: nothing is reordered, duplicated, lost or run twice.
Fifo == INSTANCE WorkFifo WITH
            queue <- [i \in 1 .. queue_count |-> items[At(i - 1)]],
            dropped <- dropped_count
ImplementsFifo == Fifo!Spec

\* What workqueue_io_service_ready guarantees: an ordinary callback executes inside
\* an owner's storage operation only if an ordinary request joined the head between
\* the moment the scheduler admitted the worker for it and take_work.  Work that was
\* ordinary when the worker was admitted stays outside, also when the ordinary
\* request had joined one that was io-safe.  (The comment there, "never run an
\* ordinary callback inside an owner's storage operation", says more than holds.)
OrdinaryOutsideScopes ==
    on_cpu /\ owned /\ running # NoWork => <<"running", running.fn>> \notin ordinary \/ late

\* The worker sleeps on a non-empty ring only while a caller that stored an item is
\* still on its way to scheduler_wake_all, or when such a caller was cancelled there:
\* work_pending is tested under the mask, and everyone who stores wakes.
NoSleepOnWork == worker = "blocked" /\ queue_count # 0 => callers > 0 \/ lost

\* Accepted work is run, although owners keep opening storage scopes, unless the
\* worker is left asleep on it by a caller cancelled between its store and its wake-up.
WorkRuns == \A w \in Works : Pending(w) # {} ~> running.fn = w \/ (worker = "blocked" /\ lost)

\* Ordinary work is admitted to another thread's storage scope by nothing but a late
\* request, and the worker does not sleep on work while nobody is about to wake it,
\* save where the waker was cancelled.
WorkSound ==
    /\ TypeOK
    /\ OrdinaryOutsideScopes
    /\ NoSleepOnWork
=============================================================================

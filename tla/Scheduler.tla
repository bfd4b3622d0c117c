----------------------------- MODULE Scheduler -----------------------------
(***************************************************************************)
(* The CPU0 kernel scheduler of kernel/src/scheduler.c, with the callers   *)
(* that drive it: the syscall entry and exit of arch/x86_64/idt.c and the  *)
(* exit path of process.c.  One processor runs one thread at a time; what  *)
(* interleaves is the current thread, the timer interrupt and device       *)
(* interrupts, and the only exclusion is masking interrupts.  A step of    *)
(* this specification is one interrupt-masked region of the code.          *)
(*                                                                         *)
(* Three mechanisms share the thread records:                              *)
(*   - wait queues: state, wait.on (blocked_queue) and wait.waiters;       *)
(*   - the storage-ownership gate: io (io_owner, io_depth, the private     *)
(*     image) and gate (io_gate_waiting, io_gate_pending, io_gate_cursor); *)
(*   - timer preemption every SCHEDULER_PREEMPT_QUANTUM_TICKS ticks.       *)
(*                                                                         *)
(* pc[t] says what the continuation of thread t is doing:                  *)
(*   kernel    kernel code that never passed the gate                      *)
(*   launch    a bound process that has not entered user mode yet          *)
(*   user      user mode                                                   *)
(*   isr       suspended inside a timer interrupt taken in user mode       *)
(*   safe      an io-safe system call (io_user_safe stays set)             *)
(*   gate      in the loop of scheduler_io_wait, to continue at ret[t]     *)
(*   work      a system call or kernel scope admitted by the gate          *)
(*   handoff   the syscall is unwound, scheduler_io_handoff was called     *)
(*   dying     process_exit, after process_exit_gate                       *)
(*   teardown  process_exit of the initial thread, workers killed          *)
(*   yield     interrupts are on, the next instruction calls               *)
(*             scheduler_yield, which continues at ret[t]                  *)
(*   leave     scheduler_exit_current is next                              *)
(*   gone      io_gate_leave done, THREAD_DEAD not stored yet              *)
(*   dead      the final scheduler_yield loop                              *)
(*   idle      idle_worker                                                 *)
(***************************************************************************)
EXTENDS Integers, FiniteSets

CONSTANTS
    thread_capacity,    \* SCHEDULER_MAX_THREADS of this instance
    Processes,          \* process lifetimes: each is launched once
    Services,           \* I/O services besides idle, spawned at boot
    Killable,           \* the processes that someone kills
    Deadlines,          \* whether ordinary waits have deadlines: {TRUE}, {FALSE} or both
    KernelScopes,       \* whether kernel threads open storage scopes of their own
    MaxIdentity,        \* bound: identities 2 .. MaxIdentity are issued
    MaxDepth,           \* bound on nested scheduler_io_begin
    SCHEDULER_PREEMPT_QUANTUM_TICKS,
    NoProcess

ASSUME SchedulerAssumption ==
    /\ Services \in Nat
    /\ thread_capacity \in Nat /\ thread_capacity > Services + 1
    /\ MaxIdentity \in Nat
    /\ MaxDepth \in Nat \ {0}
    /\ SCHEDULER_PREEMPT_QUANTUM_TICKS \in Nat \ {0}
    /\ NoProcess \notin Processes
    /\ Killable \subseteq Processes /\ Deadlines \subseteq BOOLEAN
    /\ KernelScopes \in BOOLEAN

Slots == 0 .. thread_capacity - 1
\* Boot spawns the idle worker first.
idle_thread == 1
NoQueue == "none"
\* io_waiters, an ordinary queue, and the queue of an I/O service.
Queues == {"io", "q", "svc"}
Signalled == IF Services = 0 THEN {"q"} ELSE {"q", "svc"}
ThreadStates == {"UNUSED", "READY", "RUNNING", "BLOCKED", "QUARANTINED", "DEAD"}
Places == {"kernel", "launch", "user", "isr", "safe", "gate", "work", "handoff",
           "dying", "teardown", "yield", "leave", "gone", "dead", "idle"}

VARIABLES
    state, user, worker, io_user_safe, io_eligible, pc, ret,  \* struct thread
    wait,           \* [on, timed, waiters]: queue membership and deadlines
    gate,           \* [waiting, pending, cursor]
    io,             \* [owner, depth, image]
    current_thread, preempt_tick_accumulator, next_identity,
    event,          \* event[q]: the condition the waiters of q wait for
    life,           \* per process: new, live, killed (killed or exiting set), gone
    halted          \* invalid_user_binding halted the machine

threadVars == <<user, worker, io_user_safe, io_eligible, next_identity>>
vars == <<state, user, worker, io_user_safe, io_eligible, pc, ret, wait, gate,
          io, current_thread, preempt_tick_accumulator, next_identity, event,
          life, halted>>

c == current_thread

-----------------------------------------------------------------------------
(* Helpers on the gate and the wait queues.                                *)

\* A mutant: a request of a thread that already waits is counted again.
io_gate_request_recounts(g, S) ==
    [g EXCEPT !.waiting = @ \cup S, !.pending = @ + Cardinality(S)]

io_gate_request(g, S) ==
    [g EXCEPT !.waiting = @ \cup S, !.pending = @ + Cardinality(S \ g.waiting)]

io_gate_leave(g, S) ==
    [g EXCEPT !.waiting = @ \ S, !.pending = @ - Cardinality(S \cap g.waiting)]

\* A mutant: the queue's count is not taken down.
detach_wait_uncounted(w, S) ==
    [w EXCEPT !.on = [t \in Slots |-> IF t \in S THEN NoQueue ELSE @[t]],
              !.timed = @ \ S]

detach_wait(w, S) ==
    [on |-> [t \in Slots |-> IF t \in S THEN NoQueue ELSE w.on[t]],
     timed |-> w.timed \ S,
     waiters |-> [q \in Queues |->
                    w.waiters[q] - Cardinality({t \in S : w.on[t] = q})]]

Block(w, t, q, timed) ==
    [on |-> [w.on EXCEPT ![t] = q],
     timed |-> IF timed THEN w.timed \cup {t} ELSE w.timed,
     waiters |-> [w.waiters EXCEPT ![q] = @ + 1]]

Killed == {p \in Processes : life[p] = "killed"}

Owns(t) == io.depth # 0 /\ io.owner = t

\* The threads of S, just made READY, that reserve a quiescent turn.
io_ready_request(S, sf) ==
    {t \in S : /\ ~Owns(t)
               /\ IF user[t] # NoProcess THEN t \notin sf ELSE t \notin io_eligible}

\* The eligibility callback: idle always, a service while it has an event.
Eligible(t) == t \in io_eligible /\ (t = idle_thread \/ event["svc"])

\* A mutant: the owner's siblings count as foreign users.
io_thread_allowed_siblings(t, sf) ==
    \/ io.depth = 0
    \/ t = io.owner
    \/ user[t] # NoProcess /\ t \in sf
    \/ user[t] = NoProcess /\ Eligible(t)

io_thread_allowed(t, sf) ==
    \/ io.depth = 0
    \/ t = io.owner
    \/ /\ user[t] # NoProcess
       /\ t \in sf
       /\ user[t] # (IF io.image # NoProcess THEN io.image ELSE user[io.owner])
    \/ user[t] = NoProcess /\ Eligible(t)

\* Threads that has_ready_thread_except(c) accepts, and the READY ones it
\* registers at the gate because it met them, excluded, before the first.
ReadyExcept == {t \in Slots \ {c} : /\ state[t] \in {"READY", "RUNNING"}
                                    /\ io_thread_allowed(t, io_user_safe)}
ExcludedExcept ==
    {t \in Slots \ {c} : /\ state[t] = "READY"
                         /\ ~io_thread_allowed(t, io_user_safe)
                         /\ \A r \in ReadyExcept : t < r}

-----------------------------------------------------------------------------
(* Choosing and switching.                                                 *)

Distance(old, t) == (t + thread_capacity - old - 1) % thread_capacity

Candidates(st, sf) ==
    {t \in Slots \ {idle_thread} : st[t] = "READY" /\ io_thread_allowed(t, sf)}

\* next is what next_ready_thread(c) returns: the first allowed READY thread
\* after c in slot order, c itself last; else c while it is RUNNING; else the
\* idle thread.  The loop also demotes a RUNNING thread other than c, which
\* CpuOwnership shows never exists.
next_ready_thread(next, st, sf) ==
    LET ready == Candidates(st, sf)
        idle == st[idle_thread] \in {"READY", "RUNNING"}
    IN  IF ready # {}
        THEN next \in ready /\ \A t \in ready : Distance(c, next) <= Distance(c, t)
        ELSE next = IF (c # idle_thread /\ st[c] = "RUNNING") \/ ~idle
                    THEN c ELSE idle_thread

\* The excluded READY threads the scan met before it found next.
ScanExcluded(next, st, sf) ==
    {t \in Slots \ {idle_thread} :
        /\ st[t] = "READY"
        /\ ~io_thread_allowed(t, sf)
        /\ Candidates(st, sf) # {} => Distance(c, t) < Distance(c, next)}

\* A mutant: the old thread is made READY whatever its state was.
DemotedAlways(st) == {c}

\* A mutant: the old thread keeps RUNNING.
DemotedNever(st) == {}

\* The thread that yield_to takes from RUNNING to READY.
Demoted(st) == IF st[c] = "RUNNING" THEN {c} ELSE {}

\* The rest of yield_to once next is chosen, from states st and gate g.  When
\* next is the caller it returns at once and leaves the caller's state alone.
SwitchTo(next, st, g, sf) ==
    LET granted == io.depth = 0 /\ next \in g.waiting
        g1 == IF granted THEN [io_gate_leave(g, {next}) EXCEPT !.cursor = next] ELSE g
    IN  /\ current_thread' = next
        /\ IF next = c
           THEN state' = st /\ gate' = g1
           ELSE /\ state' = [t \in Slots |->
                      IF t = next THEN "RUNNING"
                      ELSE IF t \in Demoted(st) THEN "READY" ELSE st[t]]
                /\ gate' = io_gate_request(g1, io_ready_request(Demoted(st), sf))

yield_to(st, g, sf) ==
    \E next \in Slots :
        /\ next_ready_thread(next, st, sf)
        /\ SwitchTo(next, st, io_gate_request(g, ScanExcluded(next, st, sf)), sf)

\* One pass of the loop of scheduler_io_wait by c, whose own interrupt mask
\* covers the blocking and the switch.  place is where it continues when the
\* gate is free; a killed process continues into process_exit instead.
scheduler_io_wait(place, sf) ==
    IF io.depth = 0 \/ io.owner = c
    THEN /\ gate' = io_gate_leave(gate, {c})
         /\ pc' = [pc EXCEPT ![c] = IF user[c] \in Killed THEN "dying" ELSE place]
         /\ ret' = [ret EXCEPT ![c] = "kernel"]
         /\ UNCHANGED <<state, wait, current_thread>>
    ELSE LET g == io_gate_request(gate, {c} \cup ExcludedExcept)
             parks == ReadyExcept # {}
         IN  /\ wait' = IF parks THEN Block(wait, c, "io", FALSE) ELSE wait
             /\ pc' = [pc EXCEPT ![c] = "gate"]
             /\ ret' = [ret EXCEPT ![c] = place]
             /\ yield_to(IF parks THEN [state EXCEPT ![c] = "BLOCKED"] ELSE state, g, sf)

\* The part of wake_count that wakes the threads of S.
Wake(S, g) ==
    /\ state' = [t \in Slots |-> IF t \in S THEN "READY" ELSE state[t]]
    /\ wait' = detach_wait(wait, S)
    /\ gate' = io_gate_request(g, io_ready_request(S, io_user_safe))

Waiters(q) == {t \in Slots : wait.on[t] = q /\ state[t] = "BLOCKED"}

At(place) == ~halted /\ pc[c] = place
AtAny(S) == ~halted /\ pc[c] \in S

-----------------------------------------------------------------------------
(* Boot and thread creation.                                               *)

\* The system once main.c has run scheduler_init, started the idle worker and the
\* I/O services, and enabled the storage gate because the timer ticks.
scheduler_init ==
    /\ state = [t \in Slots |-> IF t = 0 THEN "RUNNING"
                               ELSE IF t \in 1 .. Services + 1 THEN "READY" ELSE "UNUSED"]
    /\ user = [t \in Slots |-> NoProcess]
    /\ worker = {} /\ io_user_safe = {} /\ io_eligible = 1 .. Services + 1
    /\ pc = [t \in Slots |-> IF t = idle_thread THEN "idle" ELSE "kernel"]
    /\ ret = [t \in Slots |-> "kernel"]
    /\ wait = [on |-> [t \in Slots |-> NoQueue], timed |-> {},
               waiters |-> [q \in Queues |-> 0]]
    /\ gate = [waiting |-> {}, pending |-> 0, cursor |-> 0]
    /\ io = [owner |-> 0, depth |-> 0, image |-> NoProcess]
    /\ current_thread = 0 /\ next_identity = Services + 3
    /\ preempt_tick_accumulator = 0
    /\ event = [q \in Queues |-> FALSE]
    /\ life = [p \in Processes |-> "new"] /\ halted = FALSE

\* The record of slot t is overwritten as a whole: a stale gate or queue
\* membership would vanish without being counted down.
spawn_thread(t, place, process) ==
    LET fresh == [gate EXCEPT !.waiting = @ \ {t}]
    IN  /\ next_identity <= MaxIdentity
        /\ t # 0 /\ t # c /\ state[t] \in {"UNUSED", "DEAD"}
        /\ \A s \in Slots \ {0, c} : s < t => state[s] \notin {"UNUSED", "DEAD"}
        /\ next_identity' = next_identity + 1
        /\ state' = [state EXCEPT ![t] = "READY"]
        /\ user' = [user EXCEPT ![t] = process]
        /\ pc' = [pc EXCEPT ![t] = place]
        /\ ret' = [ret EXCEPT ![t] = "kernel"]
        /\ wait' = [wait EXCEPT !.on[t] = NoQueue, !.timed = @ \ {t}]
        /\ IF process = NoProcess
           THEN /\ gate' = io_gate_request(fresh, {t})
                /\ worker' = worker \ {t} /\ io_user_safe' = io_user_safe \ {t}
           ELSE /\ gate' = fresh
                /\ worker' = worker \cup {t} /\ io_user_safe' = io_user_safe \cup {t}
        /\ UNCHANGED <<io_eligible, io, current_thread, preempt_tick_accumulator,
                       event, life, halted>>

scheduler_spawn ==
    /\ AtAny({"kernel", "work"}) /\ c \notin io_eligible /\ ~Owns(c)
    /\ \E t \in Slots : spawn_thread(t, "kernel", NoProcess)

\* The worker is published complete and io-safe, ready to enter user mode.
scheduler_spawn_user_thread ==
    /\ At("work") /\ user[c] # NoProcess /\ state[c] = "RUNNING" /\ ~Owns(c)
    /\ \E t \in Slots : spawn_thread(t, "user", user[c])

-----------------------------------------------------------------------------
(* Waiting and waking.                                                     *)

\* A mutant: the condition is not tested again under the mask.
ConditionUntested(q) == user[c] \in Killed

\* What the caller's condition says: its event, or that its process must exit.
Condition(q) == event[q] \/ user[c] \in Killed

\* scheduler_wait_timeout up to irq_restore, under the mask.  A refusal makes
\* the caller call scheduler_yield itself, so both ends are about to yield.
scheduler_wait_timeout(q, timed) ==
    /\ ~Condition(q)
    /\ gate' = io_gate_request(gate, ExcludedExcept)
    /\ IF ReadyExcept # {}
       THEN /\ state' = [state EXCEPT ![c] = "BLOCKED"]
            /\ wait' = Block(wait, c, q, timed)
       ELSE UNCHANGED <<state, wait>>
    /\ pc' = [pc EXCEPT ![c] = "yield"]
    /\ ret' = [ret EXCEPT ![c] = pc[c]]
    /\ UNCHANGED <<threadVars, io, current_thread,
                   preempt_tick_accumulator, event, life, halted>>

ServiceWait ==
    /\ At("kernel") /\ c \in io_eligible /\ ~Owns(c)
    /\ scheduler_wait_timeout("svc", FALSE)

OrdinaryWait ==
    /\ AtAny({"kernel", "safe", "work"}) /\ c \notin io_eligible /\ ~Owns(c)
    /\ \E timed \in Deadlines : scheduler_wait_timeout("q", timed)

\* The owner waits for a device completion for at most one tick.
scheduler_io_wait_timeout ==
    /\ AtAny({"kernel", "work", "teardown"}) /\ Owns(c)
    /\ scheduler_wait_timeout("q", TRUE)

\* A thread of any kind in scheduler_yield: the window after irq_restore in
\* scheduler_wait_timeout, scheduler_io_yield, or the final loop of a thread.
scheduler_yield ==
    /\ AtAny({"yield", "dead"})
    /\ yield_to(state, gate, io_user_safe)
    /\ IF pc[c] = "dead" THEN UNCHANGED <<pc, ret>>
       ELSE pc' = [pc EXCEPT ![c] = ret[c]] /\ ret' = [ret EXCEPT ![c] = "kernel"]
    /\ UNCHANGED <<threadVars, wait, io, preempt_tick_accumulator,
                   event, life, halted>>

\* Producers, in a thread or in a device interrupt, make the condition true and
\* wake every waiter; scheduler_wake_count(q, 1) wakes the lowest slot.
scheduler_wake_all(q) ==
    /\ ~halted /\ ~event[q]
    /\ event' = [event EXCEPT ![q] = TRUE]
    /\ Wake(Waiters(q), gate)
    /\ UNCHANGED <<threadVars, pc, ret, io, current_thread,
                   preempt_tick_accumulator, life, halted>>

scheduler_wake_count(q) ==
    /\ ~halted
    /\ \E t \in Waiters(q) :
          /\ \A s \in Waiters(q) : t <= s
          /\ Wake({t}, gate)
    /\ UNCHANGED <<threadVars, pc, ret, io, current_thread,
                   preempt_tick_accumulator, event, life, halted>>

\* A woken waiter finds its condition true and consumes it.
Consume ==
    /\ AtAny({"kernel", "safe", "work"})
    /\ \E q \in Signalled :
          /\ event[q] /\ (q = "svc" <=> c \in io_eligible)
          /\ event' = [event EXCEPT ![q] = FALSE]
    /\ UNCHANGED <<state, threadVars, pc, ret, wait, gate, io,
                   current_thread, preempt_tick_accumulator, life, halted>>

idle_step ==
    /\ At("idle")
    /\ gate' = io_gate_request(gate, ExcludedExcept)
    /\ IF ReadyExcept # {}
       THEN pc' = [pc EXCEPT ![c] = "yield"] /\ ret' = [ret EXCEPT ![c] = "idle"]
       ELSE UNCHANGED <<pc, ret>>
    /\ UNCHANGED <<state, threadVars, wait, io, current_thread,
                   preempt_tick_accumulator, event, life, halted>>

-----------------------------------------------------------------------------
(* The storage-ownership gate.                                             *)

Begin(image) ==
    /\ io' = IF io.depth = 0 THEN [owner |-> c, depth |-> 1, image |-> image]
             ELSE [io EXCEPT !.depth = @ + 1]
    /\ UNCHANGED <<state, threadVars, pc, ret, wait, gate, current_thread,
                   preempt_tick_accumulator, event, life, halted>>

scheduler_io_begin ==
    /\ AtAny({"kernel", "work", "teardown"})
    /\ pc[c] = "kernel" => KernelScopes
    /\ io.depth = 0 \/ (io.owner = c /\ io.depth < MaxDepth)
    /\ Begin(NoProcess)

scheduler_io_begin_process_image ==
    /\ At("work") /\ io.depth = 0 /\ user[c] # NoProcess /\ state[c] = "RUNNING"
    /\ \E image \in Processes \ {user[c]} :
          /\ \A t \in Slots : user[t] = image => state[t] \in {"UNUSED", "DEAD"}
          /\ Begin(image)

scheduler_io_end ==
    /\ AtAny({"kernel", "work", "teardown"}) /\ Owns(c)
    /\ IF io.depth > 1
       THEN io' = [io EXCEPT !.depth = @ - 1] /\ UNCHANGED <<state, wait, gate>>
       ELSE LET S == Waiters("io") IN
            /\ io' = [owner |-> 0, depth |-> 0, image |-> NoProcess]
            /\ state' = [t \in Slots |-> IF t \in S THEN "READY" ELSE state[t]]
            /\ wait' = detach_wait(wait, S)
            /\ gate' = io_gate_request(gate, {t \in S :
                  IF user[t] # NoProcess THEN t \notin io_user_safe ELSE t \notin io_eligible})
    /\ UNCHANGED <<threadVars, pc, ret, current_thread,
                   preempt_tick_accumulator, event, life, halted>>

\* A service window: interrupts on, scheduler_yield, interrupts off again.
scheduler_io_yield ==
    /\ AtAny({"kernel", "work", "teardown"}) /\ Owns(c)
    /\ pc' = [pc EXCEPT ![c] = "yield"]
    /\ ret' = [ret EXCEPT ![c] = pc[c]]
    /\ UNCHANGED <<state, threadVars, wait, gate, io, current_thread,
                   preempt_tick_accumulator, event, life, halted>>

scheduler_io_request_turn ==
    /\ At("safe") /\ io.depth # 0 /\ io.owner # c /\ state[c] = "RUNNING"
    /\ gate' = io_gate_request(gate, {c})
    /\ UNCHANGED <<state, threadVars, pc, ret, wait, io, current_thread,
                   preempt_tick_accumulator, event, life, halted>>

\* A kernel scope such as the monitor's passes the gate before it begins.
KernelGate ==
    /\ KernelScopes /\ At("kernel") /\ c \notin io_eligible /\ ~Owns(c)
    /\ scheduler_io_wait("work", io_user_safe)
    /\ UNCHANGED <<threadVars, io, preempt_tick_accumulator, event,
                   life, halted>>

\* A thread parked in scheduler_io_wait resumes and tests the gate again.
GateRetry ==
    /\ At("gate")
    /\ scheduler_io_wait(ret[c], io_user_safe)
    /\ UNCHANGED <<threadVars, io, preempt_tick_accumulator, event,
                   life, halted>>

-----------------------------------------------------------------------------
(* System calls: dispatch_syscall_with_cancellation.                       *)

\* The gate as a system call takes it: io_user_safe is cleared first, under the
\* mask of the interrupt gate.
Gated(place) ==
    /\ io_user_safe' = io_user_safe \ {c}
    /\ scheduler_io_wait(place, io_user_safe \ {c})
    /\ UNCHANGED <<user, worker, io_eligible, next_identity, io,
                   preempt_tick_accumulator, event, life, halted>>

\* A gated call enters, or an io-safe one finds that it needs the gate.
SyscallGated == AtAny({"user", "safe"}) /\ Gated("work")

SyscallSafe ==
    /\ At("user") /\ user[c] \notin Killed
    /\ pc' = [pc EXCEPT ![c] = "safe"]
    /\ UNCHANGED <<state, threadVars, ret, wait, gate, io, current_thread,
                   preempt_tick_accumulator, event, life, halted>>

\* Returning to user mode: a killed process exits instead.
ReturnToUser ==
    /\ AtAny({"safe", "handoff", "isr", "launch"}) /\ user[c] # NoProcess
    /\ IF pc[c] \in {"safe", "handoff"} /\ user[c] \in Killed
       THEN Gated("dying")
       ELSE /\ io_user_safe' = io_user_safe \cup {c}
            /\ pc' = [pc EXCEPT ![c] = "user"]
            /\ UNCHANGED <<state, user, worker, io_eligible, next_identity, ret, wait,
                           gate, io, current_thread, preempt_tick_accumulator,
                           event, life, halted>>

\* A mutant: the handoff prefers nobody.
HandoffTargetNone(t) == FALSE

\* The READY gate waiter scheduler_io_handoff prefers: the first one after the
\* last admitted waiter.
HandoffTarget(t) ==
    LET ready == {s \in gate.waiting : state[s] = "READY"}
    IN  t \in ready /\ \A s \in ready : Distance(gate.cursor, t) <= Distance(gate.cursor, s)

\* A gated call is unwound: hand the processor to a gate waiter, marked safe.
scheduler_io_handoff ==
    /\ At("work") /\ user[c] # NoProcess /\ ~Owns(c) /\ user[c] \notin Killed
    /\ io_user_safe' = io_user_safe \cup {c}
    /\ pc' = [pc EXCEPT ![c] = "handoff"]
    /\ IF /\ io.depth = 0 /\ gate.pending # 0
          /\ state[c] = "RUNNING" /\ \E t \in Slots \ {c} : HandoffTarget(t)
       THEN \E t \in Slots \ {c} :
              HandoffTarget(t) /\ SwitchTo(t, state, gate, io_user_safe \cup {c})
       ELSE UNCHANGED <<state, gate, current_thread>>
    /\ UNCHANGED <<user, worker, io_eligible, next_identity, ret, wait, io,
                   preempt_tick_accumulator, event, life, halted>>

\* A killed process exits when its gated call unwinds; a kernel scope returns.
WorkDone ==
    /\ At("work") /\ ~Owns(c)
    /\ \/ user[c] \in Killed /\ Gated("dying")
       \/ /\ user[c] = NoProcess
          /\ pc' = [pc EXCEPT ![c] = "kernel"]
          /\ UNCHANGED <<state, threadVars, ret, wait, gate, io,
                         current_thread, preempt_tick_accumulator, event, life,
                         halted>>

-----------------------------------------------------------------------------
(* Binding a process, killing and exiting.                                 *)

\* Both bind_user_context and scheduler_clear_user_context halt the machine
\* unless the caller is RUNNING and no other thread owns storage.
BindingValid == state[c] = "RUNNING" /\ (io.depth = 0 \/ io.owner = c)

invalid_user_binding ==
    /\ halted' = TRUE
    /\ UNCHANGED <<state, threadVars, pc, ret, wait, gate, io,
                   current_thread, preempt_tick_accumulator, event, life>>

\* A kernel thread launches process p (enter_process).
bind_user_context(p) ==
    /\ At("kernel") /\ c \notin io_eligible /\ ~Owns(c)
    /\ life[p] = "new"
    /\ IF ~BindingValid THEN invalid_user_binding
       ELSE /\ user' = [user EXCEPT ![c] = p]
            /\ life' = [life EXCEPT ![p] = "live"]
            /\ io_user_safe' = io_user_safe \ {c}
            /\ pc' = [pc EXCEPT ![c] = "launch"]
            /\ UNCHANGED <<state, worker, io_eligible, next_identity, ret, wait, gate, io,
                           current_thread, preempt_tick_accumulator, event, halted>>

\* process_kill_pid from kernel code: the flag, then every queue it may be on.
process_kill(p) ==
    /\ AtAny({"kernel", "work"}) /\ c \notin io_eligible
    /\ p \in Killable /\ life[p] = "live"
    /\ life' = [life EXCEPT ![p] = "killed"]
    /\ Wake(Waiters("q"), gate)
    /\ UNCHANGED <<threadVars, pc, ret, io, current_thread,
                   preempt_tick_accumulator, event, halted>>

\* SYS_EXIT from user mode: process_exit_gate.
process_exit_gate == At("user") /\ Gated("dying")

\* The fields scheduler_clear_user_context clears in the current record.
ClearCurrent(place) ==
    /\ user' = [user EXCEPT ![c] = NoProcess]
    /\ worker' = worker \ {c}
    /\ io_user_safe' = io_user_safe \ {c}
    /\ pc' = [pc EXCEPT ![c] = place]
    /\ UNCHANGED <<io_eligible, next_identity, ret, io, current_thread,
                   preempt_tick_accumulator, event, halted>>

\* A worker leaves alone (process_thread_exit) or takes its process down
\* (process_exit), waking the siblings that wait for it.
process_thread_exit ==
    /\ AtAny({"work", "dying"}) /\ c \in worker
    /\ pc[c] = "work" => ~Owns(c)
    /\ IF ~BindingValid THEN invalid_user_binding
       ELSE /\ ClearCurrent("leave")
            /\ life' = IF pc[c] = "dying" THEN [life EXCEPT ![user[c]] = "killed"] ELSE life
            /\ Wake(Waiters("q"), gate)

\* process_exit of the initial thread kills the workers of its process.
scheduler_kill_user_threads ==
    LET S == {t \in worker : user[t] = user[c] /\ state[t] \notin {"UNUSED", "DEAD"}}
    IN  /\ At("dying") /\ c \notin worker
        /\ wait' = detach_wait(wait, S)
        /\ gate' = io_gate_leave(gate, S)
        /\ user' = [t \in Slots |-> IF t \in S THEN NoProcess ELSE user[t]]
        /\ worker' = worker \ S
        /\ state' = [t \in Slots |-> IF t \in S THEN "DEAD" ELSE state[t]]
        /\ pc' = [t \in Slots |-> IF t \in S THEN "dead"
                                  ELSE IF t = c THEN "teardown" ELSE pc[t]]
        /\ ret' = [t \in Slots |-> IF t \in S THEN "kernel" ELSE ret[t]]
        /\ UNCHANGED <<io_user_safe, io_eligible, next_identity, io, current_thread,
                       preempt_tick_accumulator, event, life, halted>>

\* The files are closed; the kernel continuation of enter_process resumes.
scheduler_clear_user_context ==
    /\ At("teardown") /\ ~Owns(c)
    /\ IF ~BindingValid THEN invalid_user_binding
       ELSE /\ ClearCurrent("kernel")
            /\ life' = [life EXCEPT ![user[c]] = "gone"]
            /\ UNCHANGED <<state, wait, gate>>

\* The thread function returns, or scheduler_exit_current: the gate is left and
\* THREAD_DEAD stored with interrupts on in between.
scheduler_exit_current ==
    /\ AtAny({"kernel", "leave"})
    /\ pc[c] = "kernel" => c \notin io_eligible /\ c # 0 /\ ~Owns(c)
    /\ gate' = io_gate_leave(gate, {c})
    /\ pc' = [pc EXCEPT ![c] = "gone"]
    /\ UNCHANGED <<state, threadVars, ret, wait, io, current_thread,
                   preempt_tick_accumulator, event, life, halted>>

StoreDead ==
    /\ At("gone")
    /\ state' = [state EXCEPT ![c] = "DEAD"]
    /\ pc' = [pc EXCEPT ![c] = "dead"]
    /\ UNCHANGED <<threadVars, ret, wait, gate, io, current_thread,
                   preempt_tick_accumulator, event, life, halted>>

\* Two I/O services, current one included or both suspended, leave scheduling
\* for good; validation precedes every store.
quarantine_pair(a, b) ==
    LET pair == {a, b}
        parked(t) == t # c /\ state[t] \in {"READY", "BLOCKED"}
    IN  /\ AtAny({"kernel", "work"}) /\ state[c] = "RUNNING"
        /\ a # b /\ pair \subseteq io_eligible \ {0, idle_thread}
        /\ state[idle_thread] \in {"READY", "RUNNING"}
        /\ a = c \/ parked(a)
        /\ parked(b)
        /\ ~Owns(a) /\ ~Owns(b)
        /\ wait' = detach_wait(wait, pair)
        /\ gate' = io_gate_leave(gate, pair)
        /\ io_eligible' = io_eligible \ pair
        /\ state' = [t \in Slots |-> IF t \in pair THEN "QUARANTINED" ELSE state[t]]
        /\ pc' = [t \in Slots |-> IF t \in pair THEN "dead" ELSE pc[t]]
        /\ ret' = [t \in Slots |-> IF t \in pair THEN "kernel" ELSE ret[t]]
        /\ UNCHANGED <<user, worker, io_user_safe, next_identity, io, current_thread,
                       preempt_tick_accumulator, event, life, halted>>

-----------------------------------------------------------------------------
(* The timer interrupt.                                                    *)

\* Where interrupts are on.  An owner runs masked except in its windows.
Interruptible ==
    \/ pc[c] \in {"launch", "user", "safe", "yield", "leave", "gone", "dead", "idle"}
    \/ pc[c] \in {"kernel", "work"} /\ ~Owns(c)

\* A mutant: cancellation does not wait for the end of an owned scope.
CancelledAnywhere == user[c] \in Killed

\* The interrupted process exits from the tick, but never inside an owned scope.
Cancelled == io.depth = 0 /\ user[c] \in Killed

\* A mutant: the quantum is never restarted.
NextAccumulatorKept == preempt_tick_accumulator + 1

NextAccumulator == (preempt_tick_accumulator + 1) % SCHEDULER_PREEMPT_QUANTUM_TICKS

\* scheduler_preempt_tick.  expired is the set of waiters whose deadline has
\* passed.  A tick taken in user mode runs with io_user_safe cleared, so a user
\* thread that is preempted by it stays unsafe until it returns (place isr).
scheduler_preempt_tick ==
    \E expired \in SUBSET {t \in wait.timed : state[t] = "BLOCKED"} :
        LET st == [t \in Slots |-> IF t \in expired THEN "READY" ELSE state[t]]
            sf == IF pc[c] = "user" THEN io_user_safe \ {c} ELSE io_user_safe
            g == io_gate_request(gate, io_ready_request(expired, sf))
        IN  /\ ~halted /\ Interruptible
            /\ wait' = detach_wait(wait, expired)
            /\ \/ \* cancellation: process_exit from the interrupt
                  /\ Cancelled
                  /\ state' = st
                  /\ gate' = io_gate_leave(g, {c})
                  /\ io_user_safe' = io_user_safe \ {c}
                  /\ pc' = [pc EXCEPT ![c] = "dying"]
                  /\ ret' = [ret EXCEPT ![c] = "kernel"]
                  /\ UNCHANGED <<current_thread, preempt_tick_accumulator>>
               \/ /\ ~Cancelled
                  /\ UNCHANGED ret
                  /\ preempt_tick_accumulator' = NextAccumulator
                  /\ IF preempt_tick_accumulator' # 0
                     THEN /\ state' = st /\ gate' = g
                          /\ UNCHANGED <<current_thread, io_user_safe, pc>>
                     ELSE /\ yield_to(st, g, sf)
                          /\ IF pc[c] = "user" /\ current_thread' # c
                             THEN io_user_safe' = sf /\ pc' = [pc EXCEPT ![c] = "isr"]
                             ELSE UNCHANGED <<io_user_safe, pc>>
            /\ UNCHANGED <<user, worker, io_eligible, next_identity, io, event,
                           life, halted>>

\* halt_forever.
Halted == halted /\ UNCHANGED vars

Spawns == scheduler_spawn \/ scheduler_spawn_user_thread

Waiting == \/ ServiceWait \/ OrdinaryWait \/ scheduler_io_wait_timeout
           \/ scheduler_yield \/ Consume \/ idle_step
           \/ \E q \in Signalled : scheduler_wake_all(q) \/ scheduler_wake_count(q)

Gate == \/ scheduler_io_begin \/ scheduler_io_begin_process_image
        \/ scheduler_io_end \/ scheduler_io_yield \/ scheduler_io_request_turn
        \/ KernelGate \/ GateRetry \/ scheduler_io_handoff

Syscalls == SyscallGated \/ SyscallSafe \/ ReturnToUser \/ WorkDone

Exits == \/ \E p \in Processes : bind_user_context(p) \/ process_kill(p)
         \/ process_exit_gate \/ process_thread_exit
         \/ scheduler_kill_user_threads \/ scheduler_clear_user_context
         \/ scheduler_exit_current \/ StoreDead
         \/ \E a, b \in Slots : quarantine_pair(a, b)

Next == Spawns \/ Waiting \/ Gate \/ Syscalls \/ Exits \/ scheduler_preempt_tick \/ Halted

Spec == scheduler_init /\ [][Next]_vars

\* A thread that keeps getting the processor keeps executing: it leaves windows,
\* interrupts and the gate, ends its storage scopes and unwinds its calls; and a
\* timer interrupt that is pending is taken where interrupts are on.
MustStep == \/ scheduler_yield \/ GateRetry \/ idle_step \/ StoreDead
            \/ ReturnToUser \/ scheduler_kill_user_threads
            \/ pc[c] = "dying" /\ process_thread_exit
            \/ pc[c] = "leave" /\ scheduler_exit_current

Fairness ==
    /\ SF_vars(scheduler_preempt_tick)
    /\ SF_vars(scheduler_io_end)
    /\ \A t \in Slots : /\ SF_vars(c = t /\ MustStep)
                        /\ SF_vars(c = t /\ (\/ scheduler_io_handoff \/ WorkDone
                                             \/ scheduler_clear_user_context))

LiveSpec == Spec /\ Fairness

-----------------------------------------------------------------------------
(* Properties.                                                             *)

TypeOK ==
    /\ state \in [Slots -> ThreadStates]
    /\ user \in [Slots -> Processes \cup {NoProcess}]
    /\ worker \subseteq Slots /\ io_user_safe \subseteq Slots
    /\ io_eligible \subseteq Slots
    /\ pc \in [Slots -> Places] /\ ret \in [Slots -> Places]
    /\ wait \in [on : [Slots -> Queues \cup {NoQueue}], timed : SUBSET Slots,
                 waiters : [Queues -> Int]]
    /\ gate \in [waiting : SUBSET Slots, pending : Int, cursor : Slots]
    /\ io \in [owner : Slots, depth : 0 .. MaxDepth, image : Processes \cup {NoProcess}]
    /\ current_thread \in Slots /\ next_identity \in Nat
    /\ preempt_tick_accumulator \in 0 .. SCHEDULER_PREEMPT_QUANTUM_TICKS - 1
    /\ event \in [Queues -> BOOLEAN] /\ life \in [Processes -> {"new", "live", "killed", "gone"}]
    /\ halted \in BOOLEAN

Live(t) == state[t] \in {"READY", "RUNNING", "BLOCKED"}

\* io_gate_pending counts exactly the records with io_gate_waiting, through
\* requests from scans, wakeups and demotions, grants, kills, quarantine and the
\* overwriting of a reused slot; and only live threads hold a reservation.
GateAccounting ==
    /\ gate.pending = Cardinality(gate.waiting)
    /\ \A t \in gate.waiting : Live(t)

\* queue->waiters counts exactly the threads blocked on the queue, and a thread
\* is on a queue exactly while it is BLOCKED, whoever wakes, expires or kills it.
WaitAccounting ==
    /\ \A q \in Queues : wait.waiters[q] = Cardinality({t \in Slots : wait.on[t] = q})
    /\ \A t \in Slots : wait.on[t] # NoQueue <=> state[t] = "BLOCKED"

\* Only the current thread is RUNNING, and no thread that is UNUSED holds the CPU.
CpuOwnership ==
    /\ \A t \in Slots : state[t] = "RUNNING" => t = current_thread
    /\ state[current_thread] # "UNUSED"

\* What a thread is doing, also while it is in a yield window.
Doing(t) == IF pc[t] = "yield" THEN ret[t] ELSE pc[t]

\* While a thread owns storage nothing else executes kernel code that the gate
\* admits, and no thread of the owner's process (or of the image being built)
\* runs at all: service windows run only safe foreign users and services.
IoExclusion ==
    io.depth # 0 /\ current_thread # io.owner =>
        /\ Doing(current_thread) \notin {"work", "dying", "teardown"}
        /\ Doing(current_thread) \in {"kernel", "launch", "leave", "gone"}
              => current_thread \in io_eligible
        /\ user[current_thread] # NoProcess =>
              user[current_thread] # (IF io.image # NoProcess THEN io.image
                                      ELSE user[io.owner])

\* The owner of a scope stays alive to end it: exit, kill and cancellation wait
\* for the gate.
OwnerAlive == io.depth # 0 => Live(io.owner)

\* No waiter sleeps through its condition: nobody is BLOCKED on a queue whose
\* event has been signalled, nobody is parked at a free gate or its own.
NoLostWakeup ==
    \A t \in Slots :
        /\ wait.on[t] \in {"q", "svc"} => ~event[wait.on[t]]
        /\ wait.on[t] = "io" => io.depth # 0 /\ io.owner # t

\* A quarantined service never runs again and its slot is never reused.
QuarantineIsFinal ==
    [][\A t \in DOMAIN state : state[t] = "QUARANTINED" => state'[t] = "QUARANTINED"]_vars

\* A thread parked at the storage gate is eventually admitted, even against a
\* process that never stops writing: the handoff at the end of a gated call gives
\* gate waiters a quiescent turn in cursor order.  A writer that runs with its
\* record left READY (see BinderIsRunning) skips its handoff and is exempt.
GateProgress ==
    \A t \in Slots : pc[t] = "gate" ~>
        pc[t] # "gate" \/ halted \/ state[current_thread] = "READY"

\* The assertion in bind_user_context and scheduler_clear_user_context: the
\* thread that binds or clears its user context is RUNNING.
BinderIsRunning == ~halted

\* The scheduler's own books agree with the threads: what it counts and marks is
\* what is there (reservations of the gate, waiters of every queue, the one thread
\* that has the processor); storage has one owner, that lives to give it up, and
\* nobody else is inside (scheduler_io_begin, io_thread_allowed, kill and exit);
\* and nobody sleeps through the event it waits for (scheduler_wait_queue_*).
SchedulerSound ==
    /\ TypeOK
    /\ GateAccounting
    /\ WaitAccounting
    /\ CpuOwnership
    /\ IoExclusion
    /\ OwnerAlive
    /\ NoLostWakeup
=============================================================================

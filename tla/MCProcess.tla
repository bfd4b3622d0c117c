----------------------------- MODULE MCProcess -----------------------------
(***************************************************************************)
(* What happens to processes.  table: the process table with two slots,    *)
(* which are used again by later pids.  signals: the signals of a process  *)
(* with its initial thread and a worker slot.  cpu: the scheduler with two *)
(* processes, worker threads, kills, deadlines and kernel storage scopes   *)
(* on three thread slots.  They share no state here: part picks the one    *)
(* that moves, so that TLC explores the union of their state spaces.       *)
(***************************************************************************)
EXTENDS ProcessTable, TLC

CONSTANTS p1, p2, NoProcess

VARIABLES
    part,
    state, creator, action, mask, local, shared, sig_killed, raw,
    thread, user, worker, io_user_safe, io_eligible, pc, ret, queues, gate, io,
    current_thread, preempt_tick_accumulator, next_identity, event, lives, halted

Sig == INSTANCE Signals WITH
    Main <- "main", Workers <- {"worker"}, Fatal <- {"term"}, Ignored <- {"chld"},
    Kill <- "kill", killed <- sig_killed

Cpu == INSTANCE Scheduler WITH
    thread_capacity <- 3, Services <- 0, Processes <- {p1, p2}, Killable <- {p1, p2},
    Deadlines <- BOOLEAN, KernelScopes <- TRUE, MaxIdentity <- 3, MaxDepth <- 2,
    SCHEDULER_PREEMPT_QUANTUM_TICKS <- 1, state <- thread,
    wait <- queues, life <- lives

ASSUME Sig!SignalsAssumption

sigVars == <<state, creator, action, mask, local, shared, sig_killed, raw>>
cpuVars == <<thread, user, worker, io_user_safe, io_eligible, pc, ret, queues, gate, io,
             current_thread, preempt_tick_accumulator, next_identity, event, lives, halted>>
allVars == <<part, vars, sigVars, cpuVars>>

\* The two processes of the scheduler are alike; the others do not use them.
Symmetric == Permutations({p1, p2})

\* The signal component is at rest in one of its initial states.
InitAll ==
    /\ part \in {"table", "signals", "cpu"} /\ Init /\ Sig!Init /\ Cpu!scheduler_init
    /\ part # "signals" => /\ mask = [t \in {"main", "worker"} |-> {}]
                           /\ action = [s \in {"term", "chld"} |-> "default"]

NextAll ==
    \/ part = "table" /\ Next /\ UNCHANGED <<part, sigVars, cpuVars>>
    \/ part = "signals" /\ Sig!Next /\ UNCHANGED <<part, vars, cpuVars>>
    \/ part = "cpu" /\ Cpu!Next /\ UNCHANGED <<part, vars, sigVars>>

SpecAll == InitAll /\ [][NextAll]_allVars

-----------------------------------------------------------------------------
(* The properties of ProcessTable, and those of the two other components.  *)

\* process_signal_*: fatal signals act at once, ignored ones interrupt nobody, save
\* what the mask that spawn stored leaves to the first mask call.
SignalsAct == Sig!SignalsAct

\* scheduler.c with worker threads, whose slots are used again after an exit:
\* its books agree with the threads, storage has one live owner, no wake-up is lost.
WorkersSound == Cpu!SchedulerSound
=============================================================================

---------------------------- MODULE MCProgress ----------------------------
(***************************************************************************)
(* Calls that block, and what makes them return: a read-write lock with    *)
(* three threads, a condition variable with a producer and two consumers,  *)
(* pthread_once with nested initializers, a pipe shorter than the writes   *)
(* into it, the drain of a kernel lifetime, and the retirement of network  *)
(* providers: a card with two registrations of one context and another     *)
(* card.  They share no state: part picks the one that moves, so that TLC  *)
(* explores the union of their state spaces.                               *)
(***************************************************************************)
EXTENDS NetDevice

VARIABLES
    part,
    state, pc, seen, kind, left,
    locked, owner, depth, sequence, items, still, at, observed, then,
    control, place, target, frames, runs,
    files, generations, pipes, th, stream, made, writes, retired, foreign,
    phase, pid, parent, detached, killed, lifetime, scope, claims, cancel, wait,
    asleep, life, next_pid, next_lifetime, system_reaper_pid, appointed

MCContextOf == [p \in {"usbA", "usbB", "pci"} |-> IF p = "pci" THEN "c2" ELSE "c1"]
MCPriority == [p \in {"usbA", "usbB", "pci"} |-> IF p = "usbB" THEN 1 ELSE 2]

Rwlock == INSTANCE PthreadRwlock WITH Threads <- {1, 2, 3}, Rounds <- 1

Cond == INSTANCE PthreadCond WITH
    Producers <- {1}, Consumers <- {3, 4}, Timed <- {}, Broadcast <- FALSE,
    Quota <- [t \in {1, 3, 4} |-> IF t = 1 THEN 2 ELSE 1], MaxDepth <- 1,
    left <- still, pc <- at

Once == INSTANCE PthreadOnce WITH
    Threads <- {1, 2}, Controls <- {1, 2}, pc <- place

Pipe == INSTANCE Pipe WITH
    Threads <- {1, 2}, Fds <- {0, 1}, Pipes <- {1}, PROCESS_PIPE_CAPACITY <- 2,
    SRV_PIPE_BUF <- 1, MaxGeneration <- 2, Lengths <- {1, 3}, MaxWrites <- 1,
    MaxPipes <- 1, MaxRetired <- 1

Table == INSTANCE ProcessTable WITH
    PROCESS_MAX_PROCESSES <- 2, MaxPid <- 2, MaxToken <- 1, KernelPids <- {1},
    Foreground <- FALSE, Creators <- {"kernel"}

ASSUME Rwlock!PthreadRwlockAssumption /\ Cond!PthreadCondAssumption /\ Pipe!PipeAssumption

rwlockVars == <<state, pc, seen, kind, left>>
condVars == <<locked, owner, depth, sequence, items, still, at, observed, then>>
onceVars == <<control, place, target, frames, runs>>
pipeVars == <<files, generations, pipes, th, stream, made, writes, retired, foreign>>
tableVars == <<phase, pid, parent, detached, killed, lifetime, scope, claims, cancel, wait,
               asleep, life, next_pid, next_lifetime, system_reaper_pid, appointed>>
allVars == <<part, vars, rwlockVars, condVars, onceVars, pipeVars, tableVars>>

DeviceMoves(A) == part = "device" /\ A /\ UNCHANGED <<part, rwlockVars, condVars, onceVars, pipeVars, tableVars>>
RwlockMoves(A) == part = "rwlock" /\ A /\ UNCHANGED <<part, vars, condVars, onceVars, pipeVars, tableVars>>
CondMoves(A) == part = "cond" /\ A /\ UNCHANGED <<part, vars, rwlockVars, onceVars, pipeVars, tableVars>>
OnceMoves(A) == part = "once" /\ A /\ UNCHANGED <<part, vars, rwlockVars, condVars, pipeVars, tableVars>>
PipeMoves(A) == part = "pipe" /\ A /\ UNCHANGED <<part, vars, rwlockVars, condVars, onceVars, tableVars>>
TableMoves(A) == part = "table" /\ A /\ UNCHANGED <<part, vars, rwlockVars, condVars, onceVars, pipeVars>>

InitAll ==
    /\ part \in {"device", "rwlock", "cond", "once", "pipe", "table"}
    /\ Init /\ Rwlock!Init /\ Cond!Init /\ Once!Init /\ Pipe!Init /\ Table!Init

NextAll ==
    \/ DeviceMoves(Next) \/ RwlockMoves(Rwlock!Next) \/ CondMoves(Cond!Next) \/ OnceMoves(Once!Next)
    \/ PipeMoves(Pipe!Next) \/ TableMoves(Table!Next)

\* The fairness that the components state in their FairSpec or LiveSpec.
FairAll ==
    /\ \A f \in Frames : WF_allVars(DeviceMoves(leave(f)))
    /\ \A p \in Idents : WF_allVars(DeviceMoves(
           (\E i \in 1 .. count : identities[i] = p /\ retiring[i]) /\ net_device_retire(p)))
    /\ \A t \in {1, 2, 3} : WF_allVars(RwlockMoves(Rwlock!Step(t)))
    /\ \A t \in {1, 3, 4} : WF_allVars(CondMoves(Cond!Step(t)))
    /\ \A t \in {1, 2} :
          /\ WF_allVars(OnceMoves(Once!Step(t) /\ place[t] # "idle"))
          /\ SF_allVars(OnceMoves(Once!once_done(t) \/ Once!pthread_exit(t)))
    /\ \A t \in {1, 2} : WF_allVars(PipeMoves(Pipe!Continue(t)))
    /\ WF_allVars(PipeMoves(Pipe!SomebodyReads))
    /\ \A i \in Table!ProcessSlots :
          /\ WF_allVars(TableMoves(Table!alloc_process_publish(i)))
          /\ WF_allVars(TableMoves(Table!spawn_fails(i) \/ Table!enter_process(i)))
          /\ WF_allVars(TableMoves(killed[i] /\ wait[i] = Table!NoWait /\ Table!process_exit(i)))
          /\ WF_allVars(TableMoves(Table!process_wait_round(i)))
          /\ WF_allVars(TableMoves(Table!process_exit_inactive(i)))
          /\ WF_allVars(TableMoves(Table!background_process_thread(i)))
          /\ \A a \in Table!Actors : /\ WF_allVars(TableMoves(Table!release_process(a, i)))
                                    /\ WF_allVars(TableMoves(Table!release_process_done(a, i)))
          /\ WF_allVars(TableMoves(Table!process_lifetime_drain(1, i)))
    /\ WF_allVars(TableMoves(Table!process_lifetime_release(1)))

SpecAll == InitAll /\ [][NextAll]_allVars /\ FairAll

-----------------------------------------------------------------------------
(* The properties that the components state, besides RegistrySound and     *)
(* RetirementEnds.                                                         *)

\* pthread_rwlock_*, pthread_once: exclusion, nobody stranded, one initialization.
LocksExact == Rwlock!RwlockSound /\ Once!OnceExactly

\* pthread_rwlock_*, pthread_cond_*, pthread_once: every thread gets its rounds, no
\* signal that matters is lost, and calls return when the initialization is complete.
CallsServed ==
    /\ part = "rwlock" => Rwlock!AllDone
    /\ part = "cond" => Cond!AllServed
    /\ Once!OnceServes

\* process_file_pipe_write: a write to a pipe that is being read returns.
WritesReturn == Pipe!WritesReturn

\* process_lifetime_*: a revoked kernel lifetime loses every member, save a record
\* that a cancelled process was working on.
DrainCompletes == Table!DrainCompletes
=============================================================================

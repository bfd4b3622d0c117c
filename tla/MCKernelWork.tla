--------------------------- MODULE MCKernelWork ---------------------------
(***************************************************************************)
(* The kernel's own wait and work services: the semaphore with three       *)
(* threads and at most two units, the work queue with two slots for three  *)
(* works, and the interrupt handlers of three drivers on two lines.  They  *)
(* share no state: part picks the one that moves, so that TLC explores the *)
(* union of their state spaces and not the product.                        *)
(***************************************************************************)
EXTENDS Workqueue

CONSTANT NoHandler

VARIABLES
    part,
    units, closed, waiters, pc, finite, expired,
    handlers, next, depth, pending, active, exit, isr, owed, exits

MCSafeFlags == [safe |-> {TRUE}, ordinary |-> {FALSE}, both |-> BOOLEAN]

Sem == INSTANCE Semaphore WITH
    Threads <- {"t1", "t2", "t3"}, InitialUnits <- 1, MaxUnits <- 2

Irq == INSTANCE IrqHandlers WITH
    Lines <- {10, 11}, Drivers <- {"nic", "disk", "audio"},
    LineOf <- [nic |-> 10, disk |-> 10, audio |-> 11],
    Observed <- {"nic", "audio"}, Slots <- {1, 2}, MaxToken <- 5, None <- NoHandler

ASSUME Irq!HandlerAssumption

semaphoreVars == <<units, closed, waiters, pc, finite, expired>>
irqVars == <<handlers, next, depth, pending, active, exit, isr, owed, exits>>
allVars == <<part, vars, semaphoreVars, irqVars>>

SemaphoreMoves(A) == part = "semaphore" /\ A /\ UNCHANGED <<part, vars, irqVars>>
WorkMoves(A) == part = "work" /\ A /\ UNCHANGED <<part, semaphoreVars, irqVars>>
IrqMoves(A) == part = "irq" /\ A /\ UNCHANGED <<part, vars, semaphoreVars>>

InitAll ==
    /\ part \in {"semaphore", "work", "irq"}
    /\ Sem!semaphore_init /\ workqueue_init /\ Irq!Init

NextAll == SemaphoreMoves(Sem!Next) \/ WorkMoves(Next) \/ IrqMoves(Irq!Next)

\* The fairness of Semaphore!LiveSpec, Workqueue!LiveSpec and IrqHandlers!FairSpec.
FairAll ==
    /\ \A t \in {"t1", "t2", "t3"} :
          /\ WF_allVars(SemaphoreMoves(Sem!Continue(t)))
          /\ WF_allVars(SemaphoreMoves(Sem!Expire(t)))
          /\ WF_allVars(SemaphoreMoves(Sem!wake_expired_waits(t)))
    /\ WF_allVars(WorkMoves(WakeWorker)) /\ SF_allVars(WorkMoves(take_work))
    /\ SF_allVars(WorkMoves(CallbackReturns)) /\ SF_allVars(WorkMoves(CallbackDone))
    /\ WF_allVars(WorkMoves(owned /\ scheduler_io_scope))
    /\ SF_allVars(WorkMoves(~owned /\ Resume))
    /\ WF_allVars(IrqMoves(Irq!Deliver))

SpecAll == InitAll /\ [][NextAll]_allVars /\ FairAll

-----------------------------------------------------------------------------
(* The properties that the components state, besides WorkSound,            *)
(* ImplementsFifo and WorkRuns of Workqueue.                               *)

\* irq_handlers.c: deliveries call what is registered, complete once and reopen it.
HandlersSound == part = "irq" => Irq!HandlersSound

\* semaphore.c: a closed semaphore empties, and a wait with a deadline returns.
SemaphoreEnds == Sem!SemaphoreEnds
=============================================================================

---------------------------- MODULE MCScheduler ----------------------------
(***************************************************************************)
(* The scheduler on four thread slots: the initial thread, the idle worker *)
(* and two I/O services, with two processes that run on the initial thread *)
(* one after the other.  Threads spawned later, and their exit, are in the *)
(* run of SchedulerGate and in MCProcess.                                  *)
(***************************************************************************)
EXTENDS Scheduler, TLC

CONSTANTS p1, p2

\* The two processes are alike.
Symmetric == Permutations({p1, p2})
=============================================================================

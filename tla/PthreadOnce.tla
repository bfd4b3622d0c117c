---------------------------- MODULE PthreadOnce ----------------------------
(***************************************************************************)
(* pthread_once of userspace/lib/src/posix_pthread.c with nested controls: *)
(* the initializer of control 1 may call pthread_once of control 2, and    *)
(* any initializer may leave through pthread_exit, which rolls back the    *)
(* controls its thread is initializing.                                    *)
(***************************************************************************)
EXTENDS Naturals, Sequences, SequencesExt

CONSTANTS Threads, Controls

VARIABLES
    control,    \* control[c]: 0, 1 in progress, 2 done
    pc,         \* where each thread is; "out" after pthread_exit
    target,     \* target[t]: the control of its innermost call
    frames,     \* once_frames of each thread, innermost first
    runs        \* runs[c]: how many times the initializer of c completed

vars == <<control, pc, target, frames, runs>>

Init ==
    /\ control = [c \in Controls |-> 0]
    /\ pc = [t \in Threads |-> "idle"]
    /\ target = [t \in Threads |-> 0]
    /\ frames = [t \in Threads |-> <<>>]
    /\ runs = [c \in Controls |-> 0]

Goto(t, l) == pc' = [pc EXCEPT ![t] = l]

\* srv_futex_wake of every waiter on c; t goes on at l.
WakeAll(t, c, l) ==
    pc' = [u \in Threads |-> IF u = t THEN l
                             ELSE IF pc[u] = "parked" /\ target[u] = c THEN "futex" ELSE pc[u]]

-----------------------------------------------------------------------------

\* A call from outside, or from the initializer of the control above.
pthread_once(t, c) ==
    /\ \/ pc[t] = "idle" /\ frames[t] = <<>>
       \/ pc[t] = "init" /\ c = Head(frames[t]) + 1
    /\ target' = [target EXCEPT ![t] = c]
    /\ Goto(t, "load")
    /\ UNCHANGED <<control, frames, runs>>

\* A mutant: an initialization in progress counts as done.
load_progress(t) ==
    /\ pc[t] = "load"
    /\ Goto(t, IF control[target[t]] = 0 THEN "cas" ELSE IF frames[t] = <<>> THEN "idle" ELSE "init")
    /\ UNCHANGED <<control, target, frames, runs>>

once_load(t) ==
    /\ pc[t] = "load"
    /\ Goto(t, CASE control[target[t]] = 2 -> (IF frames[t] = <<>> THEN "idle" ELSE "init")
                 [] control[target[t]] = 0 -> "cas"
                 [] OTHER -> "futex")
    /\ UNCHANGED <<control, target, frames, runs>>

once_cas(t) ==
    /\ pc[t] = "cas"
    /\ IF control[target[t]] = 0
       THEN /\ control' = [control EXCEPT ![target[t]] = 1]
            /\ frames' = [frames EXCEPT ![t] = <<target[t]>> \o @]
            /\ Goto(t, "init")
       ELSE Goto(t, "load") /\ UNCHANGED <<control, frames>>
    /\ UNCHANGED <<target, runs>>

\* init_routine returns and the control is published.
once_done(t) ==
    /\ pc[t] = "init"
    /\ LET c == Head(frames[t]) IN
       /\ control' = [control EXCEPT ![c] = 2]
       /\ runs' = [runs EXCEPT ![c] = @ + 1]
       /\ target' = [target EXCEPT ![t] = c]
    /\ frames' = [frames EXCEPT ![t] = Tail(@)]
    /\ Goto(t, "wake")

once_wake(t) ==
    /\ pc[t] = "wake"
    /\ WakeAll(t, target[t], IF frames[t] = <<>> THEN "idle" ELSE "init")
    /\ UNCHANGED <<control, target, frames, runs>>

\* process_futex_wait for the value 1.
once_futex(t) ==
    /\ pc[t] = "futex"
    /\ \/ control[target[t]] = 1 /\ Goto(t, "parked")
       \/ Goto(t, "load")
    /\ UNCHANGED <<control, target, frames, runs>>

\* A mutant: only the innermost frame is rolled back.
exit_innermost(t) ==
    /\ pc[t] \in {"init", "exiting"} /\ frames[t] # <<>>
    /\ control' = [control EXCEPT ![Head(frames[t])] = 0]
    /\ target' = [target EXCEPT ![t] = Head(frames[t])]
    /\ frames' = [frames EXCEPT ![t] = <<>>]
    /\ Goto(t, "exit_wake")
    /\ UNCHANGED runs

\* pthread_exit inside an initializer: the loop over once_frames.
pthread_exit(t) ==
    /\ pc[t] \in {"init", "exiting"} /\ frames[t] # <<>>
    /\ control' = [control EXCEPT ![Head(frames[t])] = 0]
    /\ target' = [target EXCEPT ![t] = Head(frames[t])]
    /\ frames' = [frames EXCEPT ![t] = Tail(@)]
    /\ Goto(t, "exit_wake")
    /\ UNCHANGED runs

\* A mutant: the waiters are not told.
exit_silent(t) ==
    /\ pc[t] = "exit_wake"
    /\ Goto(t, IF frames[t] = <<>> THEN "out" ELSE "exiting")
    /\ UNCHANGED <<control, target, frames, runs>>

exit_wake(t) ==
    /\ pc[t] = "exit_wake"
    /\ WakeAll(t, target[t], IF frames[t] = <<>> THEN "out" ELSE "exiting")
    /\ UNCHANGED <<control, target, frames, runs>>

Step(t) ==
    \/ \E c \in Controls : pthread_once(t, c)
    \/ once_load(t) \/ once_cas(t) \/ once_done(t) \/ once_wake(t) \/ once_futex(t)
    \/ pthread_exit(t) \/ exit_wake(t)

Next == \E t \in Threads : Step(t)

Spec == Init /\ [][Next]_vars

\* Round-robin scheduling; an initializer ends, one way or the other.
FairSpec ==
    /\ Spec
    /\ \A t \in Threads :
          /\ WF_vars(Step(t) /\ pc[t] # "idle")
          /\ SF_vars(once_done(t) \/ pthread_exit(t))

-----------------------------------------------------------------------------
(* Properties.                                                             *)

\* An initializer completes at most once, a control in progress has exactly one
\* thread initializing it, and a control is done only if its initializer completed.
OnceExactly ==
    \A c \in Controls :
        /\ runs[c] = (IF control[c] = 2 THEN 1 ELSE 0)
        /\ control[c] = 1 <=> \E t \in Threads : Contains(frames[t], c)
        /\ \A t, u \in Threads : Contains(frames[t], c) /\ Contains(frames[u], c) => t = u

\* A thread returns from pthread_once only when the initialization is complete.
ReturnsInitialized ==
    [][\A t \in Threads : pc[t] = "load" /\ pc'[t] \in {"idle", "init"}
          => runs[target[t]] = 1]_vars

\* Nobody stays parked on a control for ever, also when the thread that was
\* initializing it leaves through pthread_exit.
OnceReturns == \A t \in Threads : pc[t] = "parked" ~> pc[t] # "parked"

\* A call of pthread_once returns, and only when the initialization is complete,
\* although an initializer may leave through pthread_exit.
OnceServes ==
    /\ ReturnsInitialized
    /\ OnceReturns
=============================================================================

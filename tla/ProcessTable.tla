---------------------------- MODULE ProcessTable ----------------------------
(***************************************************************************)
(* The process table of kernel/src/process.c: reservation, publication,    *)
(* exit, waiting, reaping and release of slots, and the lifetimes (groups  *)
(* of processes that the kernel, or a supervising process through a user   *)
(* scope, can revoke and drain).  Clearing a record is slow, so            *)
(* alloc_process_lifetime and release_process mask interrupts only around  *)
(* the short parts; other threads run in between.  A blocking wait, a fork *)
(* and the end of a foreground spawn run with interrupts on: there the     *)
(* timer tick cancels a killed caller for good, and the record it was      *)
(* working on keeps its state with nobody to finish the work.              *)
(*                                                                         *)
(* phase[i] stands for the flags of slot i:                                *)
(*   free                                                                  *)
(*   clearing   process_slots_busy, not allocated                          *)
(*   loading    allocated and active, its thread not started               *)
(*   running    allocated and active                                       *)
(*   exiting    the same, its last thread inside process_exit              *)
(*   exited     allocated, no longer active, its thread not yet done       *)
(*   zombie     allocated and reapable                                     *)
(*   claimed    allocated, a caller of release_process holds it            *)
(*   releasing  process_slots_busy, not allocated                          *)
(***************************************************************************)
EXTENDS Integers, FiniteSets

CONSTANTS
    PROCESS_MAX_PROCESSES,
    MaxPid, MaxToken,       \* bounds on next_pid and next_lifetime
    KernelPids,             \* the pids the kernel itself may start
    Foreground,             \* whether foreground (not detached) children are started
    Creators                \* who creates lifetimes: "kernel", "user"

ASSUME ProcessTableAssumption ==
    /\ PROCESS_MAX_PROCESSES \in Nat \ {0}
    /\ MaxPid \in Nat /\ MaxToken \in Nat /\ KernelPids \subseteq Nat
    /\ Foreground \in BOOLEAN /\ Creators \subseteq {"kernel", "user"}

ProcessSlots == 1 .. PROCESS_MAX_PROCESSES
Kernel == 0                 \* kernel code: process_current() is NULL
Actors == ProcessSlots \cup {Kernel}
Phases == {"free", "clearing", "loading", "running", "exiting", "exited",
           "zombie", "claimed", "releasing"}
NoLife == [user |-> FALSE, owner |-> Kernel, revoked |-> FALSE, live |-> FALSE,
           root_reserved |-> FALSE, reservation |-> FALSE, members |-> 0]
AnyPid == 0
NoWait == -1

VARIABLES
    phase, pid, parent, detached, killed, lifetime,
    scope,          \* owned_user_scope
    claims,         \* claims[i]: the actors inside release_process(i)
    cancel,         \* whether a tick may cancel the call that works on slot i: no, may,
                    \* or done (it was cancelled and nobody works on the slot)
    wait,           \* wait[i]: the pid that process i, inside wait, asks for
    asleep,         \* the processes blocked on process_wait_queue
    life,           \* process_lifetimes, by token
    next_pid, next_lifetime, system_reaper_pid,
    appointed       \* ghost: the reaper was asleep when it was named, and still is

vars == <<phase, pid, parent, detached, killed, lifetime, scope, claims, cancel, wait,
          asleep, life, next_pid, next_lifetime, system_reaper_pid, appointed>>
ids == <<pid, parent, detached, lifetime, next_pid, next_lifetime, system_reaper_pid>>
sleepers == <<asleep, appointed>>
held == <<claims, cancel>>

Init ==
    /\ phase = [i \in ProcessSlots |-> "free"]
    /\ pid = [i \in ProcessSlots |-> 0] /\ parent = [i \in ProcessSlots |-> 0]
    /\ detached = [i \in ProcessSlots |-> FALSE] /\ killed = [i \in ProcessSlots |-> FALSE]
    /\ lifetime = [i \in ProcessSlots |-> 0] /\ scope = [i \in ProcessSlots |-> 0]
    /\ claims = [i \in ProcessSlots |-> {}] /\ cancel = [i \in ProcessSlots |-> "no"]
    /\ wait = [i \in ProcessSlots |-> NoWait] /\ asleep = {}
    /\ life = [t \in 1 .. MaxToken |-> NoLife]
    /\ next_pid = 1 /\ next_lifetime = 1 /\ system_reaper_pid = 0
    /\ appointed = FALSE

Allocated(i) == phase[i] \notin {"free", "clearing", "releasing"}
Active(i) == phase[i] \in {"loading", "running", "exiting"}
Pid(a) == IF a = Kernel THEN 0 ELSE pid[a]

\* Actor a may make its next call: a killed process exits instead.
Executing(a) ==
    a \in {Kernel} \cup {i \in ProcessSlots : phase[i] = "running" /\ wait[i] = NoWait /\ ~killed[i]}

\* Whoever sleeps on process_wait_queue looks again.
scheduler_wake_all == asleep' = {} /\ appointed' = FALSE

Live(t) == t # 0 /\ life[t].live
Owned(i, t) == ~killed[i] /\ scope[i] = t /\ Live(t) /\ life[t].owner = i

-----------------------------------------------------------------------------
(* Lifetimes and user scopes.                                              *)

\* A mutant: the record of an abandoned scope is kept.
MemberDoneKept(L) == [L EXCEPT !.members = @ - 1]

\* user_scope_member_done on record L.
MemberDone(L) ==
    LET left == [L EXCEPT !.members = @ - 1]
    IN  IF L.user /\ L.owner = Kernel /\ L.revoked /\ left.members = 0
        THEN NoLife ELSE left

\* A mutant: the unused reservation stays counted.
DetachedReserved(i) ==
    LET t == scope[i] IN
    IF ~(Live(t) /\ life[t].owner = i) THEN life
    ELSE LET L == [life[t] EXCEPT !.revoked = TRUE, !.owner = Kernel, !.reservation = FALSE]
         IN  [life EXCEPT ![t] = IF L.members = 0 THEN NoLife ELSE L]

\* user_scope_detach: the owner goes, its scope is revoked and freed when empty.
Detached(i) ==
    LET t == scope[i] IN
    IF ~(Live(t) /\ life[t].owner = i) THEN life
    ELSE LET L == [life[t] EXCEPT !.revoked = TRUE, !.owner = Kernel, !.reservation = FALSE,
                                  !.members = @ - IF life[t].reservation THEN 1 ELSE 0]
         IN  [life EXCEPT ![t] = IF L.members = 0 THEN NoLife ELSE L]

FreeRecord == Cardinality({t \in 1 .. MaxToken : life[t].live}) < PROCESS_MAX_PROCESSES

Create(L) ==
    /\ next_lifetime <= MaxToken /\ FreeRecord
    /\ life' = [life EXCEPT ![next_lifetime] = L]
    /\ next_lifetime' = next_lifetime + 1
    /\ UNCHANGED <<phase, pid, parent, detached, killed, lifetime, held, wait, sleepers,
                   next_pid, system_reaper_pid>>

process_lifetime_create ==
    /\ "kernel" \in Creators
    /\ Create([NoLife EXCEPT !.live = TRUE]) /\ UNCHANGED scope

process_scope_create(i) ==
    /\ "user" \in Creators /\ Executing(i) /\ ~killed[i] /\ lifetime[i] = 0 /\ scope[i] = 0
    /\ \A t \in 1 .. MaxToken :
          ~(life[t].user /\ life[t].owner = Kernel /\ life[t].revoked /\ life[t].members # 0)
    /\ Create([NoLife EXCEPT !.live = TRUE, !.user = TRUE, !.owner = i])
    /\ scope' = [scope EXCEPT ![i] = next_lifetime]

SetLife(t, L) ==
    /\ life' = [life EXCEPT ![t] = L]
    /\ UNCHANGED <<phase, ids, killed, held, wait, sleepers>>

process_scope_reserve(i) ==
    LET t == scope[i] IN
    /\ Executing(i) /\ Owned(i, t) /\ ~life[t].revoked /\ ~life[t].root_reserved
    /\ SetLife(t, [life[t] EXCEPT !.root_reserved = TRUE, !.reservation = TRUE,
                                  !.members = @ + 1])
    /\ UNCHANGED scope

process_scope_cancel_reservation(i) ==
    LET t == scope[i] IN
    /\ phase[i] = "running" /\ Live(t) /\ life[t].reservation
    /\ SetLife(t, MemberDone([life[t] EXCEPT !.reservation = FALSE]))
    /\ UNCHANGED scope

process_scope_control(i) ==
    LET t == scope[i] IN
    /\ Executing(i) /\ Owned(i, t)
    /\ \/ /\ ~life[t].revoked
          /\ SetLife(t, [life[t] EXCEPT !.revoked = TRUE])
          /\ UNCHANGED scope
       \/ /\ life[t].revoked /\ life[t].members = 0
          /\ SetLife(t, NoLife)
          /\ scope' = [scope EXCEPT ![i] = 0]

process_lifetime_revoke(t) ==
    /\ Live(t) /\ ~life[t].user /\ ~life[t].revoked
    /\ SetLife(t, [life[t] EXCEPT !.revoked = TRUE]) /\ UNCHANGED scope

process_lifetime_release(t) ==
    /\ Live(t) /\ ~life[t].user /\ life[t].revoked /\ life[t].members = 0
    /\ SetLife(t, NoLife) /\ UNCHANGED scope

-----------------------------------------------------------------------------
(* A slot from reservation to publication.                                 *)

FreeSlots == {i \in ProcessSlots : phase[i] = "free"}

\* A mutant: a revoked lifetime still admits inherited members.
AdmitsRevoked(token, root) ==
    \/ token = 0
    \/ /\ Live(token)
       /\ root => (life[token].reservation \/ ~life[token].root_reserved)

\* What alloc_process_lifetime asks of the lifetime the new process joins.
Admits(token, root) ==
    \/ token = 0
    \/ /\ Live(token)
       /\ life[token].revoked => (root /\ life[token].reservation)
       /\ root => (life[token].reservation \/ ~life[token].root_reserved)

\* The lifetimes a caller may name as root: a kernel caller its own lifetime, a
\* process the scope it has just reserved (SRV_SCOPE_SPAWN reserves first).
Roots(a) ==
    {0} \cup {t \in 1 .. MaxToken :
                /\ life[t].live
                /\ IF a = Kernel THEN ~life[t].user
                   ELSE Owned(a, t) /\ life[t].reservation}

\* Record L with a new member; a root uses the reservation made for it.
Joined(L, root) ==
    IF root # 0 /\ L.reservation THEN [L EXCEPT !.reservation = FALSE, !.root_reserved = TRUE]
    ELSE [L EXCEPT !.members = @ + 1, !.root_reserved = @ \/ root # 0]

\* The first masked part of alloc_process_lifetime: slot, pid and membership.  A
\* fork runs with interrupts on, a spawn with interrupts off.
alloc_process_lifetime(a, det, root, fork) ==
    LET token == IF root # 0 THEN root ELSE IF a = Kernel THEN 0 ELSE lifetime[a]
    IN
    /\ Executing(a) /\ root \in Roots(a) /\ (root # 0 => det)
    /\ det \/ Foreground
    /\ fork => det /\ root = 0 /\ a # Kernel
    /\ a = Kernel => next_pid \in KernelPids
    /\ Admits(token, root # 0)
    /\ next_pid <= MaxPid
    /\ \E i \in FreeSlots :
          /\ \A j \in FreeSlots : i <= j
          /\ phase' = [phase EXCEPT ![i] = "clearing"]
          /\ pid' = [pid EXCEPT ![i] = next_pid]
          /\ parent' = [parent EXCEPT ![i] = Pid(a)]
          /\ detached' = [detached EXCEPT ![i] = det]
          /\ killed' = [killed EXCEPT ![i] = FALSE]
          /\ lifetime' = [lifetime EXCEPT ![i] = token]
          /\ scope' = [scope EXCEPT ![i] = 0]
          /\ cancel' = [cancel EXCEPT ![i] = IF fork THEN "may" ELSE "no"]
    /\ next_pid' = next_pid + 1
    /\ life' = IF token = 0 THEN life
               ELSE [life EXCEPT ![token] = Joined(life[token], root)]
    /\ UNCHANGED <<claims, wait, sleepers, next_lifetime, system_reaper_pid>>

\* The record is clear; its identity is published.
alloc_process_publish(i) ==
    /\ phase[i] = "clearing" /\ cancel[i] # "done"
    /\ phase' = [phase EXCEPT ![i] = "loading"]
    /\ UNCHANGED <<ids, killed, scope, held, wait, sleepers, life>>

\* The actor whose pid is p, if it is still there.
Parent(i) == IF parent[i] = 0 THEN {Kernel}
             ELSE {j \in ProcessSlots : Allocated(j) /\ pid[j] = parent[i]}

\* Image, arguments, descriptors or scheduler admission fail: release_process.
spawn_fails(i) ==
    /\ phase[i] = "loading" /\ cancel[i] # "done"
    /\ phase' = [phase EXCEPT ![i] = "claimed"]
    /\ claims' = [claims EXCEPT ![i] = Parent(i)]
    /\ UNCHANGED <<ids, killed, scope, cancel, wait, sleepers, life>>

\* The first thread is there and enters user mode; the creator is done with it.
enter_process(i) ==
    /\ phase[i] = "loading" /\ cancel[i] # "done"
    /\ phase' = [phase EXCEPT ![i] = "running"]
    /\ cancel' = [cancel EXCEPT ![i] = "no"]
    /\ UNCHANGED <<ids, killed, scope, claims, wait, sleepers, life>>

process_set_reaper(i) ==
    /\ system_reaper_pid = 0 /\ Active(i) /\ parent[i] = 0
    /\ system_reaper_pid' = pid[i] /\ appointed' = (i \in asleep)
    /\ UNCHANGED <<phase, pid, parent, detached, killed, lifetime, scope, held, wait, asleep,
                   life, next_pid, next_lifetime>>

\* The commit of process_exec_replace: the new image does not keep the scope.
process_exec_replace(i) ==
    /\ Executing(i) /\ scope[i] # 0
    /\ life' = Detached(i)
    /\ scope' = [scope EXCEPT ![i] = 0]
    /\ UNCHANGED <<phase, ids, killed, held, wait, sleepers>>

\* A fatal signal to i; process_wake_for_signal wakes the wait queue.
process_kill(i) ==
    /\ Active(i) /\ ~killed[i]
    /\ killed' = [killed EXCEPT ![i] = TRUE]
    /\ scheduler_wake_all /\ UNCHANGED wait
    /\ UNCHANGED <<phase, ids, scope, held, life>>

-----------------------------------------------------------------------------
(* Exit, release and reaping.                                              *)

\* The slots a call of i works on: those it releases, creates, or runs in the
\* foreground.
Involved(i) ==
    {j \in ProcessSlots :
        \/ i \in claims[j]
        \/ /\ parent[j] = pid[i]
           /\ \/ phase[j] \in {"clearing", "loading"}
              \/ ~detached[j] /\ phase[j] \notin {"free", "claimed", "releasing"}}

\* A mutant: the exit of a cancelled waiter leaves its claim behind.
ClaimsKept(i) == claims

\* The claims that are left when the thread of i goes.
Dropped(i) == [j \in ProcessSlots |-> claims[j] \ {i}]

\* i exits on its own, after a call if it was killed, or at a tick that finds it
\* killed in a call with interrupts on: what that call works on stays as it is.
process_exit(i) ==
    /\ phase[i] = "running" /\ i \notin asleep
    /\ wait[i] # NoWait => killed[i]
    /\ \A j \in Involved(i) : killed[i] /\ cancel[j] = "may"
    /\ cancel' = [j \in ProcessSlots |-> IF j \in Involved(i) THEN "done" ELSE cancel[j]]
    /\ claims' = Dropped(i)
    /\ wait' = [wait EXCEPT ![i] = NoWait]
    /\ life' = Detached(i)
    /\ scope' = [scope EXCEPT ![i] = 0]
    /\ phase' = [phase EXCEPT ![i] = "exiting"]
    /\ UNCHANGED <<ids, killed, sleepers>>

\* process_exit clears active once files and sockets are gone.
process_exit_inactive(i) ==
    /\ phase[i] = "exiting"
    /\ phase' = [phase EXCEPT ![i] = "exited"]
    /\ UNCHANGED <<ids, killed, scope, held, wait, sleepers, life>>

\* The end of background_process_thread.
background_process_thread(i) ==
    /\ phase[i] = "exited" /\ detached[i]
    /\ phase' = [phase EXCEPT ![i] = "zombie"]
    /\ scheduler_wake_all /\ UNCHANGED wait
    /\ UNCHANGED <<ids, killed, scope, held, life>>

\* The caller of a foreground child takes the exit status, turns interrupts on and
\* releases it.
foreground_done(i) ==
    /\ phase[i] = "exited" /\ ~detached[i]
    /\ phase' = [phase EXCEPT ![i] = "claimed"]
    /\ claims' = [claims EXCEPT ![i] = Parent(i)]
    /\ cancel' = [cancel EXCEPT ![i] = "may"]
    /\ UNCHANGED <<ids, killed, scope, wait, sleepers, life>>

\* A mutant: the claim leaves the record reapable.
ClaimKept(a, i, c) ==
    /\ claims' = [claims EXCEPT ![i] = @ \cup {a}]
    /\ cancel' = [cancel EXCEPT ![i] = c]
    /\ UNCHANGED <<phase, ids, killed, scope, life>>

\* reapable is cleared inside the masked section that found the zombie; c tells
\* whether what follows can be cancelled.
Claim(a, i, c) ==
    /\ phase' = [phase EXCEPT ![i] = "claimed"]
    /\ claims' = [claims EXCEPT ![i] = @ \cup {a}]
    /\ cancel' = [cancel EXCEPT ![i] = c]
    /\ UNCHANGED <<ids, killed, scope, life>>

\* release_process up to the point where allocated is cleared.
release_process(a, i) ==
    /\ a \in claims[i] /\ phase[i] \in {"claimed", "zombie"}
    /\ life' = Detached(i)
    /\ scope' = [scope EXCEPT ![i] = 0]
    /\ phase' = [phase EXCEPT ![i] = "releasing"]
    /\ UNCHANGED <<ids, killed, held, wait, sleepers>>

\* The member leaves its lifetime and slot i is free again.
Freed(i) ==
    /\ phase' = [phase EXCEPT ![i] = "free"]
    /\ cancel' = [cancel EXCEPT ![i] = "no"]
    /\ life' = IF Live(lifetime[i])
               THEN [life EXCEPT ![lifetime[i]] = MemberDone(@)] ELSE life

\* clear_process
Cleared(i) ==
    /\ pid' = [pid EXCEPT ![i] = 0] /\ parent' = [parent EXCEPT ![i] = 0]
    /\ detached' = [detached EXCEPT ![i] = FALSE] /\ killed' = [killed EXCEPT ![i] = FALSE]
    /\ lifetime' = [lifetime EXCEPT ![i] = 0]
    /\ UNCHANGED <<scope, next_pid, next_lifetime, system_reaper_pid>>

\* A mutant: no wake-up when the target has disappeared.
ReleaseUnannounced(a, i) ==
    /\ a \in claims[i] /\ phase[i] = "releasing"
    /\ Freed(i) /\ Cleared(i)
    /\ claims' = [claims EXCEPT ![i] = @ \ {a}]
    /\ UNCHANGED <<wait, sleepers>>

\* The record is clear; the slot is returned and waiters look again.
release_process_done(a, i) ==
    /\ a \in claims[i] /\ phase[i] = "releasing"
    /\ Freed(i) /\ Cleared(i)
    /\ claims' = [claims EXCEPT ![i] = @ \ {a}]
    /\ scheduler_wake_all /\ UNCHANGED wait

\* The parent of i is allocated and active.
LiveParent(i) == \E j \in ProcessSlots : Active(j) /\ pid[j] = parent[i]

\* process_wait_owned
WaitOwned(i, owner) ==
    \/ parent[i] = owner
    \/ /\ owner # 0 /\ owner = system_reaper_pid /\ pid[i] # owner /\ parent[i] # 0
       /\ ~LiveParent(i)

\* find_reapable_process and has_wait_target, as sets.
Targets(owner, p) ==
    {i \in ProcessSlots : /\ Allocated(i) /\ detached[i] /\ (p = AnyPid \/ pid[i] = p)
                   /\ WaitOwned(i, owner)}
Reapable(owner, p) == {i \in Targets(owner, p) : phase[i] = "zombie"}

\* process_wait_ready; a caught signal, which ends the wait too, is left out.
\* It does not ask process_should_exit_current: killed is no reason to return.
WaitReady(owner, p) == Reapable(owner, p) # {} \/ Targets(owner, p) = {}

\* A blocking wait begins; without a target it returns at once.
process_wait(i, p) ==
    /\ Executing(i) /\ Targets(pid[i], p) # {}
    /\ wait' = [wait EXCEPT ![i] = p]
    /\ UNCHANGED <<phase, ids, killed, scope, held, sleepers, life>>

\* One round of the loop of process_wait_request for actor a: claim the zombie in
\* the lowest slot and return; return when there is nothing to wait for; sleep.
\* A nonblocking wait that finds nothing has no effect.
process_wait_request(a, p) ==
    LET found == Reapable(Pid(a), p) IN
    \/ /\ \E i \in found : (\A j \in found : i <= j) /\ Claim(a, i, "may")
       /\ wait' = [i \in ProcessSlots |-> IF i = a THEN NoWait ELSE wait[i]]
       /\ UNCHANGED sleepers
    \/ /\ Targets(Pid(a), p) = {} /\ a # Kernel
       /\ wait' = [wait EXCEPT ![a] = NoWait]
       /\ UNCHANGED <<phase, ids, killed, scope, held, sleepers, life>>
    \/ /\ ~WaitReady(Pid(a), p) /\ a # Kernel
       /\ asleep' = asleep \cup {a}
       /\ UNCHANGED <<phase, ids, killed, scope, held, wait, life, appointed>>

process_wait_round(i) ==
    phase[i] = "running" /\ wait[i] # NoWait /\ i \notin asleep /\ process_wait_request(i, wait[i])

\* process_try_wait_retired_impl: the record is freed in one masked section.
process_try_wait_retired(a, i) ==
    /\ a # i /\ Executing(a) /\ phase[i] = "zombie" /\ parent[i] = pid[a]
    /\ lifetime[i] # 0 => Live(lifetime[i]) /\ life[lifetime[i]].members > 0
    /\ Freed(i)
    /\ scheduler_wake_all /\ UNCHANGED wait
    /\ UNCHANGED <<ids, killed, scope, claims>>

\* The owner of a revoked scope reaps a member nobody else will wait for.
process_scope_reap(a) ==
    LET t == scope[a]
        found == {i \in ProcessSlots : phase[i] = "zombie" /\ lifetime[i] = t /\ parent[i] # 0
                                /\ ~LiveParent(i)}
    IN
    /\ Executing(a) /\ Owned(a, t) /\ life[t].revoked
    /\ \E i \in found : (\A j \in found : i <= j) /\ Claim(a, i, "no") /\ UNCHANGED <<wait, sleepers>>

\* A mutant: the drain pass leaves zombies to their parents.
DrainKillsOnly(t, i) ==
    /\ Live(t) /\ ~life[t].user /\ life[t].revoked /\ Allocated(i) /\ lifetime[i] = t
    /\ process_kill(i)

\* One masked section of a process_lifetime_drain pass: slot i.
process_lifetime_drain(t, i) ==
    /\ Live(t) /\ ~life[t].user /\ life[t].revoked /\ Allocated(i) /\ lifetime[i] = t
    /\ \/ phase[i] = "zombie" /\ Claim(Kernel, i, "no") /\ UNCHANGED <<wait, sleepers>>
       \/ process_kill(i)

Next ==
    \/ process_lifetime_create
    \/ \E t \in 1 .. MaxToken : process_lifetime_revoke(t) \/ process_lifetime_release(t)
    \/ \E i \in ProcessSlots :
          \/ process_scope_create(i) \/ process_scope_reserve(i)
          \/ process_scope_cancel_reservation(i) \/ process_scope_control(i)
          \/ process_scope_reap(i)
          \/ alloc_process_publish(i) \/ spawn_fails(i) \/ enter_process(i)
          \/ process_set_reaper(i) \/ process_exec_replace(i) \/ process_kill(i)
          \/ process_exit(i) \/ process_exit_inactive(i)
          \/ background_process_thread(i) \/ foreground_done(i)
          \/ \E t \in 1 .. MaxToken : process_lifetime_drain(t, i)
          \/ \E a \in Actors : release_process(a, i) \/ release_process_done(a, i)
          \/ \E a \in ProcessSlots : process_try_wait_retired(a, i)
          \/ process_wait_round(i)
          \/ \E p \in 0 .. MaxPid : process_wait(i, p)
    \/ \E a \in Actors, det \in BOOLEAN, root \in 0 .. MaxToken, fork \in BOOLEAN :
          alloc_process_lifetime(a, det, root, fork)
    \/ \E p \in 0 .. MaxPid : process_wait_request(Kernel, p)

Spec == Init /\ [][Next]_vars

\* The kernel threads that create, start, tear down and release records run to
\* completion; a killed process exits at its next return from the kernel or
\* tick; and the owner of a kernel lifetime repeats its drain pass until
\* members is zero (posix_capture.c, process_lifetime_test.c).
Fairness ==
    /\ \A i \in ProcessSlots :
          /\ WF_vars(alloc_process_publish(i))
          /\ WF_vars(spawn_fails(i) \/ enter_process(i))
          /\ WF_vars(killed[i] /\ wait[i] = NoWait /\ process_exit(i))
          /\ WF_vars(process_wait_round(i)) /\ WF_vars(process_exit_inactive(i))
          /\ WF_vars(background_process_thread(i)) /\ WF_vars(foreground_done(i))
          /\ \A a \in Actors : WF_vars(release_process(a, i)) /\ WF_vars(release_process_done(a, i))
          /\ \A t \in 1 .. MaxToken : WF_vars(process_lifetime_drain(t, i))
    /\ \A t \in 1 .. MaxToken : WF_vars(process_lifetime_release(t))

FairSpec == Spec /\ Fairness

-----------------------------------------------------------------------------
(* Properties.                                                             *)

Lives == [user : BOOLEAN, owner : Actors, revoked : BOOLEAN, live : BOOLEAN,
          root_reserved : BOOLEAN, reservation : BOOLEAN, members : Nat]

\* The types of the table, its lifetimes and its counters.
TypeOK ==
    /\ phase \in [ProcessSlots -> Phases]
    /\ pid \in [ProcessSlots -> 0 .. MaxPid] /\ parent \in [ProcessSlots -> 0 .. MaxPid]
    /\ detached \in [ProcessSlots -> BOOLEAN] /\ killed \in [ProcessSlots -> BOOLEAN]
    /\ lifetime \in [ProcessSlots -> 0 .. MaxToken] /\ scope \in [ProcessSlots -> 0 .. MaxToken]
    /\ claims \in [ProcessSlots -> SUBSET Actors]
    /\ cancel \in [ProcessSlots -> {"no", "may", "done"}]
    /\ wait \in [ProcessSlots -> {NoWait} \cup (0 .. MaxPid)] /\ asleep \subseteq ProcessSlots
    /\ life \in [1 .. MaxToken -> Lives]
    /\ next_pid \in 1 .. MaxPid + 1 /\ next_lifetime \in 1 .. MaxToken + 1
    /\ system_reaper_pid \in 0 .. MaxPid /\ appointed \in BOOLEAN

Members(t) == {i \in ProcessSlots : phase[i] # "free" /\ lifetime[i] = t}

\* A lifetime counts exactly the slots that belong to it, from reservation
\* through loading, exit, zombie and release, and its unused reservation; no
\* lifetime is gone while a slot still belongs to it.
MembersExact ==
    \A t \in 1 .. MaxToken :
        life[t].members = Cardinality(Members(t)) + IF life[t].reservation THEN 1 ELSE 0

\* A record is released at most once: the single actor that claimed it releases it,
\* which no second waiter, drain pass or scope reaper can claim as well.  Only a
\* record whose holder a tick cancelled in release_process has nobody; no later
\* process, not even one in the slot of the holder, takes it over.
SingleReaper ==
    \A i \in ProcessSlots :
        IF phase[i] \in {"claimed", "releasing"} /\ cancel[i] # "done"
        THEN Cardinality(claims[i]) = 1 ELSE claims[i] = {}

\* A user scope and its owner agree; a scope without owner is revoked and
\* still has members (it goes with the last of them).
ScopeOwnership ==
    /\ \A t \in 1 .. MaxToken : life[t].user =>
          IF life[t].owner = Kernel
          THEN life[t].revoked /\ life[t].members > 0 /\ ~life[t].reservation
          ELSE scope[life[t].owner] = t /\ phase[life[t].owner] = "running"
    /\ \A i \in ProcessSlots : scope[i] # 0 => Live(scope[i]) /\ life[scope[i]].owner = i

\* The end of what happens to slot j wakes process_wait_queue.
Announcing(j) ==
    \/ phase[j] \in {"exiting", "exited"}
    \/ phase[j] \in {"claimed", "releasing"} /\ cancel[j] # "done"

\* A process asleep in wait with something to do has a wake-up coming: some
\* record is between its exit and its publication, or being released; also when
\* the caller of a release was cancelled, whose own exit then wakes.  The one
\* exception is a process that slept when process_set_reaper named it: the call
\* wakes nobody, so orphans that were zombies by then wait for the next wake-up.
NoLostWakeup ==
    \A i \in asleep : WaitReady(pid[i], wait[i]) =>
        \/ \E j \in ProcessSlots : Announcing(j)
        \/ appointed /\ pid[i] = system_reaper_pid

\* Revocation is final: the members of a revoked lifetime are only the ones it
\* had, apart from the root that was already reserved.
RevokedOnlyShrinks ==
    [][\A t \in 1 .. MaxToken : life[t].live /\ life[t].revoked =>
          /\ life'[t].live => life'[t].revoked
          /\ life'[t].members <= life[t].members]_vars

\* Drain completes: a revoked kernel lifetime loses every member, whatever
\* they were doing (loading, running, waiting, exited), and is released, unless a
\* tick cancelled a killed process that was forking or collecting a member: that
\* record, which no drain pass can reap or kill, stays a member.
DrainCompletes ==
    \A t \in 1 .. MaxToken :
        (life[t].live /\ ~life[t].user /\ life[t].revoked) ~>
            \/ ~life[t].live
            \/ \E i \in Members(t) : cancel[i] = "done"

\* The wake-ups of a kill are there "so the initial thread can complete
\* process-wide teardown" (process_record_user_fault): a killed process exits.
KilledExits ==
    \A i \in ProcessSlots : (phase[i] = "running" /\ killed[i]) ~> phase[i] # "running"

\* Lifetimes know their members: counts are exact from reservation to release, and
\* a scope is held by the process that may use it.
LifetimesSound ==
    /\ TypeOK
    /\ MembersExact
    /\ ScopeOwnership

\* An exit is reaped at most once and reported: no two reapers have one process, a
\* process without its reaper lost it to a cancellation, and no parent sleeps while
\* it has a child to collect.
ReapedOnce ==
    /\ SingleReaper
    /\ NoLostWakeup
=============================================================================

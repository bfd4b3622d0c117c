--------------------------- MODULE PthreadRecords ---------------------------
(***************************************************************************)
(* Thread lifetimes across the library and the kernel: the record table of *)
(* userspace/lib/src/posix_pthread.c, which owns the stacks, and the user  *)
(* thread slots of kernel/src/process.c.  The record lock is never held    *)
(* across a system call, so records are guarded by two flags: creating and *)
(* claimed.  Threads are named by their ids; the initial thread is 1.      *)
(***************************************************************************)
EXTENDS Naturals, FiniteSets, FiniteSetsExt

CONSTANTS
    MaxTid,                     \* thread ids are not reused: 2..MaxTid
    PTHREAD_MAX_RECORDS,
    PROCESS_MAX_USER_THREADS,
    Stacks                      \* address ranges mmap can return

PthreadRecordsAssumption ==
    MaxTid \in Nat \ {0} /\ PTHREAD_MAX_RECORDS \in Nat /\ PROCESS_MAX_USER_THREADS \in Nat

Tids == 1..MaxTid
Workers == 2..MaxTid
Records == 1..PTHREAD_MAX_RECORDS
None == 0

VARIABLES
    rec,        \* pthread_records
    kernel,     \* kernel[t]: "none", "active", "exited" or "gone" of the kernel's slot
    next_thread_id,
    mapped,     \* the stacks that are mapped
    stack,      \* stack[t]: the stack thread t was started on
    pc,         \* pc[t]: where thread t is in the library
    op,         \* op[t]: the operation that follows its reaping pass
    arg,        \* arg[t]: the thread it joins or detaches
    cur,        \* cur[t]: the record it looks at
    held        \* held[t]: a stack it has mapped or is about to unmap

vars == <<rec, kernel, next_thread_id, mapped, stack, pc, op, arg, cur, held>>

Clear == [used |-> FALSE, creating |-> FALSE, claimed |-> FALSE, tid |-> None,
          stack |-> None, detached |-> FALSE]

Init ==
    /\ rec = [r \in Records |-> Clear]
    /\ kernel = [t \in Tids |-> IF t = 1 THEN "active" ELSE "none"]
    /\ next_thread_id = 2
    /\ mapped = {}
    /\ stack = [t \in Tids |-> None]
    /\ pc = [t \in Tids |-> IF t = 1 THEN "run" ELSE "none"]
    /\ op = [t \in Tids |-> "run"]
    /\ arg = [t \in Tids |-> None] /\ cur = [t \in Tids |-> None] /\ held = [t \in Tids |-> None]

Goto(t, l) == pc' = [pc EXCEPT ![t] = l]

\* pthread_record_find
Found(u) == {r \in Records : rec[r].used /\ rec[r].tid = u}

-----------------------------------------------------------------------------
(* pthread_reap_detached, at the start of create, join and detach.         *)

start(t, o, u) ==
    /\ pc[t] = "run"
    /\ op' = [op EXCEPT ![t] = o] /\ arg' = [arg EXCEPT ![t] = u]
    /\ cur' = [cur EXCEPT ![t] = 1]
    /\ Goto(t, "reap")
    /\ UNCHANGED <<rec, kernel, next_thread_id, mapped, stack, held>>

Reapable(t, r) ==
    /\ rec[r].used /\ ~rec[r].creating /\ ~rec[r].claimed /\ rec[r].tid # t
    /\ rec[r].detached

\* One record of the scan: it is claimed or skipped; the pass ends after the last.
reap(t) ==
    /\ pc[t] = "reap"
    /\ IF cur[t] > PTHREAD_MAX_RECORDS
       THEN Goto(t, op[t]) /\ UNCHANGED <<rec, cur>>
       ELSE IF Reapable(t, cur[t])
       THEN /\ rec' = [rec EXCEPT ![cur[t]].claimed = TRUE]
            /\ Goto(t, "reap_join") /\ UNCHANGED cur
       ELSE cur' = [cur EXCEPT ![t] = @ + 1] /\ UNCHANGED <<rec, pc>>
    /\ UNCHANGED <<kernel, next_thread_id, mapped, stack, op, arg, held>>

\* srv_thread_status and srv_thread_join of an exited thread; a thread that still
\* runs, or an interrupted join, leaves the record for a later pass.
reap_join(t) ==
    LET u == rec[cur[t]].tid IN
    /\ pc[t] = "reap_join"
    /\ \/ /\ kernel[u] = "exited"
          /\ kernel' = [kernel EXCEPT ![u] = "gone"]
          /\ Goto(t, "reap_cleanup") /\ UNCHANGED <<rec, cur>>
       \/ /\ rec' = [rec EXCEPT ![cur[t]].claimed = FALSE]
          /\ cur' = [cur EXCEPT ![t] = @ + 1]
          /\ Goto(t, "reap") /\ UNCHANGED kernel
    /\ UNCHANGED <<next_thread_id, mapped, stack, op, arg, held>>

\* A mutant: the record is cleared before its stack is read.
CleanupFirst(t, l) ==
    /\ held' = [held EXCEPT ![t] = None]
    /\ rec' = [rec EXCEPT ![cur[t]] = Clear]
    /\ Goto(t, l)

\* pthread_record_cleanup under the lock: the stack is remembered, the record
\* cleared.
Cleanup(t, l) ==
    /\ held' = [held EXCEPT ![t] = rec[cur[t]].stack]
    /\ rec' = [rec EXCEPT ![cur[t]] = Clear]
    /\ Goto(t, l)

reap_cleanup(t) ==
    /\ pc[t] = "reap_cleanup" /\ Cleanup(t, "reap_munmap")
    /\ UNCHANGED <<kernel, next_thread_id, mapped, stack, op, arg, cur>>

Munmap(t) ==
    /\ mapped' = mapped \ {held[t]}
    /\ held' = [held EXCEPT ![t] = None]

reap_munmap(t) ==
    /\ pc[t] = "reap_munmap" /\ Munmap(t)
    /\ cur' = [cur EXCEPT ![t] = @ + 1] /\ Goto(t, "reap")
    /\ UNCHANGED <<rec, kernel, next_thread_id, stack, op, arg>>

-----------------------------------------------------------------------------
(* pthread_create.                                                         *)

\* mmap of the stack, then pthread_record_alloc; a full table unmaps it again.
create_map(t) ==
    /\ pc[t] = "create"
    /\ \/ \E s \in Stacks \ mapped : /\ mapped' = mapped \cup {s}
                                     /\ held' = [held EXCEPT ![t] = s]
                                     /\ Goto(t, "alloc")
       \/ Goto(t, "run") /\ UNCHANGED <<mapped, held>>
    /\ UNCHANGED <<rec, kernel, next_thread_id, stack, op, arg, cur>>

create_alloc(t) ==
    LET free == {r \in Records : ~rec[r].used} IN
    /\ pc[t] = "alloc"
    /\ IF free = {} THEN Goto(t, "munmap") /\ UNCHANGED <<rec, cur, held>>
       ELSE /\ cur' = [cur EXCEPT ![t] = Min(free)]
            /\ \E d \in BOOLEAN :
                  rec' = [rec EXCEPT ![Min(free)] = [Clear EXCEPT !.used = TRUE,
                             !.creating = TRUE, !.stack = held[t], !.detached = d]]
            /\ held' = [held EXCEPT ![t] = None]
            /\ Goto(t, "kcreate")
    /\ UNCHANGED <<kernel, next_thread_id, mapped, stack, op, arg>>

\* process_thread_create: a slot and an id, or failure and cleanup.
create_kernel(t) ==
    /\ pc[t] = "kcreate"
    /\ IF /\ next_thread_id <= MaxTid
          /\ Cardinality({u \in Workers : kernel[u] \in {"active", "exited"}})
                < PROCESS_MAX_USER_THREADS
       THEN LET u == next_thread_id IN
            /\ next_thread_id' = u + 1
            /\ kernel' = [kernel EXCEPT ![u] = "active"]
            /\ stack' = [stack EXCEPT ![u] = rec[cur[t]].stack]
            /\ pc' = [pc EXCEPT ![t] = "publish", ![u] = "trampoline"]
            /\ cur' = [cur EXCEPT ![u] = cur[t]]
            /\ arg' = [arg EXCEPT ![t] = u]
            /\ UNCHANGED <<rec, held>>
       ELSE Cleanup(t, "munmap") /\ UNCHANGED <<kernel, next_thread_id, stack, cur, arg>>
    /\ UNCHANGED <<mapped, op>>

\* pthread_start_trampoline: the thread may enter before its creator publishes it.
trampoline(t) ==
    /\ pc[t] = "trampoline"
    /\ rec' = [rec EXCEPT ![cur[t]].tid = t]
    /\ Goto(t, "run")
    /\ UNCHANGED <<kernel, next_thread_id, mapped, stack, op, arg, cur, held>>

create_publish(t) ==
    /\ pc[t] = "publish"
    /\ rec' = [rec EXCEPT ![cur[t]].tid = arg[t], ![cur[t]].creating = FALSE]
    /\ Goto(t, "run")
    /\ UNCHANGED <<kernel, next_thread_id, mapped, stack, op, arg, cur, held>>

munmap(t) ==
    /\ pc[t] = "munmap" /\ Munmap(t) /\ Goto(t, "run")
    /\ UNCHANGED <<rec, kernel, next_thread_id, stack, op, arg, cur>>

-----------------------------------------------------------------------------
(* pthread_join, pthread_detach and pthread_exit.                          *)

\* A mutant: a second joiner, or a joiner of a detached thread, is let in.
join_unclaimed(t) ==
    /\ pc[t] = "join"
    /\ \/ Found(arg[t]) = {} /\ Goto(t, "run") /\ UNCHANGED <<rec, cur>>
       \/ \E r \in Found(arg[t]) :
             /\ ~rec[r].creating
             /\ cur' = [cur EXCEPT ![t] = r]
             /\ Goto(t, "kjoin") /\ UNCHANGED rec
    /\ UNCHANGED <<kernel, next_thread_id, mapped, stack, op, arg, held>>

\* EINVAL without a record, or with one that is claimed or detached; a record
\* under creation makes the joiner yield and look again.
join_claim(t) ==
    /\ pc[t] = "join"
    /\ \/ /\ \A r \in Found(arg[t]) : rec[r].claimed \/ rec[r].detached
          /\ Goto(t, "run") /\ UNCHANGED <<rec, cur>>
       \/ \E r \in Found(arg[t]) :
             /\ ~rec[r].claimed /\ ~rec[r].detached /\ ~rec[r].creating
             /\ rec' = [rec EXCEPT ![r].claimed = TRUE]
             /\ cur' = [cur EXCEPT ![t] = r]
             /\ Goto(t, "kjoin")
    /\ UNCHANGED <<kernel, next_thread_id, mapped, stack, op, arg, held>>

\* A mutant: the joiner does not wait for a running thread.
join_running(t) ==
    /\ pc[t] = "kjoin" /\ kernel[arg[t]] \in {"active", "exited"}
    /\ kernel' = [kernel EXCEPT ![arg[t]] = IF @ = "exited" THEN "gone" ELSE @]
    /\ Goto(t, "cleanup")
    /\ UNCHANGED <<rec, next_thread_id, mapped, stack, op, arg, cur, held>>

\* process_thread_join blocks until the thread is no longer active; an
\* interrupted call is repeated.
join_kernel(t) ==
    /\ pc[t] = "kjoin" /\ kernel[arg[t]] = "exited"
    /\ kernel' = [kernel EXCEPT ![arg[t]] = "gone"]
    /\ Goto(t, "cleanup")
    /\ UNCHANGED <<rec, next_thread_id, mapped, stack, op, arg, cur, held>>

cleanup(t) ==
    /\ pc[t] = "cleanup" /\ Cleanup(t, "munmap")
    /\ UNCHANGED <<kernel, next_thread_id, mapped, stack, op, arg, cur>>

\* A detached record is reaped by the second pass, or by a later one.
detach(t) ==
    LET mine == {r \in Found(arg[t]) : ~rec[r].claimed /\ ~rec[r].detached} IN
    /\ pc[t] = "detach"
    /\ IF mine = {} THEN Goto(t, "run") /\ UNCHANGED <<rec, op, cur>>
       ELSE /\ rec' = [r \in Records |-> IF r \in mine THEN [rec[r] EXCEPT !.detached = TRUE]
                                         ELSE rec[r]]
            /\ op' = [op EXCEPT ![t] = "run"]
            /\ cur' = [cur EXCEPT ![t] = 1]
            /\ Goto(t, "reap")
    /\ UNCHANGED <<kernel, next_thread_id, mapped, stack, arg, held>>

\* process_thread_exit of a worker.
exit(t) ==
    /\ pc[t] = "run" /\ t \in Workers
    /\ kernel' = [kernel EXCEPT ![t] = "exited"]
    /\ Goto(t, "gone")
    /\ UNCHANGED <<rec, next_thread_id, mapped, stack, op, arg, cur, held>>

Next ==
    \E t \in Tids :
        \/ start(t, "create", None)
        \/ \E u \in Workers : \/ u # t /\ kernel[u] # "none" /\ start(t, "join", u)
                              \/ kernel[u] # "none" /\ start(t, "detach", u)
        \/ reap(t) \/ reap_join(t) \/ reap_cleanup(t) \/ reap_munmap(t)
        \/ create_map(t) \/ create_alloc(t) \/ create_kernel(t) \/ trampoline(t)
        \/ create_publish(t) \/ munmap(t)
        \/ join_claim(t) \/ join_kernel(t) \/ cleanup(t) \/ detach(t) \/ exit(t)

Spec == Init /\ [][Next]_vars

-----------------------------------------------------------------------------
(* Properties.                                                             *)

\* Types; a free record is blank: nobody writes into a record it has lost.
TypeOK ==
    /\ mapped \subseteq Stacks
    /\ \A r \in Records : ~rec[r].used => rec[r] = Clear
    /\ \A t \in Tids : held[t] \in Stacks \cup {None} /\ cur[t] \in 0..PTHREAD_MAX_RECORDS + 1

\* A thread that has not left the kernel runs on its own mapped stack: no join,
\* reaping pass, failed creation or reuse of a record unmaps it.
StackOwned ==
    \A t \in Workers : kernel[t] = "active" =>
        /\ stack[t] \in mapped
        /\ \A u \in Workers : kernel[u] = "active" /\ u # t => stack[u] # stack[t]
        /\ \A u \in Tids : held[u] # stack[t]

\* A record and the kernel's slot live and die together: a published record names
\* a slot that is still there, unless the claimant is just retiring both, and every
\* slot has its record.
RecordMatchesKernel ==
    /\ \A r \in Records : rec[r].used /\ ~rec[r].creating =>
           \/ kernel[rec[r].tid] \in {"active", "exited"}
           \/ rec[r].claimed /\ kernel[rec[r].tid] = "gone"
    /\ \A t \in Workers : kernel[t] \in {"active", "exited"} =>
           \E r \in Records : rec[r].used /\ rec[r].stack = stack[t] /\ rec[r].tid \in {t, None}

\* No stack leaks: it belongs to a record, or to the call that maps or unmaps it.
NoStackLeak ==
    \A s \in mapped : \/ \E r \in Records : rec[r].used /\ rec[r].stack = s
                      \/ \E t \in Tids : held[t] = s

\* Threads, records and stacks end together: no running thread loses its stack, no
\* record outlives its thread, and no stack is forgotten.
RecordsSound ==
    /\ TypeOK
    /\ StackOwned
    /\ RecordMatchesKernel
    /\ NoStackLeak
=============================================================================

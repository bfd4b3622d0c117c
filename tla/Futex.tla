------------------------------- MODULE Futex -------------------------------
(***************************************************************************)
(* The kernel's futex table (process_futex_* in kernel/src/process.c): a   *)
(* small global table binds (process, address) pairs to scheduler wait     *)
(* queues.  An entry is taken over when nobody uses it, so a thread that   *)
(* is inside process_futex_wait but not parked must hold its binding.      *)
(***************************************************************************)
EXTENDS Naturals, FiniteSets, FiniteSetsExt

CONSTANTS
    Threads, Procs, Owner,      \* Owner[t]: the process of thread t
    Pages,                      \* Pages[p]: the futex words of process p, one per page
    PROCESS_MAX_FUTEXES,
    MaxValue                    \* words hold 0..MaxValue

ASSUME FutexAssumption ==
    /\ IsFiniteSet(Threads) /\ Owner \in [Threads -> Procs]
    /\ PROCESS_MAX_FUTEXES \in Nat \ {0} /\ MaxValue \in Nat

Entries == 1..PROCESS_MAX_FUTEXES
Values == 0..MaxValue
NoEntry == 0

VARIABLES
    futexes,    \* futexes[e]: used, process, address, invalidated, active_waits
    where,      \* where[t]: "user", "round" in the loop of process_futex_wait, "asleep"
    wait,       \* wait[t]: address, expected value and entry of its wait
    mapped,     \* mapped[p]: the pages of p that are mapped
    mem,        \* mem[p][a]: the futex word
    stored      \* <<p, a>> in stored: changed since the last wake of all waiters

vars == <<futexes, where, wait, mapped, mem, stored>>

Unused == [used |-> FALSE, process |-> 0, address |-> 0, invalidated |-> FALSE, active_waits |-> 0]
NoWait == [address |-> 0, expected |-> 0, futex |-> NoEntry]

Init ==
    /\ futexes = [e \in Entries |-> Unused]
    /\ where = [t \in Threads |-> "user"]
    /\ wait = [t \in Threads |-> NoWait]
    /\ mapped = [p \in Procs |-> Pages[p]]
    /\ mem = [p \in Procs |-> [a \in Pages[p] |-> 0]]
    /\ stored = {}

\* The queue of an entry.
Parked(e) == {t \in Threads : where[t] = "asleep" /\ wait[t].futex = e}

Bound(p, a) == {e \in Entries : /\ futexes[e].used /\ ~futexes[e].invalidated
                                /\ futexes[e].process = p /\ futexes[e].address = a}

\* A mutant: an empty queue is enough to take an entry over.
FreeQueueOnly == {e \in Entries : ~futexes[e].used \/ Parked(e) = {}}

Free == {e \in Entries : \/ ~futexes[e].used
                         \/ futexes[e].active_waits = 0 /\ Parked(e) = {}}

\* process_futex_find with create: the bound entry, or the first free one.
FindOrCreate(p, a) == IF Bound(p, a) # {} THEN Bound(p, a) ELSE {e \in Free : e = Min(Free)}

\* One more call holds entry f, which is bound to (p, a) now if it was not.
Reserved(f, p, a) ==
    IF Bound(p, a) # {} THEN [f EXCEPT !.active_waits = @ + 1]
    ELSE [used |-> TRUE, process |-> p, address |-> a, invalidated |-> FALSE, active_waits |-> 1]

\* scheduler_wake_count and scheduler_wake_all on the threads T.
Released(T) == where' = [t \in Threads |-> IF t \in T /\ where[t] = "asleep" THEN "round" ELSE where[t]]

\* process_futex_read
Readable(t) ==
    /\ ~futexes[wait[t].futex].invalidated
    /\ wait[t].address \in mapped[Owner[t]]
Value(t) == mem[Owner[t]][wait[t].address]

-----------------------------------------------------------------------------

\* The process changes a futex word; stored remembers that a wake is due.
user_store(p, a, v) ==
    /\ a \in mapped[p] /\ mem[p][a] # v
    /\ mem' = [mem EXCEPT ![p][a] = v]
    /\ stored' = stored \cup {<<p, a>>}
    /\ UNCHANGED <<futexes, where, wait, mapped>>

\* process_futex_wait up to the point where interrupts are enabled; a full
\* table, a changed value and a bad address return at once.
process_futex_wait(t, a) ==
    LET p == Owner[t] IN
    /\ where[t] = "user" /\ a \in mapped[p]
    /\ \E e \in FindOrCreate(p, a) :
          /\ futexes' = [futexes EXCEPT ![e] = Reserved(@, p, a)]
          /\ wait' = [wait EXCEPT ![t] = [address |-> a, expected |-> mem[p][a], futex |-> e]]
    /\ where' = [where EXCEPT ![t] = "round"]
    /\ UNCHANGED <<mapped, mem, stored>>

\* A mutant: the value is not looked at again before parking.
wait_park_unchecked(t) ==
    /\ where[t] = "round" /\ Readable(t)
    /\ where' = [where EXCEPT ![t] = "asleep"]
    /\ UNCHANGED <<futexes, wait, mapped, mem, stored>>

\* scheduler_wait_timeout with process_futex_wait_ready: the condition is
\* evaluated once more in the step that parks the thread.
wait_park(t) ==
    /\ where[t] = "round" /\ Readable(t) /\ Value(t) = wait[t].expected
    /\ where' = [where EXCEPT ![t] = "asleep"]
    /\ UNCHANGED <<futexes, wait, mapped, mem, stored>>

\* The loop of process_futex_wait ends: cancelled, unmapped, changed, signalled
\* or timed out, any of which may have happened.
wait_return(t) ==
    /\ where[t] = "round"
    /\ futexes' = [futexes EXCEPT ![wait[t].futex].active_waits = @ - 1]
    /\ where' = [where EXCEPT ![t] = "user"]
    /\ wait' = [wait EXCEPT ![t] = NoWait]
    /\ UNCHANGED <<mapped, mem, stored>>

\* A parked thread is readied by its deadline.
wait_timeout(t) ==
    /\ where[t] = "asleep" /\ Released({t})
    /\ UNCHANGED <<futexes, wait, mapped, mem, stored>>

\* process_futex_wake of one waiter or of all of them.
process_futex_wake(p, a, all) ==
    LET queue == UNION {Parked(e) : e \in Bound(p, a)} IN
    /\ \E T \in SUBSET queue :
          /\ IF all \/ queue = {} THEN T = queue ELSE Cardinality(T) = 1
          /\ Released(T)
    /\ stored' = IF all THEN stored \ {<<p, a>>} ELSE stored
    /\ UNCHANGED <<futexes, wait, mapped, mem>>

\* process_futex_wake_process: a signal or an exiting worker.
process_futex_wake_process(p) ==
    /\ Released(UNION {Parked(e) : e \in {f \in Entries : futexes[f].used /\ futexes[f].process = p}})
    /\ UNCHANGED <<futexes, wait, mapped, mem, stored>>

\* A mutant: the waiters of the page stay parked.
invalidate_silent(p, a) ==
    /\ a \in mapped[p]
    /\ futexes' = [e \in Entries |-> [futexes[e] EXCEPT !.invalidated =
                      @ \/ (futexes[e].used /\ futexes[e].process = p /\ futexes[e].address = a)]]
    /\ mapped' = [mapped EXCEPT ![p] = @ \ {a}]
    /\ stored' = stored \ {<<p, a>>}
    /\ UNCHANGED <<where, wait, mem>>

\* process_futex_invalidate_page, from munmap, mprotect and page replacement.
process_futex_invalidate_page(p, a) ==
    LET gone == {e \in Entries : /\ futexes[e].used /\ futexes[e].process = p
                                 /\ futexes[e].address = a} IN
    /\ a \in mapped[p]
    /\ futexes' = [e \in Entries |-> IF e \in gone THEN [futexes[e] EXCEPT !.invalidated = TRUE]
                                     ELSE futexes[e]]
    /\ Released(UNION {Parked(e) : e \in gone})
    /\ mapped' = [mapped EXCEPT ![p] = @ \ {a}]
    /\ stored' = stored \ {<<p, a>>}
    /\ UNCHANGED <<wait, mem>>

\* A new mapping at the same address starts as a zero page.
map_page(p, a) ==
    /\ a \in Pages[p] \ mapped[p]
    /\ mapped' = [mapped EXCEPT ![p] = @ \cup {a}]
    /\ mem' = [mem EXCEPT ![p][a] = 0]
    /\ UNCHANGED <<futexes, where, wait, stored>>

\* process_exit: scheduler_kill_user_threads, then process_futex_cleanup_process;
\* the slot is used again by a fresh process.
process_exit(p) ==
    /\ futexes' = [e \in Entries |-> IF futexes[e].used /\ futexes[e].process = p THEN Unused
                                     ELSE futexes[e]]
    /\ where' = [t \in Threads |-> IF Owner[t] = p THEN "user" ELSE where[t]]
    /\ wait' = [t \in Threads |-> IF Owner[t] = p THEN NoWait ELSE wait[t]]
    /\ mapped' = [mapped EXCEPT ![p] = Pages[p]]
    /\ mem' = [mem EXCEPT ![p] = [a \in Pages[p] |-> 0]]
    /\ stored' = {s \in stored : s[1] # p}

Next ==
    \/ \E p \in Procs : \E a \in Pages[p] :
          \/ \E v \in Values : user_store(p, a, v)
          \/ \E all \in BOOLEAN : process_futex_wake(p, a, all)
          \/ process_futex_invalidate_page(p, a)
          \/ map_page(p, a)
    \/ \E p \in Procs : process_futex_wake_process(p) \/ process_exit(p)
    \/ \E t \in Threads :
          \/ \E a \in Pages[Owner[t]] : process_futex_wait(t, a)
          \/ wait_park(t) \/ wait_return(t) \/ wait_timeout(t)

Spec == Init /\ [][Next]_vars

-----------------------------------------------------------------------------
(* Properties.                                                             *)

\* The reservation of an entry is the number of calls that hold it, so that it
\* can neither be taken over early nor leak.
TypeOK ==
    /\ where \in [Threads -> {"user", "round", "asleep"}]
    /\ \A t \in Threads : wait[t].futex \in IF where[t] = "user" THEN {NoEntry} ELSE Entries
    /\ \A e \in Entries : futexes[e].active_waits =
           Cardinality({t \in Threads : wait[t].futex = e})

\* A thread inside process_futex_wait keeps the binding it found: its entry still
\* names its process and address until the call returns.
BindingKept ==
    \A t \in Threads : where[t] # "user" =>
        LET f == futexes[wait[t].futex] IN
        f.used /\ f.process = Owner[t] /\ f.address = wait[t].address

\* A parked thread is in the queue that process_futex_wake of its address finds.
WakeFinds ==
    \A t \in Threads : where[t] = "asleep" => Bound(Owner[t], wait[t].address) = {wait[t].futex}

\* No wake-up is lost: a thread is parked on a word that no longer has the
\* value it expects only while the writer has yet to wake the waiters.
NoLostWakeup ==
    \A t \in Threads : where[t] = "asleep" /\ Value(t) # wait[t].expected =>
        <<Owner[t], wait[t].address>> \in stored

\* The table serves its waiters through reuse, invalidation and teardown: bindings
\* are kept, a wake finds its waiters, and nobody sleeps on a changed word.
FutexSound ==
    /\ TypeOK
    /\ BindingKept
    /\ WakeFinds
    /\ NoLostWakeup
=============================================================================

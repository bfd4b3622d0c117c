------------------------------ MODULE Signals ------------------------------
(***************************************************************************)
(* Signals inside one process (kernel/src/process.c): process-wide         *)
(* dispositions, a shared and a per-thread pending set, and per-thread     *)
(* masks.  Threads come and go; every operation runs with interrupts       *)
(* masked, except that creating a worker yields between the reservation of *)
(* its slot and its publication.                                           *)
(***************************************************************************)
EXTENDS FiniteSets

CONSTANTS
    Main, Workers,      \* the initial thread and the worker slots
    Fatal,              \* supported signals whose default is to kill
    Ignored,            \* SRV_SIGNAL_CHLD and SRV_SIGNAL_WINCH
    Kill                \* SRV_SIGNAL_KILL: neither blocked nor configured

SignalsAssumption ==
    /\ Main \notin Workers /\ Fatal \cap Ignored = {}
    /\ Kill \notin Fatal \cup Ignored

Threads == Workers \cup {Main}
Supported == Fatal \cup Ignored
Sigs == Supported \cup {Kill}
\* The masks a caller passes: any without SIGKILL, and the full one.
Masks == SUBSET Supported \cup {Sigs}
NoThread == "none"

VARIABLES
    state,      \* state[t]: "free", "reserved", "active" or "exited"; the initial thread
                \* also "loading" before its first instruction, "execing", and "finishing"
                \* once the last worker is gone
    creator,    \* creator[t]: the thread that is creating t
    action,     \* action[s]: "default", "catch" or "ignore"
    mask,       \* mask[t]: main_signal_mask, or signal_mask of the worker
    local,      \* local[t]: main_pending_signals, or pending_signals of the worker
    shared,     \* pending_signals of the process
    killed,
    raw         \* history: raw[t], the signals that the mask t started with leaves
                \* unexamined: SIGKILL blocked, or one that was pending already

vars == <<state, creator, action, mask, local, shared, killed, raw>>

\* f at the initial thread, and nothing at the workers.
AtMain(f) == [t \in Threads |-> IF t = Main THEN f ELSE {}]

\* alloc_process_lifetime: the child has the ignored signals and the mask of its
\* creator, which may itself have started with SIGKILL blocked.
Init ==
    /\ state = [t \in Threads |-> IF t = Main THEN "loading" ELSE "free"]
    /\ creator = [t \in Threads |-> NoThread]
    /\ action \in [Supported -> {"default", "ignore"}]
    /\ mask \in {AtMain(m) : m \in Masks}
    /\ local = AtMain({}) /\ shared = {} /\ killed = FALSE
    /\ raw = [t \in Threads |-> mask[t] \cap {Kill}]

Caught(s) == s \in Supported /\ action[s] = "catch"
Discarded(s) == s \in Supported /\ action[s] = "ignore"
Defaulted(s) == ~Caught(s) /\ ~Discarded(s)

\* The threads that are neither retired nor unpublished.
Live(t) == state[t] \in {"active", "loading", "execing"}

\* t executes and may make a system call.
Running(t) == state[t] = "active" /\ \A w \in Workers : creator[w] # t

\* process_visible_pending
Visible(t) == shared \cup local[t]

Examined(S) == raw' = [t \in Threads |-> raw[t] \ S]

\* process_consume_signal_bit: the thread's own bit before the shared one.
Consume(t, s) ==
    IF s \in local[t] THEN local' = [local EXCEPT ![t] = @ \ {s}] /\ UNCHANGED <<shared, raw>>
    ELSE shared' = shared \ {s} /\ Examined({s}) /\ UNCHANGED local

\* process_discard_signals
Discard(S) ==
    /\ shared' = shared \ S
    /\ local' = [t \in Threads |-> local[t] \ S]
    /\ Examined(S)

\* process_all_threads_block_signal
AllBlock(s) == \A t \in Threads : Live(t) => s \in mask[t]

-----------------------------------------------------------------------------
(* Sending.                                                                *)

\* process_queue_signal_locked: from another process, the kernel or a child.
process_queue_signal(s) ==
    /\ ~Discarded(s)
    /\ IF Caught(s) \/ AllBlock(s) THEN shared' = shared \cup {s} /\ UNCHANGED killed
       ELSE UNCHANGED shared /\ killed' = (s \notin Ignored)
    /\ UNCHANGED <<state, creator, action, mask, local, raw>>

\* process_thread_signal: a joinable thread that has exited receives nothing.
process_thread_signal(t, s) ==
    /\ \E caller \in Threads : Running(caller)
    /\ state[t] = "active" /\ ~Discarded(s)
    /\ IF Caught(s) \/ s \in mask[t]
       THEN local' = [local EXCEPT ![t] = @ \cup {s}] /\ UNCHANGED killed
       ELSE UNCHANGED local /\ killed' = (s \notin Ignored)
    /\ UNCHANGED <<state, creator, action, mask, shared, raw>>

-----------------------------------------------------------------------------
(* Masks and dispositions.                                                 *)

\* process_record_user_fault: a synchronous fault is not resumed.
process_record_user_fault(t) ==
    /\ Running(t) /\ killed' = TRUE
    /\ UNCHANGED <<state, creator, action, mask, local, shared, raw>>

\* A mutant: only the thread's own bits are looked at after unblocking.
SetMaskLocal(t, m) ==
    LET due == {s \in local[t] \ m : Defaulted(s)} IN
    /\ mask' = [mask EXCEPT ![t] = m \ {Kill}]
    /\ local' = [local EXCEPT ![t] = @ \ due]
    /\ killed' = (due \ Ignored # {})
    /\ raw' = [raw EXCEPT ![t] = {}]
    /\ UNCHANGED shared

\* process_signal_mask_current_locked: default-ignored signals that become
\* visible are dropped, the first fatal one is consumed and kills.
SetMask(t, m) ==
    LET next == m \ {Kill}
        due == {s \in Visible(t) \ next : Defaulted(s)}
        dropped == due \cap Ignored
        fatal == due \ Ignored
    IN
    /\ mask' = [mask EXCEPT ![t] = next]
    /\ raw' = [raw EXCEPT ![t] = {}]
    /\ \E s \in IF fatal = {} THEN {Kill} ELSE fatal :
          LET mine == (fatal \cap {s}) \cap local[t] IN
          /\ local' = [local EXCEPT ![t] = (@ \ dropped) \ mine]
          /\ shared' = (shared \ dropped) \ (IF mine = {} THEN fatal \cap {s} ELSE {})
    /\ killed' = (fatal # {})

process_signal_mask_current(t, m) ==
    /\ Running(t) /\ SetMask(t, m)
    /\ UNCHANGED <<state, creator, action>>

\* process_prepare_signal_default_view: the pending bit the default disposition
\* acts on, that of an eligible thread before the shared one.
DefaultVictims(s) ==
    {t \in Threads : Live(t) /\ s \notin mask[t] /\ s \in local[t]}
DefaultShared(s) ==
    s \in shared /\ \E t \in Threads : Live(t) /\ s \notin mask[t]

\* A mutant: an ignored-by-default signal stays pending.
SetDefaultKept(s) ==
    /\ killed' = (s \notin Ignored /\ (DefaultVictims(s) # {} \/ DefaultShared(s)))
    /\ UNCHANGED <<local, shared, raw>>

SetDefault(s) ==
    IF s \in Ignored THEN Discard({s}) /\ UNCHANGED killed
    ELSE \/ /\ DefaultVictims(s) # {}
            /\ \E t \in DefaultVictims(s) : local' = [local EXCEPT ![t] = @ \ {s}]
            /\ killed' = TRUE /\ UNCHANGED <<shared, raw>>
         \/ /\ DefaultVictims(s) = {} /\ DefaultShared(s)
            /\ shared' = shared \ {s}
            /\ killed' = TRUE /\ UNCHANGED <<local, raw>>
         \/ /\ DefaultVictims(s) = {} /\ ~DefaultShared(s)
            /\ UNCHANGED <<local, shared, killed, raw>>

process_signal_config_current(t, s, a) ==
    /\ Running(t)
    /\ action' = [action EXCEPT ![s] = a]
    /\ CASE a = "catch" -> UNCHANGED <<local, shared, killed, raw>>
         [] a = "ignore" -> Discard({s}) /\ UNCHANGED killed
         [] a = "default" -> SetDefault(s)
    /\ UNCHANGED <<state, creator, mask>>

\* process_signal_poll_current and process_signal_consume_current take a pending
\* signal, blocked or not, for the library's handlers or for sigwait.
process_signal_consume_current(t, s) ==
    /\ Running(t) /\ s \in Visible(t) /\ Consume(t, s)
    /\ UNCHANGED <<state, creator, action, mask, killed>>

\* process_clear_current_signal: wait has collected the last zombie.
process_clear_current_signal(t, s) ==
    /\ Running(t) /\ s \in shared \cap Ignored
    /\ shared' = shared \ {s} /\ Examined({s})
    /\ UNCHANGED <<state, creator, action, mask, local, killed>>

\* process_spawn_exec_scoped: the dispositions in D are reset and their pending bits
\* dropped, then the caller's mask is stored as it is.  Signals queued while the
\* image was loading are not looked at again.
process_spawn_exec_scoped(D, m) ==
    /\ state[Main] = "loading"
    /\ state' = [state EXCEPT ![Main] = "active"]
    /\ action' = [s \in Supported |-> IF s \in D THEN "default" ELSE action[s]]
    /\ shared' = shared \ D
    /\ mask' = [mask EXCEPT ![Main] = m]
    /\ raw' = AtMain((m \cap {Kill}) \cup (shared' \ m))
    /\ UNCHANGED <<creator, local, killed>>

\* process_fork: the child catches what its parent catches and keeps the mask.
process_fork(C) ==
    /\ state[Main] = "loading"
    /\ state' = [state EXCEPT ![Main] = "active"]
    /\ action' = [s \in Supported |-> IF s \in C /\ ~Discarded(s) THEN "catch" ELSE action[s]]
    /\ UNCHANGED <<creator, mask, local, shared, killed, raw>>

\* process_exec_replace up to the commit, without workers: caught signals become
\* default, those in D are reset and their pending bits dropped, the mask becomes m.
process_exec_commit(t, D, m) ==
    /\ Running(t) /\ t = Main /\ \A w \in Workers : state[w] = "free"
    /\ state' = [state EXCEPT ![t] = "execing"]
    /\ action' = [s \in Supported |-> IF s \in D \/ action[s] = "catch" THEN "default"
                                      ELSE action[s]]
    /\ Discard(D)
    /\ mask' = [mask EXCEPT ![t] = m]
    /\ UNCHANGED <<creator, killed>>

\* The end of process_exec_replace: what is now pending and unblocked acts
\* before the first instruction of the new image.
process_exec_enter ==
    /\ state[Main] = "execing"
    /\ state' = [state EXCEPT ![Main] = "active"]
    /\ SetMask(Main, mask[Main])
    /\ UNCHANGED <<creator, action>>

-----------------------------------------------------------------------------
(* Threads.                                                                *)

\* process_thread_create_impl up to the point where it may yield.
process_thread_reserve(t, w) ==
    /\ Running(t) /\ state[w] = "free"
    /\ state' = [state EXCEPT ![w] = "reserved"]
    /\ creator' = [creator EXCEPT ![w] = t]
    /\ local' = [local EXCEPT ![w] = {}]
    /\ mask' = [mask EXCEPT ![w] = {}]
    /\ UNCHANGED <<action, shared, killed, raw>>

\* The worker is published with the mask of its creator, or creation fails.
process_thread_publish(w) ==
    /\ state[w] = "reserved"
    /\ \/ /\ state' = [state EXCEPT ![w] = "active"]
          /\ mask' = [mask EXCEPT ![w] = mask[creator[w]]]
          /\ raw' = [raw EXCEPT ![w] = raw[creator[w]]]
       \/ state' = [state EXCEPT ![w] = "free"] /\ UNCHANGED <<mask, raw>>
    /\ creator' = [creator EXCEPT ![w] = NoThread]
    /\ UNCHANGED <<action, local, shared, killed>>

\* process_thread_exit: the initial thread is parked with everything blocked; the
\* pending bits and the mask of an exited worker are not read again.
process_thread_exit(t) ==
    /\ Running(t)
    /\ state' = [state EXCEPT ![t] = "exited"]
    /\ local' = [local EXCEPT ![t] = {}]
    /\ mask' = [mask EXCEPT ![t] = IF t = Main THEN Sigs ELSE {}]
    /\ raw' = [raw EXCEPT ![t] = {}]
    /\ UNCHANGED <<creator, action, shared, killed>>

\* process_last_user_thread_done: the parked initial thread returns to the
\* library, which runs the atexit handlers and exits the process.
process_last_user_thread_done ==
    /\ state[Main] = "exited"
    /\ \A w \in Workers : state[w] # "active"
    /\ state' = [state EXCEPT ![Main] = "finishing"]
    /\ UNCHANGED <<creator, action, mask, local, shared, killed, raw>>

\* process_thread_join or process_thread_detach of an exited worker.
process_thread_join(w) ==
    /\ state[w] = "exited" /\ w \in Workers
    /\ state' = [state EXCEPT ![w] = "free"]
    /\ UNCHANGED <<creator, action, mask, local, shared, killed, raw>>

\* A killed process only exits, whatever is still pending (ProcessTable).
Next ==
    /\ ~killed
    /\ \/ \E s \in Sigs : \/ process_queue_signal(s)
                          \/ \E t \in Threads : process_thread_signal(t, s)
       \/ \E t \in Threads :
             \/ \E m \in Masks : process_signal_mask_current(t, m)
             \/ \E s \in Supported, a \in {"default", "catch", "ignore"} :
                   process_signal_config_current(t, s, a)
             \/ \E s \in Supported : process_signal_consume_current(t, s)
             \/ \E s \in Ignored : process_clear_current_signal(t, s)
             \/ \E D \in SUBSET Supported, m \in Masks : process_exec_commit(t, D, m)
             \/ \E w \in Workers : process_thread_reserve(t, w)
             \/ process_thread_exit(t)
             \/ process_record_user_fault(t)
       \/ \E w \in Workers : process_thread_publish(w) \/ process_thread_join(w)
       \/ \E D \in SUBSET Supported :
             process_fork(D) \/ \E m \in Masks : process_spawn_exec_scoped(D, m)
       \/ process_exec_enter \/ process_last_user_thread_done

Spec == Init /\ [][Next]_vars

-----------------------------------------------------------------------------
(* Properties.                                                             *)

\* The types of masks, pending sets and thread states; a slot has a creator while
\* it is reserved.
TypeOK ==
    /\ state \in [Threads -> {"free", "reserved", "active", "exited", "loading",
                              "execing", "finishing"}]
    /\ creator \in [Threads -> Threads \cup {NoThread}]
    /\ action \in [Supported -> {"default", "catch", "ignore"}]
    /\ mask \in [Threads -> SUBSET Sigs] /\ local \in [Threads -> SUBSET Sigs]
    /\ shared \subseteq Sigs /\ killed \in BOOLEAN /\ raw \in [Threads -> SUBSET Sigs]
    /\ \A t \in Threads : state[t] = "reserved" <=> creator[t] # NoThread

\* The set of signals that process_signal_pending_current reports to t.
Interrupting(t) == Visible(t) \ mask[t]

\* process_signal_mask_current: SIGKILL cannot be blocked.  What the comment does
\* not cover is a mask given to spawn, which is stored as it is: the process, its
\* forks and its workers may block SIGKILL until their first mask call.
KillUnblocked ==
    \A t \in Threads : (state[t] = "active" /\ Kill \in mask[t]) => Kill \in raw[t]

\* A fatal signal with its default disposition acts at once: in a process that
\* is not killed, no thread sees one pending that it does not block.  Only a signal
\* queued while spawn was loading the image, and unblocked by the mask that spawn
\* stored, waits for a mask call of a thread that still has that mask.
FatalActs ==
    ~killed => \A t \in Threads : state[t] = "active" =>
        \A s \in Interrupting(t) \ raw[t] : ~Defaulted(s) \/ s \in Ignored

\* A signal that nothing will handle (ignored, or ignored by default) never keeps
\* interrupting the waits of a thread, with the same exception.
IgnoredNeverInterrupts ==
    \A t \in Threads : state[t] = "active" =>
        \A s \in Interrupting(t) \ raw[t] : ~Discarded(s) /\ (Defaulted(s) => s \notin Ignored)

\* A signal that is left pending is one that cannot act yet: fatal ones act as soon
\* as some thread accepts them, ignored ones interrupt nobody, and no mask call
\* leaves SIGKILL blocked.
SignalsAct ==
    /\ TypeOK
    /\ KillUnblocked
    /\ FatalActs
    /\ IgnoredNeverInterrupts
=============================================================================

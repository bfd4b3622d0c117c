-------------------------- MODULE SchedulerProofs --------------------------
(***************************************************************************)
(* The scheduler for every number of threads, services and processes.      *)
(*                                                                         *)
(* SchedulerSound is not inductive: that the owner of storage is alone and *)
(* alive rests on what the threads are doing, and that the books of the    *)
(* gate are right rests on who may be registered while it has the CPU.     *)
(* Doings says what the place of a thread (pc, ret) tells of its record;   *)
(* Turns says what is known of the current thread and of the owner;        *)
(* Sleepers says which threads may stand on which wait queue.              *)
(***************************************************************************)
EXTENDS Scheduler, FiniteSetTheorems, TLAPS

\* A thread returns from a yield to what it was doing, and from the gate to the
\* call that asked; only a bound thread is safe, and only while it may be
\* suspended by an owner; services never leave the kernel; only the dead are dead.
Sane(t) ==
    /\ pc[t] = "yield" => ret[t] \in {"kernel", "safe", "work", "teardown", "idle"}
    /\ pc[t] = "gate" => ret[t] \in {"work", "dying"}
    /\ Doing(t) \in {"kernel", "leave", "gone", "dead", "idle"} => user[t] = NoProcess
    /\ pc[t] = "dead" <=> state[t] \in {"DEAD", "QUARANTINED"}
    /\ t \in io_user_safe /\ user[t] # NoProcess => Doing(t) \in {"user", "safe", "handoff"}
    /\ t \in io_eligible => Doing(t) \in {"kernel", "idle"} /\ Live(t)
    /\ t \in worker => user[t] # NoProcess

Doings == \A t \in Slots : Sane(t)

\* The idle thread can always run; a current thread that is BLOCKED is about to
\* yield, and so is one that is registered at an open gate; the owner is in its
\* scope and not registered.
Turns ==
    /\ idle_thread \in io_eligible /\ state[idle_thread] \in {"READY", "RUNNING"}
    /\ Doing(idle_thread) = "idle"
    /\ state[current_thread] = "BLOCKED" => pc[current_thread] = "yield"
    /\ io.depth = 0 /\ current_thread \in gate.waiting => pc[current_thread] = "yield"
    /\ io.depth # 0 => Doing(io.owner) \in {"kernel", "work", "teardown"} /\ io.owner \notin gate.waiting

\* No thread of a killed process sleeps on an ordinary queue: a wait tests the
\* flag under the mask, and whoever sets it wakes everybody.  Threads sleep on
\* io_waiters inside scheduler_io_wait only, and only services on theirs.
Sleepers ==
    \A t \in Slots :
        /\ wait.on[t] = "io" => pc[t] = "gate"
        /\ wait.on[t] = "q" => user[t] \notin Killed
        /\ wait.on[t] = "svc" => user[t] = NoProcess

-----------------------------------------------------------------------------
(* The books of the gate and of the wait queues, as values.                *)

LiveStates == {"READY", "RUNNING", "BLOCKED"}
Gates == [waiting : SUBSET Slots, pending : Int, cursor : Slots]
Waits == [on : [Slots -> Queues \cup {NoQueue}], timed : SUBSET Slots, waiters : [Queues -> Int]]

GateOK(g, st) ==
    g \in Gates /\ g.pending = Cardinality(g.waiting) /\ \A t \in g.waiting : st[t] \in LiveStates

On(w, q) == {t \in Slots : w.on[t] = q}

WaitOK(w, st) ==
    /\ w \in Waits
    /\ \A q \in Queues : w.waiters[q] = Cardinality(On(w, q))
    /\ \A t \in Slots : w.on[t] # NoQueue <=> st[t] = "BLOCKED"

LEMMA SlotsFinite ==
    ASSUME NEW S \in SUBSET Slots
    PROVE  IsFiniteSet(S) /\ Cardinality(S) \in Nat
<1>1. IsFiniteSet(Slots)
  BY FS_Interval, SchedulerAssumption DEF Slots, SchedulerAssumption
<1> QED
  BY <1>1, FS_Subset, FS_CardinalityType

LEMMA SlotFacts == 0 \in Slots /\ idle_thread \in Slots /\ idle_thread # 0
BY SchedulerAssumption DEF SchedulerAssumption, Slots, idle_thread

LEMMA NoScope ==
    LET none == [owner |-> 0, depth |-> 0, image |-> NoProcess]
    IN  /\ none \in [owner : Slots, depth : 0 .. MaxDepth, image : Processes \cup {NoProcess}]
        /\ none.depth = 0
BY SlotFacts, SchedulerAssumption DEF SchedulerAssumption

\* Sets of slots are counted by their parts.
LEMMA CountUnion ==
    ASSUME NEW S \in SUBSET Slots, NEW T \in SUBSET Slots
    PROVE  /\ Cardinality(S \cup T) = Cardinality(S) + Cardinality(T \ S)
           /\ Cardinality(S \ T) = Cardinality(S) - Cardinality(T \cap S)
<1>1. IsFiniteSet(S) /\ IsFiniteSet(T) /\ IsFiniteSet(T \ S) /\ IsFiniteSet(S \cap T) /\ IsFiniteSet(S \ T)
  BY SlotsFinite
<1>2. Cardinality(S \cup (T \ S)) = Cardinality(S) + Cardinality(T \ S) - Cardinality(S \cap (T \ S))
  BY <1>1, FS_Union
<1>3. S \cup (T \ S) = S \cup T /\ S \cap (T \ S) = {} /\ T \cap S = S \cap T
  OBVIOUS
<1>4. Cardinality(S \ T) = Cardinality(S) - Cardinality(S \cap T)
  BY <1>1, FS_Difference, Zenon
<1>5. /\ Cardinality({}) = 0 /\ Cardinality(S) \in Nat /\ Cardinality(T \ S) \in Nat
  BY <1>1, FS_EmptySet, FS_CardinalityType
<1>6. Cardinality(S \cup T) = Cardinality(S) + Cardinality(T \ S)
  <2>1. Cardinality(S \cup T) = Cardinality(S) + Cardinality(T \ S) - Cardinality({})
    BY <1>2, <1>3
  <2> QED
    BY <1>5, <2>1
<1> QED
  BY <1>3, <1>4, <1>6

\* io_gate_request counts what it adds.
Requests(g, st, S, g2) ==
    /\ GateOK(g, st) /\ S \in SUBSET Slots /\ \A t \in S : st[t] \in LiveStates
    /\ g2 = io_gate_request(g, S)

LEMMA RequestOK ==
    ASSUME NEW g, NEW st, NEW S, NEW g2, Requests(g, st, S, g2)
    PROVE  GateOK(g2, st) /\ g2.waiting = g.waiting \cup S
<1>1. g \in Gates /\ g.waiting \in SUBSET Slots /\ S \in SUBSET Slots
  BY DEF Requests, GateOK, Gates
<1>2. Cardinality(g.waiting \cup S) = Cardinality(g.waiting) + Cardinality(S \ g.waiting)
  BY <1>1, CountUnion, Zenon
<1>3. Cardinality(S \ g.waiting) \in Nat
  BY <1>1, SlotsFinite
<1>4. /\ g2 \in Gates /\ g2.waiting = g.waiting \cup S
      /\ g2.pending = g.pending + Cardinality(S \ g.waiting)
  <2>1. g.waiting \cup S \in SUBSET Slots /\ g.pending + Cardinality(S \ g.waiting) \in Int
    BY <1>1, <1>3 DEF Gates
  <2>2. PICK W \in SUBSET Slots : W = g.waiting \cup S
    BY <2>1, Zenon
  <2>3. PICK n \in Int : n = g.pending + Cardinality(S \ g.waiting)
    BY <2>1
  <2>4. g2 = [g EXCEPT !.waiting = W, !.pending = n]
    BY <2>2, <2>3 DEF Requests, io_gate_request
  <2>5. g2 \in Gates /\ g2.waiting = W /\ g2.pending = n
    BY <1>1, <2>4, Zenon DEF Gates
  <2> QED
    BY <2>2, <2>3, <2>5
<1> QED
  BY <1>1, <1>2, <1>4 DEF Requests, GateOK

\* io_gate_leave counts what it removes.
LEMMA LeaveOK ==
    ASSUME NEW st, NEW g, GateOK(g, st), NEW S \in SUBSET Slots
    PROVE  /\ GateOK(io_gate_leave(g, S), st)
           /\ io_gate_leave(g, S).waiting = g.waiting \ S
<1>1. g \in Gates /\ g.waiting \in SUBSET Slots
  BY DEF GateOK, Gates
<1>2. Cardinality(g.waiting \ S) = Cardinality(g.waiting) - Cardinality(S \cap g.waiting)
  BY <1>1, CountUnion, Zenon
<1>3. Cardinality(S \cap g.waiting) \in Nat
  BY SlotsFinite
<1>4. /\ io_gate_leave(g, S) \in Gates
      /\ io_gate_leave(g, S).waiting = g.waiting \ S
      /\ io_gate_leave(g, S).pending = g.pending - Cardinality(S \cap g.waiting)
  <2>1. g.waiting \ S \in SUBSET Slots /\ g.pending - Cardinality(S \cap g.waiting) \in Int
    BY <1>1, <1>3 DEF Gates
  <2>2. PICK W \in SUBSET Slots : W = g.waiting \ S
    BY <2>1, Zenon
  <2>3. PICK n \in Int : n = g.pending - Cardinality(S \cap g.waiting)
    BY <2>1
  <2>4. io_gate_leave(g, S) = [g EXCEPT !.waiting = W, !.pending = n]
    BY <2>2, <2>3 DEF io_gate_leave
  <2>5. io_gate_leave(g, S) \in Gates /\ io_gate_leave(g, S).waiting = W /\ io_gate_leave(g, S).pending = n
    BY <1>1, <2>4, Zenon DEF Gates
  <2> QED
    BY <2>2, <2>3, <2>5
<1> QED
  BY <1>2, <1>4 DEF GateOK

\* detach_wait takes threads off their queues and counts them down; they must not
\* be BLOCKED afterwards.
Detaches(w, st, S, d, st2) ==
    /\ WaitOK(w, st) /\ S \in SUBSET Slots /\ d = detach_wait(w, S)
    /\ \A t \in S : st2[t] # "BLOCKED"
    /\ \A t \in Slots \ S : st2[t] = "BLOCKED" <=> st[t] = "BLOCKED"

Detached(w, S, d, st2) ==
    /\ WaitOK(d, st2)
    /\ \A t \in Slots : d.on[t] = IF t \in S THEN NoQueue ELSE w.on[t]

\* Taking threads off their queues keeps the books of the wait queues right.
LEMMA DetachOK ==
    ASSUME NEW w, NEW st, NEW S, NEW d, NEW st2, Detaches(w, st, S, d, st2)
    PROVE  Detached(w, S, d, st2)
<1> USE DEF Detaches, Detached
<1>1. w \in Waits /\ NoQueue \notin Queues
  BY DEF WaitOK, NoQueue, Queues
<1>2. /\ d.on = [t \in Slots |-> IF t \in S THEN NoQueue ELSE w.on[t]] /\ d.timed = w.timed \ S
      /\ d.waiters = [q \in Queues |-> w.waiters[q] - Cardinality({t \in S : w.on[t] = q})]
      /\ d = [on |-> d.on, timed |-> d.timed, waiters |-> d.waiters]
  BY DEF detach_wait
<1>3. d.on \in [Slots -> Queues \cup {NoQueue}] /\ d.timed \in SUBSET Slots
  BY <1>1, <1>2 DEF Waits
<1>4. ASSUME NEW q \in Queues
      PROVE  d.waiters[q] = Cardinality(On(d, q)) /\ d.waiters[q] \in Int
  <2>1. On(d, q) = On(w, q) \ S /\ {t \in S : w.on[t] = q} = S \cap On(w, q)
    BY <1>1, <1>2 DEF On
  <2>2. Cardinality(On(w, q) \ S) = Cardinality(On(w, q)) - Cardinality(S \cap On(w, q))
    BY CountUnion, Zenon DEF On
  <2>3. Cardinality(On(w, q)) \in Nat /\ Cardinality(S \cap On(w, q)) \in Nat
    BY SlotsFinite DEF On
  <2>4. w.waiters[q] = Cardinality(On(w, q))
    BY DEF WaitOK
  <2>5. d.waiters[q] = w.waiters[q] - Cardinality({t \in S : w.on[t] = q})
    BY <1>2
  <2>6. d.waiters[q] = Cardinality(On(w, q)) - Cardinality(S \cap On(w, q))
    BY <2>1, <2>4, <2>5
  <2>7. Cardinality(On(d, q)) = Cardinality(On(w, q)) - Cardinality(S \cap On(w, q))
    BY <2>1, <2>2
  <2> QED
    BY <2>3, <2>6, <2>7
<1>5. d \in Waits
  BY <1>2, <1>3, <1>4, Zenon DEF Waits
<1>6. \A t \in Slots : d.on[t] # NoQueue <=> st2[t] = "BLOCKED"
  BY <1>2 DEF WaitOK
<1> QED
  BY <1>2, <1>4, <1>5, <1>6 DEF WaitOK

\* Thread t, not BLOCKED in st, is blocked on queue q, with any deadlines.
Blocks(w, st, t, q, b, st2) ==
    /\ WaitOK(w, st) /\ st \in [Slots -> ThreadStates] /\ t \in Slots /\ q \in Queues
    /\ st[t] # "BLOCKED" /\ st2 = [st EXCEPT ![t] = "BLOCKED"]
    /\ \E T \in SUBSET Slots :
          b = [on |-> [w.on EXCEPT ![t] = q], timed |-> T,
               waiters |-> [w.waiters EXCEPT ![q] = @ + 1]]

Onto(w, t, q, b) == \A s \in Slots : b.on[s] = IF s = t THEN q ELSE w.on[s]

\* Block puts one more thread on the queue it blocks on.
LEMMA BlockOK ==
    ASSUME NEW w, NEW st, NEW t, NEW q, NEW b, NEW st2, Blocks(w, st, t, q, b, st2)
    PROVE  WaitOK(b, st2) /\ Onto(w, t, q, b)
<1> USE DEF Blocks
<1>0. PICK T \in SUBSET Slots : b = [on |-> [w.on EXCEPT ![t] = q], timed |-> T,
                                     waiters |-> [w.waiters EXCEPT ![q] = @ + 1]]
  BY Zenon
<1>1. w \in Waits /\ NoQueue \notin Queues /\ w.on[t] = NoQueue
  BY DEF WaitOK, NoQueue, Queues
<1>2. /\ b.on = [w.on EXCEPT ![t] = q] /\ b.waiters = [w.waiters EXCEPT ![q] = @ + 1]
      /\ b = [on |-> b.on, timed |-> T, waiters |-> b.waiters]
  BY <1>0
<1>3. On(b, q) = On(w, q) \cup {t} /\ t \notin On(w, q)
  BY <1>1, <1>2 DEF On, Waits
<1>4. \A r \in Queues : r # q => On(b, r) = On(w, r)
  BY <1>1, <1>2 DEF On, Waits
<1>5. Cardinality(On(b, q)) = Cardinality(On(w, q)) + 1 /\ Cardinality(On(w, q)) \in Nat
  BY <1>3, SlotsFinite, FS_AddElement, Zenon DEF On
<1>6. b.on \in [Slots -> Queues \cup {NoQueue}]
  BY <1>1, <1>2 DEF Waits
<1>7. b.waiters \in [Queues -> Int] /\ \A r \in Queues : b.waiters[r] = Cardinality(On(b, r))
  <2>1. \A r \in Queues : w.waiters[r] = Cardinality(On(w, r)) /\ w.waiters \in [Queues -> Int]
    BY <1>1 DEF WaitOK, Waits
  <2>2. b.waiters[q] = Cardinality(On(b, q))
    BY <1>2, <1>5, <2>1
  <2> QED
    BY <1>2, <1>4, <2>1, <2>2
<1>8. b \in Waits
  BY <1>2, <1>6, <1>7 DEF Waits
<1>9. \A s \in Slots : b.on[s] # NoQueue <=> st2[s] = "BLOCKED"
  BY <1>1, <1>2 DEF WaitOK, Waits
<1>10. Onto(w, t, q, b)
  BY <1>1, <1>2 DEF Onto, Waits
<1> QED
  BY <1>7, <1>8, <1>9, <1>10, Zenon DEF WaitOK

-----------------------------------------------------------------------------
(* Choosing and switching.                                                 *)

\* yield_to, once next is chosen: it runs, a running caller becomes READY and
\* registers, and whoever gets the processor while the gate is open is admitted.
LEMMA SwitchStep ==
    ASSUME current_thread \in Slots, NEW next \in Slots, NEW st \in [Slots -> ThreadStates],
           NEW g, NEW sf, \A t \in Slots : st[t] = "RUNNING" => t = c,
           st[next] \in {"READY", "RUNNING"}, GateOK(g, st), SwitchTo(next, st, g, sf)
    PROVE  /\ current_thread' = next /\ state' \in [Slots -> ThreadStates]
           /\ \A t \in Slots : state'[t] = "RUNNING" => t = next
           /\ \A t \in Slots : \/ state'[t] = st[t]
                               \/ {st[t], state'[t]} \subseteq {"READY", "RUNNING"}
           /\ state'[next] \in {"READY", "RUNNING"}
           /\ GateOK(gate', state')
           /\ io.depth = 0 => next \notin gate'.waiting
           /\ \A t \in gate'.waiting : t \in g.waiting \/ ~Owns(t)
<1> DEFINE granted == io.depth = 0 /\ next \in g.waiting
           left == io_gate_leave(g, {next})
           g1 == IF granted THEN [left EXCEPT !.cursor = next] ELSE g
<1>1. /\ current_thread' = next
      /\ next = c => state' = st /\ gate' = g1
      /\ next # c => /\ state' = [t \in Slots |->
                            IF t = next THEN "RUNNING"
                            ELSE IF t \in Demoted(st) THEN "READY" ELSE st[t]]
                     /\ gate' = io_gate_request(g1, io_ready_request(Demoted(st), sf))
  BY Zenon DEF SwitchTo
<1>2. GateOK(left, st) /\ left.waiting = g.waiting \ {next}
  BY LeaveOK
<1>3. GateOK(g1, st) /\ g1.waiting \subseteq g.waiting /\ (io.depth = 0 => next \notin g1.waiting)
  <2>1. CASE granted
    <3>1. [left EXCEPT !.cursor = next] \in Gates
          /\ [left EXCEPT !.cursor = next].waiting = left.waiting
          /\ [left EXCEPT !.cursor = next].pending = left.pending
      BY <1>2, Zenon DEF GateOK, Gates
    <3> QED
      BY <1>2, <2>1, <3>1, Zenon DEF GateOK
  <2>2. CASE ~granted
    BY <2>2
  <2> QED
    BY <2>1, <2>2
<1> HIDE DEF g1
<1>4. CASE next = c
  BY <1>1, <1>3, <1>4
<1>5. CASE next # c
  <2>1. Demoted(st) \subseteq {c} /\ (c \in Demoted(st) <=> st[c] = "RUNNING")
    BY DEF Demoted
  <2>2. io_ready_request(Demoted(st), sf) \subseteq {c}
        /\ \A t \in io_ready_request(Demoted(st), sf) : ~Owns(t) /\ t \in Demoted(st)
    BY <2>1 DEF io_ready_request
  <2>3. state' \in [Slots -> ThreadStates]
        /\ \A t \in Slots : state'[t] = IF t = next THEN "RUNNING"
                                        ELSE IF t \in Demoted(st) THEN "READY" ELSE st[t]
    BY <1>1, <1>5 DEF ThreadStates
  <2>4. GateOK(g1, state')
    BY <1>3, <2>1, <2>3 DEF GateOK, Gates, LiveStates
  <2>5. GateOK(gate', state') /\ gate'.waiting = g1.waiting \cup io_ready_request(Demoted(st), sf)
    <3>1. \A t \in io_ready_request(Demoted(st), sf) : t \in Slots /\ state'[t] \in LiveStates
      BY <1>5, <2>1, <2>2, <2>3 DEF LiveStates, c
    <3> QED
      <4>1. Requests(g1, state', io_ready_request(Demoted(st), sf), gate')
        BY <1>1, <1>5, <2>4, <3>1 DEF Requests
      <4> QED
        BY <4>1, RequestOK, Zenon
  <2>6. \A t \in Slots : /\ state'[t] = "RUNNING" => t = next
                         /\ \/ state'[t] = st[t]
                            \/ {st[t], state'[t]} \subseteq {"READY", "RUNNING"}
    BY <2>1, <2>3
  <2> QED
    BY <1>1, <1>3, <1>5, <2>2, <2>3, <2>5, <2>6
<1> QED
  BY <1>4, <1>5

\* next_ready_thread never returns a thread that cannot run, and while storage is
\* owned only the caller, the idle thread or one the gate allows.
LEMMA YieldStep ==
    ASSUME current_thread \in Slots, NEW st \in [Slots -> ThreadStates],
           NEW g, NEW sf, \A t \in Slots : st[t] = "RUNNING" => t = c,
           st[idle_thread] \in {"READY", "RUNNING"}, GateOK(g, st), yield_to(st, g, sf)
    PROVE  /\ current_thread' \in Slots /\ state' \in [Slots -> ThreadStates]
           /\ \A t \in Slots : state'[t] = "RUNNING" => t = current_thread'
           /\ \A t \in Slots : \/ state'[t] = st[t]
                               \/ {st[t], state'[t]} \subseteq {"READY", "RUNNING"}
           /\ state'[current_thread'] \in {"READY", "RUNNING"}
           /\ GateOK(gate', state')
           /\ io.depth = 0 => current_thread' \notin gate'.waiting
           /\ \A t \in gate'.waiting : t \in g.waiting \/ ~Owns(t)
           /\ \/ current_thread' \in {c, idle_thread}
              \/ io_thread_allowed(current_thread', sf)
<1>1. PICK next \in Slots :
        /\ next_ready_thread(next, st, sf)
        /\ SwitchTo(next, st, io_gate_request(g, ScanExcluded(next, st, sf)), sf)
  BY DEF yield_to
<1>2. /\ st[next] \in {"READY", "RUNNING"}
      /\ next \in {c, idle_thread} \/ io_thread_allowed(next, sf)
  BY <1>1 DEF next_ready_thread, Candidates
<1>3. \A t \in ScanExcluded(next, st, sf) : t \in Slots /\ st[t] = "READY" /\ ~Owns(t)
  BY DEF ScanExcluded, io_thread_allowed, Owns
<1>4. PICK g1 \in {io_gate_request(g, ScanExcluded(next, st, sf))} : TRUE
  OBVIOUS
<1>5. GateOK(g1, st) /\ g1.waiting = g.waiting \cup ScanExcluded(next, st, sf)
  <2>1. Requests(g, st, ScanExcluded(next, st, sf), g1)
    BY <1>3, <1>4 DEF Requests, LiveStates
  <2> QED
    BY <2>1, RequestOK, Zenon
<1>6. SwitchTo(next, st, g1, sf)
  BY <1>1, <1>4
<1>7. /\ current_thread' = next /\ state' \in [Slots -> ThreadStates]
      /\ \A t \in Slots : state'[t] = "RUNNING" => t = next
      /\ \A t \in Slots : \/ state'[t] = st[t]
                          \/ {st[t], state'[t]} \subseteq {"READY", "RUNNING"}
      /\ state'[next] \in {"READY", "RUNNING"}
      /\ GateOK(gate', state')
      /\ io.depth = 0 => next \notin gate'.waiting
      /\ \A t \in gate'.waiting : t \in g1.waiting \/ ~Owns(t)
  BY <1>2, <1>5, <1>6, SwitchStep
<1> QED
  BY <1>2, <1>3, <1>5, <1>7

-----------------------------------------------------------------------------
(* The inductive invariant: SchedulerSound, with the books as values, and  *)
(* what it rests on.                                                       *)

\* Types, with the two records of books left to GateOK and WaitOK.
OtherTypes ==
    /\ state \in [Slots -> ThreadStates]
    /\ user \in [Slots -> Processes \cup {NoProcess}]
    /\ worker \subseteq Slots /\ io_user_safe \subseteq Slots
    /\ io_eligible \subseteq Slots
    /\ pc \in [Slots -> Places] /\ ret \in [Slots -> Places]
    /\ io \in [owner : Slots, depth : 0 .. MaxDepth, image : Processes \cup {NoProcess}]
    /\ current_thread \in Slots /\ next_identity \in Nat
    /\ preempt_tick_accumulator \in 0 .. SCHEDULER_PREEMPT_QUANTUM_TICKS - 1
    /\ event \in [Queues -> BOOLEAN] /\ life \in [Processes -> {"new", "live", "killed", "gone"}]
    /\ halted \in BOOLEAN

Inv == /\ OtherTypes /\ GateOK(gate, state) /\ WaitOK(wait, state) /\ CpuOwnership
       /\ IoExclusion /\ OwnerAlive /\ NoLostWakeup /\ Sleepers /\ Doings /\ Turns

LEMMA InvSound == Inv => SchedulerSound
<1> SUFFICES ASSUME Inv PROVE SchedulerSound
  OBVIOUS
<1>1. TypeOK
  BY DEF Inv, TypeOK, OtherTypes, GateOK, WaitOK, Gates, Waits
<1>2. GateAccounting /\ WaitAccounting
  BY DEF Inv, GateAccounting, WaitAccounting, GateOK, WaitOK, On, LiveStates, Live
<1> QED
  BY <1>1, <1>2 DEF Inv, SchedulerSound

LEMMA InitInv == scheduler_init => Inv
<1> SUFFICES ASSUME scheduler_init PROVE Inv
  OBVIOUS
<1>1. OtherTypes
  <2>1. /\ state \in [Slots -> ThreadStates] /\ user \in [Slots -> Processes \cup {NoProcess}]
        /\ pc \in [Slots -> Places] /\ ret \in [Slots -> Places]
        /\ current_thread \in Slots /\ next_identity \in Nat
        /\ io \in [owner : Slots, depth : 0 .. MaxDepth, image : Processes \cup {NoProcess}]
        /\ preempt_tick_accumulator \in 0 .. SCHEDULER_PREEMPT_QUANTUM_TICKS - 1
        /\ worker \subseteq Slots /\ io_user_safe \subseteq Slots /\ io_eligible \subseteq Slots
    BY SlotFacts, SchedulerAssumption DEF scheduler_init, SchedulerAssumption, Slots, ThreadStates, Places
  <2>2. /\ event \in [Queues -> BOOLEAN] /\ halted \in BOOLEAN
        /\ life \in [Processes -> {"new", "live", "killed", "gone"}]
    BY Zenon DEF scheduler_init
  <2> QED
    BY <2>1, <2>2 DEF OtherTypes
<1>2. GateOK(gate, state)
  BY FS_EmptySet, SlotFacts DEF scheduler_init, GateOK, Gates
<1>3. WaitOK(wait, state)
  <2>1. wait \in Waits
    BY DEF scheduler_init, Waits, NoQueue
  <2>2. \A q \in Queues : On(wait, q) = {} /\ wait.waiters[q] = 0
    BY DEF scheduler_init, On, Queues, NoQueue
  <2>3. \A t \in Slots : wait.on[t] = NoQueue /\ state[t] # "BLOCKED"
    BY DEF scheduler_init
  <2> QED
    BY <2>1, <2>2, <2>3, FS_EmptySet DEF WaitOK
<1>4. CpuOwnership /\ IoExclusion /\ OwnerAlive /\ NoLostWakeup /\ Sleepers
  BY SlotFacts DEF scheduler_init, CpuOwnership, IoExclusion, OwnerAlive, NoLostWakeup, Sleepers, NoQueue
<1>5. Doings
  BY SlotFacts, SchedulerAssumption
     DEF scheduler_init, Doings, Sane, Doing, Live, SchedulerAssumption, Slots, idle_thread
<1>6. Turns
  BY SlotFacts, SchedulerAssumption DEF scheduler_init, Turns, Doing, SchedulerAssumption, Slots, idle_thread
<1> QED
  BY <1>1, <1>2, <1>3, <1>4, <1>5, <1>6 DEF Inv

\* What every action that gives the processor away with yield_to preserves: st, g
\* and sf are the states, the gate and the safe set it yields with.
LEMMA YieldInv ==
    ASSUME Inv, NEW st \in [Slots -> ThreadStates], NEW g, NEW sf \in SUBSET io_user_safe,
           \A t \in Slots : st[t] = state[t] \/ {st[t], state[t]} \subseteq LiveStates,
           \A t \in Slots : st[t] = "RUNNING" => state[t] = "RUNNING",
           st[idle_thread] \in {"READY", "RUNNING"},
           GateOK(g, st), WaitOK(wait', st), Sleepers',
           \A t \in g.waiting : t \in gate.waiting \/ ~Owns(t),
           yield_to(st, g, sf),
           UNCHANGED <<user, worker, io_eligible, next_identity, io, event, life, halted>>,
           io_user_safe' \subseteq io_user_safe,
           preempt_tick_accumulator' \in 0 .. SCHEDULER_PREEMPT_QUANTUM_TICKS - 1,
           pc' \in [Slots -> Places], ret' \in [Slots -> Places],
           \A t \in Slots : t # c => pc'[t] = pc[t] /\ ret'[t] = ret[t],
           pc'[c] = "yield" => ret'[c] \in {"kernel", "safe", "work", "teardown", "idle"},
           pc'[c] = "gate" => ret'[c] \in {"work", "dying"},
           pc'[c] = "dead" <=> pc[c] = "dead",
           LET doing == IF pc'[c] = "yield" THEN ret'[c] ELSE pc'[c]
           IN  \/ doing = Doing(c)
               \/ /\ doing \in {"gate", "isr"} /\ c \notin io_eligible /\ ~Owns(c)
                  /\ c \in io_user_safe' => user[c] = NoProcess,
           \A t \in Slots : /\ wait'.on[t] \in {"q", "svc"} => ~event[wait'.on[t]]
                            /\ wait'.on[t] = "io" => io.depth # 0 /\ io.owner # t
    PROVE  Inv'
<1>1. OtherTypes /\ CpuOwnership /\ IoExclusion /\ OwnerAlive /\ Doings /\ Turns
  BY Zenon DEF Inv
<1>2. PICK o \in Slots : o = current_thread /\ o = c
  BY <1>1, Zenon DEF OtherTypes, c
<1>3. PICK n \in Slots :
      /\ n = current_thread' /\ state' \in [Slots -> ThreadStates]
      /\ \A t \in Slots : state'[t] = "RUNNING" => t = n
      /\ \A t \in Slots : \/ state'[t] = st[t]
                          \/ {st[t], state'[t]} \subseteq {"READY", "RUNNING"}
      /\ state'[n] \in {"READY", "RUNNING"}
      /\ GateOK(gate', state')
      /\ io.depth = 0 => n \notin gate'.waiting
      /\ \A t \in gate'.waiting : t \in g.waiting \/ ~Owns(t)
      /\ n \in {o, idle_thread} \/ io_thread_allowed(n, sf)
  <2>1. current_thread \in Slots /\ \A t \in Slots : st[t] = "RUNNING" => t = c
    BY <1>1, <1>2, Zenon DEF OtherTypes, CpuOwnership
  <2> QED
    BY <1>2, <2>1, YieldStep, Zenon
<1>4. PICK w \in Slots : w = io.owner
  BY <1>1, Zenon DEF OtherTypes
<1>5. \A t \in Slots : /\ state'[t] = state[t] \/ {state'[t], state[t]} \subseteq LiveStates
                       /\ state'[t] = "BLOCKED" <=> st[t] = "BLOCKED"
  <2>1. {"READY", "RUNNING"} \subseteq LiveStates /\ "BLOCKED" \notin {"READY", "RUNNING"}
    BY DEF LiveStates
  <2>2. \A t \in Slots : state'[t] = "BLOCKED" <=> st[t] = "BLOCKED"
    BY <1>3, <2>1, Zenon
  <2>3. \A t \in Slots : state'[t] # st[t] => state'[t] \in LiveStates /\ st[t] \in LiveStates
    BY <1>3, <2>1, Zenon
  <2>4. \A t \in Slots : st[t] # state[t] => state[t] \in LiveStates /\ st[t] \in LiveStates
    BY Zenon
  <2>5. \A t \in Slots : state'[t] # state[t] => state'[t] \in LiveStates /\ state[t] \in LiveStates
    BY <2>3, <2>4, Zenon
  <2>6. \A t \in Slots : state'[t] = state[t] \/ {state'[t], state[t]} \subseteq LiveStates
    BY <2>5, Zenon
  <2> QED
    BY <2>2, <2>6, Zenon
<1>6. OtherTypes'
  BY <1>1, <1>3, Zenon DEF OtherTypes
<1>7. WaitOK(wait', state')
  BY <1>5, Zenon DEF WaitOK
<1>8. CpuOwnership'
  BY <1>3, Zenon DEF CpuOwnership
<1>9. \A t \in Slots : \/ Doing(t)' = Doing(t)
                       \/ /\ t = o /\ Doing(t)' \in {"gate", "isr"} /\ t \notin io_eligible
                          /\ ~Owns(t) /\ (t \in io_user_safe' => user[t] = NoProcess)
  BY <1>2, Zenon DEF Doing
<1>10. IoExclusion'
  <2> SUFFICES ASSUME io.depth # 0, n # w
               PROVE  /\ Doing(n)' \notin {"work", "dying", "teardown"}
                      /\ Doing(n)' \in {"kernel", "launch", "leave", "gone"} => n \in io_eligible
                      /\ user[n] # NoProcess =>
                            user[n] # (IF io.image # NoProcess THEN io.image ELSE user[w])
    BY <1>3, <1>4, Zenon DEF IoExclusion, Doing
  <2>1. CASE n = o
    BY <1>1, <1>2, <1>4, <1>9, <2>1, Zenon DEF IoExclusion
  <2>2. CASE n # o /\ n \in io_eligible
    BY <1>1, <1>9, <2>2, Zenon DEF Doings, Sane
  <2>3. CASE n # o /\ n \notin io_eligible
    <3>1. /\ user[n] # NoProcess /\ n \in io_user_safe
          /\ user[n] # (IF io.image # NoProcess THEN io.image ELSE user[w])
      BY <1>1, <1>3, <1>4, <2>3, Zenon DEF io_thread_allowed, Eligible, Turns
    <3> QED
      BY <1>1, <1>9, <2>3, <3>1, Zenon DEF Doings, Sane
  <2> QED
    BY <2>1, <2>2, <2>3, Zenon
<1>11. OwnerAlive' /\ NoLostWakeup'
  BY <1>1, <1>4, <1>5, Zenon DEF OwnerAlive, NoLostWakeup, Live, LiveStates
<1>12. Doings'
  <2> SUFFICES ASSUME NEW t \in Slots PROVE Sane(t)'
    BY Zenon DEF Doings
  <2>1. Sane(t) /\ (state'[t] \in {"DEAD", "QUARANTINED"} <=> state[t] \in {"DEAD", "QUARANTINED"})
        /\ (Live(t) => Live(t)')
    BY <1>1, <1>5, Zenon DEF Doings, LiveStates, Live
  <2>2. CASE t # o
    BY <1>2, <1>9, <2>1, <2>2, Zenon DEF Sane
  <2>3. CASE t = o
    BY <1>2, <1>9, <2>1, <2>3, Zenon DEF Sane
  <2> QED
    BY <2>2, <2>3, Zenon
<1>13. Turns'
  <2>1. PICK i \in Slots : i = idle_thread
    BY SlotFacts, Zenon
  <2>2. state'[i] \in {"READY", "RUNNING"} /\ i \in io_eligible' /\ Doing(i)' = "idle"
    BY <1>1, <1>3, <1>9, <2>1, Zenon DEF Turns
  <2>3. io.depth # 0 => Doing(w)' = Doing(w) /\ w \notin gate'.waiting
    BY <1>1, <1>3, <1>4, <1>9, Zenon DEF Turns, Owns
  <2> QED
    BY <1>1, <1>3, <1>4, <2>1, <2>2, <2>3, Zenon DEF Turns, idle_thread
<1> QED
  BY <1>3, <1>6, <1>7, <1>8, <1>10, <1>11, <1>12, <1>13, Zenon DEF Inv

-----------------------------------------------------------------------------
(* Facts the actions share.                                                *)

\* What the current thread does, once it is known which one that is.
LEMMA DoingNow ==
    ASSUME NEW o, current_thread' = o
    PROVE  Doing(current_thread)' = Doing(o)'
BY DEF Doing

\* The current thread is live unless it is dead, and BLOCKED only in a window.
LEMMA CurrentFacts ==
    ASSUME Inv
    PROVE  /\ c \in Slots /\ c = current_thread
           /\ pc[c] # "dead" => state[c] \in LiveStates
           /\ pc[c] # "yield" => state[c] # "BLOCKED" /\ wait.on[c] = NoQueue
           /\ idle_thread \in io_eligible
           /\ pc[c] \notin {"idle", "yield"} => c # idle_thread
<1>1. OtherTypes /\ WaitOK(wait, state) /\ CpuOwnership /\ Doings /\ Turns /\ c = current_thread
  BY Zenon DEF Inv, c
<1>2. PICK o \in Slots : o = current_thread /\ o = c
  BY <1>1, Zenon DEF OtherTypes
<1>3. pc[o] # "dead" => state[o] \in LiveStates
  <2>1. state[o] \in ThreadStates /\ state[o] # "UNUSED"
    BY <1>1, <1>2 DEF OtherTypes, CpuOwnership
  <2>2. pc[o] # "dead" => state[o] \notin {"DEAD", "QUARANTINED"}
    BY <1>1, Zenon DEF Doings, Sane
  <2> QED
    BY <2>1, <2>2 DEF ThreadStates, LiveStates
<1>4. pc[o] # "yield" => state[o] # "BLOCKED" /\ wait.on[o] = NoQueue
  BY <1>1, <1>2, Zenon DEF Turns, WaitOK
<1>5. idle_thread \in io_eligible /\ Doing(idle_thread) = "idle"
  BY <1>1, Zenon DEF Turns
<1>6. pc[o] \notin {"idle", "yield"} => o # idle_thread
  BY <1>5 DEF Doing
<1> QED
  BY <1>2, <1>3, <1>4, <1>5, <1>6, Zenon

\* A scan registers only READY threads that do not own storage, and none while
\* nobody does.
LEMMA ExcludedFacts ==
    /\ ExcludedExcept \subseteq Slots
    /\ \A t \in ExcludedExcept : t # c /\ state[t] = "READY" /\ ~Owns(t) /\ io.depth # 0
BY DEF ExcludedExcept, io_thread_allowed, Owns

\* A step of thread o leaves what the others do alone.
LEMMA DoingsKept ==
    ASSUME Doings, NEW o \in Slots, Sane(o)',
           \A t \in Slots : t # o =>
              /\ pc'[t] = pc[t] /\ ret'[t] = ret[t] /\ user'[t] = user[t]
              /\ t \in io_user_safe' => t \in io_user_safe
              /\ t \in io_eligible' => t \in io_eligible
              /\ t \in worker' => t \in worker
              /\ state'[t] = state[t] \/ {state'[t], state[t]} \subseteq LiveStates
    PROVE  Doings'
<1> SUFFICES ASSUME NEW t \in Slots, t # o PROVE Sane(t)'
  BY DEF Doings
<1>1. Doing(t)' = Doing(t)
  BY DEF Doing
<1>2. (state'[t] \in {"DEAD", "QUARANTINED"} <=> state[t] \in {"DEAD", "QUARANTINED"})
      /\ (Live(t) => Live(t)')
  BY DEF LiveStates, Live
<1>3. Sane(t)
  BY DEF Doings
<1> QED
  BY <1>1, <1>2, <1>3 DEF Sane

\* What Wake does to the books and to the threads.
LEMMA WakeOK ==
    ASSUME state \in [Slots -> ThreadStates], WaitOK(wait, state), NEW S \in SUBSET Slots,
           \A t \in S : state[t] = "BLOCKED", NEW g, GateOK(g, state), Wake(S, g)
    PROVE  /\ state' \in [Slots -> ThreadStates]
           /\ \A t \in Slots : state'[t] = IF t \in S THEN "READY" ELSE state[t]
           /\ \A t \in Slots : wait'.on[t] = IF t \in S THEN NoQueue ELSE wait.on[t]
           /\ GateOK(gate', state') /\ WaitOK(wait', state')
           /\ g.waiting \subseteq gate'.waiting
           /\ \A t \in gate'.waiting : t \in g.waiting \/ (t \in S /\ ~Owns(t))
<1> DEFINE R == io_ready_request(S, io_user_safe)
<1>1. /\ state' = [t \in Slots |-> IF t \in S THEN "READY" ELSE state[t]]
      /\ wait' = detach_wait(wait, S) /\ gate' = io_gate_request(g, R)
  BY DEF Wake
<1>2. \A t \in R : t \in S /\ ~Owns(t)
  BY DEF io_ready_request
<1> HIDE DEF R
<1>3. /\ state' \in [Slots -> ThreadStates]
      /\ \A t \in Slots : state'[t] = IF t \in S THEN "READY" ELSE state[t]
  BY <1>1 DEF ThreadStates
<1>4. GateOK(g, state')
  BY <1>3 DEF GateOK, Gates, LiveStates
<1>5. GateOK(gate', state') /\ gate'.waiting = g.waiting \cup R
  <2>1. Requests(g, state', R, gate')
    BY <1>1, <1>2, <1>3, <1>4 DEF Requests, LiveStates
  <2> QED
    BY <2>1, RequestOK, Zenon
<1>6. /\ WaitOK(wait', state')
      /\ \A t \in Slots : wait'.on[t] = IF t \in S THEN NoQueue ELSE wait.on[t]
  <2>1. Detaches(wait, state, S, wait', state')
    BY <1>1, <1>3 DEF Detaches
  <2>2. Detached(wait, S, wait', state')
    BY <2>1, DetachOK, Zenon
  <2> QED
    BY <2>2 DEF Detached
<1> QED
  BY <1>2, <1>3, <1>5, <1>6

-----------------------------------------------------------------------------
(* Yielding.                                                               *)

LEMMA YieldAction == Inv /\ scheduler_yield => Inv'
<1> SUFFICES ASSUME Inv, scheduler_yield PROVE Inv'
  OBVIOUS
<1>1. /\ OtherTypes /\ GateOK(gate, state) /\ WaitOK(wait, state) /\ NoLostWakeup /\ Sleepers
      /\ Doings /\ Turns
  BY DEF Inv
<1>2. c \in Slots /\ Sane(c)
  BY <1>1 DEF OtherTypes, c, Doings
<1>3. pc' \in [Slots -> Places] /\ ret' \in [Slots -> Places]
      /\ \A t \in Slots : t # c => pc'[t] = pc[t] /\ ret'[t] = ret[t]
  BY <1>1, <1>2 DEF OtherTypes, scheduler_yield, Places
<1>4. /\ yield_to(state, gate, io_user_safe)
      /\ UNCHANGED <<user, worker, io_eligible, next_identity, io, event, life, halted>>
      /\ io_user_safe' = io_user_safe /\ wait' = wait
      /\ preempt_tick_accumulator' \in 0 .. SCHEDULER_PREEMPT_QUANTUM_TICKS - 1
  BY <1>1 DEF scheduler_yield, threadVars, OtherTypes
<1>5. /\ pc'[c] = "dead" <=> pc[c] = "dead"
      /\ pc'[c] # "yield" /\ pc'[c] # "gate"
      /\ pc'[c] = Doing(c)
  <2>1. CASE pc[c] = "dead"
    BY <2>1 DEF scheduler_yield, Doing
  <2>2. CASE pc[c] = "yield"
    BY <1>1, <1>2, <2>2 DEF scheduler_yield, Sane, Doing, OtherTypes
  <2> QED
    BY <2>1, <2>2 DEF scheduler_yield, AtAny
<1>6. /\ state \in [Slots -> ThreadStates] /\ state[idle_thread] \in {"READY", "RUNNING"}
      /\ io_user_safe \in SUBSET io_user_safe /\ WaitOK(wait', state)
  BY <1>1, <1>4 DEF OtherTypes, Turns
<1>7. \A t \in Slots : /\ wait'.on[t] \in {"q", "svc"} => ~event[wait'.on[t]]
                       /\ wait'.on[t] = "io" => io.depth # 0 /\ io.owner # t
  BY <1>1, <1>4, Zenon DEF NoLostWakeup
<1>8. Sleepers'
  BY <1>1, <1>2, <1>3, <1>4 DEF Sleepers, Killed, scheduler_yield, AtAny
<1> QED
  BY <1>1, <1>3, <1>4, <1>5, <1>6, <1>7, <1>8, YieldInv, Zenon

\* scheduler_io_wait, which every gated call goes through: it passes a gate that
\* is free, or registers, parks if somebody else can run, and yields.
LEMMA GateWait ==
    ASSUME Inv, NEW place \in {"work", "dying"}, NEW sf \in SUBSET io_user_safe,
           io_user_safe' = sf, scheduler_io_wait(place, sf), ~Owns(c),
           pc[c] \notin {"yield", "dead"}, c \notin io_eligible,
           c \in sf => user[c] = NoProcess,
           UNCHANGED <<user, worker, io_eligible, next_identity, io,
                       preempt_tick_accumulator, event, life, halted>>
    PROVE  Inv'
<1>1. /\ OtherTypes /\ GateOK(gate, state) /\ WaitOK(wait, state) /\ CpuOwnership
      /\ IoExclusion /\ OwnerAlive /\ NoLostWakeup /\ Sleepers /\ Doings /\ Turns
  BY DEF Inv
<1>2. /\ c \in Slots /\ c = current_thread /\ state[c] \in LiveStates
      /\ state[c] # "BLOCKED" /\ wait.on[c] = NoQueue /\ c # idle_thread
  BY CurrentFacts
<1>3. CASE io.depth = 0 \/ io.owner = c
  <2>1. io.depth = 0
    BY <1>3 DEF Owns
  <2>2. PICK o \in Slots : o = c /\ o = current_thread
    BY <1>2
  <2>3. /\ gate' = io_gate_leave(gate, {o})
        /\ pc' = [pc EXCEPT ![o] = IF user[o] \in Killed THEN "dying" ELSE place]
        /\ ret' = [ret EXCEPT ![o] = "kernel"]
        /\ UNCHANGED <<state, wait, current_thread>>
    BY <1>3, <2>2, Zenon DEF scheduler_io_wait
  <2>4. GateOK(gate', state') /\ WaitOK(wait', state') /\ gate'.waiting = gate.waiting \ {o}
    BY <1>1, <2>3, LeaveOK, Zenon
  <2>5. OtherTypes'
    BY <1>1, <2>3 DEF OtherTypes, Places
  <2>6. CpuOwnership' /\ IoExclusion' /\ OwnerAlive' /\ NoLostWakeup'
    BY <1>1, <2>1, <2>3, Zenon DEF CpuOwnership, IoExclusion, OwnerAlive, NoLostWakeup
  <2>s. Sleepers'
    BY <1>1, <1>2, <2>2, <2>3, Zenon DEF Sleepers, Killed, OtherTypes, NoQueue
  <2>7. pc'[o] \in {"work", "dying"} /\ Doing(o)' = pc'[o]
    BY <1>1, <2>3 DEF OtherTypes, Doing
  <2>8. Sane(o)'
    BY <1>1, <1>2, <2>2, <2>3, <2>7, Zenon DEF Doings, Sane, Live, LiveStates
  <2>9. Doings'
    <3>1. \A t \in Slots : t # o => pc'[t] = pc[t] /\ ret'[t] = ret[t]
      BY <1>1, <2>3 DEF OtherTypes
    <3> QED
      BY <1>1, <2>3, <2>8, <3>1, DoingsKept, Zenon
  <2>10. Turns'
    <3>1. PICK i \in Slots : i = idle_thread /\ i # o
      BY <1>2, <2>2, SlotFacts
    <3>2. Doing(i)' = "idle" /\ i \in io_eligible' /\ state'[i] \in {"READY", "RUNNING"}
      BY <1>1, <2>3, <3>1, Zenon DEF Turns, Doing, OtherTypes
    <3> QED
      BY <1>2, <2>1, <2>2, <2>3, <2>4, <3>1, <3>2, Zenon DEF Turns, idle_thread
  <2> QED
    BY <2>4, <2>5, <2>6, <2>s, <2>9, <2>10 DEF Inv
<1>4. CASE ~(io.depth = 0 \/ io.owner = c)
  <2>1. PICK g \in {io_gate_request(gate, {c} \cup ExcludedExcept)} : TRUE
    OBVIOUS
  <2>2. PICK st \in {IF ReadyExcept # {} THEN [state EXCEPT ![c] = "BLOCKED"] ELSE state} : TRUE
    BY Zenon
  <2>3. /\ wait' = IF ReadyExcept # {} THEN Block(wait, c, "io", FALSE) ELSE wait
        /\ pc' = [pc EXCEPT ![c] = "gate"] /\ ret' = [ret EXCEPT ![c] = place]
        /\ yield_to(st, g, sf)
    BY <1>4, <2>1, <2>2, Zenon DEF scheduler_io_wait
  <2>4. /\ st \in [Slots -> ThreadStates]
        /\ \A t \in Slots : t # c => st[t] = state[t]
        /\ {st[c], state[c]} \subseteq LiveStates
        /\ \A t \in Slots : st[t] = "RUNNING" => state[t] = "RUNNING"
        /\ st[idle_thread] \in {"READY", "RUNNING"}
    BY <1>1, <1>2, <2>2, SlotFacts, Zenon DEF OtherTypes, ThreadStates, LiveStates, Turns
  <2>5. \A t \in Slots : st[t] = state[t] \/ {st[t], state[t]} \subseteq LiveStates
    BY <2>4, Zenon
  <2>6. GateOK(g, st) /\ g.waiting = gate.waiting \cup {c} \cup ExcludedExcept
    <3>1. GateOK(gate, st)
      BY <1>1, <2>5, Zenon DEF GateOK, Gates
    <3>2. {c} \cup ExcludedExcept \in SUBSET Slots
          /\ \A t \in {c} \cup ExcludedExcept : st[t] \in LiveStates
      BY <1>2, <2>4, ExcludedFacts DEF LiveStates
    <3>3. PICK R \in SUBSET Slots : R = {c} \cup ExcludedExcept
      BY <3>2
    <3>4. Requests(gate, st, R, g)
      BY <2>1, <3>1, <3>2, <3>3, Zenon DEF Requests
    <3>5. GateOK(g, st) /\ g.waiting = gate.waiting \cup R
      BY <3>4, RequestOK, Zenon
    <3> QED
      BY <3>3, <3>5
  <2>7. \A t \in g.waiting : t \in gate.waiting \/ ~Owns(t)
    BY <2>6, ExcludedFacts
  <2>8. /\ WaitOK(wait', st)
        /\ \A t \in Slots : wait'.on[t] = wait.on[t] \/ (t = c /\ wait'.on[t] = "io")
    <3>1. CASE ReadyExcept # {}
      <4>1. wait.timed \in SUBSET Slots /\ "io" \in Queues /\ state \in [Slots -> ThreadStates]
        BY <1>1 DEF OtherTypes, WaitOK, Waits, Queues
      <4>2. /\ wait' = [on |-> [wait.on EXCEPT ![c] = "io"], timed |-> wait.timed,
                        waiters |-> [wait.waiters EXCEPT !["io"] = @ + 1]]
            /\ st = [state EXCEPT ![c] = "BLOCKED"]
        BY <2>2, <2>3, <3>1 DEF Block
      <4>3. Blocks(wait, state, c, "io", wait', st)
        BY <1>1, <1>2, <4>1, <4>2, Zenon DEF Blocks
      <4>4. WaitOK(wait', st) /\ Onto(wait, c, "io", wait')
        BY <4>3, BlockOK, Zenon
      <4> QED
        BY <4>4, Zenon DEF Onto
    <3>2. CASE ReadyExcept = {}
      BY <1>1, <2>2, <2>3, <3>2, Zenon
    <3> QED
      BY <3>1, <3>2
  <2>9. \A t \in Slots : /\ wait'.on[t] \in {"q", "svc"} => ~event[wait'.on[t]]
                         /\ wait'.on[t] = "io" => io.depth # 0 /\ io.owner # t
    BY <1>1, <1>4, <2>8, Zenon DEF NoLostWakeup
  <2>10. /\ pc' \in [Slots -> Places] /\ ret' \in [Slots -> Places]
         /\ \A t \in Slots : t # c => pc'[t] = pc[t] /\ ret'[t] = ret[t]
         /\ pc'[c] = "gate" /\ ret'[c] = place
    BY <1>1, <1>2, <2>3 DEF OtherTypes, Places
  <2>11. preempt_tick_accumulator' \in 0 .. SCHEDULER_PREEMPT_QUANTUM_TICKS - 1
    BY <1>1 DEF OtherTypes
  <2>12. Sleepers'
    BY <1>1, <2>8, <2>10, Zenon DEF Sleepers, Killed
  <2> QED
    BY <2>3, <2>4, <2>5, <2>6, <2>7, <2>8, <2>9, <2>10, <2>11, <2>12, YieldInv, Zenon
<1> QED
  BY <1>3, <1>4

\* The owner is where scopes are used.
LEMMA OwnerPlace ==
    ASSUME Inv,
           pc[c] \in {"user", "safe", "gate", "handoff", "isr", "launch", "dying", "leave", "gone"}
    PROVE  ~Owns(c) /\ c \notin io_eligible
BY CurrentFacts, Zenon DEF Inv, Turns, Owns, Doing, Doings, Sane

\* The gated calls.
LEMMA GatedStep ==
    ASSUME Inv, NEW place \in {"work", "dying"}, Gated(place), ~Owns(c),
           pc[c] \notin {"yield", "dead"}, c \notin io_eligible
    PROVE  Inv'
<1>1. io_user_safe \ {c} \in SUBSET io_user_safe
  OBVIOUS
<1> QED
  BY <1>1, GateWait, Zenon DEF Gated

LEMMA GateActions ==
    Inv /\ (KernelGate \/ GateRetry \/ SyscallGated \/ process_exit_gate) => Inv'
<1> SUFFICES ASSUME Inv, KernelGate \/ GateRetry \/ SyscallGated \/ process_exit_gate PROVE Inv'
  OBVIOUS
<1>1. c \in Slots /\ Sane(c) /\ io_user_safe \in SUBSET io_user_safe
  BY CurrentFacts, Zenon DEF Inv, Doings
<1>2. CASE KernelGate
  <2>1. user[c] = NoProcess /\ pc[c] = "kernel"
    BY <1>1, <1>2, Zenon DEF KernelGate, At, Sane, Doing
  <2> QED
    BY <1>1, <1>2, <2>1, GateWait, Zenon DEF KernelGate, threadVars
<1>3. CASE GateRetry
  <2>1. pc[c] = "gate" /\ ret[c] \in {"work", "dying"} /\ (c \in io_user_safe => user[c] = NoProcess)
    BY <1>1, <1>3, Zenon DEF GateRetry, At, Sane, Doing
  <2>2. ~Owns(c) /\ c \notin io_eligible
    BY <2>1, OwnerPlace
  <2> QED
    BY <1>1, <1>3, <2>1, <2>2, GateWait, Zenon DEF GateRetry, threadVars
<1>4. CASE SyscallGated \/ process_exit_gate
  <2>1. pc[c] \in {"user", "safe"}
    BY <1>4 DEF SyscallGated, process_exit_gate, AtAny, At
  <2> QED
    BY <1>4, <2>1, OwnerPlace, GatedStep DEF SyscallGated, process_exit_gate
<1> QED
  BY <1>2, <1>3, <1>4

-----------------------------------------------------------------------------
(* Steps of which the current thread keeps the processor.                  *)

\* Steps that change the books and states of live threads, and after which every
\* thread does what it did; the current one may have come to a yield window.
LEMMA StayInv ==
    ASSUME Inv,
           UNCHANGED <<user, worker, io_user_safe, io_eligible, current_thread, next_identity,
                       halted, io>>,
           preempt_tick_accumulator' \in 0 .. SCHEDULER_PREEMPT_QUANTUM_TICKS - 1,
           event' \in [Queues -> BOOLEAN], life' \in [Processes -> {"new", "live", "killed", "gone"}],
           state' \in [Slots -> ThreadStates],
           \A t \in Slots : state'[t] = state[t] \/ {state'[t], state[t]} \subseteq LiveStates,
           \A t \in Slots : state'[t] = "RUNNING" => state[t] = "RUNNING",
           state'[idle_thread] \in {"READY", "RUNNING"},
           state'[c] = "BLOCKED" => pc'[c] = "yield",
           GateOK(gate', state'), WaitOK(wait', state'), NoLostWakeup', Sleepers',
           \A t \in gate'.waiting : t \in gate.waiting \/ ~Owns(t),
           io.depth = 0 /\ c \in gate'.waiting => c \in gate.waiting \/ pc'[c] = "yield",
           \/ pc' = pc /\ ret' = ret
           \/ /\ pc' = [pc EXCEPT ![c] = "yield"] /\ ret' = [ret EXCEPT ![c] = pc[c]]
              /\ pc[c] \in {"kernel", "safe", "work", "teardown", "idle"}
    PROVE  Inv'
<1>1. OtherTypes /\ CpuOwnership /\ IoExclusion /\ OwnerAlive /\ Doings /\ Turns
  BY Zenon DEF Inv
<1>2. PICK o \in Slots : o = current_thread /\ o = c /\ o = current_thread'
  BY <1>1, Zenon DEF OtherTypes, c
<1>3. PICK w \in Slots : w = io.owner
  BY <1>1, Zenon DEF OtherTypes
<1>4. /\ pc' \in [Slots -> Places] /\ ret' \in [Slots -> Places]
      /\ \A t \in Slots : t # o => pc'[t] = pc[t] /\ ret'[t] = ret[t]
      /\ \/ pc'[o] = pc[o] /\ ret'[o] = ret[o]
         \/ pc'[o] = "yield" /\ ret'[o] = pc[o] /\ pc[o] # "yield"
  <2>1. CASE pc' = pc /\ ret' = ret
    BY <1>1, <2>1, Zenon DEF OtherTypes
  <2>2. CASE /\ pc' = [pc EXCEPT ![c] = "yield"] /\ ret' = [ret EXCEPT ![c] = pc[c]]
             /\ pc[c] \in {"kernel", "safe", "work", "teardown", "idle"}
    <3>1. /\ pc \in [Slots -> Places] /\ ret \in [Slots -> Places] /\ "yield" \in Places
          /\ pc[o] \in Places /\ pc[o] # "yield"
      BY <1>1, <1>2, <2>2, Zenon DEF OtherTypes, Places
    <3>2. pc' = [pc EXCEPT ![o] = "yield"] /\ ret' = [ret EXCEPT ![o] = pc[o]]
      BY <1>2, <2>2, Zenon
    <3> QED
      BY <3>1, <3>2, Zenon
  <2> QED
    BY <2>1, <2>2, Zenon
<1>t. OtherTypes'
  BY <1>1, <1>4, Zenon DEF OtherTypes
<1>5. /\ \A t \in Slots : Doing(t)' = Doing(t)
      /\ \A t \in Slots : t # o => pc'[t] = pc[t] /\ ret'[t] = ret[t]
      /\ pc[o] = "yield" => pc'[o] = "yield"
  BY <1>4, Zenon DEF Doing
<1>6. CpuOwnership'
  BY <1>1, <1>2, Zenon DEF CpuOwnership, LiveStates
<1>7. IoExclusion'
  BY <1>1, <1>2, <1>3, <1>5, Zenon DEF IoExclusion
<1>8. OwnerAlive'
  BY <1>1, <1>3, Zenon DEF OwnerAlive, Live, LiveStates
<1>9. Doings'
  <2>1. Sane(o)
    BY <1>1, Zenon DEF Doings
  <2>2. (pc'[o] = pc[o] /\ ret'[o] = ret[o])
        \/ (pc'[o] = "yield" /\ pc[o] # "dead"
            /\ ret'[o] \in {"kernel", "safe", "work", "teardown", "idle"})
    BY <1>1, <1>2, Zenon DEF OtherTypes
  <2>3. (state'[o] \in {"DEAD", "QUARANTINED"} <=> state[o] \in {"DEAD", "QUARANTINED"})
        /\ (Live(o) => Live(o)')
    BY Zenon DEF LiveStates, Live
  <2>4. Sane(o)'
    BY <1>5, <2>1, <2>2, <2>3, Zenon DEF Sane
  <2> QED
    BY <1>1, <1>5, <2>4, DoingsKept, Zenon
<1>10. Turns'
  <2>1. PICK i \in Slots : i = idle_thread
    BY SlotFacts, Zenon
  <2>2. /\ i \in io_eligible' /\ state'[i] \in {"READY", "RUNNING"} /\ Doing(i)' = "idle"
    BY <1>1, <1>5, <2>1, Zenon DEF Turns
  <2>3. io.depth # 0 => /\ Doing(w)' \in {"kernel", "work", "teardown"}
                        /\ w \notin gate'.waiting
    BY <1>1, <1>3, <1>5, Zenon DEF Turns, Owns
  <2>4. /\ state'[o] = "BLOCKED" => pc'[o] = "yield"
        /\ io.depth = 0 /\ o \in gate'.waiting => pc'[o] = "yield"
    <3>1. io.depth = 0 /\ o \in gate.waiting => pc'[o] = "yield"
      BY <1>1, <1>2, <1>5, Zenon DEF Turns
    <3> QED
      BY <1>2, <3>1, Zenon
  <2> QED
    BY <1>2, <1>3, <2>1, <2>2, <2>3, <2>4, Zenon DEF Turns, idle_thread
<1> QED
  BY <1>t, <1>6, <1>7, <1>8, <1>9, <1>10, Zenon DEF Inv

\* A wait: the caller parks on q if somebody else can run, or just yields.
LEMMA WaitStep ==
    ASSUME Inv, NEW q \in {"q", "svc"}, NEW timed, scheduler_wait_timeout(q, timed),
           pc[c] \in {"kernel", "safe", "work", "teardown"}, q = "svc" => user[c] = NoProcess
    PROVE  Inv'
<1>1. OtherTypes /\ GateOK(gate, state) /\ WaitOK(wait, state) /\ NoLostWakeup /\ Sleepers /\ Turns
  BY Zenon DEF Inv
<1>2. /\ c \in Slots /\ state[c] \in LiveStates /\ state[c] # "BLOCKED" /\ c # idle_thread
      /\ q \in Queues
  BY CurrentFacts DEF Queues
<1>3. /\ ~event[q] /\ user[c] \notin Killed /\ gate' = io_gate_request(gate, ExcludedExcept)
      /\ UNCHANGED <<user, worker, io_user_safe, io_eligible, current_thread, next_identity,
                     halted, io, preempt_tick_accumulator, event, life>>
      /\ pc' = [pc EXCEPT ![c] = "yield"] /\ ret' = [ret EXCEPT ![c] = pc[c]]
  BY DEF scheduler_wait_timeout, Condition, threadVars
<1>4. /\ WaitOK(wait', state')
      /\ state' \in [Slots -> ThreadStates]
      /\ \A t \in Slots : t # c => state'[t] = state[t] /\ wait'.on[t] = wait.on[t]
      /\ state'[c] \in {state[c], "BLOCKED"} /\ wait'.on[c] \in {wait.on[c], q}
  <2>1. CASE ReadyExcept # {}
    <3>1. PICK T \in SUBSET Slots : T = IF timed THEN wait.timed \cup {c} ELSE wait.timed
      BY <1>1, <1>2, Zenon DEF WaitOK, Waits
    <3>2. /\ wait' = [on |-> [wait.on EXCEPT ![c] = q], timed |-> T,
                      waiters |-> [wait.waiters EXCEPT ![q] = @ + 1]]
          /\ state' = [state EXCEPT ![c] = "BLOCKED"]
      BY <2>1, <3>1 DEF scheduler_wait_timeout, Block
    <3>3. Blocks(wait, state, c, q, wait', state')
      BY <1>1, <1>2, <3>2, Zenon DEF Blocks, OtherTypes
    <3>4. /\ WaitOK(wait', state')
          /\ \A s \in Slots : wait'.on[s] = IF s = c THEN q ELSE wait.on[s]
      <4>1. WaitOK(wait', state') /\ Onto(wait, c, q, wait')
        BY <3>3, BlockOK, Zenon
      <4> QED
        BY <4>1, Zenon DEF Onto
    <3> QED
      BY <1>1, <1>2, <3>2, <3>4, Zenon DEF OtherTypes, ThreadStates
  <2>2. CASE ReadyExcept = {}
    BY <1>1, <1>2, <2>2, Zenon DEF scheduler_wait_timeout, OtherTypes
  <2> QED
    BY <2>1, <2>2
<1>5. \A t \in Slots : state'[t] = state[t] \/ {state'[t], state[t]} \subseteq LiveStates
  BY <1>2, <1>4 DEF LiveStates
<1>6. GateOK(gate', state') /\ gate'.waiting = gate.waiting \cup ExcludedExcept
  <2>1. GateOK(gate, state')
    BY <1>1, <1>5 DEF GateOK, Gates
  <2>2. \A t \in ExcludedExcept : t \in Slots /\ state'[t] \in LiveStates
    BY <1>4, ExcludedFacts DEF LiveStates
  <2>3. Requests(gate, state', ExcludedExcept, gate')
    BY <1>3, <2>1, <2>2, Zenon DEF Requests
  <2> QED
    BY <2>3, RequestOK, Zenon
<1>7. NoLostWakeup'
  BY <1>1, <1>3, <1>4 DEF NoLostWakeup
<1>s. Sleepers'
  BY <1>1, <1>2, <1>3, <1>4, CurrentFacts, ZenonT(40) DEF Sleepers, Killed, OtherTypes, NoQueue
<1>8. /\ \A t \in Slots : state'[t] = "RUNNING" => state[t] = "RUNNING"
      /\ state'[idle_thread] \in {"READY", "RUNNING"} /\ pc'[c] = "yield"
      /\ \A t \in gate'.waiting : t \in gate.waiting \/ ~Owns(t)
  BY <1>1, <1>2, <1>3, <1>4, <1>6, SlotFacts, ExcludedFacts, Zenon DEF Turns, OtherTypes
<1>9. /\ preempt_tick_accumulator' \in 0 .. SCHEDULER_PREEMPT_QUANTUM_TICKS - 1
      /\ event' \in [Queues -> BOOLEAN] /\ life' \in [Processes -> {"new", "live", "killed", "gone"}]
  BY <1>1, <1>3 DEF OtherTypes
<1> QED
  BY <1>3, <1>4, <1>5, <1>6, <1>7, <1>s, <1>8, <1>9, StayInv, Zenon

LEMMA WaitActions == Inv /\ (ServiceWait \/ OrdinaryWait \/ scheduler_io_wait_timeout) => Inv'
<1> SUFFICES ASSUME Inv, ServiceWait \/ OrdinaryWait \/ scheduler_io_wait_timeout PROVE Inv'
  OBVIOUS
<1>1. CASE ServiceWait
  <2>1. pc[c] = "kernel" /\ user[c] = NoProcess
    BY <1>1, CurrentFacts, Zenon DEF ServiceWait, At, Inv, Doings, Sane, Doing
  <2> QED
    BY <1>1, <2>1, WaitStep, Zenon DEF ServiceWait
<1>2. CASE OrdinaryWait
  BY <1>2, WaitStep DEF OrdinaryWait, AtAny
<1>3. CASE scheduler_io_wait_timeout
  BY <1>3, WaitStep, Zenon DEF scheduler_io_wait_timeout, AtAny
<1> QED
  BY <1>1, <1>2, <1>3

\* Waking the BLOCKED threads of S: what is left to show is that those who sleep
\* on have nothing to wake up for.
LEMMA WakeStep ==
    ASSUME Inv, NEW S \in SUBSET Slots, \A t \in S : state[t] = "BLOCKED", Wake(S, gate),
           UNCHANGED <<user, worker, io_user_safe, io_eligible, current_thread, next_identity,
                       halted, io, pc, ret>>,
           preempt_tick_accumulator' \in 0 .. SCHEDULER_PREEMPT_QUANTUM_TICKS - 1,
           event' \in [Queues -> BOOLEAN], life' \in [Processes -> {"new", "live", "killed", "gone"}],
           \A t \in Slots \ S : wait.on[t] \in {"q", "svc"} => ~event'[wait.on[t]],
           life' = life \/ \A t \in Slots \ S : wait.on[t] # "q"
    PROVE  Inv'
<1>1. OtherTypes /\ GateOK(gate, state) /\ WaitOK(wait, state) /\ NoLostWakeup /\ Sleepers /\ Turns
  BY Zenon DEF Inv
<1>2. /\ state' \in [Slots -> ThreadStates]
      /\ \A t \in Slots : state'[t] = IF t \in S THEN "READY" ELSE state[t]
      /\ \A t \in Slots : wait'.on[t] = IF t \in S THEN NoQueue ELSE wait.on[t]
      /\ GateOK(gate', state') /\ WaitOK(wait', state')
      /\ \A t \in gate'.waiting : t \in gate.waiting \/ (t \in S /\ ~Owns(t))
  BY <1>1, WakeOK, Zenon DEF OtherTypes
<1>3. NoLostWakeup'
  BY <1>1, <1>2, Zenon DEF NoLostWakeup, NoQueue
<1>s. Sleepers'
  BY <1>1, <1>2, Zenon DEF Sleepers, Killed, NoQueue
<1>4. /\ state'[c] = "BLOCKED" => pc'[c] = "yield"
      /\ \A t \in Slots : state'[t] = "RUNNING" => state[t] = "RUNNING"
      /\ \A t \in Slots : state'[t] = state[t] \/ {state'[t], state[t]} \subseteq LiveStates
      /\ state'[idle_thread] \in {"READY", "RUNNING"}
      /\ io.depth = 0 /\ c \in gate'.waiting => c \in gate.waiting \/ pc'[c] = "yield"
  BY <1>1, <1>2, CurrentFacts, SlotFacts, Zenon DEF LiveStates, Turns
<1> QED
  BY <1>2, <1>3, <1>s, <1>4, StayInv, Zenon

LEMMA WakeActions ==
    ASSUME Inv, NEW q \in Signalled, scheduler_wake_all(q) \/ scheduler_wake_count(q)
    PROVE  Inv'
<1>1. OtherTypes /\ WaitOK(wait, state) /\ NoLostWakeup /\ Sleepers
  BY DEF Inv
<1>2. Waiters(q) \in SUBSET Slots /\ (\A t \in Waiters(q) : state[t] = "BLOCKED") /\ q \in {"q", "svc"}
      /\ q \in Queues
  BY DEF Waiters, Signalled, Queues
<1>3. CASE scheduler_wake_all(q)
  <2>1. \A t \in Slots \ Waiters(q) : wait.on[t] # q
    BY <1>1, <1>2 DEF Waiters, WaitOK, Queues, NoQueue
  <2>2. event' \in [Queues -> BOOLEAN] /\ \A r \in Queues : r # q => (event'[r] <=> event[r])
    BY <1>1, <1>2, <1>3 DEF scheduler_wake_all, OtherTypes
  <2>3. \A t \in Slots \ Waiters(q) : wait.on[t] \in {"q", "svc"} => ~event'[wait.on[t]]
    BY <1>1, <2>1, <2>2, Zenon DEF NoLostWakeup, Queues
  <2> QED
    BY <1>1, <1>2, <1>3, <2>2, <2>3, WakeStep, Zenon DEF scheduler_wake_all, threadVars, OtherTypes
<1>4. CASE scheduler_wake_count(q)
  <2>1. PICK t \in Waiters(q) : Wake({t}, gate)
    BY <1>4 DEF scheduler_wake_count
  <2>2. {t} \in SUBSET Slots /\ \A s \in {t} : state[s] = "BLOCKED"
    BY <1>2
  <2>3. \A s \in Slots \ {t} : wait.on[s] \in {"q", "svc"} => ~event'[wait.on[s]]
    BY <1>1, <1>4 DEF NoLostWakeup, scheduler_wake_count
  <2> QED
    BY <1>1, <1>4, <2>1, <2>2, <2>3, WakeStep, Zenon DEF scheduler_wake_count, threadVars, OtherTypes
<1> QED
  BY <1>3, <1>4

LEMMA KillAction ==
    ASSUME Inv, NEW p \in Processes, process_kill(p)
    PROVE  Inv'
<1>1. OtherTypes /\ WaitOK(wait, state) /\ NoLostWakeup /\ Sleepers
  BY DEF Inv
<1>2. Waiters("q") \in SUBSET Slots /\ \A t \in Waiters("q") : state[t] = "BLOCKED"
  BY DEF Waiters
<1>3. life' \in [Processes -> {"new", "live", "killed", "gone"}]
  BY <1>1 DEF process_kill, OtherTypes
<1>4. \A t \in Slots \ Waiters("q") : /\ wait.on[t] \in {"q", "svc"} => ~event'[wait.on[t]]
                                      /\ wait.on[t] # "q"
  BY <1>1 DEF process_kill, NoLostWakeup, Waiters, WaitOK, NoQueue
<1> QED
  BY <1>1, <1>2, <1>3, <1>4, WakeStep, Zenon DEF process_kill, threadVars, OtherTypes

LEMMA BookActions ==
    Inv /\ (Consume \/ idle_step \/ scheduler_io_yield \/ scheduler_io_request_turn) => Inv'
<1> SUFFICES ASSUME Inv, Consume \/ idle_step \/ scheduler_io_yield \/ scheduler_io_request_turn
             PROVE  Inv'
  OBVIOUS
<1>1. OtherTypes /\ GateOK(gate, state) /\ WaitOK(wait, state) /\ NoLostWakeup /\ Sleepers /\ Turns
  BY DEF Inv
<1>2. /\ UNCHANGED <<user, worker, io_user_safe, io_eligible, current_thread, next_identity,
                     halted, io, state, wait, preempt_tick_accumulator, life>>
  BY Zenon DEF Consume, idle_step, scheduler_io_yield, scheduler_io_request_turn, threadVars
<1>3. /\ preempt_tick_accumulator' \in 0 .. SCHEDULER_PREEMPT_QUANTUM_TICKS - 1
      /\ life' \in [Processes -> {"new", "live", "killed", "gone"}]
      /\ state' \in [Slots -> ThreadStates] /\ state'[idle_thread] \in {"READY", "RUNNING"}
      /\ WaitOK(wait', state')
  BY <1>1, <1>2, Zenon DEF OtherTypes, Turns
<1>s. Sleepers'
  BY <1>1, <1>2, CurrentFacts, Zenon DEF Sleepers, Killed, OtherTypes, NoQueue, AtAny, At,
     Consume, idle_step, scheduler_io_yield, scheduler_io_request_turn
<1>4. CASE Consume
  <2>1. event' \in [Queues -> BOOLEAN] /\ \A r \in Queues : event'[r] => event[r]
    BY <1>1, <1>4, Zenon DEF Consume, OtherTypes
  <2>2. NoLostWakeup'
    BY <1>1, <1>2, <2>1, Zenon DEF NoLostWakeup, Queues
  <2>3. pc' = pc /\ ret' = ret /\ gate' = gate /\ (state'[c] = "BLOCKED" => pc'[c] = "yield")
    BY <1>2, <1>4, CurrentFacts, Zenon DEF Consume
  <2> QED
    BY <1>1, <1>2, <1>3, <1>s, <2>1, <2>2, <2>3, StayInv, Zenon
<1>5. CASE ~Consume
  <2>1. event' = event /\ event' \in [Queues -> BOOLEAN] /\ NoLostWakeup'
    <3>1. event' = event
      BY <1>5, Zenon DEF idle_step, scheduler_io_yield, scheduler_io_request_turn
    <3>2. wait' = wait /\ io' = io
      BY <1>2
    <3> QED
      BY <1>1, <3>1, <3>2, Zenon DEF OtherTypes, NoLostWakeup
  <2>2. CASE idle_step
    <3>1. GateOK(gate', state') /\ gate'.waiting = gate.waiting \cup ExcludedExcept
      <4>1. state' = state /\ gate' = io_gate_request(gate, ExcludedExcept)
        BY <1>2, <2>2 DEF idle_step
      <4>2. Requests(gate, state', ExcludedExcept, gate')
        BY <1>1, <4>1, ExcludedFacts DEF Requests, LiveStates
      <4> QED
        BY <4>2, RequestOK, Zenon
    <3>2. /\ \A t \in gate'.waiting : t \in gate.waiting \/ ~Owns(t)
          /\ c \in gate'.waiting => c \in gate.waiting
      BY <3>1, ExcludedFacts, Zenon
    <3>3. \/ pc' = pc /\ ret' = ret
          \/ /\ pc' = [pc EXCEPT ![c] = "yield"] /\ ret' = [ret EXCEPT ![c] = pc[c]]
             /\ pc[c] \in {"kernel", "safe", "work", "teardown", "idle"}
      BY <2>2 DEF idle_step, At
    <3>4. state'[c] # "BLOCKED"
      BY <1>2, <2>2, CurrentFacts DEF idle_step, At
    <3> QED
      BY <1>2, <1>3, <1>s, <2>1, <3>1, <3>2, <3>3, <3>4, StayInv, Zenon
  <2>3. CASE scheduler_io_yield
    <3>1. /\ pc' = [pc EXCEPT ![c] = "yield"] /\ ret' = [ret EXCEPT ![c] = pc[c]]
          /\ pc[c] \in {"kernel", "safe", "work", "teardown", "idle"} /\ gate' = gate
      BY <2>3 DEF scheduler_io_yield, AtAny
    <3>2. state'[c] # "BLOCKED" /\ GateOK(gate', state')
      BY <1>1, <1>2, <3>1, CurrentFacts, Zenon
    <3> QED
      BY <1>2, <1>3, <1>s, <2>1, <3>1, <3>2, StayInv, Zenon
  <2>4. CASE scheduler_io_request_turn
    <3>1. /\ gate' = io_gate_request(gate, {c}) /\ pc' = pc /\ ret' = ret
          /\ state[c] = "RUNNING" /\ io.depth # 0 /\ ~Owns(c) /\ c \in Slots
      BY <2>4, CurrentFacts, Zenon DEF scheduler_io_request_turn, Owns
    <3>2. GateOK(gate', state') /\ gate'.waiting = gate.waiting \cup {c}
      <4>1. Requests(gate, state', {c}, gate')
        BY <1>1, <1>2, <3>1 DEF Requests, LiveStates
      <4> QED
        BY <4>1, RequestOK, Zenon
    <3>3. \A t \in gate'.waiting : t \in gate.waiting \/ ~Owns(t)
      BY <3>1, <3>2
    <3>4. state'[c] # "BLOCKED"
      BY <1>2, <3>1
    <3> QED
      BY <1>2, <1>3, <1>s, <2>1, <3>1, <3>2, <3>3, <3>4, StayInv, Zenon
  <2> QED
    BY <1>5, <2>2, <2>3, <2>4
<1> QED
  BY <1>4, <1>5

-----------------------------------------------------------------------------
(* Scopes.                                                                 *)

\* Nobody but the owner is in a place where scopes are begun, so whoever begins
\* one is alone; nobody is parked at the gate when a scope begins.
LEMMA BeginActions == Inv /\ (scheduler_io_begin \/ scheduler_io_begin_process_image) => Inv'
<1> SUFFICES ASSUME Inv, scheduler_io_begin \/ scheduler_io_begin_process_image PROVE Inv'
  OBVIOUS
<1>1. /\ OtherTypes /\ GateOK(gate, state) /\ WaitOK(wait, state) /\ CpuOwnership
      /\ IoExclusion /\ OwnerAlive /\ NoLostWakeup /\ Sleepers /\ Doings /\ Turns
  BY DEF Inv
<1>2. PICK o \in Slots : o = c /\ o = current_thread
  BY CurrentFacts
<1>3. PICK image \in Processes \cup {NoProcess} : Begin(image)
  BY DEF scheduler_io_begin, scheduler_io_begin_process_image
<1>4. /\ pc[o] \in {"kernel", "work", "teardown"}
      /\ io.depth = 0 \/ (io.owner = o /\ io.depth < MaxDepth)
  BY <1>2 DEF scheduler_io_begin, scheduler_io_begin_process_image, AtAny, At
<1>5. UNCHANGED <<state, user, worker, io_user_safe, io_eligible, next_identity, pc, ret, wait, gate,
                  current_thread, preempt_tick_accumulator, event, life, halted>>
  BY <1>3 DEF Begin, threadVars
<1>6. /\ io' \in [owner : Slots, depth : 0 .. MaxDepth, image : Processes \cup {NoProcess}]
      /\ io'.owner = o /\ io'.depth # 0
      /\ io.depth # 0 => io'.owner = io.owner
  <2>1. CASE io.depth = 0
    <3>1. io' = [owner |-> o, depth |-> 1, image |-> image]
      BY <1>2, <1>3, <2>1, Zenon DEF Begin
    <3>2. 1 \in 0 .. MaxDepth
      BY SchedulerAssumption DEF SchedulerAssumption
    <3> QED
      BY <2>1, <3>1, <3>2
  <2>2. CASE io.depth # 0
    <3>1. io' = [io EXCEPT !.depth = @ + 1] /\ io.depth + 1 \in 0 .. MaxDepth /\ io.owner = o
      BY <1>1, <1>2, <1>3, <1>4, <2>2, SchedulerAssumption DEF Begin, OtherTypes, SchedulerAssumption
    <3> QED
      BY <1>1, <2>2, <3>1 DEF OtherTypes
  <2> QED
    BY <2>1, <2>2
<1>7. /\ state[o] \in LiveStates /\ Doing(o)' \in {"kernel", "work", "teardown"}
      /\ o \notin gate.waiting
  BY <1>1, <1>2, <1>4, <1>5, CurrentFacts, Zenon DEF Turns, Doing
<1>8. OtherTypes'
  BY <1>1, <1>5, <1>6, Zenon DEF OtherTypes
<1>9. GateOK(gate', state') /\ WaitOK(wait', state') /\ CpuOwnership'
  BY <1>1, <1>5 DEF CpuOwnership
<1>10. IoExclusion'
  BY <1>2, <1>5, <1>6, Zenon DEF IoExclusion
<1>11. OwnerAlive' /\ NoLostWakeup' /\ Sleepers'
  BY <1>1, <1>5, <1>6, <1>7, <1>4, Zenon DEF OwnerAlive, NoLostWakeup, Sleepers, Killed, Live, LiveStates
<1>12. Doings'
  BY <1>1, <1>5, Zenon DEF Doings, Sane, Doing, Live
<1>13. Turns'
  BY <1>1, <1>5, <1>6, <1>7, Zenon DEF Turns, Doing, idle_thread
<1> QED
  BY <1>8, <1>9, <1>10, <1>11, <1>12, <1>13 DEF Inv

LEMMA EndAction == Inv /\ scheduler_io_end => Inv'
<1> SUFFICES ASSUME Inv, scheduler_io_end PROVE Inv'
  OBVIOUS
<1>1. /\ OtherTypes /\ GateOK(gate, state) /\ WaitOK(wait, state) /\ CpuOwnership
      /\ IoExclusion /\ OwnerAlive /\ NoLostWakeup /\ Sleepers /\ Doings /\ Turns
  BY DEF Inv
<1>2. PICK o \in Slots : o = c /\ o = current_thread
  BY CurrentFacts
<1>3. /\ pc[o] \in {"kernel", "work", "teardown"} /\ io.depth # 0 /\ io.owner = o
      /\ state[o] \in LiveStates /\ state[o] # "BLOCKED"
      /\ UNCHANGED <<user, worker, io_user_safe, io_eligible, next_identity, pc, ret,
                     current_thread, preempt_tick_accumulator, event, life, halted>>
  BY <1>2, CurrentFacts DEF scheduler_io_end, AtAny, Owns, threadVars
<1>4. \A t \in Slots : Doing(t)' = Doing(t)
  BY <1>3 DEF Doing
<1>5. CASE io.depth > 1
  <2>1. io' = [io EXCEPT !.depth = @ - 1] /\ UNCHANGED <<state, wait, gate>>
    BY <1>5 DEF scheduler_io_end
  <2>2. /\ io' \in [owner : Slots, depth : 0 .. MaxDepth, image : Processes \cup {NoProcess}]
        /\ io'.owner = o /\ io'.depth # 0
    BY <1>1, <1>3, <1>5, <2>1, SchedulerAssumption DEF OtherTypes, SchedulerAssumption
  <2>3. OtherTypes'
    BY <1>1, <1>3, <2>1, <2>2 DEF OtherTypes
  <2>4. GateOK(gate', state') /\ WaitOK(wait', state') /\ CpuOwnership' /\ IoExclusion'
    BY <1>1, <1>2, <1>3, <2>1, <2>2 DEF CpuOwnership, IoExclusion
  <2>5. OwnerAlive' /\ NoLostWakeup' /\ Sleepers'
    BY <1>1, <1>3, <2>1, <2>2 DEF OwnerAlive, NoLostWakeup, Sleepers, Killed, Live
  <2>6. Doings'
    BY <1>1, <1>3, <2>1 DEF Doings, Sane, Doing, Live
  <2>7. Turns'
    BY <1>1, <1>3, <2>1, <2>2 DEF Turns, Doing, idle_thread
  <2> QED
    BY <2>3, <2>4, <2>5, <2>6, <2>7 DEF Inv
<1>6. CASE ~(io.depth > 1)
  <2>1. PICK S \in SUBSET Slots : S = Waiters("io")
    BY Zenon DEF Waiters
  <2>2. PICK R \in SUBSET Slots : R = {t \in S :
            IF user[t] # NoProcess THEN t \notin io_user_safe ELSE t \notin io_eligible}
    BY Zenon
  <2>3. /\ io' = [owner |-> 0, depth |-> 0, image |-> NoProcess]
        /\ state' = [t \in Slots |-> IF t \in S THEN "READY" ELSE state[t]]
        /\ wait' = detach_wait(wait, S) /\ gate' = io_gate_request(gate, R)
    BY <1>6, <2>1, <2>2 DEF scheduler_io_end
  <2>4. /\ \A t \in S : state[t] = "BLOCKED" /\ t # o
        /\ \A t \in Slots : wait.on[t] = "io" => t \in S
    BY <1>1, <1>3, <2>1, Zenon DEF Waiters, WaitOK, NoQueue
  <2>5. /\ state' \in [Slots -> ThreadStates]
        /\ \A t \in Slots : state'[t] = IF t \in S THEN "READY" ELSE state[t]
    BY <1>1, <2>3 DEF OtherTypes, ThreadStates
  <2>6. GateOK(gate', state') /\ gate'.waiting = gate.waiting \cup R
    <3>1. GateOK(gate, state') /\ \A t \in R : state'[t] \in LiveStates
      BY <1>1, <2>2, <2>5, Zenon DEF GateOK, Gates, LiveStates
    <3>2. Requests(gate, state', R, gate')
      BY <2>3, <3>1, Zenon DEF Requests
    <3> QED
      BY <3>2, RequestOK, Zenon
  <2>7. /\ WaitOK(wait', state')
        /\ \A t \in Slots : wait'.on[t] = IF t \in S THEN NoQueue ELSE wait.on[t]
    <3>1. /\ \A t \in S : state'[t] # "BLOCKED"
          /\ \A t \in Slots \ S : state'[t] = "BLOCKED" <=> state[t] = "BLOCKED"
      BY <2>5
    <3>2. /\ WaitOK(wait', state')
          /\ \A t \in Slots : wait'.on[t] = IF t \in S THEN NoQueue ELSE wait.on[t]
      <4>1. Detaches(wait, state, S, wait', state')
        BY <1>1, <2>3, <3>1, Zenon DEF Detaches
      <4>2. Detached(wait, S, wait', state')
        BY <4>1, DetachOK, Zenon
      <4> QED
        BY <4>2, Zenon DEF Detached
    <3> QED
      BY <3>2, Zenon
  <2>8. OtherTypes'
    <3>1. io' \in [owner : Slots, depth : 0 .. MaxDepth, image : Processes \cup {NoProcess}]
          /\ io'.depth = 0
      BY <2>3, NoScope, Zenon
    <3> QED
      BY <1>1, <1>3, <2>5, <3>1, Zenon DEF OtherTypes
  <2>9. CpuOwnership' /\ IoExclusion' /\ OwnerAlive'
    BY <1>1, <1>2, <1>3, <2>3, <2>4, <2>5, Zenon DEF CpuOwnership, IoExclusion, OwnerAlive
  <2>10. NoLostWakeup' /\ Sleepers'
    <3>1. \A t \in Slots : wait'.on[t] \in {NoQueue, wait.on[t]} /\ wait'.on[t] # "io"
      BY <2>4, <2>7, Zenon DEF NoQueue
    <3>2. Killed' = Killed
      BY <1>3, Zenon DEF Killed
    <3>3. NoLostWakeup'
      BY <1>1, <1>3, <3>1, Zenon DEF NoLostWakeup, NoQueue
    <3>4. Sleepers'
      BY <1>1, <1>3, <3>1, <3>2, Zenon DEF Sleepers, NoQueue
    <3> QED
      BY <3>3, <3>4
  <2>11. Doings'
    <3>1. \A t \in Slots : state'[t] = state[t] \/ {state'[t], state[t]} \subseteq LiveStates
      BY <2>4, <2>5 DEF LiveStates
    <3>2. Sane(o)'
      <4>1. Sane(o) /\ state'[o] = state[o] /\ pc' = pc /\ ret' = ret /\ Doing(o)' = Doing(o)
        BY <1>1, <1>3, <1>4, <2>4, <2>5, Zenon DEF Doings
      <4> QED
        BY <1>3, <4>1, Zenon DEF Sane, Live
    <3> QED
      BY <1>1, <1>3, <3>1, <3>2, DoingsKept, Zenon
  <2>12. Turns'
    <3>1. PICK i \in Slots : i = idle_thread
      BY SlotFacts
    <3>2. i \in io_eligible' /\ state'[i] \in {"READY", "RUNNING"} /\ Doing(i)' = "idle"
      BY <1>1, <1>3, <1>4, <2>5, <3>1, Zenon DEF Turns
    <3>3. state'[o] # "BLOCKED" /\ o \notin gate'.waiting /\ io'.depth = 0
      BY <1>1, <1>3, <2>2, <2>3, <2>4, <2>5, <2>6, Zenon DEF Turns
    <3> QED
      BY <1>2, <1>3, <3>1, <3>2, <3>3, Zenon DEF Turns, idle_thread
  <2> QED
    BY <2>6, <2>7, <2>8, <2>9, <2>10, <2>11, <2>12 DEF Inv
<1> QED
  BY <1>5, <1>6

-----------------------------------------------------------------------------
(* System calls and the handoff.                                           *)

\* Steps that only move the current thread, outside any scope of its own, to a
\* place where it may be suspended or is alone.
LEMMA MoveInv ==
    ASSUME Inv, ~Owns(c), pc[c] \notin {"yield", "dead"}, c # idle_thread,
           NEW place \in {"kernel", "user", "safe", "handoff", "launch", "gone", "dying"},
           pc' = [pc EXCEPT ![c] = place],
           UNCHANGED <<state, worker, io_eligible, next_identity, wait, io, current_thread,
                       preempt_tick_accumulator, event, halted, ret>>,
           life' \in [Processes -> {"new", "live", "killed", "gone"}],
           \A p \in Processes : life'[p] = "killed" => life[p] = "killed",
           user' \in [Slots -> Processes \cup {NoProcess}],
           \A t \in Slots : t # c => user'[t] = user[t],
           io_user_safe' \subseteq io_user_safe \cup {c},
           c \in io_user_safe' /\ user'[c] # NoProcess => place \in {"user", "safe", "handoff"},
           place \in {"kernel", "gone"} => user'[c] = NoProcess,
           c \in worker => user'[c] # NoProcess,
           c \in io_eligible => place = "kernel",
           GateOK(gate', state'), gate'.waiting \subseteq gate.waiting,
           io.depth # 0 =>
               /\ place # "dying"
               /\ place \in {"kernel", "launch", "gone"} => c \in io_eligible
               /\ user'[c] = user[c]
    PROVE  Inv'
<1>1. /\ OtherTypes /\ WaitOK(wait, state) /\ CpuOwnership
      /\ IoExclusion /\ OwnerAlive /\ NoLostWakeup /\ Sleepers /\ Doings /\ Turns
  BY Zenon DEF Inv
<1>2. PICK o \in Slots : o = c /\ o = current_thread
  BY CurrentFacts, Zenon
<1>3. OtherTypes' /\ WaitOK(wait', state') /\ CpuOwnership' /\ NoLostWakeup'
  <2>1. pc' \in [Slots -> Places] /\ io_user_safe' \subseteq Slots
    <3>1. place \in Places
      BY Zenon DEF Places
    <3>2. /\ pc \in [Slots -> Places] /\ io_user_safe \subseteq Slots
          /\ pc' = [pc EXCEPT ![o] = place] /\ io_user_safe' \subseteq io_user_safe \cup {o}
      BY <1>1, <1>2, Zenon DEF OtherTypes
    <3> QED
      BY <3>1, <3>2, Zenon
  <2>2. OtherTypes'
    BY <1>1, <2>1, Zenon DEF OtherTypes
  <2> QED
    BY <1>1, <2>2, Zenon DEF CpuOwnership, NoLostWakeup
<1>4. /\ Doing(o)' = place /\ pc'[o] = place
      /\ \A t \in Slots : t # o => pc'[t] = pc[t] /\ Doing(t)' = Doing(t)
  BY <1>1, <1>2, Zenon DEF OtherTypes, Doing
<1>s. Sleepers'
  <2>1. wait'.on[o] = NoQueue /\ wait' = wait
    BY <1>1, <1>2, CurrentFacts, Zenon DEF WaitOK
  <2>2. \A p \in Processes : p \in Killed' => p \in Killed
    BY Zenon DEF Killed
  <2>3. \A t \in Slots : t # o => user'[t] = user[t] /\ (user[t] \notin Killed => user'[t] \notin Killed')
    BY <1>1, <1>2, <2>2, Zenon DEF Killed
  <2> QED
    BY <1>1, <1>4, <2>1, <2>3, ZenonT(40) DEF Sleepers, NoQueue
<1>5. PICK w \in Slots : w = io.owner
  BY <1>1, Zenon DEF OtherTypes
<1>6. io.depth # 0 => w # o
  BY <1>2, <1>5, Zenon DEF Owns
<1>7. IoExclusion'
  <2>1. io' = io /\ current_thread' = o /\ io_eligible' = io_eligible
    BY <1>2, Zenon
  <2>2. io.depth # 0 => /\ user'[o] = user[o] /\ user'[w] = user[w] /\ place # "dying"
                        /\ place \in {"kernel", "launch", "gone"} => o \in io_eligible
    BY <1>2, <1>5, <1>6, Zenon
  <2>3. io.depth # 0 /\ user[o] # NoProcess =>
            user[o] # (IF io.image # NoProcess THEN io.image ELSE user[w])
    BY <1>1, <1>2, <1>5, <1>6, Zenon DEF IoExclusion
  <2>4. place \notin {"work", "teardown", "leave"}
    BY Zenon
  <2>5. Doing(current_thread)' = place /\ user'[current_thread'] = user'[o]
        /\ user'[io'.owner] = user'[w] /\ io'.depth = io.depth /\ io'.image = io.image
    <3>1. Doing(current_thread)' = Doing(o)'
      BY <2>1, DoingNow, Zenon
    <3> QED
      BY <1>4, <1>5, <2>1, <3>1, Zenon
  <2>6. place \notin {"work", "dying", "teardown"} \/ io.depth = 0
    BY <2>2, <2>4, Zenon
  <2>7. place \in {"kernel", "launch", "leave", "gone"} /\ io.depth # 0 => o \in io_eligible
    BY <2>2, <2>4, Zenon
  <2> QED
    BY <2>1, <2>2, <2>3, <2>5, <2>6, <2>7, ZenonT(40) DEF IoExclusion
<1>8. OwnerAlive'
  BY <1>1, Zenon DEF OwnerAlive, Live
<1>9. Doings'
  <2>1. Sane(o) /\ state[o] \in LiveStates
    BY <1>1, <1>2, CurrentFacts, Zenon DEF Doings
  <2>2. Sane(o)'
    BY <1>2, <1>4, <2>1, Zenon DEF Sane, Live, LiveStates
  <2> QED
    BY <1>1, <1>2, <1>4, <2>2, DoingsKept, Zenon
<1>10. Turns'
  <2>1. PICK i \in Slots : i = idle_thread /\ i # o
    BY <1>2, SlotFacts, Zenon
  <2>2. i \in io_eligible' /\ state'[i] \in {"READY", "RUNNING"} /\ Doing(i)' = "idle"
    BY <1>1, <1>4, <2>1, Zenon DEF Turns
  <2>3. io.depth # 0 => Doing(w)' \in {"kernel", "work", "teardown"} /\ w \notin gate'.waiting
    BY <1>1, <1>4, <1>5, <1>6, Zenon DEF Turns
  <2> QED
    BY <1>1, <1>2, <1>4, <1>5, <2>1, <2>2, <2>3, Zenon DEF Turns, idle_thread
<1> QED
  BY <1>3, <1>s, <1>7, <1>8, <1>9, <1>10, Zenon DEF Inv

\* Kernel code that is not a service's, and calls the gate admitted, run only in
\* the owner or while nobody owns storage.
LEMMA AloneFacts ==
    ASSUME Inv, ~Owns(c), pc[c] # "yield",
           \/ pc[c] \in {"work", "dying", "teardown"}
           \/ pc[c] \in {"kernel", "launch", "leave", "gone"} /\ c \notin io_eligible
    PROVE  io.depth = 0
BY CurrentFacts, Zenon DEF Inv, IoExclusion, Owns, Doing

LEMMA SyscallActions == Inv /\ (SyscallSafe \/ ReturnToUser \/ WorkDone) => Inv'
<1> SUFFICES ASSUME Inv, SyscallSafe \/ ReturnToUser \/ WorkDone PROVE Inv'
  OBVIOUS
<1>1. OtherTypes /\ GateOK(gate, state) /\ Sane(c) /\ c \in Slots
  BY CurrentFacts, Zenon DEF Inv, Doings
<1>2. CASE SyscallSafe
  <2>1. pc[c] = "user" /\ ~Owns(c) /\ c \notin io_eligible /\ c # idle_thread
    BY <1>2, OwnerPlace, CurrentFacts, Zenon DEF SyscallSafe, At
  <2>2. /\ pc' = [pc EXCEPT ![c] = "safe"]
        /\ UNCHANGED <<state, worker, io_eligible, next_identity, wait, io, current_thread,
                       preempt_tick_accumulator, event, halted, ret, life, user, io_user_safe, gate>>
    BY <1>2 DEF SyscallSafe, threadVars
  <2>3. c \in worker => user'[c] # NoProcess
    BY <1>1, <2>2, Zenon DEF Sane
  <2> QED
    BY <1>1, <2>1, <2>2, <2>3, MoveInv, Zenon DEF OtherTypes
<1>3. CASE ReturnToUser
  <2>1. /\ pc[c] \in {"safe", "handoff", "isr", "launch"} /\ ~Owns(c) /\ c \notin io_eligible
        /\ c # idle_thread /\ user[c] # NoProcess
    BY <1>3, OwnerPlace, CurrentFacts, Zenon DEF ReturnToUser, AtAny
  <2>2. CASE Gated("dying")
    BY <2>1, <2>2, GatedStep
  <2>3. CASE ~Gated("dying")
    <3>1. /\ pc' = [pc EXCEPT ![c] = "user"] /\ io_user_safe' = io_user_safe \cup {c}
          /\ UNCHANGED <<state, worker, io_eligible, next_identity, wait, io, current_thread,
                         preempt_tick_accumulator, event, halted, ret, life, user, gate>>
      BY <1>3, <2>3, Zenon DEF ReturnToUser
    <3> QED
      BY <1>1, <2>1, <3>1, MoveInv, Zenon DEF OtherTypes
  <2> QED
    BY <2>2, <2>3
<1>4. CASE WorkDone
  <2>1. pc[c] = "work" /\ ~Owns(c) /\ c # idle_thread /\ c \notin io_eligible
    BY <1>1, <1>4, CurrentFacts, Zenon DEF WorkDone, At, Sane, Doing
  <2>2. CASE Gated("dying")
    BY <2>1, <2>2, GatedStep
  <2>3. CASE ~Gated("dying")
    <3>1. /\ pc' = [pc EXCEPT ![c] = "kernel"] /\ user[c] = NoProcess
          /\ UNCHANGED <<state, worker, io_eligible, next_identity, wait, io, current_thread,
                         preempt_tick_accumulator, event, halted, ret, life, user, io_user_safe, gate>>
      BY <1>4, <2>3, Zenon DEF WorkDone, threadVars
    <3>2. io.depth = 0 /\ (c \in worker => user'[c] # NoProcess)
      BY <1>1, <2>1, <3>1, AloneFacts, Zenon DEF Sane
    <3> QED
      BY <1>1, <2>1, <3>1, <3>2, MoveInv, Zenon DEF OtherTypes
  <2> QED
    BY <2>2, <2>3
<1> QED
  BY <1>2, <1>3, <1>4

LEMMA HandoffAction == Inv /\ scheduler_io_handoff => Inv'
<1> SUFFICES ASSUME Inv, scheduler_io_handoff PROVE Inv'
  OBVIOUS
<1>1. /\ OtherTypes /\ GateOK(gate, state) /\ WaitOK(wait, state) /\ CpuOwnership
      /\ NoLostWakeup /\ Sleepers /\ Doings /\ Turns
  BY DEF Inv
<1>2. PICK o \in Slots : o = c /\ o = current_thread
  BY CurrentFacts
<1>3. /\ pc[o] = "work" /\ user[o] # NoProcess /\ ~Owns(o) /\ o # idle_thread /\ o \notin io_eligible
      /\ state[o] \in LiveStates
  BY <1>1, <1>2, CurrentFacts, Zenon DEF scheduler_io_handoff, At, Doings, Sane, Doing
<1>4. io.depth = 0
  BY <1>2, <1>3, AloneFacts
<1>5. /\ io_user_safe' = io_user_safe \cup {o} /\ pc' = [pc EXCEPT ![o] = "handoff"]
      /\ UNCHANGED <<user, worker, io_eligible, next_identity, ret, wait, io,
                     preempt_tick_accumulator, event, life, halted>>
  BY <1>2, Zenon DEF scheduler_io_handoff
<1>6. CASE UNCHANGED <<state, gate, current_thread>>
  BY <1>1, <1>2, <1>3, <1>4, <1>5, <1>6, MoveInv, Zenon DEF OtherTypes
<1>7. CASE ~UNCHANGED <<state, gate, current_thread>>
  <2>1. PICK n \in Slots \ {o} :
          HandoffTarget(n) /\ SwitchTo(n, state, gate, io_user_safe \cup {o})
    BY <1>2, <1>7, Zenon DEF scheduler_io_handoff
  <2>2. state[n] = "READY"
    BY <2>1 DEF HandoffTarget
  <2>3. /\ current_thread' = n /\ state' \in [Slots -> ThreadStates]
        /\ \A t \in Slots : state'[t] = "RUNNING" => t = n
        /\ \A t \in Slots : \/ state'[t] = state[t]
                            \/ {state[t], state'[t]} \subseteq {"READY", "RUNNING"}
        /\ state'[n] \in {"READY", "RUNNING"}
        /\ GateOK(gate', state')
        /\ n \notin gate'.waiting
    <3>1. \A t \in Slots : state[t] = "RUNNING" => t = c
      BY <1>1, <1>2 DEF CpuOwnership
    <3> QED
      BY <1>1, <1>2, <1>4, <2>1, <2>2, <3>1, SwitchStep, Zenon DEF OtherTypes
  <2>4. OtherTypes' /\ CpuOwnership'
    BY <1>1, <1>5, <2>3, ZenonT(40) DEF OtherTypes, CpuOwnership, Places
  <2>5. WaitOK(wait', state')
    BY <1>1, <1>5, <2>3, Zenon DEF WaitOK
  <2>6. IoExclusion' /\ OwnerAlive' /\ NoLostWakeup' /\ Sleepers'
    BY <1>1, <1>2, <1>3, <1>4, <1>5, CurrentFacts, Zenon
       DEF IoExclusion, OwnerAlive, NoLostWakeup, Sleepers, Killed, NoQueue, OtherTypes
  <2>7. /\ pc'[o] = "handoff" /\ \A t \in Slots : t # o => pc'[t] = pc[t]
    BY <1>1, <1>5, Zenon DEF OtherTypes
  <2>8. Doings'
    <3>1. \A t \in Slots : state'[t] = state[t] \/ {state'[t], state[t]} \subseteq LiveStates
      BY <2>3, Zenon DEF LiveStates
    <3>2. Sane(o)'
      BY <1>1, <1>3, <1>5, <2>7, <3>1, Zenon DEF Doings, Sane, Doing, Live, LiveStates
    <3> QED
      BY <1>1, <1>5, <2>7, <3>1, <3>2, DoingsKept, Zenon
  <2>9. Turns'
    <3>1. PICK i \in Slots : i = idle_thread /\ i # o
      BY <1>3, SlotFacts
    <3>2. i \in io_eligible' /\ state'[i] \in {"READY", "RUNNING"} /\ Doing(i)' = "idle"
      BY <1>1, <1>5, <2>3, <2>7, <3>1, Zenon DEF Turns, Doing
    <3> QED
      BY <1>4, <1>5, <2>3, <3>1, <3>2, Zenon DEF Turns, idle_thread
  <2> QED
    BY <2>3, <2>4, <2>5, <2>6, <2>8, <2>9, Zenon DEF Inv
<1> QED
  BY <1>6, <1>7

-----------------------------------------------------------------------------
(* Binding, exits and quarantine.                                          *)

\* A halt, and a step that changes nothing.
LEMMA SameInv ==
    ASSUME Inv, halted' \in BOOLEAN,
           UNCHANGED <<state, user, worker, io_user_safe, io_eligible, pc, ret, wait, gate, io,
                       current_thread, preempt_tick_accumulator, next_identity, event, life>>
    PROVE  Inv'
<1>1. /\ OtherTypes /\ GateOK(gate, state) /\ WaitOK(wait, state) /\ CpuOwnership
      /\ IoExclusion /\ OwnerAlive /\ NoLostWakeup /\ Sleepers /\ Doings /\ Turns
  BY Zenon DEF Inv
<1>2. OtherTypes'
  BY <1>1, Zenon DEF OtherTypes
<1>3. GateOK(gate', state') /\ WaitOK(wait', state') /\ CpuOwnership'
  BY <1>1, Zenon DEF CpuOwnership
<1>4. IoExclusion' /\ OwnerAlive'
  BY <1>1, Zenon DEF IoExclusion, OwnerAlive, Doing, Live
<1>5. NoLostWakeup' /\ Sleepers'
  BY <1>1, Zenon DEF NoLostWakeup, Sleepers, Killed
<1>6. Doings'
  BY <1>1, Zenon DEF Doings, Sane, Doing, Live
<1>7. Turns'
  BY <1>1, Zenon DEF Turns, Doing, idle_thread
<1> QED
  BY <1>2, <1>3, <1>4, <1>5, <1>6, <1>7, Zenon DEF Inv

LEMMA HaltStep == Inv /\ invalid_user_binding => Inv'
BY SameInv, Zenon DEF invalid_user_binding, threadVars

LEMMA BindAction ==
    ASSUME Inv, NEW p \in Processes, bind_user_context(p)
    PROVE  Inv'
<1>1. OtherTypes /\ GateOK(gate, state) /\ Sane(c) /\ c \in Slots
  BY CurrentFacts, Zenon DEF Inv, Doings
<1>2. pc[c] = "kernel" /\ c \notin io_eligible /\ ~Owns(c) /\ c # idle_thread
  BY CurrentFacts, Zenon DEF bind_user_context, At
<1>3. io.depth = 0 /\ p # NoProcess
  BY <1>2, AloneFacts, SchedulerAssumption DEF SchedulerAssumption
<1>4. CASE invalid_user_binding
  BY <1>4, HaltStep
<1>5. CASE ~invalid_user_binding
  <2>1. /\ user' = [user EXCEPT ![c] = p] /\ life' = [life EXCEPT ![p] = "live"]
        /\ io_user_safe' = io_user_safe \ {c} /\ pc' = [pc EXCEPT ![c] = "launch"]
        /\ UNCHANGED <<state, worker, io_eligible, next_identity, ret, wait, gate, io,
                       current_thread, preempt_tick_accumulator, event, halted>>
    BY <1>5 DEF bind_user_context
  <2>2. /\ user' \in [Slots -> Processes \cup {NoProcess}] /\ user'[c] # NoProcess
        /\ \A t \in Slots : t # c => user'[t] = user[t]
        /\ life' \in [Processes -> {"new", "live", "killed", "gone"}]
        /\ \A r \in Processes : life'[r] = "killed" => life[r] = "killed"
    BY <1>1, <1>3, <2>1, Zenon DEF OtherTypes
  <2> QED
    BY <1>1, <1>2, <1>3, <2>1, <2>2, MoveInv, Zenon
<1> QED
  BY <1>4, <1>5

LEMMA ExitCurrentAction == Inv /\ scheduler_exit_current => Inv'
<1> SUFFICES ASSUME Inv, scheduler_exit_current PROVE Inv'
  OBVIOUS
<1>1. OtherTypes /\ GateOK(gate, state) /\ Sane(c) /\ c \in Slots
  BY CurrentFacts, Zenon DEF Inv, Doings
<1>2. pc[c] \in {"kernel", "leave"} /\ c \notin io_eligible /\ ~Owns(c) /\ c # idle_thread
  BY OwnerPlace, CurrentFacts, Zenon DEF scheduler_exit_current, AtAny
<1>3. io.depth = 0
  BY <1>2, AloneFacts
<1>4. /\ gate' = io_gate_leave(gate, {c}) /\ pc' = [pc EXCEPT ![c] = "gone"]
      /\ UNCHANGED <<state, worker, io_eligible, next_identity, wait, io, current_thread,
                     preempt_tick_accumulator, event, halted, ret, life, user, io_user_safe>>
  BY DEF scheduler_exit_current, threadVars
<1>5. GateOK(gate', state') /\ gate'.waiting = gate.waiting \ {c}
  BY <1>1, <1>4, LeaveOK, Zenon
<1>6. user[c] = NoProcess /\ c \notin worker
  BY <1>1, <1>2, Zenon DEF Sane, Doing
<1> QED
  BY <1>1, <1>2, <1>3, <1>4, <1>5, <1>6, MoveInv, Zenon DEF OtherTypes

LEMMA StoreDeadAction == Inv /\ StoreDead => Inv'
<1> SUFFICES ASSUME Inv, StoreDead PROVE Inv'
  OBVIOUS
<1>1. /\ OtherTypes /\ GateOK(gate, state) /\ WaitOK(wait, state) /\ CpuOwnership
      /\ NoLostWakeup /\ Sleepers /\ Doings /\ Turns
  BY DEF Inv
<1>2. PICK o \in Slots : o = c /\ o = current_thread
  BY CurrentFacts
<1>3. /\ pc[o] = "gone" /\ o \notin io_eligible /\ o # idle_thread
      /\ state[o] # "BLOCKED" /\ ~Owns(o)
  BY <1>2, OwnerPlace, CurrentFacts, Zenon DEF StoreDead, At
<1>4. io.depth = 0
  BY <1>2, <1>3, AloneFacts
<1>5. o \notin gate.waiting
  BY <1>1, <1>2, <1>3, <1>4, Zenon DEF Turns
<1>6. /\ state' = [state EXCEPT ![o] = "DEAD"] /\ pc' = [pc EXCEPT ![o] = "dead"]
      /\ UNCHANGED <<user, worker, io_user_safe, io_eligible, next_identity, ret, wait, gate, io,
                     current_thread, preempt_tick_accumulator, event, life, halted>>
  BY <1>2 DEF StoreDead, threadVars
<1>7. OtherTypes' /\ CpuOwnership'
  BY <1>1, <1>2, <1>6, Zenon DEF OtherTypes, CpuOwnership, ThreadStates, Places
<1>8. GateOK(gate', state')
  BY <1>1, <1>5, <1>6, Zenon DEF GateOK, Gates, OtherTypes
<1>9. WaitOK(wait', state')
  BY <1>1, <1>3, <1>6, Zenon DEF WaitOK, OtherTypes
<1>10. IoExclusion' /\ OwnerAlive' /\ NoLostWakeup' /\ Sleepers'
  BY <1>1, <1>2, <1>3, <1>4, <1>6, CurrentFacts, Zenon
     DEF IoExclusion, OwnerAlive, NoLostWakeup, Sleepers, Killed, NoQueue, OtherTypes
<1>11. /\ pc'[o] = "dead" /\ state'[o] = "DEAD"
       /\ \A t \in Slots : t # o => pc'[t] = pc[t] /\ state'[t] = state[t]
  BY <1>1, <1>6, Zenon DEF OtherTypes
<1>12. Doings'
  <2>1. Sane(o)'
    BY <1>1, <1>3, <1>6, <1>11, Zenon DEF Doings, Sane, Doing
  <2> QED
    BY <1>1, <1>6, <1>11, <2>1, DoingsKept, Zenon
<1>13. Turns'
  <2>1. PICK i \in Slots : i = idle_thread /\ i # o
    BY <1>3, SlotFacts
  <2>2. i \in io_eligible' /\ state'[i] \in {"READY", "RUNNING"} /\ Doing(i)' = "idle"
    BY <1>1, <1>6, <1>11, <2>1, Zenon DEF Turns, Doing
  <2> QED
    BY <1>2, <1>4, <1>5, <1>6, <1>11, <2>1, <2>2, Zenon DEF Turns, idle_thread
<1> QED
  BY <1>7, <1>8, <1>9, <1>10, <1>12, <1>13 DEF Inv

\* The current thread drops its process while nobody owns storage.
LEMMA ClearInv ==
    ASSUME Inv, io.depth = 0, pc[c] \notin {"yield", "dead"}, c # idle_thread,
           c \notin io_eligible, NEW place \in {"kernel", "leave"}, ClearCurrent(place),
           life' \in [Processes -> {"new", "live", "killed", "gone"}],
           state' \in [Slots -> ThreadStates], state'[c] = state[c],
           \A t \in Slots : state'[t] = state[t] \/ {state'[t], state[t]} \subseteq LiveStates,
           \A t \in Slots : state'[t] = "RUNNING" => state[t] = "RUNNING",
           state'[idle_thread] \in {"READY", "RUNNING"},
           GateOK(gate', state'), WaitOK(wait', state'), NoLostWakeup', Sleepers',
           c \notin gate'.waiting
    PROVE  Inv'
<1>1. OtherTypes /\ CpuOwnership /\ Doings /\ Turns
  BY Zenon DEF Inv
<1>2. PICK o \in Slots : o = c /\ o = current_thread
  BY CurrentFacts, Zenon
<1>3. /\ user' = [user EXCEPT ![o] = NoProcess] /\ worker' = worker \ {o}
      /\ io_user_safe' = io_user_safe \ {o} /\ pc' = [pc EXCEPT ![o] = place]
      /\ UNCHANGED <<io_eligible, next_identity, ret, io, current_thread,
                     preempt_tick_accumulator, event, halted>>
  BY <1>2, Zenon DEF ClearCurrent
<1>4. OtherTypes' /\ CpuOwnership'
  BY <1>1, <1>2, <1>3, Zenon DEF OtherTypes, CpuOwnership, Places
<1>5. IoExclusion' /\ OwnerAlive'
  BY <1>3, Zenon DEF IoExclusion, OwnerAlive
<1>6. /\ pc'[o] = place /\ user'[o] = NoProcess /\ state[o] \in LiveStates /\ state[o] # "BLOCKED"
      /\ \A t \in Slots : t # o => pc'[t] = pc[t] /\ user'[t] = user[t]
  BY <1>1, <1>2, <1>3, CurrentFacts, Zenon DEF OtherTypes
<1>7. Doings'
  <2>1. Sane(o)'
    BY <1>2, <1>3, <1>6, Zenon DEF Sane, Doing, LiveStates
  <2> QED
    BY <1>1, <1>3, <1>6, <2>1, DoingsKept, Zenon
<1>8. Turns'
  <2>1. PICK i \in Slots : i = idle_thread /\ i # o
    BY <1>2, SlotFacts, Zenon
  <2>2. i \in io_eligible' /\ state'[i] \in {"READY", "RUNNING"} /\ Doing(i)' = "idle"
    BY <1>1, <1>3, <1>6, <2>1, ZenonT(40) DEF Turns, Doing
  <2> QED
    BY <1>2, <1>3, <1>6, <2>1, <2>2, ZenonT(40) DEF Turns, idle_thread
<1> QED
  BY <1>4, <1>5, <1>7, <1>8, Zenon DEF Inv

LEMMA ThreadExitActions == Inv /\ (process_thread_exit \/ scheduler_clear_user_context) => Inv'
<1> SUFFICES ASSUME Inv, process_thread_exit \/ scheduler_clear_user_context PROVE Inv'
  OBVIOUS
<1>1. OtherTypes /\ GateOK(gate, state) /\ WaitOK(wait, state) /\ NoLostWakeup /\ Sleepers /\ Turns
  BY DEF Inv
<1>2. /\ c \in Slots /\ pc[c] \in {"work", "dying", "teardown"} /\ c # idle_thread
      /\ c \notin io_eligible /\ ~Owns(c) /\ state[c] # "BLOCKED" /\ wait.on[c] = NoQueue
  BY OwnerPlace, CurrentFacts, Zenon
     DEF process_thread_exit, scheduler_clear_user_context, AtAny, At, Inv, Doings, Sane, Doing
<1>3. io.depth = 0 /\ c \notin gate.waiting
  BY <1>1, <1>2, AloneFacts, Zenon DEF Turns, c
<1>4. CASE invalid_user_binding
  BY <1>4, HaltStep
<1>5. CASE process_thread_exit /\ ~invalid_user_binding
  <2>1. /\ ClearCurrent("leave") /\ Wake(Waiters("q"), gate)
        /\ life' = IF pc[c] = "dying" THEN [life EXCEPT ![user[c]] = "killed"] ELSE life
    BY <1>5, Zenon DEF process_thread_exit
  <2>2. Waiters("q") \in SUBSET Slots /\ \A t \in Waiters("q") : state[t] = "BLOCKED"
    BY Zenon DEF Waiters
  <2>3. /\ state' \in [Slots -> ThreadStates]
        /\ \A t \in Slots : state'[t] = IF t \in Waiters("q") THEN "READY" ELSE state[t]
        /\ \A t \in Slots : wait'.on[t] = IF t \in Waiters("q") THEN NoQueue ELSE wait.on[t]
        /\ GateOK(gate', state') /\ WaitOK(wait', state')
        /\ \A t \in gate'.waiting : t \in gate.waiting \/ (t \in Waiters("q") /\ ~Owns(t))
    BY <1>1, <2>1, <2>2, WakeOK, Zenon DEF OtherTypes
  <2>4. NoLostWakeup'
    BY <1>1, <2>1, <2>3, Zenon DEF NoLostWakeup, NoQueue, ClearCurrent
  <2>s. Sleepers'
    <3>1. \A t \in Slots : t # c => pc'[t] = pc[t] /\ user'[t] = user[t]
      BY <1>1, <1>2, <2>1, Zenon DEF ClearCurrent, OtherTypes
    <3>2. \A t \in Slots : wait.on[t] = "q" => t \in Waiters("q")
      BY <1>1, Zenon DEF WaitOK, Waiters, NoQueue
    <3>3. \A t \in Slots : wait'.on[t] \in {"io", "svc"} => wait'.on[t] = wait.on[t] /\ t # c
      BY <1>2, <2>3, Zenon DEF NoQueue
    <3>4. \A t \in Slots : wait'.on[t] # "q"
      BY <2>3, <3>2, Zenon DEF NoQueue
    <3> QED
      BY <1>1, <3>1, <3>3, <3>4, Zenon DEF Sleepers
  <2>5. life' \in [Processes -> {"new", "live", "killed", "gone"}]
    BY <1>1, <2>1, Zenon DEF OtherTypes
  <2>6. /\ state'[c] = state[c] /\ c \notin gate'.waiting
        /\ \A t \in Slots : state'[t] = state[t] \/ {state'[t], state[t]} \subseteq LiveStates
        /\ \A t \in Slots : state'[t] = "RUNNING" => state[t] = "RUNNING"
        /\ state'[idle_thread] \in {"READY", "RUNNING"}
    BY <1>1, <1>2, <1>3, <2>2, <2>3, SlotFacts, Zenon DEF LiveStates, Turns
  <2> QED
    BY <1>2, <1>3, <2>1, <2>3, <2>4, <2>s, <2>5, <2>6, ClearInv, Zenon
<1>6. CASE scheduler_clear_user_context /\ ~invalid_user_binding
  <2>1. ClearCurrent("kernel") /\ UNCHANGED <<state, wait, gate>>
        /\ life' = [life EXCEPT ![user[c]] = "gone"]
    BY <1>6 DEF scheduler_clear_user_context
  <2>2. /\ state' \in [Slots -> ThreadStates] /\ GateOK(gate', state') /\ WaitOK(wait', state')
        /\ life' \in [Processes -> {"new", "live", "killed", "gone"}]
        /\ state'[idle_thread] \in {"READY", "RUNNING"} /\ c \notin gate'.waiting
    BY <1>1, <1>3, <2>1, Zenon DEF OtherTypes, Turns
  <2>3. NoLostWakeup'
    BY <1>1, <2>1, Zenon DEF NoLostWakeup, ClearCurrent
  <2>s. Sleepers'
    BY <1>1, <1>2, <2>1, Zenon DEF Sleepers, Killed, NoQueue, ClearCurrent, OtherTypes
  <2> QED
    BY <1>2, <1>3, <2>1, <2>2, <2>3, <2>s, ClearInv, Zenon
<1> QED
  BY <1>4, <1>5, <1>6

\* The set of workers that an exiting process kills holds neither the caller nor a
\* service, and nobody owns storage, so no scope loses its owner.
LEMMA KillThreadsAction == Inv /\ scheduler_kill_user_threads => Inv'
<1> SUFFICES ASSUME Inv, scheduler_kill_user_threads PROVE Inv'
  OBVIOUS
<1>1. /\ OtherTypes /\ GateOK(gate, state) /\ WaitOK(wait, state) /\ CpuOwnership
      /\ NoLostWakeup /\ Sleepers /\ Doings /\ Turns
  BY DEF Inv
<1>2. PICK o \in Slots : o = c /\ o = current_thread
  BY CurrentFacts
<1>3. /\ pc[o] = "dying" /\ ~Owns(o) /\ o \notin io_eligible /\ o # idle_thread /\ o \notin worker
      /\ state[o] \in LiveStates /\ state[o] # "BLOCKED"
  BY <1>2, OwnerPlace, CurrentFacts, Zenon DEF scheduler_kill_user_threads, At
<1>4. io.depth = 0 /\ o \notin gate.waiting
  BY <1>1, <1>2, <1>3, AloneFacts, Zenon DEF Turns
<1>5. PICK S \in SUBSET Slots :
        S = {t \in worker : user[t] = user[c] /\ state[t] \notin {"UNUSED", "DEAD"}}
  BY <1>1, Zenon DEF OtherTypes
<1>6. /\ wait' = detach_wait(wait, S) /\ gate' = io_gate_leave(gate, S)
      /\ user' = [t \in Slots |-> IF t \in S THEN NoProcess ELSE user[t]]
      /\ worker' = worker \ S
      /\ state' = [t \in Slots |-> IF t \in S THEN "DEAD" ELSE state[t]]
      /\ pc' = [t \in Slots |-> IF t \in S THEN "dead" ELSE IF t = o THEN "teardown" ELSE pc[t]]
      /\ ret' = [t \in Slots |-> IF t \in S THEN "kernel" ELSE ret[t]]
      /\ UNCHANGED <<io_user_safe, io_eligible, next_identity, io, current_thread,
                     preempt_tick_accumulator, event, life, halted>>
  BY <1>2, <1>5, Zenon DEF scheduler_kill_user_threads
<1>7. \A t \in S : t # o /\ t \notin io_eligible
  BY <1>1, <1>3, <1>5, Zenon DEF Doings, Sane
<1>8. OtherTypes' /\ CpuOwnership'
  BY <1>1, <1>2, <1>6, <1>7, Zenon DEF OtherTypes, CpuOwnership, ThreadStates, Places
<1>9. GateOK(gate', state') /\ gate'.waiting = gate.waiting \ S
  <2>1. GateOK(io_gate_leave(gate, S), state) /\ io_gate_leave(gate, S).waiting = gate.waiting \ S
    BY <1>1, LeaveOK, Zenon
  <2>2. \A t \in Slots \ S : state'[t] = state[t]
    BY <1>6, Zenon
  <2> QED
    BY <1>6, <2>1, <2>2, Zenon DEF GateOK, Gates
<1>10. /\ WaitOK(wait', state')
       /\ \A t \in Slots : wait'.on[t] = IF t \in S THEN NoQueue ELSE wait.on[t]
  <2>1. /\ \A t \in S : state'[t] # "BLOCKED"
        /\ \A t \in Slots \ S : state'[t] = "BLOCKED" <=> state[t] = "BLOCKED"
    BY <1>6, Zenon
  <2>2. /\ WaitOK(wait', state')
        /\ \A t \in Slots : wait'.on[t] = IF t \in S THEN NoQueue ELSE wait.on[t]
    <3>1. Detaches(wait, state, S, wait', state')
      BY <1>1, <1>6, <2>1, Zenon DEF Detaches
    <3>2. Detached(wait, S, wait', state')
      BY <3>1, DetachOK, Zenon
    <3> QED
      BY <3>2, Zenon DEF Detached
  <2> QED
    BY <2>2, Zenon
<1>11. IoExclusion' /\ OwnerAlive'
  BY <1>4, <1>6, Zenon DEF IoExclusion, OwnerAlive
<1>12. NoLostWakeup' /\ Sleepers'
  BY <1>1, <1>2, <1>3, <1>6, <1>10, CurrentFacts, ZenonT(40) DEF NoLostWakeup, Sleepers, Killed, NoQueue
<1>13. Doings'
  <2> SUFFICES ASSUME NEW t \in Slots PROVE Sane(t)'
    BY DEF Doings
  <2>1. Sane(t)
    BY <1>1 DEF Doings
  <2>2. CASE t \in S
    BY <1>6, <1>7, <2>2, Zenon DEF Sane, Doing
  <2>3. CASE t = o
    BY <1>2, <1>3, <1>6, <1>7, <2>1, <2>3, Zenon DEF Sane, Doing, Live
  <2>4. CASE t \notin S /\ t # o
    BY <1>6, <2>1, <2>4, Zenon DEF Sane, Doing, Live
  <2> QED
    BY <2>2, <2>3, <2>4
<1>14. Turns'
  <2>1. PICK i \in Slots : i = idle_thread /\ i # o /\ i \notin S
    BY <1>1, <1>3, <1>7, SlotFacts, Zenon DEF Turns
  <2>2. i \in io_eligible' /\ state'[i] \in {"READY", "RUNNING"} /\ Doing(i)' = "idle"
    BY <1>1, <1>6, <2>1, Zenon DEF Turns, Doing
  <2>3. state'[o] # "BLOCKED" /\ o \notin gate'.waiting
    BY <1>3, <1>4, <1>6, <1>7, <1>9, Zenon
  <2> QED
    BY <1>2, <1>4, <1>6, <2>1, <2>2, <2>3, Zenon DEF Turns, idle_thread
<1> QED
  BY <1>8, <1>9, <1>10, <1>11, <1>12, <1>13, <1>14, Zenon DEF Inv

\* The two services are eligible, so they are nobody's threads and not in a scope.
LEMMA QuarantineAction ==
    ASSUME Inv, NEW a \in Slots, NEW b \in Slots, quarantine_pair(a, b)
    PROVE  Inv'
<1>1. /\ OtherTypes /\ GateOK(gate, state) /\ WaitOK(wait, state) /\ CpuOwnership
      /\ IoExclusion /\ OwnerAlive /\ NoLostWakeup /\ Sleepers /\ Doings /\ Turns
  BY DEF Inv
<1>2. PICK o \in Slots : o = c /\ o = current_thread
  BY CurrentFacts
<1>3. PICK S \in SUBSET Slots : S = {a, b}
  BY Zenon
<1>4. /\ S \subseteq io_eligible \ {0, idle_thread} /\ state[o] = "RUNNING"
      /\ \A t \in S : ~Owns(t)
  BY <1>2, <1>3, Zenon DEF quarantine_pair
<1>5. /\ wait' = detach_wait(wait, S) /\ gate' = io_gate_leave(gate, S)
      /\ io_eligible' = io_eligible \ S
      /\ state' = [t \in Slots |-> IF t \in S THEN "QUARANTINED" ELSE state[t]]
      /\ pc' = [t \in Slots |-> IF t \in S THEN "dead" ELSE pc[t]]
      /\ ret' = [t \in Slots |-> IF t \in S THEN "kernel" ELSE ret[t]]
      /\ UNCHANGED <<user, worker, io_user_safe, next_identity, io, current_thread,
                     preempt_tick_accumulator, event, life, halted>>
  BY <1>3, Zenon DEF quarantine_pair
<1>6. OtherTypes' /\ CpuOwnership'
  BY <1>1, <1>2, <1>4, <1>5, Zenon DEF OtherTypes, CpuOwnership, ThreadStates, Places
<1>7. GateOK(gate', state') /\ gate'.waiting = gate.waiting \ S
  <2>1. GateOK(io_gate_leave(gate, S), state) /\ io_gate_leave(gate, S).waiting = gate.waiting \ S
    BY <1>1, LeaveOK, Zenon
  <2>2. \A t \in Slots \ S : state'[t] = state[t]
    BY <1>5, Zenon
  <2> QED
    BY <1>5, <2>1, <2>2, Zenon DEF GateOK, Gates
<1>8. /\ WaitOK(wait', state')
      /\ \A t \in Slots : wait'.on[t] = IF t \in S THEN NoQueue ELSE wait.on[t]
  <2>1. /\ \A t \in S : state'[t] # "BLOCKED"
        /\ \A t \in Slots \ S : state'[t] = "BLOCKED" <=> state[t] = "BLOCKED"
    BY <1>5, Zenon
  <2>2. /\ WaitOK(wait', state')
        /\ \A t \in Slots : wait'.on[t] = IF t \in S THEN NoQueue ELSE wait.on[t]
    <3>1. Detaches(wait, state, S, wait', state')
      BY <1>1, <1>5, <2>1, Zenon DEF Detaches
    <3>2. Detached(wait, S, wait', state')
      BY <3>1, DetachOK, Zenon
    <3> QED
      BY <3>2, Zenon DEF Detached
  <2> QED
    BY <2>2
<1>9. PICK w \in Slots : w = io.owner
  BY <1>1 DEF OtherTypes
<1>10. /\ \A t \in Slots : Doing(t)' = IF t \in S THEN "dead" ELSE Doing(t)
       /\ io.depth # 0 => w \notin S
  BY <1>4, <1>5, <1>9, Zenon DEF Doing, Owns
<1>11. IoExclusion'
  BY <1>1, <1>2, <1>5, <1>9, <1>10, Zenon DEF IoExclusion
<1>12. OwnerAlive'
  BY <1>1, <1>5, <1>9, <1>10, Zenon DEF OwnerAlive, Live
<1>13. NoLostWakeup' /\ Sleepers'
  BY <1>1, <1>5, <1>8, Zenon DEF NoLostWakeup, Sleepers, Killed, NoQueue
<1>14. Doings'
  <2> SUFFICES ASSUME NEW t \in Slots PROVE Sane(t)'
    BY DEF Doings
  <2>1. Sane(t)
    BY <1>1 DEF Doings
  <2>2. CASE t \in S
    BY <1>4, <1>5, <1>10, <2>1, <2>2, Zenon DEF Sane
  <2>3. CASE t \notin S
    BY <1>5, <1>10, <2>1, <2>3, Zenon DEF Sane, Live
  <2> QED
    BY <2>2, <2>3
<1>15. Turns'
  <2>1. PICK i \in Slots : i = idle_thread /\ i \notin S
    BY <1>4, SlotFacts
  <2>2. i \in io_eligible' /\ state'[i] \in {"READY", "RUNNING"} /\ Doing(i)' = "idle"
    BY <1>1, <1>5, <1>10, <2>1, Zenon DEF Turns
  <2>3. io.depth # 0 => Doing(w)' \in {"kernel", "work", "teardown"} /\ w \notin gate'.waiting
    BY <1>1, <1>7, <1>9, <1>10, Zenon DEF Turns
  <2>4. /\ state'[o] # "BLOCKED"
        /\ io.depth = 0 /\ o \in gate'.waiting => pc'[o] = "yield"
    BY <1>1, <1>2, <1>4, <1>5, <1>7, Zenon DEF Turns
  <2> QED
    BY <1>2, <1>5, <1>9, <2>1, <2>2, <2>3, <2>4, Zenon DEF Turns, idle_thread
<1> QED
  BY <1>6, <1>7, <1>8, <1>11, <1>12, <1>13, <1>14, <1>15, Zenon DEF Inv

-----------------------------------------------------------------------------
(* Thread creation.                                                        *)

\* A slot that may be taken is on no queue, holds no reservation and owns nothing.
LEMMA SpawnStep ==
    ASSUME Inv, io.depth = 0, NEW t \in Slots, NEW place, NEW process,
           spawn_thread(t, place, process),
           \/ place = "kernel" /\ process = NoProcess
           \/ place = "user" /\ process \in Processes
    PROVE  Inv'
<1>1. /\ OtherTypes /\ GateOK(gate, state) /\ WaitOK(wait, state) /\ CpuOwnership
      /\ NoLostWakeup /\ Sleepers /\ Doings /\ Turns
  BY DEF Inv
<1>2. NoProcess \notin Processes
  BY SchedulerAssumption DEF SchedulerAssumption
<1>3. PICK o \in Slots : o = current_thread /\ o # t
  BY <1>1 DEF OtherTypes, spawn_thread, c
<1>4. /\ state[t] \in {"UNUSED", "DEAD"}
      /\ state' = [state EXCEPT ![t] = "READY"] /\ user' = [user EXCEPT ![t] = process]
      /\ pc' = [pc EXCEPT ![t] = place] /\ ret' = [ret EXCEPT ![t] = "kernel"]
      /\ wait' = [wait EXCEPT !.on[t] = NoQueue, !.timed = @ \ {t}]
      /\ next_identity' = next_identity + 1
      /\ UNCHANGED <<io_eligible, io, current_thread, preempt_tick_accumulator, event, life, halted>>
  BY DEF spawn_thread
<1>5. t \notin gate.waiting /\ wait.on[t] = NoQueue /\ t \notin io_eligible /\ t # idle_thread
  BY <1>1, <1>4 DEF GateOK, WaitOK, LiveStates, Doings, Sane, Live, Turns
<1>6. OtherTypes'
  <2>1. worker' \subseteq Slots /\ io_user_safe' \subseteq Slots
    BY <1>1 DEF OtherTypes, spawn_thread
  <2> QED
    BY <1>1, <1>4, <2>1 DEF OtherTypes, ThreadStates, Places
<1>7. /\ state'[t] = "READY" /\ pc'[t] = place /\ user'[t] = process /\ ret'[t] = "kernel"
      /\ \A s \in Slots : s # t => /\ state'[s] = state[s] /\ pc'[s] = pc[s]
                                   /\ user'[s] = user[s] /\ ret'[s] = ret[s]
      /\ process # NoProcess => worker' = worker \cup {t} /\ io_user_safe' = io_user_safe \cup {t}
      /\ process = NoProcess => worker' = worker \ {t} /\ io_user_safe' = io_user_safe \ {t}
  BY <1>1, <1>4 DEF OtherTypes, spawn_thread
<1>8. WaitOK(wait', state') /\ wait'.on = wait.on
  <2>1. wait \in Waits
    BY <1>1 DEF WaitOK
  <2>2. wait'.on = wait.on /\ wait'.waiters = wait.waiters /\ wait' \in Waits
    BY <1>4, <1>5, <2>1, Zenon DEF Waits
  <2>3. \A q \in Queues : On(wait', q) = On(wait, q)
    BY <2>2, Zenon DEF On
  <2> QED
    BY <1>1, <1>4, <1>5, <1>7, <2>2, <2>3 DEF WaitOK
<1>9. GateOK(gate', state') /\ gate'.waiting \subseteq gate.waiting \cup {t}
  <2>1. PICK g \in {[gate EXCEPT !.waiting = @ \ {t}]} : TRUE
    OBVIOUS
  <2>2. gate \in Gates /\ gate.waiting \ {t} = gate.waiting
    BY <1>1, <1>5 DEF GateOK
  <2>3. g.waiting = gate.waiting /\ g.pending = gate.pending /\ g \in Gates
    BY <2>1, <2>2 DEF Gates
  <2>4. GateOK(g, state')
    BY <1>1, <1>5, <1>7, <2>2, <2>3 DEF GateOK, Gates
  <2>5. CASE process = NoProcess
    <3>1. gate' = io_gate_request(g, {t}) /\ {t} \in SUBSET Slots /\ state'[t] \in LiveStates
      BY <1>7, <2>1, <2>5, Zenon DEF spawn_thread, LiveStates
    <3>2. Requests(g, state', {t}, gate')
      BY <2>4, <3>1 DEF Requests
    <3> QED
      BY <2>3, <3>2, RequestOK
  <2>6. CASE process # NoProcess
    <3>1. gate' = g
      BY <2>1, <2>6, Zenon DEF spawn_thread
    <3> QED
      BY <2>3, <2>4, <3>1
  <2> QED
    BY <2>5, <2>6
<1>10. CpuOwnership' /\ IoExclusion' /\ OwnerAlive'
  BY <1>1, <1>3, <1>4, <1>7 DEF CpuOwnership, IoExclusion, OwnerAlive
<1>11. NoLostWakeup' /\ Sleepers'
  BY <1>1, <1>4, <1>5, <1>7, <1>8 DEF NoLostWakeup, Sleepers, Killed, NoQueue
<1>12. Doings'
  <2>1. Sane(t)'
    BY <1>2, <1>4, <1>5, <1>7 DEF Sane, Doing
  <2> QED
    BY <1>1, <1>4, <1>7, <2>1, DoingsKept
<1>13. Turns'
  <2>1. PICK i \in Slots : i = idle_thread /\ i # t
    BY <1>5, SlotFacts
  <2>2. i \in io_eligible' /\ state'[i] \in {"READY", "RUNNING"} /\ Doing(i)' = "idle"
    BY <1>1, <1>4, <1>7, <2>1 DEF Turns, Doing
  <2>3. /\ state'[o] = "BLOCKED" => pc'[o] = "yield"
        /\ o \in gate'.waiting => pc'[o] = "yield"
    BY <1>1, <1>3, <1>7, <1>9, Zenon DEF Turns
  <2> QED
    BY <1>3, <1>4, <2>1, <2>2, <2>3 DEF Turns, idle_thread
<1> QED
  BY <1>6, <1>8, <1>9, <1>10, <1>11, <1>12, <1>13, Zenon DEF Inv

LEMMA SpawnActions == Inv /\ Spawns => Inv'
<1> SUFFICES ASSUME Inv, Spawns PROVE Inv'
  OBVIOUS
<1>1. OtherTypes /\ c \in Slots /\ Sane(c)
  BY CurrentFacts, Zenon DEF Inv, Doings
<1>2. io.depth = 0
  BY <1>1, AloneFacts, Zenon
     DEF Spawns, scheduler_spawn, scheduler_spawn_user_thread, AtAny, At, Sane, Doing
<1>3. CASE scheduler_spawn
  BY <1>2, <1>3, SpawnStep DEF scheduler_spawn
<1>4. CASE scheduler_spawn_user_thread
  <2>1. user[c] \in Processes
    BY <1>1, <1>4 DEF OtherTypes, scheduler_spawn_user_thread
  <2> QED
    BY <1>2, <1>4, <2>1, SpawnStep DEF scheduler_spawn_user_thread
<1> QED
  BY <1>3, <1>4 DEF Spawns

-----------------------------------------------------------------------------
(* The timer interrupt.                                                    *)

LEMMA QuantumRange ==
    ASSUME NEW a \in Nat, NEW n \in Nat \ {0}
    PROVE  a % n \in 0 .. n - 1
OBVIOUS

\* A tick wakes the waiters that expired; then it cancels the thread it interrupted,
\* returns to it, or gives its processor away.
LEMMA TickAction == Inv /\ scheduler_preempt_tick => Inv'
<1> SUFFICES ASSUME Inv, scheduler_preempt_tick PROVE Inv'
  OBVIOUS
<1>1. /\ OtherTypes /\ GateOK(gate, state) /\ WaitOK(wait, state) /\ CpuOwnership
      /\ NoLostWakeup /\ Sleepers /\ Doings /\ Turns
  BY DEF Inv
<1>2. PICK o \in Slots : o = c /\ o = current_thread
  BY CurrentFacts
<1>3. PICK S \in SUBSET {t \in wait.timed : state[t] = "BLOCKED"} :
        \E st, sf, g :
          /\ st = [t \in Slots |-> IF t \in S THEN "READY" ELSE state[t]]
          /\ sf = IF pc[c] = "user" THEN io_user_safe \ {c} ELSE io_user_safe
          /\ g = io_gate_request(gate, io_ready_request(S, sf))
          /\ Interruptible /\ wait' = detach_wait(wait, S)
          /\ \/ /\ Cancelled
                /\ state' = st
                /\ gate' = io_gate_leave(g, {c})
                /\ io_user_safe' = io_user_safe \ {c}
                /\ pc' = [pc EXCEPT ![c] = "dying"]
                /\ ret' = [ret EXCEPT ![c] = "kernel"]
                /\ UNCHANGED <<current_thread, preempt_tick_accumulator>>
             \/ /\ ~Cancelled
                /\ UNCHANGED ret
                /\ preempt_tick_accumulator' = NextAccumulator
                /\ IF preempt_tick_accumulator' # 0
                   THEN /\ state' = st /\ gate' = g
                        /\ UNCHANGED <<current_thread, io_user_safe, pc>>
                   ELSE /\ yield_to(st, g, sf)
                        /\ IF pc[c] = "user" /\ current_thread' # c
                           THEN io_user_safe' = sf /\ pc' = [pc EXCEPT ![c] = "isr"]
                           ELSE UNCHANGED <<io_user_safe, pc>>
          /\ UNCHANGED <<user, worker, io_eligible, next_identity, io, event, life, halted>>
  BY Zenon DEF scheduler_preempt_tick
<1>4. PICK st, sf, g :
          /\ st = [t \in Slots |-> IF t \in S THEN "READY" ELSE state[t]]
          /\ sf = IF pc[o] = "user" THEN io_user_safe \ {o} ELSE io_user_safe
          /\ g = io_gate_request(gate, io_ready_request(S, sf))
          /\ Interruptible /\ wait' = detach_wait(wait, S)
          /\ \/ /\ Cancelled
                /\ state' = st
                /\ gate' = io_gate_leave(g, {o})
                /\ io_user_safe' = io_user_safe \ {o}
                /\ pc' = [pc EXCEPT ![o] = "dying"]
                /\ ret' = [ret EXCEPT ![o] = "kernel"]
                /\ UNCHANGED <<current_thread, preempt_tick_accumulator>>
             \/ /\ ~Cancelled
                /\ UNCHANGED ret
                /\ preempt_tick_accumulator' = NextAccumulator
                /\ \/ /\ state' = st /\ gate' = g
                      /\ UNCHANGED <<current_thread, io_user_safe, pc>>
                   \/ /\ yield_to(st, g, sf)
                      /\ \/ /\ io_user_safe' = sf /\ pc' = [pc EXCEPT ![o] = "isr"]
                            /\ pc[o] = "user"
                         \/ UNCHANGED <<io_user_safe, pc>>
          /\ UNCHANGED <<user, worker, io_eligible, next_identity, io, event, life, halted>>
  BY <1>2, <1>3, ZenonT(40)
<1>5. /\ S \in SUBSET Slots /\ (\A t \in S : state[t] = "BLOCKED") /\ sf \in SUBSET io_user_safe
      /\ preempt_tick_accumulator' \in 0 .. SCHEDULER_PREEMPT_QUANTUM_TICKS - 1
  <2>1. wait.timed \in SUBSET Slots
    BY <1>1 DEF WaitOK, Waits
  <2>2. NextAccumulator \in 0 .. SCHEDULER_PREEMPT_QUANTUM_TICKS - 1
    <3>1. preempt_tick_accumulator + 1 \in Nat /\ SCHEDULER_PREEMPT_QUANTUM_TICKS \in Nat \ {0}
      <4>1. preempt_tick_accumulator \in 0 .. SCHEDULER_PREEMPT_QUANTUM_TICKS - 1
        BY <1>1, Zenon DEF OtherTypes
      <4>2. SCHEDULER_PREEMPT_QUANTUM_TICKS \in Nat \ {0}
        BY SchedulerAssumption, Zenon DEF SchedulerAssumption
      <4> QED
        BY <4>1, <4>2
    <3> QED
      BY <3>1, QuantumRange DEF NextAccumulator
  <2> QED
    BY <1>1, <1>4, <2>1, <2>2, Zenon DEF OtherTypes
<1>6. /\ st \in [Slots -> ThreadStates]
      /\ \A t \in Slots : st[t] = IF t \in S THEN "READY" ELSE state[t]
  BY <1>1, <1>4, Zenon DEF OtherTypes, ThreadStates
<1>7. /\ \A t \in Slots : st[t] = state[t] \/ {st[t], state[t]} \subseteq LiveStates
      /\ \A t \in Slots : st[t] = "RUNNING" => state[t] = "RUNNING"
      /\ st[idle_thread] \in {"READY", "RUNNING"}
  BY <1>1, <1>5, <1>6, SlotFacts, Zenon DEF LiveStates, Turns
<1>8. /\ GateOK(g, st)
      /\ \A t \in g.waiting : t \in gate.waiting \/ (t \in S /\ ~Owns(t))
  <2>1. PICK R \in SUBSET S : R = io_ready_request(S, sf)
    BY Zenon DEF io_ready_request
  <2>2. GateOK(gate, st)
    BY <1>1, <1>7, Zenon DEF GateOK, Gates
  <2>3. R \in SUBSET Slots /\ \A t \in R : st[t] \in LiveStates /\ ~Owns(t)
    BY <1>5, <1>6, <2>1, Zenon DEF LiveStates, io_ready_request
  <2>4. GateOK(g, st) /\ g.waiting = gate.waiting \cup R
    <3>1. g = io_gate_request(gate, R)
      BY <1>4, <2>1, Zenon
    <3>2. Requests(gate, st, R, g)
      BY <2>2, <2>3, <3>1, Zenon DEF Requests
    <3> QED
      BY <3>2, RequestOK, Zenon
  <2> QED
    BY <2>3, <2>4
<1>9. /\ WaitOK(wait', st)
      /\ \A t \in Slots : wait'.on[t] = IF t \in S THEN NoQueue ELSE wait.on[t]
  <2>1. /\ \A t \in S : st[t] # "BLOCKED"
        /\ \A t \in Slots \ S : st[t] = "BLOCKED" <=> state[t] = "BLOCKED"
    BY <1>5, <1>6
  <2>2. /\ WaitOK(wait', st)
        /\ \A t \in Slots : wait'.on[t] = IF t \in S THEN NoQueue ELSE wait.on[t]
    <3>1. Detaches(wait, state, S, wait', st)
      BY <1>1, <1>4, <1>5, <2>1, Zenon DEF Detaches
    <3>2. Detached(wait, S, wait', st)
      BY <3>1, DetachOK, Zenon
    <3> QED
      BY <3>2 DEF Detached
  <2> QED
    BY <2>2
<1>10. /\ UNCHANGED <<user, worker, io_eligible, next_identity, io, event, life, halted>>
       /\ \A t \in Slots : /\ wait'.on[t] \in {"q", "svc"} => ~event[wait'.on[t]]
                           /\ wait'.on[t] = "io" => io.depth # 0 /\ io.owner # t
  BY <1>1, <1>4, <1>9, Zenon DEF NoLostWakeup, NoQueue
<1>11. ASSUME pc' \in [Slots -> Places], \A t \in Slots : t # o => pc'[t] = pc[t],
              pc'[o] = "gate" \/ wait.on[o] # "io"
       PROVE  Sleepers'
  BY <1>1, <1>2, <1>9, <1>10, <1>11, ZenonT(40) DEF Sleepers, Killed, NoQueue
<1>12. wait.on[o] # "io"
  BY <1>1, <1>2, <1>4, Zenon DEF Sleepers, Interruptible
<1>13. CASE Cancelled
  <2>1. /\ state' = st /\ gate' = io_gate_leave(g, {o}) /\ io_user_safe' = io_user_safe \ {o}
        /\ pc' = [pc EXCEPT ![o] = "dying"] /\ ret' = [ret EXCEPT ![o] = "kernel"]
        /\ UNCHANGED <<current_thread, preempt_tick_accumulator>>
    BY <1>4, <1>13, Zenon
  <2>2. /\ io.depth = 0 /\ user[o] # NoProcess /\ user[o] \in Killed
    BY <1>2, <1>13, SchedulerAssumption, Zenon DEF Cancelled, Killed, SchedulerAssumption
  <2>3. /\ o \notin io_eligible /\ o # idle_thread /\ pc[o] # "dead"
    BY <1>1, <2>2, Zenon DEF Doings, Sane, Doing, Turns
  <2>4. wait.on[o] = NoQueue
    <3>1. wait.on[o] \in Queues \cup {NoQueue}
      BY <1>1 DEF WaitOK, Waits
    <3> QED
      BY <1>1, <1>12, <2>2, <3>1, Zenon DEF Sleepers, Queues
  <2>5. state[o] # "BLOCKED" /\ state[o] \in LiveStates /\ o \notin S /\ st[o] = state[o]
    BY <1>1, <1>2, <1>5, <1>6, <2>3, <2>4, CurrentFacts, Zenon DEF WaitOK
  <2>6. GateOK(gate', state') /\ o \notin gate'.waiting
    <3>1. /\ GateOK(io_gate_leave(g, {o}), st)
          /\ io_gate_leave(g, {o}).waiting = g.waiting \ {o}
      BY <1>8, LeaveOK, Zenon
    <3> QED
      BY <2>1, <3>1, Zenon
  <2>7. OtherTypes' /\ CpuOwnership'
    BY <1>1, <1>2, <1>5, <1>6, <1>7, <1>10, <2>1, <2>5, Zenon DEF OtherTypes, CpuOwnership, Places
  <2>8. IoExclusion' /\ OwnerAlive' /\ NoLostWakeup'
    BY <1>10, <2>2, Zenon DEF IoExclusion, OwnerAlive, NoLostWakeup
  <2>9. /\ pc'[o] = "dying" /\ pc' \in [Slots -> Places]
        /\ \A t \in Slots : t # o => pc'[t] = pc[t] /\ ret'[t] = ret[t]
    BY <1>1, <2>1, Zenon DEF OtherTypes, Places
  <2>10. Sleepers'
    BY <1>11, <1>12, <2>9
  <2>11. Doings'
    <3>1. Sane(o)'
      BY <1>1, <1>10, <2>1, <2>2, <2>3, <2>5, <2>9, Zenon DEF Sane, Doing, LiveStates
    <3>2. \A t \in Slots : state'[t] = state[t] \/ {state'[t], state[t]} \subseteq LiveStates
      BY <1>7, <2>1, Zenon
    <3> QED
      BY <1>1, <1>10, <2>1, <2>9, <3>1, <3>2, DoingsKept, Zenon
  <2>12. Turns'
    <3>1. PICK i \in Slots : i = idle_thread /\ i # o
      BY <2>3, SlotFacts
    <3>2. i \in io_eligible' /\ state'[i] \in {"READY", "RUNNING"} /\ Doing(i)' = "idle"
      BY <1>1, <1>7, <1>10, <2>1, <2>9, <3>1, Zenon DEF Turns, Doing
    <3> QED
      BY <1>2, <1>10, <2>1, <2>2, <2>5, <2>6, <3>1, <3>2, Zenon DEF Turns, idle_thread
  <2>13. WaitOK(wait', state')
    BY <1>9, <2>1, Zenon
  <2> QED
    BY <2>6, <2>7, <2>8, <2>10, <2>11, <2>12, <2>13, Zenon DEF Inv
<1>14. CASE ~Cancelled /\ state' = st /\ gate' = g /\ UNCHANGED <<current_thread, io_user_safe, pc, ret>>
  <2>1. NoLostWakeup'
    BY <1>10, Zenon DEF NoLostWakeup
  <2>2. Sleepers'
    BY <1>1, <1>11, <1>12, <1>14, Zenon DEF OtherTypes
  <2>3. /\ state'[c] = "BLOCKED" => pc'[c] = "yield"
        /\ io.depth = 0 /\ c \in gate'.waiting => c \in gate.waiting \/ pc'[c] = "yield"
    BY <1>5, <1>6, <1>8, <1>14, CurrentFacts, Zenon
  <2>4. /\ event' \in [Queues -> BOOLEAN] /\ life' \in [Processes -> {"new", "live", "killed", "gone"}]
    BY <1>1, <1>10, Zenon DEF OtherTypes
  <2> QED
    BY <1>5, <1>6, <1>7, <1>8, <1>9, <1>10, <1>14, <2>1, <2>2, <2>3, <2>4, StayInv, Zenon
<1>15. CASE /\ ~Cancelled /\ yield_to(st, g, sf) /\ ret' = ret
            /\ \/ io_user_safe' = sf /\ pc' = [pc EXCEPT ![o] = "isr"] /\ pc[o] = "user"
               \/ UNCHANGED <<io_user_safe, pc>>
  <2>1. /\ pc' \in [Slots -> Places] /\ ret' \in [Slots -> Places] /\ io_user_safe' \subseteq io_user_safe
        /\ \A t \in Slots : t # c => pc'[t] = pc[t] /\ ret'[t] = ret[t]
        /\ \/ pc'[c] = pc[c] /\ ret'[c] = ret[c]
           \/ pc'[c] = "isr" /\ pc[c] = "user" /\ c \notin io_user_safe'
    <3>1. CASE io_user_safe' = sf /\ pc' = [pc EXCEPT ![o] = "isr"] /\ pc[o] = "user"
      <4>1. /\ pc \in [Slots -> Places] /\ ret' \in [Slots -> Places] /\ "isr" \in Places
            /\ pc' = [pc EXCEPT ![o] = "isr"] /\ ret' = ret /\ io_user_safe' = sf /\ pc[o] = "user"
        BY <1>1, <1>15, <3>1, Zenon DEF OtherTypes, Places
      <4>2. pc' \in [Slots -> Places] /\ pc'[o] = "isr" /\ \A t \in Slots : t # o => pc'[t] = pc[t]
        BY <4>1, Zenon
      <4>3. sf \subseteq io_user_safe /\ o \notin sf
        <5>1. sf = io_user_safe \ {o}
          BY <1>4, <4>1, Zenon
        <5> QED
          BY <5>1, Zenon
      <4> QED
        BY <1>2, <4>1, <4>2, <4>3, Zenon
    <3>2. CASE UNCHANGED <<io_user_safe, pc>>
      BY <1>1, <1>2, <1>15, <3>2, Zenon DEF OtherTypes
    <3> QED
      BY <1>15, <3>1, <3>2, Zenon
  <2>2. Sleepers'
    BY <1>2, <1>11, <1>12, <2>1, Zenon
  <2>3. /\ pc'[c] = "yield" => ret'[c] \in {"kernel", "safe", "work", "teardown", "idle"}
        /\ pc'[c] = "gate" => ret'[c] \in {"work", "dying"}
        /\ pc'[c] = "dead" <=> pc[c] = "dead"
    BY <1>1, <1>2, <2>1, Zenon DEF Doings, Sane
  <2>4. LET doing == IF pc'[c] = "yield" THEN ret'[c] ELSE pc'[c]
        IN  \/ doing = Doing(c)
            \/ /\ doing \in {"gate", "isr"} /\ c \notin io_eligible /\ ~Owns(c)
               /\ c \in io_user_safe' => user[c] = NoProcess
    BY <2>1, OwnerPlace, Zenon DEF Doing
  <2>5. \A t \in g.waiting : t \in gate.waiting \/ ~Owns(t)
    BY <1>8, Zenon
  <2> QED
    BY <1>5, <1>6, <1>7, <1>8, <1>9, <1>10, <1>15, <2>1, <2>2, <2>3, <2>4, <2>5, YieldInv, Zenon
<1> QED
  BY <1>4, <1>13, <1>14, <1>15, Zenon

-----------------------------------------------------------------------------
(* The theorems.                                                           *)

LEMMA NextInv == Inv /\ [Next]_vars => Inv'
<1> SUFFICES ASSUME Inv, [Next]_vars PROVE Inv'
  OBVIOUS
<1>1. CASE Spawns
  BY <1>1, SpawnActions
<1>2. CASE Waiting
  BY <1>2, WaitActions, YieldAction, BookActions, WakeActions DEF Waiting
<1>3. CASE Gate
  BY <1>3, BeginActions, EndAction, BookActions, GateActions, HandoffAction DEF Gate
<1>4. CASE Syscalls
  BY <1>4, GateActions, SyscallActions DEF Syscalls
<1>5. CASE Exits
  BY <1>5, BindAction, KillAction, GateActions, ThreadExitActions, KillThreadsAction,
     ExitCurrentAction, StoreDeadAction, QuarantineAction DEF Exits
<1>6. CASE scheduler_preempt_tick
  BY <1>6, TickAction
<1>7. CASE UNCHANGED vars
  BY <1>7, SameInv, Zenon DEF Inv, OtherTypes, vars
<1> QED
  BY <1>1, <1>2, <1>3, <1>4, <1>5, <1>6, <1>7 DEF Next, Halted

\* For every number of threads, services, processes and nested scopes: the books of
\* the gate and of the wait queues count what is there, one thread runs, storage
\* has one live owner with nobody else inside, and no wakeup is lost (scheduler.c).
THEOREM SchedulerInvariant == Spec => []SchedulerSound
<1>1. scheduler_init => Inv
  BY InitInv
<1>2. Inv /\ [Next]_vars => Inv'
  BY NextInv
<1>3. Inv => SchedulerSound
  BY InvSound
<1> QED
  BY <1>1, <1>2, <1>3, PTL DEF Spec

\* What yield_to leaves of the states it starts from.
LEMMA YieldKeeps ==
    ASSUME Inv, NEW st \in [Slots -> ThreadStates], NEW g, NEW sf, GateOK(g, st),
           \A t \in Slots : st[t] = "RUNNING" => state[t] = "RUNNING",
           st[idle_thread] \in {"READY", "RUNNING"}, yield_to(st, g, sf)
    PROVE  \A t \in Slots : st[t] = "QUARANTINED" => state'[t] = "QUARANTINED"
<1>1. current_thread \in Slots /\ \A t \in Slots : st[t] = "RUNNING" => t = c
  BY Zenon DEF Inv, OtherTypes, CpuOwnership, c
<1>2. \A t \in Slots : \/ state'[t] = st[t]
                       \/ {st[t], state'[t]} \subseteq {"READY", "RUNNING"}
  BY <1>1, YieldStep, Zenon
<1> QED
  BY <1>2, Zenon

LEMMA GateWaitKeeps ==
    ASSUME Inv, NEW place, NEW sf, scheduler_io_wait(place, sf),
           pc[c] \notin {"yield", "dead", "idle"},
           NEW t \in Slots, state[t] = "QUARANTINED"
    PROVE  state'[t] = "QUARANTINED"
<1>1. OtherTypes /\ GateOK(gate, state) /\ Turns
  BY DEF Inv
<1>2. c \in Slots /\ state[c] \in LiveStates /\ c # idle_thread /\ t # c
  BY CurrentFacts DEF LiveStates
<1>3. CASE io.depth = 0 \/ io.owner = c
  BY <1>3, Zenon DEF scheduler_io_wait
<1>4. CASE ~(io.depth = 0 \/ io.owner = c)
  <2>1. PICK g \in {io_gate_request(gate, {c} \cup ExcludedExcept)} : TRUE
    OBVIOUS
  <2>2. PICK st \in {IF ReadyExcept # {} THEN [state EXCEPT ![c] = "BLOCKED"] ELSE state} : TRUE
    OBVIOUS
  <2>3. yield_to(st, g, sf)
    BY <1>4, <2>1, <2>2, Zenon DEF scheduler_io_wait
  <2>4. /\ st \in [Slots -> ThreadStates]
        /\ \A s \in Slots : s # c => st[s] = state[s]
        /\ st[c] \in {state[c], "BLOCKED"}
    BY <1>1, <1>2, <2>2, Zenon DEF OtherTypes, ThreadStates
  <2>5. /\ \A s \in Slots : st[s] = "RUNNING" => state[s] = "RUNNING"
        /\ st[idle_thread] \in {"READY", "RUNNING"} /\ st[t] = "QUARANTINED"
    BY <1>1, <1>2, <2>4, SlotFacts, Zenon DEF Turns
  <2>6. GateOK(g, st)
    <3>1. GateOK(gate, st)
      BY <1>1, <1>2, <2>4, Zenon DEF GateOK, Gates, LiveStates
    <3>2. {c} \cup ExcludedExcept \in SUBSET Slots
          /\ \A s \in {c} \cup ExcludedExcept : st[s] \in LiveStates
      BY <1>2, <2>4, ExcludedFacts DEF LiveStates
    <3>3. PICK R \in SUBSET Slots : R = {c} \cup ExcludedExcept
      BY <3>2
    <3>4. Requests(gate, st, R, g)
      BY <2>1, <3>1, <3>2, <3>3, Zenon DEF Requests
    <3>5. GateOK(g, st) /\ g.waiting = gate.waiting \cup R
      BY <3>4, RequestOK, Zenon
    <3> QED
      BY <3>3, <3>5, Zenon
  <2> QED
    BY <2>3, <2>4, <2>5, <2>6, YieldKeeps, Zenon
<1> QED
  BY <1>3, <1>4

LEMMA QuarantineKept ==
    ASSUME Inv, Next, NEW t \in Slots, state[t] = "QUARANTINED"
    PROVE  state'[t] = "QUARANTINED"
<1>1. /\ OtherTypes /\ GateOK(gate, state) /\ WaitOK(wait, state) /\ CpuOwnership /\ Doings /\ Turns
  BY DEF Inv
<1>2. /\ c \in Slots /\ (pc[c] # "dead" => state[c] \in LiveStates)
      /\ pc[t] = "dead" /\ user[t] = NoProcess /\ t \notin worker
  BY <1>1, CurrentFacts, Zenon DEF Doings, Sane, Doing
<1>3. CASE Spawns
  BY <1>1, <1>3, Zenon DEF Spawns, scheduler_spawn, scheduler_spawn_user_thread, spawn_thread, OtherTypes
<1>4. CASE ServiceWait \/ OrdinaryWait \/ scheduler_io_wait_timeout
  BY <1>1, <1>2, <1>4, Zenon DEF ServiceWait, OrdinaryWait, scheduler_io_wait_timeout, At, AtAny,
     scheduler_wait_timeout, OtherTypes, LiveStates
<1>5. CASE scheduler_yield
  BY <1>1, <1>5, YieldKeeps, ZenonT(40) DEF scheduler_yield, OtherTypes, Turns
<1>6. CASE \E q \in Signalled : scheduler_wake_all(q) \/ scheduler_wake_count(q)
  BY <1>1, <1>6, Zenon DEF scheduler_wake_all, scheduler_wake_count, Wake, Waiters
<1>7. CASE \/ Consume \/ idle_step \/ scheduler_io_begin \/ scheduler_io_begin_process_image
           \/ scheduler_io_yield \/ scheduler_io_request_turn \/ SyscallSafe \/ Halted
           \/ scheduler_exit_current
  BY <1>7 DEF Consume, idle_step, scheduler_io_begin, scheduler_io_begin_process_image, Begin,
     scheduler_io_yield, scheduler_io_request_turn, SyscallSafe, Halted, vars, scheduler_exit_current
<1>8. CASE scheduler_io_end
  BY <1>1, <1>8 DEF scheduler_io_end, Waiters
<1>9. CASE KernelGate \/ GateRetry \/ SyscallGated \/ process_exit_gate
  <2>1. PICK place, sf : scheduler_io_wait(place, sf) /\ pc[c] \notin {"yield", "dead", "idle"}
    BY <1>9, Zenon DEF KernelGate, GateRetry, SyscallGated, process_exit_gate, Gated, At, AtAny
  <2> QED
    BY <2>1, GateWaitKeeps
<1>10. CASE ReturnToUser \/ WorkDone
  <2>1. pc[c] \notin {"yield", "dead", "idle"}
    BY <1>10, Zenon DEF ReturnToUser, WorkDone, At, AtAny
  <2>2. CASE Gated("dying")
    BY <2>1, <2>2, GateWaitKeeps, Zenon DEF Gated
  <2>3. CASE ~Gated("dying")
    BY <1>10, <2>3 DEF ReturnToUser, WorkDone
  <2> QED
    BY <2>2, <2>3
<1>11. CASE scheduler_io_handoff
  <2>1. CASE UNCHANGED state
    BY <2>1
  <2>2. CASE ~UNCHANGED state
    <3>1. PICK n \in Slots \ {c} :
            HandoffTarget(n) /\ SwitchTo(n, state, gate, io_user_safe \cup {c})
      BY <1>11, <2>2, Zenon DEF scheduler_io_handoff
    <3>2. state[n] = "READY" /\ n # c /\ \A s \in Demoted(state) : state[s] = "RUNNING"
      BY <3>1, Zenon DEF HandoffTarget, Demoted
    <3>3. state' = [s \in Slots |-> IF s = n THEN "RUNNING"
                                    ELSE IF s \in Demoted(state) THEN "READY" ELSE state[s]]
      BY <3>1, <3>2 DEF SwitchTo
    <3> QED
      BY <3>2, <3>3
  <2> QED
    BY <2>1, <2>2
<1>12. CASE \E p \in Processes : bind_user_context(p) \/ process_kill(p)
  BY <1>1, <1>12, Zenon DEF bind_user_context, invalid_user_binding, process_kill, Wake, Waiters
<1>13. CASE process_thread_exit \/ scheduler_clear_user_context
  BY <1>1, <1>13, Zenon DEF process_thread_exit, scheduler_clear_user_context, invalid_user_binding, Wake, Waiters
<1>14. CASE scheduler_kill_user_threads
  BY <1>2, <1>14, Zenon DEF scheduler_kill_user_threads
<1>15. CASE StoreDead
  BY <1>1, <1>2, <1>15, Zenon DEF StoreDead, At, OtherTypes
<1>16. CASE \E a, b \in Slots : quarantine_pair(a, b)
  BY <1>16, SMTT(30) DEF quarantine_pair
<1>17. CASE scheduler_preempt_tick
  <2>1. PICK S \in SUBSET {s \in wait.timed : state[s] = "BLOCKED"} :
          \E st, sf, g :
            /\ st = [s \in Slots |-> IF s \in S THEN "READY" ELSE state[s]]
            /\ g = io_gate_request(gate, io_ready_request(S, sf))
            /\ state' = st \/ yield_to(st, g, sf)
    BY <1>17, Zenon DEF scheduler_preempt_tick
  <2>2. PICK st, sf, g :
            /\ st = [s \in Slots |-> IF s \in S THEN "READY" ELSE state[s]]
            /\ g = io_gate_request(gate, io_ready_request(S, sf))
            /\ state' = st \/ yield_to(st, g, sf)
    BY <2>1, Zenon
  <2>3. /\ st \in [Slots -> ThreadStates] /\ st[t] = "QUARANTINED" /\ S \in SUBSET Slots
        /\ \A s \in Slots : st[s] = IF s \in S THEN "READY" ELSE state[s]
    BY <1>1, <2>2, Zenon DEF OtherTypes, ThreadStates, WaitOK, Waits
  <2>4. GateOK(g, st)
    <3>1. PICK R \in SUBSET Slots : R = io_ready_request(S, sf) /\ R \subseteq S
      BY <2>3, Zenon DEF io_ready_request
    <3>2. GateOK(gate, st) /\ \A s \in R : st[s] \in LiveStates
      BY <1>1, <2>3, <3>1, Zenon DEF GateOK, Gates, LiveStates
    <3>3. g = io_gate_request(gate, R)
      BY <2>2, <3>1, Zenon
    <3>4. Requests(gate, st, R, g)
      BY <3>2, <3>3, Zenon DEF Requests
    <3> QED
      BY <3>4, RequestOK, Zenon
  <2>5. /\ \A s \in Slots : st[s] = "RUNNING" => state[s] = "RUNNING"
        /\ st[idle_thread] \in {"READY", "RUNNING"}
    BY <1>1, <2>3, SlotFacts, Zenon DEF Turns
  <2> QED
    BY <2>2, <2>3, <2>4, <2>5, YieldKeeps, Zenon
<1> QED
  BY <1>3, <1>4, <1>5, <1>6, <1>7, <1>8, <1>9, <1>10, <1>11, <1>12, <1>13, <1>14, <1>15, <1>16,
     <1>17, Zenon DEF Next, Waiting, Gate, Syscalls, Exits

\* A quarantined service never runs again and its slot is never reused: nothing that
\* wakes, switches, spawns, kills or exits touches its record (scheduler.c).
THEOREM QuarantineStays == Spec => QuarantineIsFinal
<1>1. Inv /\ [Next]_vars =>
        [\A t \in DOMAIN state : state[t] = "QUARANTINED" => state'[t] = "QUARANTINED"]_vars
  <2> SUFFICES ASSUME Inv, Next, NEW t \in DOMAIN state, state[t] = "QUARANTINED"
               PROVE  state'[t] = "QUARANTINED"
    OBVIOUS
  <2>1. t \in Slots
    BY DEF Inv, OtherTypes
  <2> QED
    BY <2>1, QuarantineKept
<1> QED
  BY <1>1, InitInv, NextInv, PTL DEF Spec, QuarantineIsFinal
=============================================================================

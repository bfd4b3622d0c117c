-------------------------- MODULE WorkqueueProofs --------------------------
(***************************************************************************)
(* The work queue for every set of works and every length of the ring: it  *)
(* is the bounded FIFO of WorkFifo, ordinary work is not admitted into     *)
(* storage scopes, and the worker sleeps on work only between a store and  *)
(* its wake-up.                                                            *)
(*                                                                         *)
(* Both need to know more of the ring than WorkSound says.  RingSound: the *)
(* slots between head and tail hold works, each at most once, and a work   *)
(* that was asked for as ordinary is marked so while it waits.  Admission: *)
(* what the scheduler knew when it let the worker into a storage scope     *)
(* still holds while the worker has the processor.                         *)
(***************************************************************************)
EXTENDS Workqueue, SequenceTheorems, TLAPS

RingSound ==
    /\ \A i \in 0 .. queue_count - 1 : items[At(i)] \in Items
    /\ \A i, j \in 0 .. queue_count - 1 : items[At(i)].fn = items[At(j)].fn => i = j
    /\ \A w \in Works : <<"queued", w>> \in ordinary =>
          \E i \in 0 .. queue_count - 1 : items[At(i)].fn = w /\ ~items[At(i)].io_safe

Admission ==
    /\ callback_active <=> worker \in {"run", "after"}
    /\ running # NoWork => worker = "run"
    /\ \A w \in Works : <<"running", w>> \in ordinary => worker = "run" /\ ~callback_io_safe
    /\ worker = "blocked" => ~on_cpu
    /\ on_cpu /\ owned /\ worker = "run" => callback_io_safe \/ late
    /\ on_cpu /\ owned /\ worker = "loop" =>
          queue_count # 0 /\ (items[queue_head].io_safe \/ late)

Inv == TypeOK /\ NoSleepOnWork /\ RingSound /\ Admission

Queue == [i \in 1 .. queue_count |-> items[At(i - 1)]]

\* The ring is walked modulo its length, at most once around.
LEMMA RingStep ==
    ASSUME NEW n \in Nat \ {0}, NEW h \in 0 .. n - 1, NEW i \in 0 .. n
    PROVE  (h + i) % n = IF h + i < n THEN h + i ELSE h + i - n
OBVIOUS

LEMMA AtRing ==
    ASSUME WorkqueueAssumption, TypeOK, NEW i \in 0 .. WORKQUEUE_MAX_ITEMS
    PROVE  /\ At(i) = IF queue_head + i < WORKQUEUE_MAX_ITEMS THEN queue_head + i
                      ELSE queue_head + i - WORKQUEUE_MAX_ITEMS
           /\ At(i) \in Ring
<1>1. WORKQUEUE_MAX_ITEMS \in Nat \ {0}
  BY DEF WorkqueueAssumption
<1>2. queue_head \in 0 .. WORKQUEUE_MAX_ITEMS - 1
  BY DEF TypeOK, Ring
<1>3. At(i) = IF queue_head + i < WORKQUEUE_MAX_ITEMS THEN queue_head + i
              ELSE queue_head + i - WORKQUEUE_MAX_ITEMS
  BY <1>1, <1>2, RingStep, Zenon DEF At
<1>4. At(i) \in Ring
  BY <1>1, <1>2, <1>3 DEF Ring
<1> QED
  BY <1>3, <1>4

LEMMA HeadPlace ==
    ASSUME WorkqueueAssumption, TypeOK
    PROVE  At(0) = queue_head
BY AtRing DEF TypeOK, Ring, WorkqueueAssumption

\* Different places of the queue are different slots.
LEMMA AtInjective ==
    ASSUME WorkqueueAssumption, TypeOK,
           NEW i \in 0 .. WORKQUEUE_MAX_ITEMS - 1, NEW j \in 0 .. WORKQUEUE_MAX_ITEMS - 1,
           At(i) = At(j)
    PROVE  i = j
<1>1. WORKQUEUE_MAX_ITEMS \in Nat \ {0} /\ queue_head \in 0 .. WORKQUEUE_MAX_ITEMS - 1
  BY DEF WorkqueueAssumption, TypeOK, Ring
<1>2. i \in 0 .. WORKQUEUE_MAX_ITEMS /\ j \in 0 .. WORKQUEUE_MAX_ITEMS
  BY <1>1
<1> QED
  BY <1>1, <1>2, AtRing

\* The pending requests as a sequence.
LEMMA QueueSeq ==
    ASSUME TypeOK, RingSound
    PROVE  /\ Queue \in Seq(Items) /\ Len(Queue) = queue_count
           /\ \A i \in 1 .. queue_count : Queue[i] = items[At(i - 1)]
BY DEF Queue, TypeOK, RingSound

\* After take_work the places of the ring are counted from the next slot.
LEMMA AtNext ==
    ASSUME WorkqueueAssumption, TypeOK, take_work, NEW i \in 0 .. WORKQUEUE_MAX_ITEMS - 1
    PROVE  /\ queue_head' \in Ring /\ At(i)' = At(i + 1) /\ At(0) = queue_head
           /\ i # WORKQUEUE_MAX_ITEMS - 1 => At(i + 1) # queue_head
<1>1. WORKQUEUE_MAX_ITEMS \in Nat \ {0}
  BY DEF WorkqueueAssumption
<1>2. queue_head \in 0 .. WORKQUEUE_MAX_ITEMS - 1
  BY DEF TypeOK, Ring
<1>3. 1 \in 0 .. WORKQUEUE_MAX_ITEMS /\ i \in 0 .. WORKQUEUE_MAX_ITEMS
      /\ i + 1 \in 0 .. WORKQUEUE_MAX_ITEMS /\ 0 \in 0 .. WORKQUEUE_MAX_ITEMS
  BY <1>1
<1>4. queue_head' = IF queue_head + 1 < WORKQUEUE_MAX_ITEMS THEN queue_head + 1
                    ELSE queue_head + 1 - WORKQUEUE_MAX_ITEMS
  BY <1>1, <1>2, <1>3, RingStep, Zenon DEF take_work, NextHead
<1>5. queue_head' \in 0 .. WORKQUEUE_MAX_ITEMS - 1
  BY <1>1, <1>2, <1>4
<1>6. At(i)' = IF queue_head' + i < WORKQUEUE_MAX_ITEMS THEN queue_head' + i
               ELSE queue_head' + i - WORKQUEUE_MAX_ITEMS
  BY <1>1, <1>3, <1>5, RingStep, Zenon DEF At
<1>7. /\ At(0) = queue_head
      /\ At(i + 1) = IF queue_head + (i + 1) < WORKQUEUE_MAX_ITEMS THEN queue_head + (i + 1)
                     ELSE queue_head + (i + 1) - WORKQUEUE_MAX_ITEMS
  BY <1>1, <1>2, <1>3, AtRing
<1> QED
  BY <1>1, <1>2, <1>4, <1>5, <1>6, <1>7 DEF Ring

\* What the worker was admitted for is what it runs.
LEMMA InvSound == Inv => WorkSound
<1> SUFFICES ASSUME Inv PROVE OrdinaryOutsideScopes
  BY DEF Inv, WorkSound
<1>1. running # NoWork => running.fn \in Works
  BY DEF Inv, TypeOK, Items
<1> QED
  BY <1>1 DEF Inv, Admission, OrdinaryOutsideScopes

\* workqueue_init: an empty ring is the empty sequence.
LEMMA InitSound == WorkqueueAssumption /\ workqueue_init => Inv /\ Queue = <<>>
<1> SUFFICES ASSUME WorkqueueAssumption, workqueue_init PROVE Inv /\ Queue = <<>>
  OBVIOUS
<1>0. 0 \in Ring /\ 0 \in 0 .. WORKQUEUE_MAX_ITEMS /\ 0 \in 0 .. MaxDropped
      /\ 0 \in 0 .. MaxCallers
  BY DEF WorkqueueAssumption, Ring
<1>1. TypeOK
  BY <1>0, Zenon DEF workqueue_init, TypeOK
<1>2. NoSleepOnWork /\ RingSound /\ Admission
  BY DEF workqueue_init, NoSleepOnWork, RingSound, Admission
<1>3. Queue = <<>>
  BY DEF workqueue_init, Queue
<1> QED
  BY <1>1, <1>2, <1>3 DEF Inv

\* A joined request keeps its work.
LEMMA DemoteItem ==
    ASSUME NEW r \in Items, NEW safe \in BOOLEAN
    PROVE  Demote(r, safe) \in Items /\ Demote(r, safe).fn = r.fn
BY DEF Demote, Items

\* A request for pending work joins it, and leaves every other place alone.
LEMMA JoinStep ==
    ASSUME WorkqueueAssumption, Inv, NEW w \in Works, NEW safe \in BOOLEAN,
           schedule_work(w, safe), Pending(w) # {}
    PROVE  Inv' /\ Fifo!Request(w, safe)
<1> DEFINE places == 0 .. queue_count - 1
<1>1. PICK i \in Pending(w) :
           /\ items' = [items EXCEPT ![At(i)] = Demote(@, safe)]
           /\ ordinary' = Asked(w, safe)
           /\ late' = (late \/ (i = 0 /\ on_cpu /\ worker = "loop" /\ ~safe))
           /\ UNCHANGED <<queue_count, dropped_count, callers>>
  BY DEF schedule_work
<1>2. UNCHANGED <<queue_head, callback_active, callback_io_safe, running, worker, on_cpu, owned, lost>>
  BY DEF schedule_work
<1>3. \A k : At(k)' = At(k)
  BY <1>2 DEF At
<1>4. /\ i \in places /\ items[At(i)].fn = w
      /\ \A k \in places : At(k) \in Ring /\ items[At(k)] \in Items
  <2>1. WORKQUEUE_MAX_ITEMS \in Nat /\ queue_count \in 0 .. WORKQUEUE_MAX_ITEMS
    BY DEF Inv, TypeOK, WorkqueueAssumption
  <2> QED
    BY <2>1, AtRing DEF Pending, Inv, RingSound
<1>5. \A k \in places : items'[At(k)] =
         IF k = i THEN [items[At(k)] EXCEPT !.io_safe = @ /\ safe] ELSE items[At(k)]
  <2>1. WORKQUEUE_MAX_ITEMS \in Nat /\ queue_count \in 0 .. WORKQUEUE_MAX_ITEMS
    BY DEF Inv, TypeOK, WorkqueueAssumption
  <2>2. \A k \in places : At(k) = At(i) => k = i
    BY <1>4, <2>1, AtInjective DEF Inv
  <2> QED
    BY <1>1, <1>4, <2>2 DEF Demote, Inv, TypeOK
<1>6. \A k \in places : items[At(k)].fn = w <=> k = i
  BY <1>4 DEF Inv, RingSound
<1>7. \A k \in places : items'[At(k)] \in Items /\ items'[At(k)].fn = items[At(k)].fn
  <2> SUFFICES ASSUME NEW k \in places
               PROVE  items'[At(k)] \in Items /\ items'[At(k)].fn = items[At(k)].fn
    OBVIOUS
  <2>1. PICK r \in Items : r = items[At(k)]
    BY <1>4, Zenon
  <2>2. Demote(r, safe) \in Items /\ Demote(r, safe).fn = r.fn
    BY DemoteItem, Zenon
  <2>3. items'[At(k)] = Demote(r, safe) \/ items'[At(k)] = r
    BY <1>5, <2>1, Zenon DEF Demote
  <2> QED
    BY <2>1, <2>2, <2>3, Zenon
<1>8. TypeOK' /\ NoSleepOnWork'
  <2>1. items' \in [Ring -> Items \cup {NoWork}]
    BY <1>1, <1>4, <1>7 DEF Inv, TypeOK
  <2>2. ordinary' \subseteq {"queued", "running"} \X Works
    BY <1>1 DEF Asked, Inv, TypeOK
  <2> QED
    BY <1>1, <1>2, <2>1, <2>2 DEF Inv, TypeOK, NoSleepOnWork
<1>9. RingSound'
  <2>1. ASSUME NEW v \in Works, <<"queued", v>> \in ordinary'
        PROVE  \E k \in places : items'[At(k)].fn = v /\ ~items'[At(k)].io_safe
    <3>1. CASE v = w /\ ~safe
      BY <1>4, <1>5, <3>1, Zenon DEF Items
    <3>2. CASE <<"queued", v>> \in ordinary
      <4>1. PICK k \in places : items[At(k)].fn = v /\ ~items[At(k)].io_safe
        BY <3>2 DEF Inv, RingSound
      <4> QED
        BY <1>4, <1>5, <4>1 DEF Items
    <3> QED
      BY <1>1, <2>1, <3>1, <3>2 DEF Asked
  <2> QED
    BY <1>1, <1>3, <1>7, <2>1 DEF Inv, RingSound
<1>10. Admission'
  <2>1. \A v \in Works : <<"running", v>> \in ordinary' => <<"running", v>> \in ordinary
    BY <1>1 DEF Asked
  <2>2. ASSUME on_cpu, owned, worker = "loop"
        PROVE  queue_count # 0 /\ (items'[queue_head].io_safe \/ late')
    <3>1. queue_count # 0 /\ (items[queue_head].io_safe \/ late)
      BY <2>2 DEF Inv, Admission
    <3>2. 0 \in places /\ At(0) = queue_head
      BY <3>1, HeadPlace DEF Inv, TypeOK, WorkqueueAssumption
    <3>3. CASE i = 0 /\ ~safe
      BY <1>1, <2>2, <3>1, <3>3, Zenon
    <3>4. CASE ~(i = 0 /\ ~safe) /\ items[queue_head].io_safe
      BY <1>4, <1>5, <3>1, <3>2, <3>4, Zenon DEF Items
    <3>5. CASE late
      BY <1>1, <3>1, <3>5, Zenon
    <3> QED
      BY <3>1, <3>3, <3>4, <3>5
  <2> QED
    BY <1>1, <1>2, <2>1, <2>2, Zenon DEF Inv, Admission
<1>11. Fifo!Request(w, safe)
  <2>1. Queue \in Seq(Items) /\ Len(Queue) = queue_count
    BY QueueSeq DEF Inv
  <2>2. \E k \in 1 .. Len(Queue) : Queue[k].fn = w
    <3>1. i + 1 \in 1 .. queue_count /\ (i + 1) - 1 = i
      BY <1>4 DEF Inv, TypeOK
    <3> QED
      BY <1>4, <2>1, <3>1, Zenon DEF Queue
  <2>3. Queue' = [k \in 1 .. Len(Queue) |->
                    IF Queue[k].fn = w THEN [Queue[k] EXCEPT !.io_safe = @ /\ safe] ELSE Queue[k]]
    <3>1. ASSUME NEW k \in 1 .. queue_count
          PROVE  /\ Queue[k] = items[At(k - 1)]
                 /\ items'[At(k - 1)] = IF Queue[k].fn = w
                      THEN [Queue[k] EXCEPT !.io_safe = @ /\ safe] ELSE Queue[k]
      <4>1. k - 1 \in places
        BY DEF Inv, TypeOK
      <4> QED
        BY <1>4, <1>5, <1>6, <4>1 DEF Queue
    <3>2. Queue' = [k \in 1 .. queue_count |-> items'[At(k - 1)]]
      BY <1>1, <1>3 DEF Queue
    <3> QED
      BY <2>1, <3>1, <3>2
  <2> QED
    BY <1>1, <2>2, <2>3, Zenon DEF Fifo!Request, Queue
<1> QED
  BY <1>8, <1>9, <1>10, <1>11 DEF Inv

\* A request for other work takes the slot after the tail.
LEMMA AppendStep ==
    ASSUME WorkqueueAssumption, Inv, NEW w \in Works, NEW safe \in BOOLEAN,
           schedule_work(w, safe), Pending(w) = {}, queue_count < WORKQUEUE_MAX_ITEMS
    PROVE  Inv' /\ Fifo!Request(w, safe)
<1> DEFINE places == 0 .. queue_count - 1
           item == [fn |-> w, io_safe |-> safe]
<1>1. /\ items' = [items EXCEPT ![TailSlot] = item]
      /\ queue_count' = queue_count + 1 /\ callers < MaxCallers /\ callers' = callers + 1
      /\ ordinary' = Asked(w, safe) /\ UNCHANGED <<dropped_count, late>>
  BY DEF schedule_work, Inv, TypeOK, WorkqueueAssumption
<1>2. UNCHANGED <<queue_head, callback_active, callback_io_safe, running, worker, on_cpu, owned, lost>>
  BY DEF schedule_work
<1>3. \A k : At(k)' = At(k)
  BY <1>2 DEF At
<1>4. WORKQUEUE_MAX_ITEMS \in Nat /\ queue_count \in 0 .. WORKQUEUE_MAX_ITEMS - 1
  BY DEF Inv, TypeOK, WorkqueueAssumption
<1>5. /\ item \in Items /\ At(queue_count) \in Ring
      /\ \A k \in places : At(k) \in Ring /\ At(k) # At(queue_count) /\ items[At(k)] \in Items
  BY <1>4, AtRing, AtInjective DEF Inv, RingSound, Items
<1>6. items'[At(queue_count)] = item /\ \A k \in places : items'[At(k)] = items[At(k)]
  BY <1>1, <1>5 DEF TailSlot, Inv, TypeOK
<1>7. \A k \in places : items[At(k)].fn # w
  BY DEF Pending
<1>8. TypeOK' /\ NoSleepOnWork'
  <2>1. items' \in [Ring -> Items \cup {NoWork}]
    BY <1>1, <1>5 DEF Inv, TypeOK, TailSlot
  <2>2. ordinary' \subseteq {"queued", "running"} \X Works
    BY <1>1 DEF Asked, Inv, TypeOK
  <2>3. callers' \in 0 .. MaxCallers /\ callers' > 0
    BY <1>1 DEF WorkqueueAssumption, Inv, TypeOK
  <2>4. queue_count' \in 0 .. WORKQUEUE_MAX_ITEMS
    BY <1>1, <1>4
  <2> QED
    BY <1>1, <1>2, <2>1, <2>2, <2>3, <2>4 DEF Inv, TypeOK, NoSleepOnWork
<1>9. RingSound'
  <2>1. 0 .. queue_count' - 1 = places \cup {queue_count}
    BY <1>1, <1>4
  <2>2. ASSUME NEW v \in Works, <<"queued", v>> \in ordinary'
        PROVE  \E k \in 0 .. queue_count' - 1 : items'[At(k)].fn = v /\ ~items'[At(k)].io_safe
    <3>1. CASE v = w /\ ~safe
      BY <1>6, <2>1, <3>1
    <3>2. CASE <<"queued", v>> \in ordinary
      <4>1. PICK k \in places : items[At(k)].fn = v /\ ~items[At(k)].io_safe
        BY <3>2 DEF Inv, RingSound
      <4> QED
        BY <1>6, <2>1, <4>1
    <3> QED
      BY <1>1, <2>2, <3>1, <3>2 DEF Asked
  <2>3. \A k \in 0 .. queue_count' - 1 : items'[At(k)] \in Items
    BY <1>5, <1>6, <2>1
  <2>4. \A j, k \in 0 .. queue_count' - 1 : items'[At(j)].fn = items'[At(k)].fn => j = k
    BY <1>6, <1>7, <2>1 DEF Inv, RingSound
  <2> QED
    BY <1>3, <2>2, <2>3, <2>4 DEF RingSound
<1>10. Admission'
  <2>1. \A v \in Works : <<"running", v>> \in ordinary' => <<"running", v>> \in ordinary
    BY <1>1 DEF Asked
  <2>2. ASSUME on_cpu, owned, worker = "loop"
        PROVE  queue_count' # 0 /\ (items'[queue_head].io_safe \/ late)
    <3>1. queue_count # 0 /\ (items[queue_head].io_safe \/ late)
      BY <2>2 DEF Inv, Admission
    <3>2. 0 \in places /\ At(0) = queue_head
      BY <1>4, <3>1, HeadPlace DEF Inv
    <3> QED
      BY <1>1, <1>4, <1>6, <3>1, <3>2
  <2> QED
    BY <1>1, <1>2, <2>1, <2>2 DEF Inv, Admission
<1>11. Fifo!Request(w, safe)
  <2>1. Queue \in Seq(Items) /\ Len(Queue) = queue_count
    BY QueueSeq DEF Inv
  <2>2. ~ \E k \in 1 .. Len(Queue) : Queue[k].fn = w
    <3>1. \A k \in 1 .. queue_count : k - 1 \in places /\ Queue[k] = items[At(k - 1)]
      BY <1>4 DEF Queue
    <3> QED
      BY <1>7, <2>1, <3>1
  <2>3. Queue' = Append(Queue, item)
    <3>1. Queue' = [k \in 1 .. queue_count + 1 |-> items'[At(k - 1)]]
      BY <1>1, <1>3 DEF Queue
    <3>2. \A k \in 1 .. queue_count : k - 1 \in places /\ Queue[k] = items'[At(k - 1)]
      BY <1>4, <1>6 DEF Queue
    <3>3. items'[At((queue_count + 1) - 1)] = item
      BY <1>4, <1>6
    <3> QED
      BY <1>4, <2>1, <3>1, <3>2, <3>3
  <2> QED
    BY <1>1, <2>1, <2>2, <2>3, Zenon DEF Fifo!Request, Queue
<1> QED
  BY <1>8, <1>9, <1>10, <1>11 DEF Inv

\* take_work: the head leaves the ring, with its mark, for the worker.
LEMMA TakeStep ==
    ASSUME WorkqueueAssumption, Inv, take_work
    PROVE  Inv' /\ Fifo!Take
<1> DEFINE places == 0 .. queue_count - 1
           item == items[queue_head]
<1>1. /\ WORKQUEUE_MAX_ITEMS \in Nat /\ queue_count \in 1 .. WORKQUEUE_MAX_ITEMS
      /\ queue_count' = queue_count - 1 /\ queue_count' \in 0 .. WORKQUEUE_MAX_ITEMS - 1
  BY DEF Inv, TypeOK, WorkqueueAssumption, take_work
<1>2. /\ queue_head' \in Ring /\ At(0) = queue_head
      /\ \A k \in 0 .. queue_count' - 1 : At(k)' = At(k + 1) /\ At(k + 1) # queue_head
  BY <1>1, AtNext DEF Inv
<1>3. \A k \in 0 .. queue_count' - 1 : k + 1 \in places /\ At(k + 1) \in Ring
  BY <1>1, AtRing DEF Inv
<1>4. \A k \in 0 .. queue_count' - 1 : items'[At(k)'] = items[At(k + 1)]
  BY <1>2, <1>3 DEF take_work, Inv, TypeOK
<1>5. item \in Items /\ 0 \in places
  BY <1>1, <1>2 DEF Inv, RingSound
<1>6. /\ \A v \in Works : <<"queued", v>> \in ordinary' => v # item.fn /\ <<"queued", v>> \in ordinary
      /\ \A v \in Works : <<"running", v>> \in ordinary' => v = item.fn /\ ~item.io_safe
      /\ ordinary' \subseteq {"queued", "running"} \X Works
  <2>1. \A x \in ordinary : x[1] = "queued" /\ x = <<x[1], x[2]>> /\ x[2] \in Works
    BY DEF Inv, TypeOK, Admission, take_work
  <2>2. \A v \in Works : <<"queued", v>> \in ordinary /\ v = item.fn => ~item.io_safe
    <3> SUFFICES ASSUME <<"queued", item.fn>> \in ordinary, item.fn \in Works
                 PROVE  ~item.io_safe
      OBVIOUS
    <3>1. PICK k \in places : items[At(k)].fn = item.fn /\ ~items[At(k)].io_safe
      BY DEF Inv, RingSound
    <3>2. k = 0
      BY <1>2, <1>5, <3>1 DEF Inv, RingSound
    <3> QED
      BY <1>2, <3>1, <3>2
  <2>3. ordinary' = {IF x[2] = item.fn THEN <<"running", x[2]>> ELSE x : x \in ordinary}
    BY DEF take_work
  <2>4. ASSUME NEW y \in ordinary'
        PROVE  \/ y[2] = item.fn /\ y[1] = "running" /\ y = <<y[1], y[2]>> /\ y[2] \in Works
                  /\ <<"queued", y[2]>> \in ordinary
               \/ y[2] # item.fn /\ y[1] = "queued" /\ y = <<y[1], y[2]>> /\ y[2] \in Works
                  /\ y \in ordinary
    <3>1. PICK x \in ordinary : y = IF x[2] = item.fn THEN <<"running", x[2]>> ELSE x
      BY <2>3, <2>4
    <3>2. x[1] = "queued" /\ x = <<x[1], x[2]>> /\ x[2] \in Works
      BY <2>1
    <3> QED
      BY <3>1, <3>2
  <2>5. ASSUME NEW v \in Works, <<"queued", v>> \in ordinary'
        PROVE  v # item.fn /\ <<"queued", v>> \in ordinary
    BY <2>4, <2>5
  <2>6. ASSUME NEW v \in Works, <<"running", v>> \in ordinary'
        PROVE  v = item.fn /\ ~item.io_safe
    BY <2>2, <2>4, <2>6, Zenon
  <2>7. ASSUME NEW y \in ordinary' PROVE y \in {"queued", "running"} \X Works
    <3>1. y = <<y[1], y[2]>> /\ y[1] \in {"queued", "running"} /\ y[2] \in Works
      BY <2>4, Zenon
    <3>2. <<y[1], y[2]>> \in {"queued", "running"} \X Works
      BY <3>1
    <3> QED
      BY <3>1, <3>2
  <2> QED
    BY <2>5, <2>6, <2>7
<1>7. TypeOK' /\ NoSleepOnWork'
  <2>1. items' \in [Ring -> Items \cup {NoWork}]
    BY DEF take_work, Inv, TypeOK
  <2>2. running' \in Items \cup {NoWork} /\ callback_io_safe' \in BOOLEAN
    BY <1>5 DEF take_work, Items
  <2> QED
    BY <1>1, <1>2, <1>6, <2>1, <2>2 DEF take_work, wakeup, Inv, TypeOK, NoSleepOnWork
<1>8. RingSound'
  <2>1. ASSUME NEW v \in Works, <<"queued", v>> \in ordinary'
        PROVE  \E k \in 0 .. queue_count' - 1 :
                  items'[At(k)'].fn = v /\ ~items'[At(k)'].io_safe
    <3>1. PICK k \in places : items[At(k)].fn = v /\ ~items[At(k)].io_safe
      BY <1>6, <2>1 DEF Inv, RingSound
    <3>2. k # 0
      BY <1>2, <1>6, <2>1, <3>1
    <3>3. k - 1 \in 0 .. queue_count' - 1 /\ (k - 1) + 1 = k
      BY <1>1, <3>2
    <3> QED
      BY <1>4, <3>1, <3>3
  <2>2. \A k \in 0 .. queue_count' - 1 : items'[At(k)'] \in Items
    BY <1>3, <1>4 DEF Inv, RingSound
  <2>3. \A j, k \in 0 .. queue_count' - 1 : items'[At(j)'].fn = items'[At(k)'].fn => j = k
    <3> SUFFICES ASSUME NEW j \in 0 .. queue_count' - 1, NEW k \in 0 .. queue_count' - 1,
                        items[At(j + 1)].fn = items[At(k + 1)].fn
                 PROVE  j = k
      BY <1>4
    <3>1. j + 1 = k + 1
      BY <1>3 DEF Inv, RingSound
    <3> QED
      BY <3>1, <1>1
  <2> QED
    BY <2>1, <2>2, <2>3 DEF RingSound
<1>9. Admission'
  BY <1>6, <1>5, <1>2, Zenon DEF take_work, Inv, Admission, Items, TypeOK
<1>10. Fifo!Take
  <2>1. Queue \in Seq(Items) /\ Len(Queue) = queue_count
    BY QueueSeq DEF Inv
  <2>2. Queue' = [k \in 1 .. queue_count' |-> items'[At(k - 1)']]
    BY DEF Queue
  <2>3. \A k \in 1 .. queue_count' : k - 1 \in 0 .. queue_count' - 1 /\ (k - 1) + 1 = k
    BY <1>1
  <2>4. \A k \in 1 .. queue_count' : items'[At(k - 1)'] = Queue[k + 1]
    BY <1>1, <1>4, <2>3 DEF Queue
  <2>5. Queue # <<>> /\ Queue' = Tail(Queue)
    <3>1. Queue # <<>>
      BY <1>1, <2>1
    <3>2. Tail(Queue) \in Seq(Items) /\ Len(Tail(Queue)) = queue_count'
          /\ \A k \in 1 .. queue_count' : Tail(Queue)[k] = Queue[k + 1]
      BY <1>1, <2>1, <3>1, HeadTailProperties
    <3>3. Tail(Queue) \in [1 .. queue_count' -> Items]
      BY <3>2, LenProperties, Zenon
    <3>4. Tail(Queue) = [k \in 1 .. queue_count' |-> Tail(Queue)[k]]
      BY <3>3, Zenon
    <3>5. \A k \in 1 .. queue_count' : Tail(Queue)[k] = items'[At(k - 1)']
      BY <2>4, <3>2
    <3> QED
      BY <2>2, <3>1, <3>4, <3>5, Zenon
  <2> QED
    BY <2>5, Zenon DEF Fifo!Take, Queue, take_work
<1> QED
  BY <1>7, <1>8, <1>9, <1>10 DEF Inv

\* What every step does to the invariant and to the abstract queue.
LEMMA NextStep ==
    ASSUME WorkqueueAssumption, Inv, [Next]_vars
    PROVE  Inv' /\ [Fifo!Next]_<<Queue, dropped_count>>
<1>1. ASSUME NEW w \in Works, NEW safe \in SafeFlags[w], schedule_work(w, safe)
      PROVE  Inv' /\ [Fifo!Next]_<<Queue, dropped_count>>
  <2>1. safe \in BOOLEAN
    BY DEF WorkqueueAssumption
  <2>2. CASE Pending(w) # {} \/ queue_count < WORKQUEUE_MAX_ITEMS
    BY <1>1, <2>1, <2>2, JoinStep, AppendStep DEF Fifo!Next
  <2>3. CASE Pending(w) = {} /\ ~(queue_count < WORKQUEUE_MAX_ITEMS)
    <3>1. /\ dropped_count < MaxDropped /\ dropped_count' = dropped_count + 1
          /\ queue_count = WORKQUEUE_MAX_ITEMS
          /\ UNCHANGED <<items, queue_count, callers, lost, worker, late, ordinary, queue_head,
                         callback_active, callback_io_safe, running, on_cpu, owned>>
      BY <1>1, <2>3 DEF schedule_work
    <3>2. TypeOK'
      BY <3>1 DEF Inv, TypeOK, WorkqueueAssumption
    <3>3. NoSleepOnWork' /\ RingSound' /\ Admission'
      BY <3>1 DEF Inv, NoSleepOnWork, RingSound, Admission, At
    <3>4. Queue' = Queue
      BY <3>1 DEF Queue, At
    <3>5. Len(Queue) = queue_count /\ ~ \E k \in 1 .. Len(Queue) : Queue[k].fn = w
      <4>1. \A k \in 1 .. queue_count : k - 1 \in 0 .. queue_count - 1 /\ Queue[k] = items[At(k - 1)]
        BY DEF Queue, Inv, TypeOK
      <4> QED
        BY <2>3, <4>1, QueueSeq DEF Inv, Pending
    <3>6. Fifo!Request(w, safe)
      BY <2>3, <3>1, <3>4, <3>5 DEF Fifo!Request, Queue
    <3> QED
      BY <2>1, <3>2, <3>3, <3>6 DEF Inv, Fifo!Next
  <2> QED
    BY <2>2, <2>3
<1>2. CASE take_work
  BY <1>2, TakeStep DEF Fifo!Next
<1>3. ASSUME UNCHANGED ring PROVE UNCHANGED <<Queue, dropped_count>>
  BY <1>3 DEF ring, Queue, At
<1>4. CASE CallbackReturns
  <2>1. TypeOK' /\ NoSleepOnWork' /\ RingSound'
    BY <1>4, Zenon DEF CallbackReturns, ring, wakeup, Inv, TypeOK, NoSleepOnWork, RingSound, At
  <2>2. Admission'
    BY <1>4 DEF CallbackReturns, ring, Inv, Admission
  <2> QED
    BY <1>3, <1>4, <2>1, <2>2 DEF CallbackReturns, Inv
<1>5. CASE CallbackDone
  <2>1. TypeOK' /\ NoSleepOnWork' /\ RingSound'
    BY <1>5, Zenon DEF CallbackDone, ring, wakeup, Inv, TypeOK, NoSleepOnWork, RingSound, At
  <2>2. Admission'
    BY <1>5 DEF CallbackDone, ring, Inv, Admission
  <2> QED
    BY <1>3, <1>5, <2>1, <2>2 DEF CallbackDone, Inv
<1>6. CASE WorkerWait
  <2>1. TypeOK' /\ NoSleepOnWork' /\ RingSound'
    BY <1>6, Zenon DEF WorkerWait, ring, Inv, TypeOK, NoSleepOnWork, RingSound, At
  <2>2. Admission'
    BY <1>6 DEF WorkerWait, ring, Inv, Admission
  <2> QED
    BY <1>3, <1>6, <2>1, <2>2 DEF WorkerWait, Inv
<1>7. CASE Resume
  <2>1. TypeOK' /\ NoSleepOnWork' /\ RingSound'
    BY <1>7, Zenon DEF Resume, ring, wakeup, Inv, TypeOK, NoSleepOnWork, RingSound, At
  <2>2. Admission'
    BY <1>7 DEF Resume, ring, Inv, Admission, workqueue_io_service_ready
  <2> QED
    BY <1>3, <1>7, <2>1, <2>2 DEF Resume, Inv
<1>8. CASE Preempt \/ scheduler_io_scope
  <2>1. TypeOK' /\ NoSleepOnWork' /\ RingSound'
    <3>1. /\ items' = items /\ queue_head' = queue_head /\ queue_count' = queue_count
          /\ ordinary' = ordinary
      BY <1>8, Zenon DEF Preempt, scheduler_io_scope, ring
    <3>2. RingSound'
      BY <3>1, Zenon DEF Inv, RingSound, At
    <3> QED
      BY <1>8, <3>2, Zenon DEF Preempt, scheduler_io_scope, ring, wakeup, Inv, TypeOK, NoSleepOnWork
  <2>2. Admission'
    BY <1>8 DEF Preempt, scheduler_io_scope, ring, Inv, Admission
  <2> QED
    BY <1>3, <1>8, <2>1, <2>2 DEF Preempt, scheduler_io_scope, Inv
<1>9. CASE WakeWorker \/ CallerCancelled
  <2>1. /\ items' = items /\ queue_head' = queue_head /\ queue_count' = queue_count
        /\ dropped_count' = dropped_count /\ ordinary' = ordinary
        /\ UNCHANGED <<callback_active, callback_io_safe, running, on_cpu, owned, late>>
    BY <1>9, Zenon DEF WakeWorker, CallerCancelled, ring
  <2>2. RingSound'
    BY <2>1, Zenon DEF Inv, RingSound, At
  <2>3. callers' \in 0 .. MaxCallers
    BY <1>9 DEF WakeWorker, CallerCancelled, WorkqueueAssumption, Inv, TypeOK
  <2>4. worker' = worker \/ (worker = "blocked" /\ worker' = "loop")
    BY <1>9 DEF WakeWorker, CallerCancelled, Wake
  <2>5. lost' \in BOOLEAN /\ (worker' = "blocked" => lost')
    BY <1>9, Zenon DEF WakeWorker, CallerCancelled, Wake
  <2>6. TypeOK'
    BY <2>1, <2>3, <2>4, <2>5, Zenon DEF Inv, TypeOK
  <2>7. NoSleepOnWork'
    BY <2>5 DEF NoSleepOnWork
  <2>8. Admission'
    BY <2>1, <2>4 DEF Inv, Admission
  <2> QED
    BY <1>3, <2>1, <2>2, <2>6, <2>7, <2>8 DEF Inv, ring
<1>10. CASE UNCHANGED vars
  <2>1. /\ items' = items /\ queue_head' = queue_head /\ queue_count' = queue_count
        /\ dropped_count' = dropped_count /\ callback_active' = callback_active
        /\ callback_io_safe' = callback_io_safe /\ running' = running /\ worker' = worker
        /\ on_cpu' = on_cpu /\ owned' = owned /\ late' = late /\ ordinary' = ordinary
        /\ callers' = callers /\ lost' = lost
    BY <1>10 DEF vars
  <2>2. TypeOK' /\ NoSleepOnWork'
    BY <2>1, Zenon DEF Inv, TypeOK, NoSleepOnWork
  <2>3. RingSound' /\ Admission'
    BY <2>1, Zenon DEF Inv, RingSound, Admission, At
  <2>4. UNCHANGED <<Queue, dropped_count>>
    BY <1>3, <2>1 DEF ring
  <2> QED
    BY <2>2, <2>3, <2>4, Zenon DEF Inv
<1> QED
  BY <1>1, <1>2, <1>4, <1>5, <1>6, <1>7, <1>8, <1>9, <1>10 DEF Next

\* For every ring and every set of works, whatever requests interrupt the worker:
\* the ring of schedule_work and take_work behaves as the bounded FIFO that joins
\* repeated requests.
THEOREM WorkqueueIsFifo == Spec => ImplementsFifo
<1>0. WorkqueueAssumption
  BY WorkqueueAssumption
<1>1. workqueue_init => Inv /\ Queue = <<>> /\ dropped_count = 0
  BY <1>0, InitSound DEF workqueue_init
<1>2. Inv /\ [Next]_vars => Inv' /\ [Fifo!Next]_<<Queue, dropped_count>>
  BY <1>0, NextStep
<1> QED
  BY <1>1, <1>2, PTL DEF Spec, ImplementsFifo, Fifo!Spec, Queue

\* For every ring and every set of works: nothing but a request that joins the head
\* after the worker's admission brings ordinary work into another thread's storage
\* scope (workqueue_io_service_ready), and the worker sleeps on a request only while
\* its caller has the wake-up still to do or was cancelled before it (schedule_work,
\* work_pending).
THEOREM WorkqueueInvariant == Spec => []WorkSound
<1>0. WorkqueueAssumption
  BY WorkqueueAssumption
<1>1. workqueue_init => Inv
  BY <1>0, InitSound
<1>2. Inv /\ [Next]_vars => Inv'
  BY <1>0, NextStep
<1> QED
  BY <1>1, <1>2, InvSound, PTL DEF Spec
=============================================================================

---------------------------- MODULE FutexProofs ----------------------------
(***************************************************************************)
(* The futex table for every number of threads, processes, words and       *)
(* entries.                                                                *)
(*                                                                         *)
(* FutexSound is strengthened by two facts: two valid entries never name   *)
(* the same word (process_futex_find creates one only when it finds none), *)
(* and a parked thread's page is mapped and its entry valid (the page goes *)
(* away only together with the sleep).  That a wake finds its waiters then *)
(* follows, and the reservation count keeps the entry of a thread that is  *)
(* inside the call from being taken over.                                  *)
(***************************************************************************)
EXTENDS Futex, FiniteSetTheorems, TLAPS

Addresses == {0} \cup UNION {Pages[p] : p \in Procs}

Entry == [used : BOOLEAN, process : Procs \cup {0}, address : Addresses,
          invalidated : BOOLEAN, active_waits : Nat]
Wait == [address : Addresses, expected : Values, futex : Entries \cup {NoEntry}]

Shape ==
    /\ futexes \in [Entries -> Entry]
    /\ wait \in [Threads -> Wait]
    /\ mapped \in [Procs -> SUBSET Addresses] /\ \A p \in Procs : mapped[p] \subseteq Pages[p]
    /\ DOMAIN mem = Procs /\ \A p \in Procs : mem[p] \in [Pages[p] -> Values]

Valid(e) == futexes[e].used /\ ~futexes[e].invalidated

OneBinding ==
    \A e, f \in Entries :
        /\ Valid(e) /\ Valid(f)
        /\ futexes[e].process = futexes[f].process /\ futexes[e].address = futexes[f].address
        => e = f

AsleepOnPage ==
    \A t \in Threads : where[t] = "asleep" =>
        wait[t].address \in mapped[Owner[t]] /\ ~futexes[wait[t].futex].invalidated

Inv == Shape /\ TypeOK /\ BindingKept /\ OneBinding /\ AsleepOnPage /\ NoLostWakeup

Holders(e) == {t \in Threads : wait[t].futex = e}

\* The holders of an entry can be counted.
LEMMA HoldersFinite ==
    ASSUME NEW S \in SUBSET Threads
    PROVE  IsFiniteSet(S) /\ Cardinality(S) \in Nat /\ (Cardinality(S) = 0 <=> S = {})
<1>1. IsFiniteSet(S)
  BY FS_Subset, FutexAssumption DEF FutexAssumption
<1> QED
  BY <1>1, FS_CardinalityType, FS_EmptySet

LEMMA Counted ==
    ASSUME TypeOK, NEW e \in Entries
    PROVE  /\ futexes[e].active_waits = Cardinality(Holders(e)) /\ Holders(e) \subseteq Threads
           /\ IsFiniteSet(Holders(e)) /\ Cardinality(Holders(e)) \in Nat
           /\ Cardinality(Holders(e)) = 0 <=> Holders(e) = {}
BY HoldersFinite, Zenon DEF TypeOK, Holders

\* Whoever parks under a valid binding is found by a wake of its word.
LEMMA InvSound == Inv => FutexSound
<1> SUFFICES ASSUME Inv PROVE WakeFinds
  BY DEF Inv, FutexSound
<1> SUFFICES ASSUME NEW t \in Threads, where[t] = "asleep"
             PROVE  Bound(Owner[t], wait[t].address) = {wait[t].futex}
  BY DEF WakeFinds
<1>1. wait[t].futex \in Entries /\ Valid(wait[t].futex)
      /\ futexes[wait[t].futex].process = Owner[t] /\ futexes[wait[t].futex].address = wait[t].address
  BY DEF Inv, TypeOK, BindingKept, AsleepOnPage, Valid
<1> QED
  BY <1>1 DEF Inv, OneBinding, Bound, Valid

\* The empty table.
LEMMA InitSound == Init => Inv
<1> SUFFICES ASSUME Init PROVE Inv
  OBVIOUS
<1>1. 0 \in Values /\ 0 \notin Entries /\ 0 \in Addresses
  BY FutexAssumption DEF FutexAssumption, Values, Entries, Addresses
<1>2. Shape
  <2>1. futexes \in [Entries -> Entry]
    BY <1>1 DEF Init, Unused, Entry
  <2>2. wait \in [Threads -> Wait]
    BY <1>1 DEF Init, NoWait, Wait
  <2>3. mapped \in [Procs -> SUBSET Addresses] /\ \A p \in Procs : mapped[p] \subseteq Pages[p]
    BY DEF Init, Addresses
  <2>4. DOMAIN mem = Procs /\ \A p \in Procs : mem[p] \in [Pages[p] -> Values]
    BY <1>1 DEF Init
  <2> QED
    BY <2>1, <2>2, <2>3, <2>4 DEF Shape
<1>3. TypeOK
  <2>1. \A e \in Entries : Holders(e) = {}
    BY <1>1 DEF Init, NoWait, Holders, NoEntry
  <2> QED
    BY <2>1, FS_EmptySet, Zenon DEF Init, TypeOK, NoWait, Unused, Holders
<1>4. BindingKept /\ OneBinding /\ AsleepOnPage /\ NoLostWakeup
  BY DEF Init, BindingKept, OneBinding, AsleepOnPage, NoLostWakeup, Valid, Unused
<1> QED
  BY <1>2, <1>3, <1>4 DEF Inv

\* A thread that is made ready loses nothing; a wake of everybody may forget the
\* store once nobody sleeps on the word.
LEMMA ReleaseStep ==
    ASSUME Inv, NEW T, Released(T), UNCHANGED <<futexes, wait, mapped, mem>>,
           \A t \in Threads : where'[t] = "asleep" /\ <<Owner[t], wait[t].address>> \in stored
                              => <<Owner[t], wait[t].address>> \in stored'
    PROVE  Inv'
<1>1. /\ where' \in [Threads -> {"user", "round", "asleep"}]
      /\ \A t \in Threads : where'[t] = "asleep" => where[t] = "asleep"
      /\ \A t \in Threads : where'[t] = "user" <=> where[t] = "user"
  BY DEF Released, Inv, TypeOK
<1>2. Shape' /\ OneBinding'
  BY DEF Inv, Shape, OneBinding, Valid
<1>3. TypeOK'
  BY <1>1 DEF Inv, TypeOK
<1>4. BindingKept' /\ AsleepOnPage'
  BY <1>1 DEF Inv, BindingKept, AsleepOnPage
<1>5. NoLostWakeup'
  BY <1>1 DEF Inv, NoLostWakeup, Value
<1> QED
  BY <1>2, <1>3, <1>4, <1>5 DEF Inv

\* The process writes its word: a wake is now due.
LEMMA StoreStep ==
    ASSUME Inv, NEW p \in Procs, NEW a \in Pages[p], NEW v \in Values, user_store(p, a, v)
    PROVE  Inv'
<1>1. Shape'
  BY DEF user_store, Inv, Shape
<1>2. TypeOK' /\ BindingKept' /\ OneBinding' /\ AsleepOnPage'
  BY DEF user_store, Inv, TypeOK, BindingKept, OneBinding, AsleepOnPage, Valid
<1>3. NoLostWakeup'
  <2> SUFFICES ASSUME NEW t \in Threads, where[t] = "asleep", Value(t)' # wait[t].expected,
                      <<Owner[t], wait[t].address>> # <<p, a>>
               PROVE  <<Owner[t], wait[t].address>> \in stored
    BY DEF user_store, NoLostWakeup
  <2>1. Owner[t] \in Procs
    BY FutexAssumption DEF FutexAssumption
  <2>2. Value(t)' = Value(t)
    BY <2>1 DEF Value, user_store, Inv, Shape
  <2> QED
    BY <2>2 DEF Inv, NoLostWakeup
<1> QED
  BY <1>1, <1>2, <1>3 DEF Inv

\* A thread that holds nothing takes an entry, and the entry's holders grow by one.
LEMMA HoldStep ==
    ASSUME Shape, NEW t \in Threads, NEW e \in Entries, wait[t].futex = NoEntry,
           NEW w, w.futex = e, wait' = [wait EXCEPT ![t] = w]
    PROVE  \A f \in Entries : Cardinality(Holders(f)') =
              IF f = e THEN Cardinality(Holders(f)) + 1 ELSE Cardinality(Holders(f))
<1>1. NoEntry \notin Entries
  BY FutexAssumption DEF FutexAssumption, Entries, NoEntry
<1>2. Holders(e)' = Holders(e) \cup {t} /\ t \notin Holders(e)
  BY <1>1 DEF Holders, Shape
<1>3. \A f \in Entries : f # e => Holders(f)' = Holders(f)
  BY <1>1 DEF Holders, Shape
<1>4. Cardinality(Holders(e)') = Cardinality(Holders(e)) + 1
  BY <1>2, HoldersFinite, FS_AddElement, Zenon DEF Holders
<1> QED
  BY <1>3, <1>4

\* process_futex_wait finds the binding of its word or takes an entry that no
\* thread holds; either way it is counted from now on.
LEMMA WaitStep ==
    ASSUME Inv, NEW t \in Threads, NEW a \in Pages[Owner[t]], process_futex_wait(t, a)
    PROVE  Inv'
<1> DEFINE p == Owner[t]
<1>1. PICK e \in FindOrCreate(p, a) :
          /\ futexes' = [futexes EXCEPT ![e] = Reserved(futexes[e], p, a)]
          /\ wait' = [wait EXCEPT ![t] = [address |-> a, expected |-> mem[p][a], futex |-> e]]
  BY Zenon DEF process_futex_wait
<1>2. /\ where[t] = "user" /\ a \in mapped[p] /\ where' = [where EXCEPT ![t] = "round"]
      /\ UNCHANGED <<mapped, mem, stored>>
  BY DEF process_futex_wait
<1>3. p \in Procs /\ a \in Addresses /\ mem[p][a] \in Values
  BY FutexAssumption DEF FutexAssumption, Addresses, Inv, Shape
<1>4. e \in Entries /\ e # NoEntry
  BY FutexAssumption DEF FutexAssumption, FindOrCreate, Bound, Free, Entries, NoEntry
<1>5. \A s \in Threads : s # t => wait'[s] = wait[s] /\ where'[s] = where[s]
  BY <1>1, <1>2 DEF Inv, Shape, TypeOK
<1>6. wait'[t] = [address |-> a, expected |-> mem[p][a], futex |-> e] /\ where'[t] = "round"
  BY <1>1, <1>2 DEF Inv, Shape, TypeOK
<1>7. wait[t].futex = NoEntry
  BY <1>2 DEF Inv, TypeOK
<1>8. CASE Bound(p, a) # {}
  <2>1. e \in Bound(p, a)
    BY <1>1, <1>8 DEF FindOrCreate
  <2> DEFINE joined == [futexes[e] EXCEPT !.active_waits = futexes[e].active_waits + 1]
  <2>a. futexes' = [futexes EXCEPT ![e] = joined]
    BY <1>1, <1>8 DEF Reserved
  <2>2. \A f \in Entries : futexes'[f] = IF f = e THEN joined ELSE futexes[f]
    BY <1>4, <2>a DEF Inv, Shape
  <2>3. Shape'
    <3>1. futexes' \in [Entries -> Entry]
      <4>1. joined \in Entry
        BY <1>4 DEF Inv, Shape, Entry
      <4> QED
        BY <1>4, <2>a, <4>1 DEF Inv, Shape
    <3>2. wait' \in [Threads -> Wait]
      BY <1>1, <1>3, <1>4 DEF Inv, Shape, Wait
    <3> QED
      BY <1>2, <3>1, <3>2 DEF Inv, Shape
  <2>4. \A f \in Entries : /\ futexes'[f].used = futexes[f].used
                           /\ futexes'[f].process = futexes[f].process
                           /\ futexes'[f].address = futexes[f].address
                           /\ futexes'[f].invalidated = futexes[f].invalidated
    BY <2>2 DEF Inv, Shape, Entry
  <2>5. \A f \in Entries : futexes'[f].active_waits =
           IF f = e THEN futexes[f].active_waits + 1 ELSE futexes[f].active_waits
    BY <2>2 DEF Inv, Shape, Entry
  <2>6. TypeOK'
    <3>1. \A f \in Entries : Cardinality(Holders(f)') =
             IF f = e THEN Cardinality(Holders(f)) + 1 ELSE Cardinality(Holders(f))
      BY <1>1, <1>4, <1>7, HoldStep, Zenon DEF Inv
    <3> QED
      <4>1. \A f \in Entries : futexes'[f].active_waits = Cardinality(Holders(f)')
        BY <2>5, <3>1, Zenon DEF Inv, TypeOK, Holders
      <4>2. \A s \in Threads : wait'[s].futex \in IF where'[s] = "user" THEN {NoEntry} ELSE Entries
        BY <1>4, <1>5, <1>6 DEF Inv, TypeOK
      <4> QED
        BY <1>2, <4>1, <4>2, Zenon DEF Inv, TypeOK, Holders
  <2>7. BindingKept'
    BY <1>4, <1>5, <1>6, <2>1, <2>4 DEF Inv, TypeOK, BindingKept, Bound
  <2>8. OneBinding'
    BY <2>4 DEF Inv, OneBinding, Valid
  <2>9. AsleepOnPage'
    BY <1>2, <1>5, <1>6, <2>4 DEF Inv, AsleepOnPage, TypeOK
  <2>10. NoLostWakeup'
    BY <1>2, <1>5, <1>6 DEF Inv, NoLostWakeup, Value
  <2> QED
    BY <2>3, <2>6, <2>7, <2>8, <2>9, <2>10 DEF Inv
<1>9. CASE Bound(p, a) = {}
  <2> DEFINE taken == [used |-> TRUE, process |-> p, address |-> a, invalidated |-> FALSE,
                       active_waits |-> 1]
  <2>1. futexes' = [futexes EXCEPT ![e] = taken]
    BY <1>1, <1>9 DEF Reserved
  <2>2. \A f \in Entries : futexes'[f] = IF f = e THEN taken ELSE futexes[f]
    BY <1>4, <2>1 DEF Inv, Shape
  <2>3. Holders(e) = {} /\ \A s \in Threads : s # t /\ where[s] # "user" => wait[s].futex # e
    <3>1. e \in Free
      BY <1>1, <1>9 DEF FindOrCreate
    <3>2. ASSUME NEW s \in Holders(e) PROVE FALSE
      <4>1. where[s] # "user" /\ futexes[e].used
        BY <1>4 DEF Holders, Inv, TypeOK, BindingKept
      <4>2. futexes[e].active_waits = 0
        BY <3>1, <4>1 DEF Free
      <4> QED
        BY <1>4, <3>2, <4>2, HoldersFinite, Zenon DEF Inv, TypeOK, Holders
    <3> QED
      BY <3>2 DEF Holders
  <2>4. Shape'
    <3>1. futexes' \in [Entries -> Entry]
      <4>1. taken \in Entry
        BY <1>3 DEF Entry
      <4> QED
        BY <1>4, <2>1, <4>1 DEF Inv, Shape
    <3>2. wait' \in [Threads -> Wait]
      BY <1>1, <1>3, <1>4 DEF Inv, Shape, Wait
    <3> QED
      BY <1>2, <3>1, <3>2 DEF Inv, Shape
  <2>5. TypeOK'
    <3>1. \A f \in Entries : Cardinality(Holders(f)') =
             IF f = e THEN Cardinality(Holders(f)) + 1 ELSE Cardinality(Holders(f))
      BY <1>1, <1>4, <1>7, HoldStep, Zenon DEF Inv
    <3>2. Cardinality(Holders(e)) = 0
      BY <2>3, FS_EmptySet
    <3>3. \A f \in Entries : futexes'[f].active_waits = Cardinality(Holders(f)')
      <4> SUFFICES ASSUME NEW f \in Entries
                   PROVE  futexes'[f].active_waits = Cardinality(Holders(f)')
        OBVIOUS
      <4>1. futexes[f].active_waits = Cardinality(Holders(f))
        BY Counted DEF Inv
      <4>2. CASE f = e
        BY <2>2, <3>1, <3>2, <4>2
      <4>3. CASE f # e
        BY <2>2, <3>1, <4>1, <4>3
      <4> QED
        BY <4>2, <4>3
    <3>4. \A s \in Threads : wait'[s].futex \in IF where'[s] = "user" THEN {NoEntry} ELSE Entries
      BY <1>4, <1>5, <1>6 DEF Inv, TypeOK
    <3> QED
      BY <1>2, <3>3, <3>4, Zenon DEF Inv, TypeOK, Holders
  <2>6. BindingKept'
    <3> SUFFICES ASSUME NEW s \in Threads, where'[s] # "user"
                 PROVE  /\ futexes'[wait'[s].futex].used
                        /\ futexes'[wait'[s].futex].process = Owner[s]
                        /\ futexes'[wait'[s].futex].address = wait'[s].address
      BY Zenon DEF BindingKept
    <3>1. CASE s = t
      BY <1>4, <1>5, <1>6, <2>2, <3>1
    <3>2. CASE s # t
      <4>1. where[s] # "user" /\ wait'[s] = wait[s]
        BY <1>5, <1>6, <3>2
      <4>2. wait[s].futex \in Entries /\ wait[s].futex # e
        BY <2>3, <3>2, <4>1 DEF Inv, TypeOK
      <4>3. futexes'[wait'[s].futex] = futexes[wait[s].futex]
        BY <2>2, <4>1, <4>2
      <4> QED
        BY <4>1, <4>3, Zenon DEF Inv, BindingKept
    <3> QED
      BY <3>1, <3>2
  <2>7. OneBinding'
    <3>1. \A f \in Entries : Valid(f) /\ futexes[f].process = p /\ futexes[f].address = a => FALSE
      BY <1>9 DEF Bound, Valid
    <3>2. ASSUME NEW f \in Entries, NEW g \in Entries, Valid(f)', Valid(g)',
                 futexes'[f].process = futexes'[g].process,
                 futexes'[f].address = futexes'[g].address
          PROVE  f = g
      <4>1. CASE f # e /\ g # e
        BY <2>2, <3>2, <4>1 DEF Inv, OneBinding, Valid
      <4>2. CASE f = e /\ g # e
        BY <2>2, <3>1, <3>2, <4>2 DEF Valid
      <4>3. CASE f # e /\ g = e
        BY <2>2, <3>1, <3>2, <4>3 DEF Valid
      <4> QED
        BY <4>1, <4>2, <4>3
    <3> QED
      BY <3>2 DEF OneBinding
  <2>8. AsleepOnPage'
    BY <1>2, <1>5, <1>6, <2>2, <2>3 DEF Inv, AsleepOnPage, TypeOK
  <2>9. NoLostWakeup'
    BY <1>2, <1>5, <1>6 DEF Inv, NoLostWakeup, Value
  <2> QED
    BY <2>4, <2>5, <2>6, <2>7, <2>8, <2>9 DEF Inv
<1> QED
  BY <1>8, <1>9

\* A thread parks only on the value it expects, in a page that is mapped.
LEMMA ParkStep ==
    ASSUME Inv, NEW t \in Threads, wait_park(t)
    PROVE  Inv'
<1>1. /\ where[t] = "round" /\ Readable(t) /\ Value(t) = wait[t].expected
      /\ where' = [where EXCEPT ![t] = "asleep"] /\ UNCHANGED <<futexes, wait, mapped, mem, stored>>
  BY DEF wait_park
<1>2. Shape' /\ OneBinding'
  BY <1>1 DEF Inv, Shape, OneBinding, Valid
<1>3. TypeOK'
  BY <1>1 DEF Inv, TypeOK
<1>4. BindingKept'
  BY <1>1 DEF Inv, BindingKept, TypeOK
<1>5. AsleepOnPage'
  BY <1>1 DEF Inv, AsleepOnPage, TypeOK, Readable
<1>6. NoLostWakeup'
  BY <1>1 DEF Inv, NoLostWakeup, TypeOK, Value
<1> QED
  BY <1>2, <1>3, <1>4, <1>5, <1>6 DEF Inv

\* process_futex_wait returns, and its reservation with it.
LEMMA ReturnStep ==
    ASSUME Inv, NEW t \in Threads, wait_return(t)
    PROVE  Inv'
<1> PICK e \in {wait[t].futex} : TRUE
  OBVIOUS
<1> DEFINE left == [futexes[e] EXCEPT !.active_waits = futexes[e].active_waits - 1]
<1>1. /\ where[t] = "round" /\ futexes' = [futexes EXCEPT ![e] = left]
      /\ where' = [where EXCEPT ![t] = "user"] /\ wait' = [wait EXCEPT ![t] = NoWait]
      /\ UNCHANGED <<mapped, mem, stored>>
  BY Zenon DEF wait_return
<1>2. e \in Entries /\ 0 \in Values /\ 0 \in Addresses /\ NoEntry \notin Entries
  BY <1>1, FutexAssumption DEF FutexAssumption, Inv, TypeOK, Values, Addresses, Entries, NoEntry
<1>3. \A f \in Entries : futexes'[f] = IF f = e THEN left ELSE futexes[f]
  BY <1>1, <1>2 DEF Inv, Shape
<1>a. \A s \in Threads : wait'[s].futex = IF s = t THEN NoEntry ELSE wait[s].futex
  BY <1>1 DEF Inv, Shape, NoWait
<1>b. t \in Holders(e) /\ Holders(e)' = Holders(e) \ {t}
  BY <1>2, <1>a DEF Holders
<1>4. \A f \in Entries : f # e => Holders(f)' = Holders(f)
  BY <1>2, <1>a DEF Holders
<1>5. /\ Cardinality(Holders(e)') = Cardinality(Holders(e)) - 1
      /\ Cardinality(Holders(e)) \in Nat /\ Cardinality(Holders(e)) # 0
  <2>1. IsFiniteSet(Holders(e)) /\ Cardinality(Holders(e)) \in Nat /\ Cardinality(Holders(e)) # 0
    BY <1>2, <1>b, Counted DEF Inv
  <2> QED
    BY <1>b, <2>1, FS_RemoveElement, Zenon
<1>6. \A f \in Entries : /\ futexes'[f].used = futexes[f].used
                         /\ futexes'[f].process = futexes[f].process
                         /\ futexes'[f].address = futexes[f].address
                         /\ futexes'[f].invalidated = futexes[f].invalidated
  BY <1>3 DEF Inv, Shape, Entry
<1>7. \A s \in Threads : s # t => wait'[s] = wait[s] /\ where'[s] = where[s]
  BY <1>1 DEF Inv, Shape, TypeOK
<1>8. wait'[t] = NoWait /\ where'[t] = "user"
  BY <1>1 DEF Inv, Shape, TypeOK
<1>9. Shape'
  <2>1. futexes[e].active_waits - 1 \in Nat
    BY <1>2, <1>5, Counted DEF Inv
  <2>2. left \in Entry
    BY <1>2, <2>1 DEF Inv, Shape, Entry
  <2>3. wait' \in [Threads -> Wait]
    BY <1>1, <1>2 DEF Inv, Shape, Wait, NoWait
  <2> QED
    BY <1>1, <1>2, <2>2, <2>3 DEF Inv, Shape
<1>10. TypeOK'
  <2>2. ASSUME NEW f \in Entries PROVE futexes'[f].active_waits = Cardinality(Holders(f)')
    <3>1. futexes[f].active_waits = Cardinality(Holders(f))
      BY Counted DEF Inv
    <3>2. CASE f = e
      <4>1. futexes'[f].active_waits = futexes[e].active_waits - 1
        BY <1>3, <3>2 DEF Inv, Shape, Entry
      <4> QED
        BY <1>5, <3>1, <3>2, <4>1
    <3>3. CASE f # e
      BY <1>3, <1>4, <3>1, <3>3
    <3> QED
      BY <3>2, <3>3
  <2>3. \A s \in Threads : wait'[s].futex \in IF where'[s] = "user" THEN {NoEntry} ELSE Entries
    BY <1>7, <1>8 DEF Inv, TypeOK, NoWait
  <2> QED
    BY <1>1, <2>2, <2>3, Zenon DEF Inv, TypeOK, Holders
<1>11. BindingKept'
  BY <1>6, <1>7, <1>8 DEF Inv, TypeOK, BindingKept
<1>12. OneBinding'
  BY <1>6 DEF Inv, OneBinding, Valid
<1>13. AsleepOnPage'
  BY <1>1, <1>6, <1>7, <1>8 DEF Inv, AsleepOnPage, TypeOK
<1>14. NoLostWakeup'
  BY <1>1, <1>7, <1>8 DEF Inv, NoLostWakeup, Value
<1> QED
  BY <1>9, <1>10, <1>11, <1>12, <1>13, <1>14 DEF Inv

\* process_futex_wake: after a wake of all, nobody sleeps on the word.
LEMMA WakeStep ==
    ASSUME Inv, NEW p \in Procs, NEW a \in Pages[p], NEW all \in BOOLEAN,
           process_futex_wake(p, a, all)
    PROVE  Inv'
<1> DEFINE queue == UNION {Parked(e) : e \in Bound(p, a)}
<1>1. PICK T \in SUBSET queue : (all => T = queue) /\ Released(T)
  BY DEF process_futex_wake
<1>2. UNCHANGED <<futexes, wait, mapped, mem>> /\ stored' = IF all THEN stored \ {<<p, a>>} ELSE stored
  BY DEF process_futex_wake
<1>3. ASSUME NEW t \in Threads, where'[t] = "asleep", <<Owner[t], wait[t].address>> \in stored
      PROVE  <<Owner[t], wait[t].address>> \in stored'
  <2>1. where[t] = "asleep" /\ t \notin T
    BY <1>1, <1>3 DEF Released
  <2>2. CASE all /\ Owner[t] = p /\ wait[t].address = a
    <3>1. wait[t].futex \in Bound(p, a)
      BY <2>1, <2>2, InvSound DEF FutexSound, WakeFinds
    <3> QED
      BY <1>1, <2>1, <2>2, <3>1 DEF Parked
  <2> QED
    BY <1>2, <1>3, <2>2
<1> QED
  BY <1>1, <1>2, <1>3, ReleaseStep

\* process_futex_invalidate_page ends every sleep on the page it takes away.
LEMMA InvalidateStep ==
    ASSUME Inv, NEW p \in Procs, NEW a \in Pages[p], process_futex_invalidate_page(p, a)
    PROVE  Inv'
<1> DEFINE gone == {e \in Entries : /\ futexes[e].used /\ futexes[e].process = p
                                    /\ futexes[e].address = a}
<1>1. /\ futexes' = [e \in Entries |-> IF e \in gone THEN [futexes[e] EXCEPT !.invalidated = TRUE]
                                       ELSE futexes[e]]
      /\ Released(UNION {Parked(e) : e \in gone}) /\ mapped' = [mapped EXCEPT ![p] = @ \ {a}]
      /\ stored' = stored \ {<<p, a>>} /\ UNCHANGED <<wait, mem>>
  BY DEF process_futex_invalidate_page
<1>2. \A e \in Entries : /\ futexes'[e].used = futexes[e].used
                         /\ futexes'[e].process = futexes[e].process
                         /\ futexes'[e].address = futexes[e].address
                         /\ futexes'[e].active_waits = futexes[e].active_waits
                         /\ futexes'[e].invalidated <=> (futexes[e].invalidated \/ e \in gone)
                         /\ futexes'[e] \in Entry
  <2> SUFFICES ASSUME NEW e \in Entries
               PROVE  /\ futexes'[e].used = futexes[e].used
                      /\ futexes'[e].process = futexes[e].process
                      /\ futexes'[e].address = futexes[e].address
                      /\ futexes'[e].active_waits = futexes[e].active_waits
                      /\ futexes'[e].invalidated <=> (futexes[e].invalidated \/ e \in gone)
                      /\ futexes'[e] \in Entry
    OBVIOUS
  <2>1. CASE e \in gone
    <3>1. futexes'[e] = [futexes[e] EXCEPT !.invalidated = TRUE]
      BY <1>1, <2>1
    <3>2. futexes[e] \in Entry
      BY DEF Inv, Shape
    <3> HIDE DEF gone
    <3> QED
      BY <2>1, <3>1, <3>2, Zenon DEF Entry
  <2>2. CASE e \notin gone
    BY <1>1, <2>2 DEF Inv, Shape, Entry
  <2> QED
    BY <2>1, <2>2
<1>3. /\ where' \in [Threads -> {"user", "round", "asleep"}]
      /\ \A t \in Threads : where'[t] = "user" <=> where[t] = "user"
      /\ \A t \in Threads : where'[t] = "asleep" => where[t] = "asleep" /\ wait[t].futex \notin gone
  BY <1>1 DEF Released, Parked, Inv, TypeOK
<1>4. \A t \in Threads : where'[t] = "asleep" => <<Owner[t], wait[t].address>> # <<p, a>>
  BY <1>3 DEF Inv, BindingKept, TypeOK
<1>5. Shape'
  BY <1>1, <1>2 DEF Inv, Shape
<1>6. TypeOK'
  <2>1. \A e \in Entries : futexes'[e].active_waits =
           Cardinality({t \in Threads : wait'[t].futex = e})
    <3>1. \A e \in Entries : futexes'[e].active_waits = Cardinality(Holders(e))
      BY <1>2, Counted DEF Inv
    <3> QED
      BY <1>1, <3>1, Zenon DEF Holders
  <2> QED
    BY <1>1, <1>3, <2>1, Zenon DEF Inv, TypeOK
<1>7. BindingKept'
  BY <1>1, <1>2, <1>3 DEF Inv, BindingKept, TypeOK
<1>8. OneBinding'
  BY <1>2 DEF Inv, OneBinding, Valid
<1>9. AsleepOnPage'
  <2> SUFFICES ASSUME NEW t \in Threads, where'[t] = "asleep"
               PROVE  wait[t].address \in mapped'[Owner[t]] /\ ~futexes'[wait[t].futex].invalidated
    BY <1>1, Zenon DEF AsleepOnPage
  <2>1. Owner[t] \in Procs /\ wait[t].futex \in Entries
    BY <1>3, FutexAssumption DEF FutexAssumption, Inv, TypeOK
  <2>2. wait[t].address \in mapped[Owner[t]] /\ ~futexes[wait[t].futex].invalidated
    BY <1>3 DEF Inv, AsleepOnPage
  <2>3. wait[t].address \in mapped'[Owner[t]]
    BY <1>1, <1>4, <2>1, <2>2 DEF Inv, Shape
  <2> QED
    BY <1>2, <1>3, <2>1, <2>2, <2>3
<1>10. NoLostWakeup'
  BY <1>1, <1>3, <1>4 DEF Inv, NoLostWakeup, Value
<1> QED
  BY <1>5, <1>6, <1>7, <1>8, <1>9, <1>10 DEF Inv

\* A fresh page appears where nobody sleeps.
LEMMA MapStep ==
    ASSUME Inv, NEW p \in Procs, NEW a \in Pages[p], map_page(p, a)
    PROVE  Inv'
<1>1. /\ a \notin mapped[p] /\ mapped' = [mapped EXCEPT ![p] = @ \cup {a}]
      /\ mem' = [mem EXCEPT ![p][a] = 0] /\ UNCHANGED <<futexes, where, wait, stored>>
  BY DEF map_page
<1>2. a \in Addresses /\ 0 \in Values
  BY FutexAssumption DEF FutexAssumption, Values, Addresses
<1>3. Shape'
  <2>1. mapped' \in [Procs -> SUBSET Addresses] /\ \A q \in Procs : mapped'[q] \subseteq Pages[q]
    BY <1>1, <1>2 DEF Inv, Shape
  <2>2. DOMAIN mem' = Procs /\ \A q \in Procs : mem'[q] \in [Pages[q] -> Values]
    BY <1>1, <1>2 DEF Inv, Shape
  <2> QED
    BY <1>1, <2>1, <2>2 DEF Inv, Shape
<1>4. TypeOK' /\ BindingKept' /\ OneBinding'
  BY <1>1 DEF Inv, TypeOK, BindingKept, OneBinding, Valid
<1>5. \A t \in Threads : where[t] = "asleep" =>
         /\ <<Owner[t], wait[t].address>> # <<p, a>> /\ Owner[t] \in Procs
         /\ wait[t].address \in mapped[Owner[t]] /\ wait[t].address \in Pages[Owner[t]]
  BY <1>1, FutexAssumption DEF FutexAssumption, Inv, AsleepOnPage, Shape
<1>6. AsleepOnPage'
  BY <1>1, <1>5 DEF Inv, AsleepOnPage, Shape
<1>7. NoLostWakeup'
  <2>1. \A t \in Threads : where[t] = "asleep" => Value(t)' = Value(t)
    BY <1>1, <1>5 DEF Value, Inv, Shape
  <2> QED
    BY <1>1, <2>1 DEF Inv, NoLostWakeup
<1> QED
  BY <1>3, <1>4, <1>6, <1>7 DEF Inv

\* process_exit: a killed thread holds nothing, and what its process bound is
\* unused again; nobody else held it.
LEMMA ExitStep ==
    ASSUME Inv, NEW p \in Procs, process_exit(p)
    PROVE  Inv'
<1> DEFINE own == {e \in Entries : futexes[e].used /\ futexes[e].process = p}
<1>1. /\ futexes' = [e \in Entries |-> IF e \in own THEN Unused ELSE futexes[e]]
      /\ where' = [t \in Threads |-> IF Owner[t] = p THEN "user" ELSE where[t]]
      /\ wait' = [t \in Threads |-> IF Owner[t] = p THEN NoWait ELSE wait[t]]
      /\ mapped' = [mapped EXCEPT ![p] = Pages[p]]
      /\ mem' = [mem EXCEPT ![p] = [a \in Pages[p] |-> 0]]
      /\ stored' = {s \in stored : s[1] # p}
  BY DEF process_exit
<1>2. 0 \in Values /\ 0 \in Addresses /\ NoEntry \notin Entries /\ Pages[p] \subseteq Addresses
  BY FutexAssumption DEF FutexAssumption, Values, Addresses, Entries, NoEntry
<1>3. \A t \in Threads : Owner[t] \in Procs /\ (wait[t].futex \in Entries => where[t] # "user")
  BY <1>2, FutexAssumption DEF FutexAssumption, Inv, TypeOK
<1>4. \A t \in Threads : wait[t].futex \in Entries => (wait[t].futex \in own <=> Owner[t] = p)
  BY <1>3 DEF Inv, BindingKept
<1> HIDE DEF own
<1>5. Shape'
  <2>1. Unused \in Entry /\ NoWait \in Wait
    BY <1>2 DEF Entry, Wait, Unused, NoWait
  <2>2. futexes' \in [Entries -> Entry] /\ wait' \in [Threads -> Wait]
    BY <1>1, <2>1 DEF Inv, Shape
  <2>3. mapped' \in [Procs -> SUBSET Addresses] /\ \A q \in Procs : mapped'[q] \subseteq Pages[q]
    BY <1>1, <1>2 DEF Inv, Shape
  <2>4. DOMAIN mem' = Procs /\ \A q \in Procs : mem'[q] \in [Pages[q] -> Values]
    BY <1>1, <1>2 DEF Inv, Shape
  <2> QED
    BY <2>2, <2>3, <2>4 DEF Shape
<1>6. TypeOK'
  <2>1. ASSUME NEW e \in Entries PROVE futexes'[e].active_waits = Cardinality(Holders(e)')
    <3>1. Holders(e)' = {t \in Threads : Owner[t] # p /\ wait[t].futex = e}
      BY <1>1, <1>2, Zenon DEF Holders, NoWait
    <3>2. CASE e \in own
      <4>1. Holders(e)' = {}
        BY <1>4, <3>1, <3>2
      <4>2. futexes'[e].active_waits = 0
        BY <1>1, <3>2 DEF Unused
      <4> QED
        BY <4>1, <4>2, FS_EmptySet
    <3>3. CASE e \notin own
      <4>1. Holders(e)' = Holders(e)
        BY <1>4, <3>1, <3>3 DEF Holders
      <4>2. futexes'[e] = futexes[e]
        BY <1>1, <3>3
      <4> QED
        BY <4>1, <4>2, Counted DEF Inv
    <3> QED
      BY <3>2, <3>3
  <2>2. where' \in [Threads -> {"user", "round", "asleep"}]
    BY <1>1 DEF Inv, TypeOK
  <2>3. \A t \in Threads : wait'[t].futex \in IF where'[t] = "user" THEN {NoEntry} ELSE Entries
    BY <1>1 DEF Inv, TypeOK, NoWait
  <2> QED
    BY <2>1, <2>2, <2>3, Zenon DEF TypeOK, Holders
<1>7. \A t \in Threads : where'[t] # "user" =>
         /\ Owner[t] # p /\ wait'[t] = wait[t] /\ where'[t] = where[t]
         /\ wait[t].futex \in Entries /\ futexes'[wait[t].futex] = futexes[wait[t].futex]
  BY <1>1, <1>4 DEF Inv, TypeOK
<1>8. BindingKept'
  BY <1>7 DEF Inv, BindingKept
<1>9. OneBinding'
  <2>1. \A e \in Entries : Valid(e)' => Valid(e) /\ futexes'[e] = futexes[e]
    BY <1>1 DEF Valid, Unused
  <2> QED
    BY <2>1 DEF Inv, OneBinding
<1>10. AsleepOnPage'
  BY <1>1, <1>3, <1>7 DEF Inv, AsleepOnPage, Shape
<1>11. NoLostWakeup'
  <2>1. \A t \in Threads : where'[t] # "user" => Value(t)' = Value(t)
    BY <1>1, <1>3, <1>7 DEF Value, Inv, Shape
  <2> QED
    BY <1>1, <1>7, <2>1, Zenon DEF Inv, NoLostWakeup
<1> QED
  BY <1>5, <1>6, <1>8, <1>9, <1>10, <1>11 DEF Inv

\* However threads wait, time out and are woken, words are stored, pages come and
\* go and processes exit: process_futex_wake finds every waiter of its word, and
\* nobody sleeps on a word whose change nobody is about to announce.
THEOREM FutexInvariant == Spec => []FutexSound
<1>1. Init => Inv
  BY InitSound
<1>2. Inv /\ [Next]_vars => Inv'
  <2> SUFFICES ASSUME Inv, [Next]_vars PROVE Inv'
    OBVIOUS
  <2>1. ASSUME NEW p \in Procs, process_futex_wake_process(p) PROVE Inv'
    BY <2>1, ReleaseStep DEF process_futex_wake_process
  <2>2. ASSUME NEW t \in Threads, wait_timeout(t) PROVE Inv'
    BY <2>2, ReleaseStep, Zenon DEF wait_timeout
  <2>3. CASE UNCHANGED vars
    <3>1. /\ futexes' = futexes /\ where' = where /\ wait' = wait /\ mapped' = mapped
          /\ mem' = mem /\ stored' = stored
      BY <2>3 DEF vars
    <3>2. Shape' /\ TypeOK' /\ BindingKept'
      BY <3>1 DEF Inv, Shape, TypeOK, BindingKept
    <3>3. OneBinding' /\ AsleepOnPage' /\ NoLostWakeup'
      BY <3>1, Zenon DEF Inv, OneBinding, AsleepOnPage, NoLostWakeup, Valid, Value
    <3> QED
      BY <3>2, <3>3, Zenon DEF Inv
  <2> QED
    BY <2>1, <2>2, <2>3, StoreStep, WakeStep, InvalidateStep, MapStep, ExitStep, WaitStep,
       ParkStep, ReturnStep, Zenon DEF Next
<1> QED
  BY <1>1, <1>2, InvSound, PTL DEF Spec
=============================================================================

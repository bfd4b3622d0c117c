------------------------- MODULE ProcessTableProofs -------------------------
(***************************************************************************)
(* The process table for every number of slots, pids and lifetimes.        *)
(*                                                                         *)
(* The invariant has two halves.  LifeInv is about process_lifetimes and   *)
(* user scopes: what a record counts, who owns it, and that unused records *)
(* are blank (so that a slot never belongs to a lifetime that is gone).    *)
(* TableInv is about slots: that a claim has one holder, or lost it to a   *)
(* cancellation, needs that the parent which releases a failed or          *)
(* foreground child is still there and the only process with its pid; that *)
(* no wake-up is lost needs that a pid is nobody's parent before its       *)
(* process is published, and that a cancelled process announces its exit.  *)
(***************************************************************************)
EXTENDS ProcessTable, FiniteSetTheorems, TLAPS

Tokens == 1 .. MaxToken

\* Record L counts its n members and its reservation; a scope without an owner
\* is revoked and not empty; an unused record is blank.
Sound(L, n) ==
    /\ L \in Lives /\ L.members = n + IF L.reservation THEN 1 ELSE 0
    /\ L.user /\ L.owner = Kernel => L.revoked /\ L.members > 0 /\ ~L.reservation
    /\ ~L.user => L.owner = Kernel
    /\ L.reservation => L.root_reserved
    /\ ~L.live => L = NoLife

\* The owner of record L of lifetime t runs and knows it.
Held(t, L) ==
    /\ L.user /\ L.owner # Kernel => scope[L.owner] = t /\ phase[L.owner] = "running"
    /\ L.live => t < next_lifetime

RecordOK(t) == Sound(life[t], Cardinality(Members(t))) /\ Held(t, life[t])

ScopesOK == \A i \in ProcessSlots : scope[i] # 0 => Live(scope[i]) /\ life[scope[i]].owner = i

LifeTypes ==
    /\ life \in [Tokens -> Lives] /\ next_lifetime \in 1 .. MaxToken + 1
    /\ lifetime \in [ProcessSlots -> 0 .. MaxToken] /\ scope \in [ProcessSlots -> 0 .. MaxToken]
    /\ phase \in [ProcessSlots -> Phases]

LifeInv == LifeTypes /\ (\A t \in Tokens : RecordOK(t)) /\ ScopesOK

\* A step of RevokedOnlyShrinks for lifetime t.
Shrinks(t) ==
    life[t].live /\ life[t].revoked =>
        /\ life'[t].live => life'[t].revoked
        /\ life'[t].members <= life[t].members

LifeNext == LifeInv' /\ \A t \in Tokens : Shrinks(t)

\* A claimed record has one holder, until that is cancelled.
Reapers ==
    \A i \in ProcessSlots :
        IF phase[i] \in {"claimed", "releasing"} /\ cancel[i] # "done"
        THEN \E a \in Actors : claims[i] = {a} ELSE claims[i] = {}

\* The pids of slots in use differ, and are older than the next one.
Pids ==
    \A i \in ProcessSlots : phase[i] # "free" =>
        /\ pid[i] \in 1 .. next_pid - 1 /\ parent[i] < next_pid
        /\ \A j \in ProcessSlots : phase[j] # "free" /\ pid[j] = pid[i] => j = i

Unborn == {"clearing", "loading"}

\* Only creation and release can be cancelled.
Cancels ==
    \A i \in ProcessSlots : cancel[i] # "no" => phase[i] \in Unborn \cup {"claimed", "releasing"}

\* Nobody is the child of a process that has not started.
Parents ==
    \A i, j \in ProcessSlots :
        phase[i] # "free" /\ phase[j] \in Unborn => parent[i] # pid[j]

\* The process that creates a child, or runs it in the foreground, is there, unless
\* it was cancelled.
Bound(i) ==
    \/ phase[i] \in Unborn
    \/ phase[i] \notin {"free", "claimed", "releasing"} /\ ~detached[i]
Callers ==
    \A i \in ProcessSlots : Bound(i) /\ cancel[i] # "done" /\ parent[i] # 0 =>
        \E j \in ProcessSlots : phase[j] = "running" /\ pid[j] = parent[i]

\* Only a running process inside wait sleeps on process_wait_queue.
Waiting == \A i \in asleep : phase[i] = "running" /\ wait[i] # NoWait

TableTypes ==
    /\ phase \in [ProcessSlots -> Phases]
    /\ pid \in [ProcessSlots -> 0 .. MaxPid] /\ parent \in [ProcessSlots -> 0 .. MaxPid]
    /\ detached \in [ProcessSlots -> BOOLEAN] /\ killed \in [ProcessSlots -> BOOLEAN]
    /\ claims \in [ProcessSlots -> SUBSET Actors]
    /\ cancel \in [ProcessSlots -> {"no", "may", "done"}]
    /\ wait \in [ProcessSlots -> {NoWait} \cup (0 .. MaxPid)] /\ asleep \in SUBSET ProcessSlots
    /\ next_pid \in 1 .. MaxPid + 1 /\ system_reaper_pid \in 0 .. MaxPid
    /\ appointed \in BOOLEAN

\* NoLostWakeup, with the owner and the pid of each wait named.
Announced == \E j \in ProcessSlots : Announcing(j)
Alerted ==
    \A i \in asleep, o, p \in 0 .. MaxPid :
        o = pid[i] /\ p = wait[i] /\ WaitReady(o, p) =>
            Announced \/ (appointed /\ o = system_reaper_pid)

Slots == Reapers /\ Pids /\ Parents /\ Callers /\ Cancels
Queue == Waiting /\ Alerted
TableInv == TableTypes /\ Slots /\ Queue

Inv == LifeInv /\ TableInv

-----------------------------------------------------------------------------
(* Numbers and sets of slots.                                              *)

LEMMA Numbers ==
    /\ PROCESS_MAX_PROCESSES \in Nat /\ MaxPid \in Nat /\ MaxToken \in Nat
    /\ Kernel \notin ProcessSlots /\ 0 \notin Tokens
    /\ \A t \in 0 .. MaxToken : t # 0 => t \in Tokens
    /\ \A t \in Tokens : t \in 0 .. MaxToken
BY ProcessTableAssumption DEF ProcessTableAssumption, Kernel, ProcessSlots, Tokens

LEMMA SlotSets ==
    ASSUME NEW S \in SUBSET ProcessSlots
    PROVE  IsFiniteSet(S) /\ Cardinality(S) \in Nat
<1>1. IsFiniteSet(ProcessSlots)
  BY Numbers, FS_Interval DEF ProcessSlots
<1> QED
  BY <1>1, FS_Subset, FS_CardinalityType

LEMMA CountAdd ==
    ASSUME NEW S \in SUBSET ProcessSlots, NEW i \in ProcessSlots, i \notin S
    PROVE  Cardinality(S \cup {i}) = Cardinality(S) + 1
BY SlotSets, FS_AddElement

LEMMA CountRemove ==
    ASSUME NEW S \in SUBSET ProcessSlots, NEW i \in S
    PROVE  Cardinality(S \ {i}) = Cardinality(S) - 1 /\ Cardinality(S) >= 1
<1>1. S \ {i} \in SUBSET ProcessSlots /\ i \in ProcessSlots /\ i \notin S \ {i}
      /\ (S \ {i}) \cup {i} = S
  OBVIOUS
<1>2. Cardinality(S) = Cardinality(S \ {i}) + 1
  BY <1>1, CountAdd
<1> QED
  BY <1>1, <1>2, SlotSets

LEMMA NoMembers ==
    ASSUME NEW S \in SUBSET ProcessSlots
    PROVE  Cardinality(S) = 0 <=> S = {}
BY SlotSets, FS_EmptySet

LEMMA MembersSlots == \A t : Members(t) \in SUBSET ProcessSlots
BY DEF Members

\* A lifetime keeps its members while no slot is taken, returned or reassigned.
LEMMA MembersKept ==
    ASSUME lifetime' = lifetime,
           \A j \in ProcessSlots : phase'[j] # "free" <=> phase[j] # "free"
    PROVE  \A t : Members(t)' = Members(t)
BY DEF Members

-----------------------------------------------------------------------------
(* Lifetimes.                                                              *)

LEMMA NoLifeOK ==
    /\ NoLife \in Lives /\ NoLife.members = 0 /\ NoLife.owner = Kernel
    /\ ~NoLife.user /\ ~NoLife.live /\ ~NoLife.reservation
BY DEF NoLife, Lives, Kernel, Actors

\* What the operations do to one record with n members.
LEMMA ReserveSound ==
    ASSUME NEW n \in Nat, NEW L, Sound(L, n), L.owner # Kernel, ~L.root_reserved
    PROVE  Sound([L EXCEPT !.root_reserved = TRUE, !.reservation = TRUE, !.members = @ + 1], n)
<1>1. L \in Lives /\ L.live /\ ~L.reservation
  BY NoLifeOK, Zenon DEF Sound
<1>2. PICK m \in Nat : m = L.members + 1 /\ m = n + 1
  BY <1>1 DEF Sound
<1>3. PICK M : M = [L EXCEPT !.root_reserved = TRUE, !.reservation = TRUE, !.members = m]
  OBVIOUS
<1>4. M \in Lives /\ M.members = n + 1 /\ M.reservation /\ M.root_reserved /\ M.live
      /\ M.owner = L.owner /\ M.user = L.user
  BY <1>1, <1>2, <1>3, Zenon DEF Lives
<1>5. Sound(M, n)
  BY <1>4 DEF Sound
<1> QED
  BY <1>2, <1>3, <1>5, Zenon

LEMMA CancelSound ==
    ASSUME NEW n \in Nat, NEW L, Sound(L, n), L.owner # Kernel, L.reservation
    PROVE  /\ Sound(MemberDone([L EXCEPT !.reservation = FALSE]), n)
           /\ MemberDone([L EXCEPT !.reservation = FALSE]) =
                 [L EXCEPT !.reservation = FALSE, !.members = @ - 1]
<1>1. MemberDone([L EXCEPT !.reservation = FALSE]) =
                 [L EXCEPT !.reservation = FALSE, !.members = @ - 1]
  BY Zenon DEF MemberDone, Sound, Lives
<1>2. L \in Lives /\ L.live
  BY NoLifeOK, Zenon DEF Sound
<1>3. L.members - 1 = n
  BY DEF Sound
<1>4. PICK M : M = [L EXCEPT !.reservation = FALSE, !.members = n]
  OBVIOUS
<1>5. M \in Lives /\ M.members = n /\ ~M.reservation /\ M.live
      /\ M.owner = L.owner /\ M.user = L.user
  BY <1>2, <1>4, Zenon DEF Lives
<1>6. Sound(M, n)
  BY <1>5 DEF Sound
<1> QED
  BY <1>1, <1>3, <1>4, <1>6, Zenon

LEMMA RevokeSound ==
    ASSUME NEW n \in Nat, NEW L, Sound(L, n), L.live
    PROVE  Sound([L EXCEPT !.revoked = TRUE], n)
BY Zenon DEF Sound, Lives

LEMMA BlankSound == Sound(NoLife, 0)
BY NoLifeOK DEF Sound, NoLife

\* The last member of an abandoned scope takes the record with it.
LEMMA DoneSound ==
    ASSUME NEW n \in Nat, NEW L, Sound(L, n + 1)
    PROVE  /\ Sound(MemberDone(L), n)
           /\ MemberDone(L) \in {NoLife, [L EXCEPT !.members = @ - 1]}
           /\ MemberDone(L) = NoLife => L.owner = Kernel
<1>1. CASE L.user /\ L.owner = Kernel /\ L.revoked /\ L.members - 1 = 0
  <2>1. MemberDone(L) = NoLife
    BY <1>1 DEF MemberDone, Sound, Lives
  <2>2. n = 0
    BY <1>1 DEF Sound
  <2> QED
    BY <1>1, <2>1, <2>2, BlankSound
<1>2. CASE ~(L.user /\ L.owner = Kernel /\ L.revoked /\ L.members - 1 = 0)
  <2>1. MemberDone(L) = [L EXCEPT !.members = @ - 1]
    BY <1>2 DEF MemberDone, Sound, Lives
  <2>2. L.members > 0 /\ L.live /\ L.members - 1 \in Nat
    BY DEF Sound, NoLife, Lives
  <2>3. Sound(MemberDone(L), n)
    BY <1>2, <2>1, <2>2 DEF Sound, Lives
  <2>4. MemberDone(L) # NoLife
    BY <2>1, <2>2 DEF NoLife, Sound, Lives
  <2> QED
    BY <2>1, <2>3, <2>4
<1> QED
  BY <1>1, <1>2

\* The record of a scope whose owner goes.
Abandoned(L) ==
    LET D == [L EXCEPT !.revoked = TRUE, !.owner = Kernel, !.reservation = FALSE,
                       !.members = @ - IF L.reservation THEN 1 ELSE 0]
    IN  IF D.members = 0 THEN NoLife ELSE D

LEMMA DetachSound ==
    ASSUME NEW n \in Nat, NEW L, Sound(L, n), L.live, L.user
    PROVE  /\ Sound(Abandoned(L), n) /\ Abandoned(L).owner = Kernel
           /\ Abandoned(L).members <= L.members
           /\ Abandoned(L).live => Abandoned(L).revoked
<1>1. L \in Lives /\ L.members - (IF L.reservation THEN 1 ELSE 0) = n /\ n <= L.members
  BY DEF Sound, Lives
<1>2. PICK D : D = [L EXCEPT !.revoked = TRUE, !.owner = Kernel, !.reservation = FALSE,
                             !.members = n]
  OBVIOUS
<1>3. D \in Lives /\ D.members = n /\ ~D.reservation /\ D.live /\ D.user /\ D.revoked
      /\ D.owner = Kernel
  BY <1>1, <1>2, Zenon DEF Lives, Actors, Kernel
<1>4. Abandoned(L) = IF n = 0 THEN NoLife ELSE D
  BY <1>1, <1>2, <1>3, Zenon DEF Abandoned
<1>5. n # 0 => Sound(D, n)
  BY <1>3 DEF Sound
<1> QED
  BY <1>1, <1>3, <1>4, <1>5, BlankSound, NoLifeOK

\* A root takes the place that was reserved for it; others are counted.
LEMMA TakeSound ==
    ASSUME NEW n \in Nat, NEW L, Sound(L, n), L.reservation
    PROVE  Sound([L EXCEPT !.reservation = FALSE, !.root_reserved = TRUE], n + 1)
<1>1. L \in Lives /\ L.live /\ ~(L.user /\ L.owner = Kernel)
  BY NoLifeOK, Zenon DEF Sound
<1>2. PICK M : M = [L EXCEPT !.reservation = FALSE, !.root_reserved = TRUE]
  BY Zenon
<1>3. M \in Lives /\ M.members = L.members /\ ~M.reservation /\ M.live
      /\ M.owner = L.owner /\ M.user = L.user
  BY <1>1, <1>2, Zenon DEF Lives
<1>4. L.members = n + 1
  BY DEF Sound
<1>5. ~(M.user /\ M.owner = Kernel) /\ (~M.user => M.owner = Kernel)
  BY <1>1, <1>3, Zenon DEF Sound
<1> QED
  BY <1>2, <1>3, <1>4, <1>5 DEF Sound

LEMMA JoinSound ==
    ASSUME NEW n \in Nat, NEW L, NEW root, Sound(L, n), L.live,
           ~(root # 0 /\ L.reservation)
    PROVE  Sound(Joined(L, root), n + 1)
<1>1. PICK m \in Nat : m = L.members + 1 /\ m > 0
  BY DEF Sound, Lives
<1>2. PICK b \in BOOLEAN : b = (L.root_reserved \/ root # 0)
  BY Zenon
<1>3. PICK M : M = [L EXCEPT !.members = m, !.root_reserved = b]
  OBVIOUS
<1>4. M \in Lives /\ M.members = m /\ M.reservation = L.reservation /\ M.live
      /\ M.owner = L.owner /\ M.user = L.user /\ M.revoked = L.revoked /\ M.root_reserved = b
  BY <1>3, Zenon DEF Lives, Sound
<1>5. M.members = (n + 1) + IF M.reservation THEN 1 ELSE 0
  BY <1>1, <1>4 DEF Sound
<1>6. M.members > 0
  BY <1>1, <1>4
<1>7. Sound(M, n + 1)
  <2>1. /\ M.user /\ M.owner = Kernel => M.revoked /\ M.members > 0 /\ ~M.reservation
        /\ ~M.user => M.owner = Kernel
    BY <1>4, <1>6, Zenon DEF Sound
  <2>2. M.reservation => M.root_reserved
    BY <1>2, <1>4, Zenon DEF Sound
  <2> QED
    BY <1>4, <1>5, <2>1, <2>2, Zenon DEF Sound
<1> QED
  BY <1>1, <1>2, <1>3, <1>7, Zenon DEF Joined

\* A record that the step leaves alone stays right while its owner does.
Spares(u) ==
    /\ u \in Tokens /\ life'[u] = life[u] /\ Members(u)' = Members(u)
    /\ next_lifetime' \in Int /\ next_lifetime <= next_lifetime'
    /\ \A j \in ProcessSlots : scope[j] = u /\ phase[j] = "running" =>
                               scope'[j] = u /\ phase'[j] = "running"

LEMMA SpareOK ==
    ASSUME LifeInv, NEW u, Spares(u)
    PROVE  RecordOK(u)' /\ Shrinks(u)
<1>1. life'[u] = life[u] /\ Members(u)' = Members(u) /\ RecordOK(u) /\ u \in Tokens
  BY DEF Spares, LifeInv
<1>2. life[u] \in Lives
  BY <1>1 DEF LifeInv, LifeTypes
<1>3. life[u].user /\ life[u].owner # Kernel =>
         scope'[life[u].owner] = u /\ phase'[life[u].owner] = "running"
  <2> SUFFICES ASSUME life[u].user, life[u].owner # Kernel
               PROVE  scope'[life[u].owner] = u /\ phase'[life[u].owner] = "running"
    OBVIOUS
  <2>1. PICK o \in ProcessSlots : o = life[u].owner
    BY <1>2 DEF Lives, Actors
  <2>2. scope[o] = u /\ phase[o] = "running"
    BY <1>1, <2>1, Zenon DEF RecordOK, Held
  <2> QED
    BY <2>1, <2>2, Zenon DEF Spares
<1>4. life[u].live => u < next_lifetime'
  <2>1. next_lifetime \in Int /\ u \in Int
    BY <1>1 DEF LifeInv, LifeTypes, Tokens
  <2> QED
    BY <1>1, <2>1 DEF RecordOK, Held, Spares
<1>5. RecordOK(u)'
  BY <1>1, <1>3, <1>4, Zenon DEF RecordOK, Held
<1>6. life[u].members <= life[u].members
  BY <1>2 DEF Lives
<1> QED
  BY <1>1, <1>5, <1>6, Zenon DEF Shrinks

\* The step changes record t only, and no owner of another record.
Touches(t, L) ==
    /\ t \in Tokens /\ L \in Lives /\ life' = [life EXCEPT ![t] = L]
    /\ next_lifetime' \in 1 .. MaxToken + 1 /\ next_lifetime <= next_lifetime'
    /\ lifetime' \in [ProcessSlots -> 0 .. MaxToken] /\ scope' \in [ProcessSlots -> 0 .. MaxToken]
    /\ phase' \in [ProcessSlots -> Phases]
    /\ \A u \in Tokens : u # t => Members(u)' = Members(u)
    /\ \A j \in ProcessSlots : scope'[j] = scope[j] \/ {scope[j], scope'[j]} \subseteq {0, t}
    /\ \A j \in ProcessSlots :
          scope[j] \notin {0, t} /\ phase[j] = "running" => phase'[j] = "running"
    /\ \A j \in ProcessSlots : scope'[j] = t => L.live /\ L.owner = j

LEMMA TouchOK ==
    ASSUME LifeInv, NEW t, NEW L, Touches(t, L), RecordOK(t)', Shrinks(t)
    PROVE  LifeNext
<1>1. /\ t \in Tokens /\ life' \in [Tokens -> Lives] /\ life'[t] = L
      /\ \A u \in Tokens : u # t => life'[u] = life[u]
  BY DEF Touches, LifeInv, LifeTypes
<1>2. LifeTypes'
  BY <1>1 DEF Touches, LifeTypes
<1>3. ASSUME NEW u \in Tokens, u # t
      PROVE  RecordOK(u)' /\ Shrinks(u)
  <2>1. u # 0 /\ Members(u)' = Members(u)
    BY <1>3, Numbers DEF Touches
  <2>2. Spares(u)
    BY <1>1, <1>3, <2>1 DEF Touches, Spares
  <2> QED
    BY <2>2, SpareOK, Zenon
<1>4. ScopesOK'
  <2> SUFFICES ASSUME NEW j \in ProcessSlots, scope'[j] # 0
               PROVE  life'[scope'[j]].live /\ life'[scope'[j]].owner = j
    BY DEF ScopesOK, Live
  <2>1. CASE scope'[j] = t
    BY <1>1, <2>1 DEF Touches
  <2>2. CASE scope'[j] # t
    <3>1. scope'[j] = scope[j] /\ scope[j] \in Tokens
      BY <2>2, Numbers DEF Touches
    <3> QED
      BY <1>1, <2>2, <3>1 DEF LifeInv, ScopesOK, Live
  <2> QED
    BY <2>1, <2>2
<1> QED
  BY <1>1, <1>2, <1>3, <1>4 DEF LifeNext, LifeInv

\* A step that changes no record and no owner.
LEMMA LifeKept ==
    ASSUME LifeInv, phase' \in [ProcessSlots -> Phases],
           UNCHANGED <<life, lifetime, scope, next_lifetime>>,
           \A j \in ProcessSlots : phase'[j] # "free" <=> phase[j] # "free",
           \A j \in ProcessSlots : scope[j] # 0 /\ phase[j] = "running" => phase'[j] = "running"
    PROVE  LifeNext
<1>1. LifeTypes' /\ next_lifetime' \in Int /\ next_lifetime <= next_lifetime'
  BY DEF LifeInv, LifeTypes
<1>2. ASSUME NEW u \in Tokens PROVE RecordOK(u)' /\ Shrinks(u)
  <2>1. Members(u)' = Members(u) /\ u # 0
    BY MembersKept, Numbers
  <2>2. Spares(u)
    BY <1>1, <2>1, Zenon DEF Spares
  <2> QED
    BY <2>2, SpareOK, Zenon
<1>3. ScopesOK'
  BY DEF LifeInv, ScopesOK, Live
<1> QED
  BY <1>1, <1>2, <1>3 DEF LifeNext, LifeInv

\* What is known of the scope of a process.
LEMMA ScopeFacts ==
    ASSUME LifeInv, NEW i \in ProcessSlots, scope[i] # 0
    PROVE  /\ scope[i] \in Tokens /\ life[scope[i]] \in Lives /\ life[scope[i]].live
           /\ life[scope[i]].user /\ life[scope[i]].owner = i /\ phase[i] = "running"
<1>1. PICK t \in Tokens : t = scope[i]
  BY Numbers DEF LifeInv, LifeTypes
<1>2. life[t] \in Lives /\ RecordOK(t) /\ life[t].live /\ life[t].owner = i /\ i # Kernel
  BY <1>1, Numbers DEF LifeInv, LifeTypes, ScopesOK, Live
<1>3. life[t].user /\ phase[i] = "running"
  BY <1>2, Zenon DEF RecordOK, Sound, Held
<1> QED
  BY <1>1, <1>2, <1>3

\* A lifetime counts at least its reservation; a blank one counts nobody.
LEMMA CountFacts ==
    ASSUME LifeInv, NEW t \in Tokens
    PROVE  /\ life[t] \in Lives /\ RecordOK(t)
           /\ Cardinality(Members(t)) \in Nat
           /\ life[t].reservation => life[t].members = Cardinality(Members(t)) + 1
           /\ ~life[t].reservation => life[t].members = Cardinality(Members(t))
           /\ ~life[t].live => Members(t) = {} /\ ~life[t].reservation
<1>1. life[t] \in Lives /\ RecordOK(t)
  BY DEF LifeInv, LifeTypes
<1>2. Members(t) \in SUBSET ProcessSlots /\ Cardinality(Members(t)) \in Nat
  BY MembersSlots, SlotSets
<1>3. /\ life[t].reservation => life[t].members = Cardinality(Members(t)) + 1
      /\ ~life[t].reservation => life[t].members = Cardinality(Members(t))
  BY <1>1, <1>2 DEF RecordOK, Sound
<1>4. ASSUME ~life[t].live PROVE Members(t) = {} /\ ~life[t].reservation
  <2>1. life[t].members = 0 /\ ~life[t].reservation
    BY <1>1, <1>4 DEF RecordOK, Sound, NoLife
  <2> QED
    BY <1>2, <1>3, <2>1, NoMembers
<1> QED
  BY <1>1, <1>2, <1>3, <1>4

\* A record changes in place: the scope keeps its owner and its members.
LEMMA SetRecord ==
    ASSUME LifeInv, NEW t \in Tokens, NEW L, life' = [life EXCEPT ![t] = L],
           UNCHANGED <<phase, lifetime, scope, next_lifetime>>,
           Sound(L, Cardinality(Members(t))),
           L.user = life[t].user, L.owner = life[t].owner, L.live = life[t].live,
           life[t].revoked => L.revoked /\ L.members <= life[t].members
    PROVE  LifeNext
<1>1. life'[t] = L /\ RecordOK(t) /\ Members(t)' = Members(t)
  BY MembersKept DEF LifeInv, LifeTypes
<1>2. RecordOK(t)'
  <2>1. Held(t, L)'
    BY <1>1, Zenon DEF RecordOK, Held
  <2> QED
    BY <1>1, <2>1, Zenon DEF RecordOK
<1>3. Shrinks(t)
  BY <1>1, Zenon DEF Shrinks
<1>4. Touches(t, L)
  <2>1. \A u \in Tokens : Members(u)' = Members(u)
    BY MembersKept
  <2>2. next_lifetime <= next_lifetime' /\ LifeTypes /\ L \in Lives
    BY DEF LifeInv, LifeTypes, Sound
  <2>3. \A j \in ProcessSlots : scope'[j] = t => L.live /\ L.owner = j
    BY Numbers, Zenon DEF LifeInv, ScopesOK, Live
  <2> QED
    BY <2>1, <2>2, <2>3, Zenon DEF Touches, LifeTypes
<1> QED
  BY <1>2, <1>3, <1>4, TouchOK, Zenon

\* The record of an empty lifetime is released.
LEMMA ClearRecord ==
    ASSUME LifeInv, NEW t \in Tokens, life' = [life EXCEPT ![t] = NoLife],
           life[t].live, life[t].members = 0,
           UNCHANGED <<phase, lifetime, next_lifetime>>,
           scope' \in [ProcessSlots -> 0 .. MaxToken],
           \A j \in ProcessSlots : scope'[j] = IF scope[j] = t THEN 0 ELSE scope[j]
    PROVE  LifeNext
<1>1. /\ life'[t] = NoLife /\ Members(t)' = Members(t) /\ Cardinality(Members(t)) = 0
  <2>1. life'[t] = NoLife /\ Members(t)' = Members(t)
    BY MembersKept DEF LifeInv, LifeTypes
  <2>2. Cardinality(Members(t)) = 0
    BY CountFacts
  <2> QED
    BY <2>1, <2>2
<1>2. RecordOK(t)'
  BY <1>1, BlankSound, NoLifeOK, Zenon DEF RecordOK, Held
<1>3. Shrinks(t)
  <2>1. life'[t].members <= life[t].members
    BY <1>1, NoLifeOK
  <2> QED
    BY <1>1, <2>1, NoLifeOK, Zenon DEF Shrinks
<1>4. Touches(t, NoLife)
  <2>1. \A u \in Tokens : Members(u)' = Members(u)
    BY MembersKept
  <2>2. next_lifetime <= next_lifetime' /\ LifeTypes /\ NoLife \in Lives
    BY NoLifeOK DEF LifeInv, LifeTypes
  <2>3. t # 0
    BY Numbers
  <2>4. \A j \in ProcessSlots : scope'[j] # t
    BY <2>3, Zenon
  <2>5. \A j \in ProcessSlots : scope'[j] = scope[j] \/ {scope[j], scope'[j]} \subseteq {0, t}
    OBVIOUS
  <2> QED
    BY <2>1, <2>2, <2>4, <2>5, Zenon DEF Touches, LifeTypes
<1> QED
  BY <1>2, <1>3, <1>4, TouchOK, Zenon

LEMMA ReserveLife ==
    ASSUME LifeInv, NEW i \in ProcessSlots, process_scope_reserve(i)
    PROVE  LifeNext
<1>1. PICK t \in Tokens : t = scope[i]
  BY Numbers DEF process_scope_reserve, Owned, Live, LifeInv, LifeTypes
<1>2. PICK L : L = [life[t] EXCEPT !.root_reserved = TRUE, !.reservation = TRUE, !.members = @ + 1]
  OBVIOUS
<1>3. /\ life' = [life EXCEPT ![t] = L] /\ UNCHANGED <<phase, lifetime, scope, next_lifetime>>
      /\ ~life[t].revoked /\ ~life[t].root_reserved /\ life[t].owner = i /\ i # Kernel
  BY <1>1, <1>2, Numbers, Zenon DEF process_scope_reserve, Owned, SetLife, ids
<1>4. life[t] \in Lives /\ Cardinality(Members(t)) \in Nat /\ RecordOK(t)
  BY CountFacts
<1>5. Sound(L, Cardinality(Members(t)))
  BY <1>2, <1>3, <1>4, ReserveSound, Zenon DEF RecordOK
<1>6. L.user = life[t].user /\ L.owner = life[t].owner /\ L.live = life[t].live
  BY <1>2, <1>4 DEF Lives
<1> QED
  BY <1>3, <1>5, <1>6, SetRecord, Zenon

LEMMA CancelLife ==
    ASSUME LifeInv, NEW i \in ProcessSlots, process_scope_cancel_reservation(i)
    PROVE  LifeNext
<1>1. PICK t \in Tokens : t = scope[i]
  BY Numbers DEF process_scope_cancel_reservation, Live, LifeInv, LifeTypes
<1>2. life[t] \in Lives /\ Cardinality(Members(t)) \in Nat /\ RecordOK(t)
  BY CountFacts
<1>3. life[t].owner = i /\ i # Kernel
  <2>1. scope[i] # 0
    BY <1>1, Numbers
  <2> QED
    BY <1>1, <2>1, ScopeFacts, Numbers
<1>4. PICK L : L = MemberDone([life[t] EXCEPT !.reservation = FALSE])
  OBVIOUS
<1>5. /\ life' = [life EXCEPT ![t] = L] /\ UNCHANGED <<phase, lifetime, scope, next_lifetime>>
      /\ life[t].reservation
  BY <1>1, <1>4, Zenon DEF process_scope_cancel_reservation, SetLife, ids
<1>6. /\ Sound(L, Cardinality(Members(t)))
      /\ L = [life[t] EXCEPT !.reservation = FALSE, !.members = @ - 1]
  BY <1>2, <1>3, <1>4, <1>5, CancelSound, Zenon DEF RecordOK
<1>7. /\ L.user = life[t].user /\ L.owner = life[t].owner /\ L.live = life[t].live
      /\ L.revoked = life[t].revoked /\ L.members <= life[t].members
  BY <1>2, <1>6 DEF Lives
<1> QED
  BY <1>5, <1>6, <1>7, SetRecord, Zenon

\* Revocation of record t, by the owner of a scope or by the kernel.
LEMMA RevokeLife ==
    ASSUME LifeInv, NEW t \in Tokens, life[t].live, ~life[t].revoked,
           SetLife(t, [life[t] EXCEPT !.revoked = TRUE]), UNCHANGED scope
    PROVE  LifeNext
<1>1. life[t] \in Lives /\ Cardinality(Members(t)) \in Nat /\ RecordOK(t)
  BY CountFacts
<1>2. PICK L : L = [life[t] EXCEPT !.revoked = TRUE]
  OBVIOUS
<1>3. life' = [life EXCEPT ![t] = L] /\ UNCHANGED <<phase, lifetime, scope, next_lifetime>>
  BY <1>2, Zenon DEF SetLife, ids
<1>4. Sound(L, Cardinality(Members(t)))
  BY <1>1, <1>2, RevokeSound, Zenon DEF RecordOK
<1>5. L.user = life[t].user /\ L.owner = life[t].owner /\ L.live = life[t].live
  BY <1>1, <1>2, Zenon DEF Lives
<1> QED
  BY <1>3, <1>4, <1>5, SetRecord, Zenon

LEMMA ControlLife ==
    ASSUME LifeInv, NEW i \in ProcessSlots, process_scope_control(i)
    PROVE  LifeNext
<1>1. PICK t \in Tokens : t = scope[i]
  BY Numbers DEF process_scope_control, Owned, Live, LifeInv, LifeTypes
<1>2. life[t].live /\ life[t].owner = i
  BY <1>1 DEF process_scope_control, Owned, Live
<1>3. CASE ~life[t].revoked
  <2>1. SetLife(t, [life[t] EXCEPT !.revoked = TRUE]) /\ UNCHANGED scope
    BY <1>1, <1>3, Zenon DEF process_scope_control
  <2> QED
    BY <1>2, <1>3, <2>1, RevokeLife, Zenon
<1>4. CASE life[t].revoked
  <2>1. /\ life' = [life EXCEPT ![t] = NoLife] /\ life[t].members = 0
        /\ UNCHANGED <<phase, lifetime, next_lifetime>> /\ scope' = [scope EXCEPT ![i] = 0]
    BY <1>1, <1>4, Zenon DEF process_scope_control, SetLife, ids
  <2>2. \A j \in ProcessSlots : scope[j] = t => j = i
    BY <1>2, Numbers, Zenon DEF LifeInv, ScopesOK
  <2>3. /\ scope' \in [ProcessSlots -> 0 .. MaxToken]
        /\ \A j \in ProcessSlots : scope'[j] = IF scope[j] = t THEN 0 ELSE scope[j]
    BY <1>1, <2>1, <2>2, Numbers DEF LifeInv, LifeTypes
  <2> QED
    BY <1>2, <2>1, <2>3, ClearRecord, Zenon
<1> QED
  BY <1>3, <1>4

LEMMA ReleaseLife ==
    ASSUME LifeInv, NEW t \in Tokens, process_lifetime_release(t)
    PROVE  LifeNext
<1>1. /\ life[t].live /\ ~life[t].user /\ life[t].members = 0
      /\ life' = [life EXCEPT ![t] = NoLife] /\ UNCHANGED <<phase, lifetime, next_lifetime, scope>>
  BY DEF process_lifetime_release, Live, SetLife, ids
<1>2. \A j \in ProcessSlots : scope[j] # t
  BY <1>1, ScopeFacts, Numbers
<1>3. /\ scope' \in [ProcessSlots -> 0 .. MaxToken]
      /\ \A j \in ProcessSlots : scope'[j] = IF scope[j] = t THEN 0 ELSE scope[j]
  BY <1>1, <1>2, Zenon DEF LifeInv, LifeTypes
<1> QED
  BY <1>1, <1>3, ClearRecord, Zenon

\* A new record, of the kernel or of the process that asks.
LEMMA CreateLife ==
    ASSUME LifeInv, NEW o \in Actors, NEW L,
           L \in Lives, L.live, L.user <=> o # Kernel, L.owner = o, L.members = 0, ~L.reservation,
           Create(L), scope' \in [ProcessSlots -> 0 .. MaxToken],
           \A j \in ProcessSlots : scope'[j] = IF j = o THEN next_lifetime ELSE scope[j],
           o # Kernel => scope[o] = 0 /\ phase[o] = "running"
    PROVE  LifeNext
<1>1. PICK t \in Tokens : t = next_lifetime
  BY Numbers DEF LifeInv, LifeTypes, Tokens, Create
<1>2. /\ life' = [life EXCEPT ![t] = L] /\ next_lifetime' = t + 1
      /\ UNCHANGED <<phase, lifetime>>
  BY <1>1, Zenon DEF Create
<1>3. ~life[t].live
  <2>1. ~(t < next_lifetime)
    BY <1>1 DEF Tokens
  <2> QED
    BY <2>1, CountFacts, Zenon DEF RecordOK, Held
<1>4. Cardinality(Members(t)) = 0 /\ Members(t)' = Members(t)
  BY <1>2, <1>3, CountFacts, NoMembers, MembersKept, MembersSlots
<1>5. Sound(L, 0)
  BY DEF Sound
<1>6. life'[t] = L
  BY <1>2 DEF LifeInv, LifeTypes
<1>7. RecordOK(t)'
  <2>1. t < next_lifetime'
    BY <1>2 DEF Tokens
  <2>2. o # Kernel => o \in ProcessSlots
    BY DEF Actors
  <2>3. Held(t, L)'
    BY <1>1, <1>2, <2>1, <2>2, Zenon DEF Held
  <2> QED
    BY <1>4, <1>5, <1>6, <2>3, Zenon DEF RecordOK
<1>8. Touches(t, L)
  <2>1. \A u \in Tokens : Members(u)' = Members(u)
    BY <1>2, MembersKept
  <2>2. next_lifetime <= next_lifetime' /\ next_lifetime' \in 1 .. MaxToken + 1
    BY <1>1, <1>2, Numbers DEF Tokens
  <2>3. \A j \in ProcessSlots : scope[j] # t
    BY <1>3, ScopeFacts, Numbers
  <2>4. \A j \in ProcessSlots : scope'[j] = t => L.live /\ L.owner = j
    BY <2>3, Zenon
  <2>5. \A j \in ProcessSlots : scope'[j] = scope[j] \/ {scope[j], scope'[j]} \subseteq {0, t}
    BY <1>1, Numbers
  <2> QED
    BY <1>2, <2>1, <2>2, <2>4, <2>5, Zenon DEF Touches, LifeInv, LifeTypes
<1>9. Shrinks(t)
  BY <1>3, Zenon DEF Shrinks
<1> QED
  BY <1>7, <1>8, <1>9, TouchOK, Zenon

\* The owner i of a scope leaves it: exec, exit and release.
LEMMA DetachLife ==
    ASSUME LifeInv, NEW i \in ProcessSlots, life' = Detached(i), scope' = [scope EXCEPT ![i] = 0],
           UNCHANGED <<lifetime, next_lifetime>>, phase' \in [ProcessSlots -> Phases],
           \A j \in ProcessSlots : phase'[j] # "free" <=> phase[j] # "free",
           \A j \in ProcessSlots : j # i /\ phase[j] = "running" => phase'[j] = "running"
    PROVE  LifeNext
<1>1. CASE scope[i] = 0
  <2>1. life' = life /\ scope' = scope
    BY <1>1 DEF Detached, Live, LifeInv, LifeTypes
  <2> QED
    BY <1>1, <2>1, LifeKept
<1>2. CASE scope[i] # 0
  <2>1. PICK t \in Tokens : t = scope[i]
    BY <1>2, Numbers DEF LifeInv, LifeTypes
  <2>2. /\ life[t].live /\ life[t].user /\ life[t].owner = i /\ t # 0
        /\ \A j \in ProcessSlots : scope[j] = t => j = i
    BY <1>2, <2>1, ScopeFacts, Numbers
  <2>3. PICK L : L = Abandoned(life[t])
    OBVIOUS
  <2>4. life' = [life EXCEPT ![t] = L]
    BY <2>1, <2>2, <2>3, Zenon DEF Detached, Abandoned, Live
  <2>5. Cardinality(Members(t)) \in Nat /\ RecordOK(t)
    BY CountFacts
  <2>6. /\ Sound(L, Cardinality(Members(t))) /\ L.owner = Kernel
        /\ L.members <= life[t].members /\ (L.live => L.revoked)
    BY <2>2, <2>3, <2>5, DetachSound, Zenon DEF RecordOK
  <2>7. life'[t] = L /\ Members(t)' = Members(t)
    BY <2>4, MembersKept DEF LifeInv, LifeTypes
  <2>8. RecordOK(t)'
    <3>1. t < next_lifetime'
      BY <2>2, <2>5, Zenon DEF RecordOK, Held
    <3> QED
      BY <2>6, <2>7, <3>1, Zenon DEF RecordOK, Held
  <2>9. Shrinks(t)
    BY <2>6, <2>7, Zenon DEF Shrinks
  <2>10. Touches(t, L)
    <3>1. \A u \in Tokens : Members(u)' = Members(u)
      BY MembersKept
    <3>2. next_lifetime <= next_lifetime' /\ L \in Lives
      BY <2>6 DEF LifeInv, LifeTypes, Sound
    <3>3. /\ scope' \in [ProcessSlots -> 0 .. MaxToken]
          /\ \A j \in ProcessSlots : scope'[j] = IF j = i THEN 0 ELSE scope[j]
      BY Numbers DEF LifeInv, LifeTypes
    <3>4. \A j \in ProcessSlots : scope'[j] # t /\ (scope[j] # t => j # i)
      BY <2>1, <2>2, <3>3
    <3>5. next_lifetime' \in 1 .. MaxToken + 1 /\ lifetime' \in [ProcessSlots -> 0 .. MaxToken]
      BY DEF LifeInv, LifeTypes
    <3>6. \A j \in ProcessSlots :
             scope[j] \notin {0, t} /\ phase[j] = "running" => phase'[j] = "running"
      BY <3>4
    <3>7. \A j \in ProcessSlots :
             scope'[j] = scope[j] \/ {scope[j], scope'[j]} \subseteq {0, t}
      BY <2>1, <3>3
    <3>8. \A j \in ProcessSlots : scope'[j] = t => L.live /\ L.owner = j
      BY <3>4
    <3> QED
      BY <2>4, <3>1, <3>2, <3>3, <3>5, <3>6, <3>7, <3>8, Zenon DEF Touches
  <2> QED
    BY <2>8, <2>9, <2>10, TouchOK, Zenon
<1> QED
  BY <1>1, <1>2

\* Slot i, whose process does not run, changes hands; scopes do not.
Moves(i) ==
    /\ phase' \in [ProcessSlots -> Phases] /\ lifetime' \in [ProcessSlots -> 0 .. MaxToken]
    /\ scope' = scope /\ next_lifetime' = next_lifetime /\ phase[i] # "running"
    /\ \A j \in ProcessSlots : j # i => phase'[j] = phase[j] /\ lifetime'[j] = lifetime[j]

\* It belongs to no lifetime before or after.
LEMMA StrayLife ==
    ASSUME LifeInv, NEW i \in ProcessSlots, Moves(i), life' = life,
           \A u \in Tokens : Members(u)' = Members(u)
    PROVE  LifeNext
<1>1. LifeTypes' /\ next_lifetime' \in Int /\ next_lifetime <= next_lifetime'
  BY DEF Moves, LifeInv, LifeTypes
<1>2. \A j \in ProcessSlots : phase[j] = "running" => phase'[j] = "running"
  BY DEF Moves
<1>3. \A u \in Tokens : Spares(u)
  BY <1>1, <1>2, Zenon DEF Spares, Moves
<1>4. ScopesOK'
  BY Zenon DEF Moves, LifeInv, ScopesOK, Live
<1> QED
  BY <1>1, <1>3, <1>4, SpareOK, Zenon DEF LifeNext, LifeInv

\* It enters or leaves lifetime t, whose record becomes L.
LEMMA MemberLife ==
    ASSUME LifeInv, NEW i \in ProcessSlots, Moves(i), NEW t \in Tokens, NEW L,
           life' = [life EXCEPT ![t] = L], Sound(L, Cardinality(Members(t)')),
           \A u \in Tokens : u # t => Members(u)' = Members(u),
           \/ L = NoLife /\ life[t].owner = Kernel
           \/ L.user = life[t].user /\ L.owner = life[t].owner /\ L.live = life[t].live,
           life[t].revoked => (L.live => L.revoked) /\ L.members <= life[t].members
    PROVE  LifeNext
<1>1. life'[t] = L /\ RecordOK(t)
  BY DEF LifeInv, LifeTypes
<1>2. \A j \in ProcessSlots : phase[j] = "running" => phase'[j] = "running"
  BY DEF Moves
<1>3. L.user /\ L.owner # Kernel => L.owner \in ProcessSlots
  BY DEF Sound, Lives, Actors
<1>4. Held(t, L)'
  <2>1. CASE L = NoLife
    BY <2>1, NoLifeOK, Zenon DEF Held
  <2>2. CASE L.user = life[t].user /\ L.owner = life[t].owner /\ L.live = life[t].live
    <3>1. scope' = scope /\ next_lifetime' = next_lifetime /\ Held(t, life[t])
      BY <1>1 DEF RecordOK, Moves
    <3>2. L.live => t < next_lifetime'
      BY <2>2, <3>1, Zenon DEF Held
    <3>3. ASSUME L.user, L.owner # Kernel
          PROVE  scope'[L.owner] = t /\ phase'[L.owner] = "running"
      <4>1. L.owner \in ProcessSlots /\ scope[L.owner] = t /\ phase[L.owner] = "running"
        BY <1>3, <2>2, <3>1, <3>3, Zenon DEF Held
      <4> QED
        BY <1>2, <3>1, <4>1, Zenon
    <3> QED
      BY <3>2, <3>3, Zenon DEF Held
  <2> QED
    BY <2>1, <2>2
<1>5. RecordOK(t)'
  BY <1>1, <1>4, Zenon DEF RecordOK
<1>6. Shrinks(t)
  BY <1>1, Zenon DEF Shrinks
<1>7. Touches(t, L)
  <2>1. next_lifetime <= next_lifetime' /\ LifeTypes /\ L \in Lives
    BY DEF LifeInv, LifeTypes, Sound, Moves
  <2>2. ASSUME NEW j \in ProcessSlots, scope[j] = t PROVE L.live /\ L.owner = j
    <3>1. life[t].live /\ life[t].owner = j /\ j # Kernel
      BY <2>2, ScopeFacts, Numbers, Zenon
    <3> QED
      BY <3>1, Zenon
  <2> QED
    BY <1>2, <2>1, <2>2, Zenon DEF Touches, LifeTypes, Moves
<1> QED
  BY <1>5, <1>6, <1>7, TouchOK, Zenon

\* A slot is returned: release_process_done and process_try_wait_retired.
LEMMA FreedLife ==
    ASSUME LifeInv, NEW i \in ProcessSlots, Freed(i), phase[i] \notin {"free", "running"},
           UNCHANGED <<scope, next_lifetime>>,
           lifetime' \in [ProcessSlots -> 0 .. MaxToken],
           \A j \in ProcessSlots : j # i => lifetime'[j] = lifetime[j]
    PROVE  LifeNext
<1>1. /\ phase' \in [ProcessSlots -> Phases] /\ phase'[i] = "free"
      /\ \A j \in ProcessSlots : j # i => phase'[j] = phase[j]
  BY DEF Freed, LifeInv, LifeTypes, Phases
<1>2. Moves(i)
  BY <1>1 DEF Moves
<1>3. \A u : Members(u)' = Members(u) \ {i}
  BY <1>1 DEF Members
<1>4. CASE lifetime[i] = 0
  <2>1. life' = life
    BY <1>4 DEF Freed, Live
  <2>2. \A u \in Tokens : i \notin Members(u)
    BY <1>4, Numbers DEF Members
  <2> QED
    BY <1>2, <1>3, <2>1, <2>2, StrayLife
<1>5. CASE lifetime[i] # 0
  <2>1. PICK t \in Tokens : t = lifetime[i]
    BY <1>5, Numbers DEF LifeInv, LifeTypes
  <2>2. i \in Members(t) /\ \A u \in Tokens : u # t => i \notin Members(u)
    BY <2>1 DEF Members
  <2>3. life[t].live
    BY <2>2, CountFacts
  <2>4. PICK L : L = MemberDone(life[t])
    OBVIOUS
  <2>5. life' = [life EXCEPT ![t] = L]
    BY <1>5, <2>1, <2>3, <2>4 DEF Freed, Live
  <2>6. PICK n \in Nat : Cardinality(Members(t)) = n + 1 /\ Cardinality(Members(t)') = n
    <3>1. Cardinality(Members(t) \ {i}) = Cardinality(Members(t)) - 1
      BY <2>2, MembersSlots, CountRemove
    <3>2. Cardinality(Members(t)) \in Nat /\ Cardinality(Members(t)) >= 1
      BY <2>2, MembersSlots, CountRemove, CountFacts, Zenon
    <3> QED
      BY <1>3, <3>1, <3>2
  <2>7. Sound(life[t], n + 1) /\ life[t] \in Lives
    BY <2>6, CountFacts DEF RecordOK
  <2>8. /\ Sound(L, Cardinality(Members(t)')) /\ L \in {NoLife, [life[t] EXCEPT !.members = @ - 1]}
        /\ L = NoLife => life[t].owner = Kernel
    BY <2>4, <2>6, <2>7, DoneSound
  <2>9. CASE L = NoLife
    <3>1. ~L.live /\ L.members <= life[t].members
      BY <2>7, <2>9, NoLifeOK DEF Lives
    <3> QED
      BY <1>2, <1>3, <2>2, <2>5, <2>8, <2>9, <3>1, MemberLife, Zenon
  <2>10. CASE L = [life[t] EXCEPT !.members = @ - 1]
    <3>1. /\ L.user = life[t].user /\ L.owner = life[t].owner /\ L.live = life[t].live
          /\ L.revoked = life[t].revoked /\ L.members <= life[t].members
      BY <2>7, <2>10 DEF Lives
    <3> QED
      BY <1>2, <1>3, <2>2, <2>5, <2>8, <3>1, MemberLife, Zenon
  <2> QED
    BY <2>8, <2>9, <2>10
<1> QED
  BY <1>4, <1>5

\* A slot is taken: the new process uses the reservation of its lifetime, joins
\* it, or belongs to none.
LEMMA AllocLife ==
    ASSUME LifeInv, NEW a \in Actors, NEW det \in BOOLEAN, NEW root \in 0 .. MaxToken,
           NEW fork \in BOOLEAN, alloc_process_lifetime(a, det, root, fork)
    PROVE  LifeNext
<1>1. PICK token \in 0 .. MaxToken :
            token = IF root # 0 THEN root ELSE IF a = Kernel THEN 0 ELSE lifetime[a]
  BY Numbers DEF Actors, LifeInv, LifeTypes
<1>2. /\ Admits(token, root # 0) /\ next_lifetime' = next_lifetime
      /\ life' = IF token = 0 THEN life
                 ELSE [life EXCEPT ![token] = Joined(life[token], root)]
  BY <1>1, Zenon DEF alloc_process_lifetime
<1>3. PICK i \in ProcessSlots :
            /\ phase[i] = "free" /\ phase' = [phase EXCEPT ![i] = "clearing"]
            /\ lifetime' = [lifetime EXCEPT ![i] = token] /\ scope' = [scope EXCEPT ![i] = 0]
  BY <1>1, Zenon DEF alloc_process_lifetime, FreeSlots
<1>4. /\ phase' \in [ProcessSlots -> Phases] /\ lifetime' \in [ProcessSlots -> 0 .. MaxToken]
      /\ phase'[i] = "clearing" /\ lifetime'[i] = token
      /\ \A j \in ProcessSlots : j # i => phase'[j] = phase[j] /\ lifetime'[j] = lifetime[j]
  BY <1>3 DEF LifeInv, LifeTypes, Phases
<1>5. scope' = scope
  <2>1. scope[i] = 0
    BY <1>3, ScopeFacts
  <2> QED
    BY <1>3, <2>1 DEF LifeInv, LifeTypes
<1>6. Moves(i)
  BY <1>2, <1>3, <1>4, <1>5 DEF Moves
<1>7. \A u : Members(u)' = IF u = token THEN Members(u) \cup {i} ELSE Members(u)
  BY <1>3, <1>4 DEF Members
<1>8. CASE token = 0
  <2>1. \A u \in Tokens : Members(u)' = Members(u)
    BY <1>7, <1>8, Numbers
  <2> QED
    BY <1>2, <1>6, <1>8, <2>1, StrayLife
<1>9. CASE token # 0
  <2>1. PICK t \in Tokens : t = token
    BY <1>9, Numbers
  <2>2. PICK n \in Nat : Cardinality(Members(t)) = n /\ Cardinality(Members(t)') = n + 1
    <3>1. i \notin Members(t)
      BY <1>3 DEF Members
    <3>2. Cardinality(Members(t)) \in Nat /\ Cardinality(Members(t) \cup {i}) = Cardinality(Members(t)) + 1
      BY <3>1, MembersSlots, CountAdd, CountFacts
    <3> QED
      BY <1>7, <2>1, <3>2
  <2>3. /\ life[t].live /\ (life[t].revoked => root # 0 /\ life[t].reservation)
        /\ Sound(life[t], n) /\ life[t] \in Lives
    BY <1>2, <1>9, <2>1, <2>2, CountFacts, Zenon DEF Admits, Live, RecordOK
  <2>4. CASE root # 0 /\ life[t].reservation
    <3>1. PICK L : L = [life[t] EXCEPT !.reservation = FALSE, !.root_reserved = TRUE]
      BY Zenon
    <3>2. life' = [life EXCEPT ![t] = L]
      BY <1>2, <1>9, <2>1, <2>4, <3>1, Zenon DEF Joined
    <3>3. Sound(L, Cardinality(Members(t)'))
      BY <2>2, <2>3, <2>4, <3>1, TakeSound, Zenon
    <3>4. L.user = life[t].user /\ L.owner = life[t].owner /\ L.live = life[t].live
      BY <2>3, <3>1, Zenon DEF Lives
    <3>5. L.revoked = life[t].revoked
      BY <2>3, <3>1 DEF Lives
    <3>6. L.members <= life[t].members
      BY <2>3, <3>1 DEF Lives
    <3> QED
      BY <1>6, <1>7, <2>1, <3>2, <3>3, <3>4, <3>5, <3>6, MemberLife, Zenon
  <2>5. CASE ~(root # 0 /\ life[t].reservation)
    <3>1. PICK L : L = Joined(life[t], root)
      OBVIOUS
    <3>2. life' = [life EXCEPT ![t] = L]
      BY <1>2, <1>9, <2>1, <3>1, Zenon
    <3>3. Sound(L, Cardinality(Members(t)'))
      BY <2>2, <2>3, <2>5, <3>1, JoinSound, Zenon
    <3>4. L.user = life[t].user /\ L.owner = life[t].owner /\ L.live = life[t].live
      BY <2>3, <2>5, <3>1, Zenon DEF Lives, Joined
    <3>5. ~life[t].revoked
      BY <2>3, <2>5, Zenon
    <3> QED
      BY <1>6, <1>7, <2>1, <3>2, <3>3, <3>4, <3>5, MemberLife, Zenon
  <2> QED
    BY <2>4, <2>5
<1> QED
  BY <1>8, <1>9

-----------------------------------------------------------------------------
(* The table: pids, parents and claims.                                    *)

\* The records stay as they are.
Idle == UNCHANGED <<phase, pid, parent, detached, claims, cancel, next_pid>>

LEMMA IdleOK ==
    ASSUME Slots, Idle
    PROVE  Slots'
<1>1. /\ phase' = phase /\ pid' = pid /\ parent' = parent /\ detached' = detached
      /\ claims' = claims /\ cancel' = cancel /\ next_pid' = next_pid
  BY DEF Idle
<1>2. Reapers' /\ Pids'
  BY <1>1, Zenon DEF Slots, Reapers, Pids
<1>3. Parents'
  BY <1>1, Zenon DEF Slots, Parents
<1>4. Callers' /\ Cancels'
  BY <1>1, Zenon DEF Slots, Callers, Bound, Cancels
<1> QED
  BY <1>2, <1>3, <1>4, Zenon DEF Slots

\* Slot i goes on to phase x, or is returned.
Turns(i, x) ==
    /\ phase' = [phase EXCEPT ![i] = x] /\ x \in Phases /\ phase[i] # "free"
    /\ x # "clearing" /\ (x \in Unborn => phase[i] \in Unborn)
    /\ phase[i] \in {"claimed", "releasing"} => x \in {"claimed", "releasing", "free"}
    /\ phase[i] = "running" =>
          \A j \in ProcessSlots : Bound(j) /\ parent[j] = pid[i] => cancel'[j] = "done"
    /\ cancel' \in [ProcessSlots -> {"no", "may", "done"}]
    /\ \A j \in ProcessSlots :
          j # i => cancel'[j] = cancel[j] \/ (cancel[j] = "may" /\ cancel'[j] = "done")
    /\ cancel[i] = "done" /\ x # "free" => cancel'[i] = "done"
    /\ cancel'[i] # "no" => x \in Unborn \cup {"claimed", "releasing"}
    /\ next_pid' = next_pid
    /\ \A j \in ProcessSlots : j # i \/ x # "free" =>
          pid'[j] = pid[j] /\ parent'[j] = parent[j] /\ detached'[j] = detached[j]

LEMMA TurnOK ==
    ASSUME TableTypes, Pids, Parents, Callers, Cancels, NEW i \in ProcessSlots, NEW x, Turns(i, x)
    PROVE  Pids' /\ Parents' /\ Callers' /\ Cancels' /\ phase' \in [ProcessSlots -> Phases]
<1>1. /\ phase' \in [ProcessSlots -> Phases] /\ phase'[i] = x
      /\ \A j \in ProcessSlots : j # i => phase'[j] = phase[j]
  BY DEF Turns, TableTypes
<1>2. \A j \in ProcessSlots : phase'[j] # "free" =>
         phase[j] # "free" /\ pid'[j] = pid[j] /\ parent'[j] = parent[j] /\ detached'[j] = detached[j]
  BY <1>1 DEF Turns
<1>3. Pids'
  <2>1. next_pid' = next_pid
    BY DEF Turns
  <2> QED
    BY <1>2, <2>1 DEF Pids
<1>4. \A j \in ProcessSlots : phase'[j] \in Unborn => phase[j] \in Unborn /\ phase'[j] # "free"
  BY <1>1 DEF Turns, Unborn
<1>5. Parents'
  BY <1>2, <1>4, Zenon DEF Parents
<1>6. ASSUME NEW k \in ProcessSlots, Bound(k)', cancel'[k] # "done", parent'[k] # 0
      PROVE  \E j \in ProcessSlots : phase'[j] = "running" /\ pid'[j] = parent'[k]
  <2>0. phase'[k] # "free" /\ (k = i => phase'[k] = x /\ x # "free")
    BY <1>1, <1>6 DEF Bound, Unborn
  <2>1. Bound(k) /\ cancel[k] # "done" /\ parent'[k] = parent[k]
    <3>1. parent'[k] = parent[k] /\ detached'[k] = detached[k] /\ cancel[k] # "done"
      BY <1>2, <1>6, <2>0, Zenon DEF Turns
    <3>2. CASE phase'[k] \in Unborn
      BY <1>4, <3>1, <3>2, Zenon DEF Bound
    <3>3. CASE phase'[k] \notin Unborn
      <4>1. phase'[k] \notin {"free", "claimed", "releasing"} /\ ~detached[k]
        BY <1>6, <3>1, <3>3 DEF Bound
      <4>2. phase[k] \notin {"free", "claimed", "releasing"}
        BY <1>1, <4>1 DEF Turns
      <4> QED
        BY <3>1, <4>1, <4>2 DEF Bound
    <3> QED
      BY <3>2, <3>3
  <2>2. PICK j \in ProcessSlots : phase[j] = "running" /\ pid[j] = parent[k]
    BY <1>6, <2>1, Zenon DEF Callers
  <2>3. j # i
    BY <1>6, <2>1, <2>2, Zenon DEF Turns
  <2> QED
    BY <1>1, <2>1, <2>2, <2>3, Zenon DEF Turns
<1>7. Cancels'
  <2> SUFFICES ASSUME NEW j \in ProcessSlots, cancel'[j] # "no"
               PROVE  phase'[j] \in Unborn \cup {"claimed", "releasing"}
    BY DEF Cancels
  <2>1. CASE j = i
    BY <1>1, <2>1 DEF Turns
  <2>2. CASE j # i
    BY <1>1, <2>2 DEF Turns, Cancels
  <2> QED
    BY <2>1, <2>2
<1> QED
  BY <1>1, <1>3, <1>5, <1>6, <1>7, Zenon DEF Callers

\* The record is nobody's, before and after.
LEMMA LooseOK ==
    ASSUME Reapers, TableTypes, NEW i \in ProcessSlots, NEW x, phase' = [phase EXCEPT ![i] = x],
           claims' = claims, phase[i] \notin {"claimed", "releasing"},
           x \notin {"claimed", "releasing"},
           \A j \in ProcessSlots : j # i => cancel'[j] = cancel[j]
    PROVE  Reapers'
<1>1. /\ phase'[i] = x
      /\ \A j \in ProcessSlots : j # i => phase'[j] = phase[j]
  BY DEF TableTypes
<1> QED
  BY <1>1, Zenon DEF Reapers

\* The record gets its holder.
LEMMA ClaimedOK ==
    ASSUME Reapers, TableTypes, NEW i \in ProcessSlots, NEW a \in Actors,
           phase' = [phase EXCEPT ![i] = "claimed"], claims' = [claims EXCEPT ![i] = {a}],
           cancel'[i] # "done", \A j \in ProcessSlots : j # i => cancel'[j] = cancel[j]
    PROVE  Reapers' /\ claims' \in [ProcessSlots -> SUBSET Actors]
<1>1. /\ phase'[i] = "claimed" /\ claims'[i] = {a} /\ claims' \in [ProcessSlots -> SUBSET Actors]
      /\ \A j \in ProcessSlots : j # i => phase'[j] = phase[j] /\ claims'[j] = claims[j]
  BY DEF TableTypes
<1> QED
  BY <1>1, Zenon DEF Reapers

\* The creator of a child that is not running, or of a foreground child, is one
\* process, or the kernel.
LEMMA OneParent ==
    ASSUME TableTypes, Pids, Callers, NEW i \in ProcessSlots, Bound(i), cancel[i] # "done"
    PROVE  \E a \in Actors : Parent(i) = {a}
<1>1. CASE parent[i] = 0
  BY <1>1 DEF Parent, Actors
<1>2. CASE parent[i] # 0
  <2>1. PICK j \in ProcessSlots : phase[j] = "running" /\ pid[j] = parent[i]
    BY <1>2, Zenon DEF Callers
  <2>2. \A k \in ProcessSlots : Allocated(k) /\ pid[k] = parent[i] <=> k = j
    BY <2>1 DEF Pids, Allocated
  <2>3. Parent(i) = {j}
    BY <1>2, <2>2 DEF Parent
  <2> QED
    BY <2>3 DEF Actors
<1> QED
  BY <1>1, <1>2

-----------------------------------------------------------------------------
(* The table: waiting and wake-ups.                                        *)

\* What wait looks at stays as it is.
SameView ==
    /\ system_reaper_pid' = system_reaper_pid
    /\ \A j \in ProcessSlots :
          /\ (Allocated(j)' <=> Allocated(j)) /\ (Active(j)' <=> Active(j))
          /\ phase'[j] = "zombie" <=> phase[j] = "zombie"
          /\ Allocated(j) =>
                pid'[j] = pid[j] /\ parent'[j] = parent[j] /\ detached'[j] = detached[j]

LEMMA ReadyKept ==
    ASSUME SameView, NEW o, NEW p
    PROVE  WaitReady(o, p)' <=> WaitReady(o, p)
<1>1. \A j \in ProcessSlots : Active(j) => Allocated(j)
  BY DEF Active, Allocated
<1>2. \A j \in ProcessSlots : Active(j)' <=> Active(j)
  BY DEF SameView
<1>3. \A j \in ProcessSlots : Active(j) => pid'[j] = pid[j]
  BY <1>1 DEF SameView
<1>4. \A k \in ProcessSlots : Allocated(k) => (LiveParent(k)' <=> LiveParent(k))
  BY <1>2, <1>3, Zenon DEF SameView, LiveParent
<1>5. \A k \in ProcessSlots : Allocated(k) => (WaitOwned(k, o)' <=> WaitOwned(k, o))
  BY <1>4, Zenon DEF SameView, WaitOwned
<1>6. \A k \in ProcessSlots : k \in Targets(o, p)' <=> k \in Targets(o, p)
  BY <1>5, Zenon DEF SameView, Targets
<1>7. \A k \in ProcessSlots : k \in Reapable(o, p)' <=> k \in Reapable(o, p)
  BY <1>6, Zenon DEF SameView, Reapable
<1>8. /\ Targets(o, p) \subseteq ProcessSlots /\ Targets(o, p)' \subseteq ProcessSlots
      /\ Reapable(o, p) \subseteq ProcessSlots /\ Reapable(o, p)' \subseteq ProcessSlots
  BY DEF Targets, Reapable
<1> QED
  BY <1>6, <1>7, <1>8, Zenon DEF WaitReady

\* Everybody is woken.
LEMMA WokenOK ==
    ASSUME scheduler_wake_all
    PROVE  Queue' /\ asleep' \in SUBSET ProcessSlots /\ appointed' \in BOOLEAN
BY Zenon DEF scheduler_wake_all, Queue, Waiting, Alerted

\* The sleepers sleep on and a record will announce itself.
Announces ==
    /\ UNCHANGED <<asleep, appointed>> /\ Announced'
    /\ \A j \in asleep : phase'[j] = phase[j] /\ wait'[j] = wait[j]

LEMMA AnnouncedOK ==
    ASSUME Queue, TableTypes, Announces
    PROVE  Queue' /\ asleep' \in SUBSET ProcessSlots /\ appointed' \in BOOLEAN
<1>1. asleep' = asleep /\ asleep' \in SUBSET ProcessSlots /\ appointed' \in BOOLEAN
  BY DEF Announces, TableTypes
<1> QED
  BY <1>1, Zenon DEF Queue, Announces, Waiting, Alerted

\* The sleepers sleep on, and no record stops before it announces itself.
Quiet ==
    /\ UNCHANGED <<asleep, appointed, system_reaper_pid>>
    /\ \A j \in asleep : phase'[j] = phase[j] /\ wait'[j] = wait[j] /\ pid'[j] = pid[j]
    /\ Announced => Announced'

LEMMA QuietOK ==
    ASSUME Queue, TableTypes, Quiet,
           \A o, p \in 0 .. MaxPid : WaitReady(o, p)' => WaitReady(o, p)
    PROVE  Queue' /\ asleep' \in SUBSET ProcessSlots /\ appointed' \in BOOLEAN
<1>1. /\ asleep' = asleep /\ appointed' = appointed /\ system_reaper_pid' = system_reaper_pid
      /\ asleep \in SUBSET ProcessSlots /\ appointed \in BOOLEAN
  BY DEF Quiet, TableTypes
<1>2. Waiting'
  BY <1>1, Zenon DEF Queue, Quiet, Waiting
<1>3. ASSUME NEW i \in asleep, NEW o \in 0 .. MaxPid, NEW p \in 0 .. MaxPid,
             o = pid'[i], p = wait'[i], WaitReady(o, p)'
      PROVE  Announced' \/ (appointed' /\ o = system_reaper_pid')
  <2>1. o = pid[i] /\ p = wait[i] /\ WaitReady(o, p)
    BY <1>3, Zenon DEF Quiet
  <2>2. Announced \/ (appointed /\ o = system_reaper_pid)
    BY <2>1, Zenon DEF Queue, Alerted
  <2> QED
    BY <1>1, <2>2 DEF Quiet
<1>4. Alerted'
  BY <1>1, <1>3, Zenon DEF Alerted
<1> QED
  BY <1>1, <1>2, <1>4, Zenon DEF Queue

-----------------------------------------------------------------------------
(* The table, action by action.                                            *)

\* Slot i goes on to a phase whose end is announced.
LEMMA TurnAnnounced ==
    ASSUME TableInv, NEW i \in ProcessSlots \ asleep, UNCHANGED <<asleep, appointed>>,
           NEW x \in {"exiting", "exited", "claimed", "releasing"}, Announcing(i)',
           phase' = [phase EXCEPT ![i] = x], \A j \in asleep : wait'[j] = wait[j]
    PROVE  Queue' /\ asleep' \in SUBSET ProcessSlots /\ appointed' \in BOOLEAN
<1>1. asleep \in SUBSET ProcessSlots /\ phase \in [ProcessSlots -> Phases] /\ Queue /\ TableTypes
  BY DEF TableInv, TableTypes
<1>2. phase'[i] = x /\ \A j \in asleep : phase'[j] = phase[j]
  BY <1>1
<1>3. Announces
  BY <1>2 DEF Announces, Announced
<1> QED
  BY <1>1, <1>3, AnnouncedOK

\* A process that does not run does not sleep.
LEMMA OnlyRunningSleeps ==
    ASSUME TableInv, NEW i \in ProcessSlots, phase[i] # "running" \/ wait[i] = NoWait
    PROVE  i \notin asleep
BY DEF TableInv, Queue, Waiting

\* Slot i goes on to phase x; claims and sleepers are seen to.
LEMMA TurnTable ==
    ASSUME TableInv, NEW i \in ProcessSlots, NEW x, Turns(i, x), x # "free",
           UNCHANGED <<pid, parent, detached, killed, system_reaper_pid>>,
           claims' \in [ProcessSlots -> SUBSET Actors],
           wait' \in [ProcessSlots -> {NoWait} \cup (0 .. MaxPid)],
           Reapers', Queue', asleep' \in SUBSET ProcessSlots, appointed' \in BOOLEAN
    PROVE  TableInv'
<1>1. Pids' /\ Parents' /\ Callers' /\ Cancels' /\ phase' \in [ProcessSlots -> Phases]
  BY TurnOK, Zenon DEF TableInv, Slots
<1>2. next_pid' = next_pid /\ cancel' \in [ProcessSlots -> {"no", "may", "done"}]
  BY DEF Turns
<1>3. TableTypes'
  BY <1>1, <1>2 DEF TableInv, TableTypes
<1> QED
  BY <1>1, <1>3, Zenon DEF TableInv, Slots

LEMMA PublishTable ==
    ASSUME TableInv, NEW i \in ProcessSlots, alloc_process_publish(i)
    PROVE  TableInv'
<1>1. /\ phase[i] = "clearing" /\ phase' = [phase EXCEPT ![i] = "loading"]
      /\ UNCHANGED <<pid, parent, detached, next_pid, system_reaper_pid, killed, claims, cancel,
                     wait, asleep, appointed>>
  BY DEF alloc_process_publish, ids, sleepers, held
<1>2. TableTypes /\ Slots /\ Queue
  BY DEF TableInv
<1>3. Turns(i, "loading")
  BY <1>1, <1>2 DEF Turns, Unborn, Phases, TableTypes
<1>4. Reapers'
  BY <1>1, <1>2, LooseOK, Zenon DEF Slots
<1>5. /\ phase'[i] = "loading" /\ asleep \in SUBSET ProcessSlots
      /\ \A j \in ProcessSlots : j # i => phase'[j] = phase[j]
  BY <1>1, <1>2 DEF TableTypes
<1>6. ASSUME NEW o \in 0 .. MaxPid, NEW p \in 0 .. MaxPid, WaitReady(o, p)'
      PROVE  WaitReady(o, p)
  <2>1. \A k \in ProcessSlots : Allocated(k) =>
           Allocated(k)' /\ phase'[k] = phase[k] /\ parent[k] # pid[i]
    BY <1>1, <1>2, <1>5 DEF Allocated, Slots, Parents, Unborn
  <2>2. \A k \in ProcessSlots : k # i => (Active(k)' <=> Active(k))
    BY <1>5 DEF Active
  <2>3. ~Active(i) /\ ~Allocated(i)
    BY <1>1 DEF Active, Allocated
  <2>4. \A k \in ProcessSlots : Allocated(k) => (LiveParent(k)' <=> LiveParent(k))
    BY <1>1, <2>1, <2>2, <2>3, Zenon DEF LiveParent
  <2>5. \A k \in ProcessSlots : Allocated(k) => (WaitOwned(k, o)' <=> WaitOwned(k, o))
    BY <1>1, <2>4 DEF WaitOwned
  <2>6. \A k \in ProcessSlots : Allocated(k) => (k \in Targets(o, p)' <=> k \in Targets(o, p))
    BY <1>1, <2>1, <2>5 DEF Targets
  <2>7. Targets(o, p) \subseteq Targets(o, p)'
    BY <2>6 DEF Targets
  <2>8. Reapable(o, p)' \subseteq Reapable(o, p)
    <3>1. \A k \in ProcessSlots : phase'[k] = "zombie" => phase[k] = "zombie" /\ Allocated(k)
      BY <1>5 DEF Allocated
    <3> QED
      BY <2>6, <3>1 DEF Reapable, Targets
  <2> QED
    BY <1>6, <2>7, <2>8 DEF WaitReady
<1>7. Quiet
  <2>1. \A j \in asleep : j # i
    BY <1>1, OnlyRunningSleeps
  <2>2. Announced => Announced'
    BY <1>1, <1>5 DEF Announced, Announcing
  <2> QED
    BY <1>1, <1>5, <2>1, <2>2 DEF Quiet
<1>8. Queue' /\ asleep' \in SUBSET ProcessSlots /\ appointed' \in BOOLEAN
  BY <1>2, <1>6, <1>7, QuietOK
<1>9. /\ claims' \in [ProcessSlots -> SUBSET Actors]
      /\ wait' \in [ProcessSlots -> {NoWait} \cup (0 .. MaxPid)]
  BY <1>1, <1>2 DEF TableTypes
<1> QED
  BY <1>1, <1>3, <1>4, <1>8, <1>9, TurnTable

\* The creator of i takes it: spawn_fails and foreground_done.
LEMMA ParentTable ==
    ASSUME TableInv, NEW i \in ProcessSlots, Bound(i), phase[i] # "running", cancel[i] # "done",
           phase' = [phase EXCEPT ![i] = "claimed"],
           claims' = [claims EXCEPT ![i] = Parent(i)],
           cancel' = cancel \/ cancel' = [cancel EXCEPT ![i] = "may"],
           UNCHANGED <<pid, parent, detached, next_pid, system_reaper_pid, killed, wait,
                       asleep, appointed>>
    PROVE  TableInv'
<1>1. TableTypes /\ Slots /\ Queue
  BY DEF TableInv
<1>2. PICK a \in Actors : Parent(i) = {a}
  BY <1>1, OneParent DEF Slots
<1>3. /\ cancel' \in [ProcessSlots -> {"no", "may", "done"}] /\ cancel'[i] # "done"
      /\ \A j \in ProcessSlots : j # i => cancel'[j] = cancel[j]
  BY <1>1 DEF TableTypes
<1>4. Turns(i, "claimed")
  BY <1>3 DEF Turns, Unborn, Phases, Bound
<1>5. Reapers' /\ claims' \in [ProcessSlots -> SUBSET Actors]
  BY <1>1, <1>2, <1>3, ClaimedOK, Zenon DEF Slots
<1>6. Announcing(i)'
  BY <1>1, <1>3 DEF Announcing, TableTypes
<1>7. Queue' /\ asleep' \in SUBSET ProcessSlots /\ appointed' \in BOOLEAN
  BY <1>6, OnlyRunningSleeps, TurnAnnounced, Zenon
<1>8. wait' \in [ProcessSlots -> {NoWait} \cup (0 .. MaxPid)]
  BY <1>1 DEF TableTypes
<1> QED
  BY <1>3, <1>4, <1>5, <1>7, <1>8, TurnTable

LEMMA FailTable ==
    ASSUME TableInv, NEW i \in ProcessSlots, spawn_fails(i) \/ foreground_done(i)
    PROVE  TableInv'
<1>1. /\ phase' = [phase EXCEPT ![i] = "claimed"] /\ claims' = [claims EXCEPT ![i] = Parent(i)]
      /\ cancel' = cancel \/ cancel' = [cancel EXCEPT ![i] = "may"]
      /\ UNCHANGED <<pid, parent, detached, next_pid, system_reaper_pid, killed, wait,
                     asleep, appointed>>
  BY Zenon DEF spawn_fails, foreground_done, ids, sleepers
<1>2. Bound(i) /\ phase[i] # "running" /\ cancel[i] # "done"
  BY DEF spawn_fails, foreground_done, Bound, Unborn, TableInv, Slots, Cancels
<1> QED
  BY <1>1, <1>2, ParentTable, Zenon

LEMMA EnterTable ==
    ASSUME TableInv, NEW i \in ProcessSlots, enter_process(i)
    PROVE  TableInv'
<1>1. /\ phase[i] = "loading" /\ phase' = [phase EXCEPT ![i] = "running"]
      /\ cancel[i] # "done" /\ cancel' = [cancel EXCEPT ![i] = "no"]
      /\ UNCHANGED <<pid, parent, detached, next_pid, system_reaper_pid, killed, claims, wait,
                     asleep, appointed>>
  BY DEF enter_process, ids, sleepers
<1>2. TableTypes /\ Slots /\ Queue
  BY DEF TableInv
<1>3. /\ Turns(i, "running")
      /\ \A j \in ProcessSlots : j # i => cancel'[j] = cancel[j]
  BY <1>1, <1>2 DEF Turns, Unborn, Phases, TableTypes
<1>4. Reapers'
  BY <1>1, <1>2, <1>3, LooseOK, Zenon DEF Slots
<1>5. /\ phase'[i] = "running" /\ asleep \in SUBSET ProcessSlots
      /\ \A j \in ProcessSlots : j # i => phase'[j] = phase[j]
  BY <1>1, <1>2 DEF TableTypes
<1>6. SameView
  BY <1>1, <1>5 DEF SameView, Allocated, Active
<1>7. \A o, p \in 0 .. MaxPid : WaitReady(o, p)' => WaitReady(o, p)
  BY <1>6, ReadyKept
<1>8. Quiet
  <2>1. \A j \in asleep : j # i
    BY <1>1, OnlyRunningSleeps
  <2>2. Announced => Announced'
    BY <1>1, <1>3, <1>5 DEF Announced, Announcing
  <2> QED
    BY <1>1, <1>5, <2>1, <2>2 DEF Quiet
<1>9. Queue' /\ asleep' \in SUBSET ProcessSlots /\ appointed' \in BOOLEAN
  BY <1>2, <1>7, <1>8, QuietOK
<1>10. /\ claims' \in [ProcessSlots -> SUBSET Actors]
       /\ wait' \in [ProcessSlots -> {NoWait} \cup (0 .. MaxPid)]
  BY <1>1, <1>2 DEF TableTypes
<1> QED
  BY <1>1, <1>3, <1>4, <1>9, <1>10, TurnTable

LEMMA ExitTable ==
    ASSUME TableInv, NEW i \in ProcessSlots, process_exit(i)
    PROVE  TableInv'
<1>1. /\ phase[i] = "running" /\ i \notin asleep
      /\ phase' = [phase EXCEPT ![i] = "exiting"] /\ wait' = [wait EXCEPT ![i] = NoWait]
      /\ cancel' = [j \in ProcessSlots |-> IF j \in Involved(i) THEN "done" ELSE cancel[j]]
      /\ claims' = [j \in ProcessSlots |-> claims[j] \ {i}]
      /\ \A j \in Involved(i) : cancel[j] = "may"
      /\ UNCHANGED <<pid, parent, detached, next_pid, system_reaper_pid, killed, asleep, appointed>>
  BY DEF process_exit, Dropped, ids, sleepers
<1>2. TableTypes /\ Slots /\ Queue
  BY DEF TableInv
<1>3. /\ cancel' \in [ProcessSlots -> {"no", "may", "done"}]
      /\ \A j \in ProcessSlots : cancel'[j] = IF j \in Involved(i) THEN "done" ELSE cancel[j]
  BY <1>1, <1>2 DEF TableTypes
<1>4. i \notin Involved(i) /\ cancel[i] = "no"
  <2>1. cancel[i] = "no"
    BY <1>1, <1>2 DEF Slots, Cancels, Unborn
  <2> QED
    BY <1>1, <2>1
<1>5. Turns(i, "exiting")
  <2>1. \A j \in ProcessSlots : Bound(j) /\ parent[j] = pid[i] => j \in Involved(i)
    BY DEF Bound, Unborn, Involved
  <2> QED
    BY <1>1, <1>3, <1>4, <2>1 DEF Turns, Unborn, Phases
<1>6. /\ phase'[i] = "exiting"
      /\ \A j \in ProcessSlots : j # i => phase'[j] = phase[j]
  BY <1>1, <1>2 DEF TableTypes
<1>7. Reapers'
  <2> SUFFICES ASSUME NEW k \in ProcessSlots
               PROVE  IF phase'[k] \in {"claimed", "releasing"} /\ cancel'[k] # "done"
                      THEN \E a \in Actors : claims'[k] = {a} ELSE claims'[k] = {}
    BY DEF Reapers
  <2>1. claims'[k] = claims[k] \ {i}
    BY <1>1
  <2>2. CASE claims[k] = {}
    <3>1. ~(phase[k] \in {"claimed", "releasing"} /\ cancel[k] # "done")
      BY <1>2, <2>2 DEF Slots, Reapers
    <3>2. ~(phase'[k] \in {"claimed", "releasing"} /\ cancel'[k] # "done")
      BY <1>3, <1>6, <3>1
    <3> QED
      BY <2>1, <2>2, <3>2
  <2>3. CASE claims[k] # {}
    <3>1. /\ phase[k] \in {"claimed", "releasing"} /\ cancel[k] # "done"
          /\ \E a \in Actors : claims[k] = {a}
      BY <1>2, <2>3, Zenon DEF Slots, Reapers
    <3>2. PICK a \in Actors : claims[k] = {a}
      BY <3>1
    <3>3. phase'[k] = phase[k]
      BY <1>1, <1>6, <3>1
    <3>4. CASE a = i
      BY <1>3, <2>1, <3>2, <3>4 DEF Involved
    <3>5. CASE a # i
      <4>1. claims'[k] = {a}
        BY <2>1, <3>2, <3>5
      <4>2. k \notin Involved(i)
        <5>1. i \notin claims[k] /\ phase[k] \in {"claimed", "releasing"}
          BY <3>1, <3>2, <3>5
        <5> QED
          BY <5>1 DEF Involved
      <4> QED
        BY <1>3, <3>1, <3>3, <4>1, <4>2
    <3> QED
      BY <3>4, <3>5
  <2> QED
    BY <2>2, <2>3
<1>8. /\ claims' \in [ProcessSlots -> SUBSET Actors] /\ asleep \in SUBSET ProcessSlots
      /\ wait' \in [ProcessSlots -> {NoWait} \cup (0 .. MaxPid)]
  BY <1>1, <1>2 DEF TableTypes
<1>9. \A j \in asleep : wait'[j] = wait[j]
  BY <1>1, <1>2 DEF TableTypes
<1>10. Announcing(i)'
  BY <1>6 DEF Announcing
<1>11. Queue' /\ asleep' \in SUBSET ProcessSlots /\ appointed' \in BOOLEAN
  BY <1>1, <1>9, <1>10, TurnAnnounced, Zenon
<1> QED
  BY <1>1, <1>5, <1>7, <1>8, <1>11, TurnTable

LEMMA InactiveTable ==
    ASSUME TableInv, NEW i \in ProcessSlots, process_exit_inactive(i)
    PROVE  TableInv'
<1>1. /\ phase[i] = "exiting" /\ phase' = [phase EXCEPT ![i] = "exited"]
      /\ UNCHANGED <<pid, parent, detached, next_pid, system_reaper_pid, killed, claims, cancel,
                     wait, asleep, appointed>>
  BY DEF process_exit_inactive, ids, sleepers, held
<1>2. TableTypes /\ Slots /\ Queue
  BY DEF TableInv
<1>3. Turns(i, "exited")
  BY <1>1, <1>2 DEF Turns, Unborn, Phases, TableTypes, Slots, Cancels
<1>4. Reapers'
  BY <1>1, <1>2, LooseOK, Zenon DEF Slots
<1>5. /\ claims' \in [ProcessSlots -> SUBSET Actors]
      /\ wait' \in [ProcessSlots -> {NoWait} \cup (0 .. MaxPid)]
  BY <1>1, <1>2 DEF TableTypes
<1>6. Queue' /\ asleep' \in SUBSET ProcessSlots /\ appointed' \in BOOLEAN
  <2>1. Announcing(i)'
    BY <1>1, <1>2 DEF Announcing, TableTypes
  <2> QED
    BY <1>1, <2>1, OnlyRunningSleeps, TurnAnnounced, Zenon
<1> QED
  BY <1>1, <1>3, <1>4, <1>5, <1>6, TurnTable

LEMMA BackgroundTable ==
    ASSUME TableInv, NEW i \in ProcessSlots, background_process_thread(i)
    PROVE  TableInv'
<1>1. /\ phase[i] = "exited" /\ phase' = [phase EXCEPT ![i] = "zombie"] /\ scheduler_wake_all
      /\ UNCHANGED <<pid, parent, detached, next_pid, system_reaper_pid, killed, claims, cancel,
                     wait>>
  BY DEF background_process_thread, ids, held
<1>2. TableTypes /\ Slots
  BY DEF TableInv
<1>3. Turns(i, "zombie")
  BY <1>1, <1>2 DEF Turns, Unborn, Phases, TableTypes, Slots, Cancels
<1>4. Reapers'
  BY <1>1, <1>2, LooseOK, Zenon DEF Slots
<1>5. /\ claims' \in [ProcessSlots -> SUBSET Actors]
      /\ wait' \in [ProcessSlots -> {NoWait} \cup (0 .. MaxPid)]
  BY <1>1, <1>2 DEF TableTypes
<1>6. Queue' /\ asleep' \in SUBSET ProcessSlots /\ appointed' \in BOOLEAN
  BY <1>1, WokenOK
<1> QED
  BY <1>1, <1>3, <1>4, <1>5, <1>6, TurnTable

\* A waiter, a scope owner or a drain pass claims a zombie.
LEMMA ClaimTable ==
    ASSUME TableInv, NEW i \in ProcessSlots, NEW a \in Actors, NEW c \in {"no", "may"},
           phase[i] = "zombie", Claim(a, i, c),
           UNCHANGED <<asleep, appointed>>, \A j \in asleep : wait'[j] = wait[j],
           wait' \in [ProcessSlots -> {NoWait} \cup (0 .. MaxPid)]
    PROVE  TableInv'
<1>1. TableTypes /\ Slots /\ claims[i] = {}
  BY Zenon DEF TableInv, Slots, Reapers
<1>2. /\ phase' = [phase EXCEPT ![i] = "claimed"] /\ claims' = [claims EXCEPT ![i] = {a}]
      /\ UNCHANGED <<pid, parent, detached, next_pid, system_reaper_pid, killed>>
  BY <1>1 DEF Claim, ids
<1>0. /\ cancel' = [cancel EXCEPT ![i] = c] /\ cancel'[i] # "done" /\ cancel[i] = "no"
      /\ \A j \in ProcessSlots : j # i => cancel'[j] = cancel[j]
      /\ cancel' \in [ProcessSlots -> {"no", "may", "done"}]
  BY <1>1 DEF Claim, TableTypes, Slots, Cancels, Unborn
<1>3. Turns(i, "claimed")
  BY <1>0, <1>2 DEF Turns, Unborn, Phases
<1>4. Reapers' /\ claims' \in [ProcessSlots -> SUBSET Actors]
  BY <1>0, <1>1, <1>2, ClaimedOK, Zenon DEF Slots
<1>5. Queue' /\ asleep' \in SUBSET ProcessSlots /\ appointed' \in BOOLEAN
  <2>1. Announcing(i)'
    BY <1>0, <1>1, <1>2 DEF Announcing, TableTypes
  <2> QED
    BY <1>2, <2>1, OnlyRunningSleeps, TurnAnnounced, Zenon
<1> QED
  BY <1>2, <1>3, <1>4, <1>5, TurnTable, Zenon

LEMMA ReleaseTable ==
    ASSUME TableInv, NEW i \in ProcessSlots, NEW a \in Actors, release_process(a, i)
    PROVE  TableInv'
<1>1. /\ a \in claims[i] /\ phase[i] \in {"claimed", "zombie"}
      /\ phase' = [phase EXCEPT ![i] = "releasing"]
      /\ UNCHANGED <<pid, parent, detached, next_pid, system_reaper_pid, killed, claims, cancel,
                     wait, asleep, appointed>>
  BY DEF release_process, ids, sleepers, held
<1>2. TableTypes /\ Slots
  BY DEF TableInv
<1>3. Turns(i, "releasing") /\ phase[i] = "claimed" /\ cancel[i] # "done"
  <2>1. phase[i] = "claimed" /\ cancel[i] # "done"
    BY <1>1, <1>2, Zenon DEF Slots, Reapers
  <2> QED
    BY <1>1, <1>2, <2>1 DEF Turns, Unborn, Phases, TableTypes
<1>4. Reapers'
  <2>1. phase'[i] = "releasing" /\ \A j \in ProcessSlots : j # i => phase'[j] = phase[j]
    BY <1>1, <1>2 DEF TableTypes
  <2> QED
    BY <1>1, <1>2, <1>3, <2>1 DEF Slots, Reapers
<1>5. /\ claims' \in [ProcessSlots -> SUBSET Actors]
      /\ wait' \in [ProcessSlots -> {NoWait} \cup (0 .. MaxPid)]
  BY <1>1, <1>2 DEF TableTypes
<1>6. Queue' /\ asleep' \in SUBSET ProcessSlots /\ appointed' \in BOOLEAN
  <2>1. Announcing(i)'
    BY <1>1, <1>2, <1>3 DEF Announcing, TableTypes
  <2> QED
    BY <1>1, <2>1, OnlyRunningSleeps, TurnAnnounced, Zenon
<1> QED
  BY <1>1, <1>3, <1>4, <1>5, <1>6, TurnTable

\* A slot is returned and everybody is woken.
LEMMA DoneTable ==
    ASSUME TableInv, NEW i \in ProcessSlots, NEW a \in Actors, release_process_done(a, i)
    PROVE  TableInv'
<1>1. /\ a \in claims[i] /\ phase[i] = "releasing" /\ phase' = [phase EXCEPT ![i] = "free"]
      /\ claims' = [claims EXCEPT ![i] = @ \ {a}] /\ scheduler_wake_all
      /\ cancel' = [cancel EXCEPT ![i] = "no"]
      /\ pid' = [pid EXCEPT ![i] = 0] /\ parent' = [parent EXCEPT ![i] = 0]
      /\ detached' = [detached EXCEPT ![i] = FALSE] /\ killed' = [killed EXCEPT ![i] = FALSE]
      /\ UNCHANGED <<next_pid, system_reaper_pid, wait>>
  BY DEF release_process_done, Freed, Cleared
<1>2. TableTypes /\ Slots
  BY DEF TableInv
<1>3. Turns(i, "free")
  BY <1>1, <1>2 DEF Turns, Unborn, Phases, TableTypes
<1>4. Pids' /\ Parents' /\ Callers' /\ Cancels' /\ phase' \in [ProcessSlots -> Phases]
  BY <1>2, <1>3, TurnOK DEF Slots
<1>5. claims[i] = {a}
  BY <1>1, <1>2 DEF Slots, Reapers
<1>6. /\ phase'[i] = "free" /\ claims'[i] = {}
      /\ \A j \in ProcessSlots : j # i =>
            phase'[j] = phase[j] /\ claims'[j] = claims[j] /\ cancel'[j] = cancel[j]
  BY <1>1, <1>2, <1>5 DEF TableTypes
<1>7. Reapers'
  BY <1>2, <1>6 DEF Slots, Reapers
<1>8. Queue' /\ asleep' \in SUBSET ProcessSlots /\ appointed' \in BOOLEAN
  BY <1>1, WokenOK
<1>9. TableTypes'
  <2>1. /\ pid' \in [ProcessSlots -> 0 .. MaxPid] /\ parent' \in [ProcessSlots -> 0 .. MaxPid]
        /\ detached' \in [ProcessSlots -> BOOLEAN] /\ killed' \in [ProcessSlots -> BOOLEAN]
    BY <1>1, <1>2, Numbers DEF TableTypes
  <2>2. /\ claims' \in [ProcessSlots -> SUBSET Actors]
        /\ cancel' \in [ProcessSlots -> {"no", "may", "done"}]
    BY <1>1, <1>2 DEF TableTypes
  <2>3. next_pid' = next_pid /\ system_reaper_pid' = system_reaper_pid /\ wait' = wait
    BY <1>1
  <2> QED
    BY <1>2, <1>4, <1>8, <2>1, <2>2, <2>3, Zenon DEF TableTypes
<1> QED
  BY <1>4, <1>7, <1>8, <1>9 DEF TableInv, Slots

LEMMA RetiredTable ==
    ASSUME TableInv, NEW i \in ProcessSlots, NEW a \in ProcessSlots,
           process_try_wait_retired(a, i)
    PROVE  TableInv'
<1>1. /\ phase[i] = "zombie" /\ phase' = [phase EXCEPT ![i] = "free"] /\ scheduler_wake_all
      /\ cancel' = [cancel EXCEPT ![i] = "no"]
      /\ UNCHANGED <<pid, parent, detached, killed, next_pid, system_reaper_pid, wait, claims>>
  BY Zenon DEF process_try_wait_retired, Freed, ids
<1>2. TableTypes /\ Slots
  BY DEF TableInv
<1>0. /\ cancel' \in [ProcessSlots -> {"no", "may", "done"}] /\ cancel'[i] = "no"
      /\ \A j \in ProcessSlots : j # i => cancel'[j] = cancel[j]
  BY <1>1, <1>2 DEF TableTypes
<1>3. Turns(i, "free")
  BY <1>0, <1>1 DEF Turns, Unborn, Phases
<1>4. Pids' /\ Parents' /\ Callers' /\ Cancels' /\ phase' \in [ProcessSlots -> Phases]
  BY <1>2, <1>3, TurnOK DEF Slots
<1>5. Reapers'
  BY <1>0, <1>1, <1>2, LooseOK, Zenon DEF Slots
<1>6. Queue' /\ asleep' \in SUBSET ProcessSlots /\ appointed' \in BOOLEAN
  BY <1>1, WokenOK
<1>7. TableTypes'
  BY <1>0, <1>1, <1>2, <1>4, <1>6 DEF TableTypes
<1> QED
  BY <1>4, <1>5, <1>6, <1>7 DEF TableInv, Slots

\* The records stay as they are; sleepers are seen to.
LEMMA IdleTable ==
    ASSUME TableInv, Idle, system_reaper_pid' \in 0 .. MaxPid,
           killed' \in [ProcessSlots -> BOOLEAN],
           wait' \in [ProcessSlots -> {NoWait} \cup (0 .. MaxPid)],
           Queue', asleep' \in SUBSET ProcessSlots, appointed' \in BOOLEAN
    PROVE  TableInv'
<1>1. TableTypes'
  BY DEF TableInv, TableTypes, Idle
<1>2. Slots'
  BY IdleOK DEF TableInv
<1> QED
  BY <1>1, <1>2, Zenon DEF TableInv

\* Waits change for processes that do not sleep.
LEMMA AwakeTable ==
    ASSUME TableInv, Idle, UNCHANGED <<system_reaper_pid, asleep, appointed>>,
           killed' \in [ProcessSlots -> BOOLEAN],
           wait' \in [ProcessSlots -> {NoWait} \cup (0 .. MaxPid)],
           \A j \in asleep : wait'[j] = wait[j]
    PROVE  TableInv'
<1>1. TableTypes /\ Queue
  BY DEF TableInv
<1>2. SameView
  BY Zenon DEF Idle, SameView, Allocated, Active
<1>3. \A o, p \in 0 .. MaxPid : WaitReady(o, p)' => WaitReady(o, p)
  BY <1>2, ReadyKept
<1>4. Quiet
  BY DEF Idle, Quiet, Announced, Announcing
<1>5. Queue' /\ asleep' \in SUBSET ProcessSlots /\ appointed' \in BOOLEAN
  BY <1>1, <1>3, <1>4, QuietOK
<1>6. system_reaper_pid' \in 0 .. MaxPid
  BY <1>1 DEF TableTypes
<1> QED
  BY <1>5, <1>6, IdleTable

\* The steps of lifetimes, scopes and exec leave the table alone.
LEMMA KeptTable ==
    ASSUME TableInv, UNCHANGED <<phase, pid, parent, detached, killed, held, wait, sleepers,
                                 next_pid, system_reaper_pid>>
    PROVE  TableInv'
<1>1. /\ Idle /\ UNCHANGED <<system_reaper_pid, asleep, appointed>>
      /\ \A j \in asleep : wait'[j] = wait[j]
  BY DEF Idle, sleepers, held
<1>2. /\ killed' \in [ProcessSlots -> BOOLEAN]
      /\ wait' \in [ProcessSlots -> {NoWait} \cup (0 .. MaxPid)]
  BY DEF TableInv, TableTypes
<1> QED
  BY <1>1, <1>2, AwakeTable

LEMMA KillTable ==
    ASSUME TableInv, NEW i \in ProcessSlots, process_kill(i)
    PROVE  TableInv'
<1>1. Idle /\ scheduler_wake_all /\ UNCHANGED <<wait, system_reaper_pid>>
  BY DEF process_kill, Idle, ids, held
<1>2. /\ killed' \in [ProcessSlots -> BOOLEAN] /\ system_reaper_pid' \in 0 .. MaxPid
      /\ wait' \in [ProcessSlots -> {NoWait} \cup (0 .. MaxPid)]
  BY <1>1 DEF process_kill, TableInv, TableTypes
<1>3. Queue' /\ asleep' \in SUBSET ProcessSlots /\ appointed' \in BOOLEAN
  BY <1>1, WokenOK
<1> QED
  BY <1>1, <1>2, <1>3, IdleTable

\* Naming the reaper changes what one process may collect: the named one.
LEMMA ReaperTable ==
    ASSUME TableInv, NEW i \in ProcessSlots, process_set_reaper(i)
    PROVE  TableInv'
<1>1. /\ Idle /\ UNCHANGED <<killed, wait, asleep>>
      /\ system_reaper_pid = 0 /\ phase[i] # "free"
      /\ system_reaper_pid' = pid[i] /\ appointed' = (i \in asleep)
  BY DEF process_set_reaper, Idle, Active, held
<1>2. TableTypes /\ Slots /\ Queue
  BY DEF TableInv
<1>3. /\ system_reaper_pid' \in 0 .. MaxPid /\ killed' \in [ProcessSlots -> BOOLEAN]
      /\ wait' \in [ProcessSlots -> {NoWait} \cup (0 .. MaxPid)]
      /\ asleep' = asleep /\ asleep' \in SUBSET ProcessSlots /\ appointed' \in BOOLEAN
  BY <1>1, <1>2 DEF TableTypes
<1>4. /\ phase' = phase /\ pid' = pid /\ parent' = parent /\ detached' = detached
      /\ wait' = wait /\ cancel' = cancel
  BY <1>1 DEF Idle
<1>5. Waiting'
  BY <1>2, <1>3, <1>4, Zenon DEF Queue, Waiting
<1>6. ASSUME NEW s \in asleep, NEW o \in 0 .. MaxPid, NEW p \in 0 .. MaxPid,
             o = pid'[s], p = wait'[s], WaitReady(o, p)'
      PROVE  Announced' \/ (appointed' /\ o = system_reaper_pid')
  <2>1. CASE s = i
    BY <1>1, <1>4, <1>6, <2>1, Zenon
  <2>2. CASE s # i
    <3>1. s \in ProcessSlots /\ phase[s] # "free"
      BY <1>2 DEF TableTypes, Queue, Waiting
    <3>2. o # pid[i]
      BY <1>1, <1>2, <1>4, <1>6, <2>2, <3>1, Zenon DEF Slots, Pids
    <3>3. \A k \in ProcessSlots : WaitOwned(k, o)' <=> WaitOwned(k, o)
      <4>1. o # system_reaper_pid' /\ ~(o # 0 /\ o = system_reaper_pid)
        BY <1>1, <3>2
      <4> QED
        BY <1>4, <4>1, Zenon DEF WaitOwned
    <3>4. Targets(o, p)' = Targets(o, p) /\ Reapable(o, p)' = Reapable(o, p)
      BY <1>4, <3>3, Zenon DEF Targets, Reapable, Allocated
    <3>5. WaitReady(o, p) /\ o = pid[s] /\ p = wait[s]
      BY <1>4, <1>6, <3>4 DEF WaitReady
    <3>6. Announced \/ o = system_reaper_pid
      BY <1>2, <3>5, Zenon DEF Queue, Alerted
    <3>7. o # 0
      BY <1>2, <3>1, <3>5, Numbers DEF Slots, Pids, TableTypes
    <3> QED
      BY <1>1, <1>4, <3>6, <3>7 DEF Announced, Announcing
  <2> QED
    BY <2>1, <2>2
<1>7. Alerted'
  BY <1>3, <1>6, Zenon DEF Alerted
<1> QED
  BY <1>1, <1>3, <1>5, <1>7, IdleTable DEF Queue

LEMMA WaitTable ==
    ASSUME TableInv, NEW i \in ProcessSlots, NEW p \in 0 .. MaxPid, process_wait(i, p)
    PROVE  TableInv'
<1>1. /\ Idle /\ UNCHANGED <<killed, system_reaper_pid, asleep, appointed>>
      /\ wait' = [wait EXCEPT ![i] = p]
  BY DEF process_wait, Idle, ids, sleepers, held
<1>2. i \notin asleep
  BY OnlyRunningSleeps, Numbers DEF process_wait, Executing
<1>3. /\ killed' \in [ProcessSlots -> BOOLEAN] /\ asleep \in SUBSET ProcessSlots
      /\ wait' \in [ProcessSlots -> {NoWait} \cup (0 .. MaxPid)]
  BY <1>1 DEF TableInv, TableTypes
<1>4. \A j \in asleep : wait'[j] = wait[j]
  BY <1>1, <1>2, <1>3 DEF TableInv, TableTypes
<1> QED
  BY <1>1, <1>3, <1>4, AwakeTable

\* A round of the wait loop: claim, return or sleep.
LEMMA RequestTable ==
    ASSUME TableInv, NEW a \in Actors, NEW p \in 0 .. MaxPid, process_wait_request(a, p),
           a \notin asleep, a # Kernel => phase[a] = "running" /\ wait[a] = p
    PROVE  TableInv'
<1>1. TableTypes /\ Slots /\ Queue /\ (a # Kernel => a \in ProcessSlots)
  BY DEF TableInv, Actors
<1>2. CASE /\ \E i \in Reapable(Pid(a), p) : Claim(a, i, "may")
           /\ wait' = [i \in ProcessSlots |-> IF i = a THEN NoWait ELSE wait[i]]
           /\ UNCHANGED sleepers
  <2>1. PICK i \in ProcessSlots : phase[i] = "zombie" /\ Claim(a, i, "may")
    BY <1>2, Zenon DEF Reapable, Targets
  <2>2. /\ UNCHANGED <<asleep, appointed>>
        /\ wait' \in [ProcessSlots -> {NoWait} \cup (0 .. MaxPid)]
        /\ \A j \in asleep : wait'[j] = wait[j]
    BY <1>1, <1>2 DEF sleepers, TableTypes
  <2> QED
    BY <2>1, <2>2, ClaimTable, Zenon
<1>3. CASE /\ a # Kernel /\ wait' = [wait EXCEPT ![a] = NoWait]
           /\ UNCHANGED <<phase, ids, killed, scope, held, sleepers, life>>
  <2>1. /\ Idle /\ UNCHANGED <<killed, system_reaper_pid, asleep, appointed>>
    BY <1>3 DEF Idle, ids, sleepers, held
  <2>2. /\ killed' \in [ProcessSlots -> BOOLEAN]
        /\ wait' \in [ProcessSlots -> {NoWait} \cup (0 .. MaxPid)]
        /\ \A j \in asleep : wait'[j] = wait[j]
    BY <1>1, <1>3, <2>1 DEF TableTypes
  <2> QED
    BY <2>1, <2>2, AwakeTable, Zenon
<1>4. CASE /\ ~WaitReady(Pid(a), p) /\ a # Kernel /\ asleep' = asleep \cup {a}
           /\ UNCHANGED <<phase, ids, killed, scope, held, wait, life, appointed>>
  <2>1. /\ Idle /\ UNCHANGED <<killed, wait, system_reaper_pid, appointed>>
        /\ phase' = phase /\ pid' = pid /\ cancel' = cancel
    BY <1>4, Zenon DEF Idle, ids, held
  <2>2. /\ killed' \in [ProcessSlots -> BOOLEAN] /\ system_reaper_pid' \in 0 .. MaxPid
        /\ wait' \in [ProcessSlots -> {NoWait} \cup (0 .. MaxPid)]
        /\ asleep' \in SUBSET ProcessSlots /\ appointed' \in BOOLEAN
    BY <1>1, <1>4, <2>1 DEF TableTypes
  <2>3. Waiting'
    <3>1. p # NoWait
      BY Numbers DEF NoWait
    <3> QED
      BY <1>1, <1>4, <2>1, <3>1, Zenon DEF Queue, Waiting
  <2>4. SameView
    BY <2>1, Zenon DEF Idle, SameView, Allocated, Active
  <2>5. ASSUME NEW s \in asleep', NEW o \in 0 .. MaxPid, NEW q \in 0 .. MaxPid,
               o = pid'[s], q = wait'[s], WaitReady(o, q)'
        PROVE  Announced' \/ (appointed' /\ o = system_reaper_pid')
    <3>1. WaitReady(o, q) /\ o = pid[s] /\ q = wait[s]
      BY <2>1, <2>4, <2>5, ReadyKept, Zenon
    <3>2. s # a
      <4>1. Pid(a) = pid[a] /\ wait[a] = p
        BY <1>4, Zenon DEF Pid
      <4> QED
        BY <1>4, <3>1, <4>1, Zenon
    <3>3. s \in asleep
      BY <1>4, <3>2, Zenon
    <3>4. Announced \/ (appointed /\ o = system_reaper_pid)
      BY <1>1, <3>1, <3>3, Zenon DEF Queue, Alerted
    <3> QED
      BY <2>1, <3>4, Zenon DEF Announced, Announcing
  <2>6. Alerted'
    BY <2>5, Zenon DEF Alerted
  <2> QED
    BY <2>1, <2>2, <2>3, <2>6, IdleTable DEF Queue
<1> QED
  BY <1>2, <1>3, <1>4 DEF process_wait_request

LEMMA RoundTable ==
    ASSUME TableInv, NEW i \in ProcessSlots, process_wait_round(i)
    PROVE  TableInv'
<1>1. PICK p \in 0 .. MaxPid : p = wait[i]
  BY DEF process_wait_round, TableInv, TableTypes
<1>2. /\ i \in Actors /\ i \notin asleep /\ phase[i] = "running"
      /\ process_wait_request(i, p)
  BY <1>1, Zenon DEF process_wait_round, Actors
<1> QED
  BY <1>1, <1>2, RequestTable, Zenon

\* With pid n handed out, older pids stay old and n and its parent are in range.
LEMMA NextPid ==
    ASSUME NEW n \in 1 .. MaxPid
    PROVE  /\ (n + 1) - 1 = n /\ n \in 1 .. n
           /\ \A o \in 0 .. MaxPid : o < n => o # n /\ o < n + 1
           /\ \A p \in 1 .. n - 1 : p # n /\ p \in 1 .. n
BY Numbers

\* The new process has a pid nobody had, and a parent that is there.
LEMMA AllocTable ==
    ASSUME TableInv, NEW a \in Actors, NEW det \in BOOLEAN, NEW root \in 0 .. MaxToken,
           NEW fork \in BOOLEAN, alloc_process_lifetime(a, det, root, fork)
    PROVE  TableInv'
<1>1. TableTypes /\ Slots /\ Queue /\ Executing(a)
  BY Zenon DEF TableInv, alloc_process_lifetime
<1>2. PICK i \in ProcessSlots :
            /\ phase[i] = "free" /\ phase' = [phase EXCEPT ![i] = "clearing"]
            /\ pid' = [pid EXCEPT ![i] = next_pid] /\ parent' = [parent EXCEPT ![i] = Pid(a)]
            /\ detached' = [detached EXCEPT ![i] = det] /\ killed' = [killed EXCEPT ![i] = FALSE]
            /\ cancel' = [cancel EXCEPT ![i] = IF fork THEN "may" ELSE "no"]
  BY Zenon DEF alloc_process_lifetime, FreeSlots
<1>3. /\ next_pid <= MaxPid /\ next_pid' = next_pid + 1
      /\ UNCHANGED <<claims, wait, asleep, appointed, system_reaper_pid>>
  BY DEF alloc_process_lifetime, sleepers
<1>4. a # Kernel => a \in ProcessSlots /\ phase[a] = "running" /\ Pid(a) = pid[a]
  BY <1>1, Zenon DEF Executing, Pid
<1>5. PICK o \in 0 .. MaxPid : /\ o = Pid(a) /\ o < next_pid
                               /\ o # 0 => a \in ProcessSlots /\ phase[a] = "running" /\ pid[a] = o
  <2>1. CASE a = Kernel
    BY <1>1, <2>1, Numbers DEF Pid, TableTypes
  <2>2. CASE a # Kernel
    BY <1>1, <1>4, <2>2, Numbers DEF TableTypes, Slots, Pids
  <2> QED
    BY <2>1, <2>2, Zenon
<1>6. /\ phase' \in [ProcessSlots -> Phases] /\ pid' \in [ProcessSlots -> 0 .. MaxPid]
      /\ parent' \in [ProcessSlots -> 0 .. MaxPid] /\ detached' \in [ProcessSlots -> BOOLEAN]
      /\ killed' \in [ProcessSlots -> BOOLEAN] /\ next_pid \in 1 .. MaxPid
  BY <1>1, <1>2, <1>3, <1>5, Numbers DEF TableTypes, Phases
<1>7. /\ phase'[i] = "clearing" /\ pid'[i] = next_pid /\ parent'[i] = o
      /\ \A j \in ProcessSlots : j # i =>
            /\ phase'[j] = phase[j] /\ pid'[j] = pid[j] /\ parent'[j] = parent[j]
            /\ detached'[j] = detached[j] /\ cancel'[j] = cancel[j]
      /\ cancel' \in [ProcessSlots -> {"no", "may", "done"}]
  BY <1>1, <1>2, <1>5 DEF TableTypes
<1>8. \A j \in ProcessSlots : phase[j] # "free" =>
         /\ j # i /\ pid[j] # next_pid /\ parent[j] # next_pid
         /\ pid[j] \in 1 .. next_pid /\ parent[j] < next_pid + 1
  <2> SUFFICES ASSUME NEW j \in ProcessSlots, phase[j] # "free"
               PROVE  /\ j # i /\ pid[j] # next_pid /\ parent[j] # next_pid
                      /\ pid[j] \in 1 .. next_pid /\ parent[j] < next_pid + 1
    OBVIOUS
  <2>1. j # i
    BY <1>2
  <2>2. pid[j] \in 1 .. next_pid - 1 /\ parent[j] < next_pid
    BY <1>1, Zenon DEF Slots, Pids
  <2>3. parent[j] \in 0 .. MaxPid
    BY <1>1 DEF TableTypes
  <2> QED
    BY <1>6, <2>1, <2>2, <2>3, NextPid, Zenon
<1>9. Pids'
  <2>1. \A j \in ProcessSlots : phase'[j] # "free" =>
           pid'[j] \in 1 .. next_pid' - 1 /\ parent'[j] < next_pid'
    <3>1. next_pid' = next_pid + 1 /\ next_pid' - 1 = next_pid
      BY <1>3, <1>6, NextPid, Zenon
    <3>2. \A j \in ProcessSlots : phase'[j] # "free" =>
             pid'[j] \in 1 .. next_pid /\ parent'[j] < next_pid + 1
      <4>1. next_pid \in 1 .. next_pid /\ o < next_pid + 1
        <5>1. next_pid \in 1 .. MaxPid /\ o \in 0 .. MaxPid /\ o < next_pid
          BY <1>5, <1>6
        <5> QED
          BY <5>1, NextPid, Zenon
      <4>2. ASSUME NEW j \in ProcessSlots, phase'[j] # "free"
            PROVE  pid'[j] \in 1 .. next_pid /\ parent'[j] < next_pid + 1
        <5>1. CASE j = i
          BY <1>7, <4>1, <5>1, Zenon
        <5>2. CASE j # i
          BY <1>7, <1>8, <4>2, <5>2, Zenon
        <5> QED
          BY <5>1, <5>2
      <4> QED
        BY <4>2
    <3> QED
      BY <3>1, <3>2, Zenon
  <2>2. \A j, k \in ProcessSlots :
           phase'[j] # "free" /\ phase'[k] # "free" /\ pid'[k] = pid'[j] => k = j
    <3> SUFFICES ASSUME NEW j \in ProcessSlots, NEW k \in ProcessSlots,
                        phase'[j] # "free", phase'[k] # "free", pid'[k] = pid'[j]
                 PROVE  k = j
      OBVIOUS
    <3>1. CASE j # i /\ k # i
      <4>1. phase[j] # "free" /\ phase[k] # "free" /\ pid[k] = pid[j]
        BY <1>7, <3>1, Zenon
      <4> QED
        BY <1>1, <4>1, Zenon DEF Slots, Pids
    <3>2. CASE j = i /\ k # i
      BY <1>7, <1>8, <3>2, Zenon
    <3>3. CASE j # i /\ k = i
      BY <1>7, <1>8, <3>3, Zenon
    <3> QED
      BY <3>1, <3>2, <3>3
  <2> QED
    BY <2>1, <2>2, Zenon DEF Pids
<1>10. Parents'
  <2>1. ASSUME NEW k \in ProcessSlots, NEW j \in ProcessSlots,
               phase'[k] # "free", phase'[j] \in Unborn
        PROVE  parent'[k] # pid'[j]
    <3>1. CASE j = i
      BY <1>5, <1>6, <1>7, <1>8, <2>1, <3>1
    <3>2. CASE j # i /\ k # i
      BY <1>1, <1>7, <2>1, <3>2, Zenon DEF Slots, Parents
    <3>3. CASE j # i /\ k = i
      <4>1. phase[j] \in Unborn /\ phase[j] # "free" /\ phase[j] # "running" /\ pid[j] # 0
        BY <1>1, <1>7, <2>1, <3>3, <1>8 DEF Unborn
      <4>2. o # pid[j]
        BY <1>1, <1>5, <4>1, Zenon DEF Slots, Pids
      <4> QED
        BY <1>7, <3>3, <4>2
    <3> QED
      BY <3>1, <3>2, <3>3
  <2> QED
    BY <2>1 DEF Parents
<1>11. Callers' /\ Cancels'
  <2>1. ASSUME NEW k \in ProcessSlots, Bound(k)', cancel'[k] # "done", parent'[k] # 0
        PROVE  \E j \in ProcessSlots : phase'[j] = "running" /\ pid'[j] = parent'[k]
    <3>1. PICK j \in ProcessSlots : phase[j] = "running" /\ pid[j] = parent'[k]
      <4>1. CASE k = i
        BY <1>5, <1>7, <2>1, <4>1
      <4>2. CASE k # i
        <5>1. Bound(k) /\ cancel[k] # "done" /\ parent[k] # 0 /\ parent'[k] = parent[k]
          BY <1>7, <2>1, <4>2, Zenon DEF Bound
        <5> QED
          BY <1>1, <5>1, Zenon DEF Slots, Callers
      <4> QED
        BY <4>1, <4>2
    <3> QED
      BY <1>2, <1>7, <3>1, Zenon
  <2>2. Cancels'
    <3>1. phase'[i] \in Unborn
      BY <1>7 DEF Unborn
    <3> QED
      BY <1>1, <1>7, <3>1, Zenon DEF Slots, Cancels
  <2> QED
    BY <2>1, <2>2, Zenon DEF Callers
<1>12. Reapers'
  BY <1>1, <1>2, <1>3, <1>7, LooseOK, Zenon DEF Slots
<1>13. Queue' /\ asleep' \in SUBSET ProcessSlots /\ appointed' \in BOOLEAN
  <2>1. SameView
    BY <1>2, <1>3, <1>7 DEF SameView, Allocated, Active
  <2>2. \A p, q \in 0 .. MaxPid : WaitReady(p, q)' => WaitReady(p, q)
    BY <2>1, ReadyKept
  <2>3. \A j \in asleep : j \in ProcessSlots /\ j # i
    BY <1>1, <1>2, OnlyRunningSleeps DEF TableTypes
  <2>4. Announced => Announced'
    BY <1>2, <1>7 DEF Announced, Announcing
  <2>5. Quiet
    BY <1>3, <1>7, <2>3, <2>4 DEF Quiet
  <2> QED
    BY <1>1, <2>2, <2>5, QuietOK
<1>14. TableTypes'
  <2>1. next_pid' \in 1 .. MaxPid + 1
    BY <1>3, <1>6, Numbers
  <2>2. /\ claims' \in [ProcessSlots -> SUBSET Actors] /\ system_reaper_pid' \in 0 .. MaxPid
        /\ wait' \in [ProcessSlots -> {NoWait} \cup (0 .. MaxPid)]
    BY <1>1, <1>3 DEF TableTypes
  <2> QED
    BY <1>6, <1>7, <1>13, <2>1, <2>2, Zenon DEF TableTypes
<1> QED
  BY <1>9, <1>10, <1>11, <1>12, <1>13, <1>14 DEF TableInv, Slots

-----------------------------------------------------------------------------
(* The invariant, and what follows from it.                                *)

LEMMA InvInit == Init => Inv
<1> SUFFICES ASSUME Init PROVE Inv
  OBVIOUS
<1>1. \A t : Members(t) = {}
  BY DEF Init, Members
<1>2. \A t \in Tokens : life[t] = NoLife
  BY DEF Init, Tokens
<1>3. \A t \in Tokens : RecordOK(t)
  <2>1. Cardinality({}) = 0
    BY FS_EmptySet
  <2> QED
    BY <1>1, <1>2, <2>1, BlankSound, NoLifeOK, Zenon DEF RecordOK, Held
<1>4. LifeTypes
  BY NoLifeOK, Numbers DEF Init, LifeTypes, Tokens, Phases
<1>5. ScopesOK
  BY DEF Init, ScopesOK
<1>6. TableTypes
  <2>1. /\ phase \in [ProcessSlots -> Phases] /\ claims \in [ProcessSlots -> SUBSET Actors]
        /\ cancel \in [ProcessSlots -> {"no", "may", "done"}]
        /\ asleep \in SUBSET ProcessSlots /\ wait \in [ProcessSlots -> {NoWait} \cup (0 .. MaxPid)]
    BY DEF Init, Phases
  <2>2. /\ pid \in [ProcessSlots -> 0 .. MaxPid] /\ parent \in [ProcessSlots -> 0 .. MaxPid]
        /\ next_pid \in 1 .. MaxPid + 1 /\ system_reaper_pid \in 0 .. MaxPid
    BY Numbers DEF Init
  <2>3. /\ detached \in [ProcessSlots -> BOOLEAN] /\ killed \in [ProcessSlots -> BOOLEAN]
    BY DEF Init
  <2>4. appointed \in BOOLEAN
    BY Zenon DEF Init
  <2> QED
    BY <2>1, <2>2, <2>3, <2>4, Zenon DEF TableTypes
<1>7. Slots
  BY DEF Init, Slots, Reapers, Pids, Parents, Callers, Cancels, Bound, Unborn
<1>8. Queue
  BY DEF Init, Queue, Waiting, Alerted
<1> QED
  BY <1>3, <1>4, <1>5, <1>6, <1>7, <1>8 DEF Inv, LifeInv, TableInv

\* What an action of the lifetimes does to the table, and the other way round.
Steps == LifeNext /\ TableInv'

LEMMA CreateStep ==
    ASSUME Inv, process_lifetime_create \/ \E i \in ProcessSlots : process_scope_create(i)
    PROVE  Steps
<1>1. LifeInv /\ TableInv
  BY DEF Inv
<1>2. ASSUME NEW L, Create(L) PROVE TableInv'
  BY <1>1, <1>2, KeptTable DEF Create
<1>3. CASE process_lifetime_create
  <2>1. PICK L : L = [NoLife EXCEPT !.live = TRUE]
    BY Zenon
  <2>2. /\ L \in Lives /\ L.live /\ ~L.user /\ L.owner = Kernel /\ L.members = 0
        /\ ~L.reservation
    BY <2>1, Zenon DEF NoLife, Lives, Kernel, Actors
  <2>3. Create(L) /\ scope' = scope
    BY <1>3, <2>1, Zenon DEF process_lifetime_create
  <2>4. /\ scope' \in [ProcessSlots -> 0 .. MaxToken] /\ Kernel \in Actors
        /\ \A j \in ProcessSlots : scope'[j] = IF j = Kernel THEN next_lifetime ELSE scope[j]
    BY <1>1, <2>3, Numbers DEF LifeInv, LifeTypes, Actors
  <2>5. LifeNext
    BY <1>1, <2>2, <2>3, <2>4, CreateLife
  <2> QED
    BY <1>2, <2>3, <2>5, Zenon DEF Steps
<1>4. CASE \E i \in ProcessSlots : process_scope_create(i)
  <2>1. PICK i \in ProcessSlots : process_scope_create(i)
    BY <1>4
  <2>2. i \in Actors /\ i # Kernel
    BY Numbers DEF Actors
  <2>3. PICK L : L = [NoLife EXCEPT !.live = TRUE, !.user = TRUE, !.owner = i]
    OBVIOUS
  <2>4. L \in Lives /\ L.live /\ L.user /\ L.owner = i /\ L.members = 0 /\ ~L.reservation
    BY <2>2, <2>3, Zenon DEF NoLife, Lives
  <2>5. /\ Create(L) /\ scope' = [scope EXCEPT ![i] = next_lifetime] /\ scope[i] = 0
        /\ Executing(i)
    BY <2>1, <2>3, Zenon DEF process_scope_create
  <2>6. phase[i] = "running"
    BY <2>2, <2>5 DEF Executing
  <2>7. next_lifetime \in 0 .. MaxToken
    BY <1>1, <2>5, Numbers DEF Create, LifeInv, LifeTypes
  <2>8. /\ scope' \in [ProcessSlots -> 0 .. MaxToken]
        /\ \A j \in ProcessSlots : scope'[j] = IF j = i THEN next_lifetime ELSE scope[j]
    BY <1>1, <2>5, <2>7 DEF LifeInv, LifeTypes
  <2>9. LifeNext
    BY <1>1, <2>2, <2>4, <2>5, <2>6, <2>8, CreateLife, Zenon
  <2> QED
    BY <1>2, <2>5, <2>9, Zenon DEF Steps
<1> QED
  BY <1>3, <1>4

LEMMA SetStep ==
    ASSUME Inv, NEW t, NEW L, SetLife(t, L), LifeNext
    PROVE  Steps
BY KeptTable DEF SetLife, ids, Inv, Steps

\* Slot i, in use and not running, goes on to phase x.
LEMMA PassLife ==
    ASSUME LifeInv, NEW i \in ProcessSlots, phase[i] \notin {"free", "running"},
           NEW x \in Phases \ {"free"}, phase' = [phase EXCEPT ![i] = x],
           UNCHANGED <<life, lifetime, scope, next_lifetime>>
    PROVE  LifeNext
<1>1. /\ phase' \in [ProcessSlots -> Phases] /\ phase'[i] = x
      /\ \A j \in ProcessSlots : j # i => phase'[j] = phase[j]
  BY DEF LifeInv, LifeTypes
<1> QED
  BY <1>1, LifeKept

\* The records of lifetimes: revoke, release, reserve, cancel.
LEMMA LifeSteps ==
    ASSUME Inv, NEW t \in Tokens, process_lifetime_revoke(t) \/ process_lifetime_release(t)
    PROVE  Steps
<1>1. LifeInv
  BY DEF Inv
<1>2. CASE process_lifetime_revoke(t)
  <2>1. LifeNext
    BY <1>1, <1>2, RevokeLife DEF process_lifetime_revoke, Live
  <2> QED
    BY <1>2, <2>1, SetStep, Zenon DEF process_lifetime_revoke
<1>3. CASE process_lifetime_release(t)
  BY <1>1, <1>3, ReleaseLife, SetStep, Zenon DEF process_lifetime_release
<1> QED
  BY <1>2, <1>3

LEMMA ScopeSteps ==
    ASSUME Inv, NEW i \in ProcessSlots,
           \/ process_scope_reserve(i) \/ process_scope_cancel_reservation(i)
           \/ process_scope_control(i)
    PROVE  Steps
<1>1. LifeInv
  BY DEF Inv
<1>2. CASE process_scope_reserve(i)
  BY <1>1, <1>2, ReserveLife, SetStep, Zenon DEF process_scope_reserve
<1>3. CASE process_scope_cancel_reservation(i)
  BY <1>1, <1>3, CancelLife, SetStep, Zenon DEF process_scope_cancel_reservation
<1>4. CASE process_scope_control(i)
  BY <1>1, <1>4, ControlLife, SetStep, Zenon DEF process_scope_control
<1> QED
  BY <1>2, <1>3, <1>4

\* A slot from publication to its claim.
LEMMA SlotSteps ==
    ASSUME Inv, NEW i \in ProcessSlots,
           \/ alloc_process_publish(i) \/ spawn_fails(i) \/ enter_process(i)
           \/ process_exit_inactive(i) \/ background_process_thread(i) \/ foreground_done(i)
    PROVE  Steps
<1>1. LifeInv /\ TableInv
  BY DEF Inv
<1>2. TableInv'
  BY <1>1, PublishTable, FailTable, EnterTable, InactiveTable, BackgroundTable
<1>3. PICK x \in Phases \ {"free"} : phase' = [phase EXCEPT ![i] = x]
  BY Zenon DEF alloc_process_publish, spawn_fails, enter_process, process_exit_inactive,
         background_process_thread, foreground_done, Phases
<1>4. /\ phase[i] \notin {"free", "running"}
      /\ UNCHANGED <<life, lifetime, scope, next_lifetime>>
  BY Zenon DEF alloc_process_publish, spawn_fails, enter_process, process_exit_inactive,
         background_process_thread, foreground_done, ids
<1> QED
  BY <1>1, <1>2, <1>3, <1>4, PassLife, Zenon DEF Steps

LEMMA ClaimStep ==
    ASSUME Inv, NEW i \in ProcessSlots, NEW a \in Actors, NEW c, phase[i] = "zombie",
           Claim(a, i, c), TableInv'
    PROVE  Steps
<1>1. LifeInv /\ "claimed" \in Phases \ {"free"}
  BY DEF Inv, Phases
<1>2. phase' = [phase EXCEPT ![i] = "claimed"] /\ UNCHANGED <<life, lifetime, scope, next_lifetime>>
  BY DEF Claim, ids
<1>3. LifeNext
  BY <1>1, <1>2, PassLife, Zenon
<1> QED
  BY <1>3, Zenon DEF Steps

\* The phases stay; so do the records of lifetimes.
LEMMA StillStep ==
    ASSUME Inv, UNCHANGED <<phase, life, lifetime, scope, next_lifetime>>, TableInv'
    PROVE  Steps
<1>1. LifeNext
  BY LifeKept DEF Inv, LifeInv, LifeTypes
<1> QED
  BY <1>1, Zenon DEF Steps

\* The scope of i goes: exec, exit and release.
LEMMA LeaveSteps ==
    ASSUME Inv, NEW i \in ProcessSlots,
           \/ process_exec_replace(i) \/ process_exit(i)
           \/ \E a \in Actors : release_process(a, i)
    PROVE  Steps
<1>1. LifeInv /\ TableInv
  BY DEF Inv
<1>2. TableInv'
  <2>1. CASE process_exec_replace(i)
    BY <1>1, <2>1, KeptTable DEF process_exec_replace, ids
  <2> QED
    BY <1>1, <2>1, ExitTable, ReleaseTable
<1>3. /\ life' = Detached(i) /\ scope' = [scope EXCEPT ![i] = 0]
      /\ UNCHANGED <<lifetime, next_lifetime>>
  BY Zenon DEF process_exec_replace, process_exit, release_process, ids
<1>4. phase' \in [ProcessSlots -> Phases]
  BY <1>2 DEF TableInv, TableTypes
<1>5. \A j \in ProcessSlots : /\ phase'[j] # "free" <=> phase[j] # "free"
                              /\ j # i => phase'[j] = phase[j]
  <2>1. CASE phase' = phase
    BY <2>1
  <2>2. CASE \E x \in Phases : phase' = [phase EXCEPT ![i] = x] /\ x # "free" /\ phase[i] # "free"
    BY <1>1, <2>2 DEF LifeInv, LifeTypes
  <2> QED
    BY <2>1, <2>2, Zenon DEF process_exec_replace, process_exit, release_process, Phases
<1>6. LifeNext
  BY <1>1, <1>3, <1>4, <1>5, DetachLife, Zenon
<1> QED
  BY <1>2, <1>6, Zenon DEF Steps

\* A slot is returned.
LEMMA FreeSteps ==
    ASSUME Inv, NEW i \in ProcessSlots,
           \/ \E a \in Actors : release_process_done(a, i)
           \/ \E a \in ProcessSlots : process_try_wait_retired(a, i)
    PROVE  Steps
<1>1. LifeInv /\ TableInv
  BY DEF Inv
<1>2. TableInv'
  BY <1>1, DoneTable, RetiredTable
<1>3. /\ Freed(i) /\ phase[i] \notin {"free", "running"} /\ UNCHANGED <<scope, next_lifetime>>
      /\ lifetime' = lifetime \/ lifetime' = [lifetime EXCEPT ![i] = 0]
  BY Zenon DEF release_process_done, process_try_wait_retired, Cleared, ids
<1>4. /\ lifetime' \in [ProcessSlots -> 0 .. MaxToken]
      /\ \A j \in ProcessSlots : j # i => lifetime'[j] = lifetime[j]
  BY <1>1, <1>3, Numbers DEF LifeInv, LifeTypes
<1>5. LifeNext
  BY <1>1, <1>3, <1>4, FreedLife
<1> QED
  BY <1>2, <1>5, Zenon DEF Steps

\* Claims: a waiter, the owner of a revoked scope, a drain pass.
LEMMA ReapSteps ==
    ASSUME Inv, NEW i \in ProcessSlots,
           \/ process_scope_reap(i) \/ process_wait_round(i)
           \/ \E t \in Tokens : process_lifetime_drain(t, i)
           \/ \E p \in 0 .. MaxPid : process_wait_request(Kernel, p)
    PROVE  Steps
<1>1. TableInv /\ i \in Actors /\ Kernel \in Actors /\ Kernel \notin asleep
  BY Numbers DEF Inv, Actors, TableInv, TableTypes
<1>2. ASSUME NEW a \in Actors, NEW j \in ProcessSlots, NEW c \in {"no", "may"},
             phase[j] = "zombie", Claim(a, j, c), UNCHANGED <<wait, sleepers>>
      PROVE  Steps
  <2>1. /\ UNCHANGED <<asleep, appointed>> /\ \A k \in asleep : wait'[k] = wait[k]
        /\ wait' \in [ProcessSlots -> {NoWait} \cup (0 .. MaxPid)]
    BY <1>1, <1>2 DEF sleepers, TableInv, TableTypes
  <2>2. TableInv'
    BY <1>1, <1>2, <2>1, ClaimTable
  <2> QED
    BY <1>2, <2>2, ClaimStep
<1>3. ASSUME NEW a \in Actors, NEW p, process_wait_request(a, p), TableInv'
      PROVE  Steps
  <2>1. CASE \E j \in ProcessSlots : phase[j] = "zombie" /\ Claim(a, j, "may")
    BY <1>3, <2>1, ClaimStep
  <2>2. CASE UNCHANGED <<phase, ids, scope, life>>
    BY <1>3, <2>2, StillStep DEF ids
  <2> QED
    BY <1>3, <2>1, <2>2, Zenon DEF process_wait_request, Reapable, Targets
<1>4. CASE process_scope_reap(i)
  <2>1. PICK j \in ProcessSlots : phase[j] = "zombie" /\ Claim(i, j, "no") /\ UNCHANGED <<wait, sleepers>>
    BY <1>4, Zenon DEF process_scope_reap
  <2> QED
    BY <1>1, <1>2, <2>1
<1>5. CASE process_wait_round(i)
  BY <1>1, <1>3, <1>5, RoundTable, Zenon DEF process_wait_round
<1>6. CASE \E t \in Tokens : process_lifetime_drain(t, i)
  <2>1. CASE phase[i] = "zombie" /\ Claim(Kernel, i, "no") /\ UNCHANGED <<wait, sleepers>>
    BY <1>1, <1>2, <2>1
  <2>2. CASE process_kill(i)
    <3>1. TableInv' /\ UNCHANGED <<phase, life, lifetime, scope, next_lifetime>>
      BY <1>1, <2>2, KillTable, Zenon DEF process_kill, ids
    <3> QED
      BY <3>1, StillStep
  <2> QED
    BY <1>6, <2>1, <2>2, Zenon DEF process_lifetime_drain
<1>7. CASE \E p \in 0 .. MaxPid : process_wait_request(Kernel, p)
  BY <1>1, <1>3, <1>7, RequestTable, Zenon
<1> QED
  BY <1>4, <1>5, <1>6, <1>7

\* Every step keeps the invariant, and revoked lifetimes shrink.
LEMMA NextSteps ==
    ASSUME Inv, [Next]_vars
    PROVE  Steps
<1>1. LifeInv /\ TableInv
  BY DEF Inv
<1>2. CASE process_lifetime_create
  BY <1>2, CreateStep
<1>3. CASE \E t \in 1 .. MaxToken : process_lifetime_revoke(t) \/ process_lifetime_release(t)
  BY <1>3, LifeSteps, Zenon DEF Tokens
<1>4. ASSUME NEW i \in ProcessSlots, process_set_reaper(i) \/ process_kill(i) PROVE Steps
  <2>1. TableInv' /\ UNCHANGED <<phase, life, lifetime, scope, next_lifetime>>
    BY <1>1, <1>4, ReaperTable, KillTable, Zenon DEF process_set_reaper, process_kill, ids
  <2> QED
    BY <2>1, StillStep
<1>5. ASSUME NEW i \in ProcessSlots, NEW p \in 0 .. MaxPid, process_wait(i, p) PROVE Steps
  <2>1. TableInv' /\ UNCHANGED <<phase, life, lifetime, scope, next_lifetime>>
    BY <1>1, <1>5, WaitTable, Zenon DEF process_wait, ids
  <2> QED
    BY <2>1, StillStep
<1>6. CASE \E a \in Actors, det \in BOOLEAN, root \in 0 .. MaxToken, fork \in BOOLEAN :
             alloc_process_lifetime(a, det, root, fork)
  BY <1>1, <1>6, AllocLife, AllocTable, Zenon DEF Steps
<1>7. CASE UNCHANGED vars
  <2>1. TableInv'
    BY <1>1, <1>7, KeptTable DEF vars, sleepers, held
  <2> QED
    BY <1>7, <2>1, StillStep DEF vars
<1>8. CASE \E p \in 0 .. MaxPid : process_wait_request(Kernel, p)
  <2>1. 1 \in ProcessSlots
    BY ProcessTableAssumption DEF ProcessTableAssumption, ProcessSlots
  <2> QED
    BY <1>8, <2>1, ReapSteps, Zenon
<1>9. ASSUME NEW i \in ProcessSlots,
             \/ process_scope_create(i) \/ process_scope_reserve(i)
             \/ process_scope_cancel_reservation(i) \/ process_scope_control(i)
             \/ process_scope_reap(i)
             \/ alloc_process_publish(i) \/ spawn_fails(i) \/ enter_process(i)
             \/ process_set_reaper(i) \/ process_exec_replace(i) \/ process_kill(i)
             \/ process_exit(i) \/ process_exit_inactive(i)
             \/ background_process_thread(i) \/ foreground_done(i)
             \/ \E t \in 1 .. MaxToken : process_lifetime_drain(t, i)
             \/ \E a \in Actors : release_process(a, i) \/ release_process_done(a, i)
             \/ \E a \in ProcessSlots : process_try_wait_retired(a, i)
             \/ process_wait_round(i)
             \/ \E p \in 0 .. MaxPid : process_wait(i, p)
      PROVE  Steps
  <2>1. CASE \E a \in Actors : release_process(a, i) \/ release_process_done(a, i)
    BY <2>1, LeaveSteps, FreeSteps, Zenon
  <2>2. CASE \E p \in 0 .. MaxPid : process_wait(i, p)
    BY <1>5, <2>2, Zenon
  <2>3. CASE \E t \in 1 .. MaxToken : process_lifetime_drain(t, i)
    BY <2>3, ReapSteps, Zenon DEF Tokens
  <2>4. CASE process_scope_create(i)
    BY <2>4, CreateStep, Zenon
  <2> QED
    BY <1>4, <1>9, <2>1, <2>2, <2>3, <2>4, ScopeSteps, SlotSteps, LeaveSteps, FreeSteps,
       ReapSteps, Zenon
<1> QED
  BY <1>2, <1>3, <1>6, <1>7, <1>8, <1>9, Zenon DEF Next

LEMMA InvSound == Inv => LifetimesSound /\ ReapedOnce
<1> SUFFICES ASSUME Inv PROVE LifetimesSound /\ ReapedOnce
  OBVIOUS
<1>1. LifeInv /\ TableTypes /\ Slots /\ Queue
  BY DEF Inv, TableInv
<1>2. TypeOK
  BY <1>1 DEF TypeOK, LifeInv, LifeTypes, TableTypes, Tokens
<1>3. MembersExact
  <2> SUFFICES ASSUME NEW t \in Tokens
               PROVE  life[t].members = Cardinality(Members(t)) + IF life[t].reservation THEN 1 ELSE 0
    BY Zenon DEF MembersExact, Tokens
  <2>1. RecordOK(t)
    BY <1>1, CountFacts, Zenon
  <2> QED
    BY <2>1, Zenon DEF RecordOK, Sound
<1>4. ScopeOwnership
  <2>1. \A t \in 1 .. MaxToken : life[t].user =>
           IF life[t].owner = Kernel
           THEN life[t].revoked /\ life[t].members > 0 /\ ~life[t].reservation
           ELSE scope[life[t].owner] = t /\ phase[life[t].owner] = "running"
    BY <1>1, CountFacts, Zenon DEF RecordOK, Sound, Held, Tokens
  <2> QED
    BY <1>1, <2>1, Zenon DEF LifeInv, ScopesOK, ScopeOwnership
<1>5. SingleReaper
  <2>1. \A a : Cardinality({a}) = 1
    BY FS_Singleton, Zenon
  <2> QED
    BY <1>1, <2>1, Zenon DEF SingleReaper, Slots, Reapers
<1>6. NoLostWakeup
  <2>1. ASSUME NEW i \in asleep, WaitReady(pid[i], wait[i])
        PROVE  Announced \/ (appointed /\ pid[i] = system_reaper_pid)
    <3>1. pid[i] \in 0 .. MaxPid /\ wait[i] \in 0 .. MaxPid
      BY <1>1 DEF TableTypes, Queue, Waiting
    <3> QED
      BY <1>1, <2>1, <3>1, Zenon DEF Queue, Alerted
  <2> QED
    BY <2>1, Zenon DEF NoLostWakeup, Announced
<1> QED
  BY <1>2, <1>3, <1>4, <1>5, <1>6, Zenon DEF LifetimesSound, ReapedOnce

\* For every number of slots, pids and lifetimes, whoever starts, exits, waits,
\* reaps and drains: a lifetime counts exactly its slots and its reservation, and
\* a user scope and its owner know each other (process.c, process_lifetimes).
THEOREM LifetimesInvariant == Spec => []LifetimesSound
<1>1. Inv /\ [Next]_vars => Inv'
  BY NextSteps, Zenon DEF Steps, LifeNext, Inv
<1> QED
  BY InvInit, InvSound, <1>1, PTL DEF Spec

\* A record has one reaper, whoever races for it, or lost it to the tick that
\* cancelled a killed process in wait, fork or a foreground spawn; and no process
\* sleeps in wait over a child it could collect without a wake-up on its way.
THEOREM ReapingInvariant == Spec => []ReapedOnce
<1>1. Inv /\ [Next]_vars => Inv'
  BY NextSteps, Zenon DEF Steps, LifeNext, Inv
<1> QED
  BY InvInit, InvSound, <1>1, PTL DEF Spec

\* A revoked lifetime stays revoked while it lives and admits nobody but the root
\* that was reserved before.
THEOREM RevocationFinal == Spec => RevokedOnlyShrinks
<1>1. Inv /\ [Next]_vars => Inv'
  BY NextSteps, Zenon DEF Steps, LifeNext, Inv
<1>2. Inv /\ [Next]_vars =>
         [\A t \in 1 .. MaxToken : life[t].live /\ life[t].revoked =>
             /\ life'[t].live => life'[t].revoked
             /\ life'[t].members <= life[t].members]_vars
  BY NextSteps, Zenon DEF Steps, LifeNext, Shrinks, Tokens
<1> QED
  BY InvInit, <1>1, <1>2, PTL DEF Spec, RevokedOnlyShrinks
=============================================================================

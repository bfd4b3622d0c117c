-------------------------- MODULE BlockClaimProofs --------------------------
(***************************************************************************)
(* The admission table excludes for every set of devices, every layout of  *)
(* views and every number of slots.                                        *)
(*                                                                         *)
(* The three safety properties are inductive together with the types: the  *)
(* scan of acquire() looks at every claim, so a new claim overlaps none    *)
(* but its lease, of which there is one because leases exclude each other; *)
(* a release keeps a lease that a live claim names.                        *)
(***************************************************************************)
EXTENDS BlockClaim, TLAPS

IInv == TypeOK /\ TokensUnique /\ ClaimsExclude /\ LeasesHeld

\* An admitted device has a place on its disk.
LEMMA OnlinePlaced ==
    ASSUME NEW d \in Devices, Online(d)
    PROVE  /\ Start[d][Depth(d)] \in Nat
           /\ Size[d] \in Nat \ {0}
<1>1. IsRoot(d, Depth(d))
  BY DEF Online, Depth
<1> QED
  BY <1>1, ClaimAssumption DEF IsRoot

\* Two leases that both contain a mount overlap each other.
LEMMA LeasesMeet ==
    ASSUME NEW a, NEW b, NEW c, Within(c, a), Within(c, b),
           a.offset \in Nat, a.length \in Nat, b.offset \in Nat, b.length \in Nat,
           c.offset \in Nat, c.length \in Nat \ {0}
    PROVE  overlaps(a, b)
<1>1. \A i, j, k, l, m \in Nat, n \in Nat \ {0} :
          i <= m /\ m + n <= k + l => i < k + l
  OBVIOUS
<1>2. a.root = b.root
  BY DEF Within
<1>3. a.offset < b.offset + b.length
  BY <1>1, Zenon DEF Within
<1>4. b.offset < a.offset + a.length
  BY <1>1 DEF Within
<1> QED
  BY <1>2, <1>3, <1>4 DEF overlaps

\* A new claim enters one free slot with a fresh token, and whatever it
\* overlaps is the lease that delegates to it.
LEMMA AcquireShape ==
    ASSUME IInv, NEW d \in Devices, NEW raw \in BOOLEAN,
           NEW allowed \in Devices \cup {NoDevice}, acquire(d, raw, allowed)
    PROVE  \E slot \in Slots \ Held, c \in {claims'[s] : s \in Slots} :
              /\ claims' = [claims EXCEPT ![slot] = c]
              /\ c.token = serial + 1 /\ c.lease \in 0 .. serial
              /\ c.offset \in Nat /\ c.length \in Nat \ {0}
              /\ c.device = d /\ c.allowed = allowed /\ c.raw = raw
              /\ \A s \in Held : overlaps(c, claims[s]) =>
                    Delegates(claims[s], c) /\ c.lease = claims[s].token
              /\ c.lease # 0 =>
                    \E s \in Held : c.lease = claims[s].token /\ Delegates(claims[s], c)
<1> DEFINE b == Describe(d, raw, allowed)
           over == {s \in Held : overlaps(b, claims[s])}
<1>1. PICK slot \in Slots \ Held, lease \in 0 .. serial :
          /\ IF over = {} THEN lease = 0
             ELSE \E s \in over : /\ \A t \in over : t <= s
                                  /\ lease = claims[s].token
          /\ claims' = [claims EXCEPT ![slot] = [b EXCEPT !.lease = lease]]
  BY Zenon DEF acquire
<1>2. \A s \in over : Delegates(claims[s], b)
  BY DEF acquire
<1> DEFINE c == [b EXCEPT !.lease = lease]
<1>3. /\ b.offset \in Nat /\ b.length \in Nat \ {0}
      /\ b.token = serial + 1 /\ b.device = d /\ b.allowed = allowed /\ b.raw = raw
  BY OnlinePlaced DEF Describe, acquire
<1>4. /\ c.token = b.token /\ c.lease = lease /\ c.device = b.device /\ c.allowed = b.allowed
      /\ c.raw = b.raw /\ c.root = b.root /\ c.offset = b.offset /\ c.length = b.length
  BY DEF Describe
<1>5. \A s, t \in over : s = t
  <2> SUFFICES ASSUME NEW s \in over, NEW t \in over, s # t PROVE FALSE
    OBVIOUS
  <2>1. overlaps(claims[s], claims[t])
    BY <1>2, <1>3, LeasesMeet DEF Delegates, IInv, TypeOK
  <2>2. claims[s].raw /\ claims[t].raw
    BY <1>2 DEF Delegates
  <2> QED
    BY <2>1, <2>2 DEF IInv, ClaimsExclude, Delegates
<1>6. \A s \in Held : /\ overlaps(c, claims[s]) <=> overlaps(b, claims[s])
                      /\ Delegates(claims[s], c) <=> Delegates(claims[s], b)
  BY <1>4 DEF overlaps, Delegates, Within
<1>7. \A s \in over : lease = claims[s].token
  BY <1>1, <1>5
<1>8. \A s \in Held : overlaps(c, claims[s]) =>
          Delegates(claims[s], c) /\ c.lease = claims[s].token
  BY <1>2, <1>4, <1>6, <1>7
<1>9. c.lease # 0 => \E s \in Held : c.lease = claims[s].token /\ Delegates(claims[s], c)
  BY <1>1, <1>2, <1>4, <1>6
<1>10. claims'[slot] = c
  BY <1>1 DEF IInv, TypeOK
<1> HIDE DEF b, c, over
<1>11. claims' = [claims EXCEPT ![slot] = c]
  BY <1>1 DEF c
<1>12. c \in {claims'[s] : s \in Slots}
  BY <1>1, <1>10
<1>13. /\ c.token = serial + 1 /\ c.lease \in 0 .. serial
       /\ c.offset \in Nat /\ c.length \in Nat \ {0}
       /\ c.device = d /\ c.allowed = allowed /\ c.raw = raw
  BY <1>3, <1>4
<1> WITNESS slot \in Slots \ Held, c \in {claims'[s] : s \in Slots}
<1> QED
  BY <1>8, <1>9, <1>11, <1>13

\* Claims that are kept, and one that may be new.
LEMMA AcquireKeeps ==
    ASSUME IInv, NEW slot \in Slots \ Held, NEW c, claims' = [claims EXCEPT ![slot] = c]
    PROVE  /\ DOMAIN claims' = Slots
           /\ \A s \in Held : s \in Held' /\ claims'[s] = claims[s]
           /\ \A s \in Held' : s \in Held \/ (s = slot /\ claims'[s] = c)
BY DEF IInv, TypeOK, Held

\* acquire() keeps the invariant: the new claim is compared with every other.
LEMMA AcquireInv ==
    ASSUME IInv, NEW d \in Devices, NEW raw \in BOOLEAN,
           NEW allowed \in Devices \cup {NoDevice}, acquire(d, raw, allowed)
    PROVE  IInv'
<1>1. PICK slot \in Slots \ Held, c \in {claims'[s] : s \in Slots} :
          /\ claims' = [claims EXCEPT ![slot] = c]
          /\ c.token = serial + 1 /\ c.lease \in 0 .. serial
          /\ c.offset \in Nat /\ c.length \in Nat \ {0}
          /\ c.device = d /\ c.allowed = allowed /\ c.raw = raw
          /\ \A s \in Held : overlaps(c, claims[s]) =>
                Delegates(claims[s], c) /\ c.lease = claims[s].token
          /\ c.lease # 0 =>
                \E s \in Held : c.lease = claims[s].token /\ Delegates(claims[s], c)
  BY AcquireShape
<1>2. /\ DOMAIN claims' = Slots
      /\ \A s \in Held : s \in Held' /\ claims'[s] = claims[s]
      /\ \A s \in Held' : s \in Held \/ (s = slot /\ claims'[s] = c)
  BY <1>1, AcquireKeeps, Zenon
<1>3. serial < MaxSerial /\ serial' = serial + 1 /\ offline' = offline
  BY DEF acquire
<1>4. TypeOK'
  BY <1>1, <1>2, <1>3, ClaimAssumption DEF IInv, TypeOK
<1>5. TokensUnique'
  BY <1>1, <1>2 DEF IInv, TypeOK, TokensUnique
<1>6. ClaimsExclude'
  <2> SUFFICES ASSUME NEW s \in Held', NEW t \in Held', s # t,
                      overlaps(claims'[s], claims'[t])
               PROVE  \/ Delegates(claims'[s], claims'[t]) /\ claims'[t].lease = claims'[s].token
                      \/ Delegates(claims'[t], claims'[s]) /\ claims'[s].lease = claims'[t].token
    BY DEF ClaimsExclude
  <2>1. CASE s \in Held /\ t \in Held
    BY <2>1, <1>2 DEF IInv, ClaimsExclude
  <2>2. CASE s = slot /\ claims'[s] = c /\ t \in Held
    BY <2>2, <1>1, <1>2
  <2>3. CASE t = slot /\ claims'[t] = c /\ s \in Held
    <3>1. overlaps(c, claims[s])
      BY <2>3, <1>2 DEF overlaps
    <3> QED
      BY <3>1, <2>3, <1>1, <1>2
  <2> QED
    BY <2>1, <2>2, <2>3, <1>2
<1>7. LeasesHeld'
  <2> SUFFICES ASSUME NEW s \in Held', claims'[s].lease # 0
               PROVE  \E t \in Held' : /\ claims'[t].token = claims'[s].lease
                                       /\ Delegates(claims'[t], claims'[s])
    BY DEF LeasesHeld
  <2>1. CASE s \in Held
    BY <2>1, <1>2 DEF IInv, LeasesHeld
  <2>2. CASE s = slot /\ claims'[s] = c
    BY <2>2, <1>1, <1>2
  <2> QED
    BY <2>1, <2>2, <1>2
<1> QED
  BY <1>4, <1>5, <1>6, <1>7 DEF IInv

\* What remains after a release was there before it.
LEMMA ReleaseInv ==
    ASSUME IInv, NEW token \in Nat, block_claim_release(token)
    PROVE  IInv'
<1>1. PICK r \in Held : claims[r].token = token /\ claims' = [claims EXCEPT ![r] = NoClaim]
  BY Zenon DEF block_claim_release
<1>2. /\ DOMAIN claims' = Slots
      /\ \A s \in Held' : s \in Held /\ claims'[s] = claims[s]
      /\ \A s \in Held : s # r => s \in Held'
  BY <1>1 DEF IInv, TypeOK, Held
<1>3. serial' = serial /\ offline' = offline /\ \A s \in Held : claims[s].lease # token
  BY DEF block_claim_release
<1>4. TypeOK'
  BY <1>2, <1>3 DEF IInv, TypeOK
<1>5. TokensUnique' /\ ClaimsExclude'
  BY <1>2 DEF IInv, TokensUnique, ClaimsExclude
<1>6. LeasesHeld'
  <2> SUFFICES ASSUME NEW s \in Held', claims'[s].lease # 0
               PROVE  \E t \in Held' : /\ claims'[t].token = claims'[s].lease
                                       /\ Delegates(claims'[t], claims'[s])
    BY DEF LeasesHeld
  <2>1. PICK t \in Held : claims[t].token = claims[s].lease /\ Delegates(claims[t], claims[s])
    BY <1>2 DEF IInv, LeasesHeld
  <2>2. t # r
    BY <2>1, <1>1, <1>2, <1>3
  <2> QED
    BY <2>1, <2>2, <1>2
<1> QED
  BY <1>4, <1>5, <1>6 DEF IInv

\* Losing a medium, or doing nothing, leaves the table alone.
LEMMA OfflineInv ==
    ASSUME IInv, UNCHANGED <<claims, serial>>, offline' \subseteq Devices
    PROVE  IInv'
BY DEF IInv, TypeOK, TokensUnique, ClaimsExclude, LeasesHeld, Held

\* Claims exclude each other, tokens never repeat and a lease outlives its
\* delegate (acquire and block_claim_release), whatever the devices are.
THEOREM ClaimInvariant == Spec => []ClaimsSound
<1>1. Init => IInv
  BY ClaimAssumption
     DEF Init, IInv, TypeOK, TokensUnique, ClaimsExclude, LeasesHeld, Held
<1>2. IInv /\ [Next]_vars => IInv'
  <2> SUFFICES ASSUME IInv, [Next]_vars PROVE IInv'
    OBVIOUS
  <2>1. ASSUME NEW d \in Devices, block_claim_mount(d) PROVE IInv'
    BY <2>1, AcquireInv, Zenon DEF block_claim_mount
  <2>2. ASSUME NEW d \in Devices, NEW allowed \in Devices \cup {NoDevice},
               block_claim_raw(d, allowed)
        PROVE  IInv'
    BY <2>2, AcquireInv, Zenon DEF block_claim_raw
  <2>3. ASSUME NEW d \in Devices, block_invalidate(d) PROVE IInv'
    BY <2>3, OfflineInv DEF block_invalidate, IInv, TypeOK
  <2>4. ASSUME NEW token \in 1 .. serial, block_claim_release(token) PROVE IInv'
    BY <2>4, ReleaseInv DEF IInv, TypeOK
  <2>5. CASE UNCHANGED vars
    BY <2>5, OfflineInv DEF vars, IInv, TypeOK
  <2> QED
    BY <2>1, <2>2, <2>3, <2>4, <2>5 DEF Next
<1>3. IInv => ClaimsSound
  BY DEF IInv, ClaimsSound
<1> QED
  BY <1>1, <1>2, <1>3, PTL DEF Spec

=============================================================================

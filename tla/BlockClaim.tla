------------------------------ MODULE BlockClaim ------------------------------
(***************************************************************************)
(* Physical-range admission of block devices (kernel/src/block_claim.c).   *)
(* A device is a disk or a bounded view of another one (a partition, an    *)
(* image inside a file).  A mount, or a raw transport lease, claims the    *)
(* physical bytes of its device; claims that share a byte are refused,     *)
(* except the one filesystem a raw lease delegates to.                     *)
(*                                                                         *)
(* The functions mask interrupts, so each is one step.  Failing calls      *)
(* change nothing and are the absence of a step.                           *)
(***************************************************************************)
EXTENDS Naturals, FiniteSets

CONSTANTS
    Devices,        \* the registered descriptors
    Backing,        \* device -> the device it is a view of, or NoDevice
    BackingOffset,  \* device -> where the view starts in its backing device
    Size,           \* device -> its bytes, block_count * block_size
    Slots,          \* claims[], BLOCK_MAX_CLAIMS entries
    MaxDepth,       \* BLOCK_MAX_DEVICES, the longest chain followed
    MaxSerial,      \* the last token, UINT64_MAX in the code
    NoDevice, NoClaim

ASSUME ClaimAssumption ==
    /\ NoDevice \notin Devices
    /\ Backing \in [Devices -> Devices \cup {NoDevice}]
    /\ BackingOffset \in [Devices -> Nat]
    /\ Size \in [Devices -> Nat \ {0}]
    /\ Slots \subseteq Nat
    /\ MaxDepth \in Nat \ {0}
    /\ MaxSerial \in Nat

VARIABLES
    claims,     \* slot -> the claim, or NoClaim
    serial,     \* claim_serial
    offline     \* the devices that lost their medium

vars == <<claims, serial, offline>>

-----------------------------------------------------------------------------
(* Where a device lies on its disk.                                         *)

\* The devices on the way to the disk: Chain[d][n] is the nth backing device
Chain ==
    [d \in Devices |->
        LET chain[n \in 0 .. MaxDepth] ==
              LET view == chain[n - 1] IN
              IF n = 0 THEN d ELSE IF view = NoDevice THEN NoDevice ELSE Backing[view]
        IN [n \in 0 .. MaxDepth |-> chain[n]]]

\* The byte of Chain[d][n] at which the device starts
Start ==
    [d \in Devices |->
        LET start[n \in 0 .. MaxDepth] ==
              LET view == Chain[d][n - 1] IN
              IF n = 0 THEN 0
              ELSE start[n - 1] + (IF view = NoDevice THEN 0 ELSE BackingOffset[view])
        IN [n \in 0 .. MaxDepth |-> start[n]]]

\* block_raw_range over the whole device: the chain ends at a disk, and every
\* view of it fits its backing device.
IsRoot(d, n) ==
    /\ n < MaxDepth
    /\ Chain[d][n] \in Devices
    /\ Backing[Chain[d][n]] = NoDevice
    /\ Start[d][n] \in 0 .. Size[Chain[d][n]]
    /\ \A m \in 0 .. n - 1 :
          LET view == Chain[d][m] IN
          BackingOffset[view] + Size[view] <= Size[Backing[view]]

\* block_device_online: no device of the lineage is offline
Online(d) ==
    \E n \in 0 .. MaxDepth : /\ IsRoot(d, n)
                             /\ \A m \in 0 .. n : Chain[d][m] \notin offline

Depth(d) == CHOOSE n \in 0 .. MaxDepth : IsRoot(d, n)

\* What describe() and acquire() fill in
Describe(d, raw, allowed) ==
    [token |-> serial + 1, lease |-> 0, device |-> d, raw |-> raw, allowed |-> allowed,
     root |-> Chain[d][Depth(d)], offset |-> Start[d][Depth(d)], length |-> Size[d]]

\* (mutant) only the start of the other claim is looked at
overlaps_start(a, b) ==
    /\ a.root = b.root
    /\ b.offset <= a.offset
    /\ a.offset < b.offset + b.length

overlaps(a, b) ==
    /\ a.root = b.root
    /\ a.offset < b.offset + b.length
    /\ b.offset < a.offset + a.length

Within(a, b) ==
    /\ a.root = b.root
    /\ b.offset <= a.offset
    /\ a.offset + a.length <= b.offset + b.length

-----------------------------------------------------------------------------
Init ==
    /\ claims = [s \in Slots |-> NoClaim]
    /\ serial = 0
    /\ offline = {}

Held == {s \in Slots : claims[s] # NoClaim}

\* The raw lease b lets the mount c in: it names the very view
Delegates(b, c) ==
    /\ ~c.raw
    /\ b.raw
    /\ b.allowed = c.device
    /\ Within(c, b)

\* (mutant) the first free token is used again
acquire_reusing(d, raw, allowed) ==
    LET c == [Describe(d, raw, allowed) EXCEPT !.token = Cardinality(Held) + 1]
        over == {s \in Held : overlaps(c, claims[s])}
    IN
    /\ Online(d)
    /\ serial < MaxSerial
    /\ allowed # NoDevice =>
          raw /\ Online(allowed) /\ Within(Describe(allowed, FALSE, NoDevice), c)
    /\ \A s \in over : Delegates(claims[s], c)
    /\ \E slot \in Slots \ Held, lease \in 0 .. serial :
          /\ \A s \in Slots \ Held : s <= slot
          /\ IF over = {} THEN lease = 0
             ELSE \E s \in over : /\ \A t \in over : t <= s
                                  /\ lease = claims[s].token
          /\ claims' = [claims EXCEPT ![slot] = [c EXCEPT !.lease = lease]]
    /\ serial' = serial + 1
    /\ UNCHANGED offline

\* acquire(): every overlapping claim must delegate to this one, which then
\* records the token of the lease (the last of the loop).
acquire(d, raw, allowed) ==
    LET c == Describe(d, raw, allowed)
        over == {s \in Held : overlaps(c, claims[s])}
    IN
    /\ Online(d)
    /\ serial < MaxSerial
    /\ allowed # NoDevice =>
          raw /\ Online(allowed) /\ Within(Describe(allowed, FALSE, NoDevice), c)
    /\ \A s \in over : Delegates(claims[s], c)
    /\ \E slot \in Slots \ Held, lease \in 0 .. serial :
          /\ \A s \in Slots \ Held : s <= slot
          /\ IF over = {} THEN lease = 0
             ELSE \E s \in over : /\ \A t \in over : t <= s
                                  /\ lease = claims[s].token
          /\ claims' = [claims EXCEPT ![slot] = [c EXCEPT !.lease = lease]]
    /\ serial' = serial + 1
    /\ UNCHANGED offline

block_claim_mount(d) == acquire(d, FALSE, NoDevice)

block_claim_raw(d, allowed) == acquire(d, TRUE, allowed)

\* (mutant) a lease goes whether or not its delegate lives
release_early(token) ==
    /\ token # 0
    /\ \E s \in Held : /\ claims[s].token = token
                       /\ claims' = [claims EXCEPT ![s] = NoClaim]
    /\ UNCHANGED <<serial, offline>>

\* block_claim_release: a lease is kept while its delegate lives
block_claim_release(token) ==
    /\ token # 0
    /\ \A s \in Held : claims[s].lease # token
    /\ \E s \in Held : /\ claims[s].token = token
                       /\ \A t \in Held : claims[t].token = token => s <= t
                       /\ claims' = [claims EXCEPT ![s] = NoClaim]
    /\ UNCHANGED <<serial, offline>>

\* block_invalidate: a device that lost its medium, and its whole lineage.
\* Claims stay until their owner releases them.
block_invalidate(d) ==
    /\ offline' = offline \cup {e \in Devices : \E n \in 0 .. MaxDepth - 1 : Chain[d][n] = e}
    /\ UNCHANGED <<claims, serial>>

Next ==
    \/ \E d \in Devices : \/ block_claim_mount(d)
                          \/ block_invalidate(d)
                          \/ \E allowed \in Devices \cup {NoDevice} : block_claim_raw(d, allowed)
    \/ \E token \in 1 .. serial : block_claim_release(token)

Spec == Init /\ [][Next]_vars

-----------------------------------------------------------------------------
(* Correctness.                                                             *)

\* Types: a claim has a token already issued, perhaps that of its lease, and
\* the device it was made for.
TypeOK ==
    /\ serial \in 0 .. MaxSerial
    /\ offline \subseteq Devices
    /\ DOMAIN claims = Slots
    /\ \A s \in Held : /\ claims[s].token \in 1 .. serial
                       /\ claims[s].offset \in Nat
                       /\ claims[s].length \in Nat \ {0}
                       /\ claims[s].lease \in 0 .. serial
                       /\ claims[s].device \in Devices
                       /\ claims[s].allowed \in Devices \cup {NoDevice}
                       /\ claims[s].raw \in BOOLEAN

\* A token names one claim and no claim that came before it (++claim_serial):
\* releasing it can only release the caller's own claim.
TokensUnique ==
    \A s, t \in Held : claims[s].token = claims[t].token => s = t

\* Two claims share bytes of a disk only as a raw lease and the one mount it
\* names, which lies inside it.
ClaimsExclude ==
    \A s, t \in Held :
        s # t /\ overlaps(claims[s], claims[t]) =>
            \/ Delegates(claims[s], claims[t]) /\ claims[t].lease = claims[s].token
            \/ Delegates(claims[t], claims[s]) /\ claims[s].lease = claims[t].token

\* A lease outlives the mount it let in: the delegate's token chain is never
\* left dangling by a release.
LeasesHeld ==
    \A s \in Held : claims[s].lease # 0 =>
        \E t \in Held : claims[t].token = claims[s].lease /\ Delegates(claims[t], claims[s])

\* Physical ranges have one owner: claims exclude each other, a lease outlives what
\* it lets in, and a token names one claim (acquire, block_claim_release).
ClaimsSound ==
    /\ TypeOK
    /\ TokensUnique
    /\ ClaimsExclude
    /\ LeasesHeld
=============================================================================

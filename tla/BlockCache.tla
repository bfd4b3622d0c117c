------------------------------ MODULE BlockCache ------------------------------
(***************************************************************************)
(* The write-through block cache (kernel/src/block.c) and the raw users    *)
(* that go round it: an image mounted inside a file                        *)
(* (workspace_image.c) and the scratch extent (workspace.c).               *)
(*                                                                         *)
(* One disk and one cached view of a range of it; partitions are names for *)
(* calls on the disk (partition_read, partition_write).  Every call holds  *)
(* the storage gate, so a turn of the copying loop is one step; a call of  *)
(* several turns is a sequence of steps here, which allows more.  A block  *)
(* has a fixed number of parts, so that a write can cover some of it.      *)
(***************************************************************************)
EXTENDS Naturals, Sequences, FiniteSets

CONSTANTS
    Blocks,      \* the disk's blocks, 0..n
    ViewOffset,  \* the block at which the view starts
    ViewBlocks,  \* the blocks of the view
    Parts,       \* the parts of a block
    Entries,     \* the cache's entries, 1..n
    MaxBatch,    \* blocks of one driver transfer, 0 for none
    MaxWrites,   \* bound on the writes
    Unknown

CacheAssumption ==
    /\ Blocks = 0 .. Cardinality(Blocks) - 1
    /\ ViewOffset + ViewBlocks <= Cardinality(Blocks)
    /\ Entries = 1 .. Cardinality(Entries)
    /\ Entries # {}
    /\ {MaxBatch, MaxWrites} \subseteq Nat

VARIABLES
    media,      \* block -> part -> what the disk holds
    cache,      \* entry -> [valid, device, block, data]
    used,       \* the entries by last_used, oldest first
    writable,   \* the disk has its write callback
    lease,      \* who owns the raw transport: "none", "image" or "scratch"
    claimed,    \* the raw claim is held
    poisoned,   \* the users that lost track of the medium
    offline,    \* the disk is gone
    written,    \* writes so far; the next value
    acked       \* block -> part -> the last value a write reported, or Unknown

vars == <<media, cache, used, writable, lease, claimed, poisoned, offline, written, acked>>

Block == [Parts -> 0 .. MaxWrites]
DiskNames == {"disk", "view"}

\* The blocks of a device, and where they are on the disk
BlocksOf(d) == IF d = "disk" THEN Blocks ELSE 0 .. ViewBlocks - 1
Place(d, b) == IF d = "disk" THEN b ELSE ViewOffset + b

NoEntry == [valid |-> FALSE, device |-> "disk", block |-> 0, data |-> [p \in Parts |-> 0]]

Init ==
    /\ media = [b \in Blocks |-> [p \in Parts |-> 0]]
    /\ cache = [e \in Entries |-> NoEntry]
    /\ used = [e \in Entries |-> e]
    /\ writable = TRUE
    /\ lease = "none"
    /\ claimed = FALSE
    /\ poisoned = {}
    /\ offline = FALSE
    /\ written = 0
    /\ acked = media

-----------------------------------------------------------------------------
(* The cache, as a value c = [cache, used].                                 *)

Cache == [cache |-> cache, used |-> used]

Becomes(c) == cache' = c.cache /\ used' = c.used

cache_lookup(c, d, b) ==
    {e \in Entries : /\ c.cache[e].valid
                     /\ c.cache[e].device = d
                     /\ c.cache[e].block = b}

\* the first invalid entry, or the least recently used one
cache_pick_victim(c) ==
    LET invalid == {e \in Entries : ~c.cache[e].valid} IN
    IF invalid # {} THEN CHOOSE e \in invalid : \A f \in invalid : e <= f ELSE Head(c.used)

\* last_used = ++cache_clock
Touch(c, e) == [c EXCEPT !.used = Append(SelectSeq(@, LAMBDA f : f # e), e)]

Fill(c, e, d, b, data) ==
    Touch([c EXCEPT !.cache[e] = [valid |-> TRUE, device |-> d, block |-> b, data |-> data]], e)

\* valid = false: what the entry held is not looked at again
Drop(c, es) ==
    [c EXCEPT !.cache = [e \in Entries |-> IF e \in es THEN NoEntry ELSE @[e]]]

EntryFor(c, d, b) ==
    IF cache_lookup(c, d, b) # {} THEN CHOOSE e \in cache_lookup(c, d, b) : TRUE
    ELSE cache_pick_victim(c)

\* cache_get: a hit, or a read into the victim; ok is the driver's answer
cache_get(c, d, b, ok) ==
    LET e == EntryFor(c, d, b) IN
    IF cache_lookup(c, d, b) # {} THEN Touch(c, e)
    ELSE IF ok THEN Fill(c, e, d, b, media[Place(d, b)])
    ELSE Drop(c, {e})

\* cache_publish of n completed blocks from b
cache_publish(c, d, b, n, disk) ==
    LET after[i \in 0 .. n] ==
          LET prev == after[i - 1]
              k == b + i - 1
          IN IF i = 0 THEN c
             ELSE Fill(prev, EntryFor(prev, d, k), d, k, disk[Place(d, k)])
    IN after[n]

cache_invalidate_range(c, d, b, n) ==
    Drop(c, UNION {cache_lookup(c, d, k) : k \in b .. b + n - 1})

\* block_forget: every entry on the same disk, whatever name it was read by
block_forget(c) == Drop(c, Entries)

-----------------------------------------------------------------------------
(* The drivers: the disk's own callbacks, and the image's, which use them.  *)

Ready(d) ==
    /\ ~offline
    /\ d = "view" => lease = "image" /\ "image" \notin poisoned

\* a failed transfer through the view poisons the image
Poisons(d, ok) == IF d = "view" /\ ~ok THEN poisoned \cup {"image"} ELSE poisoned

MayWrite(d) == Ready(d) /\ (d = "disk" => writable) /\ written < MaxWrites

\* What the driver's write leaves: all of it, or on failure any of the blocks
Written(new, bs, ok) ==
    IF ok THEN {new}
    ELSE {[b \in Blocks |-> IF b \in bs /\ b \in done THEN new[b] ELSE media[b]] :
             done \in SUBSET bs}

\* (mutant) only the view's own entries are forgotten
AfterWriteView(c, d) ==
    IF d = "view" THEN Drop(c, {e \in Entries : c.cache[e].device = "view"}) ELSE c

\* image_write forgets the disk's entries after the transfer
AfterWrite(c, d) == IF d = "view" THEN block_forget(c) ELSE c

Acked(bs, ps, ok) ==
    acked' = [b \in Blocks |-> [p \in Parts |->
        IF b \in bs /\ p \in ps THEN (IF ok THEN written + 1 ELSE Unknown) ELSE acked[b][p]]]

-----------------------------------------------------------------------------
(* The turns of the loops of read_locked and write_locked.                  *)

\* read_locked, aligned: up to n missing blocks in one transfer, published
read_batch(d, b, n, ok) ==
    /\ Ready(d)
    /\ n \in 1 .. MaxBatch
    /\ b .. b + n - 1 \subseteq BlocksOf(d)
    /\ \A k \in b .. b + n - 1 : cache_lookup(Cache, d, k) = {}
    /\ Becomes(IF ok THEN cache_publish(Cache, d, b, n, media) ELSE Cache)
    /\ poisoned' = Poisons(d, ok)
    /\ UNCHANGED <<media, writable, lease, claimed, offline, written, acked>>

\* (mutant) the block goes into the victim without a look for a copy
read_unlooked(d, b, ok) ==
    /\ Ready(d)
    /\ b \in BlocksOf(d)
    /\ LET e == cache_pick_victim(Cache) IN
       Becomes(IF ok THEN Fill(Cache, e, d, b, media[Place(d, b)]) ELSE Drop(Cache, {e}))
    /\ poisoned' = Poisons(d, ok)
    /\ UNCHANGED <<media, writable, lease, claimed, offline, written, acked>>

\* read_locked, one block through cache_get
read_block(d, b, ok) ==
    /\ Ready(d)
    /\ b \in BlocksOf(d)
    /\ cache_lookup(Cache, d, b) # {} => ok
    /\ Becomes(cache_get(Cache, d, b, ok))
    /\ poisoned' = Poisons(d, ok)
    /\ UNCHANGED <<media, writable, lease, claimed, offline, written, acked>>

\* write_locked, aligned: the range is invalidated, written and published
write_batch(d, b, n, ok) ==
    LET bs == {Place(d, k) : k \in b .. b + n - 1}
        new == [k \in Blocks |-> IF k \in bs THEN [p \in Parts |-> written + 1] ELSE media[k]]
        c == AfterWrite(cache_invalidate_range(Cache, d, b, n), d)
    IN
    /\ MayWrite(d)
    /\ n \in 1 .. MaxBatch
    /\ b .. b + n - 1 \subseteq BlocksOf(d)
    /\ media' \in Written(new, bs, ok)
    /\ Becomes(IF ok THEN cache_publish(c, d, b, n, new) ELSE c)
    /\ poisoned' = Poisons(d, ok)
    /\ written' = written + 1
    /\ Acked(bs, Parts, ok)
    /\ UNCHANGED <<writable, lease, claimed, offline>>

\* (mutant) the block is not read first
write_blind(d, b, p, ok) ==
    LET at == Place(d, b)
        c == cache_get(Cache, d, b, TRUE)
        e == EntryFor(Cache, d, b)
        data == [q \in Parts |-> IF q = p THEN written + 1 ELSE 0]
        new == [media EXCEPT ![at] = data]
        merged == AfterWrite([c EXCEPT !.cache[e].data = data], d)
    IN
    /\ MayWrite(d)
    /\ b \in BlocksOf(d)
    /\ media' \in Written(new, {at}, ok)
    /\ Becomes(IF ok THEN merged ELSE Drop(merged, {e}))
    /\ poisoned' = Poisons(d, ok)
    /\ written' = written + 1
    /\ Acked({at}, {p}, ok)
    /\ UNCHANGED <<writable, lease, claimed, offline>>

\* write_locked, part of a block: it is read into the cache, changed there and
\* written whole
write_part(d, b, p, ok) ==
    LET at == Place(d, b)
        c == cache_get(Cache, d, b, TRUE)
        e == EntryFor(Cache, d, b)
        data == [c.cache[e].data EXCEPT ![p] = written + 1]
        new == [media EXCEPT ![at] = data]
        merged == AfterWrite([c EXCEPT !.cache[e].data = data], d)
    IN
    /\ MayWrite(d)
    /\ b \in BlocksOf(d)
    /\ media' \in Written(new, {at}, ok)
    /\ Becomes(IF ok THEN merged ELSE Drop(merged, {e}))
    /\ poisoned' = Poisons(d, ok)
    /\ written' = written + 1
    /\ Acked({at}, {p}, ok)
    /\ UNCHANGED <<writable, lease, claimed, offline>>

-----------------------------------------------------------------------------
(* The raw users.                                                           *)

\* workspace_image_open, workspace_scratch_prepare: the volume is unmounted
\* and its write callbacks revoked, the disk claimed and the cache emptied
open_raw(user) ==
    /\ lease = "none"
    /\ ~claimed
    /\ poisoned = {}
    /\ writable
    /\ ~offline
    /\ lease' = user
    /\ claimed' = TRUE
    /\ writable' = FALSE
    /\ Becomes(block_forget(Cache))
    /\ UNCHANGED <<media, poisoned, offline, written, acked>>

\* (mutant) the claim always goes
close_unclaiming(ok) ==
    /\ lease # "none"
    /\ ok => lease \notin poisoned /\ ~offline
    /\ poisoned' = IF ok THEN poisoned ELSE poisoned \cup {lease}
    /\ claimed' = FALSE
    /\ lease' = "none"
    /\ Becomes(block_forget(Cache))
    /\ UNCHANGED <<media, writable, offline, written, acked>>

\* workspace_image_close, workspace_scratch_end: a user that is not sure of
\* the medium keeps the claim until reboot
close_raw(ok) ==
    /\ lease # "none"
    /\ ok => lease \notin poisoned /\ ~offline
    /\ poisoned' = IF ok THEN poisoned ELSE poisoned \cup {lease}
    /\ claimed' = ~ok
    /\ lease' = "none"
    /\ Becomes(block_forget(Cache))
    /\ UNCHANGED <<media, writable, offline, written, acked>>

\* usb_storage_enable_volume_writes, when the volume is mounted again
enable_writes ==
    /\ ~writable
    /\ ~claimed
    /\ ~offline
    /\ writable' = TRUE
    /\ UNCHANGED <<media, cache, used, lease, claimed, poisoned, offline, written, acked>>

\* workspace_scratch_cycle: the extent is written and read back past the cache
scratch_cycle(b, ok) ==
    LET new == [media EXCEPT ![b] = [p \in Parts |-> written + 1]] IN
    /\ lease = "scratch"
    /\ "scratch" \notin poisoned
    /\ b \in ViewOffset .. ViewOffset + ViewBlocks - 1
    /\ written < MaxWrites
    /\ ok => ~offline
    /\ media' \in Written(new, {b}, ok)
    /\ poisoned' = IF ok THEN poisoned ELSE poisoned \cup {"scratch"}
    /\ Becomes(block_forget(Cache))
    /\ written' = written + 1
    /\ Acked({b}, Parts, ok)
    /\ UNCHANGED <<writable, lease, claimed, offline>>

\* block_invalidate: the driver lost the disk
block_invalidate ==
    /\ ~offline
    /\ offline' = TRUE
    /\ Becomes(block_forget(Cache))
    /\ UNCHANGED <<media, writable, lease, claimed, poisoned, written, acked>>

Next ==
    \/ \E d \in DiskNames, ok \in BOOLEAN, b \in Blocks :
          \/ read_block(d, b, ok)
          \/ \E n \in 1 .. MaxBatch : read_batch(d, b, n, ok) \/ write_batch(d, b, n, ok)
          \/ \E p \in Parts : write_part(d, b, p, ok)
    \/ \E user \in {"image", "scratch"} : open_raw(user)
    \/ \E ok \in BOOLEAN : close_raw(ok)
    \/ enable_writes
    \/ \E b \in Blocks, ok \in BOOLEAN : scratch_cycle(b, ok)
    \/ block_invalidate

Spec == Init /\ [][Next]_vars

-----------------------------------------------------------------------------
(* Correctness.                                                             *)

\* Types: every entry names a block of its device, and the recency order
\* holds each entry once.
TypeOK ==
    /\ media \in [Blocks -> Block]
    /\ acked \in [Blocks -> [Parts -> {Unknown} \cup 0 .. MaxWrites]]
    /\ \A e \in Entries : /\ cache[e].valid \in BOOLEAN
                          /\ cache[e].device \in DiskNames
                          /\ cache[e].block \in BlocksOf(cache[e].device)
                          /\ cache[e].data \in Block
    /\ used \in [Entries -> Entries] /\ {used[i] : i \in Entries} = Entries
    /\ writable \in BOOLEAN /\ claimed \in BOOLEAN /\ offline \in BOOLEAN
    /\ lease \in {"none", "image", "scratch"}
    /\ poisoned \subseteq {"image", "scratch"}
    /\ written \in 0 .. MaxWrites

\* Every valid entry holds what the disk holds, by whichever name the bytes
\* were read and whoever wrote them: through the cache, through the image or
\* past both, and after transfers that failed half way.
CacheCoherent ==
    \A e \in Entries : cache[e].valid =>
        cache[e].data = media[Place(cache[e].device, cache[e].block)]

\* One block of a device is cached at most once, so no later write can update
\* one copy and leave another (cache_get and cache_publish against eviction).
OneCopy ==
    \A e, f \in Entries :
        /\ cache[e].valid /\ cache[f].valid
        /\ cache[e].device = cache[f].device
        /\ cache[e].block = cache[f].block
        => e = f

\* What a write reported stays on the disk until another write of those bytes:
\* a write of one part of a block never carries stale neighbours with it.
WritesStay ==
    \A b \in Blocks, p \in Parts : acked[b][p] # Unknown => media[b][p] = acked[b][p]

\* While somebody owns the raw transport nobody else can write the disk, and a
\* user that is not sure of the medium blocks it for good.
OneWriter ==
    /\ lease # "none" => claimed /\ ~writable
    /\ poisoned # {} => claimed /\ ~writable

\* The cache agrees with the disk, whoever writes it and whatever fails: one copy of
\* a block, equal to the medium, reported writes kept, one owner of the transport.
CacheSound ==
    /\ TypeOK
    /\ OneCopy
    /\ CacheCoherent
    /\ WritesStay
    /\ OneWriter
=============================================================================

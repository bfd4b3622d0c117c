------------------------------- MODULE Exfat -------------------------------
(***************************************************************************)
(* Mutations of one exFAT volume (kernel/src/fs/exfat.c, exfat_stream.inc) *)
(* against media that may lose power between any two device commands.      *)
(*                                                                         *)
(* A public mutation holds the storage gate from mutation_begin to         *)
(* mutation_end, so operations do not interleave.  The hazard is what is   *)
(* on the media when the machine stops.  Begin computes the commands the   *)
(* operation issues, in the order of the code; each later step issues one  *)
(* of them and may fail, and a crash may fall between any two.  The device *)
(* has a volatile write cache: before a flush any subset of the written    *)
(* locations may be on the media, in any order.                            *)
(*                                                                         *)
(* A cluster holds one directory record or one unit of file data, so a     *)
(* directory grows with every record beyond its first.  A record is a set  *)
(* of entries under one checksum and may lie across two sectors;           *)
(* block_write gives each sector a command of its own, so a power loss or  *)
(* a failed command between the two leaves it torn.  Names, dates, partial *)
(* clusters and the in-kernel read cache are left out.                     *)
(***************************************************************************)
EXTENDS Naturals, FiniteSets, Sequences, SequencesExt, FiniteSetsExt, TLC

CONSTANTS
    Files,      \* names a caller uses, all in the root directory
    Wide,       \* the names whose record needs more entries than the others
    NC,         \* clusters of the volume
    MaxLen,     \* bound: clusters of a file
    MaxOps,     \* bound: mutations begun by callers
    MaxCrash,   \* bound: power losses
    MaxFault,   \* bound: failed device commands, before the first power loss
    MetaNeed    \* clusters stream_preflight keeps for the sidecar

VARIABLES
    live,       \* what reading the device returns, per location
    pend,       \* <<location, older value>>: what a power loss may restore
    up,         \* is the volume mounted?
    mem,        \* the mount's tables: name -> record, as register_* keep it
    blocked,    \* volume->write_blocked
    plan,       \* device commands the current mutation has still to issue
    good,       \* the result the operation reports if no command fails
    busy,       \* mutation_depth # 0
    res,        \* what the last mutation returned
    lease,      \* the output stream lease: [name, failed, op]
    old,        \* ghost: contents acknowledged before the current mutation
    new,        \* ghost: contents it is to establish
    moved,      \* ghost: <<source, target>> of the mutation; a source if it moves a file
    broken,     \* ghost: has a device command failed since the mount?
    ops, crashes, faults

media == <<live, pend>>
kernel == <<up, mem, blocked, plan, good, busy, res, lease>>
ghosts == <<old, new, moved, broken>>
counts == <<ops, crashes, faults>>
vars == <<live, pend, up, mem, blocked, plan, good, busy, res, lease,
          old, new, moved, broken, ops, crashes, faults>>

Root == "root"
Side == ".srvros"        \* the sidecar directory, its file and its successor
Meta == "meta"
Temp == "meta.tmp"
Names == Files \union {Side, Meta, Temp}
Parent(n) == IF n \in {Meta, Temp} THEN Side ELSE Root
None == "none"

Clusters == 1..NC
RootCluster == 1
End == NC + 1            \* 0xffffffff; 0 is a free FAT entry
Loc == {<<"flag", 0>>} \union ({"bit", "fat", "data"} \X Clusters)

\* A cluster: unit of data, directory record, empty directory cluster, or one
\* half of a record with another half than its own.
Cell(kind, n, first, len, nofat, val) ==
    [kind |-> kind, name |-> n, first |-> first, len |-> len, nofat |-> nofat, val |-> val]
Zero == Cell("zero", None, 0, 0, FALSE, 0)
Torn == Cell("torn", None, 0, 0, FALSE, 0)
Unit(v) == Cell("data", None, 0, 0, FALSE, v)

\* A table slot: where its record is, and the allocation the record names.
Slot(kind, at, first, len, nofat) ==
    [kind |-> kind, at |-> at, first |-> first, len |-> len, nofat |-> nofat]
NoSlot == Slot(None, 0, 0, 0, FALSE)
build_file_entry_set(n, s) == Cell(s.kind, n, s.first, s.len, s.nofat /\ s.len # 0, 0)

---------------------------------------------------------------------------
(* Reading the media.  M is a media state, that is a value of live.        *)

\* The clusters of an allocation; 0 from where the chain leaves the volume.
cluster_chain(M, first, len, nofat) ==
    LET in(c) == IF c \in Clusters THEN c ELSE 0
        next_cluster(c) == IF c = 0 THEN 0 ELSE in(IF nofat THEN c + 1 ELSE M[<<"fat", c>>])
    IN  IF len = 0 THEN <<>>
        ELSE FoldLeft(LAMBDA cs, i : Append(cs, next_cluster(Last(cs))),
                      <<in(first)>>, [i \in 1..(len-1) |-> i])

ChainOf(M, s) == cluster_chain(M, s.first, s.len, s.nofat)

\* The root directory has no length: it is followed to the end mark.
RootChain(M) ==
    LET c == cluster_chain(M, RootCluster, NC, FALSE)
    IN  SelectSeq(c, LAMBDA x : x # 0)

DirChain(M, table, d) == IF d = Root THEN RootChain(M) ELSE ChainOf(M, table[d])

\* Every record a scan of one directory registers: name -> slot.
scan_directory(M, chain, names) ==
    LET at(n) == {i \in DOMAIN chain : chain[i] \in Clusters /\
                     LET e == M[<<"data", chain[i]>>]
                     IN  e.kind \in {"file", "dir"} /\ e.name = n}
    IN  [n \in names |->
            IF at(n) = {} THEN NoSlot
            ELSE LET c == chain[Min(at(n))]
                     e == M[<<"data", c>>]
                 IN  Slot(e.kind, c, e.first, e.len, e.nofat)]

scan_root_directory(M) ==
    LET top == scan_directory(M, RootChain(M), Files \union {Side})
        below == IF top[Side].kind = "dir"
                 THEN scan_directory(M, ChainOf(M, top[Side]), {Meta, Temp})
                 ELSE [n \in {Meta, Temp} |-> NoSlot]
    IN  top @@ below

TornRecords(M) ==
    LET top == RootChain(M)
        side == scan_directory(M, top, {Side})[Side]
        dirs == Range(top) \union (IF side.kind = "dir" THEN Range(ChainOf(M, side)) ELSE {})
    IN  {c \in dirs \intersect Clusters : M[<<"data", c>>] = Torn}

\* What a scan refuses: a directory chain that ends short, two records of one
\* name, a record of which only half was written or deleted (its checksum is
\* wrong, or it starts with a secondary entry).
ScanAccepts(M) ==
    LET top == RootChain(M)
        dup(chain) == \E i, j \in DOMAIN chain :
            /\ i # j /\ chain[i] \in Clusters /\ chain[j] \in Clusters
            /\ M[<<"data", chain[i]>>].kind \in {"file", "dir"}
            /\ M[<<"data", chain[j]>>].kind \in {"file", "dir"}
            /\ M[<<"data", chain[i]>>].name = M[<<"data", chain[j]>>].name
        side == scan_directory(M, top, {Side})[Side]
    IN  /\ M[<<"fat", top[Len(top)]>>] = End
        /\ ~dup(top)
        /\ TornRecords(M) = {}
        /\ side.kind = "dir" =>
              /\ 0 \notin Range(ChainOf(M, side))
              /\ ~dup(ChainOf(M, side))

exfat_read_all(M, s) ==
    LET c == ChainOf(M, s)
    IN  IF s.kind # "file" THEN <<>>
        ELSE [i \in 1..s.len |-> IF c[i] = 0 THEN 0 ELSE M[<<"data", c[i]>>].val]

\* A name's contents: its kind and its data.
Contents(M, table) ==
    [n \in Names |-> <<table[n].kind, exfat_read_all(M, table[n])>>]
OnMedia(M) == Contents(M, scan_root_directory(M))
Absent == <<None, <<>>>>

\* check_mount: every cluster a name uses is in the volume, marked, and used
\* by no other name except an exact alias; chains end; nothing else is marked.
SameAllocation(s, t) == s.first = t.first /\ s.len = t.len /\ s.nofat = t.nofat
Used(M, table) ==
    Range(RootChain(M)) \union
    UNION {Range(ChainOf(M, table[n])) : n \in {m \in Names : table[m].kind # None}}
check_file_clusters(M, table, n) ==
    LET s == table[n]
        c == ChainOf(M, s)
    IN  /\ Range(c) \subseteq {x \in Clusters : M[<<"bit", x>>]}
        /\ Cardinality(Range(c)) = s.len
        /\ s.len > 0 /\ ~s.nofat => M[<<"fat", c[s.len]>>] = End
check_duplicates(M, table) ==
    \A n, m \in Names : n # m /\ table[n].kind # None /\ table[m].kind # None =>
        \/ Range(ChainOf(M, table[n])) \intersect Range(ChainOf(M, table[m])) = {}
        \/ table[n].kind = "file" /\ table[m].kind = "file" /\ SameAllocation(table[n], table[m])
check_directory_clusters(M, table) ==
    /\ \A c \in Range(RootChain(M)) : M[<<"bit", c>>]
    /\ \A n \in Names : Range(RootChain(M)) \intersect Range(ChainOf(M, table[n])) = {}
check_bitmap_leaks(M, table) ==
    {c \in Clusters : M[<<"bit", c>>]} \subseteq Used(M, table)
Sound(M, table) ==
    /\ \A n \in Names : table[n].kind # None => check_file_clusters(M, table, n)
    /\ check_duplicates(M, table)
    /\ check_directory_clusters(M, table)
check_mount(M, table) == Sound(M, table) /\ check_bitmap_leaks(M, table)

---------------------------------------------------------------------------
(* Device commands and table updates, in the order an operation makes them *)

Write(put) == [do |-> "write", put |-> put]
Flush == [do |-> "flush", put |-> <<>>]
Flags(v) == [do |-> "flags", put |-> (<<"flag", 0>> :> v)]
Table(n, s) == [do |-> "table", put |-> (n :> s)]
Block == [do |-> "block", put |-> <<>>]
Sync(v, written) == [do |-> "sync", put |-> <<v, written>>]

\* One command over several clusters, and one command for each of them.
Fill(what, cs, v) == <<Write([l \in {<<what, c>> : c \in Range(cs)} |-> v])>>
Each(what, cs, v(_)) == [i \in DOMAIN cs |-> Write(<<what, cs[i]>> :> v(i))]
Put(c, e) == <<Write(<<"data", c>> :> e)>>

\* A record, sector by sector.
block_write(c, e) == Put(c, Torn) \o Put(c, e)

\* A plan so far: the media and tables it leads to, its commands, its result.
Plan(M, table) == [M |-> M, table |-> table, steps |-> <<>>, ok |-> TRUE]
Do(p, steps) ==
    LET Step(q, s) ==
            [q EXCEPT !.M = IF s.do = "write" THEN s.put @@ @ ELSE @,
                      !.table = IF s.do = "table" THEN s.put @@ @ ELSE @,
                      !.steps = Append(@, s)]
    IN  FoldLeft(Step, p, steps)
Refuse(p) == [p EXCEPT !.ok = FALSE]
Written(p) == \E i \in DOMAIN p.steps : p.steps[i].do = "write"

Free(M) == {c \in Clusters : ~M[<<"bit", c>>]}
allocate_contiguous_clusters(M, n) ==
    LET starts == {s \in Clusters : s + n - 1 <= NC /\ s..(s+n-1) \subseteq Free(M)}
    IN  IF starts = {} THEN <<>> ELSE [i \in 1..n |-> Min(starts) + i - 1]
allocate_fragmented_clusters(M, n) ==
    IF Cardinality(Free(M)) < n THEN <<>>
    ELSE [i \in 1..n |-> CHOOSE c \in Free(M) : Cardinality(Free(M) \intersect 1..c) = i]

\* The clusters taken, in order, and whether they are one run.
allocate_clusters(M, n) ==
    IF allocate_contiguous_clusters(M, n) # <<>>
    THEN [cs |-> allocate_contiguous_clusters(M, n), nofat |-> TRUE]
    ELSE [cs |-> allocate_fragmented_clusters(M, n), nofat |-> n = 0]

\* The FAT is written before the bitmap marks the clusters as taken.
AllocSteps(a) ==
    IF a.cs = <<>> THEN <<>>
    ELSE (IF a.nofat THEN Fill("fat", a.cs, End)
          ELSE Each("fat", a.cs, LAMBDA i : IF i < Len(a.cs) THEN a.cs[i+1] ELSE End))
         \o Fill("bit", a.cs, TRUE)
write_file_data(a, data) ==
    IF a.nofat /\ data # <<>>
    THEN <<Write([l \in {<<"data", c>> : c \in Range(a.cs)} |->
                     Unit(data[CHOOSE i \in DOMAIN a.cs : a.cs[i] = l[2]])])>>
    ELSE Each("data", a.cs, LAMBDA i : Unit(data[i]))

\* A mutant: a file with another name gives its clusters back all the same.
free_file_clusters_aliased(p, s) ==
    IF s.first = 0 \/ s.len = 0 THEN p
    ELSE LET c == ChainOf(p.M, s)
         IN  Do(p, (IF s.nofat THEN Fill("fat", c, 0) ELSE Each("fat", c, LAMBDA i : 0))
                   \o Fill("bit", c, FALSE))

\* An allocation another name still uses is kept.
free_file_clusters(p, s) ==
    IF s.first = 0 \/ s.len = 0 \/
       \E n \in Names : p.table[n].kind = "file" /\ SameAllocation(p.table[n], s)
    THEN p
    ELSE LET c == ChainOf(p.M, s)
         IN  Do(p, (IF s.nofat THEN Fill("fat", c, 0) ELSE Each("fat", c, LAMBDA i : 0))
                   \o Fill("bit", c, FALSE))

\* The record of a name, rewritten where it is.
update_file_length(n, s) == block_write(s.at, build_file_entry_set(n, s)) \o <<Table(n, s)>>

\* A cluster of the directory that holds no record, the directory grown by
\* one zeroed cluster if there is none.  at = 0: the volume is full.
directory_free_offset(p, d) ==
    LET chain == DirChain(p.M, p.table, d)
        free == {i \in DOMAIN chain : p.M[<<"data", chain[i]>>].kind = "zero"}
        fresh == allocate_contiguous_clusters(p.M, 1)
        dir == p.table[d]
        links == IF d # Root /\ dir.nofat
                 THEN Each("fat", chain, LAMBDA i : IF i < Len(chain) THEN chain[i+1] ELSE fresh[1])
                 ELSE <<Write(<<"fat", chain[Len(chain)]>> :> fresh[1])>>
        grown == AllocSteps([cs |-> fresh, nofat |-> TRUE])
                 \o Put(fresh[1], Zero) \o <<Flush>> \o links \o <<Flush>>
                 \o (IF d = Root THEN <<>>
                     ELSE update_file_length(d, [dir EXCEPT !.len = @ + 1, !.nofat = FALSE]))
    IN  IF free # {} THEN [at |-> chain[Min(free)], p |-> p]
        ELSE IF fresh = <<>> THEN [at |-> 0, p |-> p]
        ELSE [at |-> fresh[1], p |-> Do(p, grown)]

\* A mutant: the record goes while earlier commands may still be in the cache.
write_deleted_entries_at_once(c) == block_write(c, Zero)

\* Earlier commands reach the media before the record goes.
write_deleted_entries(c) == <<Flush>> \o block_write(c, Zero)

---------------------------------------------------------------------------
(* The operations.  Each extends a plan; a refused one has ok = FALSE.     *)

\* create_file and exfat_create_directory_impl: allocation and contents are
\* durable before the record is written.
EnterAt(p, n, place, scratch) ==
    LET s == [scratch EXCEPT !.at = place.at]
    IN  IF place.at = 0 THEN Refuse(free_file_clusters(p, scratch))
        ELSE Do(place.p, block_write(s.at, build_file_entry_set(n, s)) \o <<Table(n, s)>>)
Enter(p, n, kind, a) ==
    EnterAt(p, n, directory_free_offset(p, Parent(n)),
            Slot(kind, 0, IF a.cs = <<>> THEN 0 ELSE a.cs[1], Len(a.cs), a.nofat))

\* A mutant: the record is written before allocation and contents are durable.
create_file_unflushed(p, n, data) ==
    LET a == allocate_clusters(p.M, Len(data))
    IN  IF Len(a.cs) # Len(data) THEN Refuse(p)
        ELSE Enter(Do(p, AllocSteps(a) \o write_file_data(a, data)), n, "file", a)

create_file(p, n, data) ==
    LET a == allocate_clusters(p.M, Len(data))
    IN  IF Len(a.cs) # Len(data) THEN Refuse(p)
        ELSE Enter(Do(p, AllocSteps(a) \o write_file_data(a, data) \o <<Flush>>), n, "file", a)

exfat_create_directory_impl(p, n) ==
    LET a == [cs |-> allocate_contiguous_clusters(p.M, 1), nofat |-> TRUE]
    IN  IF a.cs = <<>> THEN Refuse(p)
        ELSE Enter(Do(p, AllocSteps(a) \o Put(a.cs[1], Zero) \o <<Flush>>), n, "dir", a)

\* Allocate for the tail and write it, link it to the old clusters, publish.
append_file(p, n, tail) ==
    LET s == p.table[n]
        a == allocate_clusters(p.M, Len(tail))
        c == ChainOf(p.M, s)
        links(cs) == Each("fat", Front(cs), LAMBDA i : cs[i+1])
        t == [s EXCEPT !.first = IF s.len = 0 THEN a.cs[1] ELSE @,
                       !.len = @ + Len(tail), !.nofat = FALSE]
    IN  IF Len(a.cs) # Len(tail) THEN Refuse(p)
        ELSE Do(p, AllocSteps(a)
                   \o (IF a.nofat THEN links(a.cs) ELSE <<>>)
                   \o (IF s.nofat /\ s.len > 0 THEN links(c) ELSE <<>>)
                   \o Each("data", a.cs, LAMBDA i : Unit(tail[i])) \o <<Flush>>
                   \o (IF s.len = 0 THEN <<>>
                       ELSE <<Write(<<"fat", c[s.len]>> :> a.cs[1]), Flush>>)
                   \o update_file_length(n, t) \o <<Flush>>)

Aliased(table, n) == \E m \in Names \ {n} : table[m].kind = "file" /\ table[m].first = table[n].first

\* Empty: publish, then free.  Pure append of a private file: append_file.
\* Otherwise new clusters, published and flushed before the old are freed.
overwrite_file(p, n, data) ==
    LET s == p.table[n]
        a == allocate_clusters(p.M, Len(data))
        empty == [s EXCEPT !.first = 0, !.len = 0, !.nofat = TRUE]
        t == [s EXCEPT !.first = a.cs[1], !.len = Len(data), !.nofat = a.nofat]
    IN  IF data = <<>>
        THEN free_file_clusters(Do(p, update_file_length(n, empty) \o <<Flush>>), s)
        ELSE IF s.len > 0 /\ Len(data) > s.len /\ ~Aliased(p.table, n)
                /\ IsPrefix(exfat_read_all(p.M, s), data)
        THEN append_file(p, n, SubSeq(data, s.len + 1, Len(data)))
        ELSE IF Len(a.cs) # Len(data) THEN Refuse(p)
        ELSE free_file_clusters(
                Do(p, AllocSteps(a) \o write_file_data(a, data) \o <<Flush>>
                      \o update_file_length(n, t) \o <<Flush>>), s)

exfat_write_file_impl(p, n, data) ==
    IF p.table[n].kind = "file" THEN overwrite_file(p, n, data) ELSE create_file(p, n, data)

\* The record goes before the clusters.
exfat_delete_file_impl(p, n) ==
    free_file_clusters(
        Do(p, write_deleted_entries(p.table[n].at) \o <<Flush, Table(n, NoSlot)>>), p.table[n])

exfat_delete_directory_impl(p, n) == exfat_delete_file_impl(p, n)

\* A wider name, or one in another directory, is written to a place of its own
\* before the old record goes.
Relocate(p, n, m, place) ==
    LET s == p.table[n]
        t == [s EXCEPT !.at = place.at]
    IN  IF place.at = 0 THEN Refuse(p)
        ELSE Do(place.p, block_write(t.at, build_file_entry_set(m, t)) \o write_deleted_entries(s.at)
                         \o <<Table(n, NoSlot), Table(m, t)>>)
Renamed(p, n, m) ==
    IF Parent(n) # Parent(m) \/ (m \in Wide /\ n \notin Wide) 
    THEN Relocate(p, n, m, directory_free_offset(p, Parent(m)))
    ELSE Do(p, block_write(p.table[n].at, build_file_entry_set(m, p.table[n]))
               \o <<Table(n, NoSlot), Table(m, p.table[n])>>)
rename_file_in_mount(p, n, m) == Renamed(p, n, m)
rename_empty_directory_in_mount(p, n, m) == Renamed(p, n, m)
exfat_rename_impl(p, n, m) ==
    IF p.table[n].kind = "file" THEN rename_file_in_mount(p, n, m)
    ELSE rename_empty_directory_in_mount(p, n, m)

\* The target's record takes the source's allocation; then the source's
\* record goes; then the target's old clusters.
exfat_replace_file(p, n, m) ==
    LET t == [p.table[n] EXCEPT !.at = p.table[m].at]
    IN  free_file_clusters(
            Do(p, block_write(t.at, build_file_entry_set(m, t)) \o <<Flush>>
                  \o write_deleted_entries(p.table[n].at) \o <<Flush>>
                  \o <<Table(n, NoSlot), Table(m, t)>>), p.table[m])

\* The sidecar is written under its temporary name and then renamed.
EnsureSide(p) == IF p.table[Side].kind = "dir" THEN p ELSE exfat_create_directory_impl(p, Side)
DropTemp(p) == IF p.ok /\ p.table[Temp].kind # None THEN exfat_delete_file_impl(p, Temp) ELSE p
WriteTemp(p, v) == IF p.ok THEN create_file(p, Temp, <<v>>) ELSE p
InstallTemp(p) ==
    IF ~p.ok THEN p
    ELSE IF p.table[Meta].kind # None THEN exfat_replace_file(p, Temp, Meta)
    ELSE rename_file_in_mount(p, Temp, Meta)
exfat_sync_mount_metadata_impl(p, v) == InstallTemp(WriteTemp(DropTemp(EnsureSide(p)), v))

---------------------------------------------------------------------------
(* Admission and completion of a mutation                                  *)

NoLease == [name |-> None, failed |-> FALSE, op |-> None]
stream_busy(n) == lease.name = n
Fresh == crashes * MaxOps + ops + 1     \* data no earlier mutation wrote

\* The outermost mutation marks the volume dirty, and clean again only when
\* everything else is durable; one that failed after a write leaves it dirty.
mutation_begin_result(body, syncs, what, from, to) ==
    /\ up /\ ~busy /\ ~blocked /\ ops < MaxOps
    /\ busy' = TRUE
    /\ good' = body.ok
    /\ plan' = <<Flags(2), Flush>> \o body.steps \o
               (IF body.ok THEN [i \in 1..syncs |-> Sync(Fresh, Written(body) \/ i > 1)] ELSE <<>>) \o
               (IF ~body.ok /\ Written(body) THEN <<Block>> ELSE <<Flush, Flags(0), Flush>>)
    /\ res' = "none"
    /\ ops' = ops + 1
    /\ old' = Contents(live, mem)
    /\ new' = [what EXCEPT ![Temp] = Absent]
    /\ moved' = <<from, to>>
    /\ UNCHANGED <<live, pend, up, mem, blocked, broken, crashes, faults>>

Mutate(p, n, change) ==
    /\ ~stream_busy(n)
    /\ mutation_begin_result(p, 1,
           (Meta :> <<"file", <<Fresh>>>>) @@ (Side :> <<"dir", <<>>>>) @@ change
           @@ Contents(live, mem), None, n)
    /\ UNCHANGED lease

\* k clusters of new data, or the present contents with one cluster more.
exfat_write_file(n, data) ==
    /\ mem[n].kind \in {None, "file"} /\ Len(data) <= MaxLen
    /\ Mutate(exfat_write_file_impl(Plan(live, mem), n, data), n, n :> <<"file", data>>)

exfat_create_directory(n) ==
    /\ mem[n].kind = None
    /\ Mutate(exfat_create_directory_impl(Plan(live, mem), n), n, n :> <<"dir", <<>>>>)

exfat_delete(n) ==
    /\ mem[n].kind # None
    /\ Mutate(IF mem[n].kind = "file" THEN exfat_delete_file_impl(Plan(live, mem), n)
              ELSE exfat_delete_directory_impl(Plan(live, mem), n), n, n :> Absent)

Move(p, n, m) ==
    /\ ~stream_busy(n) /\ ~stream_busy(m)
    /\ mutation_begin_result(p, 1,
           (Meta :> <<"file", <<Fresh>>>>) @@ (Side :> <<"dir", <<>>>>) @@ (n :> Absent)
           @@ (m :> Contents(live, mem)[n]) @@ Contents(live, mem), n, m)
    /\ UNCHANGED lease

exfat_rename(n, m) ==
    /\ mem[n].kind # None /\ mem[m].kind = None
    /\ Move(exfat_rename_impl(Plan(live, mem), n, m), n, m)

exfat_replace(n, m) ==
    /\ n # m /\ mem[n].kind = "file" /\ mem[m].kind = "file"
    /\ Move(exfat_replace_file(Plan(live, mem), n, m), n, m)

\* A mutant: room for the payload only.
stream_preflight_payload(k) == Cardinality(Free(live)) >= k

\* A stream starts a mutation only if payload and sidecar certainly fit.
stream_preflight(k) == Cardinality(Free(live)) >= MetaNeed + k + 1

exfat_stream_create(n) ==
    /\ mem[n].kind = None /\ lease.name = None /\ stream_preflight(0)
    /\ mutation_begin_result(create_file(Plan(live, mem), n, <<>>), 2,
           (Meta :> <<"file", <<Fresh>>>>) @@ (Side :> <<"dir", <<>>>>)
           @@ (n :> <<"file", <<>>>>) @@ Contents(live, mem), None, n)
    /\ lease' = [name |-> n, failed |-> FALSE, op |-> "create"]

exfat_stream_append(data) ==
    /\ lease.name # None /\ up /\ ~busy
    /\ IF lease.failed \/ blocked
       THEN /\ ~lease.failed
            /\ lease' = [lease EXCEPT !.failed = TRUE]
            /\ UNCHANGED <<media, up, mem, blocked, plan, good, busy, res, ghosts, counts>>
       ELSE LET n == lease.name
                whole == exfat_read_all(live, mem[n]) \o data
            IN  /\ Len(whole) <= MaxLen /\ stream_preflight(Len(data))
                /\ mutation_begin_result(append_file(Plan(live, mem), n, data), 1,
                       (Meta :> <<"file", <<Fresh>>>>) @@ (n :> <<"file", whole>>)
                       @@ Contents(live, mem), None, n)
                /\ lease' = [lease EXCEPT !.op = "append"]

\* A flush for the stream: a failed one blocks the volume.
StreamFlush(done, failed) ==
    /\ lease.name # None /\ up /\ ~busy
    /\ IF lease.failed \/ blocked
       THEN lease' = failed /\ UNCHANGED <<pend, blocked, broken, faults>>
       ELSE \/ lease' = done /\ pend' = {} /\ UNCHANGED <<blocked, broken, faults>>
            \/ /\ faults + crashes < MaxFault /\ faults' = faults + 1
               /\ lease' = failed /\ blocked' = TRUE /\ broken' = TRUE /\ UNCHANGED pend
    /\ UNCHANGED <<live, up, mem, plan, good, busy, res, old, new, moved, ops, crashes>>

exfat_stream_sync == StreamFlush(lease, [lease EXCEPT !.failed = TRUE])
exfat_stream_close == StreamFlush(NoLease, NoLease)

---------------------------------------------------------------------------
(* Issuing the commands                                                    *)

Superseded(put) == {<<l, live[l]>> : l \in DOMAIN put}

\* Run at the end of an operation that succeeded, from the media and tables it led to.
\* A sidecar that cannot be written makes the operation fail, and blocks the volume if
\* anything was written.
exfat_sync_mount_metadata ==
    /\ up /\ busy /\ plan # <<>> /\ Head(plan).do = "sync"
    /\ \E q \in {exfat_sync_mount_metadata_impl(Plan(live, mem), Head(plan).put[1])} :
        /\ good' = q.ok
        /\ plan' = q.steps \o
               (IF q.ok THEN Tail(plan)
                ELSE IF Head(plan).put[2] \/ Written(q) THEN <<Block>> ELSE <<Flush, Flags(0), Flush>>)
    /\ UNCHANGED <<media, up, mem, blocked, busy, res, lease, ghosts, counts>>

\* volume_write, volume_flush, write_volume_flags and the table updates.
Issue ==
    /\ up /\ busy /\ plan # <<>> /\ Head(plan).do # "sync"
    /\ LET s == Head(plan)
       IN  /\ live' = IF s.do \in {"write", "flags"} THEN s.put @@ live ELSE live
           /\ pend' = CASE s.do \in {"write", "flags"} -> pend \union Superseded(s.put)
                        [] s.do = "flush" -> {}
                        [] OTHER -> pend
           /\ mem' = IF s.do = "table" THEN s.put @@ mem ELSE mem
           /\ blocked' = (blocked \/ s.do = "block")
           /\ good' = (good /\ s.do # "block")
           /\ plan' = IF s.do = "block" THEN <<>> ELSE Tail(plan)
    /\ UNCHANGED <<up, busy, res, lease, ghosts, counts>>

\* A failed command blocks the volume; the rest of the operation, its own
\* clean-up included, is refused.  A clean mark that failed is written over.
volume_write_fails ==
    /\ up /\ busy /\ plan # <<>> /\ faults + crashes < MaxFault
    /\ LET s == Head(plan)
       IN  /\ s.do \in {"write", "flags", "flush"}
           /\ \/ UNCHANGED media
              \/ s.do # "flush" /\ live' = s.put @@ live /\ pend' = pend \union Superseded(s.put)
           /\ plan' = IF Len(plan) <= 3 /\ ~blocked THEN <<Flags(2), Flush>> ELSE <<>>
    /\ faults' = faults + 1
    /\ blocked' = TRUE /\ broken' = TRUE /\ good' = FALSE
    /\ UNCHANGED <<up, mem, busy, res, lease, old, new, moved, ops, crashes>>

\* The result is captured before the gate is released.
mutation_end_result ==
    /\ up /\ busy /\ plan = <<>>
    /\ busy' = FALSE
    /\ LET ok == good /\ ~blocked
       IN  /\ res' = IF ok THEN "ok" ELSE IF blocked THEN "failed" ELSE "retry"
           /\ lease' = IF ~ok /\ lease.op = "create" THEN NoLease
                       ELSE [lease EXCEPT !.op = None,
                                          !.failed = @ \/ (~ok /\ lease.op = "append")]
           /\ old' = IF ok THEN new ELSE old
           /\ new' = IF blocked THEN new ELSE IF ok THEN new ELSE old
           /\ moved' = IF blocked THEN moved ELSE <<None, None>>
    /\ UNCHANGED <<media, up, mem, blocked, plan, good, broken, counts>>

---------------------------------------------------------------------------
(* Power loss, offline repair, mounting                                    *)

\* For each location the last value written, or any it had since the flush.
Outcomes ==
    LET at(l) == {live[l]} \union {x[2] : x \in {y \in pend : y[1] = l}}
        unsure == {y[1] : y \in pend}
        choices == FoldSet(LAMBDA l, F : {(l :> v) @@ f : v \in at(l), f \in F}, {<<>>}, unsure)
    IN  {f @@ live : f \in choices}

Crash ==
    /\ up /\ crashes < MaxCrash /\ crashes' = crashes + 1
    /\ live' \in Outcomes
    /\ pend' = {} /\ up' = FALSE /\ mem' = [n \in Names |-> NoSlot]
    /\ plan' = <<>> /\ busy' = FALSE /\ res' = "none" /\ good' = TRUE
    /\ lease' = NoLease
    /\ UNCHANGED <<blocked, ghosts, ops, faults>>

\* exfat_unmount: nothing is open and no mutation runs.
exfat_unmount ==
    /\ up /\ ~busy /\ ~blocked /\ lease.name = None /\ crashes < MaxCrash
    /\ crashes' = crashes + 1
    /\ up' = FALSE /\ mem' = [n \in Names |-> NoSlot]
    /\ UNCHANGED <<media, blocked, plan, good, busy, res, lease, ghosts, ops, faults>>

\* The offline checker (external): torn records dropped, leaks freed, chains cut
\* to their files, the dirty mark cleared.  It runs on a volume found dirty; one
\* with two names for a moved directory is left as it is.
Repair ==
    /\ ~up /\ live[<<"flag", 0>>] # 0
    /\ \E t \in {scan_root_directory(live)} :
       LET ends == {ChainOf(live, t[n])[t[n].len] :
                       n \in {m \in Names : t[m].len > 0 /\ ~t[m].nofat}}
       IN  /\ check_duplicates(live, t)
           /\ live' = [l \in Loc |->
                       CASE l[1] = "flag" -> 0
                         [] l[1] = "bit" -> l[2] \in Used(live, t)
                         [] l[1] = "fat" /\ l[2] \in ends -> End
                         [] l[1] = "data" /\ l[2] \in TornRecords(live) -> Zero
                         [] OTHER -> live[l]]
           /\ old' = Contents(live, t) /\ new' = Contents(live, t)
    /\ moved' = <<None, None>>
    /\ UNCHANGED <<pend, kernel, broken, counts>>

\* Dirty or inconsistent media are mounted read-only.  A sidecar left under
\* its temporary name is put in place, by a mutation of its own.
mount_block_device ==
    /\ ~up /\ ScanAccepts(live)
    /\ \E t \in {scan_root_directory(live)} :
       LET shut == live[<<"flag", 0>>] # 0 \/ ~check_mount(live, t)
           body == IF t[Meta].kind # None THEN exfat_replace_file(Plan(live, t), Temp, Meta)
                   ELSE rename_file_in_mount(Plan(live, t), Temp, Meta)
           replay == ~shut /\ t[Temp].kind = "file" /\ t[Temp].len > 0
       IN  /\ up' = TRUE /\ mem' = t /\ blocked' = shut
           /\ busy' = replay
           /\ plan' = IF replay THEN <<Flags(2), Flush>> \o body.steps \o <<Flush, Flags(0), Flush>>
                      ELSE <<>>
           /\ old' = Contents(live, t)
           /\ new' = IF replay THEN [Contents(live, t) EXCEPT ![Temp] = Absent, ![Meta] = Contents(live, t)[Temp]]
                     ELSE Contents(live, t)
           /\ moved' = IF replay THEN <<Temp, Meta>> ELSE <<None, None>>
    /\ good' = TRUE /\ res' = "none" /\ broken' = FALSE
    /\ UNCHANGED <<media, lease, ops, crashes, faults>>

---------------------------------------------------------------------------
\* The volumes a run starts from, as completed mutations left them: a new one,
\* one with a short file, one with a second file and hardly any room, one with a
\* file of scattered clusters, and one that came with two names of one file.
Volume(t, data) ==
    [l \in Loc |->
        CASE l[1] = "flag" -> 0
          [] l[1] = "bit" -> l[2] \in {RootCluster} \union DOMAIN data
          [] l[1] = "fat" -> IF l[2] \in DOMAIN t THEN t[l[2]] ELSE 0
          [] OTHER -> IF l[2] \in DOMAIN data THEN data[l[2]] ELSE Zero]
Narrow == CHOOSE n \in Files : n \notin Wide
Other == CHOOSE n \in Files : n # Narrow
EmptyVolume == Volume(RootCluster :> End, <<>>)
AliasVolume ==
    LET e(n) == Cell("file", n, 3, 2, TRUE, 0)
    IN  Volume((1 :> 2) @@ (2 :> End) @@ (3 :> End) @@ (4 :> End),
               (1 :> e(Narrow)) @@ (2 :> e(Other)) @@ (3 :> Unit(91)) @@ (4 :> Unit(92)))
Entry(kind, n, first, len, nofat) == Cell(kind, n, first, len, nofat, 0)
OneFile ==
    Volume((1 :> 4) @@ [c \in 2..5 |-> End],
           (1 :> Entry("file", Narrow, 2, 1, TRUE)) @@ (2 :> Unit(91)) @@ (3 :> Entry("file", Meta, 5, 1, TRUE))
           @@ (4 :> Entry("dir", Side, 3, 1, TRUE)) @@ (5 :> Unit(90)))
TwoFiles ==
    Volume((1 :> 4) @@ (2 :> End) @@ (3 :> 10) @@ (4 :> 8) @@ [c \in 6..10 |-> End],
           (1 :> Entry("file", Narrow, 2, 1, TRUE)) @@ (2 :> Unit(91)) @@ (3 :> Entry("file", Meta, 9, 1, TRUE))
           @@ (4 :> Entry("dir", Side, 3, 2, FALSE)) @@ (6 :> Unit(92)) @@ (7 :> Unit(93))
           @@ (8 :> Entry("file", Other, 6, 2, TRUE)) @@ (9 :> Unit(90)) @@ (10 :> Zero))
Scattered ==
    Volume((1 :> 4) @@ (2 :> 6) @@ (3 :> 8) @@ (4 :> End) @@ [c \in 6..8 |-> End],
           (1 :> Entry("file", Narrow, 2, 2, FALSE)) @@ (2 :> Unit(91)) @@ (3 :> Entry("file", Meta, 7, 1, TRUE))
           @@ (4 :> Entry("dir", Side, 3, 2, FALSE)) @@ (6 :> Unit(92)) @@ (7 :> Unit(90)) @@ (8 :> Zero))

Init ==
    /\ live \in {EmptyVolume, AliasVolume, OneFile, TwoFiles, Scattered}
    /\ lease \in {NoLease, [NoLease EXCEPT !.name = Narrow]}
    /\ lease # NoLease => live = OneFile
    /\ pend = {} /\ up = TRUE /\ mem = scan_root_directory(live)
    /\ blocked = FALSE /\ plan = <<>> /\ good = TRUE /\ busy = FALSE /\ res = "none"
    /\ old = OnMedia(live) /\ new = OnMedia(live) /\ moved = <<None, None>>
    /\ broken = FALSE /\ ops = 0 /\ crashes = 0 /\ faults = 0

Next ==
    \/ \E n \in Files, k \in 0..MaxLen : exfat_write_file(n, [i \in 1..k |-> Fresh])
    \/ \E n \in Files : mem[n].kind = "file" /\
           exfat_write_file(n, Append(exfat_read_all(live, mem[n]), Fresh))
    \/ \E n \in Files : exfat_create_directory(n)
    \/ \E n \in Files : exfat_delete(n)
    \/ \E n, m \in Files : exfat_rename(n, m)
    \/ \E n, m \in Files : exfat_replace(n, m)
    \/ \E n \in Files : exfat_stream_create(n)
    \/ exfat_stream_append(<<Fresh>>)
    \/ exfat_stream_sync
    \/ exfat_stream_close
    \/ Issue
    \/ exfat_sync_mount_metadata
    \/ volume_write_fails
    \/ mutation_end_result
    \/ Crash
    \/ exfat_unmount
    \/ Repair
    \/ mount_block_device

Spec == Init /\ [][Next]_vars

---------------------------------------------------------------------------
(* Properties                                                              *)

CellType == [kind : {"zero", "torn", "data", "file", "dir"}, name : Names \union {None},
             first : 0..NC, len : 0..NC, nofat : BOOLEAN, val : Nat]
SlotType == [kind : {None, "file", "dir"}, at : 0..NC, first : 0..NC, len : 0..NC,
             nofat : BOOLEAN]
TypeOK ==
    /\ \A c \in Clusters : live[<<"bit", c>>] \in BOOLEAN /\ live[<<"fat", c>>] \in 0..End
                          /\ live[<<"data", c>>] \in CellType
    /\ \A x \in pend : x[1] \in Loc
    /\ mem \in [Names -> SlotType]
    /\ res \in {"none", "ok", "failed", "retry"}
    /\ lease \in [name : Files \union {None}, failed : BOOLEAN, op : {None, "create", "append"}]
    /\ busy => up

\* The records of the volume name clusters that are marked, and their own: only
\* the two names of a file or directory being moved have the same ones.
Covered(M, t) ==
    LET named == {n \in Names : t[n].kind # None}
        of == [n \in named |-> Range(ChainOf(M, t[n]))]
    IN  /\ \A n, m \in named : \/ n = m \/ of[n] \intersect of[m] = {}
                               \/ SameAllocation(t[n], t[m])
        /\ \A n \in named : /\ Cardinality(of[n]) = t[n].len
                            /\ \A c \in of[n] : c # 0 /\ M[<<"bit", c>>]
        /\ check_directory_clusters(M, t)

\* A rename that writes the new name over the old one.
InPlace(n, m) == Parent(n) = Parent(m) /\ ~(m \in Wide /\ n \notin Wide) /\ old[m] = Absent

\* What a power loss leaves.  No record names a free cluster or one of another
\* file, and each name has its contents from before or from after the
\* interrupted mutation.  Only a record the mutation was writing can be torn,
\* its name is then lost, and the volume is marked
\* dirty; no other file is touched.  A file being renamed or replaced is still
\* there under one of its names, unless its only record was being rewritten in
\* place and is torn.  A volume without a torn record can be mounted, and one
\* marked clean needs no repair (the order of writes and flushes in create_file,
\* overwrite_file, append_file, write_deleted_entries, exfat_replace_file and
\* mutation_end_result; the sectors of block_write).
VolumeSurvives ==
    TypeOK /\ (~up =>
        LET t == scan_root_directory(live)
            now == Contents(live, t)
            torn == TornRecords(live) # {}
        IN  /\ torn \/ ScanAccepts(live)
            /\ Covered(live, t)
            /\ \A n \in Names \ {Temp} :
                  \/ now[n] \in {old[n], new[n]}
                  \/ torn /\ now[n] = Absent /\ n \in {Side, Meta} \union Range(moved)
            /\ moved[1] # None /\ ~(torn /\ InPlace(moved[1], moved[2])) =>
                  old[moved[1]] \in {now[moved[1]], now[moved[2]]}
            /\ live[<<"flag", 0>>] = 0 => check_mount(live, t) /\ ~torn)

AppendFits(p) == p.ok /\ exfat_sync_mount_metadata_impl(Plan(p.M, p.table), 1).ok

\* Between mutations a writable volume is clean and durable, the tables of the
\* mount are what a scan would build, and every name has exactly the contents
\* the last successful mutation gave it; a refused mutation changed nothing.
\* And a stream append that stream_preflight admits never runs out of clusters
\* half way, which would block the volume.
MountFaithful ==
    up /\ ~busy /\ ~blocked =>
        /\ live[<<"flag", 0>>] = 0 /\ pend = {}
        /\ scan_root_directory(live) =
              [n \in Names |-> [mem[n] EXCEPT !.nofat = @ /\ mem[n].len # 0]]
        /\ check_mount(live, mem)
        /\ \A n \in Names \ {Temp} : Contents(live, mem)[n] = old[n]
        /\ lease.name # None /\ stream_preflight(1) => AppendFits(append_file(Plan(live, mem), lease.name, <<1>>))
=============================================================================

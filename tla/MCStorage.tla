----------------------------- MODULE MCStorage -----------------------------
(***************************************************************************)
(* From disks to files.  claims: a disk with two partitions, an image in   *)
(* the second, and a view that reaches past its disk.  cache: a disk and a *)
(* view of it behind two cache entries.  content: two files, two open      *)
(* descriptions.  ranges: two processes lock ranges of a file, with        *)
(* offsets three bits wide; the requests are from the start, backwards,    *)
(* open-ended and overflowing.  closes: two threads of a process lock and  *)
(* close one descriptor.  nodes: three names and volumes that bring the    *)
(* same inode numbers.  view: the kernel's bindings, whose targets         *)
(* overlap, and one that would chain.  part picks the one that moves, so   *)
(* that TLC explores the union of their state spaces.                      *)
(***************************************************************************)
EXTENDS BlockClaim, Integers, TLC

CONSTANTS f1, f2, d1, d2, None

VARIABLES
    part,
    media, cache, used, writable, lease, claimed, poisoned, gone, written, acked,
    vfs, contents, descs, blocked, created, saved, torn, lost,
    fds, generations, locks, th, held,
    nodes, live, next_inode,
    tree, view, notified

TheDevices == {"disk", "p1", "p2", "image", "long"}
TheBacking ==
    [d \in TheDevices |-> CASE d = "disk" -> "none" [] d = "image" -> "p2" [] OTHER -> "disk"]
TheBackingOffset ==
    [d \in TheDevices |-> CASE d = "p2" -> 3 [] d \in {"image", "long"} -> 1 [] OTHER -> 0]
TheSize ==
    [d \in TheDevices |-> CASE d \in {"disk", "long"} -> 6 [] d = "image" -> 1 [] OTHER -> 3]

Cache == INSTANCE BlockCache WITH
    Blocks <- {0, 1}, ViewOffset <- 1, ViewBlocks <- 1, Parts <- {1, 2}, Entries <- {1, 2},
    MaxBatch <- 2, MaxWrites <- 2, Unknown <- None, offline <- gone

Content == INSTANCE FileContent WITH
    Paths <- {f1, f2}, Descs <- {d1, d2}, Contents <- {1, 2}, MaxRefs <- 2, MaxFiles <- 2,
    MaxWrites <- 2, NoFile <- None, NoDesc <- None, written <- saved

Ranges == INSTANCE FileLocks WITH
    Procs <- {1, 2}, Threads <- {1, 3}, Owner <- [t \in {1, 3} |-> IF t = 3 THEN 2 ELSE 1],
    Fds <- {0}, Contents <- {1}, PROCESS_MAX_FILE_LOCKS <- 3, INT64_MAX <- 3,
    Requests <- {<<0, 0, 0>>, <<0, 1, 1>>, <<2, 1, -2>>, <<1, 0, 4>>}, MaxGeneration <- 0

Closes == INSTANCE FileLocks WITH
    Procs <- {1, 2}, Threads <- {1, 2, 3},
    Owner <- [t \in {1, 2, 3} |-> IF t = 3 THEN 2 ELSE 1],
    Fds <- {0}, Contents <- {1}, PROCESS_MAX_FILE_LOCKS <- 2, INT64_MAX <- 1,
    Requests <- {<<0, 0, 0>>}, MaxGeneration <- 1

Table == INSTANCE VfsTable WITH
    Paths <- {<<>>, <<"a">>, <<"a", "b">>, <<"c">>}, Slots <- 3, InodeMod <- 5, Imported <- {1, 4}

ViewPaths == {<<>>, <<"bin">>, <<"bin", "x">>, <<"usr">>, <<"usr", "y">>, <<"fat">>,
              <<"fat", "bin">>, <<"fat", "bin", "x">>, <<"fat", "y">>}
System == << <<<<"bin">>, <<"fat", "bin">>>>, <<<<"usr">>, <<"fat">>>> >>
Chained == << <<<<"usr">>, <<"fat", "bin">>>>, <<<<"fat", "bin", "y">>, <<"bin">>>> >>

View == INSTANCE VfsView WITH
    Paths <- ViewPaths, PathMax <- 3, Bindings <- {System, Chained}

ASSUME /\ Cache!CacheAssumption /\ Content!ContentAssumption /\ Ranges!LocksAssumption
       /\ Closes!LocksAssumption /\ Table!VfsAssumption /\ View!ViewAssumption

\* The names of files, and the open descriptions, are alike.
Symmetric == Permutations({f1, f2}) \cup Permutations({d1, d2})

cacheVars == <<media, cache, used, writable, lease, claimed, poisoned, gone, written, acked>>
contentVars == <<vfs, contents, descs, blocked, created, saved, torn, lost>>
lockVars == <<fds, generations, locks, th, held>>
tableVars == <<nodes, live, next_inode>>
viewVars == <<tree, view, notified>>
allVars == <<part, vars, cacheVars, contentVars, lockVars, tableVars, viewVars>>

InitAll ==
    /\ part \in {"claims", "cache", "content", "ranges", "closes", "nodes", "view"}
    /\ Init /\ Cache!Init /\ Content!Init
    /\ IF part = "closes" THEN Closes!Init ELSE Ranges!Init
    /\ Table!Init /\ View!Init

ClaimsMove == part = "claims" /\ Next /\ UNCHANGED <<cacheVars, contentVars, lockVars, tableVars, viewVars>>
CacheMoves == part = "cache" /\ Cache!Next /\ UNCHANGED <<vars, contentVars, lockVars, tableVars, viewVars>>
ContentMoves == part = "content" /\ Content!Next /\ UNCHANGED <<vars, cacheVars, lockVars, tableVars, viewVars>>
LocksMove ==
    /\ \/ part = "ranges" /\ Ranges!Next
       \/ part = "closes" /\ Closes!Next
    /\ UNCHANGED <<vars, cacheVars, contentVars, tableVars, viewVars>>
TableMoves == part = "nodes" /\ Table!Next /\ UNCHANGED <<vars, cacheVars, contentVars, lockVars, viewVars>>
ViewMoves == part = "view" /\ View!Next /\ UNCHANGED <<vars, cacheVars, contentVars, lockVars, tableVars>>

NextAll ==
    /\ UNCHANGED part
    /\ \/ ClaimsMove \/ CacheMoves \/ ContentMoves \/ LocksMove \/ TableMoves \/ ViewMoves

SpecAll == InitAll /\ [][NextAll]_allVars

-----------------------------------------------------------------------------
(* The properties that the components state, besides ClaimsSound.          *)

\* block_read, block_write, open_raw: the cache is the disk, reported writes stay.
CacheSound == part = "cache" => Cache!CacheSound

\* content_acquire, process_unlink_file, process_rename: names and objects agree, and
\* content_flush, process_file_close: what is reported stored is stored.
ContentSound == part = "content" => Content!ContentSound /\ Content!SavedOrReported

\* process_file_set_lock: the table is what the calls were promised.
LocksSound ==
    /\ part = "ranges" => Ranges!LocksSound
    /\ part = "closes" => Closes!LocksSound

\* vfs_register, allocate_inode: paths and inode numbers name one node, and
\* vfs_namespace_lookup, vfs_namespace_system_list: the view leads to what it shows.
NamesSound ==
    /\ part = "nodes" => Table!NodesDistinct
    /\ part = "view" => View!ViewSound
=============================================================================

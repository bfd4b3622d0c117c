------------------------------- MODULE VfsTable -------------------------------
(***************************************************************************)
(* The node table of the virtual filesystem (kernel/src/vfs.c): the slots, *)
(* the sorted list of the live ones and the inode numbers.  Callers hold   *)
(* filesystem exclusion, so every call is one step.  A path is the         *)
(* sequence of its components.                                             *)
(***************************************************************************)
EXTENDS Naturals, Sequences, SequencesExt, FiniteSetsExt

CONSTANTS
    Paths,      \* canonical paths in use, <<>> is the root
    Slots,      \* VFS_MAX_NODES
    InodeMod,   \* inode numbers wrap at 2^64
    Imported,   \* inode numbers found on media
    None

VfsAssumption ==
    /\ <<>> \in Paths
    /\ Slots \in Nat /\ InodeMod \in Nat /\ Slots + 1 < InodeMod
    /\ Imported \subseteq 0 .. InodeMod - 1

VARIABLES
    nodes,      \* slot -> [path, type, inode], or None when not used
    live,       \* live_slots[0..node_count)
    next_inode

vars == <<nodes, live, next_inode>>

Slot == 1 .. Slots
Used == {s \in Slot : nodes[s] # None}

under(path, prefix) == IsPrefix(prefix, path)

At(path) == {s \in Used : nodes[s].path = path}

Init ==
    /\ nodes = [s \in Slot |-> IF s = 1 THEN [path |-> <<>>, type |-> "directory", inode |-> 1] ELSE None]
    /\ live = <<1>>
    /\ next_inode = 2

-----------------------------------------------------------------------------
(* Inode numbers.                                                           *)

inode_in_use(inode, self) == \E s \in Used \ {self} : nodes[s].inode = inode

\* the first number from next_inode on that is neither zero nor in use
allocate_inode(from) ==
    LET candidate(k) == (from + k) % InodeMod
        free == {k \in 0 .. InodeMod - 1 : candidate(k) # 0 /\ ~inode_in_use(candidate(k), None)} IN
    candidate(Min(free))

\* Mutant: a number found on the media is taken as it is
import_verbatim(inode, self) == IF inode = 0 THEN allocate_inode(next_inode) ELSE inode

\* the number a node gets for the one its metadata asks for; 0 asks for none
import_metadata(inode, self) ==
    IF inode = 0 \/ inode_in_use(inode, self) THEN allocate_inode(next_inode) ELSE inode

\* next_inode afterwards: past the allocated one, then past the imported one
NextInode(inode, got) ==
    LET allocated == IF got = inode /\ inode # 0 THEN next_inode ELSE (got + 1) % InodeMod IN
    IF got >= allocated THEN (got + 1) % InodeMod ELSE allocated

-----------------------------------------------------------------------------
(* The table.                                                               *)

\* publish_slot keeps the live slots sorted
publish_slot(s) ==
    live' = SelectSeq(live, LAMBDA t : t < s) \o <<s>> \o SelectSeq(live, LAMBDA t : t > s)

\* vfs_register_file_with_metadata, vfs_register_directory_with_metadata: a
\* new node in the first free slot, or new metadata for the one that is there.
\* An inode of 0 stands for no metadata.
vfs_register(path, type, inode) ==
    /\ path # <<>>
    /\ \/ \E s \in At(path) :
             /\ type = "file" => nodes[s].type = "file"
             /\ inode # 0
             /\ nodes' = [nodes EXCEPT ![s].inode = import_metadata(inode, s)]
             /\ next_inode' = NextInode(inode, import_metadata(inode, s))
             /\ UNCHANGED live
       \/ /\ At(path) = {}
          /\ \E s \in Slot \ Used :
                /\ \A t \in Slot \ Used : s <= t
                /\ nodes' = [nodes EXCEPT ![s] = [path |-> path, type |-> type, inode |-> import_metadata(inode, None)]]
                /\ publish_slot(s)
          /\ next_inode' = NextInode(inode, import_metadata(inode, None))

Withdraw(gone) ==
    /\ nodes' = [s \in Slot |-> IF s \in gone THEN None ELSE nodes[s]]
    /\ live' = SelectSeq(live, LAMBDA s : s \notin gone)

vfs_unregister_path(path) ==
    /\ path # <<>> /\ At(path) # {}
    /\ Withdraw(At(path))
    /\ UNCHANGED next_inode

\* a volume with all it holds
vfs_unregister_prefix(prefix) ==
    LET gone == {s \in Used : under(nodes[s].path, prefix)} IN
    /\ prefix # <<>> /\ gone # {}
    /\ Withdraw(gone)
    /\ UNCHANGED next_inode

\* Mutant: the replaced node stays
replace_beside(old, new) ==
    \E s \in At(old), t \in At(new) :
        /\ s # t /\ nodes[s].type = "file" /\ nodes[t].type = "file"
        /\ nodes' = [nodes EXCEPT ![s].path = new]
        /\ UNCHANGED <<live, next_inode>>

\* One file takes the name, not the identity, of another
vfs_replace_file_path(old, new) ==
    \E s \in At(old), t \in At(new) :
        /\ s # t /\ nodes[s].type = "file" /\ nodes[t].type = "file"
        /\ nodes' = [nodes EXCEPT ![s].path = new, ![t] = None]
        /\ live' = SelectSeq(live, LAMBDA u : u # t)
        /\ UNCHANGED next_inode

vfs_set_metadata(path, inode) ==
    \E s \in At(path) :
        /\ nodes' = [nodes EXCEPT ![s].inode = import_metadata(inode, s)]
        /\ next_inode' = NextInode(inode, import_metadata(inode, s))
        /\ UNCHANGED live

Next ==
    \/ \E path \in Paths, type \in {"file", "directory"}, inode \in Imported \cup {0} :
          vfs_register(path, type, inode)
    \/ \E path \in Paths : vfs_unregister_path(path) \/ vfs_unregister_prefix(path)
    \/ \E old, new \in Paths : vfs_replace_file_path(old, new)
    \/ \E path \in Paths, inode \in Imported : vfs_set_metadata(path, inode)

Spec == Init /\ [][Next]_vars

-----------------------------------------------------------------------------
(* Correctness.                                                             *)

\* Types: the list of live slots is sorted and names exactly the used nodes.
TypeOK ==
    /\ \A s \in Used : /\ nodes[s].path \in Paths
                       /\ nodes[s].type \in {"file", "directory"}
                       /\ nodes[s].inode \in 1 .. InodeMod - 1
    /\ Range(live) = Used
    /\ \A i, j \in 1 .. Len(live) : i < j => live[i] < live[j]
    /\ next_inode \in 0 .. InodeMod - 1

\* No two nodes share an identity: not after a wrap of the counter, and not
\* when two volumes bring the same number.
InodesUnique ==
    \A s, t \in Used : nodes[s].inode = nodes[t].inode => s = t

\* A path names at most one node.
NamesUnique ==
    \A s, t \in Used : nodes[s].path = nodes[t].path => s = t

\* Nodes are told apart by their names and by their inode numbers.
NodesDistinct ==
    /\ TypeOK
    /\ InodesUnique
    /\ NamesUnique
=============================================================================

------------------------------- MODULE VfsView -------------------------------
(***************************************************************************)
(* The system view of the filesystem (kernel/src/vfs_namespace.c): /bin,   *)
(* /usr, /var and /home are bound to directories of the storage volume.    *)
(* A binding is dropped before the nodes it leads to are withdrawn from    *)
(* the table (kernel/src/vfs.c calls the view back).                       *)
(*                                                                         *)
(* Callers hold filesystem exclusion, so every call is one step.  A path   *)
(* is the sequence of its components.  Storage drivers keep the tree a     *)
(* tree: they publish a node under a directory and withdraw a directory    *)
(* when it is empty, or with everything below it.                          *)
(***************************************************************************)
EXTENDS Naturals, Sequences, SequencesExt, FiniteSetsExt

CONSTANTS
    Paths,      \* canonical paths in use, <<>> is the root
    PathMax,    \* longest path
    Bindings,   \* sequences of <<source, target>> that are activated
    None

ViewAssumption ==
    /\ <<>> \in Paths
    /\ \A path \in Paths : path # <<>> => Front(path) \in Paths

VARIABLES
    tree,       \* path -> "file", "directory", or None
    view,       \* system_view: the sequence of its mappings
    notified    \* retire_callback is set

vars == <<tree, view, notified>>

under(path, prefix) == IsPrefix(prefix, path)
overlaps(a, b) == under(a, b) \/ under(b, a)

Nodes == {path \in Paths : tree[path] # None}
directory(path) == path \in Paths /\ tree[path] = "directory"
parents_are_directories(path) ==
    directory(<<>>) /\ \A n \in 1 .. Len(path) - 1 : directory(SubSeq(path, 1, n))

Init ==
    /\ tree = [path \in Paths |-> IF path = <<>> THEN "directory" ELSE None]
    /\ view = <<>>
    /\ notified = FALSE

-----------------------------------------------------------------------------
(* The storage driver publishes and withdraws nodes.                        *)

vfs_register(path, type) ==
    /\ tree[path] = None /\ parents_are_directories(path)
    /\ tree' = [tree EXCEPT ![path] = type]
    /\ UNCHANGED <<view, notified>>

\* Mutant: only a mapping to the very path goes
system_retire_exact(path) ==
    SelectSeq(view, LAMBDA m : m[2] # path)

\* the mappings that touch what goes
system_retire(path) ==
    SelectSeq(view, LAMBDA m : ~under(m[1], path) /\ ~under(m[2], path))

\* vfs_unregister_path and vfs_unregister_prefix: the callback comes first
vfs_unregister(path) ==
    /\ path # <<>> /\ \E p \in Nodes : under(p, path)
    /\ view' = IF notified THEN system_retire(path) ELSE view
    /\ tree' = [p \in Paths |-> IF under(p, path) THEN None ELSE tree[p]]
    /\ UNCHANGED notified

\* a file takes the name of another
vfs_replace_file_path(old, new) ==
    /\ old # new /\ tree[old] = "file" /\ tree[new] = "file"
    /\ view' = IF notified THEN system_retire(new) ELSE view
    /\ tree' = [tree EXCEPT ![old] = None]
    /\ UNCHANGED notified

-----------------------------------------------------------------------------
(* The view.                                                                *)

source_unoccupied(source) == \A p \in Nodes : ~under(p, source)

\* Mutant: a new source may lie below a target
Bindable_chained(m, before) ==
    /\ m[1] # <<>> /\ directory(m[2])
    /\ parents_are_directories(m[1]) /\ parents_are_directories(m[2])
    /\ source_unoccupied(m[1])
    /\ \A i \in 1 .. Len(before) : ~overlaps(m[1], before[i][1])

\* vfs_namespace_bind's conditions on a mapping, given those before it
Bindable(m, before) ==
    /\ m[1] # <<>> /\ ~overlaps(m[1], m[2])
    /\ directory(m[2])
    /\ parents_are_directories(m[1]) /\ parents_are_directories(m[2])
    /\ source_unoccupied(m[1])
    /\ \A i \in 1 .. Len(before) :
          /\ ~overlaps(m[1], before[i][1])
          /\ ~overlaps(m[1], before[i][2])
          /\ ~overlaps(m[2], before[i][1])

\* all of the mappings or none
vfs_namespace_system_activate(bindings) ==
    /\ \A i \in 1 .. Len(bindings) : Bindable(bindings[i], SubSeq(bindings, 1, i - 1))
    /\ view' = bindings
    /\ notified' = TRUE
    /\ UNCHANGED tree

\* vfs_init starts the table over
vfs_init ==
    /\ tree' = [path \in Paths |-> IF path = <<>> THEN "directory" ELSE None]
    /\ view' = IF notified THEN system_retire(<<>>) ELSE view
    /\ notified' = FALSE

\* Mutant: what the mapping leads to is not looked at
Resolve_blind(path) ==
    LET bound == {i \in 1 .. Len(view) : under(path, view[i][1])}
        m == view[Min(bound)]
        resolved == IF bound = {} THEN path ELSE m[2] \o SubSeq(path, Len(m[1]) + 1, Len(path)) IN
    IF Len(resolved) <= PathMax /\ parents_are_directories(resolved) THEN resolved ELSE None

\* vfs_namespace_resolve; None: no such path
Resolve(path) ==
    LET bound == {i \in 1 .. Len(view) : under(path, view[i][1])}
        m == view[Min(bound)]
        resolved == IF bound = {} THEN path ELSE m[2] \o SubSeq(path, Len(m[1]) + 1, Len(path)) IN
    IF /\ bound # {} => parents_are_directories(m[1]) /\ source_unoccupied(m[1]) /\ directory(m[2])
       /\ Len(resolved) <= PathMax
       /\ parents_are_directories(resolved)
    THEN resolved ELSE None

\* vfs_namespace_lookup: the raw path found under a name, if there is one
vfs_namespace_lookup(path) == IF Resolve(path) = None THEN {} ELSE {Resolve(path)} \cap Nodes

system_mapping_node(i) == vfs_namespace_lookup(view[i][1])
Shown == {i \in 1 .. Len(view) : system_mapping_node(i) # {}}

\* Mutant: the shown name keeps the last component of the target
Projected_long(i) ==
    {<<view[i][1] \o SubSeq(p, Len(view[i][2]), Len(p)), p>> : p \in {q \in Nodes : under(q, view[i][2])}}

\* the nodes a mapping shows, each with the name it shows
Projected(i) ==
    {<<view[i][1] \o SubSeq(p, Len(view[i][2]) + 1, Len(p)), p>> : p \in {q \in Nodes : under(q, view[i][2])}}

\* every raw node under its own name, then what the mappings show
vfs_namespace_system_list ==
    {<<p, p>> : p \in Nodes} \cup UNION {Projected(i) : i \in Shown}

Next ==
    \/ \E path \in Paths, type \in {"file", "directory"} : vfs_register(path, type)
    \/ \E path \in Paths : vfs_unregister(path)
    \/ \E old, new \in Paths : vfs_replace_file_path(old, new)
    \/ \E bindings \in Bindings : vfs_namespace_system_activate(bindings)
    \/ vfs_init

Spec == Init /\ [][Next]_vars

-----------------------------------------------------------------------------
(* Correctness.                                                             *)

\* Types: the nodes form a tree.
TypeOK ==
    /\ tree \in [Paths -> {"file", "directory", None}]
    /\ tree[<<>>] = "directory"
    /\ \A path \in Nodes : parents_are_directories(path)
    /\ notified \in BOOLEAN

\* Every mapping of the view leads to a live directory: what is withdrawn
\* takes its mappings along before it goes.
TargetsLive ==
    \A i \in 1 .. Len(view) : directory(view[i][2])

\* Resolution happens once: what comes out is not itself bound, so resolving
\* it again changes nothing.
ResolveOnce ==
    \A path \in Paths :
        Resolve(path) # None =>
            /\ \A i \in 1 .. Len(view) : ~under(Resolve(path), view[i][1])
            /\ Resolve(Resolve(path)) = Resolve(path)

\* path is at or below a bound name.
Bound(path) == \E i \in 1 .. Len(view) : under(path, view[i][1])

\* vfs_namespace_system_list and vfs_namespace_system_lookup agree: under every name
\* that is listed its node is found, and no name is listed twice.  The one exception is
\* a raw node published at or below a bound name: it is listed and refused.
ListedIsFound ==
    \A e, f \in vfs_namespace_system_list :
        /\ vfs_namespace_lookup(e[1]) = IF e[1] = e[2] /\ Bound(e[1]) THEN {} ELSE {e[2]}
        /\ e[1] = f[1] => e = f

\* A name never leads past the raw node that has it: where a node was published at or
\* below a bound name, the whole name is refused (the attachment fails closed), and
\* every other node is reached by its own path.
NothingHidden ==
    \A path \in Nodes : Resolve(path) = IF Bound(path) THEN None ELSE path

\* The system view leads to live directories, in one step, shows what it leads to,
\* and refuses a name that has a node of its own.
ViewSound ==
    /\ TypeOK
    /\ TargetsLive
    /\ ResolveOnce
    /\ ListedIsFound
    /\ NothingHidden
=============================================================================

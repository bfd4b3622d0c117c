----------------------------- MODULE FileLocks -----------------------------
(***************************************************************************)
(* Advisory record locks (process_file_set_lock, file_lock_* in            *)
(* kernel/src/process.c).  A bounded table of byte ranges belongs to       *)
(* (process, content) pairs; a content is a slot that is freed with its    *)
(* last descriptor and then stands for another file.  Closing any          *)
(* descriptor of a file gives up the locks the process has on it.          *)
(***************************************************************************)
EXTENDS Integers, FiniteSets

CONSTANTS
    Procs, Threads, Owner,      \* Owner[t]: the process of thread t
    Fds, Contents,
    PROCESS_MAX_FILE_LOCKS,
    INT64_MAX,                  \* scaled down with UINT64_MAX == 2 * INT64_MAX + 1
    Requests,                   \* triples base, start, len of lock requests
    MaxGeneration

LocksAssumption ==
    /\ Owner \in [Threads -> Procs] /\ IsFiniteSet(Contents)
    /\ INT64_MAX \in Nat \ {0} /\ PROCESS_MAX_FILE_LOCKS \in Nat \ {0}

UINT64_MAX == 2 * INT64_MAX + 1
INT64_MIN == -INT64_MAX - 1
Bytes == 0..UINT64_MAX - 1
Types == {"RDLCK", "WRLCK", "UNLCK"}

VARIABLES
    fds,            \* fds[p][fd]: the content behind a descriptor, 0 when closed
    generations,    \* generations[p][fd]
    locks,          \* the used entries of file_locks
    th,             \* th[t]: the call it is in
    held            \* held[p][c][b]: what the successful calls promised for byte b

vars == <<fds, generations, locks, th, held>>

Idle == [pc |-> "idle"]
Unlocked == [b \in Bytes |-> "UNLCK"]

Init ==
    /\ fds = [p \in Procs |-> [fd \in Fds |-> 0]]
    /\ generations = [p \in Procs |-> [fd \in Fds |-> 0]]
    /\ locks = {}
    /\ th = [t \in Threads |-> Idle]
    /\ held = [p \in Procs |-> [c \in Contents |-> Unlocked]]

-----------------------------------------------------------------------------
(* file_lock_range_for_fd: signed base and length to a half-open range *)

NoRange == [start |-> 0, end |-> 0]

\* A mutant: a negative length ends at the byte it starts from.
RangeInclusive(base, start, len) ==
    LET point == base + start IN
    IF point < 0 \/ point > INT64_MAX \/ base > INT64_MAX THEN NoRange
    ELSE IF len < 0 THEN IF len = INT64_MIN \/ point < -len THEN NoRange
                         ELSE [start |-> point + len, end |-> point + 1]
    ELSE IF len = 0 THEN [start |-> point, end |-> UINT64_MAX]
    ELSE IF point + len > INT64_MAX + 1 THEN NoRange
    ELSE [start |-> point, end |-> point + len]

Range(base, start, len) ==
    LET point == base + start IN
    IF point < 0 \/ point > INT64_MAX \/ base > INT64_MAX THEN NoRange
    ELSE IF len < 0 THEN IF len = INT64_MIN \/ point < -len THEN NoRange
                         ELSE [start |-> point + len, end |-> point]
    ELSE IF len = 0 THEN [start |-> point, end |-> UINT64_MAX]
    ELSE IF point + len > INT64_MAX + 1 THEN NoRange
    ELSE [start |-> point, end |-> point + len]

\* What fcntl promises for such a request: the bytes meant, in plain integers.
Meant(r) ==
    LET point == r[1] + r[2] IN
    {b \in Bytes : IF r[3] < 0 THEN point + r[3] <= b /\ b < point
                   ELSE IF r[3] = 0 THEN point <= b ELSE point <= b /\ b < point + r[3]}

overlap(a, b) == a.start < b.end /\ b.start < a.end

\* A mutant: a reader's request does not mind a writer's lock.
ConflictsWritersOnly(p, c, range, type) ==
    {l \in locks : l.pid # p /\ l.content = c /\ overlap(l, range) /\ type = "WRLCK"}

\* file_lock_conflict
Conflicts(p, c, range, type) ==
    {l \in locks : /\ l.pid # p /\ l.content = c /\ overlap(l, range)
                   /\ type = "WRLCK" \/ l.type = "WRLCK"}

-----------------------------------------------------------------------------
(* file_lock_update: split what the range cuts, add it, merge what touches *)

Covered(S, p, c, type) == {b \in Bytes : \E l \in S : /\ l.pid = p /\ l.content = c /\ l.type = type
                                                      /\ l.start <= b /\ b < l.end}
Runs(cover) == {r \in [start : Bytes, end : 1..UINT64_MAX] :
    /\ r.start < r.end /\ r.start..r.end - 1 \subseteq cover
    /\ r.start - 1 \notin cover /\ r.end \notin cover}
Merged(S, p, c) ==
    {l \in S : l.pid # p \/ l.content # c}
    \cup UNION {{[pid |-> p, content |-> c, start |-> r.start, end |-> r.end, type |-> type] :
                    r \in Runs(Covered(S, p, c, type))} : type \in {"RDLCK", "WRLCK"}}

Split(p, c, range) ==
    LET cut == {l \in locks : l.pid = p /\ l.content = c /\ overlap(l, range)} IN
    (locks \ cut) \cup {[l EXCEPT !.end = range.start] : l \in {m \in cut : m.start < range.start}}
                  \cup {[l EXCEPT !.start = range.end] : l \in {m \in cut : m.end > range.end}}

Updated(p, c, range, type) ==
    Merged(Split(p, c, range) \cup
           (IF type = "UNLCK" THEN {}
            ELSE {[pid |-> p, content |-> c, start |-> range.start, end |-> range.end, type |-> type]}), p, c)

\* A mutant: an update of the table wakes nobody.
WokenNone == th

\* scheduler_wake_all(&file_lock_wait_queue)
WokenAll == [t \in Threads |-> IF th[t].pc = "asleep" THEN [th[t] EXCEPT !.pc = "loop"] ELSE th[t]]

\* file_lock_update: a result that does not fit changes nothing (ENOLCK).
file_lock_update(t, w) ==
    LET next == Updated(Owner[t], w.content, w.range, w.type) IN
    \/ /\ Cardinality(next) <= PROCESS_MAX_FILE_LOCKS
       /\ locks' = next
       /\ held' = [held EXCEPT ![Owner[t]][w.content] = [b \in Bytes |-> IF b \in Meant(w.request) THEN w.type ELSE @[b]]]
       /\ th' = [WokenAll EXCEPT ![t] = Idle]
    \/ /\ Cardinality(next) > PROCESS_MAX_FILE_LOCKS
       /\ th' = [th EXCEPT ![t] = Idle]
       /\ UNCHANGED <<locks, held>>

-----------------------------------------------------------------------------

\* file_lock_wait_current
file_lock_wait_current(t) ==
    LET w == th[t] IN
    generations[Owner[t]][w.fd] = w.generation /\ fds[Owner[t]][w.fd] = w.content

\* process_file_set_lock up to its loop; requests that name no range return.
process_file_set_lock(t, fd, r, type) ==
    LET p == Owner[t]  range == Range(r[1], r[2], r[3]) IN
    /\ th[t].pc = "idle" /\ fds[p][fd] # 0 /\ range.start < range.end
    /\ th' = [th EXCEPT ![t] = [pc |-> "loop", fd |-> fd, generation |-> generations[p][fd],
                                content |-> fds[p][fd], range |-> range, request |-> r, type |-> type]]
    /\ UNCHANGED <<fds, generations, locks, held>>

\* A pass of the loop that finds the lock free or the descriptor gone, or gives
\* up: no waiting was asked for, or a signal came.
LockPass(t) ==
    LET w == th[t] IN
    /\ w.pc = "loop"
    /\ IF file_lock_wait_current(t) /\ (w.type = "UNLCK" \/ Conflicts(Owner[t], w.content, w.range, w.type) = {})
       THEN file_lock_update(t, w)
       ELSE th' = [th EXCEPT ![t] = Idle] /\ UNCHANGED <<locks, held>>
    /\ UNCHANGED <<fds, generations>>

\* file_lock_wait_ready, tested by scheduler_wait in the step that parks t.
Ready(t) ==
    LET w == th[t] IN
    \/ ~file_lock_wait_current(t) \/ w.type = "UNLCK"
    \/ Conflicts(Owner[t], w.content, w.range, w.type) = {}

scheduler_wait(t) ==
    /\ th[t].pc = "loop" /\ ~Ready(t)
    /\ th' = [th EXCEPT ![t].pc = "asleep"]
    /\ UNCHANGED <<fds, generations, locks, held>>

-----------------------------------------------------------------------------

\* open, or a descriptor inherited or received from another process.
process_file_open(t, fd, c) ==
    /\ th[t].pc = "idle" /\ fds[Owner[t]][fd] = 0
    /\ fds' = [fds EXCEPT ![Owner[t]][fd] = c]
    /\ UNCHANGED <<generations, locks, th, held>>

\* process_file_close detaches the entry; file_generation_invalidate wakes.
process_file_close(t, fd) ==
    LET p == Owner[t] IN
    /\ th[t].pc = "idle" /\ fds[p][fd] # 0 /\ generations[p][fd] < MaxGeneration
    /\ fds' = [fds EXCEPT ![p][fd] = 0]
    /\ generations' = [generations EXCEPT ![p][fd] = @ + 1]
    /\ th' = [WokenAll EXCEPT ![t] = [pc |-> "close", content |-> fds[p][fd]]]
    /\ UNCHANGED <<locks, held>>

\* A mutant: the locks are cleared with the content, not with the descriptor.
file_lock_release_content(t) ==
    LET p == Owner[t]  c == th[t].content IN
    /\ th[t].pc = "close"
    /\ locks' = {l \in locks : l.content # c \/ \E q \in Procs, fd \in Fds : fds[q][fd] = c}
    /\ held' = [held EXCEPT ![p][c] = Unlocked]
    /\ th' = [WokenAll EXCEPT ![t] = Idle]
    /\ UNCHANGED <<fds, generations>>

\* process_file_close_entry: file_lock_release_path.
file_lock_release_path(t) ==
    LET p == Owner[t]  c == th[t].content IN
    /\ th[t].pc = "close"
    /\ locks' = {l \in locks : l.pid # p \/ l.content # c}
    /\ held' = [held EXCEPT ![p][c] = Unlocked]
    /\ th' = [WokenAll EXCEPT ![t] = Idle]
    /\ UNCHANGED <<fds, generations>>

Continue(t) == LockPass(t) \/ scheduler_wait(t) \/ file_lock_release_path(t)

Next == \E t \in Threads :
    \/ Continue(t)
    \/ \E fd \in Fds : \/ process_file_close(t, fd)
                       \/ \E c \in Contents : process_file_open(t, fd, c)
                       \/ \E r \in Requests, type \in Types : process_file_set_lock(t, fd, r, type)

Spec == Init /\ [][Next]_vars

-----------------------------------------------------------------------------

TypeOK ==
    /\ fds \in [Procs -> [Fds -> Contents \cup {0}]]
    /\ generations \in [Procs -> [Fds -> 0..MaxGeneration]]
    /\ Cardinality(locks) <= PROCESS_MAX_FILE_LOCKS
    /\ \A l \in locks : l.start < l.end /\ l.end <= UINT64_MAX

\* The table says byte for byte what the successful calls asked for, in plain
\* integers: no split, merge or refusal loses, widens or keeps a lock.
TableExact ==
    \A p \in Procs, c \in Contents, type \in {"RDLCK", "WRLCK"} :
        Covered(locks, p, c, type) = {b \in Bytes : held[p][c][b] = type}

\* Two processes never hold the same byte when one of them may write it.
LocksExclude ==
    \A l, m \in locks : l.pid # m.pid /\ l.content = m.content /\ overlap(l, m)
                        => l.type = "RDLCK" /\ m.type = "RDLCK"

\* A lock does not outlive the descriptors of its process: when the content
\* slot goes back and becomes another file, no lock is left on it.
LocksHaveDescriptors ==
    \A l \in locks : \/ \E fd \in Fds : fds[l.pid][fd] = l.content
                     \/ \E t \in Threads : Owner[t] = l.pid /\ th[t].pc = "close" /\ th[t].content = l.content

\* No request sleeps once it could have its lock or its descriptor is gone.
NoLostWakeup == \A t \in Threads : th[t].pc = "asleep" => ~Ready(t)

\* The lock table is what the calls were promised, excludes, goes with the
\* descriptors, and keeps nobody waiting for a lock it could have.
LocksSound ==
    /\ TypeOK
    /\ TableExact
    /\ LocksExclude
    /\ LocksHaveDescriptors
    /\ NoLostWakeup
=============================================================================

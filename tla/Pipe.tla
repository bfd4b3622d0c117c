-------------------------------- MODULE Pipe --------------------------------
(***************************************************************************)
(* The byte stream of a pipe (process_file_pipe, pipe_read_common,         *)
(* pipe_write_common, close and dup2 in kernel/src/process.c) as the       *)
(* threads of one process see it.  A call runs with interrupts masked and  *)
(* lets go only around scheduler_wait; meanwhile another thread may close  *)
(* the descriptor and the number, the pipe slot or both may be used again. *)
(* Descriptor generations are what tells a waiter so; they saturate.       *)
(***************************************************************************)
EXTENDS Integers, FiniteSets, Sequences

CONSTANTS
    Threads, Fds, Pipes,        \* sets of numbers; Pipes: the slots of the table
    PROCESS_PIPE_CAPACITY, SRV_PIPE_BUF,
    MaxGeneration,              \* UINT64_MAX
    Lengths,                    \* lengths of reads and writes
    MaxWrites, MaxPipes, MaxRetired     \* bounds on the calls of write, pipe, and close or dup2

PipeAssumption ==
    /\ PROCESS_PIPE_CAPACITY \in Nat \ {0}
    /\ SRV_PIPE_BUF \in 1..PROCESS_PIPE_CAPACITY
    /\ MaxGeneration \in Nat \ {0} /\ Lengths \subseteq Nat \ {0}

VARIABLES
    files,          \* files[fd]: type and pipe, or Closed
    generations,    \* process->file_generations
    pipes,          \* the slots
    th,             \* th[t]: where the call of t is and what it waits for
    stream,         \* stream[p]: every byte written to this use of the slot, and how many were read
    made, writes,   \* calls of pipe and write so far; made numbers the pipes
    retired,        \* calls of close and dup2 so far
    foreign         \* a call moved bytes of another pipe than the one it was made for

vars == <<files, generations, pipes, th, stream, made, writes, retired, foreign>>

Closed == [type |-> "closed", handle |-> 0]
File(type, h) == [type |-> type, handle |-> h]
Unused == [used |-> FALSE, read_refs |-> 0, write_refs |-> 0,
           buffer |-> [i \in 0..PROCESS_PIPE_CAPACITY - 1 |-> <<0, 0>>],
           read_pos |-> 0, write_pos |-> 0, size |-> 0]
NoStream == [made |-> 0, log |-> <<>>, read |-> 0]
Idle == [pc |-> "idle"]

Init ==
    /\ files = [fd \in Fds |-> Closed]
    /\ generations = [fd \in Fds |-> 0]
    /\ pipes = [p \in Pipes |-> Unused]
    /\ th = [t \in Threads |-> Idle]
    /\ stream = [p \in Pipes |-> NoStream]
    /\ made = 0 /\ writes = 0 /\ retired = 0 /\ foreign = FALSE

Least(S, x) == x \in S /\ \A y \in S : x <= y
FreeFds == {fd \in Fds : files[fd] = Closed}

\* scheduler_wake_all(&pipe_wait_queue)
WokenAll == [t \in Threads |-> IF th[t].pc = "asleep" THEN [th[t] EXCEPT !.pc = "woken"] ELSE th[t]]

\* A mutant: the slot is looked up by the number alone.
current_by_handle(w) == files[w.fd] = File(w.type, w.handle) /\ pipes[w.handle].used

\* pipe_io_current: the descriptor is still the one the call was made on.
pipe_io_current(w) ==
    /\ w.generation # MaxGeneration /\ generations[w.fd] = w.generation
    /\ files[w.fd] = File(w.type, w.handle) /\ pipes[w.handle].used

\* pipe_read_ready and pipe_write_ready (signals aside)
Ready(w) ==
    LET p == pipes[w.handle] IN
    \/ ~pipe_io_current(w)
    \/ w.type = "read" /\ (p.size > 0 \/ p.write_refs = 0)
    \/ w.type = "write" /\ (p.read_refs = 0 \/ PROCESS_PIPE_CAPACITY - p.size >= w.minimum)

-----------------------------------------------------------------------------

Smaller(a, b) == IF a < b THEN a ELSE b
Call(t, fd, length) ==
    [pc |-> "park", type |-> files[fd].type, fd |-> fd, generation |-> generations[fd],
     handle |-> files[fd].handle, length |-> length, done |-> 0,
     minimum |-> IF length <= SRV_PIPE_BUF THEN length ELSE 1,
     made |-> stream[files[fd].handle].made, bytes |-> <<writes + 1, length>>]

\* pipe_commit_read
Taken(p, count) ==
    [p EXCEPT !.read_pos = (@ + count) % PROCESS_PIPE_CAPACITY, !.size = @ - count]

\* A mutant: the write position is not wrapped for a copy in two parts.
PutUnwrapped(p, byte, count) ==
    [p EXCEPT !.buffer = [i \in DOMAIN @ |-> IF i >= p.write_pos /\ i < p.write_pos + count THEN byte ELSE @[i]],
              !.write_pos = (@ + count) % PROCESS_PIPE_CAPACITY, !.size = @ + count]

\* The copy of count bytes into the ring, in two parts when it wraps.
Put(p, byte, count) ==
    LET first == Smaller(PROCESS_PIPE_CAPACITY - p.write_pos, count) IN
    [p EXCEPT !.buffer = [i \in DOMAIN @ |-> IF \/ i >= p.write_pos /\ i < p.write_pos + first
                                                \/ i < count - first THEN byte ELSE @[i]],
              !.write_pos = (@ + count) % PROCESS_PIPE_CAPACITY, !.size = @ + count]

Return(t) == th' = [th EXCEPT ![t] = Idle]

\* One pass of the loop of pipe_read_common for the call w of t.
ReadRound(t, w) ==
    LET p == pipes[w.handle]  count == Smaller(w.length, p.size) IN
    \/ /\ p.size > 0
       /\ pipes' = [pipes EXCEPT ![w.handle] = Taken(p, count)]
       /\ stream' = [stream EXCEPT ![w.handle].read = @ + count]
       /\ foreign' = (foreign \/ stream[w.handle].made # w.made)
       /\ th' = [WokenAll EXCEPT ![t] = Idle]
    \/ /\ p.size = 0
       /\ p.write_refs = 0 \/ w.generation = MaxGeneration
       /\ Return(t) /\ UNCHANGED <<pipes, stream, foreign>>
    \/ /\ p.size = 0 /\ p.write_refs > 0 /\ w.generation # MaxGeneration
       /\ th' = [th EXCEPT ![t] = w]
       /\ UNCHANGED <<pipes, stream, foreign>>

\* A mutant: a short write takes whatever room there is.
RoomAny(w, p) == p.size < PROCESS_PIPE_CAPACITY

Room(w, p) == PROCESS_PIPE_CAPACITY - p.size >= w.minimum

\* One pass of the loop of pipe_write_common.
WriteRound(t, w) ==
    LET p == pipes[w.handle]
        count == Smaller(w.length - w.done, PROCESS_PIPE_CAPACITY - p.size)
        finished == w.done + count = w.length \/ w.generation = MaxGeneration
    IN
    \/ /\ p.read_refs = 0 \/ (~Room(w, p) /\ w.generation = MaxGeneration)
       /\ Return(t) /\ UNCHANGED <<pipes, stream, foreign>>
    \/ /\ p.read_refs > 0 /\ ~Room(w, p) /\ w.generation # MaxGeneration
       /\ th' = [th EXCEPT ![t] = w]
       /\ UNCHANGED <<pipes, stream, foreign>>
    \/ /\ p.read_refs > 0 /\ Room(w, p)
       /\ pipes' = [pipes EXCEPT ![w.handle] = Put(p, w.bytes, count)]
       /\ stream' = [stream EXCEPT ![w.handle].log = @ \o [i \in 1..count |-> w.bytes]]
       /\ foreign' = (foreign \/ stream[w.handle].made # w.made)
       /\ th' = [WokenAll EXCEPT ![t] = IF finished THEN Idle
                                        ELSE [w EXCEPT !.pc = "park", !.done = w.done + count]]

process_file_pipe_read(t, fd, length) ==
    /\ th[t].pc = "idle" /\ files[fd].type = "read"
    /\ ReadRound(t, Call(t, fd, length))
    /\ UNCHANGED <<files, generations, made, writes, retired>>

process_file_pipe_write(t, fd, length) ==
    /\ th[t].pc = "idle" /\ files[fd].type = "write" /\ writes < MaxWrites
    /\ WriteRound(t, Call(t, fd, length))
    /\ writes' = writes + 1
    /\ UNCHANGED <<files, generations, made, retired>>

\* A mutant: the condition is not tested again before the thread blocks.
scheduler_wait_blind(t) ==
    /\ th[t].pc = "park"
    /\ th' = [th EXCEPT ![t].pc = "asleep"]
    /\ UNCHANGED <<files, generations, pipes, stream, made, writes, retired, foreign>>

\* scheduler_wait tests the condition under its own mask and blocks.
scheduler_wait(t) ==
    /\ th[t].pc = "park"
    /\ th' = [th EXCEPT ![t].pc = IF Ready(th[t]) THEN "woken" ELSE "asleep"]
    /\ UNCHANGED <<files, generations, pipes, stream, made, writes, retired, foreign>>

\* After the wait: the descriptor is gone, a signal is pending, or another pass.
Resume(t) ==
    LET w == [th[t] EXCEPT !.pc = "park"] IN
    /\ th[t].pc = "woken"
    /\ \/ Return(t) /\ UNCHANGED <<pipes, stream, foreign>>
       \/ pipe_io_current(w) /\ w.type = "read" /\ ReadRound(t, w)
       \/ pipe_io_current(w) /\ w.type = "write" /\ WriteRound(t, w)
    /\ UNCHANGED <<files, generations, made, writes, retired>>

-----------------------------------------------------------------------------

\* process_file_pipe: the two lowest free descriptors and the first free slot.
process_file_pipe(t) ==
    /\ th[t].pc = "idle" /\ made < MaxPipes
    /\ \E r, w \in Fds, h \in Pipes :
          /\ Least(FreeFds, r) /\ Least(FreeFds \ {r}, w)
          /\ Least({p \in Pipes : ~pipes[p].used}, h)
          /\ files' = [files EXCEPT ![r] = File("read", h), ![w] = File("write", h)]
          /\ pipes' = [pipes EXCEPT ![h] = [Unused EXCEPT !.used = TRUE, !.read_refs = 1, !.write_refs = 1]]
          /\ stream' = [stream EXCEPT ![h] = [NoStream EXCEPT !.made = made + 1]]
    /\ made' = made + 1
    /\ UNCHANGED <<generations, th, writes, retired, foreign>>

\* file_generation_invalidate
Invalidated(fd) == [generations EXCEPT ![fd] = IF @ = MaxGeneration THEN @ ELSE @ + 1]

\* The first half of process_file_close: the entry is detached under the mask.
process_file_close(t, fd) ==
    /\ th[t].pc = "idle" /\ files[fd] # Closed /\ retired < MaxRetired
    /\ retired' = retired + 1
    /\ files' = [files EXCEPT ![fd] = Closed]
    /\ generations' = Invalidated(fd)
    /\ th' = [th EXCEPT ![t] = [pc |-> "close", file |-> files[fd]]]
    /\ UNCHANGED <<pipes, stream, made, writes, foreign>>

\* A mutant: a descriptor is cloned without a reference of its own.
ReferencedNot(f) == pipes

\* pipe_ref, as process_file_clone_entry uses it.
Referenced(f) == IF f.type = "write" THEN [pipes EXCEPT ![f.handle].write_refs = @ + 1]
                 ELSE [pipes EXCEPT ![f.handle].read_refs = @ + 1]

\* process_file_dup_replace (dup2): old moves over new, whose file is retired.
process_file_dup2(t, old, new) ==
    /\ th[t].pc = "idle" /\ files[old] # Closed /\ old # new /\ retired < MaxRetired
    /\ retired' = retired + 1
    /\ pipes' = Referenced(files[old])
    /\ files' = [files EXCEPT ![new] = files[old]]
    /\ generations' = Invalidated(new)
    /\ th' = [th EXCEPT ![t] = IF files[new] = Closed THEN Idle
                               ELSE [pc |-> "close", file |-> files[new]]]
    /\ UNCHANGED <<stream, made, writes, foreign>>

\* A mutant: the last reader leaves without a word.
pipe_close_silent(t) ==
    /\ th[t].pc = "close"
    /\ LET f == th[t].file  p == pipes[f.handle]
           q == IF f.type = "write" THEN [p EXCEPT !.write_refs = @ - 1]
                ELSE [p EXCEPT !.read_refs = @ - 1]
       IN pipes' = [pipes EXCEPT ![f.handle] =
                        IF q.read_refs + q.write_refs = 0 THEN [q EXCEPT !.used = FALSE] ELSE q]
    /\ Return(t)
    /\ UNCHANGED <<files, generations, stream, made, writes, retired, foreign>>

\* process_file_close_entry, pipe_close: the second half of close and dup2.
pipe_close(t) ==
    /\ th[t].pc = "close"
    /\ LET f == th[t].file  p == pipes[f.handle]
           q == IF f.type = "write" THEN [p EXCEPT !.write_refs = @ - 1]
                ELSE [p EXCEPT !.read_refs = @ - 1]
       IN pipes' = [pipes EXCEPT ![f.handle] =
                        IF q.read_refs + q.write_refs = 0 THEN [q EXCEPT !.used = FALSE] ELSE q]
    /\ th' = [WokenAll EXCEPT ![t] = Idle]
    /\ UNCHANGED <<files, generations, stream, made, writes, retired, foreign>>

Continue(t) == scheduler_wait(t) \/ Resume(t) \/ pipe_close(t)

Next == \E t \in Threads :
    \/ Continue(t) \/ process_file_pipe(t)
    \/ \E fd \in Fds : \/ process_file_close(t, fd)
                       \/ \E n \in Lengths : process_file_pipe_read(t, fd, n) \/ process_file_pipe_write(t, fd, n)
                       \/ \E new \in Fds : process_file_dup2(t, fd, new)

Spec == Init /\ [][Next]_vars

\* Threads that can run do run, and some thread reads while there is something to read.
SomebodyReads ==
    \E t \in Threads, fd \in Fds, n \in Lengths :
        files[fd].type = "read" /\ pipes[files[fd].handle].size > 0 /\ process_file_pipe_read(t, fd, n)
LiveSpec == Spec /\ WF_vars(SomebodyReads) /\ \A t \in Threads : WF_vars(Continue(t))

-----------------------------------------------------------------------------

TypeOK ==
    /\ \A fd \in Fds : files[fd] \in {Closed} \cup [type : {"read", "write"}, handle : Pipes]
    /\ generations \in [Fds -> 0..MaxGeneration]
    /\ \A p \in Pipes : /\ pipes[p].size \in 0..PROCESS_PIPE_CAPACITY
                        /\ {pipes[p].read_pos, pipes[p].write_pos} \subseteq 0..PROCESS_PIPE_CAPACITY - 1
    /\ made \in 0..MaxPipes /\ writes \in 0..MaxWrites /\ retired \in 0..MaxRetired /\ foreign \in BOOLEAN

\* The ring of pipe_write_common and pipe_commit_read is a queue: what it holds
\* is what was written to this pipe and not read yet, in order.
RingIsStream ==
    \A p \in Pipes : pipes[p].used =>
        SubSeq(stream[p].log, stream[p].read + 1, Len(stream[p].log))
            = [i \in 1..pipes[p].size |-> pipes[p].buffer[(pipes[p].read_pos + i - 1) % PROCESS_PIPE_CAPACITY]]

\* A write of at most SRV_PIPE_BUF bytes is not cut up: pipe_write_common waits
\* for room for all of it, so its bytes appear all, and together.
WritesAtomic ==
    \A p \in Pipes : LET log == stream[p].log IN
        \A i \in DOMAIN log : log[i][2] <= SRV_PIPE_BUF =>
            LET own == {k \in DOMAIN log : log[k] = log[i]} IN
            /\ Cardinality(own) = log[i][2]
            /\ \A j, k \in own : j - k < log[i][2]

\* pipe_io_current keeps a call to the pipe it was made on, although its
\* descriptor number and the slot may have been used again while it slept.
NoForeignBytes == ~foreign

\* Nobody sleeps on a pipe that can serve them, or that has lost its other end,
\* or on a descriptor that was closed and whose release is complete.
NoLostWakeup ==
    \A t \in Threads : th[t].pc = "asleep" /\ Ready(th[t]) =>
        \E u \in Threads : th[u].pc = "close" /\ th[u].file.handle = th[t].handle

\* A pipe that goes back to the table has no descriptor left.
SlotUnreferenced ==
    \A p \in Pipes :
        LET ends(type) == Cardinality({fd \in Fds : files[fd] = File(type, p)})
                          + Cardinality({t \in Threads : th[t].pc = "close" /\ th[t].file = File(type, p)})
        IN /\ pipes[p].read_refs = ends("read") /\ pipes[p].write_refs = ends("write")
           /\ pipes[p].used <=> ends("read") + ends("write") > 0

\* A write to a pipe that is being read, or whose last reader leaves, returns.
WritesReturn == \A t \in Threads :
    th[t].pc \in {"park", "asleep", "woken"} /\ th[t].type = "write" ~> th[t].pc = "idle"

\* A pipe is a queue of bytes with atomic short writes, and nobody sleeps on it
\* without reason (pipe_write_common, pipe_commit_read, pipe_close).
PipeSound ==
    /\ TypeOK
    /\ RingIsStream
    /\ WritesAtomic
    /\ NoLostWakeup

\* Reuse of descriptors and slots: a call never reaches another pipe than its own,
\* and a slot goes back exactly with its last end.
ReuseSafe ==
    /\ NoForeignBytes
    /\ SlotUnreferenced
=============================================================================

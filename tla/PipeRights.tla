----------------------------- MODULE PipeRights -----------------------------
(***************************************************************************)
(* Descriptors in flight (kernel/src/process.c): a pipe carries records of *)
(* passed files, a Unix listener carries endpoints nobody accepted yet.    *)
(* Files are reference counted and can so come to refer to each other with *)
(* no descriptor left; pipe_rights_collect finds such records and drops    *)
(* them.  Files are released one at a time with interrupts enabled, so     *)
(* other threads send, receive and close in the middle of a collection.    *)
(***************************************************************************)
EXTENDS Integers, FiniteSets, Sequences, SequencesExt

CONSTANTS
    Threads, Fds, Pipes, Listeners,     \* sets of numbers
    PROCESS_PIPE_RIGHTS_QUEUE, SRV_RIGHTS_MAX, PROCESS_UNIX_ACCEPT_QUEUE,
    MaxMade, MaxSent                    \* bounds on calls that make pipes and that send files

RightsAssumption ==
    /\ {PROCESS_PIPE_RIGHTS_QUEUE, SRV_RIGHTS_MAX, PROCESS_UNIX_ACCEPT_QUEUE} \subseteq Nat \ {0}
    /\ 0 \notin Pipes \cup Listeners

VARIABLES
    files,          \* files[fd]: what a descriptor refers to
    pipes,          \* read_refs, write_refs and the queue of rights records
    listeners,      \* refs and the queue of pending accepts
    present, collecting,    \* pipe_rights_present, pipe_rights_collecting
    th,             \* th[t]: the files it has detached and still has to release
    made, sent,
    robbed          \* the collector dropped a record that somebody could still receive

vars == <<files, pipes, listeners, present, collecting, th, made, sent, robbed>>

\* A file refers to the pipe it reads, the pipe it writes, or a listener.
NoFile == [read |-> 0, write |-> 0, listener |-> 0]
Duplex(r, w) == [NoFile EXCEPT !.read = r, !.write = w]
ListenerFile(l) == [NoFile EXCEPT !.listener = l]
NewPipe == [used |-> TRUE, read_refs |-> 1, write_refs |-> 1, rights |-> <<>>]
NoPipe == [used |-> FALSE, read_refs |-> 0, write_refs |-> 0, rights |-> <<>>]
NoListener == [refs |-> 0, queue |-> <<>>]
Idle == [pc |-> "idle", todo |-> <<>>]

Init ==
    /\ files = [fd \in Fds |-> NoFile]
    /\ pipes = [p \in Pipes |-> NoPipe]
    /\ listeners = [l \in Listeners |-> NoListener]
    /\ present = FALSE /\ collecting = FALSE
    /\ th = [t \in Threads |-> Idle]
    /\ made = 0 /\ sent = 0 /\ robbed = FALSE

Least(S, x) == x \in S /\ \A y \in S : x <= y
FreeFds == {fd \in Fds : files[fd] = NoFile}
FreePipes == {p \in Pipes : ~pipes[p].used}
Count(s, Test(_)) == Cardinality({i \in DOMAIN s : Test(s[i])})

\* process_file_clone_entry on every file of a sequence
ClonedPipes(fs) == [p \in Pipes |-> [pipes[p] EXCEPT
    !.read_refs = @ + Count(fs, LAMBDA f : f.read = p),
    !.write_refs = @ + Count(fs, LAMBDA f : f.write = p)]]
ClonedListeners(fs) == [l \in Listeners |-> [listeners[l] EXCEPT
    !.refs = @ + Count(fs, LAMBDA f : f.listener = l)]]

-----------------------------------------------------------------------------
(* Making and passing descriptors *)

Pair(a, b) == /\ Least(FreePipes, a) /\ Least(FreePipes \ {a}, b)

\* process_file_pipe_pair
process_file_pipe_pair ==
    /\ made < MaxMade /\ made' = made + 1
    /\ \E x, y \in Fds, a, b \in Pipes :
          /\ Least(FreeFds, x) /\ Least(FreeFds \ {x}, y) /\ Pair(a, b)
          /\ pipes' = [pipes EXCEPT ![a] = NewPipe, ![b] = NewPipe]
          /\ files' = [files EXCEPT ![x] = Duplex(b, a), ![y] = Duplex(a, b)]
    /\ UNCHANGED <<listeners, present, collecting, th, sent, robbed>>

\* process_unix_bind and process_unix_listen
process_unix_listen ==
    /\ \E fd \in Fds, l \in Listeners :
          /\ Least(FreeFds, fd) /\ Least({k \in Listeners : listeners[k].refs = 0}, l)
          /\ listeners' = [listeners EXCEPT ![l].refs = 1]
          /\ files' = [files EXCEPT ![fd] = ListenerFile(l)]
    /\ UNCHANGED <<pipes, present, collecting, th, made, sent, robbed>>

\* process_unix_connect: one end for the caller, the other in the accept queue.
process_unix_connect(l) ==
    /\ listeners[l].refs > 0 /\ Len(listeners[l].queue) < PROCESS_UNIX_ACCEPT_QUEUE
    /\ made < MaxMade /\ made' = made + 1
    /\ \E fd \in Fds, a, b \in Pipes :
          /\ Least(FreeFds, fd) /\ Pair(a, b)
          /\ pipes' = [pipes EXCEPT ![a] = NewPipe, ![b] = NewPipe]
          /\ files' = [files EXCEPT ![fd] = Duplex(b, a)]
          /\ listeners' = [listeners EXCEPT ![l].queue = Append(@, Duplex(a, b))]
    /\ UNCHANGED <<present, collecting, th, sent, robbed>>

process_unix_accept(fd) ==
    LET l == files[fd].listener IN
    /\ l # 0 /\ listeners[l].queue # <<>>
    /\ \E new \in Fds :
          /\ Least(FreeFds, new)
          /\ files' = [files EXCEPT ![new] = Head(listeners[l].queue)]
          /\ listeners' = [listeners EXCEPT ![l].queue = Tail(@)]
    /\ UNCHANGED <<pipes, present, collecting, th, made, sent, robbed>>

\* process_file_send_rights and the rights of process_file_send_message: every
\* passed file is cloned into one record at the end of the queue.
process_file_send_rights(fd, sources) ==
    LET p == files[fd].write  fs == [i \in DOMAIN sources |-> files[sources[i]]] IN
    /\ sent < MaxSent /\ sent' = sent + 1
    /\ p # 0 /\ pipes[p].read_refs > 0 /\ Len(pipes[p].rights) < PROCESS_PIPE_RIGHTS_QUEUE
    /\ \A i \in DOMAIN fs : fs[i] # NoFile
    /\ pipes' = [ClonedPipes(fs) EXCEPT ![p].rights = Append(@, fs)]
    /\ listeners' = ClonedListeners(fs)
    /\ present' = TRUE
    /\ UNCHANGED <<files, collecting, th, made, robbed>>

\* process_file_recv_rights_checked, process_file_recv_message_checked: clones
\* go into the lowest free descriptors (all or none), the record is detached
\* and released.
process_file_recv_rights(t, fd) ==
    LET p == files[fd].read  fs == Head(pipes[p].rights) IN
    /\ th[t].pc = "idle" /\ p # 0 /\ pipes[p].rights # <<>>
    /\ \E at \in [DOMAIN fs -> FreeFds] :
          /\ \A i \in DOMAIN fs : Least(FreeFds \ {at[j] : j \in 1..i - 1}, at[i])
          /\ files' = [x \in Fds |-> IF \E i \in DOMAIN fs : at[i] = x
                                     THEN fs[CHOOSE i \in DOMAIN fs : at[i] = x] ELSE files[x]]
    /\ pipes' = [ClonedPipes(fs) EXCEPT ![p].rights = Tail(@)]
    /\ listeners' = ClonedListeners(fs)
    /\ th' = [th EXCEPT ![t] = [pc |-> "release", todo |-> fs]]
    /\ UNCHANGED <<present, collecting, made, sent, robbed>>

\* pipe_read_common: the bytes of a record are read as plain data, or the
\* receiver has no room for the files; the record is dropped.
pipe_read_discards(t, fd) ==
    LET p == files[fd].read IN
    /\ th[t].pc = "idle" /\ p # 0 /\ pipes[p].rights # <<>>
    /\ pipes' = [pipes EXCEPT ![p].rights = Tail(@)]
    /\ th' = [th EXCEPT ![t] = [pc |-> "release", todo |-> Head(pipes[p].rights)]]
    /\ UNCHANGED <<files, listeners, present, collecting, made, sent, robbed>>

process_file_close(t, fd) ==
    /\ th[t].pc = "idle" /\ files[fd] # NoFile
    /\ files' = [files EXCEPT ![fd] = NoFile]
    /\ th' = [th EXCEPT ![t] = [pc |-> "release", todo |-> <<files[fd]>>]]
    /\ UNCHANGED <<pipes, listeners, present, collecting, made, sent, robbed>>

-----------------------------------------------------------------------------
(* Releasing *)

\* pipe_close for every file of fs that has p: a pipe with queued records is
\* kept until the collector has emptied it.
pipe_close(p, fs) ==
    LET r == pipes[p].read_refs - Count(fs, LAMBDA f : f.read = p)
        w == pipes[p].write_refs - Count(fs, LAMBDA f : f.write = p)
    IN [pipes[p] EXCEPT !.read_refs = r, !.write_refs = w,
                        !.used = @ /\ (r + w > 0 \/ pipes[p].rights # <<>>)]

\* A mutant: the endpoints nobody accepted are forgotten.
pendingForgotten(l) == <<>>

\* unix_listener_release releases the pending accepts with the last reference.
pending(l) == IF l # 0 /\ listeners[l].refs = 1 THEN listeners[l].queue ELSE <<>>

\* process_file_release_entry, process_file_close_entry: the next detached file.
process_file_release_entry(t) ==
    LET f == Head(th[t].todo)  fs == <<f>> \o pending(f.listener) IN
    /\ th[t].todo # <<>>
    /\ pipes' = [p \in Pipes |-> pipe_close(p, fs)]
    /\ listeners' = [l \in Listeners |->
          IF l # f.listener THEN listeners[l]
          ELSE IF listeners[l].refs = 1 THEN NoListener ELSE [listeners[l] EXCEPT !.refs = @ - 1]]
    /\ th' = [th EXCEPT ![t].todo = Tail(@)]
    /\ UNCHANGED <<files, present, collecting, made, sent, robbed>>

-----------------------------------------------------------------------------
(* pipe_rights_collect *)

Rights(p) == FlattenSeq(pipes[p].rights)
Nodes == {<<"pipe", p>> : p \in Pipes} \cup {<<"listener", l>> : l \in Listeners}

\* What a file lets its holder receive from: pipe_rights_mark_file.
Marks(f) == {n \in Nodes : n = <<"pipe", f.read>> \/ n = <<"listener", f.listener>>}
MarksOf(s) == UNION {Marks(f) : f \in ToSet(s)}
Carried(n) == IF n[1] = "pipe" THEN MarksOf(Rights(n[2])) ELSE MarksOf(listeners[n[2]].queue)

Reached(roots) == {n \in Nodes : \A S \in SUBSET Nodes :
    roots \subseteq S /\ (\A m \in S : Carried(m) \subseteq S) => n \in S}

\* pipe_rights_count_file over all rights and pending accepts
InFlight(Test(_)) ==
    LET inPipes == UNION {{<<p, i>> : i \in {j \in DOMAIN Rights(p) : Test(Rights(p)[j])}} : p \in Pipes}
        pend == UNION {{<<l, i>> : i \in {j \in DOMAIN listeners[l].queue : Test(listeners[l].queue[j])}} : l \in Listeners}
    IN Cardinality(inPipes) + Cardinality(pend)

\* A mutant: pending accepts are not counted as references in flight.
RootsWithoutPending ==
    {<<"pipe", p>> : p \in {q \in Pipes :
        pipes[q].read_refs > Cardinality(UNION {{<<r, i>> : i \in {j \in DOMAIN Rights(r) : Rights(r)[j].read = q}} : r \in Pipes})}}
    \cup {<<"listener", l>> : l \in {k \in Listeners : listeners[k].refs > InFlight(LAMBDA f : f.listener = k)}}

\* References beyond those in flight are held by descriptors or by a call.
Roots ==
    {<<"pipe", p>> : p \in {q \in Pipes : pipes[q].read_refs > InFlight(LAMBDA f : f.read = q)}}
    \cup {<<"listener", l>> : l \in {k \in Listeners : listeners[k].refs > InFlight(LAMBDA f : f.listener = k)}}

\* A mutant: pending accepts of a reachable listener are not followed.
UnreachableShallow ==
    {p \in Pipes : pipes[p].rights # <<>> /\ <<"pipe", p>> \notin Roots}

Unreachable == {p \in Pipes : pipes[p].rights # <<>> /\ <<"pipe", p>> \notin Reached(Roots)}

\* What the descriptors give access to, whatever the counters say.
Alive == Reached(UNION {Marks(files[fd]) : fd \in Fds})

\* One pass of the loop: nothing in flight, nothing unreachable, or the oldest
\* record of the first unreachable pipe is detached for release.
CollectPass(t) ==
    \/ /\ Unreachable = {}
       /\ present' = \E p \in Pipes : pipes[p].rights # <<>>
       /\ collecting' = FALSE
       /\ th' = [th EXCEPT ![t] = Idle]
       /\ UNCHANGED <<pipes, robbed>>
    \/ \E p \in Unreachable :
       /\ Least(Unreachable, p)
       /\ pipes' = [pipes EXCEPT ![p].rights = Tail(@),
                                 ![p].used = pipes[p].read_refs + pipes[p].write_refs > 0 \/ Len(pipes[p].rights) > 1]
       /\ th' = [th EXCEPT ![t] = [pc |-> "collect", todo |-> Head(pipes[p].rights)]]
       /\ robbed' = (robbed \/ <<"pipe", p>> \in Alive)
       /\ collecting' = TRUE
       /\ UNCHANGED present

\* The call at the end of every release.
pipe_rights_collect(t) ==
    /\ th[t] = [pc |-> "release", todo |-> <<>>]
    /\ IF ~present \/ collecting
       THEN th' = [th EXCEPT ![t] = Idle] /\ UNCHANGED <<pipes, present, collecting, robbed>>
       ELSE CollectPass(t)
    /\ UNCHANGED <<files, listeners, made, sent>>

\* The collector takes the mask again after a release and starts over.
collect_again(t) ==
    /\ th[t] = [pc |-> "collect", todo |-> <<>>]
    /\ CollectPass(t)
    /\ UNCHANGED <<files, listeners, made, sent>>

Sources == UNION {[1..n -> {fd \in Fds : files[fd] # NoFile}] : n \in 1..SRV_RIGHTS_MAX}

Next ==
    \/ \E t \in Threads :
          \/ process_file_release_entry(t) \/ pipe_rights_collect(t) \/ collect_again(t)
          \/ \E fd \in Fds : \/ process_file_recv_rights(t, fd) \/ pipe_read_discards(t, fd)
                             \/ process_file_close(t, fd)
    \/ \E t \in Threads : /\ th[t].pc = "idle"
                          /\ \/ process_file_pipe_pair \/ process_unix_listen
                             \/ \E l \in Listeners : process_unix_connect(l)
                             \/ \E fd \in Fds : process_unix_accept(fd)
                             \/ \E fd \in Fds, s \in Sources : process_file_send_rights(fd, s)

Spec == Init /\ [][Next]_vars

-----------------------------------------------------------------------------

TypeOK ==
    /\ \A p \in Pipes : /\ {pipes[p].read_refs, pipes[p].write_refs} \subseteq Nat
                        /\ Len(pipes[p].rights) <= PROCESS_PIPE_RIGHTS_QUEUE
    /\ \A l \in Listeners : listeners[l].refs \in Nat /\ Len(listeners[l].queue) <= PROCESS_UNIX_ACCEPT_QUEUE
    /\ present \in BOOLEAN /\ collecting \in BOOLEAN /\ made \in 0..MaxMade /\ sent \in 0..MaxSent

\* Holders of a kind of reference: descriptors, files in flight, detached files.
References(Test(_)) ==
    Cardinality({fd \in Fds : Test(files[fd])}) + InFlight(Test)
    + Cardinality(UNION {{<<t, i>> : i \in {j \in DOMAIN th[t].todo : Test(th[t].todo[j])}} : t \in Threads})

\* Every count is the number of files that hold the reference, wherever they
\* are (a descriptor, a record, an accept queue, a file being released), and a
\* pipe slot is free exactly when nothing refers to it and it carries nothing.
CountsExact ==
    /\ \A p \in Pipes : /\ pipes[p].read_refs = References(LAMBDA f : f.read = p)
                        /\ pipes[p].write_refs = References(LAMBDA f : f.write = p)
                        /\ pipes[p].used <=> \/ pipes[p].read_refs + pipes[p].write_refs > 0
                                             \/ pipes[p].rights # <<>>
    /\ \A l \in Listeners : listeners[l].refs = References(LAMBDA f : f.listener = l)

\* The collector drops only records that no descriptor leads to, although it
\* decides by counting references and not by looking at descriptors.
NothingRobbed == ~robbed

\* When every call has returned, each record in flight can be received: no
\* cycle of files that refer only to each other survives (PROCESS_MAX_PIPES is
\* a small table shared by all processes).
NoGarbage ==
    (\A t \in Threads : th[t] = Idle) =>
        \A p \in Pipes : pipes[p].rights # <<>> => <<"pipe", p>> \in Alive

\* Files in flight: references are exact, the collector takes no file that can
\* still be received, and leaves no cycle that cannot.
RightsSound ==
    /\ TypeOK
    /\ CountsExact
    /\ NothingRobbed
    /\ NoGarbage
=============================================================================

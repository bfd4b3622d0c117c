-------------------------------- MODULE Tcp --------------------------------
(***************************************************************************)
(* kernel/src/net.c: two hosts running the same TCP over a network that    *)
(* loses, duplicates and reorders.  Host "c" opens connections to the port *)
(* host "s" listens on.  `wire' holds the segments in flight, a set: any   *)
(* may arrive next, arrive twice, or be dropped when the network is full.  *)
(*                                                                         *)
(* A C function on a connection is an operator from a view `st' of one     *)
(* host to the view after it.  Deadlines are armed or not: an armed one    *)
(* may have passed at any tick.  Sequence numbers live in SeqSpace, the    *)
(* scaled 2^32; a byte is its place in the writer's stream.                *)
(*                                                                         *)
(* Calls and the tick run with interrupts masked up to their waits, so     *)
(* each such stretch is one step.  net_worker does not: between a frame's  *)
(* checks and its effect, and again while append_connection_data moves the *)
(* unread bytes, the tick and whole calls may run.  `work' is the frame a  *)
(* worker was preempted in; `raced' names the connections something else   *)
(* changed meanwhile.                                                      *)
(***************************************************************************)
EXTENDS Integers, Sequences, FiniteSets, FiniteSetsExt

CONSTANTS
    Slots,       \* TCP_MAX_CONNECTIONS
    SeqSpace,    \* 2^32
    Iss,         \* the first sequence number, close enough to the wrap
    TxBytes,     \* TCP_TX_WINDOW_BYTES
    TxHistory,   \* TCP_TX_HISTORY
    Mss,         \* TCP_SEGMENT_PAYLOAD_MAX
    ZeroWindowMax,
    Pending,     \* NET_PENDING_REQUESTS
    Situations   \* what a behaviour may exercise: see the variable `now'

ASSUME TcpAssumption ==
    /\ Slots \subseteq Nat \ {0} /\ Slots # {}
    /\ Iss \in 0..(SeqSpace - 1) /\ 4 * (TxBytes + 2) <= SeqSpace

VARIABLES
    conn,      \* tcp_connections of each host
    listener,  \* the listener on host s
    pending,   \* pending_requests of host s
    nextId,    \* next_connection_id of each host
    ports,     \* client ports handed out (next_client_port)
    desc,      \* the network handles in each process's descriptors
    call,      \* the blocking call each process is in
    dying,     \* processes being torn down
    wire,      \* the segments in flight
    opened,    \* ports a SYN has opened a connection for
    work,      \* the frame the worker of each host is in the middle of
    raced,     \* ghost: ports whose connection changed under the worker
    abandoned, \* ghost: connections of host c whose net_connect was killed
    wrote, got, eof, \* what the applications wrote, read and were told
    faults,
    now        \* the situation of this behaviour, fixed at the start

(* The bounds and choices of the situation.                                *)
Cap == now.cap                 \* segments in flight to each host
MaxConnects == now.connects    \* connections opened in all
MaxBytes == now.bytes          \* bytes each host writes on a connection
Blocking == now.blocking       \* whether calls wait (otherwise O_NONBLOCK)
Admin == now.admin             \* which handles a child inherits; a "listener" is closed too
Readers == now.readers         \* hosts whose processes read
Hows == now.hows               \* the shutdowns made: <<reading, writing>>
RetransmitMax == now.retransmits  \* TCP_RETRANSMIT_MAX
MaxFaults == now.faults        \* refused frames, failed allocations, give-ups, kills
Preempted == now.preempted     \* hosts whose worker is preempted inside frames
RxMax == now.rx                \* NET_CONNECTION_RX_MAX_SIZE

stack == <<conn, listener, pending, nextId, wire, opened>>
vars == <<stack, ports, desc, call, dying, work, raced, abandoned, wrote, got, eof, faults, now>>

Hosts == {"c", "s"}
Procs == {"cp", "sp", "sc"}
Host(p) == IF p = "cp" THEN "c" ELSE "s"
Peer(h) == IF h = "c" THEN "s" ELSE "c"
Ports == 1..MaxConnects

EmptyConn ==
    [state |-> "EMPTY", pending |-> FALSE, accepted |-> FALSE, outbound |-> FALSE,
     peer_closed |-> FALSE, local_read_closed |-> FALSE, local_write_closed |-> FALSE,
     fin_pending |-> FALSE, reset |-> FALSE, error |-> "none", refs |-> 0, owner |-> "none",
     port |-> 0, id |-> 0, peer_window |-> RxMax, window |-> <<>>,
     local_seq |-> Iss, remote_next |-> 0, tx |-> {}, rx |-> <<>>, rx_offset |-> FALSE,
     close_deadline |-> FALSE, zero_deadline |-> FALSE, probes |-> 0]

NoFrame == [at |-> "none"]

Init ==
    /\ now \in Situations
    /\ conn = [h \in Hosts |-> [s \in Slots |-> EmptyConn]]
    /\ listener = [used |-> TRUE, refs |-> 1, owner |-> "sp"]
    /\ pending = {}
    /\ nextId = [h \in Hosts |-> 1] /\ ports = 0
    /\ desc = [p \in Procs |-> IF p = "sp" THEN {0} ELSE {}]
    /\ call = [p \in Procs |-> [op |-> "none", id |-> 0, woken |-> FALSE]]
    /\ dying = {} /\ wire = {} /\ opened = {} /\ faults = 0
    /\ work = [h \in Hosts |-> NoFrame] /\ raced = {} /\ abandoned = {}
    /\ wrote = [h \in Hosts |-> [q \in Ports |-> 0]]
    /\ got = [h \in Hosts |-> [q \in Ports |-> <<>>]]
    /\ eof = [h \in Hosts |-> {}]

-----------------------------------------------------------------------------
(* Sequence space and windows.                                             *)

Add(a, n) == (a + n) % SeqSpace
Before(a, b) == (a - b) % SeqSpace >= SeqSpace \div 2   \* (int32_t)(a - b) < 0

tcp_sequence_advance(r) == Len(r.data) + (IF r.syn THEN 1 ELSE 0) + (IF r.fin THEN 1 ELSE 0)

tcp_ack_beyond_sent(c, ack) == Before(c.local_seq, ack)

tcp_tx_outstanding_bytes(c) == MapThenSumSet(tcp_sequence_advance, c.tx)

Una(c) == Add(c.local_seq, -tcp_tx_outstanding_bytes(c))

tcp_receive_window(c) ==
    IF c.local_read_closed \/ c.reset THEN 0 ELSE RxMax - Len(c.rx)

tcp_tx_available_payload(c) ==
    LET room == Min({TxBytes, c.peer_window}) - tcp_tx_outstanding_bytes(c)
    IN  IF Cardinality(c.tx) = TxHistory \/ room <= 0 THEN 0 ELSE Min({room, Mss})

tcp_tx_has_space(c, r) ==
    \/ tcp_sequence_advance(r) = 0
    \/ /\ Cardinality(c.tx) < TxHistory
       /\ tcp_tx_outstanding_bytes(c) + tcp_sequence_advance(r) <= TxBytes
       /\ r.data # <<>> => tcp_tx_outstanding_bytes(c) + Len(r.data) <= c.peer_window

tcp_state_can_read(c) ==
    c.state \in {"ESTABLISHED", "FIN_WAIT_1", "FIN_WAIT_2", "CLOSE_WAIT", "TIME_WAIT", "CLOSED"}
tcp_state_can_write(c) == c.state \in {"ESTABLISHED", "CLOSE_WAIT"}
tcp_state_closing(c) == c.state \in {"FIN_WAIT_1", "FIN_WAIT_2", "LAST_ACK", "TIME_WAIT"}

tcp_persist_active(c) ==
    /\ ~c.reset /\ tcp_state_can_write(c) /\ ~c.local_write_closed
    /\ c.peer_window = 0 /\ c.zero_deadline

-----------------------------------------------------------------------------
(* The view of a host a handler works on.  `sends' and `allocates' say     *)
(* whether the card takes frames and the heap has memory during it.        *)

View(h, sends, allocates) ==
    [h |-> h, c |-> conn[h], lis |-> listener, pend |-> IF h = "s" THEN pending ELSE {}, id |-> nextId[h],
     out |-> {}, wake |-> {}, sends |-> sends, allocates |-> allocates]

Set(st, s, c) == [st EXCEPT !.c[s] = c]
Wake(st, queues) == [st EXCEPT !.wake = @ \cup queues]
Flags(syn, ack, fin) == [syn |-> syn, ackf |-> ack, fin |-> fin, data |-> <<>>]
ACK == Flags(FALSE, TRUE, FALSE)
FIN == Flags(FALSE, TRUE, TRUE)
Data(bytes) == [ACK EXCEPT !.data = bytes]

send_tcp_segment_at(st, s, seq, r) ==
    IF ~st.sends THEN st
    ELSE [st EXCEPT !.out = @ \cup
        {[to |-> Peer(st.h), port |-> st.c[s].port, seq |-> seq, ack |-> st.c[s].remote_next,
          win |-> tcp_receive_window(st.c[s]), rst |-> FALSE,
          syn |-> r.syn, ackf |-> r.ackf, fin |-> r.fin, data |-> r.data]}]

tcp_record_tx(c, seq, r) ==
    IF tcp_sequence_advance(r) = 0 THEN c
    ELSE [c EXCEPT !.tx = @ \cup {[seq |-> seq, syn |-> r.syn, ackf |-> r.ackf, fin |-> r.fin,
                                   data |-> r.data, retries |-> 0]}]

Sends(st, s, r) == st.sends /\ tcp_tx_has_space(st.c[s], r)

send_tcp_segment(st, s, r) ==
    LET c == st.c[s] IN
    IF ~Sends(st, s, r) THEN st
    ELSE Set(send_tcp_segment_at(st, s, c.local_seq, r), s,
             [tcp_record_tx(c, c.local_seq, r) EXCEPT
                 !.local_seq = Add(@, tcp_sequence_advance(r))])

send_tcp_reset(st, m) ==
    IF m.rst \/ ~st.sends THEN st
    ELSE [st EXCEPT !.out = @ \cup
        {[to |-> Peer(st.h), port |-> m.port, rst |-> TRUE, syn |-> FALSE, fin |-> FALSE,
          ackf |-> ~m.ackf, win |-> 0, data |-> <<>>,
          seq |-> IF m.ackf THEN m.ack ELSE 0,
          ack |-> IF m.ackf THEN 0 ELSE Add(m.seq, tcp_sequence_advance(m))]}]

-----------------------------------------------------------------------------
(* Lifetime of a connection.                                               *)

close_connection_queued(st, s) ==
    Wake([st EXCEPT !.c[s] = EmptyConn], {"accept", "read", "write", "connect"})

close_connection(st, s) ==
    Wake([st EXCEPT !.pend = {q \in @ : q.id # st.c[s].id}, !.c[s] = EmptyConn],
         {"accept", "read", "write", "connect"})

tcp_fail_connection(st, s, error) ==
    Wake(Set(st, s, [st.c[s] EXCEPT !.reset = TRUE, !.peer_closed = TRUE, !.local_write_closed = TRUE,
                       !.fin_pending = FALSE, !.error = error, !.close_deadline = TRUE]),
         {"read", "write", "connect"})

tcp_enter_time_wait(st, s) ==
    Wake(Set(st, s, [st.c[s] EXCEPT !.state = "TIME_WAIT", !.local_write_closed = TRUE,
                       !.fin_pending = FALSE, !.peer_closed = TRUE, !.close_deadline = TRUE]),
         {"read", "write", "connect"})

tcp_expire_connection_silent(st, s) ==
    IF st.c[s].refs = 0 THEN close_connection(st, s)
    ELSE Wake(Set(st, s, [st.c[s] EXCEPT !.state = "CLOSED", !.peer_closed = TRUE,
                    !.local_write_closed = TRUE, !.fin_pending = FALSE, !.close_deadline = FALSE,
                    !.zero_deadline = FALSE, !.tx = {}]),
              {"read", "write", "connect"})

Expired(st, s) ==
    Wake(Set(st, s, [st.c[s] EXCEPT !.state = "CLOSED", !.peer_closed = TRUE,
                       !.local_write_closed = TRUE, !.fin_pending = FALSE, !.close_deadline = FALSE,
                       !.zero_deadline = FALSE, !.tx = {}, !.rx = IF st.c[s].reset THEN <<>> ELSE @,
                       !.rx_offset = @ /\ ~st.c[s].reset]),
         {"read", "write", "connect"})
tcp_expire_connection(st, s) ==
    LET c == st.c[s] IN
    IF c.refs = 0 THEN close_connection(st, s)
    ELSE Expired(IF ~c.reset /\ c.state # "TIME_WAIT" THEN tcp_fail_connection(st, s, "timedout") ELSE st, s)

(* alloc_connection and alloc_client_connection: a free slot, else the one *)
(* of a connection in TIME_WAIT that no descriptor names.                  *)
Free(st) == {s \in Slots : st.c[s].state = "EMPTY"}
tcp_reclaim_oldest_time_wait(st) == {s \in Slots : st.c[s].state = "TIME_WAIT" /\ st.c[s].refs = 0}
Takeable(st) == IF Free(st) # {} THEN {Min(Free(st))} ELSE tcp_reclaim_oldest_time_wait(st)

Take(st, s, c) ==
    LET cleared == IF st.c[s].state = "EMPTY" THEN st ELSE close_connection(st, s)
    IN  [Set(cleared, s, [c EXCEPT !.id = st.id, !.rx = cleared.c[s].rx]) EXCEPT !.id = @ + 1]

alloc_connection(st, s, port) ==
    Take(st, s, [EmptyConn EXCEPT !.state = "SYN_RECEIVED", !.owner = st.lis.owner, !.port = port])

alloc_client_connection(st, s, p, port) ==
    Take(st, s, [EmptyConn EXCEPT !.state = "SYN_SENT", !.accepted = TRUE, !.outbound = TRUE,
                                  !.refs = 1, !.owner = p, !.port = port])

FinSent(st, s) ==
    LET c == st.c[s] IN
    Set(st, s, [c EXCEPT !.fin_pending = FALSE, !.local_write_closed = TRUE, !.close_deadline = TRUE,
                         !.state = IF c.peer_closed \/ @ = "CLOSE_WAIT" THEN "LAST_ACK"
                                   ELSE IF @ \in {"ESTABLISHED", "SYN_RECEIVED"} THEN "FIN_WAIT_1" ELSE @])
tcp_send_fin(st, s) ==
    LET c == st.c[s] IN
    IF c.reset \/ (c.local_write_closed /\ ~c.fin_pending) THEN st
    ELSE IF ~tcp_tx_has_space(c, FIN)
    THEN Set(st, s, [c EXCEPT !.fin_pending = TRUE, !.local_write_closed = TRUE, !.close_deadline = TRUE])
    ELSE IF ~st.sends THEN st
    ELSE FinSent(send_tcp_segment(st, s, FIN), s)

FinRefused(st, s) ==
    /\ ~st.sends /\ tcp_tx_has_space(st.c[s], FIN) /\ ~st.c[s].reset
    /\ ~st.c[s].local_write_closed \/ st.c[s].fin_pending

PeerClosed(st, s) ==
    LET c == st.c[s] IN
    CASE c.state = "FIN_WAIT_2" -> tcp_enter_time_wait(st, s)
      [] c.state \in {"ESTABLISHED", "SYN_RECEIVED"} ->
           Set(st, s, [c EXCEPT !.close_deadline = TRUE,
               !.state = IF @ = "ESTABLISHED" /\ c.local_write_closed THEN "LAST_ACK" ELSE "CLOSE_WAIT"])
      [] OTHER -> st
tcp_handle_fin(st, s) ==
    Wake(PeerClosed(send_tcp_segment(Set(st, s, [st.c[s] EXCEPT !.peer_closed = TRUE]), s, ACK), s),
         {"read", "write", "connect"})

-----------------------------------------------------------------------------
(* Acknowledgements and windows.                                           *)

tcp_set_peer_window(st, s, win) ==
    LET c == st.c[s]
        d == IF win = 0 THEN [c EXCEPT !.peer_window = 0, !.zero_deadline = TRUE]
             ELSE [c EXCEPT !.peer_window = win, !.zero_deadline = FALSE, !.probes = 0,
                            !.tx = IF c.peer_window = 0 THEN {[r EXCEPT !.retries = 0] : r \in @} ELSE @]
    IN  Wake(Set(st, s, d), IF win > c.peer_window THEN {"write"} ELSE {})

tcp_update_peer_window(st, s, m) ==
    LET c == st.c[s] IN
    IF \/ tcp_ack_beyond_sent(c, m.ack) \/ Before(m.ack, Una(c))
       \/ c.window # <<>> /\ \/ Before(m.seq, c.window[1])
                             \/ m.seq = c.window[1] /\ Before(m.ack, c.window[2])
    THEN st
    ELSE tcp_set_peer_window(Set(st, s, [c EXCEPT !.window = <<m.seq, m.ack>>, !.probes = 0]), s, m.win)

AckedEarly(r, ack) == ~Before(ack, r.seq)
Acked(r, ack) == ~Before(ack, Add(r.seq, tcp_sequence_advance(r)))

(* The part of a record an acknowledgement inside it leaves.               *)
Suffix(r, ack) ==
    LET consumed == ((ack - r.seq) % SeqSpace) - (IF r.syn THEN 1 ELSE 0)
    IN  IF ~Before(r.seq, ack) THEN r
        ELSE [r EXCEPT !.seq = ack, !.syn = FALSE,
                       !.data = SubSeq(@, Min({consumed, Len(@)}) + 1, Len(@))]

SendPendingFin(st, s) ==
    IF ~st.c[s].fin_pending THEN st
    ELSE IF FinRefused(st, s) THEN tcp_fail_connection(st, s, "reset")
    ELSE tcp_send_fin(st, s)
Unacked(c, ack) == {Suffix(r, ack) : r \in {q \in c.tx : ~Acked(q, ack)}}
tcp_ack_tx_records(st, s, ack) ==
    LET c == st.c[s] IN
    IF tcp_ack_beyond_sent(c, ack) \/ Unacked(c, ack) = c.tx THEN st
    ELSE Wake(SendPendingFin(Set(st, s, [c EXCEPT !.tx = Unacked(c, ack)]), s), {"write"})

FinAcked(a, s, fin) ==
    LET c == a.c[s] IN
    CASE c.state = "FIN_WAIT_1" /\ fin ->
           Set(a, s, [c EXCEPT !.close_deadline = TRUE,
                               !.state = IF c.peer_closed THEN "TIME_WAIT" ELSE "FIN_WAIT_2"])
      [] c.state = "LAST_ACK" /\ fin -> tcp_enter_time_wait(a, s)
      [] c.state = "TIME_WAIT" -> Set(a, s, [c EXCEPT !.close_deadline = TRUE])
      [] OTHER -> a
tcp_handle_ack(st, s, ack) ==
    IF tcp_ack_beyond_sent(st.c[s], ack) THEN st
    ELSE FinAcked(tcp_ack_tx_records(st, s, ack), s, \E r \in st.c[s].tx : r.fin /\ Acked(r, ack))

(* Bytes already read are squeezed out first: `kept' is what was unread    *)
(* when that began, and it is stored whatever was read since.              *)
append_connection_data(st, s, bytes, kept) ==
    Wake(Set(st, s, [st.c[s] EXCEPT !.rx = kept \o bytes, !.rx_offset = FALSE]), {"read"})
Appends(st, bytes, kept) == st.allocates /\ Len(kept) + Len(bytes) <= RxMax

HasPendingSlot(st, s) == st.c[s].accepted \/ st.c[s].pending \/ Cardinality(st.pend) < Pending
ensure_pending_connection(st, s) ==
    IF st.c[s].accepted \/ st.c[s].pending THEN st
    ELSE Wake([Set(st, s, [st.c[s] EXCEPT !.pending = TRUE]) EXCEPT
                 !.pend = @ \cup {[slot |-> s, id |-> st.c[s].id, owner |-> st.c[s].owner]}], {"accept"})

-----------------------------------------------------------------------------
(* handle_tcp, by the kind of segment.                                     *)

find_connection(st, port) ==
    {s \in Slots : st.c[s].state \notin {"EMPTY", "CLOSED"} /\ ~st.c[s].reset /\ st.c[s].port = port}

(* What the checks of a frame come to: what is to be done, on which slot,  *)
(* with which part of the segment.                                         *)
Verdict(do, s, n) == [do |-> do, s |-> s, n |-> n]

handle_rst(st, s, m) ==
    LET c == st.c[s] IN
    CASE c.state = "TIME_WAIT" -> Verdict("drop", s, m)
      [] c.state = "SYN_SENT" /\ (~m.ackf \/ m.ack # c.local_seq) -> Verdict("drop", s, m)
      [] c.state # "SYN_SENT" /\ m.seq # c.remote_next ->
            Verdict(IF ((m.seq - c.remote_next) % SeqSpace) < tcp_receive_window(c) THEN "ack" ELSE "drop", s, m)
      [] OTHER -> Verdict("abort", s, m)
Abort(st, s) ==
    IF st.c[s].refs = 0 THEN close_connection(st, s)
    ELSE tcp_fail_connection(st, s, IF st.c[s].state = "SYN_SENT" THEN "refused" ELSE "reset")

(* A SYN for a connection already there: repeat the SYN it was answered    *)
(* with, or acknowledge.                                                   *)
HandleRepeatedSyn(st, s, m) ==
    LET c == st.c[s]
        syn == {r \in c.tx : r.syn}
    IN  IF c.state # "SYN_RECEIVED" \/ Add(m.seq, 1) # c.remote_next THEN send_tcp_segment(st, s, ACK)
        ELSE IF syn = {} THEN send_tcp_segment(st, s, Flags(TRUE, TRUE, FALSE))
        ELSE LET r == CHOOSE r \in syn : TRUE IN send_tcp_segment_at(st, s, r.seq, r)

Established(st, s) == Set(st, s, [st.c[s] EXCEPT !.state = "ESTABLISHED"])
Synced(st, s, m) == Set(st, s, [st.c[s] EXCEPT !.remote_next = Add(m.seq, 1)])
HandleSynAck(st, s, m) ==
    Wake(send_tcp_segment(Established(tcp_ack_tx_records(
             Synced(tcp_update_peer_window(st, s, m), s, m), s, m.ack), s), s, ACK), {"connect"})

HandlePassiveOpen(st, s, m) ==
    send_tcp_segment(Synced(tcp_set_peer_window(alloc_connection(st, s, m.port), s, m.win), s, m), s,
                     Flags(TRUE, TRUE, FALSE))

(* `victim' is the slot a passive open takes (0: the table is full).       *)
handle_syn(st, m, victim) ==
    LET found == find_connection(st, m.port)
        s == CHOOSE s \in found : TRUE
        listens == st.h = "s" /\ st.lis.used
    IN  CASE found # {} /\ st.c[s].state # "SYN_SENT" -> Verdict("repeat", s, m)
          [] ~listens -> IF found # {} /\ m.ackf /\ m.ack = st.c[s].local_seq
                         THEN Verdict("synack", s, m) ELSE Verdict("reset", 0, m)
          [] OTHER -> Verdict(IF victim = 0 THEN "reset" ELSE "open", victim, m)

(* A segment of an open connection.  `m' with its duplicate prefix cut off *)
(* must be next in sequence and fit the window.                            *)
handle_segment(st, s, m) ==
    LET c == st.c[s]
        advance(q) == Len(q.data) + (IF q.fin THEN 1 ELSE 0)
        dup == IF Before(m.seq, c.remote_next) THEN (c.remote_next - m.seq) % SeqSpace ELSE 0
        n == IF advance(m) = 0 \/ dup = 0 THEN m
             ELSE [m EXCEPT !.seq = c.remote_next, !.data = SubSeq(@, dup + 1, Len(@))]
        window == tcp_receive_window(c)
        acceptable == IF advance(n) = 0
            THEN n.seq = c.remote_next \/ ((n.seq - c.remote_next) % SeqSpace) < window
            ELSE n.seq = c.remote_next /\ ~c.peer_closed /\ (advance(n) <= window \/ n.data = <<>>)
    IN  CASE c.state = "SYN_SENT" \/ ~m.ackf -> Verdict("drop", s, m)
          [] advance(m) # 0 /\ dup >= advance(m) -> Verdict("ack", s, m)
          [] ~acceptable -> Verdict("ack", s, m)
          [] c.state # "SYN_RECEIVED" /\ tcp_ack_beyond_sent(c, m.ack) -> Verdict("ack", s, m)
          [] c.state = "SYN_RECEIVED" /\ n.seq # c.remote_next -> Verdict("ack", s, m)
          [] c.state = "SYN_RECEIVED" /\ m.ack # c.local_seq -> Verdict("reset", s, m)
          [] OTHER -> Verdict(IF c.state = "SYN_RECEIVED" THEN "establish" ELSE "accept", s, n)

(* An accepted segment: the last of a handshake, window, acknowledgement.  *)
HandleAccepted(st, s, m) == tcp_handle_ack(tcp_update_peer_window(st, s, m), s, m.ack)
HandleEstablished(st, s, m) ==
    IF HasPendingSlot(st, s)
    THEN HandleAccepted(ensure_pending_connection(Established(st, s), s), s, m)
    ELSE close_connection(send_tcp_reset(st, m), s)

(* Its data, which an open reader takes, and its FIN.                      *)
Takes(c, n) == tcp_state_can_read(c) /\ n.data # <<>>
Advanced(st, s, n) ==
    Set(st, s, [st.c[s] EXCEPT !.remote_next = Add(n.seq, Len(n.data) + (IF n.fin THEN 1 ELSE 0))])
Answer(st, s, n) == IF n.fin THEN tcp_handle_fin(st, s) ELSE send_tcp_segment(st, s, ACK)
HandleData(st, s, n, kept) ==
    IF Appends(st, n.data, kept)
    THEN Answer(Advanced(append_connection_data(st, s, n.data, kept), s, n), s, n)
    ELSE send_tcp_segment(Set(st, s, [st.c[s] EXCEPT !.rx = kept, !.rx_offset = FALSE]), s, ACK)
HandlePayload(st, s, n) ==
    LET c == st.c[s] IN
    CASE Takes(c, n) /\ ~c.local_read_closed -> HandleData(st, s, n, c.rx)
      [] Takes(c, n) /\ c.local_read_closed -> Answer(Advanced(st, s, n), s, n)
      [] ~Takes(c, n) /\ n.fin -> tcp_handle_fin(Advanced(st, s, n), s)
      [] OTHER -> st

(* The effect of a frame up to its data, and the rest.                     *)
Begin(st, m, v) ==
    CASE v.do = "ack" -> send_tcp_segment(st, v.s, ACK)
      [] v.do = "reset" -> send_tcp_reset(st, m)
      [] v.do = "abort" -> Abort(st, v.s)
      [] v.do = "repeat" -> HandleRepeatedSyn(st, v.s, m)
      [] v.do = "synack" -> HandleSynAck(st, v.s, m)
      [] v.do = "open" -> HandlePassiveOpen(st, v.s, m)
      [] v.do = "establish" -> HandleEstablished(st, v.s, m)
      [] v.do = "accept" -> HandleAccepted(st, v.s, m)
      [] OTHER -> st
Carries(st, v) == v.do \in {"establish", "accept"} /\ st.c[v.s].state # "EMPTY"
Finish(st, v) == IF Carries(st, v) THEN HandlePayload(st, v.s, v.n) ELSE st

Judge(st, m, victim) ==
    LET found == find_connection(st, m.port)
        s == CHOOSE s \in found : TRUE
    IN  CASE m.rst -> IF found = {} THEN Verdict("drop", 0, m) ELSE handle_rst(st, s, m)
          [] m.syn -> handle_syn(st, m, victim)
          [] OTHER -> IF found = {} THEN Verdict("reset", 0, m) ELSE handle_segment(st, s, m)
handle_tcp(st, m, victim) ==
    LET v == Judge(st, m, victim) IN Finish(Begin(st, m, v), v)

-----------------------------------------------------------------------------
(* Writing a view back: state, frames sent, waiters woken.                 *)

(* What the network still carries: at most Cap segments each way.          *)
Carried(all) ==
    LET To(w, h) == Cardinality({m \in w : m.to = h})
    IN  IF \A h \in Hosts : To(all, h) <= Cap[h] THEN {all}
        ELSE {w \in SUBSET all : \A h \in Hosts : To(w, h) = Min({Cap[h], To(all, h)})}

Effect(st) == <<st.c, st.lis, st.pend, st.id, st.out, st.wake>>
Exchange(st, taken) ==
    /\ conn' = [conn EXCEPT ![st.h] = st.c]
    /\ listener' = st.lis /\ pending' = IF st.h = "s" THEN st.pend ELSE pending
    /\ nextId' = [nextId EXCEPT ![st.h] = st.id]
    /\ wire' \in Carried((wire \ taken) \cup st.out)
    /\ opened' = opened \cup {st.c[s].port : s \in {s \in Slots : st.c[s].state = "SYN_RECEIVED"}}

Commit(st) == Exchange(st, {})

Woken(st) == [p \in Procs |-> IF Host(p) = st.h /\ call[p].op \in st.wake
                              THEN [call[p] EXCEPT !.woken = TRUE] ELSE call[p]]

(* What may go wrong during a step: the card refuses frames, or the heap   *)
(* is empty.                                                               *)
Luck == {<<TRUE, TRUE>>} \cup (IF faults < MaxFaults THEN {<<FALSE, TRUE>>, <<TRUE, FALSE>>} ELSE {})
Count(luck) == faults' = faults + (IF luck = <<TRUE, TRUE>> THEN 0 ELSE 1)

Quiet == UNCHANGED <<ports, desc, dying, wrote, got, eof>>

(* The first sequence number is a function of the port, so nothing tells a  *)
(* SYN that outlives its connection from a new one: the assumption is that  *)
(* none does.                                                               *)
Current(m) ==
    m.syn /\ ~m.ackf /\ m.port \in opened =>
        \/ find_connection(View("s", TRUE, TRUE), m.port) # {}
        \/ \E s \in Slots : conn["c"][s].state = "SYN_SENT" /\ conn["c"][s].port = m.port

(* A frame reaches its host, through a poll in a call or a worker nothing  *)
(* interrupts.  One owner at a time drains the card.                       *)
net_handle_ethernet_frame(m) ==
    /\ Current(m) /\ work[m.to] = NoFrame
    /\ \E luck \in Luck \cup (IF faults < MaxFaults THEN {<<TRUE, TRUE, "repeat">>} ELSE {}) :
        LET st == View(m.to, luck[1], luck[2])
            free == IF Takeable(st) = {} THEN {0} ELSE Takeable(st)
        IN  \E victim \in free : \E after \in {handle_tcp(st, m, victim)} :
                /\ ~(luck[1] /\ luck[2]) =>
                     Effect(after) # Effect(handle_tcp(View(m.to, TRUE, TRUE), m, victim))
                /\ Exchange(after, IF Len(luck) = 2 THEN {m} ELSE {})
                /\ call' = Woken(after) /\ Count(luck) /\ Quiet

(* net_worker runs with interrupts on.  It has checked a frame and chosen  *)
(* the connection when it is preempted ...                                 *)
net_worker(m) ==
    /\ m.to \in Preempted /\ Current(m) /\ work[m.to] = NoFrame
    /\ LET st == View(m.to, TRUE, TRUE)
           free == IF Takeable(st) = {} THEN {0} ELSE Takeable(st)
       IN  \E victim \in free : \E v \in {Judge(st, m, victim)} :
             /\ v.do \in {"abort", "synack", "open", "establish", "accept"}
             /\ work' = [work EXCEPT ![m.to] =
                   [at |-> "checked", m |-> m, v |-> v, kept |-> <<>>,
                    id |-> st.c[v.s].id, owner |-> st.c[v.s].owner]]
    /\ wire' = wire \ {m}
    /\ UNCHANGED <<conn, listener, pending, nextId, opened, call, faults>> /\ Quiet

(* ... and goes on with what it chose, whatever became of it.  A slot freed *)
(* meanwhile still has its addresses.  Of what is then stored in it, the   *)
(* next allocation overwrites all but the received bytes.                  *)
Chosen(st, w) ==
    IF st.c[w.v.s].state # "EMPTY" THEN st
    ELSE Set(st, w.v.s, [EmptyConn EXCEPT !.port = w.m.port, !.id = w.id, !.owner = w.owner])
Left(st, w) ==
    IF st.c[w.v.s].state # "EMPTY" THEN st
    ELSE Set(st, w.v.s, [EmptyConn EXCEPT !.rx = st.c[w.v.s].rx])
Compacts(st, v) ==
    LET c == st.c[v.s]
    IN  Carries(st, v) /\ Takes(c, v.n) /\ ~c.local_read_closed /\ c.rx_offset

FrameResumes(h) ==
    /\ work[h].at = "checked"
    /\ \E w \in {work[h]}, luck \in Luck :
        \E begun \in {Begin(Chosen(View(h, luck[1], luck[2]), w), w.m, w.v)} :
        \E halts \in IF Compacts(begun, w.v) THEN BOOLEAN ELSE {FALSE} :
            LET after == Left(IF halts THEN begun ELSE Finish(begun, w.v), w) IN
            /\ Commit(after) /\ call' = Woken(after) /\ Count(luck) /\ Quiet
            /\ work' = [work EXCEPT ![h] =
                  IF halts THEN [w EXCEPT !.at = "compacting", !.kept = begun.c[w.v.s].rx] ELSE NoFrame]

(* The unread bytes have been moved to the front; their number, taken      *)
(* before, is stored now, and the segment is appended behind them.         *)
FrameStores(h) ==
    /\ work[h].at = "compacting"
    /\ \E w \in {work[h]}, luck \in Luck :
        LET after == Left(HandleData(Chosen(View(h, luck[1], luck[2]), w), w.v.s, w.v.n, w.kept), w)
        IN  Commit(after) /\ call' = Woken(after) /\ Count(luck) /\ Quiet
    /\ work' = [work EXCEPT ![h] = NoFrame]

(* Another actor changed, or read in the middle of its move, the           *)
(* connection a preempted frame is about.                                  *)
Touched(h) ==
    LET w == work[h] IN
    /\ w # NoFrame /\ work'[h] = w
    /\ \/ conn'[h][w.v.s] # conn[h][w.v.s]
       \/ h = "s" /\ listener' # listener
       \/ w.at = "compacting" /\ \E p \in Procs : Host(p) = h /\ call'[p] # call[p]
Races ==
    UNION {LET s == work[h].v.s IN
           {work[h].m.port, conn[h][s].port, conn'[h][s].port}
           \cup (IF work[h].at = "compacting" /\ conn'[h][s].state = "EMPTY" THEN Ports ELSE {}) :
              h \in {h \in Hosts : Touched(h)}}

-----------------------------------------------------------------------------
(* net_timer_tick.  A tick at which several deadlines have passed is       *)
(* several of these steps in a row.                                        *)

Live(c) == c.state \notin {"EMPTY", "CLOSED"} /\ ~c.reset

RetransmitDue(st, s, r) ==
    LET sent == send_tcp_segment_at(st, s, r.seq, r) IN
    IF r.retries >= RetransmitMax
    THEN tcp_fail_connection(st, s, IF st.c[s].state = "SYN_SENT" THEN "timedout" ELSE "reset")
    ELSE Set(sent, s, [sent.c[s] EXCEPT !.tx = (@ \ {r}) \cup {[r EXCEPT !.retries = @ + 1]}])

tcp_retransmit_due(st, s) ==
    IF ~Live(st.c[s]) \/ tcp_persist_active(st.c[s]) THEN {}
    ELSE {RetransmitDue(st, s, r) : r \in st.c[s].tx}

tcp_zero_window_probe_due(st, s) ==
    LET c == st.c[s]
        first == {r \in c.tx : r.seq = Una(c) /\ r.data # <<>>}
        sent == IF first = {} THEN send_tcp_segment_at(st, s, Add(Una(c), -1), ACK)
                ELSE send_tcp_segment_at(st, s, Una(c), Data(<<(CHOOSE r \in first : TRUE).data[1]>>))
    IN  IF ~tcp_persist_active(c) THEN {}
        ELSE IF c.probes >= ZeroWindowMax THEN {tcp_fail_connection(st, s, "timedout")}
        ELSE {Set(sent, s, [c EXCEPT !.probes = @ + 1])}

tcp_idle_cleanup_due(st, s) ==
    IF Live(st.c[s]) /\ ~tcp_state_closing(st.c[s]) THEN {tcp_fail_connection(st, s, "timedout")} ELSE {}

CloseDue(st, s) ==
    LET c == st.c[s] IN
    IF /\ c.state # "EMPTY" /\ c.close_deadline
       /\ c.reset \/ c.fin_pending \/ tcp_state_closing(c)
    THEN {tcp_expire_connection(st, s)} ELSE {}

(* find_referenced_connection_by_id: the slot of a handle a call may use.  *)
Named(h, id) == {s \in Slots : conn[h][s].state # "EMPTY" /\ conn[h][s].id = id /\ conn[h][s].refs # 0}

(* read_ready holds but the state is not one read serves (LAST_ACK): the   *)
(* call looks again at once, with interrupts masked, and only its own      *)
(* polls of the card go on.                                                *)
Spinning(h) ==
    Blocking /\
    \E p \in Procs : /\ call[p].op = "read" /\ call[p].woken /\ Host(p) = h
                     /\ \E s \in Named(h, call[p].id) :
                          /\ ~tcp_state_can_read(conn[h][s]) /\ ~conn[h][s].reset
                          /\ ~conn[h][s].local_read_closed
                          /\ conn[h][s].peer_closed \/ conn[h][s].rx # <<>>
(* A deadline that gives a live connection up: the other end was silent.   *)
GivesUp(c, d) == ~c.reset /\ c.state # "TIME_WAIT" /\ (d.reset \/ d.state = "EMPTY")

net_timer_tick(h) ==
    /\ ~Spinning(h)
    /\ \E s \in Slots, sends \in IF faults < MaxFaults THEN BOOLEAN ELSE {TRUE} :
        LET st == View(h, sends, TRUE) IN
        \E after \in tcp_retransmit_due(st, s) \cup tcp_zero_window_probe_due(st, s) \cup
                     CloseDue(st, s) \cup tcp_idle_cleanup_due(st, s) :
            /\ ~sends => ~GivesUp(st.c[s], after.c[s])
            /\ GivesUp(st.c[s], after.c[s]) => faults < MaxFaults
            /\ Commit(after) /\ call' = Woken(after) /\ Quiet
            /\ faults' = faults + IF sends /\ ~GivesUp(st.c[s], after.c[s]) THEN 0 ELSE 1

-----------------------------------------------------------------------------
(* Calls.  A call that finds nothing parks on its queue; woken, it looks   *)
(* again from the top.                                                     *)

Parked(op, id) == [op |-> op, id |-> id, woken |-> FALSE]
Idle == Parked("none", 0)

Spin(p, id) ==
    /\ Blocking
    /\ call[p].op # "read"
    /\ call' = [call EXCEPT ![p] = [Parked("read", id) EXCEPT !.woken = TRUE]]
    /\ UNCHANGED <<stack, ports, desc, dying, wrote, got, eof, faults>>

Runs(p) == p \notin dying /\ call[p].op = "none" /\ ~Spinning(Host(p))
Again(p, op, id) == p \notin dying /\ call[p].op = op /\ call[p].id = id /\ call[p].woken

Return(p, st) == call' = [Woken(st) EXCEPT ![p] = Idle]
Park(p, op, id) ==
    /\ Blocking
    /\ call' = [call EXCEPT ![p] = Parked(op, id)]
    /\ UNCHANGED <<stack, ports, desc, dying, wrote, got, eof, faults>>

net_connect(p, nonblock) ==
    /\ Host(p) = "c" /\ ports < MaxConnects /\ (nonblock \/ Blocking) /\ Runs(p)
    /\ \E luck \in {l \in Luck : l[2]} :
        LET st == View("c", luck[1], TRUE) IN
        \E s \in Takeable(st) :
            LET a == alloc_client_connection(st, s, p, ports + 1)
                after == IF ~luck[1] THEN close_connection(a, s)
                         ELSE send_tcp_segment(a, s, Flags(TRUE, FALSE, FALSE))
            IN  /\ Commit(after) /\ Count(luck)
                /\ desc' = IF luck[1] /\ nonblock THEN [desc EXCEPT ![p] = @ \cup {st.id}] ELSE desc
                /\ call' = IF luck[1] /\ ~nonblock THEN [Woken(after) EXCEPT ![p] = Parked("connect", st.id)]
                           ELSE Woken(after)
    /\ ports' = ports + 1
    /\ UNCHANGED <<dying, wrote, got, eof>>

(* The rest of a blocking connect: the outcome, the time-out or the kill.  *)
ConnectReturns(p) ==
    /\ call[p].op = "connect"
    /\ LET st == View("c", TRUE, TRUE)
           found == {s \in Slots : st.c[s].state # "EMPTY" /\ st.c[s].id = call[p].id /\ st.c[s].owner = p}
           s == CHOOSE s \in found : TRUE
           done == p \notin dying /\ found # {} /\ st.c[s].state = "ESTABLISHED"
           after == IF done \/ found = {} THEN st ELSE close_connection(st, s)
       IN  /\ \/ call[p].woken /\ (p \in dying \/ found = {} \/ st.c[s].state = "ESTABLISHED"
                                    \/ st.c[s].reset \/ st.c[s].peer_closed)
              \/ faults < MaxFaults   \* timer_ticks() >= deadline, or a signal
           /\ Commit(after) /\ Return(p, after)
           /\ desc' = IF done THEN [desc EXCEPT ![p] = @ \cup {call[p].id}] ELSE desc
           /\ faults' = IF call[p].woken \/ done THEN faults ELSE faults + 1
    /\ UNCHANGED <<ports, dying, wrote, got, eof>>

net_accept_checked(p) ==
    /\ 0 \in desc[p]
    /\ Runs(p) \/ Again(p, "accept", 0)
    /\ IF pending = {} THEN Park(p, "accept", 0)
       ELSE \E q \in pending, copy \in BOOLEAN :
            LET st == View("s", TRUE, TRUE)
                c == st.c[q.slot]
                n == IF copy THEN Len(c.rx) ELSE 0
                a == [Set(st, q.slot, [c EXCEPT !.rx = SubSeq(@, n + 1, Len(@)), !.rx_offset = @ \/ n > 0,
                                         !.pending = FALSE,
                                         !.accepted = TRUE, !.refs = 1]) EXCEPT !.pend = @ \ {q}]
                after == IF n > 0 THEN send_tcp_segment(a, q.slot, ACK) ELSE a
            IN  /\ copy => c.rx # <<>>
                /\ Commit(after) /\ Return(p, after)
                /\ desc' = [desc EXCEPT ![p] = @ \cup {q.id}]
                /\ got' = [got EXCEPT !["s"][c.port] = @ \o SubSeq(c.rx, 1, n)]
                /\ UNCHANGED <<ports, dying, wrote, eof, faults>>

net_read_checked(p, id) ==
    /\ Host(p) \in Readers
    /\ Runs(p) \/ Again(p, "read", id)
    /\ id \in desc[p] \ {0}
    /\ LET h == Host(p)
           st == View(h, TRUE, TRUE)
           s == CHOOSE s \in Named(h, id) : TRUE
           c == st.c[s]
           after == send_tcp_segment(Set(st, s, [c EXCEPT !.rx = Tail(@), !.rx_offset = TRUE]), s, ACK)
           moving == work[h].at = "compacting" /\ work[h].v.s = s
           ready == ~c.reset /\ ~c.local_read_closed /\ tcp_state_can_read(c)
           ends == ~c.reset /\ ~c.local_read_closed /\ c.peer_closed
       IN  CASE Named(h, id) = {} \/ c.reset \/ c.local_read_closed ->
                  /\ call[p].op = "read" /\ Return(p, st)
                  /\ UNCHANGED <<stack, ports, desc, dying, wrote, got, eof, faults>>
             [] ready /\ c.rx # <<>> ->
                  /\ Commit(after) /\ Return(p, after)
                  \* In the middle of the move the byte may be any byte of the buffer.
                  /\ \E byte \in {Head(c.rx)} \cup (IF moving THEN {0} ELSE {}) :
                        got' = [got EXCEPT ![h][c.port] = Append(@, byte)]
                  /\ UNCHANGED <<ports, desc, dying, wrote, eof, faults>>
             [] ready /\ c.rx = <<>> /\ ends ->
                  /\ eof' = [eof EXCEPT ![h] = @ \cup {c.port}] /\ Return(p, st)
                  /\ UNCHANGED <<stack, ports, desc, dying, wrote, got, faults>>
             [] ~ready /\ (ends \/ c.rx # <<>>) -> Spin(p, id)
             [] OTHER -> Park(p, "read", id)

net_respond_checked(p, id) ==
    /\ Runs(p) \/ Again(p, "write", id)
    /\ id \in desc[p] \ {0}
    /\ LET h == Host(p)
           s == CHOOSE s \in Named(h, id) : TRUE
           c == conn[h][s]
           open == tcp_state_can_write(c) /\ ~c.local_write_closed /\ ~c.reset
           left == MaxBytes[h] - wrote[h][c.port]
           room == tcp_tx_available_payload(c)
           base == wrote[h][c.port]
       IN  CASE Named(h, id) = {} \/ ~open ->
                  /\ call[p].op = "write" /\ Return(p, View(h, TRUE, TRUE))
                  /\ UNCHANGED <<stack, ports, desc, dying, wrote, got, eof, faults>>
             [] open /\ room = 0 -> left > 0 /\ Park(p, "write", id)
             [] OTHER -> \E n \in 1..Min({room, left}), luck \in {l \in Luck : l[2]} :
                  LET st == View(h, luck[1], TRUE)
                      after == send_tcp_segment(st, s, Data([i \in 1..n |-> base + i]))
                  IN  /\ Commit(after) /\ Return(p, after) /\ Count(luck)
                      /\ wrote' = IF luck[1] THEN [wrote EXCEPT ![h][c.port] = @ + n] ELSE wrote
                      /\ UNCHANGED <<ports, desc, dying, got, eof>>

net_shutdown(p, id, reading, writing) ==
    /\ Runs(p) /\ id \in desc[p] \ {0}
    /\ \E s \in Named(Host(p), id), luck \in {l \in Luck : l[2]} :
        LET st == View(Host(p), luck[1], TRUE)
            c == st.c[s]
            r == IF ~reading THEN st
                 ELSE Wake(Set(st, s, [c EXCEPT !.local_read_closed = TRUE, !.rx = <<>>,
                                             !.rx_offset = @ \/ c.rx # <<>>]), {"read"})
            after == IF writing /\ ~c.local_write_closed THEN tcp_send_fin(r, s) ELSE r
        IN  /\ c.state # "CLOSED" /\ tcp_state_can_read(c)
            /\ Effect(after) # Effect(st) /\ (~luck[1] => FinRefused(st, s) /\ writing)
            /\ Commit(after) /\ call' = Woken(after) /\ Count(luck) /\ Quiet

(* net_hold, when a child inherits a descriptor.                           *)
net_hold(id) ==
    /\ (IF id = 0 THEN "listener" ELSE "connection") \in Admin
    /\ Runs("sp") /\ "sc" \notin dying /\ id \in desc["sp"] \ desc["sc"]
    /\ IF id = 0
       THEN listener' = [listener EXCEPT !.refs = @ + 1] /\ UNCHANGED conn
       ELSE /\ \E s \in Named("s", id) : conn' = [conn EXCEPT !["s"][s].refs = @ + 1]
            /\ UNCHANGED listener
    /\ desc' = [desc EXCEPT !["sc"] = @ \cup {id}]
    /\ UNCHANGED <<pending, nextId, ports, call, dying, wire, opened, wrote, got, eof, faults>>

CloseConnectionRef(st, s) ==
    LET c == [st.c[s] EXCEPT !.refs = @ - 1]
        d == Wake(Set(st, s, c), {"read", "write"})
        o == Set(d, s, [c EXCEPT !.owner = "none"])
    IN  CASE c.refs # 0 -> d
          [] c.refs = 0 /\ (c.reset \/ c.state \in {"SYN_SENT", "CLOSED"}) -> close_connection(o, s)
          [] c.refs = 0 /\ ~c.reset /\ tcp_state_can_write(c) /\ ~c.local_write_closed ->
                IF FinRefused(o, s) THEN close_connection(o, s) ELSE tcp_send_fin(o, s)
          [] OTHER -> IF tcp_state_closing(c) THEN Set(o, s, [o.c[s] EXCEPT !.close_deadline = TRUE]) ELSE o

CloseListenerRef(st) ==
    LET l == [st.lis EXCEPT !.refs = @ - 1]
        backlog == {s \in Slots : st.c[s].state # "EMPTY" /\ st.c[s].refs = 0 /\ ~st.c[s].accepted}
    IN  IF l.refs # 0 THEN Wake([st EXCEPT !.lis = l], {"accept"})
        ELSE Wake([st EXCEPT !.lis = [l EXCEPT !.used = FALSE], !.pend = {},
                             !.c = [s \in Slots |-> IF s \in backlog THEN EmptyConn ELSE @[s]]],
                  {"accept"} \cup IF backlog = {} THEN {} ELSE {"read", "write", "connect"})

(* A descriptor goes, by close or by the teardown of its process.          *)
net_close(p, id) ==
    /\ call[p].op = "none" /\ id \in desc[p] /\ ~Spinning(Host(p)) /\ (id # 0 \/ "listener" \in Admin)
    /\ \E luck \in {l \in Luck : l[2]} :
        LET st == View(Host(p), luck[1], TRUE)
            s == CHOOSE s \in Named(Host(p), id) : TRUE
            after == IF id = 0 THEN CloseListenerRef(st)
                     ELSE IF Named(Host(p), id) = {} THEN st ELSE CloseConnectionRef(st, s)
        IN  /\ ~luck[1] => id # 0 /\ Named(Host(p), id) # {} /\ FinRefused(st, s)
            /\ Commit(after) /\ call' = Woken(after) /\ Count(luck)
            /\ desc' = [desc EXCEPT ![p] = @ \ {id}]
    /\ UNCHANGED <<ports, dying, wrote, got, eof>>

net_listen(p) ==
    /\ Host(p) = "s" /\ ~listener.used /\ Runs(p)
    /\ listener' = [used |-> TRUE, refs |-> 1, owner |-> p]
    /\ desc' = [desc EXCEPT ![p] = @ \cup {0}]
    /\ UNCHANGED <<conn, pending, nextId, ports, call, dying, wire, opened, wrote, got, eof, faults>>

(* A process is killed: net_process_wake gets it out of its call.          *)
net_process_wake(p) ==
    /\ p \notin dying /\ faults < MaxFaults /\ ~Spinning(Host(p))
    /\ dying' = dying \cup {p} /\ faults' = faults + 1
    /\ call' = [q \in Procs |-> IF Host(q) # Host(p) \/ call[q].op = "none" THEN call[q]
                                ELSE [call[q] EXCEPT !.woken = TRUE]]
    /\ UNCHANGED <<stack, ports, desc, wrote, got, eof>>

CallAborted(p) ==
    /\ p \in dying /\ call[p].op \in {"read", "write", "accept"}
    /\ call' = [call EXCEPT ![p] = Idle]
    /\ UNCHANGED <<stack, ports, desc, dying, wrote, got, eof, faults>>

(* The initial thread exits: scheduler_kill_user_threads ends a sibling     *)
(* where it stands in its call, which undoes nothing.                       *)
process_exit(p) ==
    /\ call[p].op # "none" /\ ~Spinning(Host(p))
    /\ p \in dying \/ faults < MaxFaults
    /\ dying' = dying \cup {p} /\ faults' = IF p \in dying THEN faults ELSE faults + 1
    /\ abandoned' = abandoned \cup (IF call[p].op = "connect" THEN {call[p].id} ELSE {})
    /\ call' = [call EXCEPT ![p] = Idle]
    /\ UNCHANGED <<stack, ports, desc, wrote, got, eof>>

net_process_cleanup(p) ==
    /\ p \in dying /\ call[p].op = "none" /\ desc[p] = {}
    /\ LET st == View(Host(p), TRUE, TRUE)
           gone == st.lis.refs = 0
           served == Host(p) = "s" /\ st.lis.used /\ st.lis.refs # 0
           owned == {s \in Slots : st.c[s].state # "EMPTY" /\ st.c[s].owner = p}
           backlog(c) == ~c.accepted /\ ~c.outbound /\ served
           drop == {s \in owned : st.c[s].refs = 0 /\ ~backlog(st.c[s])}
           after == [st EXCEPT
               !.pend = {IF q.owner = p THEN [q EXCEPT !.owner = "none"] ELSE q :
                            q \in {x \in @ : x.owner = p => served} \ {x \in @ : x.slot \in drop}},
               !.lis = IF Host(p) = "s" /\ @.owner = p THEN [@ EXCEPT !.owner = "none"] ELSE @,
               !.c = [s \in Slots |-> CASE s \in drop -> EmptyConn
                                        [] s \in owned \ drop -> [@[s] EXCEPT !.owner = "none"]
                                        [] OTHER -> @[s]],
               !.wake = IF drop = {} THEN {} ELSE {"accept", "read", "write", "connect"}]
       IN  /\ Effect(after) # Effect(st)
           /\ Commit(after) /\ call' = Woken(after)
    /\ UNCHANGED <<ports, desc, dying, wrote, got, eof, faults>>

-----------------------------------------------------------------------------

Step ==
    \/ \E m \in wire : net_handle_ethernet_frame(m)
    \/ \E h \in Hosts : net_timer_tick(h)
    \/ \E p \in Procs : \/ \E nonblock \in BOOLEAN : net_connect(p, nonblock)
                        \/ ConnectReturns(p) \/ net_accept_checked(p) \/ net_listen(p)
                        \/ net_process_wake(p) \/ CallAborted(p) \/ net_process_cleanup(p)
                        \/ \E id \in desc[p] :
                             \/ net_read_checked(p, id) \/ net_respond_checked(p, id) \/ net_close(p, id)
                             \/ \E how \in Hows :
                                   net_shutdown(p, id, how[1], how[2])
    \/ \E id \in desc["sp"] : net_hold(id)

Next ==
    /\ UNCHANGED now
    /\ \/ Step /\ UNCHANGED <<work, abandoned>>
       \/ (\E p \in Procs : process_exit(p)) /\ UNCHANGED work
       \/ /\ \/ \E m \in wire : net_worker(m)
             \/ \E h \in Hosts : ~Spinning(h) /\ (FrameResumes(h) \/ FrameStores(h))
          /\ UNCHANGED abandoned
    /\ raced' = raced \cup Races

Spec == Init /\ [][Next]_vars

-----------------------------------------------------------------------------
(* Properties.                                                             *)

Prefix(n) == [i \in 1..n |-> i]

(* Every byte an application reads is the next byte the other end wrote;   *)
(* loss, repetition, reordering, closed windows, partial acknowledgements  *)
(* and retransmission change nothing.  A reader told of the end of the     *)
(* stream has read all its writer ever wrote (unless it closed reading).   *)
(* The code promises it only while nothing else changes the connection in  *)
(* the middle of a frame that the worker was preempted in: a read while    *)
(* append_connection_data moves the unread bytes is undone, and its bytes  *)
(* are read twice.                                                         *)
StreamExact ==
    \A h \in Hosts, q \in Ports \ raced :
        /\ got[h][q] = Prefix(Len(got[h][q])) /\ Len(got[h][q]) <= wrote[Peer(h)][q]
        /\ q \in eof[h] => Len(got[h][q]) = wrote[Peer(h)][q]

RefsExact ==
    \A h \in Hosts, s \in Slots :
        LET c == conn[h][s] IN
        /\ c.state # "EMPTY" =>
             c.refs = Cardinality({p \in Procs : Host(p) = h /\ c.id \in desc[p]})
                      + (IF \E p \in Procs : Host(p) = h /\ call[p].op = "connect" /\ call[p].id = c.id THEN 1 ELSE 0)
                      + (IF h = "c" /\ c.id \in abandoned THEN 1 ELSE 0)
        /\ c.state = "EMPTY" => c = EmptyConn

(* Timers and table pressure never take a connection a descriptor names.   *)
HandlesLive == \A p \in Procs : \A id \in desc[p] \ {0} : Named(Host(p), id) # {}

PendingExact ==
    /\ \A q \in pending : LET c == conn["s"][q.slot] IN
          c.id = q.id /\ c.pending /\ ~c.accepted /\ c.refs = 0 /\ c.state \notin {"EMPTY", "SYN_RECEIVED"}
    /\ \A s \in Slots : conn["s"][s].pending => \E q \in pending : q.slot = s
    /\ pending # {} => listener.used
    /\ Cardinality(pending) <= Pending

(* The records kept for retransmission tile the unacknowledged sequence.   *)
RecordsTile ==
    \A h \in Hosts, s \in Slots :
        LET c == conn[h][s] IN
        /\ \A r \in c.tx : r.seq = Una(c) \/ \E q \in c.tx : Add(q.seq, tcp_sequence_advance(q)) = r.seq
        /\ tcp_tx_outstanding_bytes(c) <= TxBytes /\ Cardinality(c.tx) <= TxHistory
        /\ Len(c.rx) <= RxMax

(* What an end no longer keeps for retransmission the other end has taken. *)
NothingForgotten ==
    \A s, t \in Slots, h \in Hosts :
        LET c == conn[h][s]
            d == conn[Peer(h)][t]
            Open(e) == e.state \notin {"EMPTY", "SYN_SENT", "CLOSED"} /\ ~e.reset
        IN  Open(c) /\ Open(d) /\ c.port = d.port => ~Before(d.remote_next, Una(c))

ExpiryDue(c) == c.close_deadline /\ (c.reset \/ c.fin_pending \/ tcp_state_closing(c))

(* A connection no descriptor names any more is retired by the tick.       *)
NoLeak ==
    \A h \in Hosts, s \in Slots :
        LET c == conn[h][s] IN
        c.state # "EMPTY" /\ c.refs = 0 /\ c.accepted => ExpiryDue(c)

(* A parked call would find nothing if it looked now, with one exception:  *)
(* a writer whose side net_shutdown closed is not woken, and sleeps until  *)
(* an acknowledgement or the deadline of the connection wakes it.          *)
ParkedRight ==
    \A p \in Procs :
        LET h == Host(p)
            Stays(c) == CASE call[p].op = "read" -> c.rx = <<>> /\ ~c.peer_closed /\ ~c.reset /\ ~c.local_read_closed
                          [] call[p].op = "write" ->
                               IF c.local_write_closed THEN ExpiryDue(c) ELSE tcp_tx_available_payload(c) = 0
                          [] OTHER -> c.state = "SYN_SENT" /\ ~c.reset
        IN  call[p].op # "none" /\ ~call[p].woken =>
              IF call[p].op = "accept" THEN pending = {} /\ listener.used
              ELSE \E s \in Named(h, call[p].id) : Stays(conn[h][s])

(* The connection table of each host: a connection lives exactly as long   *)
(* as a descriptor or a call names it, its peer or its deadline may still  *)
(* retire it; the accept queue names live, unaccepted connections; records *)
(* kept for retransmission are exactly what the peer has not taken; and no *)
(* process sleeps on what has already happened, but for a writer whose     *)
(* side was shut down while it waited.  Two things the code does not see   *)
(* to.  A thread killed inside net_connect takes its handle with it, so    *)
(* the connection keeps a reference nothing will ever drop.  And none of   *)
(* it is promised once a connection changed in the middle of a frame.      *)
TableSound ==
    raced = {} =>
    /\ RefsExact /\ HandlesLive /\ PendingExact /\ NoLeak
    /\ RecordsTile /\ NothingForgotten /\ ParkedRight
=============================================================================

------------------------------ MODULE NetQuery ------------------------------
(***************************************************************************)
(* kernel/src/net.c without TCP: the ARP cache, the calls that wait for an *)
(* answer (DNS, ping, DHCP) and UDP sockets.  The threads of one process   *)
(* call, and after its exit those of the next; every request ever sent may *)
(* be answered any number of times, in any order and arbitrarily late.  A  *)
(* call gives up the processor only in net_wait_tick and scheduler_wait,   *)
(* so each stretch between two waits is one step; a time-out may have      *)
(* passed at any of them.                                                  *)
(***************************************************************************)
EXTENDS Integers, Sequences, FiniteSets, FiniteSetsExt

CONSTANTS
    Threads, Names, Ips,
    Gateway,     \* the address of the router and of the DNS server
    ArpEntries,  \* ARP_CACHE_ENTRIES
    Retries,     \* DNS_RETRIES
    IdSpace,     \* 2^16, the space of dns_query_id
    Sockets,     \* UDP_MAX_SOCKETS, and the sockets opened in one behaviour
    UdpPorts,    \* 1..UdpPorts are the ports of UDP sockets
    RxQueue,     \* UDP_RX_QUEUE
    MaxSends,    \* requests and datagrams in one behaviour
    Topics       \* the calls a behaviour makes: sets of "dns", "ping", "dhcp", "udp"

NetQueryAssumption ==
    /\ Gateway \in Ips /\ ArpEntries \in Nat \ {0} /\ Retries \in Nat \ {0}
    /\ IdSpace \in Nat \ {0, 1} /\ RxQueue \in Nat \ {0}

VARIABLES
    topics,   \* the choice of this behaviour
    arp,      \* arp_cache, the least recently updated entry first
    call,     \* what each thread is in
    dying,    \* whether the process is being killed
    dns, ping, dhcp,
    lease,    \* the transaction local_ip came from (0: the static address)
    udp,      \* udp_sockets
    nextId, nextPort, fds, \* next_udp_socket_id, next_udp_port, open handles
    sent,     \* requests sent
    count,    \* datagrams arrived and requests sent so far
    orphan,   \* the calls, of "dns" and "dhcp", whose thread an exit killed inside
              \* and whose reservation nobody has taken over (ghost)
    told      \* what the calls answered: DNS answers, pings, whether each
              \* datagram left from its own port, the last datagram read (ghost)

vars == <<topics, arp, call, dying, dns, ping, dhcp, lease, udp, nextId, nextPort, fds,
          sent, count, orphan, told>>

SocketSlots == 1..Sockets
Idle == [op |-> "none", at |-> "none"]
EmptySocket == [used |-> FALSE, id |-> 0, refs |-> 0, port |-> 0, queue |-> <<>>]

Init ==
    /\ topics \in Topics
    /\ arp = <<>> /\ call = [t \in Threads |-> Idle] /\ dying = FALSE
    /\ dns = [active |-> FALSE, waiting |-> FALSE, done |-> FALSE, ready |-> FALSE,
              id |-> IdSpace - 1, name |-> "", answer |-> ""]
    /\ ping = [ip |-> "", waiting |-> FALSE, reply |-> FALSE]
    /\ dhcp = [xid |-> 0, running |-> FALSE, offer |-> 0, requested |-> FALSE, configured |-> FALSE]
    /\ lease = 0
    /\ udp = [s \in SocketSlots |-> EmptySocket] /\ nextId = 1 /\ nextPort = 1 /\ fds = {}
    /\ sent = {} /\ count = 0 /\ orphan = {}
    /\ told = [dns |-> {}, ping |-> {}, sends |-> TRUE, reads |-> [i \in 0..Sockets |-> -1]]

Move(t, c) == call' = [call EXCEPT ![t] = c]
Return(t) == Move(t, Idle)
Send(m) == sent' = sent \cup {m} /\ count' = count + 1
Runs(t, topic) == call[t].op = "none" /\ topic \in topics /\ ~dying
Starts(t, topic) == Runs(t, topic) /\ count < MaxSends

-----------------------------------------------------------------------------
(* ARP.                                                                    *)

Known(ip) == \E i \in 1..Len(arp) : arp[i] = ip

arp_cache_update(ip) ==
    LET others == SelectSeq(arp, LAMBDA e : e # ip)
        kept == IF Len(others) = ArpEntries THEN Tail(others) ELSE others
    IN  arp' = Append(kept, ip)

(* A reply or an announcement of a neighbour.                              *)
handle_arp(ip) ==
    /\ arp_cache_update(ip)
    /\ UNCHANGED <<topics, call, dying, dns, ping, dhcp, lease, udp, nextId, nextPort, fds, sent,
                   count, told, orphan>>

(* Where a call that needs the address of `ip' goes on: at once, or in the *)
(* waiting loop of resolve_ipv4_mac.                                       *)
Resolving(c, ip, next) == [c EXCEPT !.at = IF Known(ip) THEN next ELSE "arp"]

(* One turn of that loop: `found' says how it ends.                        *)
resolve_ipv4_mac(t, found) ==
    /\ call[t].at = "arp"
    /\ found => ~dying /\ Known(call[t].ip)

-----------------------------------------------------------------------------
(* DNS.  `dns.active' reserves the one query in flight.                    *)

net_dns_resolve_shared(t, n) ==
    /\ Starts(t, "dns")
    /\ dns' = [dns EXCEPT !.active = TRUE, !.name = n]
    /\ Move(t, Resolving([op |-> "dns", at |-> "", name |-> n, ip |-> Gateway, tries |-> 0],
                         Gateway, "send"))
    /\ UNCHANGED <<topics, arp, dying, ping, dhcp, lease, udp, nextId, nextPort, fds, sent, count, told, orphan>>

net_dns_resolve(t, n) ==
    /\ Starts(t, "dns") /\ ~dns.active
    /\ dns' = [dns EXCEPT !.active = TRUE, !.name = n]
    /\ Move(t, Resolving([op |-> "dns", at |-> "", name |-> n, ip |-> Gateway, tries |-> 0],
                         Gateway, "send"))
    /\ UNCHANGED <<topics, arp, dying, ping, dhcp, lease, udp, nextId, nextPort, fds, sent, count, told, orphan>>

(* The label done of net_dns_resolve.                                      *)
DnsReturns(t) == dns' = [dns EXCEPT !.active = FALSE, !.waiting = FALSE] /\ Return(t)

DnsResolved(t, found) ==
    /\ call[t].op = "dns" /\ resolve_ipv4_mac(t, found)
    /\ IF found THEN Move(t, [call[t] EXCEPT !.at = "send"]) /\ UNCHANGED dns
       ELSE DnsReturns(t)
    /\ UNCHANGED <<topics, arp, dying, ping, dhcp, lease, udp, nextId, nextPort, fds, sent, count, told, orphan>>

send_dns_query(t, sends) ==
    LET id == IF dns.id + 1 = IdSpace THEN 1 ELSE dns.id + 1 IN
    /\ call[t].op = "dns" /\ call[t].at = "send" /\ count < MaxSends + Retries
    /\ IF sends
       THEN /\ dns' = [dns EXCEPT !.id = id, !.ready = FALSE, !.done = FALSE, !.waiting = TRUE]
            /\ Send([kind |-> "dns", id |-> id, name |-> dns.name])
            /\ Move(t, [call[t] EXCEPT !.at = "wait", !.tries = @ + 1])
       ELSE /\ dns' = [dns EXCEPT !.id = id, !.ready = FALSE, !.done = FALSE, !.waiting = FALSE,
                                  !.active = FALSE]
            /\ Return(t) /\ UNCHANGED <<sent, count>>
    /\ UNCHANGED <<topics, arp, dying, ping, dhcp, lease, udp, nextId, nextPort, fds, told, orphan>>

(* One turn of the waiting loop.                                           *)
DnsLooks(t, expired) ==
    /\ call[t].op = "dns" /\ call[t].at = "wait"
    /\ dying \/ dns.ready \/ dns.done \/ expired
    /\ IF dying \/ dns.ready \/ call[t].tries = Retries
       THEN DnsReturns(t)
       ELSE dns' = [dns EXCEPT !.waiting = FALSE] /\ Move(t, [call[t] EXCEPT !.at = "send"])
    /\ told' = IF ~dying /\ dns.ready
               THEN [told EXCEPT !.dns = @ \cup {<<call[t].name, dns.answer>>}] ELSE told
    /\ UNCHANGED <<topics, arp, dying, ping, dhcp, lease, udp, nextId, nextPort, fds, sent, count, orphan>>

(* srv_dns_parse_a takes a reply to the pending question only.             *)
srv_dns_parse_a(m) == m.id = dns.id /\ m.name = dns.name

handle_dns_packet(m, usable) ==
    /\ m.kind = "dns" /\ dns.active /\ dns.waiting /\ srv_dns_parse_a(m)
    /\ dns' = [dns EXCEPT !.waiting = FALSE, !.done = TRUE, !.ready = @ \/ usable,
                          !.answer = IF usable THEN m.name ELSE @]
    /\ UNCHANGED <<topics, arp, call, dying, ping, dhcp, lease, udp, nextId, nextPort, fds, sent,
                   count, told, orphan>>

-----------------------------------------------------------------------------
(* Ping: one target, one flag, for all callers.                            *)

(* Another caller that pings now takes the target over.                    *)
Crossed(t) == [u \in Threads |-> IF u # t /\ call[u].op = "ping"
                                 THEN [call[u] EXCEPT !.crossed = TRUE] ELSE call[u]]

net_ping(t, ip) ==
    /\ Starts(t, "ping")
    /\ ping' = [ip |-> ip, waiting |-> TRUE, reply |-> FALSE]
    /\ call' = [Crossed(t) EXCEPT ![t] =
         Resolving([op |-> "ping", at |-> "", ip |-> ip, answered |-> FALSE,
                    crossed |-> \E u \in Threads \ {t} : call[u].op = "ping"], ip, "send")]
    /\ UNCHANGED <<topics, arp, dying, dns, dhcp, lease, udp, nextId, nextPort, fds, sent, count, told, orphan>>

send_icmp_echo_request(t, sends) ==
    /\ call[t].op = "ping"
    /\ call[t].at = "send" \/ resolve_ipv4_mac(t, sends)
    /\ IF sends THEN /\ count < MaxSends /\ Send([kind |-> "echo", ip |-> call[t].ip])
                     /\ Move(t, [call[t] EXCEPT !.at = "wait"]) /\ UNCHANGED ping
       ELSE ping' = [ping EXCEPT !.waiting = FALSE] /\ Return(t) /\ UNCHANGED <<sent, count>>
    /\ UNCHANGED <<topics, arp, dying, dns, dhcp, lease, udp, nextId, nextPort, fds, told, orphan>>

PingReturns(t, expired) ==
    /\ call[t].op = "ping" /\ call[t].at = "wait" /\ (expired \/ ping.reply)
    /\ ping' = IF expired THEN [ping EXCEPT !.waiting = FALSE] ELSE ping
    /\ told' = IF expired THEN told ELSE [told EXCEPT !.ping = @ \cup {call[t]}]
    /\ Return(t)
    /\ UNCHANGED <<topics, arp, dying, dns, dhcp, lease, udp, nextId, nextPort, fds, sent, count, orphan>>

handle_icmp(m) ==
    /\ m.kind = "echo"
    /\ ping' = IF ping.waiting /\ m.ip = ping.ip THEN [ping EXCEPT !.reply = TRUE, !.waiting = FALSE]
               ELSE ping
    /\ call' = [u \in Threads |-> IF call[u].op = "ping" /\ call[u].ip = m.ip
                                  THEN [call[u] EXCEPT !.answered = TRUE] ELSE call[u]]
    /\ UNCHANGED <<topics, arp, dying, dns, dhcp, lease, udp, nextId, nextPort, fds, sent, count, told, orphan>>

-----------------------------------------------------------------------------
(* DHCP.  An address is named by the transaction that offered it.          *)

net_dhcp_request(t, sends) ==
    LET xid == dhcp.xid + 1 IN
    /\ Starts(t, "dhcp") /\ orphan' = orphan \ {"dhcp"}
    /\ dhcp' = [xid |-> xid, running |-> sends, offer |-> 0, requested |-> FALSE, configured |-> FALSE]
    /\ IF sends THEN Send([kind |-> "discover", xid |-> xid]) /\ Move(t, [op |-> "dhcp", at |-> "wait"])
       ELSE UNCHANGED <<sent, call>> /\ count' = count + 1
    /\ UNCHANGED <<topics, arp, dying, dns, ping, lease, udp, nextId, nextPort, fds, told>>

(* One turn of the loop that changes something: the call ends, or the      *)
(* request goes out again.                                                 *)
DhcpLooks(t, expired) ==
    /\ call[t].op = "dhcp"
    /\ IF expired \/ dhcp.configured
       THEN /\ dhcp' = IF expired THEN [dhcp EXCEPT !.running = FALSE] ELSE dhcp
            /\ Return(t) /\ UNCHANGED sent
       ELSE /\ dhcp.offer # 0 /\ ~dhcp.requested
            /\ sent' = sent \cup {[kind |-> "request", xid |-> dhcp.xid]}
            /\ UNCHANGED <<dhcp, call>>
    /\ UNCHANGED <<topics, arp, dying, dns, ping, lease, udp, nextId, nextPort, fds, count, told, orphan>>

handle_dhcp_packet_any(m, sends) ==
    /\ m.kind \in {"discover", "request"} /\ dhcp.running
    /\ IF m.kind = "discover"
       THEN /\ ~dhcp.requested
            /\ dhcp' = [dhcp EXCEPT !.offer = m.xid, !.requested = sends]
            /\ sent' = IF sends THEN sent \cup {[kind |-> "request", xid |-> dhcp.xid]} ELSE sent
            /\ UNCHANGED lease
       ELSE /\ lease' = m.xid
            /\ dhcp' = [dhcp EXCEPT !.configured = TRUE, !.running = FALSE] /\ UNCHANGED sent
    /\ UNCHANGED <<topics, arp, call, dying, dns, ping, udp, nextId, nextPort, fds, count, told, orphan>>

(* An OFFER answers a discover, an ACK a request.                          *)
handle_dhcp_packet(m, sends) ==
    /\ m.kind \in {"discover", "request"} /\ dhcp.running /\ m.xid = dhcp.xid
    /\ IF m.kind = "discover"
       THEN /\ ~dhcp.requested
            /\ dhcp' = [dhcp EXCEPT !.offer = m.xid, !.requested = sends]
            /\ sent' = IF sends THEN sent \cup {[kind |-> "request", xid |-> dhcp.xid]} ELSE sent
            /\ UNCHANGED lease
       ELSE /\ lease' = m.xid
            /\ dhcp' = [dhcp EXCEPT !.configured = TRUE, !.running = FALSE] /\ UNCHANGED sent
    /\ UNCHANGED <<topics, arp, call, dying, dns, ping, udp, nextId, nextPort, fds, count, told, orphan>>

-----------------------------------------------------------------------------
(* UDP sockets.                                                            *)

find_udp_socket(id) == {s \in SocketSlots : udp[s].used /\ udp[s].id = id}
find_udp_socket_for_port(port) == {s \in SocketSlots : udp[s].used /\ udp[s].port = port}

allocate_udp_port ==
    LET free == {p \in 1..UdpPorts : find_udp_socket_for_port(p) = {}}
        later == {p \in free : p >= nextPort}
    IN  IF free = {} THEN 0 ELSE IF later # {} THEN Min(later) ELSE Min(free)
AfterPort(port) == IF port = UdpPorts THEN 1 ELSE port + 1

WokenAll == [u \in Threads |-> IF call[u].op = "recv" THEN [call[u] EXCEPT !.at = "look"] ELSE call[u]]

(* udp_queue_push: a full queue loses its oldest datagram.                 *)
udp_queue_push(q, e) == Append(IF Len(q) = RxQueue THEN Tail(q) ELSE q, e)

net_udp_open(t) ==
    /\ Starts(t, "udp") /\ nextId <= Sockets
    /\ \E s \in SocketSlots :
        /\ ~udp[s].used /\ \A r \in SocketSlots : r < s => udp[r].used
        /\ udp' = [udp EXCEPT ![s] = [EmptySocket EXCEPT !.used = TRUE, !.id = nextId, !.refs = 1]]
    /\ fds' = fds \cup {nextId} /\ nextId' = nextId + 1
    /\ UNCHANGED <<topics, arp, call, dying, dns, ping, dhcp, lease, nextPort, sent, count, told, orphan>>

(* `port' 0 asks for any.                                                  *)
net_udp_bind(t, id, port) ==
    /\ Starts(t, "udp") /\ id \in fds
    /\ \E s \in find_udp_socket(id) :
        LET chosen == IF port = 0 THEN allocate_udp_port ELSE port IN
        /\ udp[s].port = 0 /\ chosen # 0 /\ find_udp_socket_for_port(chosen) = {}
        /\ udp' = [udp EXCEPT ![s].port = chosen]
        /\ nextPort' = IF port = 0 THEN AfterPort(chosen) ELSE nextPort
    /\ UNCHANGED <<topics, arp, call, dying, dns, ping, dhcp, lease, nextId, fds, sent, count, told, orphan>>

(* The datagram leaves from a port; `told' records whether every port so   *)
(* used was that of the sending socket.                                    *)
Publish(id, port) ==
    told' = [told EXCEPT !.sends = @ /\ {udp[s].id : s \in find_udp_socket_for_port(port)} = {id}]

net_udp_send_checked(t, id, ip, wait) ==
    /\ Starts(t, "udp") /\ id \in fds
    /\ \E s \in find_udp_socket(id) :
        /\ udp[s].port # 0
        /\ IF Known(ip) THEN Publish(id, udp[s].port) /\ count' = count + 1 /\ UNCHANGED call
           ELSE /\ wait /\ Move(t, [op |-> "send", at |-> "arp", id |-> id, ip |-> ip, port |-> udp[s].port])
                /\ UNCHANGED <<told, count>>
    /\ UNCHANGED <<topics, arp, dying, dns, ping, dhcp, lease, udp, nextId, nextPort, fds, sent, orphan>>


SendResumes(t, found) ==
    /\ call[t].op = "send" /\ resolve_ipv4_mac(t, found)
    /\ IF /\ found /\ call[t].id \in fds
          /\ \E s \in find_udp_socket(call[t].id) : udp[s].port = call[t].port
       THEN Publish(call[t].id, call[t].port) ELSE UNCHANGED told
    /\ Return(t) /\ count' = count + 1
    /\ UNCHANGED <<topics, arp, dying, dns, ping, dhcp, lease, udp, nextId, nextPort, fds, sent, orphan>>

(* A datagram from the wire, or from this host to itself.                  *)
udp_deliver(port) ==
    /\ count < MaxSends /\ "udp" \in topics
    /\ \E s \in find_udp_socket_for_port(port) :
        udp' = [udp EXCEPT ![s].queue = udp_queue_push(@, count)]
    /\ count' = count + 1 /\ call' = WokenAll
    /\ UNCHANGED <<topics, arp, dying, dns, ping, dhcp, lease, nextId, nextPort, fds, sent, told, orphan>>

net_udp_recv_checked(t, id) ==
    /\ \/ Runs(t, "udp") /\ id \in fds
       \/ call[t].op = "recv" /\ call[t].at = "look" /\ call[t].id = id
    /\ LET found == find_udp_socket(id)
           s == CHOOSE s \in found : TRUE
       IN  IF id \notin fds \/ dying \/ found = {} THEN Return(t) /\ UNCHANGED <<udp, told>>
           ELSE IF udp[s].queue # <<>>
           THEN /\ told' = [told EXCEPT !.reads[id] = Head(udp[s].queue)]
                /\ udp' = [udp EXCEPT ![s].queue = Tail(@)] /\ Return(t)
           ELSE /\ Move(t, [op |-> "recv", at |-> "parked", id |-> id]) /\ UNCHANGED <<udp, told>>
    /\ UNCHANGED <<topics, arp, dying, dns, ping, dhcp, lease, nextId, nextPort, fds, sent, count, orphan>>

(* A child inherits the socket, and later goes.                            *)
net_hold(id, n) ==
    /\ id \in fds /\ n \in {1, -1}
    /\ \E s \in find_udp_socket(id) :
        /\ udp[s].refs + n \in 1..2
        /\ udp' = [udp EXCEPT ![s].refs = @ + n] /\ call' = IF n = 1 THEN call ELSE WokenAll
    /\ UNCHANGED <<topics, arp, dying, dns, ping, dhcp, lease, nextId, nextPort, fds, sent, count, told, orphan>>

net_close(id) ==
    /\ id \in fds /\ \E t \in Threads : call[t].op = "none"
    /\ fds' = fds \ {id}
    /\ \E s \in find_udp_socket(id) :
        udp' = [udp EXCEPT ![s] = IF @.refs = 1 THEN EmptySocket ELSE [@ EXCEPT !.refs = @ - 1]]
    /\ call' = WokenAll
    /\ UNCHANGED <<topics, arp, dying, dns, ping, dhcp, lease, nextId, nextPort, sent, count, told, orphan>>

net_process_wake ==
    /\ ~dying /\ dying' = TRUE /\ call' = WokenAll
    /\ UNCHANGED <<topics, arp, dns, ping, dhcp, lease, udp, nextId, nextPort, fds, sent, count, told, orphan>>

(* The initial thread `t' reaches process_exit: its siblings are killed    *)
(* where they wait, inside their calls, and the handles are closed.        *)
process_exit(t) ==
    /\ call[t].op = "none" /\ \A u \in Threads : call[u].at # "send"
    /\ call' = [u \in Threads |-> Idle] /\ dying' = FALSE /\ fds' = {}
    /\ orphan' = orphan \cup ({call[u].op : u \in Threads} \cap {"dns", "dhcp"})
    /\ udp' = [s \in SocketSlots |->
                 IF udp[s].id \notin fds THEN udp[s]
                 ELSE IF udp[s].refs = 1 THEN EmptySocket ELSE [udp[s] EXCEPT !.refs = @ - 1]]
    /\ UNCHANGED <<topics, arp, dns, ping, dhcp, lease, nextId, nextPort, sent, count, told>>

-----------------------------------------------------------------------------
Next ==
    \/ \E ip \in Ips : handle_arp(ip)
    \/ net_process_wake
    \/ \E t \in Threads : process_exit(t)
    \/ \E m \in sent, b \in BOOLEAN :
          handle_dns_packet(m, b) \/ handle_icmp(m) \/ handle_dhcp_packet(m, b)
    \/ \E p \in 1..UdpPorts : udp_deliver(p)
    \/ \E t \in Threads, b \in BOOLEAN :
          \/ DnsResolved(t, b) \/ send_dns_query(t, b) \/ DnsLooks(t, b)
          \/ send_icmp_echo_request(t, b) \/ PingReturns(t, b)
          \/ net_dhcp_request(t, b) \/ DhcpLooks(t, b) \/ SendResumes(t, b)
          \/ \E n \in Names : net_dns_resolve(t, n)
          \/ \E ip \in Ips : net_ping(t, ip)
          \/ net_udp_open(t)
          \/ \E id \in 1..nextId : net_udp_recv_checked(t, id)
          \/ \E id \in fds : \/ \E ip \in Ips \ {Gateway} : net_udp_send_checked(t, id, ip, b)
                             \/ \E p \in {0, 1} : net_udp_bind(t, id, p)
    \/ \E id \in fds : net_close(id) \/ \E n \in {1, -1} : net_hold(id, n)

Spec == Init /\ [][Next]_vars

-----------------------------------------------------------------------------
(* Properties.                                                             *)

(* A caller is given an answer to its own question, whatever replies to    *)
(* other and earlier questions arrive.  The one reservation is held while  *)
(* a caller is inside, and no failure or time-out of its own keeps it; but *)
(* a caller that process_exit kills inside the call leaves it behind for   *)
(* good, and DNS is then refused to everyone.                              *)
DnsRight ==
    LET callers == {t \in Threads : call[t].op = "dns"} IN
    /\ \A r \in told.dns : r[1] = r[2]
    /\ Cardinality(callers) <= 1
    /\ dns.active <=> (callers # {} \/ "dns" \in orphan)
    /\ "dns" \in orphan => callers = {}
    /\ dns.waiting => "dns" \in orphan \/ \E t \in callers : call[t].at = "wait"

(* A ping that nobody else's ping overlapped and that reports success was  *)
(* answered by the host it names.                                          *)
PingRight == \A c \in told.ping : c.crossed \/ c.answered

(* The stack is configured by the newest transaction, and an address can   *)
(* change only while a caller still waits for one, or for a caller that    *)
(* process_exit killed inside net_dhcp_request before anyone asked again.  *)
LeaseRight ==
    /\ dhcp.configured => lease = dhcp.xid
    /\ dhcp.running => "dhcp" \in orphan \/ \E t \in Threads : call[t].op = "dhcp"


(* Ports name one socket; a datagram is sent from a port its own socket    *)
(* holds at that moment, even after a wait for ARP; a socket's datagrams   *)
(* are read in order of arrival, each once; nobody sleeps on a socket that *)
(* has data or is gone.                                                    *)
UdpSound ==
    /\ \A s, r \in SocketSlots : s # r /\ udp[s].used /\ udp[r].used =>
          udp[s].id # udp[r].id /\ (udp[s].port = 0 \/ udp[s].port # udp[r].port)
    /\ told.sends
    /\ \A s \in SocketSlots : \A i \in 1..Len(udp[s].queue) :
          /\ told.reads[udp[s].id] < udp[s].queue[i]
          /\ i > 1 => udp[s].queue[i - 1] < udp[s].queue[i]
    /\ \A t \in Threads : call[t].op = "recv" /\ call[t].at = "parked" =>
          call[t].id \in fds /\ \E s \in find_udp_socket(call[t].id) : udp[s].queue = <<>>
=============================================================================

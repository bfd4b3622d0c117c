------------------------------- MODULE MCNet -------------------------------
(***************************************************************************)
(* The network stack.  tcp: two hosts, one connection slot each, sequence  *)
(* numbers that wrap; each situation picks what its behaviours exercise.   *)
(* query: two threads resolve names, ping, ask for a lease or use UDP      *)
(* sockets.  part picks the one that moves, so that TLC explores the union *)
(* of their state spaces.                                                  *)
(***************************************************************************)
EXTENDS Tcp

VARIABLES
    part,
    topics, arp, asking, killed, dns, ping, dhcp, lease, udp, nextSocket, nextPort, fds,
    sent, count, orphan, told

Query == INSTANCE NetQuery WITH
    Threads <- {"t1", "t2"}, Names <- {"a", "b"}, Ips <- {"gw", "x"}, Gateway <- "gw",
    ArpEntries <- 1, Retries <- 2, IdSpace <- 4, Sockets <- 2, UdpPorts <- 1, RxQueue <- 1,
    MaxSends <- 2, Topics <- {{"dns"}, {"ping"}, {"dhcp"}, {"udp"}},
    call <- asking, dying <- killed, nextId <- nextSocket

ASSUME Query!NetQueryAssumption

Situation(cap, bytes, reads, how, flts, block, adm, again, n, rx, preempted) ==
    [rx |-> rx, preempted |-> preempted, cap |-> [c |-> 1, s |-> cap], bytes |-> bytes, readers |-> reads, hows |-> how, faults |-> flts,
     blocking |-> block, admin |-> adm, retransmits |-> again, connects |-> n]
Bytes(c, s) == [c |-> c, s |-> s]
Writing == {<<FALSE, TRUE>>}
Both == {"listener", "connection"}

\* Two segments in flight and a retransmission; a half-closed reader and a give-up;
\* a listener that is inherited, closed and killed; two connections in turn for one
\* slot; calls that wait for a half-closed writer; a writer whose side another process
\* shuts down; reads while the worker is in a frame; handshakes and closes while it is.
MCSituations ==
    {Situation(2, Bytes(2, 0), {"s"}, {}, 0, FALSE, {}, 1, 1, 1, {}),
     Situation(1, Bytes(0, 1), {"c"}, Writing, 1, FALSE, {}, 0, 1, 1, {}),
     Situation(1, Bytes(0, 0), Hosts, {}, 1, TRUE, Both, 0, 1, 1, {}),
     Situation(1, Bytes(0, 0), Hosts, {}, 0, FALSE, {}, 1, 2, 1, {}),
     Situation(1, Bytes(2, 0), {"s"}, Writing, 0, TRUE, {}, 0, 1, 1, {}),
     Situation(1, Bytes(0, 2), {}, Writing, 0, TRUE, {"connection"}, 0, 1, 1, {}),
     Situation(1, Bytes(3, 0), {"s"}, {}, 0, FALSE, {}, 0, 1, 2, {"s"}),
     Situation(1, Bytes(0, 0), Hosts, {}, 0, TRUE, Both, 0, 1, 1, Hosts)}

queryVars == <<topics, arp, asking, killed, dns, ping, dhcp, lease, udp, nextSocket, nextPort,
               fds, sent, count, orphan, told>>
allVars == <<part, vars, queryVars>>

InitAll ==
    /\ part \in {"tcp", "query"}
    /\ Init /\ Query!Init
    /\ part = "tcp" => topics = {"dns"}
    /\ part = "query" => now.connects = 2

NextAll ==
    /\ UNCHANGED part
    /\ \/ part = "tcp" /\ Next /\ UNCHANGED queryVars
       \/ part = "query" /\ Query!Next /\ UNCHANGED vars

SpecAll == InitAll /\ [][NextAll]_allVars

-----------------------------------------------------------------------------
(* The properties that NetQuery states, besides StreamExact and TableSound *)
(* of Tcp.                                                                 *)

=============================================================================

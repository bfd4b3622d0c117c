-------------------------------- MODULE Xhci --------------------------------
(***************************************************************************)
(* kernel/src/drivers/xhci.c, xhci_network.inc and usb_storage.c: the USB  *)
(* controller, which reads and writes memory on its own.  A transfer       *)
(* descriptor (TD) given to it is in `hw.fly' until it is completed; the   *)
(* event names the TRB by its address.  Driver sections run with           *)
(* interrupts masked: `cpu' is the one that waits for a command or a       *)
(* transfer while only the controller moves.  Only the block layer's       *)
(* caller gives the processor up in the middle of a transfer (`disk').     *)
(*                                                                         *)
(* A C function is an operator from a view `st' of the driver to the view  *)
(* after it.  Descriptors are abstracted to the kind of device they        *)
(* select, and the requests of one stage of an enumeration to one control  *)
(* transfer with a data and a status TRB.  A time-out, an error or an      *)
(* unplugging may come at any time and spends a fault of the situation.    *)
(***************************************************************************)
EXTENDS Integers, Sequences, FiniteSets, FiniteSetsExt, SequencesExt

CONSTANTS
    Ring,        \* TRBs of a ring before its link TRB
    Queue,       \* frames an Ethernet adapter queues (XHCI_NET_QUEUE)
    Budget,      \* frames xhci_reclaim frees in one call
    Situations   \* what is plugged in, and the bounds: see `now'

XhciAssumption == Ring > 1 /\ Budget > 0

VARIABLES
    dev,     \* xhci.devices
    x,       \* the rest of xhci
    mem,     \* the frames allocated, named <<device or 0, what for>>
    hw,      \* the controller
    cpu,     \* the masked section that waits: what it has still to do
    disk,    \* the block layer's caller
    gone,    \* devices that were unplugged
    faults,  \* what may still go wrong
    bad,     \* ghost: what must never happen and did
    now      \* the situation: kind and parent of each device, slow ones, whether input is probed,
             \* how many faults

vars == <<dev, x, mem, hw, cpu, disk, gone, faults, bad, now>>

Devs == DOMAIN now.kind
Kind(d) == now.kind[d]
Parent(d) == now.parent[d]        \* the hub it hangs on; 0: a root port
Slow(d) == d \in now.slow         \* behind the hub's transaction translator (TT)
Children(d) == {c \in Devs : Parent(c) = d}

Eps(d) ==
    CASE Kind(d) = "hid" -> {"int"} [] Kind(d) = "disk" -> {"out", "in"}
      [] Kind(d) = "net" -> {"tx", "rx", "note"} [] OTHER -> {}
Buffer(d, ep) ==
    CASE ep = "ep0" -> <<d, "desc">> [] ep \in {"out", "in"} -> <<d, "bulkbuf">>
      [] ep = "int" -> <<d, "intbuf">> [] ep = "tx" -> <<d, "txbuf">>
      [] ep = "rx" -> <<d, "rxbuf">> [] OTHER -> <<d, "notebuf">>
Fresh(ep) == IF ep = "ep0" THEN "ep0new" ELSE "intnew"

\* What the driver allocates, in the order in which xhci_reclaim frees it.
Order == [ctx |-> 1, ep0 |-> 2, desc |-> 3, ep0new |-> 4, intnew |-> 5, int |-> 6, intbuf |-> 7,
          bulkbuf |-> 8, out |-> 9, in |-> 10, tx |-> 11, txbuf |-> 12, rx |-> 13, rxbuf |-> 14,
          note |-> 15, notebuf |-> 16, scratch |-> 17, dcbaa |-> 18, cmd |-> 19, evt |-> 20]
Rank(r) == (IF r[1] = 0 THEN 1000 ELSE 100 * r[1]) + Order[r[2]]
Runtime(d) == {<<d, "ctx">>, <<d, "ep0">>, <<d, "desc">>}
Rings(d) == {<<d, ep>> : ep \in Eps(d)}
Endpoints(d) == Rings(d) \cup {Buffer(d, ep) : ep \in Eps(d)}
Controller == {<<0, "scratch">>, <<0, "dcbaa">>, <<0, "cmd">>, <<0, "evt">>}

Quiet == [pending |-> FALSE, done |-> FALSE, cc |-> "none", trb |-> <<>>]
NewDevice(d) ==
    [present |-> FALSE, slot |-> FALSE, configured |-> FALSE, removed |-> FALSE,
     retiring |-> FALSE, slot_disabled |-> FALSE,
     control_failed |-> FALSE, control_pending |-> FALSE, control_short |-> FALSE,
     control_completion |-> "none", control_td |-> <<>>,
     hub_status_pending |-> FALSE, hub_poll |-> 0, tt_owner |-> FALSE, tt_failed |-> FALSE,
     made |-> FALSE,         \* the data endpoints were parsed
     ready |-> FALSE,        \* interrupt_ready, network->ready
     failed |-> FALSE,       \* interrupt_failed, storage.failed, network->failed
     stop_verified |-> FALSE, attempted |-> {}, last |-> "none",
     bulk_failed |-> FALSE, block |-> FALSE, busy |-> FALSE,
     retired |-> FALSE, registered |-> FALSE, up |-> TRUE,
     queue |-> <<>>,         \* frames to send: TRUE if one needs a zero-length packet after it
     tx_zero |-> FALSE,
     ep |-> [e \in Eps(d) |-> Quiet],
     ring |-> [e \in Eps(d) \cup {"ep0"} |-> e],
     enqueue |-> [e \in Eps(d) \cup {"ep0"} |-> 0]]

Idle == [op |-> "none", tt |-> 0, at |-> "go", todo |-> <<>>]
Resting == [d |-> 0, at |-> "idle", todo |-> <<>>, short |-> FALSE]

St == [dev |-> dev, x |-> x, mem |-> mem, hw |-> hw, bad |-> bad]
Commit(st) ==
    /\ dev' = st.dev /\ x' = st.x /\ mem' = st.mem /\ hw' = st.hw /\ bad' = st.bad
    /\ UNCHANGED now
Must(st, holds, what) == IF holds THEN st ELSE [st EXCEPT !.bad = @ \cup {what}]

\* A choice that may go wrong while the situation has faults left.
Luck == {TRUE} \cup (IF faults > 0 THEN {FALSE} ELSE {})
Spend(luck) == faults' = IF luck THEN faults ELSE faults - 1

-----------------------------------------------------------------------------
(* Frames, rings and TDs.                                                  *)

alloc_frame_zero(st, rs) == [st EXCEPT !.mem = @ \cup rs]

\* The controller owns the TRBs and the buffer of a TD until it completes it: none may
\* be in flight already, and all must be allocated.
Doorbell(st, td) ==
    LET s1 == Must(st, td.own \subseteq st.mem, "freed")
        s2 == Must(s1, \A t \in st.hw.fly : Range(t.trbs) \cap Range(td.trbs) = {}, "overwrites")
        s3 == Must(s2, \A t \in st.hw.fly : t.buf \cap td.buf = {}, "shares")
    IN  [s3 EXCEPT !.hw.fly = @ \cup {td}]

RingOf(st, d, ep) == <<d, st.dev[d].ring[ep]>>
ring_push(st, d, ep, n) ==
    LET i == st.dev[d].enqueue[ep]
        td == [d |-> d, ep |-> ep, trbs |-> [k \in 1..n |-> <<RingOf(st, d, ep), (i + k - 1) % Ring>>],
               buf |-> {Buffer(d, ep)}, own |-> {RingOf(st, d, ep), Buffer(d, ep)}, cmd |-> "none"]
    IN  [Doorbell(Must(st, ~st.dev[d].removed, "removed"), td)
            EXCEPT !.dev[d].enqueue[ep] = (i + n) % Ring]
Trb(st, d, ep, k) == <<RingOf(st, d, ep), (st.dev[d].enqueue[ep] + k) % Ring>>

\* An event taken for TRB `p' is the one its TD was completed with: neither is the TD in
\* flight still, nor is another completion of that TRB to come.
Taken(st, p) ==
    Must(st, /\ \A t \in st.hw.fly : p \notin Range(t.trbs)
             /\ \A i \in 1..Len(st.hw.events) : st.hw.events[i].trb # p, "misattributed")

\* ring_push of one normal TRB: submit_interrupt_poll, network_post, storage_bulk_transfer.
Post(st, d, ep) ==
    LET p == Trb(st, d, ep, 0)
    IN  [ring_push(st, d, ep, 1) EXCEPT
            !.dev[d].ep[ep] = [pending |-> TRUE, done |-> FALSE, cc |-> "none", trb |-> p]]

queue_control_transfer(st, d) ==
    LET td == <<Trb(st, d, "ep0", 0), Trb(st, d, "ep0", 1)>>
    IN  [ring_push(st, d, "ep0", 2) EXCEPT
            !.dev[d].control_pending = TRUE, !.dev[d].control_short = FALSE,
            !.dev[d].control_completion = "none", !.dev[d].control_td = td]

-----------------------------------------------------------------------------
(* Removal and quarantine.                                                 *)

\* device_tt_context: the ancestry is intact / the hub whose TT the device uses.
Rooted(st, d) ==
    Parent(d) # 0 => LET p == st.dev[Parent(d)] IN
        p.present /\ p.slot /\ ~p.slot_disabled /\ ~p.removed /\ ~p.retiring
        /\ ~p.control_failed /\ p.configured
Tt(st, d) == IF Slow(d) /\ Rooted(st, d) THEN Parent(d) ELSE 0

Unplugged(st, d) == st.x.stopping \/ (IF Parent(d) = 0 THEN d ELSE Parent(d)) \in gone
Gone(st, d) ==
    LET r == st.dev[d] IN
    r.removed \/ r.retiring \/ (IF r.present THEN Unplugged(st, d) ELSE st.x.stopping)

BulkPending(r) == \E e \in DOMAIN r.ep \cap {"out", "in"} : r.ep[e].pending
Unsafe(d, r) ==
    r.control_pending \/ r.control_failed \/ BulkPending(r) \/ r.bulk_failed
    \/ (Kind(d) = "net" /\ r.made)

Closed(d, r) ==
    [r EXCEPT !.removed = TRUE, !.configured = FALSE, !.ready = FALSE,
              !.bulk_failed = @ \/ (Kind(d) = "disk" /\ r.made),
              !.failed = @ \/ (Kind(d) = "disk" /\ r.block) \/ (Kind(d) = "net" /\ r.made)]
CloseAll(st, ds) ==
    [st EXCEPT !.dev = [d \in Devs |-> IF d \in ds /\ st.dev[d].present /\ ~st.dev[d].removed
                                       THEN Closed(d, [st.dev[d] EXCEPT !.retiring = TRUE])
                                       ELSE st.dev[d]]]

fail_tt_cleanup(st, h) ==
    CloseAll([st EXCEPT !.dev[h].tt_failed = TRUE],
             IF st.dev[h].control_failed \/ Gone(st, h) THEN {h} \cup Children(h)
             ELSE {c \in Children(h) : Tt(st, c) = h})

quarantine_unsafe_tt(st, d) ==
    LET h == Tt(st, d) IN IF h = 0 \/ st.dev[h].tt_failed THEN st ELSE fail_tt_cleanup(st, h)

\* The test is Gone; this is its effect.
device_removed(st, d) ==
    LET r == st.dev[d]
        s == [st EXCEPT !.dev[d] = Closed(d, r)]
    IN  IF r.removed \/ ~r.present \/ ~Gone(st, d) THEN st
        ELSE IF Unsafe(d, Closed(d, r)) THEN quarantine_unsafe_tt(s, d) ELSE s

quarantine_subtree(st, d) ==
    CloseAll(device_removed([st EXCEPT !.dev[d].retiring = TRUE], d), Children(d))

network_fail(st, d) ==
    IF st.dev[d].failed THEN st
    ELSE quarantine_unsafe_tt([st EXCEPT !.dev[d].ready = FALSE, !.dev[d].failed = TRUE,
                                         !.dev[d].up = FALSE], d)

-----------------------------------------------------------------------------
(* Events.                                                                 *)

\* The result of an event for the control TD in progress: "none" if it does not end it.
control_event_result(st, d, ev) ==
    LET r == st.dev[d]
        mine == ev.d = d /\ ev.ep = "ep0" /\ ev.trb \in Range(r.control_td)
        early == ev.cc \in {"ok", "short"} /\ ev.trb # Last(r.control_td)
        s == Taken([st EXCEPT !.dev[d].control_completion = ev.cc], ev.trb)
    IN  CASE ~mine -> [st |-> st, is |-> "none"]
          [] mine /\ early ->
                [st |-> [st EXCEPT !.dev[d].control_short = @ \/ ev.cc = "short"], is |-> "none"]
          [] OTHER -> [st |-> s, is |-> IF ev.cc = "ok" /\ ~r.control_short THEN "ok" ELSE "bad"]

NextPort(d, p) ==
    IF \E c \in Children(d) : c > p THEN Min({c \in Children(d) : c > p}) ELSE Min(Children(d))

HubAnswers(res, d, ev) ==
    LET s == [res.st EXCEPT !.dev[d].hub_status_pending = FALSE, !.dev[d].control_pending = FALSE,
                            !.dev[d].control_failed = @ \/ res.is = "bad"]
        port == res.st.dev[d].hub_poll
        changed == port \in ev.data /\ res.st.dev[port].present
    IN  CASE res.is = "none" -> res.st
          [] res.is = "bad" -> quarantine_subtree(s, d)
          [] OTHER -> [IF changed THEN quarantine_subtree(s, port) ELSE s
                          EXCEPT !.dev[d].hub_poll = NextPort(d, port)]
hub_status_event(st, d, ev) == HubAnswers(control_event_result(st, d, ev), d, ev)

submit_interrupt_poll(st, d) ==
    LET r == st.dev[d]
    IN  IF Gone(st, d) THEN device_removed(st, d)
        ELSE IF Kind(d) # "hid" \/ r.failed \/ ~r.ready \/ r.ep["int"].pending THEN st
        ELSE Post(st, d, "int")

interrupt_event(st, d, ev) ==
    LET s == Taken([st EXCEPT !.dev[d].ep["int"].pending = FALSE, !.dev[d].last = ev.cc], ev.trb)
    IN  IF st.dev[d].failed THEN st
        ELSE IF ev.cc \in {"ok", "short"} THEN submit_interrupt_poll(s, d)
        ELSE [s EXCEPT !.dev[d].failed = TRUE, !.dev[d].ready = FALSE]

dispatch_transfer_event(st, ev) ==
    LET d == ev.d
        r == st.dev[d]
        awaited == ev.ep \in Eps(d) /\ r.ep[ev.ep].pending /\ r.ep[ev.ep].trb = ev.trb
    IN  CASE ev.ep = "cmd" \/ ~r.present \/ r.slot_disabled -> st
          [] Gone(st, d) -> device_removed(st, d)
          [] ev.ep = "ep0" /\ r.hub_status_pending -> hub_status_event(st, d, ev)
          [] awaited /\ ev.ep # "int" ->        \* network_event; a bulk transfer
                Taken([st EXCEPT !.dev[d].ep[ev.ep] =
                          [@ EXCEPT !.pending = FALSE, !.done = TRUE, !.cc = ev.cc]], ev.trb)
          [] awaited /\ ev.ep = "int" -> interrupt_event(st, d, ev)
          [] OTHER -> st

poll_event(st) == [Must(st, <<0, "evt">> \in st.mem, "freed") EXCEPT !.hw.events = Tail(@)]
Drain(st) ==
    FoldLeft(LAMBDA s, ev : dispatch_transfer_event(poll_event(s), ev), st, st.hw.events)

-----------------------------------------------------------------------------
(* Commands, control transfers and bulk transfers: submission, one turn of  *)
(* the waiting loop, and what follows.                                      *)

Programs(st, cmd, d) ==
    CASE cmd = "address" -> Runtime(d) [] cmd = "configure" -> Rings(d)
      [] cmd = "setdeq0" -> {<<d, Fresh("ep0")>>} [] cmd = "setdeq" -> {<<d, Fresh("int")>>}
      [] OTHER -> {}

\* Mutant: a command that was given up does not close the command path.
CommandAdmitted_again(st) == ~st.x.stopping
CommandAdmitted(st) == ~st.x.stopping /\ ~st.x.command_pending /\ ~st.x.command_failed
submit_command_trb(st, cmd, d) ==
    LET p == <<<<0, "cmd">>, st.x.command_enqueue>>
        td == [d |-> d, ep |-> "cmd", trbs |-> <<p>>, buf |-> {}, own |-> {p[1]}, cmd |-> cmd]
    IN  [Doorbell(st, td) EXCEPT
            !.x.command_pending = TRUE, !.x.command_trb = p, !.x.sync_users = @ + 1,
            !.x.command_enqueue = (@ + 1) % Ring, !.hw.reach = @ \cup Programs(st, cmd, d)]
command_returns(st) == [st EXCEPT !.x.command_pending = st.x.command_failed, !.x.sync_users = @ - 1]

ControlAdmitted(st, d) ==
    /\ ~Gone(st, d) /\ ~st.dev[d].control_failed /\ ~st.dev[d].control_pending
    /\ ~st.x.command_pending /\ ~st.x.command_failed
control_returns(st, d, ok) ==
    [device_removed([st EXCEPT !.x.sync_users = @ - 1], d) EXCEPT
        !.dev[d].control_failed = @ \/ ~ok \/ Gone(st, d),
        !.dev[d].control_pending = @ /\ st.dev[d].control_completion = "none"]

BulkAdmitted(st, d) == ~Gone(st, d) /\ ~st.dev[d].bulk_failed /\ ~BulkPending(st.dev[d])
storage_bulk_transfer(st, d, ep) == [Post(st, d, ep) EXCEPT !.x.sync_users = @ + 1]
\* Mutant: a lost bulk transfer leaves the translator it went through in use.
bulk_returns_alone(st, d, ok) ==
    LET s == [st EXCEPT !.x.sync_users = @ - 1]
    IN  IF ok THEN s ELSE [s EXCEPT !.dev[d].bulk_failed = TRUE]
bulk_returns(st, d, ok) ==
    LET s == [st EXCEPT !.x.sync_users = @ - 1]
    IN  IF ok THEN s ELSE quarantine_unsafe_tt([s EXCEPT !.dev[d].bulk_failed = TRUE], d)

\* What a turn of the waiting loop finds: the view after it and "more", "ok" or "bad".
wait_command_completion(st) ==
    LET ev == Head(st.hw.events)
        s == poll_event(st)
    IN  CASE st.hw.events = <<>> -> [st |-> st, is |-> "more"]
          [] ev.ep # "cmd" -> [st |-> dispatch_transfer_event(s, ev), is |-> "more"]
          [] ev.trb # st.x.command_trb -> [st |-> s, is |-> "more"]
          [] OTHER -> [st |-> Taken(s, ev.trb), is |-> IF ev.cc = "ok" THEN "ok" ELSE "bad"]
OrDispatch(res, ev) ==
    IF res.is # "none" THEN res ELSE [st |-> dispatch_transfer_event(res.st, ev), is |-> "more"]
wait_transfer_completion(st, d) ==
    CASE Gone(st, d) -> [st |-> device_removed(st, d), is |-> "bad"]
      [] st.hw.events = <<>> -> [st |-> st, is |-> "more"]
      [] OTHER -> OrDispatch(control_event_result(poll_event(st), d, Head(st.hw.events)), Head(st.hw.events))
BulkDone(st, e) ==
    [st |-> st, is |-> IF ~e.done THEN "more" ELSE IF e.cc \in {"ok", "short"} THEN "ok" ELSE "bad"]
AfterBulk(st, d, ep) == BulkDone(st, st.dev[d].ep[ep])
wait_bulk(st, d, ep) ==
    IF Gone(st, d) \/ st.dev[d].bulk_failed THEN [st |-> device_removed(st, d), is |-> "bad"]
    ELSE AfterBulk(IF st.hw.events = <<>> THEN st
                   ELSE dispatch_transfer_event(poll_event(st), Head(st.hw.events)), d, ep)

-----------------------------------------------------------------------------
(* Plans: what a masked section does, one waiting step after another.      *)

S(k, t, d) == [k |-> k, t |-> t, d |-> d, of |-> d]

enumerate_device(d) ==
    <<S("cmd", "enable", d), S("cmd", "address", d), S("ctl", "prefix", d),
      S("cmd", "evaluate", d), S("ctl", "descriptors", d)>> \o
    CASE Kind(d) = "hid" -> <<S("ctl", "setconfig", d), S("cmd", "configure", d)>>
      [] Kind(d) = "disk" -> <<S("ctl", "setconfig", d), S("cmd", "configure", d),
                               S("bulk", "out", d), S("bulk", "in", d)>>
      [] Kind(d) = "net" -> <<S("ctl", "strings", d), S("ctl", "setconfig", d),
                              S("cmd", "configure", d), S("ctl", "filter", d)>>
      [] Kind(d) = "hub" -> <<S("ctl", "setconfig", d), S("ctl", "hubdesc", d), S("cmd", "configure", d)>>
      [] OTHER -> <<>>
enumerate_hub(h) ==
    FlattenSeq([i \in 1..Cardinality(Children(h)) |->
        LET c == CHOOSE c \in Children(h) : Cardinality({b \in Children(h) : b < c}) = i - 1
        IN  <<[k |-> "ctl", t |-> "port", d |-> h, of |-> c]>> \o enumerate_device(c)])
enumerate_connected_ports ==
    FlattenSeq([d \in 1..Cardinality(Devs) |->
        IF Parent(d) # 0 THEN <<>> ELSE enumerate_device(d) \o enumerate_hub(d)])

\* recover_endpoint_ring: ring `ep' of device `d', through the TT of hub `h' (0: none).
recover_endpoint_ring(st, d, ep, h) ==
    LET tt == [k |-> "ctl", t |-> "tt", d |-> h, of |-> d]
    IN  IF ep = "ep0"
        THEN <<S("cmd", "reset0", d)>> \o (IF h = 0 THEN <<>> ELSE <<tt, tt>>) \o <<S("cmd", "setdeq0", d)>>
        ELSE (IF st.dev[d].stop_verified THEN <<>> ELSE <<S("cmd", "reset", d), S("ctl", "clear", d)>>)
             \o <<S("cmd", "setdeq", d)>>

plan_tt_cleanup(st, d) ==
    /\ Rooted(st, d)
    /\ LET h == Tt(st, d) IN h # 0 =>
        /\ ~st.dev[h].control_failed /\ ~st.dev[h].control_pending
        /\ ~st.dev[h].tt_owner /\ ~st.dev[h].tt_failed
tt_cleanup_current(st, d, h) ==
    /\ ~Gone(st, d) /\ Rooted(st, d) /\ Tt(st, d) = h
    /\ h # 0 => ~Gone(st, h) /\ ~st.dev[h].control_failed /\ ~st.dev[h].tt_failed

endpoint_recovery_admitted(st, d) ==
    /\ st.x.operational /\ ~st.x.stopping /\ ~st.x.command_pending /\ ~st.x.command_failed
    /\ st.x.sync_users = 0 /\ st.x.diagnostic_users = 0
    /\ st.dev[d].slot /\ ~st.dev[d].slot_disabled /\ ~Gone(st, d)
    /\ ~st.dev[d].block /\ ~st.dev[d].bulk_failed /\ ~(Kind(d) = "net" /\ st.dev[d].made)

CanRecover(st, d, ep) ==
    LET r == st.dev[d] IN
    /\ endpoint_recovery_admitted(st, d) /\ plan_tt_cleanup(st, d) /\ ~r.control_pending
    /\ ep \notin r.attempted
    /\ IF ep = "ep0" THEN r.control_failed /\ r.control_completion = "stall"
       ELSE /\ Kind(d) = "hid" /\ r.failed /\ ~r.ep["int"].pending /\ ~r.control_failed
            /\ r.last = "stall" \/ r.stop_verified

\* The fresh ring is tracked before any command; hub `h' lends its EP0.
Recovering(st, d, ep, h) ==
    LET s == alloc_frame_zero([st EXCEPT !.dev[d].attempted = @ \cup {ep}], {<<d, Fresh(ep)>>})
    IN  IF h = 0 THEN s ELSE [s EXCEPT !.dev[h].tt_owner = TRUE]

\* What a step allocates before it is submitted, and whether it is submitted at all.
Needs(step) ==
    CASE step.t = "enable" -> Runtime(step.d)
      [] step.t = "configure" /\ Kind(step.d) \in {"hid", "disk"} -> Endpoints(step.d)
      [] step.t = "setconfig" /\ Kind(step.d) = "net" -> Endpoints(step.d)
      [] OTHER -> {}
Admitted(st, c, step) ==
    CASE step.k = "cmd" -> CommandAdmitted(st) /\ (step.t \in {"enable", "address"} => Rooted(st, step.d))
      [] step.k = "ctl" -> ControlAdmitted(st, step.d)
                           /\ (step.t = "tt" => tt_cleanup_current(st, step.of, c.tt))
      [] step.k = "bulk" -> BulkAdmitted(st, step.d)
Submit(st, step) ==
    CASE step.k = "cmd" -> submit_command_trb(st, step.t, step.d)
      [] step.k = "ctl" -> queue_control_transfer([st EXCEPT !.x.sync_users = @ + 1], step.d)
      [] step.k = "bulk" -> storage_bulk_transfer(st, step.d, step.t)
Turn(st, step) ==
    CASE step.k = "cmd" -> wait_command_completion(st)
      [] step.k = "ctl" -> wait_transfer_completion(st, step.d)
      [] step.k = "bulk" -> wait_bulk(st, step.d, step.t)
\* A command that is given up leaves the command path ambiguous.
Returns(st, step, is) ==
    CASE step.k = "cmd" -> command_returns([st EXCEPT !.x.command_failed = @ \/ is = "late"])
      [] step.k = "ctl" -> control_returns(st, step.d, is = "ok")
      [] step.k = "bulk" -> bulk_returns(st, step.d, is = "ok")

-----------------------------------------------------------------------------
(* What follows a step.                                                    *)

Confirmed(st, c, step) ==
    CASE step.t = "tt" -> tt_cleanup_current(st, step.of, c.tt)
      [] step.t \in {"setdeq", "setdeq0"} -> tt_cleanup_current(st, step.d, c.tt)
      [] step.t \in {"reset", "reset0", "stop"} -> ~Gone(st, step.d)
      [] step.k = "ctl" -> ~st.dev[step.d].control_failed
      [] OTHER -> TRUE

recovered(st, d, ep) ==
    LET s == [st EXCEPT !.dev[d].ring[ep] = Fresh(ep), !.dev[d].enqueue[ep] = 0]
    IN  IF ep = "ep0" THEN [s EXCEPT !.dev[d].control_failed = FALSE, !.dev[d].control_td = <<>>]
        ELSE submit_interrupt_poll([s EXCEPT !.dev[d].failed = FALSE, !.dev[d].ready = TRUE,
                                             !.dev[d].stop_verified = FALSE], d)

Succeeds(st, step) ==
    LET d == step.d
        kind == IF step.t = "noop" THEN "none" ELSE Kind(d)
        ends == kind = "hid" /\ step.t = "configure"
    IN  CASE step.t = "noop" -> [st EXCEPT !.x.operational = TRUE]
          [] step.t = "enable" -> [st EXCEPT !.dev[d].slot = TRUE, !.hw.reach = @ \cup {<<d, "ctx">>}]
          [] step.t = "descriptors" -> [st EXCEPT !.dev[d].made = kind \in {"disk", "net"},
                                                  !.x.polled = @ \/ kind = "hub"]
          [] step.t = "setconfig" -> [st EXCEPT !.dev[d].configured = kind \in {"hid", "hub"}]
          [] ends -> [st EXCEPT !.dev[d].ready = TRUE, !.x.polled = TRUE]
          [] step.t = "configure" -> [st EXCEPT !.dev[d].configured = @ \/ kind = "disk"]
          [] step.t = "filter" -> Post(Post([st EXCEPT !.dev[d].registered = TRUE, !.dev[d].ready = TRUE,
                    !.dev[d].configured = TRUE, !.x.polled = TRUE], d, "rx"), d, "note")
          [] step.t = "in" -> [st EXCEPT !.dev[d].block = TRUE]
          [] step.t = "stop" -> [st EXCEPT !.dev[d].stop_verified = TRUE, !.dev[d].ep["int"].pending = FALSE]
          [] step.t = "setdeq0" -> recovered(st, d, "ep0")
          [] step.t = "setdeq" -> recovered(st, d, "int")
          [] step.t = "disable" -> [st EXCEPT !.dev[d].slot_disabled = TRUE]
          [] OTHER -> st

Fails(st, c, step) ==
    CASE c.op = "boot" /\ step.k = "bulk" -> [st EXCEPT !.dev[step.d].failed = TRUE]
      [] c.op = "boot" /\ step.of # 0 /\ Kind(step.of) = "net" /\ st.dev[step.of].made -> network_fail(st, step.of)
      [] step.t \in {"reset0", "tt"} /\ c.tt # 0 -> fail_tt_cleanup(st, c.tt)
      [] OTHER -> st

\* Enumeration goes on with what does not depend on the device that failed.
Rest(c, step, ok) ==
    LET hurt == IF step.of = 0 THEN Devs ELSE {step.of} \cup Children(step.of)
    IN  IF ok THEN Tail(c.todo)
        ELSE IF c.op = "boot" THEN SelectSeq(c.todo, LAMBDA s : s.of \notin hurt \cup {0}) ELSE <<>>

\* The section continues with its plan, with a recovery that a test begins, or ends: then
\* the hub's EP0 is given back, and after enumeration the worker is spawned.
Recovery(st, step, ep, h) ==
    [st |-> Recovering(st, step.d, ep, h),
     cpu |-> [op |-> "recover", tt |-> h, at |-> "go",
              todo |-> recover_endpoint_ring(st, step.d, ep, h)
                       \o (IF step.t = "test" THEN <<S("ctl", "verify", step.d)>> ELSE <<>>)]]
Leaves(st, c) ==
    [st EXCEPT !.dev = [d \in Devs |-> IF d = c.tt THEN [@[d] EXCEPT !.tt_owner = FALSE] ELSE @[d]],
               !.x.worker = IF c.op = "boot" /\ st.x.polled THEN "running" ELSE @]
GoesOn(st, c, rest) ==
    IF rest # <<>> THEN [st |-> st, cpu |-> [c EXCEPT !.todo = rest, !.at = "go"]]
    ELSE [st |-> Leaves(st, c), cpu |-> Idle]
Then(st, c, step, ok) ==
    LET ep == IF step.t = "stop" THEN "int" ELSE "ep0"
        more == (step.t = "stop" /\ ok) \/ (step.t = "test" /\ ~ok)
    IN  IF more /\ CanRecover(st, step.d, ep) THEN Recovery(st, step, ep, Tt(st, step.d))
        ELSE GoesOn(st, c, Rest(c, step, ok))

Concluded(st, c, step, good) ==
    \E r \in {Then(IF good THEN Succeeds(st, step) ELSE Fails(st, c, step), c, step, good)} :
        Commit(r.st) /\ cpu' = r.cpu
Ended(st, c, step, ok) ==
    \E good \in {ok /\ Confirmed(st, c, step)} : Concluded(st, c, step, good)

\* Submit the next step; it may be refused, or find no memory.
Start ==
    /\ cpu.op # "none" /\ cpu.at = "go"
    /\ LET step == Head(cpu.todo)
           s == IF step.t = "enable" THEN [St EXCEPT !.dev[step.d].present = TRUE] ELSE St
       IN \E memory \in IF Needs(step) = {} THEN {TRUE} ELSE Luck :
            /\ Spend(memory)
            /\ IF memory /\ Admitted(s, cpu, step)
               THEN /\ Commit(Submit(alloc_frame_zero(s, Needs(step)), step))
                    /\ cpu' = [cpu EXCEPT !.at = "wait"]
               ELSE Ended(s, cpu, step, FALSE)
    /\ UNCHANGED <<disk, gone>>

\* A turn of the loop that waits, or its end without an answer.
Wait ==
    /\ cpu.op # "none" /\ cpu.at = "wait"
    /\ LET step == Head(cpu.todo) IN
        \E patient \in Luck : \E t \in {IF patient THEN Turn(St, step) ELSE [st |-> St, is |-> "late"]} :
            /\ Spend(patient)
            /\ IF t.is = "more" THEN t.st # St /\ Commit(t.st) /\ UNCHANGED cpu
               ELSE \E s \in {Returns(t.st, step, t.is)} : Ended(s, cpu, step, t.is = "ok")
    /\ UNCHANGED <<disk, gone>>

Section(op, st, h, plan) == Commit(st) /\ cpu' = [op |-> op, tt |-> h, at |-> "go", todo |-> plan]
Free == cpu.op = "none"       \* no section is masked and waiting

-----------------------------------------------------------------------------
(* The polling worker, the input probe and the network callbacks.          *)

Spoiled(e, q) == q.done /\ (q.cc \notin {"ok", "short", "down"} \/ (e = "tx" /\ q.cc = "short"))
Noted(st, d) ==
    LET note == st.dev[d].ep["note"]
    IN  IF note.done
        THEN Post([st EXCEPT !.dev[d].up = note.cc # "down", !.dev[d].ep["note"].done = FALSE], d, "note")
        ELSE IF note.pending THEN st ELSE Post(st, d, "note")
Received(st, d) ==
    LET rx == st.dev[d].ep["rx"] IN IF rx.pending \/ rx.done THEN st ELSE Post(st, d, "rx")
Sent(st, d) ==
    LET r == st.dev[d]
        s == [st EXCEPT !.dev[d].ep["tx"].done = FALSE, !.dev[d].tx_zero = FALSE]
    IN  IF ~r.ep["tx"].done THEN st ELSE IF r.tx_zero THEN Post(s, d, "tx") ELSE s
Send(st, d, late) ==
    LET r == st.dev[d]
        s == [st EXCEPT !.dev[d].queue = Tail(@), !.dev[d].tx_zero = Head(r.queue)]
    IN  CASE r.ep["tx"].pending /\ r.up /\ late -> network_fail(st, d)
          [] ~r.up -> [st EXCEPT !.dev[d].queue = <<>>]
          [] ~r.ep["tx"].pending /\ r.queue # <<>> -> Post(s, d, "tx")
          [] OTHER -> st
network_service(st, d, late) ==
    CASE ~st.dev[d].ready -> st
      [] Gone(st, d) -> network_fail(device_removed(st, d), d)
      [] \E e \in Eps(d) : Spoiled(e, st.dev[d].ep[e]) -> network_fail(st, d)
      [] OTHER -> Send(Sent(Received(Noted(st, d), d), d), d, late)

AskHub(st, h) ==
    LET r == st.dev[h] IN
    IF st.x.sync_users # 0 \/ st.x.command_pending \/ st.x.command_failed \/ ~r.present \/ ~r.configured THEN st
    ELSE IF Gone(st, h) \/ r.control_failed \/ r.control_pending \/ r.tt_owner THEN device_removed(st, h)
    ELSE queue_control_transfer([st EXCEPT !.dev[h].hub_status_pending = TRUE,
            !.dev[h].hub_poll = IF @ = 0 THEN NextPort(h, 0) ELSE @], h)

\* A hub that answers no status request in two seconds loses its subtree; then the next
\* hub is asked about its next port.
service_hub_changes(st, late) ==
    LET hubs == {h \in Devs : Kind(h) = "hub"}
        h == Min(hubs)
    IN  IF hubs = {} \/ ~st.x.operational \/ st.x.stopping THEN st
        ELSE AskHub(IF st.dev[h].hub_status_pending /\ late
                    THEN quarantine_subtree([st EXCEPT !.dev[h].control_failed = TRUE], h) ELSE st, h)

Each(st, ds, Step(_, _)) == FoldLeft(Step, st, SelectSeq([i \in 1..Cardinality(Devs) |-> i], LAMBDA d : d \in ds))
Nets == {d \in Devs : Kind(d) = "net" /\ dev[d].made}

poll_hid_events_once(st, late) ==
    IF st.x.stopping THEN st
    ELSE service_hub_changes(
             Each(Drain(Each(st, Devs, submit_interrupt_poll)), Nets, LAMBDA s, d : network_service(s, d, late)), late)

xhci_poll_worker ==
    /\ Free /\ x.worker = "running"
    /\ IF x.stopping THEN Commit([St EXCEPT !.x.worker = "retired"]) /\ UNCHANGED faults
       ELSE /\ x.operational /\ x.diagnostic_users = 0
            /\ \E soon \in Luck : Spend(soon) /\ Commit(poll_hid_events_once(St, ~soon))
    /\ UNCHANGED <<cpu, disk, gone>>

\* xhci_probe_input holds a reference while it polls in the worker's place.
xhci_probe_input ==
    /\ Free /\ now.probe
    /\ \/ x.diagnostic_users = 0 /\ ~x.stopping /\ Commit([St EXCEPT !.x.diagnostic_users = 1])
       \/ x.diagnostic_users = 1 /\ Commit([St EXCEPT !.x.diagnostic_users = 0])
       \/ x.diagnostic_users = 1 /\ x.operational /\ x.polled /\ Commit(poll_hid_events_once(St, FALSE))
    /\ UNCHANGED <<cpu, disk, gone, faults>>

network_send(d, zero) ==
    /\ Free /\ Kind(d) = "net" /\ dev[d].registered /\ dev[d].ready
    /\ Commit(IF Gone(St, d) THEN device_removed(St, d)
              ELSE IF Len(dev[d].queue) = Queue \/ ~dev[d].up THEN St
              ELSE [St EXCEPT !.dev[d].queue = Append(@, zero)])
    /\ UNCHANGED <<cpu, disk, gone, faults>>

network_poll(d) ==
    /\ Free /\ Kind(d) = "net" /\ dev[d].registered /\ dev[d].ready
    /\ IF Gone(St, d) THEN Commit(device_removed(St, d))
       ELSE \E s \in {network_service(Drain(St), d, FALSE)} :
                Commit(IF ~s.dev[d].ready \/ ~s.dev[d].ep["rx"].done THEN s
                       ELSE Post([s EXCEPT !.dev[d].ep["rx"].done = FALSE], d, "rx"))
    /\ UNCHANGED <<cpu, disk, gone, faults>>

-----------------------------------------------------------------------------
(* The block layer's caller: usb_storage.c.                                *)

\* A transfer of part of a sector: one command to read it and one to write it, each a
\* wrapper, data and a status.  The caller lets others run at the checkpoint between them.
transfer(d) ==
    /\ Free /\ disk.at = "idle" /\ Kind(d) = "disk" /\ dev[d].block
    /\ ~dev[d].failed /\ ~dev[d].busy /\ ~dev[d].retired
    /\ Commit([St EXCEPT !.dev[d].busy = TRUE])
    /\ disk' = [d |-> d, at |-> "go", short |-> FALSE,
                todo |-> <<"out", "in", "in", "out", "out", "in">>]
    /\ UNCHANGED <<cpu, gone, faults>>

\* The next bulk transfer, or the end of the call: a failure quarantines the device.
DiskNext(st, todo, short, ok) ==
    LET d == disk.d
        status == Len(todo) \in {3, 0}        \* the last transfer was a status
        good == ok /\ (status => ~short)
    IN  IF good /\ todo # <<>> /\ status
        THEN Commit(st) /\ disk' = [disk EXCEPT !.at = "go", !.todo = todo, !.short = FALSE]
        ELSE IF good /\ todo # <<>> /\ BulkAdmitted(st, d)
        THEN /\ Commit(storage_bulk_transfer(st, d, Head(todo)))
             /\ disk' = [disk EXCEPT !.at = "wait", !.todo = todo, !.short = short]
        ELSE /\ Commit([st EXCEPT !.dev[d].busy = FALSE, !.dev[d].failed = @ \/ ~good \/ todo # <<>>])
             /\ disk' = Resting

command ==
    /\ Free /\ disk.at = "go"
    /\ IF dev[disk.d].failed \/ ~BulkAdmitted(St, disk.d)
       THEN Commit([device_removed(St, disk.d) EXCEPT !.dev[disk.d].busy = FALSE, !.dev[disk.d].failed = TRUE])
            /\ disk' = Resting
       ELSE /\ Commit(storage_bulk_transfer(St, disk.d, Head(disk.todo)))
            /\ disk' = [disk EXCEPT !.at = "wait"]
    /\ UNCHANGED <<cpu, gone, faults>>

\* A turn of the loop of storage_bulk_transfer; it may find its deadline passed.
DiskTurn ==
    /\ Free /\ disk.at = "wait"
    /\ LET d == disk.d
           ep == Head(disk.todo)
       IN \E patient \in Luck : \E t \in {IF patient THEN wait_bulk(St, d, ep) ELSE [st |-> St, is |-> "bad"]} :
            LET cut == t.is = "ok" /\ t.st.dev[d].ep[ep].cc = "short"
                wrapper == Len(disk.todo) \in {6, 3}
            IN  /\ Spend(patient)
                /\ IF t.is = "more" THEN t.st # St /\ Commit(t.st) /\ UNCHANGED disk
                   ELSE \E s \in {bulk_returns(t.st, d, t.is = "ok")} :
                            DiskNext(s, Tail(disk.todo), disk.short \/ cut, t.is = "ok" /\ ~(cut /\ wrapper))
    /\ UNCHANGED <<cpu, gone>>

-----------------------------------------------------------------------------
(* Administration: recovery, retirement, stop and reclaim.                 *)

\* xhci_recover_control, xhci_recover_endpoint.
xhci_recover_endpoint(d, ep) ==
    /\ Free /\ CanRecover(St, d, ep)
    /\ tt_cleanup_current(St, d, Tt(St, d))
    /\ <<d, ep>> \in IF dev[d].stop_verified /\ ep # "ep0" THEN hw.stopped ELSE hw.halted
    /\ Section("recover", Recovering(St, d, ep, Tt(St, d)), Tt(St, d),
               recover_endpoint_ring(St, d, ep, Tt(St, d)))
    /\ UNCHANGED <<disk, gone, faults>>

xhci_test_endpoint_recovery(d) ==
    /\ Free /\ Kind(d) = "hid" /\ endpoint_recovery_admitted(St, d) /\ plan_tt_cleanup(St, d)
    /\ LET r == dev[d] IN
        /\ r.ready /\ r.ep["int"].pending /\ "int" \notin r.attempted
        /\ ~r.failed /\ ~r.control_failed /\ ~r.control_pending
    /\ Section("test", [St EXCEPT !.dev[d].failed = TRUE, !.dev[d].ready = FALSE], 0, <<S("cmd", "stop", d)>>)
    /\ UNCHANGED <<disk, gone, faults>>

xhci_test_control_recovery(d) ==
    /\ Free /\ Kind(d) = "hid" /\ endpoint_recovery_admitted(St, d) /\ plan_tt_cleanup(St, d)
    /\ ~dev[d].control_failed /\ "ep0" \notin dev[d].attempted
    /\ Section("test", St, 0, <<S("ctl", "test", d)>>)
    /\ UNCHANGED <<disk, gone, faults>>

\* The registry of network devices (net_device_retire) may refuse while a callback runs.
net_device_retire(st, ds, ok) ==
    IF ~ok THEN st
    ELSE [st EXCEPT !.dev = [d \in Devs |-> IF d \in ds THEN [st.dev[d] EXCEPT !.registered = FALSE] ELSE st.dev[d]]]
Answers == IF \E d \in Devs : dev[d].registered THEN BOOLEAN ELSE {TRUE}
Registered(st, ds) == \E d \in ds : st.dev[d].registered
usb_storage_retire(st, ds) ==
    [st EXCEPT !.dev = [d \in Devs |->
        IF d \notin ds \/ Kind(d) # "disk" THEN st.dev[d]
        ELSE [st.dev[d] EXCEPT !.failed = TRUE, !.retired = @ \/ ~st.dev[d].busy]]]
StorageHeld(st, ds) == \E d \in ds : st.dev[d].busy

\* A record knows its parent by slot id.  One that got no slot has id 0, which is also
\* the parent id of every device on a root port.
SlotId(d) == IF dev[d].slot THEN d ELSE 0
Selected(root) ==
    FoldLeft(LAMBDA ds, pass : ds \cup {c \in Devs : dev[c].present /\ \E d \in ds : Parent(c) = SlotId(d)},
             {root}, [i \in 1..Cardinality(Devs) |-> i])
Childless(ds) ==
    LET enabled == {d \in ds : ~dev[d].slot_disabled}
    IN  {d \in enabled : \A c \in enabled : Parent(c) # SlotId(d)}

\* What is selected is closed first; then, with nobody inside, one Disable Slot, leaf
\* first.  With a child that got no slot, all root ports are closed and there is no leaf.
xhci_retire_slot(root) ==
    /\ Free /\ x.operational /\ ~x.stopping /\ dev[root].present /\ dev[root].slot /\ ~dev[root].slot_disabled
    /\ LET selected == Selected(root)
           leaves == Childless(selected)
       IN  \E s1 \in {Each([St EXCEPT !.dev = [d \in Devs |-> [dev[d] EXCEPT !.retiring = @ \/ d \in selected]]],
                           selected, device_removed)} :
           IF x.sync_users # 0 \/ x.diagnostic_users # 0 THEN Commit(s1) /\ UNCHANGED cpu
           ELSE \E ok \in Answers : \E s2 \in {usb_storage_retire(net_device_retire(s1, selected, ok), selected)} :
             IF Registered(s2, selected) \/ StorageHeld(s2, selected) \/ leaves = {}
             THEN Commit(s2) /\ UNCHANGED cpu
             ELSE Section("retire", s2, 0, <<S("cmd", "disable", Min(leaves))>>)
    /\ UNCHANGED <<disk, gone, faults>>

\* xhci_stop: the view after it; `idle' if the registry lets go, `halts' if the halt is proven.
Stopping(idle) ==
    LET s == [St EXCEPT !.x.stopping = TRUE, !.x.operational = FALSE]
    IN  net_device_retire(Each(s, {d \in Devs : dev[d].present}, device_removed), Devs, idle)
\* Mutant: the halt is taken for granted.
Halt_unproven(st, halts) ==
    IF st.x.sync_users # 0 \/ Registered(st, Devs) THEN st
    ELSE [st EXCEPT !.hw.run = IF halts \/ @ = "halted" THEN "halted" ELSE "halting", !.x.stopped = TRUE]
Halt(st, halts) ==
    IF st.x.sync_users # 0 \/ Registered(st, Devs) THEN st
    ELSE IF ~halts THEN [st EXCEPT !.hw.run = IF @ = "halted" THEN @ ELSE "halting"]
    ELSE [st EXCEPT !.hw.run = "halted", !.hw.events = <<>>, !.x.stopped = TRUE]
xhci_stop(idle, halts) == IF x.stopped THEN St ELSE Halt(Stopping(idle), halts)

Stop ==
    /\ Free /\ ~x.stopped
    /\ \E idle \in Answers, halts \in Luck : Spend(halts) /\ Commit(xhci_stop(idle, halts))
    /\ UNCHANGED <<cpu, disk, gone>>

Referenced(st) == st.x.sync_users # 0 \/ st.x.diagnostic_users # 0 \/ st.x.worker = "running"
reclaim_page(m) == IF m = {} THEN m ELSE m \ {CHOOSE r \in m : \A q \in m : Rank(r) <= Rank(q)}
Reclaimed(st) == [st EXCEPT !.mem = FoldLeft(LAMBDA m, i : reclaim_page(m), @, [i \in 1..Budget |-> i])]

\* A few frames in each call, once nobody and nothing can use them.
xhci_reclaim ==
    /\ Free
    /\ \E idle \in Answers, halts \in Luck, master \in Luck :
        /\ halts \/ master
        /\ Spend(halts /\ master)
        /\ \E s \in {xhci_stop(idle, halts)} :
              Commit(IF ~s.x.stopped \/ Referenced(s) THEN s
                     ELSE IF StorageHeld(s, Devs) \/ ~master THEN usb_storage_retire(s, Devs)
                     ELSE Reclaimed(usb_storage_retire(s, Devs)))
    /\ UNCHANGED <<cpu, disk, gone>>

-----------------------------------------------------------------------------
(* The controller and the world.                                           *)

Event(td, k, cc) == [d |-> td.d, ep |-> td.ep, trb |-> td.trbs[k], cc |-> cc, data |-> gone]
Drops(td) == hw.fly \ {td}

\* A command takes effect whether or not the driver still waits for it.
HwCommand(td) ==
    LET d == td.d
        at(ep) == {t \in Drops(td) : t.d = d /\ t.ep = ep}
        possible == CASE td.cmd = "disable" -> dev[d].slot
                      [] td.cmd = "reset" -> <<d, "int">> \in hw.halted
                      [] td.cmd = "reset0" -> <<d, "ep0">> \in hw.halted
                      [] td.cmd = "setdeq" -> <<d, "int">> \in hw.stopped
                      [] td.cmd = "setdeq0" -> <<d, "ep0">> \in hw.stopped
                      [] td.cmd = "stop" -> <<d, "int">> \notin hw.halted
                      [] OTHER -> TRUE
        ep == IF td.cmd \in {"reset0", "setdeq0"} THEN "ep0" ELSE "int"
        h == [hw EXCEPT !.fly = Drops(td), !.events = Append(@, Event(td, 1, "ok"))]
    IN  /\ td.ep = "cmd"
        /\ \E works \in IF possible THEN Luck ELSE {FALSE} :
            /\ IF possible THEN Spend(works) ELSE UNCHANGED faults
            /\ hw' = CASE ~works -> [hw EXCEPT !.fly = Drops(td), !.events = Append(@, Event(td, 1, "bad"))]
                       [] td.cmd \in {"reset", "reset0"} ->
                            [h EXCEPT !.halted = @ \ {<<d, ep>>}, !.stopped = @ \cup {<<d, ep>>}]
                       [] td.cmd = "stop" -> [h EXCEPT !.fly = @ \ at("int"), !.stopped = @ \cup {<<d, "int">>}]
                       [] td.cmd \in {"setdeq", "setdeq0"} ->
                            [h EXCEPT !.stopped = @ \ {<<d, ep>>}, !.reach = @ \ {<<d, ep>>}]
                       [] td.cmd = "disable" ->
                            [h EXCEPT !.fly = {t \in @ : t.d # d}, !.reach = {r \in @ : r[1] # d}]
                       [] OTHER -> h

\* A transfer completes; a short packet of a control transfer is reported before its end.
HwTransfer(td) ==
    LET lost == td.d \in gone \/ Parent(td.d) \in gone
        n == Len(td.trbs)
        more(evs) == [hw EXCEPT !.fly = Drops(td), !.events = @ \o evs]
        halts(k, cc) == [more(<<Event(td, k, cc)>>) EXCEPT !.halted = @ \cup {<<td.d, td.ep>>}]
    IN  /\ td.ep # "cmd" /\ {<<td.d, td.ep>>} \cap (hw.halted \cup hw.stopped) = {}
        /\ \/ ~lost /\ hw' = more(<<Event(td, n, "ok")>>) /\ UNCHANGED faults
           \/ ~lost /\ td.ep = "note" /\ hw' = more(<<Event(td, n, "down")>>) /\ UNCHANGED faults
           \/ /\ ~lost /\ faults > 0 /\ Spend(FALSE)
              /\ hw' = more(IF n = 1 THEN <<Event(td, 1, "short")>>
                            ELSE <<Event(td, 1, "short"), Event(td, 2, "ok")>>)
           \/ \E k \in 1..n : ~lost /\ faults > 0 /\ Spend(FALSE) /\ hw' = halts(k, "stall")
           \/ \E k \in 1..n : lost /\ hw' = halts(k, "err") /\ UNCHANGED faults

Hardware ==
    /\ \/ hw.run # "halted" /\ \E td \in hw.fly : HwCommand(td) \/ HwTransfer(td)
       \/ hw.run = "halting" /\ hw' = [hw EXCEPT !.run = "halted"] /\ UNCHANGED faults
    /\ UNCHANGED <<dev, x, mem, cpu, disk, gone, bad, now>>

Unplug(d) ==
    /\ d \notin gone /\ faults > 0 /\ Spend(FALSE)
    /\ gone' = gone \cup {d}
    /\ UNCHANGED <<dev, x, mem, hw, cpu, disk, bad, now>>

\* After bringup_command_path has started the controller: a No-Op, then enumeration.
Init ==
    /\ now \in Situations
    /\ dev = [d \in Devs |-> NewDevice(d)]
    /\ x = [stopping |-> FALSE, stopped |-> FALSE, operational |-> FALSE, polled |-> FALSE,
            worker |-> "none", sync_users |-> 0, diagnostic_users |-> 0,
            command_pending |-> FALSE, command_failed |-> FALSE, command_enqueue |-> 0, command_trb |-> <<>>]
    /\ mem = Controller
    /\ hw = [run |-> "running", fly |-> {}, events |-> <<>>, halted |-> {}, stopped |-> {}, reach |-> Controller]
    /\ cpu = [op |-> "boot", tt |-> 0, at |-> "go",
              todo |-> <<S("cmd", "noop", 0)>> \o enumerate_connected_ports]
    /\ disk = Resting /\ gone = {} /\ bad = {} /\ faults = now.faults

Next ==
    \/ Start \/ Wait \/ xhci_poll_worker \/ xhci_probe_input \/ command \/ DiskTurn
    \/ Stop \/ xhci_reclaim \/ Hardware
    \/ \E d \in Devs :
        \/ \E zero \in BOOLEAN : network_send(d, zero)
        \/ network_poll(d) \/ transfer(d) \/ xhci_retire_slot(d) \/ Unplug(d)
        \/ \E ep \in {"ep0", "int"} : xhci_recover_endpoint(d, ep)
        \/ xhci_test_endpoint_recovery(d) \/ xhci_test_control_recovery(d)

Spec == Init /\ [][Next]_vars

-----------------------------------------------------------------------------
(* Properties.                                                             *)

\* While the controller may run, what it may touch is allocated.
DmaPinned ==
    hw.run # "halted" => hw.reach \cup UNION {t.own : t \in hw.fly} \subseteq mem

\* sync_users counts the calls in progress, so that a count of zero lets retirement go on.
UsersExact ==
    x.sync_users = (IF cpu.op # "none" /\ cpu.at = "wait" THEN 1 ELSE 0) + (IF disk.at = "wait" THEN 1 ELSE 0)

\* A transfer lost in a translator condemns it (unless the hub's own EP0 had failed at that
\* time and was recovered since: the ancestry was then broken, and the translator is not
\* found); a hub that is gone has no live child.
SubtreesClosed ==
    \A d \in Devs :
        /\ Slow(d) /\ dev[d].bulk_failed /\ Rooted(St, d) /\ "ep0" \notin dev[Parent(d)].attempted
            => dev[Parent(d)].tt_failed
        /\ dev[d].slot_disabled => \A c \in Children(d) : dev[c].present => dev[c].slot_disabled

\* The memory the controller was given stays allocated until it is proven halted, whatever
\* times out, stalls or is unplugged; no TRB or buffer in flight is submitted again, no event
\* is taken for another transfer, and nothing is submitted to a removed device (bad = {});
\* slots are disabled leaf first and a broken translator is abandoned with its devices
\* (xhci_reclaim, recover_endpoint_ring, storage_bulk_transfer, xhci_retire_slot).
UsbSound == bad = {} /\ DmaPinned /\ UsersExact /\ SubtreesClosed

=============================================================================

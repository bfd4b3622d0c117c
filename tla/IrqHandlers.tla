----------------------------- MODULE IrqHandlers -----------------------------
(***************************************************************************)
(* The registry of interrupt handlers (kernel/src/irq_handlers.c) and the  *)
(* delivery that drives it (arch/x86_64/irq.c, irq_dispatch): handlers     *)
(* run, the controller is acknowledged, observed handlers get their        *)
(* completion, and one deferred exit may take the interrupted stack away   *)
(* for good.                                                               *)
(*                                                                         *)
(* Delivery masks interrupts: between its steps only the callback it is in *)
(* runs, and that may call the registry again.  A driver is a handler, its *)
(* line and whether it wants completions.                                  *)
(***************************************************************************)
EXTENDS Naturals, FiniteSets

CONSTANTS
    Lines,      \* the shared interrupt lines
    Drivers,    \* the (function, context) pairs
    LineOf,     \* driver -> its line
    Observed,   \* the drivers with a completion callback
    Slots,      \* handlers[], 1..n
    MaxToken,   \* next_token's limit, UINT64_MAX in the code
    None

HandlerAssumption ==
    /\ LineOf \in [Drivers -> Lines]
    /\ Observed \subseteq Drivers
    /\ Slots = 1 .. Cardinality(Slots)
    /\ MaxToken \in Nat \ {0}

VARIABLES
    handlers,   \* slot -> [token, driver, pending], or None
    next,       \* next_token
    depth,      \* dispatch_depth
    pending,    \* completion_pending
    active,     \* active_token
    exit,       \* deferred_exit [token, line, ready], or None
    isr,        \* where the delivery is: [at, line, slot]
    owed,       \* the drivers that ran and have not completed
    exits       \* exits asked for in this delivery and not yet taken

vars == <<handlers, next, depth, pending, active, exit, isr, owed, exits>>

Idle == [at |-> "idle", line |-> None, slot |-> 0]

Init ==
    /\ handlers = [s \in Slots |-> None]
    /\ next = 1
    /\ depth = 0
    /\ pending = 0
    /\ active = 0
    /\ exit = None
    /\ isr = Idle
    /\ owed = {}
    /\ exits = 0

Used == {s \in Slots : handlers[s] # None}
On(line) == {s \in Used : LineOf[handlers[s].driver] = line}

\* Whether a call can be made now: by a thread while no delivery runs, or by
\* the callback the delivery is in
Callable == isr.at \in {"idle", "handler", "completion"}

-----------------------------------------------------------------------------
(* The registry.                                                            *)

irq_handler_register(d) ==
    /\ Callable
    /\ depth = 0 /\ pending = 0 /\ exit = None /\ next < MaxToken
    /\ \A s \in Used : handlers[s].driver # d
    /\ \E s \in Slots \ Used :
          /\ \A t \in Slots \ Used : s <= t
          /\ handlers' = [handlers EXCEPT ![s] = [token |-> next, driver |-> d, pending |-> FALSE]]
    /\ next' = next + 1
    /\ UNCHANGED <<depth, pending, active, exit, isr, owed, exits>>

\* Mutant: a handler may remove itself while it runs
remove_running(token) ==
    /\ Callable
    /\ pending = 0 /\ exit = None
    /\ \E s \in Used : /\ handlers[s].token = token
                       /\ handlers' = [handlers EXCEPT ![s] = None]
    /\ UNCHANGED <<next, depth, pending, active, exit, isr, owed, exits>>

irq_handler_remove(token) ==
    /\ Callable
    /\ depth = 0 /\ pending = 0 /\ exit = None
    /\ \E s \in Used : /\ handlers[s].token = token
                       /\ handlers' = [handlers EXCEPT ![s] = None]
    /\ UNCHANGED <<next, depth, pending, active, exit, isr, owed, exits>>

\* Mutant: a handler without a completion may ask too
defer_exit_unobserved(token) ==
    /\ isr.at \in {"handler", "completion"}
    /\ token = active /\ token # 0 /\ depth = 1 /\ exit = None
    /\ exit' = [token |-> token, line |-> isr.line, ready |-> FALSE]
    /\ exits' = exits + 1
    /\ UNCHANGED <<handlers, next, depth, pending, active, isr, owed>>

\* only the callback that runs can ask, and only an observed one
irq_handler_defer_exit(token) ==
    /\ isr.at \in {"handler", "completion"}
    /\ token = active /\ token # 0 /\ depth = 1 /\ exit = None
    /\ \E s \in Used : handlers[s].token = token /\ handlers[s].driver \in Observed
    /\ exit' = [token |-> token, line |-> isr.line, ready |-> FALSE]
    /\ exits' = exits + 1
    /\ UNCHANGED <<handlers, next, depth, pending, active, isr, owed>>

-----------------------------------------------------------------------------
(* A delivery: irq_dispatch.                                                *)

\* The next slot after s of this line, or the end of the loop
Following(S, s) == {t \in S : t > s /\ \A u \in S : u > s => t <= u}

At(where, slot) == isr' = [isr EXCEPT !.at = where, !.slot = slot]

\* irq_handlers_dispatch refuses while an earlier delivery is unfinished
irq_handlers_dispatch(line) ==
    /\ isr = Idle
    /\ isr' = [at |-> IF depth # 0 \/ pending # 0 \/ exit # None THEN "eoi" ELSE "dispatch",
               line |-> line, slot |-> 0]
    /\ depth' = IF depth # 0 \/ pending # 0 \/ exit # None THEN depth ELSE depth + 1
    /\ UNCHANGED <<handlers, next, pending, active, exit, owed, exits>>

\* the loop calls the next handler of the line
DispatchCall ==
    /\ isr.at = "dispatch"
    /\ \E s \in Following(On(isr.line), isr.slot) :
          /\ active' = handlers[s].token
          /\ At("handler", s)
    /\ UNCHANGED <<handlers, next, depth, pending, exit, owed, exits>>

\* the handler returns
DispatchReturn ==
    LET s == isr.slot IN
    /\ isr.at = "handler"
    /\ active' = 0
    /\ IF handlers[s].driver \in Observed
         THEN /\ handlers' = [handlers EXCEPT ![s].pending = TRUE]
              /\ pending' = pending + 1
              /\ owed' = owed \cup {handlers[s].driver}
         ELSE UNCHANGED <<handlers, pending, owed>>
    /\ At("dispatch", s)
    /\ UNCHANGED <<next, depth, exit, exits>>

DispatchEnd ==
    /\ isr.at = "dispatch"
    /\ Following(On(isr.line), isr.slot) = {}
    /\ depth' = depth - 1
    /\ At("eoi", 0)
    /\ UNCHANGED <<handlers, next, pending, active, exit, owed, exits>>

\* irq_send_eoi, then irq_handlers_complete
irq_handlers_complete ==
    /\ isr.at = "eoi"
    /\ IF depth # 0 \/ pending = 0
         THEN At("finish", 0) /\ UNCHANGED depth
         ELSE At("complete", 0) /\ depth' = depth + 1
    /\ UNCHANGED <<handlers, next, pending, active, exit, owed, exits>>

\* Mutant: the mark stays when the completion is called
CompleteCall_marked ==
    LET due == {s \in On(isr.line) : handlers[s].pending} IN
    /\ isr.at = "complete"
    /\ \E s \in Following(due, isr.slot) :
          /\ active' = handlers[s].token
          /\ owed' = owed \ {handlers[s].driver}
          /\ At("completion", s)
    /\ pending' = pending - 1
    /\ UNCHANGED <<handlers, next, depth, exit, exits>>

CompleteCall ==
    LET due == {s \in On(isr.line) : handlers[s].pending} IN
    /\ isr.at = "complete"
    /\ \E s \in Following(due, isr.slot) :
          /\ handlers' = [handlers EXCEPT ![s].pending = FALSE]
          /\ active' = handlers[s].token
          /\ owed' = owed \ {handlers[s].driver}
          /\ At("completion", s)
    /\ pending' = pending - 1
    /\ UNCHANGED <<next, depth, exit, exits>>

CompleteReturn ==
    /\ isr.at = "completion"
    /\ active' = 0
    /\ At("complete", isr.slot)
    /\ UNCHANGED <<handlers, next, depth, pending, exit, owed, exits>>

CompleteEnd ==
    LET due == {s \in On(isr.line) : handlers[s].pending} IN
    /\ isr.at = "complete"
    /\ Following(due, isr.slot) = {}
    /\ depth' = depth - 1
    /\ exit' = IF exit # None /\ pending = 0
                 THEN [exit EXCEPT !.ready = exit.ready \/ exit.line = isr.line] ELSE exit
    /\ At("finish", 0)
    /\ UNCHANGED <<handlers, next, pending, active, owed, exits>>

\* irq_handlers_finish clears the request, then calls the hook, which may
\* never return: either way the delivery is over for the registry
irq_handlers_finish ==
    /\ isr.at = "finish"
    /\ isr' = Idle
    /\ IF depth = 0 /\ pending = 0 /\ exit # None /\ exit.ready /\ exit.line = isr.line
         THEN exit' = None /\ exits' = exits - 1
         ELSE UNCHANGED <<exit, exits>>
    /\ UNCHANGED <<handlers, next, depth, pending, active, owed>>

Deliver ==
    \/ DispatchCall \/ DispatchReturn \/ DispatchEnd
    \/ irq_handlers_complete \/ CompleteCall \/ CompleteReturn \/ CompleteEnd
    \/ irq_handlers_finish

Next ==
    \/ \E d \in Drivers : irq_handler_register(d)
    \/ \E token \in 1 .. MaxToken : irq_handler_remove(token) \/ irq_handler_defer_exit(token)
    \/ \E line \in Lines : irq_handlers_dispatch(line)
    \/ Deliver

Spec == Init /\ [][Next]_vars

\* Callbacks return and the delivery is not abandoned half way.
FairSpec == Spec /\ WF_vars(Deliver)

-----------------------------------------------------------------------------
(* Correctness.                                                             *)

\* Types: tokens are distinct and were issued; the counters stay small.
TypeOK ==
    /\ \A s \in Used : /\ handlers[s].token \in 1 .. next - 1
                       /\ handlers[s].driver \in Drivers
                       /\ handlers[s].pending \in BOOLEAN
    /\ \A s, t \in Used : handlers[s].token = handlers[t].token => s = t
    /\ next \in 1 .. MaxToken
    /\ depth \in 0 .. 1
    /\ pending \in 0 .. Cardinality(Slots)
    /\ active \in 0 .. next - 1
    /\ exits \in 0 .. 1

\* The callback that runs is one that is registered, on the line being
\* delivered: nothing is removed, or put in its slot, under a running handler.
CallbackRegistered ==
    isr.at \in {"handler", "completion"} =>
        /\ isr.slot \in On(isr.line)
        /\ handlers[isr.slot].token = active

\* Every observed handler that ran gets exactly one completion before its
\* delivery ends, and the count of them is the number of marks.
CompletedOnce ==
    /\ pending = Cardinality({s \in Used : handlers[s].pending})
    /\ owed = {handlers[s].driver : s \in {t \in Used : handlers[t].pending}}
    /\ isr = Idle => owed = {}

\* A deferred exit is taken in the delivery that asked for it, after every
\* completion: the registry is never left refusing interrupts.
RegistryReopens ==
    /\ isr = Idle => depth = 0 /\ exit = None /\ exits = 0
    /\ exit # None /\ exit.ready => owed = {}

\* Deliveries and changes of the registry that they themselves make: no removed
\* handler is called, no delivery is completed twice and no exit locks the registry.
HandlersSound ==
    /\ TypeOK
    /\ CallbackRegistered
    /\ CompletedOnce
    /\ RegistryReopens
=============================================================================

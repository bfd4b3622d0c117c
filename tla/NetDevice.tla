------------------------------ MODULE NetDevice ------------------------------
(***************************************************************************)
(* The registry of network providers (kernel/src/net_device.c).  Drivers   *)
(* register at boot, one is selected for good, and every use of a provider *)
(* holds a reference around the driver's callback.  A driver withdraws     *)
(* with net_device_retire and frees its context once that reports drained  *)
(* for every registration that shares it (drivers/xhci.c, xhci_stop).      *)
(*                                                                         *)
(* A frame is an activation of a callback: threads, interrupts and the     *)
(* send a poll makes while it delivers each have frames of their own.      *)
(* Slots are numbered in the order of registration; 0 is the null pointer. *)
(***************************************************************************)
EXTENDS Naturals, FiniteSets

CONSTANTS
    Idents,     \* the (context, send) pairs drivers register
    ContextOf,  \* pair -> its context
    Contexts,
    Priority,   \* pair -> priority
    Slots,      \* PROVIDERS
    Frames,
    MaxRefs,    \* ~0u
    None

ASSUME NetDeviceAssumption ==
    /\ ContextOf \in [Idents -> Contexts]
    /\ Priority \in [Idents -> Nat]
    /\ Slots \in Nat
    /\ IsFiniteSet(Frames)
    /\ MaxRefs \in Nat
    /\ None \notin Idents

VARIABLES
    identities, \* slot -> pair: identities[0..provider_count), kept for ever
    count,      \* provider_count
    callable,   \* slot -> its callbacks are set: providers[i] is not detached
    retiring,
    references,
    selected,   \* slot, 0 = NULL
    sealed,
    entered,    \* frame -> the slot it is in, 0 = none
    drained,    \* the slots whose retirement has reported TRUE
    freed       \* contexts their driver has freed

vars == <<identities, count, callable, retiring, references, selected, sealed,
          entered, drained, freed>>

Slot == 1 .. Slots

Init ==
    /\ identities = [i \in Slot |-> None]
    /\ count = 0
    /\ callable = [i \in Slot |-> FALSE]
    /\ retiring = [i \in Slot |-> FALSE]
    /\ references = [i \in Slot |-> 0]
    /\ selected = 0
    /\ sealed = FALSE
    /\ entered = [f \in Frames |-> 0]
    /\ drained = {}
    /\ freed = {}

\* Mutant: the new slot is written over the last registration
register_over(p) ==
    /\ ~sealed
    /\ count < Slots
    /\ count' = count + 1
    /\ identities' = [identities EXCEPT ![IF count = 0 THEN 1 ELSE count] = p]
    /\ callable' = [callable EXCEPT ![count + 1] = TRUE]
    /\ UNCHANGED <<retiring, references, selected, sealed, entered, drained, freed>>

net_device_register(p) ==
    /\ ~sealed
    /\ \A i \in 1 .. count : identities[i] # p
    /\ count < Slots
    /\ ContextOf[p] \notin freed
    /\ count' = count + 1
    /\ identities' = [identities EXCEPT ![count + 1] = p]
    /\ callable' = [callable EXCEPT ![count + 1] = TRUE]
    /\ retiring' = [retiring EXCEPT ![count + 1] = FALSE]
    /\ references' = [references EXCEPT ![count + 1] = 0]
    /\ UNCHANGED <<selected, sealed, entered, drained, freed>>

\* the first of the highest priority among those not retiring
Best(i) ==
    /\ ~retiring[i]
    /\ \A j \in 1 .. count : ~retiring[j] =>
          \/ Priority[identities[j]] < Priority[identities[i]]
          \/ Priority[identities[j]] = Priority[identities[i]] /\ i <= j

net_device_select ==
    /\ ~sealed
    /\ sealed' = TRUE
    /\ \/ \E i \in 1 .. count : Best(i) /\ selected' = i
       \/ (\A i \in 1 .. count : retiring[i]) /\ UNCHANGED selected
    /\ UNCHANGED <<identities, count, callable, retiring, references, entered, drained, freed>>

\* Mutant: a retiring provider is still entered
enter_late(f, i) ==
    /\ entered[f] = 0
    /\ callable[i] \/ i \in drained
    /\ references[i] # MaxRefs
    /\ references' = [references EXCEPT ![i] = @ + 1]
    /\ entered' = [entered EXCEPT ![f] = i]
    /\ UNCHANGED <<identities, count, callable, retiring, selected, sealed, drained, freed>>

\* enter(): send, poll, link and rx_wake_ready use the selected provider,
\* net_device_inventory any registered one
enter(f, i) ==
    /\ entered[f] = 0
    /\ ~retiring[i] /\ references[i] # MaxRefs
    /\ references' = [references EXCEPT ![i] = @ + 1]
    /\ entered' = [entered EXCEPT ![f] = i]
    /\ UNCHANGED <<identities, count, callable, retiring, selected, sealed, drained, freed>>

\* Mutant: the last one out does not detach
leave_attached(f) ==
    LET i == entered[f] IN
    /\ i # 0
    /\ references' = [references EXCEPT ![i] = @ - 1]
    /\ entered' = [entered EXCEPT ![f] = 0]
    /\ UNCHANGED <<identities, count, callable, retiring, selected, sealed, drained, freed>>

\* Mutant: the reference goes to the selected provider, not to the owner
leave_selected(f) ==
    LET i == entered[f] IN
    /\ i # 0
    /\ selected # 0 => references[selected] > 0
    /\ references' = IF selected = 0 THEN references ELSE [references EXCEPT ![selected] = @ - 1]
    /\ entered' = [entered EXCEPT ![f] = 0]
    /\ UNCHANGED <<identities, count, callable, retiring, selected, sealed, drained, freed>>

\* leave(), with the detach of the last one out
leave(f) ==
    LET i == entered[f] IN
    /\ i # 0
    /\ references' = [references EXCEPT ![i] = @ - 1]
    /\ callable' = IF retiring[i] /\ references[i] = 1 THEN [callable EXCEPT ![i] = FALSE] ELSE callable
    /\ entered' = [entered EXCEPT ![f] = 0]
    /\ UNCHANGED <<identities, count, retiring, selected, sealed, drained, freed>>

\* Mutant: a second call is refused as already retiring
retire_once(p) ==
    \E i \in 1 .. count :
        /\ identities[i] = p /\ ~retiring[i]
        /\ retiring' = [retiring EXCEPT ![i] = TRUE]
        /\ IF references[i] = 0
             THEN /\ callable' = [callable EXCEPT ![i] = FALSE]
                  /\ drained' = drained \cup {i}
             ELSE UNCHANGED <<callable, drained>>
        /\ UNCHANGED <<identities, count, references, selected, sealed, entered, freed>>

\* net_device_retire answers TRUE, and detaches, only when nobody is inside;
\* a caller that got FALSE calls again
net_device_retire(p) ==
    \E i \in 1 .. count :
        /\ identities[i] = p
        /\ retiring' = [retiring EXCEPT ![i] = TRUE]
        /\ IF references[i] = 0
             THEN /\ callable' = [callable EXCEPT ![i] = FALSE]
                  /\ drained' = drained \cup {i}
             ELSE UNCHANGED <<callable, drained>>
        /\ UNCHANGED <<identities, count, references, selected, sealed, entered, freed>>

\* Mutant: one drained registration is enough
Reclaim_first(c) ==
    /\ c \notin freed
    /\ \E i \in 1 .. count : ContextOf[identities[i]] = c /\ i \in drained
    /\ freed' = freed \cup {c}
    /\ UNCHANGED <<identities, count, callable, retiring, references, selected, sealed, entered, drained>>

\* The driver frees its context: every registration of it reported drained
Reclaim(c) ==
    /\ c \notin freed
    /\ \E i \in 1 .. count : ContextOf[identities[i]] = c
    /\ \A i \in 1 .. count : ContextOf[identities[i]] = c => i \in drained
    /\ freed' = freed \cup {c}
    /\ UNCHANGED <<identities, count, callable, retiring, references, selected, sealed, entered, drained>>

Next ==
    \/ \E p \in Idents : net_device_register(p) \/ net_device_retire(p)
    \/ net_device_select
    \/ \E f \in Frames : \/ \E i \in 1 .. count : enter(f, i)
                         \/ leave(f)
    \/ \E c \in Contexts : Reclaim(c)

Spec == Init /\ [][Next]_vars

\* Callbacks return; a driver that began to withdraw calls again until it
\* is told that it is drained.
FairSpec ==
    /\ Spec
    /\ \A f \in Frames : WF_vars(leave(f))
    /\ \A p \in Idents : WF_vars((\E i \in 1 .. count : identities[i] = p /\ retiring[i]) /\ net_device_retire(p))

-----------------------------------------------------------------------------
(* Correctness.                                                             *)

\* Types: the registered slots are the first `count` ones.
TypeOK ==
    /\ identities \in [Slot -> Idents \cup {None}]
    /\ count \in 0 .. Slots
    /\ \A i \in Slot : identities[i] # None <=> i <= count
    /\ callable \in [Slot -> BOOLEAN]
    /\ retiring \in [Slot -> BOOLEAN]
    /\ references \in [Slot -> Nat]
    /\ selected \in 0 .. count
    /\ sealed \in BOOLEAN
    /\ entered \in [Frames -> 0 .. count]
    /\ drained \subseteq 1 .. count
    /\ freed \subseteq Contexts

In(i) == {f \in Frames : entered[f] = i}

\* The reference count of a provider is the number of callbacks running in
\* it, so the last one out is the one that finds it at one.
ReferencesExact ==
    \A i \in Slot : references[i] = Cardinality(In(i))

\* The callbacks of a registered provider stay set until it retires, and while
\* anyone is inside; once it has retired and emptied they are cleared.
DetachedWhenEmpty ==
    \A i \in 1 .. count : callable[i] <=> ~retiring[i] \/ In(i) # {}

\* No callback runs in a context its driver has freed, and none can start.
NoCallbackInFreed ==
    \A i \in 1 .. count :
        ContextOf[identities[i]] \in freed => In(i) = {} /\ retiring[i] /\ ~callable[i]

\* What retire once reported as drained stays drained.
DrainedForGood ==
    \A i \in drained : retiring[i] /\ In(i) = {}

\* A provider that starts to retire is drained in the end.
RetirementEnds == \A i \in Slot : retiring[i] ~> i \in drained

\* Providers are withdrawn safely: references are exact, drained is for good, and
\* no callback runs in a context its driver has freed (net_device_retire).
RegistrySound ==
    /\ TypeOK
    /\ DrainedForGood
    /\ ReferencesExact
    /\ DetachedWhenEmpty
    /\ NoCallbackInFreed
=============================================================================

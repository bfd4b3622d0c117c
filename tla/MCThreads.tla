----------------------------- MODULE MCThreads -----------------------------
(***************************************************************************)
(* What threads of a process rest on.  The kernel's futex table: two       *)
(* processes, one with two threads and two words, share two entries, so    *)
(* that the table fills and entries are taken over.  The library's mutex   *)
(* and condition variable: a producer and two consumers, one of which has  *)
(* a deadline, and a mutex locked twice over.  The library's records of    *)
(* threads and stacks: a main thread that creates two others with two      *)
(* records and two stacks.  The USB controller, with an Ethernet adapter,  *)
(* or with an input device or a hub that has a slow device or disk behind  *)
(* its translator, or a hub beside another device, and one fault.  part    *)
(* picks the one that moves, so that TLC explores the union of their state *)
(* spaces.                                                                 *)
(***************************************************************************)
EXTENDS Futex, TLC

CONSTANTS t1, t2, t3, stackA, stackB

VARIABLES
    part,
    locked, owner, depth, sequence, items, left, at, observed, then,
    rec, kernel, next_thread_id, stacks, stack, pc, op, arg, cur, held,
    dev, x, frames, hw, cpu, disk, gone, faults, bad, now

Cond == INSTANCE PthreadCond WITH
    Producers <- {1}, Consumers <- {3, 4}, Timed <- {4}, Broadcast <- FALSE,
    Quota <- [t \in {1, 3, 4} |-> IF t = 4 THEN 1 ELSE 2], MaxDepth <- 2, pc <- at

Records == INSTANCE PthreadRecords WITH
    MaxTid <- 3, PTHREAD_MAX_RECORDS <- 2, PROCESS_MAX_USER_THREADS <- 2,
    Stacks <- {stackA, stackB}, mapped <- stacks

Plugged(kind, parent, slow, probe, n) ==
    [kind |-> kind, parent |-> parent, slow |-> slow, probe |-> probe, faults |-> n]

Usb == INSTANCE Xhci WITH
    Ring <- 2, Queue <- 1, Budget <- 5, mem <- frames,
    Situations <- {Plugged(<<>>, <<>>, {}, FALSE, 0),
                   Plugged(<<"net">>, <<0>>, {}, FALSE, 0),
                   Plugged(<<"hid">>, <<0>>, {}, TRUE, 1),
                   Plugged(<<"hub", "hid">>, <<0, 1>>, {2}, FALSE, 1),
                   Plugged(<<"hub", "other", "other">>, <<0, 1, 0>>, {}, FALSE, 1),
                   Plugged(<<"hub", "disk">>, <<0, 1>>, {2}, FALSE, 1)}

ASSUME Usb!XhciAssumption
ASSUME Cond!PthreadCondAssumption /\ Records!PthreadRecordsAssumption

condVars == <<locked, owner, depth, sequence, items, left, at, observed, then>>
recordVars == <<rec, kernel, next_thread_id, stacks, stack, pc, op, arg, cur, held>>
usbVars == <<dev, x, frames, hw, cpu, disk, gone, faults, bad, now>>
allVars == <<part, vars, condVars, recordVars, usbVars>>

\* The two threads of process 1 may be swapped, and so may the stacks.
Symmetric == Permutations({t1, t2}) \cup Permutations({stackA, stackB})
OwnerOf == [t \in {t1, t2, t3} |-> IF t = t3 THEN 2 ELSE 1]
PagesOf == [p \in {1, 2} |-> IF p = 1 THEN {1, 2} ELSE {1}]

InitAll ==
    /\ part \in {"futex", "cond", "records", "usb"}
    /\ Init /\ Cond!Init /\ Records!Init /\ Usb!Init
    /\ part # "usb" <=> now.kind = <<>>

NextAll ==
    \/ part = "futex" /\ Next /\ UNCHANGED <<part, condVars, recordVars, usbVars>>
    \/ part = "cond" /\ Cond!Next /\ UNCHANGED <<part, vars, recordVars, usbVars>>
    \/ part = "records" /\ Records!Next /\ UNCHANGED <<part, vars, condVars, usbVars>>
    \/ part = "usb" /\ Usb!Next /\ UNCHANGED <<part, vars, condVars, recordVars>>

SpecAll == InitAll /\ [][NextAll]_allVars

-----------------------------------------------------------------------------
(* The property of Futex, and those that the library's modules state.      *)

\* pthread_mutex_*, pthread_cond_*: the mutex excludes and is handed on, and
\* pthread_create, pthread_join, pthread_detach: stacks and records end with threads.
LibrarySound ==
    /\ part = "cond" => Cond!MutexSound
    /\ part = "records" => Records!RecordsSound

\* xhci.c: frames given to the USB controller stay its own until it is proven halted, and
\* no event is taken for another transfer (xhci_reclaim, recover_endpoint_ring,
\* storage_bulk_transfer, xhci_retire_slot).
UsbSound == part = "usb" => Usb!UsbSound
=============================================================================

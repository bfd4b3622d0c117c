------------------------------ MODULE WorkFifo ------------------------------
(***************************************************************************)
(* What kernel/src/workqueue.c promises its callers: a bounded FIFO of     *)
(* pending work in which a request for work that is already pending joins  *)
(* it, and joins it as ordinary work unless both requests were io-safe.    *)
(***************************************************************************)
EXTENDS Naturals, Sequences

CONSTANTS Works, WORKQUEUE_MAX_ITEMS

VARIABLES queue, dropped    \* the pending requests, and how many were refused

Request(w, safe) ==
    IF \E i \in 1 .. Len(queue) : queue[i].fn = w
    THEN /\ queue' = [i \in 1 .. Len(queue) |->
                        IF queue[i].fn = w
                        THEN [queue[i] EXCEPT !.io_safe = @ /\ safe] ELSE queue[i]]
         /\ UNCHANGED dropped
    ELSE IF Len(queue) < WORKQUEUE_MAX_ITEMS
    THEN queue' = Append(queue, [fn |-> w, io_safe |-> safe]) /\ UNCHANGED dropped
    ELSE dropped' = dropped + 1 /\ UNCHANGED queue

Take == queue # <<>> /\ queue' = Tail(queue) /\ UNCHANGED dropped

Next == Take \/ \E w \in Works, safe \in BOOLEAN : Request(w, safe)

Spec == queue = <<>> /\ dropped = 0 /\ [][Next]_<<queue, dropped>>

=============================================================================

--------------------------------- MODULE Pty ---------------------------------
(***************************************************************************)
(* One pseudo-terminal pair: the line discipline (kernel/src/pty_model.c)  *)
(* and the calls that wait for it (kernel/src/pty.c).  The master writes   *)
(* what is typed and reads what is shown; the slave is the program.        *)
(*                                                                         *)
(* Calls run with interrupts masked, so one attempt is one step; between   *)
(* attempts a caller sleeps on the one wait queue, and wakes to ask its    *)
(* `ready' predicate again.  A call that does not wait, or that does not   *)
(* have to, is a step on its own; the thread that sleeps is `waiter'.  A   *)
(* write of several bytes is several writes of one.                        *)
(*                                                                         *)
(* Bytes are classes of bytes, the rings their sizes: what the guards and  *)
(* the records depend on.                                                  *)
(***************************************************************************)
EXTENDS Integers, Sequences, SequencesExt, FiniteSetsExt

CONSTANTS
    BYTES,      \* PTY_BYTES: the room of either ring
    LINE,       \* PTY_LINE
    RECORDS,    \* PTY_RECORDS
    Attributes, \* the settings in use: [lflag: SUBSET Flags, onlcr, vmin]
    Lengths,    \* lengths of reads
    None

Flags == {"ICANON", "ECHO", "ISIG"}
Bytes == {"text", "continuation", "newline", "eof", "erase", "kill", "intr"}
Actions == {"now", "drain", "flush"}

PtyAssumption ==
    /\ BYTES \in Nat /\ LINE \in Nat \ {0} /\ RECORDS \in Nat \ {0}
    /\ 3 * (LINE - 1) <= BYTES /\ 4 <= BYTES
    /\ \A a \in Attributes : a.lflag \subseteq Flags /\ a.onlcr \in BOOLEAN /\ a.vmin \in 0 .. BYTES

VARIABLES
    pty,        \* the model: input, output (sizes), line, records, attributes, closed ends
    waiter,     \* the request of the thread that waits, or None
    asleep      \* it has not been woken since it found itself not ready

vars == <<pty, waiter, asleep>>

Requests ==
    [op : {"read"}, master : BOOLEAN, length : Lengths]
      \cup [op : {"write"}, master : BOOLEAN, byte : Bytes]
      \cup [op : {"attr"}, action : Actions, attributes : Attributes]

Init ==
    /\ \E a \in Attributes :
          /\ {"ICANON", "ECHO", "ISIG"} \subseteq a.lflag
          /\ pty = [input |-> 0, output |-> 0, line |-> <<>>, records |-> <<>>, attributes |-> a,
                    master_closed |-> FALSE, slave_closed |-> FALSE]
    /\ waiter = None
    /\ asleep = FALSE

-----------------------------------------------------------------------------
(* The line discipline: operators on a pair p.  None is SRV_ERR_AGAIN.      *)

space(size) == BYTES - size
Canonical(p) == "ICANON" \in p.attributes.lflag
Echo(p) == "ECHO" \in p.attributes.lflag
PeerClosed(p, master) == IF master THEN p.slave_closed ELSE p.master_closed

output_width(p, c) == IF c = "newline" /\ p.attributes.onlcr THEN 2 ELSE 1

Shown(p, n) == IF Echo(p) THEN [p EXCEPT !.output = @ + n] ELSE p

clear_input(p) == [p EXCEPT !.input = 0, !.line = <<>>, !.records = <<>>]

publish(p, newline) ==
    LET length == Len(p.line) + (IF newline THEN 1 ELSE 0) IN
    IF Len(p.records) = RECORDS \/ space(p.input) < length THEN None
    ELSE [p EXCEPT !.input = @ + length, !.records = Append(@, length), !.line = <<>>]

\* the last character with its continuation bytes
erased_bytes(line) ==
    LET starts == {i \in 1 .. Len(line) : line[i] # "continuation"} \cup {1} IN
    IF line = <<>> THEN 0 ELSE Len(line) - Max(starts) + 1

\* How many erasures empty the line: one per character
Characters(line) ==
    Cardinality({i \in 1 .. Len(line) : i = 1 \/ line[i] # "continuation"})

Intr(p, c) == c = "intr" /\ "ISIG" \in p.attributes.lflag

\* One typed byte; None when it does not fit
input(p, c) ==
    CASE Intr(p, c) ->
           IF Echo(p) /\ space(p.output) < 4 THEN None ELSE Shown(clear_input(p), 4)
      [] ~Intr(p, c) /\ ~Canonical(p) ->
           IF space(p.input) = 0 \/ (Echo(p) /\ space(p.output) < output_width(p, c)) THEN None
           ELSE Shown([p EXCEPT !.input = @ + 1], output_width(p, c))
      [] ~Intr(p, c) /\ Canonical(p) /\ c = "erase" ->
           IF p.line = <<>> THEN p
           ELSE IF Echo(p) /\ space(p.output) < 3 THEN None
           ELSE Shown([p EXCEPT !.line = SubSeq(@, 1, Len(@) - erased_bytes(@))], 3)
      [] ~Intr(p, c) /\ Canonical(p) /\ c = "kill" ->
           IF Echo(p) /\ space(p.output) < 3 * Len(p.line) THEN None
           ELSE Shown([p EXCEPT !.line = <<>>], 3 * Characters(p.line))
      [] ~Intr(p, c) /\ Canonical(p) /\ c = "eof" -> publish(p, FALSE)
      [] ~Intr(p, c) /\ Canonical(p) /\ c = "newline" ->
           IF Echo(p) /\ space(p.output) < output_width(p, c) THEN None
           ELSE LET published == publish(p, TRUE) IN
                IF published = None THEN None ELSE Shown(published, output_width(p, c))
      [] OTHER ->
           IF Len(p.line) = LINE - 1 THEN p
           ELSE IF Echo(p) /\ space(p.output) < output_width(p, c) THEN None
           ELSE Shown([p EXCEPT !.line = Append(@, IF c = "continuation" THEN c ELSE "text")], output_width(p, c))

\* pty_model_write of one byte on a pair whose other end is open
pty_model_write(p, master, c) ==
    IF master THEN input(p, c)
    ELSE IF space(p.output) < output_width(p, c) THEN None
    ELSE [p EXCEPT !.output = @ + output_width(p, c)]

\* Mutant: the terminator itself is forgotten
LineFits_short(p) == Len(p.records) < RECORDS /\ space(p.input) >= Len(p.line)

\* a record, and room for the line with its terminator
LineFits(p) == Len(p.records) < RECORDS /\ space(p.input) >= Len(p.line) + 1

\* The predicate of a writer that waits with byte c
pty_model_write_ready(p, master, c) ==
    \/ PeerClosed(p, master)
    \/ ~master /\ space(p.output) >= output_width(p, c)
    \/ /\ master
       /\ LET quiet(n) == ~Echo(p) \/ space(p.output) >= n IN
          CASE Intr(p, c) -> quiet(4)
            [] ~Intr(p, c) /\ ~Canonical(p) -> space(p.input) > 0 /\ quiet(output_width(p, c))
            [] ~Intr(p, c) /\ Canonical(p) /\ c = "erase" -> p.line = <<>> \/ quiet(3)
            [] ~Intr(p, c) /\ Canonical(p) /\ c = "kill" -> quiet(3 * Len(p.line))
            [] ~Intr(p, c) /\ Canonical(p) /\ c = "eof" ->
                 Len(p.records) < RECORDS /\ space(p.input) >= Len(p.line)
            [] ~Intr(p, c) /\ Canonical(p) /\ c = "newline" ->
                 LineFits(p) /\ quiet(output_width(p, c))
            [] OTHER -> Len(p.line) = LINE - 1 \/ quiet(output_width(p, c))

\* Mutant: a record has to fit the reader's buffer
ReadRecord_whole(p, length) ==
    IF length < Head(p.records) THEN None
    ELSE [p EXCEPT !.input = @ - Head(p.records), !.records = Tail(@)]

\* at most one record, or the part of it the buffer holds
ReadRecord(p, length) ==
    LET n == Min({length, Head(p.records)}) IN
    [p EXCEPT !.input = @ - n,
              !.records = IF n = Head(@) THEN Tail(@) ELSE <<Head(@) - n>> \o Tail(@)]

\* pty_model_read_checked: a record of a canonical terminal, and the unfinished
\* line once the master is gone
pty_model_read(p, master, length, nonblocking) ==
    LET least == Min({length, IF master \/ nonblocking THEN 1 ELSE p.attributes.vmin})
        size == IF master THEN p.output ELSE p.input
        n == Min({length, size}) IN
    IF ~master /\ Canonical(p)
      THEN IF p.records # <<>>
             THEN ReadRecord(p, length)
             ELSE IF ~p.master_closed THEN None
             ELSE [p EXCEPT !.line = SubSeq(@, Min({length, Len(@)}) + 1, Len(@))]
      ELSE IF size < least /\ ~PeerClosed(p, master) THEN None
      ELSE IF master THEN [p EXCEPT !.output = @ - n] ELSE [p EXCEPT !.input = @ - n]

\* Mutant: the records outlive the canonical mode
MakeRaw_recorded(p) == [p EXCEPT !.input = @ + Len(p.line), !.line = <<>>]

\* out of canonical mode: the line joins the input, the records go
MakeRaw(p) == [p EXCEPT !.input = @ + Len(p.line), !.line = <<>>, !.records = <<>>]

pty_model_attributes(p, a, action) ==
    LET canonical == "ICANON" \in a.lflag IN
    IF action # "now" /\ p.output # 0 THEN None
    ELSE IF action = "flush" THEN [clear_input(p) EXCEPT !.attributes = a]
    ELSE IF Canonical(p) /\ ~canonical
           THEN IF space(p.input) < Len(p.line) THEN None ELSE [MakeRaw(p) EXCEPT !.attributes = a]
    ELSE IF ~Canonical(p) /\ canonical /\ p.input > 0
           THEN [p EXCEPT !.records = <<p.input>>, !.attributes = a]
    ELSE [p EXCEPT !.attributes = a]

-----------------------------------------------------------------------------
(* The calls.                                                               *)

Gone == pty.master_closed /\ pty.slave_closed

\* What one attempt of a request makes of the pair; None: try again later
Attempt(r, nonblocking) ==
    CASE r.op = "read" -> pty_model_read(pty, r.master, r.length, nonblocking)
      [] r.op = "write" -> pty_model_write(pty, r.master, r.byte)
      [] r.op = "attr" -> pty_model_attributes(pty, r.attributes, r.action)

\* the call fails for good: nothing will be changed
Fails(r) ==
    \/ Gone
    \/ r.op = "write" /\ PeerClosed(pty, r.master)
    \/ r.op = "attr" /\ pty.master_closed

\* ready() and attr_ready()
ready(r) ==
    \/ Gone
    \/ r.op = "read" /\ PeerClosed(pty, r.master)
    \/ r.op = "read" /\ r.master /\ pty.output > 0
    \/ r.op = "read" /\ ~r.master /\ Canonical(pty) /\ pty.records # <<>>
    \/ r.op = "read" /\ ~r.master /\ ~Canonical(pty) /\ pty.input >= Min({pty.attributes.vmin, r.length})
    \/ r.op = "write" /\ pty_model_write_ready(pty, r.master, r.byte)
    \/ r.op = "attr" /\ pty.master_closed
    \/ r.op = "attr" /\ (r.action = "now" \/ pty.output = 0) /\ space(pty.input) >= Len(pty.line)

\* the caller's own end is open
Mine(r) == IF r.op = "attr" THEN ~Gone ELSE ~PeerClosed(pty, ~r.master)

pty_wake == asleep' = FALSE

\* A call that does not sleep: it succeeds, and wakes everybody
Call(r, nonblocking) ==
    /\ Mine(r) /\ ~Fails(r)
    /\ Attempt(r, nonblocking) # None
    /\ pty' = Attempt(r, nonblocking)
    /\ pty_wake
    /\ UNCHANGED waiter

\* A call that has to sleep
Block(r) ==
    /\ waiter = None
    /\ Mine(r) /\ ~Fails(r)
    /\ Attempt(r, FALSE) = None
    /\ waiter' = r
    /\ asleep' = ~ready(r)
    /\ UNCHANGED pty

\* The sleeper was woken: it asks again, and tries again when it is ready
Resume ==
    /\ waiter # None /\ ~asleep
    /\ IF ~ready(waiter)
         THEN asleep' = TRUE /\ UNCHANGED <<pty, waiter>>
         ELSE \/ Fails(waiter) /\ waiter' = None /\ UNCHANGED <<pty, asleep>>
              \/ /\ ~Fails(waiter) /\ Attempt(waiter, FALSE) # None
                 /\ pty' = Attempt(waiter, FALSE)
                 /\ waiter' = None
                 /\ pty_wake
              \/ /\ ~Fails(waiter) /\ Attempt(waiter, FALSE) = None
                 /\ UNCHANGED vars

\* a signal, the process's exit, or the replacement of the descriptor ends it
Interrupt ==
    /\ waiter # None
    /\ waiter' = None /\ asleep' = FALSE
    /\ UNCHANGED pty

\* Mutant: the close of an end wakes nobody
pty_close_silent(master) ==
    /\ ~PeerClosed(pty, ~master)
    /\ pty' = IF master THEN [pty EXCEPT !.master_closed = TRUE] ELSE [pty EXCEPT !.slave_closed = TRUE]
    /\ UNCHANGED <<waiter, asleep>>

\* The last reference to an end goes
pty_close(master) ==
    /\ ~PeerClosed(pty, ~master)
    /\ pty' = IF master THEN [pty EXCEPT !.master_closed = TRUE] ELSE [pty EXCEPT !.slave_closed = TRUE]
    /\ pty_wake
    /\ UNCHANGED waiter

Next ==
    \/ \E r \in Requests, nonblocking \in BOOLEAN : Call(r, nonblocking)
    \/ \E r \in Requests : Block(r)
    \/ Resume
    \/ Interrupt
    \/ \E master \in BOOLEAN : pty_close(master)

Spec == Init /\ [][Next]_vars

-----------------------------------------------------------------------------
(* Correctness.                                                             *)

\* Types: the rings, the line and the records stay within their arrays.
TypeOK ==
    /\ pty.input \in 0 .. BYTES
    /\ pty.output \in 0 .. BYTES
    /\ pty.line \in Seq({"text", "continuation"}) /\ Len(pty.line) < LINE
    /\ pty.records \in Seq(0 .. BYTES) /\ Len(pty.records) <= RECORDS
    /\ pty.attributes \in Attributes
    /\ waiter \in Requests \cup {None}
    /\ asleep \in BOOLEAN

\* The records of a canonical terminal account for every byte of the input
\* ring, through every change of mode; otherwise none are left, and no line.
RecordsCover ==
    IF Canonical(pty) THEN pty.input = FoldLeft(+, 0, pty.records)
    ELSE pty.records = <<>> /\ pty.line = <<>>

\* The predicate a writer sleeps on says exactly whether its byte would be
\* taken: a ready writer never spins, one that is not never misses room.
WriteReadyExact ==
    \A master \in BOOLEAN, c \in Bytes :
        ~PeerClosed(pty, master) =>
            (pty_model_write_ready(pty, master, c) <=> pty_model_write(pty, master, c) # None)

\* A reader or writer that sleeps could not go on: every change that lets
\* it, of data, of the settings or of the other end, woke it.
NoStrandedSleeper ==
    waiter # None /\ asleep =>
        /\ ~ready(waiter)
        /\ waiter.op # "attr" => Attempt(waiter, FALSE) = None

\* The pair never locks up: when a typed byte does not fit there is something
\* to read at one end or the other.
NeverWedged ==
    \A c \in Bytes :
        input(pty, c) = None /\ ~Gone =>
            \/ pty.output > 0
            \/ pty_model_read(pty, FALSE, 1, FALSE) # None

\* The records account for every byte of the input ring, the pair never locks up, and
\* what its sleepers wait for is what would serve them (pty_model_*, pty_wait).
TerminalSound ==
    /\ TypeOK
    /\ RecordsCover
    /\ WriteReadyExact
    /\ NoStrandedSleeper
    /\ NeverWedged
=============================================================================

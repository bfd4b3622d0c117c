---------------------------- MODULE MCChannels ----------------------------
(***************************************************************************)
(* What processes talk through.  stream: three threads on one pipe of      *)
(* three bytes, with writes below and above SRV_PIPE_BUF.  reuse: two      *)
(* threads that open and close two pipes on three descriptors, so that     *)
(* numbers and slots come back while a call sleeps.  rights: descriptors   *)
(* sent through pipe pairs and waiting in a listener.  cycle: two pairs,   *)
(* each sent through the other.  pty: a terminal pair, cooked and raw.     *)
(* semaphore: three kernel threads and at most two units.  part picks the  *)
(* one that moves, so that TLC explores the union of their state spaces.   *)
(***************************************************************************)
EXTENDS Semaphore, TLC

CONSTANTS w1, w2, w3, t1, t2, None

VARIABLES
    part,
    files, generations, pipes, th, stream, made, writes, retired, foreign,
    entries, tunnels, listeners, present, collecting, todo, pairs, sent, robbed,
    pty, waiter, asleep

Stream == INSTANCE Pipe WITH
    Threads <- {w1, w2, w3}, Fds <- {0, 1}, Pipes <- {1}, PROCESS_PIPE_CAPACITY <- 3,
    SRV_PIPE_BUF <- 2, MaxGeneration <- 2, Lengths <- {2, 4}, MaxWrites <- 2,
    MaxPipes <- 1, MaxRetired <- 1

Reuse == INSTANCE Pipe WITH
    Threads <- {t1, t2}, Fds <- {0, 1, 2}, Pipes <- {1, 2}, PROCESS_PIPE_CAPACITY <- 1,
    SRV_PIPE_BUF <- 1, MaxGeneration <- 2, Lengths <- {1}, MaxWrites <- 2,
    MaxPipes <- 2, MaxRetired <- 3

Rights == INSTANCE PipeRights WITH
    Threads <- {t1, t2}, Fds <- {0, 1, 2}, Pipes <- {1, 2}, Listeners <- {1},
    PROCESS_PIPE_RIGHTS_QUEUE <- 1, SRV_RIGHTS_MAX <- 1, PROCESS_UNIX_ACCEPT_QUEUE <- 1,
    MaxMade <- 2, MaxSent <- 3,
    files <- entries, pipes <- tunnels, th <- todo, made <- pairs

Cycle == INSTANCE PipeRights WITH
    Threads <- {t1}, Fds <- 0..3, Pipes <- 1..4, Listeners <- {},
    PROCESS_PIPE_RIGHTS_QUEUE <- 1, SRV_RIGHTS_MAX <- 1, PROCESS_UNIX_ACCEPT_QUEUE <- 1,
    MaxMade <- 2, MaxSent <- 2,
    files <- entries, pipes <- tunnels, th <- todo, made <- pairs

Cooked == [lflag |-> {"ICANON", "ECHO", "ISIG"}, onlcr |-> TRUE, vmin |-> 1]
Raw == [lflag |-> {}, onlcr |-> TRUE, vmin |-> 2]

Terminal == INSTANCE Pty WITH
    BYTES <- 6, LINE <- 3, RECORDS <- 2, Attributes <- {Cooked, Raw}, Lengths <- {2}

ASSUME /\ Stream!PipeAssumption /\ Reuse!PipeAssumption
       /\ Rights!RightsAssumption /\ Cycle!RightsAssumption /\ Terminal!PtyAssumption

\* The threads of a part are alike.
Symmetric == Permutations({w1, w2, w3}) \cup Permutations({t1, t2})

pipeVars == <<files, generations, pipes, th, stream, made, writes, retired, foreign>>
rightsVars == <<entries, tunnels, listeners, present, collecting, todo, pairs, sent, robbed>>
ptyVars == <<pty, waiter, asleep>>
allVars == <<part, vars, pipeVars, rightsVars, ptyVars>>

InitAll ==
    /\ part \in {"stream", "reuse", "rights", "cycle", "pty", "semaphore"}
    /\ IF part = "reuse" THEN Reuse!Init ELSE Stream!Init
    /\ IF part = "cycle" THEN Cycle!Init ELSE Rights!Init
    /\ Terminal!Init /\ semaphore_init

NextAll ==
    \/ part = "stream" /\ Stream!Next /\ UNCHANGED <<part, vars, rightsVars, ptyVars>>
    \/ part = "reuse" /\ Reuse!Next /\ UNCHANGED <<part, vars, rightsVars, ptyVars>>
    \/ part = "rights" /\ Rights!Next /\ UNCHANGED <<part, vars, pipeVars, ptyVars>>
    \/ part = "cycle" /\ Cycle!Next /\ UNCHANGED <<part, vars, pipeVars, ptyVars>>
    \/ part = "pty" /\ Terminal!Next /\ UNCHANGED <<part, vars, pipeVars, rightsVars>>
    \/ part = "semaphore" /\ Next /\ UNCHANGED <<part, pipeVars, rightsVars, ptyVars>>

SpecAll == InitAll /\ [][NextAll]_allVars

-----------------------------------------------------------------------------
(* The properties that Pipe, PipeRights and Pty state, besides             *)
(* SemaphoreSound and CloseIsFinal of Semaphore.                           *)

\* pipe_write_common, pipe_commit_read, pipe_io_current, release_pipe: a queue of bytes
\* nobody sleeps on in vain, whose descriptors and slots are reused safely.
PipeSound ==
    /\ part = "stream" => Stream!PipeSound /\ Stream!ReuseSafe
    /\ part = "reuse" => Reuse!PipeSound /\ Reuse!ReuseSafe

\* process_file_send_rights, pipe_rights_collect: no file in flight is lost or kept.
RightsSound ==
    /\ part = "rights" => Rights!RightsSound
    /\ part = "cycle" => Cycle!RightsSound

\* pty_model_*, pty_wait: the records account for every byte of the input ring, the pair
\* never locks up, and what its sleepers wait for is what would serve them.
TerminalSound == part = "pty" => Terminal!TerminalSound
=============================================================================

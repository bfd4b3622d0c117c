----------------------------- MODULE MCMachine ------------------------------
(***************************************************************************)
(* What the machine's memory and media hold.  pmm: five frames.  volume:   *)
(* an exFAT volume of ten clusters and two names, one mutation, one power  *)
(* loss and one failed device command.  part picks the one that moves, so  *)
(* that TLC explores the union of their state spaces.                      *)
(***************************************************************************)
EXTENDS Pmm

VARIABLES
    part,
    live, pend, up, mem, blocked, plan, good, busy, res, lease, old, new, moved, broken, ops,
    crashes, faults

Volume == INSTANCE Exfat WITH
    Files <- {"a", "b"}, Wide <- {"b"}, NC <- 10, MaxLen <- 2, MaxOps <- 1, MaxCrash <- 1,
    MaxFault <- 1, MetaNeed <- 5

volumeVars == <<live, pend, up, mem, blocked, plan, good, busy, res, lease, old, new, moved,
                broken, ops, crashes, faults>>
allVars == <<part, vars, volumeVars>>

\* A component at rest is in one of its initial states.
InitAll ==
    /\ part \in {"pmm", "volume"}
    /\ pmm_init /\ Volume!Init
    /\ part # "pmm" => FreeFrames = {}
    /\ part # "volume" => live = Volume!EmptyVolume

NextAll ==
    /\ UNCHANGED part
    /\ \/ part = "pmm" /\ Next /\ UNCHANGED volumeVars
       \/ part = "volume" /\ Volume!Next /\ UNCHANGED vars

SpecAll == InitAll /\ [][NextAll]_allVars

-----------------------------------------------------------------------------
(* The property of Exfat, besides AllocatorSound and ImplementsFirstFit.   *)

\* mutation_begin .. mutation_end, mount_block_device: a power loss at any device
\* command costs at most the name whose record it tears, and between mutations the
\* mount is what the media hold.
VolumeSound == part = "volume" => Volume!VolumeSurvives /\ Volume!MountFaithful
=============================================================================

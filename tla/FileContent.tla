----------------------------- MODULE FileContent -----------------------------
(***************************************************************************)
(* Open file contents (kernel/src/process.c, content_find to               *)
(* process_file_sync_all).  Every description of a file shares one content *)
(* object, found by its path: what is written lives there until it is      *)
(* flushed to the filesystem, or until the name is unlinked or replaced,   *)
(* after which the object is an orphan only its descriptors can see.       *)
(*                                                                         *)
(* Every operation runs under the storage gate (Scheduler), so each is one *)
(* step.  A file's bytes are one value, fresh on every write.  The         *)
(* filesystem below is external to this module: an update of it is done,   *)
(* is refused before it touched the medium, faults without touching it, or *)
(* is torn; the volume then refuses every later update (write_blocked).    *)
(* Calls that fail for lack of memory or of a free slot change nothing and *)
(* are left out.                                                           *)
(***************************************************************************)
EXTENDS Naturals, FiniteSets

CONSTANTS
    Paths,       \* the names of the volume
    Descs,       \* the open descriptions, read_files and write_files
    Contents,    \* file_contents, 1..n: as many as there are descriptions
    MaxRefs,     \* bound on the descriptors of one description
    MaxFiles,    \* bound on the files ever created
    MaxWrites,   \* bound on the writes
    NoFile, NoDesc

ContentAssumption ==
    /\ Contents = 1 .. Cardinality(Descs)
    /\ {MaxRefs, MaxFiles, MaxWrites} \subseteq Nat
    /\ NoFile \notin [ino : Nat, data : Nat]

VARIABLES
    vfs,        \* path -> the file it names [ino, data], or NoFile
    contents,   \* content -> the object
    descs,      \* description -> [writer, refs, content], or NoDesc
    blocked,    \* volume->write_blocked
    created,    \* files created so far; the next inode
    written,    \* writes so far; the next value
    torn,       \* the inodes a torn update may have left with either value
    lost        \* unsaved data was discarded and the close reported success

vars == <<vfs, contents, descs, blocked, created, written, torn, lost>>

Empty == 0

FreeContent ==
    [refs |-> 0, path |-> NoFile, ino |-> 0, data |-> Empty, dirty |-> FALSE,
     failed |-> FALSE, unlinked |-> FALSE, owned |-> FALSE]

Init ==
    /\ vfs \in [Paths -> {NoFile, [ino |-> 1, data |-> Empty]}]
    /\ Cardinality({p \in Paths : vfs[p] # NoFile}) = 1
    /\ contents = [c \in Contents |-> FreeContent]
    /\ descs = [d \in Descs |-> NoDesc]
    /\ blocked = FALSE
    /\ created = 1
    /\ written = 0
    /\ torn = {}
    /\ lost = FALSE

-----------------------------------------------------------------------------
(* What an update of the filesystem can come to, and the state it leaves.   *)

Outcomes == {"done", "refused", "faulted", "tornBefore", "tornAfter"}
Torn == {"tornBefore", "tornAfter"}

\* a quarantined volume denies every update before it starts
Possible(b) == IF b THEN {"faulted"} ELSE Outcomes

\* the part of the state a flush works on
Store == [vfs |-> vfs, contents |-> contents, blocked |-> blocked, torn |-> torn]

Become(s) ==
    /\ vfs' = s.vfs
    /\ contents' = s.contents
    /\ blocked' = s.blocked
    /\ torn' = s.torn

\* exfat_write_file: the bytes under a name that exists or is created
WriteFile(s, path, file, outcome) ==
    [s EXCEPT !.vfs = IF outcome \in {"done", "tornAfter"}
                         THEN [@ EXCEPT ![path] = file] ELSE @,
              !.blocked = @ \/ outcome \in Torn,
              !.torn = IF outcome \in Torn THEN @ \cup {file.ino} ELSE @]

-----------------------------------------------------------------------------
(* The content objects.                                                     *)

\* (mutant) only an object that is dirty is found by its path
content_find_blind(s, path) ==
    {c \in Contents : /\ s.contents[c].refs > 0
                      /\ ~s.contents[c].unlinked
                      /\ s.contents[c].dirty
                      /\ s.contents[c].path = path}

content_find(s, path) ==
    {c \in Contents : /\ s.contents[c].refs > 0
                      /\ ~s.contents[c].unlinked
                      /\ s.contents[c].path = path}

\* The slot an open of path uses: the object already there, or the first free
SlotFor(s, path) ==
    IF content_find(s, path) # {}
      THEN CHOOSE c \in content_find(s, path) : TRUE
      ELSE CHOOSE c \in Contents :
              /\ s.contents[c].refs = 0
              /\ \A e \in Contents : s.contents[e].refs = 0 => c <= e

\* content_acquire: the filesystem's snapshot is used only by a new object
content_acquire(s, path, file) ==
    LET c == SlotFor(s, path)
    IN IF content_find(s, path) # {}
         THEN [s EXCEPT !.contents[c].refs = @ + 1]
         ELSE [s EXCEPT !.contents[c] =
                 [FreeContent EXCEPT !.refs = 1, !.path = path,
                                     !.ino = file.ino, !.data = file.data]]

\* (mutant) an object keeps the snapshot it was opened with
PromotedNever(s, cs) == s

\* ensure_write_capacity: a snapshot of the filesystem's becomes a buffer of
\* the object's own
Promoted(s, cs) ==
    [s EXCEPT !.contents = [c \in Contents |->
        IF c \in cs THEN [@[c] EXCEPT !.owned = TRUE] ELSE @[c]]]

\* Whether a flush of c asks the filesystem for anything
NeedsWrite(s, c) ==
    LET o == s.contents[c] IN ~o.unlinked /\ ~o.failed /\ o.dirty

\* The answers it can get ("done" stands for a question not asked)
Answers(s, c) == IF NeedsWrite(s, c) THEN Possible(s.blocked) ELSE {"done"}

\* (mutant) dirty is cleared before the filesystem answers
content_flush_early(s, c, outcome) ==
    LET o == s.contents[c]
        file == [ino |-> o.ino, data |-> o.data]
        w == WriteFile(s, o.path, file, outcome)
    IN IF ~NeedsWrite(s, c)
         THEN [s EXCEPT !.contents[c].dirty = @ /\ ~o.unlinked]
         ELSE [w EXCEPT !.contents[c].dirty = FALSE,
                        !.contents[c].failed = outcome \notin {"done", "refused"}]

\* content_flush and its result; the outcome is the filesystem's answer
content_flush(s, c, outcome) ==
    LET o == s.contents[c]
        file == [ino |-> o.ino, data |-> o.data]
        w == WriteFile(s, o.path, file, outcome)
    IN IF o.unlinked
         THEN [s EXCEPT !.contents[c].dirty = FALSE]
       ELSE IF ~NeedsWrite(s, c)
         THEN s
       ELSE IF outcome = "done"
         THEN [w EXCEPT !.contents[c].dirty = FALSE]
       ELSE [w EXCEPT !.contents[c].failed = outcome # "refused"]

\* (mutant) a sticky failure is reported once
FlushOkOnce(s, c, outcome) ==
    \/ s.contents[c].unlinked
    \/ ~NeedsWrite(s, c)
    \/ outcome = "done"

FlushOk(s, c, outcome) ==
    \/ s.contents[c].unlinked
    \/ ~s.contents[c].failed /\ ~s.contents[c].dirty
    \/ NeedsWrite(s, c) /\ outcome = "done"

\* content_release: the last reference flushes, and frees the slot whatever
\* the flush said.
content_release(s, c, outcome) ==
    IF s.contents[c].refs > 1
      THEN [s EXCEPT !.contents[c].refs = @ - 1]
      ELSE [content_flush(s, c, outcome) EXCEPT !.contents[c] = FreeContent]

-----------------------------------------------------------------------------
(* Opening and duplicating.                                                 *)

Opened(d, writer, c) ==
    descs' = [descs EXCEPT ![d] = [writer |-> writer, refs |-> 1, content |-> c]]

\* process_file_open_flags without write access, and process_file_alloc
open_read(d, path) ==
    /\ descs[d] = NoDesc
    /\ vfs[path] # NoFile
    /\ Become(content_acquire(Store, path, vfs[path]))
    /\ Opened(d, FALSE, SlotFor(Store, path))
    /\ UNCHANGED <<created, written, lost>>

\* process_file_open_write_raw of an existing file, without O_TRUNC
open_write(d, path) ==
    LET c == SlotFor(Store, path) IN
    /\ descs[d] = NoDesc
    /\ vfs[path] # NoFile
    /\ Become(Promoted(content_acquire(Store, path, vfs[path]), {c}))
    /\ Opened(d, TRUE, c)
    /\ UNCHANGED <<created, written, lost>>

\* process_file_open_write_raw with O_TRUNC, or O_CREAT of a missing file:
\* the empty file is written before the object is emptied, and a failure gives
\* the reference back.
open_empty(d, path) ==
    LET c == SlotFor(Store, path)
        new == vfs[path] = NoFile
        file == [ino |-> IF new THEN created + 1 ELSE vfs[path].ino, data |-> Empty]
        was == IF new THEN file ELSE vfs[path]
        s == Promoted(content_acquire(Store, path, was), {c})
    IN
    /\ descs[d] = NoDesc
    /\ new => created < MaxFiles
    /\ \E outcome \in Possible(blocked) :
          LET w == WriteFile(s, path, file, outcome) IN
          /\ IF outcome = "done"
               THEN /\ Become([w EXCEPT !.contents[c].data = Empty,
                                        !.contents[c].dirty = FALSE])
                    /\ Opened(d, TRUE, c)
               ELSE /\ Become(content_release(w, c, "faulted"))
                    /\ UNCHANGED descs
          /\ created' = IF new /\ w.vfs # vfs THEN created + 1 ELSE created
    /\ UNCHANGED <<written, lost>>

\* read_file_ref, write_file_ref: dup, fork and descriptor passing
dup(d) ==
    /\ descs[d] # NoDesc
    /\ descs[d].refs < MaxRefs
    /\ descs' = [descs EXCEPT ![d].refs = @ + 1]
    /\ UNCHANGED <<vfs, contents, blocked, created, written, torn, lost>>

-----------------------------------------------------------------------------
(* Writing and flushing.                                                    *)

\* process_file_write, process_file_pwrite, process_file_truncate
write(d) ==
    /\ descs[d] # NoDesc
    /\ descs[d].writer
    /\ written < MaxWrites
    /\ contents' = [contents EXCEPT ![descs[d].content].data = written + 1,
                                    ![descs[d].content].dirty = TRUE,
                                    ![descs[d].content].owned = TRUE]
    /\ written' = written + 1
    /\ UNCHANGED <<vfs, descs, blocked, created, torn, lost>>

\* process_file_flush of either kind of description
flush(d) ==
    /\ descs[d] # NoDesc
    /\ \E outcome \in Answers(Store, descs[d].content) :
          Become(content_flush(Store, descs[d].content, outcome))
    /\ UNCHANGED <<descs, created, written, lost>>

\* process_file_sync_all: every dirty object in slot order, readers' included
sync_all ==
    /\ \E outcome \in {o \in [Contents -> Outcomes] :
                         \A c \in Contents : ~NeedsWrite(Store, c) => o[c] = "done"} :
          LET After[n \in {0} \cup Contents] ==
                IF n = 0 THEN Store
                ELSE LET s == After[n - 1] IN
                     IF s.contents[n].refs > 0 /\ s.contents[n].dirty
                       THEN content_flush(s, n, IF s.blocked THEN "faulted" ELSE outcome[n])
                       ELSE s
          IN Become(After[Cardinality(Contents)])
    /\ UNCHANGED <<descs, created, written, lost>>

\* Unsaved bytes that the freed object was the last to hold
Discards(s, c) ==
    LET o == s.contents[c] IN
    /\ o.refs = 1
    /\ ~o.unlinked
    /\ o.ino \notin s.torn
    /\ s.vfs[o.path] # [ino |-> o.ino, data |-> o.data]

\* read_file_close and write_file_close: the last descriptor of a writer
\* flushes first, and the release may flush again.  ok is what close returns.
close(d) ==
    /\ descs[d] # NoDesc
    /\ IF descs[d].refs > 1
         THEN /\ descs' = [descs EXCEPT ![d].refs = @ - 1]
              /\ UNCHANGED <<vfs, contents, blocked, torn, lost>>
         ELSE \E first \in Answers(Store, descs[d].content) :
                LET c == descs[d].content
                    writer == descs[d].writer
                    s == IF writer THEN content_flush(Store, c, first) ELSE Store
                IN \E second \in Answers(s, c) :
                   LET last == s.contents[c].refs = 1
                       flushed == IF last THEN content_flush(s, c, second) ELSE s
                       ok == /\ writer => FlushOk(Store, c, first)
                             /\ last => FlushOk(s, c, second)
                   IN /\ Become(content_release(s, c, second))
                      /\ descs' = [descs EXCEPT ![d] = NoDesc]
                      /\ lost' = (lost \/ (ok /\ Discards(flushed, c)))
    /\ UNCHANGED <<created, written>>

-----------------------------------------------------------------------------
(* Names that change while the file is open.                                *)

\* The object of a file that has lost its name
Orphaned(s, cs) ==
    [s EXCEPT !.contents = [c \in Contents |->
        IF c \in cs THEN [@[c] EXCEPT !.unlinked = TRUE, !.dirty = FALSE] ELSE @[c]]]

\* (mutant) the object is orphaned only when the filesystem reports success
unlink_trusting(path) ==
    LET found == content_find(Store, path)
        s == Promoted(Store, found)
    IN
    /\ vfs[path] # NoFile
    /\ \E outcome \in Possible(blocked) :
          LET gone == outcome \in {"done", "tornAfter"}
              t == [s EXCEPT !.vfs = IF gone THEN [@ EXCEPT ![path] = NoFile] ELSE @,
                             !.blocked = @ \/ outcome \in Torn]
          IN Become(IF outcome = "done" THEN Orphaned(t, found) ELSE t)
    /\ UNCHANGED <<descs, created, written, lost>>

\* process_unlink_file: the object is orphaned when the name is gone, whatever
\* the filesystem reported
process_unlink_file(path) ==
    LET found == content_find(Store, path)
        s == Promoted(Store, found)
    IN
    /\ vfs[path] # NoFile
    /\ \E outcome \in Possible(blocked) :
          LET gone == outcome \in {"done", "tornAfter"}
              t == [s EXCEPT !.vfs = IF gone THEN [@ EXCEPT ![path] = NoFile] ELSE @,
                             !.blocked = @ \/ outcome \in Torn]
          IN Become(IF t.vfs[path] = NoFile THEN Orphaned(t, found) ELSE t)
    /\ UNCHANGED <<descs, created, written, lost>>

\* process_rename_file of a file: the source's bytes are flushed, then the
\* name moves, over the target if there is one; open objects follow exactly
\* when the move was published.
process_rename_file(old, new) ==
    LET source == content_find(Store, old)
        target == content_find(Store, new)
        s == Promoted(Store, source \cup target)
    IN
    /\ vfs[old] # NoFile
    /\ old # new
    /\ \E first \in UNION {Answers(s, c) : c \in source} \cup
                     {x \in {"done"} : source = {}} :
          LET flushed == IF source = {} THEN s
                         ELSE content_flush(s, SlotFor(s, old), first)
              ok == source # {} => FlushOk(s, SlotFor(s, old), first)
          IN \E outcome \in Possible(flushed.blocked) :
             LET published == ok /\ outcome \in {"done", "tornAfter"}
                 moved == [flushed EXCEPT !.vfs = [@ EXCEPT ![new] = flushed.vfs[old],
                                                            ![old] = NoFile]]
                 t == Orphaned(moved, target)
                 u == [t EXCEPT !.contents = [c \in Contents |->
                         IF c \in source THEN [@[c] EXCEPT !.path = new] ELSE @[c]]]
                 v == IF published THEN u ELSE flushed
             IN Become([v EXCEPT !.blocked = @ \/ (ok /\ outcome \in Torn)])
    /\ UNCHANGED <<descs, created, written, lost>>

-----------------------------------------------------------------------------
Next ==
    \/ \E d \in Descs, path \in Paths :
          \/ open_read(d, path)
          \/ open_write(d, path)
          \/ open_empty(d, path)
    \/ \E d \in Descs : dup(d) \/ write(d) \/ flush(d) \/ close(d)
    \/ sync_all
    \/ \E path \in Paths : process_unlink_file(path)
    \/ \E old, new \in Paths : process_rename_file(old, new)

Spec == Init /\ [][Next]_vars

-----------------------------------------------------------------------------
(* Correctness.                                                             *)

\* Types: inodes and values within their bounds, and an object's references
\* are the descriptions that use it.
TypeOK ==
    /\ vfs \in [Paths -> {NoFile} \cup [ino : 1 .. MaxFiles, data : 0 .. MaxWrites]]
    /\ contents \in [Contents ->
          [refs : 0 .. Cardinality(Descs), path : {NoFile} \cup Paths, ino : 0 .. MaxFiles,
           data : 0 .. MaxWrites, dirty : BOOLEAN, failed : BOOLEAN, unlinked : BOOLEAN,
           owned : BOOLEAN]]
    /\ descs \in [Descs -> {NoDesc} \cup
                     [writer : BOOLEAN, refs : 1 .. MaxRefs, content : Contents]]
    /\ blocked \in BOOLEAN /\ lost \in BOOLEAN
    /\ created \in 1 .. MaxFiles /\ written \in 0 .. MaxWrites
    /\ torn \subseteq 1 .. MaxFiles
    /\ \A c \in Contents :
          contents[c].refs = Cardinality({d \in Descs : descs[d] # NoDesc /\ descs[d].content = c})

Live(c) == contents[c].refs > 0
Linked(c) == Live(c) /\ ~contents[c].unlinked

\* An object that still has a name is the object of the file the filesystem
\* has under that name, so what it flushes can never overwrite another file
\* that was created, renamed or moved there since (process_unlink_file,
\* process_rename_file and their failures half way).
NamesCurrent ==
    \A c \in Contents : Linked(c) =>
        /\ vfs[contents[c].path] # NoFile
        /\ vfs[contents[c].path].ino = contents[c].ino

\* All descriptions of one file share one object, so a reader sees every write
\* (content_acquire against unlink and rename).
OneObjectPerFile ==
    \A c, e \in Contents :
        Live(c) /\ Live(e) /\ contents[c].ino = contents[e].ino => c = e

\* An object that is neither dirty nor failed holds what the filesystem has:
\* success of a flush is a promise about the medium.  (A truncation the medium
\* tore reported its failure to the opener.)
CleanIsStored ==
    \A c \in Contents :
        Linked(c) /\ ~contents[c].dirty /\ ~contents[c].failed /\ contents[c].ino \notin torn
            => vfs[contents[c].path].data = contents[c].data

\* The close that discards the last copy of unsaved bytes reports an error.
NoSilentLoss == ~lost

\* An orphan holds its bytes itself: the filesystem's snapshot goes with the
\* directory slot, which a new file may use.
OrphansOwned ==
    \A c \in Contents : Live(c) /\ contents[c].unlinked => contents[c].owned

\* Open files and names agree: one object for each file, filed under its present
\* name or owning its bytes, through unlink, rename and their failures.
ContentSound ==
    /\ TypeOK
    /\ NamesCurrent
    /\ OneObjectPerFile
    /\ OrphansOwned

\* Success means stored: what counts as clean is on the medium, and no unsaved byte
\* goes away behind a close that reports success.
SavedOrReported ==
    /\ CleanIsStored
    /\ NoSilentLoss
=============================================================================

# SrvrOS: TLA+ models, model checking and proofs

SrvrOS is an operating system in C for one x86_64 processor.  This directory
keeps TLA+ models of the parts of its kernel, and of the C library above it,
whose correctness depends on the order in which things happen: what interrupts,
threads, devices, the network or a power cut may do between two steps.

- A module per component translates its code; `PROJECT.json` maps every
  definition to the lines it stands for, and lists the components, the runs, the
  hazards the properties are about, and the theorems.
- `MC*.tla` and `*.cfg` instantiate the components for TLC.
- `*Proofs.tla` hold theorems for every value of the constants, checked by TLAPS.

To check one of them: `tlc -config MCNet.cfg MCNet`, `tlapm FutexProofs.tla`.

## The system and how its parts interact

There is one processor.  Kernel code runs until it blocks, yields, or is
interrupted where interrupts are on, so the atomic step of every kernel module is
the interrupt-masked region, or the stretch between two waits under the storage
gate.  Library code (pthreads) is preemptible anywhere, so a step there is one
atomic memory access or one system call.

The *scheduler* owns threads, wait queues and the *storage gate*: a thread that
uses filesystem or disk state owns the gate, and while it waits for the disk only
"io-safe" services may run.  Nearly everything above relies on this: the *work
queue* asks the scheduler whether its worker may run inside an owner's scope, the
filesystem modules are sequential because of it, *futexes*, *semaphores*, *pipes*,
*pseudo-terminals* and the *network stack* park their callers on its queues.
*Processes* own threads, descriptors and signals; their exit goes through the
gate.  *File contents* are cached per open file, written through the *VFS* to
*exFAT*, which writes through the *block cache* to a device; *block claims* keep
two users off the same bytes.  *Network providers* and *interrupt handlers*
register callbacks and may be withdrawn while these run; the *USB controller* is
both a disk and a network provider, and touches memory of its own accord, which
the *physical memory manager* hands out.

The modules compose where components interact through state that a property
depends on: `Scheduler` contains the syscall entry (idt.c) and the exit path
(process.c) that drive it; `PthreadRecords` spans the library's records and the
kernel's thread slots; `BlockCache` includes the raw users that go round the
cache; `Exfat` includes the device with its volatile write cache; `Xhci` includes
the controller's own memory accesses; `Tcp` is two instances of the stack and the
wire between them.  Elsewhere the interface is an assumption, listed below.

## Modules

| module | code | state and actions |
|---|---|---|
| `Pmm`, `FirstFit` | memory/pmm.c | the frame bitmap as a set, owner tags and the two caches of scan floors; one action per entry point. `FirstFit` is what it promises: the lowest run that fits |
| `Scheduler` | scheduler.c, idt.c, process.c (exit) | thread records, wait queues with deadlines, the gate (`io`, `gate`), the place of each thread (`pc`, `ret`), preemption, kill, exit, quarantine |
| `Workqueue`, `WorkFifo` | workqueue.c | the ring, the worker and its admission into storage scopes. `WorkFifo` is the bounded FIFO with coalescing it implements |
| `Semaphore` | semaphore.c | wait, signal, close, drained, deadlines |
| `IrqHandlers` | irq_handlers.c, irq.c | slots, delivery, completions, deferred exit |
| `ProcessTable` | process.c | slots from reservation to release, waiting and reaping, kernel lifetimes and user scopes |
| `Signals` | process.c | dispositions, shared and per-thread pending sets and masks |
| `Futex` | process.c | the global table of (process, word) bindings |
| `PthreadCond`, `PthreadRwlock`, `PthreadOnce`, `PthreadRecords` | posix_pthread.c | mutex and condition, reader-writer lock, once controls, records and stacks; one step per atomic access |
| `Pipe`, `PipeRights` | process.c | byte streams under descriptor reuse; passed files, Unix listeners and the collector |
| `Pty` | pty_model.c, pty.c | line discipline, records, waiting calls, close |
| `FileLocks`, `FileContent` | process.c | record locks; shared contents of open files over a filesystem that may refuse, fault or tear |
| `VfsTable`, `VfsView` | vfs.c, vfs_namespace.c | nodes and inode numbers; the system view and its retirement |
| `BlockClaim`, `BlockCache` | block_claim.c, block.c, workspace_image.c, workspace.c | claims on byte ranges; the write-through cache and its raw users |
| `Exfat` | fs/exfat.c, exfat_stream.inc | a mutation as the sequence of device commands it issues, failing commands, power loss |
| `NetDevice` | net_device.c | providers, callback references, retirement |
| `Tcp`, `NetQuery` | net.c | connections, listener, retransmission and teardown; ARP, DNS, ping, DHCP, UDP |
| `Xhci` | drivers/xhci.c, xhci_network.inc, usb_storage.c | rings, events, enumeration behind a hub, stalls, removal, reclaim |

Names are the source's where TLA+ allows it.  A C function that a handler calls is
an operator on values (on a view `st` in `Tcp` and `Xhci`), the handler an action;
an error path that changes nothing is the absence of a step.

## Runs

Most runs check several components.  An MC module extends one of them, instantiates
the others and has a variable `part` that Init chooses and no step changes: only
the chosen part moves, so TLC explores the union of the state spaces and not their
product.  A property of a part is guarded by `part = ...`.  Inside a component a
*situation* (`Tcp`, `Xhci`) picks what a behaviour exercises in the same way.

| run | parts and bounds | shows |
|---|---|---|
| `machine` | five frames, two hint slots, requests of 1 and 2 frames from two floors; an exFAT volume of ten clusters, two files (one whose name needs more directory entries) from five starting volumes, one mutation, one power cut, one failing command | the allocator's books and floors are exact and it is first-fit; a volume interrupted anywhere holds old or new contents, loses at most the name whose directory record was torn, and is marked clean only when it needs no repair |
| `sched` | four thread slots, two services, two processes, kills, deadlines, kernel scopes | gate and queue counts exact, one thread runs, nobody inside an owner's scope, no owner dies, no lost wakeup, quarantine is final |
| `sched_gate` | three slots, two processes that never stop writing | a thread parked at the gate is admitted |
| `sched_binder` (violation) | two slots, one process | see Findings |
| `kernel_work` | three threads and at most two units; a ring of two for three works and two callers on their way to the wake-up; three drivers on two lines with two handler slots | a closed semaphore drains and a deadline ends a wait, FIFO order with coalescing, every accepted work runs unless its caller was cancelled before the wake-up, no ordinary work inside a storage scope but a late request, no removed handler is called |
| `process` | two process slots reused by three pids, one lifetime token; three signals with one worker; the scheduler with worker threads on three slots and nested scopes | membership exact, one reaper per exit even when a reaper is cancelled, a revoked lifetime only shrinks, a fatal signal acts and an ignored one never does, the scheduler's books with workers |
| `process_killed_waiter` (violation) | two process slots | see Findings |
| `threads` | two futex entries for three words of two processes; a recursive mutex and condition with one timed consumer; two records and two stacks; the USB controller in five situations with at most one fault | bindings kept and found, items not lost, a stack is unmapped once and after its thread; DMA memory stays allocated, no late event is taken for another transfer |
| `progress` | three threads on a rwlock, a producer and two consumers, nested once controls, writes longer than the pipe, the drain of a lifetime, three providers on two contexts | locks exclude, references around callbacks are exact, and every call, write, drain and retirement ends |
| `channels` | three threads on one pipe; two pipes reused on three descriptors; rights through pairs, a listener and a cycle; a cooked and a raw terminal; a semaphore of three threads and at most two units | bytes in order and whole up to SRV_PIPE_BUF, references of passed files exact, unreachable records collected, no terminal sleeper that could proceed; no unit or wakeup lost, close is final |
| `storage` | a disk, two partitions, an image and an overreaching view; two cache entries; two files and two descriptions; locks with three-bit offsets; three nodes with inode numbers modulo 5; the system view | claims exclude, cache and media agree, contents follow names, locks are what a per-byte owner map says, names and inode numbers unique |
| `net` | two hosts, one connection slot each, sequence numbers modulo 16 starting at 14, windows of 1 or 2, in eight situations, two of which preempt the worker in a frame; two callers with one ARP entry, two sockets and one port | streams exact, table and references sound (on connections nothing changed under a frame), an answer belongs to its question |

**Why the bounds are enough to be interesting.**  Every table is smaller than its
users, so it fills and its slots are reused; every counter that can wrap (sequence
numbers, inode numbers, query ids, lock offsets) does; each ring is shorter than
one request; each component has at least two competing actors, and three where a
third matters (a waiter woken in place of an older one, a reader between two
writers, an entry taken over).  Faults are budgeted (one crash, one failing
command, one USB fault per behaviour) to keep a run within minutes: what takes two
faults to go wrong is outside these runs.  Generations and identities are capped by
named constants (`MaxGeneration`, `MaxIdentity`, `MaxToken`, `MaxSerial`, ...) in
the guards.  One lifetime token at a time is enough for `process`: the slots and
pids are reused under it, lifetimes meet only in the slots they are members of, and
`LifetimesInvariant` is proved for any number of them.  Symmetry is declared only over sets whose members the actions treat
alike, and only in runs without liveness properties.

**Deadlock** is checked in the `sched` runs and in `kernel_work`.  The others say
`CHECK_DEADLOCK FALSE`, because their clients may stop: bounded writes, pids or
mutations run out, or every caller has returned.

### Fairness

- *Scheduler* (`GateProgress`): a timer tick is taken where interrupts stay on; a
  thread that keeps getting the processor executes its next instruction, ends its
  scopes and unwinds its calls.  Strong fairness, because preemption disables
  these steps again and again.  Nothing is assumed of who is chosen next: that is
  the code's cursor.
- *Work queue*: callbacks return, a caller that is not cancelled reaches its wake-up,
  owners end their scopes, the worker is given the
  processor again and again outside scopes.
- *Semaphore, pipes, pthreads*: round-robin preemptive scheduling gives every
  runnable thread turns, so weak fairness per thread for steps that continue a
  call; none for starting one.  For pipes, somebody reads while there is data.
  Once initializers end, by return or `pthread_exit`.
- *Process table*: kernel threads that create, tear down and release records run
  to completion unless a tick cancels them, a killed process exits at its next
  return or tick unless it waits, and the owner of a lifetime repeats its drain pass (as `posix_capture.c`
  and `process_lifetime_test.c` do).
- *Network providers*: callbacks return, and a driver that began to retire retries
  until it is told drained (as `xhci_stop` does).

## Findings

- `sched_binder`: a thread preempted between its last yield and its binding is
  READY when `bind_user_context` runs; scheduler.c:1063 lets a blocked thread
  return to itself while READY, and the assertion in the binder halts the machine.
- `process_killed_waiter`: `process_wait_ready` never asks
  `process_should_exit_current`, so a process killed while waiting for a child that
  does not exit does not exit either.

Met while modelling, with no document that says otherwise: `net_read` in LAST_ACK
polls instead of sleeping; `net_shutdown(WR)` does not wake blocked writers; a
blocking connect reports a reset when the peer's FIN is handled before the caller
runs; FIN_WAIT_2 with open descriptors expires after 200 ticks; `net_listen` on the
port of a connecting client takes its SYN-ACK; overlapping pings share one
completion; a DHCP caller that times out ends the transaction of another.  The
network worker handles frames with interrupts on, so a read, close or exit it is
preempted for can meet a half-handled frame: a byte is read twice, or a slot retired
in between is written.  A thread killed inside `net_connect` leaves a reference
nobody drops, one killed inside `net_dns_resolve` leaves `dns_query_active` set and
DNS refused to everyone, one killed inside `net_dhcp_request` leaves its transaction
open until the next request.  A process killed while it releases a child leaves the
record claimed for good, and the lifetime of that record does not drain.  A caller
killed between `irq_restore` and `scheduler_wake_all` in `schedule_work` leaves the
worker asleep on its item until the next request.  The comment of
`workqueue_io_service_ready` says that an ordinary callback never runs inside an
owner's storage operation; one does when an ordinary request joins the head after
the scheduler admitted the worker.  The mask given to spawn is stored as it is and
may block SIGKILL.  A directory record that lies across two sectors can be torn by a
power loss; a rename in place then loses the name, and the volume is marked dirty.
Retiring a hub whose child never got a slot selects every root port, since a record
without a slot has the id 0 of a root port's parent, and cannot complete; a slow sibling is enumerated behind a translator already given up; a disk removed
while its hub's EP0 is failed does not condemn the translator.  The comment of
`exfat_replace_file` promises a restore that a quarantined transport refuses.
`pty.c:193` tests more than `pty_model_attributes` does.  A condition signal may
wake a waiter that parked after it (harmless).

## Proofs

Each theorem holds for every value of the constants that satisfies the named
assumption of its module (sizes are positive naturals, sets that are counted are
finite, null values are not members).  `Spec` has no fairness; nothing else is
assumed.

| theorem | says | inductive invariant |
|---|---|---|
| `PmmInvariant` | allocator accounting, tags and every cached floor are right | `AllocatorSound` and `HintsShaped`: a valid floor is not below the minimum it was stored for, or a scan from it could miss frames |
| `PmmIsFirstFit` | the hinted allocator implements `FirstFit` | the same; a step maps to a step or a stutter, because no fit lies below a sound floor |
| `ClaimInvariant` | claims of bytes exclude each other, except a lease and its delegate | inductive as it stands, with types |
| `RegistryInvariant` | reference counts exact, no callback in a freed context | inductive as it stands |
| `SemaphoreInvariant` | waiters counted, no unit without a thread that looks for it while somebody sleeps | inductive as it stands |
| `SemaphoreCloses` | (action) a closed semaphore registers nobody and gives out nothing | from the above |
| `WorkqueueIsFifo` | the ring implements `WorkFifo` | `RingSound`: the slots between head and tail hold each work at most once, and an ordinary request marks the item it joins |
| `WorkqueueInvariant` | ordinary work inside a storage scope only by a late request; a sleep on pending work only while its caller is on the way to the wake-up, or was cancelled there | `RingSound` and `Admission`: what the scheduler saw when it let the worker in still holds while it runs |
| `FutexInvariant` | a binding is kept and counted while a thread is inside the call, a wake finds every parked thread | `OneBinding`: no two valid entries name one word; `AsleepOnPage`: a parked thread's page is mapped and its entry valid; `Shape` |
| `SchedulerInvariant` | gate and wait-queue books exact, one thread runs, storage has one live owner and nobody else inside, no lost wakeup | `Doings`, `Turns`, `Sleepers`, below |
| `QuarantineStays` | (action) nothing changes the record of a quarantined service | from the above |
| `LifetimesInvariant` | a lifetime counts exactly its slots and its reservation, a scope and its owner know each other | `LifeInv`, below |
| `RevocationFinal` | (action) a revoked lifetime stays revoked and gains no member | from `LifeInv` |
| `ReapingInvariant` | one reaper per record, none for one whose reaper was cancelled, nobody sleeps in wait over a child to collect without a wake-up on its way | `TableInv`, below |

The scheduler is where the strengthening matters.  `SchedulerSound` relates
`io`, `gate`, `state` and the wait queues, but what keeps them related is where
each thread is in its code.  `Doings` says what a thread's place tells of its
record: who may be io-safe, who is bound to a process, who can be dead.  `Turns`
says what is known of the thread on the processor: the idle thread can always
run, a current thread that is BLOCKED is about to yield, the owner is in its scope
and not registered at the gate.  `Sleepers` says who may stand on which queue: only
threads in the gate's loop stand on the gate's own, and a killed process has no
thread on an interruptible one, so the tick that cancels a killed thread never
sends one to its exit that still stands on a queue.  The proof has a lemma per kind
of step (a thread stays, moves, switches, wakes others, blocks, ends) and one per
action that applies them.
The books are proved on values (`RequestOK`, `LeaveOK`, `DetachOK`, `BlockOK`:
counting stays exact when threads join or leave), from `FiniteSetTheorems`.

The process table needs two halves.  `LifeInv` adds to `LifetimesSound` that a
record not in use is blank and that no token has been handed out past
`next_lifetime` (a new lifetime starts with no slot), and that only a reserved root
has a reservation (the root of a revoked scope takes the place it was counted for,
which is why `RevocationFinal` holds).  `TableInv` makes `ReapedOnce` inductive.  The
parent releases a child that failed to load, or that it ran in the foreground,
without looking for a zombie; that this is the only claim needs `Callers` (the
parent still runs) and `Pids` (nobody else has its pid).  That a wake-up is never
lost needs `Waiting` (who sleeps is a running process inside wait, so an exit
removes no sleeper) and `Parents` (no slot names a process that has not started as
its parent, so a new pid finds no zombies).  TLC checked the invariant
before it was proved, with three slots, four pids and no lifetimes, and with two
slots, three pids and two lifetimes (these instances are not among the runs).

The proof attempt showed `NoLostWakeup` false as first stated, in a state that takes
three slots to reach: `process_set_reaper` (process.c:3249) wakes nobody, so a
process already asleep in wait when it is named is not told of the orphans that are
zombies by then.  The kernel names init once, after init's thread was started
(main.c:740).  The property now has that one exception: the ghost
variable `appointed` is true from such a call to the next wake-up of the queue.

**Only model-checked.**  Liveness (`GateProgress`, `WorkRuns`, `SemaphoreEnds`,
`CallsServed`, `WritesReturn`, `DrainCompletes`, `RetirementEnds`) needs fairness
and ENABLED, which are outside the prover's reach.  What the folds and
recursive functions of `Exfat`, `Xhci`, `Pty` and `BlockCache` compute would take
induction over data, and so would the byte streams of `Tcp` and `Pipe`.  The
invariants of signals, pthreads, passed files, locks, file contents, names,
interrupt handlers and queries have no such obstacle; they are checked on the
instances above and not proved here.

## What the models leave out, and what they assume

- *Scheduler*: one processor, as in the code.  Processes are launched once each;
  a deadline has passed or not.
- *Work queue*: two exceptions are part of the properties.  Ordinary work runs inside
  a storage scope when its request joins the head after the scheduler admitted the
  worker for it (`late`).  A request stores its item under the mask and wakes the
  worker after it (`callers`); a caller that a tick cancels in between may leave the
  worker asleep until another request wakes it (`lost`).
- *Process table*: a tick cancels a killed caller in a blocking wait, a fork or the
  end of a foreground spawn, which run with interrupts on (`cancel`); what it was
  working on stays as it is, and the properties say so.  The order of reserve, spawn and cancel in user scopes, and a
  parent with several threads, are over-approximated.  ELF loading and fork copying
  are left out.
- *Signals*: a process starts by spawn or fork with the mask it is given; `raw`
  records what that mask leaves unexamined until the first mask call (SIGKILL, or a
  signal queued while the image was loading).  The signal calls of a finishing main thread, the descriptor path of
  USR1 and the choice of the lowest thread id are left out; a worker is published
  in one step.
- *Pthreads*: the record of the main thread is left out, as are keys and names.
- *Pipes*: nonblocking calls that find nothing are left out, generations saturate,
  and close is split into more steps than it has.  *Passed files*: byte offsets of
  records are abstracted; files are released one step at a time.
- *Record locks*: `INT64_MAX` is scaled down; there is no EDEADLK in the code.
- *File contents*: every write is a fresh value; calls that fail for memory or slots
  are left out; the gate makes each operation one step.
- *Block cache*: a turn of the copying loop is a step, which allows more than the
  code; one disk.
- *Network providers*: registration and selection at boot are one step each; a driver
  never registers a freed context; the saturation of the count at `~0u` is not
  reached.
- *Interrupt handlers*: lines 0, 1, 4 and 12 are served by fixed code; no driver of
  the repository registers a handler yet, so the drivers are the module's own.
- *Terminals*: bytes are classes, rings are sizes, a write of several bytes is
  several writes, one caller sleeps; the table of pairs is left out.
- *VFS*: times, modes and the growth of the table are left out; drivers keep the
  tree a tree.  A raw node published at or below a bound name is listed and refused,
  the one case in which listing and lookup differ.
- *exFAT*: a record is written as two commands, with a torn value in between, also
  where it would fit in one sector; a cluster holds one record or one unit of data;
  the offline checker, which drops torn records, is external; END markers, read cache and times are left out; an offline device
  is one whose commands fail; `MetaNeed` scales the reserve for metadata.  The two
  names of a moved directory are read-only.
- *TCP*: a bad checksum or option is a loss; deadlines are armed or not, backoff is
  left out; peeking, failing copies to the user and sharing a descriptor between
  threads are left out; one listener, one client port per connection.  The network
  worker is preempted in two places of a frame, after its checks and in the middle
  of the move of the receive buffer (`work`); between them a frame is one step.  A
  connection that something else changed meanwhile is in `raced`: the properties
  promise nothing of it.  A thread killed inside `net_connect` leaves its connection
  in `abandoned`.  Since the initial sequence number of a port is fixed, no SYN
  outlives its connection in the model.
- *Queries*: a request may be answered any number of times, by the server that was
  asked; a killed sibling leaves its reservation in `orphan`; ICMP sequence numbers and the wrap of DHCP ids are abstracted.
- *USB*: the trackpad and the disk diagnostics are left out, descriptors are the
  kind they select, one tier of hubs; frames are named by their use, since only
  reclaim frees them.

Not modelled: virtual memory and heap, disk and network card drivers (register
programming; they appear as reads, writes and providers that may fail), system call
argument copying, the display, streaming file reads, input decoding, the workspace
log, signal frames and FPU state, platform discovery, sound, the monitor and
self-tests, and user programs.  They are sequential, or data with one owner, or
hardware access whose contract is the model's environment; the address spaces, the
display and the loader's reads would be the next candidates.

# Formal models of the `os` kernel

TLA+ modules for the core of the kernel under `src/kernel`, the TLC
configurations that check them on small instances, and a machine-checked proof
about the handle table. Every definition is translated from the C or assembly
source; `PROJECT.json` names the lines behind each of them (`map`), every run
(`runs`), a plausible bug that each property catches (`mutants`), the
disagreements between code and documents that the runs show (`findings`), and
the places where this code is hard to test (`hazards`).

    tlc -workers 2 -config Vfs.cfg MCVfs       # one run
    tlapm HandleTableProofs.tla                # the proofs, about five minutes

## The system

`os` is an x86_64 kernel with a UEFI loader and a small userland. What matters
for a model:

* **One processor schedules.** The application processors are brought up and
  halt; `timer.c` calls the scheduler on logical processor 0 only. So the models
  are uniprocessor, and concurrency is that of interrupts and of tasks that
  switch.
* **System calls run with interrupts off.** `int 0x80` goes through an interrupt
  gate. A call is atomic until it returns or blocks. Kernel tasks run with
  interrupts on and may be preempted between any two `irqsave` sections.
* **`task_context_switch` does not save RFLAGS**, so a call that slept may
  resume with interrupts on.
* **No protection against exhaustion beyond return codes**: fixed tables, fixed
  rings, 4096 heap pages. Many functions undo a half-done operation by hand.

### Inventory

| Part | Source (`src/kernel/`) | Module | Status |
|---|---|---|---|
| Handle table | `core/process/handle.c` | `HandleTable`, `HandleTableProofs` | modelled, proved |
| Scheduler, tasks, wait queues, context switch, timer | `sched/`, `core/task/`, `core/sync/`, `arch/x86_64/task`, `arch/x86_64/time` | `Scheduler` | modelled |
| IPC channel | `ipc/channel.c` | `Channel`, `ChannelFifo` | modelled |
| Processes, threads, signals, wait | `core/process/process.c`, `thread.c`, process calls of `core/syscall/syscall.c` | `Process` | partly |
| VFS nodes, mounts, open files, working directories | `fs/vfs/`, name-space calls of `syscall.c` | `Vfs` | partly |
| Frames, page tables, images, user stacks, heap pages | `mm/physical`, `mm/virtual`, `core/process/user_image.c`, `process.c`, `commit_page` of `mm/heap` | `Memory` | partly |
| System call dispatcher | `core/syscall/syscall.c` | its calls are actions of `Process`, `Vfs`, `Memory` | partly |
| FAT32 | `fs/fat/` | one call (`AttachFile`) in `Vfs` | partly |
| Heap blocks and slabs | `mm/heap`, `mm/slab` | | planned |
| Pipes and endpoints | `ipc/pipe.c`, `ipc/endpoint.c` | | planned |
| Block layer and cache | `fs/block`, `fs/cache`, `drivers/storage` | | planned |
| NVMe, AHCI, ATA | `drivers/nvme`, `drivers/ahci`, `drivers/storage/ata.c` | | planned (ATA: port I/O) |
| e1000, packet queue | `drivers/network/e1000.c`, `packet_queue.c` | | planned |
| TCP, UDP, ARP, IPv4 reassembly | `drivers/network/` | | planned |
| Input queue | `drivers/input` | | planned |
| Device model | `device/` | | planned |
| SMP bring-up | `arch/x86_64/smp` | | planned |
| exFAT, ext4, XFS | `fs/exfat`, `fs/ext4`, `fs/xfs` | | planned (write orders) |
| Credentials | `security/credentials.c` | | planned (pure predicate) |
| USB | `drivers/usb` | | planned, late |
| Shell | `src/userland/shell` | | planned, late |
| Btrfs and its decompressors | `fs/btrfs` | | left out: long computations on byte streams |
| Display | `drivers/display` | | left out: pixel output |
| devfs, procfs | `fs/devfs`, `fs/procfs` | | left out: thin adapters |
| Boot loader, kernel entry, clock, serial, panic | `src/boot`, `arch/x86_64/entry`, ... | | left out: straight-line initialisation and I/O |

### How the parts meet

A process owns a handle table, an address space, a root and a working directory
and one or more threads; a thread owns a task. `Scheduler` decides who runs;
`Channel` and `Process` put tasks to sleep on its wait queues. `process_destroy`
runs through all of them. Each module carries one part of it and abstracts the
others: `HandleTable` has the counter it consults and `close_all`, `Process` the
order of its critical sections, the table, parents and references, `Vfs` the
release of the name space, `Memory` the release of every frame.

## The modules

In each module the definitions keep the names of the C functions. Actions and
operators whose name is followed by "Mutant:" comments have a wrong variant
beside them, used only to confirm that a property notices the bug.

### HandleTable

State: the fields of `process_handle_table_t` and its entries (`object`,
`rights`, `retained`, `closing`, `inheritable`, `generation`, `retainedRefs`),
the references of calls in flight (`ref`), and, for the objects, the count they
keep (`orefs`) and the release callbacks that were decided under the lock and
run after it (`pending`). Each `irqsave` section is an action; the callback is
one more, `RunRelease`. The handle number is computed as the code does, slot
bits and all. `granted`, `watch` and `wrapped` are history variables: no action
reads them to decide anything about the table.

### Scheduler

State: the queues, task states, `current_task`, the idle task, the host context
and the preemption flag, and the machine: the execution on the CPU, its
interrupt flag and, for each saved context, the execution it would resume
(`ctx`). A context that was saved and whose execution has run since is `Stale`.
`scheduler_yield`, `scheduler_block...`, `scheduler_task_exit` and
`scheduler_start` are sequences of steps, one per critical section, so the timer
interrupt can strike between them; user tasks call them with interrupts off.
Once a context has been overwritten (`corrupt`) the model stops: what a machine
with a wrong stack does is not described.

### Channel and ChannelFifo

State: the ring (`messages`, `head`, `tail`, `count`), `open`, the two wait
queues and each task's place in its call. The test and the blocking are one step
because `scheduler_block_current_with_lock` hands the lock over; the wakeup after
the unlock is another step. `ChannelFifo` is the promise: a bounded queue whose
receives return the oldest message and which accepts nothing after close.
`ImplementsFifo` maps the ring to that queue.

### Process

State: `proc` (state, references, table membership, parent, address space, main
task, retained thread lookups, pending and blocked signals), the signal and exit
wait queues, `current_task`, `current_process`, the loaded address space, and
the pointers that kernel tasks hold. System calls of user tasks are one action
up to the point where they sleep; kernel tasks go through the same functions one
critical section at a time (`process_destroy`, `DestroyTable`, `DestroyParent`,
`DestroySelf`; `process_terminate`, `TerminateWakesSignal`,
`TerminateWakesExit`; `KernelSend`, `KernelSent`). Dispatch order is free.
`leaked[p]` says that `process->lock` was left locked; every call that takes that
lock then never proceeds.

### Vfs

State: the nodes (type, name, parent, references, destroying), the mount table,
one open file description and a working directory for each process. The calls are
`OPEN`, `DUP`, `CLOSE`, `CHDIR`, `CREATE` (with its two late failures), `MKDIR`,
`UNLINK`, `RMDIR`, `RENAME` (`Rename` and `Move`), the name-space parts of
process destruction and spawn, mounting, unmounting, the shutdown of the mount
table and the attachment of a FAT32 file. Functions such as `vfs_node_release`
and `try_destroy` are operators on the node table, applied in the code's order.

### Memory

State: the free frames, each process's page tables (`tables`, `pte`) and frame
lists (`owned`, `anon`, `image`, `stack`), the active space, CR3, the cached
translations and the heap's frames. Calls are operators on a record of the free
frames and one space, so that the undo paths are the code's undo paths: the model
allocates, fails, and gives back in the same order. `lost` records the frames a
failed `process_clone_user` forgets.

### Environment wider than today's callers

`vfs_mount`, `vfs_unmount`, `process_clone_user` and `process_wait_signal` are
called only by the self-tests in `kernel_entry.c`. The models let them happen at
any time, as the functions' interfaces allow. Findings and hazards about them
therefore concern the functions, not a failure users of the present system meet.

## The runs

Passing runs finish without error; for each of their properties a mutant of a
mapped definition makes TLC report a violation.

| Run | States | What it shows |
|---|---|---|
| `handle_table` | 270,927 | retained entries keep their object; the counter teardown consults is exact; each object reference has one owner; rights never widen; a closed number stays dead until its slot's generation wraps |
| `scheduler` | 58,562 | one queue per task, no lost task, nothing reaches a destroyed task, `current_task` is who executes, cooperative switches load the right contexts, queued tasks are dispatched |
| `channel` | 35,555 | the ring refines `ChannelFifo`; a deliverable message or a free slot has a wakeup on the way; close wakes everybody for good |
| `process` | 1,941,470 | references have one owner each; user code runs in its own process and page tables; loaded page tables are not freed; orphans are handed on |
| `process_kernel` | 670,619 | with two kernel tasks on the same processes: nobody sleeps on a process that is gone, nothing is freed under its users, no signal wakeup is missed |
| `vfs` | 31,387 | exact references, no pointer to a freed node, the tree stays a tree, `GETCWD` leads back, mounted lookup never returns a covered directory |
| `memory` | 28,537 | one owner per frame, page tables equal ownership, failed calls change nothing, the TLB is never stale |

The other five runs each violate one statement of the documents or of the boot
self-tests:

| Run | Property | What the code does |
|---|---|---|
| `handle_last_slot` | `OpenHandleResolves` | with 32 slots and 5 slot bits, the last slot's index plus one is 32 and lands on the generation's lowest bit; the number never decodes (`handle.c:19`) |
| `scheduler_preempt` | `ContextsIntact` | a tick between `scheduler_set_current(next)` and the switch saves the outgoing execution into `next`'s context (`scheduler.c:101`) |
| `process_signal` | `LocksReleased` | `process_wait_signal` returns with the process lock held when the process has exited (`process.c:975`) |
| `vfs_leak` | `NoPermanentLeak` | a removed working directory accepts new entries and can never be freed afterwards (`vfs.c:193`) |
| `memory_root` | `UserCopyReaches` | mapping a heap page reloads the kernel root while a user space counts as active (`address_space.c:108`) |

### Bounds, and why they are enough

* `HandleTable.cfg`: a parent and a child table, one object that all entries
  share, two references in flight. Two slots of which, as in the code, the last
  one has no usable number: slot 0 is opened, closed and reused, slot 1 is filled
  and emptied by duplication, inheritance and `close_all`. `GenMax` 2 makes the
  generation wrap within a few closes. `MaxPending` 1 lets one caller at a time
  be between its unlock and its callback. References and rights are symmetric;
  the `VIEW` drops fields of free slots that nothing reads. The proofs lift every
  one of these bounds for four of the six properties.
* `Scheduler.cfg`: one kernel, one user and one idle task with two wait queues:
  enough for a task that yields, one that sleeps and one that stands in, and for
  rotations among three. No symmetry, because it checks liveness.
* `Channel.cfg`: a ring of two slots wraps after two messages, and three tasks
  make two sleepers on one side with one on the other. One message size: with
  receivers of different buffer sizes a woken reader may return without passing
  its wakeup on (a listed hazard), and `ReaderWakeDue` is not claimed.
* `Process.cfg`: init, a parent and a child, and one kernel task; three
  generations exist at once, which is what adoption needs.
  `ProcessKernel.cfg` trades a process for a second kernel task. One signal
  number; signals go to init (`Targets`).
* `Vfs.cfg`: the root, a volume and two nodes that are allocated and freed: a
  directory inside a directory inside a mounted volume. Two names, two processes
  with one open file each (`DUP` up to `MaxHandles`), two mount slots.
* `Memory.cfg`: tables of two entries, so that four levels of tables appear
  within sixteen pages; 20 frames run out at every point of a second process's
  construction. The two user pages lie in different page directories, and the
  images overlap the stack's directory or themselves. `View` identifies states
  that differ in the names of frames. Instances with 22 and 24 frames (71,167 and
  136,588 states) hold as well.

Deadlock is checked in `handle_table`, `vfs` and `memory`, where some call is
always possible. In the others everything may legitimately stop: every task may
have exited, be halted, or sleep until somebody sends.

### Fairness

`Scheduler!FairSpec`: the scheduler's own code goes on (`Steps`); kernel tasks
and the idle task keep yielding, as `network_runtime_task` and
`input_runtime_task` do in their loops; the boot code enters `scheduler_start`
when tasks are queued and continues when it returns. Nothing is assumed of user
tasks, nor of the timer, which the boot code need not enable; so
`QueuedIsDispatched` is conditional on user tasks not keeping the CPU for ever.

`Channel!FairSpec`: a call that is under way and not asleep proceeds. That is
what `QueuedIsDispatched` gives to tasks on the ready queue. Nobody is assumed to
send, receive or close.

## What is proved

`HandleTableProofs` is checked by TLAPS for every number of tables, slots,
generations, objects and references. The assumptions are those of
`ConstantAssumption`: the three numbers are positive, null is neither an object
nor a table, the references are finitely many.

| Theorem | Statement |
|---|---|
| `InductiveInvariant` | `Spec => []IInv` |
| `TypeCorrect` | `Spec => []TypeOK` |
| `RetainedSafety` | `Spec => []RetainedKeepsObject` |
| `TeardownSafety` | `Spec => []TeardownSeesReferences` |
| `StaleHandleSafety` | `Spec => []StaleHandleRejected` |

The inductive invariant is

    IInv == TypeOK /\ CountsAgree /\ RetainedKeepsObject /\ WatchPassed

`RetainedKeepsObject` is not inductive alone: a close empties a slot when
`retained_references` is zero, and nothing in the property says that a zero
counter means no reference. `CountsAgree` says so: each entry's counter is the
number of active references on it, and the table's counter the number on any of
its entries. `StaleHandleRejected` is not inductive either: a slot whose
generation differs from the handle's could reach it by counting up.
`WatchPassed` strengthens "differs" to "has moved past", which the next
increment preserves until the wrap. There is one lemma per action (`OpenStep`,
`CloseStep`, `CloseAllStep`, `GetRetainStep`, `ReleaseRefStep`, `InheritStep`
...); under it, one step per conjunct the action can disturb. The lemmas about
counting (`RefsFinite`, `ZeroCount`, `OneCount`) rest on the library's theorems on
finite sets. `TeardownSafety` follows from `CountsAgree`, `StaleHandleSafety` from
`WatchPassed`.

Only model-checked: `ReferencesAccounted` and `RightsNeverGrow` of the handle
table (the former needs the cardinality of sets of entries under inheritance of a
whole table, planned), and all properties of the other modules. Liveness under
fairness, `ENABLED`, and what recursive definitions compute for every input are
out of the prover's reach and stay with TLC.

## What the models leave out

* Data: message bytes, file contents and offsets, permissions, path syntax,
  register values. Properties about them are not stated.
* Several processors. The locks are there, but nothing runs in parallel today.
  Hazards that need a second processor are not listed as covered.
* In `Process`: additional threads of a process, environment and identity calls.
  In `Vfs`: `READDIR` positions, a root directory other than the VFS root (`process_set_namespace`). In
  `Memory`: the multi-frame allocator and the boot-time identity map.
* Everything marked planned or left out in the inventory.

## Plan

Next, in this order; each with its runs, and mutants for every property.

1. `HeapBlocks`: `kmalloc` and `kfree` on the block list (splitting, coalescing
   in one pass, growth failure), and the slab bitmap. Properties: blocks tile the
   committed window, no overlap, everything freed is found again.
2. `Pipe`, over `Channel`: endpoint and pipe references, end of file, release of
   one end while the other is blocked.
3. `BlockCache`: read and write split at their unlocks, invalidation, failing
   devices, against an abstract disk.
4. `Tcp`, `Reassembly`, `UdpEndpoint`: connection states over a medium that loses,
   duplicates and reorders; sequence numbers with a small modulus.
5. `Nvme`, then AHCI and the e1000 rings: queues with a phase bit, time-out,
   quarantine, recovery.
6. FAT32, exFAT, XFS: the order of writes of allocating operations, with a failing
   write at any point.
7. Device model, input queue, SMP bring-up, credentials, shell jobs.
8. Compositions: `Process` with `Memory` (teardown that is refused half-way), and
   `Channel` on `Scheduler`.
9. Proofs: `ReferencesAccounted` of the handle table; `ImplementsFifo`'s safety
   part and `ReaderWakeDue` of `Channel`; `OneQueuePerTask` and `NoLostTask` of
   `Scheduler`; `ReferencesAccounted` of `Process`.

# Bikeshed OS: a TLA+ model of the kernel

Bikeshed is a small preemptive operating system for the PC, written in C with
a C++ desktop. This directory holds TLA+ modules that model its kernel, its
drivers, its file system and its desktop, TLC configurations that check them,
and TLAPS proofs of the results that matter most. Paths below are relative to
`src/src/kernel/` unless they start with `serial/` or `fs/` (both under
`src/src/`) or `docs/` (under `src/`).

Contents: 1 the system, 2 what is modelled where, 3 the runs, 4 fairness,
5 the proofs, 6 where the code and its documentation part, 7 what is taken for
granted and what is not modelled, 8 what is left.

## 1. The system

### How the CPU moves

All processes run in ring 0. The CPU is in one process until an interrupt: a
system call (`syscalls.c`, `_isr_syscall`), the timer (`clock.c`), the serial
line (`serial/sio.c`), the mouse, the keyboard or a page fault. The IDT is
filled with interrupt gates (`support.c`), so a handler runs with interrupts
disabled and is never interrupted by another. What runs with interrupts
enabled is the desktop thread, and a process that polls the keyboard. A
handler that gives up the CPU calls `_dispatch` *in its middle*: `_dispatch`
changes `_current` and loads the next process's page directory, then returns
into the same C function, which goes on as if nothing had happened. Much of
what can go wrong in this kernel goes wrong there.

### Components

| component | state | operations | what makes it correct |
|---|---|---|---|
| process table (`pcbs.c`) | `_pcbs[]`, the free queue, `_next_pid` | `_pcb_alloc`, `_pcb_dealloc` | a PCB is free or in use, never both; pids are unique |
| scheduler (`scheduler.c`) | four ready queues, `_current`, the loaded directory | `_sched`, `_dispatch` | every PCB is in exactly one place; the best priority runs, all of it in turn; killed processes do not |
| clock (`clock.c`) | `_system_time`, the sleep queue, the quantum | `_isr_clock` | sleepers wake, neither early nor late |
| process system calls (`syscalls.c`) | the fields of the PCBs | fork, exec, exit, read, msleep, kill, set_priority, ... | each leaves the queues and the memory as it found them, plus its effect |
| priority queues (`queues.c`) | linked nodes from the heap | insert, remove, remove by key, get | order by key, first come first served among equals |
| semaphores (`semaphores.c`) | slots, values, wait queues | new, post, wait, try_wait, destroy | no token lost or spent twice, no waiter forgotten |
| readers/writer locks (`locks.c`) | three counters and a wait queue for each lock | new, lock, unlock, destroy | writing is exclusive, nobody is stuck, readers do not starve writers |
| messages (`messages.c`) | a mailbox for each pid, the queue of waiting receivers | send, receive, try_receive, has_message | every message once and in order, no receiver beside mail |
| serial line (`serial/sio.c`) | two buffers with two pointers and a count each, the interrupt enables | the interrupts, `_sio_readc`, `_sio_writec`, `_sio_writes` | characters in order, inside the buffer, and all sent |
| kernel heap (`memory/kmalloc.c`) | a doubly linked free list inside the free blocks | `__kmalloc`, `__kfree` | blocks never overlap, the list is exactly the free blocks |
| physical memory (`memory/physical.c`) | the bitmap of frames and a cursor | get, set, unset a frame | no frame has two owners, none is lost |
| paging (`memory/paging.c`) | the directories and tables | map, unmap, clone, reset, free; the page fault | the kernel's half agrees in all directories; a child is a copy |
| ELF loader and exec (`elf/elf.c`) | - | check, load segments, build the stack | each byte of each segment is what the file says |
| linked list (`data_structures/`) | head, tail, size, pointers | insert, remove, destroy | it implements a sequence, both ways |
| events and mouse (`input/`) | the packet decoder, the event queue | mouse interrupt, fetch | no event lost, doubled, or made of two packets |
| desktop and windows (`video/desktop.cpp`, ...) | the stack of windows, focus, drag, what is stale | add, close, raise, handle, draw | events go to the top window, what changed is drawn |
| painting and modes (`video/painter*.cpp`, `vesa.c`) | pixels | fill, box, text, cursor; choose a mode | a box has no gap, nothing is written outside |
| virtual file system, ext2 (`fs/`) | superblock, bitmap, inodes, blocks | look up a path, read, write, grow | a byte lies in one block of one file |
| text console (`c_io.c`, `serial.c`), console window (`video/gconsole.cpp`) | scroll region, cursor, screen | putchar, printf, scroll, draw the view | the region shows the last lines printed; a number reads back |
| keyboard (`c_io.c`) | ring, shift state | decoder, interrupt, `c_getchar`, `c_gets` | keys in order, none overwritten |
| PCI (`pci/pci.c`) | the list of devices | scan, find | all devices, their sizes, and registers left as they were |
| network, BIOS calls and virtual 8086 mode, boot, C and C++ run time, user library and programs | - | - | not modelled, see section 7 |

### How they interact

The scheduler's queues are the meeting point: every component that blocks a
process holds a queue of PCBs (sleep, read, one for each semaphore and lock,
one for messages) and hands PCBs back through `_sched`. The clock and the
serial interrupt do that in the middle of whatever process runs; the IPC calls
do it in the name of the current one. `_cleanup` (`system.c`) ties a PCB to its
page directory. The serial interrupt and `_sys_read` share the input buffer
and the read queue. Messages take their memory from the heap and pages from
paging; the heap takes pages from paging, in the directory of whoever asks, and
the page fault brings the other directories up to date. exec reads its program
through the file system. The mouse interrupt and the desktop thread share the
event queue and the heap; windows and PCI devices are kept in the linked list.

### What is hard

* A handler blocks its caller and then goes on with another process's
  directory loaded (`syscalls.c:528`, `:579`, `scheduler.c:136`).
* A mark that one process puts on another and that everybody overwrites
  (`syscalls.c:327`).
* Lost and doubled wake-ups, in five components with five different loops.
* State that several counters describe at once (`locks.c`).
* Sums of the 32-bit clock that wrap.
* Buffers, lists, bitmaps and tables whose correctness depends on all earlier
  calls (`serial/sio.c`, `queues.c`, `memory/`, `fs/ext2/write_ext2.c`).
* An interrupt between any two steps of the desktop thread or of a reader.
* Liveness: sleepers, waiters and low counters under strict priorities.

`PROJECT.json` lists these hazards line by line, with the properties for each.

## 2. What is modelled where

```
Processes <- ProcessProps <- Calls <- Semaphores, Locks, Messages
                            ^ ProcessProofs <- SemaphoreProofs, LockProofs,
                                               MessageProofs
QueueLinks -- implements --> KeyedQueues        (the queues of Processes)
LinkedList <- ListCalls, Desktop, PCI
QueueLinks, ListCalls, Desktop
  ^ ListProofs
Formatting <- Console <- GraphicConsole
Serial, Keyboard, Painting, GraphicConsole      (the `incount' of Processes)
  ^ DeviceProofs
Heap -- implements --> Allocator
Paging <- Memory                                (directories, page by page)
Ext2 -- implements --> FileStore
Heap, Memory, Ext2
  ^ StorageProofs
```

`SequenceLemmas` holds the facts about sequences and the least-number principle
that `ProcessProofs`, `ListProofs`, `DeviceProofs` and `StorageProofs` use.

`<-` points to the module that is extended, `^` to the one proved about.
`MCProcesses`, `MCLocks`, `MCSerial` and `MCDesktop` add the values that their
configurations need. `MCIPC` extends `Semaphores` and `Messages`, `MCStorage`
`Heap`, `Memory` and `Ext2`, and `MCDevices` `Serial`,
`GraphicConsole`, `Keyboard`, `Painting`, `PCI`, `ListCalls` and `QueueLinks`:
these parts do not interact in a way that their own module does not hold, and
the variable `part`, chosen at the start, says which one a behaviour runs.

A definition whose name is another one's with `_Something` added is that
definition with one plausible mistake. No specification uses it; put in the
other's place it must break the property named beside it.

### Processes

Every queue of PCBs is one entry of the function `queue`, whose domain is the
free queue, the four ready queues, the sleep and read queues and, through the
constant `WaitQueues`, the queues of modules that extend this one. A PCB's
fields are the functions `state`, `priority`, `quantum`, `pid`, `pageDir`.
`cr3` is the loaded directory, `liveDirs` the directories that are allocated.
`wakeKey` is the key of a sleeper; `left`, a history variable, counts the ticks
it has still to sleep.

A handler is one action (`Fork`, `Exit`, `Yield` for the calls that only run
and return, `Sleep`, `Kill`, `SetPriority`, `SetTime`, `ReadBuffered`,
`ReadBlocks`, `ClockTick`, `CharWakes`, `CharBuffered`), except for the loops:
the wake-up loop of `_isr_clock` is `WakeSleeper` once for each sleeper and
`ClockContinue` or `ClockPreempt` at its end, and `_dispatch` is `DispatchReap`
once for each killed process and `DispatchRun` or `DispatchPanic`. The variable
`mode` says in which loop the CPU is; no other action is enabled meanwhile, as
interrupts are disabled. So the invariants hold *between the iterations* too,
which is where the C code could leave them broken.

### Calls, Semaphores, Locks, Messages

`Calls` models how the IPC handlers block, release and answer, and what becomes
of a status that is written after `_dispatch` has loaded another directory:
variable `eax` is the EAX slot of each process; the slot that such a write
meets is that of the process dispatched, if the contexts lie at the same
address, or some other word, and the model chooses. `Core` is a step of
`Processes` seen through this.

`Semaphores` has the slots, the names, the values, and the loops of
`_sem_sched_waiting` and `_sem_destroy` one iteration at a time. `Locks` has
the three counters and the queue ordered by mode; an unlock is one of four
actions by what it finds, and the flush of the readers is a loop. `Messages`
has a mailbox for each pid and the one queue of receivers ordered by pid;
messages are numbered, so that their order can be told.

### QueueLinks, KeyedQueues

`queues.c` down to `head`, `tail`, `next` and `prev`; the loops that walk a
queue are one action an iteration. `KeyedQueues` is what the other modules
assume: a sequence of pairs, ordered by key where the queue has a comparison
routine, in the order of insertion among equals. `QueueLinks!Items` reads the
sequence off the nodes; `QueuesKept` is the refinement.

### Serial

Both buffers down to their pointers, which are offsets, and the interrupt
enable register: the transmitter interrupt exists while its bit is set. Memory
behind the input buffer is there as cells beyond `BUF_SIZE`, because the code
writes it. In `Processes` the same buffer is only the number of its characters:
what a process waits for.

### Heap, Allocator

`Heap` is `kmalloc.c` with its free list in memory: three arrays over the
addresses, one for each field of `linked_node_t`. The two loops over the list
are one action an iteration. `Allocator` is what any allocator promises;
`Heap!Allocates` instantiates it with the blocks that callers hold, which is
the refinement mapping.

### Paging, Memory

`Paging` has the routines of `physical.c` and `paging.c` as functions on a
record `m`, the machine's memory: the set of taken frames, the cursor of the
search, frames as tables and frames as bytes. Running out of frames is the
panic that the code calls. `Memory` has the calls that use them: `ForkSpace`,
`Exec` with the ELF loader page by page, `ExitSpace` and `DispatchTo` (between
them the directory of a dead process is still loaded), `MessagePage`,
`GrowHeap`, `PageFault`, `WriteByte`. A directory is a *copy* of the kernel's
entries as they were when it was cloned: that it goes stale, and how the page
fault repairs it, is what `DirectoriesSound` and `TouchedIsPresent` are about.

### Ext2, FileStore

`Ext2` has the look-up of a path, the two walks over the blocks of an inode, the
growth with the block bitmap, and `raw_read`, `raw_write`. The ramdisk is an
array of bytes, and what lies behind the end of a block is the next block of
the *disk*, as in the code. `FileStore` promises what `vfs.h` says: a file is a
sequence of bytes, a read returns a part of it, a write replaces or extends it.
`FilesKept` is the refinement, for the requests that the code serves
(`ReadServed`, `WriteServed`, see section 6 for the others).

### LinkedList, ListCalls, Desktop, Painting

`LinkedList` has the list as operators on a record of pointers. NULL is address
0, with cells of its own, because an insertion behind the tail writes there.
`ListCalls` runs any sequence of calls to one list. `Desktop` has the mouse
decoder byte by byte, the event queue, the thread from fetch to draw, the
windows as elements of a `LinkedList`, and the interrupt flag: `_mouse_isr` can
fall between any two steps of the thread where it is set. `Painting` models a
drawing routine by the pixels it writes, and has the choice of the video mode.

### Formatting, Console, GraphicConsole, Keyboard, PCI

`Formatting` has the conversions of printf with words that wrap, `Console` the
scroll region of `c_io.c`, `GraphicConsole` the copy of it that draws a window.
The history variable `sheet` is what has been printed, line by line; `above` says
how many of its lines have left the region upwards. A loop over lines or
characters is a recursive function of the number of rounds.
`Keyboard` has the decoder, the ring and the two readers, with the interrupt
between their steps. `PCI` has the scan of the bus, the four accesses that
measure a register one at a time, and the list that the scan leaves.

## 3. The runs

| run | module | what it checks | bounds |
|---|---|---|---|
| `proc_kill` | Processes | structure under every call and every kill: `ProcessSound`, `PidsUnique`, `ReaderHasNoInput`, `DispatchSound` | 3 PCBs, pids to 4, clock modulo 2, one character |
| `proc_life` | Processes, fair | `NeverLate`, `NeverEarly`, `SleeperWakes`, `HighPriorityRuns`, `DirectoriesOwned` | 4 PCBs with the desktop, pids to 5, clock modulo 3 without end, no kill |
| `proc_kill_lost` | Processes | `KillIsFinal` is violated | 3 PCBs |
| `proc_cleanup` | Processes | `CleanupFreesOwn` is violated | 3 PCBs |
| `ipc` | Semaphores, Messages; the first fair | `SlotsSound`, `TokensSound`, `PostedWaiterReleased`; `MailInOrder`, `ReceiverServed` | 3 PCBs; 2 slots, 3 names, values to 1 between calls; 3 messages, addressees that do not exist yet |
| `lock` | Locks, fair | `LockSound`, `ReadersYield`, `WriterServed` | 4 PCBs, one lock, readers {2,3}, writers {2,3,4} |
| `lock_broken` | Locks | `Exclusion` is violated | 2 readers, 1 writer |
| `ser_overrun` | Serial | `InputInBounds` is violated | 5 characters in |
| `storage` | Heap, Memory, Ext2; the heap fair | `HeapSound`, `Allocates`, `CallReturns`; `DirectoriesSound`, `TouchedIsPresent`, `ForkCopies`, `ExecLoads`; `BlocksSound`, `FilesKept` | below |
| `exec_bss` | Memory | `RestIsZero` is violated | as `storage` |
| `devices` | Serial, GraphicConsole, Keyboard, Painting, PCI, ListCalls, QueueLinks; the transmitter fair | `LineInOrder`, `OutputDrains`; `ShownAsPrinted`, `FieldsReadBack`; `KeysInOrder`; `BoxTiled`; `DevicesFound`; `ListKept`; `QueuesKept` | below |
| `desktop` | Desktop, fair | `EventsInOrder`, `StackSound`, `EventsGoToTop`, `Shown` | 2 windows, 5 packets of 3 kinds |

`ProcessSound`, `SlotsSound`, `TokensSound`, `LockSound`, `HeapSound`,
`DirectoriesSound` and `LineInOrder` are conjunctions of named parts that stand beside them in the
modules; type correctness is a conjunct of the first three.

### Why the bounds are enough

* *Three PCBs*: a running process, one that it meets in a queue, and one more
  for the free queue or behind it. Every handler touches at most two PCBs and
  the neighbours of one place in a queue. `proc_life` takes four because the
  desktop thread uses one. That the structure holds for any number is proved.
* *Pids* stop just above the number of PCBs, so that PCBs are reused under new
  pids: each run reaches a second owner of a PCB.
* *The clock* is modulo 2 or 3, so that it wraps many times; a sleeper's key
  wraps in most of the states. In the IPC runs the clock only preempts, so it
  is modulo 1, and the quantum is 0: any two calls can be separated.
* *One slot and one name more than slots* is what it takes for a slot to be
  reused while somebody holds the old name.
* *One lock*: locks share nothing but the supply of slots. Any number of locks
  and processes is in the proofs, as are any number of semaphores and messages.
* *Three messages* from two senders to one receiver, or to two, give every
  mixture of a message that goes past the mailbox with one that lies in it.
* *Serial buffers of 3* wrap with blocks of 2 and 3 in every phase. That order
  is kept for any size is proved.
* *The heap* of `storage` grows from two pages of 8 words to more than three,
  the maximum; requests of 2, 4 and 9 words are below the smallest block, above
  it, and above a page, so that a call needs one page, two, or fails.
* *Memory* of `storage`: pages of two bytes, tables of seven entries, 24 free
  frames, which forks, execs and the heap use up within four calls, so that the
  panic for want of a frame is reached too; a program that is aligned, one whose
  segments share a page, one that is longer in memory than in the file, and one
  that is refused; a heap that crosses a table,
  so that a directory goes stale. Four calls are enough for fork, growth in the
  child, exec in the parent and a fault.
* *Files* of `storage`: blocks of four bytes, two direct blocks and a block of
  two pointers; one empty file, one that ends inside a direct block and one
  inside an indirect one; requests inside a block, to its end, across it, and
  more than the disk holds; two writes, so that the second meets the growth of
  the first, in the same file or in the other.
* *The console* is 4 by 4 with two regions, one with margins and one of a single
  row as wide as the screen, where every line scrolls; three calls, of which the
  first may print a number that is longer than a line. Words are six bits: every
  conversion of the smallest, the largest, -1, 0, 9 and 10, in fields that are
  too narrow and wide enough. Screens, regions and texts of any size are in the
  proofs.
* *The keyboard's* ring of 3 is full after two keys; four scan codes.
* *Painting*: boxes that reach over every edge and corner, thinner and wider
  than their bevels; modes of every depth, larger and smaller than wanted.
* *The bus* has two functions in one slot and one in another, with every
  combination of four kinds of card.
* *Lists and queues* have three elements: head, tail and one between.
* *The desktop* has the two windows that `_desktop_run` opens, at their places,
  and packets that press, drag and release over either of them, over both and
  over a close button.

`KillArgs`, `SleepArgs`, `PrioArgs`, `TimeArgs` hold legal and illegal
arguments (priority 4 does not exist). Deadlock is checked in `proc_life`,
`ipc`, `lock` and `desktop`. It is not in `proc_kill`, where a kill of
the initial process leads to the panic that halts the machine, in `ser_overrun`
and `devices`, whose bounds end the traffic, and in `storage`, which ends in
the panic of a full heap or a full memory.

## 4. Fairness

* A handler runs to its end: weak fairness of the loop actions (`KernelLoop`,
  `SemLoop`, `LockLoop`, `Loop` of the heap). Interrupts are off; nothing else
  can run.
* The timer interrupt is taken again and again: strong fairness of `ClockTick`.
  The interrupt controller keeps it pending while interrupts are disabled; it
  is enabled again and again, not continuously.
* The transmitter interrupt comes while it is enabled: weak fairness of
  `SendNext \/ SendDone`. The chip raises it whenever its register is empty.
* The desktop thread gets the CPU: weak fairness of `Thread`. It runs at the
  priority of the others and is dispatched in turn, which `HighPriorityRuns`
  checks; while it sleeps the clock wakes it, which `SleeperWakes` checks. Weak
  fairness of `_mouse_isr`: a byte that waits interrupts as soon as it may, and
  the thread enables interrupts again in every round.
* Programs and devices owe nothing: no system call, mouse packet, key or
  character is fair. So `PostedWaiterReleased` and `WriterServed` say what the
  kernel does *if* somebody posts or unlocks again and again.

Priorities below the highest may starve; the code promises nothing else, and
`HighPriorityRuns` speaks of the highest only.

## 5. The proofs

TLAPS checks all of these for every value of the constants.

### ProcessProofs

From `KernelAssumption` alone (at least two PCBs, a clock that has a modulus,
...): `TypeCorrect`, `NeverInTwoPlaces`, `CurrentAlwaysPlaced`, `NoPcbLost`,
`FreePcbsAreFree`, `ReadyAlwaysByPriority`, which together are
`ProcessAlwaysSound`; then `DispatchAlwaysSound`, `PidsAlwaysUnique` and
`ReaderNeverHasInput`. `DirectoriesAlwaysOwned` needs two assumptions more:
nobody is killed (`CleanupFreesOwn` shows why) and the kernel's directory is not
the initial process's; `NeverTooLate` that nobody sets
the clock, and `NeverTooEarly` also that nobody sleeps longer than the clock
counts.

The inductive invariant is `TypeOK` and `Placement`, the conjunction of
`AtMostOnePlace`, `CurrentPlaced`, `NoneLost` and `FreeMeansFree`. None of the
four is inductive alone. `ClockPreempt` may queue the current process because
it is in no queue (`CurrentPlaced`); that it is again in none when
`DispatchRun` takes it out needs `AtMostOnePlace`; `_cleanup` puts a killed
process into the free queue twice unless it has been taken out of its queue,
and what `Fork` takes from there is FREE and in no other queue only because of
all of them. The module begins with what appending, inserting, and removing
the head do to the set of a sequence's elements and to its being without
repetition; each action's proof is one application of them. The other results
rest on this invariant: that a PCB that waits in a ready queue is not the one
whose priority changes, that the PCB a fork gets is not a live one's. `DirectoriesInv` follows the
loaded directory through the wake-up loop of the clock; `exit` may free the
directory that is loaded because it is the caller's own and, since neither the
initial process nor the desktop thread exits, nobody else's.

`NeverTooLate` rests on `SleepSound`: the sleep queue is in the order of the
keys, each key is the time plus the ticks left in the arithmetic of the clock,
and once a handler's loop is left nobody in the queue has none left.
`ClockArithmetic` is the step of the clock: counting one tick less towards a
time one tick later keeps every key, across the wrap too. The wake-up loop looks
at the head only; that is enough because of the order (`WakeSleeps`). A clock
that is set breaks `SleepSound`, hence the assumption.

The rest of the module is what the proofs of the three IPC modules share. `CallsSound` is the process
core's invariant with the types of the status words. `CoreSound`: every step of
the process core keeps it; `CoreWaits`: none of them touches a wait queue of
another module; `CoreOutsideLoops`: none runs inside a loop of another module.
So a step of the core keeps every property of semaphores, locks or messages,
and each of those modules only has to prove its own steps. `BlockAtSound` and
`SchedHeadSound` do the same for the two operations that the modules call, the
wait and the release: they keep `CallsSound` and say what happens to the queue.

### SemaphoreProofs

From `SemAssumption`: `SlotsAlwaysSound`, and `TokensAlwaysSound` from
`TokensAlwaysAccounted` and `NeverAnIdleToken`, for any number of processes, slots and names.

The inductive invariant `SemInv` adds to the properties that a loop works on a
live slot (`LoopOnLive`), and `IdleOnlyInPost`: the only slot that may have a
token and a waiter is the one whose post is being worked on. That is why
`NoIdleToken` holds when no handler runs, and also why the loop of
`sem_destroy`, which releases waiters without a look at the value, breaks
nothing: a slot that has waiters has no token (`DestroyReleaseInv`). A new
slot has no waiters because those that are not live have none
(`WaitersOnLive`), and it is not live because the available ones are not
(`SlotsConserved`).

### LockProofs

From `LockAssumption`: `LockAlwaysSound` and `ReadersAlwaysYield`, for any
number of processes and locks.

`LockInv` says of each lock (`LockOK`) that its counters are the cardinalities
of who holds and who waits (`Counted`); that who waits wants it, does not hold
it, and stands behind no reader if it is a writer (`WaitingRight`); and that a
lock with `hasWriter` is held by a writer, that one with waiters is marked and
held, and that while readers are flushed no writer waits (`Marked`). The last
is where the parts meet. A reader at the head of the queue means that all who
wait are readers, since the queue is ordered (`OrderedTail`): so clearing
`hasWriter` and counting readers in the flush is right, and no writer is
overtaken. An unlock that finds neither a writer nor a waiting one may leave
the queue alone because then nobody waits. Whoever has to wait finds the lock
held: by its writer, by the readers that are counted, or because somebody waits
already. `Exclusion` is not part of it, for it is false (section 6); the
counters are right although two modes may hold the lock at once.

### MessageProofs

From `MessageAssumption`: `MailAlwaysInOrder` and `ReceiverAlwaysServed`, for
any number of processes, pids and messages.

`MailInv` adds that every process in use has a pid within the bound and that a
process whose call has not been answered still stands in the wait queue
(`UnansweredWaits`). Order across the two ways to deliver rests on
`ReceiverHasNoMail`: `_message_send` may go past the mailbox of a process that
waits because that mailbox is empty. That the process it finds by its pid is
the one whose mailbox it is, is `_q_remove_by_key` on a queue in which nobody
stands twice (`AtMostOnePlace` of the process core).

### StorageProofs

*The kernel heap.* From `HeapAssumption` (pages are not empty, the first block holds a node, the
arena begins above 0): `AlwaysTiled`, `FreeListAlwaysSound`, `ListNeverFellOff`,
together `HeapAlwaysSound`, and `HeapImplementsAllocator`.

The inductive invariant `Inv` adds `Cursor` to the three properties: what a
loop has found so far. `__kmalloc`'s cursor is a free node. `__kfree`'s cursor
is a free node too, and every free node below it is below the block to insert.
The heart of it is `InsertNextStays`: if the cursor were the last free node, it
would end where the heap ends (`FreeListSound`), and the block to insert would
be above it and yet below the end (`Tiled`). So the "impossible condition" that
`__kfree` panics on is indeed impossible, because the *last* free node always
reaches the end of the heap: `__kmalloc` never gives away the end of the last
node, and pages are only ever mapped behind it. `NewWordsFacts` says that the
pages mapped suffice. `Insert` is proved for its four cases at once: `f` is
where the combined node begins, `e` where it ends.

The refinement is proved step by step: the answer to a call is the step that
cuts a node (`CarveAnswers`), every step of the loops is a stutter, and a call
of `__kfree` is a release at its first step, when the block leaves the hands
of its caller.

*The address spaces.* From `PagingAssumption` and `MemoryAssumption`:
`DirectoriesAlwaysSound`, `TouchedAlwaysPresent`, `ForksAlwaysCopy` and, with
`ProgramAssumptions`, `ExecsAlwaysLoad`, for any number of processes, any programs, and any size of the memory, of a table and of the heap.
What the assumptions say beyond the types of the constants is that the areas of
a directory lie as in `memory/paging.h`, `memory/kmalloc.h` and `fs/vfs_init.c`
(the first 4 MB, the programs', the kernel, the heap, which ends where a table
does, the RAM disk in one table behind it), and `Linked`: a segment lies in the
programs' area, as the linker script has it. The loader itself would take a
segment between 1 and 4 MB and would then write into the table that all
directories share, so that assumption cannot be dropped.

The invariant `SpaceInv` rests on a ghost, a function `own` that gives each frame
its one owner: nobody, the kernel, a directory that it is, or the place (directory,
entry, entry of the table) where it is a table or a page. `Owned` says that the
owners are consistent both ways: a frame's owner has an entry that leads to it,
and an entry that is present leads to a frame that it owns. That each frame has
*one* value of `own` is what the disjointness of the address spaces comes from.
No variable of the model holds `own`; the invariant says that there is one.
`Fine` is this property of a machine's memory outside the panic, with the set `D`
of the directories and the set `H` of the frames that were got and not entered
yet: in the middle of `__virt_map_page` and of the clone there are such frames,
and at the end of every handler there are none.

Each routine is shown to keep `Fine` once (`MapUserPage`, `UnmapFine`,
`DeallocFine`, `CloneFine`, `LoadFine`, `RenewFine`, ...), from five lemmas
about a single write: a frame is taken (`TakeFrame`), given back (`DropPage`,
`DropTable`, `DropDir`), a table linked (`LinkTable`), a page entered
(`LinkPage`), a directory made (`NewDir`). `GetFreeFacts` is where the search of
the bitmap comes in: what it returns was not taken, wherever the cursor is. The
loops are `Rounds`, a recursive function; `Steps` gives a name to the memory
after each round, and `CountUp` carries `Fine` from round to round. That
unmapping frees a table *exactly* with its last page is what makes
`__virt_reset_page_directory` leave no table behind (`ResetFine`), so that
`_cleanup` loses nothing by freeing only the directory after it. That the
kernel's directory is no process's (`NoneOwned`) is why a heap that grows cannot
take an entry from a process, and that a table of the heap is only ever entered,
never removed, is why an entry copied earlier is still right (`Alike`).
`TouchedAlwaysPresent` follows because the kernel's directory maps every page
below the end of the heap, which is part of `KernelOwned`.

`ForksAlwaysCopy` follows the bytes through the three loops of the clone. A round
that copies a page writes only the frame it has taken (`CopyPageCopies`), which
no page has; what the earlier rounds have copied is `Kept`, since a frame that is
taken now was nobody's then. The same is shown of a table (`CopyTableCopies`) and
of the whole directory (`CloneCopies`), and `Same` says that nothing that was
there at the start has changed. For this `IsMem` says that every frame has all its
bytes, and `KernelOwned` that the kernel's directory maps no page of a program.

`ExecsAlwaysLoad` follows the bytes through the loader. Mapping enters a page only
where there is none (`StaysMapped`), so a page that two segments share is not
replaced. A byte that is written changes no other byte of the process
(`StoreByteKeeps`): two pages of a directory are two frames, since a frame has one
owner (`FramesApart`). What a segment clears and what it reads lies at or behind
its start (`LoadSegmentKeeps`), and `Ordered`, the part of `ProgramAssumptions`
that says how the linker lays a program out, puts the segments before it in front
of that. The stack is cleared last; its pages are new, or the exec would have
panicked, so no byte of a segment is in them (`MapStackKeeps`). `Ordered` also
keeps what is cleared below the kernel: the loader begins to clear `p_memsz -
p_filesz` behind the start instead of `p_filesz` (the finding of the run
`exec_bss`), and so reaches up to twice the size of the segment. The theorem says
nothing of the bytes that the file does not have; those are what is wrong.

*The file system.* From `ImageAssumption` and `FilesAssumption` (a well-formed
image): `BlocksAlwaysSound`, for every block size, inode table, image, path and
bytes, under two hypotheses that say for whom the code is right. One is that
callers ask for what it serves (`AnyRequest = FALSE`): growth by more than one
block, or beyond a last one that is not full, is wrong (section 6). The other is
`SparedImage`, about the image that is loaded. Since `block_alloc` answers with the number of
a bit, which belongs to the block before, it hands out a block that the bitmap
may have as taken; no file of the image is hit if for every block of a file
*both* bits are set, its own and the one that has its number. An image whose
last file is followed by a free block is not such an image: there the next growth
takes that file's last block. `MCStorage` has the hypothesis as an `ASSUME`, so
the run evaluates it on its image.

`DiskSound` adds to `BlocksSound` that both bits are set for every block of a
file, those that files have got since included. It is kept because the search
returns the *first* clear bit: the bit before it is set (`FirstClear`; bit 0 is
the superblock's, so there is one before). `NeededBlocks` does the arithmetic of
`increase_inode_size` modulo 2^32: when no block is needed, the file grows to the
end of its last block exactly, and when one is needed at a multiple of the block
size, the file grows by at most a block. Then the blocks of the file are those it
had, and the new one (`ServedGrowth`), and no other file is touched, because two
numbers have two places in the table (`InodesApart`; the place of an inode
is not its number, since the group is computed from the wrong number).

`FilesAlwaysKept`, the refinement of `FileStore`, rests on a second hypothesis
about the image, `PlainImage`: files are no longer than the direct blocks and one
block of pointers reach (the walk panics behind them, and so does growth), and a
file has each of its blocks once. `MCStorage` evaluates it too. The invariant
`FilesInv` says that the disk is sound and plain (`SoundDisk`) and that the
history of bytes is what the disk holds. The walk is an induction over the rounds
of its loop (`Walked`): what it has gone over so far is the bytes of the file from
`start` on, in order (`Underway`), and the round begins at a block of the file or
is the first. The step is `WalkOn`, with two kinds of piece. One ends with the
block. The last one is shorter than a block and is copied at once, whatever the
offset: if it goes beyond the end of its block, the bytes are those of the block
that follows on the disk, which is what `~Crosses` is for. Bytes of files lie
apart (`BytesApart`, from `DiskSound` and `Plain`), so a write to the bytes of the
walk is a write to that part of one file (`WriteBytes`), on a disk where the file
has grown (`FileGrown`) or not. The two guards that the requests need beyond those
of `BlocksAlwaysSound` are that `start + n` is below 2^32 (the clamp of a read and
the test for growth are taken modulo it) and that a short write into a new block
begins in that block.

### DeviceProofs

`Serial`. From `SerialAssumption` (a buffer is not empty, a block is a sequence that is
not): `InputAlwaysInOrder` and, provided that no block begins with LF,
`LineAlwaysInOrder`, both for every size of the buffers.

`InputBuffered` is inductive: the cells from `innext` on hold, in order, what
was accepted and not delivered; `inlast` is `innext` plus the count, which is
what `Rewind` keeps by resetting both pointers and not one. It does not say
that `inlast` stays in the buffer, for it does not (section 6): what is written
behind the buffer is read from there again. `OutputBuffered` says the same of
the output, where a position may wrap once: `Cell`. Both ways to store, the
straight one of `_sio_writec` and the circular one of `_sio_writes`, are shown
to be `Stored`, from which `WrittenIsBuffered` follows for either;
`CellsDiffer` is why a block that fits does not wrap onto itself. That a
transmitter that is idle leaves nothing in the buffer is part of the invariant:
only then may the first character go out at once.

`Keyboard`. From its assumption (a ring has a cell to spare):
`RingAlwaysInOrder`, the first conjunct of `KeysInOrder`, for every size of the
ring. The inductive invariant says that the cells from `next_char` on hold what
was kept and not taken, in order, and that at most all cells but one are in
use, so that two equal pointers always mean an empty ring; while `c_getchar`
holds a character that it has not released, that character is still the cell at
`next_char`, which is why the interrupt, which tests the space against the
pointer not yet advanced, cannot overwrite it. `KeysAlwaysInOrder` adds the
readers (`LineSound`): `opening` is where the line under way begins among the
characters taken, and only the last of a line may be the one that ends it.
`WithoutEOT` filters a sequence by a recursive function; `WithoutMore`, what it
gives when the sequence grows by one, is the only fact about it that is used.

`Painting`. From `PaintingAssumption` (every mode has room for the pointer, 8 by
8, and every box is as wide and as high as its bevel; the boxes of `desktop.cpp` and
`gconsole.cpp` are far larger): `BoxAlwaysTiled`. `PartsCover` says that the
nine rectangles of `DrawBox`, each clipped by itself, cover exactly the pixels
of the clipped box: clipping keeps what lies between two edges
(`ClippedEdges`), so the nine intervals of each axis may be compared before they
are clipped. `BoxDrawn` says that painting over leaves each of these pixels with
one colour, the one of the last part that contains it. That the screen is that
of the mode chosen needs `ChosenMode`: the loop of `_vesa_choose_mode` returns a
mode of the list or 0. The same account of the loop (`ModeLoops`) gives
`ClosestWhenBestDiffIsSet`: the comparison of distances is right, and what lets
the code choose a worse mode is only that `best_diff` is not set (section 6).

`GraphicConsole`, and with it `Console`. From `ConsoleAssumption` (regions begin
on the screen, the places written by `c_putchar_at` are on it and outside them,
as `system.c:225` and `clock.c:117` have it, and a format code gets an argument of
its type): `AlwaysShownAsPrinted`, for every size of the screen, every region,
every format and any number of calls. `OnPaper` strengthens the property by two
facts. The cursor is in the region or before the first column below it
(`Cursor`): a scroll that is put off is always by one line, since no second line
can be left before the next character scrolls. And the sheet has no line below
the region, so the line that a scroll brings in is a blank one. The steps:
addresses of different cells differ, for row0 = -1 too (`AddressBetween`,
`AddressApart`); what `c_clearscroll` and `c_scroll` leave in each cell, by
induction over the lines (`ClearFacts`, `ScrollFacts`), where a line is copied
before it is written over; what one character changes on the screen
(`PutCharFacts`) and on the sheet (`OnSheetFacts`), and that these agree
(`PrintedFacts`); a text is as long as its field (`FieldIsText`), for which the
recursion of `cvtdec0` must end, for the word without an opposite too
(`WritingExists`). Then line k of the view is row k + 1 of the console, which
the shift by row0 makes up for (`ConsoleShows`).

`FieldsAlwaysReadBack`, for every width of words (of five bits at least: the
word without an opposite must have two decimal digits), every format code and
argument, on the screen, in the window and on the serial line. Its invariant
`FieldKept` says only that the last field printed is the one its code asks for;
the work is in the conversions. `Reads(s, b, x)` says that the digits of `s` in
base `b`, put together from the left, give `x`; it has a witness for each prefix,
so that one more digit is one more step (`ReadsOneMore`), and `ValueRead` ties it
to `ValueOf`. `DecimalReads` follows the recursion of `cvtdec0` by the smallest
word for which it would fail, and `LeastWordReads` is the word for which the
recursion goes through the negative quotient. For `cvthex` and `cvtoct` the
digits up to any place are the word divided by a power of the base
(`GroupsFromLeft`, from `QuotientOfGroup`), and the zeros left out in front add
nothing (`GroupedReads`). `TakenOut` gets a text back from its padding.

### ListProofs

*Calls of a list*: `ListAlwaysKept`, from the assumption that NULL is no
element. `ListSound` says that the pointers from the head on are those of the
sequence `listed`, and those from the tail back as long as nothing was removed
(removing does not mend `prev`, section 6). `WalkReads`: a walk over such
pointers reads the sequence. It is proved by a smallest place at which the walk
and the sequence differ.

*Queues*: `QueuesAlwaysKept`, the refinement of `KeyedQueues` by the linked
nodes of `QueueLinks`, loop by loop. `QInv` maps each queue to the sequence
`order` of its nodes, says that the pointers both ways are those of it and that
no node is in two places, and follows the two loops: everything before the node
that an insertion has reached has a key not above the new one (`InsertSoFar`),
nothing before the node that a search has reached has the key (`FindSoFar`). A
step of a loop is a stutter of the abstract queues; the last one is
`InsertAt` or `RemoveAt` of the place reached.

*Mouse and event queue*: `EventsAlwaysInOrder`. `MouseSound` adds to the property
which bytes of the packet under way have been stored (`WireSound`), and that
`last_button_states` are the buttons of the last packet whose event was made.

*Windows*: `StackAlwaysSound` and `EventsAlwaysGoToTop`, from
`DesktopAssumption`. `StackKept` says that the list is a chain both ways of the
first windows of `Opened` in that order. The assumption that there are at most
two windows is needed: `desktop.cpp:195-202` opens exactly two, and with three a
close of the one in the middle would leave the pointer back to it
(`list_remove_next` does not mend `prev`), on which the search for the window
under the pointer walks.

*The PCI bus*: `DevicesAlwaysFound`, from `PciAssumption`: the functions are
looked at once each, a device answers with numbers that are not all ones, and a
base address register holds a multiple of a size that divides what a register
can hold. `PciSound` says what the list is while a device is under way (the
devices found so far, last first), what the register under way holds in each of
the four steps that measure it, and that every other register holds what it held
at the start. That what is written back is what was read is the invariant of
`step = "restore"`; that a size is right rests on `MultipleBelow`, the value a
register keeps of all ones.

### Only model-checked

All liveness (`SleeperWakes`, `HighPriorityRuns`, `PostedWaiterReleased`,
`WriterServed`, `OutputDrains`, `CallReturns`, `Shown`): TLAPS does not reason
about fairness and ENABLED here. Every invariant and every action property that
a passing run checks is stated by a theorem, and so is every refinement without
fairness. Induction over natural numbers is possible here, by the least number
for which a claim fails (`LeastElement` in `SequenceLemmas`); but the fold
operators take the step as an operator, so that nothing can be proved of a fold
once and for all. Loops that are proved about are recursive functions (`Walk`,
`Lengthened`); the look-up of a path stays a fold, and the proofs need only that
what it finds is in the table.

## 6. Where the code and its documentation part

Five runs show a property that a comment or a document states and the code
does not keep; `PROJECT.json` quotes the lines.

* `KillIsFinal`: kill() marks the victim, and `_sched` and `_sys_read` write
  over the mark. Only a process that stands in a ready queue really dies, which
  `DispatchSound` checks.
* `CleanupFreesOwn`: `_dispatch` moves `_current` to the killed process before
  it calls `_cleanup`, which then frees the loaded directory: another one's.
* `Exclusion`: a writer gets the lock when the first of several readers leaves.
* `InputInBounds`: an input buffer that never runs quite empty is overrun.
* `RestIsZero`: `_elf_load_from_file` begins to clear `p_memsz - p_filesz` bytes
  behind the start of a segment and not `p_filesz` bytes behind it. A program
  that is longer in memory than in its file finds bytes of another process in
  its uninitialised data.

The following properties are defined in their modules, are false of the code,
and stand there so that a repair can be checked; no run has them:

* `WritesInside` (Ext2): a write that begins inside a block is measured by what
  remains and not by the room in the block (`fs/ext2/write_ext2.c:276`), so it
  runs into the next block of the disk.
* `ClosesGivenWindow` (Desktop): `CloseWindow` removes the element *after* the
  one that holds the window, none at all for the topmost (`desktop.cpp:86`).
* `ClosestMode`, `TextClipped` (Painting): `best_diff` is not initialised
  (`vesa.c:61`, `:95`); `SetPixel` counts the right and lower edge as inside
  (`painter32.cpp:77`), so text reaches one pixel beyond the screen.
* `OutputOnScreen` (GraphicConsole): row 0 is stored before the array
  (`gconsole.cpp:49`).
* `OnlyDefinedKeys` (Keyboard): a character 255 is compared with -1 and stored
  (`c_io.c:612`).
* `ReadsAtOffset` (PCI): a byte is read at the even offset below
  (`pci.h:158-161`): 0xD, 0xF and 0x3D are wrong.

Seen while modelling, and in the models as the code has them where they
concern what is modelled:

* *Calls.* The status of a `sem_wait` that blocked is written into the next
  process's memory (`syscalls.c:528`); a receive is different, its sender
  answers through the right directory (`ReceiverServed`). sem_init() returns
  SUCCESS with -1 when no slot is left; lock_destroy() does nothing
  (`locks.c:161`). The address of a message grows by a page each time
  (`messages.c:69`). `_pcb_alloc` writes through the NULL it has found
  (`pcbs.c:73`).
* *Memory.* `__phys_initialize_bitmap` clears words counted in quarters
  (`physical.c:71-80`); `__phys_check_bit` tests other bits than it is asked
  for and has no caller; `__kmalloc` lets the heap end up to a page above
  `HEAP_MAX_LOCATION`, where the RAM disk is: mapping that page panics; an
  unaligned segment may miss its last page;
  segments between 1 and 4 MB go into the table that all directories share.
* *ext2.* Bit n of the bitmap is block n+1 but the search returns the number of
  the bit, so the block that a growing file gets may be another file's last one
  (`SparedImage` says when it is not); growth by several blocks overwrites one slot of the inode; growth
  within the last block underflows and takes every free block; a start beyond
  the size answers 3 as a count, with SUCCESS; entries beyond the first block of
  a directory are not found; the last inode of a group is looked for in the
  next one; get_file_size answers 2 for a path without a slash; double indirect
  blocks panic.
* *Linked list, desktop.* An insertion behind the tail writes through NULL; the
  list of PCI devices is a NULL pointer, so the list lies at address 0
  (`pci.c:11`); a removal leaves `prev` dangling; a closed window is not deleted
  and keeps the focus; of several buttons that change at once one is reported;
  a stray byte before the first packet is stored in `bytes[-1]` in a QEMU
  build; `_events_fetch` returns with interrupts off when the queue is empty.
* *Console, keyboard, PCI.* The clock of the console writes to `screen[-1]`; the
  view shows 23 rows and 79 columns; `c_gets` of size 0 writes one byte;
  releasing one of two shift keys unsets shift; in a build with the desktop no
  interrupt fills the ring; `Fill` leaves out the last pixel; a device that
  decodes no function number is listed eight times; sizes of port registers
  lose two bits.
* *Serial.* `_sio_writes` of a block that begins with LF on an idle line sends
  the LF behind the block; an interrupt that reports a FIFO timeout drops its
  character (`serial/sio.c:220`).
* *Library, outside the models.* A comma is missing behind "bad priority" in
  `_kstatus_strings`, `_kstrncmp` returns 0 for a proper prefix, and
  `_bios_init` copies in the wrong direction.

## 7. What is taken for granted, what is not modelled

Assumptions about callers, each named where it is used:

* the initial process does not block or exit (`IsInit`): it idles once it has
  started the others (`src/src/applications/users.c`);
* programs unlock what they have locked, in the same mode, and do not exit
  while they hold a lock (`MayLock`, `MayUnlock`, `LockCore`);
* callers of the heap free what they were given, once, and calls do not overlap
  (`kmalloc.h` says so of the first);
* callers of `_sio_writec` do not write more than fits (`Fits`);
* callers of the file system ask for what it serves (`AnyRequest = FALSE`): a
  start inside the file, an end below 2^32, and pieces that do not cross into a
  block that lies elsewhere; and the image is one that the search for a free
  block spares and whose files the walk reaches (`SparedImage`, `PlainImage`);
* there are frames enough for one directory for each process in `Processes`;
  what happens when there are not is in `Memory`.

In the IPC runs and in `Memory` nobody is killed: a kill of a waiting
process is the lost mark of section 6. (The proofs about the IPC modules allow
kills.) Data and sizes of messages are left out.
Pids do not wrap at 2^16 within the bounds. The words of the heap are four
bytes and requests are below 2^32 minus a header. `Desktop` takes a call of the
heap as one step, though the mouse interrupt can fall into it: that race is
listed among the hazards without a property, since no heap survives it.

Not modelled, with the reason in `PROJECT.json`: the network driver (a stub),
BIOS calls and virtual 8086 mode (an emulator of instructions and real-mode
assembly), boot, interrupt stubs and the C library (assembly and straight-line
code), the C++ run time, the user library and the programs (the callers, whose
arguments the models choose). Of modelled components: colours and fonts,
`region.cpp` (unused), the listings of ext2, the mount table with more than one
entry, set-up commands of devices, what is only printed.

## 8. What is left

* The heap under two callers, once the code protects it.
* File systems with more than one group of blocks, and the mount table.

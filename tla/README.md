# GunwOS in TLA+

GunwOS is a small operating system for one 32-bit x86 CPU: a kernel (`src/src/system/kernel`),
a library that applications link (`src/src/system/api`), and user processes that serve others (the display
and keyboard managers) or a human (shell, terminal, a game) in `src/src/system/user`.
This directory holds TLA+ modules that model its core, TLC configurations that check them on
small instances, and proofs that TLAPS checks for every size.

## 1. Inventory

Paths are below `src/src/system/kernel` unless they say otherwise.

| Component | State | Operations | Talks to | Hard behaviour | What makes it correct |
|---|---|---|---|---|---|
| Process table, context switch (`hal/proc`) | state, lock mask of each slot, `procCurrent`, CR3 | spawn, hatch, lock, unlock, stop, cleanup, switch, switchToKernelIfNeeded, callbackInvoke | everything | interrupts between any two steps of the kernel, two locks released by two parties | one owner of the CPU; none of its OOPS is reached; blocked exactly by one lock; a life cycle that is never cut short |
| Scheduler (`schedule`) | `lastProcId`, `nextProcId`, `executionTimeCounter` | procSelect, onTick, onKernelHandlingFinished, processStateDidChange, didHatch | process table, kernel queue | a choice made in one function and used in another | never idle with somebody READY; round robin |
| Kernel queue (`queue`) | slots, links | dispatch, start | everything that is deferred | interrupts dispatch while the kernel does | FIFO, each function once, no slot lost, bounded, drained |
| Run loop (`runloop`, `src/src/system/api/app/src/gunwrlp.c`) | ring of each process | reserve, dispatch, getPendingItem, getPendingItemData, procCleanup; runLoopHandle | callbackInvoke, the library | a reservation that interrupts overtake, two reads per item, a slot that changes hands | a mailbox: FIFO, each item once, the data of the right item, no lost wakeup |
| Interrupts, system calls (`hal/isr`, `hal/syscall`) | interrupt flag | ISR_BEGIN/END, IRQs, gates | scheduler | ISR_END decides who runs | as the scheduler |
| Start and exit of processes (`syscall/usr/start.c`, `bye.c`) | `loading` | steps of start, its failures, four cleanups | all tables by process | a slot is reused | clean slots; start reads its caller's memory |
| IPC (`ipc`) | listeners, pending replies, bindings | register, send, reply; bind, update, unbind with a message or a reply; cleanup, notifications | run loops, locks | a sender waits for a process that may die; an identifier changes hands while messages and notices are under way | every wait is owed one answer; a listener that requires a binding learns of an end before it can mistake who is next |
| Devices (`dev`, `hal/hal.c`) | device table: holder, listener; interrupt table | install, start, acquire, release, listen, emit, cleanup | drivers, run loops | drivers emit from interrupts, from the moment they are installed | a device is held by the living |
| Floppy (`driver/fdc`) | `irqRecv`, drives, motors; the controller's phase and FIFO | reset, recalibrate, detect, read | timer, storage | polled time limits, late interrupts, a controller that runs on into the next sector | no interrupt of another command ends a wait; a read is whole; every wait ends |
| Keyboard, displays (`driver`) | key state, registers | interrupt service routine, parameters | devices | | |
| Timer (`timer`, `driver/pit`) | milliseconds, drift | tick, sleep | PIT, scheduler | a clock of 1193 cycles that is not quite a millisecond; wrap-around | no drift, however long it runs |
| Paging and memory (`hal/paging`, `hal/mem`) | page directories, reference counts, CR3 and the TLB | assign, release, switch, cleanup | start, system calls | half-done assignments; a directory of the dead in CR3; a TLB that is not told | a page has one owner and is lost to nobody; no process reaches another's |
| Loading programs (`syscall/usr/start.c`, `src/src/lib/gunwelf`) | the sections left | validate, a section at a time, stack, hatch | storage, paging | sections that start or end inside a page | what is written is mapped |
| Storage, FAT12 (`storage`, `driver/fat12`) | drives, volumes | detect, find, load | floppy | chains of clusters that scatter, loop, stop or differ from their copy; reads that fail | what is loaded is the file; every load ends |
| Managers of display and keyboard (`src/src/system/user/gnwdispm`, `gnwkbdm`), `gunwkeyboard.c` | sessions, stack of sessions | attach, event, push frame, session destroyed | IPC, devices | applications and the manager itself die at any moment; slots change hands | the newest application has the focus; no stale session; everybody is answered |
| Heap (`src/src/system/api/app/src/gunwmem.c`) | list of blocks | `memPlz`, `memThx` | paging | pages shared by two blocks | no overlap |
| Shell, terminal, game, boot loader, libraries | | | | | |

`PROJECT.json` lists each with its status, and under `hazards` each thing that is hard to test, at its line.

## 2. The modules

An arrow from A to B says that A is shown to implement B; indentation says that the module above
`EXTENDS` the ones below it.

```
 Scheduler ------> ProcessTable          what a user of the kernel may rely on
 DispatchQueue --> TaskQueue             the kernel's queue: slots and links / a FIFO
 RunLoop --------> Mailbox               the ring of a process / a FIFO read in two calls
 KeyboardService                         keyboard driver, manager, applications, bindings
   SessionStack                          the stack of sessions, of either manager
 MCDisplays                              an instance for TLC: terminal and shell
   Displays                              display manager and applications ...
     SessionStack
     Ipc                                 ... over the IPC of the kernel
 MCStorage                               an instance for TLC: disks that are right and wrong
   Storage                               drives, volumes, loading of files ...
     Fat12                               ... whose sectors are read by these operators ...
     Floppy                              ... through the driver and its controller ...
       Timer                             ... which waits by looking at the clock
 MCResources                             an instance for TLC: programs and a memory map
   Resources                             what a process owns from its start to its end
     Paging  Devices  Elf
 Heap                                    the heap of one application
 SchedulerProofs                         theorems about Scheduler: the process table ...
   SchedulerPromises                     ... and what the kernel promises its processes
 DispatchQueueProofs  RunLoopProofs      theorems about the modules of these names; those about
 KeyboardProofs  DisplaysProofs          the display manager are about Ipc as well, those about
 ResourcesProofs  StorageProofs          Resources about Paging and Devices, StorageProofs is
                                         about Timer and Floppy
```

The modules meet where one takes for a step what another opens. `Scheduler` takes `k_que_dispatch` for one step on a sequence;
`DispatchQueue` opens that step, shows under which condition it is one, and finds where the code
breaks the condition. `Scheduler` keeps of each run loop only how many items it holds; `RunLoop`
has the ring itself. `KeyboardService`, `Displays` and `Resources` take a system call for one step, which is
what the first three are about, and the cleanups that the queue runs before any process does for one too.
Only giving pages is opened, page by page. `Storage` is a load that `start` waits for in one step of `Scheduler`, and `Resources` begins where it
has loaded a file.

### Scheduler (`Scheduler.tla`)

There is one CPU. It is in `k_que_start`, with interrupts enabled, or in one process. A step is
what the code does with interrupts disabled, or between two accesses of the kernel's loop to what
an interrupt changes.

| State | Code |
|---|---|
| `kernelState`, `state`, `lockMask`, `procCurrent` | `pTab` and `procCurrent` of `hal/proc/proc.c` |
| `addressSpace` | whose page directory CR3 holds |
| `lastProcId`, `nextProcId`, `executionTimeCounter` | the statics of `schedule/schedule.c` |
| `queue` | the list of `queue/queue.c`; the running function is at its head and leaves when it returns |
| `scanned`, `loading`, `unbound` | the loop variable of `procSelect`; the process `k_scr_usr_start` has spawned; the notices `k_ipc_binding_cleanup` has given |
| `pending`, `awaiting`, `ipcListeners`, `listener` | items of each run loop, `ipcReplyReg`, `ipcListenerReg`, the listener of the keyboard's device |

| Actions | Code |
|---|---|
| `IsrEnd` (the end of every action of an interrupt or a call) | `ISR_END` in `hal/isr/isr.c` with `k_proc_switchToKernelIfNeeded` |
| `Tick`, `KeyPress` | IRQ 0 with `k_proc_schedule_onTick`; IRQ 1 with `k_dev_emit` and `callbackInvoke` |
| `UserStep(p)`: wait, send, reply, listen, start, bye | the functions of `syscall/usr` up to what they queue |
| `Switch` | `k_proc_schedule_onKernelHandlingFinished` and `k_proc_switch` |
| `SchedEvaluate` | one turn of `procSelect`; with the last, `schedEvaluate` |
| `WaitForEvent`, `StartFails`, `Spawn`, `AbandonSpawned`, `Hatch` | the functions queued by `waitforevent.c` and `start.c` |
| `DevCleanup`, `FailReply`, `NotifyUnbound`, `IpcCleanup`, `RunloopCleanup`, `ProcCleanup`, `UnlockIfAble` | the cleanups of `bye.c`, where `k_ipc_procCleanup` fails a sender or gives the notice of a binding in each step; `k_ipc_utl_unlockIfAble` |

### DispatchQueue (`DispatchQueue.tla`)

The table of `queue.c`, with every access of the kernel to it a step and an interrupt between any
two that are not in a critical section. `Tasks` maps the linked list to the sequence of `TaskQueue`.

### RunLoop (`RunLoop.tla`)

The ring of `runloop.c`: places with `reserved`, `item`, `handled`, `dataHandled`, and the two
indices. An interrupt reserves and fills a place in one step (`Deliver`), the kernel in two
(`Reserve`, `Dispatch`), with interrupts between them. `GetItem`, `GetData`, `Execute`
and `WaitForEvent` are `runLoopHandle` of `gunwrlp.c`, where each system call is a step. `Bye`,
`Cleanup` and `Hatch` hand the slot to another process. The mapping to `Mailbox` is
`Box` (the items between the indices; a reserved and empty place is a hole) and `opened`.

### SessionStack and KeyboardService

`SessionStack` has `sessionEnable` and `sessionDestroy` of `gnwkbdm/session.c` as operators on a
function from places to sessions. `KeyboardService` is the service around them:

| Actions | Code |
|---|---|
| `KeyPress` | the driver's emit, to the run loop of the manager, which holds the device |
| `RegisterNotification`, `SendAttach`, `SendAttachFails`, `RegisterListener` | `attachToKeyboard` of `gunwkeyboard.c`, a system call per step |
| `HandleItem`, `Start`, `Bye` | an application's run loop; its start; its exit with `k_ipc_procCleanup` |
| `TakeAttach` then `Reply` | `onAttach` of `manager.c`: `sessionCreate`, `sessionEnable`, `ipcReply` |
| `TakeDestroyed` | `onSessionDestroy` |
| `TakeKey` then `SendKey` | `onDeviceEvent` of `keyboard.c` up to `ipcSendDirect`, and the call |
| `Fug` | the manager crashes: the kernel fails who waits for it and notifies who is bound to it |

`toManager[p]` and `toClient[p]` count bindings, because `k_ipc_binding_create` keeps duplicates
and sends a notice for each.

### Ipc and Displays

`Ipc` has the tables of `ipc.c` and the operations on them as operators that `Displays`, and whoever puts
processes around it, makes actions of. A path is a sequence of characters, because
`k_ipc_utl_nextListenerIndexForPath` compares as many of them as the query has: a query for `dm` reaches
the listener of `dm/g`.

| State | Code |
|---|---|
| `ipcListenerRegister`, `ipcReplyRegister`, `bindings` | the tables of `ipc/data.h` and `binding.c`; a place of the first is a token of the second |
| `runLoop`, `hand` | what is in the run loop of a process, and the message its listener runs for; the `fate` of a message (is its sender still the process it was?) is kept for a property only |
| `alive`, `waiting` | which slots have a process, and which of them wait for a reply |
| `sessions`, `displayStack`, `registered`, `answer` | `gnwdispm/session.c`; how far `dupa` has come; what its listener is about to reply |

| Operators and actions | Code |
|---|---|
| `k_ipc_register`, `k_ipc_send`, `k_ipc_reply`, `k_ipc_procCleanup` | the functions of that name, with the system calls around them (`k_scr_usr_...`) |
| `Rebinds`, `Rebound`, `Dismisses`, `BoxesRebound`, `Told` | create, update and destroy of `binding.c`, and its notices; a full run loop is the panic of `binding.c:110` |
| `ListenersForPath`, `Heard`, `Allowed`, `Fits` | who is addressed, may be, and has room |
| `Register`; `GetDisplay`, `AttachToDisplay`, `PushFrame` then `Reply`; `OnSessionDestroy` then `Returns`; `TakeInconsistent`, `Fug` | `manager.c`, `public.c`, `privileged.c` of the display manager |
| `StartApplication`, `ApplicationRegisters`, `Send`, `Take`, `Answers`, `Return`, `Bye` | an application |

### Storage, Floppy, Fat12 and Timer

`Timer` counts `driftCurrent` against the frequency of the PIT; `lag`, which the code has not, is the real time it
should count. `Floppy` has the driver as a program with a `pc`, one access to the controller per step, and
the controller as an environment with `phase`, `fifo`, and an interrupt it may give late or never.

| Actions | Code |
|---|---|
| `Tick` | the interrupt of the PIT; it wakes `fdc_sleepms` |
| `Completes`, `Sends`, `Ends` | the controller, as far as the driver sees it |
| `ClearInterrupt` | `irqRecv = 0`, before a command is written |
| `Probe`, `Reset`, `Configure`, `NextDrive`, `Recalibrated` | `init` and `start` of `fdc.c`, `proc_reset` |
| `Recalibrate` to `SenseInterrupt`, `startMotor`, `MotorStops` | `proc_recalibrate` and the motor in `proc.c` |
| `Poll`, `Interrupted`, `Expire` | `waitForInterrupt`, a millisecond at a time |
| `Read`, `Prepare`, `Sector` to `Results`, `Return` | `uha_read` and `readSector` |
| `detectDrives`, `detectVolume` | `k_stor_init` |
| `Start`, `Load` | `loadFile` of `start.c`, which asks for the file and then loads it |
| `HeaderIsRead`, `DirectoryIsRead`, `TableIsRead`, `RunIsRead` | `loadFileChain` and `loadFile` of `storage/file.c`, between two reads of the driver |

`Fat12` is `fat12.c` as operators: a header is a record, a directory a sequence of records, the table of
clusters is a sequence of bytes, in which `nextCluster` finds 12 bits as the code does.

### Resources, Paging, Devices and Elf

`Paging` has the physical pages with their counts, the directory and the tables of each process, CR3, and the
translations the processor may have kept (`tlb`: those of the directory in use, and those of its
earlier states since CR3 was written). `k_paging_assign` is one page per step (`AssignPage`), so that it fails
wherever it can.

| Actions | Code |
|---|---|
| `k_hal_install`, `AddDevice`, `k_dev_start`, `LoadFails` | `k_dev_install` and `k_dev_start` as `loadDevice` calls them |
| `Spawn`, `LoadSection` and `SectionLoaded`, `LoadStack` and `Hatch` or `NoStack` | `k_scr_usr_start` with `elfValidate` and `loadElf` |
| `Run`, `ToKernel` | the scheduler, as far as CR3 is concerned |
| `MemPlz` and `MemPlzReturns`, `MemThx`, `DevAcquire`, `DevRelease`, `DevListen`, `DevUnknown` | the system calls |
| `Bye`, `DevCleanup`, `ProcCleanup` | `bye.c` and what it queues |
| `Interrupt` | an interrupt that finds nobody to take its event |

### Heap

`gunwmem.c`: `metadata` has the entries by their addresses, `heapMetadataStartEntry` the first. `memPlz` is
`allocate` in one of its three places or the `fug` of the application, `memThx` gives pages back or ends in
`fug` or in the kernel's panic.

## 3. The runs

| Run | Question | Answer |
|---|---|---|
| `scheduler_safety` | Does the process table stay consistent whatever interrupts do to the kernel between two of its steps? | Yes: one owner of the CPU, no panic of `proc.c`, one lock at a time, no lost wakeup, no lost schedule, every reply owed, clean slots, a bounded queue, `start` reads its caller, `ProcessTable` is implemented |
| `scheduler_liveness` | Does the kernel get through its queue, are slots given back, is everybody resumed? | Yes, the last under the condition that no process has its time reset for ever |
| `scheduler_round_robin` | Is everybody resumed without that condition? | No (finding 1) |
| `dispatch_queue` | Is the table of slots a FIFO, with all the functions the kernel queues and interrupts in its own dispatches? | Yes, unless an interrupt comes in one of two windows of a dispatch that is not in a critical section |
| `dispatch_queue_unmasked` | And if one does? | No (finding 2) |
| `run_loop` | Is the ring a mailbox? Is the library ever refused, or given the wrong data? Is every item handled? | Yes; never; yes |
| `keyboard_service` | Do keys reach the right application, and is everybody answered, when applications and the manager die at any moment? | Yes, for what the stack still holds |
| `keyboard_focus` | Does a living session stay on the stack? | No (finding 3) |
| `ipc` | Is every wait for a reply owed one? Does a listener that requires a binding, or the display manager, ever take one process for another? | Yes; never, because the notice of an end is behind the last message of the one that ended before its slot is given away |
| `storage` | Does a late interrupt end a wait that is not its own? Is a read whole, a file loaded as it is, whatever its table, and does every load end? Does the clock drift? | Never; yes, or it is refused; yes; no |
| `resources` | Is a page ever shared, lost or reached by who does not have it? Is a program loaded into memory it has? Are devices left with the dead? | No, whatever fails and in whatever order processes start, run and end; yes; no |
| `heap` | Are two blocks of memory disjoint? | No (finding 4) |

### Findings

1. *The round robin starves.* `k_proc_schedule_onKernelHandlingFinished` sets the time of the
   process it resumes to 0, whoever it is, and resumes `nextProcId` without a new choice unless a review of the
   schedule was queued. A process that makes the kernel run something that queues none more often than every 30 seconds
   (`start`, or `waitForEvent` with an item pending) is resumed each time, and a READY one never. A `yield` does queue
   one, and hands the CPU over. `RoundRobinUnlessReset` says that nothing else starves it.
2. *A dispatch with interrupts enabled.* `k_ipc_utl_unlockIfAble` and `k_ipc_procCleanup` run from the queue and call
   `k_proc_unlock`, which dispatches; `dispatch` tests and sets `reserved` without a critical
   section. An interrupt in between takes the same slot, and `k_que_start` meets an entry that was
   given back: "Enqueued item disabled".
3. *The stack shifts the wrong way.* `sessionDestroy` walks from the last place of the session to
   the top and gives every place what is below the session. Whoever was above it is off the
   stack, gets no key any more, and cannot attach again, because he has a session.

4. *The heap is always empty.* `memPlz` returns the first block it allocates without assigning
   `heapMetadataStartEntry`, so that the next call finds an empty heap again, at the same place, and the kernel is
   content that the pages are there already. `memThx` finds no entry and ends the process.

Seen while modelling and not made into runs:

* *Managers.* The same loop leaves copies of the session below, so that the stack fills up and `attach` is
  refused after as many attaches and byes as there are places; `sessionEnable` of the display manager leaves
  one as well when the device refuses the format. A full run loop of the application in front crashes
  the keyboard manager, and then the next key panics the kernel's driver (`keyboard.c:101`). The display manager
  destroys sessions without giving up their binding, so that attaching again and again fills the table
  and crashes it.
* *IPC.* Duplicate bindings give several notices for one process, which may not fit and panic
  (`binding.c:110`). The error of a failed reply is written through whichever page directory is active
  (`ipc.c:48`), so that the sender reads success. A path that is the beginning of another reaches its
  listener; the manager then finds a query of the wrong size and ends. A query that nobody hears
  succeeds (`delivery.c:119`), while `gnwsh/cliio.c:32` waits for `GIPCE_NOT_FOUND`: what the
  shell prints before the terminal listens is lost. A message of more than the kernel can queue is
  a panic.
* *Storage.* `gunwstor.h:18` gives a path without an extension as correct, `file.c:149` refuses it.
  `fatVerify` compares with `strcmpl`, which stops at a byte that is 0 in both copies. `loadFile` counts clusters
  as sectors when it advances (`file.c:77`). `chs2lba` of the end of the disk is past its end (`utl.c:62`). The clock's wrap-around ends
  a sleep at once. A disk that is changed between two reads is not noticed.
* *Memory and devices.* A section of size 0, a release of a page that is not there, an unknown device, an
  event that nobody listens to and an interrupt between `k_hal_install` and the entry in the table of
  devices are panics of the kernel that a process or a key can reach. `pageCount * PAGE` wraps around.
* *Heap.* The data of an entry begins at `newEntry + sizeof(...)`, which is as many entries further and not
  as many bytes (`gunwmem.c:67`); a block inside one page gives the page back twice (`gunwmem.c:177`).

### Bounds

| Run | Instance | States | Why it is enough |
|---|---|---|---|
| `scheduler_safety` | 3 slots, 2 booted, time slice 2, run loops of 2, 2 bindings | 1.6 million | a sender, a handler and a third that interferes; a slot that is freed and taken again while the others hold references to it; a run loop that is empty, half full, full; a slice with a tick in its middle. `MAX_QUEUE_LENGTH` is the code's 64: the model itself shows the queue stays below it (`QueueBounded`) |
| `scheduler_liveness` | 3 slots, 3 booted, slice 1, run loops of 1, a binding | 390 thousand | three processes are what a round robin can skip one of |
| `scheduler_round_robin` | 2 slots, slice 2, run loops of 1 | | a greedy process and its victim; the slice must be longer than a tick |
| `dispatch_queue` | 3 slots, all four functions | 39 thousand | an entry that runs, one being linked and one that interrupts add before or behind it |
| `run_loop` | 8 places, the code's size | 94 thousand | the ring fills, wraps, and has a hole in front of filled places |
| `keyboard_service` | 2 applications, 3 sessions, run loops of 2, 5 bindings, 2 attaches each | | one in front and one behind, a session and a stack place to spare, notices that fill a run loop, bindings that run out |
| `keyboard_focus` | 3 applications | | a session dropped from above the one destroyed |
| `ipc` | 3 slots: the manager, a terminal, a shell; 2 bindings, 2 sessions, run loops of 2 | 740 thousand | each application can be the dead, the next in its slot and the one who waits; duplicates fill the bindings; notices fill a run loop. The table of listeners has a place more than is used: that it overflows is a panic, at registration only. The table of replies has 2 of 8 places: one for each who can wait |
| `storage` | 1 drive, disks of 13 sectors with tables of 8 entries, sectors of 2 chunks, tracks of 2 sectors, a clock of 4 values | 590 thousand | a chain that goes on, jumps and comes back, and one of each kind that is wrong; a read that crosses a track and a head; a sector that is cut in its middle, delivered in two waits or run on from by a chunk (`MAX_SENT`); a wait that expires, and a clock that wraps in it |
| `resources` | 2 processes, pages of 2 bytes, tables of 2 entries, 3 pages to give, programs of 5 kinds | 640 thousand | memory and tables run out in the middle of a section, of the stack and of a request; a page goes from one process to the other; both slots change hands |
| `heap` | pages of 128 bytes, entries of 8 | | blocks that share a page and blocks of several |

`ipc` bounds behaviour in this: applications start when the manager listens (`k_startup` starts it first) and
register a listener once; what they send and how they answer is a small set (`MCDisplays`); once the manager
has ended nothing is started any more, because what is in its slot then is not the manager. In `storage` and `resources` the
inputs are sets of disks, paths, programs and drivers, one of each kind that the code tells apart; `heap`
bounds the blocks an application holds (`MAX_BLOCK`). In `keyboard_service` `MAX_ATTACH` is the only bound on behaviour: how often one incarnation of an application calls
`attachToKeyboard`. Two is a call and a repetition, which is what a duplicate binding takes; an application
that is started again begins anew, so the history is unbounded. Everything else is
finite as in the code. Deadlock is not checked where a panic halts the CPU (the code does halt
it); it is checked in `run_loop`, where no panic is reached.

### Fairness

* `Scheduler`: weak fairness of the kernel's steps and of `Tick`. The loop `k_que_start` never
  waits while the queue is not empty, an interrupt returns to it (`ISR_END`), and the PIT does
  not stop. No process has to make a call.
* `DispatchQueue`: weak fairness of the kernel's steps, for the same reason.
* `RunLoop`: weak fairness of the kernel, which finishes what it reserved; strong fairness of the
  library, because a process is READY and BLOCKED by turns. It assumes that a process that is READY
  again and again is resumed, which finding 1 makes a condition on the other processes, and that
  listeners return.
* `Storage`: weak fairness of `Tick`, of the driver and of the storage, which run in the kernel and wait for nothing but
  the clock. None of the controller: it may never answer.
* `KeyboardService`: weak fairness of the manager, under the same condition. Applications need not do
  anything.

## 4. The proofs

TLAPS checks the theorems below for every value of the constants that satisfies the modules' assumptions.
Those say that sizes are not 0 where the code declares an array, a time slice or a geometry; that at least
one process is booted, and no more than there are slots; that there is a finite set of applications; that the
sets the inputs come from (paths and queries, programs, drivers, disks) have records of the types the code
reads; and that the pages of memory and of a directory are a whole number of tables, as in the code. TLC evaluates each
of them on the instances. Some need more, and say so in their statement:

* The theorems of `DispatchQueueProofs` are about `SteadySpec` and not `Spec`, with all the functions the code
  queues. `waitForEvent` dispatches in a critical section, `k_ipc_utl_unlockIfAble` and `k_ipc_procCleanup` do not (`Unmasked`).
  `SteadySpec` has interrupts between any two steps of the kernel, inside those dispatches too, but for two
  windows (`Exposed`): a slot was found free and is not yet claimed (`queue.c:69-70`), the end of the list was found and is not
  yet linked to (`queue.c:98-103`). The code does not exclude an interrupt there, and then the properties are
  false (finding 2): the theorems say that nothing else goes wrong. `MaskedIsSteady` says
  that the condition would always hold if every dispatch of the kernel were in a critical section. The run `dispatch_queue` checks the same
  specification.
* `ReadsAreWhole` says of a read from a sector number that is a natural number that it is whole.
  The number may come from a table on the disk; where a lookup leaves the table the model has no number, and the code what
  happens to be behind the table.
* `EveryReadIsWhole` and `LoadsAreFiles` are about disks that are plain (`DisksArePlain`): a disk whose header `detect`
  accepts has clusters of one sector, two copies of a table with an entry of 12 bits for each cluster, no more clusters
  than FAT12 may have, and nothing in front. That is the image the build makes
  (`src/src/bootloader/shared/data.s:11-18`: 2880 sectors, clusters of one, two tables of 9 sectors); the table, which
  may be cut, cyclic or scattered, and its copy, which may differ, are any. Nothing is assumed of a disk that is not
  accepted. `MCStorage` has the hypothesis as an assumption, which TLC evaluates on the disks of its instance.

| Theorem | Says |
|---|---|
| `SchedulerProofs!Typed`, `Safe` | `Spec => []TypeOK`, `Spec => []IInv`, from which: |
| `CpuHasOneOwner`, `ProcNeverPanics`, `OneLockAtATime` | `OneOwner`, `NoProcPanic`, `BlockedByOneLock` |
| `SchedulerPromises!KernelImplementsTable` | `Spec => Table!Spec`: the kernel is a `ProcessTable` |
| `LifeOfAProcess` | `Lifecycle`, an action property |
| `Owed` | `Spec => []OwedInv`, from which: |
| `WakeupsAreKept`, `SchedulesAreKept`, `RepliesAreOwed` | `NoLostWakeup`, `IdleOnlyIfNobodyReady`, `ReplyIsOwed` |
| `StartFindsItsCaller`, `SlotsAreClean` | `StartReadsItsCaller`, `FreeSlotIsClean` |
| `QueueIsBounded` | `QueueBounded`, for any number of slots, items and bindings |
| `DispatchQueueProofs!QueueStaysLinked` | `SteadySpec => []QueueInv`: the list is without repetition, and what is reserved is in it or claimed; from which: |
| `FetchedStaysEnabled`, `ReservedStaysLinked`, `TableIsQueue` | `FetchedIsEnabled`, `ReservedIsLinked`, `Queue!Spec`, of `SteadySpec` |
| `MaskedIsSteady` | `Spec => SteadySpec`, if no function dispatches unmasked |
| `RunLoopProofs!RingSafe` | `Spec => []SlotInv`, from which: |
| `TokenStaysGood`, `LibraryStaysConsistent`, `DataFollowsItem` | `TokenIsGood`, `LibraryIsConsistent`, `DataBelongsToItem` |
| `RingInvariant`, `RingIsMailbox` | the reserved places are contiguous; `Spec => Mail!Spec` |
| `KeyboardProofs!StackStaysSound`, `SessionStaysAccountedFor` | `StackIsSound`, `SessionIsAccountedFor` |
| `NoStrangerGetsKeys`, `KeysFallBack` | `StrangersGetNoKeys`; `FocusFallsBack`, an action property |
| `DisplaysProofs!TablesStaySound` | `Spec => []IInv`, of `Ipc` and of the manager; from which: |
| `RepliesAreOwed`, `EndsAreAnnounced`, `SessionsAreAnnounced` | `EveryReplyIsOwed`, `GoneIsAnnounced`, `SessionIsAnnounced` |
| `ResourcesProofs!WhatIsKept` | `Spec => []IInv`, from which: |
| `PagesAreAccountedFor`, `NothingIsShared`, `SectionsAreMapped`, `HoldersAreThere` | `FramesAreAccountedFor`, `NoStaleShare`, `LoadedIsMapped`, `HeldByTheLiving` |
| `StorageProofs!ClockStaysTrue`, `InterruptsAreOurs`, `ReadsAreWhole` | `ClockIsTrue`, `InterruptIsOurs`, `ReadIsWhole` |
| `EveryReadIsWhole`, `LoadsAreFiles` | `ReadIsWhole` without a condition, `LoadIsTheFile`, of plain disks |

*Scheduler: the process table.* That `proc.c` does not panic cannot be told from the process table alone. A process
that `nextProcId` names may have been locked or stopped since it was chosen; what saves `k_proc_switch`
is that `schedEvaluate` is then still in the queue (`StaleChoiceIsReviewed`). `waitForEvent`
locks the process it was queued for, without asking; what saves it is that the process is READY
and that nothing queued before can change that (`WaiterIsReady`). A slot is freed although
interrupts and other processes name it; what saves them is the order of the cleanups in the queue, with
`procCleanup` last and once (`StoppedIsFinished`), and that only a hatched process is called
back (`CalledBackIsHatched`). `IInv` is their conjunction with the properties themselves. It is checked
by TLC in `scheduler_safety`, and proved action by action; lemmas say once what a call may append
to the queue and how `IsrEnd` ends.

*Scheduler: the promises.* What a process is promised is somewhere in the queue, so `OwedInv`, inductive once
`IInv` is known of both states of a step, says what is owed to whom. The process a function is about lives, or
is FINISHED and its `procCleanup` is behind (`SubjectsAreThere`). Who awaits a reply
is locked, by a handler that lives or by one whose `ipcCleanup` is to come; who is locked and awaits nothing is
to be unlocked (`AwaitingIsOwed`). Items in the run loop of the dead are to be emptied (`PendingIsCleaned`); that, and that each list of cleanups ends with
`procCleanup`, is why a free slot is clean. That no schedule is lost needs `procSelect` to be
interruptible: a process that gets READY behind the scan has queued another one (`ScanIsRepeated`), and
while none is chosen a review is queued (`IdleIsReviewed`). `start` reads its caller's memory because each `start` in the
queue names the process that CR3 names.

The bound of the queue is no invariant of the length: interrupts add while the kernel works. `BurstInv` bounds what there is and
what may still come: the length, the one review the timer asks for until the time is set anew, the reviews the keys ask for until the run loop of
the listener is full, the senders an `ipcCleanup` is going to fail, and the notices of its bindings, each of which has the
schedule reviewed and may wake who it is for (`NoticesToCome`). A step of the kernel may turn one
into another and never adds to the sum; a system call starts from an empty queue. It needs the devices to
be cleaned up first: were the run loop of the listener emptied while it still listens, keys could fill it again.
With the 5 slots, 8 items and 16 bindings of the code the bound is 48, and the queue has 64 slots.

*DispatchQueue.* `Tasks` follows the links by recursion, and what a recursive definition computes is out of
the prover's reach. `QueueInv` therefore says that there is a sequence `L` of distinct slots which the links go
through, and that the reserved slots are those of `L`, but for the one a dispatch has claimed. That `Tasks` is what
`L` holds (`LinkedIsList`) is shown by taking the first place where the two differ; that `L` fits the table, by counting.
An interrupt may come in the middle of a dispatch of the kernel: then the slot that is claimed is not in the list yet,
the entry the walk has come to stays in it, and what the interrupt links is behind that. Each step is one of `TaskQueue` or a stutter.

*RunLoop.* `SlotInv` says of each place what it may hold without saying where it is: a free place is
wiped, the only place that is reserved and empty is the token's, the only half-read one is
`nextIndex` while the library is between its two calls. That the library is never refused follows.
For the refinement one needs the geometry as well: `ReservedIsContiguous` says that the reserved
places are the `n` after `finishedIndex` and that `endIndex` is the last of them. Then each action is
a step of `Mailbox` or a stutter, by lemmas on what it does to `Box`.

*KeyboardService.* The stack is sound because `sessionEnable` brings in one session only, which has
just got its process, and because `sessionDestroy`, for all that it drops, leaves
no place of the session it clears: lemmas `EnableKeeps` and `DestroyKeeps`. The second needs the
last place of a session to exist, and so the well-foundedness of the natural numbers.
That a session is accounted for needs two things more (`AccountInv`): the reply that is about to
bind its process is one that says yes, because a refused attach binds nobody, and a manager
that has crashed has no session (`DeadHasNone`), because nobody tells it of anything any more.
No stranger gets keys because the question of a process is the last the manager hears of its identifier until it has
answered: the process waits meanwhile. The notice of whoever had the slot before has been read by then, and the
one who listens is bound (`StrangerInv`). The keys fall back to the session below because the places of a session are adjacent
(`FocusInv`), so that shifting from its last place up brings the next session to the top: what the loop gets wrong is
above the session it destroys.

*Ipc and Displays.* `IpcInv` is about the messages of a process, the one in hand and those in its run loop.
Each query is owed (its token's entry names the two), no token is twice among them, each message of who is bound is known (the receiver would be told
of its end), each one of who is gone is followed by the notice of his end, and a message with the path of the
kernel is the kernel's, because no process may send to it. Sending, replying, taking and cleaning up keep a box sound by lemmas of their own, in which the
tables are parameters. The display manager needs that it listens for notices before it has a session (`ManagerInv`), from
the order of its registrations. A session is announced because attaching is answered with a binding.

*Resources.* Counts alone are not inductive: a page must also not be in two tables, or twice in
one (`FramesAreOwned`). An assignment is opened page by page, so that a failure leaves the pages
before it and a table that may be empty; the invariant holds between any two pages, and says for whom the kernel is working
(`OneThingAtATime`). A process runs with its own directory in CR3, and switching to it has made the TLB forget the
pages of others (`NoStaleShare`). For `SectionsAreMapped` it says how far the pages of the section have come and that those left reach its last
byte (`SectionIsGranted`). The devices of the dead are given back because the job that does is
ahead of the one that frees the slot (`JobsAreInOrder`).

*Storage.* The clock is off by the drift it has not yet counted and nothing else (`ClockInv`, `lag = -driftCurrent`), which
is below a millisecond. An interrupt is not taken for another command's because every command forgets it first, and because the controller has
no command in progress from then on until the next is written, which is what the end of each wait is needed for (`InterruptInv`).
A read: between sectors the buffer is
whole; in a sector it has the chunks kept of the one the controller was told to read, however far it has
got or run on (`ReadGoesWell`); that the sector is whole when the command is over is what `uha_read` asks (`IsWhole`), and
nothing the controller does. That the sector is the one asked for needs two sectors to have two addresses, which is
division with remainder (`AddressOfSector`).

A load rests on three results about the operators. What the recursive definition `Chain` computes is a sequence in which each
cluster is followed by what the table says (`ChainFollows`): there is one such sequence of every length, by the
least number for which there would be none, and they agree. The table is decoded as it was written, 12 bits of every 24
(`TableIsDecoded`), and is long enough for every cluster the header admits, which is what `detect` has
compared (`Geometry`). And `lastContiguous` is the end of a run (`RunIsFound`), through which the chain goes cluster by cluster
(`ChainRuns`). The invariant (`LoadInv`) then says, while a run is read, how many clusters are loaded, that they are the first of the
chain, that the run is at the next one, and that the file has room for it (`IsLoading`). A run that has no room means that the file is
not sound, for no cluster of a run is an end mark (`NoRoom`); a chain that goes on nowhere, or too far, means that too
(`FileEnds`).

*Left to TLC.* Liveness, which the prover does not do:
`QueueDrains`, `SlotIsFreed`, `RoundRobinUnlessReset`, `SlotIsGivenBack`, `EveryItemIsHandled`,
`AttachReturns`, `GoneIsForgotten`, `EveryLoadReturns`. Every safety invariant and action property of a passing run is proved.

## 5. What is left out, and why

* *Registers, stacks, segments.* Who runs next, and through whose page directory, stands for them. (`Paging` has
  the translations the TLB may hold.)
* *Pointers from processes that are bad*: the kernel checks some and panics on others.
* *Inside `Scheduler`*: `k_que_dispatch` is one step (`DispatchQueue` has the steps);
  `k_proc_unlock` in the kernel is one step; `procSelect` is one turn per step, but one
  step when `hatch` calls it; the effects of a cleanup on tables that are not modelled. Who is bound to whom is
  open: a cleanup gives up to `MAX_BINDING` notices to any processes that listen, and a send or a reply may end a binding
  and bring its notice (`Ipc` has the table). A delivery in the kernel, with the unlock and the review it
  queues, is one step.
* *Inside `RunLoop`*: items without data, which no caller dispatches.
* *Inside `KeyboardService`*: the kernel's queue (the cleanups of one `bye` are one step,
  because the kernel empties its queue before any process runs); the start of the manager;
  listeners in excess of `MAX_IPC_LISTENER`; what a key is; that a process whose question was failed
  through another's page directory (`ipc.c:48`) may read success and register its listener: here it is told.
* *Inside `Ipc` and `Displays`*: the contents of messages; messages of the wrong size for their reply, which change
  nothing; more than one display. The manager is process 0, as `k_startup` makes it.
* *Inside `Storage`*: clusters of more than one sector; a disk that is changed; the bytes of a command to
  the controller and the time between two of them; bytes within a chunk of the FIFO, which the driver pulls at once.
* *Inside `Resources`*: the scheduler, which is the kernel's choice of any process that lives; the kernel's own
  tables; devices' parameters and identifiers, which change nothing.
* *Inside `Heap`*: the `fug` when `gapStart + allocSize` wraps around (`gunwmem.c:108-111`). Most of the module is never
  exercised, in the model as in the code: the search for a gap, linking and the release of pages need a list
  that is not empty, and finding 4 keeps it empty.
* *Whole components*: see the list in `PROJECT.json`. Displays, shell, terminal, game, boot loader and the
  string library keep no state that anything waits for.

## 6. The plan

In this order, the most important behaviour first; those marked are done.

1. (done) `Scheduler`, `ProcessTable`, with the theorems about the owner of the CPU.
2. (done) `TaskQueue`, `DispatchQueue`.
3. (done) `Mailbox`, `RunLoop`, with the proof of the refinement.
4. (done) `SessionStack`, `KeyboardService`.
5. (done) `Ipc`, and `Displays` over it.
6. (done) `Devices`, `Paging`, `Elf`, composed in `Resources`.
7. (done) `Timer`, `Floppy`, `Fat12`, composed in `Storage`.
8. (done) `Heap`, as far as the finding: with the first entry remembered, `BlocksAreDisjoint` and that a page
   is given back once are what to check.
9. The console: the cursor of `driver/display`, the terminal's buffer and the command line of the shell; what is shown is
   the command that will run.
10. `Ipc` with the page directories of `Paging`: the error of a failed reply reaches its sender.

Theorems worth proving next: `LoadIsTheFile` for clusters of more than one sector, once `RunIsRead` has a sector of its own
for each; the refinement of `Ipc` by what
`Scheduler` keeps of it, once both open the same steps.

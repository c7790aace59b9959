----------------------------- MODULE Resources -----------------------------
(***************************************************************************)
(* What a process owns, from its start to its end: the loader of programs  *)
(* (syscall/usr/start.c, lib/gunwelf) gives it pages, it asks for more and *)
(* gives some back, it holds devices, and the jobs its end puts in the     *)
(* kernel's queue take all of it back.                                     *)
(*                                                                         *)
(* The scheduler is reduced to the kernel switching to any process that    *)
(* lives and back to itself (see Scheduler for the rest), the queue to the *)
(* jobs of processes that have ended (see Storage for how a file is read). *)
(***************************************************************************)
EXTENDS Paging, Devices, Elf

CONSTANTS File,               \* the files a start may find
          STACK_SIZE,         \* of a process, KiB(256)
          Request             \* the arguments of MEM_PLZ: pages and an address

VARIABLES state, procCurrent,
          queue,              \* the jobs of processes that have ended
          loading,            \* the program the loader is working on
          oops                \* the kernel has panicked

procVars == <<state, procCurrent, queue, loading, oops>>
vars == <<procVars, pagingVars, deviceVars>>

\* left: the sections that still have to be given memory, by their index.
Nothing == [procId |-> NONE, file |-> 0, left |-> {}]

\* A job for the kernel's queue.
Job(fn, p) == [fn |-> fn, procId |-> p]

ASSUME ResourcesAssumption ==
  /\ File \subseteq elfHeader32
  /\ ADDR_SPACE = SPACE
  /\ STACK_SIZE \in 1 .. USER_SPACE
  /\ Request \subseteq Nat \X (0 .. SPACE - 1)

Init ==
  /\ PagingInit /\ DevicesInit
  /\ state = [p \in Proc |-> "NONE"]
  /\ procCurrent = KERNEL
  /\ queue = <<>>
  /\ loading = Nothing
  /\ oops = FALSE

Panic ==
  oops' = TRUE /\ UNCHANGED <<state, procCurrent, queue, loading, pagingVars, deviceVars>>

Idle == assigning = NoAssignment /\ loading = Nothing
\* The kernel's own code runs, and nothing of it is half done.
InKernel == ~oops /\ procCurrent = KERNEL /\ Booted /\ Idle
\* The process p runs its own code.
Runs(p) == ~oops /\ procCurrent = p /\ Idle

-----------------------------------------------------------------------------
(* The kernel starts (k_drv_loadMinimal).                                  *)

Install ==
  /\ ~oops
  /\ k_hal_install \/ AddDevice \/ k_dev_start
  /\ UNCHANGED <<procVars, pagingVars>>

LoadPanics == ~oops /\ LoadFails /\ Panic

-----------------------------------------------------------------------------
(* A start: loadElf, the stack, k_proc_hatch.                              *)

\* The lowest free slot, for a file that elfValidate lets pass. (Nothing
\* changes when there is none of either: the caller reads an error.)
Spawn ==
  /\ InKernel
  /\ \E file \in File, p \in Proc :
       /\ elfValidate(file, Expectation)
       /\ state[p] = "NONE" /\ \A q \in 0 .. p - 1 : state[q] # "NONE"
       /\ state' = [state EXCEPT ![p] = "NEW"]
       /\ loading' = [procId |-> p, file |-> file, left |-> Allocated(file)]
  /\ UNCHANGED <<procCurrent, queue, oops, pagingVars, deviceVars>>

Loads == ~oops /\ loading # Nothing /\ assigning = NoAssignment

Section == loading.file.sections[Min(loading.left)]

LoadSection ==
  /\ Loads /\ loading.left # {}
  /\ k_mem_gimme(loading.procId, Section.virtualAddr, Section.fileSizeBytes)
  /\ UNCHANGED <<physicalPages, processPageTables, cr3, tlb, procVars, deviceVars>>

\* The section has its pages: it is cleared, and copied if the file holds it.
SectionLoaded ==
  /\ ~oops /\ loading.procId = assigning.procId /\ loading.left # {}
  /\ AssignReturns
  /\ IF Granted
     THEN /\ loading' = [loading EXCEPT !.left = @ \ {Min(@)}]
          /\ UNCHANGED <<oops, physicalPages, processPageTables>>
          /\ MEM_ONTABLE
     ELSE /\ oops' = TRUE
          /\ UNCHANGED <<loading, physicalPages, processPageTables>>
          /\ FlushAfterAssign
  /\ UNCHANGED <<state, procCurrent, queue, deviceVars>>

LoadStack ==
  /\ Loads /\ loading.left = {}
  /\ k_mem_gimme(loading.procId, USER_SPACE - STACK_SIZE, STACK_SIZE)
  /\ UNCHANGED <<physicalPages, processPageTables, cr3, tlb, procVars, deviceVars>>

\* The highest end of a section is where the heap of the process starts.
Heap(file) ==
  Max({0} \cup {SectionEnd(file.sections[i]) : i \in Allocated(file)})

\* k_proc_hatch, which writes the process's argument to its stack.
Hatch ==
  /\ ~oops /\ loading.procId = assigning.procId /\ loading.left = {}
  /\ AssignResult = "NONE"
  /\ AssignReturns
  /\ UNCHANGED <<physicalPages, processPageTables, procCurrent, queue, deviceVars>>
  /\ IF loading.file.entry = 0 \/ Heap(loading.file) = 0
     THEN /\ oops' = TRUE
          /\ FlushAfterAssign
          /\ UNCHANGED <<state, loading>>
     ELSE /\ state' = [state EXCEPT ![loading.procId] = "ALIVE"]
          /\ loading' = Nothing
          /\ MEM_ONTABLE
          /\ UNCHANGED oops

\* k_proc_cleanup
Cleaned(p) ==
  /\ state' = [state EXCEPT ![p] = "NONE"]
  /\ k_paging_procCleanup(p)
  /\ KeepCR3

\* A stack that is not new, whole or part of it, ends the start.
NoStack ==
  /\ ~oops /\ loading.procId = assigning.procId /\ loading.left = {}
  /\ AssignResult # "NONE"
  /\ AssignReturns
  /\ Cleaned(loading.procId)
  /\ loading' = Nothing
  /\ UNCHANGED <<procCurrent, queue, oops, deviceVars>>

-----------------------------------------------------------------------------
(* Processes run and end.                                                  *)

Run(p) ==
  /\ InKernel
  /\ state[p] = "ALIVE"
  /\ procCurrent' = p
  /\ UNCHANGED <<physicalPages, processPageTables>>
  /\ k_paging_switch(p)
  /\ UNCHANGED <<state, queue, loading, oops, assigning, deviceVars>>

\* The kernel goes on in the address space of the process it interrupts.
ToKernel(p) ==
  /\ Runs(p)
  /\ procCurrent' = KERNEL
  /\ UNCHANGED <<state, queue, loading, oops, pagingVars, deviceVars>>

\* As Bye would be if it stopped the process before it queued the rest.
ByeStopsFirst(p) ==
  /\ Runs(p)
  /\ queue' = queue \o <<Job("proc_cleanup", p), Job("dev_procCleanup", p)>>
  /\ state' = [state EXCEPT ![p] = "FINISHED"]
  /\ procCurrent' = KERNEL
  /\ UNCHANGED <<loading, oops, pagingVars, deviceVars>>

\* BYE and FUG.
Bye(p) ==
  /\ Runs(p)
  /\ queue' = queue \o <<Job("dev_procCleanup", p), Job("proc_cleanup", p)>>
  /\ state' = [state EXCEPT ![p] = "FINISHED"]
  /\ procCurrent' = KERNEL
  /\ UNCHANGED <<loading, oops, pagingVars, deviceVars>>

DevCleanup ==
  /\ InKernel /\ queue # <<>> /\ Head(queue).fn = "dev_procCleanup"
  /\ k_dev_procCleanup(Head(queue).procId)
  /\ queue' = Tail(queue)
  /\ UNCHANGED <<state, procCurrent, loading, oops, pagingVars>>

ProcCleanup ==
  /\ InKernel /\ queue # <<>> /\ Head(queue).fn = "proc_cleanup"
  /\ Cleaned(Head(queue).procId)
  /\ queue' = Tail(queue)
  /\ UNCHANGED <<procCurrent, loading, oops, assigning, deviceVars>>

-----------------------------------------------------------------------------
(* System calls.                                                           *)

\* MEM_PLZ; an address that is not a page's is refused, which changes nothing.
MemPlz(p) ==
  /\ Runs(p)
  /\ \E r \in Request :
       /\ r[2] % MEM_PAGE_SIZE_BYTES = 0
       /\ k_mem_gimme(p, r[2], r[1] * MEM_PAGE_SIZE_BYTES % SPACE)
  /\ UNCHANGED <<physicalPages, processPageTables, cr3, tlb, procVars, deviceVars>>

MemPlzReturns(p) ==
  /\ ~oops /\ procCurrent = p /\ assigning.procId = p
  /\ AssignReturns
  /\ UNCHANGED <<physicalPages, processPageTables, procVars, deviceVars>>
  /\ FlushAfterAssign

\* MEM_THX; page 0 is refused.
MemThx(p) ==
  /\ Runs(p)
  /\ \E page \in Page \ {0} :
       \/ /\ Releasable(p, page)
          /\ k_paging_release(p, page)
          /\ UNCHANGED <<assigning, procVars, deviceVars>>
       \/ ~Releasable(p, page) /\ Panic

DevAcquire(p) ==
  /\ Runs(p)
  /\ \E id \in DOMAIN devices : k_dev_acquireHold(p, id - 1)
  /\ UNCHANGED <<procVars, pagingVars>>

DevRelease(p) ==
  /\ Runs(p)
  /\ \E id \in DOMAIN devices : k_dev_releaseHold(p, id - 1)
  /\ UNCHANGED <<procVars, pagingVars>>

DevListen(p) ==
  /\ Runs(p)
  /\ \E id \in DOMAIN devices : k_dev_listen(p, id - 1)
  /\ UNCHANGED <<procVars, pagingVars>>

\* The calls that name a device which is not there are a panic, DEV_LISTEN and
\* the calls about parameters excepted.
DevUnknown(p) ==
  /\ Runs(p)
  /\ \E id \in 0 .. MAX_DEVICES : ~validateInstalledId(id)
  /\ Panic

\* An event whose device is not known yet, that nobody takes, or whose listener
\* has ended is a panic; a listener that lives is called back (see Scheduler).
Interrupt(irq) ==
  /\ ~oops
  /\ Open(irq) /\ Emits(irq)
  /\ EmitterUnknown(irq) \/ (Listener(irq) \in Proc => state[Listener(irq)] # "ALIVE")
  /\ Panic

Next ==
  \/ Install \/ LoadPanics
  \/ Spawn \/ LoadSection \/ SectionLoaded \/ LoadStack \/ Hatch \/ NoStack
  \/ ~oops /\ AssignPage /\ UNCHANGED <<procVars, deviceVars>>
  \/ DevCleanup \/ ProcCleanup
  \/ \E p \in Proc :
       \/ Run(p) \/ ToKernel(p) \/ Bye(p)
       \/ MemPlz(p) \/ MemPlzReturns(p) \/ MemThx(p)
       \/ DevAcquire(p) \/ DevRelease(p) \/ DevListen(p) \/ DevUnknown(p)
  \/ \E irq \in Irq : Interrupt(irq)

Spec == Init /\ [][Next]_vars

-----------------------------------------------------------------------------
(* Properties.                                                             *)

\* The places where f is given to a process: which, and at which page.
Users(f) ==
  {u \in Proc \X UserPage : FrameAddress(processPageTables[u[1]], u[2]) = f}

\* No physical page is given twice, none of the kernel's is given, none is lost:
\* the count of a page is the number of places it is mapped at, at most one, and
\* only a process that has not been cleaned up has any. A failed assignment, a
\* start that is given up and every order of calls and ends included.
FramesAreAccountedFor ==
  \A f \in Frame \ {0} :
    /\ physicalPages[f].assignCount =
         Cardinality(Users(f)) + (IF physicalPages[f].reserved THEN 1 ELSE 0)
    /\ physicalPages[f].assignCount <= 1
    /\ \A u \in Users(f) : state[u[1]] # "NONE"

\* A process that runs reaches no page of another one, not even through what the
\* processor remembers of pages it has given back, or of a process whose
\* directory was in use before.
NoStaleShare ==
  procCurrent \in Proc =>
    \A t \in tlb : \A u \in Users(t[2]) : u[1] = procCurrent

\* Whenever the pages of a section have been granted, all of it, to its
\* first and its last byte, is memory of the process (the kernel writes there
\* next, and would fault).
LoadedIsMapped ==
  (loading.left # {} /\ assigning.procId # NONE /\ ~Assigning /\ Granted) =>
    \A b \in Section.virtualAddr .. Section.virtualAddr + Section.fileSizeBytes - 1 :
      FrameAddress(processPageTables[loading.procId], b \div MEM_PAGE_SIZE_BYTES) # 0

\* A device is held by a process that lives, or that has ended and whose hold is
\* about to be taken back before its slot is: no interrupt ever looks for a
\* process in a slot that is free or has a new owner.
HeldByTheLiving ==
  \A i \in DOMAIN devices :
    /\ devices[i].listener => devices[i].holder # NOBODY
    /\ devices[i].holder # NOBODY =>
         \/ state[devices[i].holder] = "ALIVE"
         \/ /\ state[devices[i].holder] = "FINISHED"
            /\ \E j \in DOMAIN queue : queue[j] = Job("dev_procCleanup", devices[i].holder)
-----------------------------------------------------------------------------
(* What every step keeps, from which the properties follow.                *)

\* The tables of each process are sound, and those of a slot that is free empty.
TablesAreSound ==
  \A p \in Proc : /\ Sound(processPageTables[p])
                  /\ state[p] = "NONE" => processPageTables[p] = NoTables

\* What is known of page f agrees with these tables: a page that is free has no
\* user, a page of the kernel none either, and any other one exactly one.
Owned(page, f, tables) ==
  /\ page.assignCount \in {0, 1}
  /\ page.assignCount = 0 => ~page.reserved
  /\ page.assignCount = 1 /\ ~page.reserved <=>
       \E p \in Proc, x \in UserPage : FrameAddress(tables[p], x) = f
  /\ \A p, q \in Proc, x, y \in UserPage :
       FrameAddress(tables[p], x) = f /\ FrameAddress(tables[q], y) = f => p = q /\ x = y

\* Page 0, which stands for no page, is never free.
FramesAreOwned ==
  /\ ~isPhysicalPageFree(0)
  /\ \A f \in Frame \ {0} : Owned(physicalPages[f], f, processPageTables)

\* The kernel works on one thing at a time: on a start, or on a call of the
\* process it has interrupted, whose directory is the one in use.
OneThingAtATime ==
  /\ loading # Nothing => state[loading.procId] = "NEW" /\ procCurrent = KERNEL
  /\ procCurrent \in Proc => state[procCurrent] = "ALIVE" /\ cr3 = procCurrent
  /\ IF assigning.procId = NONE THEN assigning = NoAssignment
     ELSE assigning.procId = IF loading = Nothing THEN procCurrent ELSE loading.procId

\* How far the pages of the section have been granted: those before the one at
\* hand are there, and the ones left are those up to the section's last byte.
SectionIsGranted ==
  loading.left # {} /\ assigning.procId # NONE /\ assigning.error = "NONE" =>
    LET first == Section.virtualAddr
        end == Section.virtualAddr + Section.fileSizeBytes
    IN /\ \A page \in first \div MEM_PAGE_SIZE_BYTES .. assigning.page - 1 :
            FrameAddress(processPageTables[loading.procId], page) # 0
       /\ \A b \in first .. end - 1 :
            b \div MEM_PAGE_SIZE_BYTES < assigning.page + assigning.left

\* The jobs of a process that has ended: each once, its slot comes last.
JobsAreInOrder ==
  \A i \in DOMAIN queue :
    /\ state[queue[i].procId] = "FINISHED"
    /\ \A j \in DOMAIN queue :
         /\ queue[i] = queue[j] => i = j
         /\ queue[i].fn = "proc_cleanup" /\ queue[j] = Job("dev_procCleanup", queue[i].procId) =>
              j < i

TypeOK ==
  /\ PagingTypeOK /\ DevicesTypeOK
  /\ \A i \in DOMAIN devices : devices[i].holder \in Proc \cup {NOBODY}
  /\ state \in [Proc -> {"NONE", "NEW", "ALIVE", "FINISHED"}]
  /\ procCurrent \in Proc \cup {KERNEL}
  /\ queue \in Seq([fn : {"dev_procCleanup", "proc_cleanup"}, procId : Proc])
  /\ \/ loading = Nothing
     \/ /\ loading \in [procId : Proc, file : File, left : SUBSET Nat]
        /\ loading.left \subseteq Allocated(loading.file)
  /\ oops \in BOOLEAN

IInv ==
  /\ TypeOK /\ TablesAreSound /\ FramesAreOwned /\ OneThingAtATime
  /\ NoStaleShare /\ SectionIsGranted /\ JobsAreInOrder /\ HeldByTheLiving
=============================================================================

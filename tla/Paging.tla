------------------------------- MODULE Paging -------------------------------
(***************************************************************************)
(* Physical pages and the page tables of the processes (hal/paging,        *)
(* hal/mem): a process is given pages one by one, gives one back at a      *)
(* time, and loses all of them when it is cleaned up.                      *)
(*                                                                         *)
(* The processor is modelled by CR3, whose directory is in use, and by the *)
(* translations that it may hold in its TLB: every one of the directory in *)
(* use, and each one of an earlier state of it until CR3 is written.       *)
(***************************************************************************)
EXTENDS Integers, Sequences, FiniteSets, FiniteSetsExt

CONSTANTS MAX_PROC,
          MEM_PAGE_SIZE_BYTES,
          MEM_MAX_PAGE_ENTRY,            \* entries of a page table
          MEM_MAX_DIR_ENTRY,             \* entries of a directory
          MEM_PHYSICAL_PAGE_COUNT,
          MEM_VIRTUAL_RESERVED_KERNEL_PAGE_TABLE_COUNT,
          memMap                         \* what the BIOS says of the memory

VARIABLES physicalPages,      \* what is known of each physical page
          processPageTables,  \* directory and tables of each process
          cr3, tlb,           \* the directory in use and what is kept of it
          assigning           \* the call of k_paging_assign that is running

pagingVars == <<physicalPages, processPageTables, cr3, tlb, assigning>>

KERNEL == -1
NONE == -2

Proc == 0 .. MAX_PROC - 1

MEM_VIRTUAL_USER_MAX_PAGE_TABLE_COUNT ==
  MEM_MAX_DIR_ENTRY - MEM_VIRTUAL_RESERVED_KERNEL_PAGE_TABLE_COUNT
MEM_VIRTUAL_USER_PAGE_TABLE_COUNT == MEM_PHYSICAL_PAGE_COUNT \div MEM_MAX_PAGE_ENTRY
MEM_MAX_VIRTUAL_PAGE_COUNT == MEM_MAX_DIR_ENTRY * MEM_MAX_PAGE_ENTRY
\* The addresses of a pointer, and the first one that is the kernel's.
SPACE == MEM_MAX_VIRTUAL_PAGE_COUNT * MEM_PAGE_SIZE_BYTES
USER_SPACE ==
  MEM_VIRTUAL_USER_MAX_PAGE_TABLE_COUNT * MEM_MAX_PAGE_ENTRY * MEM_PAGE_SIZE_BYTES

Frame == 0 .. MEM_PHYSICAL_PAGE_COUNT - 1
Table == 0 .. MEM_VIRTUAL_USER_PAGE_TABLE_COUNT - 1
UserDir == 0 .. MEM_VIRTUAL_USER_MAX_PAGE_TABLE_COUNT - 1
Entry == 0 .. MEM_MAX_PAGE_ENTRY - 1
Page == 0 .. MEM_MAX_VIRTUAL_PAGE_COUNT - 1

k_krn_memMapEntry ==
  [type : {"NONE", "MEMORY", "RESERVED"}, baseAddrHigh : Nat, lengthHigh : Nat,
   baseAddrLow : 0 .. SPACE - 1, lengthLow : 0 .. SPACE - 1]

\* The asserts of paging/data.h, and a map that starts as the boot loader leaves it.
ASSUME PagingAssumption ==
  /\ MAX_PROC \in Nat \ {0}
  /\ MEM_PAGE_SIZE_BYTES \in Nat \ {0, 1}
  /\ MEM_MAX_PAGE_ENTRY \in Nat \ {0}
  /\ MEM_MAX_DIR_ENTRY \in Nat
  /\ MEM_VIRTUAL_RESERVED_KERNEL_PAGE_TABLE_COUNT \in 1 .. MEM_VIRTUAL_USER_PAGE_TABLE_COUNT
  /\ MEM_PHYSICAL_PAGE_COUNT \in Nat
  /\ MEM_PHYSICAL_PAGE_COUNT % MEM_MAX_PAGE_ENTRY = 0
  /\ MEM_VIRTUAL_USER_PAGE_TABLE_COUNT <= MEM_MAX_DIR_ENTRY
  /\ memMap \in Seq(k_krn_memMapEntry)

-----------------------------------------------------------------------------
(* The physical memory.                                                    *)

alignedr(value, roundUp) ==
  (value \div MEM_PAGE_SIZE_BYTES
     + (IF roundUp /\ value % MEM_PAGE_SIZE_BYTES # 0 THEN 1 ELSE 0))
  * MEM_PAGE_SIZE_BYTES % SPACE

\* The physical pages an entry of the map speaks of: a region of memory shrinks
\* to whole pages and a reserved one grows to them.
PagesOf(e) ==
  LET end == e.baseAddrLow + e.lengthLow
      limit == \/ e.lengthHigh # 0
               \/ e.lengthLow # 0 /\ end % SPACE <= e.baseAddrLow
      usable == e.type = "MEMORY"
      start == alignedr(e.baseAddrLow, usable)
      next == IF limit THEN 0 ELSE alignedr(end % SPACE, ~usable)
      last == IF next = 0 THEN SPACE ELSE next
  IN IF \/ e.baseAddrHigh # 0
        \/ usable /\ start < e.baseAddrLow
        \/ ~limit /\ next <= start
     THEN {}
     ELSE {f \in Frame : f * MEM_PAGE_SIZE_BYTES \in start .. last - 1}

\* The pages that the kernel maps for itself.
Reserved(f) == f < MEM_VIRTUAL_RESERVED_KERNEL_PAGE_TABLE_COUNT * MEM_MAX_PAGE_ENTRY

\* The last entry that speaks of a page, before the one that ends the map, decides.
MappedBy(f) ==
  {i \in DOMAIN memMap : /\ \A j \in 1 .. i : memMap[j].type # "NONE"
                         /\ f \in PagesOf(memMap[i])}

initializePhysicalMemoryMap ==
  [f \in Frame |->
     LET present == MappedBy(f) # {}
     IN [present |-> present,
         available |-> present /\ memMap[Max(MappedBy(f))].type = "MEMORY",
         reserved |-> present /\ Reserved(f),
         assignCount |-> IF present /\ Reserved(f) THEN 1 ELSE 0]]

isPhysicalPageFree(f) ==
  /\ physicalPages[f].present
  /\ physicalPages[f].available
  /\ ~physicalPages[f].reserved
  /\ physicalPages[f].assignCount = 0

FreePages == {f \in Frame : isPhysicalPageFree(f)}

-----------------------------------------------------------------------------
(* The tables. Page table entries hold a frame, 0 while nothing is there.  *)

NoTables ==
  [pageDirectory |-> [d \in UserDir |-> NONE],
   pageTables |-> [t \in Table |-> [e \in Entry |-> 0]],
   pageTableInfo |-> {}]

FrameAddress(tables, page) ==
  LET table == tables.pageDirectory[page \div MEM_MAX_PAGE_ENTRY]
  IN IF table = NONE THEN 0 ELSE tables.pageTables[table][page % MEM_MAX_PAGE_ENTRY]

UserPage == {page \in Page : page \div MEM_MAX_PAGE_ENTRY \in UserDir}

Translations(tables) ==
  {t \in UserPage \X (Frame \ {0}) : FrameAddress(tables, t[1]) = t[2]}

\* What the processor may hold when CR3 has been written: d, of these tables.
Walked(tables, d) == IF d = KERNEL THEN {} ELSE Translations(tables[d])

\* Writing CR3, the same value included.
SetCR3(d) == cr3' = d /\ tlb' = Walked(processPageTables', d)
\* CR3 is left alone: the processor may pick up what is new.
KeepCR3 == cr3' = cr3 /\ tlb' = tlb \cup Walked(processPageTables', cr3)

\* Work on the memory of a process, from another directory and back to it.
MEM_ONTABLE == SetCR3(cr3)

\* As k_paging_switch would be if it left CR3 alone between two processes.
SwitchFromKernel(d) == IF cr3 = KERNEL THEN SetCR3(d) ELSE KeepCR3

k_paging_switch(d) == SetCR3(d)

-----------------------------------------------------------------------------
(* Giving pages.                                                           *)

NoAssignment == [procId |-> NONE, page |-> 0, left |-> 0,
                 newPages |-> FALSE, overlap |-> FALSE, error |-> "NONE"]

\* As k_mem_gimme would be if it rounded the size and not the end.
GimmeSize(p, vPtr, sizeBytes) ==
  assigning' =
    IF vPtr + sizeBytes > USER_SPACE \/ sizeBytes = 0
    THEN [NoAssignment EXCEPT !.procId = p, !.error = "INVALID_ARGUMENT"]
    ELSE [NoAssignment EXCEPT
            !.procId = p, !.page = vPtr \div MEM_PAGE_SIZE_BYTES,
            !.left = alignedr(sizeBytes, TRUE) \div MEM_PAGE_SIZE_BYTES]

\* k_mem_gimme up to the loop of k_paging_assign.
k_mem_gimme(p, vPtr, sizeBytes) ==
  LET vEnd == (vPtr + sizeBytes) % SPACE
      startPage == vPtr \div MEM_PAGE_SIZE_BYTES
      endPage == alignedr(vEnd, TRUE) \div MEM_PAGE_SIZE_BYTES
  IN assigning' =
       IF vEnd <= vPtr \/ vEnd > USER_SPACE
       THEN [NoAssignment EXCEPT !.procId = p, !.error = "INVALID_ARGUMENT"]
       ELSE [NoAssignment EXCEPT !.procId = p, !.page = startPage,
                                 !.left = endPage - startPage]

Assigning == assigning.left > 0 /\ assigning.error = "NONE"

getFreeTable(tables) == Table \ tables.pageTableInfo

assignDirEntry(tables, dirIndex) ==
  LET table == Min(getFreeTable(tables))
  IN [tables EXCEPT !.pageDirectory[dirIndex] = table,
                    !.pageTableInfo = @ \cup {table}]

assignVirtualPage(tables, page, f) ==
  LET table == tables.pageDirectory[page \div MEM_MAX_PAGE_ENTRY]
  IN [tables EXCEPT !.pageTables[table][page % MEM_MAX_PAGE_ENTRY] = f]

AssignFails(error) == assigning' = [assigning EXCEPT !.error = error]

\* One turn of the loop of k_paging_assign. A failure keeps what it has taken.
\* The pages k_mem_gimme lets through are below the kernel's.
AssignPage ==
  /\ Assigning
  /\ LET p == assigning.procId
         page == assigning.page
         dirIndex == page \div MEM_MAX_PAGE_ENTRY
         old == processPageTables[p]
         present == old.pageDirectory[dirIndex] # NONE
         tables == IF present THEN old ELSE assignDirEntry(old, dirIndex)
         next == [assigning EXCEPT !.page = @ + 1, !.left = @ - 1]
     IN \/ /\ ~present /\ getFreeTable(old) = {}
           /\ AssignFails("OUT_OF_PAGES")
           /\ UNCHANGED <<physicalPages, processPageTables>>
        \/ /\ present /\ FrameAddress(old, page) # 0
           /\ assigning' = [next EXCEPT !.overlap = TRUE]
           /\ UNCHANGED <<physicalPages, processPageTables>>
        \/ /\ present \/ getFreeTable(old) # {}
           /\ FrameAddress(tables, page) = 0
           /\ IF FreePages = {}
              THEN /\ AssignFails("OUT_OF_MEMORY")
                   /\ processPageTables' = [processPageTables EXCEPT ![p] = tables]
                   /\ UNCHANGED physicalPages
              ELSE /\ assigning' = [next EXCEPT !.newPages = TRUE]
                   /\ processPageTables' =
                        [processPageTables EXCEPT
                           ![p] = assignVirtualPage(tables, page, Min(FreePages))]
                   /\ physicalPages' =
                        [physicalPages EXCEPT ![Min(FreePages)].assignCount = @ + 1]
  /\ KeepCR3

\* How k_paging_assign, or k_mem_gimme before it, returns.
AssignResult ==
  IF assigning.error # "NONE" THEN assigning.error
  ELSE IF ~assigning.overlap THEN "NONE"
  ELSE IF assigning.newPages THEN "PART_ALREADY_ASSIGNED" ELSE "ALREADY_ASSIGNED"

\* Its callers take the pages that were there already for pages they got.
Granted == AssignResult \in {"NONE", "PART_ALREADY_ASSIGNED", "ALREADY_ASSIGNED"}

\* The TLB is flushed for the process whose directory is in use, unless it failed.
AssignReturns ==
  /\ assigning.procId # NONE /\ ~Assigning
  /\ assigning' = NoAssignment

FlushAfterAssign ==
  IF assigning.error = "NONE" /\ cr3 = assigning.procId THEN SetCR3(cr3) ELSE KeepCR3

-----------------------------------------------------------------------------
(* Taking them back.                                                       *)

\* k_paging_release panics for a page the process does not have.
Releasable(p, page) == page \in UserPage /\ FrameAddress(processPageTables[p], page) # 0

\* The page is taken out of the table; the TLB is not told.
k_paging_release(p, page) ==
  LET f == FrameAddress(processPageTables[p], page)
  IN /\ physicalPages' = [physicalPages EXCEPT ![f].assignCount = @ - 1]
     /\ processPageTables' =
          [processPageTables EXCEPT ![p] = assignVirtualPage(@, page, 0)]
     /\ KeepCR3

\* The entries of the tables in use that hold f.
Holding(p, f) ==
  {at \in processPageTables[p].pageTableInfo \X Entry :
     processPageTables[p].pageTables[at[1]][at[2]] = f}

\* As k_paging_procCleanup would be if it only cleared the directory.
CleanupKeepsTables(p) ==
  /\ physicalPages' =
       [f \in Frame |-> [physicalPages[f] EXCEPT
                           !.assignCount = @ - IF f = 0 THEN 0 ELSE Cardinality(Holding(p, f))]]
  /\ processPageTables' =
       [processPageTables EXCEPT ![p].pageDirectory = NoTables.pageDirectory,
                                 ![p].pageTableInfo = {}]

\* Every page goes back and the tables are emptied; CR3 may still hold them.
k_paging_procCleanup(p) ==
  /\ physicalPages' =
       [f \in Frame |-> IF f = 0 THEN physicalPages[f]
                        ELSE [physicalPages[f] EXCEPT
                                !.assignCount = @ - Cardinality(Holding(p, f))]]
  /\ processPageTables' = [processPageTables EXCEPT ![p] = NoTables]

PagingInit ==
  /\ physicalPages = initializePhysicalMemoryMap
  /\ processPageTables = [p \in Proc |-> NoTables]
  /\ cr3 = KERNEL
  /\ tlb = {}
  /\ assigning = NoAssignment

\* The tables of a process.
PageTables ==
  [pageDirectory : [UserDir -> Table \cup {NONE}],
   pageTables : [Table -> [Entry -> Frame]],
   pageTableInfo : SUBSET Table]

PhysicalPage ==
  [present : BOOLEAN, available : BOOLEAN, reserved : BOOLEAN, assignCount : Nat]

Assignment ==
  [procId : Proc \cup {NONE}, page : Nat, left : Nat, newPages : BOOLEAN, overlap : BOOLEAN,
   error : {"NONE", "INVALID_ARGUMENT", "OUT_OF_PAGES", "OUT_OF_MEMORY"}]

\* A directory names each of the tables in use once, and the others are empty.
Sound(tables) ==
  /\ \A d, e \in UserDir :
       tables.pageDirectory[d] = tables.pageDirectory[e] =>
         d = e \/ tables.pageDirectory[d] = NONE
  /\ \A t \in Table :
       /\ t \in tables.pageTableInfo <=> \E d \in UserDir : tables.pageDirectory[d] = t
       /\ t \notin tables.pageTableInfo => \A e \in Entry : tables.pageTables[t][e] = 0

PagingTypeOK ==
  /\ physicalPages \in [Frame -> PhysicalPage]
  /\ processPageTables \in [Proc -> PageTables]
  /\ cr3 \in Proc \cup {KERNEL}
  /\ tlb \subseteq UserPage \X (Frame \ {0})
  /\ assigning \in Assignment
  /\ assigning.left > 0 =>
       \A page \in assigning.page .. assigning.page + assigning.left - 1 : page \in UserPage
=============================================================================

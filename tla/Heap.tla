-------------------------------- MODULE Heap --------------------------------
(***************************************************************************)
(* The heap of an application (api/app/src/gunwmem.c): a list of entries,  *)
(* each in front of its block, in pages asked of the kernel (see Paging    *)
(* and Resources for the kernel's side of MEM_PLZ and MEM_THX).            *)
(***************************************************************************)
EXTENDS Integers, Sequences, FiniteSets, SequencesExt

CONSTANTS
  PAGE_SIZE,   \* divides ADDR_SPACE
  ENTRY,       \* sizeof(struct heapMetadataEntry)
  ADDR_SPACE,  \* addresses, 2^32
  _heapStart,  \* the end of the program's sections
  Size,        \* the sizes the application asks for
  MAX_BLOCK    \* bound: blocks it holds at a time

VARIABLES
  heapMetadataStartEntry,
  metadata,  \* the entries written, by their addresses
  pages,     \* the pages of the heap that the process has
  blocks,    \* what the application holds: where and how long
  state      \* of the process: running, or ended by FUG, or the kernel's panic

vars == <<heapMetadataStartEntry, metadata, pages, blocks, state>>

nullptr == 0
Wrapped(addr) == addr % ADDR_SPACE
PAGE_OF_ADDR(addr) == addr \div PAGE_SIZE
\* alignedr
Aligned(addr, up) ==
  Wrapped((IF up THEN (addr + PAGE_SIZE - 1) \div PAGE_SIZE ELSE addr \div PAGE_SIZE) * PAGE_SIZE)

\* The data that follows an entry ends here.
End(entry) == Wrapped(entry + ENTRY + metadata[entry].dataSizeBytes)
LAST_BYTE_ADDR(entry) == Wrapped(End(entry) - 1)

\* An entry plus sizeof(struct heapMetadataEntry) is as many entries further.
Data(entry) == Wrapped(entry + ENTRY * ENTRY)

fug == state' = "fug" /\ UNCHANGED <<heapMetadataStartEntry, metadata, pages, blocks>>

\* Pages that are there already count as given (syscall/usr/memplz.c).
memPagePlz(first, count) == pages' = pages \cup (first .. first + count - 1)

\* The first entry of the heap is remembered nowhere.
allocate(prev, next, dataSizeBytes) ==
  LET newEntry == IF prev # nullptr THEN End(prev) ELSE _heapStart
      startPageAddr == Aligned(newEntry, FALSE)
      followingPageAddr == Aligned(newEntry + ENTRY + dataSizeBytes, TRUE)
      entry == [dataSizeBytes |-> dataSizeBytes, next |-> next]
      linked == [a \in DOMAIN metadata |->
                   IF a = prev THEN [metadata[a] EXCEPT !.next = newEntry] ELSE metadata[a]]
  IN \/ fug  \* the kernel refuses
     \/ /\ followingPageAddr >= startPageAddr
        /\ memPagePlz(PAGE_OF_ADDR(startPageAddr), PAGE_OF_ADDR(followingPageAddr - startPageAddr))
        /\ metadata' = [a \in {newEntry} \cup DOMAIN metadata |->
                          IF a = newEntry THEN entry ELSE linked[a]]
        /\ blocks' = Append(blocks, [ptr |-> Data(newEntry), sizeBytes |-> dataSizeBytes])
        /\ UNCHANGED <<heapMetadataStartEntry, state>>

\* The entries of the list, in its order.
List ==
  LET order[e \in {nullptr} \cup DOMAIN metadata] ==
        IF e = nullptr THEN <<>> ELSE <<e>> \o order[metadata[e].next]
  IN order[heapMetadataStartEntry]

\* The first entry with a gap behind it that is large enough, or the last.
Fitting(allocSize) ==
  LET fits(i) == i = Len(List) \/ End(List[i]) + allocSize <= List[i + 1]
  IN List[CHOOSE i \in DOMAIN List : fits(i) /\ \A j \in 1 .. i - 1 : ~fits(j)]

memPlz(sizeBytes) ==
  LET allocSize == Wrapped(sizeBytes + ENTRY)
  IN /\ state = "running" /\ Len(blocks) < MAX_BLOCK
     /\ IF sizeBytes = 0 \/ allocSize < sizeBytes \/ Wrapped(_heapStart + allocSize) <= _heapStart
        THEN fug
        ELSE IF heapMetadataStartEntry = nullptr THEN allocate(nullptr, nullptr, sizeBytes)
        ELSE IF _heapStart + allocSize <= heapMetadataStartEntry
             THEN allocate(nullptr, heapMetadataStartEntry, sizeBytes)
             ELSE allocate(Fitting(allocSize), metadata[Fitting(allocSize)].next, sizeBytes)

\* MEM_THX of each page in turn: one that is not there is a panic of the kernel.
memPageThx(released) ==
  IF \E i \in DOMAIN released : released[i] \notin pages \/ \E j \in 1 .. i - 1 : released[j] = released[i]
  THEN state' = "panic" /\ UNCHANGED pages
  ELSE pages' = pages \ ToSet(released) /\ UNCHANGED state

\* Given back are the pages of the block, but for the first and the last one if
\* another block has a part of it; a block in one page gives it back twice.
memThx(b) ==
  LET found == {i \in DOMAIN List : Data(List[i]) = blocks[b].ptr}
      i == CHOOSE i \in found : \A j \in found : i <= j
      entry == List[i]
      next == metadata[entry].next
      leading == PAGE_OF_ADDR(blocks[b].ptr)
      trailing == PAGE_OF_ADDR(LAST_BYTE_ADDR(entry))
      leadingShared == \E j \in 1 .. i - 1 : PAGE_OF_ADDR(LAST_BYTE_ADDR(List[j])) = leading
      trailingShared == next # nullptr /\ PAGE_OF_ADDR(next) = trailing
      inner == [k \in 1 .. trailing - leading - 1 |-> leading + k]
  IN /\ state = "running" /\ b \in DOMAIN blocks
     /\ IF found = {} THEN fug
        ELSE /\ IF i = 1
                THEN heapMetadataStartEntry' = next /\ UNCHANGED metadata
                ELSE /\ metadata' = [metadata EXCEPT ![List[i - 1]].next = next]
                     /\ UNCHANGED heapMetadataStartEntry
             /\ memPageThx((IF leadingShared THEN <<>> ELSE <<leading>>) \o inner
                             \o (IF trailingShared THEN <<>> ELSE <<trailing>>))
             /\ blocks' = RemoveAt(blocks, b)

Init ==
  /\ heapMetadataStartEntry = nullptr
  /\ metadata = <<>> /\ pages = {} /\ blocks = <<>>
  /\ state = "running"

Next ==
  \/ \E sizeBytes \in Size : memPlz(sizeBytes)
  \/ \E b \in 1 .. MAX_BLOCK : memThx(b)

Spec == Init /\ [][Next]_vars

-----------------------------------------------------------------------------
\* memPlz returns memory that is new: no two blocks the application holds have a
\* byte in common (gunwmem.h).
BlocksAreDisjoint ==
  \A i, j \in DOMAIN blocks :
    i < j => \/ blocks[i].ptr + blocks[i].sizeBytes <= blocks[j].ptr
             \/ blocks[j].ptr + blocks[j].sizeBytes <= blocks[i].ptr
=============================================================================

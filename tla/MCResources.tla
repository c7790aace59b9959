---------------------------- MODULE MCResources ----------------------------
(***************************************************************************)
(* Two processes, pages of two bytes, tables of two entries, eight pages   *)
(* of user space, three tables for each and three physical pages to give.  *)
(***************************************************************************)
EXTENDS Resources

Region(type, base, length) ==
  [type |-> type, baseAddrHigh |-> 0, lengthHigh |-> 0,
   baseAddrLow |-> base, lengthLow |-> length]

\* Six physical pages: the kernel has the first two, a byte of the fourth is
\* reserved; what follows the sixth is not there.
Map == <<Region("MEMORY", 0, 13), Region("RESERVED", 7, 1), Region("NONE", 0, 0)>>

Keyboard == [type |-> {"KEYBOARD"}, api |-> {}, isr |-> TRUE, irq |-> 1,
             init |-> TRUE, start |-> TRUE, emits |-> TRUE]
Display == [type |-> {"MEM", "DISPLAY"}, isr |-> FALSE, irq |-> 0,
            api |-> Required["MEM"] \cup Required["DISPLAY"],
            init |-> TRUE, start |-> TRUE, emits |-> FALSE]

\* What the kernel starts with, and two lists that it panics for.
DriverLists ==
  {<<Keyboard>>, <<Display, [Keyboard EXCEPT !.irq = 0], [Keyboard EXCEPT !.irq = 0]>>,
   <<Display, [Keyboard EXCEPT !.start = FALSE]>>}

Alloc(addr, size, alignment) ==
  [type |-> "PROGBITS", attributes |-> {"ALLOC"}, virtualAddr |-> addr,
   fileSizeBytes |-> size, addressAlignment |-> alignment]
Symbols == [type |-> "NULL", attributes |-> {}, virtualAddr |-> 0,
            fileSizeBytes |-> 3, addressAlignment |-> 1]

Program(entry, sections) ==
  [magic |-> TRUE, class |-> "32", endianess |-> "LITTLE", idVersion |-> 1,
   type |-> "EXEC", architecture |-> 3, version |-> 1, entry |-> entry,
   programHeaderTable |-> 3, sectionHeaderTable |-> 9, elfHeaderSize |-> 3,
   programHeaderEntrySize |-> 1, sectionHeaderEntrySize |-> 1,
   fileSizeBytes |-> 9,
   programs |-> <<[alignment |-> 2, offset |-> 1, virtualAddr |-> 3]>>,
   sections |-> sections]

\* Two programs that run, one with a section that is not aligned; one that has
\* an empty section, one without an entry point, and one too short for its tables.
Files ==
  {Program(3, <<Symbols, Alloc(1, 2, 1)>>),
   Program(3, <<Alloc(2, 2, 2)>>),
   Program(3, <<Alloc(4, 0, 1)>>),
   Program(0, <<Alloc(2, 2, 2)>>),
   [Program(3, <<Alloc(2, 2, 2)>>) EXCEPT !.fileSizeBytes = 4]}

\* Two pages of two tables, a page more than a size holds, and the kernel's first.
Requests == {<<2, 6>>, <<11, 6>>, <<1, 16>>}
=============================================================================

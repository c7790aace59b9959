-------------------------------- MODULE Elf --------------------------------
(***************************************************************************)
(* The reader of executable files (lib/gunwelf): which files it accepts    *)
(* and what the loader takes from them.                                    *)
(*                                                                         *)
(* A file is a record of its header's fields, of the program entries that  *)
(* follow the header and of the section entries its LAST bytes hold: that  *)
(* is where the reader looks for them (SECTION_HEADER_ENTRY_OFFSET_32),    *)
(* whatever the header's sectionHeaderTable says.                          *)
(***************************************************************************)
EXTENDS Naturals, Sequences

CONSTANTS ADDR_SPACE,              \* one more than the last address of a size_t
          ELF_HEADER_SIZE_32, ELF_PROGRAM_ENTRY_SIZE_32, ELF_SECTION_ENTRY_SIZE_32

ELF_VERSION == 1

\* The parts of the format the reader tells apart; the rest it never looks at.
elfSectionAttr == {"WRITE", "ALLOC", "EXECINSTR"}
elfSectionType == {"NULL", "PROGBITS", "NOBITS"}

elfProgramHeaderEntry32 == [alignment : Nat, offset : Nat, virtualAddr : Nat]

elfSectionHeaderEntry32 ==
  [type : elfSectionType, attributes : SUBSET elfSectionAttr,
   virtualAddr : 0 .. ADDR_SPACE - 1, fileSizeBytes : 0 .. ADDR_SPACE - 1,
   addressAlignment : Nat]

elfHeader32 ==
  [magic : BOOLEAN, class : {"32", "64"}, endianess : {"LITTLE", "BIG"},
   idVersion : Nat, type : {"RELOC", "EXEC", "SHARED"}, architecture : Nat,
   version : Nat, entry : Nat, programHeaderTable : Nat, sectionHeaderTable : Nat,
   elfHeaderSize : Nat, programHeaderEntrySize : Nat, sectionHeaderEntrySize : Nat,
   fileSizeBytes : Nat,
   programs : Seq(elfProgramHeaderEntry32), sections : Seq(elfSectionHeaderEntry32)]

\* __builtin_popcount(n) == 1
PowerOfTwo(n) == \E k \in 0 .. n : n = 2 ^ k

validateIdentifier(h) == h.magic /\ h.idVersion = ELF_VERSION

validateExpectation(h, exp) ==
  \A field \in DOMAIN exp : h[field] = exp[field]

validateProgramHeaderEntry(e) ==
  e.alignment > 1 =>
    /\ PowerOfTwo(e.alignment)
    /\ e.offset % e.alignment = e.virtualAddr % e.alignment

\* An entry that asks for no alignment is not looked at, its end included.
validateSectionHeaderEntry(e) ==
  e.addressAlignment > 1 =>
    /\ PowerOfTwo(e.addressAlignment)
    /\ e.virtualAddr % e.addressAlignment = 0
    /\ e.virtualAddr = 0 \/ e.virtualAddr + e.fileSizeBytes < ADDR_SPACE

elfValidate(h, exp) ==
  /\ validateIdentifier(h)
  /\ h.idVersion = h.version
  /\ h.programHeaderTable # 0 /\ h.sectionHeaderTable # 0
  /\ h.class = "32"
  /\ h.elfHeaderSize = ELF_HEADER_SIZE_32
  /\ h.programHeaderEntrySize = ELF_PROGRAM_ENTRY_SIZE_32
  /\ h.sectionHeaderEntrySize = ELF_SECTION_ENTRY_SIZE_32
  /\ h.fileSizeBytes >= ELF_HEADER_SIZE_32
                        + Len(h.programs) * ELF_PROGRAM_ENTRY_SIZE_32
                        + Len(h.sections) * ELF_SECTION_ENTRY_SIZE_32
  /\ \A i \in DOMAIN h.programs : validateProgramHeaderEntry(h.programs[i])
  /\ \A i \in DOMAIN h.sections : validateSectionHeaderEntry(h.sections[i])
  /\ validateExpectation(h, exp)

\* What k_scr_usr_start expects: an executable for a 32-bit x86.
Expectation ==
  [class |-> "32", endianess |-> "LITTLE", type |-> "EXEC", architecture |-> 3]

\* The sections that take memory when the program runs, by their index.
Allocated(h) == {i \in DOMAIN h.sections : "ALLOC" \in h.sections[i].attributes}

\* The first address after a section, as an addr_t: loadElf takes the highest
\* one of the sections that take memory as the start of the heap.
SectionEnd(e) == (e.virtualAddr + e.fileSizeBytes) % ADDR_SPACE
=============================================================================

----------------------------- MODULE MCStorage -----------------------------
(***************************************************************************)
(* A storage for TLC: sectors of four bytes, tables of eight entries, six  *)
(* clusters of one sector, and a disk for each way a table can go wrong.   *)
(***************************************************************************)
EXTENDS Storage

Header ==
  [bytesPerLogicalSector |-> 4, logicalSectorsPerCluster |-> 1,
   reservedLogicalSectors |-> 1, numberOfFATs |-> 2,
   maxRootDirectoryEntries |-> 2, totalLogicalSectors |-> 13,
   logicalSectorsPerFAT |-> 3, hiddenSectors |-> 0, marks |-> TRUE]

HeaderRange == [offset |-> 1, length |-> 2]

EOF == 4095
BAD == 4087

File(cluster, size) ==
  [name |-> "file", firstLogicalCluster |-> cluster, fileSizeBytes |-> size]
Other == [name |-> "other", firstLogicalCluster |-> 7, fileSizeBytes |-> 0]

\* A disk whose clusters 2 to 5 have entries a, b, c and d.
With(a, b, c, d, e) ==
  LET table == [i \in 0 .. 5 |-> <<4080, EOF, a, b, c, d>>[i + 1]]
  IN [header |-> Header, table |-> table, copy |-> table,
      directory |-> <<Other, e>>]

Disks ==
  {With(3, 5, 0, EOF, File(2, 11)),                                 \* scattered
   With(3, 2, 0, 0, File(2, 12)),                                   \* a cycle
   With(3, 4, BAD, 0, File(3, 5)),                                  \* no end
   [With(4, 0, EOF, 0, File(2, 8)) EXCEPT !.copy[2] = 5],           \* copies differ
   [With(4, 0, EOF, 0, File(2, 8)) EXCEPT !.copy[4] = 5],           \* and after a 0
   [With(4, 0, EOF, 0, File(2, 8)) EXCEPT !.header.marks = FALSE]}  \* no FAT12

Paths ==
  {[volume |-> v, dot |-> d, nameLength |-> 4, extensionLength |-> 3, name |-> n] :
     v \in {0, 1}, d \in {TRUE}, n \in {"file", "other", "none"}}
  \cup {[volume |-> 0, dot |-> FALSE, nameLength |-> 4, extensionLength |-> 0,
         name |-> "file"]}

\* What the theorem about files asks of disks.
ASSUME MCStorageAssumption == DisksArePlain
=============================================================================

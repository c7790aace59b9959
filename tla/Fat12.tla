------------------------------- MODULE Fat12 -------------------------------
(***************************************************************************)
(* The FAT12 file system (driver/fat12/fat12.c): what the descriptor it    *)
(* registers computes from the header of a disk h, the bytes of its file   *)
(* allocation table and its root directory.  The names of header fields    *)
(* are those of struct dos_4_0_ebpb_t; ids, signatures and the media       *)
(* descriptor are one Boolean field, marks.                                *)
(***************************************************************************)
EXTENDS Integers, Sequences, FiniteSets

CONSTANTS
  DIR_BYTES,            \* sizeof(struct fat12_dir_t)
  HEADER_RANGE,         \* headerRange of the descriptor
  FILE_NAME_MAX_LENGTH,
  FILE_EXTENSION_MAX_LENGTH

ASSUME Fat12Assumption ==
  /\ {DIR_BYTES, FILE_NAME_MAX_LENGTH, FILE_EXTENSION_MAX_LENGTH} \subseteq Nat \ {0}
  /\ HEADER_RANGE \in [offset : Nat, length : Nat]

MIN_FILE_CLUSTER == 2
MAX_FILE_CLUSTER == 4079

\* What the model keeps of the header of a disk, and of a directory entry.
dos_4_0_ebpb_t ==
  [bytesPerLogicalSector : Nat, logicalSectorsPerCluster : Nat,
   reservedLogicalSectors : Nat, numberOfFATs : Nat,
   maxRootDirectoryEntries : Nat, totalLogicalSectors : Nat,
   logicalSectorsPerFAT : Nat, hiddenSectors : Nat, marks : BOOLEAN]
fat12_dir_t(names) ==
  [name : names, firstLogicalCluster : Nat, fileSizeBytes : Nat]

\* aligned of stdgunw/utils.c.
Aligned(value, alignment) ==
  IF value % alignment = 0 THEN value
  ELSE (value \div alignment) * alignment + alignment

fatRange(h) ==
  [offset |-> h.reservedLogicalSectors * h.bytesPerLogicalSector,
   length |-> h.numberOfFATs * h.logicalSectorsPerFAT * h.bytesPerLogicalSector]

directoryRange(h) ==
  [offset |-> fatRange(h).offset + fatRange(h).length,
   length |-> h.maxRootDirectoryEntries * DIR_BYTES]

firstClusterSector(h) ==
  (directoryRange(h).offset + directoryRange(h).length)
    \div h.bytesPerLogicalSector

clusterStartSector(h, cluster) ==
  firstClusterSector(h) + (cluster - MIN_FILE_CLUSTER) * h.logicalSectorsPerCluster

\* The entry of a cluster: 12 bits, in one and a half of the bytes fat[0], ...
nextClusterSwapped(fat, cluster) ==  \* variant: odd and even are swapped
  LET lsb == fat[(3 * cluster) \div 2]
      msb == fat[(3 * cluster) \div 2 + 1]
  IN IF cluster % 2 = 0 THEN msb * 16 + lsb \div 16 ELSE (msb % 16) * 256 + lsb
nextCluster(fat, cluster) ==
  LET lsb == fat[(3 * cluster) \div 2]
      msb == fat[(3 * cluster) \div 2 + 1]
  IN IF cluster % 2 = 1 THEN msb * 16 + lsb \div 16 ELSE (msb % 16) * 256 + lsb

\* The first two copies of the table are the same, as far as strcmpl looks: to
\* the first byte that is zero in both.  One copy will not do.
fatVerify(h, fat) ==
  LET size == h.logicalSectorsPerFAT * h.bytesPerLogicalSector
      same(i) == fat[i] = fat[size + i]
  IN /\ h.numberOfFATs > 1
     /\ \/ \A i \in 0 .. size - 1 : same(i)
        \/ \E z \in 0 .. size - 1 : fat[z] = 0 /\ \A i \in 0 .. z : same(i)

Location(h, cluster) ==
  [allocUnit |-> cluster, sector |-> clusterStartSector(h, cluster)]

nextLocation(h, fat, location) ==
  IF (location.sector + 1) % h.logicalSectorsPerCluster # 0
  THEN [location EXCEPT !.sector = @ + 1]
  ELSE Location(h, nextCluster(fat, location.allocUnit))

lastCluster(h) ==
  (h.totalLogicalSectors - firstClusterSector(h)) \div h.logicalSectorsPerCluster + 1

isValidForRead(h, location) ==
  /\ MIN_FILE_CLUSTER <= location.allocUnit
  /\ location.allocUnit <= lastCluster(h) /\ location.allocUnit <= MAX_FILE_CLUSTER

isContiguous(h, first, second) ==
  /\ second.allocUnit = first.allocUnit + 1
  /\ isValidForRead(h, first) /\ isValidForRead(h, second)

isEOF(location) == 4088 <= location.allocUnit /\ location.allocUnit <= 4095

validateDirEntry(h, entry) ==
  /\ entry.firstLogicalCluster >= MIN_FILE_CLUSTER
  /\ entry.firstLogicalCluster <=
       h.totalLogicalSectors - h.reservedLogicalSectors
         - h.numberOfFATs * h.logicalSectorsPerFAT
         - directoryRange(h).length \div h.bytesPerLogicalSector + 1
  /\ entry.fileSizeBytes > 0

\* The first entry of directory dir with this name, or none.
fileInfo(h, dir, name) ==
  LET found == {i \in 1 .. h.maxRootDirectoryEntries : dir[i].name = name}
      first == dir[CHOOSE i \in found : \A j \in found : i <= j]
  IN IF found # {} /\ validateDirEntry(h, first) THEN {first} ELSE {}

allocUnitAlignedBytes(h, bytes) ==
  Aligned(bytes, h.bytesPerLogicalSector * h.logicalSectorsPerCluster)

PowersOfTwo == {2^k : k \in 0 .. 15}

\* Whether a header is that of a FAT12 disk, on a drive of lba sectors of
\* sectSizeBytes bytes each.
detect(h, lba, sectSizeBytes) ==
  LET directoryBytes == h.maxRootDirectoryEntries * DIR_BYTES
      utilitySectors == h.reservedLogicalSectors
        + h.numberOfFATs * h.logicalSectorsPerFAT
        + directoryBytes \div h.bytesPerLogicalSector
      dataSectors == h.totalLogicalSectors - utilitySectors - h.hiddenSectors
      dataClusters == dataSectors \div h.logicalSectorsPerCluster
      fatBytes == h.logicalSectorsPerFAT * h.bytesPerLogicalSector
  IN /\ h.bytesPerLogicalSector \in PowersOfTwo
     /\ h.totalLogicalSectors <= lba
     /\ sectSizeBytes = h.bytesPerLogicalSector
     /\ 0 \notin {h.logicalSectorsPerCluster, h.reservedLogicalSectors,
                  h.numberOfFATs, h.maxRootDirectoryEntries,
                  h.totalLogicalSectors, h.logicalSectorsPerFAT}
     /\ h.marks
     /\ h.totalLogicalSectors % h.logicalSectorsPerCluster = 0
     /\ directoryBytes % h.bytesPerLogicalSector = 0
     /\ h.hiddenSectors < h.totalLogicalSectors
     /\ utilitySectors < h.totalLogicalSectors - h.hiddenSectors
     /\ dataSectors % h.logicalSectorsPerCluster = 0
     /\ h.maxRootDirectoryEntries <= dataClusters
     /\ (fatBytes * 8) % 12 = 0
     /\ dataClusters <= (fatBytes * 2) \div 3 - 2
=============================================================================

------------------------------ MODULE Storage ------------------------------
(***************************************************************************)
(* The storage of the kernel (storage/storage.c, volume.c, drive.c and     *)
(* file.c) on top of the floppy driver and the FAT12 file system:          *)
(* k_stor_init finds the drives and their volumes, and a file is found or  *)
(* loaded by reading the header, the directory and the file allocation     *)
(* table of its volume, and then its clusters, run after run.              *)
(*                                                                         *)
(* Each read is a read of the driver, and may fail.  What a sector holds   *)
(* is that of the disk in the drive; the contents of a cluster are told    *)
(* apart by its sector.  The kernel runs one load at a time: the code that *)
(* loads is run by its queue.                                              *)
(***************************************************************************)
EXTENDS Floppy, Fat12

CONSTANTS
  Disk,           \* disks: header, table of the entries, copy of it, directory
  Path,           \* paths that processes give
  SECTOR_BYTES,   \* geometry.sectSizeBytes
  MAX_DRIVES, MAX_VOLUMES

\* volumeId : name . extension
PathStructure(names) ==
  [volume : Nat, dot : BOOLEAN, nameLength : Nat, extensionLength : Nat,
   name : names]

ASSUME StorageAssumption ==
  /\ \A d \in Disk : /\ d.header \in dos_4_0_ebpb_t
                      /\ \A i \in DOMAIN d.directory :
                           d.directory[i] \in fat12_dir_t({d.directory[i].name})
  /\ \A p \in Path : p \in PathStructure({p.name})
  /\ SECTOR_BYTES \in Nat \ {0}
  /\ FDC_FDD_SUPPORT_COUNT <= MAX_DRIVES /\ FDC_FDD_SUPPORT_COUNT <= MAX_VOLUMES

VARIABLES
  disk,           \* the disk in each drive
  k_stor_drives,  \* the drives that were found, used in the order of their ids
  k_stor_volumes, \* the drives of the volumes
  at,             \* what the storage waits for the driver to do
  path,           \* the path that is looked for
  loads,          \* whether it is loaded, or only looked for
  file,           \* the entry that was found in the directory
  location,       \* currentLocation of loadFile
  dst,            \* the sectors that were loaded
  broken,         \* whether a read of this load has failed
  result          \* the error code

request == <<path, loads>>
progress == <<file, location, dst>>
storage == <<disk, k_stor_drives, k_stor_volumes, at, request, progress, broken,
             result>>
vars == <<timer, floppy, storage>>

\* The bytes of a table: two entries of 12 bits in three bytes.
Bytes(table) ==
  [i \in 0 .. 3 * ((Cardinality(DOMAIN table) + 1) \div 2) - 1 |->
     LET entry(c) == IF c \in DOMAIN table THEN table[c] ELSE 0
         even == entry(2 * (i \div 3))
         odd == entry(2 * (i \div 3) + 1)
     IN CASE i % 3 = 0 -> even % 256
          [] i % 3 = 1 -> ((odd % 16) * 16) + (even \div 256)
          [] OTHER -> odd \div 16]

\* Both copies of the table of disk d, as they are read.
fatBytes(d) ==
  LET size == d.header.logicalSectorsPerFAT * SECTOR_BYTES
      padded(t) == [i \in 0 .. size - 1 |->
                      IF i \in DOMAIN Bytes(t) THEN Bytes(t)[i] ELSE 0]
  IN [i \in 0 .. 2 * size - 1 |->
        IF i < size THEN padded(d.table)[i] ELSE padded(d.copy)[i - size]]

StorageInit ==
  /\ TimerInit /\ FloppyInit
  /\ disk \in [Drive -> Disk]
  /\ k_stor_drives = {} /\ k_stor_volumes = <<>>
  /\ at = "init" /\ path \in {CHOOSE p \in Path : TRUE} /\ loads = FALSE
  /\ file = {} /\ location = [allocUnit |-> 0, sector |-> 0] /\ dst = <<>>
  /\ broken = FALSE /\ result = "NONE"

-----------------------------------------------------------------------------
(* The volumes.                                                            *)

\* The sectors readBytes reads for a range of bytes.
FirstOf(range) == range.offset \div SECTOR_BYTES
CountOf(range) ==
  Aligned((range.offset % SECTOR_BYTES) + range.length, SECTOR_BYTES) \div SECTOR_BYTES

\* k_stor_volume_readBytes, on drive d.
ReadRange(d, range) == Read(d, FirstOf(range), CountOf(range))

ReadHeader(d) == ReadRange(d, HEADER_RANGE)

LowestOf(drives) == CHOOSE d \in drives : \A e \in drives : d <= e

\* addDrive, for the drives that are present.
detectDrives ==
  /\ At("idle") /\ at = "init"
  /\ k_stor_drives' = driveCount
  /\ IF driveCount = {}
     THEN at' = "ready" /\ UNCHANGED floppy
     ELSE at' = "volumes" /\ ReadHeader(LowestOf(driveCount))
  /\ UNCHANGED <<timer, disk, k_stor_volumes, request, progress, broken, result>>

\* detectFileSystem once the header of the drive has been read: a drive with
\* no disk is left out, one with a FAT12 disk is a volume.
IsVolume(d) == detect(disk[d].header, SECTORS, SECTOR_BYTES)
detectVolume ==
  /\ At("idle") /\ at = "volumes"
  /\ IF error \in {"NONE", "MEDIA_NOT_PRESENT"}
     THEN LET later == {d \in k_stor_drives : d > drive}
          IN /\ k_stor_volumes' = IF error = "NONE" /\ IsVolume(drive)
                                  THEN Append(k_stor_volumes, drive)
                                  ELSE k_stor_volumes
             /\ IF later = {}
                THEN at' = "ready" /\ UNCHANGED floppy
                ELSE UNCHANGED at /\ ReadHeader(LowestOf(later))
     ELSE /\ oops' = "header"
          /\ UNCHANGED <<k_stor_volumes, at, pc, caller, client, buffer, error,
                         wait, irqRecv, driveCount, motor, controller>>
  /\ UNCHANGED <<timer, disk, k_stor_drives, request, progress, broken, result>>

-----------------------------------------------------------------------------
(* Files.                                                                  *)

\* A path has the number of a volume, a name and, after a dot, an extension.
IsValidPath(p) ==
  /\ p.volume \in 0 .. Len(k_stor_volumes) - 1
  /\ p.dot
  /\ p.nameLength \in 1 .. FILE_NAME_MAX_LENGTH
  /\ p.extensionLength <= FILE_EXTENSION_MAX_LENGTH

\* The drive that is read, its disk and the header of that.
reading == k_stor_volumes[path.volume + 1]
inserted == disk[reading]
header == inserted.header

Finish(e) ==
  /\ at' = "ready" /\ result' = e
  /\ UNCHANGED <<floppy, progress>>

\* k_stor_file_load if load, and k_stor_file_getInfo otherwise.
Ask(load, p) ==
  /\ path' = p /\ loads' = load
  /\ file' = {} /\ dst' = <<>> /\ broken' = FALSE
  /\ IF IsValidPath(p)
     THEN /\ at' = "header" /\ result' = "NONE"
          /\ ReadHeader(k_stor_volumes[p.volume + 1])
     ELSE /\ at' = "ready" /\ result' = "INVALID_PATH"
          /\ UNCHANGED floppy
  /\ UNCHANGED <<timer, disk, k_stor_drives, k_stor_volumes, location>>

\* loadFile of start.c looks for the file, and loads it if there is one and it is not
\* empty.  Nobody else asks for files.
Continues == ~loads /\ result = "NONE" /\ \E e \in file : e.fileSizeBytes # 0
Start ==
  /\ At("idle") /\ at = "ready" /\ ~Continues
  /\ \E p \in Path : Ask(FALSE, p)
Load == At("idle") /\ at = "ready" /\ Continues /\ Ask(TRUE, path)

\* The driver is back with what the storage waits for at place; Then says how
\* it goes on if nothing has failed.
Back(place) ==
  /\ At("idle") /\ at = place
  /\ broken' = (error # "NONE")
  /\ UNCHANGED <<timer, disk, k_stor_drives, k_stor_volumes, request>>

HeaderIsRead ==
  /\ Back("header")
  /\ IF broken'
     THEN Finish("UNKNOWN")
     ELSE /\ at' = "directory"
          /\ ReadRange(reading, directoryRange(header))
          /\ UNCHANGED <<progress, result>>

DirectoryIsRead ==
  LET found == fileInfo(header, inserted.directory, path.name)
  IN /\ Back("directory")
     /\ CASE broken' -> Finish("UNKNOWN")
          [] ~broken' /\ found = {} -> Finish("NOT_FOUND")
          [] ~broken' /\ found # {} /\ ~loads ->
               /\ at' = "ready" /\ file' = found
               /\ UNCHANGED <<floppy, location, dst, result>>
          [] OTHER ->
               /\ at' = "table" /\ file' = found
               /\ ReadRange(reading, fatRange(header))
               /\ UNCHANGED <<location, dst, result>>

\* The file that is loaded, and the sectors it takes in whole clusters.
entry == CHOOSE e \in file : TRUE
expected == allocUnitAlignedBytes(header, entry.fileSizeBytes) \div SECTOR_BYTES

\* The last of the clusters that follow cluster c on the disk and in the table.
lastContiguous(c) ==
  LET fat == fatBytes(inserted)
      follows(b) == isContiguous(header, Location(header, b),
                                 Location(header, nextCluster(fat, b)))
  IN CHOOSE l \in c .. c + header.totalLogicalSectors :
       ~follows(l) /\ \A b \in c .. l - 1 : follows(b)

runLength(l) == lastContiguous(l.allocUnit) - l.allocUnit + 1

\* loadFile at location l, with the sectors loaded so far: the clusters to the
\* last contiguous one are read at once, unless the file is shorter.
Fits(l, loaded) == runLength(l) <= expected - Len(loaded)

ReadRun(l, loaded) ==
  /\ dst' = loaded
  /\ IF Fits(l, loaded)
     THEN /\ at' = "run" /\ location' = l
          /\ Read(reading, l.sector, runLength(l) * header.logicalSectorsPerCluster)
          /\ UNCHANGED result
     ELSE /\ at' = "ready" /\ result' = "UNKNOWN"
          /\ UNCHANGED <<floppy, location>>
  /\ UNCHANGED file

TableIsRead ==
  /\ Back("table")
  /\ IF broken' \/ ~fatVerify(header, fatBytes(inserted))
     THEN Finish("UNKNOWN")
     ELSE ReadRun(Location(header, entry.firstLogicalCluster), <<>>)

\* A run is loaded, one sector for each cluster: another follows, or the file
\* must end here.
RunIsRead ==
  LET next == nextLocation(header, fatBytes(inserted),
                 Location(header, lastContiguous(location.allocUnit)))
      loaded == dst \o [k \in 1 .. runLength(location) |-> buffer[k * CHUNKS][1]]
  IN /\ Back("run")
     /\ IF broken' THEN Finish("UNKNOWN")
        ELSE IF isValidForRead(header, next) /\ Len(loaded) < expected
        THEN ReadRun(next, loaded)
        ELSE /\ dst' = loaded /\ at' = "ready"
             /\ result' = IF isEOF(next) /\ Len(loaded) = expected
                          THEN "NONE" ELSE "UNKNOWN"
             /\ UNCHANGED <<floppy, file, location>>

-----------------------------------------------------------------------------
Next ==
  \/ Tick /\ UNCHANGED storage
  \/ Controller /\ UNCHANGED <<timer, storage>>
  \/ Driver /\ UNCHANGED <<timer, storage>>
  \/ detectDrives \/ detectVolume
  \/ Start \/ Load
  \/ HeaderIsRead \/ DirectoryIsRead \/ TableIsRead \/ RunIsRead

\* The timer goes on, and so does the kernel; the controller need not.
Goes == Driver /\ UNCHANGED <<timer, storage>>
Loads == detectDrives \/ detectVolume \/ HeaderIsRead \/ DirectoryIsRead
         \/ TableIsRead \/ RunIsRead

Spec == /\ StorageInit /\ [][Next]_vars
        /\ WF_vars(Tick /\ UNCHANGED storage) /\ WF_vars(Goes) /\ WF_vars(Loads)

-----------------------------------------------------------------------------
\* Cluster i of the chain that begins with c, as the table of disk d defines it;
\* 0 is none.
Chain(d, c) ==
  LET cluster[i \in Nat] ==
        IF i = 0 THEN c
        ELSE IF cluster[i - 1] \in DOMAIN d.table THEN d.table[cluster[i - 1]] ELSE 0
  IN cluster

\* The clusters of entry e, which are of a sector each, if its size is right.
Size(d, e) == allocUnitAlignedBytes(d.header, e.fileSizeBytes) \div SECTOR_BYTES

\* Whether the chain is sound: in the data area, and ended by an end mark.
IsFile(d, e) ==
  LET cluster == Chain(d, e.firstLogicalCluster)
  IN /\ Size(d, e) > 0
     /\ \A i \in 0 .. Size(d, e) - 1 :
          cluster[i] \in MIN_FILE_CLUSTER .. lastCluster(d.header)
     /\ cluster[Size(d, e)] \in 4088 .. 4095

Contents(d, e) ==
  LET cluster == Chain(d, e.firstLogicalCluster)
  IN [i \in 1 .. Size(d, e) |-> clusterStartSector(d.header, cluster[i - 1])]

\* A file that is loaded is the file on the disk, cluster by cluster, however
\* the table scatters it; and a file that is sound, with two equal copies of
\* the table, is loaded unless a read fails (loadFile, nextCluster).
LoadIsTheFile ==
  at = "ready" /\ loads /\ file # {} =>
    /\ result = "NONE" => IsFile(inserted, entry) /\ dst = Contents(inserted, entry)
    /\ result # "NONE" =>
         broken \/ ~IsFile(inserted, entry) \/ inserted.table # inserted.copy

\* Whatever the controller does or leaves undone, and whatever the disk says,
\* a file is loaded, refused or the kernel has panicked in the end: every wait
\* of the driver has its limit.
EveryLoadReturns == [](at # "ready" => <>(at = "ready" \/ oops # "none"))

-----------------------------------------------------------------------------
\* A disk as a floppy has it: clusters of one sector, two copies of a table that
\* has an entry of 12 bits for each of them, and no sectors in front.
Cluster == 0 .. 4095
IsPlain(d) ==
  LET h == d.header
  IN /\ h.logicalSectorsPerCluster = 1 /\ h.numberOfFATs = 2 /\ h.hiddenSectors = 0
     /\ lastCluster(h) <= MAX_FILE_CLUSTER
     /\ d.table \in [0 .. lastCluster(h) -> Cluster]
     /\ DOMAIN d.directory = 1 .. h.maxRootDirectoryEntries
DisksArePlain ==
  \A d \in Disk : detect(d.header, SECTORS, SECTOR_BYTES) => IsPlain(d)
=============================================================================

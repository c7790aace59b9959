\* One drive, a disk of 13 sectors of its 16, a clock of four values.
SPECIFICATION Spec
CONSTANTS
  k_pit_freq = 3
  k_pit_evFreq = 2
  TIME = 4
  FDC_FDD_SUPPORT_COUNT = 1
  CYLINDERS = 4
  HEADS = 2
  TRACK = 2
  CHUNKS = 2
  FDC_IRQDELAY_DEFAULT = 2
  SPIN_UP = 2
  DIR_BYTES = 4
  FILE_NAME_MAX_LENGTH = 8
  FILE_EXTENSION_MAX_LENGTH = 3
  SECTOR_BYTES = 4
  MAX_DRIVES = 8
  MAX_VOLUMES = 16
  HEADER_RANGE <- HeaderRange
  Disk <- Disks
  Path <- Paths
INVARIANTS InterruptIsOurs ReadIsWhole ClockIsTrue LoadIsTheFile
PROPERTIES EveryLoadReturns
CHECK_DEADLOCK FALSE

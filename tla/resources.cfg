\* Two processes, three physical pages to give, three tables for each process.
SPECIFICATION Spec
CONSTANTS
  MAX_PROC = 2
  MEM_PAGE_SIZE_BYTES = 2
  MEM_MAX_PAGE_ENTRY = 2
  MEM_MAX_DIR_ENTRY = 5
  MEM_PHYSICAL_PAGE_COUNT = 6
  MEM_VIRTUAL_RESERVED_KERNEL_PAGE_TABLE_COUNT = 1
  memMap <- Map
  MAX_DEVICES = 8
  DEV_IRQ_LIMIT = 8
  Drivers <- DriverLists
  ADDR_SPACE = 20
  ELF_HEADER_SIZE_32 = 3
  ELF_PROGRAM_ENTRY_SIZE_32 = 1
  ELF_SECTION_ENTRY_SIZE_32 = 1
  File <- Files
  STACK_SIZE = 2
  Request <- Requests
INVARIANTS FramesAreAccountedFor NoStaleShare LoadedIsMapped HeldByTheLiving
CHECK_DEADLOCK FALSE

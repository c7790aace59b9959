\* Entries of 8 bytes in pages of 128: blocks that share a page and blocks that do not.
SPECIFICATION Spec
CONSTANTS
  PAGE_SIZE = 128
  ENTRY = 8
  ADDR_SPACE = 2048
  _heapStart = 300
  Size = {0, 24, 200}
  MAX_BLOCK = 3
INVARIANTS BlocksAreDisjoint
\* the process has ended
CHECK_DEADLOCK FALSE

\* Two slots, one of them empty at boot; a run loop of one item.
CONSTANTS
  MAX_PROC = 2
  GRANULARITY_MS = 2
  MAX_QUEUE_LENGTH = 64
  DISPATCH_QUEUE_SIZE = 1
  MAX_BINDING = 1
  BOOTED = 1
SPECIFICATION FairSpec
PROPERTIES
  RoundRobin
\* a panic halts the CPU
CHECK_DEADLOCK FALSE

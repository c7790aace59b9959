\* Three slots, all taken at boot (one is freed by the first bye); a run loop of one item.
CONSTANTS
  MAX_PROC = 3
  GRANULARITY_MS = 1
  MAX_QUEUE_LENGTH = 64
  DISPATCH_QUEUE_SIZE = 1
  MAX_BINDING = 1
  BOOTED = 3
SPECIFICATION FairSpec
PROPERTIES
  QueueDrains
  SlotIsFreed
  RoundRobinUnlessReset
\* a panic halts the CPU
CHECK_DEADLOCK FALSE

\* Three slots, two of them taken at boot, run loops of two items: a sender, a
\* handler and a third process, and a slot that is freed and taken again.
CONSTANTS
  MAX_PROC = 3
  GRANULARITY_MS = 2
  MAX_QUEUE_LENGTH = 64
  DISPATCH_QUEUE_SIZE = 2
  MAX_BINDING = 2
  BOOTED = 2
SPECIFICATION Spec
INVARIANTS
  TypeOK
  OneOwner
  NoProcPanic
  BlockedByOneLock
  NoLostWakeup
  IdleOnlyIfNobodyReady
  ReplyIsOwed
  FreeSlotIsClean
  QueueBounded
  StartReadsItsCaller
PROPERTIES
  ImplementsTable
\* a panic halts the CPU
CHECK_DEADLOCK FALSE

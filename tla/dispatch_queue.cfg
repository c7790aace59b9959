\* Three slots: a list that fills, with functions queued by interrupts while one
\* is run, and between the steps of a dispatch that is not in a critical section.
CONSTANTS
  MAX_QUEUE_LENGTH = 3
  Function = {"schedEvaluate", "waitForEvent", "unlockIfAble", "ipcCleanup"}
SPECIFICATION FairSteadySpec
INVARIANTS
  FetchedIsEnabled
  ReservedIsLinked
PROPERTIES
  ImplementsQueue
  SlotIsGivenBack
\* a panic halts the CPU
CHECK_DEADLOCK FALSE

\* As dispatch_queue, with a function that dispatches with interrupts enabled.
CONSTANTS
  MAX_QUEUE_LENGTH = 4
  Function = {"schedEvaluate", "unlockIfAble"}
SPECIFICATION Spec
INVARIANTS
  FetchedIsEnabled
\* a panic halts the CPU
CHECK_DEADLOCK FALSE

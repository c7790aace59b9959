\* Two applications that come and go, three sessions, run loops of two items, and bindings
\* that run out.
CONSTANTS
  Client = {shell, game}
  NONE_PROC_ID = NONE_PROC_ID
  MAX_SESSION = 3
  DISPATCH_QUEUE_SIZE = 2
  MAX_BINDING = 5
  MAX_ATTACH = 2
SPECIFICATION FairSpec
INVARIANTS
  StackIsSound
  SessionIsAccountedFor
  StrangersGetNoKeys
PROPERTIES
  FocusFallsBack
  AttachReturns
  GoneIsForgotten
\* a panic halts the CPU
CHECK_DEADLOCK FALSE

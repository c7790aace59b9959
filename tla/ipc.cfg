\* Three processes, two bindings, run loops of two items.
SPECIFICATION Spec
CONSTANTS
  MAX_PROC = 3
  MAX_IPC_LISTENER = 7
  MAX_IPC_TOKEN = 2
  MAX_BINDING = 2
  DISPATCH_QUEUE_SIZE = 2
  GNW_PATH_IPC_MAX_LENGTH = 8
  AlphaNumeric <- Characters
  MAX_SESSION = 2
  Registration <- Registrations
  Query <- Queries
  BindData <- Answered
INVARIANTS EveryReplyIsOwed GoneIsAnnounced SessionIsAnnounced
\* a panic halts the CPU
CHECK_DEADLOCK FALSE

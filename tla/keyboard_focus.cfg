\* As keyboard_service.
CONSTANTS
  Client = {shell, game, other}
  NONE_PROC_ID = NONE_PROC_ID
  MAX_SESSION = 3
  DISPATCH_QUEUE_SIZE = 2
  MAX_BINDING = 5
  MAX_ATTACH = 1
SPECIFICATION Spec
PROPERTIES
  FocusIsKept
\* a panic halts the CPU
CHECK_DEADLOCK FALSE

SPECIFICATION Spec
CONSTANTS
  BASE = 16
  Calls <- DupCall
  Errors = {2, 9}
  Garbage = {0, 5}
  ROOM = 3
  Snug = {3, 5}
  Connections = {3, 4}
  MAXCALLS = 1
INVARIANT ServedAsCalled
CHECK_DEADLOCK FALSE

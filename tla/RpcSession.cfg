SPECIFICATION Spec
CONSTANTS
  BASE = 16
  Calls <- ProgramCalls
  Errors = {2, 9}
  Garbage = {0, 12}
  ROOM = 1
  Snug = {1, 3}
  Connections = {3, 4}
  MAXCALLS = 2
INVARIANTS TypeOK StreamsDrained PhantomsCarryNothing ChildOutlivesClient
PROPERTIES CallsReturn ChildEnds ImplementsRemoteCalls
CHECK_DEADLOCK FALSE

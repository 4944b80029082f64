SPECIFICATION Spec
CONSTANTS
  Client = {c1, c2, c3}
  MAXFDS = 2
  MAXPROCS = 3
  BACKLOG = 5
INVARIANTS Confined
PROPERTIES CallsAnswered ChildrenEnd
CHECK_DEADLOCK FALSE

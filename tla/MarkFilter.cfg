SPECIFICATION Spec
CONSTANTS
  CAP = 2
  Lines <- AllLines
  Pages = {0, 1}
INVARIANTS TypeOK PageKept NoOrphans
PROPERTIES OutputComes
CHECK_DEADLOCK FALSE

SPECIFICATION Spec
CONSTANTS
  CAP = 2
  Lines <- AllLines
  Pages <- SomePages
INVARIANTS TypeOK PageKept
PROPERTIES FilterReturns ObituaryComes
CHECK_DEADLOCK FALSE

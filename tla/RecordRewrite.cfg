SPECIFICATION Spec
CONSTANTS
  Texts <- SomeTexts
  NL = 10
  FAULTS = FALSE
  MAXRUNS = 0
  DESC = 2
  SHIFT = 4
  Counts = {1, 2}
  Offsets = {0}
  HOLE = 0
  MAXFDS = 2
  MAXWRITES = 3
PROPERTIES Rewrites

SPECIFICATION Spec
CONSTANTS
  Texts <- SomeTexts
  NL = 10
  FAULTS = TRUE
  MAXRUNS = 1
  DESC = 2
  SHIFT = 4
  Counts = {1, 2}
  Offsets = {0}
  HOLE = 0
  MAXFDS = 4
  MAXWRITES = 2
INVARIANTS TypeOK DescriptorsOwned WithinData IndexedLines
PROPERTIES ActsAsRecordFile IndexerEnds
CONSTRAINT OneHandleBesideIndexer
VIEW ButForAnswer

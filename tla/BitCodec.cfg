SPECIFICATION BitSpec
CONSTANTS
  BITS = 8
  FIELD = 3
  Symbols = {0, 255}
  MAXLEN = 12
INVARIANTS TypeOK DecodesInput WindowsAgree NeverAstray
PROPERTIES DzyEnds ImplementsCodec
CHECK_DEADLOCK FALSE

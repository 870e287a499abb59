CONSTANTS
  Layouts <- MCLayouts
  LineLens = {3, 5}
  BufSize = 5
  AddrTop = 12
  Begin = 2
  End = 10
  ShortReads = TRUE
  ReadErrors = TRUE
SPECIFICATION Spec
INVARIANT
  GapsExact
CHECK_DEADLOCK FALSE

CONSTANTS
  Layouts <- MCLayouts
  LineLens = {3, 6}
  BufSize = 5
  AddrTop = 12
  Begin = 2
  End = 10
  ShortReads = FALSE
  ReadErrors = FALSE
SPECIFICATION Spec
PROPERTY
  Termination
CHECK_DEADLOCK FALSE

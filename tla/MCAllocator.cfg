CONSTANTS
  Layouts <- MCLayouts
  LineLens = {3, 5}
  BufSize = 5
  AddrTop = 12
  Begin = 2
  End = 10
  ShortReads = FALSE
  ReadErrors = FALSE
SPECIFICATION Spec
INVARIANTS
  TypeOK
  GapsExact
  LayoutAfterSteal
PROPERTIES
  Termination
CHECK_DEADLOCK FALSE

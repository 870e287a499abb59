CONSTANTS
  PageSize = 8
  FirstIncrement = 2
  AddrTop = 48
  Brks = {8, 9, 12, 15, 16, 17}
  OtherPages = {16, 24, 32}
  MaxGrow = 10
  Probes = 3
  HostWidths = {39, 47, 48}
  BusyWidths = {36, 39, 47, 48}
  TopReserved = 1
  MaxCalls = 2
SPECIFICATION Spec
INVARIANTS
  TypeOK
  SbrkDisabled
  VASizeCorrect
PROPERTY
  DisableSBRKReturns
CHECK_DEADLOCK FALSE

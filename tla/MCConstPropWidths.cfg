CONSTANTS
  Programs <- MCPrograms
  InputVals = {0, 5, 13, 200}
  BPB = 1
  OpSizes = {4, 8}
  ConstVals = {3, 12}
  ShiftVals = {5}
  AddrShifts = {5}
  MulVals = {1, 2, 3, 8}
  LoadSizes = {2, 8}
  Mixed = TRUE
SPECIFICATION Spec
INVARIANT
  SemanticsPreserved
CHECK_DEADLOCK FALSE

CONSTANTS
  Programs <- MCPrograms
  InputVals = {0, 5, 13, 200}
  BPB = 1
  OpSizes = {4, 8}
  ConstVals = {3, 12}
  ShiftVals = {0, 3}
  AddrShifts = {0, 1, 3}
  MulVals = {1, 2, 3, 8}
  LoadSizes = {2, 8}
  Mixed = FALSE
SPECIFICATION Spec
INVARIANTS
  SemanticsPreserved
  ChangeReported
CHECK_DEADLOCK FALSE

CONSTANTS
  h1 = h1
  h2 = h2
  Handles <- MCHandles
  NodeCounts = {0, 2}
  SpillCounts = {1, 258}
  Regs = {3}
  InvalidRaw = 255
  UninitBytes = {0, 7}
  CopyFromCache = TRUE
  MaxFile = 22
SPECIFICATION Spec
INVARIANT
  NoLeak
CHECK_DEADLOCK FALSE

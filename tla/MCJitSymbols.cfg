CONSTANTS
  Fds = {3, 4, 5}
  PerfMap = PerfMap
  GuestFiles = {g1, g2}
  Closed = Closed
SPECIFICATION Spec
INVARIANT
  OnlyPerfMapTouched
CHECK_DEADLOCK FALSE

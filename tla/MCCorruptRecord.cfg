CONSTANTS
  t1 = t1
  t2 = t2
  h1 = h1
  Threads <- MCThreads
  Entries <- MCEntries
  Program <- MCProgram
  ThunkHashes <- MCThunkHashes
  ThunkAddrs <- MCThunkAddrs
  HostAddrs <- MCHostAddrs
  Versions = {1, 2}
  Capacity = 38
  AddrSpace = 64
  ImmBound = 8
  MaxRuns = 3
SPECIFICATION CorruptSpec
SYMMETRY MCSymmetry
INVARIANT
  InstalledBlocksExact

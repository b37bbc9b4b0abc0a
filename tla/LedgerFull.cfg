CONSTANTS
  r1 = r1
  r2 = r2
  c1 = c1
  c2 = c2
  Recorders <- MCRecorders
  Closers <- MCClosers
  Results <- MCResults
  Capacity = 2
  MaxRecords = 4
  MaxFaults = 0
  MaxCrashes = 0
SPECIFICATION SafeSpec
INVARIANT FailuresAreKept
CHECK_DEADLOCK FALSE

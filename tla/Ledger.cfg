CONSTANTS
  r1 = r1
  r2 = r2
  c1 = c1
  c2 = c2
  Recorders <- MCRecorders
  Closers <- MCClosers
  Results <- MCResults
  Capacity = 2
  MaxRecords = 4
  MaxFaults = 2
  MaxCrashes = 1
SPECIFICATION Spec
INVARIANTS
  TypeOK
  StoredInOrder
  OnlyFaultsDamage
  NothingLost
  FlushedOnClose
PROPERTIES
  CloseReturns
  ImplementsAuditLog
\* With everything recorded and the ledger closed, the system stops.
CHECK_DEADLOCK FALSE

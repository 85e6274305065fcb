SPECIFICATION FairSpec
CONSTANTS
  call1 = call1
  call2 = call2
  call3 = call3
  update = update
  rollback = rollback
  Workers <- Calls
  Operations <- OperationIds
  Idle = Idle
  Absent = Absent
  MaxFaults = 1
INVARIANTS
  TypeOK
  ExclusiveUnlessOverrun
PROPERTIES
  NamedOperationKeepsLease
  LockIsFreed

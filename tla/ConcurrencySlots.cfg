\* Two requests, two processes, one slot, one waiter, one start, two faults.
SPECIFICATION Spec
CONSTANTS
  Requests <- MCRequests
  Processes <- MCProcesses
  Nobody = Nobody
  MaxConcurrency = 1
  QueueLimit = 1
  MaxFaults = 2
  MaxStarts = 1
INVARIANTS
  TypeOK
  LimitKept
  NoGhostWaiters
  WaitersAreCounted
PROPERTIES
  LeftMemberEnds
CHECK_DEADLOCK FALSE

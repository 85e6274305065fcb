\* One batch that freezes 2 and costs 1, two workers, two faults.
SPECIFICATION Spec
CONSTANTS
  Workers <- MCWorkers
  Unlocked = Unlocked
  Orphaned = Orphaned
  Hold = 2
  Funds <- MCFunds
  OtherHolds <- MCOtherHolds
  Cost = 1
  MaxRetries = 2
  MaxFaults = 2
INVARIANTS
  TypeOK
  InflightIsQueued
  CompletedIsPaid
  RefundedMeansStopped
PROPERTIES
  LedgerIsKept
  HeldIsResolved
CHECK_DEADLOCK FALSE

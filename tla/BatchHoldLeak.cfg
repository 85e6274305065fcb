\* A cancellation that overtakes the reservation; nothing fails.
SPECIFICATION Spec
CONSTANTS
  Workers <- MCWorkers
  Unlocked = Unlocked
  Orphaned = Orphaned
  Hold = 2
  Funds <- MCFunds
  OtherHolds <- MCOtherHolds
  Cost = 1
  MaxRetries = 2
  MaxFaults = 0
INVARIANTS
  CancelledIsReleased
CHECK_DEADLOCK FALSE

SPECIFICATION Spec
CONSTANTS
  admin1 = admin1
  admin2 = admin2
  customer = customer
  Idle = Idle
  None = None
  Workers <- TwoAdmins
  Role <- TwoAdminsRole
  Amount = 1
  MaxFaults = 1
SYMMETRY AdminsAlike
INVARIANTS
  ClaimIsExclusive
  NeverOverRestored
PROPERTIES
  RefundIsFinal
\* A settled order and idle workers are the end of the story.
CHECK_DEADLOCK FALSE

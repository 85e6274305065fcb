SPECIFICATION FairSpec
CONSTANTS
  admin1 = admin1
  admin2 = admin2
  customer = customer
  Idle = Idle
  None = None
  Workers <- AdminAndCustomer
  Role <- AdminAndCustomerRole
  Amount = 2
  MaxFaults = 1
INVARIANTS
  DeductedAtMostOnce
CHECK_DEADLOCK FALSE

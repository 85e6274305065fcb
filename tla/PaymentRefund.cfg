SPECIFICATION FairSpec
CONSTANTS
  admin1 = admin1
  admin2 = admin2
  customer = customer
  Idle = Idle
  None = None
  Workers <- AdminAndCustomer
  Role <- AdminAndCustomerRole
  Amount = 2
  MaxFaults = 2
INVARIANTS
  TypeOK
  NothingWithheld
  RefundedMeansReturned
  DeductedOnceUnlessStuck
PROPERTIES
  RefundingEnds
\* A settled order and idle workers are the end of the story.
CHECK_DEADLOCK FALSE

SPECIFICATION FairSpec
CONSTANTS
  o1 = o1
  hook = hook
  client = client
  Idle = Idle
  Orders <- OneOrder
  Workers <- HookAndClient
  Role <- HookAndClientRole
  QueryGivesTradeNo = TRUE
  MaxFaults = 2
INVARIANTS
  TypeOK
  CreditedAtMostOnce
  CreditedOnlyIfPaid
  CompletedMeansDelivered
  AckedMeansHandled
PROPERTIES
  SettledIsFinal
  OnlyHolderFinishes
  PaidIsSettled
\* A settled order and idle workers are the end of the story.
CHECK_DEADLOCK FALSE

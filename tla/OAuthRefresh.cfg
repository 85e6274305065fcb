\* A background refresh and a request's, one operation of an administrator, two
\* faults.
SPECIFICATION Spec
CONSTANTS
  Workers <- MCWorkers
  Background <- MCBackground
  Processes <- MCProcesses
  Admins <- MCAdmins
  Nobody = Nobody
  MaxAttempts = 2
  MaxTokens = 1
  MaxRequests = 1
  MaxOperations = 1
  MaxFaults = 2
INVARIANTS
  TypeOK
  TokenIsKept
  QuarantineIsDeserved
PROPERTIES
  AuthorizationIsKept
  RefreshedOrSetAside
CHECK_DEADLOCK FALSE

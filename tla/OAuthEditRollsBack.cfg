\* One background refresh, one edit by an administrator, no failures.
SPECIFICATION Spec
CONSTANTS
  Workers <- MCWorkers
  Background <- MCBackground
  Processes <- MCProcesses
  Admins <- MCAdmins
  Nobody = Nobody
  MaxAttempts = 2
  MaxTokens = 1
  MaxRequests = 0
  MaxOperations = 1
  MaxFaults = 0
PROPERTIES
  RefreshIsKept
CHECK_DEADLOCK FALSE

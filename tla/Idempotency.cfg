SPECIFICATION Spec
CONSTANTS
  call1 = call1
  call2 = call2
  call3 = call3
  payload1 = payload1
  payload2 = payload2
  Workers <- Calls
  Fingerprints <- Payloads
  Idle = Idle
  Absent = Absent
  None = None
  MaxFaults = 1
SYMMETRY CallsAlike
INVARIANTS
  TypeOK
  OneEffectUnlessStale
  ReplayIsOwn
  StuckOnlyAfterFault

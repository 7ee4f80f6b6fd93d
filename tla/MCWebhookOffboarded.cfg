SPECIFICATION Spec
CONSTANTS
  j1 = j1
  j2 = j2
  created = created
  test = test
  Jobs <- MCJobs
  EventJobs <- MCEventJobs
  Keys <- MCKeys
  Key <- MCKey
  attempts = 2
  disableAfter = 2
  maxStalledCount = 1
  MaxFaults = 0
  MaxRetries = 0
INVARIANT
  OffboardedIsDisabled
CHECK_DEADLOCK FALSE

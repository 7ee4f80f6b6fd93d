SPECIFICATION FairSpec
CONSTANTS
  j1 = j1
  j2 = j2
  created = created
  test = test
  Jobs <- MCJobs
  EventJobs <- MCEventJobs
  Keys <- MCKeys
  Key <- MCKey
  attempts = 2
  disableAfter = 2
  maxStalledCount = 1
  MaxFaults = 2
  MaxRetries = 1
INVARIANTS
  TypeOK
  DeliveredWasReceived
  LimitDisables
  NotDisabledEarly
PROPERTIES
  KeepsLedger
  DeliveredOrDeadLettered
CHECK_DEADLOCK FALSE

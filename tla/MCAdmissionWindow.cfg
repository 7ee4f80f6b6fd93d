SPECIFICATION MCFairSpec
CONSTANTS
  p1 = p1
  p2 = p2
  k1 = k1
  k2 = k2
  batch = batch
  faulty = faulty
  keyed = keyed
  ip = ip
  m1 = m1
  m2 = m2
  m3 = m3
  Redis = Redis
  Processes <- MCProcesses
  Calls <- MCCalls
  Requests <- MCRequests
  RateKeys <- MCRateKeys
  KeysOf <- MCKeysOf
  Good <- MCGood
  Messages <- MCMessages
  Batch <- MCBatch
  Invalid <- MCInvalid
  Limit = 1
  Window = 0
  Skew = 0
PROPERTIES
  WindowEnds

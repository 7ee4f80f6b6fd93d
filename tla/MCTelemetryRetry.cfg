SPECIFICATION FairSpec
CONSTANTS
  m1 = m1
  m2 = m2
  w1 = w1
  w2 = w2
  a1 = a1
  r1 = r1
  r2 = r2
  e1 = e1
  Messages <- OneMessage
  Workers <- TwoWorkers
  Admins <- OneAdmin
  Recommendations <- OneRecommendation
  Endpoints <- OneEndpoint
  None = None
  attempts = 2
  maxStalledCount = 1
  Budgets <- NoFaults
PROPERTIES
  RetryRequeues

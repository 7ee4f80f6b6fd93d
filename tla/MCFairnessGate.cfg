SPECIFICATION FairSpec
CONSTANTS
  t1 = t1
  t2 = t2
  s1 = s1
  s2 = s2
  s3 = s3
  s4 = s4
  s5 = s5
  Tenants <- MCTenants
  Slots <- MCSlots
  NoTenant = NoTenant
  maximumPerTenant = 2
INVARIANTS
  WorkConserving
PROPERTIES
  EveryCallRuns

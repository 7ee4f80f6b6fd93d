SPECIFICATION AccessSpec
CONSTANTS
  tenantA = tenantA  ada = ada  solar = solar  battery = battery  roof = roof
  NoRef = NoRef  manager = manager  viewer = viewer
  Plants <- MCPlants
  Members <- MCMembers
  PlatformUsers = {}
  Changes = {c1}
  Requests = {q1}
CHECK_DEADLOCK FALSE
INVARIANT ReachedIsGranted

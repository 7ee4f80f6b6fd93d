SPECIFICATION MCSpec
CONSTANTS
  c1 = c1  c2 = c2  i1 = i1  u1 = u1  u2 = u2  u3 = u3  u4 = u4
  s1 = s1  s2 = s2  x1 = x1  x2 = x2  p1 = p1  p2 = p2  t1 = t1  t2 = t2
  NoValue = NoValue  Nobody = Nobody  Global = Global  NoRange = NoRange  NoUnit = NoUnit  NoReport = NoReport
  NoRef = NoRef  manager = manager  viewer = viewer
  IncidentIds = {i1}
  Updates = {u1, u2, u3, u4}
  Users = {}
  AccountCalls = {c1, c2}
  Sessions = {s1, s2}
  AccountTenants = {t1, t2}
  Tokens = {t1}
  Secrets = {x1, x2}
  Passwords = {p1, p2}
  RecoveryCodes = {i1}
  Threshold = 2
  TenantIds = {t1, t2}
  Persons = {s1, s2}
  TenantCalls = {c1, c2}
  Pings = {p1, p2}
  Flights = {c1, c2}
  MaxLinks = 4
  Hours <- MCHours
  Length = 2
  Sites <- MCSites
  Charges <- MCCharges
  Grain = 10
  Reserve = 150000
  Maximum = 900000
  RoundTrip = 92
  Owners = {s1}
  Versions = {x1, x2}
  Envelopes <- MCEnvelopes
  Profiles <- MCProfiles
  Physical <- MCPhysical
  Savers = {c1, c2}
  Harnesses = {c1, c2}
  Plants <- MCPlants
  Members <- MCMembers
  PlatformUsers = {s2}
  Changes = {i1}
  Requests = {p1}
SYMMETRY Symmetry
CHECK_DEADLOCK FALSE
INVARIANTS
  OperationsTypeOK
  CommentsKept
  EnabledSecretIsConfirmed
  LockedAfterFailures
  EndedIsOut
  OffboardingIsOnRecord
  UsersLeaveWithTenant
  OneConnection
  PlansAreFeasible
  OneChampion
  FlagsAreJustified
  MultiDayIsEarned
  ReachedIsExplained

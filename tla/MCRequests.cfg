SPECIFICATION MCSpec
CONSTANTS
  a1 = a1  a2 = a2  b1 = b1  b2 = b2  l1 = l1
  Api = Api  gateway = gateway  NoCredential = NoCredential
  Credentials = {a1, a2}
  Servers = {Api, gateway}
  Lookups = {l1}
  AdminCalls = {b1, b2}
  CacheMs = 1
  batch = batch  faulty = faulty  keyed = keyed  ip = ip
  m1 = m1  m2 = m2  m3 = m3  Redis = Redis
  Processes = {a1, a2}
  Calls = {b1, b2}
  Requests = {batch, faulty, keyed}
  RateKeys = {ip}
  KeysOf <- MCKeysOf
  Good = {batch, faulty}
  Messages = {m1, m2, m3}
  Batch <- MCBatch
  Invalid = {m3}
  Limit = 1
  Window = 1
  Skew = 1
  r1 = r1  operator = operator  approver = approver  reader = reader  None = None
  Recommendations = {r1}
  Actors = {operator, approver, reader}
  Permissions <- MCPermissions
SYMMETRY Alike
INVARIANTS
  RequestsTypeOK
  StaleForCacheMs
  OneKeyWorks
  ClaimOutlivesSignature
  AcceptedIsEnqueued
  ActorMayDecide
  TrailMatchesDecisions
PROPERTIES
  NeverUsableAgain
  SingleUsePerStore
  NothingReopens
  SettledStays

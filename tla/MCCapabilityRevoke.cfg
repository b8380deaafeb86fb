SPECIFICATION ServiceSpec
CONSTANTS
  h1 = h1
  alice = alice
  root = root
  Hashes = {h1}
  Labels = {}
  Tags = {}
  TagsOf <- NoTagsOf
  Days = {d1}
  Rels = {}
  Capabilities <- Signed
  NoHash = NoHash
  NoCapability = NoCapability
  Absent = Absent
  Torn = Torn
  MaxLog = 3
  Requests = {q1, q2}
  AnyHash = AnyHash
  Grants <- AdminAndLogin
  Routes = {"login", "read", "issue", "revoke"}
  Lifetime = 1
  TicksPerSecond = 1
  MaxTime = 2
  NoToken = NoToken
  Bootstrap = Bootstrap
INVARIANTS
  ServiceTypeOK
  RevokedIsRefused
  RevocationSticks
  RevokedIsLogged
  RevokedNeverListedActive
SYMMETRY RequestSymmetry
CHECK_DEADLOCK FALSE

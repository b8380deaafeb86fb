SPECIFICATION ServiceSpec
CONSTANTS
  h1 = h1
  alice = alice
  root = root
  Hashes = {h1}
  Labels = {}
  Tags = {}
  TagsOf <- NoTagsOf
  Days = {d1}
  Rels = {}
  Capabilities <- Signed
  NoHash = NoHash
  NoCapability = NoCapability
  Absent = Absent
  Torn = Torn
  MaxLog = 3
  Requests = {q1}
  AnyHash = AnyHash
  Grants <- OneUser
  Routes = {"read", "issue", "revoke"}
  Lifetime = 1
  TicksPerSecond = 2
  MaxTime = 3
  NoToken = NoToken
  Bootstrap = Bootstrap
INVARIANTS
  RevokedIsRefused
CHECK_DEADLOCK FALSE

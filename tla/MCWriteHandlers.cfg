SPECIFICATION HandlersSpec
CONSTANTS
  alice = alice
  Hashes = {h1}
  Labels = {l1}
  Tags = {}
  TagsOf <- NoTagsOf
  Days = {d1}
  Rels = {r1}
  Capabilities <- MCCapabilities
  NoHash = NoHash
  NoCapability = NoCapability
  Absent = Absent
  Torn = Torn
  MaxLog = 5
  Requests = {q1, q2}
  NoLabel = NoLabel
INVARIANTS
  HandlersTypeOK
  ErrorsAreOwn
  AnsweredNamesStay
  CapabilityFollowsObject
PROPERTIES
  EveryRequestAnswered
CHECK_DEADLOCK FALSE

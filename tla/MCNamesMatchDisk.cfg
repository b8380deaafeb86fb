SPECIFICATION Spec
CONSTANTS
  Hashes = {h1, h2}
  Labels = {l1, l2}
  Tags = {t1}
  TagsOf <- MCTagsOf
  h1 = h1
  h2 = h2
  t1 = t1
  l1 = l1
  l2 = l2
  Spellings = {"idea", "Idea"}
  ToLower <- MCToLower
  PathOf <- MCPathOf
  Nobody = Nobody
  Days = {d1}
  Rels = {r1}
  Capabilities <- MCCapabilities
  NoHash = NoHash
  NoCapability = NoCapability
  Absent = Absent
  Torn = Torn
  MaxLog = 3
  c1 = c1
  c2 = c2
  p1 = p1
INVARIANTS
  NamesMatchDisk
CHECK_DEADLOCK FALSE

SPECIFICATION Spec
CONSTANTS
  leaf = leaf
  list = list
  link = link
  Hashes <- MCHashes
  Content <- MCContent
  Labels = {l1}
  NoLabel = NoLabel
  MaxLog = 2
  MaxImports = 2
INVARIANTS
  TypeOK
  TraverseIsReachability
  ArchiveCoversLog
  QuietArchiveResolves
  
CHECK_DEADLOCK FALSE

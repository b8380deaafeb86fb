SPECIFICATION Spec
CONSTANTS
  Hashes = {h1, h2}
  Stashers = {s1, s2}
  Fetchers = {f1}
  Importers = {i1}
  MaxFaults = 2
INVARIANTS
  TypeOK
  
  

  
CHECK_DEADLOCK FALSE

SPECIFICATION Spec
CONSTANTS
  Server = server
  Commands = {c1}
  Imports = {i1}
  Uploads = {u1}
  BatchSize = 2
  MaxAppends = 2
  MaxStarts = 2
  Absent = Absent
  Empty = Empty
  Garbled = Garbled
INVARIANTS
  AckedSurvive
CHECK_DEADLOCK FALSE

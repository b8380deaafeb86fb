SPECIFICATION Spec
CONSTANTS
  Server = server
  Commands = {c1}
  Imports = {i1}
  Uploads = {u1}
  BatchSize = 2
  MaxAppends = 3
  MaxStarts = 3
  Absent = Absent
  Empty = Empty
  Garbled = Garbled
INVARIANTS
  TypeOK
  AckedSurviveAlone
  ServerKnowsAcked
  LogInOrder
  ImportIsWhole
CHECK_DEADLOCK FALSE

SPECIFICATION Spec
CONSTANTS
  Requests = {q1, q2, q3}
  Cost = 2
  Burst = 2
  MaxTime = 8
  MaxCalls = 9
INVARIANTS
  TypeOK
  NeverOverRate
  
  RetryAfterIsHonest
CHECK_DEADLOCK FALSE

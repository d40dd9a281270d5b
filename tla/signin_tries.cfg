CONSTANTS
  Requests = {r1}
  MaxAttempts = 3
  CodeTtl = 2
  Cooldown = 1
  MaxRequests = 4
SPECIFICATION Spec
INVARIANTS
  ThreeFailuresEvict
CHECK_DEADLOCK FALSE

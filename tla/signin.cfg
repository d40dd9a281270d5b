CONSTANTS
  Requests = {r1, r2}
  MaxAttempts = 2
  CodeTtl = 2
  Cooldown = 1
  MaxRequests = 4
SPECIFICATION Spec
INVARIANTS
  TypeOK
  FreshCodeWorks
  CountIsOfThisCode
  SingleUse
  AcceptedCodeServes
SYMMETRY MCSymmetry
CHECK_DEADLOCK FALSE

SPECIFICATION Spec
CONSTANTS
  Configs <- MCConfigs
  NotGiven = NotGiven
  Requests = {r1, r2}
  Messages <- MCMessages
  Sessions = {s1, s2}
  Users = {alice}
  TokenName = TokenName
  ProcessDefault = ProcessDefault
  Limits <- MCLimits
  MaxTime = 1
  MaxCharges = 3
SYMMETRY Symmetry
CHECK_DEADLOCK FALSE
INVARIANTS
  TypeOK
  ChargedToItsCaller
  CallersKeepToTheirQuota
  BucketsAreForCallers

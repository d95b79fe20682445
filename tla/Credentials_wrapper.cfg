SPECIFICATION Spec
CONSTANTS
  Calls = {c1}
  Assigned = {"recent_audit_events"}
  Tokens = {t1, t2}
  Unset = Unset
  NoClient = NoClient
  MaxRotations = 2
INVARIANTS
  WrapperUsesItsToken

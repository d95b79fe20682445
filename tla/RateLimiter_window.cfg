SPECIFICATION Spec
CONSTANTS
  Tools = {"billing_summary", "execute_sql_safe", "health"}
  Callers = {alice}
  Star = "*"
  Chunks <- MCChunks
  Malformed = Malformed
  Defaults <- MCDefaults
  Fallback <- MCFallback
  MaxTime = 5
  MaxCalls = 4
INVARIANTS
  TypeOK
  QuotaHolds
  OverridesInForce
PROPERTIES
  ImplementsSlidingWindow

SPECIFICATION Spec
CONSTANTS
  Tasks = {t1, t2}
  MaxDepth = 3
  MaxCalls = 3
  MaxCancels = 1
  MaxPrintFaults = 2
  NoTask = NoTask
  Exporter = TRUE
  AllowSync = TRUE
SYMMETRY TaskSymmetry
INVARIANTS
  TypeOK
  InFlightExact
  RecordsNest
  UnmatchedStartsExplained
  ContextIsInnermost
  TimeoutsAreOutermost
  TelemetryAgreesWithAudit

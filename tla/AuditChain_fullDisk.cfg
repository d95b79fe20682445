SPECIFICATION Spec
CONSTANTS
  Procs = {p1}
  FaultKinds = {"full"}
  MaxRecords = 3
  MaxCrashes = 0
INVARIANTS MismatchMeansChange

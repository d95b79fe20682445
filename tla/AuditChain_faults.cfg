SPECIFICATION Spec
CONSTANTS
  Procs = {p1, p2}
  FaultKinds = {"full", "short", "unreadable", "powerloss", "rotate"}
  MaxRecords = 4
  MaxCrashes = 2
SYMMETRY ProcSymmetry
INVARIANTS
  TypeOK
  AlarmHasACause
  SegmentsAreLinked
  AckedStaysReadable
  ChangesAreDetected

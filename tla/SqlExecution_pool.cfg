SPECIFICATION FairSpec
CONSTANTS
  Calls = {c1, c2}
  Workers = 1
  MaxCancels = 1
  SdkFaults = {c2}
  OddReplies = {c2}
INVARIANTS
  TypeOK
  GhostsAreAccounted
  TerminalRecordsAreTrue
  TimeoutsLeaveNoGhost
PROPERTIES
  ImplementsToolCall
  KnownStatementsStop
  CallsEnd

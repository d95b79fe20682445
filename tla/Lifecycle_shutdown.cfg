SPECIFICATION FairSpec
CONSTANTS
  NCallbacks = 3
  Stubborn = {2}
  ShutdownGrace = 5
  CleanupTimeout = 2
  MaxCalls = 2
  MaxSignals = 2
INVARIANTS TypeOK SkipsAreExplained
PROPERTIES DrainStaysAnnounced OverrunHasACause ShutdownEnds

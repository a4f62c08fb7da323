SPECIFICATION FairSpec
CONSTANTS
  Ports = 3
  Attempts = 3
  ObserverMayFail = TRUE
INVARIANTS
  NoCallOutlivesInterrupt
  TokenHoldsLive
  NothingLeftBehind
PROPERTIES
  KeepsContract
  WorkerEnds

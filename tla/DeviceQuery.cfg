SPECIFICATION FairSpec
CONSTANTS
  Devices = {d1, d2}
  None = None
INVARIANTS
  NothingLeftOpen
  TokenHoldsLive
  VerdictTells
PROPERTIES
  QueryEnds

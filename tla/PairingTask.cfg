SPECIFICATION FairSpec
CONSTANTS
  Addresses = {a1, a2}
  Empty = Empty
  Bad = Bad
  Cap = 2
  MaxSaid = 3
INVARIANTS
  NothingLeftRunning
  ButtonTells
  TellsTruth
PROPERTIES
  SavedIsPaired
  PairingEnds

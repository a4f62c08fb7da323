SPECIFICATION FairSpec
CONSTANTS
  Targets = {d1, d2}
  MaxUpdates = 3
INVARIANTS
  OneSessionPerUpdate
  StreamsMatch
  NewestSettingsWin
  FailureLeavesNoPicture
PROPERTIES
  PendingIsServed

SPECIFICATION FairSpec
CONSTANTS
  Created = 3
  Slots = 2
INVARIANTS
  JoinedOnce
  UnloadIsSafe
  OnlyTheGapLosesWork
PROPERTIES
  WorkIsDone

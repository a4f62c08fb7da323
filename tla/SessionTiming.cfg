\* Bounds: host times 3..7, device times 0..4.  Every limit is smaller than
\* the range of the clocks, so that each of them is passed.
CONSTANTS
  Disc = 2
  Smooth = 1
  HeadroomStep = 1
  MaxHeadroom = 1
  MaxGap = 2
  DriftDiv = 1
  DriftMax = 1
  MaxClock = 7
  MaxPts = 4
  Durations = {0, 2}
SPECIFICATION TimingSpec
INVARIANTS WithinReach
PROPERTIES RunsSmoothly
\* The clocks reach their bounds.
CHECK_DEADLOCK FALSE

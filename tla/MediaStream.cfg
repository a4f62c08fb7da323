SPECIFICATION Spec
CONSTANTS
  MaxConfigs = 3
INVARIANTS
  SinkHoldsLiveContext
  DecodesWithCurrentConfig
  OneLateDelivery
\* A destroyed stream does nothing more.
CHECK_DEADLOCK FALSE

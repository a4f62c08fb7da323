SPECIFICATION Spec
CONSTANTS
  Ports = 1
  Attempts = 1
  ObserverMayFail = TRUE
INVARIANTS
  TunnelClosedOnFailure

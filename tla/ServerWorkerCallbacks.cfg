SPECIFICATION Spec
CONSTANTS
  Ports = 1
  Attempts = 1
  ObserverMayFail = FALSE
INVARIANTS
  DocumentedCallbacks

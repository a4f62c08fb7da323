SPECIFICATION Spec
CONSTANTS
  Retirers = {r1}
  Senders = {s1}
  Failing = {"video", "audio", "receiver", "process", "adb", "thread", "connect"}
INVARIANTS
  BorrowersHoldLiveSockets
  RetiredIsQuiescent
  NoRunAfterRequest
  RunningIsComplete
  FaultsMatchState
PROPERTIES
  LifecycleOrder
  KeepsContract

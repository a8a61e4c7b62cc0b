SPECIFICATION Spec
CONSTANTS
  Scenarios = 2
  ClientCapacity = 1
  WireCapacity = 1
  MaxTakeoverAttempts = 1
  MaxLines = 1
  MaxDrops = 0
  FanOutCapacity = 1
  RunStatuses = {"passed", "failed", "inconclusive", "error", "cancelled"}
  AppendMayFail = TRUE
INVARIANTS
  LiveLinesAreWritten
  BoardExplainsExit
CHECK_DEADLOCK FALSE

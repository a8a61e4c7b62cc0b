SPECIFICATION Spec
CONSTANTS
  Scenarios = 2
  ClientCapacity = 1
  WireCapacity = 1
  MaxTakeoverAttempts = 1
  MaxLines = 1
  MaxDrops = 2
  FanOutCapacity = 1
  RunStatuses = {"failed", "cancelled"}
  AppendMayFail = FALSE
INVARIANTS
  BoardMatchesJournal
  FinishedBoardIsTrue
CHECK_DEADLOCK FALSE

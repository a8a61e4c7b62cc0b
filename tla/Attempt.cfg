SPECIFICATION Spec
CONSTANTS
  Criteria = {c1}
  Artifacts = {c1, page}
  Page = page
  CodeCriteria = {}
  Citations = {{}, {c1}}
  Claims = {"established-at-checkpoint"}
  MaxModelCalls = 2
  MaxTokens = 2
  VerifierReserveTokens = 1
  MaxUsage = 1
  Screenshots = "checkpoints"
  MaxIdleTurns = 1
  ModelCallRetries = 0
  MaxTurnCalls = 2
  Disturbances = {"cancellation", "interruption", "clock"}
  StoreMayFail = FALSE
INVARIANTS
  TypeOK
  NoSilentPass
  PendingOnlyWhenCutShort
PROPERTIES
  ExhaustionStopsBrowsing
  LedgerImplemented
  Returns
  CancelHonoured
  ActionsClosed
CHECK_DEADLOCK FALSE

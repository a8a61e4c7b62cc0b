SPECIFICATION Spec
CONSTANTS
  MaxModelCalls = 2
  MaxTokens = 2
  VerifierReserveTokens = 1
  MaxActions = 1
  MaxIdleTurns = 1
  Screenshots = "every-action"
  MaxActionIds = 2
  MaxCalls = 3
  Usage = 1
  MaxRefusals = 1
INVARIANTS
  TimelinesAgree
  GaugesReconcile
  OwnersAgree
CHECK_DEADLOCK FALSE

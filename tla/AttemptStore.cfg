SPECIFICATION Spec
CONSTANTS
  Criteria = {c1, c2}
  Artifacts = {c1, c2, page}
  Page = page
  CodeCriteria = {c1}
  Citations = {{}, {c1}}
  Claims = {"none"}
  MaxModelCalls = 2
  MaxTokens = 1
  VerifierReserveTokens = 0
  MaxUsage = 1
  Screenshots = "every-action"
  MaxIdleTurns = 1
  ModelCallRetries = 1
  MaxTurnCalls = 1
  Disturbances = {"cancellation"}
  StoreMayFail = TRUE
PROPERTIES
  VerdictsImplemented
CHECK_DEADLOCK FALSE

SPECIFICATION Laws
CONSTANTS
  Criteria = {c1}
  Artifacts = {a1, a2}
  MaxModelCalls = 5
  MaxTokens = 7
  VerifierReserveTokens = 2
  MaxUsage = 4
INVARIANTS
  VerdictsAreProven
  NoPassOnLostEvidence
  SpendBounded
  ReserveIsAPool
  VerifierOutlivesBrowser
PROPERTIES
  FailuresAreSeen
  AskingAgainNeverUpgrades
  RefusalIsFinal
CHECK_DEADLOCK FALSE

SPECIFICATION Spec
CONSTANTS
  Criteria = {c1, c2}
  Artifacts = {a1, a2}
  MaxEvidenceRequests = 1
  ModelCallRetries = 1
  Script <- ScriptedAnswers
  MaxCalls = 4
INVARIANTS
  EvidenceRequestsBounded
  VerdictsRestOnWhatWasRead
  OutagesAreOwn
CHECK_DEADLOCK FALSE

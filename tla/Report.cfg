SPECIFICATION Spec
CONSTANTS
  Criteria = {c1, c2}
  Artifacts = {a1, a2}
  MaxVerifications = 2
  MaxRefusals = 2
INVARIANTS
  GreenMeansPassed
  CitedIsOnDisk
  BoardMatchesReport
CHECK_DEADLOCK FALSE

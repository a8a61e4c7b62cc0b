CONSTANTS
  Elements = {e1}
  MaxDocuments = 2
  MaxObservations = 1
SPECIFICATION Spec
INVARIANTS
  SettledMeansSettled
CHECK_DEADLOCK FALSE

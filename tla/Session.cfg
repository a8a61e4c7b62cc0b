CONSTANTS
  Elements = {e1}
  MaxDocuments = 3
  MaxObservations = 2
SPECIFICATION Spec
INVARIANTS
  ElementsActedOnWereSeen
  CapturedOnce
  ClosedInOrder
CHECK_DEADLOCK FALSE

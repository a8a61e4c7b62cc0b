SPECIFICATION Spec
CONSTANTS
  MaxResources = 2
  RunStatuses = {"passed", "error", "inconclusive", "cancelled"}
  Requests <- SmallRequests
  Reserved = {"run.id"}
  Inherited = {"toString"}
  FixtureKeys = {"fixture.user"}
  RegisteredFixtures = {"known"}
  RegisteredChecks = {"known"}
INVARIANTS
  TypeOK
  JournalOrdered
  CleanedOnceInReverse
  GuardedFixtureReleased
  AttemptIsRecorded
  ValidateForesees
PROPERTIES
  Ends
CHECK_DEADLOCK FALSE

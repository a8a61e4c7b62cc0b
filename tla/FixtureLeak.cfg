SPECIFICATION Spec
CONSTANTS
  MaxResources = 2
  RunStatuses = {"passed", "error", "inconclusive", "cancelled"}
  Requests <- SmallRequests
  Reserved = {"run.id"}
  Inherited = {"toString"}
  FixtureKeys = {"fixture.user"}
  RegisteredFixtures = {"known"}
  RegisteredChecks = {"known"}
INVARIANT
  FixtureReleased
CHECK_DEADLOCK FALSE

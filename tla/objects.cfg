CONSTANTS
  Scenarios = {"auto", "manual", "semaphore", "mutex", "torn_down", "poll"}
  m1 = m1
SPECIFICATION Spec
INVARIANTS NoLostMultiWake NoLostAddressWake DeadOwnsNothing
PROPERTIES ImplementsNtObject ZeroTimeoutTruthful
CHECK_DEADLOCK FALSE

CONSTANTS
  Scenarios = {"poll_event"}
  m1 = m1
SPECIFICATION Spec
PROPERTIES ZeroTimeoutTruthful
CHECK_DEADLOCK FALSE

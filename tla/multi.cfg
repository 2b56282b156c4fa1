CONSTANTS
  Scenarios = {"all", "any", "select", "mutex"}
SPECIFICATION Spec
PROPERTIES ImplementsNtMulti
CHECK_DEADLOCK FALSE

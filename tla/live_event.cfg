CONSTANTS
  Kind = "auto"
  Threads = {1, 2, 3}
  IntMax = 7
  UlongSize = 16
  InitLow = 0
  InitHigh = 0
  CallsOf <- LiveCalls
  MaxCalls <- TwoOneOne
  MultiWaiters = {}
  MaxRegister = 0
  Killable = {}
  Closes = FALSE
SPECIFICATION FairSpec
PROPERTIES NoWaitStuckOnSignaled ServerAnswers
CHECK_DEADLOCK FALSE

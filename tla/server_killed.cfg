CONSTANTS
  Kind = "mutex"
  Threads = {1, 2}
  IntMax = 7
  UlongSize = 16
  InitLow = 0
  InitHigh = 0
  CallsOf <- KilledCalls
  MaxCalls <- TwoEach
  MultiWaiters = {}
  MaxRegister = 0
  Killable = {1}
  Closes = FALSE
SPECIFICATION FairSpec
PROPERTIES ServerAnswers
CHECK_DEADLOCK FALSE

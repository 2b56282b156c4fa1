CONSTANTS
  Objs = {1, 2}
  KindOf <- TwoMutexes
  Threads = {1, 2}
  IntMax = 7
  UlongSize = 16
  InitWord <- FirstOwnedBy2
  CallsOf <- HandOver
  MaxCalls <- OneTwo
SPECIFICATION FairSpec
PROPERTIES NoMultiWaitStuck
CHECK_DEADLOCK FALSE

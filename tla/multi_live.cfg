CONSTANTS
  Objs = {1, 2}
  KindOf <- AutoMutex
  Threads = {1, 2}
  IntMax = 7
  UlongSize = 16
  InitWord <- SecondOwnedBy2
  CallsOf <- LiveCalls
  MaxCalls <- OneTwo
SPECIFICATION FairSpec
INVARIANTS TypeOK WordsExclusive TakenStillSignaled NoLeakedRegistration ServerFlagExact NoLostSlotWake
PROPERTIES NoMultiWaitStuck LocksObtained
CHECK_DEADLOCK FALSE

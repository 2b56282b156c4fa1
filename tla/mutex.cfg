CONSTANTS
  Kind = "mutex"
  Threads = {1, 2}
  IntMax = 7
  UlongSize = 16
  InitLow = 0
  InitHigh = 0
  CallsOf <- MutexCalls
  MaxCalls <- TwoEach
  MultiWaiters = {m1}
  MaxRegister = 1
  Killable = {2}
  Closes = TRUE
SPECIFICATION Spec
INVARIANTS TypeOK LockExclusion SatisfiedStillSignaled NoLostMultiWake
PROPERTY NtSpec
CHECK_DEADLOCK FALSE

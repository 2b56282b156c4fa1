CONSTANT Parts = {"pool_work", "pool_group", "pool_timer", "io_one", "io_two", "waitq_merge", "waitq_set", "waitq_inline", "timerq_all", "timerq_sleep", "timerq_default"}
SPECIFICATION Spec
INVARIANTS TypeOK CountsExact NoUseAfterFree AssertionsHold NoOversleep
PROPERTIES CancelledQuiet NoCascade
CHECK_DEADLOCK FALSE

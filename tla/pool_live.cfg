CONSTANT Parts = {"pool_return", "io_return", "waitq_return", "timerq_return"}
SPECIFICATION LiveSpec
PROPERTIES CallsReturn WorkDone ReleasedFreed
CHECK_DEADLOCK FALSE

CONSTANT Parts = {"cache_return", "futex_return", "srw_return", "crit_handle", "crit_condition", "crit_exit", "once_return", "barrier", "resource_return", "slist_return"}
SPECIFICATION LiveSpec
PROPERTIES CallsReturn
CHECK_DEADLOCK FALSE

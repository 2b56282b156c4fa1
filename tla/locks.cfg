CONSTANT Parts = {"futex_wake", "futex_store", "srw_lock", "srw_condition", "crit_section", "once_mixed", "once_wait", "once_processes", "once_return", "barrier_four", "resource", "slist", "cache_ntsync", "cache_wfusync", "cache_dup", "cache_dup_wfusync"}
SPECIFICATION Spec
INVARIANTS TypeOK NoDanglingPointer NoLostWake WordsExact OneOwner ReferencesHeld WfuCacheCoherent
PROPERTIES KeepsPromise
CHECK_DEADLOCK FALSE

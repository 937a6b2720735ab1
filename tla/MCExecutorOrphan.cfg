\* executor.go:4-8: the timeout bounds every call.
SPECIFICATION FairSpec
CONSTANTS
    Calls = {c1}
    Orphans = TRUE
    None = None
CHECK_DEADLOCK FALSE
PROPERTIES
    EveryCallReturns

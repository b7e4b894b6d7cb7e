\* A fatal fault, then a reset.
SPECIFICATION Spec
CONSTANTS
    NumSlots = 3
    Quota <- LockQuota
    Priorities = {2}
    DefaultPriority = 2
    MaxDepth = 1
    MaxSem = 1
    Permitted = {"sleep", "fatal_fault", "reset"}
INVARIANT TimersMatchWaits
CHECK_DEADLOCK FALSE

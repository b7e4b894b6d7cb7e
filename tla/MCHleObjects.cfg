\* Semaphores, barriers, joins and sleeps; objects destroyed while in use; a fatal
\* fault.
SPECIFICATION Spec
CONSTANTS
    NumSlots = 3
    Quota <- CountedQuota
    Priorities = {1}
    DefaultPriority = 2
    MaxDepth = 1
    MaxSem = 2
    Permitted = {"timed", "fatal_fault", "destroy_busy", "sleep"}
INVARIANTS NoLostWakeup TimersMatchWaits
CHECK_DEADLOCK FALSE

\* Locks and condition variables, with deadlines and changing priorities.
SPECIFICATION FairSpec
CONSTANTS
    NumSlots = 4
    Quota <- LockQuota
    Priorities = {1, 2}
    DefaultPriority = 2
    MaxDepth = 2
    MaxSem = 1
    Permitted = {"timed", "set_priority"}
INVARIANTS NoForgottenWaiter LockView
PROPERTIES HandOffInOrder TimedWaitEnds
CHECK_DEADLOCK FALSE

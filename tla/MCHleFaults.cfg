\* Killed processes, locks held at exit, nested waits, resets.
SPECIFICATION Spec
CONSTANTS
    NumSlots = 3
    Quota <- FaultQuota
    Priorities = {2}
    DefaultPriority = 2
    MaxDepth = 2
    MaxSem = 1
    Permitted = {"kill", "process", "nested_wait", "np_trylock", "exit_locked", "np_thread", "detach", "reset"}
INVARIANTS QueueSound MutexConsistent
CHECK_DEADLOCK FALSE

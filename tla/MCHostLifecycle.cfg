\* Two application threads and the loop thread.
SPECIFICATION FairSpec
CONSTANTS
    Threads = {t1, t2}
    LoopThread = loop
CHECK_DEADLOCK FALSE
INVARIANTS OneLoopExecutor CleanupAlone
PROPERTY StopEndsLoop

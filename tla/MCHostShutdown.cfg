\* The loop after a request_shutdown.
SPECIFICATION FairSpec
CONSTANTS
    Threads = {t1, t2}
    LoopThread = loop
CHECK_DEADLOCK FALSE
PROPERTY ShutdownRequestEndsLoop

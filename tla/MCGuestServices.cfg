\* Threads: four of one priority on a vCPU.  Memory: one area in front of the
\* dynamic range, two flexible slots and one of direct memory, two page tables,
\* three mapping calls.  Audio: two formats, two ports, queues of three frames, a
\* voice of one frame and two buffers, six frames either way.
SPECIFICATION PartsSpec
CONSTANTS
    Threads = {t1, t2, t3, t4}
    Workers <- OneWorker
    Priorities <- OnePriority
    Affinities <- OnlyWorker
    None = None
    Permitted = {}
    Below = 1
    FlexibleSlots = 2
    DirectSlots = 1
    TableCount = 2
    MaxReservations = 1
    MaxMapCalls = 3
    Rights = {TRUE}
    MemoryPermitted = {}
    Formats = {f1, f2}
    NoVoice = NoVoice
    AudioPorts = 2
    MaxQueue = 3
    MixerRoom = 1
    MaxBuffers = 2
    MaxFrames = 6
    AudioPermitted = {}
INVARIANTS MemoryAccounted FramesInOrder
PROPERTIES RunnableRuns DrainCompletes MapUndisturbing
CHECK_DEADLOCK FALSE

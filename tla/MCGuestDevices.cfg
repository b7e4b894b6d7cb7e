\* Threads: three on two vCPUs, with switches, waits, exits, preemption, exception
\* handlers, changes of priority.  GPU: a ring of three beside submit calls of two packets,
\* four packets.  Events: a queue of three slots.  Frames: a ring of two, two
\* effects, four fences.
SPECIFICATION PartsSpec
CONSTANTS
    Threads = {t1, t2, t3}
    Workers <- TwoWorkers
    Priorities <- TwoPriorities
    Affinities <- AnyWorker
    None = None
    Permitted = {"signal", "attributes"}
    GpuQueues = {q1}
    RingDwords = 3
    MaxPackets = 4
    CallPackets = 2
    GpuPermitted = {}
    EventQueues = {0}
    SlotCount = 3
    Intervals = {2}
    VideoBuffers = {0}
    EventPermitted = {}
    FrameCount = 2
    Bounds = {b1}
    Surfaces = {s1}
    MaxEffects = 2
    MaxFences = 4
    MaxOps = 2
    FramesPermitted = {}
SYMMETRY ThreadSymmetry
INVARIANTS NotLost ResumePoint RingWhole LabelAfterWork EventsExact InFlightKept NewestArrives
    Lockstep
PROPERTY WorkConserving
CHECK_DEADLOCK FALSE

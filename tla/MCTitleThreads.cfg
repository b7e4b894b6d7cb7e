\* Threads: the PS2 process is killed at any moment, and its slot used again; the
\* machine may be reset.  Loading: titles of up to four files of seven
\* kinds, which may be too many or too large.  A title that does not load ends.
\* Saves: a save of two files, its backup and restore, with one crash or refusal
\* anywhere, and one slot of save data memory.
SPECIFICATION PartsSpec
CONSTANTS
    Threads = {t1, t2, t3}
    Workers <- TwoWorkers
    Priorities <- OnePriority
    Affinities <- SomeWorkers
    None = None
    Permitted = {"kill", "reset"}
    Listing <- MCListing
    FileKinds <- MCKinds
    HeapFamily = {"malloc", "free"}
    StaticExports = {"malloc", "free", "exit"}
    CompatExports = {"gnm"}
    RamPages = 6
    MaxModules = 2
    Names = {"a"}
    Marked <- MCMarked
    SaveFiles = {"icon", "data"}
    MaxVersion = 1
    MemorySlots = {0}
    MaxMemory = 2
    MaxFaults = 1
    SavePermitted = {}
SYMMETRY ThreadSymmetry
INVARIANTS OneCpu HeapTogether SavesWhole NothingLost
CHECK_DEADLOCK FALSE

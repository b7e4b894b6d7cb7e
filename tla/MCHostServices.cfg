\* Dialogs: one registration, a queue of three, five requests.  Storage: two
\* mount points, two objects, three paths, two handle numbers.
SPECIFICATION ServicesSpec
CONSTANTS
    MaxResponses = 3
    MaxDialogs = 5
    MaxRegistrations = 1
    Permitted = {}
    Objects = {o1, o2}
    MountPaths <- TwoMounts
    FilePaths <- ThreeFiles
    NumberCount = 2
    Backend = {b1, b2}
    None = None
INVARIANTS OneAnswerEach RightAnswer Answerable
PROPERTIES DialogFinishes LoansKept AllReturned
CHECK_DEADLOCK FALSE

\* Descriptors: three, so that a pair and a file compete; two handles, two threads,
\* two bytes, or one where a program may do anything (SmallWhenCareless).
\* Objects: four slots, a chain of the longest kind; two handles, two places.
SPECIFICATION TablesSpec
CONSTANTS
    Fd = {3, 4, 5}
    Thread = {1, 2}
    Handle = {h1, h2}
    NoHandle = none
    MaxQueue = 2
    Sizes = {0, 1}
    Slot = {1, 2, 3, 4}
    AppHandle = {h1, h2}
    NoLoan = none
    Place = {1, 2}
    Trophy = {t1, t2}
    MaxAuth = 3
    Depth = 2
    Mixes <- Together
SYMMETRY Symmetry
INVARIANTS HandlesAccounted SocketsWhole NoSleepOnData ObjectsWhole LoansNamed

--------------------------- MODULE MCGuestScheduler ---------------------------
\* The sets the runs give to the constants of the scheduler.
EXTENDS GuestScheduler, TLC

OneWorker  == {1}
TwoWorkers == {1, 2}

OnePriority == {700}
TwoPriorities == {256, 700}

OnlyWorker == {OneWorker}
AnyWorker  == {TwoWorkers}
\* every worker, or CPU 0 alone, where only the main thread runs
SomeWorkers == {{1, 2}, {0}}

ThreadSymmetry == Permutations(Threads)
=============================================================================

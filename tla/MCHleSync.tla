------------------------------ MODULE MCHleSync ------------------------------
\* The quotas of the runs: how many live objects of each type a run may have.
EXTENDS HleSync

QuotaOf(threads, others) ==
    [ty \in Types |-> IF ty = "thread" THEN threads
                      ELSE IF ty \in others THEN 1 ELSE 0]

\* a mutex and a condition variable, for three threads or two
LockQuota  == QuotaOf(2, {"mutex", "cond"})
FaultQuota == QuotaOf(1, {"mutex", "cond"})
\* the objects that count
CountedQuota == QuotaOf(2, {"sem", "ksema", "barrier"})
=============================================================================

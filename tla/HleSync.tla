------------------------------- MODULE HleSync -------------------------------
(***************************************************************************)
(* The synchronisation objects of the HLE kernel, hw/i386/shadps4-hle.c:    *)
(* guest threads and their joins, mutexes, condition variables, POSIX and   *)
(* kernel semaphores, barriers, sleeps, and the waits behind them.          *)
(*                                                                          *)
(* A guest call traps to the gateway and runs under the BQL, and so do the  *)
(* wait timers: every call and every expiry is one action.  Which vCPU runs *)
(* which thread is left to the scheduler: a thread takes a step whenever it *)
(* is not parked.  A call that fails and changes nothing is not a step.     *)
(***************************************************************************)
EXTENDS Naturals, FiniteSets

CONSTANTS
    NumSlots,         \* SHADPS4_HLE_MAX_SERVICE_OBJECTS - 1
    Quota,            \* bound: the live objects of each type
    Priorities,       \* the priorities guests choose from
    DefaultPriority,  \* 700, of the main thread and of default attributes
    MaxDepth,         \* bound: how often one thread locks a mutex
    MaxSem,           \* INT32_MAX, the largest semaphore value
    Permitted         \* what may happen in a run, of Hazards and Extras

\* Things a guest should not do, or that happen to a guest that is going
\* down: a run permits those whose consequences it looks at.
Hazards == {"destroy_busy",   \* destroying an object that is in use
            "nested_wait",    \* cond_wait with the mutex locked twice
            "exit_locked",    \* a thread that exits with a mutex locked
            "kill",           \* sceKernel PS2 process kill
            "np_trylock",     \* the NpCommon trylock by any thread
            "fatal_fault",    \* an unhandled guest exception
            "reset"}          \* qemu_host_reset

\* Legal calls that a run looking at something else leaves out.
Extras == {"timed",           \* waits with a deadline
           "sleep", "set_priority", "detach",
           "process",         \* the PS2 process thread
           "np_thread"}       \* NpCommon's threads, which never start

Types == {"mutex", "cond", "sem", "ksema", "barrier", "thread"}
Kinds == {"mutex", "cond", "sem", "ksema", "join", "barrier", "sleep"}

\* the kind of the waits in the queue of an object
KindFor(ty) == IF ty = "thread" THEN "join" ELSE ty

ASSUME SlotsAssumption    == NumSlots \in Nat \ {0}
ASSUME PriorityAssumption == /\ Priorities \subseteq Nat \ {0}
                             /\ DefaultPriority \in Nat \ {0}
ASSUME BoundsAssumption   == /\ MaxDepth \in Nat \ {0} /\ MaxSem \in Nat \ {0}
                             /\ Quota \in [Types -> Nat]
                             /\ Permitted \subseteq Hazards \cup Extras

Slots    == 1 .. NumSlots
Main     == NumSlots + 1      \* SHADPS4_HLE_MAIN_THREAD_SLOT
Callers  == 1 .. Main         \* the wait slots
NoThread == 0
NoObject == 0

VARIABLES
    \* service_objects and the columns kept beside it, by slot
    type, active, userData, value, aux, waiters, detached,
    \* pthread_attrs.priority by slot; 0 is unset
    prio,
    \* wait_kind, wait_object, wait_value and whether a deadline was given
    wait,
    waitMutex,      \* wait_mutex, which a finished wait may leave behind
    armed,          \* wait_timers that are pending
    parked,         \* the thread does not execute guest code
    held,           \* history: how often a thread believes it has a mutex
    process,        \* ps2_process_thread while ps2_process_active
    cleanupDone     \* cleanup_done

objects == <<type, active, userData, value, aux, waiters, detached, prio>>
waits   == <<wait, waitMutex, armed, parked>>
vars    == <<objects, waits, held, process, cleanupDone>>

NoWait == [kind |-> "none", obj |-> NoObject, value |-> 0, timed |-> FALSE]

TypeOK ==
    /\ type \in [Slots -> Types \cup {"none"}]
    /\ active \in [Slots -> BOOLEAN]
    /\ userData \in [Slots -> Nat]
    /\ value \in [Slots -> Nat]
    /\ aux \in [Slots -> Nat]
    /\ waiters \in [Slots -> SUBSET Callers]
    /\ detached \in [Slots -> BOOLEAN]
    /\ prio \in [Slots -> Priorities \cup {0, DefaultPriority}]
    /\ wait \in [Callers -> [kind : Kinds \cup {"none"}, obj : 0 .. NumSlots,
                             value : Nat, timed : BOOLEAN]]
    /\ waitMutex \in [Callers -> 0 .. NumSlots]
    /\ armed \in [Callers -> BOOLEAN]
    /\ parked \in [Callers -> BOOLEAN]
    /\ held \in [Callers -> [Slots -> Nat]]
    /\ process \in 0 .. NumSlots
    /\ cleanupDone \in BOOLEAN

NoFlags   == [s \in Slots |-> FALSE]
NoNumbers == [s \in Slots |-> 0]
NoQueues  == [s \in Slots |-> {}]
NoWaits   == [t \in Callers |-> NoWait]
NoMutexes == [t \in Callers |-> NoObject]
NobodyIn  == [t \in Callers |-> FALSE]
NothingHeld == [t \in Callers |-> [s \in Slots |-> 0]]
NoTypes   == [s \in Slots |-> "none"]

\* the machine has booted, for which it was reset
Init ==
    /\ type = NoTypes /\ active = NoFlags /\ userData = NoNumbers
    /\ value = NoNumbers /\ aux = NoNumbers /\ waiters = NoQueues
    /\ detached = NoFlags /\ prio = NoNumbers
    /\ wait = NoWaits /\ waitMutex = NoMutexes
    /\ armed = NobodyIn /\ parked = NobodyIn
    /\ held = NothingHeld /\ process = NoThread /\ cleanupDone = FALSE

-----------------------------------------------------------------------------
(***************************************************************************)
(* Threads and priorities.                                                  *)
(***************************************************************************)
Running(t) == ~parked[t] /\ (t # Main => type[t] = "thread" /\ active[t])

PriorityOf(t) == IF t = Main \/ prio[t] = 0 THEN DefaultPriority ELSE prio[t]

\* The order of shadps4_hle_pick_waiter: the lowest number wins, then the
\* lowest slot.  The mutant lets the highest number win.
BeforeInverted(v, w) == \/ PriorityOf(v) > PriorityOf(w)
                        \/ PriorityOf(v) = PriorityOf(w) /\ v <= w
Before(v, w) == \/ PriorityOf(v) < PriorityOf(w)
                \/ PriorityOf(v) = PriorityOf(w) /\ v <= w

\* shadps4_hle_pick_waiter without a maximum: w is the waiter it selects.
Picked(w, queue) ==
    /\ w \in queue /\ wait[w].kind # "none"
    /\ \A v \in queue : wait[v].kind # "none" => Before(w, v)

\* Whom shadps4_hle_mutex_wake_waiter wakes: the first waiter of mutex m, or nobody
\* when its queue is empty or (after a fault and a reset) holds only threads that no
\* longer wait.
Pickable(m) == {w \in Callers : Picked(w, waiters[m])}
Successors(m) == IF Pickable(m) = {} THEN {NoThread} ELSE Pickable(m)

\* shadps4_hle_wait_finish for a set of threads; the mutant forgets the timer
WakeKeepsTimer(woken) ==
    /\ wait' = [t \in Callers |-> IF t \in woken THEN NoWait ELSE wait[t]]
    /\ parked' = [t \in Callers |-> parked[t] /\ t \notin woken]
    /\ armed' = armed
Wake(woken) ==
    /\ wait' = [t \in Callers |-> IF t \in woken THEN NoWait ELSE wait[t]]
    /\ parked' = [t \in Callers |-> parked[t] /\ t \notin woken]
    /\ armed' = [t \in Callers |-> armed[t] /\ t \notin woken]

\* shadps4_hle_wait_begin: a wait that a killed thread left in the slot
\* makes it fail.  The mutant starts no timer.
BeginWaitNoTimer(t, kind, s, n, timed) ==
    /\ wait[t].kind = "none"
    /\ wait' = [wait EXCEPT ![t] = [kind |-> kind, obj |-> s, value |-> n,
                                    timed |-> timed]]
    /\ armed' = armed
    /\ parked' = [parked EXCEPT ![t] = TRUE]
BeginWait(t, kind, s, n, timed) ==
    /\ wait[t].kind = "none"
    /\ wait' = [wait EXCEPT ![t] = [kind |-> kind, obj |-> s, value |-> n,
                                    timed |-> timed]]
    /\ armed' = [armed EXCEPT ![t] = @ \/ timed]
    /\ parked' = [parked EXCEPT ![t] = TRUE]

-----------------------------------------------------------------------------
(***************************************************************************)
(* The object table.                                                        *)
(***************************************************************************)
Free(s)      == type[s] = "none"
FirstFree(s) == Free(s) /\ \A r \in Slots : Free(r) => s <= r
HasRoom(ty)  == Cardinality({s \in Slots : type[s] = ty}) < Quota[ty]

\* shadps4_hle_service_alloc
Alloc(s, ty) == FirstFree(s) /\ HasRoom(ty)

\* The object a lock, cond_wait or signal finds in the guest's word: a live
\* one, or the one created because the word still holds its static zero.
LiveOrStatic(s, ty) == type[s] = ty \/ Alloc(s, ty)

IsMutex(m) == m \in Slots /\ type[m] = "mutex"

\* the columns of shadps4_hle_service_delete
Delete(s) ==
    /\ type' = [type EXCEPT ![s] = "none"]
    /\ active' = [active EXCEPT ![s] = FALSE]
    /\ userData' = [userData EXCEPT ![s] = 0]
    /\ value' = [value EXCEPT ![s] = 0]
    /\ aux' = [aux EXCEPT ![s] = 0]
    /\ detached' = [detached EXCEPT ![s] = FALSE]
    /\ prio' = [prio EXCEPT ![s] = 0]
    /\ waiters' = [waiters EXCEPT ![s] = {}]
    /\ held' = [t \in Callers |-> [held[t] EXCEPT ![s] = 0]]

\* A guest that behaves does not destroy an object somebody uses.
InUse(s) == \/ active[s] \/ waiters[s] # {}
            \/ \E t \in Callers : wait[t].kind = "cond" /\ waitMutex[t] = s

\* mutex, cond and sem destroy, and kernel semaphore delete
Destroy(t, s) ==
    /\ Running(t)
    /\ type[s] \in {"mutex", "cond", "sem", "ksema"}
    /\ InUse(s) => "destroy_busy" \in Permitted
    /\ Delete(s)
    /\ UNCHANGED <<waits, process, cleanupDone>>

\* mutex and cond init
Create(t, s, ty) ==
    /\ Running(t)
    /\ Alloc(s, ty)
    /\ type' = [type EXCEPT ![s] = ty]
    /\ UNCHANGED <<active, userData, value, aux, waiters, detached, prio,
                   waits, held, process, cleanupDone>>

\* sem_init, sceKernelCreateSema and barrier_init; n is the initial value, or
\* the threshold, and max the limit of a kernel semaphore
CreateCounted(t, s, ty, n, max) ==
    /\ Running(t)
    /\ Alloc(s, ty)
    /\ \/ ty = "sem" /\ max = 0
       \/ ty = "ksema" /\ max > 0 /\ n <= max
       \/ ty = "barrier" /\ n > 0 /\ max = 0
    /\ type' = [type EXCEPT ![s] = ty]
    /\ value' = [value EXCEPT ![s] = n]
    /\ userData' = [userData EXCEPT ![s] = max]
    /\ UNCHANGED <<active, aux, waiters, detached, prio, waits, held, process,
                   cleanupDone>>

-----------------------------------------------------------------------------
(***************************************************************************)
(* Mutexes.  Every mutex is recursive: the type of its attribute is not     *)
(* looked at.                                                               *)
(***************************************************************************)
\* the mutex is free, or the caller's already
LockTaken(t, m) == active[m] /\ userData[m] # t

\* lock, timedlock or trylock that succeeds at once
Lock(t, m) ==
    /\ Running(t)
    /\ LiveOrStatic(m, "mutex")
    /\ ~LockTaken(t, m)
    /\ value[m] < MaxDepth /\ held[t][m] < MaxDepth
    /\ type' = [type EXCEPT ![m] = "mutex"]
    /\ active' = [active EXCEPT ![m] = TRUE]
    /\ userData' = [userData EXCEPT ![m] = t]
    /\ value' = [value EXCEPT ![m] = @ + 1]
    /\ held' = [held EXCEPT ![t][m] = @ + 1]
    /\ UNCHANGED <<aux, waiters, detached, prio, waits, process, cleanupDone>>

\* lock or timedlock that parks the caller
LockWait(t, m, timed) ==
    /\ Running(t)
    /\ timed => "timed" \in Permitted
    /\ type[m] = "mutex" /\ LockTaken(t, m)
    /\ BeginWait(t, "mutex", m, 1, timed)
    /\ waiters' = [waiters EXCEPT ![m] = @ \cup {t}]
    /\ waitMutex' = [waitMutex EXCEPT ![t] = m]
    /\ UNCHANGED <<type, active, userData, value, aux, detached, prio, held,
                   process, cleanupDone>>

\* NpCommon's trylock records the main thread whoever calls it.
NpTrylock(t, m) ==
    /\ Running(t)
    /\ t = Main \/ "np_trylock" \in Permitted
    /\ type[m] = "mutex" /\ ~LockTaken(Main, m)
    /\ value[m] < MaxDepth /\ held[t][m] < MaxDepth
    /\ active' = [active EXCEPT ![m] = TRUE]
    /\ userData' = [userData EXCEPT ![m] = Main]
    /\ value' = [value EXCEPT ![m] = @ + 1]
    /\ held' = [held EXCEPT ![t][m] = @ + 1]
    /\ UNCHANGED <<type, aux, waiters, detached, prio, waits, process,
                   cleanupDone>>

\* shadps4_hle_mutex_wake_waiter: ownership passes to n with the wakeup.  When
\* nobody of a queue can be woken the mutex keeps its owner, at depth 0.  The
\* mutant makes the mutex free and leaves it to the woken thread.
PassOnFree(m, n) ==
    /\ active' = [active EXCEPT ![m] = FALSE]
    /\ userData' = [userData EXCEPT ![m] = NoThread]
    /\ value' = [value EXCEPT ![m] = 0]
PassOn(m, n) ==
    /\ active' = [active EXCEPT ![m] = (waiters[m] # {})]
    /\ userData' = [userData EXCEPT ![m] = IF n = NoThread /\ waiters[m] # {}
                                           THEN @ ELSE n]
    /\ value' = [value EXCEPT ![m] = IF n = NoThread THEN 0 ELSE 1]

ClearWaitMutex(threads) ==
    waitMutex' = [t \in Callers |-> IF t \in threads THEN NoObject
                                    ELSE waitMutex[t]]

Owns(t, m) == type[m] = "mutex" /\ active[m] /\ userData[m] = t

\* unlock of a mutex that stays locked
UnlockNested(t, m) ==
    /\ Running(t) /\ Owns(t, m) /\ value[m] > 1
    /\ value' = [value EXCEPT ![m] = @ - 1]
    /\ held' = [held EXCEPT ![t][m] = IF @ = 0 THEN 0 ELSE @ - 1]
    /\ UNCHANGED <<type, active, userData, aux, waiters, detached, prio, waits,
                   process, cleanupDone>>

\* the last unlock
UnlockLast(t, m) ==
    /\ Running(t) /\ Owns(t, m) /\ value[m] = 1
    /\ \E n \in Successors(m) :
          /\ PassOn(m, n)
          /\ waiters' = [waiters EXCEPT ![m] = @ \ {n}]
          /\ ClearWaitMutex({n})
          /\ Wake({n})
          /\ held' = [x \in Callers |-> [held[x] EXCEPT ![m] =
                         IF x = n THEN 1 ELSE IF x = t THEN 0 ELSE @]]
    /\ UNCHANGED <<type, aux, detached, prio, process, cleanupDone>>

-----------------------------------------------------------------------------
(***************************************************************************)
(* Condition variables.  Signal and broadcast are one call, which empties   *)
(* the queue of the condition.                                              *)
(***************************************************************************)
\* The wait of cond_wait, after the mutex went to n: it is refused only when a
\* killed thread left its wait in the slot of t, and n is not t.
CondPark(t, c, m, n) ==
    LET parks == wait[t].kind = "none" \/ n = t IN
    /\ waiters' = [waiters EXCEPT ![m] = @ \ {n},
                                  ![c] = IF parks THEN @ \cup {t} ELSE @]
    /\ waitMutex' = [x \in Callers |-> IF parks /\ x = t THEN m
                                       ELSE IF x = n THEN NoObject
                                       ELSE waitMutex[x]]
    /\ wait' = [x \in Callers |->
                   IF parks /\ x = t
                   THEN [kind |-> "cond", obj |-> c, value |-> 1,
                         timed |-> FALSE]
                   ELSE IF x = n THEN NoWait ELSE wait[x]]
    /\ parked' = [x \in Callers |-> (parks /\ x = t) \/ (parked[x] /\ x # n)]
    /\ armed' = [x \in Callers |-> armed[x] /\ x # n]
    /\ held' = [x \in Callers |-> [held[x] EXCEPT ![m] =
                   IF parks /\ x = t THEN 0 ELSE IF x = n THEN 1 ELSE @]]

\* cond_wait with the mutex locked once; with one at depth 0, which PassOn may leave
\* after a fault and a reset, the count would wrap, and the call is left out
CondWait(t, c, m) ==
    /\ Running(t)
    /\ LiveOrStatic(c, "cond") /\ c # m
    /\ Owns(t, m) /\ value[m] = 1
    /\ \E n \in Successors(m) : PassOn(m, n) /\ CondPark(t, c, m, n)
    /\ type' = [type EXCEPT ![c] = "cond"]
    /\ UNCHANGED <<aux, detached, prio, process, cleanupDone>>

\* cond_wait with the mutex locked more often: it stays locked
CondWaitNested(t, c, m) ==
    /\ Running(t)
    /\ "nested_wait" \in Permitted
    /\ LiveOrStatic(c, "cond") /\ c # m
    /\ Owns(t, m) /\ value[m] > 1
    /\ value' = [value EXCEPT ![m] = @ - 1]
    /\ CondPark(t, c, m, NoThread)
    /\ type' = [type EXCEPT ![c] = "cond"]
    /\ UNCHANGED <<active, userData, aux, detached, prio, process, cleanupDone>>

\* The first waiter of c in the order of the queue that waits with mutex m
FirstFor(w, c, m) ==
    /\ w \in waiters[c] /\ waitMutex[w] = m
    /\ \A v \in waiters[c] : waitMutex[v] = m => Before(w, v)

\* the waiters of c that receive their mutex, because it is free; the mutant
\* hands every waiter its mutex
GrantedAll(c) == {w \in waiters[c] : IsMutex(waitMutex[w])}
Granted(c) ==
    {w \in waiters[c] : /\ IsMutex(waitMutex[w]) /\ ~active[waitMutex[w]]
                        /\ FirstFor(w, c, waitMutex[w])}

\* the waiters of c whose mutex is gone
Orphans(c) == {w \in waiters[c] : ~IsMutex(waitMutex[w])}

\* the waiters of c that move to the queue of mutex m; the mutants drop them, or
\* move the one that receives the mutex too
MovedNone(c, m) == {}
MovedGranted(c, m) == {w \in waiters[c] \ Orphans(c) : waitMutex[w] = m}
Moved(c, m) == {w \in waiters[c] \ (Granted(c) \cup Orphans(c)) :
                   waitMutex[w] = m}

\* cond_signal and cond_broadcast: waiters whose mutex is locked move to the
\* queue of the mutex and stay parked.
CondSignal(t, c) ==
    /\ Running(t)
    /\ LiveOrStatic(c, "cond")
    /\ type' = [type EXCEPT ![c] = "cond"]
    /\ LET granted == Granted(c)
           woken   == granted \cup Orphans(c)
           given(m) == {w \in granted : waitMutex[w] = m}
       IN /\ waiters' = [s \in Slots |-> IF s = c THEN {}
                                         ELSE waiters[s] \cup Moved(c, s)]
          /\ active' = [s \in Slots |-> active[s] \/ given(s) # {}]
          /\ userData' = [s \in Slots |->
                IF given(s) # {} THEN CHOOSE w \in given(s) : TRUE
                ELSE userData[s]]
          /\ value' = [s \in Slots |-> IF given(s) # {} THEN 1 ELSE value[s]]
          /\ held' = [x \in Callers |-> [s \in Slots |->
                IF x \in given(s) THEN 1 ELSE held[x][s]]]
          /\ ClearWaitMutex(woken)
          /\ Wake(woken)
    /\ UNCHANGED <<aux, detached, prio, process, cleanupDone>>

-----------------------------------------------------------------------------
(***************************************************************************)
(* Semaphores.                                                              *)
(***************************************************************************)
\* sem_wait and sem_trywait
SemTake(t, s) ==
    /\ Running(t)
    /\ type[s] = "sem" /\ value[s] > 0
    /\ value' = [value EXCEPT ![s] = @ - 1]
    /\ UNCHANGED <<type, active, userData, aux, waiters, detached, prio, waits,
                   held, process, cleanupDone>>

SemWait(t, s) ==
    /\ Running(t)
    /\ type[s] = "sem" /\ value[s] = 0
    /\ BeginWait(t, "sem", s, 1, FALSE)
    /\ waiters' = [waiters EXCEPT ![s] = @ \cup {t}]
    /\ UNCHANGED <<type, active, userData, value, aux, detached, prio,
                   waitMutex, held, process, cleanupDone>>

\* sem_post hands the unit to a waiter; the mutant also counts it
SemPostWakesAndCounts(t, s) ==
    /\ Running(t)
    /\ type[s] = "sem"
    /\ \E w \in Callers : Picked(w, waiters[s])
                          /\ waiters' = [waiters EXCEPT ![s] = @ \ {w}]
                          /\ Wake({w})
    /\ value' = [value EXCEPT ![s] = @ + 1]
    /\ UNCHANGED <<type, active, userData, aux, detached, prio, waitMutex,
                   held, process, cleanupDone>>
SemPostWakes(t, s) ==
    /\ Running(t)
    /\ type[s] = "sem"
    /\ \E w \in Callers : Picked(w, waiters[s])
                          /\ waiters' = [waiters EXCEPT ![s] = @ \ {w}]
                          /\ Wake({w})
    /\ UNCHANGED <<type, active, userData, value, aux, detached, prio,
                   waitMutex, held, process, cleanupDone>>

SemPostCounts(t, s) ==
    /\ Running(t)
    /\ type[s] = "sem" /\ waiters[s] = {} /\ value[s] < MaxSem
    /\ value' = [value EXCEPT ![s] = @ + 1]
    /\ UNCHANGED <<type, active, userData, aux, waiters, detached, prio, waits,
                   held, process, cleanupDone>>

\* sceKernelWaitSema and sceKernelPollSema
KSemaTake(t, s, n) ==
    /\ Running(t)
    /\ type[s] = "ksema" /\ value[s] >= n
    /\ value' = [value EXCEPT ![s] = @ - n]
    /\ UNCHANGED <<type, active, userData, aux, waiters, detached, prio, waits,
                   held, process, cleanupDone>>

KSemaWait(t, s, n, timed) ==
    /\ Running(t)
    /\ timed => "timed" \in Permitted
    /\ type[s] = "ksema" /\ value[s] < n
    /\ BeginWait(t, "ksema", s, n, timed)
    /\ waiters' = [waiters EXCEPT ![s] = @ \cup {t}]
    /\ UNCHANGED <<type, active, userData, value, aux, detached, prio,
                   waitMutex, held, process, cleanupDone>>

\* The loop of sceKernelSignalSema on a semaphore s that has v: round i picks, of
\* the waiters that are left, the first one whose need is covered, and the loop
\* ends when there is none.  S is whom it woke, and rest what the semaphore keeps.
\* The mutant ends after one round.
Covered(s, done, v) == {w \in waiters[s] \ done : wait[w].value <= v}
ServesOne(s, v, S, rest) ==
    \/ Covered(s, {}, v) = {} /\ S = {} /\ rest = v
    \/ \E w \in Callers : Picked(w, Covered(s, {}, v)) /\ S = {w}
                          /\ rest = v - wait[w].value
Serves(s, v, S, rest) ==
    \E pick \in [1 .. Cardinality(S) -> S], left \in [0 .. Cardinality(S) -> 0 .. v] :
       /\ left[0] = v /\ left[Cardinality(S)] = rest
       /\ \A i \in 1 .. Cardinality(S) :
             /\ Picked(pick[i], Covered(s, {pick[j] : j \in 1 .. (i - 1)}, left[i - 1]))
             /\ left[i] = left[i - 1] - wait[pick[i]].value
       /\ \A w \in Covered(s, S, rest) : wait[w].kind = "none"

KSemaSignal(t, s, n) ==
    /\ Running(t)
    /\ type[s] = "ksema" /\ n <= userData[s] - value[s]
    /\ \E S \in SUBSET waiters[s], rest \in 0 .. value[s] + n :
          /\ Serves(s, value[s] + n, S, rest)
          /\ value' = [value EXCEPT ![s] = rest]
          /\ waiters' = [waiters EXCEPT ![s] = @ \ S]
          /\ Wake(S)
    /\ UNCHANGED <<type, active, userData, aux, detached, prio, waitMutex,
                   held, process, cleanupDone>>

\* sceKernelCancelSema: every waiter returns ECANCELED
KSemaCancel(t, s, n) ==
    /\ Running(t)
    /\ type[s] = "ksema" /\ n <= userData[s]
    /\ value' = [value EXCEPT ![s] = n]
    /\ waiters' = [waiters EXCEPT ![s] = {}]
    /\ Wake(waiters[s])
    /\ UNCHANGED <<type, active, userData, aux, detached, prio, waitMutex,
                   held, process, cleanupDone>>

-----------------------------------------------------------------------------
(***************************************************************************)
(* Barriers and sleeps.                                                     *)
(***************************************************************************)
BarrierWait(t, s) ==
    /\ Running(t)
    /\ type[s] = "barrier" /\ aux[s] + 1 < value[s]
    /\ BeginWait(t, "barrier", s, 1, FALSE)
    /\ aux' = [aux EXCEPT ![s] = @ + 1]
    /\ waiters' = [waiters EXCEPT ![s] = @ \cup {t}]
    /\ UNCHANGED <<type, active, userData, value, detached, prio, waitMutex,
                   held, process, cleanupDone>>

\* the last arrival
BarrierOpen(t, s) ==
    /\ Running(t)
    /\ type[s] = "barrier" /\ aux[s] + 1 >= value[s]
    /\ aux' = [aux EXCEPT ![s] = 0]
    /\ waiters' = [waiters EXCEPT ![s] = {}]
    /\ Wake(waiters[s])
    /\ UNCHANGED <<type, active, userData, value, detached, prio, waitMutex,
                   held, process, cleanupDone>>

BarrierDestroy(t, s) ==
    /\ Running(t)
    /\ type[s] = "barrier" /\ aux[s] = 0 /\ waiters[s] = {}
    /\ Delete(s)
    /\ UNCHANGED <<waits, process, cleanupDone>>

\* nanosleep, usleep and sleep
Sleep(t) ==
    /\ Running(t)
    /\ "sleep" \in Permitted
    /\ BeginWait(t, "sleep", NoObject, 0, TRUE)
    /\ UNCHANGED <<objects, waitMutex, held, process, cleanupDone>>

\* shadps4_hle_wait_timeout.  The queue it leaves is that of wait_object, also
\* for a thread that cond_signal moved to a mutex.
LeaveQueue(t) ==
    waiters' = [s \in Slots |-> IF s = wait[t].obj THEN waiters[s] \ {t}
                                ELSE waiters[s]]

Timeout(t) ==
    /\ armed[t]
    /\ IF wait[t].kind = "none"
       THEN /\ armed' = [armed EXCEPT ![t] = FALSE]
            /\ UNCHANGED <<waiters, wait, waitMutex, parked>>
       ELSE /\ LeaveQueue(t) /\ ClearWaitMutex({t}) /\ Wake({t})
    /\ UNCHANGED <<type, active, userData, value, aux, detached, prio, held,
                   process, cleanupDone>>

-----------------------------------------------------------------------------
(***************************************************************************)
(* Threads.                                                                 *)
(***************************************************************************)
\* a thread's user_data is its entry point, and value its argument, here NULL
EntryPoint == 1

\* a thread object in slot s with priority p
NewThread(s, p, runs) ==
    /\ Alloc(s, "thread")
    /\ type' = [type EXCEPT ![s] = "thread"]
    /\ active' = [active EXCEPT ![s] = runs]
    /\ userData' = [userData EXCEPT ![s] = EntryPoint]
    /\ prio' = [prio EXCEPT ![s] = p]
    /\ UNCHANGED <<value, aux, waiters, detached>>

\* pthread_create
ThreadCreate(t, s, p) ==
    /\ Running(t)
    /\ NewThread(s, p, TRUE)
    /\ UNCHANGED <<waits, held, process, cleanupDone>>

\* NpCommon's thread creation never starts the thread.
NpThreadCreate(t, s) ==
    /\ Running(t)
    /\ "np_thread" \in Permitted
    /\ NewThread(s, 0, FALSE)
    /\ UNCHANGED <<waits, held, process, cleanupDone>>

Detach(t, s) ==
    /\ Running(t)
    /\ "detach" \in Permitted
    /\ type[s] = "thread"
    /\ detached' = [detached EXCEPT ![s] = TRUE]
    /\ UNCHANGED <<type, active, userData, value, aux, waiters, prio, waits,
                   held, process, cleanupDone>>

\* pthread_join of a thread that runs
JoinWait(t, s) ==
    /\ Running(t)
    /\ type[s] = "thread" /\ active[s] /\ ~detached[s]
    /\ BeginWait(t, "join", s, 0, FALSE)
    /\ waiters' = [waiters EXCEPT ![s] = @ \cup {t}]
    /\ UNCHANGED <<type, active, userData, value, aux, detached, prio,
                   waitMutex, held, process, cleanupDone>>

\* pthread_join of a thread that has finished
JoinFinished(t, s) ==
    /\ Running(t)
    /\ type[s] = "thread" /\ ~active[s] /\ ~detached[s]
    /\ Delete(s)
    /\ UNCHANGED <<waits, process, cleanupDone>>

SetPriority(t, s, p) ==
    /\ Running(t)
    /\ "set_priority" \in Permitted
    /\ type[s] = "thread"
    /\ prio' = [prio EXCEPT ![s] = p]
    /\ UNCHANGED <<type, active, userData, value, aux, waiters, detached,
                   waits, held, process, cleanupDone>>

\* pthread_exit; the mutant wakes nobody
ExitWakesNobody(t) ==
    /\ Running(t) /\ t # Main
    /\ (\E m \in Slots : held[t][m] > 0) => "exit_locked" \in Permitted
    /\ active' = [active EXCEPT ![t] = FALSE]
    /\ held' = [held EXCEPT ![t] = [m \in Slots |-> 0]]
    /\ UNCHANGED <<type, userData, value, aux, waiters, detached, prio, waits,
                   process, cleanupDone>>
Exit(t) ==
    /\ Running(t) /\ t # Main
    /\ (\E m \in Slots : held[t][m] > 0) => "exit_locked" \in Permitted
    /\ active' = [active EXCEPT ![t] = FALSE]
    /\ waiters' = [waiters EXCEPT ![t] = {}]
    /\ Wake(waiters[t])
    /\ held' = [held EXCEPT ![t] = [m \in Slots |-> 0]]
    /\ UNCHANGED <<type, userData, value, aux, detached, prio, waitMutex,
                   process, cleanupDone>>

\* shadps4_hle_ps2_process_add
ProcessAdd(t, s) ==
    /\ Running(t)
    /\ "process" \in Permitted
    /\ process = NoThread
    /\ NewThread(s, DefaultPriority, TRUE)
    /\ process' = s
    /\ UNCHANGED <<waits, held, cleanupDone>>

\* sceKernel PS2 process kill: the slot is freed, and its wait, the queue it
\* stands in and the mutexes it owns are left as they are.
ProcessKill(t) ==
    /\ Running(t)
    /\ "kill" \in Permitted
    /\ process # NoThread /\ type[process] = "thread" /\ active[process]
    /\ type' = [type EXCEPT ![process] = "none"]
    /\ active' = [active EXCEPT ![process] = FALSE]
    /\ userData' = [userData EXCEPT ![process] = 0]
    /\ value' = [value EXCEPT ![process] = 0]
    /\ aux' = [aux EXCEPT ![process] = 0]
    /\ detached' = [detached EXCEPT ![process] = FALSE]
    /\ prio' = [prio EXCEPT ![process] = 0]
    /\ waiters' = [waiters EXCEPT ![process] = {}]
    /\ parked' = [parked EXCEPT ![process] = FALSE]
    /\ held' = [held EXCEPT ![process] = [m \in Slots |-> 0]]
    /\ process' = NoThread
    /\ UNCHANGED <<wait, waitMutex, armed, cleanupDone>>

-----------------------------------------------------------------------------
(***************************************************************************)
(* The end of a run of the guest.                                           *)
(***************************************************************************)
\* shadps4_hle_cleanup after an exception the guest does not handle: the
\* timers are deleted, unless that was done before, and this CPU is halted; the
\* shutdown it asks the host for is HostLifecycle's
FatalFault(t) ==
    /\ Running(t)
    /\ "fatal_fault" \in Permitted
    /\ armed' = [x \in Callers |-> armed[x] /\ cleanupDone]
    /\ cleanupDone' = TRUE
    /\ parked' = [parked EXCEPT ![t] = TRUE]
    /\ UNCHANGED <<objects, wait, waitMutex, held, process>>

\* shadps4_hle_reset; timers survive it when cleanup was done before
Reset ==
    /\ "reset" \in Permitted
    /\ type' = NoTypes /\ active' = NoFlags /\ userData' = NoNumbers
    /\ value' = NoNumbers /\ aux' = NoNumbers /\ waiters' = NoQueues
    /\ detached' = NoFlags /\ prio' = NoNumbers
    /\ wait' = NoWaits /\ waitMutex' = NoMutexes
    /\ armed' = [x \in Callers |-> armed[x] /\ cleanupDone]
    /\ parked' = NobodyIn
    /\ held' = NothingHeld /\ process' = NoThread /\ cleanupDone' = FALSE

MutexStep(t) ==
    \E m \in Slots :
       \/ Lock(t, m) \/ NpTrylock(t, m) \/ UnlockNested(t, m)
       \/ UnlockLast(t, m)
       \/ \E timed \in BOOLEAN : LockWait(t, m, timed)
CondStep(t) ==
    \E c \in Slots : CondSignal(t, c) 
                     \/ \E m \in Slots : CondWait(t, c, m)
                                            \/ CondWaitNested(t, c, m)
SemStep(t) ==
    \E s \in Slots :
       \/ SemTake(t, s) \/ SemWait(t, s) \/ SemPostWakes(t, s)
       \/ SemPostCounts(t, s)
KSemaStep(t) ==
    \E s \in Slots, n \in 0 .. MaxSem :
       \/ n > 0 /\ (KSemaTake(t, s, n) \/ KSemaSignal(t, s, n))
       \/ n > 0 /\ \E timed \in BOOLEAN : KSemaWait(t, s, n, timed)
       \/ KSemaCancel(t, s, n)
BarrierStep(t) ==
    \E s \in Slots : BarrierWait(t, s) \/ BarrierOpen(t, s)
                     \/ BarrierDestroy(t, s)
ObjectStep(t) ==
    \E s \in Slots :
       \/ Destroy(t, s)
       \/ \E ty \in {"mutex", "cond"} : Create(t, s, ty)
       \/ \E ty \in {"sem", "ksema", "barrier"}, n, max \in 0 .. MaxSem :
             CreateCounted(t, s, ty, n, max)
ThreadStep(t) ==
    \/ Exit(t) \/ ProcessKill(t) \/ Sleep(t)
    \/ \E s \in Slots :
          \/ NpThreadCreate(t, s) \/ Detach(t, s) \/ JoinWait(t, s)
          \/ JoinFinished(t, s) \/ ProcessAdd(t, s)
          \/ \E p \in Priorities : ThreadCreate(t, s, p)
                                   \/ SetPriority(t, s, p)

Next ==
    \/ Reset
    \/ \E t \in Callers :
          \/ MutexStep(t) \/ CondStep(t) \/ SemStep(t) \/ KSemaStep(t)
          \/ BarrierStep(t) \/ ObjectStep(t) \/ ThreadStep(t)
          \/ FatalFault(t) \/ Timeout(t)

Spec == Init /\ [][Next]_vars

\* The main loop runs the timers of QEMU_CLOCK_REALTIME.
FairSpec == Spec /\ \A t \in Callers : WF_vars(Timeout(t))

-----------------------------------------------------------------------------
(***************************************************************************)
(* Properties.                                                              *)
(***************************************************************************)
\* A thread is in at most one queue, and only while it waits for the object of
\* that queue, or for the mutex its condition variable gave it to.  The loops
\* of cond_signal, cancel and exit end only because of this: they pick waiters
\* until none is left, and a waiter without a wait is never picked.
QueueSound ==
    \A s \in Slots : \A t \in waiters[s] :
       /\ \/ wait[t].obj = s /\ wait[t].kind = KindFor(type[s])
          \/ wait[t].kind = "cond" /\ waitMutex[t] = s /\ type[s] = "mutex"
       /\ \A r \in Slots : t \in waiters[r] => r = s

\* Nobody is forgotten: a thread parked on an object is in some queue, from
\* which an unlock, a signal, a post, an arrival or an exit can take it.
NoForgottenWaiter ==
    \A t \in Callers : wait[t].kind \notin {"none", "sleep"} =>
       parked[t] /\ \E s \in Slots : t \in waiters[s]

\* A mutex is locked, has an owner and has a depth, or none of them, and only
\* a locked mutex has a queue.  So a lock that finds the mutex free overtakes
\* nobody who is left behind in its queue, and an unlock never leaves it ownerless.
MutexConsistent ==
    \A m \in Slots : type[m] = "mutex" =>
       /\ active[m] <=> userData[m] # NoThread
       /\ active[m] <=> value[m] > 0
       /\ waiters[m] # {} => active[m]

\* The table agrees with what the threads were told: the owner is the one
\* thread whose calls returned success, with that many locks to give back,
\* also when ownership came with a wakeup from unlock or from a signal; and
\* the owner does not stand in the queue of its own mutex.
LockView ==
    \A m \in Slots : type[m] = "mutex" =>
       /\ \A t \in Callers :
             held[t][m] = IF userData[m] = t THEN value[m] ELSE 0
       /\ userData[m] \notin waiters[m]

\* No wakeup is lost.  Nobody waits for a semaphore that has what he asks for, a
\* kernel semaphore stays within its limit, and a barrier that is not open has let
\* in fewer than its threshold, all of whom still stand in its queue: no post and
\* no round leaves anybody, or a count, behind.  Who waits in a join waits for a
\* thread that still runs, whose exit will end the join.
NoLostWakeup ==
    /\ \A s \in Slots :
         /\ type[s] = "sem" => (waiters[s] # {} => value[s] = 0)
         /\ type[s] = "ksema" => /\ value[s] <= userData[s]
                                 /\ \A w \in waiters[s] : wait[w].value > value[s]
         /\ type[s] = "barrier" => aux[s] = Cardinality(waiters[s]) /\ aux[s] < value[s]
    /\ \A t \in Callers : wait[t].kind = "join" =>
         type[wait[t].obj] = "thread" /\ active[wait[t].obj]

\* A timer is pending only for a wait that asked for one: no lock, no join and
\* no semaphore wait without a deadline is cut short.
TimersMatchWaits ==
    \A t \in Callers : armed[t] => wait[t].kind # "none" /\ wait[t].timed

\* Ownership passes to a waiter of the highest priority there is in the queue.
HandOffInOrder ==
    [][\A m \in Slots :
         (type[m] = "mutex" /\ active[m] /\ type'[m] = "mutex" /\ active'[m]
            /\ userData'[m] # userData[m]) =>
         /\ userData'[m] \in waiters[m]
         /\ \A v \in waiters[m] :
               PriorityOf(v) >= PriorityOf(userData'[m])]_vars

\* A wait with a deadline ends, whatever the other threads do.
TimedWaitEnds ==
    \A t \in Callers : (wait[t].kind # "none" /\ wait[t].timed) ~> ~parked[t]
=============================================================================

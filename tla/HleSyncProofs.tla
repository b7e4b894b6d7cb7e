---------------------------- MODULE HleSyncProofs ----------------------------
(***************************************************************************)
(* QueueSound for every number of slots, every quota and every choice of    *)
(* hazards but the fatal fault, after which a timer may outlive a reset.    *)
(*                                                                          *)
(* QueueSound is not inductive.  It needs that a free slot has no queue     *)
(* (else the next object inherits one), that timers are pending only for    *)
(* waits with a deadline, and that a condition wait has none: a timeout     *)
(* leaves the queue of wait_object, where a moved waiter does not stand.    *)
(*                                                                          *)
(* Then TimersMatchWaits, which is part of the same invariant; that nobody  *)
(* who waits is forgotten (WInv), and that no wakeup is lost (CInv), each   *)
(* without the events that break it.                                        *)
(***************************************************************************)
EXTENDS HleSync, FiniteSetTheorems, TLAPS

WaitRecords == [kind : Kinds \cup {"none"}, obj : 0 .. NumSlots,
                value : Nat, timed : BOOLEAN]

QTypes ==
    /\ type \in [Slots -> Types \cup {"none"}]
    /\ waiters \in [Slots -> SUBSET Callers]
    /\ wait \in [Callers -> WaitRecords]
    /\ waitMutex \in [Callers -> 0 .. NumSlots]
    /\ armed \in [Callers -> BOOLEAN]
    /\ process \in 0 .. NumSlots

FreeQueuesEmpty == \A s \in Slots : type[s] = "none" => waiters[s] = {}

TimersSound ==
    \A t \in Callers :
       /\ armed[t] => wait[t].timed /\ wait[t].kind # "none"
       /\ wait[t].timed => wait[t].kind # "cond"

FaultPermitted == cleanupDone => "fatal_fault" \in Permitted

QInv == QTypes /\ FreeQueuesEmpty /\ QueueSound /\ TimersSound /\ FaultPermitted

\* What the waits and the queues are made of.
queueVars == <<type, waiters, wait, waitMutex, armed, process, cleanupDone>>

\* A step that changes none of these keeps the invariant.
LEMMA SameQueues == ASSUME QInv, UNCHANGED queueVars PROVE QInv'
  BY DEF QInv, QTypes, FreeQueuesEmpty, QueueSound, TimersSound, FaultPermitted,
         queueVars

\* A thread that waits for nothing stands in no queue.
LEMMA NotQueued ==
    ASSUME QInv, NEW t \in Callers, wait[t].kind = "none", NEW s \in Slots
    PROVE  t \notin waiters[s]
<1> SUFFICES ASSUME t \in waiters[s] PROVE FALSE
  OBVIOUS
<1>1. type[s] = "none"
  BY DEF QInv, QTypes, QueueSound, KindFor, Types
<1> QED BY <1>1 DEF QInv, FreeQueuesEmpty

\* The boot state satisfies the invariant.
LEMMA InitQInv == Init => QInv
<1> SUFFICES ASSUME Init PROVE QInv
  OBVIOUS
<1> USE DEF Init, NoTypes, NoQueues, NoWaits, NoMutexes, NobodyIn, NoWait,
            NoThread, NoObject
<1>1. QTypes
  BY SlotsAssumption DEF QTypes, WaitRecords, Types, Kinds
<1>2. FreeQueuesEmpty /\ QueueSound /\ FaultPermitted
  BY DEF FreeQueuesEmpty, QueueSound, FaultPermitted
<1>3. TimersSound
  BY DEF TimersSound
<1> QED BY <1>1, <1>2, <1>3 DEF QInv

\* A thread that begins a wait for an object enters the queue of the object.
LEMMA EnterQueue ==
    ASSUME QInv, NEW t \in Callers, NEW s \in Slots, NEW n \in Nat,
           NEW timed \in BOOLEAN, type[s] # "none",
           BeginWait(t, KindFor(type[s]), s, n, timed),
           type[s] = "cond" => ~timed,
           waiters' = [waiters EXCEPT ![s] = @ \cup {t}],
           waitMutex' = waitMutex \/ waitMutex' = [waitMutex EXCEPT ![t] = s],
           UNCHANGED <<type, process, cleanupDone>>
    PROVE  QInv'
<1> DEFINE w == [kind |-> KindFor(type[s]), obj |-> s, value |-> n,
                 timed |-> timed]
<1>0. /\ KindFor(type[s]) \in Kinds \cup {"none"} /\ KindFor(type[s]) # "none"
      /\ timed => KindFor(type[s]) # "cond"
  <2>1. type[s] \in Types
    BY DEF QInv, QTypes
  <2> QED BY <2>1 DEF KindFor, Types, Kinds
<1>1. w \in WaitRecords /\ w.kind # "none" /\ w.obj = s /\ w.timed = timed
      /\ w.kind = KindFor(type[s]) /\ (timed => w.kind # "cond")
  BY <1>0, SlotsAssumption DEF WaitRecords, Slots
<1>2. wait[t].kind = "none" /\ wait' = [wait EXCEPT ![t] = w]
      /\ armed' = [armed EXCEPT ![t] = @ \/ timed]
  BY DEF BeginWait
<1>3. \A r \in Slots : t \notin waiters[r]
  BY <1>2, NotQueued
<1> HIDE DEF w
<1>4. QTypes'
  <2>1. armed' \in [Callers -> BOOLEAN]
    BY <1>2 DEF QInv, QTypes
  <2>2. wait' \in [Callers -> WaitRecords]
    BY <1>1, <1>2 DEF QInv, QTypes
  <2>3. waitMutex' \in [Callers -> 0 .. NumSlots]
    <3>1. CASE waitMutex' = waitMutex
      BY <3>1 DEF QInv, QTypes
    <3>2. CASE waitMutex' = [waitMutex EXCEPT ![t] = s]
      BY <3>2, SlotsAssumption DEF QInv, QTypes, Slots
    <3> QED BY <3>1, <3>2
  <2> QED BY <2>1, <2>2, <2>3 DEF QInv, QTypes
<1>5. FreeQueuesEmpty'
  BY DEF QInv, QTypes, FreeQueuesEmpty
<1>6. QueueSound'
  BY <1>1, <1>2, <1>3 DEF QInv, QTypes, QueueSound
<1>7. TimersSound'
  BY <1>1, <1>2 DEF QInv, QTypes, TimersSound
<1> QED BY <1>4, <1>5, <1>6, <1>7 DEF QInv, FaultPermitted

\* Waiters of one object are woken and leave its queue.
LEMMA LeaveAndWake ==
    ASSUME QInv, NEW s \in Slots, NEW S \in SUBSET waiters[s],
           waiters' = [waiters EXCEPT ![s] = @ \ S], Wake(S),
           waitMutex' = waitMutex \/ ClearWaitMutex(S),
           UNCHANGED <<type, process, cleanupDone>>
    PROVE  QInv'
<1> USE DEF Wake, ClearWaitMutex, NoWait, NoObject
<1>1. QTypes'
  BY SlotsAssumption DEF QInv, QTypes, WaitRecords
<1>2. FreeQueuesEmpty'
  BY DEF QInv, QTypes, FreeQueuesEmpty
<1>3. QueueSound'
  BY DEF QInv, QTypes, QueueSound
<1>4. TimersSound'
  BY DEF QInv, QTypes, TimersSound
<1> QED BY <1>1, <1>2, <1>3, <1>4 DEF QInv, FaultPermitted

\* A free slot becomes an object: no thread refers to it from a queue.
LEMMA FillSlot ==
    ASSUME QInv, NEW s \in Slots, NEW ty \in Types,
           type[s] = "none" \/ type[s] = ty,
           type' = [type EXCEPT ![s] = ty], process' \in 0 .. NumSlots,
           UNCHANGED <<waiters, waits, cleanupDone>>
    PROVE  QInv'
<1> USE DEF waits
<1>0. type[s] # ty => waiters[s] = {}
  BY DEF QInv, FreeQueuesEmpty
<1>1. QTypes'
  BY DEF QInv, QTypes
<1>2. FreeQueuesEmpty'
  BY DEF QInv, QTypes, FreeQueuesEmpty, Types
<1>3. QueueSound'
  <2> SUFFICES ASSUME NEW r \in Slots, NEW t \in waiters[r]
               PROVE  /\ \/ wait[t].obj = r /\ wait[t].kind = KindFor(type'[r])
                         \/ wait[t].kind = "cond" /\ waitMutex[t] = r
                            /\ type'[r] = "mutex"
                      /\ \A q \in Slots : t \in waiters[q] => q = r
    BY DEF QueueSound
  <2>1. type'[r] = type[r]
    BY <1>0 DEF QInv, QTypes
  <2> QED BY <2>1 DEF QInv, QueueSound
<1>4. TimersSound'
  BY DEF QInv, TimersSound
<1> QED BY <1>1, <1>2, <1>3, <1>4 DEF QInv, FaultPermitted

\* An object is deleted, and its queue with it.
LEMMA EmptySlot ==
    ASSUME QInv, NEW s \in Slots,
           type' = [type EXCEPT ![s] = "none"],
           waiters' = [waiters EXCEPT ![s] = {}],
           process' \in 0 .. NumSlots,
           UNCHANGED <<wait, waitMutex, armed, cleanupDone>>
    PROVE  QInv'
<1>1. QTypes'
  BY DEF QInv, QTypes
<1>2. FreeQueuesEmpty'
  BY DEF QInv, QTypes, FreeQueuesEmpty
<1>3. QueueSound'
  BY DEF QInv, QTypes, QueueSound
<1>4. TimersSound'
  BY DEF QInv, TimersSound
<1> QED BY <1>1, <1>2, <1>3, <1>4 DEF QInv, FaultPermitted

\* A timeout takes its thread out of the one queue it stands in.
LEMMA TimeoutStep == ASSUME QInv, NEW t \in Callers, Timeout(t) PROVE QInv'
<1>0. armed[t] /\ wait[t].kind # "none" /\ wait[t].timed /\ wait[t].kind # "cond"
  BY DEF Timeout, QInv, QTypes, TimersSound
<1>1. /\ waiters' = [s \in Slots |-> IF s = wait[t].obj THEN waiters[s] \ {t}
                                     ELSE waiters[s]]
      /\ wait' = [x \in Callers |-> IF x \in {t} THEN NoWait ELSE wait[x]]
      /\ armed' = [x \in Callers |-> armed[x] /\ x \notin {t}]
      /\ waitMutex' = [x \in Callers |-> IF x \in {t} THEN NoObject
                                         ELSE waitMutex[x]]
      /\ UNCHANGED <<type, process, cleanupDone>>
  BY <1>0 DEF Timeout, LeaveQueue, Wake, ClearWaitMutex
<1> USE <1>1 DEF NoWait, NoObject
<1>2. QTypes'
  BY SlotsAssumption DEF QInv, QTypes, WaitRecords
<1>3. FreeQueuesEmpty'
  BY DEF QInv, QTypes, FreeQueuesEmpty
<1>4. QueueSound'
  <2> SUFFICES ASSUME NEW r \in Slots, NEW x \in waiters'[r]
               PROVE  /\ \/ wait'[x].obj = r /\ wait'[x].kind = KindFor(type[r])
                         \/ wait'[x].kind = "cond" /\ waitMutex'[x] = r
                            /\ type[r] = "mutex"
                      /\ \A q \in Slots : x \in waiters'[q] => q = r
    BY DEF QueueSound
  <2>1. x \in waiters[r] /\ x \in Callers
    BY DEF QInv, QTypes
  <2>2. x # t
    <3> SUFFICES ASSUME x = t PROVE FALSE
      OBVIOUS
    <3>1. wait[t].obj = r
      BY <1>0, <2>1 DEF QInv, QueueSound
    <3> QED BY <3>1
  <2>3. wait'[x] = wait[x] /\ waitMutex'[x] = waitMutex[x]
    BY <2>1, <2>2
  <2>4. \A q \in Slots : x \in waiters'[q] => x \in waiters[q]
    OBVIOUS
  <2> QED BY <2>1, <2>3, <2>4 DEF QInv, QueueSound
<1>5. TimersSound'
  BY DEF QInv, QTypes, TimersSound
<1> QED BY <1>2, <1>3, <1>4, <1>5 DEF QInv, FaultPermitted

\* Wakes a thread that took a mutex over, and parks the one that gave it up in
\* the queue of a condition.
LEMMA CondParkStep ==
    ASSUME QInv, NEW t \in Callers, NEW c \in Slots, NEW m \in Slots, c # m,
           NEW n \in {NoThread} \cup waiters[m],
           type[c] = "none" \/ type[c] = "cond", type[m] = "mutex",
           type' = [type EXCEPT ![c] = "cond"],
           CondPark(t, c, m, n), UNCHANGED <<process, cleanupDone>>
    PROVE  QInv'
<1> DEFINE parks == wait[t].kind = "none" \/ n = t
           cw    == [kind |-> "cond", obj |-> c, value |-> 1, timed |-> FALSE]
<1>1. /\ waiters' = [waiters EXCEPT ![m] = @ \ {n},
                                    ![c] = IF parks THEN @ \cup {t} ELSE @]
      /\ waitMutex' = [x \in Callers |-> IF parks /\ x = t THEN m
                                         ELSE IF x = n THEN NoObject
                                         ELSE waitMutex[x]]
      /\ wait' = [x \in Callers |-> IF parks /\ x = t THEN cw
                                    ELSE IF x = n THEN NoWait ELSE wait[x]]
      /\ armed' = [x \in Callers |-> armed[x] /\ x # n]
  BY DEF CondPark
<1>2. /\ waiters'[m] = waiters[m] \ {n}
      /\ waiters'[c] = IF parks THEN waiters[c] \cup {t} ELSE waiters[c]
      /\ \A r \in Slots \ {m, c} : waiters'[r] = waiters[r]
  BY <1>1 DEF QInv, QTypes
<1>3. /\ \A x \in Callers : x # t /\ x # n =>
            wait'[x] = wait[x] /\ waitMutex'[x] = waitMutex[x]
      /\ parks => wait'[t] = cw /\ waitMutex'[t] = m
      /\ n # NoThread /\ n # t => wait'[n] = NoWait
      /\ ~parks => wait'[t] = wait[t] /\ waitMutex'[t] = waitMutex[t]
  BY <1>1 DEF QInv, QTypes
<1>4. parks => \A r \in Slots \ {m} : t \notin waiters[r]
  <2>1. CASE wait[t].kind = "none"
    BY <2>1, NotQueued
  <2>2. CASE n = t
    <3>1. t \in waiters[m]
      BY <2>2, SlotsAssumption DEF NoThread, Callers, Main
    <3> QED BY <3>1 DEF QInv, QueueSound
  <2> QED BY <2>1, <2>2
<1>5. parks /\ n # t => t \notin waiters[m]
  BY NotQueued
<1>6. n # NoThread => \A r \in Slots \ {m} : n \notin waiters[r]
  BY DEF QInv, QueueSound
<1>7. type[c] = "none" => waiters[c] = {}
  BY DEF QInv, FreeQueuesEmpty
<1>8. cw \in WaitRecords /\ NoWait \in WaitRecords
  BY SlotsAssumption DEF WaitRecords, Kinds, Slots, NoWait, NoObject
<1>9. QTypes'
  <2>1. waiters' \in [Slots -> SUBSET Callers]
    BY <1>1 DEF QInv, QTypes
  <2>2. wait' \in [Callers -> WaitRecords]
    <3> HIDE DEF cw
    <3> QED BY <1>1, <1>8 DEF QInv, QTypes
  <2>3. waitMutex' \in [Callers -> 0 .. NumSlots]
    BY <1>1, SlotsAssumption DEF QInv, QTypes, Slots, NoObject
  <2>4. armed' \in [Callers -> BOOLEAN]
    BY <1>1
  <2>5. type' \in [Slots -> Types \cup {"none"}] /\ process' \in 0 .. NumSlots
    BY DEF QInv, QTypes, Types
  <2> QED BY <2>1, <2>2, <2>3, <2>4, <2>5 DEF QTypes
<1>10. FreeQueuesEmpty'
  BY <1>2 DEF QInv, QTypes, FreeQueuesEmpty
<1>11. QueueSound'
  <2> SUFFICES ASSUME NEW r \in Slots, NEW x \in waiters'[r]
               PROVE  /\ \/ wait'[x].obj = r /\ wait'[x].kind = KindFor(type'[r])
                         \/ wait'[x].kind = "cond" /\ waitMutex'[x] = r
                            /\ type'[r] = "mutex"
                      /\ \A q \in Slots : x \in waiters'[q] => q = r
    BY DEF QueueSound
  <2>1. type'[c] = "cond" /\ \A q \in Slots \ {c} : type'[q] = type[q]
    BY DEF QInv, QTypes
  <2>2. CASE parks /\ x = t
    <3>1. \A q \in Slots : t \in waiters'[q] => q = c
      BY <1>2, <1>4, <1>5, <2>2
    <3>2. wait'[t].obj = c /\ wait'[t].kind = "cond"
      BY <1>3, <2>2
    <3> QED BY <2>1, <2>2, <3>1, <3>2 DEF KindFor
  <2>3. CASE ~(parks /\ x = t)
    <3>1. x \in waiters[r] /\ \A q \in Slots : x \in waiters'[q] => x \in waiters[q]
      BY <1>2, <2>3
    <3>2. x # n /\ x \in Callers
      <4>1. n # NoThread
            => \A q \in Slots : n \in waiters'[q] => parks /\ n = t
        BY <1>2, <1>6
      <4>2. x \in Callers
        BY <3>1 DEF QInv, QTypes
      <4> QED BY <2>3, <4>1, <4>2, SlotsAssumption DEF NoThread, Callers, Main
    <3>3. wait'[x] = wait[x] /\ waitMutex'[x] = waitMutex[x]
      BY <1>3, <2>3, <3>2
    <3>4. r = c => type[c] = "cond"
      BY <1>7, <3>1
    <3> QED BY <2>1, <3>1, <3>3, <3>4 DEF QInv, QueueSound
  <2> QED BY <2>2, <2>3
<1>12. TimersSound'
  <2> SUFFICES ASSUME NEW x \in Callers
               PROVE  /\ armed'[x] => wait'[x].timed /\ wait'[x].kind # "none"
                      /\ wait'[x].timed => wait'[x].kind # "cond"
    BY DEF TimersSound
  <2>1. CASE x = n
    BY <1>1, <2>1 DEF NoWait
  <2>2. CASE x # n /\ parks /\ x = t
    BY <1>1, <1>3, <2>2 DEF QInv, QTypes, TimersSound
  <2>3. CASE x # n /\ ~(parks /\ x = t)
    BY <1>1, <1>3, <2>3 DEF QInv, QTypes, TimersSound
  <2> QED BY <2>1, <2>2, <2>3
<1> QED BY <1>9, <1>10, <1>11, <1>12 DEF QInv, FaultPermitted

\* A signal empties the queue of its condition: each waiter is woken or stands
\* in the queue of its mutex, parked as before.
LEMMA CondSignalStep ==
    ASSUME QInv, NEW t \in Callers, NEW c \in Slots, CondSignal(t, c)
    PROVE  QInv'
<1> DEFINE woken == Granted(c) \cup Orphans(c)
<1>1. /\ type[c] = "none" \/ type[c] = "cond"
      /\ type' = [type EXCEPT ![c] = "cond"]
      /\ waiters' = [s \in Slots |-> IF s = c THEN {}
                                     ELSE waiters[s] \cup Moved(c, s)]
      /\ waitMutex' = [x \in Callers |-> IF x \in woken THEN NoObject
                                         ELSE waitMutex[x]]
      /\ wait' = [x \in Callers |-> IF x \in woken THEN NoWait ELSE wait[x]]
      /\ armed' = [x \in Callers |-> armed[x] /\ x \notin woken]
      /\ UNCHANGED <<process, cleanupDone>>
  BY DEF CondSignal, LiveOrStatic, Alloc, FirstFree, Free, ClearWaitMutex, Wake
<1>2. /\ woken \subseteq waiters[c]
      /\ \A s \in Slots : Moved(c, s) \subseteq waiters[c]
      /\ \A s \in Slots : \A x \in Moved(c, s) :
            x \notin woken /\ waitMutex[x] = s /\ IsMutex(waitMutex[x])
  BY DEF Granted, Orphans, Moved
<1> HIDE DEF woken
<1>3. type[c] = "none" => waiters[c] = {}
  BY DEF QInv, FreeQueuesEmpty
<1>4. NoWait \in WaitRecords
  BY SlotsAssumption DEF WaitRecords, NoWait, NoObject
<1>5. QTypes'
  <2>1. waiters' \in [Slots -> SUBSET Callers]
    BY <1>1, <1>2 DEF QInv, QTypes
  <2>2. wait' \in [Callers -> WaitRecords]
    BY <1>1, <1>4 DEF QInv, QTypes
  <2>3. waitMutex' \in [Callers -> 0 .. NumSlots]
    BY <1>1, SlotsAssumption DEF QInv, QTypes, NoObject
  <2>4. armed' \in [Callers -> BOOLEAN]
    BY <1>1
  <2>5. type' \in [Slots -> Types \cup {"none"}] /\ process' \in 0 .. NumSlots
    BY <1>1 DEF QInv, QTypes, Types
  <2> QED BY <2>1, <2>2, <2>3, <2>4, <2>5 DEF QTypes
<1>6. FreeQueuesEmpty'
  <2> SUFFICES ASSUME NEW s \in Slots, type'[s] = "none" PROVE waiters'[s] = {}
    BY DEF FreeQueuesEmpty
  <2>1. s # c /\ type[s] = "none"
    BY <1>1 DEF QInv, QTypes
  <2>2. Moved(c, s) = {}
    BY <1>2, <2>1 DEF IsMutex
  <2> QED BY <1>1, <2>1, <2>2 DEF QInv, FreeQueuesEmpty
<1>7. QueueSound'
  <2> SUFFICES ASSUME NEW r \in Slots, NEW x \in waiters'[r]
               PROVE  /\ \/ wait'[x].obj = r /\ wait'[x].kind = KindFor(type'[r])
                         \/ wait'[x].kind = "cond" /\ waitMutex'[x] = r
                            /\ type'[r] = "mutex"
                      /\ \A q \in Slots : x \in waiters'[q] => q = r
    BY DEF QueueSound
  <2>1. r # c /\ type'[r] = type[r]
    BY <1>1 DEF QInv, QTypes
  <2>2. CASE x \in Moved(c, r)
    <3>1. x \in waiters[c] /\ x \notin woken /\ waitMutex[x] = r /\ IsMutex(r)
      BY <1>2, <2>2
    <3>2. x \in Callers /\ wait'[x] = wait[x] /\ waitMutex'[x] = r
      BY <1>1, <3>1 DEF QInv, QTypes
    <3>3. wait[x].kind = "cond"
      BY <1>1, <1>3, <3>1 DEF QInv, QTypes, QueueSound, KindFor
    <3>4. \A q \in Slots : x \in waiters'[q] => q = r
      <4> SUFFICES ASSUME NEW q \in Slots, x \in waiters'[q] PROVE q = r
        OBVIOUS
      <4>1. q # c /\ (x \in waiters[q] \/ x \in Moved(c, q))
        BY <1>1
      <4>2. x \notin waiters[q]
        BY <3>1, <4>1 DEF QInv, QueueSound
      <4> QED BY <1>2, <3>1, <4>1, <4>2
    <3> QED BY <2>1, <3>1, <3>2, <3>3, <3>4 DEF IsMutex
  <2>3. CASE x \notin Moved(c, r)
    <3>1. x \in waiters[r] /\ x \in Callers
      BY <1>1, <2>1, <2>3 DEF QInv, QTypes
    <3>2. x \notin waiters[c]
      BY <2>1, <3>1 DEF QInv, QueueSound
    <3>3. wait'[x] = wait[x] /\ waitMutex'[x] = waitMutex[x]
      BY <1>1, <1>2, <3>1, <3>2
    <3>4. \A q \in Slots : x \in waiters'[q] => x \in waiters[q]
      BY <1>1, <1>2, <3>2
    <3> QED BY <2>1, <3>1, <3>3, <3>4 DEF QInv, QueueSound
  <2> QED BY <2>2, <2>3
<1>8. TimersSound'
  BY <1>1 DEF QInv, QTypes, TimersSound, NoWait
<1> QED BY <1>1, <1>5, <1>6, <1>7, <1>8 DEF QInv, FaultPermitted

\* A sleeping thread stands in no queue.
LEMMA SleepStep == ASSUME QInv, NEW t \in Callers, Sleep(t) PROVE QInv'
<1> DEFINE w == [kind |-> "sleep", obj |-> NoObject, value |-> 0, timed |-> TRUE]
<1>1. /\ wait[t].kind = "none" /\ wait' = [wait EXCEPT ![t] = w]
      /\ armed' = [armed EXCEPT ![t] = TRUE]
      /\ UNCHANGED <<type, waiters, waitMutex, process, cleanupDone>>
  BY DEF Sleep, BeginWait, objects
<1>2. w \in WaitRecords /\ w.timed /\ w.kind # "none" /\ w.kind # "cond"
  BY SlotsAssumption DEF WaitRecords, Kinds, NoObject
<1>3. \A r \in Slots : t \notin waiters[r]
  BY <1>1, NotQueued
<1> HIDE DEF w
<1>4. QTypes'
  BY <1>1, <1>2 DEF QInv, QTypes
<1>5. FreeQueuesEmpty'
  BY <1>1 DEF QInv, FreeQueuesEmpty
<1>6. QueueSound'
  BY <1>1, <1>3 DEF QInv, QTypes, QueueSound
<1>7. TimersSound'
  BY <1>1, <1>2 DEF QInv, QTypes, TimersSound
<1> QED BY <1>1, <1>4, <1>5, <1>6, <1>7 DEF QInv, FaultPermitted

\* The steps of mutexes.
LEMMA MutexSteps == ASSUME QInv, NEW t \in Callers, MutexStep(t) PROVE QInv'
<1>0. PICK m \in Slots :
         \/ Lock(t, m) \/ NpTrylock(t, m) \/ UnlockNested(t, m)
         \/ UnlockLast(t, m)
         \/ \E timed \in BOOLEAN : LockWait(t, m, timed)
  BY DEF MutexStep
<1>1. CASE Lock(t, m)
  <2>1. type[m] = "none" \/ type[m] = "mutex"
    BY <1>1 DEF Lock, LiveOrStatic, Alloc, FirstFree, Free
  <2> QED BY <1>1, <2>1, FillSlot DEF Lock, waits, Types, QInv, QTypes
<1>2. CASE NpTrylock(t, m)
  BY <1>2, SameQueues DEF NpTrylock, queueVars, waits
<1>3. CASE UnlockNested(t, m)
  BY <1>3, SameQueues DEF UnlockNested, queueVars, waits
<1>4. CASE UnlockLast(t, m)
  <2>1. PICK n \in Successors(m) :
           /\ waiters' = [waiters EXCEPT ![m] = @ \ {n}]
           /\ ClearWaitMutex({n}) /\ Wake({n})
           /\ UNCHANGED <<type, process, cleanupDone>>
    BY <1>4 DEF UnlockLast
  <2>2. n = NoThread \/ n \in waiters[m]
    BY DEF Successors, Pickable, Picked
  <2>3. CASE n \in waiters[m]
    BY <2>1, <2>3, LeaveAndWake
  <2>4. CASE n = NoThread
    <3>1. n \notin Callers
      BY <2>4 DEF NoThread, Callers, Main
    <3>2. waiters' = waiters
      BY <2>1, <3>1 DEF QInv, QTypes
    <3>3. wait' = wait
      BY <2>1, <3>1 DEF QInv, QTypes, Wake
    <3>4. waitMutex' = waitMutex
      BY <2>1, <3>1 DEF QInv, QTypes, ClearWaitMutex
    <3>5. armed' = armed
      BY <2>1, <3>1 DEF QInv, QTypes, Wake
    <3> QED BY <2>1, <3>2, <3>3, <3>4, <3>5, SameQueues DEF queueVars
  <2> QED BY <2>2, <2>3, <2>4
<1>5. ASSUME NEW timed \in BOOLEAN, LockWait(t, m, timed) PROVE QInv'
  <2>1. /\ type[m] = "mutex" /\ BeginWait(t, KindFor(type[m]), m, 1, timed)
        /\ waiters' = [waiters EXCEPT ![m] = @ \cup {t}]
        /\ waitMutex' = [waitMutex EXCEPT ![t] = m]
        /\ UNCHANGED <<type, process, cleanupDone>>
    BY <1>5 DEF LockWait, KindFor
  <2>2. type[m] # "none" /\ type[m] # "cond"
    BY <2>1
  <2> QED BY <2>1, <2>2, EnterQueue
<1> QED BY <1>0, <1>1, <1>2, <1>3, <1>4, <1>5

\* The steps of condition variables.
LEMMA CondSteps == ASSUME QInv, NEW t \in Callers, CondStep(t) PROVE QInv'
<1>0. PICK c \in Slots : CondSignal(t, c)
         \/ \E m \in Slots : CondWait(t, c, m) \/ CondWaitNested(t, c, m)
  BY DEF CondStep
<1>1. CASE CondSignal(t, c)
  BY <1>1, CondSignalStep
<1>2. ASSUME NEW m \in Slots, CondWait(t, c, m) PROVE QInv'
  <2>1. PICK n \in Successors(m) : CondPark(t, c, m, n)
    BY <1>2 DEF CondWait
  <2>2. n \in {NoThread} \cup waiters[m]
    BY DEF Successors, Pickable, Picked
  <2>3. type[c] = "none" \/ type[c] = "cond"
    BY <1>2 DEF CondWait, LiveOrStatic, Alloc, FirstFree, Free
  <2> QED BY <1>2, <2>1, <2>2, <2>3, CondParkStep DEF CondWait, Owns
<1>3. ASSUME NEW m \in Slots, CondWaitNested(t, c, m) PROVE QInv'
  <2>1. type[c] = "none" \/ type[c] = "cond"
    BY <1>3 DEF CondWaitNested, LiveOrStatic, Alloc, FirstFree, Free
  <2> QED BY <1>3, <2>1, CondParkStep DEF CondWaitNested, Owns
<1> QED BY <1>0, <1>1, <1>2, <1>3

\* The steps of semaphores and barriers.
LEMMA CountSteps ==
    ASSUME QInv, NEW t \in Callers, SemStep(t) \/ KSemaStep(t) \/ BarrierStep(t)
    PROVE  QInv'
<1> USE DEF KindFor
<1>1. ASSUME NEW s \in Slots, SemTake(t, s) \/ SemPostCounts(t, s) PROVE QInv'
  BY <1>1, SameQueues DEF SemTake, SemPostCounts, queueVars, waits
<1>2. ASSUME NEW s \in Slots, SemWait(t, s) PROVE QInv'
  BY <1>2, EnterQueue DEF SemWait
<1>3. ASSUME NEW s \in Slots, SemPostWakes(t, s) PROVE QInv'
  <2>1. PICK w \in waiters[s] :
           waiters' = [waiters EXCEPT ![s] = @ \ {w}] /\ Wake({w})
    BY <1>3 DEF SemPostWakes, Picked
  <2> QED BY <1>3, <2>1, LeaveAndWake DEF SemPostWakes
<1>4. ASSUME NEW s \in Slots, NEW n \in 0 .. MaxSem, KSemaTake(t, s, n)
      PROVE  QInv'
  BY <1>4, SameQueues DEF KSemaTake, queueVars, waits
<1>5. ASSUME NEW s \in Slots, NEW n \in 0 .. MaxSem, NEW timed \in BOOLEAN,
             KSemaWait(t, s, n, timed)
      PROVE  QInv'
  <2>1. n \in Nat
    BY BoundsAssumption
  <2>2. /\ type[s] = "ksema" /\ BeginWait(t, KindFor(type[s]), s, n, timed)
        /\ waiters' = [waiters EXCEPT ![s] = @ \cup {t}]
        /\ UNCHANGED <<type, waitMutex, process, cleanupDone>>
    BY <1>5 DEF KSemaWait
  <2> HIDE DEF KindFor
  <2>3. type[s] # "none" /\ type[s] # "cond"
    BY <2>2
  <2> QED BY <2>1, <2>2, <2>3, EnterQueue
<1>6. ASSUME NEW s \in Slots, NEW n \in 0 .. MaxSem, KSemaSignal(t, s, n)
      PROVE  QInv'
  <2>1. PICK S \in SUBSET waiters[s] :
           waiters' = [waiters EXCEPT ![s] = @ \ S] /\ Wake(S)
    BY <1>6 DEF KSemaSignal
  <2> QED BY <1>6, <2>1, LeaveAndWake DEF KSemaSignal
<1>7. ASSUME NEW s \in Slots, waiters' = [waiters EXCEPT ![s] = {}],
             Wake(waiters[s]), UNCHANGED <<type, waitMutex, process, cleanupDone>>
      PROVE  QInv'
  <2>1. waiters' = [waiters EXCEPT ![s] = @ \ waiters[s]]
    BY <1>7
  <2> QED BY <1>7, <2>1, LeaveAndWake
<1>8. ASSUME NEW s \in Slots, NEW n \in 0 .. MaxSem, KSemaCancel(t, s, n)
      PROVE  QInv'
  BY <1>7, <1>8 DEF KSemaCancel
<1>9. ASSUME NEW s \in Slots, BarrierWait(t, s) PROVE QInv'
  BY <1>9, EnterQueue DEF BarrierWait
<1>10. ASSUME NEW s \in Slots, BarrierOpen(t, s) PROVE QInv'
  BY <1>7, <1>10 DEF BarrierOpen
<1>11. ASSUME NEW s \in Slots, BarrierDestroy(t, s) PROVE QInv'
  BY <1>11, EmptySlot DEF BarrierDestroy, Delete, waits, QInv, QTypes
<1>12. CASE SemStep(t)
  BY <1>1, <1>2, <1>3, <1>12 DEF SemStep
<1>13. CASE KSemaStep(t)
  BY <1>4, <1>5, <1>6, <1>8, <1>13 DEF KSemaStep
<1>14. CASE BarrierStep(t)
  BY <1>9, <1>10, <1>11, <1>14 DEF BarrierStep
<1> QED BY <1>12, <1>13, <1>14

\* The steps that create and destroy objects.
LEMMA ObjectSteps == ASSUME QInv, NEW t \in Callers, ObjectStep(t) PROVE QInv'
<1>1. ASSUME NEW s \in Slots, Destroy(t, s) PROVE QInv'
  BY <1>1, EmptySlot DEF Destroy, Delete, waits, QInv, QTypes
<1>2. ASSUME NEW s \in Slots, NEW ty \in {"mutex", "cond"}, Create(t, s, ty)
      PROVE  QInv'
  BY <1>2, FillSlot DEF Create, Alloc, FirstFree, Free, Types, QInv, QTypes
<1>3. ASSUME NEW s \in Slots, NEW ty \in {"sem", "ksema", "barrier"},
             NEW n \in 0 .. MaxSem, NEW max \in 0 .. MaxSem,
             CreateCounted(t, s, ty, n, max)
      PROVE  QInv'
  BY <1>3, FillSlot DEF CreateCounted, Alloc, FirstFree, Free, Types, QInv,
                        QTypes
<1> QED BY <1>1, <1>2, <1>3 DEF ObjectStep

\* The steps of threads.
LEMMA ThreadSteps == ASSUME QInv, NEW t \in Callers, ThreadStep(t) PROVE QInv'
<1>1. ASSUME NEW s \in Slots, NEW p, NEW runs, NewThread(s, p, runs),
             process' \in 0 .. NumSlots, UNCHANGED <<waits, cleanupDone>>
      PROVE  QInv'
  BY <1>1, FillSlot DEF NewThread, Alloc, FirstFree, Free, Types
<1>2. CASE Exit(t)
  <2>1. t \in Slots
    BY <1>2, SlotsAssumption DEF Exit, Callers, Slots, Main
  <2>2. waiters' = [waiters EXCEPT ![t] = @ \ waiters[t]]
    BY <1>2 DEF Exit
  <2> QED BY <1>2, <2>1, <2>2, LeaveAndWake DEF Exit
<1>3. CASE ProcessKill(t)
  <2>1. process \in Slots
    BY <1>3 DEF ProcessKill, NoThread, Slots, QInv, QTypes
  <2>2. process' \in 0 .. NumSlots
    BY <1>3, SlotsAssumption DEF ProcessKill, NoThread
  <2> QED BY <1>3, <2>1, <2>2, EmptySlot DEF ProcessKill
<1>4. ASSUME NEW s \in Slots, NpThreadCreate(t, s) PROVE QInv'
  BY <1>1, <1>4 DEF NpThreadCreate, QInv, QTypes
<1>5. ASSUME NEW s \in Slots, Detach(t, s) PROVE QInv'
  BY <1>5, SameQueues DEF Detach, queueVars, waits
<1>6. ASSUME NEW s \in Slots, JoinWait(t, s) PROVE QInv'
  BY <1>6, EnterQueue DEF JoinWait, KindFor
<1>7. ASSUME NEW s \in Slots, JoinFinished(t, s) PROVE QInv'
  BY <1>7, EmptySlot DEF JoinFinished, Delete, waits, QInv, QTypes
<1>8. ASSUME NEW s \in Slots, ProcessAdd(t, s) PROVE QInv'
  <2>1. process' \in 0 .. NumSlots
    BY <1>8, SlotsAssumption DEF ProcessAdd, Slots
  <2> QED BY <1>1, <1>8, <2>1 DEF ProcessAdd
<1>9. ASSUME NEW s \in Slots, NEW p \in Priorities, ThreadCreate(t, s, p)
      PROVE  QInv'
  BY <1>1, <1>9 DEF ThreadCreate, QInv, QTypes
<1>10. ASSUME NEW s \in Slots, NEW p \in Priorities, SetPriority(t, s, p)
       PROVE  QInv'
  BY <1>10, SameQueues DEF SetPriority, queueVars, waits
<1> QED BY <1>2, <1>3, <1>4, <1>5, <1>6, <1>7, <1>8, <1>9, <1>10, SleepStep
        DEF ThreadStep

\* A fatal fault deletes timers, and no reset follows it.
LEMMA FaultStep == ASSUME QInv, NEW t \in Callers, FatalFault(t) PROVE QInv'
<1>1. /\ armed' = [x \in Callers |-> armed[x] /\ cleanupDone]
      /\ "fatal_fault" \in Permitted
      /\ UNCHANGED <<type, waiters, wait, waitMutex, process>>
  BY DEF FatalFault, objects
<1>2. QTypes'
  <2>1. armed' \in [Callers -> BOOLEAN]
    BY <1>1 DEF QInv, QTypes
  <2> QED BY <1>1, <2>1 DEF QInv, QTypes
<1>3. FreeQueuesEmpty' /\ QueueSound' /\ FaultPermitted'
  BY <1>1 DEF QInv, FreeQueuesEmpty, QueueSound, FaultPermitted
<1>4. TimersSound'
  BY <1>1 DEF QInv, TimersSound
<1> QED BY <1>2, <1>3, <1>4 DEF QInv

\* A reset of a machine that had no fatal fault deletes every timer.
LEMMA ResetStep ==
    ASSUME QInv, Reset, ~({"fatal_fault", "reset"} \subseteq Permitted)
    PROVE  QInv'
<1>1. ~cleanupDone
  BY DEF Reset, QInv, FaultPermitted
<1> USE <1>1 DEF Reset, NoTypes, NoQueues, NoWaits, NoMutexes, NobodyIn, NoWait,
            NoThread, NoObject
<1>2. QTypes'
  <2>1. armed' \in [Callers -> BOOLEAN]
    OBVIOUS
  <2> QED BY <2>1, SlotsAssumption DEF QTypes, WaitRecords, Types, Kinds
<1>3. FreeQueuesEmpty' /\ QueueSound' /\ FaultPermitted'
  BY DEF FreeQueuesEmpty, QueueSound, FaultPermitted
<1>4. TimersSound'
  BY DEF TimersSound
<1> QED BY <1>2, <1>3, <1>4 DEF QInv

\* The invariant of the queues holds of every run in which a machine that had a
\* fatal fault is not reset.
LEMMA AlwaysQInv ==
    ~({"fatal_fault", "reset"} \subseteq Permitted) => (Spec => []QInv)
<1> SUFFICES ASSUME ~({"fatal_fault", "reset"} \subseteq Permitted)
             PROVE  Spec => []QInv
  OBVIOUS
<1>1. QInv /\ [Next]_vars => QInv'
  <2> SUFFICES ASSUME QInv, [Next]_vars PROVE QInv'
    OBVIOUS
  <2>1. CASE UNCHANGED vars
    BY <2>1, SameQueues DEF vars, objects, waits, queueVars
  <2>2. CASE Reset
    BY <2>2, ResetStep
  <2>3. ASSUME NEW t \in Callers, MutexStep(t) \/ CondStep(t) PROVE QInv'
    BY <2>3, MutexSteps, CondSteps
  <2>4. ASSUME NEW t \in Callers, SemStep(t) \/ KSemaStep(t) \/ BarrierStep(t)
        PROVE  QInv'
    BY <2>4, CountSteps
  <2>5. ASSUME NEW t \in Callers, ObjectStep(t) \/ ThreadStep(t) PROVE QInv'
    BY <2>5, ObjectSteps, ThreadSteps
  <2>6. ASSUME NEW t \in Callers, FatalFault(t) \/ Timeout(t) PROVE QInv'
    BY <2>6, FaultStep, TimeoutStep
  <2> QED BY <2>1, <2>2, <2>3, <2>4, <2>5, <2>6 DEF Next
<1> QED BY InitQInv, <1>1, PTL DEF Spec

\* QueueSound holds of every run in which a machine that had a fatal fault is
\* not reset: cond_signal, cancel and exit always empty the queue they serve,
\* also after kills, forced destroys, timeouts and nested waits.
THEOREM QueueSoundHolds ==
    ~({"fatal_fault", "reset"} \subseteq Permitted) => (Spec => []QueueSound)
<1>1. QInv => QueueSound
  BY DEF QInv
<1> QED BY AlwaysQInv, <1>1, PTL

\* Where a machine that had a fatal fault is not reset, a timer is pending only
\* for a wait that asked for one, whoever is woken, killed or deleted meanwhile.
\* With both events it fails, as shadps4_hle_cleanup keeps the later timers.
THEOREM TimersMatchWaitsHolds ==
    ~({"fatal_fault", "reset"} \subseteq Permitted)
    => (Spec => []TimersMatchWaits)
<1>1. QInv => TimersMatchWaits
  BY DEF QInv, TimersSound, TimersMatchWaits
<1> QED BY AlwaysQInv, <1>1, PTL

-----------------------------------------------------------------------------
(***************************************************************************)
(* NoForgottenWaiter.  A waiting thread is parked, and stands in a queue    *)
(* unless it sleeps.  Whoever takes a thread out of a queue wakes it, or    *)
(* moves it to another: it remains to see that a queue is never dropped.    *)
(* The queue of a thread that no longer runs is empty, so a join that finds *)
(* it finished drops nobody; forced destroys and kills do drop waiters.     *)
(***************************************************************************)
ParkedWhileWaiting == \A t \in Callers : wait[t].kind # "none" => parked[t]

QuietWhenDone ==
    \A s \in Slots : type[s] = "thread" /\ ~active[s] => waiters[s] = {}

JoinsLive ==
    \A t \in Callers : wait[t].kind = "join" =>
       /\ wait[t].obj \in Slots /\ t \in waiters[wait[t].obj]
       /\ type[wait[t].obj] = "thread" /\ active[wait[t].obj]

Enlisted ==
    "destroy_busy" \notin Permitted =>
       \A t \in Callers : wait[t].kind \notin {"none", "sleep"} =>
          \E s \in Slots : t \in waiters[s]

WInv ==
    /\ parked \in [Callers -> BOOLEAN] /\ active \in [Slots -> BOOLEAN]
    /\ ParkedWhileWaiting /\ QuietWhenDone /\ JoinsLive /\ Enlisted

\* The boot state has no waits.
LEMMA InitWInv == Init => WInv
<1> SUFFICES ASSUME Init PROVE WInv
  OBVIOUS
<1> USE DEF Init, NoTypes, NoFlags, NoQueues, NoWaits, NobodyIn, NoWait
<1>1. parked \in [Callers -> BOOLEAN] /\ active \in [Slots -> BOOLEAN]
  OBVIOUS
<1>2. ParkedWhileWaiting /\ QuietWhenDone /\ JoinsLive /\ Enlisted
  BY DEF ParkedWhileWaiting, QuietWhenDone, JoinsLive, Enlisted
<1> QED BY <1>1, <1>2 DEF WInv

\* A step that leaves waits and queues alone, and lets no thread end.
LEMMA SameWaits ==
    ASSUME WInv, UNCHANGED <<wait, waiters>>, active' \in [Slots -> BOOLEAN],
           parked' \in [Callers -> BOOLEAN], \A t \in Callers : parked[t] => parked'[t],
           \A s \in Slots : type[s] = "thread" /\ active[s]
                            => type'[s] = "thread" /\ active'[s],
           \A s \in Slots : type'[s] = "thread" /\ ~active'[s] => waiters[s] = {}
    PROVE  WInv'
<1>1. ParkedWhileWaiting' /\ QuietWhenDone' /\ Enlisted'
  BY DEF WInv, ParkedWhileWaiting, QuietWhenDone, Enlisted
<1>2. JoinsLive'
  BY DEF WInv, JoinsLive
<1> QED BY <1>1, <1>2 DEF WInv

\* A thread begins a wait for an object and enters its queue.
LEMMA WaitBegins ==
    ASSUME QInv, WInv, NEW t \in Callers, NEW s \in Slots, NEW n,
           NEW timed \in BOOLEAN, NEW kind, kind = KindFor(type[s]),
           BeginWait(t, kind, s, n, timed), type[s] = "thread" => active[s],
           type[s] # "none", waiters' = [waiters EXCEPT ![s] = @ \cup {t}],
           UNCHANGED <<type, active>>
    PROVE  WInv'
<1>1. /\ wait' = [wait EXCEPT ![t] = [kind |-> kind, obj |-> s, value |-> n,
                                      timed |-> timed]]
      /\ parked' = [parked EXCEPT ![t] = TRUE]
      /\ wait[t].kind = "none"
  BY DEF BeginWait
<1>2. kind = "join" => type[s] = "thread"
  BY DEF QInv, QTypes, KindFor, Types
<1>3. /\ wait'[t].kind = kind /\ wait'[t].obj = s /\ t \in waiters'[s] /\ parked'[t]
      /\ \A x \in Callers \ {t} : wait'[x] = wait[x] /\ parked'[x] = parked[x]
      /\ \A r \in Slots : waiters[r] \subseteq waiters'[r]
      /\ \A r \in Slots \ {s} : waiters'[r] = waiters[r]
  BY <1>1 DEF QInv, QTypes, WInv
<1>4. ParkedWhileWaiting'
  BY <1>3 DEF WInv, ParkedWhileWaiting
<1>5. QuietWhenDone'
  BY <1>3 DEF WInv, QuietWhenDone
<1>6. JoinsLive'
  BY <1>2, <1>3 DEF WInv, JoinsLive
<1>7. Enlisted'
  <2> SUFFICES ASSUME "destroy_busy" \notin Permitted, NEW x \in Callers,
                      wait'[x].kind \notin {"none", "sleep"}
               PROVE  \E r \in Slots : x \in waiters'[r]
    BY DEF Enlisted
  <2>1. CASE x = t
    BY <1>3, <2>1
  <2>2. CASE x # t
    BY <1>3, <2>2 DEF WInv, Enlisted
  <2> QED BY <2>1, <2>2
<1> QED BY <1>1, <1>4, <1>5, <1>6, <1>7 DEF WInv

\* Waiters of one object are woken and leave its queue, all of them when the
\* object is a thread that ends.
LEMMA WaitsEnd ==
    ASSUME QInv, WInv, NEW s \in Slots, NEW S \in SUBSET waiters[s], Wake(S),
           waiters' = [waiters EXCEPT ![s] = @ \ S], UNCHANGED type,
           \/ UNCHANGED active
           \/ type[s] = "thread" /\ S = waiters[s]
              /\ active' = [active EXCEPT ![s] = FALSE]
           \/ type[s] = "mutex" /\ active' \in [Slots -> BOOLEAN]
              /\ \A r \in Slots \ {s} : active'[r] = active[r]
    PROVE  WInv'
<1>0. S \subseteq Callers
  BY DEF QInv, QTypes
<1>1. /\ \A x \in S : wait'[x].kind = "none"
      /\ \A x \in Callers \ S : wait'[x] = wait[x] /\ parked'[x] = parked[x]
      /\ parked' \in [Callers -> BOOLEAN]
  BY <1>0 DEF Wake, NoWait, WInv
<1>2. /\ waiters'[s] = waiters[s] \ S
      /\ \A r \in Slots \ {s} : waiters'[r] = waiters[r]
  BY DEF QInv, QTypes
<1>3. ParkedWhileWaiting'
  BY <1>1 DEF WInv, ParkedWhileWaiting
<1>4. active' \in [Slots -> BOOLEAN]
  BY DEF WInv
<1>5. /\ \A r \in Slots \ {s} : active'[r] = active[r]
      /\ type[s] # "mutex" => active'[s] = active[s] \/ S = waiters[s]
  BY DEF WInv
<1>6. QuietWhenDone'
  BY <1>2, <1>5 DEF WInv, QuietWhenDone
<1>7. JoinsLive'
  <2> SUFFICES ASSUME NEW x \in Callers, wait'[x].kind = "join"
               PROVE  /\ wait'[x].obj \in Slots /\ x \in waiters'[wait'[x].obj]
                      /\ type'[wait'[x].obj] = "thread" /\ active'[wait'[x].obj]
    BY DEF JoinsLive
  <2>1. x \notin S /\ wait'[x] = wait[x]
    BY <1>1
  <2>2. /\ wait[x].obj \in Slots /\ x \in waiters[wait[x].obj]
        /\ type[wait[x].obj] = "thread" /\ active[wait[x].obj]
    BY <2>1 DEF WInv, JoinsLive
  <2> QED BY <1>2, <1>5, <2>1, <2>2
<1>8. Enlisted'
  <2> SUFFICES ASSUME "destroy_busy" \notin Permitted, NEW x \in Callers,
                      wait'[x].kind \notin {"none", "sleep"}
               PROVE  \E r \in Slots : x \in waiters'[r]
    BY DEF Enlisted
  <2>1. x \notin S /\ wait'[x] = wait[x]
    BY <1>1
  <2>2. PICK r \in Slots : x \in waiters[r]
    BY <2>1 DEF WInv, Enlisted
  <2> QED BY <1>2, <2>1, <2>2
<1> QED BY <1>1, <1>3, <1>4, <1>6, <1>7, <1>8 DEF WInv

\* An object that is no running thread is deleted.
LEMMA QueueDropped ==
    ASSUME QInv, WInv, NEW s \in Slots, Delete(s),
           type[s] = "thread" => ~active[s],
           waiters[s] # {} => "destroy_busy" \in Permitted,
           UNCHANGED waits
    PROVE  WInv'
<1>1. /\ type' = [type EXCEPT ![s] = "none"]
      /\ active' = [active EXCEPT ![s] = FALSE]
      /\ waiters' = [waiters EXCEPT ![s] = {}]
      /\ UNCHANGED <<wait, parked>>
  BY DEF Delete, waits
<1>2. /\ type'[s] = "none" /\ waiters'[s] = {}
      /\ \A r \in Slots \ {s} : type'[r] = type[r] /\ active'[r] = active[r]
                                /\ waiters'[r] = waiters[r]
  BY <1>1 DEF QInv, QTypes, WInv
<1>3. active' \in [Slots -> BOOLEAN]
  BY <1>1 DEF WInv
<1>4. ParkedWhileWaiting' /\ QuietWhenDone'
  BY <1>1, <1>2 DEF WInv, ParkedWhileWaiting, QuietWhenDone
<1>5. JoinsLive'
  BY <1>1, <1>2 DEF WInv, JoinsLive
<1>6. Enlisted'
  BY <1>1, <1>2 DEF WInv, Enlisted
<1> QED BY <1>1, <1>3, <1>4, <1>5, <1>6 DEF WInv

\* A running thread waits for nothing.
LEMMA RunningNotWaiting ==
    ASSUME QInv, WInv, NEW t \in Callers, Running(t)
    PROVE  wait[t].kind = "none" /\ \A s \in Slots : t \notin waiters[s]
<1>1. wait[t].kind = "none"
  BY DEF WInv, ParkedWhileWaiting, Running
<1> QED BY <1>1, NotQueued

\* Mutexes: an unlock wakes the thread it takes out of the queue.
LEMMA MutexWaits ==
    ASSUME QInv, WInv, NEW t \in Callers, MutexStep(t) PROVE WInv'
<1>0. PICK m \in Slots :
         \/ Lock(t, m) \/ NpTrylock(t, m) \/ UnlockNested(t, m)
         \/ UnlockLast(t, m)
         \/ \E timed \in BOOLEAN : LockWait(t, m, timed)
  BY DEF MutexStep
<1>1. CASE Lock(t, m)
  <2>1. type[m] = "none" \/ type[m] = "mutex"
    BY <1>1 DEF Lock, LiveOrStatic, Alloc, FirstFree, Free
  <2>2. /\ type' = [type EXCEPT ![m] = "mutex"]
        /\ active' = [active EXCEPT ![m] = TRUE]
        /\ UNCHANGED <<wait, waiters, parked>>
    BY <1>1 DEF Lock, waits
  <2>3. active' \in [Slots -> BOOLEAN] /\ parked' \in [Callers -> BOOLEAN]
    BY <2>2 DEF WInv
  <2>4. \A s \in Slots : type'[s] = "thread" =>
           type[s] = "thread" /\ active'[s] = active[s]
    BY <2>2 DEF QInv, QTypes, WInv
  <2>5. \A s \in Slots : type[s] = "thread" =>
           type'[s] = "thread" /\ active'[s] = active[s]
    BY <2>1, <2>2 DEF QInv, QTypes, WInv
  <2> QED BY <2>2, <2>3, <2>4, <2>5, SameWaits DEF WInv, QuietWhenDone
<1>2. CASE NpTrylock(t, m)
  <2>1. /\ active' = [active EXCEPT ![m] = TRUE] /\ type[m] = "mutex"
        /\ UNCHANGED <<type, wait, waiters, parked>>
    BY <1>2 DEF NpTrylock, waits
  <2>2. active' \in [Slots -> BOOLEAN] /\ parked' \in [Callers -> BOOLEAN]
    BY <2>1 DEF WInv
  <2>3. \A s \in Slots : type[s] = "thread" => active'[s] = active[s]
    BY <2>1 DEF WInv
  <2> QED BY <2>1, <2>2, <2>3, SameWaits DEF WInv, QuietWhenDone
<1>3. CASE UnlockNested(t, m)
  BY <1>3, SameWaits DEF UnlockNested, waits, WInv, QuietWhenDone
<1>4. CASE UnlockLast(t, m)
  <2>1. PICK n \in Successors(m) :
           /\ waiters' = [waiters EXCEPT ![m] = @ \ {n}]
           /\ active' = [active EXCEPT ![m] = (waiters[m] # {})]
           /\ Wake({n}) /\ UNCHANGED type
    BY <1>4 DEF UnlockLast, PassOn
  <2>2. type[m] = "mutex"
    BY <1>4 DEF UnlockLast, Owns
  <2>3. /\ active' \in [Slots -> BOOLEAN]
        /\ \A r \in Slots \ {m} : active'[r] = active[r]
    BY <2>1 DEF WInv
  <2>4. n = NoThread \/ n \in waiters[m]
    BY DEF Successors, Pickable, Picked
  <2>5. CASE n \in waiters[m]
    <3>1. {n} \in SUBSET waiters[m]
      BY <2>5
    <3>2. waiters' = [waiters EXCEPT ![m] = @ \ {n}] /\ Wake({n}) /\ UNCHANGED type
      BY <2>1
    <3> QED BY <2>2, <2>3, <3>1, <3>2, WaitsEnd
  <2>6. CASE n = NoThread
    <3>1. n \notin Callers
      BY <2>6 DEF NoThread, Callers, Main
    <3>2. waiters' = waiters
      BY <2>1, <3>1 DEF QInv, QTypes
    <3>3. wait' = wait /\ parked' = parked
      BY <2>1, <3>1 DEF QInv, QTypes, Wake, WInv
    <3>4. parked' \in [Callers -> BOOLEAN]
      BY <3>3 DEF WInv
    <3> QED BY <2>1, <2>2, <2>3, <3>2, <3>3, <3>4, SameWaits
            DEF WInv, QuietWhenDone
  <2> QED BY <2>4, <2>5, <2>6
<1>5. ASSUME NEW timed \in BOOLEAN, LockWait(t, m, timed) PROVE WInv'
  <2>1. /\ BeginWait(t, "mutex", m, 1, timed) /\ type[m] = "mutex"
        /\ waiters' = [waiters EXCEPT ![m] = @ \cup {t}]
        /\ UNCHANGED <<type, active>>
    BY <1>5 DEF LockWait
  <2>2. KindFor(type[m]) = "mutex"
    BY <2>1 DEF KindFor
  <2> QED BY <2>1, <2>2, WaitBegins
<1> QED BY <1>0, <1>1, <1>2, <1>3, <1>4, <1>5

\* cond_wait: the caller, who waits for nothing yet, enters the queue of the
\* condition, and the thread that leaves the queue of the mutex is woken.
LEMMA CondWaitWaits ==
    ASSUME QInv, WInv, NEW t \in Callers, NEW c \in Slots, NEW m \in Slots,
           CondWait(t, c, m) \/ CondWaitNested(t, c, m)
    PROVE  WInv'
<1>1. /\ c # m /\ type[m] = "mutex" /\ type[c] \in {"none", "cond"}
      /\ type' = [type EXCEPT ![c] = "cond"] /\ Running(t)
  BY DEF CondWait, CondWaitNested, LiveOrStatic, Alloc, FirstFree, Free, Owns
<1>2. PICK n \in {NoThread} \cup waiters[m] :
         /\ CondPark(t, c, m, n)
         /\ PassOn(m, n) \/ UNCHANGED active
  <2>1. CASE CondWait(t, c, m)
    BY <2>1 DEF CondWait, Successors, Pickable, Picked
  <2>2. CASE CondWaitNested(t, c, m)
    BY <2>2 DEF CondWaitNested
  <2> QED BY <2>1, <2>2
<1>3. wait[t].kind = "none" /\ \A s \in Slots : t \notin waiters[s]
  BY <1>1, RunningNotWaiting
<1>4. n # t
  BY <1>3, SlotsAssumption DEF NoThread, Callers, Main
<1>5. /\ waiters' = [waiters EXCEPT ![m] = @ \ {n}, ![c] = @ \cup {t}]
      /\ wait' = [x \in Callers |->
            IF x = t THEN [kind |-> "cond", obj |-> c, value |-> 1, timed |-> FALSE]
            ELSE IF x = n THEN NoWait ELSE wait[x]]
      /\ parked' = [x \in Callers |-> x = t \/ (parked[x] /\ x # n)]
  BY <1>2, <1>3 DEF CondPark
<1>6. /\ waiters'[m] = waiters[m] \ {n} /\ waiters'[c] = waiters[c] \cup {t}
      /\ \A r \in Slots \ {m, c} : waiters'[r] = waiters[r]
      /\ type'[c] = "cond" /\ type'[m] = "mutex"
      /\ \A r \in Slots \ {m, c} : type'[r] = type[r] /\ active'[r] = active[r]
  BY <1>1, <1>2, <1>5 DEF QInv, QTypes, WInv, PassOn
<1>7. /\ parked' \in [Callers -> BOOLEAN] /\ active' \in [Slots -> BOOLEAN]
  BY <1>2, <1>5 DEF WInv, PassOn
<1>8. ParkedWhileWaiting'
  BY <1>5 DEF WInv, ParkedWhileWaiting, NoWait
<1>9. QuietWhenDone'
  BY <1>6 DEF WInv, QuietWhenDone
<1>10. JoinsLive'
  <2> SUFFICES ASSUME NEW x \in Callers, wait'[x].kind = "join"
               PROVE  /\ wait'[x].obj \in Slots /\ x \in waiters'[wait'[x].obj]
                      /\ type'[wait'[x].obj] = "thread" /\ active'[wait'[x].obj]
    BY DEF JoinsLive
  <2>1. x # t /\ x # n /\ wait'[x] = wait[x]
    BY <1>5 DEF NoWait
  <2>2. /\ wait[x].obj \in Slots /\ x \in waiters[wait[x].obj]
        /\ type[wait[x].obj] = "thread" /\ active[wait[x].obj]
    BY <2>1 DEF WInv, JoinsLive
  <2>3. wait[x].obj \notin {m, c}
    BY <1>1, <2>2
  <2> QED BY <1>6, <2>1, <2>2, <2>3
<1>11. Enlisted'
  <2> SUFFICES ASSUME "destroy_busy" \notin Permitted, NEW x \in Callers,
                      wait'[x].kind \notin {"none", "sleep"}
               PROVE  \E r \in Slots : x \in waiters'[r]
    BY DEF Enlisted
  <2>1. CASE x = t
    BY <1>6, <2>1
  <2>2. CASE x # t
    <3>1. x # n /\ wait'[x] = wait[x]
      BY <1>5, <2>2 DEF NoWait
    <3>2. PICK r \in Slots : x \in waiters[r]
      BY <3>1 DEF WInv, Enlisted
    <3> QED BY <1>1, <1>6, <3>1, <3>2
  <2> QED BY <2>1, <2>2
<1> QED BY <1>7, <1>8, <1>9, <1>10, <1>11 DEF WInv

\* cond_signal: each waiter is woken, or is in the queue of its mutex afterwards.
LEMMA CondSignalWaits ==
    ASSUME QInv, WInv, NEW t \in Callers, NEW c \in Slots, CondSignal(t, c)
    PROVE  WInv'
<1> DEFINE woken == Granted(c) \cup Orphans(c)
<1>1. /\ type[c] \in {"none", "cond"} /\ type' = [type EXCEPT ![c] = "cond"]
      /\ waiters' = [s \in Slots |-> IF s = c THEN {}
                                     ELSE waiters[s] \cup Moved(c, s)]
      /\ active' = [s \in Slots |->
                      active[s] \/ {w \in Granted(c) : waitMutex[w] = s} # {}]
      /\ wait' = [x \in Callers |-> IF x \in woken THEN NoWait ELSE wait[x]]
      /\ parked' = [x \in Callers |-> parked[x] /\ x \notin woken]
  BY DEF CondSignal, LiveOrStatic, Alloc, FirstFree, Free, Wake
<1>2. woken \subseteq waiters[c]
  BY DEF Granted, Orphans
<1>3. \A s \in Slots : type[s] = "thread" => active'[s] = active[s]
  BY <1>1 DEF Granted, IsMutex, WInv
<1>4. \A s \in Slots : type[s] = "thread" => Moved(c, s) = {}
  BY DEF Moved, Orphans, IsMutex
<1>5. \A x \in waiters[c] \ woken : \E s \in Slots : type[s] = "mutex" /\ x \in Moved(c, s)
  BY DEF Moved, Orphans, IsMutex
<1>6. \A s \in Slots : (type'[s] = "thread" <=> type[s] = "thread")
  BY <1>1 DEF QInv, QTypes
<1>7. \A x \in Callers : x \in waiters[c] => wait[x].kind = "cond"
  BY <1>1 DEF QInv, QueueSound, FreeQueuesEmpty, KindFor
<1> HIDE DEF woken
<1>8. parked' \in [Callers -> BOOLEAN] /\ active' \in [Slots -> BOOLEAN]
  BY <1>1 DEF WInv
<1>9. ParkedWhileWaiting'
  BY <1>1 DEF WInv, ParkedWhileWaiting, NoWait
<1>10. QuietWhenDone'
  BY <1>1, <1>3, <1>4, <1>6 DEF WInv, QuietWhenDone
<1>11. JoinsLive'
  <2> SUFFICES ASSUME NEW x \in Callers, wait'[x].kind = "join"
               PROVE  /\ wait'[x].obj \in Slots /\ x \in waiters'[wait'[x].obj]
                      /\ type'[wait'[x].obj] = "thread" /\ active'[wait'[x].obj]
    BY DEF JoinsLive
  <2>1. wait'[x] = wait[x]
    BY <1>1 DEF NoWait
  <2>2. /\ wait[x].obj \in Slots /\ x \in waiters[wait[x].obj]
        /\ type[wait[x].obj] = "thread" /\ active[wait[x].obj]
    BY <2>1 DEF WInv, JoinsLive
  <2> QED BY <1>1, <1>3, <1>6, <2>1, <2>2
<1>12. Enlisted'
  <2> SUFFICES ASSUME "destroy_busy" \notin Permitted, NEW x \in Callers,
                      wait'[x].kind \notin {"none", "sleep"}
               PROVE  \E r \in Slots : x \in waiters'[r]
    BY DEF Enlisted
  <2>1. x \notin woken /\ wait'[x] = wait[x]
    BY <1>1 DEF NoWait
  <2>2. PICK r \in Slots : x \in waiters[r]
    BY <2>1 DEF WInv, Enlisted
  <2>3. CASE r = c
    <3>1. PICK s \in Slots : type[s] = "mutex" /\ x \in Moved(c, s)
      BY <1>5, <2>1, <2>2, <2>3
    <3> QED BY <1>1, <3>1
  <2>4. CASE r # c
    BY <1>1, <2>2, <2>4
  <2> QED BY <2>3, <2>4
<1> QED BY <1>8, <1>9, <1>10, <1>11, <1>12 DEF WInv

\* Semaphores and barriers wake whom they take out of a queue.
LEMMA CountWaits ==
    ASSUME QInv, WInv, NEW t \in Callers, SemStep(t) \/ KSemaStep(t) \/ BarrierStep(t)
    PROVE  WInv'
<1> USE DEF KindFor
<1>1. ASSUME UNCHANGED <<type, active, waiters, waits>> PROVE WInv'
  BY <1>1, SameWaits DEF waits, WInv, QuietWhenDone
<1>2. ASSUME NEW s \in Slots, UNCHANGED <<type, active>>, Wake(waiters[s]),
             waiters' = [waiters EXCEPT ![s] = {}]
      PROVE  WInv'
  <2>1. waiters' = [waiters EXCEPT ![s] = @ \ waiters[s]]
    BY <1>2
  <2> QED BY <1>2, <2>1, WaitsEnd
<1>3. ASSUME NEW s \in Slots, SemTake(t, s) \/ SemPostCounts(t, s) PROVE WInv'
  BY <1>1, <1>3 DEF SemTake, SemPostCounts
<1>4. ASSUME NEW s \in Slots, SemWait(t, s) PROVE WInv'
  BY <1>4, WaitBegins DEF SemWait
<1>5. ASSUME NEW s \in Slots, SemPostWakes(t, s) PROVE WInv'
  <2>1. PICK w \in waiters[s] :
           waiters' = [waiters EXCEPT ![s] = @ \ {w}] /\ Wake({w})
    BY <1>5 DEF SemPostWakes, Picked
  <2> QED BY <1>5, <2>1, WaitsEnd DEF SemPostWakes
<1>6. ASSUME NEW s \in Slots, NEW n \in 0 .. MaxSem, KSemaTake(t, s, n)
      PROVE  WInv'
  BY <1>1, <1>6 DEF KSemaTake
<1>7. ASSUME NEW s \in Slots, NEW n \in 0 .. MaxSem, NEW timed \in BOOLEAN,
             KSemaWait(t, s, n, timed)
      PROVE  WInv'
  <2>1. /\ type[s] = "ksema" /\ BeginWait(t, "ksema", s, n, timed)
        /\ waiters' = [waiters EXCEPT ![s] = @ \cup {t}]
        /\ UNCHANGED <<type, active>>
    BY <1>7 DEF KSemaWait
  <2> QED BY <2>1, WaitBegins
<1>8. ASSUME NEW s \in Slots, NEW n \in 0 .. MaxSem, KSemaSignal(t, s, n)
      PROVE  WInv'
  <2>1. PICK S \in SUBSET waiters[s] :
           waiters' = [waiters EXCEPT ![s] = @ \ S] /\ Wake(S)
    BY <1>8 DEF KSemaSignal
  <2> QED BY <1>8, <2>1, WaitsEnd DEF KSemaSignal
<1>9. ASSUME NEW s \in Slots, NEW n \in 0 .. MaxSem, KSemaCancel(t, s, n)
      PROVE  WInv'
  BY <1>2, <1>9 DEF KSemaCancel
<1>10. ASSUME NEW s \in Slots, BarrierWait(t, s) PROVE WInv'
  BY <1>10, WaitBegins DEF BarrierWait
<1>11. ASSUME NEW s \in Slots, BarrierOpen(t, s) PROVE WInv'
  BY <1>2, <1>11 DEF BarrierOpen
<1>12. ASSUME NEW s \in Slots, BarrierDestroy(t, s) PROVE WInv'
  BY <1>12, QueueDropped DEF BarrierDestroy
<1>13. CASE SemStep(t)
  BY <1>3, <1>4, <1>5, <1>13 DEF SemStep
<1>14. CASE KSemaStep(t)
  BY <1>6, <1>7, <1>8, <1>9, <1>14 DEF KSemaStep
<1>15. CASE BarrierStep(t)
  BY <1>10, <1>11, <1>12, <1>15 DEF BarrierStep
<1> QED BY <1>13, <1>14, <1>15

\* Objects: a new one has no queue, and one in use is not destroyed unless the run
\* permits it.
LEMMA ObjectWaits ==
    ASSUME QInv, WInv, NEW t \in Callers, ObjectStep(t) PROVE WInv'
<1>1. ASSUME NEW s \in Slots, Destroy(t, s) PROVE WInv'
  BY <1>1, QueueDropped DEF Destroy, InUse
<1>2. ASSUME NEW s \in Slots, NEW ty \in {"mutex", "cond", "sem", "ksema", "barrier"},
             type[s] = "none", type' = [type EXCEPT ![s] = ty],
             UNCHANGED <<active, waiters, waits>>
      PROVE  WInv'
  <2>1. \A r \in Slots : type'[r] = "thread" <=> type[r] = "thread"
    BY <1>2 DEF QInv, QTypes
  <2> QED BY <1>2, <2>1, SameWaits DEF waits, WInv, QuietWhenDone
<1>3. ASSUME NEW s \in Slots, NEW ty \in {"mutex", "cond"}, Create(t, s, ty)
      PROVE  WInv'
  BY <1>2, <1>3 DEF Create, Alloc, FirstFree, Free
<1>4. ASSUME NEW s \in Slots, NEW ty \in {"sem", "ksema", "barrier"},
             NEW n \in 0 .. MaxSem, NEW max \in 0 .. MaxSem,
             CreateCounted(t, s, ty, n, max)
      PROVE  WInv'
  BY <1>2, <1>4 DEF CreateCounted, Alloc, FirstFree, Free
<1> QED BY <1>1, <1>3, <1>4 DEF ObjectStep

\* Threads: an exit wakes all who join it, and a join of a thread that has
\* finished finds no queue.
LEMMA ThreadWaits ==
    ASSUME QInv, WInv, NEW t \in Callers, ThreadStep(t), "kill" \notin Permitted
    PROVE  WInv'
<1>1. ASSUME NEW s \in Slots, NEW p, NEW runs \in BOOLEAN, NewThread(s, p, runs),
             UNCHANGED waits
      PROVE  WInv'
  <2>1. /\ type[s] = "none" /\ type' = [type EXCEPT ![s] = "thread"]
        /\ active' = [active EXCEPT ![s] = runs] /\ UNCHANGED <<waiters, wait, parked>>
    BY <1>1 DEF NewThread, Alloc, FirstFree, Free, waits
  <2>2. waiters[s] = {}
    BY <2>1 DEF QInv, FreeQueuesEmpty
  <2>3. /\ active' \in [Slots -> BOOLEAN]
        /\ \A r \in Slots \ {s} : type'[r] = type[r] /\ active'[r] = active[r]
    BY <2>1 DEF QInv, QTypes, WInv
  <2> QED BY <2>1, <2>2, <2>3, SameWaits DEF WInv, QuietWhenDone
<1>2. CASE Exit(t)
  <2>1. t \in Slots /\ type[t] = "thread"
    BY <1>2, SlotsAssumption DEF Exit, Running, Callers, Slots, Main
  <2>2. waiters' = [waiters EXCEPT ![t] = @ \ waiters[t]]
    BY <1>2 DEF Exit
  <2> QED BY <1>2, <2>1, <2>2, WaitsEnd DEF Exit
<1>3. ~ProcessKill(t)
  BY DEF ProcessKill
<1>4. ASSUME NEW s \in Slots, NpThreadCreate(t, s) PROVE WInv'
  BY <1>1, <1>4 DEF NpThreadCreate
<1>5. ASSUME UNCHANGED <<type, active, waiters, waits>> PROVE WInv'
  BY <1>5, SameWaits DEF waits, WInv, QuietWhenDone
<1>6. ASSUME NEW s \in Slots, Detach(t, s) PROVE WInv'
  BY <1>5, <1>6 DEF Detach
<1>7. ASSUME NEW s \in Slots, JoinWait(t, s) PROVE WInv'
  BY <1>7, WaitBegins DEF JoinWait, KindFor
<1>8. ASSUME NEW s \in Slots, JoinFinished(t, s) PROVE WInv'
  <2>1. waiters[s] = {}
    BY <1>8 DEF JoinFinished, WInv, QuietWhenDone
  <2> QED BY <1>8, <2>1, QueueDropped DEF JoinFinished
<1>9. ASSUME NEW s \in Slots, ProcessAdd(t, s) PROVE WInv'
  BY <1>1, <1>9 DEF ProcessAdd
<1>10. ASSUME NEW s \in Slots, NEW p \in Priorities, ThreadCreate(t, s, p)
       PROVE  WInv'
  BY <1>1, <1>10 DEF ThreadCreate
<1>11. ASSUME NEW s \in Slots, NEW p \in Priorities, SetPriority(t, s, p)
       PROVE  WInv'
  BY <1>5, <1>11 DEF SetPriority
<1>12. CASE Sleep(t)
  <2>1. /\ wait' = [wait EXCEPT ![t] = [kind |-> "sleep", obj |-> NoObject,
                                        value |-> 0, timed |-> TRUE]]
        /\ parked' = [parked EXCEPT ![t] = TRUE]
        /\ UNCHANGED <<type, active, waiters>>
    BY <1>12 DEF Sleep, BeginWait, objects
  <2>2. /\ wait'[t].kind = "sleep" /\ parked'[t]
        /\ \A x \in Callers \ {t} : wait'[x] = wait[x] /\ parked'[x] = parked[x]
        /\ parked' \in [Callers -> BOOLEAN] /\ active' \in [Slots -> BOOLEAN]
    BY <2>1 DEF QInv, QTypes, WInv
  <2>3. ParkedWhileWaiting' /\ QuietWhenDone' /\ Enlisted'
    BY <2>1, <2>2 DEF WInv, ParkedWhileWaiting, QuietWhenDone, Enlisted
  <2>4. JoinsLive'
    BY <2>1, <2>2 DEF WInv, JoinsLive
  <2> QED BY <2>2, <2>3, <2>4 DEF WInv
<1> QED BY <1>2, <1>3, <1>4, <1>6, <1>7, <1>8, <1>9, <1>10, <1>11, <1>12
        DEF ThreadStep

\* A timeout ends the wait of the thread that leaves the queue.
LEMMA TimeoutWaits ==
    ASSUME QInv, WInv, NEW t \in Callers, Timeout(t) PROVE WInv'
<1>1. wait[t].kind # "none"
  BY DEF Timeout, QInv, TimersSound
<1>2. /\ waiters' = [s \in Slots |-> IF s = wait[t].obj THEN waiters[s] \ {t}
                                     ELSE waiters[s]]
      /\ wait' = [x \in Callers |-> IF x \in {t} THEN NoWait ELSE wait[x]]
      /\ parked' = [x \in Callers |-> parked[x] /\ x \notin {t}]
      /\ UNCHANGED <<type, active>>
  BY <1>1 DEF Timeout, LeaveQueue, Wake
<1>3. parked' \in [Callers -> BOOLEAN] /\ active' \in [Slots -> BOOLEAN]
  BY <1>2 DEF WInv
<1>4. /\ wait'[t].kind = "none"
      /\ \A x \in Callers \ {t} : wait'[x] = wait[x] /\ parked'[x] = parked[x]
      /\ \A s \in Slots : waiters[s] \ {t} \subseteq waiters'[s]
      /\ \A s \in Slots : waiters'[s] \subseteq waiters[s]
  BY <1>2 DEF NoWait, WInv
<1>5. ParkedWhileWaiting' /\ QuietWhenDone'
  BY <1>2, <1>4 DEF WInv, ParkedWhileWaiting, QuietWhenDone
<1>6. JoinsLive'
  BY <1>2, <1>4 DEF WInv, JoinsLive
<1>7. Enlisted'
  <2> SUFFICES ASSUME "destroy_busy" \notin Permitted, NEW x \in Callers,
                      wait'[x].kind \notin {"none", "sleep"}
               PROVE  \E r \in Slots : x \in waiters'[r]
    BY DEF Enlisted
  <2>1. x # t /\ wait'[x] = wait[x]
    BY <1>4
  <2>2. PICK r \in Slots : x \in waiters[r]
    BY <2>1 DEF WInv, Enlisted
  <2> QED BY <1>4, <2>1, <2>2
<1> QED BY <1>3, <1>5, <1>6, <1>7 DEF WInv

\* Where nobody is killed, waiting threads are parked and known to whom they wait
\* for.
LEMMA AlwaysWInv ==
    /\ ~({"fatal_fault", "reset"} \subseteq Permitted)
    /\ "kill" \notin Permitted
    => (Spec => []WInv)
<1> SUFFICES ASSUME ~({"fatal_fault", "reset"} \subseteq Permitted),
                    "kill" \notin Permitted
             PROVE  Spec => []WInv
  OBVIOUS
<1>1. QInv /\ WInv /\ [Next]_vars => WInv'
  <2> SUFFICES ASSUME QInv, WInv, [Next]_vars PROVE WInv'
    OBVIOUS
  <2>1. CASE UNCHANGED vars
    BY <2>1, SameWaits DEF vars, objects, waits, WInv, QuietWhenDone
  <2>2. CASE Reset
    <3> USE <2>2 DEF Reset, NoTypes, NoFlags, NoQueues, NoWaits, NobodyIn, NoWait
    <3>1. parked' \in [Callers -> BOOLEAN] /\ active' \in [Slots -> BOOLEAN]
      OBVIOUS
    <3>2. (ParkedWhileWaiting /\ QuietWhenDone /\ JoinsLive /\ Enlisted)'
      BY DEF ParkedWhileWaiting, QuietWhenDone, JoinsLive, Enlisted
    <3> QED BY <3>1, <3>2 DEF WInv
  <2>3. ASSUME NEW t \in Callers, MutexStep(t) PROVE WInv'
    BY <2>3, MutexWaits
  <2>4. ASSUME NEW t \in Callers, CondStep(t) PROVE WInv'
    BY <2>4, CondWaitWaits, CondSignalWaits DEF CondStep
  <2>5. ASSUME NEW t \in Callers, SemStep(t) \/ KSemaStep(t) \/ BarrierStep(t)
        PROVE  WInv'
    BY <2>5, CountWaits
  <2>6. ASSUME NEW t \in Callers, ObjectStep(t) \/ ThreadStep(t) PROVE WInv'
    BY <2>6, ObjectWaits, ThreadWaits
  <2>7. ASSUME NEW t \in Callers, FatalFault(t) PROVE WInv'
    <3>1. /\ parked' = [parked EXCEPT ![t] = TRUE]
          /\ UNCHANGED <<type, active, waiters, wait>>
      BY <2>7 DEF FatalFault, objects
    <3>2. /\ parked' \in [Callers -> BOOLEAN] /\ active' \in [Slots -> BOOLEAN]
          /\ \A x \in Callers : parked[x] => parked'[x]
      BY <3>1 DEF WInv
    <3> QED BY <3>1, <3>2, SameWaits DEF WInv, QuietWhenDone
  <2>8. ASSUME NEW t \in Callers, Timeout(t) PROVE WInv'
    BY <2>8, TimeoutWaits
  <2> QED BY <2>1, <2>2, <2>3, <2>4, <2>5, <2>6, <2>7, <2>8 DEF Next
<1> QED BY AlwaysQInv, InitWInv, <1>1, PTL DEF Spec

\* Nobody is forgotten: where no process is killed and nobody destroys an object in
\* use, a thread that waits is parked, and stands in the queue of an object of
\* which an unlock, a signal, a post, an arrival or an exit takes it.
THEOREM NoForgottenWaiterHolds ==
    /\ ~({"fatal_fault", "reset"} \subseteq Permitted)
    /\ {"kill", "destroy_busy"} \cap Permitted = {}
    => (Spec => []NoForgottenWaiter)
<1> SUFFICES ASSUME ~({"fatal_fault", "reset"} \subseteq Permitted),
                    {"kill", "destroy_busy"} \cap Permitted = {}
             PROVE  Spec => []NoForgottenWaiter
  OBVIOUS
<1>1. WInv => NoForgottenWaiter
  BY DEF WInv, ParkedWhileWaiting, Enlisted, NoForgottenWaiter
<1>2. "kill" \notin Permitted
  OBVIOUS
<1> QED BY AlwaysWInv, <1>1, <1>2, PTL

-----------------------------------------------------------------------------
(***************************************************************************)
(* NoLostWakeup.  Slot by slot: what a semaphore or a barrier counts fits   *)
(* the queue beside it.  A slot that holds no barrier has no arrivals, so   *)
(* the next barrier in it starts with none; a barrier wait has no deadline, *)
(* so nobody who has been counted leaves the queue before it opens.         *)
(***************************************************************************)
CTypes ==
    /\ userData = [s \in Slots |-> userData[s]]
    /\ value = [s \in Slots |-> value[s]] /\ aux = [s \in Slots |-> aux[s]]

CountSound(s) ==
    /\ type[s] # "barrier" => aux[s] = 0
    /\ type[s] = "sem" => value[s] \in Nat /\ (waiters[s] # {} => value[s] = 0)
    /\ type[s] = "ksema" => /\ value[s] \in Nat /\ userData[s] \in Nat
                            /\ value[s] <= userData[s]
                            /\ \A w \in waiters[s] : wait[w].value > value[s]
    /\ type[s] = "barrier" => /\ value[s] \in Nat /\ aux[s] \in Nat
                              /\ aux[s] = Cardinality(waiters[s])
                              /\ aux[s] < value[s]

BarrierWaitsUntimed ==
    \A t \in Callers : wait[t].kind = "barrier" => ~wait[t].timed

CInv == CTypes /\ BarrierWaitsUntimed /\ \A s \in Slots : CountSound(s)

\* The boot state counts nothing.
LEMMA InitCInv == Init => CInv
  BY DEF Init, CInv, CTypes, CountSound, BarrierWaitsUntimed, NoTypes, NoNumbers,
         NoWaits, NoWait

\* What a slot is made of is left alone.
SlotKept(s) == /\ type'[s] = type[s] /\ value'[s] = value[s] /\ aux'[s] = aux[s]
               /\ userData'[s] = userData[s] /\ waiters'[s] = waiters[s]

\* A step that disturbs the slots of D, and the waits of threads in their queues
\* or in none, keeps the other slots sound.
LEMMA OtherCountsKept ==
    ASSUME QInv, CInv, NEW D \in SUBSET Slots, CTypes',
           \A s \in Slots \ D : SlotKept(s),
           \A x \in Callers : \/ wait'[x] = wait[x] \/ wait[x].kind = "none"
                              \/ \E s \in D : x \in waiters[s],
           BarrierWaitsUntimed', \A s \in D : CountSound(s)'
    PROVE  CInv'
<1>1. ASSUME NEW s \in Slots \ D PROVE CountSound(s)'
  <2>1. ASSUME NEW w \in waiters[s] PROVE wait'[w] = wait[w]
    <3>1. w \in Callers
      BY DEF QInv, QTypes
    <3>2. wait[w].kind # "none"
      BY <3>1, NotQueued
    <3>3. \A r \in D : w \notin waiters[r]
      BY DEF QInv, QueueSound
    <3> QED BY <3>1, <3>2, <3>3
  <2> QED BY <2>1 DEF SlotKept, CInv, CountSound
<1> QED BY <1>1 DEF CInv

\* The same for a step that disturbs two slots, or one.
LEMMA TwoCounts ==
    ASSUME QInv, CInv, NEW m \in Slots, NEW c \in Slots, CTypes',
           \A s \in Slots : s # m /\ s # c => SlotKept(s),
           \A x \in Callers : \/ wait'[x] = wait[x] \/ wait[x].kind = "none"
                              \/ x \in waiters[m],
           BarrierWaitsUntimed', CountSound(m)', CountSound(c)'
    PROVE  CInv'
<1> DEFINE D == {m, c}
<1>1. D \in SUBSET Slots /\ \A s \in Slots \ D : SlotKept(s)
  OBVIOUS
<1>2. \A x \in Callers : \/ wait'[x] = wait[x] \/ wait[x].kind = "none"
                         \/ \E s \in D : x \in waiters[s]
  OBVIOUS
<1>3. \A s \in D : CountSound(s)'
  OBVIOUS
<1> HIDE DEF D
<1> QED BY <1>1, <1>2, <1>3, OtherCountsKept

\* An object that does not count.
LEMMA Uncounted ==
    ASSUME CInv, NEW s \in Slots, type[s] # "barrier", aux'[s] = aux[s],
           type'[s] \notin {"sem", "ksema", "barrier"}
    PROVE  CountSound(s)'
  BY DEF CInv, CountSound

\* A step that wakes threads of one queue, or gives a thread a wait that is no
\* wait for a barrier, leaves the waits for barriers without a deadline.
LEMMA UntimedKept ==
    ASSUME CInv, NEW t,
           \A x \in Callers : \/ wait'[x] = wait[x] \/ wait'[x] = NoWait
                              \/ x = t /\ (wait'[x].kind # "barrier"
                                           \/ ~wait'[x].timed)
    PROVE  BarrierWaitsUntimed'
  BY DEF CInv, BarrierWaitsUntimed, NoWait

\* A delete leaves a free slot that counts nothing.
LEMMA DeleteCounts ==
    ASSUME QInv, CInv, NEW s \in Slots, Delete(s), UNCHANGED waits PROVE CInv'
<1>1. CTypes' /\ \A r \in Slots : r # s => SlotKept(r)
  BY DEF Delete, CInv, CTypes, SlotKept, QInv, QTypes
<1>2. CountSound(s)'
  BY DEF Delete, CInv, CTypes, CountSound, QInv, QTypes
<1>3. wait' = wait /\ BarrierWaitsUntimed'
  BY DEF waits, CInv, BarrierWaitsUntimed
<1> QED BY <1>1, <1>2, <1>3, TwoCounts

\* Mutexes do not count.
LEMMA MutexCounts ==
    ASSUME QInv, CInv, NEW t \in Callers, MutexStep(t) PROVE CInv'
<1>0. PICK m \in Slots :
         \/ Lock(t, m) \/ NpTrylock(t, m) \/ UnlockNested(t, m)
         \/ UnlockLast(t, m)
         \/ \E timed \in BOOLEAN : LockWait(t, m, timed)
  BY DEF MutexStep
<1>1. type[m] \in {"none", "mutex"} /\ type' = [type EXCEPT ![m] = "mutex"] /\ aux' = aux
  <2>1. CASE Lock(t, m)
    BY <2>1 DEF Lock, LiveOrStatic, Alloc, FirstFree, Free
  <2>2. CASE NpTrylock(t, m) \/ UnlockNested(t, m) \/ UnlockLast(t, m)
    BY <2>2 DEF NpTrylock, UnlockNested, UnlockLast, Owns, QInv, QTypes
  <2>3. ASSUME NEW timed \in BOOLEAN, LockWait(t, m, timed)
        PROVE  type[m] = "mutex" /\ UNCHANGED <<type, aux>>
    BY <2>3 DEF LockWait
  <2> QED BY <1>0, <2>1, <2>2, <2>3 DEF QInv, QTypes
<1>2. CountSound(m)'
  BY <1>1, Uncounted DEF QInv, QTypes
<1>3. \E v, u, q :
         /\ value' = [value EXCEPT ![m] = v] /\ userData' = [userData EXCEPT ![m] = u]
         /\ waiters' = [waiters EXCEPT ![m] = q]
  <2>0. /\ value = [value EXCEPT ![m] = value[m]]
        /\ userData = [userData EXCEPT ![m] = userData[m]]
        /\ waiters = [waiters EXCEPT ![m] = waiters[m]]
    BY DEF CInv, CTypes, QInv, QTypes
  <2>1. CASE Lock(t, m)
    BY <2>0, <2>1 DEF Lock
  <2>2. CASE NpTrylock(t, m)
    BY <2>0, <2>2 DEF NpTrylock
  <2>3. CASE UnlockNested(t, m)
    BY <2>0, <2>3 DEF UnlockNested
  <2>4. CASE UnlockLast(t, m)
    <3>1. PICK n \in Successors(m) :
             PassOn(m, n) /\ waiters' = [waiters EXCEPT ![m] = @ \ {n}]
      BY <2>4 DEF UnlockLast
    <3> QED BY <3>1 DEF PassOn
  <2>5. ASSUME NEW timed \in BOOLEAN, LockWait(t, m, timed)
        PROVE  /\ value' = value /\ userData' = userData
               /\ waiters' = [waiters EXCEPT ![m] = @ \cup {t}]
    BY <2>5 DEF LockWait
  <2> QED BY <1>0, <2>0, <2>1, <2>2, <2>3, <2>4, <2>5
<1>4. CTypes' /\ \A s \in Slots : s # m => SlotKept(s)
  BY <1>1, <1>3 DEF CInv, CTypes, QInv, QTypes, SlotKept
<1>5. /\ \A x \in Callers : \/ wait'[x] = wait[x] \/ wait[x].kind = "none"
                            \/ x \in waiters[m]
      /\ \A x \in Callers : \/ wait'[x] = wait[x] \/ wait'[x] = NoWait
                            \/ x = t /\ wait'[x].kind # "barrier"
  <2>1. CASE Lock(t, m) \/ NpTrylock(t, m) \/ UnlockNested(t, m)
    BY <2>1 DEF Lock, NpTrylock, UnlockNested, waits
  <2>2. CASE UnlockLast(t, m)
    <3>1. PICK n \in Successors(m) : Wake({n})
      BY <2>2 DEF UnlockLast
    <3>2. n \in Callers => n \in waiters[m]
      BY SlotsAssumption DEF Successors, Pickable, Picked, NoThread, Callers, Main
    <3> QED BY <3>1, <3>2 DEF Wake
  <2>3. ASSUME NEW timed \in BOOLEAN, LockWait(t, m, timed)
        PROVE  /\ wait[t].kind = "none" /\ wait'[t].kind = "mutex"
               /\ \A x \in Callers \ {t} : wait'[x] = wait[x]
    BY <2>3 DEF LockWait, BeginWait, QInv, QTypes
  <2> QED BY <1>0, <2>1, <2>2, <2>3
<1>6. BarrierWaitsUntimed'
  BY <1>5, UntimedKept
<1> QED BY <1>2, <1>4, <1>5, <1>6, TwoCounts

\* Conditions and the mutexes they hand over do not count.
LEMMA CondCounts ==
    ASSUME QInv, CInv, NEW t \in Callers, CondStep(t) PROVE CInv'
<1>1. ASSUME NEW c \in Slots, NEW m \in Slots,
             CondWait(t, c, m) \/ CondWaitNested(t, c, m)
      PROVE  CInv'
  <2>1. /\ type[m] = "mutex" /\ type[c] \in {"none", "cond"} /\ aux' = aux
        /\ type' = [type EXCEPT ![c] = "cond"] /\ c # m
    BY <1>1 DEF CondWait, CondWaitNested, LiveOrStatic, Alloc, FirstFree, Free, Owns
  <2>2. PICK n \in {NoThread} \cup waiters[m] :
           /\ CondPark(t, c, m, n)
           /\ \E v, u : /\ value' = [value EXCEPT ![m] = v]
                        /\ userData' = [userData EXCEPT ![m] = u]
    <3>1. CASE CondWait(t, c, m)
      BY <3>1 DEF CondWait, Successors, Pickable, Picked, PassOn
    <3>2. CASE CondWaitNested(t, c, m)
      <4>1. userData = [userData EXCEPT ![m] = userData[m]]
        BY DEF CInv, CTypes
      <4> QED BY <3>2, <4>1 DEF CondWaitNested
    <3> QED BY <1>1, <3>1, <3>2
  <2>3. CTypes' /\ \A s \in Slots : s # m /\ s # c => SlotKept(s)
    BY <2>1, <2>2 DEF CondPark, CInv, CTypes, QInv, QTypes, SlotKept
  <2>4. CountSound(m)' /\ CountSound(c)'
    BY <2>1, Uncounted DEF QInv, QTypes
  <2>5. /\ \A x \in Callers : \/ wait'[x] = wait[x] \/ wait[x].kind = "none"
                              \/ x \in waiters[m]
        /\ \A x \in Callers : \/ wait'[x] = wait[x] \/ wait'[x] = NoWait
                              \/ x = t /\ wait'[x].kind # "barrier"
    <3>1. NoThread \notin Callers
      BY DEF NoThread, Callers, Main
    <3> QED BY <2>2, <3>1 DEF CondPark
  <2>6. BarrierWaitsUntimed'
    BY <2>5, UntimedKept
  <2> QED BY <2>3, <2>4, <2>5, <2>6, TwoCounts
<1>2. ASSUME NEW c \in Slots, CondSignal(t, c) PROVE CInv'
  <2> DEFINE D == {s \in Slots : type[s] = "mutex"} \cup {c}
             woken == Granted(c) \cup Orphans(c)
             given(s) == {w \in Granted(c) : waitMutex[w] = s}
  <2>1. /\ type[c] \in {"none", "cond"} /\ type' = [type EXCEPT ![c] = "cond"]
        /\ waiters' = [s \in Slots |-> IF s = c THEN {}
                                       ELSE waiters[s] \cup Moved(c, s)]
        /\ userData' = [s \in Slots |-> IF given(s) # {}
              THEN CHOOSE w \in given(s) : TRUE ELSE userData[s]]
        /\ value' = [s \in Slots |-> IF given(s) # {} THEN 1 ELSE value[s]]
        /\ wait' = [x \in Callers |-> IF x \in woken THEN NoWait ELSE wait[x]]
        /\ aux' = aux
    BY <1>2 DEF CondSignal, LiveOrStatic, Alloc, FirstFree, Free, Wake
  <2>2. ASSUME NEW s \in Slots, type[s] # "mutex"
        PROVE  given(s) = {} /\ Moved(c, s) = {}
    BY <2>2 DEF Granted, Moved, Orphans, IsMutex
  <2>3. woken \subseteq waiters[c]
    BY DEF Granted, Orphans
  <2> HIDE DEF woken, given
  <2>4. CTypes'
    BY <2>1 DEF CInv, CTypes
  <2>5. \A s \in Slots \ D : SlotKept(s)
    BY <2>1, <2>2 DEF QInv, QTypes, SlotKept
  <2>6. \A s \in D : CountSound(s)'
    BY <2>1, Uncounted DEF QInv, QTypes
  <2>7. BarrierWaitsUntimed'
    BY <2>1, UntimedKept
  <2>8. \A x \in Callers : wait'[x] = wait[x] \/ x \in waiters[c]
    BY <2>1, <2>3
  <2> QED BY <2>4, <2>5, <2>6, <2>7, <2>8, OtherCountsKept
<1> QED BY <1>1, <1>2 DEF CondStep

\* The queue of a slot is finite, and the number of those who stand in it grows by
\* one with each new waiter.
LEMMA QueueGrows ==
    ASSUME QInv, NEW s \in Slots, NEW t \in Callers, t \notin waiters[s]
    PROVE  /\ Cardinality(waiters[s]) \in Nat
           /\ Cardinality(waiters[s] \cup {t}) = Cardinality(waiters[s]) + 1
<1>1. IsFiniteSet(Callers)
  BY FS_Interval, SlotsAssumption DEF Callers, Main
<1>2. IsFiniteSet(waiters[s])
  BY <1>1, FS_Subset DEF QInv, QTypes
<1> QED BY <1>2, FS_AddElement, FS_CardinalityType

\* A step of a counting object: its slot is all it disturbs, and the waits it ends
\* are of its own queue.
LEMMA OneCount ==
    ASSUME QInv, CInv, NEW s \in Slots, UNCHANGED <<type, userData>>,
           NEW v, value' = [value EXCEPT ![s] = v],
           NEW a, aux' = [aux EXCEPT ![s] = a],
           NEW q, waiters' = [waiters EXCEPT ![s] = q],
           \/ UNCHANGED wait
           \/ \E S \in SUBSET waiters[s] : Wake(S)
           \/ \E t \in Callers, kind \in Kinds, n \in Nat, timed \in BOOLEAN :
                 BeginWait(t, kind, s, n, timed) /\ (kind = "barrier" => ~timed),
           CountSound(s)'
    PROVE  CInv'
<1>1. CTypes' /\ \A r \in Slots : r # s => SlotKept(r)
  BY DEF CInv, CTypes, QInv, QTypes, SlotKept
<1>2. /\ \A x \in Callers : \/ wait'[x] = wait[x] \/ wait[x].kind = "none"
                            \/ x \in waiters[s]
      /\ BarrierWaitsUntimed'
  <2>1. CASE UNCHANGED wait
    BY <2>1 DEF CInv, BarrierWaitsUntimed
  <2>2. ASSUME NEW S \in SUBSET waiters[s], Wake(S)
        PROVE  \A x \in Callers : \/ wait'[x] = wait[x]
                                  \/ x \in waiters[s] /\ wait'[x] = NoWait
    BY <2>2 DEF Wake
  <2>3. ASSUME NEW t \in Callers, NEW kind \in Kinds, NEW n \in Nat,
               NEW timed \in BOOLEAN, BeginWait(t, kind, s, n, timed),
               kind = "barrier" => ~timed
        PROVE  /\ wait[t].kind = "none"
               /\ wait'[t].kind = "barrier" => ~wait'[t].timed
               /\ \A x \in Callers \ {t} : wait'[x] = wait[x]
    BY <2>3 DEF BeginWait, QInv, QTypes
  <2> QED BY <2>1, <2>2, <2>3 DEF CInv, BarrierWaitsUntimed, NoWait
<1> QED BY <1>1, <1>2, TwoCounts

\* A POSIX semaphore: its value and its queue are never both there.
LEMMA SemCounts ==
    ASSUME QInv, CInv, NEW t \in Callers, NEW s \in Slots,
           SemTake(t, s) \/ SemWait(t, s) \/ SemPostWakes(t, s) \/ SemPostCounts(t, s)
    PROVE  CInv'
<1>0. CountSound(s) /\ CTypes
  BY DEF CInv
<1>1. /\ type[s] = "sem" /\ UNCHANGED <<type, userData, aux>>
      /\ aux' = [aux EXCEPT ![s] = aux[s]] /\ aux[s] = 0
  BY <1>0 DEF SemTake, SemWait, SemPostWakes, SemPostCounts, CTypes, CountSound
<1>2. value[s] \in Nat /\ (waiters[s] # {} => value[s] = 0)
  BY <1>0, <1>1 DEF CountSound
<1>3. CASE SemTake(t, s) \/ SemPostCounts(t, s)
  <2>1. PICK v \in Nat : value' = [value EXCEPT ![s] = v]
    BY <1>2, <1>3 DEF SemTake, SemPostCounts
  <2>2. waiters[s] = {} /\ waiters' = [waiters EXCEPT ![s] = {}] /\ wait' = wait
    BY <1>2, <1>3 DEF SemTake, SemPostCounts, waits, QInv, QTypes
  <2>3. CountSound(s)'
    BY <1>0, <1>1, <2>1, <2>2 DEF CountSound, CTypes, QInv, QTypes
  <2> QED BY <1>1, <2>1, <2>2, <2>3, OneCount
<1>4. CASE SemWait(t, s)
  <2>1. /\ value' = [value EXCEPT ![s] = 0]
        /\ waiters' = [waiters EXCEPT ![s] = waiters[s] \cup {t}]
        /\ BeginWait(t, "sem", s, 1, FALSE)
    BY <1>0, <1>4 DEF SemWait, CTypes
  <2>2. CountSound(s)'
    BY <1>0, <1>1, <2>1 DEF CountSound, CTypes, QInv, QTypes
  <2>3. "sem" \in Kinds
    BY DEF Kinds
  <2> QED BY <1>1, <2>1, <2>2, <2>3, OneCount
<1>5. CASE SemPostWakes(t, s)
  <2>1. PICK w \in waiters[s] :
           waiters' = [waiters EXCEPT ![s] = waiters[s] \ {w}] /\ Wake({w})
    BY <1>5 DEF SemPostWakes, Picked
  <2>2. value[s] = 0 /\ value' = [value EXCEPT ![s] = 0]
    BY <1>0, <1>2, <1>5, <2>1 DEF SemPostWakes, CTypes
  <2>3. CountSound(s)'
    BY <1>0, <1>1, <2>1, <2>2 DEF CountSound, CTypes, QInv, QTypes
  <2>4. {w} \in SUBSET waiters[s]
    OBVIOUS
  <2> QED BY <1>1, <2>1, <2>2, <2>3, <2>4, OneCount
<1> QED BY <1>3, <1>4, <1>5

\* The loop of a kernel semaphore's signal ends when nobody who is left can be
\* served, and leaves no more than it began with.
LEMMA ServesEnds ==
    ASSUME QInv, NEW s \in Slots, NEW v \in Nat, NEW S \in SUBSET waiters[s],
           NEW rest, Serves(s, v, S, rest)
    PROVE  /\ \A w \in waiters[s] \ S : ~(wait[w].value <= rest)
<1>1. \A w \in waiters[s] : wait[w].kind # "none"
  BY NotQueued DEF QInv, QTypes
<1> QED BY <1>1 DEF Serves, Covered

\* A kernel semaphore: it keeps within its limit, and whoever waits asks for more
\* than it has.
LEMMA KSemaCounts ==
    ASSUME QInv, CInv, NEW t \in Callers, KSemaStep(t) PROVE CInv'
<1>0. PICK s \in Slots, n \in 0 .. MaxSem :
         \/ KSemaTake(t, s, n) \/ KSemaSignal(t, s, n) \/ KSemaCancel(t, s, n)
         \/ \E timed \in BOOLEAN : KSemaWait(t, s, n, timed)
  BY DEF KSemaStep
<1>n. n \in Nat /\ CountSound(s) /\ CTypes
  BY BoundsAssumption DEF CInv
<1>1. /\ type[s] = "ksema" /\ UNCHANGED <<type, userData, aux>>
  BY <1>0 DEF KSemaTake, KSemaSignal, KSemaCancel, KSemaWait
<1>2. /\ aux' = [aux EXCEPT ![s] = aux[s]] /\ aux[s] = 0
      /\ value[s] \in Nat /\ userData[s] \in Nat /\ value[s] <= userData[s]
      /\ \A w \in waiters[s] : wait[w].value > value[s]
  BY <1>n, <1>1 DEF CountSound, CTypes
<1>w. \A w \in waiters[s] : w \in Callers /\ wait[w].value \in Nat
  BY DEF QInv, QTypes, WaitRecords
<1>3. CASE KSemaTake(t, s, n)
  <2>1. /\ value' = [value EXCEPT ![s] = value[s] - n] /\ value[s] >= n
        /\ waiters' = [waiters EXCEPT ![s] = waiters[s]] /\ wait' = wait
    BY <1>3 DEF KSemaTake, waits, QInv, QTypes
  <2>2. value'[s] = value[s] - n /\ waiters'[s] = waiters[s]
    BY <1>n, <2>1 DEF CTypes
  <2>3. CountSound(s)'
    BY <1>n, <1>1, <1>2, <1>w, <2>1, <2>2 DEF CountSound
  <2> QED BY <1>1, <1>2, <2>1, <2>3, OneCount
<1>4. CASE KSemaSignal(t, s, n)
  <2>1. PICK S \in SUBSET waiters[s], rest \in 0 .. value[s] + n :
           /\ Serves(s, value[s] + n, S, rest)
           /\ value' = [value EXCEPT ![s] = rest]
           /\ waiters' = [waiters EXCEPT ![s] = waiters[s] \ S] /\ Wake(S)
           /\ n <= userData[s] - value[s]
    BY <1>4 DEF KSemaSignal
  <2>2. /\ value'[s] = rest /\ waiters'[s] = waiters[s] \ S
        /\ rest \in Nat /\ rest <= userData[s]
    BY <1>n, <1>2, <2>1 DEF CTypes, QInv, QTypes
  <2>3. \A w \in waiters[s] \ S : ~(wait[w].value <= rest)
    <3>1. value[s] + n \in Nat
      BY <1>n, <1>2
    <3> QED BY <2>1, <3>1, ServesEnds
  <2>4. \A w \in waiters[s] \ S : wait'[w] = wait[w]
    BY <1>w, <2>1 DEF Wake
  <2>5. CountSound(s)'
    BY <1>1, <1>2, <1>w, <2>2, <2>3, <2>4 DEF CountSound
  <2> QED BY <1>1, <1>2, <2>1, <2>5, OneCount
<1>5. CASE KSemaCancel(t, s, n)
  <2>1. /\ value' = [value EXCEPT ![s] = n] /\ n <= userData[s]
        /\ waiters' = [waiters EXCEPT ![s] = {}] /\ Wake(waiters[s])
    BY <1>5 DEF KSemaCancel
  <2>2. CountSound(s)'
    BY <1>n, <1>1, <1>2, <2>1 DEF CountSound, CTypes, QInv, QTypes
  <2>3. waiters[s] \in SUBSET waiters[s]
    OBVIOUS
  <2> QED BY <1>1, <1>2, <2>1, <2>2, <2>3, OneCount
<1>6. ASSUME NEW timed \in BOOLEAN, KSemaWait(t, s, n, timed) PROVE CInv'
  <2>1. /\ value[s] < n /\ BeginWait(t, "ksema", s, n, timed)
        /\ value' = [value EXCEPT ![s] = value[s]]
        /\ waiters' = [waiters EXCEPT ![s] = waiters[s] \cup {t}]
    BY <1>n, <1>6 DEF KSemaWait, CTypes
  <2>2. /\ wait'[t].value = n /\ \A x \in Callers \ {t} : wait'[x] = wait[x]
    BY <2>1 DEF BeginWait, QInv, QTypes
  <2>3. CountSound(s)'
    BY <1>n, <1>1, <1>2, <1>w, <2>1, <2>2 DEF CountSound, CTypes, QInv, QTypes
  <2>4. \E x \in Callers, kind \in Kinds, k \in Nat, td \in BOOLEAN :
           BeginWait(x, kind, s, k, td) /\ (kind = "barrier" => ~td)
    BY <1>n, <2>1 DEF Kinds
  <2> QED BY <1>1, <1>2, <2>1, <2>3, <2>4, OneCount
<1> QED BY <1>0, <1>3, <1>4, <1>5, <1>6

\* A barrier: the arrivals stand in the queue, fewer than its threshold.
LEMMA BarrierCounts ==
    ASSUME QInv, CInv, NEW t \in Callers, BarrierStep(t) PROVE CInv'
<1>0. PICK s \in Slots : BarrierWait(t, s) \/ BarrierOpen(t, s)
                         \/ BarrierDestroy(t, s)
  BY DEF BarrierStep
<1>1. CASE BarrierDestroy(t, s)
  BY <1>1, DeleteCounts DEF BarrierDestroy
<1>2. CASE BarrierWait(t, s) \/ BarrierOpen(t, s)
  <2>0. CountSound(s) /\ CTypes
    BY DEF CInv
  <2>1. /\ type[s] = "barrier" /\ UNCHANGED <<type, userData, value>>
        /\ value' = [value EXCEPT ![s] = value[s]]
        /\ value[s] \in Nat /\ aux[s] \in Nat
        /\ aux[s] = Cardinality(waiters[s]) /\ aux[s] < value[s]
    BY <1>2, <2>0 DEF BarrierWait, BarrierOpen, CTypes, CountSound
  <2>2. CASE BarrierWait(t, s)
    <3>1. /\ aux[s] + 1 < value[s] /\ aux' = [aux EXCEPT ![s] = aux[s] + 1]
          /\ BeginWait(t, "barrier", s, 1, FALSE)
          /\ waiters' = [waiters EXCEPT ![s] = waiters[s] \cup {t}]
      BY <2>2 DEF BarrierWait
    <3>2. t \notin waiters[s]
      BY <3>1, NotQueued DEF BeginWait
    <3>3. Cardinality(waiters[s] \cup {t}) = Cardinality(waiters[s]) + 1
      BY <3>2, QueueGrows
    <3>4. /\ aux'[s] = aux[s] + 1 /\ waiters'[s] = waiters[s] \cup {t}
      BY <2>0, <3>1 DEF CTypes, QInv, QTypes
    <3>a. type'[s] = "barrier" /\ value'[s] = value[s]
      BY <2>1
    <3>b. aux'[s] = Cardinality(waiters'[s])
      BY <2>1, <3>3, <3>4
    <3>c. aux'[s] \in Nat /\ aux'[s] < value'[s]
      BY <2>1, <3>1, <3>4, <3>a
    <3>5. CountSound(s)'
      BY <2>1, <3>a, <3>b, <3>c DEF CountSound
    <3>6. "barrier" \in Kinds
      BY DEF Kinds
    <3> QED BY <2>1, <3>1, <3>5, <3>6, OneCount
  <2>3. CASE BarrierOpen(t, s)
    <3>1. /\ aux' = [aux EXCEPT ![s] = 0] /\ waiters' = [waiters EXCEPT ![s] = {}]
          /\ Wake(waiters[s])
      BY <2>3 DEF BarrierOpen
    <3>2. Cardinality({}) = 0
      BY FS_EmptySet
    <3>3. aux'[s] = 0 /\ waiters'[s] = {}
      BY <2>0, <3>1 DEF CTypes, QInv, QTypes
    <3>4. CountSound(s)'
      BY <2>1, <3>2, <3>3 DEF CountSound
    <3>5. waiters[s] \in SUBSET waiters[s]
      OBVIOUS
    <3> QED BY <2>1, <3>1, <3>4, <3>5, OneCount
  <2> QED BY <1>2, <2>2, <2>3
<1> QED BY <1>0, <1>1, <1>2

\* A slot that is free before the step is filled with an object that has no queue.
LEMMA FilledCounts ==
    ASSUME QInv, CInv, NEW s \in Slots, type[s] = "none",
           NEW ty, type' = [type EXCEPT ![s] = ty],
           \/ ty \in {"mutex", "cond", "thread"}
           \/ ty = "sem" /\ value'[s] \in Nat
           \/ ty = "ksema" /\ value'[s] \in Nat /\ userData'[s] \in Nat
              /\ value'[s] <= userData'[s]
           \/ ty = "barrier" /\ value'[s] \in Nat /\ value'[s] > 0,
           NEW v, value' = [value EXCEPT ![s] = v],
           NEW u, userData' = [userData EXCEPT ![s] = u],
           UNCHANGED <<aux, waiters, wait>>
    PROVE  CInv'
<1>1. CTypes' /\ \A r \in Slots : r # s => SlotKept(r)
  BY DEF CInv, CTypes, QInv, QTypes, SlotKept
<1>2. waiters'[s] = {} /\ aux'[s] = 0 /\ type'[s] = ty /\ Cardinality({}) = 0
  BY FS_EmptySet DEF QInv, QTypes, FreeQueuesEmpty, CInv, CountSound
<1>3. CountSound(s)'
  BY <1>2 DEF CountSound
<1>4. BarrierWaitsUntimed'
  BY DEF CInv, BarrierWaitsUntimed
<1> QED BY <1>1, <1>3, <1>4, TwoCounts

\* Objects that are created and destroyed.
LEMMA ObjectCounts ==
    ASSUME QInv, CInv, NEW t \in Callers, ObjectStep(t) PROVE CInv'
<1>0. CTypes
  BY DEF CInv
<1>1. ASSUME NEW s \in Slots, Destroy(t, s) PROVE CInv'
  BY <1>1, DeleteCounts DEF Destroy
<1>2. ASSUME NEW s \in Slots, NEW ty \in {"mutex", "cond"}, Create(t, s, ty)
      PROVE  CInv'
  <2>1. /\ type[s] = "none" /\ type' = [type EXCEPT ![s] = ty]
        /\ value' = [value EXCEPT ![s] = value[s]]
        /\ userData' = [userData EXCEPT ![s] = userData[s]]
        /\ UNCHANGED <<aux, waiters, wait>>
    BY <1>0, <1>2 DEF Create, Alloc, FirstFree, Free, waits, CTypes
  <2> QED BY <2>1, FilledCounts
<1>3. ASSUME NEW s \in Slots, NEW ty \in {"sem", "ksema", "barrier"},
             NEW n \in 0 .. MaxSem, NEW max \in 0 .. MaxSem,
             CreateCounted(t, s, ty, n, max)
      PROVE  CInv'
  <2>1. /\ type[s] = "none" /\ type' = [type EXCEPT ![s] = ty]
        /\ value' = [value EXCEPT ![s] = n] /\ userData' = [userData EXCEPT ![s] = max]
        /\ UNCHANGED <<aux, waiters, wait>>
    BY <1>3 DEF CreateCounted, Alloc, FirstFree, Free, waits
  <2>2. /\ value'[s] = n /\ userData'[s] = max /\ n \in Nat /\ max \in Nat
    BY <1>0, <2>1, BoundsAssumption DEF CTypes
  <2>3. \/ ty = "sem"
        \/ ty = "ksema" /\ n <= max
        \/ ty = "barrier" /\ n > 0
    BY <1>3 DEF CreateCounted
  <2> QED BY <2>1, <2>2, <2>3, FilledCounts
<1> QED BY <1>1, <1>2, <1>3 DEF ObjectStep

\* Threads do not count.
LEMMA ThreadCounts ==
    ASSUME QInv, CInv, NEW t \in Callers, ThreadStep(t), "kill" \notin Permitted
    PROVE  CInv'
<1>0. CTypes
  BY DEF CInv
<1>1. ASSUME NEW s \in Slots, NEW p, NEW runs, NewThread(s, p, runs), UNCHANGED waits
      PROVE  CInv'
  <2>1. /\ type[s] = "none" /\ type' = [type EXCEPT ![s] = "thread"]
        /\ value' = [value EXCEPT ![s] = value[s]]
        /\ userData' = [userData EXCEPT ![s] = EntryPoint]
        /\ UNCHANGED <<aux, waiters, wait>>
    BY <1>0, <1>1 DEF NewThread, Alloc, FirstFree, Free, waits, CTypes
  <2> QED BY <2>1, FilledCounts
<1>2. ASSUME NEW s \in Slots, type[s] = "thread",
             UNCHANGED <<type, value, aux, userData>>,
             NEW q, waiters' = [waiters EXCEPT ![s] = q],
             \/ UNCHANGED wait
             \/ \E S \in SUBSET waiters[s] : Wake(S)
             \/ \E x \in Callers, kind \in Kinds, n \in Nat, timed \in BOOLEAN :
                   BeginWait(x, kind, s, n, timed) /\ (kind = "barrier" => ~timed)
      PROVE  CInv'
  <2>1. /\ value' = [value EXCEPT ![s] = value[s]]
        /\ aux' = [aux EXCEPT ![s] = aux[s]]
    BY <1>0, <1>2 DEF CTypes
  <2>2. CountSound(s)'
    BY <1>2, Uncounted
  <2> QED BY <1>2, <2>1, <2>2, OneCount
<1>3. CASE Exit(t)
  <2>1. t \in Slots /\ type[t] = "thread"
    BY <1>3, SlotsAssumption DEF Exit, Running, Callers, Slots, Main
  <2>2. waiters[t] \in SUBSET waiters[t]
    OBVIOUS
  <2> QED BY <1>2, <1>3, <2>1, <2>2 DEF Exit
<1>4. ~ProcessKill(t)
  BY DEF ProcessKill
<1>5. ASSUME NEW s \in Slots, NpThreadCreate(t, s) PROVE CInv'
  BY <1>1, <1>5 DEF NpThreadCreate
<1>6. ASSUME NEW s \in Slots, Detach(t, s) \/ \E p \in Priorities : SetPriority(t, s, p)
      PROVE  CInv'
  <2>1. /\ type[s] = "thread" /\ UNCHANGED <<type, value, aux, userData, wait>>
        /\ waiters' = [waiters EXCEPT ![s] = waiters[s]]
    BY <1>6 DEF Detach, SetPriority, waits, QInv, QTypes
  <2> QED BY <1>2, <2>1
<1>7. ASSUME NEW s \in Slots, JoinWait(t, s) PROVE CInv'
  <2>1. /\ type[s] = "thread" /\ UNCHANGED <<type, value, aux, userData>>
        /\ waiters' = [waiters EXCEPT ![s] = waiters[s] \cup {t}]
        /\ BeginWait(t, "join", s, 0, FALSE) /\ "join" \in Kinds
    BY <1>7 DEF JoinWait, Kinds
  <2> QED BY <1>2, <2>1
<1>8. ASSUME NEW s \in Slots, JoinFinished(t, s) PROVE CInv'
  BY <1>8, DeleteCounts DEF JoinFinished
<1>9. ASSUME NEW s \in Slots, ProcessAdd(t, s) PROVE CInv'
  BY <1>1, <1>9 DEF ProcessAdd
<1>10. ASSUME NEW s \in Slots, NEW p \in Priorities, ThreadCreate(t, s, p)
       PROVE  CInv'
  BY <1>1, <1>10 DEF ThreadCreate
<1>11. CASE Sleep(t)
  <2>1. /\ wait[t].kind = "none" /\ wait'[t].kind = "sleep"
        /\ \A x \in Callers \ {t} : wait'[x] = wait[x]
        /\ UNCHANGED <<type, value, aux, userData, waiters>>
    BY <1>11 DEF Sleep, BeginWait, objects, QInv, QTypes
  <2>2. BarrierWaitsUntimed' /\ CTypes' /\ \A s \in Slots : SlotKept(s)
    BY <2>1 DEF CInv, CTypes, BarrierWaitsUntimed, SlotKept
  <2> DEFINE D == {}
  <2>3. /\ D \in SUBSET Slots /\ \A s \in Slots \ D : SlotKept(s)
        /\ \A s \in D : CountSound(s)'
    BY <2>2
  <2> HIDE DEF D
  <2> QED BY <2>1, <2>2, <2>3, OtherCountsKept
<1> QED BY <1>3, <1>4, <1>5, <1>6, <1>7, <1>8, <1>9, <1>10, <1>11 DEF ThreadStep

\* A timeout leaves a queue of which nobody keeps count: a barrier wait has none.
LEMMA TimeoutCounts ==
    ASSUME QInv, CInv, NEW t \in Callers, Timeout(t) PROVE CInv'
<1>1. wait[t].kind # "none" /\ wait[t].timed
  BY DEF Timeout, QInv, TimersSound
<1>2. /\ waiters' = [s \in Slots |-> IF s = wait[t].obj THEN waiters[s] \ {t}
                                     ELSE waiters[s]]
      /\ wait' = [x \in Callers |-> IF x \in {t} THEN NoWait ELSE wait[x]]
      /\ UNCHANGED <<type, value, aux, userData>>
  BY <1>1 DEF Timeout, LeaveQueue, Wake
<1>3. CTypes' /\ BarrierWaitsUntimed'
  BY <1>2 DEF CInv, CTypes, BarrierWaitsUntimed, NoWait
<1>4. ASSUME NEW s \in Slots PROVE CountSound(s)'
  <2>1. CountSound(s) /\ waiters'[s] \subseteq waiters[s]
    BY <1>2 DEF CInv
  <2>2. \A w \in waiters'[s] : wait'[w] = wait[w]
    <3> SUFFICES ASSUME NEW w \in waiters'[s] PROVE w # t /\ w \in Callers
      BY <1>2
    <3>1. w \in Callers
      BY <2>1 DEF QInv, QTypes
    <3>2. w = t => wait[t].kind # "cond" /\ s # wait[t].obj
      BY <1>1, <1>2 DEF QInv, TimersSound
    <3> QED BY <2>1, <3>1, <3>2 DEF QInv, QueueSound
  <2>3. type[s] = "barrier" => waiters'[s] = waiters[s]
    <3> SUFFICES ASSUME type[s] = "barrier" PROVE t \notin waiters[s]
      BY <1>2
    <3>1. wait[t].kind # "barrier"
      BY <1>1 DEF CInv, BarrierWaitsUntimed
    <3> QED BY <3>1 DEF QInv, QueueSound, KindFor
  <2> QED BY <1>2, <2>1, <2>2, <2>3 DEF CountSound
<1> QED BY <1>3, <1>4 DEF CInv

\* No wakeup is lost, where no process is killed: no post, no signal of a kernel
\* semaphore and no round of a barrier leaves anybody behind whom its count would
\* serve, also after timeouts and forced destroys, and who joins a thread joins one
\* that still runs.
THEOREM NoLostWakeupHolds ==
    /\ ~({"fatal_fault", "reset"} \subseteq Permitted)
    /\ "kill" \notin Permitted
    => (Spec => []NoLostWakeup)
<1> SUFFICES ASSUME ~({"fatal_fault", "reset"} \subseteq Permitted),
                    "kill" \notin Permitted
             PROVE  Spec => []NoLostWakeup
  OBVIOUS
<1>1. QInv /\ CInv /\ [Next]_vars => CInv'
  <2> SUFFICES ASSUME QInv, CInv, [Next]_vars PROVE CInv'
    OBVIOUS
  <2>1. ASSUME UNCHANGED <<type, value, aux, userData, waiters, wait>> PROVE CInv'
    BY <2>1 DEF CInv, CTypes, CountSound, BarrierWaitsUntimed
  <2>2. CASE UNCHANGED vars
    BY <2>1, <2>2 DEF vars, objects, waits
  <2>3. CASE Reset
    BY <2>3 DEF Reset, CInv, CTypes, CountSound, BarrierWaitsUntimed, NoTypes,
                NoNumbers, NoWaits, NoWait
  <2>4. ASSUME NEW t \in Callers, MutexStep(t) \/ CondStep(t) PROVE CInv'
    BY <2>4, MutexCounts, CondCounts
  <2>5. ASSUME NEW t \in Callers, SemStep(t) \/ KSemaStep(t) \/ BarrierStep(t)
        PROVE  CInv'
    BY <2>5, SemCounts, KSemaCounts, BarrierCounts DEF SemStep
  <2>6. ASSUME NEW t \in Callers, ObjectStep(t) \/ ThreadStep(t) PROVE CInv'
    BY <2>6, ObjectCounts, ThreadCounts
  <2>7. ASSUME NEW t \in Callers, FatalFault(t) PROVE CInv'
    BY <2>1, <2>7 DEF FatalFault, objects
  <2>8. ASSUME NEW t \in Callers, Timeout(t) PROVE CInv'
    BY <2>8, TimeoutCounts
  <2> QED BY <2>2, <2>3, <2>4, <2>5, <2>6, <2>7, <2>8 DEF Next
<1>2. CInv /\ WInv => NoLostWakeup
  BY DEF CInv, CountSound, WInv, JoinsLive, NoLostWakeup
<1> QED BY AlwaysQInv, AlwaysWInv, InitCInv, <1>1, <1>2, PTL DEF Spec
=============================================================================

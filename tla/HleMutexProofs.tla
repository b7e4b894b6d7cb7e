---------------------------- MODULE HleMutexProofs ----------------------------
(***************************************************************************)
(* MutexConsistent for every number of slots, every quota and every choice  *)
(* of hazards in which a machine that had a fatal fault is not reset: after *)
(* both, a queue may hold only threads that no longer wait, and an unlock   *)
(* then leaves a mutex locked at depth 0.                                   *)
(*                                                                          *)
(* MutexConsistent says nothing of the slots that hold no mutex.  To be     *)
(* inductive it needs what such a slot holds when it becomes one: a free    *)
(* slot has no owner, no depth and no queue, whatever it held before, and a *)
(* condition, which is never given an owner, leaves none behind.            *)
(*                                                                          *)
(* Then LockView: the recorded owners are those the threads were told       *)
(* (LInv); and HandOffInOrder: a mutex passes to the best of its queue.     *)
(***************************************************************************)
EXTENDS HleSyncProofs, WellFoundedInduction

MTypes ==
    /\ type \in [Slots -> Types \cup {"none"}]
    /\ active \in [Slots -> BOOLEAN]
    /\ userData = [s \in Slots |-> userData[s]]
    /\ value = [s \in Slots |-> value[s]]
    /\ waiters \in [Slots -> SUBSET Callers]
    /\ prio \in [Slots -> Nat]
    /\ process \in 0 .. NumSlots

SlotSound(s) ==
    /\ type[s] \in {"none", "cond"} => userData[s] = 0 /\ value[s] = 0
    /\ type[s] \notin {"mutex", "thread"} => ~active[s]
    /\ type[s] = "none" => waiters[s] = {}
    /\ type[s] = "mutex" => /\ value[s] \in Nat
                            /\ active[s] <=> userData[s] # NoThread
                            /\ active[s] <=> value[s] > 0
                            /\ waiters[s] # {} => active[s]

MInv == MTypes /\ \A s \in Slots : SlotSound(s)

\* Every set of threads that is not empty has a first one.
LEMMA LeastNat ==
    ASSUME NEW T \in SUBSET Nat, T # {} PROVE \E x \in T : \A y \in T : x <= y
<1> DEFINE R == OpToRel(<, Nat)
<1>1. IsWellFoundedOn(R, Nat)
  BY NatLessThanWellFounded
<1>2. \A x, y \in Nat : x < y => <<x, y>> \in R
  BY DEF OpToRel
<1> HIDE DEF R
<1>3. PICK x \in T : \A y \in T : ~(<<y, x>> \in R)
  BY <1>1, WFMin
<1>4. \A y \in T : ~(y < x)
  BY <1>2, <1>3
<1> QED BY <1>3, <1>4

\* Priorities are numbers, as slots are.
LEMMA PriorityNat ==
    ASSUME MTypes, NEW v \in Callers PROVE PriorityOf(v) \in Nat /\ v \in Nat
<1>1. v \in Nat /\ (v = Main \/ v \in Slots)
  BY SlotsAssumption DEF Callers, Slots, Main
<1> QED BY <1>1, PriorityAssumption DEF MTypes, PriorityOf

\* A queue that is not empty has a first waiter.
LEMMA FirstExists ==
    ASSUME MTypes, NEW S \in SUBSET Callers, S # {}
    PROVE  \E w \in S : \A v \in S : Before(w, v)
<1>1. \A v \in Callers : PriorityOf(v) \in Nat /\ v \in Nat
  BY PriorityNat
<1> DEFINE P == {PriorityOf(v) : v \in S}
<1>2. P \in SUBSET Nat /\ P # {}
  BY <1>1
<1>3. PICK p \in P : \A q \in P : p <= q
  <2> HIDE DEF P
  <2> QED BY <1>2, LeastNat
<1> DEFINE T == {v \in S : PriorityOf(v) = p}
<1>4. T \in SUBSET Nat /\ T # {}
  BY <1>1, <1>3
<1>5. PICK w \in T : \A v \in T : w <= v
  <2> HIDE DEF T
  <2> QED BY <1>4, LeastNat
<1>6. ASSUME NEW v \in S PROVE Before(w, v)
  <2>1. p <= PriorityOf(v) /\ PriorityOf(w) = p
    BY <1>3, <1>5
  <2>2. CASE PriorityOf(v) = p
    BY <1>5, <2>1, <2>2 DEF Before
  <2>3. CASE PriorityOf(v) # p
    <3>1. p \in Nat /\ PriorityOf(v) \in Nat
      BY <1>1, <1>2, <1>3
    <3>2. p < PriorityOf(v)
      BY <2>1, <2>3, <3>1
    <3> QED BY <2>1, <3>2 DEF Before
  <2> QED BY <2>2, <2>3
<1> QED BY <1>5, <1>6

\* Whoever stands in a queue waits: a queue that is not empty has a successor, and
\* only one that is empty has none.
LEMMA SomebodyPicked ==
    ASSUME QInv, MTypes, NEW m \in Slots, NEW n \in Successors(m)
    PROVE  /\ n \in {NoThread} \cup waiters[m]
           /\ n # NoThread <=> waiters[m] # {}
           /\ n # NoThread => Picked(n, waiters[m])
<1>0. waiters[m] \in SUBSET Callers /\ NoThread \notin Callers
  BY SlotsAssumption DEF MTypes, NoThread, Callers, Main
<1>1. CASE waiters[m] = {}
  BY <1>0, <1>1 DEF Successors, Pickable, Picked
<1>2. CASE waiters[m] # {}
  <2>1. PICK w \in waiters[m] : \A v \in waiters[m] : Before(w, v)
    BY <1>0, <1>2, FirstExists
  <2>2. wait[w].kind # "none"
    BY <1>0, NotQueued
  <2>3. w \in Pickable(m)
    BY <1>0, <2>1, <2>2 DEF Pickable, Picked
  <2>4. n \in Pickable(m)
    BY <2>3 DEF Successors
  <2>5. Picked(n, waiters[m]) /\ n \in Callers
    BY <2>4 DEF Pickable
  <2> QED BY <1>0, <2>5 DEF Picked
<1> QED BY <1>1, <1>2

\* The boot state holds no mutex.
LEMMA InitMInv == Init => MInv
  BY SlotsAssumption DEF Init, MInv, MTypes, SlotSound, NoTypes, NoFlags,
     NoNumbers, NoQueues, NoThread, Types

\* What MutexConsistent talks about, and what decides on a successor.
mutexVars == <<type, active, userData, value, waiters, prio, process>>

\* A step that changes none of these keeps the invariant.
LEMMA SameMutexes == ASSUME MInv, UNCHANGED mutexVars PROVE MInv'
  BY DEF MInv, MTypes, SlotSound, mutexVars

\* A step that disturbs slot s only.
OtherSlotsKept(s) ==
    \A r \in Slots \ {s} :
       /\ type'[r] = type[r] /\ active'[r] = active[r]
       /\ userData'[r] = userData[r] /\ value'[r] = value[r]
       /\ waiters'[r] = waiters[r]

\* Changing one slot leaves the others alone.
LEMMA OneSlot ==
    ASSUME MInv, NEW s \in Slots, MTypes', OtherSlotsKept(s), SlotSound(s)'
    PROVE  MInv'
<1>1. ASSUME NEW r \in Slots \ {s} PROVE SlotSound(r)'
  BY DEF MInv, OtherSlotsKept, SlotSound
<1> QED BY <1>1 DEF MInv

\* Mutexes: the steps of a thread that uses them.
LEMMA MutexKept ==
    ASSUME QInv, MInv, NEW t \in Callers, MutexStep(t) PROVE MInv'
<1> USE DEF NoThread
<1>t. t # NoThread /\ Main # NoThread
  BY SlotsAssumption DEF Callers, Main
<1>0. PICK m \in Slots :
         \/ Lock(t, m) \/ NpTrylock(t, m) \/ UnlockNested(t, m)
         \/ UnlockLast(t, m)
         \/ \E timed \in BOOLEAN : LockWait(t, m, timed)
  BY DEF MutexStep
<1>m. SlotSound(m) /\ MTypes
  BY DEF MInv
<1>1. CASE Lock(t, m)
  <2>1. type[m] = "none" \/ type[m] = "mutex"
    BY <1>1 DEF Lock, LiveOrStatic, Alloc, FirstFree, Free
  <2>2. MTypes' /\ OtherSlotsKept(m)
    BY <1>m, <1>1 DEF Lock, MTypes, OtherSlotsKept, Types
  <2>3. value[m] \in Nat
    BY <1>m, <2>1 DEF SlotSound
  <2>4. type'[m] = "mutex" /\ active'[m] /\ userData'[m] = t
        /\ value'[m] = value[m] + 1
    BY <1>m, <1>1 DEF Lock, MTypes
  <2> QED BY <1>t, <2>2, <2>3, <2>4, OneSlot DEF SlotSound
<1>2. CASE NpTrylock(t, m)
  <2>1. MTypes' /\ OtherSlotsKept(m)
    BY <1>m, <1>2 DEF NpTrylock, MTypes, OtherSlotsKept
  <2>2. value[m] \in Nat
    BY <1>m, <1>2 DEF SlotSound, NpTrylock
  <2>3. type'[m] = "mutex" /\ active'[m] /\ userData'[m] = Main
        /\ value'[m] = value[m] + 1
    BY <1>m, <1>2 DEF NpTrylock, MTypes
  <2> QED BY <1>t, <2>1, <2>2, <2>3, OneSlot DEF SlotSound
<1>3. CASE UnlockNested(t, m)
  <2>1. MTypes' /\ OtherSlotsKept(m)
    BY <1>m, <1>3 DEF UnlockNested, MTypes, OtherSlotsKept
  <2>2. /\ value[m] \in Nat /\ value[m] > 1 /\ type[m] = "mutex"
        /\ active[m] /\ userData[m] = t
    BY <1>3, <1>m DEF UnlockNested, Owns, SlotSound
  <2>3. type'[m] = "mutex" /\ active'[m] /\ userData'[m] = t
        /\ value'[m] = value[m] - 1
    BY <1>m, <1>3, <2>2 DEF UnlockNested, MTypes
  <2> QED BY <1>t, <2>1, <2>2, <2>3, OneSlot DEF SlotSound
<1>4. CASE UnlockLast(t, m)
  <2>1. PICK n \in Successors(m) :
           PassOn(m, n) /\ waiters' = [waiters EXCEPT ![m] = @ \ {n}]
    BY <1>4 DEF UnlockLast
  <2>2. n # NoThread <=> waiters[m] # {}
    BY <1>m, SomebodyPicked
  <2>3. MTypes' /\ OtherSlotsKept(m)
    BY <1>m, <1>4, <2>1 DEF UnlockLast, PassOn, MTypes, OtherSlotsKept
  <2>4. /\ active'[m] <=> n # NoThread
        /\ userData'[m] = n
        /\ value'[m] = IF n = NoThread THEN 0 ELSE 1
        /\ waiters'[m] = waiters[m] \ {n} /\ type'[m] = "mutex"
    BY <1>m, <1>4, <2>1, <2>2 DEF UnlockLast, Owns, PassOn, MTypes
  <2> QED BY <2>2, <2>3, <2>4, OneSlot DEF SlotSound
<1>5. ASSUME NEW timed \in BOOLEAN, LockWait(t, m, timed) PROVE MInv'
  <2>1. MTypes' /\ OtherSlotsKept(m)
    BY <1>m, <1>5 DEF LockWait, MTypes, OtherSlotsKept
  <2>2. /\ type'[m] = "mutex" /\ type[m] = "mutex" /\ active[m] /\ active'[m]
        /\ userData'[m] = userData[m] /\ value'[m] = value[m]
    BY <1>5 DEF LockWait, LockTaken
  <2> QED BY <1>m, <2>1, <2>2, OneSlot DEF SlotSound
<1> QED BY <1>0, <1>1, <1>2, <1>3, <1>4, <1>5

\* cond_wait gives up mutex m and enters the queue of condition c.
LEMMA CondWaitKept ==
    ASSUME QInv, MInv, NEW t \in Callers, NEW c \in Slots, NEW m \in Slots,
           CondWait(t, c, m) \/ CondWaitNested(t, c, m)
    PROVE  MInv'
<1> USE DEF NoThread
<1>t. t # NoThread
  BY SlotsAssumption DEF Callers, Main
<1>m. SlotSound(m) /\ SlotSound(c) /\ MTypes
  BY DEF MInv
<1>0. /\ c # m /\ type[m] = "mutex" /\ type[c] \in {"none", "cond"}
      /\ type' = [type EXCEPT ![c] = "cond"] /\ UNCHANGED <<prio, process>>
  BY DEF CondWait, CondWaitNested, LiveOrStatic, Alloc, FirstFree, Free, Owns
<1>1. PICK n \in {NoThread} \cup Callers :
         /\ CondPark(t, c, m, n)
         /\ \/ /\ PassOn(m, n) /\ (n # NoThread <=> waiters[m] # {})
            \/ /\ UNCHANGED <<active, userData>> /\ active[m] /\ value[m] > 1
               /\ value' = [value EXCEPT ![m] = @ - 1]
  <2>1. CASE CondWait(t, c, m)
    <3>1. PICK n \in Successors(m) : PassOn(m, n) /\ CondPark(t, c, m, n)
      BY <2>1 DEF CondWait
    <3>2. /\ n = NoThread \/ n \in Callers
          /\ n # NoThread <=> waiters[m] # {}
      BY <1>m, SomebodyPicked DEF MTypes
    <3> QED BY <3>1, <3>2
  <2>2. CASE CondWaitNested(t, c, m)
    BY <2>2 DEF CondWaitNested, Owns
  <2> QED BY <2>1, <2>2
<1>2. /\ waiters' = [waiters EXCEPT ![m] = waiters[m] \ {n}, ![c] = waiters'[c]]
      /\ waiters'[c] \in SUBSET Callers
  BY <1>m, <1>0, <1>1 DEF CondPark, MTypes
<1>3. waiters'[m] = waiters[m] \ {n} /\ type'[m] = "mutex" /\ type'[c] = "cond"
  BY <1>m, <1>0, <1>2 DEF MTypes
<1>4. MTypes'
  <2>1. type' \in [Slots -> Types \cup {"none"}]
    BY <1>m, <1>0 DEF MTypes, Types
  <2>2. waiters' \in [Slots -> SUBSET Callers]
    BY <1>m, <1>2 DEF MTypes
  <2>3. active' \in [Slots -> BOOLEAN]
    BY <1>m, <1>1 DEF MTypes, PassOn
  <2>4. userData' = [s \in Slots |-> userData'[s]]
    BY <1>m, <1>1 DEF MTypes, PassOn
  <2>5. value' = [s \in Slots |-> value'[s]]
    BY <1>m, <1>1 DEF MTypes, PassOn
  <2> QED BY <1>m, <1>0, <2>1, <2>2, <2>3, <2>4, <2>5 DEF MTypes
<1>5. \A r \in Slots \ {m} :
         active'[r] = active[r] /\ userData'[r] = userData[r] /\ value'[r] = value[r]
  BY <1>m, <1>1 DEF MTypes, PassOn
<1>6. SlotSound(c)'
  BY <1>m, <1>0, <1>3, <1>5 DEF SlotSound
<1>7. SlotSound(m)'
  <2>1. CASE PassOn(m, n) /\ (n # NoThread <=> waiters[m] # {})
    <3>1. /\ active'[m] <=> n # NoThread
          /\ userData'[m] = n
          /\ value'[m] = IF n = NoThread THEN 0 ELSE 1
      BY <1>m, <2>1 DEF PassOn, MTypes
    <3> QED BY <1>3, <2>1, <3>1 DEF SlotSound
  <2>2. CASE /\ UNCHANGED <<active, userData>> /\ active[m] /\ value[m] > 1
             /\ value' = [value EXCEPT ![m] = @ - 1]
    <3>1. value[m] \in Nat /\ value'[m] = value[m] - 1
      BY <1>m, <1>0, <2>2 DEF MTypes, SlotSound
    <3> QED BY <1>m, <1>0, <1>3, <2>2, <3>1 DEF SlotSound
  <2> QED BY <1>1, <2>1, <2>2
<1>8. ASSUME NEW r \in Slots \ {m, c} PROVE SlotSound(r)'
  <2>1. type'[r] = type[r] /\ waiters'[r] = waiters[r]
    BY <1>m, <1>0, <1>2 DEF MTypes
  <2> QED BY <1>5, <2>1 DEF SlotSound, MInv
<1> QED BY <1>4, <1>6, <1>7, <1>8 DEF MInv

\* cond_signal: a mutex that receives waiters is locked, because the first of
\* them receives it if it is not.
LEMMA CondSignalKept ==
    ASSUME MInv, NEW t \in Callers, NEW c \in Slots, CondSignal(t, c)
    PROVE  MInv'
<1> USE DEF NoThread
<1> DEFINE given(s) == {w \in Granted(c) : waitMutex[w] = s}
<1>m. MTypes /\ \A s \in Slots : SlotSound(s)
  BY DEF MInv
<1>1. /\ type[c] \in {"none", "cond"}
      /\ type' = [type EXCEPT ![c] = "cond"]
      /\ waiters' = [s \in Slots |-> IF s = c THEN {}
                                     ELSE waiters[s] \cup Moved(c, s)]
      /\ active' = [s \in Slots |-> active[s] \/ given(s) # {}]
      /\ userData' = [s \in Slots |->
            IF given(s) # {} THEN CHOOSE w \in given(s) : TRUE ELSE userData[s]]
      /\ value' = [s \in Slots |-> IF given(s) # {} THEN 1 ELSE value[s]]
      /\ UNCHANGED <<prio, process>>
  BY DEF CondSignal, LiveOrStatic, Alloc, FirstFree, Free
<1>2. ASSUME NEW s \in Slots, type[s] # "mutex"
      PROVE  given(s) = {} /\ Moved(c, s) = {}
  BY <1>2 DEF Granted, Moved, Orphans, IsMutex
<1>3. ASSUME NEW s \in Slots, type[s] = "mutex", Moved(c, s) # {}
      PROVE  active[s] \/ given(s) # {}
  <2> DEFINE W == {v \in waiters[c] : waitMutex[v] = s}
  <2>1. W \in SUBSET Callers /\ W # {}
    BY <1>m, <1>3 DEF Moved, MTypes
  <2>2. PICK w \in W : \A v \in W : Before(w, v)
    <3> HIDE DEF W
    <3> QED BY <1>m, <2>1, FirstExists
  <2>3. ~active[s] => w \in given(s)
    BY <1>3, <2>2 DEF Granted, IsMutex, FirstFor
  <2> QED BY <2>3
<1>4. MTypes'
  <2>1. type' \in [Slots -> Types \cup {"none"}]
    BY <1>m, <1>1 DEF MTypes, Types
  <2>2. waiters' \in [Slots -> SUBSET Callers]
    <3>1. \A s \in Slots : Moved(c, s) \subseteq waiters[c]
      BY DEF Moved
    <3> QED BY <1>m, <1>1, <3>1 DEF MTypes
  <2>3. active' \in [Slots -> BOOLEAN]
    <3> HIDE DEF given
    <3> QED BY <1>m, <1>1 DEF MTypes
  <2> QED BY <1>m, <1>1, <2>1, <2>2, <2>3 DEF MTypes
<1>5. ASSUME NEW s \in Slots PROVE SlotSound(s)'
  <2>1. /\ active'[s] <=> (active[s] \/ given(s) # {})
        /\ userData'[s] = IF given(s) # {} THEN CHOOSE w \in given(s) : TRUE
                          ELSE userData[s]
        /\ value'[s] = IF given(s) # {} THEN 1 ELSE value[s]
        /\ waiters'[s] = IF s = c THEN {} ELSE waiters[s] \cup Moved(c, s)
        /\ type'[s] = IF s = c THEN "cond" ELSE type[s]
    BY <1>m, <1>1 DEF MTypes
  <2>2. given(s) # {} => (CHOOSE w \in given(s) : TRUE) \in Callers
    <3>1. given(s) \subseteq Callers
      BY <1>m DEF Granted, MTypes
    <3> HIDE DEF given
    <3> QED BY <3>1
  <2>3. \A w \in Callers : w # 0
    BY SlotsAssumption DEF Callers, Main
  <2> HIDE DEF given
  <2>4. CASE type[s] # "mutex"
    BY <1>m, <1>1, <1>2, <2>1, <2>4 DEF SlotSound
  <2>5. CASE type[s] = "mutex"
    <3>0. s # c /\ type'[s] = "mutex" /\ SlotSound(s)
      BY <1>m, <1>1, <2>1, <2>5
    <3>1. CASE given(s) = {}
      <4>1. Moved(c, s) = {} \/ active[s]
        BY <1>3, <2>5, <3>1
      <4> QED BY <2>1, <3>0, <3>1, <4>1 DEF SlotSound
    <3>2. CASE given(s) # {}
      <4>1. active'[s] /\ userData'[s] # 0 /\ value'[s] = 1
        BY <2>1, <2>2, <2>3, <3>2
      <4> QED BY <3>0, <4>1 DEF SlotSound
    <3> QED BY <3>1, <3>2
  <2> QED BY <2>4, <2>5
<1> QED BY <1>4, <1>5 DEF MInv

\* A step that leaves the owner, the depth and the type of every object alone,
\* and lets only a queue of something else than a mutex grow.
LEMMA QueuesOnly ==
    ASSUME MInv, UNCHANGED <<type, active, userData, prio, process>>,
           value' = [s \in Slots |-> value'[s]],
           \A s \in Slots : type[s] \notin {"sem", "ksema"} => value'[s] = value[s],
           waiters' \in [Slots -> SUBSET Callers],
           \A s \in Slots : type[s] \in {"none", "mutex"} =>
              waiters'[s] \subseteq waiters[s]
    PROVE  MInv'
<1>1. MTypes'
  BY DEF MInv, MTypes
<1>2. ASSUME NEW s \in Slots PROVE SlotSound(s)'
  <2>1. CASE type[s] = "mutex"
    <3>1. value'[s] = value[s] /\ waiters'[s] \subseteq waiters[s]
      BY <2>1
    <3> QED BY <2>1, <3>1 DEF MInv, SlotSound
  <2>2. CASE type[s] # "mutex"
    <3>1. type[s] = "none" => waiters'[s] \subseteq waiters[s]
      OBVIOUS
    <3>2. type[s] \in {"none", "cond", "thread"} => value'[s] = value[s]
      OBVIOUS
    <3> QED BY <2>2, <3>1, <3>2 DEF MInv, SlotSound
  <2> QED BY <2>1, <2>2
<1> QED BY <1>1, <1>2 DEF MInv

\* Semaphores and barriers.
LEMMA CountKept ==
    ASSUME MInv, NEW t \in Callers, SemStep(t) \/ KSemaStep(t) \/ BarrierStep(t)
    PROVE  MInv'
<1>m. MTypes
  BY DEF MInv
<1>1. ASSUME NEW s \in Slots, SemTake(t, s) \/ SemWait(t, s) \/ SemPostCounts(t, s)
      PROVE  MInv'
  <2>1. CASE SemTake(t, s)
    BY <1>m, <2>1, QueuesOnly DEF SemTake, MTypes
  <2>2. CASE SemWait(t, s)
    BY <1>m, <2>2, QueuesOnly DEF SemWait, MTypes
  <2>3. CASE SemPostCounts(t, s)
    BY <1>m, <2>3, QueuesOnly DEF SemPostCounts, MTypes
  <2> QED BY <1>1, <2>1, <2>2, <2>3
<1>2. ASSUME NEW s \in Slots, SemPostWakes(t, s) PROVE MInv'
  BY <1>m, <1>2, QueuesOnly DEF SemPostWakes, MTypes
<1>3. ASSUME NEW s \in Slots, NEW n \in 0 .. MaxSem, KSemaTake(t, s, n)
      PROVE  MInv'
  BY <1>m, <1>3, QueuesOnly DEF KSemaTake, MTypes
<1>4. ASSUME NEW s \in Slots, NEW n \in 0 .. MaxSem, NEW timed \in BOOLEAN,
             KSemaWait(t, s, n, timed)
      PROVE  MInv'
  BY <1>m, <1>4, QueuesOnly DEF KSemaWait, MTypes
<1>5. ASSUME NEW s \in Slots, NEW n \in 0 .. MaxSem, KSemaSignal(t, s, n)
      PROVE  MInv'
  <2>1. PICK S \in SUBSET waiters[s] : \E v :
           /\ value' = [value EXCEPT ![s] = v]
           /\ waiters' = [waiters EXCEPT ![s] = @ \ S]
    BY <1>5 DEF KSemaSignal
  <2>2. type[s] = "ksema" /\ UNCHANGED <<type, active, userData, prio, process>>
    BY <1>5 DEF KSemaSignal
  <2>v. PICK v : value' = [value EXCEPT ![s] = v]
    BY <2>1
  <2>3. /\ value' = [r \in Slots |-> value'[r]]
        /\ \A r \in Slots : type[r] \notin {"sem", "ksema"} => value'[r] = value[r]
    BY <1>m, <2>v, <2>2 DEF MTypes
  <2>4. /\ waiters' \in [Slots -> SUBSET Callers]
        /\ \A r \in Slots : waiters'[r] \subseteq waiters[r]
    BY <1>m, <2>1 DEF MTypes
  <2> QED BY <2>2, <2>3, <2>4, QueuesOnly
<1>6. ASSUME NEW s \in Slots, NEW n \in 0 .. MaxSem, KSemaCancel(t, s, n)
      PROVE  MInv'
  BY <1>m, <1>6, QueuesOnly DEF KSemaCancel, MTypes
<1>7. ASSUME NEW s \in Slots, BarrierWait(t, s) \/ BarrierOpen(t, s) PROVE MInv'
  <2>1. CASE BarrierWait(t, s)
    BY <1>m, <2>1, QueuesOnly DEF BarrierWait, MTypes
  <2>2. CASE BarrierOpen(t, s)
    BY <1>m, <2>2, QueuesOnly DEF BarrierOpen, MTypes
  <2> QED BY <1>7, <2>1, <2>2
<1>8. ASSUME NEW s \in Slots, BarrierDestroy(t, s) PROVE MInv'
  <2>1. MTypes' /\ OtherSlotsKept(s)
    BY <1>m, <1>8 DEF BarrierDestroy, Delete, MTypes, OtherSlotsKept
  <2>2. SlotSound(s)'
    BY <1>m, <1>8 DEF BarrierDestroy, Delete, MTypes, SlotSound
  <2> QED BY <2>1, <2>2, OneSlot
<1>9. CASE SemStep(t)
  BY <1>1, <1>2, <1>9 DEF SemStep
<1>10. CASE KSemaStep(t)
  BY <1>3, <1>4, <1>5, <1>6, <1>10 DEF KSemaStep
<1>11. CASE BarrierStep(t)
  BY <1>7, <1>8, <1>11 DEF BarrierStep
<1> QED BY <1>9, <1>10, <1>11

\* Objects are created in free slots and leave a free slot behind.
LEMMA ObjectKept == ASSUME MInv, NEW t \in Callers, ObjectStep(t) PROVE MInv'
<1> USE DEF NoThread
<1>m. MTypes /\ \A s \in Slots : SlotSound(s)
  BY DEF MInv
<1>1. ASSUME NEW s \in Slots, Destroy(t, s) PROVE MInv'
  <2>1. MTypes' /\ OtherSlotsKept(s)
    BY <1>m, <1>1 DEF Destroy, Delete, MTypes, OtherSlotsKept
  <2>2. SlotSound(s)'
    BY <1>m, <1>1 DEF Destroy, Delete, MTypes, SlotSound
  <2> QED BY <2>1, <2>2, OneSlot
<1>2. ASSUME NEW s \in Slots, NEW ty \in {"mutex", "cond"}, Create(t, s, ty)
      PROVE  MInv'
  <2>1. MTypes' /\ OtherSlotsKept(s)
    BY <1>m, <1>2 DEF Create, MTypes, OtherSlotsKept, Types
  <2>2. SlotSound(s)'
    BY <1>m, <1>2 DEF Create, Alloc, FirstFree, Free, MTypes, SlotSound
  <2> QED BY <2>1, <2>2, OneSlot
<1>3. ASSUME NEW s \in Slots, NEW ty \in {"sem", "ksema", "barrier"},
             NEW n \in 0 .. MaxSem, NEW max \in 0 .. MaxSem,
             CreateCounted(t, s, ty, n, max)
      PROVE  MInv'
  <2>1. MTypes' /\ OtherSlotsKept(s)
    BY <1>m, <1>3 DEF CreateCounted, MTypes, OtherSlotsKept, Types
  <2>2. SlotSound(s)'
    BY <1>m, <1>3 DEF CreateCounted, Alloc, FirstFree, Free, MTypes, SlotSound
  <2> QED BY <2>1, <2>2, OneSlot
<1> QED BY <1>1, <1>2, <1>3 DEF ObjectStep

\* Threads: their slots hold no mutex, before and after.
LEMMA ThreadKept == ASSUME MInv, NEW t \in Callers, ThreadStep(t) PROVE MInv'
<1> USE DEF NoThread
<1>m. MTypes /\ \A s \in Slots : SlotSound(s)
  BY DEF MInv
<1>1. ASSUME NEW s \in Slots, NEW p \in Nat, NEW runs \in BOOLEAN,
             NewThread(s, p, runs), process' \in 0 .. NumSlots
      PROVE  MInv'
  <2>1. MTypes' /\ OtherSlotsKept(s)
    BY <1>m, <1>1 DEF NewThread, MTypes, OtherSlotsKept, Types
  <2>2. SlotSound(s)'
    BY <1>m, <1>1 DEF NewThread, Alloc, FirstFree, Free, MTypes, SlotSound
  <2> QED BY <2>1, <2>2, OneSlot
<1>2. CASE Exit(t)
  <2>1. t \in Slots /\ type[t] = "thread"
    BY <1>2, SlotsAssumption DEF Exit, Running, Callers, Slots, Main
  <2>2. MTypes' /\ OtherSlotsKept(t)
    BY <1>m, <1>2 DEF Exit, MTypes, OtherSlotsKept
  <2>3. SlotSound(t)'
    BY <1>m, <1>2, <2>1 DEF Exit, MTypes, SlotSound
  <2> QED BY <2>1, <2>2, <2>3, OneSlot
<1>3. CASE ProcessKill(t)
  <2>1. process \in Slots /\ type[process] = "thread"
    BY <1>m, <1>3 DEF ProcessKill, Slots, MTypes
  <2>a. MTypes'
    <3>1. process' \in 0 .. NumSlots
      BY <1>3, SlotsAssumption DEF ProcessKill
    <3>2. /\ type' \in [Slots -> Types \cup {"none"}]
          /\ prio' \in [Slots -> Nat] /\ waiters' \in [Slots -> SUBSET Callers]
      BY <1>m, <1>3 DEF ProcessKill, MTypes
    <3>3. active' \in [Slots -> BOOLEAN]
      BY <1>m, <1>3 DEF ProcessKill, MTypes
    <3>4. /\ userData' = [s \in Slots |-> userData'[s]]
          /\ value' = [s \in Slots |-> value'[s]]
      BY <1>m, <1>3 DEF ProcessKill, MTypes
    <3> QED BY <3>1, <3>2, <3>3, <3>4 DEF MTypes
  <2>2. OtherSlotsKept(process)
    BY <1>m, <1>3, <2>1 DEF ProcessKill, MTypes, OtherSlotsKept
  <2>3. /\ type'[process] = "none" /\ ~active'[process]
        /\ waiters'[process] = {} /\ userData'[process] = 0 /\ value'[process] = 0
    BY <1>m, <1>3, <2>1 DEF ProcessKill, MTypes
  <2>4. ASSUME NEW s \in Slots, s = process PROVE SlotSound(s)'
    BY <2>1, <2>3, <2>4 DEF SlotSound
  <2>5. ASSUME NEW s \in Slots, s # process PROVE SlotSound(s)'
    BY <1>m, <2>2, <2>5 DEF OtherSlotsKept, SlotSound
  <2> QED BY <2>a, <2>4, <2>5 DEF MInv
<1>4. ASSUME NEW s \in Slots, NpThreadCreate(t, s) PROVE MInv'
  BY <1>m, <1>1, <1>4 DEF NpThreadCreate, MTypes
<1>5. ASSUME NEW s \in Slots, Detach(t, s) PROVE MInv'
  BY <1>5, SameMutexes DEF Detach, mutexVars
<1>6. ASSUME NEW s \in Slots, JoinWait(t, s) PROVE MInv'
  BY <1>m, <1>6, QueuesOnly DEF JoinWait, MTypes
<1>7. ASSUME NEW s \in Slots, JoinFinished(t, s) PROVE MInv'
  <2>1. MTypes' /\ OtherSlotsKept(s)
    BY <1>m, <1>7 DEF JoinFinished, Delete, MTypes, OtherSlotsKept
  <2>2. SlotSound(s)'
    BY <1>m, <1>7 DEF JoinFinished, Delete, MTypes, SlotSound
  <2> QED BY <2>1, <2>2, OneSlot
<1>8. ASSUME NEW s \in Slots, ProcessAdd(t, s) PROVE MInv'
  <2>1. DefaultPriority \in Nat /\ process' \in 0 .. NumSlots
    BY <1>8, PriorityAssumption, SlotsAssumption DEF ProcessAdd, Slots
  <2> QED BY <1>1, <1>8, <2>1 DEF ProcessAdd
<1>9. ASSUME NEW s \in Slots, NEW p \in Priorities, ThreadCreate(t, s, p)
      PROVE  MInv'
  <2>1. p \in Nat /\ process' \in 0 .. NumSlots
    BY <1>m, <1>9, PriorityAssumption DEF ThreadCreate, MTypes
  <2> QED BY <1>1, <1>9, <2>1 DEF ThreadCreate
<1>10. ASSUME NEW s \in Slots, NEW p \in Priorities, SetPriority(t, s, p)
       PROVE  MInv'
  <2>1. MTypes' /\ OtherSlotsKept(s)
    BY <1>m, <1>10, PriorityAssumption DEF SetPriority, MTypes, OtherSlotsKept
  <2>2. SlotSound(s)'
    BY <1>m, <1>10 DEF SetPriority, SlotSound
  <2> QED BY <2>1, <2>2, OneSlot
<1>11. CASE Sleep(t)
  BY <1>11, SameMutexes DEF Sleep, objects, mutexVars
<1> QED BY <1>2, <1>3, <1>4, <1>5, <1>6, <1>7, <1>8, <1>9, <1>10, <1>11
        DEF ThreadStep

\* The invariant holds of every run in which a machine that had a fatal fault is
\* not reset.
LEMMA AlwaysMInv ==
    ~({"fatal_fault", "reset"} \subseteq Permitted) => (Spec => []MInv)
<1> SUFFICES ASSUME ~({"fatal_fault", "reset"} \subseteq Permitted)
             PROVE  Spec => []MInv
  OBVIOUS
<1>1. QInv /\ MInv /\ [Next]_vars => MInv'
  <2> SUFFICES ASSUME QInv, MInv, [Next]_vars PROVE MInv'
    OBVIOUS
  <2>1. CASE UNCHANGED vars
    BY <2>1, SameMutexes DEF vars, objects, mutexVars
  <2>2. CASE Reset
    BY <2>2, SlotsAssumption DEF Reset, MInv, MTypes, SlotSound, NoTypes,
       NoFlags, NoNumbers, NoQueues, NoThread, Types
  <2>3. ASSUME NEW t \in Callers, MutexStep(t) PROVE MInv'
    BY <2>3, MutexKept
  <2>4. ASSUME NEW t \in Callers, CondStep(t) PROVE MInv'
    BY <2>4, CondWaitKept, CondSignalKept DEF CondStep
  <2>5. ASSUME NEW t \in Callers, SemStep(t) \/ KSemaStep(t) \/ BarrierStep(t)
        PROVE  MInv'
    BY <2>5, CountKept
  <2>6. ASSUME NEW t \in Callers, ObjectStep(t) PROVE MInv'
    BY <2>6, ObjectKept
  <2>7. ASSUME NEW t \in Callers, ThreadStep(t) PROVE MInv'
    BY <2>7, ThreadKept
  <2>8. ASSUME NEW t \in Callers, FatalFault(t) PROVE MInv'
    BY <2>8, SameMutexes DEF FatalFault, objects, mutexVars
  <2>9. ASSUME NEW t \in Callers, Timeout(t) PROVE MInv'
    <3>1. CASE wait[t].kind = "none"
      BY <2>9, <3>1, SameMutexes DEF Timeout, mutexVars
    <3>2. CASE wait[t].kind # "none"
      <4>1. waiters' = [s \in Slots |-> IF s = wait[t].obj THEN waiters[s] \ {t}
                                        ELSE waiters[s]]
            /\ UNCHANGED <<type, active, userData, value, prio, process>>
        BY <2>9, <3>2 DEF Timeout, LeaveQueue
      <4> QED BY <4>1, QueuesOnly DEF MInv, MTypes
    <3> QED BY <3>1, <3>2
  <2> QED BY <2>1, <2>2, <2>3, <2>4, <2>5, <2>6, <2>7, <2>8, <2>9 DEF Next
<1> QED BY AlwaysQInv, InitMInv, <1>1, PTL DEF Spec

\* Where no machine is reset that had a fatal fault, a mutex is locked, has an owner
\* and has a depth, or none of them, and only a locked mutex has a queue: unlock,
\* cond_wait and cond_signal never leave a waiter behind with a mutex that is free.
THEOREM MutexConsistentHolds ==
    ~({"fatal_fault", "reset"} \subseteq Permitted) => (Spec => []MutexConsistent)
<1>1. MInv => MutexConsistent
  BY DEF MInv, SlotSound, MutexConsistent
<1> QED BY AlwaysMInv, <1>1, PTL

-----------------------------------------------------------------------------
(***************************************************************************)
(* LockView.  What the threads were told agrees with the table, because the *)
(* thread that a handoff makes the owner stands in the queue it is taken    *)
(* from and in no other, and because a waiter of a condition does not own   *)
(* the mutex it waits with.  It fails when a thread ends with a mutex       *)
(* locked, waits with a mutex locked twice, or uses NpCommon's trylock.     *)
(***************************************************************************)
HeldAsRecorded(m) ==
    \A t \in Callers :
       held[t][m] = IF type[m] = "mutex" /\ userData[m] = t THEN value[m] ELSE 0

\* The queues in which threads stand that wait for mutex m, now or when their
\* condition is signalled, do not hold its owner.
OwnerOut(m) ==
    type[m] = "mutex" =>
       \A s \in Slots : \A w \in waiters[s] :
          s = m \/ (type[s] = "cond" /\ waitMutex[w] = m) => userData[m] # w

LInv ==
    /\ held \in [Callers -> [Slots -> Nat]]
    /\ \A m \in Slots : HeldAsRecorded(m) /\ OwnerOut(m)

\* Nobody holds a mutex when the machine has booted.
LEMMA InitLInv == Init => LInv
  BY DEF Init, LInv, HeldAsRecorded, OwnerOut, NoTypes, NothingHeld

\* A step that hands nothing over, and lets nobody enter the queue of a mutex or of
\* a condition.
LEMMA LocksKept ==
    ASSUME LInv, held' = held,
           \A m \in Slots : type'[m] = "mutex" <=> type[m] = "mutex",
           \A m \in Slots : type[m] = "mutex" =>
              userData'[m] = userData[m] /\ value'[m] = value[m],
           \A s \in Slots : \A w \in waiters'[s] : type'[s] \in {"mutex", "cond"} =>
              /\ w \in waiters[s] /\ type'[s] = type[s]
              /\ waitMutex'[w] \in {waitMutex[w], NoObject}
    PROVE  LInv'
<1>1. \A m \in Slots : HeldAsRecorded(m)'
  BY DEF LInv, HeldAsRecorded
<1>2. ASSUME NEW m \in Slots PROVE OwnerOut(m)'
  <2> SUFFICES ASSUME type'[m] = "mutex", NEW s \in Slots, NEW w \in waiters'[s],
                      s = m \/ (type'[s] = "cond" /\ waitMutex'[w] = m)
               PROVE  userData'[m] # w
    BY DEF OwnerOut
  <2>1. m # NoObject
    BY DEF Slots, NoObject
  <2>2. /\ w \in waiters[s] /\ type'[s] = type[s]
        /\ s = m \/ (type[s] = "cond" /\ waitMutex[w] = m)
    BY <2>1
  <2> QED BY <2>2 DEF LInv, OwnerOut
<1>3. held' \in [Callers -> [Slots -> Nat]]
  BY DEF LInv
<1> QED BY <1>1, <1>2, <1>3 DEF LInv

\* A mutex nobody owns is held by nobody.
LEMMA FreeNotHeld ==
    ASSUME MInv, LInv, NEW m \in Slots, type[m] \in {"none", "mutex"}, ~active[m]
    PROVE  userData[m] = 0 /\ value[m] = 0 /\ \A x \in Callers : held[x][m] = 0
<1>1. userData[m] = 0 /\ value[m] = 0
  BY DEF MInv, SlotSound, NoThread
<1> QED BY <1>1 DEF LInv, HeldAsRecorded

\* A lock that succeeds at once.
LEMMA LockTakes ==
    ASSUME QInv, MInv, WInv, LInv, NEW t \in Callers, NEW m \in Slots, Running(t),
           type[m] \in {"none", "mutex"}, ~LockTaken(t, m),
           type' = [type EXCEPT ![m] = "mutex"],
           userData' = [userData EXCEPT ![m] = t],
           value' = [value EXCEPT ![m] = @ + 1],
           held' = [held EXCEPT ![t][m] = @ + 1],
           UNCHANGED <<waiters, waitMutex>>
    PROVE  LInv'
<1>0. MTypes /\ SlotSound(m) /\ HeldAsRecorded(m) /\ held \in [Callers -> [Slots -> Nat]]
  BY DEF MInv, LInv
<1>1. \A s \in Slots : t \notin waiters[s]
  BY RunningNotWaiting
<1>2. /\ held[t][m] = value[m] /\ value[m] \in Nat
      /\ \A x \in Callers \ {t} : held[x][m] = 0
  <2>1. CASE ~active[m]
    BY <2>1, FreeNotHeld
  <2>2. CASE active[m]
    <3>1. type[m] = "mutex" /\ userData[m] = t
      BY <1>0, <2>2 DEF LockTaken, SlotSound
    <3> QED BY <1>0, <3>1 DEF HeldAsRecorded, SlotSound
  <2> QED BY <2>1, <2>2
<1>3. /\ type'[m] = "mutex" /\ userData'[m] = t /\ value'[m] = value[m] + 1
      /\ \A s \in Slots \ {m} : type'[s] = type[s] /\ userData'[s] = userData[s]
                                /\ value'[s] = value[s]
  BY <1>0 DEF MTypes
<1>4. /\ held' \in [Callers -> [Slots -> Nat]] /\ held'[t][m] = held[t][m] + 1
      /\ \A x \in Callers, s \in Slots : x # t \/ s # m => held'[x][s] = held[x][s]
  BY <1>0, <1>2
<1>5. \A s \in Slots : HeldAsRecorded(s)'
  <2>1. HeldAsRecorded(m)'
    BY <1>2, <1>3, <1>4 DEF HeldAsRecorded
  <2>2. ASSUME NEW s \in Slots \ {m} PROVE HeldAsRecorded(s)'
    BY <1>3, <1>4 DEF LInv, HeldAsRecorded
  <2> QED BY <2>1, <2>2
<1>6. \A s \in Slots : OwnerOut(s)'
  <2>1. OwnerOut(m)'
    BY <1>1, <1>3 DEF OwnerOut
  <2>2. ASSUME NEW s \in Slots \ {m} PROVE OwnerOut(s)'
    BY <1>3 DEF LInv, OwnerOut
  <2> QED BY <2>1, <2>2
<1> QED BY <1>4, <1>5, <1>6 DEF LInv

\* What the threads know of mutex m when t hands it to n.
Told(t, m, n) ==
    held' = [x \in Callers |-> [held[x] EXCEPT ![m] =
                IF x = n THEN 1 ELSE IF x = t THEN 0 ELSE @]]

SameMutexSlots == \A s \in Slots : type'[s] = "mutex" <=> type[s] = "mutex"

\* The queues of mutexes and conditions lose waiters; only t may enter one, that of
\* a condition, and it waits with mutex m.
EntersAtMost(t, m) ==
    \A s \in Slots : \A w \in waiters'[s] : type'[s] \in {"mutex", "cond"} =>
       \/ /\ w \in waiters[s] /\ type'[s] = type[s]
          /\ waitMutex'[w] \in {waitMutex[w], NoObject}
       \/ w = t /\ type'[s] = "cond" /\ waitMutex'[t] = m

\* The step of an owner t that hands mutex m to n, the first of its queue, or to
\* nobody, and may enter the queue of a condition.
LEMMA HandsOver ==
    ASSUME QInv, MInv, WInv, LInv, NEW t \in Callers, NEW m \in Slots,
           Owns(t, m), value[m] = 1, Running(t),
           NEW n \in {NoThread} \cup waiters[m], n # NoThread <=> waiters[m] # {},
           PassOn(m, n), Told(t, m, n),
           SameMutexSlots, n \notin waiters'[m], EntersAtMost(t, m)
    PROVE  LInv'
<1>0. /\ MTypes /\ type[m] = "mutex" /\ userData[m] = t
      /\ held \in [Callers -> [Slots -> Nat]]
  BY DEF MInv, LInv, Owns
<1>1. n # t /\ n \in {NoThread} \cup Callers /\ NoThread \notin Callers
  <2>1. t \notin waiters[m]
    BY RunningNotWaiting
  <2> QED BY <2>1 DEF NoThread, Callers, Main, QInv, QTypes
<1>2. /\ userData'[m] = n /\ value'[m] = IF n = NoThread THEN 0 ELSE 1
      /\ \A s \in Slots \ {m} : userData'[s] = userData[s] /\ value'[s] = value[s]
  BY <1>0 DEF PassOn, MTypes
<1>3. /\ held' \in [Callers -> [Slots -> Nat]]
      /\ \A x \in Callers : held'[x][m] = IF x = n THEN 1
                                          ELSE IF x = t THEN 0 ELSE held[x][m]
      /\ \A x \in Callers : \A s \in Slots \ {m} : held'[x][s] = held[x][s]
  BY <1>0 DEF Told
<1>4. \A x \in Callers \ {t} : held[x][m] = 0
  BY <1>0 DEF LInv, HeldAsRecorded
<1>5. \A s \in Slots : HeldAsRecorded(s)'
  <2>1. HeldAsRecorded(m)'
    BY <1>0, <1>1, <1>2, <1>3, <1>4 DEF HeldAsRecorded, SameMutexSlots
  <2>2. ASSUME NEW s \in Slots \ {m} PROVE HeldAsRecorded(s)'
    BY <1>2, <1>3 DEF LInv, HeldAsRecorded, SameMutexSlots
  <2> QED BY <2>1, <2>2
<1>6. ASSUME NEW r \in Slots PROVE OwnerOut(r)'
  <2> SUFFICES ASSUME type'[r] = "mutex", NEW s \in Slots, NEW w \in waiters'[s],
                      s = r \/ (type'[s] = "cond" /\ waitMutex'[w] = r)
               PROVE  userData'[r] # w
    BY DEF OwnerOut
  <2>0. r # NoObject
    BY DEF Slots, NoObject
  <2>1. CASE w = t /\ type'[s] = "cond" /\ waitMutex'[t] = m
    <3>1. r = m
      BY <2>1
    <3> QED BY <1>1, <1>2, <2>1, <3>1
  <2>2. CASE /\ w \in waiters[s] /\ type'[s] = type[s]
             /\ waitMutex'[w] \in {waitMutex[w], NoObject}
    <3>1. type[r] = "mutex" /\ (s = r \/ (type[s] = "cond" /\ waitMutex[w] = r))
      BY <2>0, <2>2 DEF SameMutexSlots
    <3>2. CASE r # m
      BY <1>2, <2>2, <3>1, <3>2 DEF LInv, OwnerOut
    <3>3. CASE r = m
      <4>1. CASE s = m
        BY <1>2, <3>3, <4>1
      <4>2. CASE s # m
        <5>1. n = NoThread \/ n \notin waiters[s]
          BY <4>2 DEF QInv, QueueSound
        <5>2. w \in Callers
          BY <2>2 DEF QInv, QTypes
        <5> QED BY <1>1, <1>2, <2>2, <3>3, <5>1, <5>2
      <4> QED BY <4>1, <4>2
    <3> QED BY <3>2, <3>3
  <2> QED BY <2>1, <2>2 DEF EntersAtMost
<1> QED BY <1>3, <1>5, <1>6 DEF LInv

\* What a run must not permit for LockView: a thread that the kernel ends or that
\* exits with a mutex locked, a condition wait with the mutex locked twice, and the
\* trylock that records another thread as the owner.
LockBreakers == {"kill", "exit_locked", "nested_wait", "np_trylock"}

\* The steps of mutexes.
LEMMA MutexLocks ==
    ASSUME QInv, MInv, WInv, LInv, NEW t \in Callers, MutexStep(t),
           LockBreakers \cap Permitted = {}
    PROVE  LInv'
<1>0. PICK m \in Slots :
         \/ Lock(t, m) \/ NpTrylock(t, m) \/ UnlockNested(t, m)
         \/ UnlockLast(t, m)
         \/ \E timed \in BOOLEAN : LockWait(t, m, timed)
  BY DEF MutexStep
<1>m. MTypes /\ SlotSound(m) /\ HeldAsRecorded(m)
  BY DEF MInv, LInv
<1>1. CASE Lock(t, m)
  <2>1. type[m] \in {"none", "mutex"}
    BY <1>1 DEF Lock, LiveOrStatic, Alloc, FirstFree, Free
  <2> QED BY <1>1, <2>1, LockTakes DEF Lock, waits
<1>2. CASE NpTrylock(t, m)
  <2>1. t = Main
    BY <1>2 DEF NpTrylock, LockBreakers
  <2>2. type[m] = "mutex" /\ type' = [type EXCEPT ![m] = "mutex"]
    BY <1>2, <1>m DEF NpTrylock, MTypes
  <2> QED BY <1>2, <2>1, <2>2, LockTakes DEF NpTrylock, waits
<1>3. CASE UnlockNested(t, m)
  <2>1. /\ type[m] = "mutex" /\ userData[m] = t /\ value[m] \in Nat /\ value[m] > 1
        /\ UNCHANGED <<type, userData, waiters, waitMutex>>
        /\ value' = [value EXCEPT ![m] = value[m] - 1]
    BY <1>3, <1>m DEF UnlockNested, Owns, SlotSound, waits
  <2>2. held[t][m] = value[m]
    BY <1>m, <2>1 DEF HeldAsRecorded
  <2>3. held' = [held EXCEPT ![t][m] = value[m] - 1]
    <3>1. held' = [held EXCEPT ![t][m] = IF held[t][m] = 0 THEN 0 ELSE held[t][m] - 1]
      BY <1>3 DEF UnlockNested
    <3>2. (IF held[t][m] = 0 THEN 0 ELSE held[t][m] - 1) = value[m] - 1
      BY <2>1, <2>2
    <3> QED BY <3>1, <3>2
  <2>4. /\ held' \in [Callers -> [Slots -> Nat]] /\ held'[t][m] = value[m] - 1
        /\ \A x \in Callers, s \in Slots : x # t \/ s # m => held'[x][s] = held[x][s]
    BY <2>1, <2>3 DEF LInv
  <2>5. /\ value'[m] = value[m] - 1
        /\ \A s \in Slots \ {m} : value'[s] = value[s]
    BY <1>m, <2>1 DEF MTypes
  <2>6. \A s \in Slots : HeldAsRecorded(s)'
    <3>1. HeldAsRecorded(m)'
      BY <1>m, <2>1, <2>4, <2>5 DEF HeldAsRecorded
    <3>2. ASSUME NEW s \in Slots \ {m} PROVE HeldAsRecorded(s)'
      BY <2>1, <2>4, <2>5 DEF LInv, HeldAsRecorded
    <3> QED BY <3>1, <3>2
  <2>7. \A s \in Slots : OwnerOut(s)'
    BY <2>1 DEF LInv, OwnerOut
  <2> QED BY <2>4, <2>6, <2>7 DEF LInv
<1>4. CASE UnlockLast(t, m)
  <2>1. PICK n \in Successors(m) :
           /\ PassOn(m, n) /\ waiters' = [waiters EXCEPT ![m] = @ \ {n}]
           /\ ClearWaitMutex({n})
           /\ held' = [x \in Callers |-> [held[x] EXCEPT ![m] =
                          IF x = n THEN 1 ELSE IF x = t THEN 0 ELSE @]]
    BY <1>4 DEF UnlockLast
  <2>2. /\ n \in {NoThread} \cup waiters[m] /\ type' = type
        /\ n # NoThread <=> waiters[m] # {}
        /\ Owns(t, m) /\ value[m] = 1 /\ Running(t)
    BY <1>m, <1>4, SomebodyPicked DEF UnlockLast
  <2>3. n \notin waiters'[m]
    BY <1>m, <2>1 DEF MTypes
  <2>4. \A s \in Slots : \A w \in waiters'[s] :
           w \in waiters[s] /\ waitMutex'[w] \in {waitMutex[w], NoObject}
    BY <1>m, <2>1 DEF MTypes, ClearWaitMutex
  <2>5. Told(t, m, n) /\ SameMutexSlots /\ EntersAtMost(t, m)
    BY <2>1, <2>2, <2>4 DEF Told, SameMutexSlots, EntersAtMost
  <2> QED BY <2>1, <2>2, <2>3, <2>5, HandsOver
<1>5. ASSUME NEW timed \in BOOLEAN, LockWait(t, m, timed) PROVE LInv'
  <2>1. /\ type[m] = "mutex" /\ userData[m] # t /\ Running(t)
        /\ waiters' = [waiters EXCEPT ![m] = @ \cup {t}]
        /\ waitMutex' = [waitMutex EXCEPT ![t] = m]
        /\ UNCHANGED <<type, userData, value, held>>
    BY <1>5 DEF LockWait, LockTaken
  <2>2. \A s \in Slots : t \notin waiters[s]
    BY <2>1, RunningNotWaiting
  <2>3. ASSUME NEW s \in Slots, NEW w \in waiters'[s]
        PROVE  \/ w = t /\ s = m
               \/ w # t /\ w \in waiters[s] /\ waitMutex'[w] = waitMutex[w]
    BY <1>m, <2>1, <2>2 DEF MTypes, QInv, QTypes
  <2>4. \A s \in Slots : OwnerOut(s)'
    <3> SUFFICES ASSUME NEW r \in Slots, type[r] = "mutex", NEW s \in Slots,
                        NEW w \in waiters'[s],
                        s = r \/ (type[s] = "cond" /\ waitMutex'[w] = r)
                 PROVE  userData[r] # w
      BY <2>1 DEF OwnerOut
    <3>1. CASE w = t /\ s = m
      BY <2>1, <3>1
    <3>2. CASE w # t /\ w \in waiters[s] /\ waitMutex'[w] = waitMutex[w]
      BY <3>2 DEF LInv, OwnerOut
    <3> QED BY <2>3, <3>1, <3>2
  <2> QED BY <2>1, <2>4 DEF LInv, HeldAsRecorded
<1> QED BY <1>0, <1>1, <1>2, <1>3, <1>4, <1>5

\* cond_wait gives the mutex up to the first of its queue.
LEMMA CondWaitLocks ==
    ASSUME QInv, MInv, WInv, LInv, NEW t \in Callers, NEW c \in Slots,
           NEW m \in Slots, CondWait(t, c, m)
    PROVE  LInv'
<1>1. /\ c # m /\ type[m] = "mutex" /\ type[c] \in {"none", "cond"}
      /\ type' = [type EXCEPT ![c] = "cond"] /\ Running(t)
      /\ Owns(t, m) /\ value[m] = 1
  BY DEF CondWait, LiveOrStatic, Alloc, FirstFree, Free, Owns
<1>2. PICK n \in {NoThread} \cup waiters[m] :
         (n # NoThread <=> waiters[m] # {}) /\ PassOn(m, n) /\ CondPark(t, c, m, n)
  BY SomebodyPicked DEF CondWait, MInv
<1>3. wait[t].kind = "none" /\ \A s \in Slots : t \notin waiters[s]
  BY <1>1, RunningNotWaiting
<1>4. n # t
  BY <1>3 DEF NoThread, Callers, Main
<1>5. /\ waiters' = [waiters EXCEPT ![m] = @ \ {n}, ![c] = @ \cup {t}]
      /\ waitMutex' = [x \in Callers |-> IF x = t THEN m ELSE IF x = n THEN NoObject
                                         ELSE waitMutex[x]]
      /\ held' = [x \in Callers |-> [held[x] EXCEPT ![m] =
                     IF x = t THEN 0 ELSE IF x = n THEN 1 ELSE @]]
  BY <1>2, <1>3 DEF CondPark
<1>6. held' = [x \in Callers |-> [held[x] EXCEPT ![m] =
                     IF x = n THEN 1 ELSE IF x = t THEN 0 ELSE @]]
  BY <1>4, <1>5
<1>7. /\ waiters'[m] = waiters[m] \ {n} /\ waiters'[c] = waiters[c] \cup {t}
      /\ \A s \in Slots \ {m, c} : waiters'[s] = waiters[s]
      /\ type'[c] = "cond" /\ \A s \in Slots \ {c} : type'[s] = type[s]
      /\ waitMutex'[t] = m
      /\ \A x \in Callers \ {t} : waitMutex'[x] \in {waitMutex[x], NoObject}
  BY <1>1, <1>5 DEF QInv, QTypes
<1>8. type[c] = "none" => waiters[c] = {}
  BY DEF QInv, FreeQueuesEmpty
<1>9. ASSUME NEW s \in Slots, NEW w \in waiters'[s]
      PROVE  \/ /\ w \in waiters[s] /\ type'[s] = type[s]
                /\ waitMutex'[w] \in {waitMutex[w], NoObject}
             \/ w = t /\ type'[s] = "cond" /\ waitMutex'[t] = m
  <2>1. CASE w = t
    BY <1>3, <1>7, <2>1
  <2>2. CASE w # t
    <3>1. w \in waiters[s]
      BY <1>7, <2>2
    <3>2. w \in Callers /\ type'[s] = type[s]
      BY <1>1, <1>7, <1>8, <3>1 DEF QInv, QTypes
    <3> QED BY <1>7, <2>2, <3>1, <3>2
  <2> QED BY <2>1, <2>2
<1>10. Told(t, m, n) /\ SameMutexSlots /\ EntersAtMost(t, m)
  BY <1>1, <1>6, <1>7, <1>9 DEF Told, SameMutexSlots, EntersAtMost
<1>11. n \notin waiters'[m] /\ PassOn(m, n) /\ Owns(t, m) /\ value[m] = 1 /\ Running(t)
  BY <1>1, <1>2, <1>7
<1> QED BY <1>2, <1>10, <1>11, HandsOver

\* The order of a queue has no ties.
LEMMA FirstUnique ==
    ASSUME MTypes, NEW v \in Callers, NEW w \in Callers, Before(v, w), Before(w, v)
    PROVE  v = w
<1>1. \A x \in Callers : PriorityOf(x) \in Nat /\ x \in Nat
  BY PriorityNat
<1> QED BY <1>1 DEF Before

\* cond_signal: a mutex that is free goes to the one waiter that comes first; the
\* others enter a queue in which the owner does not stand.
LEMMA CondSignalLocks ==
    ASSUME QInv, MInv, WInv, LInv, NEW t \in Callers, NEW c \in Slots,
           CondSignal(t, c)
    PROVE  LInv'
<1> DEFINE given(s) == {w \in Granted(c) : waitMutex[w] = s}
           woken == Granted(c) \cup Orphans(c)
<1>m. MTypes /\ held \in [Callers -> [Slots -> Nat]]
  BY DEF MInv, LInv
<1>1. /\ type[c] \in {"none", "cond"} /\ type' = [type EXCEPT ![c] = "cond"]
      /\ waiters' = [s \in Slots |-> IF s = c THEN {}
                                     ELSE waiters[s] \cup Moved(c, s)]
      /\ userData' = [s \in Slots |-> IF given(s) # {}
            THEN CHOOSE w \in given(s) : TRUE ELSE userData[s]]
      /\ value' = [s \in Slots |-> IF given(s) # {} THEN 1 ELSE value[s]]
      /\ held' = [x \in Callers |-> [s \in Slots |->
            IF x \in given(s) THEN 1 ELSE held[x][s]]]
      /\ waitMutex' = [x \in Callers |-> IF x \in woken THEN NoObject
                                         ELSE waitMutex[x]]
  BY DEF CondSignal, LiveOrStatic, Alloc, FirstFree, Free, ClearWaitMutex
<1>2. ASSUME NEW s \in Slots, NEW w \in given(s)
      PROVE  /\ w \in waiters[c] /\ w \in Callers /\ waitMutex[w] = s
             /\ type[s] = "mutex" /\ ~active[s] /\ w \notin Moved(c, s)
             /\ \A v \in given(s) : v = w
  <2>1. ASSUME NEW v \in given(s)
        PROVE  /\ v \in waiters[c] /\ v \in Callers /\ waitMutex[v] = s
               /\ type[s] = "mutex" /\ ~active[s] /\ v \notin Moved(c, s)
               /\ \A u \in waiters[c] : waitMutex[u] = s => Before(v, u)
    BY <1>m DEF Granted, Moved, IsMutex, FirstFor, MTypes
  <2> HIDE DEF given
  <2>2. ASSUME NEW v \in given(s) PROVE v = w
    BY <1>m, <2>1, FirstUnique
  <2> QED BY <2>1, <2>2
<1>3. \A s \in Slots : \A w \in Moved(c, s) : w \in waiters[c] /\ waitMutex[w] = s
  BY DEF Moved
<1>4. \A w \in Callers : w \in waiters[c] => type[c] = "cond"
  BY <1>1 DEF QInv, FreeQueuesEmpty
<1> HIDE DEF woken, given
<1>5. held' \in [Callers -> [Slots -> Nat]]
  BY <1>m, <1>1
<1>6. /\ type'[c] = "cond" /\ \A s \in Slots \ {c} : type'[s] = type[s]
      /\ type[c] # "mutex"
  BY <1>m, <1>1 DEF MTypes
<1>7. ASSUME NEW s \in Slots PROVE HeldAsRecorded(s)' /\ OwnerOut(s)'
  <2>a. /\ userData'[s] = IF given(s) # {} THEN CHOOSE w \in given(s) : TRUE
                          ELSE userData[s]
        /\ value'[s] = IF given(s) # {} THEN 1 ELSE value[s]
        /\ \A x \in Callers : held'[x][s] = IF x \in given(s) THEN 1 ELSE held[x][s]
    BY <1>1
  <2>b. ASSUME type'[s] = "mutex", NEW r \in Slots, NEW w \in waiters'[r],
               r = s \/ (type'[r] = "cond" /\ waitMutex'[w] = s)
        PROVE  /\ w \in Callers /\ (w \in waiters[r] \/ (r = s /\ w \in Moved(c, s)))
               /\ r # c /\ userData[s] # w
    <3>1. s # NoObject /\ r # c /\ type[s] = "mutex" /\ type'[r] = type[r]
      BY <1>1, <1>6, <2>b DEF Slots, NoObject
    <3>2. w \in waiters[r] \/ w \in Moved(c, r)
      BY <1>1, <3>1
    <3>3. w \in Callers
      BY <1>m, <1>3, <3>2 DEF MTypes
    <3>4. CASE w \in waiters[r]
      <4>1. r = s \/ (type[r] = "cond" /\ waitMutex[w] = s)
        BY <1>1, <2>b, <3>1, <3>3
      <4> QED BY <3>1, <3>3, <3>4, <4>1 DEF LInv, OwnerOut
    <3>5. CASE w \in Moved(c, r)
      <4>1. w \in waiters[c] /\ waitMutex[w] = r /\ type[c] = "cond" /\ type[r] = "mutex"
        BY <1>3, <1>4, <3>3, <3>5 DEF Moved, Orphans, IsMutex
      <4>2. r = s
        BY <2>b, <3>1, <4>1
      <4> QED BY <3>1, <3>3, <3>5, <4>1, <4>2 DEF LInv, OwnerOut
    <3> QED BY <3>2, <3>4, <3>5
  <2>1. CASE given(s) = {}
    <3>1. HeldAsRecorded(s)'
      BY <1>6, <2>1, <2>a DEF LInv, HeldAsRecorded
    <3>2. OwnerOut(s)'
      BY <2>1, <2>a, <2>b DEF OwnerOut
    <3> QED BY <3>1, <3>2
  <2>2. CASE given(s) # {}
    <3>1. PICK w \in given(s) : w = CHOOSE v \in given(s) : TRUE
      BY <2>2
    <3>2. /\ w \in waiters[c] /\ w \in Callers /\ type[s] = "mutex" /\ ~active[s]
          /\ w \notin Moved(c, s) /\ \A v \in given(s) : v = w
      BY <1>2
    <3>3. \A x \in Callers : held[x][s] = 0
      BY <3>2, FreeNotHeld
    <3>4. s # c /\ type'[s] = "mutex"
      BY <1>6, <3>2
    <3>5. userData'[s] = w /\ value'[s] = 1
      BY <2>2, <2>a, <3>1
    <3>6. HeldAsRecorded(s)'
      BY <2>a, <3>1, <3>2, <3>3, <3>4, <3>5 DEF HeldAsRecorded
    <3>7. OwnerOut(s)'
      <4>1. \A r \in Slots : r # c => w \notin waiters[r]
        BY <3>2 DEF QInv, QueueSound
      <4> QED BY <2>b, <3>2, <3>5, <4>1 DEF OwnerOut
    <3> QED BY <3>6, <3>7
  <2> QED BY <2>1, <2>2
<1> QED BY <1>5, <1>7 DEF LInv

\* A deleted slot is held by nobody; the others are left alone.
LEMMA DeleteLocks ==
    ASSUME MInv, LInv, NEW s \in Slots, Delete(s), waitMutex' = waitMutex
    PROVE  LInv'
<1>1. /\ type'[s] = "none" /\ waiters'[s] = {}
      /\ held' \in [Callers -> [Slots -> Nat]]
      /\ \A x \in Callers : held'[x][s] = 0
      /\ \A r \in Slots \ {s} :
            /\ type'[r] = type[r] /\ waiters'[r] = waiters[r]
            /\ userData'[r] = userData[r] /\ value'[r] = value[r]
            /\ \A x \in Callers : held'[x][r] = held[x][r]
  BY DEF Delete, MInv, MTypes, LInv
<1>2. ASSUME NEW m \in Slots PROVE HeldAsRecorded(m)'
  BY <1>1 DEF LInv, HeldAsRecorded
<1>3. ASSUME NEW m \in Slots PROVE OwnerOut(m)'
  BY <1>1 DEF LInv, OwnerOut
<1> QED BY <1>1, <1>2, <1>3 DEF LInv

\* Semaphores and barriers hand over no mutex.
LEMMA CountLocks ==
    ASSUME QInv, MInv, LInv, NEW t \in Callers,
           SemStep(t) \/ KSemaStep(t) \/ BarrierStep(t)
    PROVE  LInv'
<1>m. MTypes
  BY DEF MInv
<1>1. ASSUME NEW s \in Slots, type[s] \in {"sem", "ksema", "barrier"},
             UNCHANGED <<type, userData, waitMutex, held>>,
             \A r \in Slots \ {s} : value'[r] = value[r] /\ waiters'[r] = waiters[r]
      PROVE  LInv'
  <2>1. \A r \in Slots : type[r] = "mutex" =>
           userData'[r] = userData[r] /\ value'[r] = value[r]
    BY <1>1
  <2>2. ASSUME NEW r \in Slots, NEW w \in waiters'[r], type'[r] \in {"mutex", "cond"}
        PROVE  /\ w \in waiters[r] /\ type'[r] = type[r]
               /\ waitMutex'[w] \in {waitMutex[w], NoObject}
    BY <1>1, <2>2
  <2> QED BY <1>1, <2>1, <2>2, LocksKept
<1>2. ASSUME NEW s \in Slots,
             SemTake(t, s) \/ SemWait(t, s) \/ SemPostWakes(t, s) \/ SemPostCounts(t, s)
      PROVE  LInv'
  <2>1. CASE SemTake(t, s)
    BY <1>m, <1>1, <2>1 DEF SemTake, waits, MTypes
  <2>2. CASE SemWait(t, s)
    BY <1>m, <1>1, <2>2 DEF SemWait, MTypes
  <2>3. CASE SemPostWakes(t, s)
    BY <1>m, <1>1, <2>3 DEF SemPostWakes, MTypes
  <2>4. CASE SemPostCounts(t, s)
    BY <1>m, <1>1, <2>4 DEF SemPostCounts, waits, MTypes
  <2> QED BY <1>2, <2>1, <2>2, <2>3, <2>4
<1>3. ASSUME NEW s \in Slots, NEW n \in 0 .. MaxSem,
             KSemaTake(t, s, n) \/ KSemaSignal(t, s, n) \/ KSemaCancel(t, s, n)
      PROVE  LInv'
  <2>1. CASE KSemaTake(t, s, n)
    BY <1>m, <1>1, <2>1 DEF KSemaTake, waits, MTypes
  <2>2. CASE KSemaSignal(t, s, n)
    <3>1. PICK S \in SUBSET waiters[s], rest \in 0 .. value[s] + n :
             /\ value' = [value EXCEPT ![s] = rest]
             /\ waiters' = [waiters EXCEPT ![s] = @ \ S]
      BY <2>2 DEF KSemaSignal
    <3> QED BY <1>m, <1>1, <2>2, <3>1 DEF KSemaSignal, MTypes
  <2>3. CASE KSemaCancel(t, s, n)
    BY <1>m, <1>1, <2>3 DEF KSemaCancel, MTypes
  <2> QED BY <1>3, <2>1, <2>2, <2>3
<1>4. ASSUME NEW s \in Slots, NEW n \in 0 .. MaxSem, NEW timed \in BOOLEAN,
             KSemaWait(t, s, n, timed)
      PROVE  LInv'
  BY <1>m, <1>1, <1>4 DEF KSemaWait, MTypes
<1>5. ASSUME NEW s \in Slots, BarrierWait(t, s) \/ BarrierOpen(t, s) PROVE LInv'
  <2>1. CASE BarrierWait(t, s)
    BY <1>m, <1>1, <2>1 DEF BarrierWait, MTypes
  <2>2. CASE BarrierOpen(t, s)
    BY <1>m, <1>1, <2>2 DEF BarrierOpen, MTypes
  <2> QED BY <1>5, <2>1, <2>2
<1>6. ASSUME NEW s \in Slots, BarrierDestroy(t, s) PROVE LInv'
  BY <1>6, DeleteLocks DEF BarrierDestroy, waits
<1>7. CASE SemStep(t)
  BY <1>2, <1>7 DEF SemStep
<1>8. CASE KSemaStep(t)
  BY <1>3, <1>4, <1>8 DEF KSemaStep
<1>9. CASE BarrierStep(t)
  BY <1>5, <1>6, <1>9 DEF BarrierStep
<1> QED BY <1>7, <1>8, <1>9

\* An object is created in a free slot, which nobody holds and in which nobody waits.
LEMMA ObjectLocks ==
    ASSUME QInv, MInv, LInv, NEW t \in Callers, ObjectStep(t)
    PROVE  LInv'
<1>m. MTypes /\ held \in [Callers -> [Slots -> Nat]]
  BY DEF MInv, LInv
<1>1. ASSUME NEW s \in Slots, Destroy(t, s) PROVE LInv'
  BY <1>1, DeleteLocks DEF Destroy, waits
<1>2. ASSUME NEW s \in Slots, NEW ty, type[s] = "none", waitMutex' = waitMutex,
             type' = [type EXCEPT ![s] = ty], UNCHANGED <<waiters, held>>,
             ty = "mutex" => UNCHANGED <<userData, value>>,
             \A r \in Slots \ {s} : userData'[r] = userData[r] /\ value'[r] = value[r]
      PROVE  LInv'
  <2>1. /\ type'[s] = ty /\ waiters'[s] = {} /\ userData[s] = 0 /\ value[s] = 0
        /\ \A r \in Slots \ {s} : type'[r] = type[r]
    BY <1>m, <1>2 DEF QInv, FreeQueuesEmpty, MInv, SlotSound, MTypes
  <2>2. \A x \in Callers : held[x][s] = 0
    BY <1>2 DEF LInv, HeldAsRecorded
  <2>3. ASSUME NEW m \in Slots PROVE HeldAsRecorded(m)'
    <3>1. CASE m = s
      <4>1. ty = "mutex" => userData'[s] = 0 /\ value'[s] = 0
        BY <1>2, <2>1
      <4> QED BY <1>2, <2>1, <2>2, <3>1, <4>1 DEF HeldAsRecorded
    <3>2. CASE m # s
      BY <1>2, <2>1, <3>2 DEF LInv, HeldAsRecorded
    <3> QED BY <3>1, <3>2
  <2>4. ASSUME NEW m \in Slots PROVE OwnerOut(m)'
    <3> SUFFICES ASSUME type'[m] = "mutex", NEW r \in Slots, NEW w \in waiters'[r],
                        r = m \/ (type'[r] = "cond" /\ waitMutex'[w] = m)
                 PROVE  userData'[m] # w
      BY DEF OwnerOut
    <3>1. r # s /\ w \in waiters[r] /\ type'[r] = type[r]
      BY <1>2, <2>1
    <3>2. CASE m = s
      <4>1. w # 0
        BY <1>m, <3>1 DEF MTypes, Callers
      <4> QED BY <1>2, <2>1, <3>2, <4>1
    <3>3. CASE m # s
      BY <1>2, <2>1, <3>1, <3>3 DEF LInv, OwnerOut
    <3> QED BY <3>2, <3>3
  <2> QED BY <1>m, <1>2, <2>3, <2>4 DEF LInv
<1>3. ASSUME NEW s \in Slots, NEW ty \in {"mutex", "cond"}, Create(t, s, ty)
      PROVE  LInv'
  BY <1>2, <1>3 DEF Create, Alloc, FirstFree, Free, waits
<1>4. ASSUME NEW s \in Slots, NEW ty \in {"sem", "ksema", "barrier"},
             NEW n \in 0 .. MaxSem, NEW max \in 0 .. MaxSem,
             CreateCounted(t, s, ty, n, max)
      PROVE  LInv'
  <2>1. /\ type[s] = "none" /\ waitMutex' = waitMutex
        /\ type' = [type EXCEPT ![s] = ty] /\ UNCHANGED <<waiters, held>>
        /\ ty # "mutex"
    BY <1>4 DEF CreateCounted, Alloc, FirstFree, Free, waits
  <2>2. \A r \in Slots \ {s} : userData'[r] = userData[r] /\ value'[r] = value[r]
    BY <1>m, <1>4 DEF CreateCounted, MTypes
  <2> QED BY <1>2, <2>1, <2>2
<1> QED BY <1>1, <1>3, <1>4 DEF ObjectStep

\* A thread that exits holds no mutex, if it is not permitted to.
LEMMA ThreadLocks ==
    ASSUME QInv, MInv, WInv, LInv, NEW t \in Callers, ThreadStep(t),
           LockBreakers \cap Permitted = {}
    PROVE  LInv'
<1>m. MTypes /\ held \in [Callers -> [Slots -> Nat]]
  BY DEF MInv, LInv
<1>1. ASSUME NEW s \in Slots, type[s] \in {"none", "thread"},
             type'[s] \in {"none", "thread"}, UNCHANGED <<waitMutex, held>>,
             \A r \in Slots \ {s} :
                /\ type'[r] = type[r] /\ userData'[r] = userData[r]
                /\ value'[r] = value[r] /\ waiters'[r] = waiters[r]
      PROVE  LInv'
  <2>1. \A r \in Slots : type'[r] = "mutex" <=> type[r] = "mutex"
    BY <1>1
  <2>2. \A r \in Slots : type[r] = "mutex" =>
           userData'[r] = userData[r] /\ value'[r] = value[r]
    BY <1>1
  <2>3. ASSUME NEW r \in Slots, NEW w \in waiters'[r], type'[r] \in {"mutex", "cond"}
        PROVE  /\ w \in waiters[r] /\ type'[r] = type[r]
               /\ waitMutex'[w] \in {waitMutex[w], NoObject}
    BY <1>1, <2>3
  <2> QED BY <1>1, <2>1, <2>2, <2>3, LocksKept
<1>2. CASE Exit(t)
  <2>1. t \in Slots /\ type[t] = "thread" /\ UNCHANGED <<type, userData, value, waitMutex>>
    BY <1>2, SlotsAssumption DEF Exit, Running, Callers, Slots, Main
  <2>2. \A m \in Slots : held[t][m] = 0
    <3>1. \A m \in Slots : ~(held[t][m] > 0) /\ held[t][m] \in Nat
      BY <1>m, <1>2 DEF Exit, LockBreakers
    <3> QED BY <3>1
  <2>3. held' = held
    <3>1. held[t] = [m \in Slots |-> 0]
      BY <1>m, <2>2
    <3> QED BY <1>m, <1>2, <3>1 DEF Exit
  <2>4. \A r \in Slots \ {t} : waiters'[r] = waiters[r]
    BY <1>m, <1>2 DEF Exit, MTypes
  <2> QED BY <1>1, <2>1, <2>3, <2>4
<1>3. ASSUME NEW s \in Slots, NEW p, NEW runs, NewThread(s, p, runs),
             UNCHANGED <<waits, held>>
      PROVE  LInv'
  BY <1>m, <1>1, <1>3 DEF NewThread, Alloc, FirstFree, Free, waits, MTypes
<1>4. ASSUME NEW s \in Slots, NpThreadCreate(t, s) PROVE LInv'
  BY <1>3, <1>4 DEF NpThreadCreate
<1>5. ASSUME NEW s \in Slots, Detach(t, s) PROVE LInv'
  BY <1>1, <1>5 DEF Detach, waits
<1>6. ASSUME NEW s \in Slots, JoinWait(t, s) PROVE LInv'
  BY <1>m, <1>1, <1>6 DEF JoinWait, MTypes
<1>7. ASSUME NEW s \in Slots, JoinFinished(t, s) PROVE LInv'
  BY <1>7, DeleteLocks DEF JoinFinished, waits
<1>8. ASSUME NEW s \in Slots, ProcessAdd(t, s) PROVE LInv'
  BY <1>3, <1>8 DEF ProcessAdd
<1>9. ASSUME NEW s \in Slots, NEW p \in Priorities,
             ThreadCreate(t, s, p) \/ SetPriority(t, s, p)
      PROVE  LInv'
  <2>1. CASE ThreadCreate(t, s, p)
    BY <1>3, <2>1 DEF ThreadCreate
  <2>2. CASE SetPriority(t, s, p)
    BY <1>1, <2>2 DEF SetPriority, waits
  <2> QED BY <1>9, <2>1, <2>2
<1>10. CASE Sleep(t)
  BY <1>10, LocksKept DEF Sleep, objects
<1>11. ~ProcessKill(t)
  BY DEF ProcessKill, LockBreakers
<1> QED BY <1>2, <1>4, <1>5, <1>6, <1>7, <1>8, <1>9, <1>10, <1>11 DEF ThreadStep

\* A wait that times out leaves one queue.
LEMMA TimeoutLocks == ASSUME QInv, LInv, NEW t \in Callers, Timeout(t) PROVE LInv'
<1>1. UNCHANGED <<type, userData, value, held>>
  BY DEF Timeout
<1>2. /\ \A s \in Slots : waiters'[s] \subseteq waiters[s]
      /\ \A w \in Callers : waitMutex'[w] \in {waitMutex[w], NoObject}
  BY DEF Timeout, LeaveQueue, ClearWaitMutex
<1>3. \A s \in Slots : \A w \in waiters'[s] :
         w \in waiters[s] /\ waitMutex'[w] \in {waitMutex[w], NoObject}
  BY <1>2 DEF QInv, QTypes
<1> QED BY <1>1, <1>3, LocksKept

\* The table agrees with what the threads were told: where no thread ends or is
\* killed with a mutex locked, none waits with one locked twice and none uses the
\* trylock of NpCommon, the recorded owner is the one thread that was told it has
\* the mutex, as often as recorded, and it does not stand in the mutex's own queue.
THEOREM LockViewHolds ==
    /\ ~({"fatal_fault", "reset"} \subseteq Permitted)
    /\ LockBreakers \cap Permitted = {}
    => (Spec => []LockView)
<1> SUFFICES ASSUME ~({"fatal_fault", "reset"} \subseteq Permitted),
                    LockBreakers \cap Permitted = {}
             PROVE  Spec => []LockView
  OBVIOUS
<1>0. "kill" \notin Permitted
  BY DEF LockBreakers
<1>1. QInv /\ MInv /\ WInv /\ LInv /\ [Next]_vars => LInv'
  <2> SUFFICES ASSUME QInv, MInv, WInv, LInv, [Next]_vars PROVE LInv'
    OBVIOUS
  <2>1. CASE UNCHANGED vars
    BY <2>1 DEF vars, objects, waits, LInv, HeldAsRecorded, OwnerOut
  <2>2. CASE Reset
    BY <2>2 DEF Reset, LInv, HeldAsRecorded, OwnerOut, NoTypes, NothingHeld
  <2>3. ASSUME NEW t \in Callers, MutexStep(t) PROVE LInv'
    BY <2>3, MutexLocks
  <2>4. ASSUME NEW t \in Callers, CondStep(t) PROVE LInv'
    <3>1. \A c, m \in Slots : ~CondWaitNested(t, c, m)
      BY DEF CondWaitNested, LockBreakers
    <3> QED BY <2>4, <3>1, CondWaitLocks, CondSignalLocks DEF CondStep
  <2>5. ASSUME NEW t \in Callers, SemStep(t) \/ KSemaStep(t) \/ BarrierStep(t)
        PROVE  LInv'
    BY <2>5, CountLocks
  <2>6. ASSUME NEW t \in Callers, ObjectStep(t) \/ ThreadStep(t) PROVE LInv'
    BY <2>6, ObjectLocks, ThreadLocks
  <2>7. ASSUME NEW t \in Callers, FatalFault(t) PROVE LInv'
    BY <2>7, LocksKept DEF FatalFault, objects
  <2>8. ASSUME NEW t \in Callers, Timeout(t) PROVE LInv'
    BY <2>8, TimeoutLocks
  <2> QED BY <2>1, <2>2, <2>3, <2>4, <2>5, <2>6, <2>7, <2>8 DEF Next
<1>2. LInv => LockView
  BY DEF LInv, HeldAsRecorded, OwnerOut, LockView
<1> QED BY <1>0, AlwaysQInv, AlwaysMInv, AlwaysWInv, InitLInv, <1>1, <1>2, PTL DEF Spec

-----------------------------------------------------------------------------
(***************************************************************************)
(* HandOffInOrder.  Only the last unlock and cond_wait give a mutex that is *)
(* locked to another thread, and both take the first of its queue: all who  *)
(* stand in a queue wait, so none of them is passed over.                   *)
(***************************************************************************)
\* What HandOffInOrder says of a step and a mutex.
Handed(m) ==
    (type[m] = "mutex" /\ active[m] /\ type'[m] = "mutex" /\ active'[m]
       /\ userData'[m] # userData[m]) =>
    /\ userData'[m] \in waiters[m]
    /\ \A v \in waiters[m] : PriorityOf(v) >= PriorityOf(userData'[m])

\* A mutex that is passed on goes to the first of its queue.
LEMMA PassedInOrder ==
    ASSUME QInv, MInv, NEW m \in Slots, NEW n \in Successors(m), PassOn(m, n)
    PROVE  \A r \in Slots : Handed(r)
<1>m. MTypes
  BY DEF MInv
<1>1. \A r \in Slots \ {m} : userData'[r] = userData[r]
  BY <1>m DEF PassOn, MTypes
<1>2. n # NoThread <=> waiters[m] # {}
  BY <1>m, SomebodyPicked
<1>4. userData'[m] = n /\ (active'[m] <=> n # NoThread)
  BY <1>m, <1>2, SomebodyPicked DEF PassOn, MTypes
<1>3. ASSUME n # NoThread
      PROVE  n \in waiters[m] /\ \A v \in waiters[m] : PriorityOf(v) >= PriorityOf(n)
  <2>1. Picked(n, waiters[m])
    BY <1>m, <1>3, SomebodyPicked
  <2>2. ASSUME NEW v \in waiters[m] PROVE PriorityOf(v) >= PriorityOf(n)
    <3>1. v \in Callers /\ n \in Callers
      BY <1>m, <2>1 DEF MTypes, Picked
    <3>2. wait[v].kind # "none"
      BY <3>1, NotQueued
    <3>3. Before(n, v)
      BY <2>1, <3>2 DEF Picked
    <3>4. PriorityOf(v) \in Nat /\ PriorityOf(n) \in Nat
      BY <1>m, <3>1, PriorityNat
    <3> QED BY <3>3, <3>4 DEF Before
  <2> QED BY <2>1, <2>2 DEF Picked
<1> QED BY <1>1, <1>3, <1>4 DEF Handed

\* A step that changes the owner of a mutex only where nobody owned it.
LEMMA NoneHanded ==
    ASSUME \A m \in Slots : type[m] = "mutex" /\ active[m] /\ type'[m] = "mutex" =>
              userData'[m] = userData[m]
    PROVE  \A m \in Slots : Handed(m)
  BY DEF Handed

\* No other call changes the owner of a mutex that is locked.
LEMMA StepsHanded ==
    ASSUME QInv, MInv, NEW t \in Callers,
           \/ MutexStep(t) \/ CondStep(t) \/ SemStep(t) \/ KSemaStep(t)
           \/ BarrierStep(t) \/ ObjectStep(t) \/ ThreadStep(t)
           \/ FatalFault(t) \/ Timeout(t)
    PROVE  \A m \in Slots : Handed(m)
<1>m. MTypes
  BY DEF MInv
<1>1. ASSUME NEW s \in Slots, NEW v, userData' = [userData EXCEPT ![s] = v],
             \/ type[s] # "mutex" \/ ~active[s] \/ userData[s] = v
             \/ type'[s] # "mutex"
      PROVE  \A m \in Slots : Handed(m)
  <2>1. \A m \in Slots : userData'[m] = IF m = s THEN v ELSE userData[m]
    BY <1>m, <1>1 DEF MTypes
  <2> QED BY <1>1, <2>1, NoneHanded
<1>2. CASE MutexStep(t)
  <2>0. PICK m \in Slots :
           \/ Lock(t, m) \/ NpTrylock(t, m) \/ UnlockNested(t, m)
           \/ UnlockLast(t, m)
           \/ \E timed \in BOOLEAN : LockWait(t, m, timed)
    BY <1>2 DEF MutexStep
  <2>1. CASE Lock(t, m)
    BY <1>1, <2>1 DEF Lock, LockTaken
  <2>2. CASE NpTrylock(t, m)
    BY <1>1, <2>2 DEF NpTrylock, LockTaken
  <2>3. CASE UnlockNested(t, m)
    BY <2>3, NoneHanded DEF UnlockNested
  <2>4. CASE UnlockLast(t, m)
    BY <2>4, PassedInOrder DEF UnlockLast
  <2>5. CASE \E timed \in BOOLEAN : LockWait(t, m, timed)
    BY <2>5, NoneHanded DEF LockWait
  <2> QED BY <2>0, <2>1, <2>2, <2>3, <2>4, <2>5
<1>3. ASSUME NEW c \in Slots, NEW m \in Slots, CondWait(t, c, m) \/ CondWaitNested(t, c, m)
      PROVE  \A r \in Slots : Handed(r)
  <2>1. CASE CondWait(t, c, m)
    BY <2>1, PassedInOrder DEF CondWait
  <2>2. CASE CondWaitNested(t, c, m)
    BY <2>2, NoneHanded DEF CondWaitNested
  <2> QED BY <1>3, <2>1, <2>2
<1>4. ASSUME NEW c \in Slots, CondSignal(t, c) PROVE \A m \in Slots : Handed(m)
  <2>1. \A m \in Slots : active[m] => {w \in Granted(c) : waitMutex[w] = m} = {}
    BY DEF Granted
  <2>2. ASSUME NEW m \in Slots, active[m] PROVE userData'[m] = userData[m]
    <3>1. userData' = [s \in Slots |->
             IF {w \in Granted(c) : waitMutex[w] = s} # {}
             THEN CHOOSE w \in {w \in Granted(c) : waitMutex[w] = s} : TRUE
             ELSE userData[s]]
      BY <1>4 DEF CondSignal
    <3> QED BY <2>1, <2>2, <3>1
  <2> QED BY <2>2, NoneHanded
<1>5. CASE CondStep(t)
  BY <1>3, <1>4, <1>5 DEF CondStep
<1>6. CASE SemStep(t)
  BY <1>6, NoneHanded DEF SemStep, SemTake, SemWait, SemPostWakes, SemPostCounts
<1>7. CASE KSemaStep(t)
  BY <1>7, NoneHanded DEF KSemaStep, KSemaTake, KSemaWait, KSemaSignal, KSemaCancel
<1>8. CASE BarrierStep(t)
  BY <1>1, <1>8, NoneHanded DEF BarrierStep, BarrierWait, BarrierOpen, BarrierDestroy,
     Delete
<1>9. CASE ObjectStep(t)
  <2>1. ASSUME NEW s \in Slots, Destroy(t, s) PROVE \A m \in Slots : Handed(m)
    <3>1. type'[s] # "mutex" /\ userData' = [userData EXCEPT ![s] = 0]
      BY <1>m, <2>1 DEF Destroy, Delete, MTypes
    <3> QED BY <1>1, <3>1
  <2>2. ASSUME NEW s \in Slots, NEW ty \in {"mutex", "cond"}, Create(t, s, ty)
        PROVE  \A m \in Slots : Handed(m)
    BY <2>2, NoneHanded DEF Create
  <2>3. ASSUME NEW s \in Slots, NEW ty \in {"sem", "ksema", "barrier"},
               NEW n \in 0 .. MaxSem, NEW max \in 0 .. MaxSem,
               CreateCounted(t, s, ty, n, max)
        PROVE  \A m \in Slots : Handed(m)
    BY <1>1, <2>3 DEF CreateCounted, Alloc, FirstFree, Free
  <2> QED BY <1>9, <2>1, <2>2, <2>3 DEF ObjectStep
<1>10. ASSUME NEW s \in Slots, NEW p, NEW runs, NewThread(s, p, runs)
       PROVE  \A m \in Slots : Handed(m)
  BY <1>1, <1>10 DEF NewThread, Alloc, FirstFree, Free
<1>11. CASE ThreadStep(t)
  <2>1. CASE Exit(t)
    BY <2>1, NoneHanded DEF Exit
  <2>2. CASE ProcessKill(t)
    <3>1. PICK s \in Slots : s = process
      BY <1>m, <2>2 DEF ProcessKill, Slots, MTypes, NoThread
    <3>2. type[s] = "thread" /\ userData' = [userData EXCEPT ![s] = 0]
      BY <2>2, <3>1 DEF ProcessKill
    <3> QED BY <1>1, <3>2
  <2>3. CASE Sleep(t)
    BY <2>3, NoneHanded DEF Sleep, objects
  <2>4. ASSUME NEW s \in Slots,
               \/ NpThreadCreate(t, s) \/ ProcessAdd(t, s)
               \/ \E p \in Priorities : ThreadCreate(t, s, p)
        PROVE  \A m \in Slots : Handed(m)
    BY <1>10, <2>4 DEF NpThreadCreate, ProcessAdd, ThreadCreate
  <2>5. ASSUME NEW s \in Slots,
               \/ Detach(t, s) \/ JoinWait(t, s)
               \/ \E p \in Priorities : SetPriority(t, s, p)
        PROVE  \A m \in Slots : Handed(m)
    BY <2>5, NoneHanded DEF Detach, JoinWait, SetPriority
  <2>6. ASSUME NEW s \in Slots, JoinFinished(t, s) PROVE \A m \in Slots : Handed(m)
    BY <1>1, <2>6 DEF JoinFinished, Delete
  <2> QED BY <1>11, <2>1, <2>2, <2>3, <2>4, <2>5, <2>6 DEF ThreadStep
<1>12. CASE FatalFault(t)
  BY <1>12, NoneHanded DEF FatalFault, objects
<1>13. CASE Timeout(t)
  BY <1>13, NoneHanded DEF Timeout
<1> QED BY <1>2, <1>5, <1>6, <1>7, <1>8, <1>9, <1>11, <1>12, <1>13

\* Ownership of a locked mutex passes only to a waiter of its own queue, and to none
\* while another waiter of the queue has a better priority.
THEOREM HandOffInOrderHolds ==
    ~({"fatal_fault", "reset"} \subseteq Permitted) => (Spec => HandOffInOrder)
<1>1. QInv /\ MInv /\ [Next]_vars =>
         [\A m \in Slots :
            (type[m] = "mutex" /\ active[m] /\ type'[m] = "mutex" /\ active'[m]
               /\ userData'[m] # userData[m]) =>
            /\ userData'[m] \in waiters[m]
            /\ \A v \in waiters[m] :
                  PriorityOf(v) >= PriorityOf(userData'[m])]_vars
  <2> SUFFICES ASSUME QInv, MInv, Next PROVE \A m \in Slots : Handed(m)
    BY DEF Handed
  <2>1. CASE Reset
    BY <2>1, NoneHanded DEF Reset, NoTypes
  <2> QED BY <2>1, StepsHanded DEF Next
<1> QED BY AlwaysQInv, AlwaysMInv, <1>1, PTL DEF Spec, HandOffInOrder
=============================================================================

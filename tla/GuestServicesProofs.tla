-------------------------- MODULE GuestServicesProofs --------------------------
(***************************************************************************)
(* Proofs about GuestScheduler: a thread runs on one vCPU at a time; as     *)
(* long as no process is killed, waiting threads are parked, no live thread *)
(* is lost, and every thread that may be picked resumes where it stopped;   *)
(* and, without resets, a vCPU halts only when it has nothing to run.  They  *)
(* hold for any number of threads and vCPUs, any priorities and affinities. *)
(*                                                                          *)
(* And about GuestMemory, for a guest that neither unmaps memory it sees    *)
(* twice, nor aliases an area that has a page table, nor maps across the    *)
(* beginning of the dynamic range: memory of a free slot is mapped nowhere, *)
(* page tables are accounted, and mapping direct memory disturbs no page it *)
(* has not reached and leaves nothing behind when it fails.  Any sizes of   *)
(* the ranges and any number of page tables.                                *)
(*                                                                          *)
(* And about GuestAudio: the frames written and captured are played and      *)
(* read in order and once.  Any sizes of the queues, the mixer and the       *)
(* buffers, any formats and number of ports.                                 *)
(***************************************************************************)
EXTENDS GuestScheduler, GuestMemory, GuestAudio, FiniteSetTheorems, SequenceTheorems,
        WellFoundedInduction, TLAPS

----------------------------------------------------------------------------
(* Threads on vCPUs                                                         *)

\* The inductive invariant, in parts.  Without a kill a pending switch never
\* outlives the gateway access that decided it.
Types ==
    /\ handle  \in [Workers -> Threads \cup {None}]
    /\ pending \in [Workers -> {None}]
    /\ halted  \in [Workers -> BOOLEAN]
    /\ inStub  \in [Workers -> BOOLEAN]
    /\ code = handle
    /\ valid \subseteq Threads /\ runnable \subseteq valid
    /\ saved \subseteq Threads
    /\ waitCpu \in [Threads -> Workers \cup {0}]

OneVcpuEach ==
    \A c, d \in Workers : handle[c] # None /\ c # d => handle[c] # handle[d]

HandlesValid == \A c \in Workers : handle[c] # None => handle[c] \in valid

WaitersLive == waiting \subseteq valid /\ waiting \cap runnable = {}

\* Wake finds a parked thread by wait_cpu.
ParkedWhereItWaited ==
    \A c \in Workers : handle[c] \in waiting => waitCpu[handle[c]] = c

Unplaced == valid \ Placed
UnplacedSaved == Unplaced \subseteq saved

SInv == /\ Types /\ OneVcpuEach /\ HandlesValid /\ WaitersLive
        /\ ParkedWhereItWaited /\ ParkedWaits /\ NotLost /\ UnplacedSaved

\* With no switch pending, a thread is placed exactly when a vCPU has it.
LEMMA PlacedByHandle ==
    ASSUME Types, NEW t \in Threads
    PROVE  t \in Placed <=> \E c \in Workers : handle[c] = t
BY NoneAssumption DEF Types, Placed

\* The same after a step.
LEMMA PlacedByHandleNext ==
    ASSUME Types', NEW t \in Threads
    PROVE  t \in Placed' <=> \E c \in Workers : handle'[c] = t
BY NoneAssumption DEF Types, Placed

\* What pick may choose is a live thread no vCPU has, saved and not waiting.
LEMMA PickedThread ==
    ASSUME SInv, NEW c \in Workers, NEW t \in Picks(c)
    PROVE  /\ t \in Threads /\ t # None /\ t \in valid /\ t \in runnable
           /\ t \notin waiting /\ t \in saved
           /\ \A d \in Workers : handle[d] # t
<1>1. t \in runnable /\ t \in valid /\ t \notin Placed
  BY DEF Picks, Candidates
<1>2. t \in Threads
  BY <1>1 DEF SInv, Types
<1>3. \A d \in Workers : handle[d] # t
  BY <1>1, <1>2, PlacedByHandle DEF SInv
<1> QED
  BY <1>1, <1>2, <1>3, NoneAssumption DEF SInv, WaitersLive, UnplacedSaved, Unplaced

\* The invariant contains that picks are saved contexts.
THEOREM InvImplies == SInv => ResumePoint
  BY DEF SInv, UnplacedSaved, Unplaced, ResumePoint, Candidates

\* The machine as realized, with no guest thread, satisfies the invariant.
THEOREM InvInit == Init => SInv
<1> SUFFICES ASSUME Init PROVE SInv
  OBVIOUS
<1>1. Types
  BY DEF Init, Types
<1>2. OneVcpuEach /\ HandlesValid /\ WaitersLive
  BY DEF Init, OneVcpuEach, HandlesValid, WaitersLive
<1>3. ParkedWhereItWaited /\ ParkedWaits /\ NotLost /\ UnplacedSaved
  BY DEF Init, ParkedWhereItWaited, ParkedWaits, NotLost, UnplacedSaved, Unplaced
<1> QED BY <1>1, <1>2, <1>3 DEF SInv

\* A vCPU turns to the picked thread: which threads are placed then.
LEMMA PlacedAfterSwitch ==
    ASSUME SInv, Types', NEW c \in Workers, NEW t \in Picks(c),
           handle' = [handle EXCEPT ![c] = t]
    PROVE  /\ OneVcpuEach'
           /\ \A u \in Threads : u \in Placed' <=>
                 (u = t \/ (u \in Placed /\ u # handle[c]))
<1>1. /\ t \in Threads /\ t # None /\ \A d \in Workers : handle[d] # t
      /\ \A d \in Workers : handle'[d] = IF d = c THEN t ELSE handle[d]
  BY PickedThread DEF SInv, Types
<1>2. OneVcpuEach'
  BY <1>1 DEF SInv, OneVcpuEach
<1>3. ASSUME NEW u \in Threads
      PROVE u \in Placed' <=> (u = t \/ (u \in Placed /\ u # handle[c]))
  <2>1. u \in Placed <=> \E d \in Workers : handle[d] = u
    BY PlacedByHandle DEF SInv
  <2>2. u \in Placed' <=> \E d \in Workers : handle'[d] = u
    BY PlacedByHandleNext
  <2>3. \A d \in Workers : d # c /\ handle[d] = u => handle[d] # handle[c]
    BY NoneAssumption DEF SInv, OneVcpuEach
  <2> QED BY <1>1, <2>1, <2>2, <2>3
<1> QED BY <1>2, <1>3

----------------------------------------------------------------------------
\* One lemma per action.

\* A call that does not switch by itself finds no switch pending.
LEMMA PlainCallStep ==
    ASSUME SInv, NEW c \in Workers, PlainCall(c)
    PROVE  SInv'
<1>1. pending[c] = None /\ None \notin valid /\ None \notin runnable
  BY NoneAssumption DEF SInv, Types
<1>2. ReturnToStub(c) /\ runnable' = runnable /\ valid' = valid
      /\ UNCHANGED <<waits, signal, attrs>>
  BY <1>1 DEF PlainCall
<1>3. None \notin Threads /\ saved' \subseteq saved /\ saved \ {None} \subseteq saved'
  BY <1>1, NoneAssumption DEF PlainCall
<1>4. Types'
  BY <1>2, <1>3 DEF SInv, Types, ReturnToStub, waits
<1>5. OneVcpuEach' /\ HandlesValid' /\ WaitersLive' /\ ParkedWhereItWaited'
      /\ ParkedWaits'
  BY <1>2 DEF SInv, OneVcpuEach, HandlesValid, WaitersLive,
              ParkedWhereItWaited, ParkedWaits, ReturnToStub, waits
<1>6. \A t \in Threads : t \in Placed' <=> t \in Placed
  BY <1>2, <1>4, PlacedByHandle, PlacedByHandleNext DEF SInv, ReturnToStub
<1>7. NotLost' /\ UnplacedSaved'
  BY <1>2, <1>3, <1>4, <1>6 DEF SInv, Types, NotLost, UnplacedSaved, Unplaced, waits
<1> QED BY <1>4, <1>5, <1>7 DEF SInv

\* The gateway read touches no thread.
LEMMA ReadStep ==
    ASSUME SInv, NEW c \in Workers, GatewayRead(c)
    PROVE  SInv'
<1>1. Types'
  BY DEF GatewayRead, SInv, Types, waits
<1>2. OneVcpuEach' /\ HandlesValid' /\ WaitersLive' /\ ParkedWhereItWaited'
      /\ ParkedWaits'
  BY DEF GatewayRead, SInv, OneVcpuEach, HandlesValid, WaitersLive,
         ParkedWhereItWaited, ParkedWaits, waits
<1>3. NotLost' /\ UnplacedSaved'
  BY DEF GatewayRead, SInv, NotLost, UnplacedSaved, Unplaced, Placed, waits
<1> QED BY <1>1, <1>2, <1>3 DEF SInv

\* Yield queues the current thread, saved, and switches to the pick.
LEMMA YieldStep ==
    ASSUME SInv, NEW c \in Workers, Yield(c)
    PROVE  SInv'
<1> USE DEF Yield
<1>1. /\ ~halted[c] /\ Current(c) \subseteq valid
      /\ {code[c]} \cap Current(c) = Current(c)
      /\ valid \cup Current(c) = valid
  BY DEF YieldWith, InGuest, Current, SInv, Types, HandlesValid
<1>2. PICK t \in NextFor(c) :
          /\ valid' = valid /\ runnable' = (runnable \cup Current(c)) \ {t}
          /\ IF t \in valid
             THEN SwitchTo(c, t) /\ saved' = (saved \cup Current(c)) \ {t}
             ELSE ReturnToStub(c) /\ saved' = saved \ Current(c)
  BY <1>1 DEF YieldWith
<1>3. UNCHANGED <<waits, signal, attrs>>
  BY DEF YieldWith
<1>4. handle[c] \notin waiting
  BY <1>1, NoneAssumption
  DEF SInv, ParkedWaits, WaitersLive, Types
<1>5. CASE Candidates(c) = {}
  <2>1. t = None /\ t \notin valid
    BY <1>5, NoneAssumption DEF NextFor, SInv, Types
  <2>2. ReturnToStub(c) /\ saved' = saved \ Current(c)
        /\ runnable' = runnable \cup Current(c)
    BY <1>2, <2>1, NoneAssumption DEF SInv, Types, Current
  <2>3. Types'
    BY <1>1, <1>2, <1>3, <2>2 DEF SInv, Types, ReturnToStub, waits
  <2>4. OneVcpuEach' /\ HandlesValid' /\ ParkedWhereItWaited' /\ ParkedWaits'
    BY <1>2, <1>3, <2>2 DEF SInv, OneVcpuEach, HandlesValid,
              ParkedWhereItWaited, ParkedWaits, ReturnToStub, waits
  <2>5. WaitersLive'
    BY <1>2, <1>3, <1>4, <2>2 DEF SInv, WaitersLive, Current, waits
  <2>6. \A u \in Threads : u \in Placed' <=> u \in Placed
    BY <2>2, <2>3, PlacedByHandle, PlacedByHandleNext DEF SInv, ReturnToStub
  <2>7. NotLost'
    BY <1>2, <1>3, <2>2, <2>3, <2>6 DEF SInv, Types, NotLost, waits
  <2>8. Current(c) \subseteq Placed
    BY PlacedByHandle DEF SInv, Current, Placed
  <2>9. UnplacedSaved'
    BY <1>2, <2>2, <2>3, <2>6, <2>8 DEF SInv, Types, UnplacedSaved, Unplaced
  <2> QED BY <2>3, <2>4, <2>5, <2>7, <2>9 DEF SInv
<1>6. CASE Candidates(c) # {}
  <2>1. t \in Picks(c)
    BY <1>6 DEF NextFor
  <2>2. /\ t \in Threads /\ t # None /\ t \in valid /\ t \in runnable
        /\ t \notin waiting /\ t \in saved
        /\ \A d \in Workers : handle[d] # t
    BY <2>1, PickedThread
  <2>3. SwitchTo(c, t) /\ saved' = (saved \cup Current(c)) \ {t}
    BY <1>2, <2>2
  <2>4. Types'
    BY <1>1, <1>2, <1>3, <2>2, <2>3 DEF SInv, Types, SwitchTo, waits
  <2>5. handle' = [handle EXCEPT ![c] = t] /\ halted' = [halted EXCEPT ![c] = FALSE]
        /\ handle \in [Workers -> Threads \cup {None}] /\ halted \in [Workers -> BOOLEAN]
    BY <2>3 DEF SwitchTo, SInv, Types
  <2>6. OneVcpuEach'
    BY <2>1, <2>4, <2>5, PlacedAfterSwitch
  <2>7. HandlesValid'
    BY <1>2, <2>2, <2>5 DEF SInv, HandlesValid
  <2>8. ParkedWhereItWaited' /\ ParkedWaits'
    BY <1>3, <2>2, <2>5 DEF SInv, ParkedWhereItWaited, ParkedWaits, waits
  <2>9. WaitersLive'
    BY <1>2, <1>3, <1>4 DEF SInv, WaitersLive, Current, waits
  <2>10. \A u \in Threads : u \in Placed' <=>
            (u = t \/ (u \in Placed /\ u # handle[c]))
    BY <2>1, <2>4, <2>5, PlacedAfterSwitch
  <2>11. NotLost'
    BY <1>2, <1>3, <2>2, <2>4, <2>10 DEF SInv, Types, NotLost, Current, waits
  <2>12. UnplacedSaved'
    BY <1>2, <2>3, <2>4, <2>10 DEF SInv, Types, UnplacedSaved, Unplaced, Current
  <2> QED BY <2>4, <2>6, <2>7, <2>8, <2>9, <2>11, <2>12 DEF SInv
<1> QED BY <1>5, <1>6

\* A wait parks the current thread, on its vCPU when nothing else can run.
LEMMA WaitStep ==
    ASSUME SInv, NEW c \in Workers, Wait(c)
    PROVE  SInv'
<1> USE DEF Wait
<1>1. /\ handle[c] \in Threads /\ handle[c] # None /\ handle[c] \in valid
      /\ handle[c] \notin waiting /\ ~halted[c] /\ code[c] = handle[c]
  BY NoneAssumption
  DEF WaitParking, InGuest, Current, SInv, Types, HandlesValid
<1>2. /\ waiting' = waiting \cup {handle[c]}
      /\ waitCpu' = [waitCpu EXCEPT ![handle[c]] = c]
      /\ valid' = valid /\ UNCHANGED <<signal, attrs>>
  BY <1>1 DEF WaitParking
<1>3. /\ waitCpu'[handle[c]] = c
      /\ \A u \in Threads : u # handle[c] => waitCpu'[u] = waitCpu[u]
      /\ waitCpu' \in [Threads -> Workers \cup {0}]
  BY <1>1, <1>2 DEF SInv, Types
<1>4. \A d \in Workers : d # c => handle[d] # handle[c]
  BY <1>1 DEF SInv, OneVcpuEach
<1>5. CASE Candidates(c) = {}
  <2>1. /\ UNCHANGED handle /\ pending' = [pending EXCEPT ![c] = None]
        /\ code' = [code EXCEPT ![c] = handle[c]]
        /\ halted' = [halted EXCEPT ![c] = TRUE]
        /\ inStub' = [inStub EXCEPT ![c] = FALSE]
        /\ runnable' = runnable \ {handle[c]} /\ saved' = saved \ {handle[c]}
    BY <1>5 DEF WaitParking
  <2>2. Types'
    BY <1>1, <1>2, <1>3, <2>1 DEF SInv, Types
  <2>3. OneVcpuEach' /\ HandlesValid'
    BY <1>2, <2>1 DEF SInv, OneVcpuEach, HandlesValid
  <2>4. WaitersLive'
    BY <1>1, <1>2, <2>1 DEF SInv, WaitersLive
  <2>5. ParkedWhereItWaited'
    <3> SUFFICES ASSUME NEW d \in Workers, handle[d] \in waiting \cup {handle[c]}
                 PROVE  waitCpu'[handle[d]] = d
      BY <1>2, <2>1 DEF ParkedWhereItWaited
    <3>1. CASE d = c
      BY <3>1, <1>3
    <3>2. CASE d # c
      BY <3>2, <1>3, <1>4 DEF SInv, ParkedWhereItWaited, WaitersLive, Types
    <3> QED BY <3>1, <3>2
  <2>6. ParkedWaits'
    BY <1>2, <1>4, <2>1 DEF SInv, Types, ParkedWaits
  <2>7. \A u \in Threads : u \in Placed' <=> u \in Placed
    BY <2>1, <2>2, PlacedByHandle, PlacedByHandleNext DEF SInv
  <2>8. NotLost'
    BY <1>2, <2>1, <2>2, <2>7 DEF SInv, Types, NotLost
  <2>9. UnplacedSaved'
    <3>1. handle[c] \in Placed
      BY DEF Placed
    <3> QED BY <1>2, <2>1, <2>2, <2>7, <3>1 DEF SInv, Types, UnplacedSaved, Unplaced
  <2> QED BY <2>2, <2>3, <2>4, <2>5, <2>6, <2>8, <2>9 DEF SInv
<1>6. CASE Candidates(c) # {}
  <2>1. PICK t \in Picks(c) :
          /\ SwitchTo(c, t) /\ runnable' = runnable \ {handle[c], t}
          /\ saved' = (saved \cup {handle[c]}) \ {t}
    BY <1>1, <1>6 DEF WaitParking
  <2>2. /\ t \in Threads /\ t # None /\ t \in valid /\ t \in runnable
        /\ t \notin waiting /\ \A d \in Workers : handle[d] # t
    BY PickedThread
  <2>3. Types'
    BY <1>1, <1>2, <1>3, <2>1, <2>2 DEF SInv, Types, SwitchTo
  <2>4. \A d \in Workers : /\ handle'[d] = IF d = c THEN t ELSE handle[d]
                           /\ halted'[d] = IF d = c THEN FALSE ELSE halted[d]
    BY <2>1 DEF SwitchTo, SInv, Types
  <2>5. /\ OneVcpuEach'
        /\ \A u \in Threads : u \in Placed' <=>
              (u = t \/ (u \in Placed /\ u # handle[c]))
    BY <2>1, <2>3, PlacedAfterSwitch DEF SwitchTo
  <2>6. HandlesValid'
    BY <1>2, <2>2, <2>4 DEF SInv, HandlesValid
  <2>7. WaitersLive'
    BY <1>1, <1>2, <2>1 DEF SInv, WaitersLive
  <2>8. ParkedWhereItWaited'
    BY <1>2, <1>3, <1>4, <2>2, <2>4 DEF SInv, ParkedWhereItWaited, WaitersLive, Types
  <2>9. ParkedWaits'
    BY <1>2, <1>4, <2>2, <2>4 DEF SInv, ParkedWaits
  <2>10. NotLost'
    BY <1>2, <2>1, <2>3, <2>5 DEF SInv, Types, NotLost
  <2>11. UnplacedSaved'
    BY <1>2, <2>1, <2>3, <2>5 DEF SInv, Types, UnplacedSaved, Unplaced
  <2> QED BY <2>3, <2>5, <2>6, <2>7, <2>8, <2>9, <2>10, <2>11 DEF SInv
<1> QED BY <1>5, <1>6

\* Exit frees the slot of the current thread.
LEMMA ExitStep ==
    ASSUME SInv, NEW c \in Workers, Exit(c)
    PROVE  SInv'
<1> USE DEF Exit
<1>1. /\ handle[c] \in Threads /\ handle[c] # None /\ Current(c) = {handle[c]}
      /\ handle[c] \notin waiting /\ ~halted[c]
  BY NoneAssumption DEF ExitWith, InGuest, Current, SInv, Types, ParkedWaits
<1>2. PICK t \in NextFor(c) :
          /\ valid' = valid \ {handle[c]} /\ runnable' = runnable \ {handle[c], t}
          /\ saved' = saved \ {handle[c], t}
          /\ IF t \in valid \ {handle[c]} THEN SwitchTo(c, t)
             ELSE /\ handle' = [handle EXCEPT ![c] = None]
                  /\ code' = [code EXCEPT ![c] = None]
                  /\ pending' = [pending EXCEPT ![c] = None]
                  /\ halted' = [halted EXCEPT ![c] = TRUE]
                  /\ inStub' = [inStub EXCEPT ![c] = FALSE]
  BY <1>1 DEF ExitWith
<1>3. waiting' = waiting /\ waitCpu' = waitCpu
  BY DEF ExitWith, waits
<1>4. \A d \in Workers : d # c => handle[d] # handle[c]
  BY <1>1 DEF SInv, OneVcpuEach
<1>5. CASE Candidates(c) = {}
  <2>1. t = None /\ t \notin valid
    BY <1>5, NoneAssumption DEF NextFor, SInv, Types
  <2>2. /\ handle' = [handle EXCEPT ![c] = None]
        /\ code' = [code EXCEPT ![c] = None]
        /\ pending' = [pending EXCEPT ![c] = None]
        /\ halted' = [halted EXCEPT ![c] = TRUE]
        /\ inStub' = [inStub EXCEPT ![c] = FALSE]
    BY <1>2, <2>1
  <2>3. Types'
    BY <1>1, <1>2, <1>3, <2>2 DEF SInv, Types
  <2>4. \A d \in Workers : /\ handle'[d] = IF d = c THEN None ELSE handle[d]
                           /\ halted'[d] = IF d = c THEN TRUE ELSE halted[d]
    BY <2>2 DEF SInv, Types
  <2>5. OneVcpuEach' /\ HandlesValid'
    BY <1>2, <1>4, <2>4 DEF SInv, OneVcpuEach, HandlesValid
  <2>6. WaitersLive'
    BY <1>1, <1>2, <1>3 DEF SInv, WaitersLive
  <2>7. ParkedWhereItWaited'
    BY <1>3, <2>4, NoneAssumption DEF SInv, ParkedWhereItWaited, WaitersLive, Types
  <2>8. ParkedWaits'
    BY <1>3, <2>4 DEF SInv, ParkedWaits
  <2>9. \A u \in Threads : u # handle[c] => (u \in Placed' <=> u \in Placed)
    <3> SUFFICES ASSUME NEW u \in Threads, u # handle[c]
                 PROVE  u \in Placed' <=> u \in Placed
      OBVIOUS
    <3>1. (u \in Placed <=> \E d \in Workers : handle[d] = u)
          /\ (u \in Placed' <=> \E d \in Workers : handle'[d] = u)
      BY <2>3, PlacedByHandle, PlacedByHandleNext DEF SInv
    <3> QED BY <2>4, <3>1, NoneAssumption
  <2>10. NotLost' /\ UnplacedSaved'
    BY <1>2, <1>3, <2>1, <2>3, <2>9 DEF SInv, Types, NotLost, UnplacedSaved, Unplaced
  <2> QED BY <2>3, <2>5, <2>6, <2>7, <2>8, <2>10 DEF SInv
<1>6. CASE Candidates(c) # {}
  <2>1. t \in Picks(c)
    BY <1>6 DEF NextFor
  <2>2. /\ t \in Threads /\ t # None /\ t \in valid /\ t \in runnable
        /\ t \notin waiting /\ \A d \in Workers : handle[d] # t
    BY <2>1, PickedThread
  <2>3. SwitchTo(c, t)
    BY <1>2, <2>2
  <2>4. Types'
    BY <1>1, <1>2, <1>3, <2>2, <2>3 DEF SInv, Types, SwitchTo
  <2>5. \A d \in Workers : /\ handle'[d] = IF d = c THEN t ELSE handle[d]
                           /\ halted'[d] = IF d = c THEN FALSE ELSE halted[d]
    BY <2>3 DEF SwitchTo, SInv, Types
  <2>6. /\ OneVcpuEach'
        /\ \A u \in Threads : u \in Placed' <=>
              (u = t \/ (u \in Placed /\ u # handle[c]))
    BY <2>1, <2>3, <2>4, PlacedAfterSwitch DEF SwitchTo
  <2>7. HandlesValid'
    BY <1>2, <1>4, <2>2, <2>5 DEF SInv, HandlesValid
  <2>8. WaitersLive'
    BY <1>1, <1>2, <1>3 DEF SInv, WaitersLive
  <2>9. ParkedWhereItWaited' /\ ParkedWaits'
    BY <1>3, <2>2, <2>5 DEF SInv, ParkedWhereItWaited, ParkedWaits
  <2>10. NotLost' /\ UnplacedSaved'
    BY <1>2, <1>3, <2>4, <2>6 DEF SInv, Types, NotLost, UnplacedSaved, Unplaced
  <2> QED BY <2>4, <2>6, <2>7, <2>8, <2>9, <2>10 DEF SInv
<1> QED BY <1>5, <1>6

\* A handler starts on the thread that runs.
LEMMA SignalDeliverStep ==
    ASSUME SInv, NEW c \in Workers, SignalDeliver(c)
    PROVE  SInv'
<1>1. pending[c] = None /\ pending[c] \notin valid
  BY NoneAssumption DEF SInv, Types
<1>2. /\ pending' = [pending EXCEPT ![c] = None] /\ runnable' = runnable
      /\ UNCHANGED <<handle, halted, code, inStub, valid, saved, waiting, waitCpu>>
  BY <1>1 DEF SignalDeliver, waits
<1>3. pending' = pending
  BY <1>1, <1>2 DEF SInv, Types
<1>4. Types' /\ OneVcpuEach' /\ HandlesValid' /\ WaitersLive'
  BY <1>2, <1>3 DEF SInv, Types, OneVcpuEach, HandlesValid, WaitersLive
<1>5. ParkedWhereItWaited' /\ ParkedWaits' /\ NotLost' /\ UnplacedSaved'
  BY <1>2, <1>3 DEF SInv, ParkedWhereItWaited, ParkedWaits, NotLost,
                    UnplacedSaved, Unplaced, Placed
<1> QED BY <1>4, <1>5 DEF SInv

\* A handler returns to the thread that runs.
LEMMA SignalReturnStep ==
    ASSUME SInv, NEW c \in Workers, SignalReturn(c)
    PROVE  SInv'
<1>1. /\ pending[c] = None /\ None \notin valid /\ None \notin runnable
      /\ None \notin saved
  BY NoneAssumption DEF SInv, Types
<1>2. /\ pending' = [pending EXCEPT ![c] = None] /\ runnable' = runnable
      /\ saved' = saved
      /\ UNCHANGED <<handle, halted, code, inStub, valid, waiting, waitCpu>>
  BY <1>1 DEF SignalReturn, waits
<1>3. pending' = pending
  BY <1>1, <1>2 DEF SInv, Types
<1>4. Types' /\ OneVcpuEach' /\ HandlesValid' /\ WaitersLive'
  BY <1>2, <1>3 DEF SInv, Types, OneVcpuEach, HandlesValid, WaitersLive
<1>5. ParkedWhereItWaited' /\ ParkedWaits' /\ NotLost' /\ UnplacedSaved'
  BY <1>2, <1>3 DEF SInv, ParkedWhereItWaited, ParkedWaits, NotLost,
                    UnplacedSaved, Unplaced, Placed
<1> QED BY <1>4, <1>5 DEF SInv

\* The tick saves a thread outside of the gateway and switches to the pick.
LEMMA PreemptStep ==
    ASSUME SInv, NEW c \in Workers, Preempt(c)
    PROVE  SInv'
<1> USE DEF Preempt
<1>1. /\ handle[c] \in Threads /\ handle[c] # None /\ handle[c] \notin waiting
      /\ handle[c] \in valid /\ ~inStub[c] /\ code[c] = handle[c]
  BY NoneAssumption DEF PreemptWhen, Preemptible, SInv, Types, HandlesValid
<1>2. valid' = valid /\ waiting' = waiting /\ waitCpu' = waitCpu
  BY <1>1 DEF PreemptWhen, waits
<1>3. CASE Candidates(c) = {}
  <2>1. /\ runnable' = runnable \ {handle[c]} /\ saved' = saved \ {handle[c]}
        /\ UNCHANGED <<handle, pending, halted, code, inStub>>
    BY <1>3 DEF PreemptWhen, cpus
  <2>2. Types' /\ OneVcpuEach' /\ HandlesValid' /\ WaitersLive'
    BY <1>2, <2>1 DEF SInv, Types, OneVcpuEach, HandlesValid, WaitersLive
  <2>3. ParkedWhereItWaited' /\ ParkedWaits'
    BY <1>2, <2>1 DEF SInv, ParkedWhereItWaited, ParkedWaits
  <2>4. handle[c] \in Placed /\ Placed' = Placed
    BY <2>1 DEF Placed
  <2>5. NotLost' /\ UnplacedSaved'
    BY <1>2, <2>1, <2>4 DEF SInv, NotLost, UnplacedSaved, Unplaced
  <2> QED BY <2>2, <2>3, <2>5 DEF SInv
<1>4. CASE Candidates(c) # {}
  <2>1. PICK t \in Picks(c) :
          /\ handle' = [handle EXCEPT ![c] = t]
          /\ code'   = [code EXCEPT ![c] = t]
          /\ halted' = [halted EXCEPT ![c] = FALSE]
          /\ runnable' = (runnable \cup {handle[c]}) \ {t}
          /\ saved' = (saved \cup {handle[c]}) \ {t}
          /\ UNCHANGED <<pending, inStub>>
    BY <1>1, <1>4 DEF PreemptWhen
  <2>2. /\ t \in Threads /\ t # None /\ t \in valid /\ t \in runnable
        /\ t \notin waiting /\ \A d \in Workers : handle[d] # t
    BY PickedThread
  <2>3. Types'
    BY <1>1, <1>2, <2>1, <2>2 DEF SInv, Types
  <2>4. /\ OneVcpuEach'
        /\ \A u \in Threads : u \in Placed' <=>
              (u = t \/ (u \in Placed /\ u # handle[c]))
    BY <2>1, <2>3, PlacedAfterSwitch
  <2>5. \A d \in Workers : (handle'[d] = IF d = c THEN t ELSE handle[d])
                           /\ (halted'[d] = IF d = c THEN FALSE ELSE halted[d])
    BY <2>1 DEF SInv, Types
  <2>6. HandlesValid'
    BY <1>2, <2>2, <2>5 DEF SInv, HandlesValid
  <2>7. WaitersLive'
    BY <1>1, <1>2, <2>1 DEF SInv, WaitersLive
  <2>8. ParkedWhereItWaited' /\ ParkedWaits'
    BY <1>2, <2>2, <2>5 DEF SInv, ParkedWhereItWaited, ParkedWaits
  <2>9. NotLost' /\ UnplacedSaved'
    BY <1>2, <2>1, <2>3, <2>4 DEF SInv, Types, NotLost, UnplacedSaved, Unplaced
  <2> QED BY <2>3, <2>4, <2>6, <2>7, <2>8, <2>9 DEF SInv
<1> QED BY <1>3, <1>4

\* A new thread takes a vCPU that has none.
LEMMA StartOnCpuStep ==
    ASSUME SInv, NEW t \in Threads, NEW c \in Workers, StartOnCpu(t, c),
           UNCHANGED <<waits, signal>>
    PROVE  SInv'
<1>1. /\ t \notin valid /\ t # None /\ \A d \in Workers : handle[d] # t
      /\ t \notin waiting /\ t \notin runnable
  BY NoneAssumption DEF StartOnCpu, Startable, SInv, WaitersLive, Types
<1>2. /\ handle' = [handle EXCEPT ![c] = t] /\ code' = [code EXCEPT ![c] = t]
      /\ halted' = [halted EXCEPT ![c] = FALSE]
      /\ inStub' = [inStub EXCEPT ![c] = FALSE] /\ pending' = pending
      /\ valid' = valid \cup {t} /\ runnable' = runnable
      /\ saved' = saved \ {t} /\ waiting' = waiting /\ waitCpu' = waitCpu
      /\ handle[c] = None
  BY <1>1 DEF StartOnCpu, FirstIdle, Idle, waits
<1>3. Types'
  BY <1>2 DEF SInv, Types
<1>4. \A d \in Workers : (handle'[d] = IF d = c THEN t ELSE handle[d])
                         /\ (halted'[d] = IF d = c THEN FALSE ELSE halted[d])
  BY <1>2 DEF SInv, Types
<1>5. OneVcpuEach' /\ HandlesValid' /\ WaitersLive'
  BY <1>1, <1>2, <1>4 DEF SInv, OneVcpuEach, HandlesValid, WaitersLive
<1>6. ParkedWhereItWaited' /\ ParkedWaits'
  <2>1. ParkedWhereItWaited'
    BY <1>1, <1>2, <1>4 DEF SInv, ParkedWhereItWaited
  <2>2. ParkedWaits'
    <3> SUFFICES ASSUME NEW d \in Workers, handle'[d] # None
                 PROVE  halted'[d] <=> handle'[d] \in waiting
      BY <1>2 DEF ParkedWaits
    <3>1. CASE d = c
      BY <3>1, <1>1, <1>4
    <3>2. CASE d # c
      BY <3>2, <1>4 DEF SInv, ParkedWaits
    <3> QED BY <3>1, <3>2
  <2> QED BY <2>1, <2>2
<1>7. ASSUME NEW u \in Threads
      PROVE u \in Placed' <=> u \in Placed \cup {t}
  <2>1. (u \in Placed <=> \E d \in Workers : handle[d] = u)
        /\ (u \in Placed' <=> \E d \in Workers : handle'[d] = u)
    BY <1>3, PlacedByHandle, PlacedByHandleNext DEF SInv
  <2> QED BY <1>2, <1>4, <2>1, NoneAssumption
<1>8. NotLost' /\ UnplacedSaved'
  BY <1>1, <1>2, <1>3, <1>7 DEF SInv, Types, NotLost, UnplacedSaved, Unplaced
<1> QED BY <1>3, <1>5, <1>6, <1>8 DEF SInv

\* A new thread enters the queue with its entry context.
LEMMA StartQueuedStep ==
    ASSUME SInv, NEW t \in Threads, StartQueued(t), UNCHANGED <<waits, signal>>
    PROVE  SInv'
<1>1. /\ t \notin valid /\ t # None /\ \A d \in Workers : handle[d] # t
      /\ t \notin waiting
  BY NoneAssumption DEF StartQueued, Startable, SInv, WaitersLive
<1>2. /\ valid' = valid \cup {t} /\ runnable' = runnable \cup {t}
      /\ saved' = saved \cup {t} /\ waiting' = waiting /\ waitCpu' = waitCpu
      /\ UNCHANGED <<handle, pending, halted, code, inStub>>
  BY DEF StartQueued, waits, cpus
<1>3. Types' /\ OneVcpuEach' /\ HandlesValid' /\ WaitersLive'
  BY <1>1, <1>2 DEF SInv, Types, OneVcpuEach, HandlesValid, WaitersLive
<1>4. ParkedWhereItWaited' /\ ParkedWaits'
  BY <1>2 DEF SInv, ParkedWhereItWaited, ParkedWaits
<1>5. Placed' = Placed
  BY <1>2 DEF Placed
<1>6. NotLost' /\ UnplacedSaved'
  BY <1>2, <1>5 DEF SInv, NotLost, UnplacedSaved, Unplaced
<1> QED BY <1>3, <1>4, <1>6 DEF SInv

\* A woken thread resumes where it is parked, or becomes runnable.
LEMMA WakeStep ==
    ASSUME SInv, NEW t \in Threads, Wake(t)
    PROVE  SInv'
<1> USE DEF Wake
<1>1. /\ t \in waiting /\ t \in valid /\ t # None /\ waiting' = waiting \ {t}
      /\ UNCHANGED <<handle, pending, code, inStub, valid, saved, waitCpu>>
  BY NoneAssumption DEF WakeMarking, SInv, WaitersLive, Types
<1>2. Placed' = Placed
  BY <1>1 DEF Placed
<1>3. CASE t \in Placed
  <2>1. PICK c \in Workers : handle[c] = t
    BY <1>3, PlacedByHandle DEF SInv
  <2>2. waitCpu[t] = c /\ \A d \in Workers : d # c => handle[d] # t
    BY <1>1, <2>1 DEF SInv, ParkedWhereItWaited, OneVcpuEach
  <2>3. halted' = [halted EXCEPT ![c] = FALSE] /\ runnable' = runnable
    BY <1>3, <2>1, <2>2 DEF WakeMarking
  <2>4. Types' /\ OneVcpuEach' /\ HandlesValid' /\ WaitersLive'
    BY <1>1, <2>3 DEF SInv, Types, OneVcpuEach, HandlesValid, WaitersLive
  <2>5. ParkedWhereItWaited'
    BY <1>1 DEF SInv, ParkedWhereItWaited
  <2>6. ParkedWaits'
    BY <1>1, <2>1, <2>2, <2>3 DEF SInv, Types, ParkedWaits
  <2>7. NotLost' /\ UnplacedSaved'
    BY <1>1, <1>2, <1>3, <2>3 DEF SInv, NotLost, UnplacedSaved, Unplaced
  <2> QED BY <2>4, <2>5, <2>6, <2>7 DEF SInv
<1>4. CASE t \notin Placed
  <2>1. halted' = halted /\ runnable' = runnable \cup {t}
    BY <1>1, <1>4 DEF WakeMarking
  <2>2. Types' /\ OneVcpuEach' /\ HandlesValid' /\ WaitersLive'
    BY <1>1, <2>1 DEF SInv, Types, OneVcpuEach, HandlesValid, WaitersLive
  <2>3. \A c \in Workers : handle[c] # t
    BY <1>4, PlacedByHandle DEF SInv
  <2>4. ParkedWhereItWaited' /\ ParkedWaits'
    BY <1>1, <2>1, <2>3 DEF SInv, ParkedWhereItWaited, ParkedWaits
  <2>5. NotLost'
    BY <1>1, <1>2, <2>1 DEF SInv, NotLost
  <2>6. UnplacedSaved'
    BY <1>1, <1>2, <2>1 DEF SInv, UnplacedSaved, Unplaced
  <2> QED BY <2>2, <2>4, <2>5, <2>6 DEF SInv
<1> QED BY <1>3, <1>4

\* Priorities and affinities are no part of the invariant.
LEMMA QuietStep ==
    ASSUME SInv,
           UNCHANGED <<handle, pending, halted, code, inStub, valid, runnable,
                       saved, waiting, waitCpu>>
    PROVE  SInv'
<1>1. Types' /\ OneVcpuEach' /\ HandlesValid' /\ WaitersLive'
  BY DEF SInv, Types, OneVcpuEach, HandlesValid, WaitersLive
<1>2. ParkedWhereItWaited' /\ ParkedWaits' /\ NotLost' /\ UnplacedSaved'
  BY DEF SInv, ParkedWhereItWaited, ParkedWaits, NotLost, UnplacedSaved,
         Unplaced, Placed
<1> QED BY <1>1, <1>2 DEF SInv

\* A reset restores the machine as realized.
LEMMA ResetStep ==
    ASSUME Reset
    PROVE  SInv'
<1>1. Types'
  BY DEF Reset, Types
<1>2. OneVcpuEach' /\ HandlesValid' /\ WaitersLive'
  BY DEF Reset, OneVcpuEach, HandlesValid, WaitersLive
<1>3. ParkedWhereItWaited' /\ ParkedWaits' /\ NotLost' /\ UnplacedSaved'
  BY DEF Reset, ParkedWhereItWaited, ParkedWaits, NotLost, UnplacedSaved, Unplaced
<1> QED BY <1>1, <1>2, <1>3 DEF SInv

----------------------------------------------------------------------------
\* Every step keeps the invariant while no process may be killed.
THEOREM InvStep ==
    ASSUME "kill" \notin Permitted, SInv, [Next]_vars
    PROVE  SInv'
<1>1. ASSUME NEW c \in Workers, CpuStep(c)
      PROVE  SInv'
  BY <1>1, PlainCallStep, ReadStep, YieldStep, WaitStep, ExitStep,
     SignalDeliverStep, SignalReturnStep, PreemptStep DEF CpuStep
<1>2. ASSUME NEW t \in Threads, ThreadStep(t)
      PROVE  SInv'
  <2>1. CASE Create(t)
    <3>1. UNCHANGED <<waits, signal>>
          /\ (StartQueued(t) \/ \E c \in Workers : StartOnCpu(t, c))
      BY <2>1 DEF Create
    <3> QED BY <3>1, StartQueuedStep, StartOnCpuStep
  <2>2. CASE SetAttributes(t)
    BY <2>2, QuietStep DEF SetAttributes, cpus, waits
  <2>3. CASE Wake(t)
    BY <2>3, WakeStep
  <2>4. CASE Kill(t)
    BY <2>4 DEF Kill
  <2> QED BY <1>2, <2>1, <2>2, <2>3, <2>4 DEF ThreadStep
<1>3. CASE Reset
  BY <1>3, ResetStep
<1>4. CASE UNCHANGED vars
  BY <1>4, QuietStep DEF vars
<1> QED BY <1>1, <1>2, <1>3, <1>4 DEF Next

\* The invariant holds in every reachable state while nothing is killed.
THEOREM Invariance == "kill" \notin Permitted => (Spec => []SInv)
<1> SUFFICES ASSUME "kill" \notin Permitted PROVE Spec => []SInv
  OBVIOUS
<1>1. Init => SInv
  BY InvInit
<1>2. SInv /\ [Next]_vars => SInv'
  BY InvStep
<1> QED BY <1>1, <1>2, PTL DEF Spec

\* A thread that waits does not execute, and no other thread's vCPU is halted.
THEOREM ParkedWaitsHolds == "kill" \notin Permitted => (Spec => []ParkedWaits)
<1>1. SInv => ParkedWaits
  BY DEF SInv
<1> QED BY <1>1, Invariance, PTL

\* No live thread is left neither placed, nor runnable, nor waiting.
THEOREM NotLostHolds == "kill" \notin Permitted => (Spec => []NotLost)
<1>1. SInv => NotLost
  BY DEF SInv
<1> QED BY <1>1, Invariance, PTL

\* Whatever thread may be picked, its saved context is where it stopped.
THEOREM ResumePointHolds == "kill" \notin Permitted => (Spec => []ResumePoint)
<1>1. SInv => ResumePoint
  BY InvImplies
<1> QED BY <1>1, Invariance, PTL

\* A step halts a vCPU only when nothing it might run is left: a wait and an
\* exit look for a candidate first, and every other step leaves the vCPU as
\* it is or sets it going.
LEMMA HaltsWithoutCandidates ==
    ASSUME SInv, {"kill", "reset"} \cap Permitted = {}, Next,
           NEW c \in Workers, ~halted[c], halted'[c]
    PROVE  Candidates(c) = {}
<1>1. halted \in [Workers -> BOOLEAN]
  BY DEF SInv, Types
<1>3. ASSUME NEW d \in Workers, CpuStep(d) PROVE Candidates(c) = {}
  <2>1. CASE PlainCall(d)
    BY <2>1, <1>1 DEF PlainCall, SwitchTo, ReturnToStub
  <2>2. CASE GatewayRead(d)
    BY <2>2 DEF GatewayRead
  <2>3. CASE Yield(d)
    BY <2>3, <1>1 DEF Yield, YieldWith, SwitchTo, ReturnToStub
  <2>4. CASE Wait(d)
    <3>1. CASE Candidates(d) = {}
      <4>1. halted' = [halted EXCEPT ![d] = TRUE]
        BY <2>4, <3>1 DEF Wait, WaitParking
      <4> QED BY <4>1, <3>1, <1>1
    <3>2. CASE Candidates(d) # {}
      <4>1. halted' = [halted EXCEPT ![d] = FALSE]
        BY <2>4, <3>2 DEF Wait, WaitParking, SwitchTo
      <4> QED BY <4>1, <1>1
    <3> QED BY <3>1, <3>2
  <2>5. CASE Exit(d)
    <3>1. PICK t \in NextFor(d) :
             halted' = [halted EXCEPT ![d] = t \notin valid \ Current(d)]
      BY <2>5 DEF Exit, ExitWith, SwitchTo
    <3>2. d = c /\ t \notin valid \ Current(d)
      BY <3>1, <1>1
    <3>3. ASSUME Candidates(d) # {} PROVE FALSE
      <4>1. t \in Picks(d)
        BY <3>3 DEF NextFor
      <4>2. t \in valid /\ handle[d] # t
        BY <4>1, PickedThread
      <4> QED BY <3>2, <4>2 DEF Current
    <3> QED BY <3>2, <3>3
  <2>6. CASE SignalDeliver(d)
    BY <2>6 DEF SignalDeliver
  <2>7. CASE SignalReturn(d)
    BY <2>7, <1>1 DEF SignalReturn, SwitchTo
  <2>8. CASE Preempt(d)
    <3>1. halted' = halted \/ halted' = [halted EXCEPT ![d] = FALSE]
      BY <2>8 DEF Preempt, PreemptWhen, cpus
    <3> QED BY <3>1, <1>1
  <2> QED BY <1>3, <2>1, <2>2, <2>3, <2>4, <2>5, <2>6, <2>7, <2>8 DEF CpuStep
<1>4. ASSUME NEW t \in Threads, ThreadStep(t) PROVE FALSE
  <2>1. CASE Create(t)
    <3>1. halted' = halted \/ \E d \in Workers : halted' = [halted EXCEPT ![d] = FALSE]
      BY <2>1 DEF Create, StartQueued, StartOnCpu, cpus
    <3> QED BY <3>1, <1>1
  <2>2. CASE SetAttributes(t)
    BY <2>2 DEF SetAttributes, cpus
  <2>3. CASE Wake(t)
    <3>1. halted' = halted \/ halted' = [halted EXCEPT ![waitCpu[t]] = FALSE]
      BY <2>3 DEF Wake, WakeMarking
    <3> QED BY <3>1, <1>1
  <2>4. ~Kill(t)
    BY DEF Kill
  <2> QED BY <1>4, <2>1, <2>2, <2>3, <2>4 DEF ThreadStep
<1>5. ~Reset
  BY DEF Reset
<1> QED BY <1>3, <1>4, <1>5 DEF Next

\* A vCPU stops executing only when no thread that may run on it is left, as
\* long as no process is killed and the machine, which halts them all, is not
\* reset.
THEOREM WorkConservingHolds ==
    {"kill", "reset"} \cap Permitted = {} => (Spec => WorkConserving)
<1> SUFFICES ASSUME {"kill", "reset"} \cap Permitted = {} PROVE Spec => WorkConserving
  OBVIOUS
<1>1. Spec => []SInv
  BY Invariance
<1>2. SInv /\ [Next]_vars =>
      [\A c \in Workers : ~halted[c] /\ halted'[c] => Candidates(c) = {}]_vars
  BY HaltsWithoutCandidates
<1> QED BY <1>1, <1>2, PTL DEF Spec, WorkConserving

----------------------------------------------------------------------------
(***************************************************************************)
(* One vCPU at a time, also when a process is killed.  A kill leaves a      *)
(* switch pending on the vCPU whose thread it took; OneCpu then needs that  *)
(* the thread it is pending for cannot be started elsewhere: it lives, it   *)
(* is not the process that can be killed, since another one was when it was *)
(* picked, and no vCPU has it.                                              *)
(***************************************************************************)
PendingLives(c) ==
    pending[c] # None =>
       /\ pending[c] \in valid /\ pending[c] # ps2
       /\ \A d \in Workers : handle[d] # pending[c]

OnceInv ==
    /\ handle  \in [Workers -> Threads \cup {None}]
    /\ pending \in [Workers -> Threads \cup {None}]
    /\ code \in [Workers -> Threads \cup {None, Zombie}]
    /\ valid \subseteq Threads
    /\ OneCpu /\ \A c \in Workers : PendingLives(c)

\* A step of one vCPU, which has thread h then and p pending, and executes k: no other
\* vCPU has or awaits either, and those awaited by others live on.
LEMMA OneMoves ==
    ASSUME OnceInv, NEW c \in Workers, NEW h \in Threads \cup {None},
           NEW p \in Threads \cup {None}, NEW k \in {h, Zombie},
           handle' = [handle EXCEPT ![c] = h], pending' = [pending EXCEPT ![c] = p],
           code' = [code EXCEPT ![c] = k],
           h # None => \A d \in Workers \ {c} : handle[d] # h /\ pending[d] # h,
           p # None => /\ p # h /\ p \in valid' /\ p # ps2'
                       /\ \A d \in Workers \ {c} : handle[d] # p /\ pending[d] # p,
           valid' \subseteq Threads, valid \subseteq valid' \cup {handle[c], ps2},
           ps2' \in {ps2, None} \/ ps2' \notin valid
    PROVE  OnceInv'
<1>1. \A d \in Workers :
         /\ handle'[d] = IF d = c THEN h ELSE handle[d]
         /\ pending'[d] = IF d = c THEN p ELSE pending[d]
         /\ code'[d] = IF d = c THEN k ELSE code[d]
  BY DEF OnceInv
<1>2. /\ handle' \in [Workers -> Threads \cup {None}]
      /\ pending' \in [Workers -> Threads \cup {None}]
      /\ code' \in [Workers -> Threads \cup {None, Zombie}]
  BY DEF OnceInv
<1>3. ASSUME NEW d \in Workers PROVE PendingLives(d)'
  <2>1. CASE d = c
    BY <1>1, <2>1 DEF PendingLives
  <2>2. ASSUME d # c, pending[d] # None
        PROVE  /\ pending[d] \in valid' /\ pending[d] # ps2'
               /\ \A e \in Workers : handle'[e] # pending[d]
    <3>1. pending[d] \in valid /\ pending[d] # ps2 /\ \A e \in Workers : handle[e] # pending[d]
      BY <2>2 DEF OnceInv, PendingLives
    <3>2. h # pending[d]
      BY <2>2
    <3> QED BY <1>1, <2>2, <3>1, <3>2, NoneAssumption DEF OnceInv
  <2> QED BY <1>1, <2>1, <2>2 DEF PendingLives
<1>4. OneCpu'
  <2> SUFFICES ASSUME NEW d \in Workers
               PROVE  /\ code'[d] = handle'[d] \/ code'[d] = Zombie
                      /\ handle'[d] # None => \A e \in Workers \ {d} : handle'[e] # handle'[d]
                      /\ pending'[d] # None =>
                           \A e \in Workers \ {d} : pending'[d] \notin {handle'[e], pending'[e]}
    BY DEF OneCpu
  <2>1. code'[d] = handle'[d] \/ code'[d] = Zombie
    BY <1>1 DEF OnceInv, OneCpu
  <2>2. handle'[d] # None => \A e \in Workers \ {d} : handle'[e] # handle'[d]
    BY <1>1 DEF OnceInv, OneCpu
  <2>3. pending'[d] # None =>
          \A e \in Workers \ {d} : pending'[d] \notin {handle'[e], pending'[e]}
    BY <1>1 DEF OnceInv, OneCpu
  <2> QED BY <2>1, <2>2, <2>3
<1> QED BY <1>2, <1>3, <1>4 DEF OnceInv

\* No vCPU turns to another thread or awaits one, and none that is awaited goes.
LEMMA NoneMoves ==
    ASSUME OnceInv, UNCHANGED <<handle, pending, code>>,
           valid' \subseteq Threads, valid \subseteq valid' \cup {ps2},
           ps2' \in {ps2, None} \/ ps2' \notin valid
    PROVE  OnceInv'
<1>1. \A c \in Workers : PendingLives(c)'
  BY NoneAssumption DEF OnceInv, PendingLives
<1> QED BY <1>1 DEF OnceInv, OneCpu

\* A picked thread lives, and no vCPU has it or awaits it.
LEMMA PickOfNone ==
    ASSUME OnceInv, NEW c \in Workers, NEW t \in Picks(c)
    PROVE  /\ t \in Threads /\ t \in valid
           /\ \A d \in Workers : handle[d] # t /\ pending[d] # t
  BY DEF OnceInv, Picks, Candidates, Placed

\* So is what a vCPU is left to switch to, if it is a thread: another vCPU has it or
\* awaits it no more than the thread it has.
LEMMA NextOfNone ==
    ASSUME OnceInv, NEW c \in Workers, NEW t \in NextFor(c)
    PROVE  /\ t \in valid \/ t = None
           /\ t # None => \A d \in Workers : handle[d] # t /\ (d # c => pending[d] # t)
<1>1. CASE Candidates(c) = {}
  <2>1. t = pending[c]
    BY <1>1 DEF NextFor
  <2> QED BY <2>1 DEF OnceInv, OneCpu, PendingLives
<1>2. CASE Candidates(c) # {}
  <2>1. t \in Picks(c)
    BY <1>2 DEF NextFor
  <2> QED BY <2>1, PickOfNone
<1> QED BY <1>1, <1>2

\* A vCPU turns to a thread that it awaits, or that nobody has or awaits.
LEMMA SwitchMoves ==
    ASSUME OnceInv, NEW c \in Workers, NEW t \in Threads, SwitchTo(c, t),
           \A d \in Workers \ {c} : handle[d] # t /\ pending[d] # t,
           valid' \subseteq Threads, valid \subseteq valid' \cup {handle[c]}, UNCHANGED ps2
    PROVE  OnceInv'
<1>1. /\ handle' = [handle EXCEPT ![c] = t] /\ pending' = [pending EXCEPT ![c] = None]
      /\ code' = [code EXCEPT ![c] = t]
  BY DEF SwitchTo
<1> QED BY <1>1, OneMoves, NoneAssumption

\* A vCPU goes on with its thread and awaits none.
LEMMA StayMoves ==
    ASSUME OnceInv, NEW c \in Workers, UNCHANGED <<handle, code, ps2>>,
           pending' = [pending EXCEPT ![c] = None],
           valid' \subseteq Threads, valid \subseteq valid'
    PROVE  OnceInv'
<1>1. /\ handle' = [handle EXCEPT ![c] = handle[c]]
      /\ code' = [code EXCEPT ![c] = code[c]]
      /\ handle[c] \in Threads \cup {None} /\ code[c] \in {handle[c], Zombie}
      /\ handle[c] # None =>
           \A d \in Workers \ {c} : handle[d] # handle[c] /\ pending[d] # handle[c]
  BY DEF OnceInv, OneCpu, PendingLives
<1> QED BY <1>1, OneMoves

LEMMA CpuStepOnce ==
    ASSUME OnceInv, NEW c \in Workers, CpuStep(c)
    PROVE  OnceInv'
<1>1. CASE PlainCall(c)
  <2>1. UNCHANGED <<valid, ps2>> /\ valid \subseteq Threads
    BY <1>1 DEF PlainCall, OnceInv
  <2>2. CASE pending[c] \in valid
    <3>1. SwitchTo(c, pending[c]) /\ pending[c] \in Threads /\ pending[c] # None
      BY <1>1, <2>1, <2>2, NoneAssumption DEF PlainCall
    <3>2. \A d \in Workers \ {c} : handle[d] # pending[c] /\ pending[d] # pending[c]
      BY <3>1 DEF OnceInv, OneCpu
    <3> QED BY <2>1, <3>1, <3>2, SwitchMoves
  <2>3. CASE pending[c] \notin valid
    <3>1. UNCHANGED <<handle, code>> /\ pending' = [pending EXCEPT ![c] = None]
      BY <1>1, <2>3 DEF PlainCall, ReturnToStub
    <3> QED BY <2>1, <3>1, StayMoves
  <2> QED BY <2>2, <2>3
<1>2. CASE GatewayRead(c)
  BY <1>2, NoneMoves DEF GatewayRead, OnceInv
<1>3. CASE Yield(c)
  <2>1. PICK t \in NextFor(c) :
           /\ valid' = valid \cup Current(c)
           /\ IF t \in valid \cup Current(c) THEN SwitchTo(c, t) ELSE ReturnToStub(c)
    BY <1>3 DEF Yield, YieldWith
  <2>2. UNCHANGED ps2 /\ valid \subseteq valid' /\ valid' \subseteq Threads
    BY <1>3, <2>1 DEF Yield, YieldWith, Current, OnceInv
  <2>3. CASE t \in valid'
    <3>1. t \in Threads /\ t # None /\ SwitchTo(c, t)
      BY <2>1, <2>2, <2>3, NoneAssumption
    <3>2. \A d \in Workers \ {c} : handle[d] # t /\ pending[d] # t
      BY <3>1, NextOfNone
    <3> QED BY <2>2, <3>1, <3>2, SwitchMoves
  <2>4. CASE t \notin valid'
    <3>1. UNCHANGED <<handle, code>> /\ pending' = [pending EXCEPT ![c] = None]
      BY <2>1, <2>4 DEF ReturnToStub
    <3> QED BY <2>2, <3>1, StayMoves
  <2> QED BY <2>3, <2>4
<1>4. CASE Wait(c)
  <2>1. /\ handle[c] \in Threads /\ UNCHANGED ps2 /\ valid' = valid \cup {handle[c]}
        /\ valid' \subseteq Threads
    BY <1>4 DEF Wait, WaitParking, Current, OnceInv
  <2>2. CASE Candidates(c) = {}
    <3>1. /\ UNCHANGED handle /\ pending' = [pending EXCEPT ![c] = None]
          /\ code' = [code EXCEPT ![c] = handle[c]]
      BY <1>4, <2>2 DEF Wait, WaitParking
    <3>2. handle' = [handle EXCEPT ![c] = handle[c]] /\ handle[c] # None
      BY <2>1, <3>1, NoneAssumption DEF OnceInv
    <3>3. \A d \in Workers \ {c} : handle[d] # handle[c] /\ pending[d] # handle[c]
      BY <3>2 DEF OnceInv, OneCpu, PendingLives
    <3> QED BY <2>1, <3>1, <3>2, <3>3, OneMoves
  <2>3. CASE Candidates(c) # {}
    <3>1. PICK t \in Picks(c) : SwitchTo(c, t)
      BY <1>4, <2>3 DEF Wait, WaitParking
    <3> QED BY <2>1, <3>1, PickOfNone, SwitchMoves
  <2> QED BY <2>2, <2>3
<1>5. CASE Exit(c)
  <2>1. PICK t \in NextFor(c) :
           /\ valid' = valid \ Current(c)
           /\ IF t \in valid \ Current(c) /\ ~FALSE THEN SwitchTo(c, t)
              ELSE /\ handle'  = [handle EXCEPT ![c] = None]
                   /\ code'    = [code EXCEPT ![c] = None]
                   /\ pending' = [pending EXCEPT ![c] = None]
    BY <1>5 DEF Exit, ExitWith
  <2>2. /\ UNCHANGED ps2 /\ valid \subseteq valid' \cup {handle[c]} /\ valid' \subseteq Threads
    BY <1>5, <2>1 DEF Exit, ExitWith, Current, OnceInv
  <2>3. CASE t \in valid'
    <3>1. t \in Threads /\ t # None /\ SwitchTo(c, t)
      BY <2>1, <2>2, <2>3, NoneAssumption
    <3>2. \A d \in Workers \ {c} : handle[d] # t /\ pending[d] # t
      BY <3>1, NextOfNone
    <3> QED BY <2>2, <3>1, <3>2, SwitchMoves
  <2>4. CASE t \notin valid'
    <3>1. /\ handle' = [handle EXCEPT ![c] = None] /\ code' = [code EXCEPT ![c] = None]
          /\ pending' = [pending EXCEPT ![c] = None]
      BY <2>1, <2>4
    <3> QED BY <2>2, <3>1, OneMoves
  <2> QED BY <2>3, <2>4
<1>6. CASE SignalDeliver(c)
  BY <1>6, StayMoves DEF SignalDeliver, OnceInv
<1>7. CASE SignalReturn(c)
  <2>1. UNCHANGED <<valid, ps2>> /\ valid \subseteq Threads
    BY <1>7 DEF SignalReturn, attrs, OnceInv
  <2>2. CASE pending[c] \in valid
    <3>1. SwitchTo(c, pending[c]) /\ pending[c] \in Threads /\ pending[c] # None
      BY <1>7, <2>1, <2>2, NoneAssumption DEF SignalReturn
    <3>2. \A d \in Workers \ {c} : handle[d] # pending[c] /\ pending[d] # pending[c]
      BY <3>1 DEF OnceInv, OneCpu
    <3> QED BY <2>1, <3>1, <3>2, SwitchMoves
  <2>3. CASE pending[c] \notin valid
    <3>1. UNCHANGED <<handle, code>> /\ pending' = [pending EXCEPT ![c] = None]
      BY <1>7, <2>3 DEF SignalReturn
    <3> QED BY <2>1, <3>1, StayMoves
  <2> QED BY <2>2, <2>3
<1>8. CASE Preempt(c)
  <2>1. /\ handle[c] \in Threads /\ pending[c] = None /\ UNCHANGED ps2
        /\ valid' = valid \cup {handle[c]} /\ valid' \subseteq Threads
    BY <1>8 DEF Preempt, PreemptWhen, Preemptible, OnceInv
  <2>2. CASE Candidates(c) = {}
    <3>1. UNCHANGED <<handle, pending, code>>
      BY <1>8, <2>2 DEF Preempt, PreemptWhen, cpus
    <3> QED BY <2>1, <3>1, NoneMoves
  <2>3. CASE Candidates(c) # {}
    <3>1. PICK t \in Picks(c) :
             handle' = [handle EXCEPT ![c] = t] /\ code' = [code EXCEPT ![c] = t]
             /\ UNCHANGED pending
      BY <1>8, <2>3 DEF Preempt, PreemptWhen
    <3>2. pending' = [pending EXCEPT ![c] = None]
      BY <2>1, <3>1 DEF OnceInv
    <3>3. /\ t \in Threads
          /\ \A d \in Workers \ {c} : handle[d] # t /\ pending[d] # t
      BY PickOfNone
    <3> QED BY <2>1, <3>1, <3>2, <3>3, OneMoves
  <2> QED BY <2>2, <2>3
<1> QED BY <1>1, <1>2, <1>3, <1>4, <1>5, <1>6, <1>7, <1>8 DEF CpuStep

LEMMA ThreadStepOnce ==
    ASSUME OnceInv, NEW t \in Threads, ThreadStep(t)
    PROVE  OnceInv'
<1>1. CASE Create(t)
  <2>1. ps2' = ps2 \/ ps2' = t
    BY <1>1 DEF Create
  <2>2. CASE StartQueued(t)
    <3>1. /\ t \notin valid /\ valid' = valid \cup {t}
          /\ UNCHANGED <<handle, pending, code>>
      BY <2>2 DEF StartQueued, Startable, cpus
    <3> QED BY <2>1, <3>1, NoneMoves DEF OnceInv
  <2>3. ASSUME NEW c \in Workers, StartOnCpu(t, c) PROVE OnceInv'
    <3>1. /\ t \notin valid /\ \A d \in Workers : handle[d] # t
          /\ handle' = [handle EXCEPT ![c] = t] /\ code' = [code EXCEPT ![c] = t]
          /\ valid' = valid \cup {t} /\ UNCHANGED pending
      BY <2>3 DEF StartOnCpu, Startable
    <3>2. /\ pending' = [pending EXCEPT ![c] = pending[c]]
          /\ pending[c] \in Threads \cup {None} /\ valid \subseteq Threads
      BY <3>1 DEF OnceInv
    <3>3. \A d \in Workers : pending[d] # t
      BY <3>1, NoneAssumption DEF OnceInv, PendingLives
    <3>4. pending[c] # None =>
             /\ pending[c] # t /\ pending[c] \in valid' /\ pending[c] # ps2'
             /\ \A d \in Workers \ {c} : handle[d] # pending[c] /\ pending[d] # pending[c]
      BY <2>1, <3>1, <3>3 DEF OnceInv, PendingLives, OneCpu
    <3>5. valid' \subseteq Threads /\ (ps2' \in {ps2, None} \/ ps2' \notin valid)
      BY <2>1, <3>1, <3>2
    <3> QED BY <3>1, <3>2, <3>3, <3>4, <3>5, OneMoves
  <2> QED BY <1>1, <2>2, <2>3 DEF Create
<1>2. CASE SetAttributes(t)
  BY <1>2, NoneMoves DEF SetAttributes, cpus, OnceInv
<1>3. CASE Wake(t)
  BY <1>3, NoneMoves DEF Wake, WakeMarking, OnceInv
<1>4. CASE Kill(t)
  <2>1. /\ ps2 = t /\ ps2' = None /\ valid' = valid \ {t} /\ t \in valid
        /\ valid' \subseteq Threads /\ valid \subseteq valid' \cup {ps2}
    BY <1>4 DEF Kill, OnceInv
  <2>2. CASE \A c \in Workers : handle[c] # t
    <3>1. UNCHANGED <<handle, pending, code>>
      BY <1>4, <2>2 DEF Kill, cpus
    <3> QED BY <2>1, <3>1, NoneMoves
  <2>3. CASE ~ \A c \in Workers : handle[c] # t
    <3>1. PICK c \in Workers :
             /\ handle[c] = t
             /\ handle' = [handle EXCEPT ![c] = None]
             /\ code'   = [code EXCEPT ![c] = Zombie]
             /\ IF Candidates(c) = {} THEN UNCHANGED pending
                ELSE \E u \in Picks(c) : pending' = [pending EXCEPT ![c] = u]
      BY <1>4, <2>3 DEF Kill
    <3>2. CASE Candidates(c) = {}
      <4>1. /\ pending' = [pending EXCEPT ![c] = pending[c]]
            /\ pending[c] \in Threads \cup {None}
        BY <3>1, <3>2 DEF OnceInv
      <4>2. pending[c] # None =>
              /\ pending[c] \in valid' /\ pending[c] # None
              /\ \A d \in Workers \ {c} : handle[d] # pending[c] /\ pending[d] # pending[c]
        BY <2>1 DEF OnceInv, PendingLives, OneCpu
      <4> QED BY <2>1, <3>1, <4>1, <4>2, OneMoves
    <3>3. CASE Candidates(c) # {}
      <4>1. PICK u \in Picks(c) : pending' = [pending EXCEPT ![c] = u]
        BY <3>1, <3>3
      <4>2. /\ u \in Threads /\ u \in valid /\ u # t /\ u # None
            /\ \A d \in Workers : handle[d] # u /\ pending[d] # u
        BY <3>1, PickOfNone, NoneAssumption
      <4> QED BY <2>1, <3>1, <4>1, <4>2, OneMoves
    <3> QED BY <3>2, <3>3
  <2> QED BY <2>2, <2>3
<1> QED BY <1>1, <1>2, <1>3, <1>4 DEF ThreadStep

\* A thread runs on one vCPU at a time, and each vCPU executes the thread the
\* gateway attributes its calls to, or one that was killed: for any number of threads
\* and vCPUs, and whatever is killed, reset, signalled or given another priority.
THEOREM OneCpuHolds == Spec => []OneCpu
<1>1. Init => OnceInv
  BY NoneAssumption DEF Init, OnceInv, OneCpu, PendingLives
<1>2. OnceInv /\ [Next]_vars => OnceInv'
  <2> SUFFICES ASSUME OnceInv, [Next]_vars PROVE OnceInv'
    OBVIOUS
  <2>1. CASE Reset
    BY <2>1 DEF Reset, OnceInv, OneCpu, PendingLives
  <2>2. CASE UNCHANGED vars
    BY <2>2, NoneMoves DEF vars, OnceInv
  <2> QED BY <2>1, <2>2, CpuStepOnce, ThreadStepOnce DEF Next
<1>3. OnceInv => OneCpu
  BY DEF OnceInv
<1> QED BY <1>1, <1>2, <1>3, PTL DEF Spec

----------------------------------------------------------------------------
(* The guest's memory                                                       *)

\* Memory of an area is direct, or of a flexible slot that is in use.
Held(area, us) == area >= DirectSlots => area - DirectSlots \in us \cap Flexible

\* MemoryAccounted of entries es, page tables ps of which ts are taken, and slots us.
Accounted(es, ps, ts, us) ==
    \A a \in Areas :
      /\ es[a].kind = "large" => Held(es[a].at, us)
      /\ es[a].kind = "table" =>
           /\ es[a].at \in ts
           /\ \A b \in Areas \ {a} : ~(es[b].kind = "table" /\ es[b].at = es[a].at)
           /\ \A h \in {0, 1} :
                ps[es[a].at][h].present => Held(Area(ps[es[a].at][h].at), us)
\* The same with nothing at the addresses of a slot that is free.
Calm(es, ps, ts, us) ==
    /\ Accounted(es, ps, ts, us)
    /\ \A s \in Slots \ us : es[Home(s)].kind = "absent"

Typed(es, ps, ts, us) ==
    /\ es \in [Areas -> Entry] /\ ps \in [Tables -> [{0, 1} -> Page]]
    /\ us \subseteq Slots /\ ts \subseteq Tables

\* What the processor finds at a page with entries es and tables ps.
Found(es, ps, p) ==
    LET e == es[Area(p)] IN
    CASE e.kind = "large" -> [present |-> TRUE, at |-> 2 * e.at + Half(p), write |-> e.write]
      [] e.kind = "table" -> [ps[e.at][Half(p)] EXCEPT !.write = @ /\ e.write]
      [] OTHER            -> NoPage

LEMMA MemoryNumbers ==
    /\ Below \in Nat /\ DirectSlots \in Nat /\ FlexibleSlots \in Nat \ {0} /\ TableCount \in Nat
    /\ \A p \in Pages : Area(p) \in Areas /\ Half(p) \in {0, 1} /\ p = 2 * Area(p) + Half(p)
    /\ \A s \in Slots : Home(s) \in Areas /\ Home(s) - Below = s
    /\ \A a \in Areas : a \in Nat /\ (a >= Below => a - Below \in Slots)
    /\ \A f \in Nat, h \in {0, 1} : Area(2 * f + h) = f /\ Half(2 * f + h) = h
    /\ \A a \in Areas, h \in {0, 1} : 2 * a + h \in Pages
    /\ Flexible \subseteq Slots
<1>1. /\ Below \in Nat /\ DirectSlots \in Nat /\ FlexibleSlots \in Nat \ {0}
      /\ TableCount \in Nat
  BY MemoryAssumption
<1>2. \A f \in Nat, h \in {0, 1} : Area(2 * f + h) = f /\ Half(2 * f + h) = h
  BY DEF Area, Half
<1>3. \A p \in Pages : Area(p) \in Areas /\ Half(p) \in {0, 1} /\ p = 2 * Area(p) + Half(p)
  BY <1>1 DEF Area, Half, Pages, Areas
<1>4. \A s \in Slots : Home(s) \in Areas /\ Home(s) - Below = s
  BY <1>1 DEF Slots, Areas, Home
<1>5. \A a \in Areas : a \in Nat /\ (a >= Below => a - Below \in Slots)
  BY <1>1 DEF Slots, Areas
<1>6. \A a \in Areas, h \in {0, 1} : 2 * a + h \in Pages
  BY <1>1 DEF Areas, Pages
<1>7. Flexible \subseteq Slots
  BY <1>1 DEF Flexible, Slots
<1> QED BY <1>1, <1>2, <1>3, <1>4, <1>5, <1>6, <1>7

LEMMA EntryFields ==
    ASSUME NEW e \in Entry
    PROVE  /\ e.kind \in {"absent", "large", "table"} /\ e.write \in BOOLEAN
           /\ e.at \in Slots \cup Tables /\ e.at \in Nat
           /\ \A w \in BOOLEAN : /\ [e EXCEPT !.write = w] \in Entry
                                 /\ [e EXCEPT !.write = w].kind = e.kind
                                 /\ [e EXCEPT !.write = w].at = e.at
<1> DEFINE ats == Slots \cup Tables  kindsOf == {"absent", "large", "table"}
<1>1. e \in [kind : kindsOf, at : ats, write : BOOLEAN]
  BY DEF Entry
<1>2. \A x \in ats : x \in Nat
  BY DEF Slots, Tables
<1> HIDE DEF ats, kindsOf
<1>3. e.kind \in kindsOf /\ e.write \in BOOLEAN /\ e.at \in ats
  BY <1>1
<1>4. \A w \in BOOLEAN : /\ [e EXCEPT !.write = w] \in [kind : kindsOf, at : ats, write : BOOLEAN]
                         /\ [e EXCEPT !.write = w].kind = e.kind
                         /\ [e EXCEPT !.write = w].at = e.at
  BY <1>1
<1> QED BY <1>2, <1>3, <1>4 DEF Entry, ats, kindsOf

LEMMA PageFields ==
    ASSUME NEW x \in Page
    PROVE  /\ x.present \in BOOLEAN /\ x.write \in BOOLEAN /\ x.at \in Pages
           /\ \A w \in BOOLEAN : /\ [x EXCEPT !.write = w] \in Page
                                 /\ [x EXCEPT !.write = w].present = x.present
                                 /\ [x EXCEPT !.write = w].at = x.at
<1>1. x \in [present : BOOLEAN, at : Pages, write : BOOLEAN]
  BY DEF Page
<1> HIDE DEF Pages
<1> QED BY <1>1 DEF Page

LEMMA EntryMade ==
    /\ Absent \in Entry /\ Absent.kind = "absent"
    /\ \A f \in Slots, w \in BOOLEAN :
         Large(f, w) \in Entry /\ Large(f, w).kind = "large" /\ Large(f, w).at = f
    /\ \A t \in Tables : TableAt(t) \in Entry /\ TableAt(t).kind = "table" /\ TableAt(t).at = t
<1>1. 0 \in Slots
  BY MemoryNumbers DEF Slots
<1> HIDE DEF Slots, Tables
<1> QED BY <1>1 DEF Absent, Large, TableAt, Entry

LEMMA NoPageMade == NoPage \in Page /\ ~NoPage.present
<1>1. 0 \in Pages
  BY MemoryNumbers DEF Pages
<1> QED BY <1>1 DEF NoPage, Page

\* What is found and accounted is what MemoryAccounted says.
LEMMA AccountedMeans ==
    ASSUME Typed(entries, ptes, tablesUsed, used),
           Accounted(entries, ptes, tablesUsed, used)
    PROVE  MemoryAccounted
<1>1. ASSUME NEW p \in Pages, Translation(p).present, Area(Translation(p).at) >= DirectSlots
      PROVE  Area(Translation(p).at) - DirectSlots \in used
  <2> DEFINE e == entries[Area(p)]
  <2>1. Area(p) \in Areas /\ Half(p) \in {0, 1}
    BY MemoryNumbers
  <2>2. e \in Entry /\ e.at \in Nat
    BY <2>1, EntryFields DEF Typed
  <2>3. CASE e.kind = "large"
    <3>1. Translation(p).at = 2 * e.at + Half(p)
      BY <2>3 DEF Translation
    <3>2. Area(Translation(p).at) = e.at
      BY <2>1, <2>2, <3>1, MemoryNumbers
    <3> QED BY <1>1, <2>1, <2>3, <3>2 DEF Accounted, Held
  <2>4. CASE e.kind = "table"
    <3> DEFINE x == ptes[e.at][Half(p)]
    <3>1. e.at \in Tables
      BY <2>1, <2>4 DEF Accounted, Typed
    <3>2. x \in Page
      BY <2>1, <3>1 DEF Typed
    <3>3. Translation(p) = [x EXCEPT !.write = @ /\ e.write]
      BY <2>4 DEF Translation
    <3>4. (x.write /\ e.write) \in BOOLEAN
      OBVIOUS
    <3>7. \A h \in {0, 1} :
            ptes[e.at][h].present => Held(Area(ptes[e.at][h].at), used)
      BY <2>1, <2>4 DEF Accounted
    <3>6. x.present => Held(Area(x.at), used)
      BY <2>1, <3>7
    <3> HIDE DEF x
    <3>5. Translation(p).present = x.present /\ Translation(p).at = x.at
      BY <3>2, <3>3, <3>4, PageFields
    <3> QED BY <1>1, <3>5, <3>6 DEF Held
  <2>5. CASE e.kind = "absent"
    BY <1>1, <2>5, NoPageMade DEF Translation
  <2> QED BY <2>2, <2>3, <2>4, <2>5, EntryFields
<1>2. \A a \in Areas : entries[a].kind = "table" =>
        /\ entries[a].at \in tablesUsed
        /\ \A b \in Areas \ {a} : ~Names(b, entries[a].at)
  BY DEF Accounted, Names
<1> QED BY <1>1, <1>2 DEF MemoryAccounted

\* A change that keeps entries, makes them absent, or large ones of memory that is held,
\* frees no slot and leaves nothing at the addresses of free ones.
LEMMA CalmKept ==
    ASSUME NEW es, NEW ps, NEW ts, NEW us, Calm(es, ps, ts, us),
           NEW es2, NEW pt2, NEW us2, us \subseteq us2,
           \A a \in Areas :
             \/ es2[a].kind = "absent"
             \/ es2[a].kind = es[a].kind /\ es2[a].at = es[a].at
             \/ es2[a].kind = "large" /\ Held(es2[a].at, us2),
           \A t \in ts, h \in {0, 1} :
             pt2[t][h].present = ps[t][h].present /\ pt2[t][h].at = ps[t][h].at,
           \A s \in Slots \ us2 : es2[Home(s)].kind = "absent"
    PROVE  Calm(es2, pt2, ts, us2)
<1>1. \A area : Held(area, us) => Held(area, us2)
  BY DEF Held
<1>2. Accounted(es, ps, ts, us)
  BY DEF Calm
<1>3. ASSUME NEW a \in Areas, es2[a].kind = "large" PROVE Held(es2[a].at, us2)
  BY <1>1, <1>2, <1>3 DEF Accounted
<1>4. ASSUME NEW a \in Areas, es2[a].kind = "table"
      PROVE  /\ es2[a].at \in ts
             /\ \A b \in Areas \ {a} : ~(es2[b].kind = "table" /\ es2[b].at = es2[a].at)
             /\ \A h \in {0, 1} :
                  pt2[es2[a].at][h].present => Held(Area(pt2[es2[a].at][h].at), us2)
  <2>1. \A b \in Areas : es2[b].kind = "table" => es[b].kind = "table" /\ es2[b].at = es[b].at
    OBVIOUS
  <2>2. es2[a].at = es[a].at /\ es[a].kind = "table" /\ es[a].at \in ts
    BY <1>2, <1>4, <2>1 DEF Accounted
  <2>3. \A b \in Areas \ {a} : ~(es2[b].kind = "table" /\ es2[b].at = es2[a].at)
    BY <1>2, <2>1, <2>2 DEF Accounted
  <2>4. \A h \in {0, 1} :
          pt2[es[a].at][h].present => Held(Area(pt2[es[a].at][h].at), us2)
    BY <1>1, <1>2, <2>2 DEF Accounted
  <2> QED BY <2>2, <2>3, <2>4
<1> QED BY <1>3, <1>4 DEF Calm, Accounted

\* The same of slots that are freed when their memory is seen nowhere else.
LEMMA CalmFreed ==
    ASSUME NEW es, NEW ps, NEW ts, NEW us, Calm(es, ps, ts, us), NEW gone \in SUBSET Slots,
           \A a \in Areas :
             /\ es[a].kind = "large" => es[a].at - DirectSlots \notin gone \cap Flexible
             /\ es[a].kind = "table" => \A h \in {0, 1} :
                  ps[es[a].at][h].present =>
                    Area(ps[es[a].at][h].at) - DirectSlots \notin gone \cap Flexible,
           \A s \in gone : es[Home(s)].kind = "absent"
    PROVE  Calm(es, ps, ts, us \ gone)
<1>1. \A area : Held(area, us) /\ area - DirectSlots \notin gone \cap Flexible
                  => Held(area, us \ gone)
  BY DEF Held
<1>2. Accounted(es, ps, ts, us)
  BY DEF Calm
<1>3. \A a \in Areas : es[a].kind = "large" => Held(es[a].at, us \ gone)
  BY <1>1, <1>2 DEF Accounted
<1>4. ASSUME NEW a \in Areas, es[a].kind = "table", NEW h \in {0, 1},
             ps[es[a].at][h].present
      PROVE  Held(Area(ps[es[a].at][h].at), us \ gone)
  BY <1>1, <1>2, <1>4 DEF Accounted
<1>5. Accounted(es, ps, ts, us \ gone)
  BY <1>2, <1>3, <1>4 DEF Accounted
<1> QED BY <1>5 DEF Calm

\* A guest that does none of what makes mappings of others disappear.
CarefulGuest == {"unmap_shared", "alias_table", "straddle"} \cap MemoryPermitted = {}
CalmInv ==
    /\ mapping = NoMapping
    /\ Typed(entries, ptes, tablesUsed, used) /\ Calm(entries, ptes, tablesUsed, used)

LEMMA TranslationsKept ==
    ASSUME UNCHANGED ptes,
           \A a \in Areas : \/ entries'[a] = entries[a]
                            \/ entries'[a].kind = "absent" /\ entries[a].kind = "absent"
    PROVE  UNCHANGED Translations
<1>1. ASSUME NEW p \in Pages PROVE Translation(p)' = Translation(p)
  <2>1. Area(p) \in Areas
    BY MemoryNumbers
  <2> QED BY <2>1 DEF Translation
<1> QED BY <1>1 DEF Translations

LEMMA LeastNat ==
    ASSUME NEW T \in SUBSET Nat, T # {}
    PROVE  Least(T) \in T /\ \A y \in T : Least(T) <= y
<1> DEFINE R == OpToRel(<, Nat)
<1>1. IsWellFoundedOn(R, Nat)
  BY NatLessThanWellFounded
<1>2. \A x, y \in Nat : x < y => <<x, y>> \in R
  BY DEF OpToRel
<1> HIDE DEF R
<1>3. PICK x \in T : \A y \in T : ~(<<y, x>> \in R)
  BY <1>1, WFMin
<1>4. \A y \in T : ~(y < x)
  BY <1>2, <1>3
<1>5. \E z \in T : \A y \in T : z <= y
  BY <1>3, <1>4
<1> QED BY <1>5 DEF Least

LEMMA GreatestNat ==
    ASSUME NEW n \in Nat, NEW T \in SUBSET (0 .. n), T # {}
    PROVE  Greatest(T) \in T
<1> DEFINE I == {n - i : i \in T}
<1>1. \A i \in T : i \in Nat /\ n - i \in Nat
  OBVIOUS
<1>2. I \in SUBSET Nat /\ I # {} /\ \A i \in T : n - i \in I
  BY <1>1
<1>3. PICK k \in T : Least(I) = n - k
  BY <1>2, LeastNat
<1>4. \A y \in I : Least(I) <= y
  BY <1>2, LeastNat
<1> HIDE DEF I
<1>5. ASSUME NEW i \in T PROVE i <= k
  <2>1. n - k <= n - i
    BY <1>2, <1>3, <1>4
  <2> QED BY <1>1, <2>1
<1>6. \E h \in T : \A y \in T : y <= h
  BY <1>5
<1> QED BY <1>6 DEF Greatest

\* Nothing is found at the addresses of free slots, and so it stays.
LEMMA WithoutVacant ==
    ASSUME CalmInv, NEW R, R \subseteq Slots \ used, entries' = Without(entries, R),
           used' = used \ R, UNCHANGED <<ptes, tablesUsed, mapping>>
    PROVE  CalmInv' /\ UNCHANGED <<Translations, tablesUsed>>
<1>a. /\ entries \in [Areas -> Entry] /\ ptes \in [Tables -> [{0, 1} -> Page]]
      /\ used \subseteq Slots /\ tablesUsed \subseteq Tables
      /\ Calm(entries, ptes, tablesUsed, used)
  BY DEF CalmInv, Typed
<1>1. /\ entries' = [a \in Areas |-> IF a - Below \in R THEN Absent ELSE entries[a]]
      /\ used' = used
  BY DEF Without
<1>2. \A a \in Areas : a - Below \in R => entries[a].kind = "absent"
  <2>1. \A a \in Areas : a - Below \in R => Home(a - Below) = a
    BY MemoryNumbers DEF Home
  <2> QED BY <1>a, <2>1 DEF Calm
<1>3. \A a \in Areas : \/ entries'[a] = entries[a]
                       \/ entries'[a].kind = "absent" /\ entries[a].kind = "absent"
  BY <1>1, <1>2, EntryMade
<1>4. entries' \in [Areas -> Entry]
  BY <1>a, <1>1, EntryMade
<1>5. \A s \in Slots \ used : entries'[Home(s)].kind = "absent"
  BY <1>a, <1>3, MemoryNumbers DEF Calm
<1>6. Calm(entries', ptes, tablesUsed, used)
  BY <1>a, <1>3, <1>5, CalmKept
<1>7. CalmInv'
  BY <1>a, <1>1, <1>4, <1>6 DEF CalmInv, Typed
<1> QED BY <1>3, <1>7, TranslationsKept

LEMMA MapRunKeeps ==
    ASSUME CalmInv, NEW start \in Nat, NEW n \in Nat, NEW w \in BOOLEAN, NEW fault \in 0 .. n,
           Run(start, n) \subseteq Flexible \ used, MapRun(start, n, w, fault),
           UNCHANGED <<ptes, tablesUsed, mapping>>
    PROVE  CalmInv' /\ (fault < n => UNCHANGED <<Translations, tablesUsed>>)
<1>a. /\ entries \in [Areas -> Entry] /\ ptes \in [Tables -> [{0, 1} -> Page]]
      /\ used \subseteq Slots /\ tablesUsed \subseteq Tables
      /\ Calm(entries, ptes, tablesUsed, used)
  BY DEF CalmInv, Typed
<1>1. CASE fault = n
  <2> DEFINE R == Run(start, n)
  <2>1. /\ entries' = [a \in Areas |-> IF a - Below \in R
                                       THEN Large(Memory(a - Below), w) ELSE entries[a]]
        /\ used' = used \cup R
    BY <1>1 DEF MapRun, BackedBy
  <2>2. R \subseteq Flexible \ used /\ R \subseteq Slots
    BY MemoryNumbers
  <2> HIDE DEF R
  <2>3. \A s \in Flexible : Memory(s) \in Slots /\ Memory(s) - DirectSlots = s
    BY MemoryNumbers DEF Memory, Flexible, Slots
  <2>4. \A a \in Areas : a - Below \in R =>
          /\ Large(Memory(a - Below), w) \in Entry
          /\ Large(Memory(a - Below), w).kind = "large"
          /\ Held(Large(Memory(a - Below), w).at, used')
    BY <2>1, <2>2, <2>3, EntryMade DEF Held
  <2>5. entries' \in [Areas -> Entry] /\ used' \subseteq Slots
    BY <1>a, <2>1, <2>2, <2>4
  <2>6. ASSUME NEW s \in Slots \ used' PROVE entries'[Home(s)].kind = "absent"
    <3>1. Home(s) \in Areas /\ Home(s) - Below = s
      BY MemoryNumbers
    <3>2. entries'[Home(s)] = entries[Home(s)]
      BY <2>1, <2>6, <3>1
    <3>3. s \in Slots \ used
      BY <2>1, <2>6
    <3> QED BY <1>a, <3>2, <3>3 DEF Calm
  <2>7. \A a \in Areas :
             \/ entries'[a].kind = entries[a].kind /\ entries'[a].at = entries[a].at
             \/ entries'[a].kind = "large" /\ Held(entries'[a].at, used')
    BY <2>1, <2>4
  <2>8. Calm(entries', ptes, tablesUsed, used')
    BY <1>a, <2>1, <2>6, <2>7, CalmKept
  <2>9. CalmInv'
    BY <1>a, <2>5, <2>8 DEF CalmInv, Typed
  <2> QED BY <1>1, <2>9
<1>2. CASE fault # n
  <2> DEFINE R == Run(start, fault + 1)
  <2>1. entries' = Without(entries, R) /\ used' = used \ R
    BY <1>2 DEF MapRun
  <2>2. R \subseteq Run(start, n)
    BY <1>2 DEF Run
  <2>3. R \subseteq Slots \ used
    BY <2>2, MemoryNumbers
  <2> HIDE DEF R
  <2> QED BY <2>1, <2>3, WithoutVacant
<1> QED BY <1>1, <1>2

\* What every call does: it keeps what is accounted, and leaves no trace if it fails.
CallKeeps ==
    CalmInv' /\ (outcome' = "failed" => UNCHANGED <<Translations, tablesUsed>>)

\* The slots of pages that are one or two.
LEMMA SlotsAreRun ==
    ASSUME NEW first \in Pages, NEW last \in Pages, first <= last
    PROVE  /\ SlotsOf(first, last) = (Area(first) - Below) .. (Area(last) - Below)
           /\ Area(first) <= Area(last)
           /\ Cardinality(SlotsOf(first, last)) = Area(last) - Area(first) + 1
           /\ Run(Area(first) - Below, Cardinality(SlotsOf(first, last))) = SlotsOf(first, last)
           /\ \A a \in Areas : a - Below \in SlotsOf(first, last) <=> a \in AreasOf(first, last)
<1>1. Area(first) \in Nat /\ Area(last) \in Nat /\ Area(first) <= Area(last)
  <2>1. first \in Nat /\ last \in Nat
    BY DEF Pages
  <2> QED BY <2>1 DEF Area
<1>2. Below \in Nat
  BY MemoryNumbers
<1>3. SlotsOf(first, last) = (Area(first) - Below) .. (Area(last) - Below)
  <2>1. ASSUME NEW s \in (Area(first) - Below) .. (Area(last) - Below)
        PROVE  s \in SlotsOf(first, last)
    <3>1. s + Below \in AreasOf(first, last) /\ (s + Below) - Below = s
      BY <1>1, <1>2 DEF AreasOf
    <3> QED BY <3>1 DEF SlotsOf
  <2>2. ASSUME NEW s \in SlotsOf(first, last)
        PROVE  s \in (Area(first) - Below) .. (Area(last) - Below)
    BY <1>1, <1>2 DEF SlotsOf, AreasOf
  <2> QED BY <2>1, <2>2
<1>4. Cardinality(SlotsOf(first, last)) = Area(last) - Area(first) + 1
  <2>1. Area(first) - Below \in Int /\ Area(last) - Below \in Int
    BY <1>1, <1>2
  <2>2. Cardinality((Area(first) - Below) .. (Area(last) - Below)) =
          IF Area(first) - Below > Area(last) - Below THEN 0
          ELSE (Area(last) - Below) - (Area(first) - Below) + 1
    BY <2>1, FS_Interval
  <2> QED BY <1>1, <1>2, <1>3, <2>2
<1>5. Run(Area(first) - Below, Cardinality(SlotsOf(first, last))) = SlotsOf(first, last)
  BY <1>1, <1>2, <1>3, <1>4 DEF Run
<1>6. ASSUME NEW a \in Areas
      PROVE  a - Below \in SlotsOf(first, last) <=> a \in AreasOf(first, last)
  <2>1. a \in Nat
    BY MemoryNumbers
  <2> QED BY <1>1, <1>2, <1>3, <2>1 DEF AreasOf
<1> QED BY <1>1, <1>3, <1>4, <1>5, <1>6

LEMMA MmapKeeps ==
    ASSUME CalmInv, NEW n \in Sizes2, NEW w \in Rights, NEW fault \in 0 .. n, Mmap(n, w, fault)
    PROVE  CallKeeps
<1>1. VacantRuns(n) # {} /\ VacantRuns(n) \subseteq Nat
  BY DEF Mmap, VacantRuns, Flexible
<1>2. Least(VacantRuns(n)) \in VacantRuns(n)
  BY <1>1, LeastNat
<1> DEFINE start == Least(VacantRuns(n))
<1>3. start \in Nat /\ Run(start, n) \subseteq Flexible \ used
  BY <1>1, <1>2 DEF VacantRuns, Vacant
<1>4. n \in Nat /\ w \in BOOLEAN
  BY MemoryAssumption DEF Sizes2
<1>5. /\ MapRun(start, n, w, fault) /\ UNCHANGED <<ptes, tablesUsed, mapping>>
      /\ outcome' = IF fault < n THEN "failed" ELSE "done"
  BY DEF Mmap, Serve
<1> HIDE DEF start
<1>6. CalmInv' /\ (fault < n => UNCHANGED <<Translations, tablesUsed>>)
  BY <1>3, <1>4, <1>5, MapRunKeeps
<1> QED BY <1>5, <1>6 DEF CallKeeps

LEMMA MmapAtKeeps ==
    ASSUME CalmInv, NEW first \in Pages, NEW last \in Pages, first <= last, NEW w \in Rights,
           NEW fault \in 0 .. Cardinality(SlotsOf(first, last)), MmapAt(first, last, w, fault)
    PROVE  CallKeeps
<1> DEFINE start == Area(first) - Below  n == Cardinality(SlotsOf(first, last))
<1>1. Run(start, n) = SlotsOf(first, last)
  BY SlotsAreRun
<1>2. n \in Nat /\ n >= 1 /\ start \in Int
  <2>1. Area(first) \in Nat /\ Area(last) \in Nat /\ Below \in Nat
    BY MemoryNumbers DEF Areas
  <2>2. n = Area(last) - Area(first) + 1 /\ Area(first) <= Area(last)
    BY SlotsAreRun
  <2> HIDE DEF n
  <2> QED BY <2>1, <2>2
<1>3. SlotsOf(first, last) \subseteq Flexible \ used
  BY DEF MmapAt
<1>4. start \in Run(start, n)
  BY <1>2 DEF Run
<1>5. start \in Nat
  BY <1>1, <1>3, <1>4 DEF Flexible
<1>6. w \in BOOLEAN
  BY MemoryAssumption
<1>7. /\ MapRun(start, n, w, fault) /\ UNCHANGED <<ptes, tablesUsed, mapping>>
      /\ outcome' = IF fault < n THEN "failed" ELSE "done"
  BY DEF MmapAt, Serve
<1>8. fault \in 0 .. n
  OBVIOUS
<1> HIDE DEF start, n
<1>9. CalmInv' /\ (fault < n => UNCHANGED <<Translations, tablesUsed>>)
  BY <1>1, <1>2, <1>3, <1>5, <1>6, <1>7, <1>8, MapRunKeeps
<1> QED BY <1>7, <1>9 DEF CallKeeps

LEMMA AliasKeeps ==
    ASSUME CarefulGuest, CalmInv, NEW source \in Flexible, NEW n \in Sizes2, NEW w \in Rights,
           NEW fault \in 0 .. n, Alias(source, n, w, fault)
    PROVE  CallKeeps
<1> DEFINE target == Greatest(VacantRuns(n))
<1>a. /\ entries \in [Areas -> Entry] /\ ptes \in [Tables -> [{0, 1} -> Page]]
      /\ used \subseteq Slots /\ tablesUsed \subseteq Tables
      /\ Calm(entries, ptes, tablesUsed, used)
  BY DEF CalmInv, Typed
<1>b. n \in Nat /\ w \in BOOLEAN /\ source \in Nat
  BY MemoryAssumption DEF Sizes2, Flexible
<1>1. target \in VacantRuns(n)
  <2>1. VacantRuns(n) \subseteq 0 .. FlexibleSlots - 1 /\ VacantRuns(n) # {}
    BY DEF Alias, VacantRuns, Flexible
  <2>2. FlexibleSlots - 1 \in Nat
    BY MemoryNumbers
  <2> QED BY <2>1, <2>2, GreatestNat
<1>2. target \in Nat /\ Run(target, n) \subseteq Flexible \ used
  BY <1>1 DEF VacantRuns, Vacant, Flexible
<1>3. UNCHANGED <<ptes, tablesUsed, mapping>>
  BY DEF Alias
<1>4. CASE fault # n
  <2> DEFINE R == Run(target, fault)
  <2>1. entries' = Without(entries, R) /\ used' = used \ R
    BY <1>4 DEF Alias
  <2>2. R \subseteq Run(target, n)
    BY <1>2, <1>b DEF Run
  <2>3. R \subseteq Slots \ used
    BY <1>2, <2>2, MemoryNumbers
  <2> HIDE DEF R
  <2>4. CalmInv' /\ UNCHANGED <<Translations, tablesUsed>>
    BY <1>3, <2>1, <2>3, WithoutVacant
  <2> QED BY <2>4 DEF CallKeeps
<1>5. CASE fault = n
  <2> DEFINE R == Run(target, n)
             From(a) == entries[a - target + source]
             View(a) == IF From(a).kind = "absent" THEN From(a) ELSE [From(a) EXCEPT !.write = w]
  <2>1. /\ entries' = [a \in Areas |-> IF a - Below \in R THEN View(a) ELSE entries[a]]
        /\ used' = used \cup R
    BY <1>5 DEF Alias
  <2>2. \A s \in Run(source, n) : s \in Flexible /\ entries[Home(s)].kind # "table"
    BY DEF Alias, CarefulGuest
  <2>3. R \subseteq Flexible \ used
    BY <1>2
  <2>4. ASSUME NEW a \in Areas, a - Below \in R
        PROVE  a - target + source \in Areas /\ From(a).kind # "table"
    <3> DEFINE s == a - Below - target + source
    <3>1. s \in Run(source, n)
      BY <1>2, <1>b, <2>4, MemoryNumbers DEF Run
    <3>2. Home(s) = a - target + source
      BY <1>2, <1>b, MemoryNumbers DEF Home
    <3>3. Home(s) \in Areas
      BY <2>2, <3>1, MemoryNumbers
    <3> QED BY <2>2, <3>1, <3>2, <3>3
  <2>5. ASSUME NEW a \in Areas, a - Below \in R
        PROVE  /\ View(a) \in Entry
               /\ \/ View(a).kind = "absent"
                  \/ View(a).kind = "large" /\ Held(View(a).at, used)
    <3> DEFINE e == From(a)
    <3>1. e \in Entry /\ e.kind # "table"
      BY <1>a, <2>4, <2>5
    <3>2. e.kind = "large" => Held(e.at, used)
      BY <1>a, <2>4, <2>5 DEF Calm, Accounted
    <3>3. View(a) = IF e.kind = "absent" THEN e ELSE [e EXCEPT !.write = w]
      OBVIOUS
    <3> HIDE DEF e, View, From
    <3>4. e.kind \in {"absent", "large"}
      BY <3>1, EntryFields
    <3> QED BY <1>b, <3>1, <3>2, <3>3, <3>4, EntryFields
  <2> HIDE DEF R, View, From
  <2>6. entries' \in [Areas -> Entry] /\ used' \subseteq Slots
    BY <1>a, <2>1, <2>3, <2>5, MemoryNumbers
  <2>7. ASSUME NEW s \in Slots \ used' PROVE entries'[Home(s)].kind = "absent"
    <3>1. Home(s) \in Areas /\ Home(s) - Below = s
      BY MemoryNumbers
    <3>2. entries'[Home(s)] = entries[Home(s)]
      BY <2>1, <2>7, <3>1
    <3>3. s \in Slots \ used
      BY <2>1, <2>7
    <3> QED BY <1>a, <3>2, <3>3 DEF Calm
  <2>8. \A area : Held(area, used) => Held(area, used')
    BY <2>1 DEF Held
  <2>9. \A a \in Areas :
          \/ entries'[a].kind = "absent"
          \/ entries'[a].kind = entries[a].kind /\ entries'[a].at = entries[a].at
          \/ entries'[a].kind = "large" /\ Held(entries'[a].at, used')
    BY <2>1, <2>5, <2>8
  <2>10. Calm(entries', ptes, tablesUsed, used')
    BY <1>a, <2>1, <2>7, <2>9, CalmKept
  <2>11. CalmInv'
    BY <1>3, <1>a, <2>6, <2>10 DEF CalmInv, Typed
  <2>12. outcome' # "failed"
    BY <1>5, <1>b DEF Alias, Serve
  <2> QED BY <2>11, <2>12 DEF CallKeeps
<1> QED BY <1>4, <1>5

\* A page that holds the memory of a large entry or of a table's is seen there.
LEMMA SeenThere ==
    ASSUME Typed(entries, ptes, tablesUsed, used), Accounted(entries, ptes, tablesUsed, used),
           NEW a \in Areas, NEW h \in {0, 1}
    PROVE  /\ 2 * a + h \in Pages /\ Area(2 * a + h) = a
           /\ entries[a].kind = "large" =>
                /\ Translation(2 * a + h).present
                /\ Area(Translation(2 * a + h).at) = entries[a].at
           /\ entries[a].kind = "table" =>
                /\ Translation(2 * a + h).present = ptes[entries[a].at][h].present
                /\ Translation(2 * a + h).at = ptes[entries[a].at][h].at
<1> DEFINE p == 2 * a + h
<1>1. p \in Pages /\ Area(p) = a /\ Half(p) = h
  BY MemoryNumbers
<1>2. entries[a] \in Entry /\ entries[a].at \in Nat
  BY EntryFields DEF Typed
<1> HIDE DEF p
<1>3. ASSUME entries[a].kind = "large"
      PROVE  Translation(p).present /\ Area(Translation(p).at) = entries[a].at
  <2>1. Translation(p).present /\ Translation(p).at = 2 * entries[a].at + h
    BY <1>1, <1>3 DEF Translation
  <2> QED BY <1>2, <2>1, MemoryNumbers
<1>4. ASSUME entries[a].kind = "table"
      PROVE  /\ Translation(p).present = ptes[entries[a].at][h].present
             /\ Translation(p).at = ptes[entries[a].at][h].at
  <2> DEFINE x == ptes[entries[a].at][h]
  <2>1. entries[a].at \in Tables
    BY <1>4 DEF Accounted, Typed
  <2>2. x \in Page
    BY <2>1 DEF Typed
  <2>3. Translation(p) = [x EXCEPT !.write = @ /\ entries[a].write]
    BY <1>1, <1>4 DEF Translation
  <2>4. (x.write /\ entries[a].write) \in BOOLEAN
    OBVIOUS
  <2> HIDE DEF x
  <2>5. Translation(p).present = x.present /\ Translation(p).at = x.at
    BY <2>2, <2>3, <2>4, PageFields
  <2> QED BY <2>5 DEF x
<1> QED BY <1>1, <1>3, <1>4 DEF p

\* Slots are freed whose memory is seen nowhere else.
LEMMA FreedKeeps ==
    ASSUME CalmInv, NEW S \in SUBSET Slots, SeenOnlyAt(S),
           entries' = Without(entries, S), used' = used \ S,
           ptes' \in [Tables -> [{0, 1} -> Page]],
           \A t \in Tables, h \in {0, 1} :
             ptes'[t][h].present = ptes[t][h].present /\ ptes'[t][h].at = ptes[t][h].at,
           UNCHANGED <<tablesUsed, mapping>>
    PROVE  CalmInv'
<1>a. /\ entries \in [Areas -> Entry] /\ ptes \in [Tables -> [{0, 1} -> Page]]
      /\ used \subseteq Slots /\ tablesUsed \subseteq Tables
      /\ Calm(entries, ptes, tablesUsed, used)
      /\ Typed(entries, ptes, tablesUsed, used) /\ Accounted(entries, ptes, tablesUsed, used)
  BY DEF CalmInv, Typed, Calm
<1>1. entries' = [a \in Areas |-> IF a - Below \in S THEN Absent ELSE entries[a]]
  BY DEF Without
<1>2. entries' \in [Areas -> Entry]
  BY <1>a, <1>1, EntryMade
<1>3. \A a \in Areas : \/ entries'[a].kind = "absent" /\ a - Below \in S
                       \/ entries'[a] = entries[a] /\ a - Below \notin S
  BY <1>1, EntryMade
<1>4. \A s \in Slots : Home(s) \in Areas /\ Home(s) - Below = s
  BY MemoryNumbers
<1>5. /\ \A s \in Slots \ used : entries'[Home(s)].kind = "absent"
      /\ \A s \in S : entries'[Home(s)].kind = "absent"
  BY <1>a, <1>3, <1>4 DEF Calm
<1>6. Calm(entries', ptes', tablesUsed, used)
  <2>1. \A a \in Areas :
             \/ entries'[a].kind = "absent"
             \/ entries'[a].kind = entries[a].kind /\ entries'[a].at = entries[a].at
    BY <1>3
  <2>2. \A t \in tablesUsed, h \in {0, 1} :
          ptes'[t][h].present = ptes[t][h].present /\ ptes'[t][h].at = ptes[t][h].at
    BY <1>a
  <2> QED BY <1>a, <1>5, <2>1, <2>2, CalmKept
<1>7. ASSUME NEW p \in Pages, Translation(p).present, Area(p) - Below \notin S
      PROVE  Area(Translation(p).at) - DirectSlots \notin S \cap Flexible
  <2>1. Area(Translation(p).at) \notin {Memory(s) : s \in S \cap Flexible}
    BY <1>7 DEF SeenOnlyAt
  <2>2. Translation(p).at \in Nat
    <3>1. Area(p) \in Areas /\ Half(p) \in {0, 1} /\ p = 2 * Area(p) + Half(p)
      BY MemoryNumbers
    <3> DEFINE a == Area(p)  h == Half(p)
    <3> HIDE DEF a, h
    <3>2. a \in Areas /\ h \in {0, 1} /\ p = 2 * a + h
      BY <3>1 DEF a, h
    <3>3. entries[a] \in Entry
      BY <1>a, <3>2
    <3>4. CASE entries[a].kind = "large"
      <4>1. Translation(p).at = 2 * entries[a].at + h
        BY <3>4 DEF Translation, a, h
      <4> QED BY <3>2, <3>3, <4>1, EntryFields
    <3>5. CASE entries[a].kind = "table"
      <4>1. Translation(p).at = ptes[entries[a].at][h].at
        BY <1>a, <3>2, <3>5, SeenThere
      <4>2. entries[a].at \in Tables
        BY <1>a, <3>2, <3>5 DEF Accounted
      <4>3. ptes[entries[a].at][h] \in Page
        BY <1>a, <3>2, <4>2
      <4>4. ptes[entries[a].at][h].at \in Pages
        BY <4>3, PageFields
      <4> QED BY <4>1, <4>4 DEF Pages
    <3>6. CASE entries[a].kind = "absent"
      BY <1>7, <3>6, NoPageMade DEF Translation, a
    <3> QED BY <3>3, <3>4, <3>5, <3>6, EntryFields
  <2>3. Area(Translation(p).at) \in Nat
    BY <2>2 DEF Area
  <2>4. \A s \in S \cap Flexible : s \in Nat /\ Memory(s) = DirectSlots + s
    BY DEF Flexible, Memory
  <2> QED BY <2>1, <2>3, <2>4, MemoryNumbers
<1>8. ASSUME NEW a \in Areas, entries'[a].kind = "large"
      PROVE  entries'[a].at - DirectSlots \notin S \cap Flexible
  <2>1. entries'[a] = entries[a] /\ a - Below \notin S
    BY <1>3, <1>8
  <2> DEFINE p == 2 * a + 0
  <2>2. /\ p \in Pages /\ Area(p) = a
        /\ Translation(p).present /\ Area(Translation(p).at) = entries[a].at
    BY <1>a, <1>8, <2>1, SeenThere
  <2> HIDE DEF p
  <2> QED BY <1>7, <2>1, <2>2
<1>9. ASSUME NEW a \in Areas, entries'[a].kind = "table", NEW h \in {0, 1},
             ptes'[entries'[a].at][h].present
      PROVE  Area(ptes'[entries'[a].at][h].at) - DirectSlots \notin S \cap Flexible
  <2>1. entries'[a] = entries[a] /\ a - Below \notin S
    BY <1>3, <1>9
  <2>2. entries[a].at \in Tables
    BY <1>a, <1>9, <2>1 DEF Accounted
  <2>3. /\ ptes[entries[a].at][h].present
        /\ ptes'[entries'[a].at][h].at = ptes[entries[a].at][h].at
    BY <1>9, <2>1, <2>2
  <2> DEFINE p == 2 * a + h
  <2>5. entries[a].kind = "table"
    BY <1>9, <2>1
  <2>6. /\ p \in Pages /\ Area(p) = a
        /\ Translation(p).present = ptes[entries[a].at][h].present
        /\ Translation(p).at = ptes[entries[a].at][h].at
    BY <1>a, <2>5, SeenThere
  <2> HIDE DEF p
  <2>4. Translation(p).present
    BY <2>3, <2>6
  <2> QED BY <1>7, <2>1, <2>3, <2>4, <2>6
<1>10. Calm(entries', ptes', tablesUsed, used')
  <2>1. \A a \in Areas :
             /\ entries'[a].kind = "large" => entries'[a].at - DirectSlots \notin S \cap Flexible
             /\ entries'[a].kind = "table" => \A h \in {0, 1} :
                  ptes'[entries'[a].at][h].present =>
                    Area(ptes'[entries'[a].at][h].at) - DirectSlots \notin S \cap Flexible
    BY <1>8, <1>9
  <2>2. Calm(entries', ptes', tablesUsed, used \ S)
    BY <1>5, <1>6, <2>1, CalmFreed
  <2> QED BY <2>2
<1> QED BY <1>a, <1>2, <1>10 DEF CalmInv, Typed

LEMMA ProtectedKeep ==
    ASSUME Typed(entries, ptes, tablesUsed, used), NEW first, NEW last, NEW w \in BOOLEAN
    PROVE  /\ ProtectedPtes(first, last, w) \in [Tables -> [{0, 1} -> Page]]
           /\ \A t \in Tables, h \in {0, 1} :
                /\ ProtectedPtes(first, last, w)[t][h].present = ptes[t][h].present
                /\ ProtectedPtes(first, last, w)[t][h].at = ptes[t][h].at
<1> DEFINE new == ProtectedPtes(first, last, w)
           At(t, h) == \E p \in first .. last : Names(Area(p), t) /\ Half(p) = h
<1>1. new = [t \in Tables |-> [h \in {0, 1} |->
               IF At(t, h) THEN [ptes[t][h] EXCEPT !.write = w] ELSE ptes[t][h]]]
  BY DEF ProtectedPtes
<1> HIDE DEF new, At
<1>2. ASSUME NEW t \in Tables, NEW h \in {0, 1}
      PROVE  new[t][h] \in Page /\ new[t][h].present = ptes[t][h].present
             /\ new[t][h].at = ptes[t][h].at
  <2> DEFINE x == ptes[t][h]
  <2>1. x \in Page
    BY DEF Typed
  <2>2. new[t][h] = IF At(t, h) THEN [x EXCEPT !.write = w] ELSE x
    BY <1>1
  <2> HIDE DEF x
  <2>3. new[t][h] \in Page /\ new[t][h].present = x.present /\ new[t][h].at = x.at
    BY <2>1, <2>2, PageFields
  <2> QED BY <2>3 DEF x
<1>3. new \in [Tables -> [{0, 1} -> Page]]
  <2>1. \A t \in Tables : new[t] = [h \in {0, 1} |-> new[t][h]]
    BY <1>1
  <2>2. \A t \in Tables : new[t] \in [{0, 1} -> Page]
    BY <1>2, <2>1
  <2>3. new = [t \in Tables |-> new[t]]
    BY <1>1
  <2> QED BY <2>2, <2>3
<1> QED BY <1>2, <1>3 DEF new

LEMMA UnmapKeeps ==
    ASSUME CarefulGuest, CalmInv, NEW first \in Pages, NEW last \in Pages, first <= last,
           \/ Unmap(first, last)
           \/ \E w \in Rights : RemapUnanswered(first, last, w)
    PROVE  CallKeeps
<1> DEFINE S == SlotsOf(first, last)
<1>1. Typed(entries, ptes, tablesUsed, used)
  BY DEF CalmInv
<1>2. /\ S \subseteq used /\ MayFree(S) /\ used' = used \ S
      /\ entries' = Without(entries, S) /\ UNCHANGED <<tablesUsed, mapping>>
      /\ outcome' # "failed"
  BY DEF Unmap, RemapUnanswered, Serve
<1>3. /\ ptes' \in [Tables -> [{0, 1} -> Page]]
      /\ \A t \in Tables, h \in {0, 1} :
           ptes'[t][h].present = ptes[t][h].present /\ ptes'[t][h].at = ptes[t][h].at
  <2>1. CASE UNCHANGED ptes
    BY <1>1, <2>1 DEF Typed
  <2>2. CASE \E w \in Rights : ptes' = ProtectedPtes(first, last, w)
    BY <1>1, <2>2, ProtectedKeep, MemoryAssumption
  <2> QED BY <2>1, <2>2 DEF Unmap, RemapUnanswered
<1>4. S \in SUBSET Slots
  BY <1>1, <1>2 DEF Typed
<1> HIDE DEF S
<1>5. SeenOnlyAt(S)
  BY <1>2 DEF MayFree, CarefulGuest
<1>6. CalmInv'
  BY <1>2, <1>3, <1>4, <1>5, FreedKeeps
<1> QED BY <1>2, <1>6 DEF CallKeeps

\* The entries keep their memory; no slot is freed.
LEMMA SameMemoryKeeps ==
    ASSUME CalmInv, entries' \in [Areas -> Entry], ptes' \in [Tables -> [{0, 1} -> Page]],
           \A a \in Areas : entries'[a].kind = entries[a].kind /\ entries'[a].at = entries[a].at,
           \A t \in Tables, h \in {0, 1} :
             ptes'[t][h].present = ptes[t][h].present /\ ptes'[t][h].at = ptes[t][h].at,
           used \subseteq used', used' \subseteq Slots,
           UNCHANGED <<tablesUsed, mapping>>
    PROVE  CalmInv'
<1>a. /\ used \subseteq Slots /\ tablesUsed \subseteq Tables
      /\ Calm(entries, ptes, tablesUsed, used)
  BY DEF CalmInv, Typed
<1>1. \A s \in Slots \ used' : entries'[Home(s)].kind = "absent"
  BY <1>a, MemoryNumbers DEF Calm
<1>2. \A t \in tablesUsed, h \in {0, 1} :
        ptes'[t][h].present = ptes[t][h].present /\ ptes'[t][h].at = ptes[t][h].at
  BY <1>a
<1>3. Calm(entries', ptes', tablesUsed, used')
  BY <1>a, <1>1, <1>2, CalmKept
<1> QED BY <1>a, <1>3 DEF CalmInv, Typed

LEMMA ProtectKeeps ==
    ASSUME CalmInv, NEW first \in Pages, NEW last \in Pages, NEW w \in BOOLEAN,
           ProtectCall(first, last, w)
    PROVE  CallKeeps
<1>1. Typed(entries, ptes, tablesUsed, used)
  BY DEF CalmInv
<1>2. ASSUME NEW a \in Areas
      PROVE  /\ entries'[a] \in Entry
             /\ entries'[a].kind = entries[a].kind /\ entries'[a].at = entries[a].at
  <2> DEFINE e == entries[a]  on == e.kind = "table" \/ w
  <2>1. e \in Entry
    BY <1>1 DEF Typed
  <2>2. entries'[a] = IF a \notin AreasOf(first, last) THEN e ELSE [e EXCEPT !.write = on]
    BY DEF ProtectCall, ProtectedEntries
  <2>3. on \in BOOLEAN
    OBVIOUS
  <2> HIDE DEF e, on
  <2>4. entries'[a] \in Entry /\ entries'[a].kind = e.kind /\ entries'[a].at = e.at
    BY <2>1, <2>2, <2>3, EntryFields
  <2> QED BY <2>4 DEF e
<1>3. entries' \in [Areas -> Entry]
  <2>1. entries' = [a \in Areas |-> entries'[a]]
    BY DEF ProtectCall, ProtectedEntries
  <2> QED BY <1>2, <2>1
<1>4. /\ ptes' \in [Tables -> [{0, 1} -> Page]]
      /\ \A t \in Tables, h \in {0, 1} :
           ptes'[t][h].present = ptes[t][h].present /\ ptes'[t][h].at = ptes[t][h].at
  BY <1>1, ProtectedKeep DEF ProtectCall
<1>5. used' = used /\ UNCHANGED <<tablesUsed, mapping>> /\ outcome' # "failed"
  BY DEF ProtectCall, Serve
<1>6. used \subseteq Slots
  BY <1>1 DEF Typed
<1>7. CalmInv'
  BY <1>2, <1>3, <1>4, <1>5, <1>6, SameMemoryKeeps
<1> QED BY <1>5, <1>7 DEF CallKeeps

LEMMA MakeWritableKeeps ==
    ASSUME CalmInv, MakeWritable PROVE CallKeeps
<1>1. Typed(entries, ptes, tablesUsed, used)
  BY DEF CalmInv
<1>2. ASSUME NEW a \in Areas
      PROVE  /\ entries'[a] \in Entry
             /\ entries'[a].kind = entries[a].kind /\ entries'[a].at = entries[a].at
  <2> DEFINE e == entries[a]
  <2>1. e \in Entry
    BY <1>1 DEF Typed
  <2>2. entries'[a] = e \/ entries'[a] = [e EXCEPT !.write = TRUE]
    BY DEF MakeWritable
  <2> HIDE DEF e
  <2>4. entries'[a] \in Entry /\ entries'[a].kind = e.kind /\ entries'[a].at = e.at
    BY <2>1, <2>2, EntryFields
  <2> QED BY <2>4 DEF e
<1>3. entries' \in [Areas -> Entry]
  <2>1. entries' = [a \in Areas |-> entries'[a]]
    BY DEF MakeWritable
  <2> QED BY <1>2, <2>1
<1>5. used' = used /\ UNCHANGED <<ptes, tablesUsed, mapping>> /\ outcome' # "failed"
  BY DEF MakeWritable, Serve
<1>6. used \subseteq Slots /\ ptes \in [Tables -> [{0, 1} -> Page]]
  BY <1>1 DEF Typed
<1>7. CalmInv'
  BY <1>2, <1>3, <1>5, <1>6, SameMemoryKeeps
<1> QED BY <1>5, <1>7 DEF CallKeeps

LEMMA QuietKeeps ==
    ASSUME CalmInv, UNCHANGED <<entries, ptes, tablesUsed, mapping>>,
           used \subseteq used', used' \subseteq Slots
    PROVE  CalmInv' /\ UNCHANGED <<Translations, tablesUsed>>
<1>1. entries \in [Areas -> Entry] /\ ptes \in [Tables -> [{0, 1} -> Page]]
  BY DEF CalmInv, Typed
<1>2. CalmInv'
  BY <1>1, SameMemoryKeeps
<1> QED BY <1>2, TranslationsKept

LEMMA ResetKeeps == ASSUME MemoryReset PROVE CallKeeps
<1>1. /\ entries' = [a \in Areas |-> Absent]
      /\ ptes' = [t \in Tables |-> [h \in {0, 1} |-> NoPage]]
      /\ used' = {} /\ tablesUsed' = {} /\ mapping' = NoMapping /\ outcome' # "failed"
  BY DEF MemoryReset
<1>2. Typed(entries', ptes', tablesUsed', used')
  BY <1>1, EntryMade, NoPageMade DEF Typed
<1>3. Calm(entries', ptes', tablesUsed', used')
  BY <1>1, EntryMade, MemoryNumbers DEF Calm, Accounted
<1> QED BY <1>1, <1>2, <1>3 DEF CallKeeps, CalmInv

LEMMA PairCardinality ==
    ASSUME NEW x, NEW y, x # y PROVE Cardinality({x} \cup {y}) = 2
<1>1. IsFiniteSet({x}) /\ Cardinality({x}) = 1 /\ y \notin {x}
  BY FS_Singleton
<1> QED BY <1>1, FS_AddElement

LEMMA VacantFinite ==
    /\ VacantFlexible \in SUBSET Nat /\ VacantFlexible \subseteq Slots
    /\ IsFiniteSet(VacantFlexible) /\ Cardinality(VacantFlexible) \in Nat
<1>1. VacantFlexible \in SUBSET (0 .. FlexibleSlots - 1) /\ VacantFlexible \subseteq Slots
  BY MemoryNumbers DEF VacantFlexible, Flexible
<1>2. 0 \in Int /\ FlexibleSlots - 1 \in Int
  BY MemoryNumbers
<1>3. IsFiniteSet(0 .. FlexibleSlots - 1)
  BY <1>2, FS_Interval
<1>4. IsFiniteSet(VacantFlexible)
  BY <1>1, <1>3, FS_Subset
<1> QED BY <1>1, <1>4, FS_CardinalityType

\* The first and the second of some numbers have rank 1 and 2.
LEMMA RankedExist ==
    ASSUME NEW S \in SUBSET Nat, IsFiniteSet(S), NEW r \in {1, 2}, r <= Cardinality(S)
    PROVE  \E s \in S : Rank(S, s) = r
<1>1. S # {}
  BY FS_EmptySet
<1> DEFINE m == Least(S)
<1>2. m \in S /\ \A y \in S : m <= y
  BY <1>1, LeastNat
<1> HIDE DEF m
<1>3. {y \in S : y <= m} = {m}
  <2>1. \A y \in S : y <= m <=> y = m
    BY <1>2
  <2> QED BY <1>2, <2>1
<1>4. Rank(S, m) = 1
  BY <1>3, FS_Singleton DEF Rank
<1>5. CASE r = 2
  <2>1. S # {m}
    <3>1. Cardinality({m}) = 1
      BY FS_Singleton
    <3> QED BY <1>5, <3>1
  <2> DEFINE T == S \ {m}  k == Least(T)
  <2>2. T \in SUBSET Nat /\ T # {}
    BY <1>2, <2>1
  <2>3. k \in T /\ \A y \in T : k <= y
    BY <2>2, LeastNat
  <2> HIDE DEF k
  <2>4. k \in S /\ k # m /\ \A y \in S : y <= k <=> y = m \/ y = k
    BY <1>2, <2>3
  <2>5. {y \in S : y <= k} = {m} \cup {k}
    BY <1>2, <2>4
  <2>6. Cardinality({m} \cup {k}) = 2
    BY <2>4, PairCardinality
  <2>7. Rank(S, k) = 2
    BY <2>5, <2>6 DEF Rank
  <2> QED BY <1>5, <2>4, <2>7
<1> QED BY <1>2, <1>4, <1>5

LEMMA TakenVacant ==
    ASSUME NEW first \in Pages, NEW last \in {first, first + 1} \cap Pages,
           NEW a \in AbsentOf(AreasOf(first, last)),
           Rank(AbsentOf(AreasOf(first, last)), a) <= Cardinality(VacantFlexible)
    PROVE  Taken(AreasOf(first, last))[a] \in VacantFlexible
<1> DEFINE N == AbsentOf(AreasOf(first, last))  Y == {y \in N : y <= a}
<1>1. N \subseteq {Area(first), Area(first) + 1} /\ Area(first) \in Nat
  <2>1. first \in Nat
    BY DEF Pages
  <2>2. Area(first) \in Nat /\ Area(last) \in {Area(first), Area(first) + 1}
    BY <2>1 DEF Area
  <2> QED BY <2>2 DEF AbsentOf, AreasOf
<1>2. a \in N
  OBVIOUS
<1> HIDE DEF N
<1>3. Rank(N, a) \in {1, 2}
  <2>1. Y = {a} \/ Y = {Area(first)} \cup {Area(first) + 1}
    BY <1>1, <1>2
  <2>2. Cardinality({a}) = 1
    BY FS_Singleton
  <2>3. Cardinality({Area(first)} \cup {Area(first) + 1}) = 2
    <3>1. Area(first) # Area(first) + 1
      BY <1>1
    <3> QED BY <3>1, PairCardinality
  <2> QED BY <2>1, <2>2, <2>3 DEF Rank
<1>4. VacantFlexible \in SUBSET Nat /\ IsFiniteSet(VacantFlexible)
  BY VacantFinite
<1>5. \E s \in VacantFlexible : Rank(VacantFlexible, s) = Rank(N, a)
  BY <1>3, <1>4, RankedExist DEF N
<1>6. Taken(AreasOf(first, last))[a] =
        CHOOSE s \in VacantFlexible : Rank(VacantFlexible, s) = Rank(N, a)
  BY <1>2 DEF Taken, N
<1> QED BY <1>5, <1>6

LEMMA MapOutsideKeeps ==
    ASSUME CarefulGuest, CalmInv, NEW first \in Pages, NEW last \in {first, first + 1} \cap Pages,
           NEW w \in Rights, NEW result \in {"done", "unanswered"},
           MapOutside(first, last, w, result)
    PROVE  CallKeeps
<1> DEFINE A == AreasOf(first, last)  N == AbsentOf(A)  T == Taken(A)
<1>a. /\ entries \in [Areas -> Entry] /\ ptes \in [Tables -> [{0, 1} -> Page]]
      /\ used \subseteq Slots /\ tablesUsed \subseteq Tables
      /\ Calm(entries, ptes, tablesUsed, used)
  BY DEF CalmInv, Typed
<1>b. w \in BOOLEAN
  BY MemoryAssumption
<1>1. /\ entries' = [a \in Areas |->
                       IF a \notin A THEN entries[a]
                       ELSE IF a \in N THEN Large(Memory(T[a]), w)
                       ELSE [entries[a] EXCEPT !.write = w]]
      /\ used' = used \cup {T[a] : a \in N}
      /\ UNCHANGED <<ptes, tablesUsed, mapping>>
      /\ Cardinality(N) <= Cardinality(VacantFlexible)
      /\ outcome' # "failed"
  BY DEF MapOutside, Serve, TakenBy
<1>2. Area(last) < Below
  BY DEF MapOutside, Outside, CarefulGuest
<1>3. ASSUME NEW a \in N PROVE T[a] \in Flexible
  <2>1. IsFiniteSet(N)
    <3>1. IsFiniteSet(A)
      <4>1. Area(first) \in Int /\ Area(last) \in Int
        BY MemoryNumbers DEF Areas
      <4> QED BY <4>1, FS_Interval DEF AreasOf
    <3> QED BY <3>1, FS_Subset DEF AbsentOf
  <2>2. {y \in N : y <= a} \in SUBSET N
    OBVIOUS
  <2>3. Rank(N, a) <= Cardinality(N)
    BY <2>1, <2>2, FS_Subset DEF Rank
  <2>4. Rank(N, a) \in Nat /\ Cardinality(N) \in Nat
    <3>1. IsFiniteSet({y \in N : y <= a})
      BY <2>1, <2>2, FS_Subset
    <3> QED BY <2>1, <3>1, FS_CardinalityType DEF Rank
  <2>5. Cardinality(VacantFlexible) \in Nat
    BY VacantFinite
  <2>6. Rank(N, a) <= Cardinality(VacantFlexible)
    BY <1>1, <2>3, <2>4, <2>5
  <2>7. T[a] \in VacantFlexible
    BY <2>6, TakenVacant
  <2> QED BY <2>7 DEF VacantFlexible
<1>4. \A s \in Flexible : Memory(s) \in Slots /\ Memory(s) - DirectSlots = s
  BY MemoryNumbers DEF Memory, Flexible, Slots
<1> HIDE DEF A, N, T
<1>5. ASSUME NEW a \in Areas
      PROVE  /\ entries'[a] \in Entry
             /\ \/ entries'[a].kind = entries[a].kind /\ entries'[a].at = entries[a].at
                \/ entries'[a].kind = "large" /\ Held(entries'[a].at, used')
  <2> DEFINE e == entries[a]
  <2>1. e \in Entry
    BY <1>a
  <2>2. CASE entries'[a] = e \/ entries'[a] = [e EXCEPT !.write = w]
    <3> HIDE DEF e
    <3>1. entries'[a] \in Entry /\ entries'[a].kind = e.kind /\ entries'[a].at = e.at
      BY <1>b, <2>1, <2>2, EntryFields
    <3> QED BY <3>1 DEF e
  <2>3. CASE a \in N /\ entries'[a] = Large(Memory(T[a]), w)
    <3>1. T[a] \in Flexible /\ T[a] \in used'
      BY <1>1, <1>3, <2>3
    <3>2. Memory(T[a]) \in Slots /\ Memory(T[a]) - DirectSlots = T[a]
      BY <1>4, <3>1
    <3> QED BY <1>b, <2>3, <3>1, <3>2, EntryMade DEF Held
  <2> QED BY <1>1, <2>2, <2>3
<1>6. entries' \in [Areas -> Entry]
  BY <1>1, <1>5
<1>7. used \subseteq used' /\ used' \subseteq Slots
  BY <1>a, <1>1, <1>3, MemoryNumbers
<1>8. ASSUME NEW s \in Slots \ used' PROVE entries'[Home(s)].kind = "absent"
  <2>1. Home(s) \in Areas /\ Home(s) >= Below
    <3>1. s \in Nat /\ Below \in Nat /\ Home(s) \in Areas
      BY MemoryNumbers DEF Slots
    <3> QED BY <3>1 DEF Home
  <2>2. Home(s) \notin A
    <3>1. Area(last) \in Nat /\ Home(s) \in Nat /\ Below \in Nat
      BY <2>1, MemoryNumbers
    <3> QED BY <1>2, <2>1, <3>1 DEF A, AreasOf
  <2>3. entries'[Home(s)] = entries[Home(s)]
    BY <1>1, <2>1, <2>2
  <2> QED BY <1>a, <1>7, <2>3 DEF Calm
<1>9. Calm(entries', ptes, tablesUsed, used')
  BY <1>a, <1>5, <1>7, <1>8, CalmKept
<1>10. CalmInv'
  BY <1>a, <1>1, <1>6, <1>7, <1>9 DEF CalmInv, Typed
<1> QED BY <1>1, <1>10 DEF CallKeeps

LEMMA OutsideFailsKeeps ==
    ASSUME CalmInv, NEW first \in Pages, NEW last \in {first, first + 1} \cap Pages,
           NEW fault \in AreasOf(first, last), NEW writing \in BOOLEAN,
           OutsideFails(first, last, fault, writing)
    PROVE  CallKeeps
<1> DEFINE A == AreasOf(first, last)
           S == IF /\ writing /\ fault \in AbsentOf(A)
                   /\ Rank(AbsentOf(A), fault) <= Cardinality(VacantFlexible)
                THEN {Taken(A)[fault]} ELSE {}
<1>1. used' = used \cup S /\ UNCHANGED <<entries, ptes, tablesUsed, mapping>>
  BY DEF OutsideFails
<1>2. S \subseteq Slots
  <2>1. VacantFlexible \subseteq Slots
    BY VacantFinite
  <2>2. CASE /\ writing /\ fault \in AbsentOf(A)
             /\ Rank(AbsentOf(A), fault) <= Cardinality(VacantFlexible)
    <3>1. Taken(A)[fault] \in VacantFlexible
      BY <2>2, TakenVacant
    <3> QED BY <2>1, <3>1
  <2> QED BY <2>2
<1> HIDE DEF S
<1>3. used' \subseteq Slots /\ used \subseteq used'
  BY <1>1, <1>2 DEF CalmInv, Typed
<1>4. CalmInv' /\ UNCHANGED <<Translations, tablesUsed>>
  BY <1>1, <1>3, QuietKeeps
<1> QED BY <1>4 DEF CallKeeps

----------------------------------------------------------------------------
\* A mapping of direct memory in progress

\* What rolling back would restore: the entries es and tables ps before the call.
EntriesOf(es, m) ==
    [a \in Areas |->
        LET i == a - Area(m.first) + 1 IN
        IF i \in DOMAIN m.fresh /\ m.fresh[i] # {} THEN m.entries[i] ELSE es[a]]
Filled(es, m, t, h) ==
    {i \in DOMAIN m.ptes :
       /\ es[Area(m.first + i - 1)].kind = "table" /\ es[Area(m.first + i - 1)].at = t
       /\ Half(m.first + i - 1) = h}
PtesOf(es, ps, m) ==
    [t \in Tables |-> [h \in {0, 1} |->
        IF Filled(es, m, t, h) = {} THEN ps[t][h] ELSE m.ptes[Least(Filled(es, m, t, h))]]]
FreshOf(m) == UNION {m.fresh[i] : i \in DOMAIN m.fresh}

\* The areas prepared have tables; a fresh one is the area's own and would hold, rolled
\* back, what the entry it replaced said.
FreshHas(e, pb, fresh, old) ==
    /\ e.kind = "table"
    /\ fresh # {} =>
         /\ fresh = {e.at} /\ e = TableAt(e.at) /\ old.kind # "table"
         /\ \A h \in {0, 1} : pb[e.at][h] = Split(old)[h]
FreshAt(es, ps, m, i) ==
    FreshHas(es[Area(m.first) + i - 1], PtesOf(es, ps, m), m.fresh[i], m.entries[i])

Fields(m) ==
    [first |-> m.first, last |-> m.last, from |-> m.from, replace |-> m.replace,
     write |-> m.write, entries |-> m.entries, fresh |-> m.fresh, ptes |-> m.ptes,
     running |-> m.running, found |-> m.found, tables |-> m.tables]

\* How far the call has come.
Shape(m) ==
    /\ m = Fields(m) /\ m.running
    /\ m.first \in Pages /\ m.last \in Pages /\ m.first <= m.last
    /\ m.from \in Nat /\ m.from + m.last - m.first < 2 * DirectSlots /\ m.write \in BOOLEAN
    /\ Area(m.first) >= Below \/ Area(m.last) < Below
    /\ m.entries \in Seq(Entry) /\ m.fresh \in Seq(SUBSET Tables) /\ m.ptes \in Seq(Page)
    /\ Len(m.fresh) = Len(m.entries)
    /\ Area(m.first) + Len(m.entries) <= Area(m.last) + 1
    /\ m.ptes # <<>> => Area(m.first) + Len(m.entries) > Area(m.last)
    /\ m.first + Len(m.ptes) <= m.last + 1

\* The processor's tables are accounted as they are and as rolling back would leave them;
\* what it found as the call began is what it would find then.
MapOK(es, ps, ts, us, m) ==
    /\ Typed(es, ps, ts, us) /\ Accounted(es, ps, ts, us)
    /\ Shape(m)
    /\ \A i \in DOMAIN m.fresh : FreshAt(es, ps, m, i)
    /\ Calm(EntriesOf(es, m), PtesOf(es, ps, m), ts \ FreshOf(m), us)
    /\ m.found = [p \in Pages |-> Found(EntriesOf(es, m), PtesOf(es, ps, m), p)]
    /\ m.tables = ts \ FreshOf(m)
MapInv == MapOK(entries, ptes, tablesUsed, used, mapping) /\ outcome = "done"

LEMMA BeforeMeans ==
    /\ EntriesBefore = EntriesOf(entries, mapping)
    /\ PtesBefore = PtesOf(entries, ptes, mapping)
    /\ FreshTables = FreshOf(mapping)
    /\ Translations = [p \in Pages |-> Found(entries, ptes, p)]
<1>1. EntriesBefore = EntriesOf(entries, mapping)
  BY DEF EntriesBefore, EntriesOf
<1>2. PtesBefore = PtesOf(entries, ptes, mapping)
  BY DEF PtesBefore, PtesOf, Filled, Names
<1>3. FreshTables = FreshOf(mapping)
  BY DEF FreshTables, FreshOf
<1>4. Translations = [p \in Pages |-> Found(entries, ptes, p)]
  BY DEF Translations, Translation, Found
<1> QED BY <1>1, <1>2, <1>3, <1>4

\* What the processor finds depends on the tables that are named.
LEMMA FoundSame ==
    ASSUME NEW es, NEW ps, NEW pt2, NEW ts, NEW us, Accounted(es, ps, ts, us),
           \A t \in ts : pt2[t] = ps[t], NEW p \in Pages
    PROVE  Found(es, pt2, p) = Found(es, ps, p)
<1>1. Area(p) \in Areas
  BY MemoryNumbers
<1>2. es[Area(p)].kind = "table" => pt2[es[Area(p)].at] = ps[es[Area(p)].at]
  BY <1>1 DEF Accounted
<1> QED BY <1>2 DEF Found

\* Before any page is filled, the tables are what they would be.
LEMMA PtesUnfilled ==
    ASSUME NEW es, NEW ps \in [Tables -> [{0, 1} -> Page]], NEW m, m.ptes = <<>>
    PROVE  PtesOf(es, ps, m) = ps
<1>1. \A t, h : Filled(es, m, t, h) = {}
  BY DEF Filled
<1>2. PtesOf(es, ps, m) = [t \in Tables |-> [h \in {0, 1} |-> ps[t][h]]]
  BY <1>1 DEF PtesOf
<1> QED BY <1>2

LEMMA DirectStarts ==
    ASSUME CarefulGuest, CalmInv, NEW first \in Pages, NEW last \in Pages, first <= last,
           NEW from \in Nat, NEW replace, NEW w \in BOOLEAN,
           MapDirect(first, last, from, replace, w)
    PROVE  MapInv' /\ mapping'.running
<1>a. /\ Typed(entries, ptes, tablesUsed, used) /\ Calm(entries, ptes, tablesUsed, used)
  BY DEF CalmInv
<1>1. /\ UNCHANGED <<entries, ptes, used, tablesUsed>> /\ outcome' = "done"
      /\ from + last - first < 2 * DirectSlots
      /\ Area(first) >= Below \/ Area(last) < Below
  BY DEF MapDirect, Serve, CarefulGuest
<1> DEFINE m == mapping'
<1>2. m = [first |-> first, last |-> last, from |-> from, replace |-> replace,
           write |-> w, entries |-> <<>>, fresh |-> <<>>, ptes |-> <<>>,
           running |-> TRUE, found |-> Translations, tables |-> tablesUsed]
  BY DEF MapDirect, NoMapping
<1> HIDE DEF m
<1>3. /\ m.first = first /\ m.last = last /\ m.from = from /\ m.write = w
      /\ m.entries = <<>> /\ m.fresh = <<>> /\ m.ptes = <<>> /\ m.running
      /\ m.found = Translations /\ m.tables = tablesUsed
  BY <1>2
<1>4. m = Fields(m)
  BY <1>2 DEF Fields
<1>5. /\ Area(first) \in Nat /\ Area(last) \in Nat /\ Area(first) <= Area(last)
      /\ first \in Nat /\ last \in Nat
  <2>1. first \in Nat /\ last \in Nat
    BY DEF Pages
  <2> QED BY <2>1 DEF Area
<1>6. Shape(m)
  <2>1. /\ <<>> \in Seq(Entry) /\ <<>> \in Seq(SUBSET Tables) /\ <<>> \in Seq(Page)
        /\ Len(<<>>) = 0
    OBVIOUS
  <2> QED BY <1>1, <1>3, <1>4, <1>5, <2>1 DEF Shape
<1>7. EntriesOf(entries, m) = entries
  <2>1. EntriesOf(entries, m) = [a \in Areas |-> entries[a]]
    BY <1>3 DEF EntriesOf
  <2> QED BY <1>a, <2>1 DEF Typed
<1>8. PtesOf(entries, ptes, m) = ptes
  BY <1>a, <1>3, PtesUnfilled DEF Typed
<1>9. FreshOf(m) = {}
  BY <1>3 DEF FreshOf
<1>10. \A i \in DOMAIN m.fresh : FreshAt(entries, ptes, m, i)
  BY <1>3
<1>11. m.found = [p \in Pages |-> Found(entries, ptes, p)]
  BY <1>3, BeforeMeans
<1>12. tablesUsed \ {} = tablesUsed
  OBVIOUS
<1>13. MapOK(entries, ptes, tablesUsed, used, m)
  BY <1>a, <1>3, <1>6, <1>7, <1>8, <1>9, <1>10, <1>11, <1>12 DEF MapOK, Calm
<1> QED BY <1>1, <1>3, <1>13 DEF MapInv, m

LEMMA ShapeMeans ==
    ASSUME NEW m, Shape(m)
    PROVE  /\ m.first \in Nat /\ m.last \in Nat /\ m.first <= m.last
           /\ Area(m.first) \in Nat /\ Area(m.last) \in Areas /\ Area(m.first) <= Area(m.last)
           /\ Area(m.first) \in Areas
           /\ m.entries \in Seq(Entry) /\ m.fresh \in Seq(SUBSET Tables) /\ m.ptes \in Seq(Page)
           /\ Len(m.entries) \in Nat /\ Len(m.fresh) = Len(m.entries) /\ Len(m.ptes) \in Nat
           /\ DOMAIN m.fresh = 1 .. Len(m.entries) /\ DOMAIN m.ptes = 1 .. Len(m.ptes)
           /\ \A i \in DOMAIN m.fresh : Area(m.first) + i - 1 \in Areas
<1>1. /\ m.first \in Pages /\ m.last \in Pages /\ m.first <= m.last
      /\ m.entries \in Seq(Entry) /\ m.fresh \in Seq(SUBSET Tables) /\ m.ptes \in Seq(Page)
      /\ Len(m.fresh) = Len(m.entries)
      /\ Area(m.first) + Len(m.entries) <= Area(m.last) + 1
  BY DEF Shape
<1>2. /\ Area(m.first) \in Areas /\ Area(m.last) \in Areas /\ Area(m.first) \in Nat
      /\ Area(m.last) \in Nat
  BY <1>1, MemoryNumbers
<1>3. m.first \in Nat /\ m.last \in Nat
  BY <1>1 DEF Pages
<1>4. Area(m.first) <= Area(m.last)
  BY <1>1, <1>3 DEF Area
<1>5. /\ Len(m.entries) \in Nat /\ Len(m.ptes) \in Nat
      /\ DOMAIN m.fresh = 1 .. Len(m.entries) /\ DOMAIN m.ptes = 1 .. Len(m.ptes)
  BY <1>1
<1>6. ASSUME NEW i \in 1 .. Len(m.entries) PROVE Area(m.first) + i - 1 \in Areas
  <2>1. /\ Area(m.first) + i - 1 \in Nat /\ Area(m.first) + i - 1 <= Area(m.last)
    BY <1>1, <1>2, <1>5
  <2> QED BY <1>2, <2>1, MemoryAssumption DEF Areas
<1> QED BY <1>1, <1>2, <1>3, <1>4, <1>5, <1>6

\* The next entry is recorded, with the table it got.
Recording(m, m2, e, f) == m2 = [m EXCEPT !.entries = Append(@, e), !.fresh = Append(@, f)]
Recorded(m, m2, e, f) ==
    /\ Shape(m2) /\ m.ptes = <<>> /\ m2.ptes = <<>> /\ m2.first = m.first
    /\ m2.found = m.found /\ m2.tables = m.tables
    /\ DOMAIN m2.fresh = DOMAIN m.fresh \cup {Len(m.entries) + 1}
    /\ Len(m.entries) + 1 \notin DOMAIN m.fresh
    /\ m2.fresh[Len(m.entries) + 1] = f /\ m2.entries[Len(m.entries) + 1] = e
    /\ \A i \in DOMAIN m.fresh : m2.fresh[i] = m.fresh[i] /\ m2.entries[i] = m.entries[i]
    /\ FreshOf(m2) = FreshOf(m) \cup f

LEMMA RecordPrepared ==
    ASSUME NEW m, Shape(m), Area(m.first) + Len(m.entries) <= Area(m.last),
           NEW e \in Entry, NEW f \in SUBSET Tables, NEW m2, Recording(m, m2, e, f)
    PROVE  Recorded(m, m2, e, f)
<1>1. m = Fields(m)
  BY DEF Shape
<1>2. /\ m.entries \in Seq(Entry) /\ m.fresh \in Seq(SUBSET Tables)
      /\ Len(m.entries) \in Nat /\ Len(m.fresh) = Len(m.entries)
      /\ DOMAIN m.fresh = 1 .. Len(m.entries)
      /\ Area(m.first) \in Nat /\ Area(m.last) \in Nat
  BY ShapeMeans, MemoryNumbers
<1> DEFINE es == Append(m.entries, e)  fs == Append(m.fresh, f)  k == Len(m.entries) + 1
<1>3. m2 = [first |-> m.first, last |-> m.last, from |-> m.from, replace |-> m.replace,
            write |-> m.write, entries |-> es, fresh |-> fs, ptes |-> m.ptes,
            running |-> m.running, found |-> m.found, tables |-> m.tables]
  <2>1. m2 = [Fields(m) EXCEPT !.entries = es, !.fresh = fs]
    <3>1. m2 = [m EXCEPT !.entries = es, !.fresh = fs]
      BY DEF Recording
    <3> QED BY <1>1, <3>1
  <2> HIDE DEF es, fs
  <2> QED BY <2>1 DEF Fields
<1>4. /\ es \in Seq(Entry) /\ fs \in Seq(SUBSET Tables) /\ Len(es) = k /\ Len(fs) = k
      /\ es[k] = e /\ fs[k] = f /\ DOMAIN fs = 1 .. k
      /\ \A i \in 1 .. Len(m.entries) : fs[i] = m.fresh[i] /\ es[i] = m.entries[i]
  BY <1>2
<1>5. m.ptes = <<>>
  BY <1>2 DEF Shape
<1> HIDE DEF es, fs
<1>6. /\ m2.first = m.first /\ m2.last = m.last /\ m2.from = m.from /\ m2.replace = m.replace
      /\ m2.write = m.write /\ m2.entries = es /\ m2.fresh = fs /\ m2.ptes = m.ptes
      /\ m2.running = m.running /\ m2.found = m.found /\ m2.tables = m.tables
  BY <1>3
<1>7. m2 = Fields(m2)
  BY <1>3, <1>6 DEF Fields
<1>8. Area(m.first) + k <= Area(m.last) + 1
  BY <1>2
<1>9. Shape(m2)
  BY <1>4, <1>5, <1>6, <1>7, <1>8 DEF Shape
<1>10. 1 .. k = (1 .. Len(m.entries)) \cup {k} /\ k \notin 1 .. Len(m.entries)
  BY <1>2
<1> HIDE DEF k
<1>11. FreshOf(m2) = FreshOf(m) \cup f
  <2> DEFINE n == Len(m.entries)
  <2>1. \A x : x \in FreshOf(m2) <=> \E i \in 1 .. k : x \in fs[i]
    BY <1>4, <1>6 DEF FreshOf
  <2>2. \A x : x \in FreshOf(m) <=> \E i \in 1 .. n : x \in m.fresh[i]
    BY <1>2 DEF FreshOf
  <2>3. /\ 1 .. k = (1 .. n) \cup {k} /\ fs[k] = f /\ \A i \in 1 .. n : fs[i] = m.fresh[i]
    BY <1>4, <1>10
  <2> HIDE DEF n
  <2>4. \A x : x \in FreshOf(m2) <=> x \in FreshOf(m) \/ x \in f
    BY <2>1, <2>2, <2>3
  <2> QED BY <2>4
<1> QED BY <1>2, <1>4, <1>5, <1>6, <1>9, <1>10, <1>11 DEF k, Recorded

\* An entry of a table is recorded as it is.
LEMMA PrepareTable ==
    ASSUME NEW es, NEW ps, NEW ts, NEW us, NEW m, MapOK(es, ps, ts, us, m),
           Area(m.first) + Len(m.entries) <= Area(m.last),
           es[Area(m.first) + Len(m.entries)].kind = "table", NEW m2,
           Recording(m, m2, es[Area(m.first) + Len(m.entries)], {})
    PROVE  MapOK(es, ps, ts, us, m2)
<1> DEFINE a == Area(m.first) + Len(m.entries)  e == es[a]  k == Len(m.entries) + 1
<1>1. /\ Shape(m) /\ es \in [Areas -> Entry] /\ ps \in [Tables -> [{0, 1} -> Page]]
  BY DEF MapOK, Typed
<1>2. /\ Area(m.first) \in Nat /\ Area(m.last) \in Areas /\ Len(m.entries) \in Nat
  BY <1>1, ShapeMeans
<1>3. a \in Areas /\ e \in Entry
  <2>1. a \in Nat /\ a <= Area(m.last)
    BY <1>2
  <2>2. a \in Areas
    BY <1>2, <2>1, MemoryAssumption DEF Areas
  <2> QED BY <1>1, <2>2
<1>4. /\ Shape(m2) /\ m.ptes = <<>> /\ m2.ptes = <<>> /\ m2.first = m.first
      /\ m2.found = m.found /\ m2.tables = m.tables
      /\ DOMAIN m2.fresh = DOMAIN m.fresh \cup {k} /\ k \notin DOMAIN m.fresh
      /\ m2.fresh[k] = {} /\ m2.entries[k] = e
      /\ \A i \in DOMAIN m.fresh : m2.fresh[i] = m.fresh[i] /\ m2.entries[i] = m.entries[i]
      /\ FreshOf(m2) = FreshOf(m)
  <2>1. {} \in SUBSET Tables
    OBVIOUS
  <2> HIDE DEF e, a
  <2>2. Recording(m, m2, e, {})
    BY DEF e, a
  <2>3. Area(m.first) + Len(m.entries) <= Area(m.last)
    OBVIOUS
  <2>4. Recorded(m, m2, e, {})
    BY <1>1, <1>3, <2>1, <2>2, <2>3, RecordPrepared
  <2> QED BY <2>4 DEF Recorded
<1>5. EntriesOf(es, m2) = EntriesOf(es, m)
  BY <1>4 DEF EntriesOf
<1>6. PtesOf(es, ps, m2) = ps /\ PtesOf(es, ps, m) = ps
  BY <1>1, <1>4, PtesUnfilled
<1>7. ASSUME NEW i \in DOMAIN m2.fresh PROVE FreshAt(es, ps, m2, i)
  <2>1. CASE i \in DOMAIN m.fresh
    <3>1. FreshAt(es, ps, m, i)
      BY <2>1 DEF MapOK
    <3>2. FreshHas(es[Area(m.first) + i - 1], ps, m.fresh[i], m.entries[i])
      BY <1>6, <3>1 DEF FreshAt
    <3>3. m2.first = m.first /\ m2.fresh[i] = m.fresh[i] /\ m2.entries[i] = m.entries[i]
      BY <1>4, <2>1
    <3> QED BY <1>6, <3>2, <3>3 DEF FreshAt
  <2>2. CASE i = k
    <3>1. Area(m2.first) + i - 1 = a
      BY <1>2, <1>4, <2>2
    <3>2. m2.fresh[i] = {} /\ es[a].kind = "table"
      BY <1>4, <2>2
    <3> QED BY <3>1, <3>2 DEF FreshAt, FreshHas
  <2> QED BY <1>4, <2>1, <2>2
<1> QED BY <1>4, <1>5, <1>6, <1>7 DEF MapOK

\* A table that is split from a large entry holds its memory, page by page.
LEMMA SplitMeans ==
    ASSUME NEW e \in Entry, NEW us \in SUBSET Slots, e.kind # "table",
           e.kind = "large" => Held(e.at, us)
    PROVE  /\ Split(e) \in [{0, 1} -> Page]
           /\ \A h \in {0, 1} : Split(e)[h].present => Held(Area(Split(e)[h].at), us)
<1>1. e.at \in Nat /\ e.write \in BOOLEAN
  BY EntryFields
<1>2. CASE e.kind = "large"
  <2>1. e.at \in Areas
    <3>1. /\ Below \in Nat /\ DirectSlots \in Nat /\ FlexibleSlots \in Nat
      BY MemoryAssumption
    <3>2. CASE e.at >= DirectSlots
      <4>1. e.at - DirectSlots \in Flexible
        BY <1>2, <3>2 DEF Held
      <4>2. e.at < DirectSlots + FlexibleSlots
        BY <1>1, <3>1, <4>1 DEF Flexible
      <4> QED BY <1>1, <3>1, <4>2 DEF Areas
    <3>3. CASE ~(e.at >= DirectSlots)
      <4>1. FlexibleSlots >= 1
        BY MemoryAssumption
      <4> QED BY <1>1, <3>1, <3>3, <4>1 DEF Areas
    <3> QED BY <3>2, <3>3
  <2>2. ASSUME NEW h \in {0, 1}
        PROVE  2 * e.at + h \in Pages /\ Area(2 * e.at + h) = e.at
    BY <1>1, <2>1, MemoryNumbers
  <2>3. Split(e) = [h \in {0, 1} |->
                      [present |-> TRUE, at |-> 2 * e.at + h, write |-> e.write]]
    BY <1>2 DEF Split
  <2>4. ASSUME NEW h \in {0, 1}
        PROVE  /\ Split(e)[h] \in Page /\ Area(Split(e)[h].at) = e.at
    BY <1>1, <2>2, <2>3 DEF Page
  <2>5. Split(e) \in [{0, 1} -> Page]
    BY <2>3, <2>4
  <2> QED BY <1>2, <2>4, <2>5
<1>3. CASE e.kind # "large"
  <2>1. Split(e) = [h \in {0, 1} |-> NoPage]
    BY <1>3 DEF Split
  <2> QED BY <2>1, NoPageMade
<1> QED BY <1>2, <1>3

\* An entry that is replaced by a table of the pool: what is mapped stays as it is.
LEMMA WriteKept ==
    ASSUME NEW A, NEW x \in [present : BOOLEAN, at : A, write : BOOLEAN]
    PROVE  [x EXCEPT !.write = @ /\ TRUE] = x
<1>1. (x.write /\ TRUE) = x.write
  OBVIOUS
<1> QED BY <1>1

LEMMA SplitFound ==
    ASSUME NEW es, NEW ps, NEW p \in Pages, NEW e \in Entry, es[Area(p)] = e,
           e.kind # "table", NEW es2, NEW pt2, NEW t,
           es2[Area(p)] = TableAt(t), pt2[t][Half(p)] = Split(e)[Half(p)]
    PROVE  Found(es2, pt2, p) = Found(es, ps, p)
<1>1. Half(p) \in {0, 1} /\ e.write \in BOOLEAN /\ (e.write /\ TRUE) = e.write
  BY MemoryNumbers, EntryFields
<1>2. Found(es2, pt2, p) = [Split(e)[Half(p)] EXCEPT !.write = @ /\ TRUE]
  <2>1. TableAt(t).kind = "table" /\ TableAt(t).at = t /\ TableAt(t).write = TRUE
    BY DEF TableAt
  <2>2. Found(es2, pt2, p) = [pt2[t][Half(p)] EXCEPT !.write = @ /\ TRUE]
    BY <2>1 DEF Found
  <2> QED BY <2>2
<1>3. CASE e.kind = "large"
  <2>1. Split(e)[Half(p)] = [present |-> TRUE, at |-> 2 * e.at + Half(p), write |-> e.write]
    BY <1>1, <1>3 DEF Split
  <2> DEFINE x == Split(e)[Half(p)]
  <2>3. x \in [present : BOOLEAN, at : Nat, write : BOOLEAN]
    <3>1. 2 * e.at + Half(p) \in Nat
      BY <1>1, EntryFields
    <3> QED BY <1>1, <2>1, <3>1
  <2>4. [x EXCEPT !.write = @ /\ TRUE] = x
    <3> HIDE DEF x
    <3> QED BY <2>3, WriteKept
  <2>2. Found(es2, pt2, p) = x
    BY <1>2, <2>4
  <2> QED BY <1>3, <2>1, <2>2 DEF Found
<1>4. CASE e.kind # "large"
  <2>1. Split(e)[Half(p)] = NoPage
    BY <1>1, <1>4 DEF Split
  <2> DEFINE x == Split(e)[Half(p)]
  <2>3. x \in [present : BOOLEAN, at : Pages, write : BOOLEAN]
    BY <2>1, NoPageMade DEF Page
  <2>4. [x EXCEPT !.write = @ /\ TRUE] = x
    <3> HIDE DEF x
    <3> QED BY <2>3, WriteKept
  <2>2. Found(es2, pt2, p) = NoPage
    BY <1>2, <2>1, <2>4
  <2> QED BY <1>4, <2>2 DEF Found
<1> QED BY <1>3, <1>4

\* An entry that is no table gets one, and nothing is seen to change.
Splitting(es, es2, ps, pt2, a, t) ==
    es2 = [es EXCEPT ![a] = TableAt(t)] /\ pt2 = [ps EXCEPT ![t] = Split(es[a])]
SplitStep(es, ps, ts, m, es2, pt2, ts2, m2) ==
    \E t \in Tables \ ts :
        /\ Area(m.first) + Len(m.entries) <= Area(m.last)
        /\ es[Area(m.first) + Len(m.entries)].kind # "table"
        /\ ts2 = ts \cup {t}
        /\ Splitting(es, es2, ps, pt2, Area(m.first) + Len(m.entries), t)
        /\ Recording(m, m2, es[Area(m.first) + Len(m.entries)], {t})

LEMMA PrepareFresh ==
    ASSUME NEW es, NEW ps, NEW ts, NEW us, NEW m, MapOK(es, ps, ts, us, m),
           NEW es2, NEW pt2, NEW ts2, NEW m2, SplitStep(es, ps, ts, m, es2, pt2, ts2, m2)
    PROVE  /\ MapOK(es2, pt2, ts2, us, m2)
           /\ \A p \in Pages : Found(es2, pt2, p) = Found(es, ps, p)
<1>t. PICK t \in Tables \ ts :
        /\ Area(m.first) + Len(m.entries) <= Area(m.last)
        /\ es[Area(m.first) + Len(m.entries)].kind # "table"
        /\ ts2 = ts \cup {t}
        /\ Splitting(es, es2, ps, pt2, Area(m.first) + Len(m.entries), t)
        /\ Recording(m, m2, es[Area(m.first) + Len(m.entries)], {t})
  BY DEF SplitStep
<1> DEFINE a == Area(m.first) + Len(m.entries)  e == es[a]  k == Len(m.entries) + 1
<1>1. /\ Shape(m) /\ es \in [Areas -> Entry] /\ ps \in [Tables -> [{0, 1} -> Page]]
      /\ us \subseteq Slots /\ ts \subseteq Tables /\ Accounted(es, ps, ts, us)
  BY DEF MapOK, Typed
<1>2. /\ Area(m.first) \in Nat /\ Area(m.last) \in Areas /\ Len(m.entries) \in Nat
  BY <1>1, ShapeMeans
<1>3. a \in Areas /\ e \in Entry
  <2>1. a \in Nat /\ a <= Area(m.last)
    BY <1>t, <1>2
  <2>2. a \in Areas
    BY <1>2, <2>1, MemoryAssumption DEF Areas
  <2> QED BY <1>1, <2>2
<1>4. /\ Shape(m2) /\ m.ptes = <<>> /\ m2.ptes = <<>> /\ m2.first = m.first
      /\ m2.found = m.found /\ m2.tables = m.tables
      /\ DOMAIN m2.fresh = DOMAIN m.fresh \cup {k} /\ k \notin DOMAIN m.fresh
      /\ m2.fresh[k] = {t} /\ m2.entries[k] = e
      /\ \A i \in DOMAIN m.fresh : m2.fresh[i] = m.fresh[i] /\ m2.entries[i] = m.entries[i]
      /\ FreshOf(m2) = FreshOf(m) \cup {t}
  <2>1. {t} \in SUBSET Tables
    BY <1>t
  <2> HIDE DEF e, a
  <2>2. Recording(m, m2, e, {t})
    BY <1>t DEF e, a
  <2>3. Area(m.first) + Len(m.entries) <= Area(m.last)
    BY <1>t
  <2>4. Recorded(m, m2, e, {t})
    BY <1>1, <1>3, <2>1, <2>2, <2>3, RecordPrepared
  <2> QED BY <2>4 DEF Recorded
<1>5. /\ es2 = [es EXCEPT ![a] = TableAt(t)] /\ es2[a] = TableAt(t)
      /\ \A b \in Areas \ {a} : es2[b] = es[b]
      /\ es2 \in [Areas -> Entry]
  BY <1>t, <1>1, <1>3, EntryMade DEF Splitting
<1>6. /\ e.kind = "large" => Held(e.at, us)
  BY <1>1, <1>3 DEF Accounted
<1>7. /\ Split(e) \in [{0, 1} -> Page]
      /\ \A h \in {0, 1} : Split(e)[h].present => Held(Area(Split(e)[h].at), us)
  <2> HIDE DEF e
  <2>1. e.kind # "table"
    BY <1>t DEF e
  <2> QED BY <1>1, <1>3, <1>6, <2>1, SplitMeans
<1>8. /\ pt2[t] = Split(e) /\ \A u \in Tables \ {t} : pt2[u] = ps[u]
      /\ pt2 \in [Tables -> [{0, 1} -> Page]]
  BY <1>t, <1>1, <1>7 DEF Splitting
<1>d. m2.ptes = <<>> /\ m.ptes = <<>> /\ m2.first = m.first
  BY <1>4
<1>9. ASSUME NEW i \in DOMAIN m.fresh
      PROVE  Area(m.first) + i - 1 \in Areas \ {a}
  <2>1. Area(m.first) + i - 1 \in Areas
    BY <1>1, ShapeMeans
  <2>2. i \in 1 .. Len(m.entries)
    BY <1>1, ShapeMeans
  <2> QED BY <1>2, <2>1, <2>2
<1>b. es[a].kind # "table"
  BY <1>t
<1> HIDE DEF a, e
<1>c. e = es[a] /\ e.kind # "table"
  BY <1>b DEF e
<1>10. EntriesOf(es2, m2) = EntriesOf(es, m)
  <2>1. ASSUME NEW b \in Areas
        PROVE  EntriesOf(es2, m2)[b] = EntriesOf(es, m)[b]
    <3>1. CASE b = a
      <4>1. b - Area(m2.first) + 1 = k
        BY <1>2, <1>4, <3>1 DEF a
      <4>2. EntriesOf(es2, m2)[b] = e
        BY <1>4, <4>1 DEF EntriesOf
      <4>3. EntriesOf(es, m)[b] = es[a]
        BY <1>4, <3>1, <4>1 DEF EntriesOf
      <4> QED BY <1>c, <4>2, <4>3
    <3>2. CASE b # a
      <4>0. b \in Nat
        BY MemoryNumbers
      <4> DEFINE i == b - Area(m.first) + 1
      <4>1. i # k
        BY <1>2, <3>2, <4>0 DEF a
      <4>2. es2[b] = es[b]
        BY <1>5, <3>2
      <4>3. i \in DOMAIN m2.fresh <=> i \in DOMAIN m.fresh
        BY <1>4, <4>1
      <4>4. i \in DOMAIN m.fresh => m2.fresh[i] = m.fresh[i] /\ m2.entries[i] = m.entries[i]
        BY <1>4
      <4>5. EntriesOf(es2, m2)[b] = IF i \in DOMAIN m2.fresh /\ m2.fresh[i] # {}
                                    THEN m2.entries[i] ELSE es2[b]
        BY <1>d DEF EntriesOf
      <4>6. EntriesOf(es, m)[b] = IF i \in DOMAIN m.fresh /\ m.fresh[i] # {}
                                  THEN m.entries[i] ELSE es[b]
        BY DEF EntriesOf
      <4> QED BY <4>2, <4>3, <4>4, <4>5, <4>6
    <3> QED BY <3>1, <3>2
  <2> QED BY <2>1 DEF EntriesOf
<1>11. PtesOf(es2, pt2, m2) = pt2 /\ PtesOf(es, ps, m) = ps
  BY <1>1, <1>8, <1>d, PtesUnfilled
<1>12. ts2 \ FreshOf(m2) = ts \ FreshOf(m)
  BY <1>t, <1>4
<1>13. ASSUME NEW i \in DOMAIN m2.fresh PROVE FreshAt(es2, pt2, m2, i)
  <2>1. CASE i \in DOMAIN m.fresh
    <3>1. FreshAt(es, ps, m, i)
      BY <2>1 DEF MapOK
    <3> DEFINE b == Area(m.first) + i - 1
    <3>2. b \in Areas \ {a} /\ es2[b] = es[b]
      BY <1>5, <1>9, <2>1
    <3>7. FreshHas(es[b], ps, m.fresh[i], m.entries[i])
      BY <1>11, <3>1 DEF FreshAt
    <3>3. es[b].kind = "table"
      BY <3>7 DEF FreshHas
    <3>4. es[b].at \in ts
      BY <1>1, <3>2, <3>3 DEF Accounted
    <3>5. pt2[es[b].at] = ps[es[b].at]
      BY <1>t, <1>1, <1>8, <3>4
    <3>6. m2.fresh[i] = m.fresh[i] /\ m2.entries[i] = m.entries[i]
      BY <1>4, <2>1
    <3>8. FreshHas(es[b], pt2, m.fresh[i], m.entries[i])
      BY <3>5, <3>7 DEF FreshHas
    <3>9. FreshHas(es2[b], PtesOf(es2, pt2, m2), m2.fresh[i], m2.entries[i])
      BY <1>11, <3>2, <3>6, <3>8
    <3> QED BY <1>d, <3>9 DEF FreshAt
  <2>2. CASE i = k
    <3>1. Area(m2.first) + i - 1 = a
      BY <1>2, <1>4, <2>2 DEF a
    <3>2. es2[a].kind = "table" /\ es2[a].at = t
      BY <1>t, <1>5, EntryMade
    <3>3. \A h \in {0, 1} : pt2[t][h] = Split(e)[h]
      BY <1>8
    <3>4. m2.fresh[i] = {t} /\ m2.entries[i] = e
      BY <1>4, <2>2
    <3>5. es2[a] = TableAt(es2[a].at)
      BY <1>5, <3>2
    <3>6. FreshHas(es2[a], pt2, {t}, e)
      BY <1>c, <3>2, <3>3, <3>5 DEF FreshHas
    <3>7. FreshHas(es2[a], PtesOf(es2, pt2, m2), m2.fresh[i], m2.entries[i])
      BY <1>11, <3>4, <3>6
    <3> QED BY <3>1, <3>7 DEF FreshAt
  <2> QED BY <1>4, <2>1, <2>2
<1>14. Accounted(es2, pt2, ts2, us)
  <2>1. es2[a].kind = "table" /\ es2[a].at = t
    BY <1>t, <1>5, EntryMade
  <2>2. ASSUME NEW b \in Areas, es2[b].kind = "large" PROVE Held(es2[b].at, us)
    <3>1. b # a
      BY <2>1, <2>2
    <3> QED BY <1>1, <1>5, <2>2, <3>1 DEF Accounted
  <2>3. ASSUME NEW b \in Areas \ {a}, es2[b].kind = "table"
        PROVE  /\ es2[b].at \in ts /\ es2[b].at # t /\ pt2[es2[b].at] = ps[es2[b].at]
               /\ es2[b] = es[b]
    <3>1. es2[b] = es[b]
      BY <1>5
    <3>2. es2[b].at \in ts
      BY <1>1, <2>3, <3>1 DEF Accounted
    <3>3. es2[b].at # t
      BY <1>t, <3>2
    <3> QED BY <1>1, <1>8, <3>1, <3>2, <3>3
  <2>4. ASSUME NEW b \in Areas, es2[b].kind = "table"
        PROVE  /\ es2[b].at \in ts2
               /\ \A c \in Areas \ {b} : ~(es2[c].kind = "table" /\ es2[c].at = es2[b].at)
               /\ \A h \in {0, 1} :
                    pt2[es2[b].at][h].present => Held(Area(pt2[es2[b].at][h].at), us)
    <3>1. CASE b = a
      BY <1>t, <1>7, <1>8, <2>1, <2>3, <3>1
    <3>2. CASE b # a
      <4>1. /\ es2[b].at \in ts /\ es2[b].at # t /\ pt2[es2[b].at] = ps[es2[b].at]
            /\ es2[b] = es[b]
        BY <2>3, <2>4, <3>2
      <4>2. ASSUME NEW c \in Areas \ {b}, es2[c].kind = "table" PROVE es2[c].at # es2[b].at
        <5>1. CASE c = a
          BY <2>1, <4>1, <5>1
        <5>2. CASE c # a
          <6>1. es2[c] = es[c]
            BY <1>5, <5>2
          <6> QED BY <1>1, <2>4, <4>1, <4>2, <6>1 DEF Accounted
        <5> QED BY <5>1, <5>2
      <4>3. \A h \in {0, 1} :
              ps[es[b].at][h].present => Held(Area(ps[es[b].at][h].at), us)
        BY <1>1, <2>4, <4>1 DEF Accounted
      <4> QED BY <1>t, <4>1, <4>2, <4>3
    <3> QED BY <3>1, <3>2
  <2> QED BY <2>2, <2>4 DEF Accounted
<1>15. Calm(EntriesOf(es2, m2), PtesOf(es2, pt2, m2), ts2 \ FreshOf(m2), us)
  <2> DEFINE eb == EntriesOf(es, m)  tb == ts \ FreshOf(m)
  <2>1. Calm(eb, ps, tb, us)
    BY <1>11 DEF MapOK
  <2>2. \A u \in tb, h \in {0, 1} :
          pt2[u][h].present = ps[u][h].present /\ pt2[u][h].at = ps[u][h].at
    BY <1>t, <1>1, <1>8
  <2> HIDE DEF eb, tb
  <2>3. \A s \in Slots \ us : eb[Home(s)].kind = "absent"
    BY <2>1 DEF Calm
  <2>5. us \subseteq us /\ \A b \in Areas : eb[b].kind = eb[b].kind /\ eb[b].at = eb[b].at
    OBVIOUS
  <2>4. Calm(eb, pt2, tb, us)
    BY <2>1, <2>2, <2>3, <2>5, CalmKept
  <2> QED BY <1>10, <1>11, <1>12, <2>4 DEF eb, tb
<1>16. m2.found = [p \in Pages |-> Found(EntriesOf(es2, m2), PtesOf(es2, pt2, m2), p)]
  <2> DEFINE eb == EntriesOf(es, m)  tb == ts \ FreshOf(m)
  <2>1. Accounted(eb, ps, tb, us)
    BY <1>11 DEF MapOK, Calm
  <2>2. \A u \in tb : pt2[u] = ps[u]
    BY <1>t, <1>1, <1>8
  <2>3. m.found = [p \in Pages |-> Found(eb, ps, p)]
    BY <1>11 DEF MapOK
  <2> HIDE DEF eb, tb
  <2>4. \A p \in Pages : Found(eb, pt2, p) = Found(eb, ps, p)
    BY <2>1, <2>2, FoundSame
  <2>5. m2.found = [p \in Pages |-> Found(eb, pt2, p)]
    BY <1>4, <2>3, <2>4
  <2> QED BY <1>10, <1>11, <2>5 DEF eb
<1>17. ASSUME NEW p \in Pages PROVE Found(es2, pt2, p) = Found(es, ps, p)
  <2>1. Area(p) \in Areas
    BY MemoryNumbers
  <2>2. CASE Area(p) = a
    <3>1. /\ es[Area(p)] = e /\ es2[Area(p)] = TableAt(t)
          /\ pt2[t][Half(p)] = Split(e)[Half(p)]
      BY <1>5, <1>8, <1>c, <2>2
    <3> QED BY <1>3, <1>c, <3>1, SplitFound
  <2>3. CASE Area(p) # a
    <3>1. es2[Area(p)] = es[Area(p)]
      BY <1>5, <2>1, <2>3
    <3>2. \A u \in ts : pt2[u] = ps[u]
      BY <1>t, <1>1, <1>8
    <3>3. Found(es, pt2, p) = Found(es, ps, p)
      BY <1>1, <3>2, FoundSame
    <3> QED BY <3>1, <3>3 DEF Found
  <2> QED BY <2>2, <2>3
<1>18. m2.tables = ts2 \ FreshOf(m2)
  BY <1>4, <1>12 DEF MapOK
<1>19. Typed(es2, pt2, ts2, us)
  BY <1>t, <1>1, <1>5, <1>8 DEF Typed
<1>20. MapOK(es2, pt2, ts2, us, m2)
  BY <1>4, <1>13, <1>14, <1>15, <1>16, <1>18, <1>19 DEF MapOK
<1> QED BY <1>17, <1>20

LEMMA PrepareKeeps ==
    ASSUME MapInv, Prepare
    PROVE  MapInv' /\ mapping'.running /\ UNCHANGED Translations
<1> DEFINE m == mapping  m2 == mapping'  a == Area(m.first) + Len(m.entries)  e == entries[a]
           t == Least(Tables \ tablesUsed)
<1>1. MapOK(entries, ptes, tablesUsed, used, m) /\ Shape(m)
  BY DEF MapInv, MapOK
<1>2. /\ Area(m.first) \in Nat /\ Area(m.last) \in Nat /\ Len(m.entries) \in Nat
  BY <1>1, ShapeMeans, MemoryNumbers
<1>3. a <= Area(m.last) /\ outcome' = "done" /\ used' = used
  BY <1>2 DEF Prepare, Prepared, MapInv
<1>4. CASE e.kind = "table"
  <2>1. Recording(m, m2, e, {}) /\ UNCHANGED <<entries, ptes, tablesUsed>>
    BY <1>4 DEF Prepare, Recording
  <2> HIDE DEF m, m2
  <2>2. MapOK(entries, ptes, tablesUsed, used, m2)
    BY <1>1, <1>3, <1>4, <2>1, PrepareTable
  <2>3. MapInv'
    BY <1>3, <2>1, <2>2 DEF MapInv, m2
  <2>4. m2.running
    BY <2>2 DEF MapOK, Shape
  <2>5. UNCHANGED Translations
    BY <2>1 DEF Translations, Translation
  <2> QED BY <2>3, <2>4, <2>5 DEF m2
<1>5. CASE e.kind # "table"
  <2>1. /\ Recording(m, m2, e, {t})
        /\ tablesUsed # Tables /\ tablesUsed' = tablesUsed \cup {t}
        /\ Splitting(entries, entries', ptes, ptes', a, t)
    BY <1>5 DEF Prepare, Recording, Splitting
  <2>2. t \in Tables \ tablesUsed
    <3>1. tablesUsed \subseteq Tables
      BY <1>1 DEF MapOK, Typed
    <3>3. Tables \subseteq Nat
      BY DEF Tables
    <3>2. Tables \ tablesUsed # {} /\ Tables \ tablesUsed \in SUBSET Nat
      BY <2>1, <3>1, <3>3
    <3> QED BY <3>2, LeastNat
  <2> HIDE DEF m, m2, t
  <2>3. /\ MapOK(entries', ptes', tablesUsed', used, m2)
        /\ \A p \in Pages : Found(entries', ptes', p) = Found(entries, ptes, p)
    <3>1. SplitStep(entries, ptes, tablesUsed, m, entries', ptes', tablesUsed', m2)
      BY <1>3, <1>5, <2>1, <2>2 DEF SplitStep
    <3> QED BY <1>1, <3>1, PrepareFresh
  <2>4. MapInv'
    BY <1>3, <2>3 DEF MapInv, m2
  <2>5. m2.running
    BY <2>3 DEF MapOK, Shape
  <2>6. UNCHANGED Translations
    <3>1. /\ Translations = [p \in Pages |-> Found(entries, ptes, p)]
          /\ Translations' = [p \in Pages |-> Found(entries', ptes', p)]
      BY DEF Translations, Translation, Found
    <3> QED BY <2>3, <3>1
  <2> QED BY <2>4, <2>5, <2>6 DEF m2
<1> QED BY <1>4, <1>5

\* The next page is recorded as it was.
RecordingPage(m, m2, old) == m2 = [m EXCEPT !.ptes = Append(@, old)]
RecordedPage(m, m2, old) ==
    /\ Shape(m2) /\ m2.first = m.first /\ m2.entries = m.entries /\ m2.fresh = m.fresh
    /\ m2.found = m.found /\ m2.tables = m.tables
    /\ DOMAIN m2.ptes = DOMAIN m.ptes \cup {Len(m.ptes) + 1}
    /\ Len(m.ptes) + 1 \notin DOMAIN m.ptes /\ m2.ptes[Len(m.ptes) + 1] = old
    /\ \A i \in DOMAIN m.ptes : m2.ptes[i] = m.ptes[i]

LEMMA RecordFilled ==
    ASSUME NEW m, Shape(m), Area(m.first) + Len(m.entries) > Area(m.last),
           m.first + Len(m.ptes) <= m.last, NEW old \in Page, NEW m2, RecordingPage(m, m2, old)
    PROVE  RecordedPage(m, m2, old)
<1>1. m = Fields(m)
  BY DEF Shape
<1>2. /\ m.ptes \in Seq(Page) /\ Len(m.ptes) \in Nat /\ DOMAIN m.ptes = 1 .. Len(m.ptes)
      /\ m.first \in Nat /\ m.last \in Nat
  BY ShapeMeans
<1> DEFINE ps == Append(m.ptes, old)  k == Len(m.ptes) + 1
<1>3. m2 = [first |-> m.first, last |-> m.last, from |-> m.from, replace |-> m.replace,
            write |-> m.write, entries |-> m.entries, fresh |-> m.fresh, ptes |-> ps,
            running |-> m.running, found |-> m.found, tables |-> m.tables]
  <2>1. m2 = [Fields(m) EXCEPT !.ptes = ps]
    <3>1. m2 = [m EXCEPT !.ptes = ps]
      BY DEF RecordingPage
    <3> QED BY <1>1, <3>1
  <2> HIDE DEF ps
  <2> QED BY <2>1 DEF Fields
<1>4. /\ ps \in Seq(Page) /\ Len(ps) = k /\ ps[k] = old /\ DOMAIN ps = 1 .. k
      /\ \A i \in 1 .. Len(m.ptes) : ps[i] = m.ptes[i]
  BY <1>2
<1> HIDE DEF ps
<1>6. /\ m2.first = m.first /\ m2.last = m.last /\ m2.from = m.from /\ m2.write = m.write
      /\ m2.entries = m.entries /\ m2.fresh = m.fresh /\ m2.ptes = ps /\ m2.running = m.running
      /\ m2.found = m.found /\ m2.tables = m.tables /\ m2.replace = m.replace
  BY <1>3
<1>7. m2 = Fields(m2)
  BY <1>3, <1>6 DEF Fields
<1>8. m.first + k <= m.last + 1
  BY <1>2
<1>9. Shape(m2)
  BY <1>4, <1>6, <1>7, <1>8 DEF Shape
<1>10. 1 .. k = (1 .. Len(m.ptes)) \cup {k} /\ k \notin 1 .. Len(m.ptes)
  BY <1>2
<1> HIDE DEF k
<1> QED BY <1>2, <1>4, <1>6, <1>9, <1>10 DEF k, RecordedPage

\* The pages of the call lie in areas that have a table, each its own.
LEMMA PagesHaveTables ==
    ASSUME NEW es, NEW ps, NEW ts, NEW us, NEW m, MapOK(es, ps, ts, us, m),
           Area(m.first) + Len(m.entries) > Area(m.last),
           NEW p \in Nat, m.first <= p, p <= m.last
    PROVE  /\ p \in Pages /\ es[Area(p)].kind = "table" /\ es[Area(p)].at \in ts
           /\ Area(p) - Area(m.first) + 1 \in DOMAIN m.fresh
<1>1. Shape(m) /\ Accounted(es, ps, ts, us)
  BY DEF MapOK
<1>2. /\ m.first \in Nat /\ m.last \in Pages /\ m.last \in Nat /\ Area(m.first) \in Nat
      /\ Area(m.last) \in Nat
      /\ Len(m.entries) \in Nat /\ DOMAIN m.fresh = 1 .. Len(m.entries)
  <2>1. m.last \in Pages
    BY <1>1 DEF Shape
  <2> QED BY <1>1, <2>1, ShapeMeans, MemoryNumbers
<1>3. p \in Pages
  BY <1>2, MemoryAssumption DEF Pages
<1>4. Area(m.first) <= Area(p) /\ Area(p) <= Area(m.last) /\ Area(p) \in Nat
  BY <1>2 DEF Area
<1>5. Area(p) - Area(m.first) + 1 \in DOMAIN m.fresh
  BY <1>2, <1>4
<1>6. FreshAt(es, ps, m, Area(p) - Area(m.first) + 1)
  BY <1>5 DEF MapOK
<1>7. Area(m.first) + (Area(p) - Area(m.first) + 1) - 1 = Area(p)
  BY <1>2, <1>4
<1>8. es[Area(p)].kind = "table"
  BY <1>6, <1>7 DEF FreshAt, FreshHas
<1>9. Area(p) \in Areas
  BY <1>3, MemoryNumbers
<1> QED BY <1>1, <1>3, <1>5, <1>8, <1>9 DEF Accounted

LEMMA LeastOne == ASSUME NEW x \in Nat PROVE Least({x}) = x
BY LeastNat

\* One page is written; what rolling back restores stays.
PageMade(m) == [present |-> TRUE, at |-> m.from + Len(m.ptes), write |-> m.write]
PageWritten(ps, pt2, t, h, new) == pt2 = [ps EXCEPT ![t][h] = new]

LEMMA FillOne ==
    ASSUME NEW es, NEW ps, NEW ts, NEW us, NEW m, MapOK(es, ps, ts, us, m),
           Area(m.first) + Len(m.entries) > Area(m.last), NEW p,
           p = m.first + Len(m.ptes), p <= m.last, NEW t, t = es[Area(p)].at,
           NEW new, new = PageMade(m), NEW pt2, PageWritten(ps, pt2, t, Half(p), new),
           NEW m2, RecordingPage(m, m2, ps[t][Half(p)])
    PROVE  /\ MapOK(es, pt2, ts, us, m2)
           /\ \A q \in Pages \ {p} : Found(es, pt2, q) = Found(es, ps, q)
<1> DEFINE old == ps[t][Half(p)]  j == Len(m.ptes) + 1
<1>1. /\ Shape(m) /\ es \in [Areas -> Entry] /\ ps \in [Tables -> [{0, 1} -> Page]]
      /\ us \subseteq Slots /\ ts \subseteq Tables /\ Accounted(es, ps, ts, us)
  BY DEF MapOK, Typed
<1>2. /\ m.first \in Nat /\ m.last \in Nat /\ Len(m.ptes) \in Nat /\ p \in Nat
      /\ m.first <= p /\ DOMAIN m.ptes = 1 .. Len(m.ptes)
  BY <1>1, ShapeMeans
<1>3. /\ p \in Pages /\ es[Area(p)].kind = "table" /\ t \in ts /\ t \in Tables
      /\ Area(p) \in Areas /\ Half(p) \in {0, 1}
  <2>1. p \in Pages /\ es[Area(p)].kind = "table" /\ es[Area(p)].at \in ts
    BY <1>2, PagesHaveTables
  <2>2. Area(p) \in Areas /\ Half(p) \in {0, 1}
    BY <2>1, MemoryNumbers
  <2> QED BY <1>1, <2>1, <2>2
<1>4. old \in Page
  BY <1>1, <1>3
<1>5. new \in Page /\ new.present /\ Held(Area(new.at), us)
  <2>1. /\ m.from \in Nat /\ m.from + m.last - m.first < 2 * DirectSlots /\ m.write \in BOOLEAN
    BY <1>1 DEF Shape
  <2> DEFINE at == m.from + Len(m.ptes)
  <2>2. at \in Nat /\ at < 2 * DirectSlots
    <3>1. DirectSlots \in Nat
      BY MemoryAssumption
    <3>2. m.first + Len(m.ptes) <= m.last
      OBVIOUS
    <3>3. /\ m.from \in Nat /\ Len(m.ptes) \in Nat /\ m.first \in Nat /\ m.last \in Nat
      BY <1>2, <2>1
    <3> QED BY <2>1, <3>1, <3>2, <3>3
  <2>3. at \in Pages
    BY <2>2, MemoryAssumption DEF Pages
  <2>4. ~(Area(at) >= DirectSlots)
    <3>1. DirectSlots \in Nat
      BY MemoryAssumption
    <3> HIDE DEF at
    <3> QED BY <2>2, <3>1 DEF Area
  <2> HIDE DEF at
  <2>5. new = [present |-> TRUE, at |-> at, write |-> m.write]
    BY DEF at, PageMade
  <2> QED BY <2>1, <2>3, <2>4, <2>5 DEF Page, Held
<1>6. /\ Shape(m2) /\ m2.first = m.first /\ m2.entries = m.entries /\ m2.fresh = m.fresh
      /\ m2.found = m.found /\ m2.tables = m.tables
      /\ DOMAIN m2.ptes = DOMAIN m.ptes \cup {j} /\ j \notin DOMAIN m.ptes /\ m2.ptes[j] = old
      /\ \A i \in DOMAIN m.ptes : m2.ptes[i] = m.ptes[i]
  <2> HIDE DEF old
  <2>1. RecordingPage(m, m2, old)
    BY DEF old
  <2>2. RecordedPage(m, m2, old)
    BY <1>1, <1>4, <2>1, RecordFilled
  <2> QED BY <2>2 DEF RecordedPage
<1>7. /\ pt2[t][Half(p)] = new
      /\ \A u \in Tables, h \in {0, 1} : u # t \/ h # Half(p) => pt2[u][h] = ps[u][h]
      /\ pt2 \in [Tables -> [{0, 1} -> Page]]
  BY <1>1, <1>3, <1>5 DEF PageWritten
<1>8. ASSUME NEW q \in Pages, es[Area(q)].kind = "table", es[Area(q)].at = t, Half(q) = Half(p)
      PROVE  q = p
  <2>1. Area(q) \in Areas
    BY MemoryNumbers
  <2>2. Area(q) = Area(p)
    BY <1>1, <1>3, <1>8, <2>1 DEF Accounted
  <2> QED BY <1>3, <1>8, <2>2, MemoryNumbers
<1>9. ASSUME NEW i \in DOMAIN m.ptes PROVE m.first + i - 1 \in Pages /\ m.first + i - 1 # p
  <2>1. i \in 1 .. Len(m.ptes) /\ m.last \in Pages
    BY <1>1, <1>2 DEF Shape
  <2>2. m.first + i - 1 \in Nat /\ m.first + i - 1 <= m.last /\ m.first + i - 1 # p
    BY <1>2, <2>1
  <2> QED BY <2>1, <2>2, MemoryAssumption DEF Pages
<1>10. Filled(es, m, t, Half(p)) = {}
  BY <1>8, <1>9 DEF Filled
<1>11. m.first + j - 1 = p
  BY <1>2
<1> HIDE DEF old, j
<1>12. Filled(es, m2, t, Half(p)) = {j}
  BY <1>3, <1>6, <1>10, <1>11 DEF Filled
<1>13. ASSUME NEW u \in Tables, NEW h \in {0, 1}, u # t \/ h # Half(p)
       PROVE  Filled(es, m2, u, h) = Filled(es, m, u, h)
  BY <1>6, <1>11, <1>13 DEF Filled
<1>14. PtesOf(es, pt2, m2) = PtesOf(es, ps, m)
  <2>1. ASSUME NEW u \in Tables, NEW h \in {0, 1}
        PROVE  (IF Filled(es, m2, u, h) = {} THEN pt2[u][h] ELSE m2.ptes[Least(Filled(es, m2, u, h))])
                = (IF Filled(es, m, u, h) = {} THEN ps[u][h] ELSE m.ptes[Least(Filled(es, m, u, h))])
    <3>1. CASE u = t /\ h = Half(p)
      <4>2. j \in Nat
        BY <1>2 DEF j
      <4>1. Least({j}) = j
        BY <4>2, LeastOne
      <4> QED BY <1>6, <1>10, <1>12, <3>1, <4>1 DEF old
    <3>2. CASE u # t \/ h # Half(p)
      <4> DEFINE S == Filled(es, m, u, h)
      <4>0. S \subseteq DOMAIN m.ptes
        BY DEF Filled
      <4>1. S \in SUBSET Nat
        BY <1>2, <4>0
      <4>2. S # {} => Least(S) \in DOMAIN m.ptes
        BY <4>0, <4>1, LeastNat
      <4>3. Filled(es, m2, u, h) = S /\ pt2[u][h] = ps[u][h]
        BY <1>7, <1>13, <3>2
      <4> HIDE DEF S
      <4> QED BY <1>6, <4>2, <4>3 DEF S
    <3> QED BY <3>1, <3>2
  <2> QED BY <2>1 DEF PtesOf
<1>15. EntriesOf(es, m2) = EntriesOf(es, m) /\ FreshOf(m2) = FreshOf(m)
  BY <1>6 DEF EntriesOf, FreshOf
<1>16. \A i \in DOMAIN m2.fresh : FreshAt(es, pt2, m2, i)
  <2>1. \A i \in DOMAIN m.fresh : FreshAt(es, ps, m, i)
    BY DEF MapOK
  <2> QED BY <1>6, <1>14, <2>1 DEF FreshAt
<1>17. Accounted(es, pt2, ts, us)
  <2>1. ASSUME NEW b \in Areas, es[b].kind = "table", NEW h \in {0, 1}, pt2[es[b].at][h].present
        PROVE  Held(Area(pt2[es[b].at][h].at), us)
    <3>1. es[b].at \in Tables
      BY <1>1, <2>1 DEF Accounted
    <3>2. CASE es[b].at = t /\ h = Half(p)
      BY <1>5, <1>7, <3>2
    <3>3. CASE es[b].at # t \/ h # Half(p)
      <4>1. pt2[es[b].at][h] = ps[es[b].at][h]
        BY <1>7, <3>1, <3>3
      <4> QED BY <1>1, <2>1, <4>1 DEF Accounted
    <3> QED BY <3>2, <3>3
  <2> QED BY <1>1, <2>1 DEF Accounted
<1>18. ASSUME NEW q \in Pages \ {p} PROVE Found(es, pt2, q) = Found(es, ps, q)
  <2>1. Area(q) \in Areas /\ Half(q) \in {0, 1}
    BY MemoryNumbers
  <2>2. CASE es[Area(q)].kind = "table"
    <3>1. es[Area(q)].at \in Tables
      BY <1>1, <2>1, <2>2 DEF Accounted
    <3>2. es[Area(q)].at # t \/ Half(q) # Half(p)
      BY <1>8, <2>2
    <3>3. pt2[es[Area(q)].at][Half(q)] = ps[es[Area(q)].at][Half(q)]
      BY <1>7, <2>1, <3>1, <3>2
    <3> QED BY <3>3 DEF Found
  <2>3. CASE es[Area(q)].kind # "table"
    BY <2>3 DEF Found
  <2> QED BY <2>2, <2>3
<1>19. Typed(es, pt2, ts, us)
  BY <1>1, <1>7 DEF Typed
<1>20. /\ Calm(EntriesOf(es, m2), PtesOf(es, pt2, m2), ts \ FreshOf(m2), us)
       /\ m2.found = [q \in Pages |-> Found(EntriesOf(es, m2), PtesOf(es, pt2, m2), q)]
       /\ m2.tables = ts \ FreshOf(m2)
  BY <1>6, <1>14, <1>15 DEF MapOK
<1>21. MapOK(es, pt2, ts, us, m2)
  BY <1>6, <1>16, <1>17, <1>19, <1>20 DEF MapOK
<1> QED BY <1>18, <1>21

LEMMA FillKeeps ==
    ASSUME MapInv, Fill
    PROVE  /\ MapInv' /\ mapping'.running
           /\ \A q \in Pages : Translation(q)' # Translation(q)
                => q \in mapping.first .. mapping.first + Len(mapping.ptes)
<1> DEFINE m == mapping  m2 == mapping'  p == m.first + Len(m.ptes)  t == entries[Area(p)].at
           old == ptes[t][Half(p)]
           new == PageMade(m)
<1>1. MapOK(entries, ptes, tablesUsed, used, m) /\ Shape(m)
  BY DEF MapInv, MapOK
<1>2. /\ m.first \in Nat /\ Len(m.ptes) \in Nat /\ Area(m.first) \in Nat /\ Area(m.last) \in Nat
      /\ Len(m.entries) \in Nat
  BY <1>1, ShapeMeans, MemoryNumbers
<1>3. /\ Area(m.first) + Len(m.entries) > Area(m.last) /\ p <= m.last
      /\ outcome' = "done" /\ UNCHANGED <<used, entries, tablesUsed>>
  BY DEF Fill, Prepared, MapInv
<1>4. PageWritten(ptes, ptes', t, Half(p), new) /\ RecordingPage(m, m2, old)
  BY DEF Fill, PageWritten, RecordingPage, PageMade
<1>5. p \in m.first .. p
  BY <1>2
<1> HIDE DEF m, m2, p, t, new
<1>6. p = m.first + Len(m.ptes) /\ t = entries[Area(p)].at
      /\ new = PageMade(m)
  BY DEF m, p, t, new
<1>7. /\ MapOK(entries, ptes', tablesUsed, used, m2)
      /\ \A q \in Pages \ {p} : Found(entries, ptes', q) = Found(entries, ptes, q)
  BY <1>1, <1>3, <1>4, <1>6, FillOne
<1>8. MapInv'
  BY <1>3, <1>7 DEF MapInv, m2
<1>9. m2.running
  BY <1>7 DEF MapOK, Shape
<1>10. ASSUME NEW q \in Pages, Translation(q)' # Translation(q) PROVE q = p
  <2>1. Translation(q) = Found(entries, ptes, q) /\ Translation(q)' = Found(entries', ptes', q)
    BY DEF Translation, Found
  <2> QED BY <1>3, <1>7, <1>10, <2>1
<1> QED BY <1>5, <1>8, <1>9, <1>10 DEF m, m2, p

\* The areas the call has not prepared are as it found them.
LEMMA AreasUntouched ==
    ASSUME NEW es \in [Areas -> Entry], NEW m, Shape(m), NEW a \in Areas,
           a \notin AreasOf(m.first, m.last)
    PROVE  EntriesOf(es, m)[a] = es[a]
<1>1. /\ Area(m.first) \in Nat /\ Area(m.last) \in Nat /\ a \in Nat
      /\ Len(m.entries) \in Nat /\ DOMAIN m.fresh = 1 .. Len(m.entries)
      /\ Area(m.first) + Len(m.entries) <= Area(m.last) + 1
  <2>1. Area(m.first) + Len(m.entries) <= Area(m.last) + 1
    BY DEF Shape
  <2> QED BY <2>1, ShapeMeans, MemoryNumbers
<1>2. a - Area(m.first) + 1 \notin DOMAIN m.fresh
  BY <1>1 DEF AreasOf
<1> QED BY <1>2 DEF EntriesOf

LEMMA MappedKeeps ==
    ASSUME MapInv, Mapped
    PROVE  CalmInv' /\ UNCHANGED Translations /\ outcome' = "done"
<1> DEFINE m == mapping  mine == SlotsOf(m.first, m.last)
<1>1. /\ MapOK(entries, ptes, tablesUsed, used, m) /\ Shape(m)
      /\ Typed(entries, ptes, tablesUsed, used) /\ Accounted(entries, ptes, tablesUsed, used)
      /\ Area(m.first) >= Below \/ Area(m.last) < Below
  BY DEF MapInv, MapOK, Shape
<1>2. /\ used' = used \cup (IF Area(m.first) >= Below THEN mine ELSE {})
      /\ UNCHANGED <<entries, ptes, tablesUsed, outcome>> /\ mapping' = NoMapping
  BY DEF Mapped
<1>3. /\ Area(m.first) \in Nat /\ Area(m.last) \in Areas /\ Area(m.last) \in Nat
  BY <1>1, ShapeMeans, MemoryNumbers
<1>4. Area(m.first) >= Below => mine \subseteq Slots
  <2>1. ASSUME Area(m.first) >= Below, NEW a \in AreasOf(m.first, m.last)
        PROVE  a - Below \in Slots
    <3>1. a \in Nat /\ a >= Below /\ a <= Area(m.last)
      BY <1>3, <2>1, MemoryAssumption DEF AreasOf
    <3>2. a \in Areas
      BY <1>3, <3>1, MemoryAssumption DEF Areas
    <3> QED BY <3>1, <3>2, MemoryNumbers
  <2> QED BY <2>1 DEF SlotsOf
<1>5. used' \subseteq Slots /\ used \subseteq used'
  BY <1>1, <1>2, <1>4 DEF Typed
<1>6. Accounted(entries, ptes, tablesUsed, used')
  <2>1. \A area : Held(area, used) => Held(area, used')
    BY <1>5 DEF Held
  <2> QED BY <1>1, <2>1 DEF Accounted
<1>7. ASSUME NEW s \in Slots \ used' PROVE entries[Home(s)].kind = "absent"
  <2>1. Home(s) \in Areas /\ Home(s) - Below = s /\ s \in Nat
    BY MemoryNumbers DEF Slots
  <2>2. Home(s) \notin AreasOf(m.first, m.last)
    <3>1. ASSUME Home(s) \in AreasOf(m.first, m.last) PROVE FALSE
      <4>1. Area(m.last) >= Home(s) /\ Home(s) >= Below
        BY <1>3, <2>1, <3>1, MemoryAssumption DEF AreasOf, Home
      <4>4. Below \in Nat /\ Home(s) \in Nat
        BY <2>1, MemoryAssumption DEF Home
      <4>5. ~(Area(m.last) < Below)
        BY <1>3, <4>1, <4>4
      <4>2. Area(m.first) >= Below
        BY <1>1, <4>5
      <4>3. s \in mine
        BY <2>1, <3>1 DEF SlotsOf
      <4> QED BY <1>2, <1>7, <4>2, <4>3
    <3> QED BY <3>1
  <2>3. EntriesOf(entries, m)[Home(s)] = entries[Home(s)]
    BY <1>1, <2>1, <2>2, AreasUntouched DEF Typed
  <2>4. s \in Slots \ used
    BY <1>5, <1>7
  <2>5. Calm(EntriesOf(entries, m), PtesOf(entries, ptes, m), tablesUsed \ FreshOf(m), used)
    BY <1>1 DEF MapOK
  <2> QED BY <2>3, <2>4, <2>5 DEF Calm
<1>8. Typed(entries, ptes, tablesUsed, used')
  BY <1>1, <1>5 DEF Typed
<1>9. Calm(entries, ptes, tablesUsed, used')
  BY <1>6, <1>7 DEF Calm
<1>10. CalmInv'
  BY <1>2, <1>8, <1>9 DEF CalmInv
<1>11. UNCHANGED Translations
  BY <1>2 DEF Translations, Translation
<1>12. outcome' = "done"
  BY <1>2 DEF MapInv
<1> QED BY <1>10, <1>11, <1>12

\* Rolling back changes what is found at no page that was not filled.
LEMMA UnfilledFound ==
    ASSUME NEW es, NEW ps, NEW ts, NEW us, NEW m, MapOK(es, ps, ts, us, m),
           NEW q \in Pages, q \notin m.first .. m.first + Len(m.ptes)
    PROVE  Found(EntriesOf(es, m), PtesOf(es, ps, m), q) = Found(es, ps, q)
<1> DEFINE a == Area(q)  i == a - Area(m.first) + 1  u == es[a].at  pb == PtesOf(es, ps, m)
           eb == EntriesOf(es, m)
<1>1. /\ Shape(m) /\ es \in [Areas -> Entry] /\ ps \in [Tables -> [{0, 1} -> Page]]
      /\ ts \subseteq Tables /\ Accounted(es, ps, ts, us)
  BY DEF MapOK, Typed
<1>2. a \in Areas /\ Half(q) \in {0, 1} /\ a \in Nat /\ q \in Nat
  BY MemoryNumbers DEF Pages
<1>3. /\ m.first \in Nat /\ Len(m.ptes) \in Nat /\ DOMAIN m.ptes = 1 .. Len(m.ptes)
      /\ Area(m.first) \in Nat /\ m.last \in Pages /\ m.last \in Nat
      /\ m.first + Len(m.ptes) <= m.last + 1
  <2>1. m.last \in Pages /\ m.first + Len(m.ptes) <= m.last + 1
    BY <1>1 DEF Shape
  <2> QED BY <1>1, <2>1, ShapeMeans
<1>4. ASSUME es[a].kind = "table"
      PROVE  u \in Tables /\ pb[u][Half(q)] = ps[u][Half(q)]
  <2>1. u \in Tables
    BY <1>1, <1>2, <1>4 DEF Accounted
  <2>2. ASSUME NEW k \in Filled(es, m, u, Half(q)) PROVE FALSE
    <3> DEFINE r == m.first + k - 1
    <3>1. /\ k \in 1 .. Len(m.ptes) /\ es[Area(r)].kind = "table" /\ es[Area(r)].at = u
          /\ Half(r) = Half(q)
      BY <1>3, <2>2 DEF Filled
    <3>2. r \in Nat /\ r <= m.last /\ r \in m.first .. m.first + Len(m.ptes)
      BY <1>3, <3>1
    <3>3. r \in Pages
      BY <1>3, <3>2, MemoryAssumption DEF Pages
    <3> HIDE DEF r
    <3>4. Area(r) \in Areas
      BY <3>3, MemoryNumbers
    <3>5. Area(r) = a
      BY <1>1, <1>2, <1>4, <3>1, <3>4 DEF Accounted
    <3>6. r = q
      BY <3>1, <3>3, <3>5, MemoryNumbers
    <3> QED BY <3>2, <3>6
  <2> QED BY <1>2, <2>1, <2>2 DEF PtesOf
<1>5. CASE i \in DOMAIN m.fresh /\ m.fresh[i] # {}
  <2>1. FreshAt(es, ps, m, i) /\ Area(m.first) + i - 1 = a
    <3>1. FreshAt(es, ps, m, i)
      BY <1>5 DEF MapOK
    <3> QED BY <1>2, <1>3, <3>1
  <2> DEFINE e == m.entries[i]
  <2>2. /\ es[a].kind = "table" /\ es[a] = TableAt(u) /\ e.kind # "table"
        /\ \A h \in {0, 1} : pb[u][h] = Split(e)[h]
    BY <1>5, <2>1 DEF FreshAt, FreshHas
  <2>3. eb[a] = e
    BY <1>2, <1>5 DEF EntriesOf
  <2>4. e \in Entry
    <3>1. m.entries \in Seq(Entry) /\ i \in 1 .. Len(m.entries)
      BY <1>1, <1>5, ShapeMeans
    <3> QED BY <3>1
  <2>5. ps[u][Half(q)] = Split(e)[Half(q)]
    BY <1>2, <1>4, <2>2
  <2> HIDE DEF e, u, pb, eb, i
  <2> QED BY <2>2, <2>3, <2>4, <2>5, SplitFound DEF eb, pb
<1>6. CASE ~(i \in DOMAIN m.fresh /\ m.fresh[i] # {})
  <2>1. eb[a] = es[a]
    BY <1>2, <1>6 DEF EntriesOf
  <2> HIDE DEF eb, pb
  <2> QED BY <1>4, <2>1 DEF Found, eb, pb
<1> QED BY <1>5, <1>6

LEMMA RollBackKeeps ==
    ASSUME MapInv, RollBack
    PROVE  /\ CalmInv' /\ Translations' = mapping.found /\ tablesUsed' = mapping.tables
           /\ \A q \in Pages : Translation(q)' # Translation(q)
                => q \in mapping.first .. mapping.first + Len(mapping.ptes)
<1> DEFINE m == mapping  eb == EntriesOf(entries, m)  pb == PtesOf(entries, ptes, m)
<1>1. /\ MapOK(entries, ptes, tablesUsed, used, m) /\ Shape(m)
      /\ Typed(entries, ptes, tablesUsed, used)
  BY DEF MapInv, MapOK
<1>2. /\ entries' = eb /\ ptes' = pb /\ tablesUsed' = tablesUsed \ FreshOf(m)
      /\ used' = used /\ mapping' = NoMapping
  BY BeforeMeans DEF RollBack
<1>3. /\ m.entries \in Seq(Entry) /\ m.ptes \in Seq(Page)
      /\ DOMAIN m.fresh = 1 .. Len(m.entries) /\ DOMAIN m.ptes = 1 .. Len(m.ptes)
  BY <1>1, ShapeMeans
<1>4. eb \in [Areas -> Entry]
  <2>1. \A i \in DOMAIN m.fresh : m.entries[i] \in Entry
    BY <1>3
  <2> QED BY <1>1, <2>1 DEF EntriesOf, Typed
<1>5. pb \in [Tables -> [{0, 1} -> Page]]
  <2>1. ASSUME NEW t \in Tables, NEW h \in {0, 1}, Filled(entries, m, t, h) # {}
        PROVE  m.ptes[Least(Filled(entries, m, t, h))] \in Page
    <3> DEFINE S == Filled(entries, m, t, h)
    <3>1. S \subseteq DOMAIN m.ptes /\ S \in SUBSET Nat
      BY <1>3 DEF Filled
    <3>2. Least(S) \in DOMAIN m.ptes
      BY <2>1, <3>1, LeastNat
    <3> QED BY <1>3, <3>2
  <2> QED BY <1>1, <2>1 DEF PtesOf, Typed
<1>6. Typed(eb, pb, tablesUsed \ FreshOf(m), used)
  BY <1>1, <1>4, <1>5 DEF Typed
<1>7. /\ Calm(eb, pb, tablesUsed \ FreshOf(m), used)
      /\ m.found = [q \in Pages |-> Found(eb, pb, q)] /\ m.tables = tablesUsed \ FreshOf(m)
  BY <1>1 DEF MapOK
<1> HIDE DEF eb, pb
<1>8. CalmInv'
  BY <1>2, <1>6, <1>7 DEF CalmInv
<1>9. Translations' = [q \in Pages |-> Found(entries', ptes', q)]
  BY DEF Translations, Translation, Found
<1>10. Translations' = m.found
  BY <1>2, <1>7, <1>9
<1>11. ASSUME NEW q \in Pages, q \notin m.first .. m.first + Len(m.ptes)
       PROVE  Translation(q)' = Translation(q)
  <2>1. Translation(q) = Found(entries, ptes, q) /\ Translation(q)' = Found(entries', ptes', q)
    BY DEF Translation, Found
  <2>2. Found(eb, pb, q) = Found(entries, ptes, q)
    BY <1>1, <1>11, UnfilledFound DEF eb, pb
  <2> QED BY <1>2, <2>1, <2>2
<1> QED BY <1>2, <1>7, <1>8, <1>10, <1>11

----------------------------------------------------------------------------
\* The invariant

MemInv == (mapping.running => MapInv) /\ (~mapping.running => CalmInv)

\* What MapUndisturbing says of a step.
Undisturbing ==
    /\ mapping.running =>
         \A p \in Pages : Translation(p)' # Translation(p)
             => p \in mapping.first .. mapping.first + Len(mapping.ptes)
    /\ outcome' = "failed" =>
         IF mapping.running /\ ~mapping'.running
         THEN Translations' = mapping.found /\ tablesUsed' = mapping.tables
         ELSE mapCalls' # mapCalls => UNCHANGED <<Translations, tablesUsed>>

LEMMA CalmIdle == CalmInv => ~mapping.running
BY DEF CalmInv, NoMapping

LEMMA CallStep ==
    ASSUME CalmInv, CallKeeps PROVE MemInv' /\ Undisturbing
<1>1. ~mapping.running /\ CalmInv'
  BY CalmIdle DEF CallKeeps
<1>2. ~mapping'.running
  BY <1>1 DEF CalmInv, NoMapping
<1> QED BY <1>1, <1>2 DEF CallKeeps, MemInv, Undisturbing

LEMMA DirectStep ==
    ASSUME CarefulGuest, CalmInv, NEW first \in Pages, NEW last \in Pages, first <= last,
           NEW from \in 0 .. 2 * DirectSlots - 1, NEW replace, NEW w \in Rights,
           MapDirect(first, last, from, replace, w)
    PROVE  MemInv' /\ Undisturbing
<1>1. MapInv' /\ mapping'.running
  <2>1. from \in Nat /\ w \in BOOLEAN
    BY MemoryAssumption
  <2> QED BY <2>1, DirectStarts
<1>2. ~mapping.running /\ outcome' # "failed"
  BY CalmIdle DEF MapDirect, Serve
<1> QED BY <1>1, <1>2 DEF MemInv, Undisturbing

\* A mapping where the call chooses begins in front of its end.
LEMMA PlaceFits ==
    ASSUME NEW n \in Sizes2, AbsentPlaces(n) # {}
    PROVE  /\ Least(AbsentPlaces(n)) \in Pages /\ Least(AbsentPlaces(n)) + n - 1 \in Pages
           /\ Least(AbsentPlaces(n)) <= Least(AbsentPlaces(n)) + n - 1
<1>1. AbsentPlaces(n) \in SUBSET Nat
  BY DEF AbsentPlaces, Pages
<1> DEFINE p == Least(AbsentPlaces(n))
<1>2. p \in AbsentPlaces(n) /\ p \in Nat
  BY <1>1, LeastNat
<1> HIDE DEF p
<1>3. p \in Pages /\ p + n - 1 \in Pages
  BY <1>2 DEF AbsentPlaces
<1>4. p <= p + n - 1
  BY <1>2 DEF Sizes2
<1> QED BY <1>3, <1>4 DEF p

\* Reserving marks slots, and nothing the processor sees.
LEMMA ReserveKeeps ==
    ASSUME CalmInv, NEW place, NEW n, Reserve(place, n)
    PROVE  CallKeeps
<1>1. used \subseteq Slots /\ UNCHANGED <<entries, ptes, tablesUsed, mapping>> /\ used' = used
  BY DEF CalmInv, Typed, Reserve
<1> QED BY <1>1, QuietKeeps DEF CallKeeps

LEMMA AllocateKeeps ==
    ASSUME CalmInv, NEW n, AllocateDirect(n)
    PROVE  CallKeeps
<1>1. used \subseteq Slots /\ UNCHANGED <<entries, ptes, tablesUsed, mapping>> /\ used' = used
  BY DEF CalmInv, Typed, AllocateDirect
<1> QED BY <1>1, QuietKeeps DEF CallKeeps

LEMMA CalmStep ==
    ASSUME CarefulGuest, CalmInv, MemoryNext
    PROVE  MemInv' /\ Undisturbing
<1>0. ~mapping.running
  BY CalmIdle
<1>p. \A first \in Pages : \A last \in {first, first + 1} \cap Pages :
        last \in Pages /\ first <= last
  BY DEF Pages
<1>1. CASE \E n \in Sizes2, w \in Rights : \E fault \in 0 .. n : Mmap(n, w, fault)
  BY <1>1, MmapKeeps, CallStep
<1>2. CASE \E n \in Sizes2, w \in Rights : \E fault \in 0 .. n :
             \E s \in Flexible : Alias(s, n, w, fault)
  BY <1>2, AliasKeeps, CallStep
<1>3. CASE \E first \in Pages : \E last \in {first, first + 1} \cap Pages : \E w \in Rights :
             \E fault \in 0 .. Cardinality(SlotsOf(first, last)) : MmapAt(first, last, w, fault)
  BY <1>3, <1>p, MmapAtKeeps, CallStep
<1>4. CASE \E first \in Pages : \E last \in {first, first + 1} \cap Pages :
             \/ Unmap(first, last)
             \/ \E w \in Rights : RemapUnanswered(first, last, w)
  BY <1>4, <1>p, UnmapKeeps, CallStep
<1>5. CASE \E first \in Pages : \E last \in {first, first + 1} \cap Pages : \E w \in Rights :
             \E result \in {"done", "unanswered"} : MapOutside(first, last, w, result)
  BY <1>5, MapOutsideKeeps, CallStep
<1>6. CASE \E first \in Pages : \E last \in {first, first + 1} \cap Pages : \E w \in Rights :
             \E from \in 0 .. 2 * DirectSlots - 1, replace \in BOOLEAN :
                MapDirect(first, last, from, replace, w)
  BY <1>6, <1>p, DirectStep
<1>7. CASE \E first \in Pages : \E last \in {first, first + 1} \cap Pages :
             \E w \in BOOLEAN : ProtectCall(first, last, w)
  BY <1>7, <1>p, ProtectKeeps, CallStep
<1>8. CASE \E first \in Pages : \E last \in {first, first + 1} \cap Pages :
             \E fault \in AreasOf(first, last), writing \in BOOLEAN :
                OutsideFails(first, last, fault, writing)
  BY <1>8, OutsideFailsKeeps, CallStep
<1>9. CASE MakeWritable
  BY <1>9, MakeWritableKeeps, CallStep
<1>10. CASE \E n \in Sizes2 : AllocateDirect(n)
  BY <1>10, AllocateKeeps, CallStep
<1>11. CASE \E n \in Sizes2 : \E from \in 0 .. 2 * DirectSlots - 1, w \in Rights :
              MapDirectAnywhere(n, from, w)
  <2>1. PICK n \in Sizes2 : \E from \in 0 .. 2 * DirectSlots - 1, w \in Rights :
              MapDirectAnywhere(n, from, w)
    BY <1>11
  <2>2. PICK from \in 0 .. 2 * DirectSlots - 1, w \in Rights : MapDirectAnywhere(n, from, w)
    BY <2>1
  <2> DEFINE p == Least(AbsentPlaces(n))
  <2>3. AbsentPlaces(n) # {} /\ MapDirect(p, p + n - 1, from, FALSE, w)
    BY <2>2 DEF MapDirectAnywhere
  <2>4. p \in Pages /\ p + n - 1 \in Pages /\ p <= p + n - 1
    BY <2>3, PlaceFits
  <2> HIDE DEF p
  <2> QED BY <2>3, <2>4, DirectStep
<1>12. CASE \E n \in Sizes2 :
              \/ \E hint \in Pages : ReserveFixed(hint, n) \/ ReserveNear(hint, n)
              \/ ReserveNext(n)
  <2>1. \E place, n : Reserve(place, n)
    BY <1>12 DEF ReserveFixed, ReserveNear, ReserveNext
  <2> QED BY <2>1, ReserveKeeps, CallStep
<1>13. CASE Prepare \/ Fill \/ Mapped \/ RollBack
  BY <1>0, <1>13 DEF Prepare, Fill, Mapped, RollBack
<1>14. CASE MemoryReset
  BY <1>14, ResetKeeps, CallStep
<1> QED
  BY <1>1, <1>2, <1>3, <1>4, <1>5, <1>6, <1>7, <1>8, <1>9, <1>10, <1>11, <1>12, <1>13, <1>14
  DEF MemoryNext

\* While a mapping is in progress the call goes on, and no other is served.
LEMMA OnlyTheMapping ==
    ASSUME mapping.running, MemoryNext
    PROVE  Prepare \/ Fill \/ Mapped \/ RollBack
BY DEF MemoryNext, Mmap, MmapAt, Alias, Unmap, ProtectCall, RemapUnanswered, MapOutside,
       OutsideFails, MakeWritable, AllocateDirect, MapDirect, MapDirectAnywhere, Reserve,
       ReserveFixed, ReserveNear, ReserveNext, MemoryReset, Serve

LEMMA MappingStep ==
    ASSUME MapInv, mapping.running, MemoryNext
    PROVE  MemInv' /\ Undisturbing
<1>1. CASE Prepare
  <2>1. MapInv' /\ mapping'.running /\ UNCHANGED Translations
    BY <1>1, PrepareKeeps
  <2>2. outcome' # "failed"
    BY <2>1 DEF MapInv
  <2>3. \A p \in Pages : Translation(p)' = Translation(p)
    <3>1. ASSUME NEW p \in Pages
          PROVE  Translations[p] = Translation(p) /\ Translations'[p] = Translation(p)'
      BY DEF Translations
    <3> QED BY <2>1, <3>1
  <2> QED BY <2>1, <2>2, <2>3 DEF MemInv, Undisturbing
<1>2. CASE Fill
  <2>1. /\ MapInv' /\ mapping'.running
        /\ \A q \in Pages : Translation(q)' # Translation(q)
             => q \in mapping.first .. mapping.first + Len(mapping.ptes)
    BY <1>2, FillKeeps
  <2>2. outcome' # "failed"
    BY <2>1 DEF MapInv
  <2> QED BY <2>1, <2>2 DEF MemInv, Undisturbing
<1>3. CASE Mapped
  <2>1. CalmInv' /\ UNCHANGED Translations /\ outcome' # "failed"
    BY <1>3, MappedKeeps
  <2>2. ~mapping'.running
    BY <2>1 DEF CalmInv, NoMapping
  <2>3. \A p \in Pages : Translation(p)' = Translation(p)
    <3>1. ASSUME NEW p \in Pages
          PROVE  Translations[p] = Translation(p) /\ Translations'[p] = Translation(p)'
      BY DEF Translations
    <3> QED BY <2>1, <3>1
  <2> QED BY <2>1, <2>2, <2>3 DEF MemInv, Undisturbing
<1>4. CASE RollBack
  <2>1. /\ CalmInv' /\ Translations' = mapping.found /\ tablesUsed' = mapping.tables
        /\ \A q \in Pages : Translation(q)' # Translation(q)
             => q \in mapping.first .. mapping.first + Len(mapping.ptes)
    BY <1>4, RollBackKeeps
  <2>2. ~mapping'.running
    BY <2>1 DEF CalmInv, NoMapping
  <2> QED BY <2>1, <2>2 DEF MemInv, Undisturbing
<1> QED BY <1>1, <1>2, <1>3, <1>4, OnlyTheMapping

LEMMA MemInvStarts == ASSUME MemoryInit PROVE MemInv
<1>1. /\ entries = [a \in Areas |-> Absent]
      /\ ptes = [t \in Tables |-> [h \in {0, 1} |-> NoPage]]
      /\ used = {} /\ tablesUsed = {} /\ mapping = NoMapping
  BY DEF MemoryInit
<1>2. Typed(entries, ptes, tablesUsed, used)
  BY <1>1, EntryMade, NoPageMade DEF Typed
<1>3. Calm(entries, ptes, tablesUsed, used)
  BY <1>1, EntryMade, MemoryNumbers DEF Calm, Accounted
<1>4. ~mapping.running
  BY <1>1 DEF NoMapping
<1> QED BY <1>1, <1>2, <1>3, <1>4 DEF MemInv, CalmInv

LEMMA MemInvStutters == ASSUME MemInv, UNCHANGED memoryVars PROVE MemInv' /\ Undisturbing
<1>1. UNCHANGED <<entries, ptes, used, tablesUsed, mapping, outcome, mapCalls>>
  BY DEF memoryVars
<1>2. MemInv'
  BY <1>1 DEF MemInv, MapInv, CalmInv
<1>3. \A p \in Pages : Translation(p)' = Translation(p)
  BY <1>1 DEF Translation
<1> QED BY <1>1, <1>2, <1>3 DEF Undisturbing

LEMMA MemInvKept ==
    ASSUME CarefulGuest, MemInv, [MemoryNext]_memoryVars
    PROVE  MemInv' /\ Undisturbing
<1>1. CASE MemoryNext /\ mapping.running
  BY <1>1, MappingStep DEF MemInv
<1>2. CASE MemoryNext /\ ~mapping.running
  BY <1>2, CalmStep DEF MemInv
<1>3. CASE UNCHANGED memoryVars
  BY <1>3, MemInvStutters
<1> QED BY <1>1, <1>2, <1>3

LEMMA MemInvMeans == ASSUME MemInv PROVE MemoryAccounted
<1>1. Typed(entries, ptes, tablesUsed, used) /\ Accounted(entries, ptes, tablesUsed, used)
  BY DEF MemInv, MapInv, MapOK, CalmInv, Calm
<1> QED BY <1>1, AccountedMeans

LEMMA MemInvHolds == ASSUME CarefulGuest PROVE MemorySpec => []MemInv
<1>1. MemoryInit => MemInv
  BY MemInvStarts
<1>2. MemInv /\ [MemoryNext]_memoryVars => MemInv'
  BY MemInvKept
<1> QED BY <1>1, <1>2, PTL DEF MemorySpec

\* Memory of a slot that is free, and will be given to the next mapping, is mapped
\* nowhere, and a page table an entry names is in use and named by no other entry:
\* for a careful guest, whatever it allocates, reserves, maps, protects and unmaps,
\* and wherever a mapping fails.
THEOREM MemoryAccountedHolds ==
    ASSUME CarefulGuest PROVE MemorySpec => []MemoryAccounted
<1>1. MemInv => MemoryAccounted
  BY MemInvMeans
<1>2. MemorySpec => []MemInv
  BY MemInvHolds
<1> QED BY <1>1, <1>2, PTL

\* A vCPU that runs while direct memory is being mapped finds its memory at every page
\* the call has not reached, and a mapping call that fails leaves every page as it
\* found it and no page table taken: rolling back undoes exactly what was written.
THEOREM MapUndisturbingHolds ==
    ASSUME CarefulGuest PROVE MemorySpec => MapUndisturbing
<1>1. MemorySpec => []MemInv
  BY MemInvHolds
<1>2. MemInv /\ [MemoryNext]_memoryVars => Undisturbing
  BY MemInvKept
<1>3. Undisturbing =>
        [/\ mapping.running =>
              \A p \in Pages : Translation(p)' # Translation(p)
                  => p \in mapping.first .. mapping.first + Len(mapping.ptes)
         /\ outcome' = "failed" =>
              IF mapping.running /\ ~mapping'.running
              THEN Translations' = mapping.found /\ tablesUsed' = mapping.tables
              ELSE mapCalls' # mapCalls => UNCHANGED <<Translations, tablesUsed>>
        ]_memoryVars
  BY DEF Undisturbing
<1> QED BY <1>1, <1>2, <1>3, PTL DEF MemorySpec, MapUndisturbing
----------------------------------------------------------------------------
(* Audio                                                                    *)

Frame == [number : Nat, form : Formats]

\* The stages of the output one behind the other: starts[b] is the number before the
\* first frame of buffer b, and the last of starts that before the mixer's.
Starts(bs) == [1 .. Len(bs) + 1 -> Nat]
Follow(starts, bs) ==
    /\ \A b \in 1 .. Len(bs) : /\ starts[b + 1] = starts[b] + Len(bs[b])
                               /\ RunsFrom(starts[b], bs[b])
    /\ \A b, c \in 1 .. Len(bs) + 1 : b <= c => starts[b] <= starts[c]
Played(starts, hd, fl) ==
    /\ \A i, j \in DOMAIN hd : i < j => hd[i] < hd[j]
    /\ fl \subseteq 1 .. starts[1]
    /\ {hd[i] : i \in DOMAIN hd} = (1 .. starts[1]) \ fl
Waiting(from, q, mx, wr) ==
    /\ RunsFrom(from, mx) /\ RunsFrom(from + Len(mx), q)
    /\ wr = from + Len(mx) + Len(q)
Stages(q, mx, bs, hd, wr) ==
    /\ q \in Seq(Frame) /\ mx \in Seq(Frame) /\ bs \in Seq(Seq(Frame)) /\ hd \in Seq(Nat)
    /\ wr \in Nat /\ \A b \in 1 .. Len(bs) : bs[b] # <<>>
Lined(q, mx, bs, hd, wr, fl) ==
    /\ Stages(q, mx, bs, hd, wr)
    /\ \E starts \in Starts(bs) : /\ Follow(starts, bs) /\ Played(starts, hd, fl)
                                  /\ Waiting(starts[Len(bs) + 1], q, mx, wr)

LEMMA StartsAre ==
    ASSUME NEW bs \in Seq(Seq(Frame)), NEW starts \in Starts(bs)
    PROVE  /\ Len(bs) \in Nat /\ DOMAIN bs = 1 .. Len(bs)
           /\ \A b \in 1 .. Len(bs) + 1 : starts[b] \in Nat
           /\ starts[1] \in Nat /\ starts[Len(bs) + 1] \in Nat
           /\ \A b \in 1 .. Len(bs) : bs[b] \in Seq(Frame) /\ Len(bs[b]) \in Nat
<1>1. Len(bs) \in Nat /\ DOMAIN bs = 1 .. Len(bs)
  OBVIOUS
<1>2. \A b \in 1 .. Len(bs) : bs[b] \in Seq(Frame)
  OBVIOUS
<1>3. \A b \in 1 .. Len(bs) + 1 : starts[b] \in Nat
  BY DEF Starts
<1>4. 1 \in 1 .. Len(bs) + 1 /\ Len(bs) + 1 \in 1 .. Len(bs) + 1
  BY <1>1
<1> HIDE DEF Frame
<1>5. \A b \in 1 .. Len(bs) : Len(bs[b]) \in Nat
  BY <1>2
<1> QED BY <1>1, <1>2, <1>3, <1>4, <1>5

\* The first frames of the queue go to the mixer.
LEMMA FramesTaken ==
    ASSUME NEW q, NEW mx, NEW bs, NEW hd, NEW wr, NEW fl, Lined(q, mx, bs, hd, wr, fl),
           NEW t \in 0 .. Len(q)
    PROVE  Lined(SubSeq(q, t + 1, Len(q)), mx \o SubSeq(q, 1, t), bs, hd, wr, fl)
<1>1. Stages(q, mx, bs, hd, wr)
  BY DEF Lined
<1>2. PICK starts \in Starts(bs) : /\ Follow(starts, bs) /\ Played(starts, hd, fl)
                                   /\ Waiting(starts[Len(bs) + 1], q, mx, wr)
  BY DEF Lined
<1>3. q \in Seq(Frame) /\ mx \in Seq(Frame) /\ Len(q) \in Nat /\ Len(mx) \in Nat /\ t \in Nat
  BY <1>1 DEF Stages
<1> DEFINE rest == SubSeq(q, t + 1, Len(q))  taken == SubSeq(q, 1, t)  more == mx \o taken
           from == starts[Len(bs) + 1]
<1>4. /\ rest \in Seq(Frame) /\ Len(rest) = Len(q) - t
      /\ \A i \in 1 .. Len(q) - t : rest[i] = q[t + i]
  <2>1. \A i \in t + 1 .. Len(q) : q[i] \in Frame
    BY <1>3
  <2> QED BY <1>3, <2>1, SubSeqProperties
<1>5. /\ taken \in Seq(Frame) /\ Len(taken) = t /\ \A i \in 1 .. t : taken[i] = q[i]
  <2>1. \A i \in 1 .. t : q[i] \in Frame
    BY <1>3
  <2> QED BY <1>3, <2>1, SubSeqProperties
<1> HIDE DEF rest, taken
<1>6. /\ more \in Seq(Frame) /\ Len(more) = Len(mx) + t
      /\ \A i \in 1 .. Len(mx) + t :
           more[i] = IF i <= Len(mx) THEN mx[i] ELSE taken[i - Len(mx)]
  BY <1>3, <1>5, ConcatProperties
<1> HIDE DEF more
<1>7. from \in Nat
  BY <1>1, <1>2, StartsAre DEF Stages
<1>8. /\ \A i \in 1 .. Len(mx) : mx[i].number = from + i
      /\ \A i \in 1 .. Len(q) : q[i].number = from + Len(mx) + i
      /\ wr = from + Len(mx) + Len(q)
  BY <1>2, <1>3 DEF Waiting, RunsFrom
<1> HIDE DEF from
<1>9. ASSUME NEW i \in DOMAIN more PROVE more[i].number = from + i
  <2>1. i \in 1 .. Len(mx) + t
    BY <1>6
  <2>2. CASE i <= Len(mx)
    BY <1>3, <1>6, <1>8, <2>1, <2>2
  <2>3. CASE ~(i <= Len(mx))
    <3>1. i - Len(mx) \in 1 .. t /\ i - Len(mx) \in 1 .. Len(q)
      BY <1>3, <2>1, <2>3
    <3>2. more[i] = q[i - Len(mx)]
      BY <1>5, <1>6, <2>1, <2>3, <3>1
    <3>3. q[i - Len(mx)].number = from + Len(mx) + (i - Len(mx))
      BY <1>8, <3>1
    <3> QED BY <1>3, <1>7, <2>1, <3>2, <3>3
  <2> QED BY <2>2, <2>3
<1>10. ASSUME NEW i \in DOMAIN rest PROVE rest[i].number = from + Len(more) + i
  <2>1. i \in 1 .. Len(q) - t
    BY <1>4
  <2>2. t + i \in 1 .. Len(q)
    BY <1>3, <2>1
  <2>3. rest[i].number = from + Len(mx) + (t + i)
    BY <1>4, <1>8, <2>1, <2>2
  <2> QED BY <1>3, <1>6, <1>7, <2>1, <2>3
<1>11. wr = from + Len(more) + Len(rest)
  BY <1>3, <1>4, <1>6, <1>7, <1>8
<1>12. Waiting(from, rest, more, wr)
  BY <1>9, <1>10, <1>11 DEF Waiting, RunsFrom
<1>13. Stages(rest, more, bs, hd, wr)
  BY <1>1, <1>4, <1>6 DEF Stages
<1>14. Lined(rest, more, bs, hd, wr, fl)
  BY <1>2, <1>12, <1>13 DEF Lined, from
<1> QED BY <1>14 DEF rest, more, taken

LEMMA FramesMade ==
    ASSUME NEW n \in Nat, NEW k \in Nat, NEW form \in Formats
    PROVE  /\ Frames(n, k, form) \in Seq(Frame) /\ Len(Frames(n, k, form)) = k
           /\ \A i \in 1 .. k : Frames(n, k, form)[i].number = n + i
                                /\ Frames(n, k, form)[i].form = form
<1>1. ASSUME NEW i \in 1 .. k PROVE [number |-> n + i, form |-> form] \in Frame
  BY DEF Frame
<1> QED BY <1>1 DEF Frames

\* New frames get in line.
LEMMA FramesAdded ==
    ASSUME NEW q, NEW mx, NEW bs, NEW hd, NEW wr, NEW fl, Lined(q, mx, bs, hd, wr, fl),
           NEW k \in Nat, NEW form \in Formats
    PROVE  Lined(q \o Frames(wr, k, form), mx, bs, hd, wr + k, fl)
<1>1. Stages(q, mx, bs, hd, wr)
  BY DEF Lined
<1>2. PICK starts \in Starts(bs) : /\ Follow(starts, bs) /\ Played(starts, hd, fl)
                                   /\ Waiting(starts[Len(bs) + 1], q, mx, wr)
  BY DEF Lined
<1>3. q \in Seq(Frame) /\ mx \in Seq(Frame) /\ Len(q) \in Nat /\ Len(mx) \in Nat /\ wr \in Nat
  BY <1>1 DEF Stages
<1> DEFINE new == Frames(wr, k, form)  line == q \o new  from == starts[Len(bs) + 1]
<1>4. new \in Seq(Frame) /\ Len(new) = k /\ \A i \in 1 .. k : new[i].number = wr + i
  BY <1>3, FramesMade
<1> HIDE DEF new
<1>5. /\ line \in Seq(Frame) /\ Len(line) = Len(q) + k
      /\ \A i \in 1 .. Len(q) + k : line[i] = IF i <= Len(q) THEN q[i] ELSE new[i - Len(q)]
  BY <1>3, <1>4, ConcatProperties
<1> HIDE DEF line
<1>7. from \in Nat
  BY <1>1, <1>2, StartsAre DEF Stages
<1>8. /\ RunsFrom(from, mx) /\ wr = from + Len(mx) + Len(q)
      /\ \A i \in 1 .. Len(q) : q[i].number = from + Len(mx) + i
  BY <1>2, <1>3 DEF Waiting, RunsFrom
<1> HIDE DEF from
<1>9. ASSUME NEW i \in DOMAIN line PROVE line[i].number = from + Len(mx) + i
  <2>1. i \in 1 .. Len(q) + k
    BY <1>5
  <2>2. CASE i <= Len(q)
    BY <1>3, <1>5, <1>8, <2>1, <2>2
  <2>3. CASE ~(i <= Len(q))
    <3>1. i - Len(q) \in 1 .. k
      BY <1>3, <2>1, <2>3
    <3>2. line[i].number = wr + (i - Len(q))
      BY <1>4, <1>5, <2>1, <2>3, <3>1
    <3> QED BY <1>3, <1>7, <1>8, <2>1, <3>2
  <2> QED BY <2>2, <2>3
<1>10. wr + k = from + Len(mx) + Len(line) /\ wr + k \in Nat
  BY <1>3, <1>5, <1>7, <1>8
<1>11. Waiting(from, line, mx, wr + k)
  BY <1>8, <1>9, <1>10 DEF Waiting, RunsFrom
<1>12. Stages(line, mx, bs, hd, wr + k)
  BY <1>1, <1>5, <1>10 DEF Stages
<1>13. Lined(line, mx, bs, hd, wr + k, fl)
  BY <1>2, <1>11, <1>12 DEF Lined, from
<1> QED BY <1>13 DEF line, new

\* What the mixer holds becomes the last buffer.
LEMMA BufferSubmitted ==
    ASSUME NEW q, NEW mx, NEW bs, NEW hd, NEW wr, NEW fl, Lined(q, mx, bs, hd, wr, fl), mx # <<>>
    PROVE  Lined(q, <<>>, Append(bs, mx), hd, wr, fl)
<1>1. Stages(q, mx, bs, hd, wr)
  BY DEF Lined
<1>2. PICK starts \in Starts(bs) : /\ Follow(starts, bs) /\ Played(starts, hd, fl)
                                   /\ Waiting(starts[Len(bs) + 1], q, mx, wr)
  BY DEF Lined
<1>3. /\ q \in Seq(Frame) /\ mx \in Seq(Frame) /\ bs \in Seq(Seq(Frame))
      /\ Len(q) \in Nat /\ Len(mx) \in Nat /\ \A b \in 1 .. Len(bs) : bs[b] # <<>>
  BY <1>1 DEF Stages
<1>4. /\ Len(bs) \in Nat /\ \A b \in 1 .. Len(bs) + 1 : starts[b] \in Nat
      /\ \A b \in 1 .. Len(bs) : bs[b] \in Seq(Frame)
  BY <1>1, <1>2, StartsAre DEF Stages
<1> DEFINE n == Len(bs)  bs2 == Append(bs, mx)
           st == [b \in 1 .. n + 2 |-> IF b = n + 2 THEN starts[n + 1] + Len(mx) ELSE starts[b]]
<1>5. /\ bs2 \in Seq(Seq(Frame)) /\ Len(bs2) = n + 1 /\ bs2[n + 1] = mx
      /\ \A b \in 1 .. n : bs2[b] = bs[b]
  BY <1>3, AppendProperties
<1>6. /\ st[n + 2] = starts[n + 1] + Len(mx) /\ st[n + 2] \in Nat
      /\ \A b \in 1 .. n + 1 : st[b] = starts[b]
  <2>1. n + 2 \in 1 .. n + 2 /\ n + 1 \in 1 .. n + 1
    BY <1>4
  <2>2. \A b \in 1 .. n + 1 : b \in 1 .. n + 2 /\ b # n + 2
    BY <1>4
  <2> QED BY <1>3, <1>4, <2>1, <2>2
<1>7. st \in [1 .. n + 2 -> Nat]
  BY <1>4, <1>6
<1> HIDE DEF bs2, st
<1>8. st \in Starts(bs2)
  BY <1>4, <1>5, <1>7 DEF Starts
<1>9. /\ \A b \in 1 .. n : starts[b + 1] = starts[b] + Len(bs[b]) /\ RunsFrom(starts[b], bs[b])
      /\ \A b, c \in 1 .. n + 1 : b <= c => starts[b] <= starts[c]
  BY <1>2 DEF Follow
<1>10. RunsFrom(starts[n + 1], mx) /\ RunsFrom(starts[n + 1] + Len(mx), q)
       /\ wr = starts[n + 1] + Len(mx) + Len(q)
  BY <1>2 DEF Waiting
<1>11. ASSUME NEW b \in 1 .. n + 1
       PROVE  st[b + 1] = st[b] + Len(bs2[b]) /\ RunsFrom(st[b], bs2[b])
  <2>1. CASE b = n + 1
    <3>1. b + 1 = n + 2 /\ st[b] = starts[n + 1]
      BY <1>4, <1>6, <2>1
    <3> QED BY <1>5, <1>6, <1>10, <2>1, <3>1
  <2>2. CASE b # n + 1
    <3>1. b \in 1 .. n /\ b + 1 \in 1 .. n + 1
      BY <1>4, <2>2
    <3>2. st[b] = starts[b] /\ st[b + 1] = starts[b + 1] /\ bs2[b] = bs[b]
      BY <1>5, <1>6, <3>1
    <3> QED BY <1>9, <3>1, <3>2
  <2> QED BY <2>1, <2>2
<1>12. ASSUME NEW b \in 1 .. n + 2, NEW c \in 1 .. n + 2, b <= c PROVE st[b] <= st[c]
  <2>1. CASE c = n + 2
    <3>1. CASE b = n + 2
      BY <1>6, <2>1, <3>1
    <3>2. CASE b # n + 2
      <4>1. b \in 1 .. n + 1 /\ n + 1 \in 1 .. n + 1 /\ b <= n + 1
        BY <1>4, <3>2
      <4>2. st[b] = starts[b] /\ starts[b] <= starts[n + 1]
        BY <1>6, <1>9, <4>1
      <4>3. starts[b] \in Nat /\ starts[n + 1] \in Nat
        BY <1>4, <4>1
      <4> QED BY <1>3, <1>6, <2>1, <4>2, <4>3
    <3> QED BY <3>1, <3>2
  <2>2. CASE c # n + 2
    <3>1. c \in 1 .. n + 1 /\ b \in 1 .. n + 1
      BY <1>4, <1>12, <2>2
    <3> QED BY <1>6, <1>9, <1>12, <3>1
  <2> QED BY <2>1, <2>2
<1>13. Follow(st, bs2)
  <2>1. Len(bs2) + 1 = n + 2
    BY <1>4, <1>5
  <2> HIDE DEF n
  <2> QED BY <1>5, <1>11, <1>12, <2>1 DEF Follow
<1>14. Played(st, hd, fl)
  <2>1. st[1] = starts[1]
    BY <1>4, <1>6
  <2> QED BY <1>2, <2>1 DEF Played
<1>15. Waiting(st[Len(bs2) + 1], q, <<>>, wr)
  <2>1. Len(bs2) + 1 = n + 2 /\ starts[n + 1] \in Nat /\ n + 1 + 1 = n + 2
    BY <1>4, <1>5
  <2>2. Len(<<>>) = 0 /\ DOMAIN <<>> = {} /\ st[n + 2] + 0 = starts[n + 1] + Len(mx)
        /\ wr = st[n + 2] + 0 + Len(q)
    BY <1>3, <1>6, <1>10, <2>1
  <2>3. RunsFrom(st[n + 2], <<>>)
    BY <2>2 DEF RunsFrom
  <2>4. RunsFrom(st[n + 2] + Len(<<>>), q)
    BY <1>10, <2>2
  <2> QED BY <2>1, <2>2, <2>3, <2>4 DEF Waiting
<1>16. Stages(q, <<>>, bs2, hd, wr)
  <2>1. ASSUME NEW b \in 1 .. Len(bs2) PROVE bs2[b] # <<>>
    <3>1. CASE b = n + 1
      BY <1>5, <3>1
    <3>2. CASE b # n + 1
      <4>1. b \in 1 .. n
        BY <1>4, <1>5, <3>2
      <4> QED BY <1>3, <1>5, <4>1
    <3> QED BY <3>1, <3>2
  <2>2. <<>> \in Seq(Frame)
    OBVIOUS
  <2> QED BY <1>1, <1>5, <2>1, <2>2 DEF Stages
<1>17. Lined(q, <<>>, bs2, hd, wr, fl)
  BY <1>8, <1>13, <1>14, <1>15, <1>16 DEF Lined
<1> QED BY <1>17 DEF bs2

\* The oldest buffer has been played.
LEMMA BufferPlayed ==
    ASSUME NEW q, NEW mx, NEW bs, NEW hd, NEW wr, NEW fl, Lined(q, mx, bs, hd, wr, fl), bs # <<>>
    PROVE  Lined(q, mx, Tail(bs), hd \o Numbers(Head(bs)), wr, fl)
<1>1. Stages(q, mx, bs, hd, wr)
  BY DEF Lined
<1>2. PICK starts \in Starts(bs) : /\ Follow(starts, bs) /\ Played(starts, hd, fl)
                                   /\ Waiting(starts[Len(bs) + 1], q, mx, wr)
  BY DEF Lined
<1>3. bs \in Seq(Seq(Frame)) /\ hd \in Seq(Nat) /\ \A b \in 1 .. Len(bs) : bs[b] # <<>>
  BY <1>1 DEF Stages
<1>4. /\ Len(bs) \in Nat /\ \A b \in 1 .. Len(bs) + 1 : starts[b] \in Nat
      /\ \A b \in 1 .. Len(bs) : bs[b] \in Seq(Frame) /\ Len(bs[b]) \in Nat
  BY <1>3, <1>2, StartsAre
<1> DEFINE n == Len(bs)  bs2 == Tail(bs)  first == bs[1]
           st == [b \in 1 .. n |-> starts[b + 1]]
<1>5. /\ n >= 1 /\ Head(bs) = first /\ bs2 \in Seq(Seq(Frame)) /\ Len(bs2) = n - 1
      /\ \A b \in 1 .. n - 1 : bs2[b] = bs[b + 1]
  BY <1>3, <1>4
<1>6. /\ st \in [1 .. n -> Nat] /\ \A b \in 1 .. n : st[b] = starts[b + 1]
  BY <1>4
<1> HIDE DEF bs2, st
<1>7. st \in Starts(bs2)
  <2>1. Len(bs2) + 1 = n
    BY <1>4, <1>5
  <2> QED BY <1>6, <2>1 DEF Starts
<1>9. /\ \A b \in 1 .. n : starts[b + 1] = starts[b] + Len(bs[b]) /\ RunsFrom(starts[b], bs[b])
      /\ \A b, c \in 1 .. n + 1 : b <= c => starts[b] <= starts[c]
  BY <1>2 DEF Follow
<1>10. Follow(st, bs2)
  <2>1. ASSUME NEW b \in 1 .. n - 1
        PROVE  st[b + 1] = st[b] + Len(bs2[b]) /\ RunsFrom(st[b], bs2[b])
    <3>1. b + 1 \in 1 .. n /\ b \in 1 .. n
      BY <1>4
    <3> QED BY <1>5, <1>6, <1>9, <3>1
  <2>2. ASSUME NEW b \in 1 .. n, NEW c \in 1 .. n, b <= c PROVE st[b] <= st[c]
    <3>1. b + 1 \in 1 .. n + 1 /\ c + 1 \in 1 .. n + 1 /\ b + 1 <= c + 1
      BY <1>4, <2>2
    <3> QED BY <1>6, <1>9, <3>1
  <2>3. Len(bs2) + 1 = n
    BY <1>4, <1>5
  <2> HIDE DEF n
  <2> QED BY <1>5, <2>1, <2>2, <2>3 DEF Follow
<1>11. /\ first \in Seq(Frame) /\ first # <<>> /\ Len(first) \in Nat
       /\ starts[1] \in Nat /\ starts[2] \in Nat /\ st[1] = starts[2]
       /\ starts[2] = starts[1] + Len(first)
       /\ \A i \in 1 .. Len(first) : first[i].number = starts[1] + i
  <2>1. 1 \in 1 .. n /\ 1 \in 1 .. n + 1 /\ 2 \in 1 .. n + 1 /\ 1 + 1 = 2
    BY <1>4, <1>5
  <2>2. first \in Seq(Frame) /\ first # <<>> /\ Len(first) \in Nat
    BY <1>3, <1>4, <2>1
  <2>3. starts[2] = starts[1] + Len(first) /\ RunsFrom(starts[1], first)
    BY <1>9, <2>1
  <2> HIDE DEF first
  <2>4. \A i \in 1 .. Len(first) : first[i].number = starts[1] + i
    BY <2>2, <2>3 DEF RunsFrom
  <2> QED BY <1>4, <1>6, <2>1, <2>2, <2>3, <2>4
<1> DEFINE nums == Numbers(first)  hd2 == hd \o nums
<1>12. /\ nums \in Seq(Nat) /\ Len(nums) = Len(first)
       /\ \A i \in 1 .. Len(first) : nums[i] = starts[1] + i
  <2> HIDE DEF first
  <2>1. nums = [i \in 1 .. Len(first) |-> first[i].number]
    BY <1>11 DEF Numbers
  <2> QED BY <1>11, <2>1
<1>13. Len(hd) \in Nat /\ DOMAIN hd = 1 .. Len(hd)
  BY <1>3
<1> HIDE DEF nums, first
<1>14. /\ hd2 \in Seq(Nat) /\ Len(hd2) = Len(hd) + Len(first)
       /\ \A i \in 1 .. Len(hd) + Len(first) :
            hd2[i] = IF i <= Len(hd) THEN hd[i] ELSE nums[i - Len(hd)]
  <2>1. nums \in Seq(Nat) /\ Len(nums) = Len(first)
    BY <1>12
  <2>2. /\ hd2 \in Seq(Nat) /\ Len(hd2) = Len(hd) + Len(nums)
        /\ \A i \in 1 .. Len(hd) + Len(nums) :
             hd2[i] = IF i <= Len(hd) THEN hd[i] ELSE nums[i - Len(hd)]
    BY <1>3, <2>1, ConcatProperties
  <2> QED BY <2>1, <2>2
<1> HIDE DEF hd2
<1>15. /\ \A i, j \in 1 .. Len(hd) : i < j => hd[i] < hd[j]
       /\ fl \subseteq 1 .. starts[1] /\ {hd[i] : i \in 1 .. Len(hd)} = (1 .. starts[1]) \ fl
  BY <1>2, <1>13 DEF Played
<1>16. \A i \in 1 .. Len(hd) : hd2[i] = hd[i] /\ hd[i] \in 1 .. starts[1]
  BY <1>11, <1>13, <1>14, <1>15
<1>17. \A i \in 1 .. Len(first) : hd2[Len(hd) + i] = starts[1] + i
  <2>1. ASSUME NEW i \in 1 .. Len(first) PROVE hd2[Len(hd) + i] = starts[1] + i
    <3>1. /\ Len(hd) + i \in 1 .. Len(hd) + Len(first) /\ ~(Len(hd) + i <= Len(hd))
          /\ (Len(hd) + i) - Len(hd) = i
      BY <1>11, <1>13
    <3> QED BY <1>12, <1>14, <3>1
  <2> QED BY <2>1
<1>18. ASSUME NEW i \in 1 .. Len(hd) + Len(first)
       PROVE  i \in 1 .. Len(hd) \/ \E k \in 1 .. Len(first) : i = Len(hd) + k
  <2>1. ~(i <= Len(hd)) => i - Len(hd) \in 1 .. Len(first) /\ i = Len(hd) + (i - Len(hd))
    BY <1>11, <1>13
  <2> QED BY <1>13, <2>1
<1>19. Played(st, hd2, fl)
  <2>1. DOMAIN hd2 = 1 .. Len(hd) + Len(first)
    BY <1>14
  <2>2. ASSUME NEW i \in 1 .. Len(hd) + Len(first), NEW j \in 1 .. Len(hd) + Len(first), i < j
        PROVE  hd2[i] < hd2[j]
    <3>1. CASE i \in 1 .. Len(hd) /\ j \in 1 .. Len(hd)
      BY <1>15, <1>16, <2>2, <3>1
    <3>2. CASE i \in 1 .. Len(hd) /\ \E k \in 1 .. Len(first) : j = Len(hd) + k
      <4>1. PICK k \in 1 .. Len(first) : j = Len(hd) + k
        BY <3>2
      <4>2. hd2[i] \in 1 .. starts[1] /\ hd2[j] = starts[1] + k
        BY <1>16, <1>17, <3>2, <4>1
      <4> QED BY <1>11, <4>2
    <3>3. CASE (\E k \in 1 .. Len(first) : i = Len(hd) + k)
               /\ (\E k \in 1 .. Len(first) : j = Len(hd) + k)
      <4>1. PICK k \in 1 .. Len(first) : i = Len(hd) + k
        BY <3>3
      <4>2. PICK l \in 1 .. Len(first) : j = Len(hd) + l
        BY <3>3
      <4>3. hd2[i] = starts[1] + k /\ hd2[j] = starts[1] + l
        BY <1>17, <4>1, <4>2
      <4>4. k < l
        BY <1>13, <2>2, <4>1, <4>2
      <4> QED BY <1>11, <4>3, <4>4
    <3>4. CASE (\E k \in 1 .. Len(first) : i = Len(hd) + k) /\ j \in 1 .. Len(hd)
      BY <1>13, <2>2, <3>4
    <3> QED BY <1>18, <3>1, <3>2, <3>3, <3>4
  <2>3. fl \subseteq 1 .. starts[2]
    BY <1>11, <1>15
  <2>4. ASSUME NEW x \in {hd2[i] : i \in 1 .. Len(hd) + Len(first)}
        PROVE  x \in (1 .. starts[2]) \ fl
    <3>1. PICK i \in 1 .. Len(hd) + Len(first) : x = hd2[i]
      BY <2>4
    <3>2. CASE i \in 1 .. Len(hd)
      <4>1. x = hd[i] /\ x \in 1 .. starts[1]
        BY <1>16, <3>1, <3>2
      <4>2. x \in (1 .. starts[1]) \ fl
        BY <1>15, <3>2, <4>1
      <4> QED BY <1>11, <4>2
    <3>3. CASE \E k \in 1 .. Len(first) : i = Len(hd) + k
      <4>1. PICK k \in 1 .. Len(first) : i = Len(hd) + k
        BY <3>3
      <4>2. x = starts[1] + k
        BY <1>17, <3>1, <4>1
      <4>3. x \in 1 .. starts[2] /\ x \notin 1 .. starts[1]
        BY <1>11, <4>2
      <4> QED BY <1>15, <4>3
    <3> QED BY <1>18, <3>2, <3>3
  <2>5. ASSUME NEW x \in (1 .. starts[2]) \ fl
        PROVE  x \in {hd2[i] : i \in 1 .. Len(hd) + Len(first)}
    <3>1. CASE x \in 1 .. starts[1]
      <4>1. PICK i \in 1 .. Len(hd) : x = hd[i]
        BY <1>15, <2>5, <3>1
      <4>2. i \in 1 .. Len(hd) + Len(first)
        BY <1>11, <1>13
      <4> QED BY <1>16, <4>1, <4>2
    <3>2. CASE x \notin 1 .. starts[1]
      <4> DEFINE k == x - starts[1]
      <4>1. k \in 1 .. Len(first) /\ x = starts[1] + k
        BY <1>11, <2>5, <3>2
      <4>2. Len(hd) + k \in 1 .. Len(hd) + Len(first)
        BY <1>11, <1>13, <4>1
      <4> HIDE DEF k
      <4> QED BY <1>17, <4>1, <4>2
    <3> QED BY <3>1, <3>2
  <2>6. {hd2[i] : i \in 1 .. Len(hd) + Len(first)} = (1 .. starts[2]) \ fl
    BY <2>4, <2>5
  <2> QED BY <1>11, <2>1, <2>2, <2>3, <2>6 DEF Played
<1>20. Waiting(st[Len(bs2) + 1], q, mx, wr)
  <2>1. Len(bs2) + 1 = n /\ n \in 1 .. n
    BY <1>4, <1>5
  <2> QED BY <1>2, <1>6, <2>1
<1>21. Stages(q, mx, bs2, hd2, wr)
  <2>1. ASSUME NEW b \in 1 .. Len(bs2) PROVE bs2[b] # <<>>
    <3>1. b \in 1 .. n - 1 /\ b + 1 \in 1 .. n
      BY <1>4, <1>5
    <3> QED BY <1>3, <1>5, <3>1
  <2> QED BY <1>1, <1>5, <1>14, <2>1 DEF Stages
<1>22. Lined(q, mx, bs2, hd2, wr, fl)
  BY <1>7, <1>10, <1>19, <1>20, <1>21 DEF Lined
<1> QED BY <1>5, <1>22 DEF bs2, hd2, nums

\* The frames in the voice are those between what was played and the queue.
VoiceOf(mx, bs) == Members(mx) \union UNION {Members(bs[b]) : b \in DOMAIN bs}

LEMMA VoiceHolds ==
    ASSUME NEW q, NEW mx, NEW bs, NEW hd, NEW wr, Stages(q, mx, bs, hd, wr),
           NEW starts \in Starts(bs), Follow(starts, bs),
           Waiting(starts[Len(bs) + 1], q, mx, wr)
    PROVE  VoiceOf(mx, bs) = (starts[1] + 1) .. (wr - Len(q))
<1> DEFINE n == Len(bs)  last == starts[n + 1]  end == wr - Len(q)
<1>1. /\ bs \in Seq(Seq(Frame)) /\ mx \in Seq(Frame) /\ q \in Seq(Frame) /\ wr \in Nat
      /\ Len(mx) \in Nat /\ Len(q) \in Nat /\ DOMAIN mx = 1 .. Len(mx)
  BY DEF Stages
<1>2. /\ n \in Nat /\ DOMAIN bs = 1 .. n /\ \A b \in 1 .. n + 1 : starts[b] \in Nat
      /\ \A b \in 1 .. n : bs[b] \in Seq(Frame) /\ Len(bs[b]) \in Nat
      /\ starts[1] \in Nat /\ last \in Nat
  BY <1>1, StartsAre
<1>3. /\ \A b \in 1 .. n : starts[b + 1] = starts[b] + Len(bs[b]) /\ RunsFrom(starts[b], bs[b])
      /\ \A b, c \in 1 .. n + 1 : b <= c => starts[b] <= starts[c]
  BY DEF Follow
<1>4. end = last + Len(mx) /\ \A i \in 1 .. Len(mx) : mx[i].number = last + i
  <2>1. wr = last + Len(mx) + Len(q) /\ RunsFrom(last, mx)
    BY DEF Waiting
  <2>2. \A i \in 1 .. Len(mx) : mx[i].number = last + i
    BY <1>1, <2>1 DEF RunsFrom
  <2>3. end = last + Len(mx)
    BY <1>1, <1>2, <2>1
  <2> QED BY <2>2, <2>3
<1> HIDE DEF end
<1>5. starts[1] <= last
  <2>1. 1 \in 1 .. n + 1 /\ n + 1 \in 1 .. n + 1 /\ 1 <= n + 1
    BY <1>2
  <2> QED BY <1>3, <2>1
<1>6. Members(mx) = (last + 1) .. end
  <2>1. ASSUME NEW x \in (last + 1) .. end PROVE x \in Members(mx)
    <3>1. x - last \in 1 .. Len(mx) /\ x = last + (x - last)
      BY <1>1, <1>2, <1>4
    <3>2. mx[x - last].number = x
      BY <1>4, <3>1
    <3> QED BY <1>1, <3>1, <3>2 DEF Members
  <2>2. ASSUME NEW x \in Members(mx) PROVE x \in (last + 1) .. end
    <3>1. PICK i \in 1 .. Len(mx) : x = mx[i].number
      BY <1>1, <2>2 DEF Members
    <3>2. x = last + i
      BY <1>4, <3>1
    <3> QED BY <1>1, <1>2, <1>4, <3>2
  <2> QED BY <2>1, <2>2
<1>7. ASSUME NEW b \in 1 .. n
      PROVE  Members(bs[b]) = (starts[b] + 1) .. starts[b + 1]
  <2> DEFINE s == bs[b]  k == Len(s)
  <2>1. s \in Seq(Frame) /\ k \in Nat /\ DOMAIN s = 1 .. k
    <3>1. s \in Seq(Frame)
      BY <1>2
    <3> HIDE DEF s
    <3> QED BY <3>1
  <2>2. starts[b] \in Nat /\ starts[b + 1] = starts[b] + k
    BY <1>2, <1>3
  <2>3. \A i \in 1 .. k : s[i].number = starts[b] + i
    BY <1>3, <2>1 DEF RunsFrom
  <2> HIDE DEF s, k
  <2>4. ASSUME NEW x \in (starts[b] + 1) .. starts[b + 1] PROVE x \in Members(s)
    <3>1. x - starts[b] \in 1 .. k /\ x = starts[b] + (x - starts[b])
      BY <2>1, <2>2
    <3>2. s[x - starts[b]].number = x
      BY <2>3, <3>1
    <3> QED BY <2>1, <3>1, <3>2 DEF Members
  <2>5. ASSUME NEW x \in Members(s) PROVE x \in (starts[b] + 1) .. starts[b + 1]
    <3>1. PICK i \in 1 .. k : x = s[i].number
      BY <2>1, <2>5 DEF Members
    <3>2. x = starts[b] + i
      BY <2>3, <3>1
    <3> QED BY <2>1, <2>2, <3>2
  <2>6. Members(s) = (starts[b] + 1) .. starts[b + 1]
    BY <2>4, <2>5
  <2> QED BY <2>6 DEF s
<1>8. ASSUME NEW x \in (starts[1] + 1) .. last
      PROVE  \E b \in 1 .. n : x \in Members(bs[b])
  <2> DEFINE T == {b \in 1 .. n + 1 : x <= starts[b]}
  <2>1. T \in SUBSET Nat /\ n + 1 \in T /\ x \in Nat
    BY <1>2
  <2>2. Least(T) \in T /\ \A y \in T : Least(T) <= y
    BY <2>1, LeastNat
  <2> DEFINE c == Least(T)
  <2>3. c \in 1 .. n + 1 /\ x <= starts[c] /\ c # 1
    BY <1>2, <2>2
  <2>4. c - 1 \in 1 .. n /\ c - 1 \in 1 .. n + 1 /\ (c - 1) + 1 = c /\ ~(c <= c - 1)
    BY <1>2, <2>3
  <2>5. c - 1 \notin T
    BY <2>2, <2>4
  <2> HIDE DEF c
  <2>6. ~(x <= starts[c - 1]) /\ starts[c - 1] \in Nat
    BY <1>2, <2>4, <2>5
  <2>7. x \in (starts[c - 1] + 1) .. starts[c]
    BY <1>2, <2>1, <2>3, <2>6
  <2>8. x \in Members(bs[c - 1])
    BY <1>7, <2>4, <2>7
  <2> QED BY <2>4, <2>8
<1>9. ASSUME NEW b \in 1 .. n, NEW x \in Members(bs[b])
      PROVE  x \in (starts[1] + 1) .. last
  <2>1. x \in (starts[b] + 1) .. starts[b + 1]
    BY <1>7, <1>9
  <2>2. 1 \in 1 .. n + 1 /\ b \in 1 .. n + 1 /\ b + 1 \in 1 .. n + 1 /\ n + 1 \in 1 .. n + 1
        /\ 1 <= b /\ b + 1 <= n + 1
    BY <1>2
  <2>3. starts[1] <= starts[b] /\ starts[b + 1] <= last
    BY <1>3, <2>2
  <2>4. starts[b] \in Nat /\ starts[b + 1] \in Nat
    BY <1>2, <2>2
  <2> QED BY <1>2, <2>1, <2>3, <2>4
<1>10. end \in Nat
  BY <1>1, <1>2, <1>4
<1>11. ASSUME NEW x \in VoiceOf(mx, bs) PROVE x \in (starts[1] + 1) .. end
  <2>1. CASE x \in Members(mx)
    BY <1>2, <1>5, <1>6, <1>10, <2>1
  <2>2. CASE \E b \in 1 .. n : x \in Members(bs[b])
    <3>1. x \in (starts[1] + 1) .. last
      BY <1>9, <2>2
    <3> QED BY <1>1, <1>2, <1>4, <1>10, <3>1
  <2> QED BY <1>2, <1>11, <2>1, <2>2 DEF VoiceOf
<1>12. ASSUME NEW x \in (starts[1] + 1) .. end PROVE x \in VoiceOf(mx, bs)
  <2>1. CASE x <= last
    <3>1. x \in (starts[1] + 1) .. last
      BY <1>2, <1>10, <2>1
    <3>2. PICK b \in 1 .. n : x \in Members(bs[b])
      BY <1>8, <3>1
    <3> QED BY <1>2, <3>2 DEF VoiceOf
  <2>2. CASE ~(x <= last)
    <3>1. x \in (last + 1) .. end
      BY <1>2, <1>10, <2>2
    <3> QED BY <1>6, <3>1 DEF VoiceOf
  <2> QED BY <2>1, <2>2
<1>13. VoiceOf(mx, bs) = (starts[1] + 1) .. end
  BY <1>11, <1>12
<1> QED BY <1>13 DEF end

\* Nothing is on its way but the queue, once the voice is closed.
LEMMA LineStarts ==
    ASSUME NEW q \in Seq(Frame), NEW hd \in Seq(Nat), NEW wr \in Nat, NEW from \in Nat, NEW fl,
           wr = from + Len(q), RunsFrom(from, q),
           \A i, j \in DOMAIN hd : i < j => hd[i] < hd[j],
           fl \subseteq 1 .. from, {hd[i] : i \in DOMAIN hd} = (1 .. from) \ fl
    PROVE  Lined(q, <<>>, <<>>, hd, wr, fl)
<1> DEFINE st == [b \in 1 .. 1 |-> from]
<1>1. st \in [1 .. 1 -> Nat] /\ st[1] = from /\ \A b \in 1 .. 1 : b = 1
  OBVIOUS
<1>2. Len(<<>>) = 0 /\ 0 + 1 = 1 /\ DOMAIN <<>> = {} /\ 1 .. 0 = {} /\ Len(q) \in Nat
  OBVIOUS
<1> HIDE DEF st
<1>3. st \in Starts(<<>>)
  BY <1>1, <1>2 DEF Starts
<1>4. Follow(st, <<>>)
  BY <1>1, <1>2 DEF Follow
<1>5. Played(st, hd, fl)
  BY <1>1 DEF Played
<1>6. Waiting(st[1], q, <<>>, wr)
  <2>1. from + Len(<<>>) = from /\ wr = from + Len(<<>>) + Len(q) /\ RunsFrom(from, <<>>)
    BY <1>2 DEF RunsFrom
  <2> QED BY <1>1, <2>1 DEF Waiting
<1>7. Stages(q, <<>>, <<>>, hd, wr)
  <2>1. <<>> \in Seq(Frame) /\ <<>> \in Seq(Seq(Frame))
    OBVIOUS
  <2> QED BY <1>2, <2>1 DEF Stages
<1> QED BY <1>2, <1>3, <1>4, <1>5, <1>6, <1>7 DEF Lined

\* Closing discards what is in the voice; a reset the queue as well.
LEMMA VoiceClosed ==
    ASSUME NEW q, NEW mx, NEW bs, NEW hd, NEW wr, NEW fl, Lined(q, mx, bs, hd, wr, fl)
    PROVE  Lined(q, <<>>, <<>>, hd, wr, fl \union VoiceOf(mx, bs))
<1>1. Stages(q, mx, bs, hd, wr)
  BY DEF Lined
<1>2. PICK starts \in Starts(bs) : /\ Follow(starts, bs) /\ Played(starts, hd, fl)
                                   /\ Waiting(starts[Len(bs) + 1], q, mx, wr)
  BY DEF Lined
<1> DEFINE from == wr - Len(q)  gone == VoiceOf(mx, bs)  last == starts[Len(bs) + 1]
<1>3. gone = (starts[1] + 1) .. from
  BY <1>1, <1>2, VoiceHolds
<1>4. /\ q \in Seq(Frame) /\ hd \in Seq(Nat) /\ wr \in Nat /\ Len(q) \in Nat /\ Len(mx) \in Nat
      /\ starts[1] \in Nat /\ last \in Nat /\ Len(bs) \in Nat
  BY <1>1, <1>2, StartsAre DEF Stages
<1>5. wr = last + Len(mx) + Len(q) /\ RunsFrom(last + Len(mx), q)
  BY <1>2 DEF Waiting
<1>6. starts[1] <= last
  <2>1. 1 \in 1 .. Len(bs) + 1 /\ Len(bs) + 1 \in 1 .. Len(bs) + 1 /\ 1 <= Len(bs) + 1
    BY <1>4
  <2> QED BY <1>2, <2>1 DEF Follow
<1>7. from = last + Len(mx) /\ from \in Nat /\ starts[1] <= from /\ wr = from + Len(q)
  BY <1>4, <1>5, <1>6
<1> HIDE DEF from, gone, last
<1>8. /\ \A i, j \in DOMAIN hd : i < j => hd[i] < hd[j]
      /\ fl \subseteq 1 .. starts[1] /\ {hd[i] : i \in DOMAIN hd} = (1 .. starts[1]) \ fl
  BY <1>2 DEF Played
<1>9. fl \union gone \subseteq 1 .. from
  <2>1. ASSUME NEW x \in fl PROVE x \in 1 .. from
    <3>1. x \in 1 .. starts[1]
      BY <1>8, <2>1
    <3> QED BY <1>4, <1>7, <3>1
  <2>2. ASSUME NEW x \in gone PROVE x \in 1 .. from
    <3>1. x \in (starts[1] + 1) .. from
      BY <1>3, <2>2
    <3> QED BY <1>4, <1>7, <3>1
  <2> QED BY <2>1, <2>2
<1>10. (1 .. from) \ (fl \union gone) = (1 .. starts[1]) \ fl
  <2>1. \A x \in 1 .. from : x \notin gone <=> x \in 1 .. starts[1]
    BY <1>3, <1>4, <1>7
  <2>2. \A x \in 1 .. starts[1] : x \in 1 .. from
    BY <1>4, <1>7
  <2> QED BY <2>1, <2>2
<1>11. Lined(q, <<>>, <<>>, hd, wr, fl \union gone)
  BY <1>4, <1>5, <1>7, <1>8, <1>9, <1>10, LineStarts
<1> QED BY <1>11 DEF gone

LEMMA QueueEmptied ==
    ASSUME NEW q, NEW hd, NEW wr, NEW fl, Lined(q, <<>>, <<>>, hd, wr, fl)
    PROVE  Lined(<<>>, <<>>, <<>>, hd, wr, fl \union Members(q))
<1>1. Stages(q, <<>>, <<>>, hd, wr)
  BY DEF Lined
<1>2. PICK starts \in Starts(<<>>) : Played(starts, hd, fl) /\ Waiting(starts[1], q, <<>>, wr)
  <2>1. Len(<<>>) + 1 = 1
    OBVIOUS
  <2> QED BY <2>1 DEF Lined
<1> DEFINE from == starts[1]
<1>3. /\ q \in Seq(Frame) /\ hd \in Seq(Nat) /\ wr \in Nat /\ Len(q) \in Nat
      /\ DOMAIN q = 1 .. Len(q) /\ from \in Nat
  <2>1. <<>> \in Seq(Seq(Frame))
    OBVIOUS
  <2>2. starts[1] \in Nat
    BY <2>1, <1>2, StartsAre
  <2>3. q \in Seq(Frame) /\ hd \in Seq(Nat) /\ wr \in Nat
    BY <1>1 DEF Stages
  <2>4. Len(q) \in Nat /\ DOMAIN q = 1 .. Len(q)
    BY <2>3
  <2> QED BY <2>2, <2>3, <2>4
<1>4. wr = from + Len(q) /\ \A i \in 1 .. Len(q) : q[i].number = from + i
  <2>1. Len(<<>>) = 0 /\ from + 0 = from
    BY <1>3
  <2>2. wr = from + Len(<<>>) + Len(q) /\ RunsFrom(from + Len(<<>>), q)
    BY <1>2 DEF Waiting
  <2> QED BY <1>3, <2>1, <2>2 DEF RunsFrom
<1>5. Members(q) = (from + 1) .. wr
  <2>1. ASSUME NEW x \in (from + 1) .. wr PROVE x \in Members(q)
    <3>1. x - from \in 1 .. Len(q) /\ x = from + (x - from)
      BY <1>3, <1>4
    <3>2. q[x - from].number = x
      BY <1>4, <3>1
    <3> QED BY <1>3, <3>1, <3>2 DEF Members
  <2>2. ASSUME NEW x \in Members(q) PROVE x \in (from + 1) .. wr
    <3>1. PICK i \in 1 .. Len(q) : x = q[i].number
      BY <1>3, <2>2 DEF Members
    <3>2. x = from + i
      BY <1>4, <3>1
    <3> QED BY <1>3, <1>4, <3>2
  <2> QED BY <2>1, <2>2
<1>6. /\ \A i, j \in DOMAIN hd : i < j => hd[i] < hd[j]
      /\ fl \subseteq 1 .. from /\ {hd[i] : i \in DOMAIN hd} = (1 .. from) \ fl
  BY <1>2 DEF Played
<1> HIDE DEF from
<1>7. fl \union Members(q) \subseteq 1 .. wr
  <2>1. ASSUME NEW x \in fl PROVE x \in 1 .. wr
    <3>1. x \in 1 .. from
      BY <1>6, <2>1
    <3> QED BY <1>3, <1>4, <3>1
  <2>2. ASSUME NEW x \in Members(q) PROVE x \in 1 .. wr
    <3>1. x \in (from + 1) .. wr
      BY <1>5, <2>2
    <3> QED BY <1>3, <1>4, <3>1
  <2> QED BY <2>1, <2>2
<1>8. (1 .. wr) \ (fl \union Members(q)) = (1 .. from) \ fl
  <2>1. \A x \in 1 .. wr : x \notin Members(q) <=> x \in 1 .. from
    BY <1>3, <1>4, <1>5
  <2>2. \A x \in 1 .. from : x \in 1 .. wr
    BY <1>3, <1>4
  <2> QED BY <2>1, <2>2
<1>9. <<>> \in Seq(Frame) /\ wr = wr + Len(<<>>) /\ RunsFrom(wr, <<>>)
  BY <1>3 DEF RunsFrom
<1> QED BY <1>3, <1>6, <1>7, <1>8, <1>9, LineStarts

\* What the array still holds, with and without the frames appended to it.
LEMMA RestIs ==
    ASSUME NEW q \in Seq(Frame), NEW offset \in 0 .. Len(q)
    PROVE  /\ Rest(q, offset) \in Seq(Frame) /\ Len(Rest(q, offset)) = Len(q) - offset
           /\ \A i \in 1 .. Len(q) - offset : Rest(q, offset)[i] = q[offset + i]
<1>1. Len(q) \in Nat /\ \A i \in offset + 1 .. Len(q) : q[i] \in Frame
  OBVIOUS
<1> QED BY <1>1, SubSeqProperties DEF Rest

LEMMA RestOfRest ==
    ASSUME NEW q \in Seq(Frame), NEW offset \in 0 .. Len(q), NEW t \in 0 .. Len(q) - offset
    PROVE  /\ SubSeq(Rest(q, offset), t + 1, Len(Rest(q, offset))) = Rest(q, offset + t)
           /\ SubSeq(Rest(q, offset), 1, t) = SubSeq(q, offset + 1, offset + t)
<1> DEFINE r == Rest(q, offset)  a == SubSeq(r, t + 1, Len(r))  b == Rest(q, offset + t)
           c == SubSeq(r, 1, t)  d == SubSeq(q, offset + 1, offset + t)
<1>1. Len(q) \in Nat /\ offset \in Nat /\ t \in Nat /\ offset + t \in 0 .. Len(q)
  OBVIOUS
<1>2. /\ r \in Seq(Frame) /\ Len(r) = Len(q) - offset
      /\ \A i \in 1 .. Len(q) - offset : r[i] = q[offset + i]
  BY RestIs
<1>3. /\ b \in Seq(Frame) /\ Len(b) = Len(q) - (offset + t)
      /\ \A i \in 1 .. Len(q) - (offset + t) : b[i] = q[offset + t + i]
  BY <1>1, RestIs
<1> HIDE DEF r, b
<1>4. /\ a \in Seq(Frame) /\ Len(a) = Len(r) - t /\ \A i \in 1 .. Len(r) - t : a[i] = r[t + i]
  <2>1. \A i \in t + 1 .. Len(r) : r[i] \in Frame
    BY <1>1, <1>2
  <2> QED BY <1>1, <1>2, <2>1, SubSeqProperties
<1>5. /\ c \in Seq(Frame) /\ Len(c) = t /\ \A i \in 1 .. t : c[i] = r[i]
  <2>1. \A i \in 1 .. t : r[i] \in Frame
    BY <1>1, <1>2
  <2> QED BY <1>1, <1>2, <2>1, SubSeqProperties
<1>6. /\ d \in Seq(Frame) /\ Len(d) = t /\ \A i \in 1 .. t : d[i] = q[offset + i]
  <2>1. \A i \in offset + 1 .. offset + t : q[i] \in Frame
    BY <1>1
  <2>2. /\ d \in Seq(Frame) /\ Len(d) = (offset + t) - (offset + 1) + 1
        /\ \A i \in 1 .. (offset + t) - (offset + 1) + 1 : d[i] = q[(offset + 1) + i - 1]
    BY <1>1, <2>1, SubSeqProperties
  <2>3. (offset + t) - (offset + 1) + 1 = t /\ \A i \in 1 .. t : (offset + 1) + i - 1 = offset + i
    BY <1>1
  <2> QED BY <2>2, <2>3
<1> HIDE DEF a, c, d
<1>7. a = b
  <2>1. ASSUME NEW i \in 1 .. Len(a) PROVE a[i] = b[i]
    <3>1. i \in 1 .. Len(q) - (offset + t) /\ i \in 1 .. Len(r) - t /\ t + i \in 1 .. Len(q) - offset
          /\ offset + (t + i) = offset + t + i
      BY <1>1, <1>2, <1>4
    <3> QED BY <1>2, <1>3, <1>4, <3>1
  <2>2. Len(a) = Len(b)
    BY <1>1, <1>2, <1>3, <1>4
  <2> QED BY <1>3, <1>4, <2>1, <2>2, SeqEqual
<1>8. c = d
  <2>1. ASSUME NEW i \in 1 .. Len(c) PROVE c[i] = d[i]
    <3>1. i \in 1 .. t /\ i \in 1 .. Len(q) - offset
      BY <1>1, <1>5
    <3> QED BY <1>2, <1>5, <1>6, <3>1
  <2> QED BY <1>5, <1>6, <2>1, SeqEqual
<1> QED BY <1>7, <1>8 DEF a, b, c, d, r

LEMMA RestGrown ==
    ASSUME NEW q \in Seq(Frame), NEW offset \in 0 .. Len(q), NEW new \in Seq(Frame)
    PROVE  /\ Rest(q \o new, offset) = Rest(q, offset) \o new
           /\ q \o new \in Seq(Frame) /\ offset \in 0 .. Len(q \o new)
<1> DEFINE both == q \o new  r == Rest(q, offset)  a == Rest(both, offset)  b == r \o new
<1>1. Len(q) \in Nat /\ Len(new) \in Nat /\ offset \in Nat /\ offset <= Len(q)
  OBVIOUS
<1>2. /\ both \in Seq(Frame) /\ Len(both) = Len(q) + Len(new)
      /\ \A i \in 1 .. Len(q) + Len(new) :
           both[i] = IF i <= Len(q) THEN q[i] ELSE new[i - Len(q)]
  BY ConcatProperties
<1> HIDE DEF both
<1>3. offset \in 0 .. Len(both)
  BY <1>1, <1>2
<1>4. /\ r \in Seq(Frame) /\ Len(r) = Len(q) - offset
      /\ \A i \in 1 .. Len(q) - offset : r[i] = q[offset + i]
  BY RestIs
<1>5. /\ a \in Seq(Frame) /\ Len(a) = Len(both) - offset
      /\ \A i \in 1 .. Len(both) - offset : a[i] = both[offset + i]
  BY <1>2, <1>3, RestIs
<1> HIDE DEF a, r
<1>6. /\ b \in Seq(Frame) /\ Len(b) = Len(r) + Len(new)
      /\ \A i \in 1 .. Len(r) + Len(new) : b[i] = IF i <= Len(r) THEN r[i] ELSE new[i - Len(r)]
  BY <1>4, ConcatProperties
<1> HIDE DEF b
<1>7. a = b
  <2>1. Len(a) = Len(b) /\ Len(b) = Len(q) - offset + Len(new)
    BY <1>1, <1>2, <1>4, <1>5, <1>6
  <2>2. ASSUME NEW i \in 1 .. Len(a) PROVE a[i] = b[i]
    <3>1. /\ i \in 1 .. Len(r) + Len(new) /\ i \in 1 .. Len(both) - offset
          /\ offset + i \in 1 .. Len(q) + Len(new)
      BY <1>1, <1>2, <1>4, <2>1
    <3>2. CASE i <= Len(r)
      <4>1. i \in 1 .. Len(q) - offset /\ offset + i <= Len(q)
        BY <1>1, <1>4, <3>1, <3>2
      <4> QED BY <1>2, <1>4, <1>5, <1>6, <3>1, <3>2, <4>1
    <3>3. CASE ~(i <= Len(r))
      <4>1. ~(offset + i <= Len(q)) /\ (offset + i) - Len(q) = i - Len(r)
        BY <1>1, <1>4, <3>1, <3>3
      <4> QED BY <1>2, <1>5, <1>6, <3>1, <3>3, <4>1
    <3> QED BY <3>2, <3>3
  <2> QED BY <1>5, <1>6, <2>1, <2>2, SeqEqual
<1> QED BY <1>2, <1>3, <1>7 DEF a, b, both, r

Full(q) == q \in Seq(Frame) /\ Len(q) \in Nat
Room == MixerRoom \in Nat /\ MaxQueue \in Nat /\ AudioPorts \in Nat
LEMMA Roomy == Room
BY AudioAssumption DEF Room

\* The voice takes what fits of the queue; the line stays as it is.
LEMMA Pumped ==
    ASSUME NEW q \in Seq(Frame), NEW offset \in 0 .. Len(q), NEW bs, NEW hd, NEW wr, NEW fl,
           Lined(Rest(q, offset), mixed, bs, hd, wr, fl), Len(mixed) <= MixerRoom,
           Pump(q, offset)
    PROVE  /\ audioQueue' \in Seq(Frame) /\ audioOffset' \in 0 .. Len(audioQueue')
           /\ Lined(Rest(audioQueue', audioOffset'), mixed', bs, hd, wr, fl)
           /\ Len(mixed') <= MixerRoom
<1> DEFINE t == Lesser(Len(q) - offset, MixerRoom - Len(mixed))
<1>1. /\ Len(q) \in Nat /\ Len(mixed) \in Nat /\ MixerRoom \in Nat /\ offset \in Nat
      /\ mixed \in Seq(Frame)
  <2>1. mixed \in Seq(Frame)
    BY DEF Lined, Stages
  <2>2. Len(mixed) \in Nat
    BY <2>1
  <2> QED BY <2>1, <2>2, Roomy DEF Room
<1>2. t \in 0 .. Len(q) - offset /\ t <= MixerRoom - Len(mixed) /\ t \in Nat
  BY <1>1 DEF Lesser
<1>3. /\ mixed' = mixed \o SubSeq(q, offset + 1, offset + t)
      /\ audioQueue' = IF offset + t = Len(q) THEN <<>> ELSE q
      /\ audioOffset' = IF offset + t = Len(q) THEN 0 ELSE offset + t
  BY DEF Pump
<1> HIDE DEF t
<1>4. Rest(q, offset) \in Seq(Frame) /\ Len(Rest(q, offset)) = Len(q) - offset
  BY RestIs
<1>5. Lined(SubSeq(Rest(q, offset), t + 1, Len(Rest(q, offset))),
            mixed \o SubSeq(Rest(q, offset), 1, t), bs, hd, wr, fl)
  <2>1. t \in 0 .. Len(Rest(q, offset))
    BY <1>2, <1>4
  <2> QED BY <2>1, FramesTaken
<1>6. /\ SubSeq(Rest(q, offset), t + 1, Len(Rest(q, offset))) = Rest(q, offset + t)
      /\ SubSeq(Rest(q, offset), 1, t) = SubSeq(q, offset + 1, offset + t)
  BY <1>2, RestOfRest
<1>7. Lined(Rest(q, offset + t), mixed', bs, hd, wr, fl)
  BY <1>3, <1>5, <1>6
<1>8. Len(mixed') <= MixerRoom
  <2> DEFINE some == SubSeq(q, offset + 1, offset + t)
  <2>1. \A i \in offset + 1 .. offset + t : q[i] \in Frame
    BY <1>1, <1>2
  <2>2. some \in Seq(Frame) /\ Len(some) = (offset + t) - (offset + 1) + 1
    BY <1>1, <1>2, <2>1, SubSeqProperties
  <2>3. Len(some) = t
    BY <1>1, <1>2, <2>2
  <2> HIDE DEF some
  <2>4. Len(mixed \o some) = Len(mixed) + t
    BY <1>1, <2>2, <2>3, ConcatProperties
  <2>5. mixed' = mixed \o some
    BY <1>3 DEF some
  <2> QED BY <1>1, <1>2, <2>4, <2>5
<1>9. CASE offset + t = Len(q)
  <2>1. audioQueue' = <<>> /\ audioOffset' = 0 /\ <<>> \in Seq(Frame) /\ Len(<<>>) = 0
    BY <1>3, <1>9
  <2>2. Rest(<<>>, 0) = <<>>
    <3>1. 0 \in 0 .. Len(<<>>)
      BY <2>1
    <3>2. Rest(<<>>, 0) \in Seq(Frame) /\ Len(Rest(<<>>, 0)) = 0 - 0
      BY <2>1, <3>1, RestIs
    <3> QED BY <3>2
  <2>3. Rest(q, Len(q)) = <<>>
    <3>1. Len(q) \in 0 .. Len(q)
      BY <1>1
    <3>2. Rest(q, Len(q)) \in Seq(Frame) /\ Len(Rest(q, Len(q))) = Len(q) - Len(q)
      BY <3>1, RestIs
    <3> QED BY <1>1, <3>2
  <2>4. Lined(<<>>, mixed', bs, hd, wr, fl)
    BY <1>7, <1>9, <2>3
  <2>5. 0 \in 0 .. Len(<<>>)
    BY <2>1
  <2> QED BY <1>8, <2>1, <2>2, <2>4, <2>5
<1>10. CASE offset + t # Len(q)
  <2>1. audioQueue' = q /\ audioOffset' = offset + t /\ offset + t \in 0 .. Len(q)
    BY <1>1, <1>2, <1>3, <1>10
  <2> QED BY <1>7, <1>8, <2>1
<1> QED BY <1>9, <1>10

AudioInv ==
    /\ audioQueue \in Seq(Frame) /\ audioOffset \in 0 .. Len(audioQueue)
    /\ Len(mixed) <= MixerRoom /\ audioFormat \in Formats
    /\ audioPorts \in [1 .. AudioPorts -> Formats \union {NoVoice}]
    /\ Lined(Queued, mixed, buffers, heard, written, flushed)

\* The recording: consecutive frames of one format, ending with the last captured.
Consecutive(q, form, n) ==
    /\ q \in Seq(Frame) /\ Len(q) <= n
    /\ \A i \in 1 .. Len(q) : q[i].form = form /\ q[i].number = n - Len(q) + i
CaptureInv ==
    /\ captured \in Nat /\ captureRead \in Nat /\ captureFormat \in Formats
    /\ Consecutive(captureQueue, captureFormat, captured)
    /\ captureOffset \in 0 .. Len(captureQueue)
    /\ captureRead <= captured - Len(captureQueue) + captureOffset

VoiceInv == AudioInv /\ CaptureInv

LEMMA DefaultFormat == Default \in Formats
BY AudioAssumption DEF Default

LEMMA VoiceIs == InVoice = VoiceOf(mixed, buffers)
BY DEF InVoice, VoiceOf

LEMMA CaptureIs ==
    ASSUME CaptureInv
    PROVE  /\ captureQueue \in Seq(Frame) /\ Len(captureQueue) \in Nat
           /\ captured \in Nat /\ captureRead \in Nat /\ captureOffset \in Nat
           /\ captureOffset <= Len(captureQueue) /\ Len(captureQueue) <= captured
           /\ Pending \in Seq(Frame) /\ Len(Pending) = Len(captureQueue) - captureOffset
           /\ \A i \in 1 .. Len(captureQueue) - captureOffset :
                Pending[i] = captureQueue[captureOffset + i]
<1>1. /\ captureQueue \in Seq(Frame) /\ captureOffset \in 0 .. Len(captureQueue)
      /\ captured \in Nat /\ captureRead \in Nat /\ Len(captureQueue) <= captured
  BY DEF CaptureInv, Consecutive
<1>2. Len(captureQueue) \in Nat
  BY <1>1
<1>3. /\ Pending \in Seq(Frame) /\ Len(Pending) = Len(captureQueue) - captureOffset
      /\ \A i \in 1 .. Len(captureQueue) - captureOffset :
           Pending[i] = captureQueue[captureOffset + i]
  BY <1>1, RestIs DEF Pending
<1> QED BY <1>1, <1>2, <1>3

LEMMA OrderedCapture ==
    ASSUME CaptureInv PROVE CaptureInOrder
<1>1. ASSUME NEW i \in DOMAIN Pending
      PROVE  /\ Pending[i].form = captureFormat
             /\ Pending[i].number = Pending[1].number + i - 1
             /\ Pending[1].number > captureRead
  <2> DEFINE n == Len(captureQueue)  o == captureOffset
  <2>1. /\ n \in Nat /\ o \in Nat /\ captured \in Nat /\ captureRead \in Nat
        /\ o <= n /\ n <= captured /\ Pending \in Seq(Frame) /\ Len(Pending) = n - o
        /\ \A k \in 1 .. n - o : Pending[k] = captureQueue[o + k]
    BY CaptureIs
  <2>2. /\ \A k \in 1 .. n : captureQueue[k].form = captureFormat
                             /\ captureQueue[k].number = captured - n + k
        /\ captureRead <= captured - n + o
    BY DEF CaptureInv, Consecutive
  <2>3. i \in 1 .. n - o /\ 1 \in 1 .. n - o /\ o + i \in 1 .. n /\ o + 1 \in 1 .. n
    <3>1. DOMAIN Pending = 1 .. Len(Pending)
      BY <2>1
    <3>2. i \in 1 .. n - o
      BY <1>1, <2>1, <3>1
    <3> HIDE DEF n, o
    <3> QED BY <2>1, <3>2
  <2> HIDE DEF n, o
  <2>4. Pending[i].form = captureFormat /\ Pending[i].number = captured - n + (o + i)
    BY <2>1, <2>2, <2>3
  <2>5. Pending[1].number = captured - n + (o + 1)
    BY <2>1, <2>2, <2>3
  <2> QED BY <2>1, <2>2, <2>3, <2>4, <2>5
<1> QED BY <1>1 DEF CaptureInOrder

LEMMA OrderedOutput ==
    ASSUME AudioInv PROVE OutputInOrder
<1>1. Stages(Queued, mixed, buffers, heard, written)
  BY DEF AudioInv, Lined
<1>2. PICK starts \in Starts(buffers) :
        /\ Follow(starts, buffers) /\ Played(starts, heard, flushed)
        /\ Waiting(starts[Len(buffers) + 1], Queued, mixed, written)
  BY DEF AudioInv, Lined
<1> DEFINE n == Len(buffers)  last == starts[n + 1]
<1>3. /\ Queued \in Seq(Frame) /\ mixed \in Seq(Frame) /\ buffers \in Seq(Seq(Frame))
      /\ written \in Nat /\ Len(Queued) \in Nat /\ Len(mixed) \in Nat
      /\ \A b \in 1 .. n : buffers[b] # <<>>
  <2>1. /\ Queued \in Seq(Frame) /\ mixed \in Seq(Frame) /\ buffers \in Seq(Seq(Frame))
        /\ written \in Nat /\ \A b \in 1 .. n : buffers[b] # <<>>
    BY <1>1 DEF Stages
  <2> QED BY <2>1
<1>4. /\ n \in Nat /\ DOMAIN buffers = 1 .. n /\ \A b \in 1 .. n + 1 : starts[b] \in Nat
      /\ \A b \in 1 .. n : buffers[b] \in Seq(Frame) /\ Len(buffers[b]) \in Nat
      /\ last \in Nat
  BY <1>2, <1>3, StartsAre
<1>5. \A b \in 1 .. n : /\ starts[b + 1] = starts[b] + Len(buffers[b])
                        /\ RunsFrom(starts[b], buffers[b])
  BY <1>2 DEF Follow
<1>6. /\ RunsFrom(last, mixed) /\ RunsFrom(last + Len(mixed), Queued)
      /\ written = last + Len(mixed) + Len(Queued)
  BY <1>2 DEF Waiting
<1>7. QueueFrom = last + Len(mixed) /\ MixedFrom = last
  <2> HIDE DEF last
  <2>1. QueueFrom = last + Len(mixed)
    BY <1>3, <1>4, <1>6 DEF QueueFrom
  <2> QED BY <1>3, <1>4, <2>1 DEF MixedFrom
<1>8. ASSUME NEW b \in 1 .. n + 1 PROVE BufferFrom(b) = starts[b]
  <2>1. CASE b \in 1 .. n
    <3>1. buffers[b] \in Seq(Frame) /\ buffers[b] # <<>> /\ RunsFrom(starts[b], buffers[b])
      BY <1>3, <1>4, <1>5, <2>1
    <3> DEFINE s == buffers[b]
    <3> HIDE DEF s
    <3>2. s \in Seq(Frame) /\ s # <<>> /\ RunsFrom(starts[b], s)
      BY <3>1 DEF s
    <3>3. 1 \in DOMAIN s
      BY <3>2
    <3>4. s[1].number = starts[b] + 1
      BY <3>2, <3>3 DEF RunsFrom
    <3>5. starts[b] \in Nat
      BY <1>4, <1>8
    <3>6. BufferFrom(b) = s[1].number - 1
      BY <1>4, <2>1 DEF BufferFrom, s
    <3> QED BY <3>4, <3>5, <3>6
  <2>2. CASE b \notin 1 .. n
    <3>1. b = n + 1
      BY <1>4, <1>8, <2>2
    <3> QED BY <1>4, <1>7, <2>2, <3>1 DEF BufferFrom
  <2> QED BY <2>1, <2>2
<1>9. ASSUME NEW b \in DOMAIN buffers
      PROVE  /\ RunsFrom(BufferFrom(b), buffers[b])
             /\ BufferFrom(b + 1) = BufferFrom(b) + Len(buffers[b])
  <2>1. b \in 1 .. n /\ b \in 1 .. n + 1 /\ b + 1 \in 1 .. n + 1
    BY <1>4, <1>9
  <2>2. BufferFrom(b) = starts[b] /\ BufferFrom(b + 1) = starts[b + 1]
    BY <1>8, <2>1
  <2> QED BY <1>5, <2>1, <2>2
<1>10. BufferFrom(1) = starts[1]
  <2>1. 1 \in 1 .. n + 1
    BY <1>4
  <2> QED BY <1>8, <2>1
<1> HIDE DEF n, last
<1> QED BY <1>2, <1>6, <1>7, <1>9, <1>10 DEF OutputInOrder, Played

LEMMA VoiceInitially ==
    ASSUME AudioInit PROVE VoiceInv
<1>1. <<>> \in Seq(Frame) /\ Len(<<>>) = 0 /\ 1 .. 0 = {} /\ DOMAIN <<>> = {}
      /\ <<>> \in Seq(Nat) /\ 0 \in 0 .. 0 /\ 0 \in Nat
  OBVIOUS
<1>2. Queued = <<>>
  <2>1. 0 \in 0 .. Len(<<>>)
    BY <1>1
  <2>2. Rest(<<>>, 0) \in Seq(Frame) /\ Len(Rest(<<>>, 0)) = 0 - 0
    BY <1>1, <2>1, RestIs
  <2>3. Rest(<<>>, 0) = <<>>
    BY <2>2
  <2> QED BY <2>3 DEF Queued, AudioInit
<1>3. Lined(<<>>, <<>>, <<>>, <<>>, 0, {})
  <2>1. 0 = 0 + Len(<<>>) /\ RunsFrom(0, <<>>)
    BY <1>1 DEF RunsFrom
  <2>2. {<<>>[i] : i \in DOMAIN <<>>} = (1 .. 0) \ {} /\ {} \subseteq 1 .. 0
    BY <1>1
  <2>3. \A i, j \in DOMAIN <<>> : i < j => <<>>[i] < <<>>[j]
    BY <1>1
  <2> QED BY <1>1, <2>1, <2>2, <2>3, LineStarts
<1>4. AudioInv
  <2>1. audioPorts \in [1 .. AudioPorts -> Formats \union {NoVoice}]
    BY DEF AudioInit, ClosedPort
  <2>2. Len(mixed) <= MixerRoom
    BY <1>1, Roomy DEF AudioInit, Room
  <2> QED BY <1>1, <1>2, <1>3, <2>1, <2>2, DefaultFormat DEF AudioInit, AudioInv
<1>5. CaptureInv
  <2>1. Consecutive(<<>>, Default, 0)
    BY <1>1 DEF Consecutive
  <2> QED BY <1>1, <2>1, DefaultFormat DEF AudioInit, CaptureInv
<1> QED BY <1>4, <1>5 DEF VoiceInv

LEMMA OutputUntouched ==
    ASSUME AudioInv, UNCHANGED outputVars PROVE AudioInv'
BY DEF AudioInv, outputVars, Queued, Rest, Lined, Stages, Waiting

LEMMA CaptureUntouched ==
    ASSUME CaptureInv, UNCHANGED captureVars PROVE CaptureInv'
BY DEF CaptureInv, captureVars, Consecutive

LEMMA ConfiguredKeeps ==
    ASSUME AudioInv, NEW form \in Formats, NEW opens \in BOOLEAN, Configured(form, opens),
           audioPorts' \in [1 .. AudioPorts -> Formats \union {NoVoice}]
    PROVE  AudioInv'
<1>1. Lined(Queued, <<>>, <<>>, heard, written, flushed \union VoiceOf(mixed, buffers))
  BY VoiceClosed DEF AudioInv
<1>2. /\ mixed' = <<>> /\ buffers' = <<>> /\ flushed' = flushed \union VoiceOf(mixed, buffers)
      /\ audioFormat' = form /\ audioQueue' = audioQueue /\ audioOffset' = audioOffset
      /\ heard' = heard /\ written' = written
  BY VoiceIs DEF Configured, CloseVoice
<1>3. Queued' = Queued
  BY <1>2 DEF Queued
<1>4. Len(<<>>) <= MixerRoom
  BY Roomy DEF Room
<1>5. audioQueue' \in Seq(Frame) /\ audioOffset' \in 0 .. Len(audioQueue')
  BY <1>2 DEF AudioInv
<1>6. Lined(Queued', mixed', buffers', heard', written', flushed')
  BY <1>1, <1>2, <1>3
<1> QED BY <1>2, <1>4, <1>5, <1>6 DEF AudioInv

LEMMA ConfigureKeeps ==
    ASSUME VoiceInv, NEW form \in Formats, NEW opens \in BOOLEAN, Configure(form, opens)
    PROVE  VoiceInv'
<1>1. audioPorts' \in [1 .. AudioPorts -> Formats \union {NoVoice}]
  BY DEF VoiceInv, AudioInv, Configure
<1>2. CaptureInv'
  BY CaptureUntouched DEF VoiceInv, Configure, Configured, captureVars
<1> QED BY <1>1, <1>2, ConfiguredKeeps DEF VoiceInv, Configure

LEMMA OpenPortKeeps ==
    ASSUME VoiceInv, NEW form \in Formats, NEW opens \in BOOLEAN, OpenPort(form, opens)
    PROVE  VoiceInv'
<1>1. audioPorts' \in [1 .. AudioPorts -> Formats \union {NoVoice}]
  BY DEF VoiceInv, AudioInv, OpenPort
<1>2. CaptureInv'
  BY CaptureUntouched DEF VoiceInv, OpenPort, Configured, captureVars
<1> QED BY <1>1, <1>2, ConfiguredKeeps DEF VoiceInv, OpenPort

LEMMA ClosePortKeeps ==
    ASSUME VoiceInv, NEW p \in 1 .. AudioPorts, ClosePort(p)
    PROVE  VoiceInv'
<1>1. audioPorts' \in [1 .. AudioPorts -> Formats \union {NoVoice}]
  BY DEF VoiceInv, AudioInv, ClosePort, ClosedPort
<1>2. CaptureInv'
  BY CaptureUntouched DEF VoiceInv, ClosePort, captureVars
<1>3. AudioInv'
  BY <1>1 DEF VoiceInv, AudioInv, ClosePort, Queued, Rest, Lined, Stages, Waiting
<1> QED BY <1>2, <1>3 DEF VoiceInv

LEMMA EmitKeeps ==
    ASSUME VoiceInv, NEW form \in Formats, NEW k \in 1 .. MaxQueue, Emit(form, k)
    PROVE  VoiceInv'
<1> DEFINE new == Frames(written, k, form)
<1>1. /\ audioQueue \in Seq(Frame) /\ audioOffset \in 0 .. Len(audioQueue)
      /\ Len(mixed) <= MixerRoom /\ Lined(Queued, mixed, buffers, heard, written, flushed)
      /\ written \in Nat /\ k \in Nat
  <2>1. k \in Nat
    BY Roomy DEF Room
  <2>2. Stages(Queued, mixed, buffers, heard, written)
    BY DEF VoiceInv, AudioInv, Lined
  <2> QED BY <2>1, <2>2 DEF VoiceInv, AudioInv, Stages
<1>2. new \in Seq(Frame)
  BY <1>1, FramesMade
<1>3. Lined(Queued \o new, mixed, buffers, heard, written + k, flushed)
  BY <1>1, FramesAdded
<1>4. /\ Queued = <<>> => Pump(new, 0)
      /\ Queued # <<>> => Pump(audioQueue \o new, audioOffset)
      /\ written' = written + k /\ buffers' = buffers /\ heard' = heard /\ flushed' = flushed
      /\ audioFormat' = audioFormat /\ audioPorts' = audioPorts
  BY DEF Emit
<1> HIDE DEF new
<1>5. /\ audioQueue' \in Seq(Frame) /\ audioOffset' \in 0 .. Len(audioQueue')
      /\ Lined(Rest(audioQueue', audioOffset'), mixed', buffers, heard, written + k, flushed)
      /\ Len(mixed') <= MixerRoom
  <2>1. CASE Queued = <<>>
    <3>1. Queued \o new = new
      BY <1>2, <2>1
    <3>2. Rest(new, 0) = new /\ 0 \in 0 .. Len(new)
      <4>1. Len(new) \in Nat /\ 0 \in 0 .. Len(new)
        BY <1>2
      <4>2. /\ Rest(new, 0) \in Seq(Frame) /\ Len(Rest(new, 0)) = Len(new) - 0
            /\ \A i \in 1 .. Len(new) - 0 : Rest(new, 0)[i] = new[0 + i]
        BY <1>2, <4>1, RestIs
      <4>3. Len(Rest(new, 0)) = Len(new) /\ \A i \in 1 .. Len(new) : Rest(new, 0)[i] = new[i]
        BY <4>1, <4>2
      <4> QED BY <1>2, <4>1, <4>2, <4>3, SeqEqual
    <3>3. Lined(Rest(new, 0), mixed, buffers, heard, written + k, flushed) /\ Pump(new, 0)
      BY <1>3, <1>4, <2>1, <3>1, <3>2
    <3> QED BY <1>1, <1>2, <3>2, <3>3, Pumped
  <2>2. CASE Queued # <<>>
    <3>1. /\ Rest(audioQueue \o new, audioOffset) = Queued \o new
          /\ audioQueue \o new \in Seq(Frame) /\ audioOffset \in 0 .. Len(audioQueue \o new)
      BY <1>1, <1>2, RestGrown DEF Queued
    <3>2. Lined(Rest(audioQueue \o new, audioOffset), mixed, buffers, heard, written + k, flushed)
      BY <1>3, <3>1
    <3> QED BY <1>1, <1>4, <2>2, <3>1, <3>2, Pumped
  <2> QED BY <2>1, <2>2
<1>6. Queued' = Rest(audioQueue', audioOffset')
  BY DEF Queued
<1>7. Lined(Queued', mixed', buffers', heard', written', flushed')
  BY <1>4, <1>5, <1>6
<1>8. audioFormat' \in Formats /\ audioPorts' \in [1 .. AudioPorts -> Formats \union {NoVoice}]
  BY <1>4 DEF VoiceInv, AudioInv
<1>9. AudioInv'
  BY <1>5, <1>7, <1>8 DEF AudioInv
<1>10. CaptureInv'
  BY CaptureUntouched DEF VoiceInv, Emit, captureVars
<1> QED BY <1>9, <1>10 DEF VoiceInv

LEMMA VoiceAsksKeeps ==
    ASSUME VoiceInv, VoiceAsks PROVE VoiceInv'
<1>1. /\ audioQueue' \in Seq(Frame) /\ audioOffset' \in 0 .. Len(audioQueue')
      /\ Lined(Rest(audioQueue', audioOffset'), mixed', buffers, heard, written, flushed)
      /\ Len(mixed') <= MixerRoom
  BY Pumped DEF VoiceInv, AudioInv, VoiceAsks, Queued
<1>2. /\ written' = written /\ buffers' = buffers /\ heard' = heard /\ flushed' = flushed
      /\ audioFormat' = audioFormat /\ audioPorts' = audioPorts
  BY DEF VoiceAsks
<1>3. Queued' = Rest(audioQueue', audioOffset')
  BY DEF Queued
<1>4. Lined(Queued', mixed', buffers', heard', written', flushed')
  BY <1>1, <1>2, <1>3
<1>5. AudioInv'
  BY <1>1, <1>2, <1>4 DEF AudioInv, VoiceInv
<1>6. CaptureInv'
  BY CaptureUntouched DEF VoiceInv, VoiceAsks, captureVars
<1> QED BY <1>5, <1>6 DEF VoiceInv

LEMMA SubmitBufferKeeps ==
    ASSUME VoiceInv, SubmitBuffer PROVE VoiceInv'
<1>1. Lined(Queued, <<>>, Append(buffers, mixed), heard, written, flushed)
  BY BufferSubmitted DEF VoiceInv, AudioInv, SubmitBuffer
<1>2. /\ written' = written /\ buffers' = Append(buffers, mixed) /\ mixed' = <<>>
      /\ heard' = heard /\ flushed' = flushed /\ audioFormat' = audioFormat
      /\ audioPorts' = audioPorts /\ audioQueue' = audioQueue /\ audioOffset' = audioOffset
  BY DEF SubmitBuffer
<1>3. Queued' = Queued
  BY <1>2 DEF Queued
<1>4. Lined(Queued', mixed', buffers', heard', written', flushed')
  BY <1>1, <1>2, <1>3
<1>5. Len(mixed') <= MixerRoom
  BY <1>2, Roomy DEF Room
<1>6. AudioInv'
  BY <1>2, <1>4, <1>5 DEF AudioInv, VoiceInv
<1>7. CaptureInv'
  BY CaptureUntouched DEF VoiceInv, SubmitBuffer, captureVars
<1> QED BY <1>6, <1>7 DEF VoiceInv

LEMMA BufferEndKeeps ==
    ASSUME VoiceInv, BufferEnd PROVE VoiceInv'
<1>1. Lined(Queued, mixed, Tail(buffers), heard \o Numbers(Head(buffers)), written, flushed)
  BY BufferPlayed DEF VoiceInv, AudioInv, BufferEnd
<1>2. /\ written' = written /\ buffers' = Tail(buffers) /\ mixed' = mixed
      /\ heard' = heard \o Numbers(Head(buffers)) /\ flushed' = flushed
      /\ audioFormat' = audioFormat /\ audioPorts' = audioPorts
      /\ audioQueue' = audioQueue /\ audioOffset' = audioOffset
  BY DEF BufferEnd
<1>3. Queued' = Queued
  BY <1>2 DEF Queued
<1>4. Lined(Queued', mixed', buffers', heard', written', flushed')
  BY <1>1, <1>2, <1>3
<1>5. AudioInv'
  BY <1>2, <1>4 DEF AudioInv, VoiceInv
<1>6. CaptureInv'
  BY CaptureUntouched DEF VoiceInv, BufferEnd, captureVars
<1> QED BY <1>5, <1>6 DEF VoiceInv

LEMMA CaptureKeeps ==
    ASSUME VoiceInv, NEW form \in Formats, NEW k \in 1 .. MaxQueue, Capture(form, k)
    PROVE  VoiceInv'
<1> DEFINE keep == Pending # <<>> /\ form = captureFormat
           old == IF keep THEN captureQueue ELSE <<>>
           new == Frames(captured, k, form)
<1>1. CaptureInv /\ k \in Nat
  BY Roomy DEF VoiceInv, Room
<1>2. /\ captureQueue \in Seq(Frame) /\ Len(captureQueue) \in Nat
      /\ captured \in Nat /\ captureRead \in Nat /\ captureOffset \in Nat
      /\ captureOffset <= Len(captureQueue) /\ Len(captureQueue) <= captured
      /\ captureRead <= captured - Len(captureQueue) + captureOffset
      /\ \A i \in 1 .. Len(captureQueue) :
           captureQueue[i].form = captureFormat
           /\ captureQueue[i].number = captured - Len(captureQueue) + i
  BY <1>1, CaptureIs DEF CaptureInv, Consecutive
<1>3. /\ captureQueue' = old \o new /\ captureOffset' = IF keep THEN captureOffset ELSE 0
      /\ captureFormat' = form /\ captured' = captured + k /\ captureRead' = captureRead
  BY DEF Capture
<1>4. /\ new \in Seq(Frame) /\ Len(new) = k
      /\ \A i \in 1 .. k : new[i].number = captured + i /\ new[i].form = form
  BY <1>1, <1>2, FramesMade
<1> HIDE DEF new
<1>5. /\ old \in Seq(Frame) /\ Len(old) \in Nat /\ Len(old) <= captured
      /\ \A i \in 1 .. Len(old) : old[i].form = form
                                  /\ old[i].number = captured - Len(old) + i
      /\ captureOffset' \in 0 .. Len(old)
      /\ captureRead <= captured - Len(old) + captureOffset'
  <2>1. CASE keep
    <3>1. old = captureQueue /\ captureOffset' = captureOffset /\ form = captureFormat
      BY <1>3, <2>1
    <3> HIDE DEF old
    <3>2. old \in Seq(Frame) /\ Len(old) \in Nat /\ Len(old) <= captured
      BY <1>2, <3>1
    <3>3. \A i \in 1 .. Len(old) : old[i].form = form
                                  /\ old[i].number = captured - Len(old) + i
      BY <1>2, <3>1
    <3>4. captureOffset' \in 0 .. Len(old)
          /\ captureRead <= captured - Len(old) + captureOffset'
      BY <1>2, <3>1, <3>2
    <3> QED BY <3>2, <3>3, <3>4
  <2>2. CASE ~keep
    <3>1. old = <<>> /\ captureOffset' = 0 /\ Len(<<>>) = 0 /\ <<>> \in Seq(Frame)
      BY <1>3, <2>2
    <3> HIDE DEF old
    <3> QED BY <1>2, <3>1
  <2> QED BY <2>1, <2>2
<1> HIDE DEF old, keep
<1> DEFINE q == old \o new
<1>6. /\ q \in Seq(Frame) /\ Len(q) = Len(old) + k
      /\ \A i \in 1 .. Len(old) + k : q[i] = IF i <= Len(old) THEN old[i] ELSE new[i - Len(old)]
  BY <1>4, <1>5, ConcatProperties
<1> HIDE DEF q
<1>7. ASSUME NEW i \in 1 .. Len(q)
      PROVE  q[i].form = form /\ q[i].number = captured + k - Len(q) + i
  <2>1. i \in 1 .. Len(old) + k
    BY <1>6
  <2>2. CASE i <= Len(old)
    <3>1. i \in 1 .. Len(old) /\ q[i] = old[i]
      BY <1>5, <1>6, <2>1, <2>2
    <3>2. q[i].form = form /\ q[i].number = captured - Len(old) + i
      BY <1>5, <3>1
    <3> QED BY <1>1, <1>2, <1>5, <1>6, <2>1, <3>2
  <2>3. CASE ~(i <= Len(old))
    <3>1. i - Len(old) \in 1 .. k
      BY <1>1, <1>5, <2>1, <2>3
    <3>2. q[i].form = form /\ q[i].number = captured + (i - Len(old))
      BY <1>4, <1>6, <2>1, <2>3, <3>1
    <3> QED BY <1>1, <1>2, <1>5, <1>6, <2>1, <3>2
  <2> QED BY <2>2, <2>3
<1>8. Len(q) <= captured + k /\ captured + k \in Nat /\ captureOffset' \in 0 .. Len(q)
      /\ captureRead <= captured + k - Len(q) + captureOffset'
  BY <1>1, <1>2, <1>5, <1>6
<1>9. Consecutive(q, form, captured + k)
  <2>1. PICK n : n = captured + k
    OBVIOUS
  <2>2. q \in Seq(Frame) /\ Len(q) <= n
    BY <1>6, <1>8, <2>1
  <2>3. \A i \in 1 .. Len(q) : q[i].form = form /\ q[i].number = n - Len(q) + i
    <3>1. Len(q) \in Nat /\ n \in Nat
      BY <1>1, <1>2, <1>5, <1>6, <2>1
    <3>2. ASSUME NEW i \in 1 .. Len(q) PROVE q[i].number = n - Len(q) + i
      <4>1. q[i].number = captured + k - Len(q) + i
        BY <1>7
      <4> QED BY <1>1, <1>2, <2>1, <3>1, <4>1
    <3>3. \A i \in 1 .. Len(q) : q[i].form = form
      BY <1>7
    <3> QED BY <3>2, <3>3
  <2>4. Consecutive(q, form, n)
    BY <2>2, <2>3 DEF Consecutive
  <2> QED BY <2>1, <2>4
<1>10. captureQueue' = q
  BY <1>3 DEF q
<1>11. CaptureInv'
  BY <1>2, <1>3, <1>8, <1>9, <1>10 DEF CaptureInv
<1>12. AudioInv'
  BY OutputUntouched DEF VoiceInv, Capture
<1> QED BY <1>11, <1>12 DEF VoiceInv

LEMMA ReadCaptureKeeps ==
    ASSUME VoiceInv, NEW k \in 1 .. MaxQueue, ReadCapture(k)
    PROVE  VoiceInv'
<1> DEFINE end == captureOffset + Lesser(k, Len(Pending))
<1>1. CaptureInv /\ k \in Nat
  BY Roomy DEF VoiceInv, Room
<1>2. /\ captureQueue \in Seq(Frame) /\ Len(captureQueue) \in Nat
      /\ captured \in Nat /\ captureOffset \in Nat
      /\ captureOffset <= Len(captureQueue) /\ Len(captureQueue) <= captured
      /\ Len(Pending) = Len(captureQueue) - captureOffset
      /\ \A i \in 1 .. Len(captureQueue) :
           captureQueue[i].form = captureFormat
           /\ captureQueue[i].number = captured - Len(captureQueue) + i
  BY <1>1, CaptureIs DEF CaptureInv, Consecutive
<1>3. /\ Lesser(k, Len(Pending)) > 0 /\ captureRead' = captureQueue[end].number
      /\ captureQueue' = IF end = Len(captureQueue) THEN <<>> ELSE captureQueue
      /\ captureOffset' = IF end = Len(captureQueue) THEN 0 ELSE end
      /\ captureFormat' = captureFormat /\ captured' = captured
  BY DEF ReadCapture
<1>4. end \in 1 .. Len(captureQueue)
  BY <1>1, <1>2, <1>3 DEF Lesser
<1> HIDE DEF end
<1>5. captureRead' = captured - Len(captureQueue) + end /\ captureRead' \in Nat
  BY <1>2, <1>3, <1>4
<1>6. CASE end = Len(captureQueue)
  <2>1. captureQueue' = <<>> /\ captureOffset' = 0 /\ Len(<<>>) = 0 /\ <<>> \in Seq(Frame)
    BY <1>3, <1>6
  <2>2. Consecutive(<<>>, captureFormat, captured)
    BY <1>2, <2>1 DEF Consecutive
  <2>3. captureRead' <= captured - Len(<<>>) + 0 /\ 0 \in 0 .. Len(<<>>)
    BY <1>2, <1>5, <1>6, <2>1
  <2> QED BY <1>1, <1>3, <1>5, <2>1, <2>2, <2>3, OutputUntouched
          DEF VoiceInv, CaptureInv, ReadCapture
<1>7. CASE end # Len(captureQueue)
  <2>1. captureQueue' = captureQueue /\ captureOffset' = end /\ end \in 0 .. Len(captureQueue)
    BY <1>2, <1>3, <1>4, <1>7
  <2>2. captureRead' <= captured - Len(captureQueue) + end
    BY <1>2, <1>4, <1>5
  <2>3. CaptureInv'
    BY <1>1, <1>3, <1>5, <2>1, <2>2 DEF CaptureInv
  <2> QED BY <2>3, OutputUntouched DEF VoiceInv, ReadCapture
<1> QED BY <1>6, <1>7

LEMMA AudioResetKeeps ==
    ASSUME VoiceInv, AudioReset PROVE VoiceInv'
<1>1. Lined(Queued, <<>>, <<>>, heard, written, flushed \union VoiceOf(mixed, buffers))
  BY VoiceClosed DEF VoiceInv, AudioInv
<1>2. Lined(<<>>, <<>>, <<>>, heard, written,
            (flushed \union VoiceOf(mixed, buffers)) \union Members(Queued))
  BY <1>1, QueueEmptied
<1>3. /\ mixed' = <<>> /\ buffers' = <<>> /\ heard' = heard /\ written' = written
      /\ flushed' = (flushed \union VoiceOf(mixed, buffers)) \union Members(Queued)
      /\ audioQueue' = <<>> /\ audioOffset' = 0 /\ audioFormat' = Default
      /\ audioPorts' \in [1 .. AudioPorts -> Formats \union {NoVoice}]
  BY VoiceIs DEF AudioReset, ClosedPort
<1>4. /\ Queued' = <<>> /\ <<>> \in Seq(Frame) /\ Len(<<>>) = 0 /\ 0 \in 0 .. Len(<<>>)
  <2>1. 0 \in 0 .. Len(<<>>) /\ <<>> \in Seq(Frame) /\ Len(<<>>) = 0
    OBVIOUS
  <2>2. Rest(<<>>, 0) \in Seq(Frame) /\ Len(Rest(<<>>, 0)) = 0 - 0
    BY <2>1, RestIs
  <2>3. Rest(<<>>, 0) = <<>>
    BY <2>2
  <2> QED BY <1>3, <2>1, <2>3 DEF Queued
<1>5. AudioInv'
  BY <1>2, <1>3, <1>4, DefaultFormat, Roomy DEF AudioInv, Room
<1>6. CaptureInv'
  <2>1. /\ captureQueue' = <<>> /\ captureOffset' = 0 /\ captureFormat' = Default
        /\ captured' = captured /\ captureRead' = captureRead
    BY DEF AudioReset
  <2>2. captured \in Nat /\ captureRead \in Nat /\ captureRead <= captured
    <3>1. /\ Len(captureQueue) \in Nat /\ captured \in Nat /\ captureRead \in Nat
          /\ captureOffset \in Nat /\ captureOffset <= Len(captureQueue)
          /\ captureRead <= captured - Len(captureQueue) + captureOffset
      BY CaptureIs DEF VoiceInv, CaptureInv
    <3> QED BY <3>1
  <2>3. Consecutive(<<>>, Default, captured)
    BY <1>4, <2>2 DEF Consecutive
  <2>4. captureRead <= captured - Len(<<>>) + 0
    BY <1>4, <2>2
  <2> QED BY <1>4, <2>1, <2>2, <2>3, <2>4, DefaultFormat DEF CaptureInv
<1> QED BY <1>5, <1>6 DEF VoiceInv

\* Audio both ways loses, repeats and reorders no frame: what the guest wrote is on
\* its way or was played in its order, save what closing the voice discarded, and a
\* recording is read from its middle on, whatever is written, played, configured,
\* captured and reset in between.
THEOREM FramesInOrderHolds == AudioSpec => []FramesInOrder
<1>1. AudioInit => VoiceInv
  BY VoiceInitially
<1>2. VoiceInv /\ [AudioNext]_audioVars => VoiceInv'
  <2> SUFFICES ASSUME VoiceInv, [AudioNext]_audioVars PROVE VoiceInv'
    OBVIOUS
  <2>1. ASSUME NEW form \in Formats, NEW opens \in BOOLEAN, Configure(form, opens)
        PROVE  VoiceInv'
    BY <2>1, ConfigureKeeps
  <2>2. ASSUME NEW form \in Formats, NEW opens \in BOOLEAN, OpenPort(form, opens)
        PROVE  VoiceInv'
    BY <2>2, OpenPortKeeps
  <2>3. ASSUME NEW p \in 1 .. AudioPorts, ClosePort(p) PROVE VoiceInv'
    BY <2>3, ClosePortKeeps
  <2>4. ASSUME NEW k \in 1 .. MaxQueue, Write(k) PROVE VoiceInv'
    BY <2>4, EmitKeeps DEF Write, VoiceInv, AudioInv
  <2>5. ASSUME NEW p \in 1 .. AudioPorts, NEW k \in 1 .. MaxQueue, Output(p, k)
        PROVE  VoiceInv'
    <3>1. audioPorts[p] \in Formats
      BY <2>5 DEF Output, VoiceInv, AudioInv, ClosedPort
    <3> QED BY <2>5, <3>1, EmitKeeps DEF Output
  <2>6. CASE VoiceAsks
    BY <2>6, VoiceAsksKeeps
  <2>7. CASE SubmitBuffer
    BY <2>7, SubmitBufferKeeps
  <2>8. CASE BufferEnd
    BY <2>8, BufferEndKeeps
  <2>9. ASSUME NEW form \in Formats, NEW k \in 1 .. MaxQueue, Capture(form, k)
        PROVE  VoiceInv'
    BY <2>9, CaptureKeeps
  <2>10. ASSUME NEW k \in 1 .. MaxQueue, ReadCapture(k) PROVE VoiceInv'
    BY <2>10, ReadCaptureKeeps
  <2>11. CASE AudioReset
    BY <2>11, AudioResetKeeps
  <2>12. CASE UNCHANGED audioVars
    BY <2>12, OutputUntouched, CaptureUntouched DEF audioVars, VoiceInv
  <2> QED BY <2>1, <2>2, <2>3, <2>4, <2>5, <2>6, <2>7, <2>8, <2>9, <2>10, <2>11, <2>12
          DEF AudioNext
<1>3. VoiceInv => FramesInOrder
  BY OrderedOutput, OrderedCapture DEF VoiceInv, FramesInOrder
<1> QED BY <1>1, <1>2, <1>3, PTL DEF AudioSpec
==============================================================================

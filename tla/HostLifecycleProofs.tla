------------------------ MODULE HostLifecycleProofs ------------------------
(***************************************************************************)
(* Proofs, for every set of application threads, of the safety properties   *)
(* of HostLifecycle.  The guards of the entry points read flags only, so    *)
(* the properties, which speak of where threads are, are not inductive:     *)
(* FlagsTrackThreads, which ties the flags to the program points, is, once  *)
(* the types are known.                                                     *)
(***************************************************************************)
EXTENDS HostLifecycle, TLAPS

IInv == TypeOK /\ FlagsTrackThreads

\* The static storage of a fresh process satisfies the invariant.
LEMMA InitIInv == Init => IInv
<1> SUFFICES ASSUME Init PROVE IInv
  OBVIOUS
<1> USE LoopThreadAssumption DEF Init, Executors
<1>1. TypeOK
  BY DEF TypeOK, FlagTypes, PointTypes, MachineTypes, Statuses, Causes, RunStates, ThreadPoints, LoopThreadPoints
<1>2. FlagsTrackThreads
  BY DEF FlagsTrackThreads, InitFlags, StepFlags, StartFlags, JoinFlags,
         ExitFlags, Alone, StepPoints, LoopAlive, LoopPoints
<1> QED BY <1>1, <1>2 DEF IInv

\* A thread moves only to program points of its own kind.
LEMMA GotoType ==
    ASSUME PointTypes, NEW e \in Executors, NEW p, Goto(e, p),
           e = LoopThread => p \in LoopThreadPoints,
           e # LoopThread => p \in ThreadPoints
    PROVE  PointTypes'
  BY LoopThreadAssumption DEF PointTypes, Goto, Executors

\* The steps of the main loop, on whichever thread, keep the types.
LEMMA LoopStepTypes ==
    ASSUME TypeOK, NEW e \in Executors, LoopStep(e) PROVE TypeOK'
<1> USE DEF LoopStep, MainLoopCheck, MainLoopReset, MainLoopNotified, MainLoopTimer
<1>1. FlagTypes'
  BY DEF TypeOK, FlagTypes, flags
<1>2. PICK p \in LoopPoints \cup {"exited", "stepped"} :
         Goto(e, p) /\ (p = "stepped" => e # LoopThread)
  BY DEF AfterCheck, LoopPoints
<1>3. PointTypes'
  BY <1>2, GotoType DEF TypeOK, Executors, ThreadPoints, LoopThreadPoints
<1>4. MachineTypes'
  BY DEF TypeOK, MachineTypes, flags, machine, requests, options, RunStates,
         Statuses, Causes, VmStop
<1> QED BY <1>1, <1>3, <1>4 DEF TypeOK

\* The commands behind host_is_ready keep the types.
LEMMA CommandTypes ==
    ASSUME TypeOK, NEW t \in Threads, CommandEnd(t) PROVE TypeOK'
<1> USE DEF CommandEnd, Pause, Resume, RequestShutdown, RequestStop,
            RequestStopAction, RequestReset
<1>1. FlagTypes'
  BY DEF TypeOK, FlagTypes, flags
<1>2. PICK p \in {"idle", "stop2"} : Goto(t, p)
  OBVIOUS
<1>3. PointTypes'
  BY <1>2, GotoType, LoopThreadAssumption DEF TypeOK, Executors, ThreadPoints
<1>4. MachineTypes'
  BY DEF TypeOK, MachineTypes, flags, machine, requests, options, RunStates,
         Causes, VmStop
<1> QED BY <1>1, <1>3, <1>4 DEF TypeOK

\* The life-cycle calls keep the types.
LEMMA LifecycleTypes ==
    ASSUME TypeOK, NEW t \in Threads, ThreadStep(t), ~LoopStep(t), ~CommandEnd(t)
    PROVE  TypeOK'
<1>1. FlagTypes'
  <2> USE DEF TypeOK, FlagTypes, flags
  <2>1. CASE InitBegin(t) \/ InitFinish(t) \/ StartBegin(t) \/ StartCreate(t)
    BY <2>1 DEF InitBegin, InitFinish, StartBegin, StartCreate
  <2>2. CASE StepBegin(t) \/ StepFinish(t)
    BY <2>2 DEF StepBegin, StepFinish
  <2>3. CASE JoinBegin(t) \/ JoinFinish(t) \/ JoinUncreated(t)
    BY <2>3 DEF JoinBegin, JoinFinish, JoinUncreated
  <2>4. CASE CleanupBegin(t) \/ CleanupMachine(t) \/ CleanupCallbacks(t)
    BY <2>4 DEF CleanupBegin, CleanupMachine, CleanupCallbacks
  <2>5. CASE \E op \in Commands : CommandBegin(t, op)
    BY <2>5 DEF CommandBegin
  <2> QED BY <2>1, <2>2, <2>3, <2>4, <2>5 DEF ThreadStep
<1>2. PointTypes'
  <2>1. CASE StartCreate(t)
    BY <2>1, LoopThreadAssumption
       DEF TypeOK, StartCreate, PointTypes, ThreadPoints, LoopThreadPoints,
           LoopPoints, Executors
  <2>2. CASE ~StartCreate(t)
    <3>1. PICK p \in ThreadPoints : Goto(t, p)
      BY <2>2 DEF ThreadPoints, LoopPoints, Commands, ThreadStep, InitBegin,
                  InitFinish, StartBegin, StepBegin, StepFinish, JoinBegin,
                  JoinFinish, JoinUncreated, CleanupBegin, CleanupMachine,
                  CleanupCallbacks, CommandBegin
    <3> QED BY <3>1, GotoType, LoopThreadAssumption DEF TypeOK, Executors
  <2> QED BY <2>1, <2>2
<1>3. MachineTypes'
  <2> USE DEF TypeOK, MachineTypes, flags, machine, requests, options
  <2>1. CASE InitBegin(t) \/ StartBegin(t) \/ StartCreate(t)
    BY <2>1 DEF InitBegin, StartBegin, StartCreate
  <2>2. CASE InitFinish(t)
    BY <2>2 DEF InitFinish, Statuses, RunStates
  <2>3. CASE StepBegin(t) \/ StepFinish(t)
    BY <2>3 DEF StepBegin, StepFinish, Statuses, Executors
  <2>4. CASE JoinBegin(t) \/ JoinFinish(t) \/ JoinUncreated(t)
    BY <2>4 DEF JoinBegin, JoinFinish, JoinUncreated
  <2>5. CASE CleanupBegin(t) \/ CleanupMachine(t) \/ CleanupCallbacks(t)
    BY <2>5 DEF CleanupBegin, CleanupMachine, CleanupCallbacks, VmStop, RunStates
  <2>6. CASE \E op \in Commands : CommandBegin(t, op)
    BY <2>6 DEF CommandBegin
  <2> QED BY <2>1, <2>2, <2>3, <2>4, <2>5, <2>6 DEF ThreadStep
<1> QED BY <1>1, <1>2, <1>3 DEF TypeOK

\* Every step keeps the types.
LEMMA TypeStep == TypeOK /\ [Next]_vars => TypeOK'
<1> SUFFICES ASSUME TypeOK, [Next]_vars PROVE TypeOK'
  OBVIOUS
<1>1. CASE LoopStep(LoopThread)
  BY <1>1, LoopStepTypes DEF Executors
<1>2. CASE LoopStoreStatus
  <2>1. Goto(LoopThread, "stored")
    BY <1>2 DEF LoopStoreStatus
  <2>2. PointTypes'
    BY <2>1, GotoType DEF TypeOK, Executors, LoopThreadPoints
  <2> QED BY <1>2, <2>2 DEF LoopStoreStatus, TypeOK, FlagTypes, MachineTypes,
                            Executors, requests, options, machine
<1>3. CASE LoopClearRunning
  <2>1. Goto(LoopThread, "dead")
    BY <1>3 DEF LoopClearRunning
  <2>2. PointTypes'
    BY <2>1, GotoType DEF TypeOK, Executors, LoopThreadPoints
  <2>3. FlagTypes'
    BY <1>3 DEF LoopClearRunning, TypeOK, FlagTypes
  <2>4. MachineTypes'
    BY <1>3 DEF LoopClearRunning, TypeOK, MachineTypes, requests, options, machine
  <2> QED BY <2>2, <2>3, <2>4 DEF TypeOK
<1>4. CASE \E t \in Threads : ThreadStep(t)
  BY <1>4, LoopStepTypes, CommandTypes, LifecycleTypes DEF Executors
<1>5. CASE \E cause \in {"guest", "panic"} : GuestShutdown(cause)
  BY <1>5 DEF GuestShutdown, TypeOK, FlagTypes, PointTypes, MachineTypes,
              Causes, flags, options, machine
<1>6. CASE UNCHANGED vars
  BY <1>6 DEF vars, TypeOK, FlagTypes, PointTypes, MachineTypes, flags,
              requests, options, machine
<1> QED BY <1>1, <1>2, <1>3, <1>4, <1>5, <1>6 DEF Next, LoopThreadStep

\* Every step keeps the flags in agreement with the program points: one case
\* per action, on the loop thread first, then on an application thread.
LEMMA FlagsStep == IInv /\ [Next]_vars => FlagsTrackThreads'
<1> SUFFICES ASSUME TypeOK, FlagsTrackThreads, [Next]_vars
             PROVE  FlagsTrackThreads'
  BY DEF IInv
<1> USE LoopThreadAssumption
        DEF TypeOK, PointTypes, FlagTypes, Executors, LoopThreadPoints,
            LoopPoints, StepPoints, LoopAlive, Alone, Goto, Crashed,
            FlagsTrackThreads, InitFlags, StepFlags, StartFlags, JoinFlags,
            ExitFlags, flags
<1>1. CASE MainLoopCheck(LoopThread)
  BY <1>1 DEF MainLoopCheck, AfterCheck, machine
<1>2. CASE MainLoopReset(LoopThread)
  BY <1>2 DEF MainLoopReset, AfterCheck, machine
<1>3. CASE MainLoopNotified(LoopThread)
  BY <1>3 DEF MainLoopNotified, machine
<1>4. CASE MainLoopTimer(LoopThread)
  BY <1>4 DEF MainLoopTimer, machine
<1>5. CASE LoopStoreStatus
  BY <1>5 DEF LoopStoreStatus, machine
<1>6. CASE LoopClearRunning
  BY <1>6 DEF LoopClearRunning, machine
<1>7. ASSUME NEW t \in Threads, ThreadStep(t) PROVE FlagsTrackThreads'
  <2>1. CASE InitBegin(t)
    BY <2>1 DEF InitBegin, machine
  <2>2. CASE InitFinish(t)
    BY <2>2 DEF InitFinish, machine
  <2>3. CASE StartBegin(t)
    BY <2>3 DEF StartBegin, StartAllowed, host_is_ready, machine
  <2>4. CASE StartCreate(t)
    BY <2>4 DEF StartCreate, machine
  <2>5. CASE StepBegin(t)
    BY <2>5 DEF StepBegin, StepAllowed, host_is_ready, machine
  <2>6. CASE StepFinish(t)
    BY <2>6 DEF StepFinish, machine
  <2>7. CASE MainLoopCheck(t)
    BY <2>7 DEF MainLoopCheck, AfterCheck, machine
  <2>8. CASE MainLoopReset(t)
    BY <2>8 DEF MainLoopReset, AfterCheck, machine
  <2>9. CASE MainLoopNotified(t)
    BY <2>9 DEF MainLoopNotified, machine
  <2>10. CASE MainLoopTimer(t)
    BY <2>10 DEF MainLoopTimer, machine
  <2>11. CASE JoinBegin(t)
    BY <2>11 DEF JoinBegin, machine
  <2>12. CASE JoinFinish(t)
    BY <2>12 DEF JoinFinish, machine
  <2>13. CASE JoinUncreated(t)
    BY <2>13 DEF JoinUncreated, machine
  <2>14. CASE CleanupBegin(t)
    BY <2>14 DEF CleanupBegin, CleanupAllowed, host_is_ready, machine
  <2>15. CASE CleanupMachine(t)
    BY <2>15 DEF CleanupMachine, machine
  <2>16. CASE CleanupCallbacks(t)
    BY <2>16 DEF CleanupCallbacks, machine
  <2>17. CASE Pause(t)
    BY <2>17 DEF Pause, machine
  <2>18. CASE Resume(t)
    BY <2>18 DEF Resume, machine
  <2>19. CASE RequestShutdown(t)
    BY <2>19 DEF RequestShutdown, machine
  <2>20. CASE RequestStopAction(t)
    BY <2>20 DEF RequestStopAction, machine
  <2>21. CASE RequestStop(t)
    BY <2>21 DEF RequestStop, machine
  <2>22. CASE RequestReset(t)
    BY <2>22 DEF RequestReset, machine
  <2>23. CASE \E op \in Commands : CommandBegin(t, op)
    <3>1. PICK op \in Commands : CommandBegin(t, op)
      BY <2>23
    <3>2. op \notin {"init", "create", "join", "crashed"} \cup StepPoints
      BY DEF Commands
    <3> QED BY <3>1, <3>2 DEF CommandBegin, host_is_ready, machine
  <2> HIDE DEF TypeOK, FlagsTrackThreads, Goto
  <2> QED
    BY <1>7, <2>1, <2>2, <2>3, <2>4, <2>5, <2>6, <2>7, <2>8, <2>9, <2>10,
       <2>11, <2>12, <2>13, <2>14, <2>15, <2>16, <2>17, <2>18, <2>19, <2>20,
       <2>21, <2>22, <2>23
       DEF ThreadStep, LoopStep, CommandEnd
<1>8. CASE \E cause \in {"guest", "panic"} : GuestShutdown(cause)
  BY <1>8 DEF GuestShutdown, machine
<1>9. CASE UNCHANGED vars
  BY <1>9 DEF vars, machine
<1> QED
  BY <1>1, <1>2, <1>3, <1>4, <1>5, <1>6, <1>7, <1>8, <1>9
     DEF Next, LoopThreadStep, LoopStep

\* The types and FlagsTrackThreads hold in every reachable state, whatever the
\* application's threads do.
THEOREM Invariance == Spec => [](TypeOK /\ FlagsTrackThreads)
<1>1. IInv /\ [Next]_vars => IInv'
  BY TypeStep, FlagsStep DEF IInv
<1> QED BY InitIInv, <1>1, PTL DEF Spec, IInv

\* A thread in the loop is stepping it, or is the loop thread and alive.
LEMMA InLoopPoints ==
    ASSUME IInv
    PROVE  /\ \A t \in Threads : t \in InLoop => pc[t] \in StepPoints
           /\ LoopThread \in InLoop => LoopAlive
  BY DEF IInv, InLoop, StepPoints, LoopAlive, TypeOK, PointTypes, ThreadPoints,
         LoopThreadPoints, LoopPoints

\* qemu_host_start and qemu_host_main_loop_step never put two threads into the
\* main loop.
THEOREM OneLoopExecutorHolds == Spec => []OneLoopExecutor
<1>1. IInv => OneLoopExecutor
  <2> SUFFICES ASSUME IInv, NEW e \in InLoop, NEW f \in InLoop PROVE e = f
    BY DEF OneLoopExecutor
  <2>1. \A t \in Threads \cap InLoop : pc[t] \in StepPoints /\ ~threadStarted
    BY InLoopPoints, LoopThreadAssumption DEF IInv, FlagsTrackThreads, StepFlags
  <2>2. LoopThread \in InLoop => threadStarted
    BY InLoopPoints DEF IInv, FlagsTrackThreads, StartFlags
  <2>3. {e, f} \subseteq Threads \cup {LoopThread}
    BY DEF InLoop, Executors
  <2> QED BY <2>1, <2>2, <2>3 DEF IInv, FlagsTrackThreads, StepFlags, Alone
<1> QED BY Invariance, <1>1, PTL DEF IInv

\* qemu_host_cleanup runs only when nobody is in the loop, creates it or waits
\* for it.
THEOREM CleanupAloneHolds == Spec => []CleanupAlone
<1>1. IInv => CleanupAlone
  <2> SUFFICES ASSUME IInv, cleaned PROVE CleanupAlone
    BY DEF CleanupAlone
  <2> USE DEF IInv, FlagsTrackThreads
  <2>1. InLoop = {}
    <3>1. \A t \in Threads : t \notin InLoop
      BY InLoopPoints DEF StepFlags, ExitFlags
    <3>2. LoopThread \notin InLoop
      BY InLoopPoints DEF StartFlags, ExitFlags
    <3> QED BY <3>1, <3>2 DEF InLoop, Executors
  <2>2. \A t \in Threads : pc[t] \notin {"create", "join"}
    BY DEF StartFlags, JoinFlags, ExitFlags
  <2> QED BY <2>1, <2>2 DEF CleanupAlone
<1> QED BY Invariance, <1>1, PTL DEF IInv

\* The status that qemu_host_join hands out is the loop's.
THEOREM JoinedStatusHolds == Spec => []JoinedStatus
<1>1. IInv => JoinedStatus
  BY DEF IInv, JoinedStatus, FlagsTrackThreads, StartFlags, ExitFlags
<1> QED BY Invariance, <1>1, PTL DEF IInv

\* Once the loop has exited nobody is in it.
LEMMA ExitedLoopEmpty == IInv /\ loopExited => InLoop = {}
<1> SUFFICES ASSUME IInv, loopExited PROVE InLoop = {}
  OBVIOUS
<1> USE DEF IInv, FlagsTrackThreads, ExitFlags
<1>1. \A t \in Threads : t \notin InLoop
  BY InLoopPoints DEF StepFlags
<1>2. LoopThread \notin InLoop
  BY InLoopPoints DEF StartFlags
<1> QED BY <1>1, <1>2 DEF InLoop, Executors

\* Nothing overwrites the status of a loop that has exited, or enters it again.
THEOREM ExitIsFinalHolds == Spec => ExitIsFinal
<1>0. (IInv /\ loopExited => InLoop = {})'
  BY ExitedLoopEmpty, PTL
<1>1. IInv /\ [Next]_vars =>
        [loopExited => loopExited' /\ exitStatus' = exitStatus
                       /\ InLoop' \subseteq InLoop]_vars
  <2> SUFFICES ASSUME IInv, Next, loopExited
               PROVE  loopExited' /\ exitStatus' = exitStatus
                      /\ InLoop' \subseteq InLoop
    OBVIOUS
  <2>1. loopExited' /\ exitStatus' = exitStatus
    <3> USE DEF flags
    <3>1. CASE LoopThreadStep
      BY <3>1 DEF IInv, FlagsTrackThreads, StartFlags, ExitFlags, LoopAlive,
                  LoopThreadStep, LoopStep, MainLoopCheck, MainLoopReset,
                  MainLoopNotified, MainLoopTimer, LoopStoreStatus, LoopClearRunning
    <3>2. ASSUME NEW t \in Threads, ThreadStep(t)
          PROVE  loopExited' /\ exitStatus' = exitStatus
      <4>1. pc[t] \notin StepPoints /\ pc[t] # "init"
        BY DEF IInv, FlagsTrackThreads, InitFlags, StepFlags, ExitFlags
      <4>2. ~InitFinish(t) /\ ~StepFinish(t)
        BY <4>1 DEF InitFinish, StepFinish, StepPoints
      <4>3. CASE LoopStep(t) \/ CommandEnd(t)
        BY <4>3 DEF LoopStep, MainLoopCheck, MainLoopReset, MainLoopNotified,
                    MainLoopTimer, CommandEnd, Pause, Resume, RequestShutdown,
                    RequestStop, RequestStopAction, RequestReset
      <4>4. CASE ~(LoopStep(t) \/ CommandEnd(t))
        BY <3>2, <4>2, <4>4
           DEF ThreadStep, InitBegin, StartBegin, StartCreate, StepBegin,
               JoinBegin, JoinFinish, JoinUncreated, CleanupBegin,
               CleanupMachine, CleanupCallbacks, CommandBegin
      <4> QED BY <4>3, <4>4
    <3>3. CASE \E cause \in {"guest", "panic"} : GuestShutdown(cause)
      BY <3>3 DEF GuestShutdown
    <3> QED BY <3>1, <3>2, <3>3 DEF Next
  <2>2. IInv'
    BY TypeStep, FlagsStep DEF IInv
  <2>3. InLoop' = {}
    BY <2>1, <2>2, <1>0
  <2> QED BY <2>1, <2>3
<1>2. Spec => []IInv
  BY Invariance, PTL DEF IInv
<1> QED BY <1>1, <1>2, PTL DEF Spec, ExitIsFinal
=============================================================================

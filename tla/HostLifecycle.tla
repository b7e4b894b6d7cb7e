--------------------------- MODULE HostLifecycle ---------------------------
(***************************************************************************)
(* The life cycle of the embedded QEMU: the qemu_host_* entry points of     *)
(* system/host.c that initialise, run, stop, join and clean up the machine, *)
(* called from any number of application threads, and the main loop of      *)
(* system/runstate.c they drive.                                            *)
(*                                                                          *)
(* Every region the code runs under host_state_lock is one action; so is    *)
(* every region it runs under the BQL, up to the places where QEMU itself   *)
(* drops the BQL (the poll of main_loop_wait and pause_all_vcpus).          *)
(***************************************************************************)
EXTENDS Naturals

CONSTANTS
    Threads,        \* application threads that call the DLL
    LoopThread      \* the thread qemu_host_start creates

ASSUME LoopThreadAssumption == LoopThread \notin Threads

VARIABLES
    \* The flags of system/host.c, guarded by host_state_lock.
    initializing, initialized, running, loopExited, threadStarted,
    joinActive, stepActive, cleaned, exitStatus,
    \* host_loop_thread holds a thread that qemu_thread_create created.
    created,
    \* Where each thread is, and the local `status` of its main loop.
    pc, status,
    \* The requests and the run state of system/runstate.c.
    shutdownRequested, shutdownAction, panicAction, rebootAction,
    resetRequested, powerdownRequested, notified, runState,
    \* qemu_cleanup has torn down the block layer, net, audio and chardevs.
    tornDown

flags    == <<initializing, initialized, running, loopExited, threadStarted,
              joinActive, stepActive, cleaned, exitStatus>>
requests == <<shutdownRequested, resetRequested, powerdownRequested, notified>>
machine  == <<runState, tornDown>>
options  == <<shutdownAction, panicAction, rebootAction>>
vars     == <<flags, created, pc, status, requests, options, machine>>

Executors == Threads \cup {LoopThread}

\* exit statuses: EXIT_SUCCESS and EXIT_FAILURE
Statuses == {0, 1}
Causes   == {"none", "guest", "panic", "host"}
RunStates == {"prelaunch", "running", "paused", "shutdown"}

\* Program points inside qemu_main_loop_step, up to its return.
LoopPoints == {"check1", "reset1", "wait", "check2", "reset2"}
ThreadPoints ==
    LoopPoints \cup
    {"idle", "init", "create", "stepped", "exited", "join", "crashed",
     "pause", "resume", "powerdown", "stop", "stop2", "reset",
     "cleanup", "cleanup2"}
LoopThreadPoints == LoopPoints \cup {"none", "exited", "stored", "dead"}

-----------------------------------------------------------------------------
\* Static storage of a fresh process; the three actions come from the command
\* line (-no-shutdown, -action panic=exit-failure, -no-reboot).
Init ==
    /\ initializing = FALSE /\ initialized = FALSE /\ running = FALSE
    /\ loopExited = FALSE /\ threadStarted = FALSE /\ joinActive = FALSE
    /\ stepActive = FALSE /\ cleaned = FALSE /\ exitStatus = 0
    /\ created = FALSE
    /\ pc = [e \in Executors |-> IF e = LoopThread THEN "none" ELSE "idle"]
    /\ status = [e \in Executors |-> 0]
    /\ shutdownRequested = "none" /\ resetRequested = FALSE
    /\ powerdownRequested = FALSE /\ notified = FALSE
    /\ shutdownAction \in {"poweroff", "pause"}
    /\ panicAction \in {"shutdown", "exit-failure"}
    /\ rebootAction \in {"reset", "shutdown"}
    /\ runState = "prelaunch" /\ tornDown = FALSE

\* A process that crashed takes no further step.
Crashed == \E t \in Threads : pc[t] = "crashed"

Goto(e, p) == ~Crashed /\ pc' = [pc EXCEPT ![e] = p]

\* host_is_ready
host_is_ready == initialized /\ ~cleaned

-----------------------------------------------------------------------------
\* qemu_host_init, up to qemu_init: the argument checks are left out.
InitBegin(t) ==
    /\ pc[t] = "idle"
    /\ ~(initializing \/ initialized)
    /\ initializing' = TRUE
    /\ Goto(t, "init")
    /\ UNCHANGED <<initialized, running, loopExited, threadStarted, joinActive,
                   stepActive, cleaned, exitStatus, created, status, requests,
                   options, machine>>

\* qemu_init has returned; with -S the machine stays in prelaunch.
InitFinish(t) ==
    /\ pc[t] = "init"
    /\ initializing' = FALSE /\ initialized' = TRUE /\ running' = FALSE
    /\ loopExited' = FALSE /\ threadStarted' = FALSE /\ joinActive' = FALSE
    /\ stepActive' = FALSE /\ cleaned' = FALSE /\ exitStatus' = 0
    /\ runState' \in {"running", "prelaunch"}
    /\ Goto(t, "idle")
    /\ UNCHANGED <<created, status, requests, options, tornDown>>

\* the conditions of qemu_host_start; the mutant forgets the step mode
StartAllowedDuringStep == host_is_ready /\ ~(running \/ threadStarted \/ loopExited)
StartAllowed ==
    host_is_ready /\ ~(running \/ threadStarted \/ stepActive \/ loopExited)

\* qemu_host_start: the flags are set before the thread exists.
StartBegin(t) ==
    /\ pc[t] = "idle"
    /\ StartAllowed
    /\ running' = TRUE /\ threadStarted' = TRUE
    /\ Goto(t, "create")
    /\ UNCHANGED <<initializing, initialized, loopExited, joinActive,
                   stepActive, cleaned, exitStatus, created, status, requests,
                   options, machine>>

\* qemu_thread_create
StartCreate(t) ==
    /\ pc[t] = "create" /\ ~Crashed
    /\ created' = TRUE
    /\ pc' = [pc EXCEPT ![t] = "idle", ![LoopThread] = "check1"]
    /\ UNCHANGED <<flags, status, requests, options, machine>>

\* the conditions of qemu_host_main_loop_step
StepAllowed == host_is_ready /\ ~threadStarted /\ ~loopExited /\ ~stepActive

\* qemu_host_main_loop_step, admission of the caller
StepBegin(t) ==
    /\ pc[t] = "idle"
    /\ StepAllowed
    /\ stepActive' = TRUE
    /\ status' = [status EXCEPT ![t] = 0]
    /\ Goto(t, "check1")
    /\ UNCHANGED <<initializing, initialized, running, loopExited,
                   threadStarted, joinActive, cleaned, exitStatus, created,
                   requests, options, machine>>

\* qemu_host_main_loop_step, publication of the outcome
StepFinish(t) ==
    /\ pc[t] \in {"stepped", "exited"}
    /\ stepActive' = FALSE
    /\ IF pc[t] = "exited"
       THEN exitStatus' = status[t] /\ loopExited' = TRUE
       ELSE UNCHANGED <<exitStatus, loopExited>>
    /\ Goto(t, "idle")
    /\ UNCHANGED <<initializing, initialized, running, threadStarted,
                   joinActive, cleaned, created, status, requests, options,
                   machine>>

-----------------------------------------------------------------------------
(* qemu_main_loop_step: two calls of main_loop_should_exit around a wait.   *)

\* vm_stop acts only on a live machine (the run states modelled have one).
VmStop(from, to) == IF from = "running" THEN to ELSE from

\* Where qemu_main_loop_step goes on after a check that does not exit.
AfterCheck(e) ==
    IF pc[e] \in {"check1", "reset1"} THEN "wait"
    ELSE IF e = LoopThread THEN "check1" ELSE "stepped"

\* main_loop_should_exit up to the place where a reset pauses the vCPUs.  Nothing
\* requests a shutdown with an exit code of its own.
MainLoopCheck(e) ==
    /\ pc[e] \in {"check1", "check2"}
    /\ shutdownRequested' = "none"
    /\ IF shutdownRequested # "none" /\ shutdownAction = "poweroff"
       THEN /\ status' = [status EXCEPT ![e] =
                 IF shutdownRequested = "panic" /\ panicAction = "exit-failure"
                 THEN 1 ELSE @]
            /\ Goto(e, "exited")
            /\ UNCHANGED <<resetRequested, powerdownRequested, runState>>
       ELSE /\ runState' = IF shutdownRequested # "none"
                           THEN VmStop(runState, "shutdown") ELSE runState
            /\ resetRequested' = FALSE
            /\ IF resetRequested
               THEN /\ Goto(e, IF pc[e] = "check1" THEN "reset1" ELSE "reset2")
                    /\ UNCHANGED powerdownRequested
               ELSE /\ powerdownRequested' = FALSE
                    /\ Goto(e, AfterCheck(e))
            /\ UNCHANGED status
    /\ UNCHANGED <<flags, created, options, notified, tornDown>>

\* ... and the rest of it, once pause_all_vcpus has the BQL again.
MainLoopReset(e) ==
    /\ pc[e] \in {"reset1", "reset2"}
    /\ runState' = IF runState = "running" THEN runState ELSE "prelaunch"
    /\ powerdownRequested' = FALSE
    /\ Goto(e, AfterCheck(e))
    /\ UNCHANGED <<flags, created, status, shutdownRequested, resetRequested,
                   notified, options, tornDown>>

\* main_loop_wait woken by qemu_notify_event
MainLoopNotified(e) ==
    /\ pc[e] = "wait"
    /\ notified
    /\ notified' = FALSE
    /\ Goto(e, "check2")
    /\ UNCHANGED <<flags, created, status, shutdownRequested, resetRequested,
                   powerdownRequested, options, machine>>

\* main_loop_wait woken by a timer or a descriptor, or not blocking at all
MainLoopTimer(e) ==
    /\ pc[e] = "wait"
    /\ Goto(e, "check2")
    /\ UNCHANGED <<flags, created, status, requests, options, machine>>

\* qemu_host_main_loop_thread stores the status in one critical section ...
LoopStoreStatus ==
    /\ pc[LoopThread] = "exited"
    /\ exitStatus' = status[LoopThread]
    /\ Goto(LoopThread, "stored")
    /\ UNCHANGED <<initializing, initialized, running, loopExited,
                   threadStarted, joinActive, stepActive, cleaned, created,
                   status, requests, options, machine>>

\* ... and clears host_running in the next (host_set_running).
LoopClearRunning ==
    /\ pc[LoopThread] = "stored"
    /\ running' = FALSE /\ loopExited' = TRUE
    /\ Goto(LoopThread, "dead")
    /\ UNCHANGED <<initializing, initialized, threadStarted, joinActive,
                   stepActive, cleaned, exitStatus, created, status, requests,
                   options, machine>>

-----------------------------------------------------------------------------
\* qemu_host_join, admission
JoinBegin(t) ==
    /\ pc[t] = "idle"
    /\ ~joinActive /\ threadStarted
    /\ joinActive' = TRUE
    /\ Goto(t, "join")
    /\ UNCHANGED <<initializing, initialized, running, loopExited,
                   threadStarted, stepActive, cleaned, exitStatus, created,
                   status, requests, options, machine>>

\* qemu_thread_join has returned
JoinFinish(t) ==
    /\ pc[t] = "join"
    /\ created /\ pc[LoopThread] = "dead"
    /\ threadStarted' = FALSE /\ joinActive' = FALSE
    /\ Goto(t, "idle")
    /\ UNCHANGED <<initializing, initialized, running, loopExited, stepActive,
                   cleaned, exitStatus, created, status, requests, options,
                   machine>>

\* qemu_thread_join on a QemuThread that was never created dereferences the
\* zeroed static; the process dies.
JoinUncreated(t) ==
    /\ pc[t] = "join"
    /\ ~created
    /\ Goto(t, "crashed")
    /\ UNCHANGED <<flags, created, status, requests, options, machine>>

\* the conditions of qemu_host_cleanup; the mutant only asks host_running
CleanupAllowedBeforeJoin == host_is_ready /\ ~(running \/ stepActive)
CleanupAllowed ==
    host_is_ready /\ ~(running \/ threadStarted \/ joinActive \/ stepActive)

\* qemu_host_cleanup: admission, qemu_cleanup under the BQL, then the callbacks
CleanupBegin(t) ==
    /\ pc[t] = "idle"
    /\ CleanupAllowed
    /\ cleaned' = TRUE
    /\ Goto(t, "cleanup")
    /\ UNCHANGED <<initializing, initialized, running, loopExited,
                   threadStarted, joinActive, stepActive, exitStatus, created,
                   status, requests, options, machine>>

\* qemu_cleanup: vm_shutdown stops a live machine, then everything goes.
CleanupMachine(t) ==
    /\ pc[t] = "cleanup"
    /\ runState' = VmStop(runState, "shutdown")
    /\ tornDown' = TRUE
    /\ Goto(t, "cleanup2")
    /\ UNCHANGED <<flags, created, status, requests, options>>

CleanupCallbacks(t) ==
    /\ pc[t] = "cleanup2"
    /\ Goto(t, "idle")
    /\ UNCHANGED <<flags, created, status, requests, options, machine>>

-----------------------------------------------------------------------------
(* The commands: each asks host_is_ready under the lock, and acts later.    *)

CommandBegin(t, op) ==
    /\ pc[t] = "idle"
    /\ host_is_ready
    /\ Goto(t, op)
    /\ UNCHANGED <<flags, created, status, requests, options, machine>>

\* qemu_host_pause
Pause(t) ==
    /\ pc[t] = "pause"
    /\ runState' = VmStop(runState, "paused")
    /\ Goto(t, "idle")
    /\ UNCHANGED <<flags, created, status, requests, options, tornDown>>

\* qemu_host_resume
Resume(t) ==
    /\ pc[t] = "resume"
    /\ runState' = IF runState = "paused" THEN "running" ELSE runState
    /\ Goto(t, "idle")
    /\ UNCHANGED <<flags, created, status, requests, options, tornDown>>

\* qemu_host_request_shutdown presses the power button.
RequestShutdown(t) ==
    /\ pc[t] = "powerdown"
    /\ powerdownRequested' = TRUE /\ notified' = TRUE
    /\ Goto(t, "idle")
    /\ UNCHANGED <<flags, created, status, shutdownRequested, resetRequested,
                   options, machine>>

\* mutant: -no-shutdown stays in force
RequestStopNoAction(t) ==
    /\ pc[t] = "stop"
    /\ Goto(t, "stop2")
    /\ UNCHANGED <<flags, created, status, requests, options, machine>>

\* qemu_host_request_stop: first the action, then the request.
RequestStopAction(t) ==
    /\ pc[t] = "stop"
    /\ shutdownAction' = "poweroff"
    /\ Goto(t, "stop2")
    /\ UNCHANGED <<flags, created, status, requests, panicAction, rebootAction,
                   machine>>

RequestStop(t) ==
    /\ pc[t] = "stop2"
    /\ shutdownRequested' = "host" /\ notified' = TRUE
    /\ Goto(t, "idle")
    /\ UNCHANGED <<flags, created, status, resetRequested, powerdownRequested,
                   options, machine>>

\* qemu_host_reset, which -no-reboot makes a request to shut down
RequestReset(t) ==
    /\ pc[t] = "reset"
    /\ IF rebootAction = "shutdown"
       THEN shutdownRequested' = "host" /\ UNCHANGED resetRequested
       ELSE resetRequested' = TRUE /\ UNCHANGED shutdownRequested
    /\ notified' = TRUE
    /\ Goto(t, "idle")
    /\ UNCHANGED <<flags, created, status, powerdownRequested, options, machine>>

\* A vCPU ends the program (exit, fatal fault): qemu_system_shutdown_request.
GuestShutdown(cause) ==
    /\ runState = "running" /\ initialized /\ ~Crashed
    /\ shutdownRequested' = cause /\ notified' = TRUE
    /\ UNCHANGED <<flags, created, pc, status, resetRequested,
                   powerdownRequested, options, machine>>

-----------------------------------------------------------------------------
LoopStep(e) ==
    \/ MainLoopCheck(e) \/ MainLoopReset(e)
    \/ MainLoopNotified(e) \/ MainLoopTimer(e)

LoopThreadStep == LoopStep(LoopThread) \/ LoopStoreStatus \/ LoopClearRunning

Commands == {"pause", "resume", "powerdown", "stop", "reset"}

CommandEnd(t) ==
    \/ Pause(t) \/ Resume(t) \/ RequestShutdown(t)
    \/ RequestStopAction(t) \/ RequestStop(t) \/ RequestReset(t)

ThreadStep(t) ==
    \/ InitBegin(t) \/ InitFinish(t)
    \/ StartBegin(t) \/ StartCreate(t)
    \/ StepBegin(t) \/ LoopStep(t) \/ StepFinish(t)
    \/ JoinBegin(t) \/ JoinFinish(t) \/ JoinUncreated(t)
    \/ CleanupBegin(t) \/ CleanupMachine(t) \/ CleanupCallbacks(t)
    \/ \E op \in Commands : CommandBegin(t, op)
    \/ CommandEnd(t)

Next ==
    \/ LoopThreadStep
    \/ \E t \in Threads : ThreadStep(t)
    \/ \E cause \in {"guest", "panic"} : GuestShutdown(cause)

Spec == Init /\ [][Next]_vars

\* The operating system runs the loop thread and lets a call that is past its
\* admission finish.  Nothing says that an application ever calls again, or
\* that a timer wakes the loop.
Fairness ==
    /\ WF_vars(\/ MainLoopCheck(LoopThread) \/ MainLoopReset(LoopThread)
               \/ MainLoopNotified(LoopThread)
               \/ LoopStoreStatus \/ LoopClearRunning)
    /\ \A t \in Threads : WF_vars(CommandEnd(t) \/ StartCreate(t))

FairSpec == Spec /\ Fairness

-----------------------------------------------------------------------------
FlagTypes ==
    /\ initializing \in BOOLEAN /\ initialized \in BOOLEAN
    /\ running \in BOOLEAN /\ loopExited \in BOOLEAN
    /\ threadStarted \in BOOLEAN /\ joinActive \in BOOLEAN
    /\ stepActive \in BOOLEAN /\ cleaned \in BOOLEAN
    /\ created \in BOOLEAN
PointTypes ==
    /\ pc \in [Executors -> ThreadPoints \cup LoopThreadPoints]
    /\ pc[LoopThread] \in LoopThreadPoints
    /\ \A t \in Threads : pc[t] \in ThreadPoints
MachineTypes ==
    /\ exitStatus \in Statuses
    /\ status \in [Executors -> Statuses]
    /\ shutdownRequested \in Causes
    /\ shutdownAction \in {"poweroff", "pause"}
    /\ panicAction \in {"shutdown", "exit-failure"}
    /\ rebootAction \in {"reset", "shutdown"}
    /\ resetRequested \in BOOLEAN /\ powerdownRequested \in BOOLEAN
    /\ notified \in BOOLEAN
    /\ runState \in RunStates /\ tornDown \in BOOLEAN
\* The types, by group; every thread is at a program point of its own kind.
TypeOK == FlagTypes /\ PointTypes /\ MachineTypes

\* Threads inside qemu_main_loop or qemu_main_loop_step, or still to publish
\* its outcome.
InLoop == {e \in Executors : pc[e] \in LoopPoints \cup {"stepped", "exited", "stored"}}

\* The flags of host.c describe where the threads are; the guards of start,
\* step, join and cleanup rely on it.  Each flag that is clear rules out the
\* program points it protects, and at most one thread is at each of them.
StepPoints == LoopPoints \cup {"stepped", "exited"}
LoopAlive == pc[LoopThread] \in LoopPoints \cup {"exited", "stored"}
Alone(P) == \A t, u \in Threads : pc[t] \in P /\ pc[u] \in P => t = u

InitFlags ==
    /\ \A t \in Threads : pc[t] = "init" => initializing
    /\ Alone({"init"})
    /\ initializing => ~initialized
    /\ ~initialized =>
         /\ ~(running \/ threadStarted \/ joinActive \/ stepActive
              \/ cleaned \/ loopExited \/ tornDown)
         /\ pc[LoopThread] = "none"
         /\ \A t \in Threads : pc[t] \in {"idle", "init"}
StepFlags ==
    /\ \A t \in Threads : pc[t] \in StepPoints => stepActive
    /\ Alone(StepPoints)
    /\ stepActive => ~threadStarted
StartFlags ==
    /\ \A t \in Threads : pc[t] = "create" =>
         running /\ ~created /\ pc[LoopThread] = "none"
    /\ Alone({"create"})
    /\ LoopAlive => running /\ created
    /\ pc[LoopThread] = "dead" => loopExited /\ created /\ exitStatus = status[LoopThread]
    /\ pc[LoopThread] = "stored" => exitStatus = status[LoopThread]
    /\ pc[LoopThread] = "none" => ~created
    /\ running => threadStarted
JoinFlags ==
    /\ \A t \in Threads : pc[t] \in {"join", "crashed"} => joinActive
    /\ Alone({"join"})
    /\ joinActive => threadStarted
ExitFlags ==
    /\ loopExited => ~running /\ ~stepActive
    /\ cleaned => ~(running \/ threadStarted \/ joinActive \/ stepActive)
FlagsTrackThreads ==
    InitFlags /\ StepFlags /\ StartFlags /\ JoinFlags /\ ExitFlags

\* The two loop modes exclude each other and themselves: whatever threads call
\* qemu_host_start and qemu_host_main_loop_step, one thread at most is inside
\* the main loop.
OneLoopExecutor == \A e, f \in InLoop : e = f

\* qemu_host_cleanup tears the machine down only when no thread is in the main
\* loop, is about to create the loop thread, or still waits to join it.
CleanupAlone ==
    cleaned => /\ InLoop = {}
               /\ \A t \in Threads : pc[t] \notin {"create", "join"}

\* What qemu_host_join hands out is the status the loop thread returned, and
\* it is already there whenever qemu_host_is_running says the loop is over.
JoinedStatus ==
    pc[LoopThread] = "dead" => /\ exitStatus = status[LoopThread]
                               /\ ~running /\ loopExited

\* Once the loop has exited, its status is never overwritten and no call makes
\* it run again.
ExitIsFinal ==
    [][loopExited => loopExited' /\ exitStatus' = exitStatus
                     /\ InLoop' \subseteq InLoop]_vars

\* qemu_host_request_stop ends a started loop even with -no-shutdown: the
\* action is set before the request that the loop consumes.
StopEndsLoop ==
    \A t \in Threads : (pc[t] = "stop" /\ running) ~> (loopExited \/ Crashed)

\* qemu_host_request_shutdown ends a started loop, as the usage guide's
\* sequence request_shutdown, join, cleanup takes for granted.  It does not:
\* the power button has no handler on this machine.
ShutdownRequestEndsLoop ==
    \A t \in Threads :
        (pc[t] = "powerdown" /\ running) ~> (loopExited \/ Crashed)

=============================================================================

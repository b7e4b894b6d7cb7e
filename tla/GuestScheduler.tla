---------------------------- MODULE GuestScheduler ----------------------------
(***************************************************************************)
(* The scheduler of guest threads, hw/i386/shadps4.c: which thread each     *)
(* vCPU runs, when a call of the guest or the 2 ms tick replaces it, where  *)
(* a thread that waits is parked, and how it comes back.                    *)
(*                                                                          *)
(* Every transition runs under the BQL (a gateway access, a timer, a work   *)
(* item of a vCPU), so each is one action.  vCPU 0 runs the main thread     *)
(* only and is never switched: what it does reaches this module as the      *)
(* threads it starts, wakes and kills.  A worker that does one of these     *)
(* takes that action and then its own PlainCall.                            *)
(***************************************************************************)
EXTENDS Naturals, FiniteSets, SequencesExt

CONSTANTS
    Threads,      \* the slots of thread handles
    Workers,      \* the vCPUs above 0
    Priorities,   \* what guests set; a smaller number runs first
    Affinities,   \* the vCPU masks guests set
    None,         \* the thread handle 0
    Permitted     \* what may happen in a run, of Hazards

Hazards == {"kill",        \* sceKernel PS2 process kill
            "signal",      \* exceptions handed to a guest handler
            "attributes",  \* setting priority or affinity of a thread
            "reset"}       \* qemu_host_reset

\* the guest code a vCPU is left with when the thread it ran is killed
Zombie == <<None>>

ASSUME WorkersAssumption   == Workers \subseteq Nat \ {0} /\ Workers # {}
ASSUME AttributeAssumption == /\ Priorities \subseteq Nat /\ Priorities # {}
                              /\ Affinities \subseteq SUBSET (Workers \cup {0})
                              /\ Affinities # {}
ASSUME NoneAssumption      == None \notin Threads /\ Zombie \notin Threads
ASSUME PermittedAssumption == Permitted \subseteq Hazards

VARIABLES
    \* by vCPU
    handle,    \* cpu_thread_handles
    pending,   \* pending_thread_switch
    gateway,   \* hle_gateway_active
    halted,    \* CPUState.halted
    code,      \* whose registers the vCPU holds
    inStub,    \* it is between the two gateway accesses of a call, at CPL 0
    \* by thread
    valid,     \* the threads whose saved context is valid
    runnable,  \* those marked runnable
    order,     \* the runnable ones by schedule_order, the oldest first
    saved,     \* those whose saved context is where they stopped
    waiting,   \* those whose wait slot is in use (wait_kind)
    waitCpu,   \* wait_cpu
    signal,    \* those with a signal context: in an exception handler
    priority, affinity,  \* pthread_attrs
    ps2        \* ps2_process_thread, of the process that can be killed

cpus    == <<handle, pending, gateway, halted, code, inStub>>
waits   == <<waiting, waitCpu>>
attrs   == <<priority, affinity>>
vars    == <<handle, pending, gateway, halted, code, inStub, valid, runnable,
             order, saved, waiting, waitCpu, signal, priority, affinity, ps2>>

----------------------------------------------------------------------------
\* Choosing a thread

Current(c) == {handle[c]} \cap Threads

\* the threads some worker runs or is about to run
Placed == {handle[c] : c \in Workers} \cup {pending[c] : c \in Workers}

\* the youngest first
BeforeYoungest(t, u) ==
    \/ priority[t] < priority[u]
    \/ /\ priority[t] = priority[u]
       /\ \A i, j \in DOMAIN order : order[i] = t /\ order[j] = u => i > j

Before(t, u) ==
    \/ priority[t] < priority[u]
    \/ /\ priority[t] = priority[u]
       /\ \A i, j \in DOMAIN order : order[i] = t /\ order[j] = u => i < j

CandidatesPlacedToo(c) == {t \in (valid \cap runnable) \ Current(c) :
                                c \in affinity[t]}

Candidates(c) ==
    {t \in (valid \cap runnable) \ Placed : c \in affinity[t]}

\* shadps4_pick_guest_thread; the current thread, placed, is never among them
Picks(c) == {t \in Candidates(c) : \A u \in Candidates(c) \ {t} : Before(t, u)}

\* what the vCPU is left to switch to: the pick, or an older decision
NextFor(c) == IF Candidates(c) = {} THEN {pending[c]} ELSE Picks(c)

\* scheduler_order moves a thread behind all others
Dropped(T) == SelectSeq(order, LAMBDA t : t \notin T)
Requeued(T, dropped) ==
    SelectSeq(order, LAMBDA t : t \notin T \cup dropped)
        \o SetToSeq(T \ dropped)

----------------------------------------------------------------------------
\* How a gateway access leaves the vCPU

\* shadps4_apply_guest_thread_switch found a valid context
SwitchTo(c, t) ==
    /\ handle'  = [handle EXCEPT ![c] = t]
    /\ code'    = [code EXCEPT ![c] = t]
    /\ pending' = [pending EXCEPT ![c] = None]
    /\ halted'  = [halted EXCEPT ![c] = FALSE]
    /\ gateway' = [gateway EXCEPT ![c] = FALSE]
    /\ inStub'  = [inStub EXCEPT ![c] = FALSE]

\* the write returns into the stub, which will read the result
ReturnToStub(c) ==
    /\ pending' = [pending EXCEPT ![c] = None]
    /\ gateway' = [gateway EXCEPT ![c] = TRUE]
    /\ inStub'  = [inStub EXCEPT ![c] = TRUE]
    /\ UNCHANGED <<handle, code, halted>>

\* The vCPU executes guest code at CPL 3 and may enter the gateway.
InGuest(c) == code[c] # None /\ ~halted[c] /\ ~inStub[c]

----------------------------------------------------------------------------
\* The guest's calls

\* any call that neither blocks nor switches by itself
PlainCall(c) ==
    /\ InGuest(c)
    /\ runnable' = runnable \ {pending[c]}
    /\ order' = Dropped({pending[c]})
    /\ saved' = saved \ {pending[c]}
    /\ IF pending[c] \in valid THEN SwitchTo(c, pending[c]) ELSE ReturnToStub(c)
    /\ UNCHANGED <<valid, waits, signal, attrs, ps2>>

\* the read that ends a call
GatewayRead(c) ==
    /\ inStub[c] /\ ~halted[c]
    /\ gateway' = [gateway EXCEPT ![c] = FALSE]
    /\ inStub'  = [inStub EXCEPT ![c] = FALSE]
    /\ UNCHANGED <<handle, pending, halted, code, valid, runnable, order,
                   saved, waits, signal, attrs, ps2>>

\* pthread_yield: the context is saved before another thread is looked for,
\* and stays marked runnable when there is none.
YieldWith(c, Saved) ==
    /\ InGuest(c)
    /\ \E t \in NextFor(c) :
          /\ valid' = valid \cup Current(c)
          /\ runnable' = (runnable \cup Current(c)) \ {t}
          /\ order' = Requeued(Current(c), {t})
          /\ IF t \in valid \cup Current(c)
             THEN /\ SwitchTo(c, t)
                  /\ saved' = (saved \cup Saved) \ {t}
             ELSE /\ ReturnToStub(c)
                  /\ saved' = saved \ Current(c)
    /\ UNCHANGED <<waits, signal, attrs, ps2>>

\* shadps4_schedule_guest_thread of a call that leaves its thread runnable
Yield(c) == YieldWith(c, {code[c]} \cap Current(c))

\* A call that waits (shadps4_hle_wait_begin, then shadps4_block_guest_thread):
\* with no thread to run instead, the waiting one keeps the vCPU, halted.
WaitParking(c, Halts) ==
    /\ InGuest(c) /\ Current(c) # {} /\ handle[c] \notin waiting
    /\ waiting' = waiting \cup {handle[c]}
    /\ waitCpu' = [waitCpu EXCEPT ![handle[c]] = c]
    /\ valid' = valid \cup {handle[c]}
    /\ IF Candidates(c) = {}
       THEN /\ pending' = [pending EXCEPT ![c] = None]
            /\ code'    = [code EXCEPT ![c] = handle[c]]
            /\ halted'  = [halted EXCEPT ![c] = Halts]
            /\ gateway' = [gateway EXCEPT ![c] = FALSE]
            /\ inStub'  = [inStub EXCEPT ![c] = FALSE]
            /\ runnable' = runnable \ {handle[c]}
            /\ order' = Dropped({handle[c]})
            /\ saved' = saved \ {handle[c]}
            /\ UNCHANGED handle
       ELSE \E t \in Picks(c) :
            /\ SwitchTo(c, t)
            /\ runnable' = runnable \ {handle[c], t}
            /\ order' = Dropped({handle[c], t})
            /\ saved' = (saved \cup ({code[c]} \cap {handle[c]})) \ {t}
    /\ UNCHANGED <<signal, attrs, ps2>>

Wait(c) == WaitParking(c, TRUE)
\* pthread_exit, also of a thread that returns through an empty stack; the
\* slot's signal context is not cleared.
ExitWith(c, Idles) ==
    /\ InGuest(c)
    /\ \E t \in NextFor(c) :
          /\ valid' = valid \ Current(c)
          /\ runnable' = runnable \ (Current(c) \cup {t})
          /\ order' = Dropped(Current(c) \cup {t})
          /\ saved' = saved \ (Current(c) \cup {t})
          /\ IF t \in valid \ Current(c) /\ ~Idles
             THEN SwitchTo(c, t)
             ELSE /\ handle'  = [handle EXCEPT ![c] = None]
                  /\ code'    = [code EXCEPT ![c] = None]
                  /\ pending' = [pending EXCEPT ![c] = None]
                  /\ halted'  = [halted EXCEPT ![c] = TRUE]
                  /\ gateway' = [gateway EXCEPT ![c] = FALSE]
                  /\ inStub'  = [inStub EXCEPT ![c] = FALSE]
    /\ UNCHANGED <<waits, signal, attrs, ps2>>

\* halts the vCPU without looking for another thread
ExitHalts(c) == ExitWith(c, TRUE)
Exit(c) == ExitWith(c, FALSE)
----------------------------------------------------------------------------
\* Exceptions handed to a guest handler (vector 0x44)

\* shadps4_hle_deliver_exception_signal; the exception stub does not read the
\* gateway afterwards, so gateway stays set until the handler's next call.
SignalDeliver(c) ==
    /\ "signal" \in Permitted
    /\ InGuest(c) /\ Current(c) # {} /\ handle[c] \notin signal
    /\ signal'   = signal \cup {handle[c]}
    /\ pending'  = [pending EXCEPT ![c] = None]
    /\ runnable' = runnable \cup ({pending[c]} \cap valid)
    /\ order'    = Requeued({pending[c]} \cap valid, {})
    /\ gateway'  = [gateway EXCEPT ![c] = TRUE]
    /\ UNCHANGED <<handle, halted, code, inStub, valid, saved, waits, attrs, ps2>>

\* shadps4_hle_restore_signal_context
SignalReturn(c) ==
    /\ InGuest(c) /\ handle[c] \in signal
    /\ signal'   = signal \ {handle[c]}
    /\ runnable' = runnable \ {pending[c]}
    /\ order'    = Dropped({pending[c]})
    /\ saved'    = saved \ {pending[c]}
    /\ IF pending[c] \in valid
       THEN SwitchTo(c, pending[c])
       ELSE /\ pending' = [pending EXCEPT ![c] = None]
            /\ gateway' = [gateway EXCEPT ![c] = FALSE]
            /\ UNCHANGED <<handle, code, halted, inStub>>
    /\ UNCHANGED <<valid, waits, attrs, ps2>>

----------------------------------------------------------------------------
\* The tick

Preemptible(c) ==
    /\ pending[c] = None /\ ~gateway[c]
    /\ handle[c] \in Threads \ (signal \cup waiting)
    /\ ~inStub[c]

\* leaves out the checks of the gateway and of the privilege level
PreemptibleInCall(c) ==
    /\ pending[c] = None
    /\ handle[c] \in Threads \ (signal \cup waiting)

PreemptWhen(c, Allowed) ==
    /\ Allowed
    /\ valid' = valid \cup {handle[c]}
    /\ IF Candidates(c) = {}
       THEN /\ runnable' = runnable \ {handle[c]}
            /\ order' = Dropped({handle[c]})
            /\ saved' = saved \ {handle[c]}
            /\ UNCHANGED cpus
       ELSE \E t \in Picks(c) :
            /\ handle' = [handle EXCEPT ![c] = t]
            /\ code'   = [code EXCEPT ![c] = t]
            /\ halted' = [halted EXCEPT ![c] = FALSE]
            /\ runnable' = (runnable \cup {handle[c]}) \ {t}
            /\ order' = Requeued({handle[c]}, {t})
            /\ saved' = (IF ~inStub[c] /\ code[c] = handle[c]
                         THEN saved \cup {handle[c]} ELSE saved) \ {t}
            /\ UNCHANGED <<pending, gateway, inStub>>
    /\ UNCHANGED <<waits, signal, attrs, ps2>>

PreemptAnytime(c) == PreemptWhen(c, PreemptibleInCall(c))
\* shadps4_preempt_guest_thread
Preempt(c) == PreemptWhen(c, Preemptible(c))

----------------------------------------------------------------------------
\* What the rest of the machine does to threads

Idle == {c \in Workers : handle[c] = None}
FirstIdle(c) == c \in Idle /\ \A d \in Idle : c <= d

\* A thread slot service_alloc may hand out: no thread lives in it.
Startable(t) == t \notin valid /\ \A c \in Workers : handle[c] # t

\* shadps4_start_guest_thread: the first vCPU without a thread, whatever the
\* affinity and whatever switch is pending there; gateway is left as it is.
StartOnCpu(t, c) ==
    /\ Startable(t) /\ FirstIdle(c)
    /\ handle'   = [handle EXCEPT ![c] = t]
    /\ code'     = [code EXCEPT ![c] = t]
    /\ halted'   = [halted EXCEPT ![c] = FALSE]
    /\ inStub'   = [inStub EXCEPT ![c] = FALSE]
    /\ valid'    = valid \cup {t}
    /\ runnable' = runnable \ {t}
    /\ order'    = Dropped({t})
    /\ saved'    = saved \ {t}
    /\ UNCHANGED <<pending, gateway>>

StartQueued(t) ==
    /\ Startable(t) /\ Idle = {}
    /\ valid'    = valid \cup {t}
    /\ runnable' = runnable \cup {t}
    /\ order'    = Requeued({t}, {})
    /\ saved'    = saved \cup {t}
    /\ UNCHANGED cpus

\* pthread_create, or ps2_process_add for the one process that can be killed
Create(t) ==
    /\ StartQueued(t) \/ \E c \in Workers : StartOnCpu(t, c)
    /\ \E p \in Priorities, a \in Affinities :
          /\ priority' = [priority EXCEPT ![t] = p]
          /\ affinity' = [affinity EXCEPT ![t] = a]
    /\ \/ UNCHANGED ps2
       \/ "kill" \in Permitted /\ ps2 = None /\ ps2' = t
    /\ UNCHANGED <<waits, signal>>

\* pthread_setprio, pthread_setaffinity: no thread moves by this
SetAttributes(t) ==
    /\ "attributes" \in Permitted /\ t \in valid
    /\ \E p \in Priorities, a \in Affinities :
          /\ priority' = [priority EXCEPT ![t] = p]
          /\ affinity' = [affinity EXCEPT ![t] = a]
    /\ UNCHANGED <<cpus, valid, runnable, order, saved, waits, signal, ps2>>

\* shadps4_hle_wait_finish: by a post, an unlock, a timer...  A thread parked
\* on its vCPU resumes there; another only becomes runnable.
WakeMarking(t, Marked) ==
    /\ t \in waiting
    /\ waiting' = waiting \ {t}
    /\ IF t \in Placed
       THEN /\ halted' = IF handle[waitCpu[t]] = t
                         THEN [halted EXCEPT ![waitCpu[t]] = FALSE] ELSE halted
            /\ UNCHANGED <<runnable, order>>
       ELSE /\ runnable' = runnable \cup (Marked \cap valid)
            /\ order' = Requeued(Marked \cap valid, {})
            /\ UNCHANGED halted
    /\ UNCHANGED <<handle, pending, gateway, code, inStub, valid, saved, waitCpu,
                   signal, attrs, ps2>>

WakeForgets(t) == WakeMarking(t, {})
Wake(t) == WakeMarking(t, {t})
\* PS2 process kill, shadps4_kill_guest_thread: a vCPU that ran the thread
\* goes on with its registers when a switch was found, halts otherwise.
Kill(t) ==
    /\ "kill" \in Permitted /\ ps2 = t /\ t \in valid
    /\ ps2' = None
    /\ valid' = valid \ {t}
    /\ IF \A c \in Workers : handle[c] # t
       THEN /\ runnable' = runnable \ {t}
            /\ order' = Dropped({t})
            /\ UNCHANGED cpus
       ELSE \E c \in Workers :
            /\ handle[c] = t
            /\ handle' = [handle EXCEPT ![c] = None]
            /\ code'   = [code EXCEPT ![c] = Zombie]
            /\ IF Candidates(c) = {}
               THEN /\ halted' = [halted EXCEPT ![c] = TRUE]
                    /\ runnable' = runnable \ {t}
                    /\ order' = Dropped({t})
                    /\ UNCHANGED pending
               ELSE \E u \in Picks(c) :
                    /\ pending' = [pending EXCEPT ![c] = u]
                    /\ runnable' = runnable \ {t, u}
                    /\ order' = Dropped({t, u})
                    /\ UNCHANGED halted
            /\ UNCHANGED <<gateway, inStub>>
    /\ saved' = saved \ {t}
    /\ UNCHANGED <<waits, signal, attrs>>

Init ==
    /\ handle   = [c \in Workers |-> None]
    /\ pending  = [c \in Workers |-> None]
    /\ gateway  = [c \in Workers |-> FALSE]
    /\ halted   = [c \in Workers |-> TRUE]
    /\ code     = [c \in Workers |-> None]
    /\ inStub   = [c \in Workers |-> FALSE]
    /\ valid    = {} /\ runnable = {} /\ order = <<>> /\ saved = {}
    /\ waiting  = {} /\ waitCpu = [t \in Threads |-> 0]
    /\ signal   = {}
    /\ priority \in {[t \in Threads |-> p] : p \in Priorities}
    /\ affinity \in {[t \in Threads |-> a] : a \in Affinities}
    /\ ps2 = None

\* shadps4_machine_reset and shadps4_hle_reset
Reset ==
    /\ "reset" \in Permitted
    /\ handle'  = [c \in Workers |-> None]
    /\ pending' = [c \in Workers |-> None]
    /\ gateway' = [c \in Workers |-> FALSE]
    /\ halted'  = [c \in Workers |-> TRUE]
    /\ code'    = [c \in Workers |-> None]
    /\ inStub'  = [c \in Workers |-> FALSE]
    /\ valid' = {} /\ runnable' = {} /\ order' = <<>> /\ saved' = {}
    /\ waiting' = {} /\ signal' = {} /\ ps2' = None
    /\ waitCpu' = [t \in Threads |-> 0]
    /\ UNCHANGED attrs

CpuStep(c) ==
    \/ PlainCall(c) \/ GatewayRead(c) \/ Yield(c) \/ Wait(c) \/ Exit(c)
    \/ SignalDeliver(c) \/ SignalReturn(c) \/ Preempt(c)

ThreadStep(t) == Create(t) \/ SetAttributes(t) \/ Wake(t) \/ Kill(t)

Next == \/ \E c \in Workers : CpuStep(c)
        \/ \E t \in Threads : ThreadStep(t)
        \/ Reset

Spec == Init /\ [][Next]_vars

\* The vCPUs go on executing, and the tick reaches a worker that is in guest
\* code often enough: it fires every 2 ms, whatever the guest does.
FairSpec == /\ Spec
            /\ \A c \in Workers : WF_vars(GatewayRead(c)) /\ SF_vars(Preempt(c))

----------------------------------------------------------------------------
\* Properties

\* The types of the scheduler's state.
TypeOK ==
    /\ handle  \in [Workers -> Threads \cup {None}]
    /\ pending \in [Workers -> Threads \cup {None}]
    /\ gateway \in [Workers -> BOOLEAN]
    /\ halted  \in [Workers -> BOOLEAN]
    /\ code    \in [Workers -> Threads \cup {None, Zombie}]
    /\ inStub  \in [Workers -> BOOLEAN]
    /\ valid \subseteq Threads /\ runnable \subseteq Threads
    /\ saved \subseteq Threads /\ waiting \subseteq Threads
    /\ signal \subseteq Threads
    /\ order \in Seq(Threads) /\ ToSet(order) = runnable
    /\ IsInjective(order)
    /\ waitCpu  \in [Threads -> Workers \cup {0}]
    /\ priority \in [Threads -> Priorities]
    /\ affinity \in [Threads -> Affinities]
    /\ ps2 \in Threads \cup {None}

\* A thread runs on one vCPU at a time and is about to run on no other, and
\* each vCPU executes the thread the gateway attributes its calls to: results,
\* waits and mutex ownership are looked up by cpu_thread_handles.
OneCpu ==
    \A c \in Workers :
       /\ code[c] = handle[c] \/ code[c] = Zombie
       /\ handle[c] # None => \A d \in Workers \ {c} : handle[d] # handle[c]
       /\ pending[c] # None => \A d \in Workers \ {c} :
                                  pending[c] \notin {handle[d], pending[d]}

\* A thread does not execute while its wait slot is in use, and a vCPU that
\* has a thread is halted only while that thread waits.  "Restore this saved
\* user context, but keep it parked until wake." (shadps4.c:1335)
ParkedWaits ==
    \A c \in Workers :
       handle[c] # None => (halted[c] <=> handle[c] \in waiting)

\* A live thread that no longer waits is on a vCPU or marked runnable, so that a
\* vCPU which switches and may use it can pick it: no order of switches, waits
\* and wake-ups leaves one that no vCPU could pick any more.  That one does pick
\* it is not said here: a wake-up kicks no vCPU, and if all that the thread may
\* use have halted, it stays runnable and never runs (RunnableRuns excuses that).
NotLost ==
    \A t \in valid \ waiting : t \in Placed \cup runnable

\* A thread resumes from where it stopped: whatever pick may choose has a
\* context saved at its last instruction.
ResumePoint == \A c \in Workers : Candidates(c) \subseteq saved

\* A vCPU stops executing only when no thread that may run on it is left.
WorkConserving ==
    [][\A c \in Workers :
          ~halted[c] /\ halted'[c] => Candidates(c) = {}]_vars

\* A runnable thread gets a vCPU, unless all those it may run on stop: the
\* round of schedule_order passes no thread over among equals.
RunnableRuns ==
    \A t \in Threads :
       (t \in runnable /\ t \notin Placed)
          ~> (t \in Placed \/ t \notin runnable
              \/ \A c \in affinity[t] \cap Workers : halted[c])
=============================================================================

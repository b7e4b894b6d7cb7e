------------------------------ MODULE GuestEvents ------------------------------
(***************************************************************************)
(* Event queues of hw/i386/shadps4-hle.c, and VideoOut, whose flips and       *)
(* vertical blanks they report.  A queue has slots for events; a wait never   *)
(* sleeps, it reports what has happened (the stub of the guest repeats it).   *)
(*                                                                          *)
(* Every call runs under the BQL and is one step.  A deadline is how far off  *)
(* it is.  What an event's data says and its user data are left out.         *)
(***************************************************************************)
EXTENDS Integers, FiniteSets

CONSTANTS
    EventQueues,      \* SHADPS4_HLE_MAX_EQUEUES
    SlotCount,        \* SHADPS4_HLE_MAX_EQUEUE_EVENTS
    Intervals,        \* the intervals of timers
    VideoBuffers,     \* SHADPS4_HLE_MAX_VIDEO_BUFFERS
    EventPermitted    \* what may happen, of EventHazards

EventHazards == {"bad_address",  \* a wait has an address that cannot be written
                 "add_again",    \* an event that has happened is added again
                 "close"}        \* close() of an event queue

ASSUME EventAssumption ==
    /\ SlotCount \in Nat \ {0} /\ Intervals \subseteq Nat \ {0}
    /\ EventPermitted \subseteq EventHazards

\* Filters: -11 user, -13 flip and vertical blank, -7 timer, -15 one-shot timer.
\* Those of the GPU, -14, are added and nothing triggers them.
EventKinds == {"user", "flip", "vblank", "timer", "hrtimer"}
Timed      == {"vblank", "timer", "hrtimer"}
EventSlots == 1 .. SlotCount
NoEvent    == [kind |-> "none"]
Never      == -1  \* the deadline of an event that has none

VARIABLES
    equeues,        \* the open queues
    equeueEvents,   \* equeue_events
    opening,        \* by queue, how often it was created or deleted, modulo 2
    videoOpen,      \* video_open
    videoBuffers,   \* the registered buffers
    owed            \* what happened and no wait has reported, by queue and kind

eventVars == <<equeues, equeueEvents, opening, videoOpen, videoBuffers, owed>>

EventInit ==
    /\ equeues = {} /\ opening = [q \in EventQueues |-> 0]
    /\ equeueEvents = [q \in EventQueues |-> [s \in EventSlots |-> NoEvent]]
    /\ videoOpen = FALSE /\ videoBuffers = {} /\ owed = {}

At(q, s)   == equeueEvents[q][s]
Used(q)    == {s \in EventSlots : At(q, s) # NoEvent}
Of(q, kind) == {s \in Used(q) : At(q, s).kind = kind}
\* The slots a wait would report.
Happened(q) == {s \in Used(q) : At(q, s).triggered \/ At(q, s).due = 0}

-----------------------------------------------------------------------------
\* shadps4_hle_kqueue: the first free number.
CreateQueue ==
    \E q \in EventQueues \ equeues :
      /\ \A other \in EventQueues \ equeues : q <= other
      /\ equeues' = equeues \union {q}
      /\ opening' = [opening EXCEPT ![q] = 1 - @]
      /\ UNCHANGED <<equeueEvents, videoOpen, videoBuffers, owed>>

\* SHADPS4_HLE_KERNEL_EQUEUE_DELETE
DeleteQueue(q) ==
    /\ q \in equeues /\ equeues' = equeues \ {q}
    /\ equeueEvents' = [equeueEvents EXCEPT ![q] = [s \in EventSlots |-> NoEvent]]
    /\ owed' = {o \in owed : o[1] # q}
    /\ UNCHANGED <<opening, videoOpen, videoBuffers>>

\* shadps4_hle_close of a queue's number: its events stay.
CloseQueue(q) ==
    /\ "close" \in EventPermitted
    /\ q \in equeues /\ equeues' = equeues \ {q}
    /\ owed' = {o \in owed : o[1] # q}
    /\ UNCHANGED <<equeueEvents, opening, videoOpen, videoBuffers>>

\* shadps4_hle_equeue_add: in the event's own slot or the first that is free.
NewEvent(q, kind, interval) ==
    [kind |-> kind, triggered |-> FALSE, interval |-> interval, opening |-> opening[q],
     due |-> IF kind \in Timed THEN interval ELSE Never]
AddEvent(q, kind, interval) ==
    /\ q \in equeues
    /\ interval = 0 <=> kind \notin Timed
    /\ kind \in {"flip", "vblank"} => videoOpen
    /\ Of(q, kind) \intersect Happened(q) # {} => "add_again" \in EventPermitted
    /\ LET free  == EventSlots \ Used(q)
           place == IF Of(q, kind) # {} THEN Of(q, kind)
                    ELSE {s \in free : \A other \in free : s <= other}
       IN  \E s \in place :
             equeueEvents' = [equeueEvents EXCEPT ![q][s] = NewEvent(q, kind, interval)]
    /\ UNCHANGED <<equeues, opening, videoOpen, videoBuffers, owed>>

\* shadps4_hle_equeue_delete_event
DeleteEvent(q, kind) ==
    /\ q \in equeues
    /\ kind \in {"flip", "vblank"} => videoOpen
    /\ \E s \in Of(q, kind) : equeueEvents' = [equeueEvents EXCEPT ![q][s] = NoEvent]
    /\ owed' = owed \ {<<q, kind>>}
    /\ UNCHANGED <<equeues, opening, videoOpen, videoBuffers>>

\* The events of a kind in some queues have happened.
Triggered(queues, kind) ==
    /\ equeueEvents' =
         [q \in EventQueues |->
            [s \in EventSlots |->
               IF q \in queues /\ s \in Of(q, kind)
               THEN [At(q, s) EXCEPT !.triggered = TRUE] ELSE At(q, s)]]
    /\ owed' = owed \union {<<q, kind>> : q \in {p \in queues : Of(p, kind) # {}}}

\* SHADPS4_HLE_KERNEL_EQUEUE_TRIGGER_USER
TriggerUser(q) ==
    /\ q \in equeues /\ Of(q, "user") # {}
    /\ Triggered({q}, "user")
    /\ UNCHANGED <<equeues, opening, videoOpen, videoBuffers>>

\* shadps4_hle_equeue_wait.  An address that cannot be written stops it after some
\* reports have been taken, and the guest learns of none.
Take(event) ==
    IF event.kind = "hrtimer" THEN NoEvent
    ELSE [event EXCEPT !.triggered = FALSE,
                       !.due = IF event.kind \in Timed THEN event.interval ELSE Never]
Reports(q, count) ==
    {s \in Happened(q) : Cardinality({x \in Happened(q) : x < s}) < count}
TakeReportsAll(q, taken) ==
    equeueEvents' =
      [equeueEvents EXCEPT ![q] =
         [s \in EventSlots |-> IF s \in Happened(q) THEN Take(At(q, s)) ELSE At(q, s)]]
TakeReports(q, taken) ==
    equeueEvents' =
      [equeueEvents EXCEPT ![q] =
         [s \in EventSlots |-> IF s \in taken THEN Take(At(q, s)) ELSE At(q, s)]]
WaitEvents(q, count) ==
    /\ q \in equeues /\ Reports(q, count) # {}
    /\ TakeReports(q, Reports(q, count))
    /\ owed' = owed \ {<<q, At(q, s).kind>> : s \in Reports(q, count)}
    /\ UNCHANGED <<equeues, opening, videoOpen, videoBuffers>>
WaitFails(q, count) ==
    /\ "bad_address" \in EventPermitted /\ q \in equeues
    /\ TakeReports(q, Reports(q, count))
    /\ UNCHANGED <<equeues, opening, videoOpen, videoBuffers, owed>>

\* Time passes; what is due then has happened.
Tick ==
    /\ equeueEvents' =
         [q \in EventQueues |->
            [s \in EventSlots |->
               IF s \in Used(q) /\ At(q, s).due > 0
               THEN [At(q, s) EXCEPT !.due = @ - 1] ELSE At(q, s)]]
    /\ owed' = owed \union {o \in equeues \X Timed :
                             \E s \in Of(o[1], o[2]) : At(o[1], s).due = 1}
    /\ UNCHANGED <<equeues, opening, videoOpen, videoBuffers>>

-----------------------------------------------------------------------------
(* VideoOut *)

OpenVideo ==
    /\ ~videoOpen /\ videoOpen' = TRUE
    /\ UNCHANGED <<equeues, equeueEvents, opening, videoBuffers, owed>>

\* SHADPS4_HLE_VIDEO_CLOSE: the events of flips stay.
CloseVideo ==
    /\ videoOpen /\ videoOpen' = FALSE /\ videoBuffers' = {}
    /\ UNCHANGED <<equeues, equeueEvents, opening, owed>>

\* shadps4_hle_video_register_buffers: up to the first address that is bad.
RegisterBuffers(buffers) ==
    /\ videoOpen /\ videoBuffers' = videoBuffers \union buffers
    /\ UNCHANGED <<equeues, equeueEvents, opening, videoOpen, owed>>

\* shadps4_hle_video_flip tells every queue; a frame the GPU refuses, none.
Flip(buffer) ==
    /\ videoOpen /\ buffer \in videoBuffers
    /\ Triggered(equeues, "flip")
    /\ UNCHANGED <<equeues, opening, videoOpen, videoBuffers>>

\* shadps4_hle_reset
EventReset ==
    /\ equeues' = {} /\ videoOpen' = FALSE /\ videoBuffers' = {} /\ owed' = {}
    /\ equeueEvents' = [q \in EventQueues |-> [s \in EventSlots |-> NoEvent]]
    /\ UNCHANGED opening

EventNext ==
    \/ CreateQueue
    \/ \E q \in EventQueues : DeleteQueue(q) \/ CloseQueue(q) \/ TriggerUser(q)
    \/ \E q \in EventQueues, kind \in EventKinds, interval \in Intervals \union {0} :
         AddEvent(q, kind, interval)
    \/ \E q \in EventQueues, kind \in EventKinds : DeleteEvent(q, kind)
    \/ \E q \in EventQueues, count \in EventSlots :
         WaitEvents(q, count) \/ WaitFails(q, count)
    \/ Tick
    \/ OpenVideo
    \/ CloseVideo
    \/ \E buffers \in SUBSET VideoBuffers : RegisterBuffers(buffers)
    \/ \E buffer \in VideoBuffers : Flip(buffer)
    \/ EventReset

EventSpec == EventInit /\ [][EventNext]_eventVars

-----------------------------------------------------------------------------
(* Properties *)

EventTypeOK ==
    /\ equeues \subseteq EventQueues /\ videoOpen \in BOOLEAN
    /\ \A q \in EventQueues : \A s \in Used(q) : At(q, s).kind \in EventKinds
    /\ videoBuffers \subseteq VideoBuffers /\ owed \subseteq EventQueues \X EventKinds

\* A queue has to report exactly what happened, a flip, a trigger or a time that
\* came, to the events that were added to it since it was created and were not
\* reported since, whatever other waits took, with queues deleted and created and
\* VideoOut closed in between.
EventsExact ==
    /\ \A o \in owed : o[1] \in equeues
    /\ \A q \in equeues :
         /\ {At(q, s).kind : s \in Happened(q)} = {k \in EventKinds : <<q, k>> \in owed}
         /\ \A s \in Used(q) : At(q, s).opening = opening[q]
=============================================================================

-------------------------- MODULE GuestDevicesProofs --------------------------
(***************************************************************************)
(* Proofs about the event queues (GuestEvents), the command processor        *)
(* (GuestGpu) and the frames of the back end (GpuFrames), for any number of  *)
(* queues, slots, packets, frames and resources.                             *)
(***************************************************************************)
EXTENDS GuestEvents, GuestGpu, GpuFrames, SequenceTheorems, WellFoundedInduction, TLAPS

(* Event queues *)

Records == [kind : EventKinds, triggered : BOOLEAN, interval : Nat, opening : Int,
            due : Int]
\* A record is what shadps4_hle_equeue_add makes of its kind.
Sound(event) ==
    /\ event.kind \in Timed => event.due >= 0 /\ event.interval > 0
    /\ event.kind \notin Timed => event.due = Never
EventTypes ==
    /\ equeues \subseteq EventQueues /\ opening \in [EventQueues -> Int]
    /\ equeueEvents \in [EventQueues -> [EventSlots -> Records \union {NoEvent}]]
    /\ owed \subseteq EventQueues \X EventKinds

Did(event) == event.triggered \/ event.due = 0
\* What is owed for a queue is what happened to its events, each of one kind.
SlotExact(q, s) ==
    At(q, s) # NoEvent =>
      /\ Sound(At(q, s)) /\ At(q, s).opening = opening[q] /\ q \in equeues
      /\ Did(At(q, s)) <=> <<q, At(q, s).kind>> \in owed
OneSlot(q, s, t) ==
    At(q, s) # NoEvent /\ At(q, t) # NoEvent /\ At(q, t).kind = At(q, s).kind => t = s
OwedSlot(q, kind) ==
    <<q, kind>> \in owed => \E s \in EventSlots : At(q, s) # NoEvent /\ At(q, s).kind = kind
SlotsExact(q) ==
    /\ \A s \in EventSlots : SlotExact(q, s)
    /\ \A s, t \in EventSlots : OneSlot(q, s, t)
    /\ \A kind \in EventKinds : OwedSlot(q, kind)
EInv == EventTypes /\ \A q \in EventQueues : SlotsExact(q)

LEMMA EventInitInv == ASSUME EventInit PROVE EInv
<1> USE EventAssumption DEF EventInit, EInv
<1>1. EventTypes
  BY DEF EventTypes
<1>2. ASSUME NEW q \in EventQueues PROVE SlotsExact(q)
  BY DEF SlotsExact, SlotExact, OneSlot, OwedSlot, At
<1> QED BY <1>1, <1>2

\* The record of an event is not that of none.
LEMMA Apart == ASSUME NEW e \in Records PROVE e # NoEvent
BY DEF Records, NoEvent, EventKinds

LEMMA AtType ==
    ASSUME EventTypes, NEW q \in EventQueues, NEW s \in EventSlots, At(q, s) # NoEvent
    PROVE  At(q, s) \in Records
BY DEF EventTypes, At

LEMMA CreateQueueInv == ASSUME EInv, CreateQueue PROVE EInv'
<1> USE DEF EInv
<1>1. PICK q \in EventQueues \ equeues :
         equeues' = equeues \union {q} /\ opening' = [opening EXCEPT ![q] = 1 - @]
         /\ UNCHANGED <<equeueEvents, owed>>
  BY DEF CreateQueue
<1>2. EventTypes'
  BY <1>1 DEF EventTypes
<1>3. ASSUME NEW p \in EventQueues PROVE SlotsExact(p)'
  BY <1>1 DEF EventTypes, SlotsExact, SlotExact, OneSlot, OwedSlot, At
<1> QED BY <1>2, <1>3

\* A queue is deleted, or all are.
LEMMA EmptiedInv ==
    ASSUME EInv, NEW gone \in SUBSET EventQueues, equeues' = equeues \ gone,
           equeueEvents' = [q \in EventQueues |->
             IF q \in gone THEN [s \in EventSlots |-> NoEvent] ELSE equeueEvents[q]],
           owed' = {o \in owed : o[1] \notin gone}, UNCHANGED opening
    PROVE  EInv'
<1> USE DEF EInv
<1>1. EventTypes'
  BY DEF EventTypes
<1>2. ASSUME NEW p \in EventQueues PROVE SlotsExact(p)'
  BY DEF EventTypes, SlotsExact, SlotExact, OneSlot, OwedSlot, At
<1> QED BY <1>1, <1>2

LEMMA DeleteQueueInv ==
    ASSUME EInv, NEW q \in EventQueues, DeleteQueue(q) PROVE EInv'
<1>1. equeueEvents' = [p \in EventQueues |->
         IF p \in {q} THEN [s \in EventSlots |-> NoEvent] ELSE equeueEvents[p]]
  BY DEF DeleteQueue, EInv, EventTypes
<1>2. owed' = {o \in owed : o[1] \notin {q}}
  BY DEF DeleteQueue
<1> QED
  BY <1>1, <1>2, EmptiedInv DEF DeleteQueue

LEMMA EventResetInv == ASSUME EInv, EventReset PROVE EInv'
<1>1. equeueEvents' = [p \in EventQueues |->
         IF p \in EventQueues THEN [s \in EventSlots |-> NoEvent] ELSE equeueEvents[p]]
  BY DEF EventReset
<1>2. owed' = {o \in owed : o[1] \notin EventQueues}
  BY DEF EventReset, EInv, EventTypes
<1>3. equeues' = equeues \ EventQueues
  BY DEF EventReset, EInv, EventTypes
<1> QED
  BY <1>1, <1>2, <1>3, EmptiedInv DEF EventReset

LEMMA AddEventInv ==
    ASSUME EInv, EventPermitted = {}, NEW q \in EventQueues, NEW kind \in EventKinds,
           NEW interval \in Intervals \union {0}, AddEvent(q, kind, interval)
    PROVE  EInv'
<1> DEFINE new == NewEvent(q, kind, interval)
<1> USE DEF EInv
<1>1. PICK s \in EventSlots :
         /\ equeueEvents' = [equeueEvents EXCEPT ![q][s] = new]
         /\ s \in Of(q, kind) \/ (s \notin Used(q) /\ Of(q, kind) = {})
  BY DEF AddEvent, Of, Used
<1>2. /\ q \in equeues /\ interval \in Nat /\ (interval = 0 <=> kind \notin Timed)
      /\ Of(q, kind) \intersect Happened(q) = {}
      /\ UNCHANGED <<equeues, opening, owed>>
  BY EventAssumption DEF AddEvent
<1>3. /\ new \in Records /\ Sound(new) /\ ~Did(new) /\ new # NoEvent
      /\ new.kind = kind /\ new.opening = opening[q]
  <2>1. new.due = IF kind \in Timed THEN interval ELSE Never
    BY DEF NewEvent
  <2>2. /\ new.kind = kind /\ new.triggered = FALSE /\ new.interval = interval
        /\ new.opening = opening[q]
    BY DEF NewEvent
  <2>3. new \in Records
    BY <1>2 DEF NewEvent, EventTypes, Records, Never
  <2> HIDE DEF new
  <2> QED
    BY <1>2, <2>1, <2>2, <2>3, Apart DEF Sound, Did, Never
<1> HIDE DEF new
<1>4. EventTypes'
  BY <1>1, <1>2, <1>3 DEF EventTypes
<1>5. /\ At(q, s)' = new
      /\ \A p \in EventQueues, t \in EventSlots :
           p # q \/ t # s => At(p, t)' = At(p, t)
  BY <1>1 DEF EventTypes, At
\* No event of the kind is in another slot, and none has happened.
<1>6. /\ \A t \in EventSlots : At(q, t) # NoEvent /\ At(q, t).kind = kind => t = s
      /\ <<q, kind>> \notin owed
  BY <1>1, <1>2 DEF SlotsExact, SlotExact, OneSlot, OwedSlot, Of, Used, Happened, Did
<1>7. ASSUME NEW p \in EventQueues PROVE SlotsExact(p)'
  <2>1. CASE p # q
    BY <2>1, <1>2, <1>5 DEF SlotsExact, SlotExact, OneSlot, OwedSlot
  <2>2. CASE p = q
    <3>1. ASSUME NEW t \in EventSlots PROVE SlotExact(q, t)'
      BY <1>2, <1>3, <1>5, <1>6 DEF SlotsExact, SlotExact
    <3>2. ASSUME NEW t \in EventSlots, NEW u \in EventSlots PROVE OneSlot(q, t, u)'
      BY <1>3, <1>5, <1>6 DEF SlotsExact, OneSlot
    <3>3. ASSUME NEW k \in EventKinds PROVE OwedSlot(q, k)'
      <4> SUFFICES ASSUME <<q, k>> \in owed'
                   PROVE  \E t \in EventSlots : At(q, t)' # NoEvent /\ At(q, t)'.kind = k
        BY DEF OwedSlot
      <4>1. PICK t \in EventSlots : At(q, t) # NoEvent /\ At(q, t).kind = k
        BY <1>2 DEF SlotsExact, OwedSlot
      <4>2. k # kind
        BY <1>2, <1>6
      <4>3. t # s
        BY <1>1, <4>1, <4>2 DEF Of, Used
      <4> QED BY <4>1, <4>3, <1>5
    <3> QED BY <2>2, <3>1, <3>2, <3>3 DEF SlotsExact
  <2> QED BY <2>1, <2>2
<1> QED BY <1>4, <1>7

LEMMA DeleteEventInv ==
    ASSUME EInv, NEW q \in EventQueues, NEW kind \in EventKinds, DeleteEvent(q, kind)
    PROVE  EInv'
<1> USE DEF EInv
<1>1. PICK s \in EventSlots :
         /\ At(q, s) # NoEvent /\ At(q, s).kind = kind
         /\ equeueEvents' = [equeueEvents EXCEPT ![q][s] = NoEvent]
  BY DEF DeleteEvent, Of, Used
<1>2. owed' = owed \ {<<q, kind>>} /\ UNCHANGED <<equeues, opening>>
  BY DEF DeleteEvent
<1>3. EventTypes'
  BY <1>1, <1>2 DEF EventTypes
<1>4. /\ At(q, s)' = NoEvent
      /\ \A p \in EventQueues, t \in EventSlots :
           p # q \/ t # s => At(p, t)' = At(p, t)
  BY <1>1 DEF EventTypes, At
<1>5. \A t \in EventSlots : At(q, t) # NoEvent /\ At(q, t).kind = kind => t = s
  BY <1>1 DEF SlotsExact, OneSlot
<1>6. ASSUME NEW p \in EventQueues PROVE SlotsExact(p)'
  <2>1. CASE p # q
    BY <2>1, <1>2, <1>4 DEF SlotsExact, SlotExact, OneSlot, OwedSlot
  <2>2. CASE p = q
    <3>1. ASSUME NEW t \in EventSlots PROVE SlotExact(q, t)'
      BY <1>2, <1>4, <1>5 DEF SlotsExact, SlotExact
    <3>2. ASSUME NEW t \in EventSlots, NEW u \in EventSlots PROVE OneSlot(q, t, u)'
      BY <1>4 DEF SlotsExact, OneSlot
    <3>3. ASSUME NEW k \in EventKinds PROVE OwedSlot(q, k)'
      <4> SUFFICES ASSUME <<q, k>> \in owed'
                   PROVE  \E t \in EventSlots : At(q, t)' # NoEvent /\ At(q, t)'.kind = k
        BY DEF OwedSlot
      <4>1. PICK t \in EventSlots : At(q, t) # NoEvent /\ At(q, t).kind = k
        BY <1>2 DEF SlotsExact, OwedSlot
      <4>2. k # kind
        BY <1>2
      <4> QED BY <4>1, <4>2, <1>1, <1>4
    <3> QED BY <2>2, <3>1, <3>2, <3>3 DEF SlotsExact
  <2> QED BY <2>1, <2>2
<1> QED BY <1>3, <1>6

\* Some events happen, and no record else changes: a trigger, a flip, or time.
LEMMA HappenInv ==
    ASSUME EInv, EventTypes', UNCHANGED <<equeues, opening>>,
           NEW new \in SUBSET (EventQueues \X EventKinds),
           \A q \in EventQueues, s \in EventSlots :
             /\ At(q, s) = NoEvent <=> At(q, s)' = NoEvent
             /\ At(q, s) # NoEvent =>
                  /\ At(q, s)'.kind = At(q, s).kind
                  /\ At(q, s)'.opening = At(q, s).opening
                  /\ Sound(At(q, s)')
                  /\ Did(At(q, s)') <=> Did(At(q, s)) \/ <<q, At(q, s).kind>> \in new,
           \A q \in EventQueues, kind \in EventKinds :
             /\ <<q, kind>> \in owed' <=> <<q, kind>> \in owed \/ <<q, kind>> \in new
             /\ <<q, kind>> \in new =>
                  \E s \in EventSlots : At(q, s) # NoEvent /\ At(q, s).kind = kind
    PROVE  EInv'
<1> USE DEF EInv
<1> SUFFICES ASSUME NEW q \in EventQueues PROVE SlotsExact(q)'
  OBVIOUS
<1>1. ASSUME NEW s \in EventSlots PROVE SlotExact(q, s)'
  <2> SUFFICES ASSUME At(q, s) # NoEvent PROVE SlotExact(q, s)'
    BY DEF SlotExact
  <2>1. SlotExact(q, s) /\ At(q, s) \in Records
    BY AtType DEF SlotsExact
  <2>2. At(q, s).kind \in EventKinds
    BY <2>1 DEF Records
  <2> QED BY <2>1, <2>2 DEF SlotExact
<1>2. ASSUME NEW s \in EventSlots, NEW t \in EventSlots PROVE OneSlot(q, s, t)'
  <2> SUFFICES ASSUME At(q, s)' # NoEvent, At(q, t)' # NoEvent,
                      At(q, t)'.kind = At(q, s)'.kind
               PROVE  t = s
    BY DEF OneSlot
  <2>1. At(q, s) # NoEvent /\ At(q, s)'.kind = At(q, s).kind
    OBVIOUS
  <2>2. At(q, t) # NoEvent /\ At(q, t)'.kind = At(q, t).kind
    OBVIOUS
  <2>3. OneSlot(q, s, t)
    BY DEF SlotsExact
  <2> QED BY <2>1, <2>2, <2>3 DEF OneSlot
<1>3. ASSUME NEW kind \in EventKinds PROVE OwedSlot(q, kind)'
  BY DEF SlotsExact, OwedSlot
<1> QED BY <1>1, <1>2, <1>3 DEF SlotsExact

LEMMA TriggeredInv ==
    ASSUME EInv, NEW queues \in SUBSET equeues, NEW kind \in EventKinds \ Timed,
           Triggered(queues, kind), UNCHANGED <<equeues, opening>>
    PROVE  EInv'
<1> DEFINE new == {o \in queues \X {kind} : Of(o[1], kind) # {}}
<1>1. ASSUME NEW q \in EventQueues, NEW s \in EventSlots
      PROVE  At(q, s)' = IF q \in queues /\ At(q, s) # NoEvent /\ At(q, s).kind = kind
                         THEN [At(q, s) EXCEPT !.triggered = TRUE] ELSE At(q, s)
  BY DEF Triggered, Of, Used, At
<1>2. ASSUME NEW q \in EventQueues, NEW s \in EventSlots, At(q, s) # NoEvent
      PROVE  /\ At(q, s)' \in Records
             /\ At(q, s)'.kind = At(q, s).kind /\ At(q, s)'.opening = At(q, s).opening
             /\ Sound(At(q, s)')
             /\ Did(At(q, s)') <=>
                  Did(At(q, s)) \/ (q \in queues /\ At(q, s).kind = kind)
  <2>1. At(q, s) \in Records /\ Sound(At(q, s))
    BY <1>2, AtType DEF EInv, SlotsExact, SlotExact
  <2> QED BY <1>1, <1>2, <2>1 DEF Records, Sound, Did
<1>3. ASSUME NEW q \in EventQueues, NEW s \in EventSlots
      PROVE  At(q, s) = NoEvent <=> At(q, s)' = NoEvent
  BY <1>1, <1>2, Apart
<1>4. EventTypes'
  <2>1. \A q \in EventQueues, s \in EventSlots : At(q, s)' \in Records \union {NoEvent}
    BY <1>1, <1>2
  <2>2. equeueEvents' \in [EventQueues -> [EventSlots -> Records \union {NoEvent}]]
    BY <2>1 DEF Triggered, At
  <2>3. owed' \subseteq EventQueues \X EventKinds
    BY DEF Triggered, EInv, EventTypes
  <2> QED BY <2>2, <2>3 DEF EInv, EventTypes
<1>5. new \in SUBSET (EventQueues \X EventKinds)
  BY DEF EInv, EventTypes
<1>6. ASSUME NEW q \in EventQueues, NEW k \in EventKinds
      PROVE  /\ <<q, k>> \in new <=> /\ q \in queues /\ k = kind
                                     /\ \E s \in EventSlots :
                                          At(q, s) # NoEvent /\ At(q, s).kind = kind
             /\ <<q, k>> \in owed' <=> <<q, k>> \in owed \/ <<q, k>> \in new
  BY DEF Triggered, Of, Used
<1> HIDE DEF new
<1>7. ASSUME NEW q \in EventQueues, NEW s \in EventSlots, At(q, s) # NoEvent
      PROVE  q \in queues /\ At(q, s).kind = kind <=> <<q, At(q, s).kind>> \in new
  BY <1>6, <1>7, AtType DEF EInv, Records
<1> QED BY <1>2, <1>3, <1>4, <1>5, <1>6, <1>7, HappenInv

LEMMA TickInv == ASSUME EInv, Tick PROVE EInv'
<1> DEFINE new == {o \in equeues \X Timed : \E s \in Of(o[1], o[2]) : At(o[1], s).due = 1}
<1>1. ASSUME NEW q \in EventQueues, NEW s \in EventSlots
      PROVE  At(q, s)' = IF At(q, s) # NoEvent /\ At(q, s).due > 0
                         THEN [At(q, s) EXCEPT !.due = @ - 1] ELSE At(q, s)
  BY DEF Tick, Used, At
<1>2. ASSUME NEW q \in EventQueues, NEW s \in EventSlots, At(q, s) # NoEvent
      PROVE  /\ At(q, s)' \in Records
             /\ At(q, s)'.kind = At(q, s).kind /\ At(q, s)'.opening = At(q, s).opening
             /\ Sound(At(q, s)')
             /\ Did(At(q, s)') <=> Did(At(q, s)) \/ At(q, s).due = 1
             /\ At(q, s).due = 1 => At(q, s).kind \in Timed
  <2>1. At(q, s) \in Records /\ Sound(At(q, s))
    BY <1>2, AtType DEF EInv, SlotsExact, SlotExact
  <2> QED BY <1>1, <1>2, <2>1 DEF Records, Sound, Did, Never
<1>3. ASSUME NEW q \in EventQueues, NEW s \in EventSlots
      PROVE  At(q, s) = NoEvent <=> At(q, s)' = NoEvent
  BY <1>1, <1>2, Apart
<1>4. EventTypes'
  <2>1. \A q \in EventQueues, s \in EventSlots : At(q, s)' \in Records \union {NoEvent}
    BY <1>1, <1>2
  <2>2. equeueEvents' \in [EventQueues -> [EventSlots -> Records \union {NoEvent}]]
    BY <2>1 DEF Tick, At
  <2>3. owed' \subseteq EventQueues \X EventKinds
    BY DEF Tick, EInv, EventTypes, EventKinds, Timed
  <2> QED BY <2>2, <2>3 DEF EInv, EventTypes, Tick
<1>5. new \in SUBSET (EventQueues \X EventKinds)
  BY DEF EInv, EventTypes, EventKinds, Timed
<1>6. ASSUME NEW q \in EventQueues, NEW k \in EventKinds
      PROVE  /\ <<q, k>> \in new <=>
                  /\ q \in equeues /\ k \in Timed
                  /\ \E s \in EventSlots :
                       At(q, s) # NoEvent /\ At(q, s).kind = k /\ At(q, s).due = 1
             /\ <<q, k>> \in owed' <=> <<q, k>> \in owed \/ <<q, k>> \in new
  BY DEF Tick, Of, Used
<1> HIDE DEF new
<1>7. ASSUME NEW q \in EventQueues, NEW s \in EventSlots, At(q, s) # NoEvent
      PROVE  At(q, s).due = 1 <=> <<q, At(q, s).kind>> \in new
  <2>1. At(q, s).kind \in EventKinds /\ q \in equeues
    BY <1>7, AtType DEF EInv, Records, SlotsExact, SlotExact
  <2>2. \A t \in EventSlots :
          At(q, t) # NoEvent /\ At(q, t).kind = At(q, s).kind => t = s
    BY <1>7 DEF EInv, SlotsExact, OneSlot
  <2> QED BY <1>2, <1>6, <1>7, <2>1, <2>2
<1>8. UNCHANGED <<equeues, opening>>
  BY DEF Tick
<1> QED BY <1>2, <1>3, <1>4, <1>5, <1>6, <1>7, <1>8, HappenInv


\* A wait takes what it reports, and nothing else is owed less.
LEMMA WaitEventsInv ==
    ASSUME EInv, NEW q \in EventQueues, NEW count \in EventSlots, WaitEvents(q, count)
    PROVE  EInv'
<1> DEFINE reported == Reports(q, count)
<1>1. /\ reported \subseteq EventSlots
      /\ \A s \in reported : At(q, s) # NoEvent /\ Did(At(q, s))
  BY DEF Reports, Happened, Used, Did
<1>2. /\ UNCHANGED <<equeues, opening>> /\ TakeReports(q, reported)
      /\ owed' = owed \ {<<q, At(q, s).kind>> : s \in reported}
  BY DEF WaitEvents
<1> HIDE DEF reported
<1>3. /\ \A p \in EventQueues, s \in EventSlots : p # q => At(p, s)' = At(p, s)
      /\ \A s \in EventSlots :
           At(q, s)' = IF s \in reported THEN Take(At(q, s)) ELSE At(q, s)
  BY <1>2 DEF TakeReports, At, EInv, EventTypes
\* A report leaves nothing in its slot, or an event that has not happened again.
<1>4. ASSUME NEW s \in reported
      PROVE  LET after == At(q, s)' IN
             \/ after = NoEvent
             \/ /\ after \in Records /\ after # NoEvent
                /\ after.kind = At(q, s).kind /\ after.opening = At(q, s).opening
                /\ Sound(after) /\ ~Did(after)
  <2>1. At(q, s) \in Records /\ Sound(At(q, s))
    BY <1>1, AtType DEF EInv, SlotsExact, SlotExact
  <2>2. CASE At(q, s).kind = "hrtimer"
    BY <1>1, <1>3, <2>2 DEF Take
  <2>3. CASE At(q, s).kind # "hrtimer"
    <3> DEFINE due   == IF At(q, s).kind \in Timed THEN At(q, s).interval ELSE Never
               after == [At(q, s) EXCEPT !.triggered = FALSE, !.due = due]
    <3>1. At(q, s)' = after
      BY <1>1, <1>3, <2>3 DEF Take
    <3>a. due \in Int /\ (At(q, s).kind \in Timed => due = At(q, s).interval)
          /\ (At(q, s).kind \notin Timed => due = Never)
      BY <2>1 DEF Records, Never
    <3> HIDE DEF due
    <3>2. /\ after \in Records /\ after.kind = At(q, s).kind
          /\ after.opening = At(q, s).opening /\ after.triggered = FALSE
          /\ after.interval = At(q, s).interval
          /\ after.due = due
      BY <2>1, <3>a DEF Records
    <3> HIDE DEF after
    <3>3. Sound(after) /\ ~Did(after)
      BY <2>1, <3>a, <3>2 DEF Sound, Did, Never, Records
    <3> QED BY <3>1, <3>2, <3>3, Apart
  <2> QED BY <2>2, <2>3
<1>5. EventTypes'
  <2>1. \A p \in EventQueues, s \in EventSlots : At(p, s)' \in Records \union {NoEvent}
    BY <1>3, <1>4, AtType DEF EInv
  <2>2. equeueEvents' \in [EventQueues -> [EventSlots -> Records \union {NoEvent}]]
    BY <2>1, <1>2 DEF TakeReports, At, EInv, EventTypes
  <2> QED BY <2>2, <1>2 DEF EInv, EventTypes
<1>6. ASSUME NEW p \in EventQueues, p # q PROVE SlotsExact(p)'
  BY <1>2, <1>3, <1>6 DEF EInv, SlotsExact, SlotExact, OneSlot, OwedSlot
\* An event is owed still if it was and no wait has reported it.
<1>7. ASSUME NEW s \in EventSlots, At(q, s) # NoEvent
      PROVE  <<q, At(q, s).kind>> \in owed' <=> Did(At(q, s)) /\ s \notin reported
  <2>1. <<q, At(q, s).kind>> \in owed <=> Did(At(q, s))
    BY <1>7 DEF EInv, SlotsExact, SlotExact
  <2>2. \A t \in reported : At(q, t).kind = At(q, s).kind => t = s
    BY <1>1, <1>7 DEF EInv, SlotsExact, OneSlot
  <2> QED BY <1>1, <1>2, <2>1, <2>2
<1>8. SlotsExact(q)'
  <2>1. ASSUME NEW s \in EventSlots PROVE SlotExact(q, s)'
    <3>1. CASE s \in reported
      BY <3>1, <1>1, <1>2, <1>4, <1>7 DEF EInv, SlotsExact, SlotExact
    <3>2. CASE s \notin reported
      BY <3>2, <1>2, <1>3, <1>7 DEF EInv, SlotsExact, SlotExact
    <3> QED BY <3>1, <3>2
  <2>2. ASSUME NEW s \in EventSlots, NEW t \in EventSlots PROVE OneSlot(q, s, t)'
    <3>1. \A u \in {s, t} : At(q, u)' # NoEvent =>
             At(q, u) # NoEvent /\ At(q, u)'.kind = At(q, u).kind
      BY <1>1, <1>3, <1>4
    <3> QED BY <3>1 DEF EInv, SlotsExact, OneSlot
  <2>3. ASSUME NEW kind \in EventKinds PROVE OwedSlot(q, kind)'
    <3> SUFFICES ASSUME <<q, kind>> \in owed'
                 PROVE  \E s \in EventSlots : At(q, s)' # NoEvent /\ At(q, s)'.kind = kind
      BY DEF OwedSlot
    <3>1. PICK s \in EventSlots : At(q, s) # NoEvent /\ At(q, s).kind = kind
      BY <1>2 DEF EInv, SlotsExact, OwedSlot
    <3>2. s \notin reported
      BY <3>1, <1>7
    <3> QED BY <3>1, <3>2, <1>3
  <2> QED BY <2>1, <2>2, <2>3 DEF SlotsExact
<1> QED BY <1>5, <1>6, <1>8 DEF EInv

LEMMA EventNextInv ==
    ASSUME EInv, EventPermitted = {}, [EventNext]_eventVars PROVE EInv'
<1>1. CASE CreateQueue
  BY <1>1, CreateQueueInv
<1>2. CASE \E q \in EventQueues : DeleteQueue(q)
  BY <1>2, DeleteQueueInv
<1>3. ASSUME NEW q \in EventQueues, TriggerUser(q) PROVE EInv'
  BY <1>3, TriggeredInv DEF TriggerUser, EventKinds, Timed
<1>4. CASE \E q \in EventQueues, kind \in EventKinds, interval \in Intervals \union {0} :
             AddEvent(q, kind, interval)
  BY <1>4, AddEventInv
<1>5. CASE \E q \in EventQueues, kind \in EventKinds : DeleteEvent(q, kind)
  BY <1>5, DeleteEventInv
<1>6. CASE \E q \in EventQueues, count \in EventSlots : WaitEvents(q, count)
  BY <1>6, WaitEventsInv
<1>7. CASE Tick
  BY <1>7, TickInv
<1>8. ASSUME UNCHANGED <<equeues, equeueEvents, opening, owed>> PROVE EInv'
  BY <1>8 DEF EInv, EventTypes, SlotsExact, SlotExact, OneSlot, OwedSlot, At
<1>9. ASSUME NEW buffer \in VideoBuffers, Flip(buffer) PROVE EInv'
  BY <1>9, TriggeredInv DEF Flip, EventKinds, Timed
<1>10. CASE EventReset
  BY <1>10, EventResetInv
<1>11. CASE \/ OpenVideo \/ CloseVideo
            \/ \E buffers \in SUBSET VideoBuffers : RegisterBuffers(buffers)
            \/ UNCHANGED eventVars
  BY <1>11, <1>8 DEF OpenVideo, CloseVideo, RegisterBuffers, eventVars
<1>12. \A q \in EventQueues : ~CloseQueue(q) /\ \A count \in EventSlots : ~WaitFails(q, count)
  BY DEF CloseQueue, WaitFails
<1> QED
  BY <1>1, <1>2, <1>3, <1>4, <1>5, <1>6, <1>7, <1>9, <1>10, <1>11, <1>12 DEF EventNext

LEMMA EInvExact == ASSUME EInv PROVE EventsExact
<1>1. ASSUME NEW o \in owed PROVE o[1] \in equeues
  <2>1. PICK q \in EventQueues, kind \in EventKinds : o = <<q, kind>>
    BY DEF EInv, EventTypes
  <2>2. PICK s \in EventSlots : At(q, s) # NoEvent
    BY <2>1 DEF EInv, SlotsExact, OwedSlot
  <2> QED BY <2>1, <2>2 DEF EInv, SlotsExact, SlotExact
<1>2. ASSUME NEW q \in equeues
      PROVE  /\ {At(q, s).kind : s \in Happened(q)} = {k \in EventKinds : <<q, k>> \in owed}
             /\ \A s \in Used(q) : At(q, s).opening = opening[q]
  <2>1. q \in EventQueues /\ SlotsExact(q)
    BY DEF EInv, EventTypes
  <2>2. ASSUME NEW s \in Happened(q)
        PROVE  At(q, s).kind \in EventKinds /\ <<q, At(q, s).kind>> \in owed
    BY <2>1, AtType DEF EInv, Happened, Used, SlotsExact, SlotExact, Did, Records
  <2>3. ASSUME NEW k \in EventKinds, <<q, k>> \in owed
        PROVE  \E s \in Happened(q) : At(q, s).kind = k
    BY <2>1, <2>3 DEF Happened, Used, SlotsExact, OwedSlot, SlotExact, Did
  <2> QED BY <2>1, <2>2, <2>3 DEF Used, SlotsExact, SlotExact
<1> QED BY <1>1, <1>2 DEF EventsExact

\* EventsExact of shadps4_hle_equeue_add, _wait and the queues' timers, for any
\* number of queues, slots and intervals: with slots whose addresses can be written,
\* no event added again once it has happened, and queues that are deleted, not closed.
THEOREM EventsExactHolds ==
    ASSUME EventPermitted = {} PROVE EventSpec => []EventsExact
<1>1. EventInit => EInv
  BY EventInitInv
<1>2. EInv /\ [EventNext]_eventVars => EInv'
  BY EventNextInv
<1>3. EInv => EventsExact
  BY EInvExact
<1> QED BY <1>1, <1>2, <1>3, PTL DEF EventSpec
-----------------------------------------------------------------------------
(* The frames *)

\* The operations of a list; a resource that no shader leaves behind is made once.
Entries == [on : Bounds, by : {"store", "dispatch", "dropped"}]
Births == IF "evict" \in FramesPermitted THEN Nat ELSE {0}
Ops == [kind : {"use"}, bound : Bounds, born : Births, effect : SUBSET Nat]
       \union [kind : {"back"}, bound : Bounds, born : Births]
       \union [kind : {"to"}, surface : Surfaces, after : {Target, Resource, Shown, Source}]
Calls == {AtRest} \union [op : {"record"}, ops : Seq(Ops)]
         \union [op : {"finish"}, to : {"nothing", "reset"}, at : 0 .. FrameCount]
         \union [op : {"finish"}, to : {"publish", "read", "register", "pixels"},
                 of : Surfaces, at : 0 .. FrameCount]
FrameSet == [held : Nat, fence : Nat, back : Seq(Bounds)]
Items == [fence : Nat, frame : FrameIndices, ops : Seq(Ops)]
FrameTypes ==
    /\ frames \in [FrameIndices -> FrameSet]
    /\ frameIndex \in FrameIndices /\ nextFrame \in FrameIndices /\ fenceValue \in Nat
    /\ queue \in Seq(Items)
    /\ call \in Calls /\ rendered \subseteq Surfaces
    /\ born \in [Bounds -> Births]
    /\ effects \in Seq(Entries)
    /\ address \in [Bounds -> Bounds]

Queued == {queue[i] : i \in DOMAIN queue}
\* The GPU has no list that uses what the frame holds.
Idle(f) == \A item \in Queued : item.ops # <<>> => item.frame # f
FramesKept ==
    /\ \A f \in FrameIndices : frames[f].held <= frames[f].fence
                               /\ frames[f].fence <= fenceValue
    /\ \A item \in Queued : item.ops # <<>> => frames[item.frame].held = item.fence
    /\ call.op = "record" => Idle(frameIndex)
    /\ call.op = "finish" => \A f \in FrameIndices : f < call.at => Idle(f)
FInv == FrameTypes /\ FramesKept

LEMMA FrameFenced ==
    ASSUME NEW frame \in FrameSet, NEW n \in Nat
    PROVE  /\ [frame EXCEPT !.fence = n] \in FrameSet
           /\ [frame EXCEPT !.fence = n, !.held = n] \in FrameSet
<1> DEFINE back == Seq(Bounds)
<1>1. frame \in [held : Nat, fence : Nat, back : back]
  BY DEF FrameSet
<1> HIDE DEF back
<1>2. /\ [frame EXCEPT !.fence = n] \in [held : Nat, fence : Nat, back : back]
      /\ [frame EXCEPT !.fence = n, !.held = n] \in [held : Nat, fence : Nat, back : back]
  BY <1>1
<1> QED BY <1>2 DEF FrameSet, back

LEMMA FrameFields ==
    ASSUME FrameTypes, NEW f \in FrameIndices
    PROVE  /\ frames[f] \in FrameSet /\ frames[f].held \in Nat
           /\ frames[f].fence \in Nat /\ frames[f].back \in Seq(Bounds)
BY DEF FrameTypes, FrameSet

LEMMA ItemFields ==
    ASSUME FrameTypes, NEW item \in Queued
    PROVE  item \in Items /\ item.frame \in FrameIndices /\ item.fence \in Nat
<1>1. PICK i \in DOMAIN queue : item = queue[i]
  BY DEF Queued
<1>2. queue \in Seq(Items)
  BY DEF FrameTypes
<1>3. item \in Items
  BY <1>1, <1>2
<1> QED BY <1>3 DEF Items

LEMMA FramesInitInv == ASSUME FramesInit PROVE FInv
<1> USE FramesAssumption DEF FramesInit
<1>1. FrameTypes
  <2>1. 0 \in Births
    BY DEF Births
  <2>2. born \in [Bounds -> Births] /\ address \in [Bounds -> Bounds]
    BY <2>1
  <2> QED BY <2>2 DEF FrameTypes, FrameIndices, NoFrame, Calls, FrameSet
<1>2. FramesKept
  BY DEF FramesKept, NoFrame, Queued, AtRest, FrameIndices
<1> QED BY <1>1, <1>2 DEF FInv

\* A list or a signal is put at the end of the queue.
LEMMA QueuedLast ==
    ASSUME FrameTypes, NEW ops \in Seq(Ops), ListQueued(ops)
    PROVE  LET item == [fence |-> fenceValue + 1, frame |-> frameIndex, ops |-> ops] IN
           /\ Queued' = Queued \union {item}
           /\ queue' \in Seq(Items)
           /\ fenceValue' = fenceValue + 1
<1> DEFINE item  == [fence |-> fenceValue + 1, frame |-> frameIndex, ops |-> ops]
<1>1. item \in Items /\ queue \in Seq(Items) /\ fenceValue' = fenceValue + 1
  BY DEF FrameTypes, ListQueued, Items
<1>2. queue' = Append(queue, item)
  BY DEF ListQueued
<1> HIDE DEF item
<1>3. queue' \in Seq(Items)
  BY <1>1, <1>2
<1>4. /\ DOMAIN queue = 1 .. Len(queue) /\ DOMAIN queue' = 1 .. Len(queue) + 1
      /\ \A i \in 1 .. Len(queue) : queue'[i] = queue[i]
      /\ queue'[Len(queue) + 1] = item /\ Len(queue) \in Nat
  BY <1>1, <1>2
<1>5. Queued' = Queued \union {item}
  BY <1>4 DEF Queued
<1> QED BY <1>1, <1>3, <1>5 DEF item

LEMMA QueuedFirst ==
    ASSUME FrameTypes, queue # <<>>, queue' = Tail(queue)
    PROVE  /\ Queued' \subseteq Queued
           /\ queue' \in Seq(Items)
<1>1. queue \in Seq(Items)
  BY DEF FrameTypes
<1>2. /\ queue' \in Seq(Items)
      /\ Len(queue) \in Nat \ {0} /\ DOMAIN queue = 1 .. Len(queue)
      /\ DOMAIN queue' = 1 .. Len(queue) - 1
      /\ \A i \in 1 .. Len(queue) - 1 : queue'[i] = queue[i + 1]
  BY <1>1
<1>3. Queued' \subseteq Queued
  BY <1>2 DEF Queued
<1> QED BY <1>2, <1>3

LEMMA QueuedSame == ASSUME UNCHANGED queue PROVE Queued' = Queued
BY DEF Queued

\* shadps4_d3d12_wait_frame: a frame whose fence is reached holds nothing the GPU uses.
LEMMA ReachedIdle ==
    ASSUME FInv, NEW f \in FrameIndices, Reached(f) PROVE Idle(f)
<1> SUFFICES ASSUME NEW i \in DOMAIN queue, queue[i].ops # <<>>, queue[i].frame = f
             PROVE  FALSE
  BY DEF Idle, Queued
<1>1. queue[i].fence > frames[f].fence
  BY DEF Reached
<1>2. queue[i].fence = frames[f].held
  BY DEF FInv, FramesKept, Queued
<1>3. frames[f].held \in Nat /\ frames[f].fence \in Nat /\ frames[f].held <= frames[f].fence
  BY FrameFields DEF FInv, FramesKept
<1> QED BY <1>1, <1>2, <1>3

LEMMA RunListInv == ASSUME FInv, RunList PROVE FInv'
<1>1. Queued' \subseteq Queued
      /\ queue' \in Seq(Items)
  BY QueuedFirst DEF RunList, FInv
<1>2. UNCHANGED <<frames, frameIndex, nextFrame, fenceValue, call, rendered, born,
                  effects, address>>
  BY DEF RunList
<1>3. FrameTypes'
  BY <1>1, <1>2 DEF FInv, FrameTypes
<1>4. FramesKept'
  BY <1>1, <1>2 DEF FInv, FramesKept, Idle
<1> QED BY <1>3, <1>4 DEF FInv

FrameListed == frames' = [frames EXCEPT ![frameIndex].fence = fenceValue + 1,
                                        ![frameIndex].held = fenceValue + 1]

\* A list that uses its frame, when the frame was idle.
LEMMA ListKept ==
    ASSUME FInv, NEW ops \in Seq(Ops), ListQueued(ops), Idle(frameIndex), FrameListed,
           call'.op \in {"none", "finish"}, call'.op = "finish" => call'.at = 0,
           call' \in Calls, rendered' \subseteq Surfaces,
           UNCHANGED <<frameIndex, nextFrame, born, effects, address>>
    PROVE  FInv'
<1> DEFINE item == [fence |-> fenceValue + 1, frame |-> frameIndex, ops |-> ops]
<1>1. /\ Queued' = Queued \union {item} /\ fenceValue' = fenceValue + 1
      /\ queue' \in Seq(Items)
  BY QueuedLast DEF FInv
<1>2. item.fence = fenceValue + 1 /\ item.frame = frameIndex /\ item.ops = ops
  OBVIOUS
<1> HIDE DEF item
<1> DEFINE listed == [frames[frameIndex] EXCEPT !.fence = fenceValue + 1,
                                                !.held = fenceValue + 1]
<1>a. /\ frameIndex \in FrameIndices /\ fenceValue \in Nat
      /\ frames \in [FrameIndices -> FrameSet]
  BY DEF FInv, FrameTypes
<1>b. listed \in FrameSet
  <2>1. frames[frameIndex] \in FrameSet /\ fenceValue + 1 \in Nat
    BY <1>a
  <2> QED BY <2>1, FrameFenced
<1>c. listed.held = fenceValue + 1 /\ listed.fence = fenceValue + 1
  BY <1>a DEF FrameSet
<1>d. frames' = [frames EXCEPT ![frameIndex] = listed]
  BY <1>a DEF FrameListed
<1> HIDE DEF listed
<1>3. /\ fenceValue' = fenceValue + 1
      /\ frames'[frameIndex].held = fenceValue + 1
      /\ frames'[frameIndex].fence = fenceValue + 1
      /\ \A f \in FrameIndices : frames[f].held \in Nat /\ frames[f].fence \in Nat
      /\ \A f \in FrameIndices \ {frameIndex} :
           frames'[f].held = frames[f].held /\ frames'[f].fence = frames[f].fence
  BY <1>1, <1>a, <1>c, <1>d, FrameFields DEF FInv
<1>4. FrameTypes'
  <2>1. frames' \in [FrameIndices -> FrameSet]
    BY <1>a, <1>b, <1>d
  <2>2. fenceValue' \in Nat
    BY <1>a, <1>3
  <2> QED BY <1>1, <2>1, <2>2 DEF FInv, FrameTypes
<1>5. FramesKept'
  <2>a. /\ \A f \in FrameIndices : frames[f].held <= frames[f].fence
                                   /\ frames[f].fence <= fenceValue
        /\ \A x \in Queued : x.ops # <<>> => frames[x.frame].held = x.fence
    BY DEF FInv, FramesKept
  <2>1. \A f \in FrameIndices : frames'[f].held <= frames'[f].fence
                                /\ frames'[f].fence <= fenceValue'
    <3> TAKE f \in FrameIndices
    <3>1. CASE f = frameIndex
      BY <3>1, <1>a, <1>3
    <3>2. CASE f # frameIndex
      BY <3>2, <1>a, <1>3, <2>a
    <3> QED BY <3>1, <3>2
  <2>2. \A x \in Queued : x.frame \in FrameIndices
    BY ItemFields DEF FInv
  <2>3. \A x \in Queued' : x.ops # <<>> => frames'[x.frame].held = x.fence
    <3> TAKE x \in Queued'
    <3>1. CASE x = item
      BY <3>1, <1>2, <1>3
    <3>2. CASE x \in Queued
      BY <3>2, <1>3, <2>2, <2>a DEF Idle
    <3> QED BY <3>1, <3>2, <1>1
  <2>4. call'.op # "record" /\ (call'.op = "finish" => \A f \in FrameIndices : ~(f < call'.at))
    BY FramesAssumption DEF FrameIndices
  <2> QED BY <2>1, <2>3, <2>4 DEF FramesKept
<1> QED BY <1>4, <1>5 DEF FInv

\* A signal alone: shadps4_d3d12_finish begins.
LEMMA FinishBeginInv ==
    ASSUME FInv, NEW purpose \in Purposes, FinishBegin(purpose) PROVE FInv'
<1> DEFINE item == [fence |-> fenceValue + 1, frame |-> frameIndex, ops |-> <<>>]
           listed == [frames[frameIndex] EXCEPT !.fence = fenceValue + 1]
<1>1. /\ Queued' = Queued \union {item} /\ fenceValue' = fenceValue + 1
      /\ queue' \in Seq(Items)
  <2>1. <<>> \in Seq(Ops) /\ ListQueued(<<>>)
    BY DEF FinishBegin
  <2> QED BY <2>1, QueuedLast DEF FInv
<1>2. item.ops = <<>>
  OBVIOUS
<1> HIDE DEF item
<1>3. /\ frameIndex \in FrameIndices /\ fenceValue \in Nat
      /\ frames \in [FrameIndices -> FrameSet]
  BY DEF FInv, FrameTypes
<1>4. listed \in FrameSet
  <2>1. frames[frameIndex] \in FrameSet /\ fenceValue + 1 \in Nat
    BY <1>3
  <2> QED BY <2>1, FrameFenced
<1>5. listed.held = frames[frameIndex].held /\ listed.fence = fenceValue + 1
  BY <1>3 DEF FrameSet
<1>6. frames' = [frames EXCEPT ![frameIndex] = listed]
  BY <1>3 DEF FinishBegin
<1> HIDE DEF listed
<1>7. /\ \A f \in FrameIndices : frames'[f].held = frames[f].held
                                 /\ frames[f].held \in Nat /\ frames[f].fence \in Nat
      /\ frames'[frameIndex].fence = fenceValue + 1
      /\ \A f \in FrameIndices \ {frameIndex} : frames'[f].fence = frames[f].fence
  BY <1>3, <1>5, <1>6, FrameFields DEF FInv
<1>8. call' \in Calls /\ call'.op = "finish" /\ call'.at = 0
  <2>1. call' = purpose
    BY DEF FinishBegin
  <2>2. purpose \in Calls /\ purpose.op = "finish" /\ purpose.at = 0
    BY FramesAssumption DEF Purposes, Calls, FInv, FrameTypes
  <2> QED BY <2>1, <2>2
<1>9. FrameTypes'
  <2>1. frames' \in [FrameIndices -> FrameSet] /\ fenceValue' \in Nat
    BY <1>1, <1>3, <1>4, <1>6
  <2>2. UNCHANGED <<frameIndex, nextFrame, rendered, born, effects, address>>
    BY DEF FinishBegin, dataVars, surfaceVars
  <2> QED BY <1>1, <1>8, <2>1, <2>2 DEF FInv, FrameTypes
<1>10. FramesKept'
  <2>1. /\ \A f \in FrameIndices : frames[f].held <= frames[f].fence
                                   /\ frames[f].fence <= fenceValue
        /\ \A x \in Queued : x.ops # <<>> => frames[x.frame].held = x.fence
    BY DEF FInv, FramesKept
  <2>2. \A f \in FrameIndices : frames'[f].held <= frames'[f].fence
                                /\ frames'[f].fence <= fenceValue'
    <3> TAKE f \in FrameIndices
    <3>1. CASE f = frameIndex
      BY <3>1, <1>1, <1>3, <1>7, <2>1
    <3>2. CASE f # frameIndex
      BY <3>2, <1>1, <1>3, <1>7, <2>1
    <3> QED BY <3>1, <3>2
  <2>3. \A x \in Queued' : x.ops # <<>> => frames'[x.frame].held = x.fence
    BY <1>1, <1>2, <1>7, <2>1, ItemFields DEF FInv
  <2>4. \A f \in FrameIndices : ~(f < call'.at)
    BY <1>8, FramesAssumption DEF FrameIndices
  <2> QED BY <1>8, <2>2, <2>3, <2>4 DEF FramesKept
<1> QED BY <1>9, <1>10 DEF FInv

\* A step that puts nothing on the queue and waits for no frame.
LEMMA SameKept ==
    ASSUME FInv, UNCHANGED <<queue, fenceValue, frameIndex, nextFrame, address>>,
           born' \in [Bounds -> Births], frames' \in [FrameIndices -> FrameSet],
           \A f \in FrameIndices :
             frames'[f].held = frames[f].held /\ frames'[f].fence = frames[f].fence,
           call' \in Calls, call'.op = "record" => call.op = "record",
           call'.op = "finish" => call.op = "finish" /\ call'.at = call.at, effects' \in Seq(Entries),
           rendered' \subseteq Surfaces
    PROVE  FInv'
<1>1. FrameTypes'
  BY DEF FInv, FrameTypes
<1>2. Queued' = Queued
  BY QueuedSame
<1>3. FramesKept'
  <2>1. \A f \in FrameIndices : frames'[f].held <= frames'[f].fence
                                /\ frames'[f].fence <= fenceValue'
    BY DEF FInv, FramesKept
  <2>2. \A x \in Queued' : x.ops # <<>> => frames'[x.frame].held = x.fence
    BY <1>2, ItemFields DEF FInv, FramesKept
  <2>3. \A f : Idle(f)' <=> Idle(f)
    BY <1>2 DEF Idle
  <2>4. (call'.op = "record" => Idle(frameIndex)')
        /\ (call'.op = "finish" => \A f \in FrameIndices : f < call'.at => Idle(f)')
    BY <2>3 DEF FInv, FramesKept
  <2> QED BY <2>1, <2>2, <2>4 DEF FramesKept
<1> QED BY <1>1, <1>3 DEF FInv

\* shadps4_d3d12_wait_frame
LEMMA WaitKept ==
    ASSUME FInv, NEW f \in FrameIndices, WaitFrame(f),
           UNCHANGED <<queue, fenceValue, born, address, effects, rendered>>,
           nextFrame' \in FrameIndices, call' \in Calls,
           call'.op = "finish" =>
             call.op = "finish" /\ call.at = f /\ call'.at = f + 1
    PROVE  FInv'
<1>1. Idle(f)
  BY ReachedIdle DEF WaitFrame
<1>2. Queued' = Queued
  BY QueuedSame
<1>3. frames' = [frames EXCEPT ![f] = NoFrame] /\ frameIndex' = f
      /\ frames \in [FrameIndices -> FrameSet] /\ fenceValue \in Nat
  BY DEF WaitFrame, FInv, FrameTypes
<1>4. NoFrame \in FrameSet /\ NoFrame.held = 0 /\ NoFrame.fence = 0
  BY DEF NoFrame, FrameSet
<1>5. FrameTypes'
  BY <1>3, <1>4 DEF FInv, FrameTypes
<1>6. FramesKept'
  <2>1. \A g \in FrameIndices : frames'[g].held <= frames'[g].fence
                                /\ frames'[g].fence <= fenceValue'
    BY <1>3, <1>4 DEF FInv, FramesKept
  <2>2. \A x \in Queued' : x.ops # <<>> => frames'[x.frame].held = x.fence
    BY <1>1, <1>2, <1>3, ItemFields DEF FInv, FramesKept, Idle
  <2>3. \A g : Idle(g)' <=> Idle(g)
    BY <1>2 DEF Idle
  <2>4. call'.op = "record" => Idle(frameIndex')
    BY <1>1, <1>3
  <2>5. call'.op = "finish" => \A g \in FrameIndices : g < call'.at => Idle(g)
    <3> SUFFICES ASSUME call'.op = "finish", NEW g \in FrameIndices, g < f + 1
                 PROVE  Idle(g)
      OBVIOUS
    <3>1. g < f \/ g = f
      BY FramesAssumption DEF FrameIndices
    <3> QED BY <3>1, <1>1 DEF FInv, FramesKept
  <2>6. (call'.op = "record" => Idle(frameIndex)')
    BY <2>4, <2>3, <1>2 DEF Idle
  <2>7. (call'.op = "finish" => \A g \in FrameIndices : g < call'.at => Idle(g)')
    BY <2>3, <2>5
  <2> QED BY <2>1, <2>2, <2>6, <2>7 DEF FramesKept
<1> QED BY <1>5, <1>6 DEF FInv

\* The calls, by what they do.
Plain   == [op : {"finish"}, to : {"nothing", "reset"}, at : 0 .. FrameCount]
OfOne   == [op : {"finish"}, to : {"publish", "read", "register", "pixels"},
            of : Surfaces, at : 0 .. FrameCount]
LEMMA CallShape ==
    ASSUME call \in Calls
    PROVE  /\ call.op = "record" => call \in [op : {"record"}, ops : Seq(Ops)]
           /\ call.op = "finish" => call \in Plain \union OfOne
           /\ AtRest \in Calls /\ AtRest.op = "none"
<1> DEFINE lists == Seq(Ops)
<1>1. call \in {AtRest} \union [op : {"record"}, ops : lists] \union Plain \union OfOne
  BY DEF Calls, Plain, OfOne
<1> HIDE DEF lists
<1>2. /\ call.op = "record" => call \in [op : {"record"}, ops : lists]
      /\ call.op = "finish" => call \in Plain \union OfOne
      /\ AtRest.op = "none"
  BY <1>1 DEF AtRest, Plain, OfOne
<1>3. AtRest \in Calls
  BY DEF Calls
<1> QED BY <1>2, <1>3 DEF lists

\* The buffers and the state of surfaces may change and no call begins.
LEMMA OtherKept ==
    ASSUME FInv, UNCHANGED <<frames, queue, fenceValue, frameIndex, nextFrame, born, address>>,
           call' \in {call, AtRest},
           effects' \in Seq(Entries),
           rendered' \subseteq Surfaces
    PROVE  FInv'
<1>1. frames' \in [FrameIndices -> FrameSet]
  BY DEF FInv, FrameTypes
<1>2. call' \in Calls /\ AtRest.op = "none" /\ born' \in [Bounds -> Births]
  BY CallShape DEF FInv, FrameTypes
<1> QED BY <1>1, <1>2, SameKept

LEMMA GuestStoresInv ==
    ASSUME FInv, NEW a \in Bounds, GuestStores(a) PROVE FInv'
<1>1. effects' \in Seq(Entries)
  BY DEF GuestStores, WithEffect, FInv, FrameTypes, Entries
<1> QED BY <1>1, OtherKept DEF GuestStores, frameRing, surfaceVars, FInv, FrameTypes

LEMMA QuietInv ==
    ASSUME FInv,
           Lost \/ FinishEnd \/ Register \/ ReadEnd \/ \E s \in Surfaces : DrawAgain(s)
    PROVE  FInv'
<1>1. /\ UNCHANGED <<frames, queue, fenceValue, frameIndex, nextFrame, born, address,
                     effects>>
      /\ call' \in {call, AtRest} /\ rendered' \subseteq Surfaces
  BY DEF Lost, FinishEnd, Register, ReadEnd, DrawAgain, frameRing, dataVars, surfaceVars,
         FInv, FrameTypes
<1> QED BY <1>1, OtherKept DEF FInv, FrameTypes

\* A command is recorded.
LEMMA RecordedCall ==
    ASSUME call \in Calls, call.op = "record", NEW op \in Ops, Recorded(op)
    PROVE  call' \in Calls /\ call'.op = "record"
<1> DEFINE lists == Seq(Ops)
<1>1. call \in [op : {"record"}, ops : lists]
  BY CallShape
<1>2. Append(call.ops, op) \in lists
  BY <1>1
<1> HIDE DEF lists
<1>3. call' \in [op : {"record"}, ops : lists]
  BY <1>1, <1>2 DEF Recorded
<1>4. call'.op = "record"
  BY <1>3
<1> QED BY <1>3, <1>4 DEF Calls, lists

LEMMA TransitionInv ==
    ASSUME FInv, NEW s \in Surfaces, NEW state \in {Target, Resource, Shown},
           Transition(s, state)
    PROVE  FInv'
<1>1. [kind |-> "to", surface |-> s, after |-> state] \in Ops
  BY DEF Ops
<1>2. call.op = "record" /\ call \in Calls
  BY DEF Transition, Recording, FInv, FrameTypes
<1>3. call' \in Calls /\ call'.op = "record"
  BY <1>1, <1>2, RecordedCall DEF Transition
<1>4. /\ UNCHANGED <<frames, queue, fenceValue, frameIndex, nextFrame, born, address,
                     effects>>
      /\ rendered' \subseteq Surfaces
  BY DEF Transition, dataVars, FInv, FrameTypes
<1> QED BY <1>2, <1>3, <1>4, SameKept DEF FInv, FrameTypes

LEMMA DispatchInv ==
    ASSUME FInv, NEW b \in Bounds, Dispatch(b)
    PROVE  FInv'
<1>1. PICK by \in Outcomes :
        /\ Recorded([kind |-> "use", bound |-> b, born |-> born'[b], effect |-> Wrote(by)])
        /\ effects' = WithEffect(address[b], by)
  BY DEF Dispatch
<1>2. born \in [Bounds -> Births]
  BY DEF FInv, FrameTypes
<1>3. born' \in [Bounds -> Births]
  <2>1. PICK gone \in Remade :
           born' = [c \in Bounds |-> IF c \in gone THEN born[c] + 1 ELSE born[c]]
    BY DEF Dispatch
  <2>2. CASE "evict" \in FramesPermitted
    BY <1>2, <2>1, <2>2 DEF Births
  <2>3. CASE "evict" \notin FramesPermitted
    BY <1>2, <2>1, <2>3 DEF Births, Remade
  <2> QED BY <2>2, <2>3
<1>4. NextEffect \in Nat /\ effects \in Seq(Entries)
  BY DEF NextEffect, FInv, FrameTypes
<1>5. [kind |-> "use", bound |-> b, born |-> born'[b], effect |-> Wrote(by)] \in Ops
  BY <1>2, <1>3, <1>4 DEF Ops, Wrote
<1>6. call.op = "record" /\ call \in Calls
  BY DEF Dispatch, Recording, FInv, FrameTypes
<1>7. call' \in Calls /\ call'.op = "record"
  BY <1>1, <1>5, <1>6, RecordedCall
<1>8. effects' \in Seq(Entries)
  <2>1. effects' = Append(effects, [on |-> address[b], by |-> by])
    BY <1>1 DEF WithEffect
  <2>2. address[b] \in Bounds /\ by \in {"dispatch", "dropped"}
    BY DEF FInv, FrameTypes, Outcomes
  <2>3. [on |-> address[b], by |-> by] \in Entries
    BY <2>2 DEF Entries
  <2> QED BY <1>4, <2>1, <2>3
<1> DEFINE back == IF b \in Range(frames[frameIndex].back) THEN frames[frameIndex].back
                   ELSE Append(frames[frameIndex].back, b)
           more == [frames[frameIndex] EXCEPT !.back = back]
<1>9. frameIndex \in FrameIndices /\ frames \in [FrameIndices -> FrameSet]
  BY DEF FInv, FrameTypes
<1>10. back \in Seq(Bounds)
  BY <1>9, FrameFields DEF FInv
<1>11. frames' = [frames EXCEPT ![frameIndex] = more]
  BY <1>9 DEF Dispatch
<1> HIDE DEF back
<1>12. more \in FrameSet /\ more.held = frames[frameIndex].held
       /\ more.fence = frames[frameIndex].fence
  <2> DEFINE backs == Seq(Bounds)
  <2>1. frames[frameIndex] \in [held : Nat, fence : Nat, back : backs]
    BY <1>9 DEF FrameSet
  <2>2. back \in backs
    BY <1>10
  <2> HIDE DEF backs
  <2>3. /\ more \in [held : Nat, fence : Nat, back : backs]
        /\ more.held = frames[frameIndex].held /\ more.fence = frames[frameIndex].fence
    BY <2>1, <2>2
  <2> QED BY <2>3 DEF FrameSet, backs
<1> HIDE DEF more
<1>13. /\ frames' \in [FrameIndices -> FrameSet]
       /\ \A f \in FrameIndices :
            frames'[f].held = frames[f].held /\ frames'[f].fence = frames[f].fence
  BY <1>9, <1>11, <1>12
<1>14. UNCHANGED <<queue, fenceValue, frameIndex, nextFrame, address, rendered>>
  BY DEF Dispatch, surfaceVars
<1> QED BY <1>3, <1>6, <1>7, <1>8, <1>13, <1>14, SameKept DEF FInv, FrameTypes

LEMMA SubmitBeginInv == ASSUME FInv, SubmitBegin PROVE FInv'
<1>1. nextFrame \in FrameIndices /\ nextFrame' \in FrameIndices
  BY FramesAssumption DEF SubmitBegin, FInv, FrameTypes, FrameIndices
<1>2. call' \in Calls /\ call'.op # "finish"
  <2>1. [op |-> "record", ops |-> <<>>] \in [op : {"record"}, ops : Seq(Ops)]
    OBVIOUS
  <2>2. [op |-> "record", ops |-> <<>>] \in Calls
    BY <2>1 DEF Calls
  <2>3. AtRest \in Calls /\ AtRest.op = "none"
    BY CallShape DEF FInv, FrameTypes
  <2> QED BY <2>2, <2>3 DEF SubmitBegin
<1>3. WaitFrame(nextFrame)
      /\ UNCHANGED <<queue, fenceValue, born, address, effects, rendered>>
  BY DEF SubmitBegin, surfaceVars
<1> QED BY <1>1, <1>2, <1>3, WaitKept

LEMMA FinishWaitInv == ASSUME FInv, FinishWait PROVE FInv'
<1>1. call.op = "finish" /\ call \in Plain \union OfOne
  BY CallShape DEF FinishWait, FInv, FrameTypes
<1>2. call.at \in FrameIndices /\ WaitFrame(call.at)
  BY <1>1, FramesAssumption DEF FinishWait, FrameIndices, Plain, OfOne
<1>3. call' \in Plain \union OfOne /\ call'.at = call.at + 1
  BY <1>1, <1>2, FramesAssumption DEF FinishWait, Plain, OfOne
<1>4. call' \in Calls
  BY <1>3 DEF Calls, Plain, OfOne
<1>5. nextFrame' \in FrameIndices
      /\ UNCHANGED <<queue, fenceValue, born, address, effects, rendered>>
  BY DEF FinishWait, surfaceVars, FInv, FrameTypes
<1> QED BY <1>1, <1>2, <1>3, <1>4, <1>5, WaitKept

\* shadps4_d3d12_record_writebacks records writebacks, of what the frame holds.
LEMMA WritebackType ==
    ASSUME FInv
    PROVE  /\ WritebackOps \in Seq(Ops)
           /\ DOMAIN WritebackOps = DOMAIN frames[frameIndex].back
           /\ \A i \in DOMAIN WritebackOps : /\ WritebackOps[i].kind = "back"
                                             /\ WritebackOps[i].bound = frames[frameIndex].back[i]
<1> DEFINE back == frames[frameIndex].back
           op(i) == [kind |-> "back", bound |-> back[i], born |-> born[back[i]]]
<1>1. back \in Seq(Bounds) /\ born \in [Bounds -> Births]
  BY FrameFields DEF FInv, FrameTypes
<1>2. \A i \in DOMAIN back : op(i) \in Ops /\ op(i).kind = "back" /\ op(i).bound = back[i]
  BY <1>1 DEF Ops
<1>3. WritebackOps = [i \in DOMAIN back |-> op(i)]
  BY DEF WritebackOps
<1>4. DOMAIN back = 1 .. Len(back) /\ Len(back) \in Nat
  BY <1>1
<1> HIDE DEF back, op
<1>5. WritebackOps \in Seq(Ops) /\ DOMAIN WritebackOps = DOMAIN back
  BY <1>2, <1>3, <1>4
<1>6. \A i \in DOMAIN back : WritebackOps[i].kind = "back" /\ WritebackOps[i].bound = back[i]
  BY <1>2, <1>3
<1> QED BY <1>5, <1>6 DEF back

LEMMA ExecuteListInv == ASSUME FInv, ExecuteList PROVE FInv'
<1>1. /\ call \in [op : {"record"}, ops : Seq(Ops)] /\ call.op = "record"
      /\ AtRest \in Calls /\ AtRest.op = "none"
  BY CallShape DEF ExecuteList, FInv, FrameTypes
<1>2. WritebackOps \in Seq(Ops)
  BY WritebackType
<1>3. call.ops \o WritebackOps \in Seq(Ops)
  BY <1>1, <1>2
<1>4. Idle(frameIndex)
  BY <1>1 DEF FInv, FramesKept
<1>5. /\ ListQueued(call.ops \o WritebackOps) /\ FrameListed /\ call' = AtRest
      /\ UNCHANGED <<frameIndex, nextFrame, born, effects, address, rendered>>
  BY DEF ExecuteList, FrameListed, dataVars, surfaceVars
<1> QED BY <1>1, <1>3, <1>4, <1>5, ListKept DEF FInv, FrameTypes

\* When a finish has ended no frame holds what the GPU uses.
LEMMA FinishedIdle ==
    ASSUME FInv, NEW purpose, Finished(purpose) PROVE Idle(frameIndex)
<1>1. frameIndex \in FrameIndices /\ frameIndex < FrameCount
  BY FramesAssumption DEF FInv, FrameTypes, FrameIndices
<1> QED BY <1>1 DEF Finished, FInv, FramesKept

LEMMA FinishedCall ==
    ASSUME FInv, NEW purpose \in {"publish", "read", "register", "pixels"},
           Finished(purpose)
    PROVE  call \in OfOne /\ call.of \in Surfaces
<1>1. call \in Plain \union OfOne
  BY CallShape DEF Finished, FInv, FrameTypes
<1>2. call \in OfOne
  BY <1>1 DEF Finished, Plain
<1> QED BY <1>2 DEF OfOne

LEMMA PublishSurfaceInv == ASSUME FInv, PublishSurface PROVE FInv'
<1>1. Idle(frameIndex) /\ call.of \in Surfaces
  BY FinishedIdle, FinishedCall DEF PublishSurface
<1>2. /\ call' = AtRest /\ AtRest \in Calls /\ AtRest.op = "none"
      /\ UNCHANGED <<frameIndex, nextFrame, born, effects, address, rendered>>
  BY CallShape DEF PublishSurface, dataVars, FInv, FrameTypes
<1>3. CASE UNCHANGED <<fenceValue, queue, surfaceState, frames>>
  BY <1>2, <1>3, OtherKept DEF FInv, FrameTypes
<1>4. ASSUME NEW ops \in Seq(Ops), ListQueued(ops), FrameListed PROVE FInv'
  BY <1>1, <1>2, <1>4, ListKept DEF FInv, FrameTypes
<1>5. [kind |-> "to", surface |-> call.of, after |-> Shown] \in Ops
  BY <1>1 DEF Ops
<1>6. <<>> \in Seq(Ops)
      /\ <<[kind |-> "to", surface |-> call.of, after |-> Shown]>> \in Seq(Ops)
  BY <1>5
<1> QED
  BY <1>3, <1>4, <1>6 DEF PublishSurface, FrameListed

LEMMA ReadBeginInv == ASSUME FInv, ReadBegin PROVE FInv'
<1>1. Idle(frameIndex) /\ call.of \in Surfaces /\ call \in OfOne
  BY FinishedIdle, FinishedCall DEF ReadBegin
<1>2. /\ AtRest \in Calls /\ AtRest.op = "none"
      /\ UNCHANGED <<frameIndex, nextFrame, born, effects, address, rendered>>
  BY CallShape DEF ReadBegin, dataVars, surfaceVars, FInv, FrameTypes
<1>3. CASE call' = AtRest /\ UNCHANGED <<fenceValue, queue, frames>>
  BY <1>2, <1>3, OtherKept DEF FInv, FrameTypes
<1> DEFINE ops == <<[kind |-> "to", surface |-> call.of, after |-> Source],
                    [kind |-> "to", surface |-> call.of, after |-> Target]>>
<1>4. ops \in Seq(Ops)
  <2>1. /\ [kind |-> "to", surface |-> call.of, after |-> Source] \in Ops
        /\ [kind |-> "to", surface |-> call.of, after |-> Target] \in Ops
    BY <1>1 DEF Ops
  <2> QED BY <2>1
<1> HIDE DEF ops
<1>5. ASSUME ListQueued(ops), FrameListed, call' = [call EXCEPT !.to = "pixels", !.at = 0]
      PROVE  FInv'
  <2>1. call' \in OfOne /\ call'.op = "finish" /\ call'.at = 0
    <3> DEFINE steps == 0 .. FrameCount
    <3>1. 0 \in steps
      BY FramesAssumption
    <3>2. call \in [op : {"finish"}, to : {"publish", "read", "register", "pixels"},
                   of : Surfaces, at : steps]
      BY <1>1 DEF OfOne
    <3> HIDE DEF steps
    <3>3. /\ call' \in [op : {"finish"}, to : {"publish", "read", "register", "pixels"},
                        of : Surfaces, at : steps]
          /\ call'.at = 0
      BY <1>5, <3>1, <3>2
    <3> QED BY <3>3 DEF OfOne, steps
  <2>2. call' \in Calls
    BY <2>1 DEF Calls, OfOne
  <2> QED BY <1>1, <1>2, <1>4, <1>5, <2>1, <2>2, ListKept DEF FInv, FrameTypes
<1> QED
  BY <1>3, <1>5 DEF ReadBegin, FrameListed, ops

LEMMA FramesNextInv ==
    ASSUME FInv, [FramesNext]_frameVars PROVE FInv'
<1>1. CASE UNCHANGED frameVars
  <2>1. /\ UNCHANGED <<frames, queue, fenceValue, frameIndex, nextFrame, born, address,
                       effects, rendered, call>>
    BY <1>1 DEF frameVars, frameRing, dataVars, surfaceVars
  <2> QED BY <2>1, OtherKept DEF FInv, FrameTypes
<1>2. CASE \E a \in Bounds : GuestStores(a)
  BY <1>2, GuestStoresInv
<1>3. CASE \E b \in Bounds : Dispatch(b)
  BY <1>3, DispatchInv
<1>4. CASE \E s \in Surfaces, state \in {Target, Resource, Shown} : Transition(s, state)
  BY <1>4, TransitionInv
<1>5. CASE \E purpose \in Purposes : FinishBegin(purpose)
  BY <1>5, FinishBeginInv
<1> QED
  BY <1>1, <1>2, <1>3, <1>4, <1>5, RunListInv, SubmitBeginInv, ExecuteListInv,
     FinishWaitInv, PublishSurfaceInv, ReadBeginInv, QuietInv DEF FramesNext

LEMMA FInvKept == ASSUME FInv, "evict" \notin FramesPermitted PROVE InFlightKept
<1>1. ASSUME NEW i \in DOMAIN queue, queue[i].ops # <<>>
      PROVE  frames[queue[i].frame].held = queue[i].fence
  BY <1>1 DEF FInv, FramesKept, Queued
<1>2. ASSUME NEW i \in DOMAIN queue, NEW k \in DOMAIN queue[i].ops
      PROVE  BuffersLive(queue[i].ops[k])
  <2> DEFINE lists == Seq(Ops)
  <2>1. queue[i] \in Items
    BY ItemFields DEF FInv, Queued
  <2>2. queue[i].ops \in Seq(Ops)
    BY <2>1 DEF Items
  <2>3. queue[i].ops[k] \in Ops
    BY <2>2
  <2>4. born \in [Bounds -> {0}] /\ Births = {0}
    BY DEF FInv, FrameTypes, Births
  <2> QED BY <2>3, <2>4 DEF Ops, BuffersLive
<1> QED BY <1>1, <1>2 DEF InFlightKept

\* InFlightKept of shadps4_d3d12_submit, _wait_frame and _finish, for any number of
\* frames, surfaces and resources: without a shader that leaves the cache, no list
\* the GPU has not executed loses its allocator, its transients or its buffers.
THEOREM InFlightKeptHolds ==
    ASSUME "evict" \notin FramesPermitted PROVE FramesSpec => []InFlightKept
<1>1. FramesInit => FInv
  BY FramesInitInv
<1>2. FInv /\ [FramesNext]_frameVars => FInv'
  BY FramesNextInv
<1>3. FInv => InFlightKept
  BY FInvKept
<1> QED BY <1>1, <1>2, <1>3, PTL DEF FramesSpec

\* Every set of numbers that is not empty has a first one.
LEMMA LeastNat ==
    ASSUME NEW T \in SUBSET Nat, T # {} PROVE \E x \in T : \A y \in T : x <= y
<1> DEFINE R == OpToRel(<, Nat)
<1>1. IsWellFoundedOn(R, Nat)
  BY NatLessThanWellFounded
<1>2. \A x, y \in Nat : x < y => <<x, y>> \in R
  BY DEF OpToRel
<1> HIDE DEF R
<1>3. PICK x \in T : \A y \in T : ~(<<y, x>> \in R)
  BY <1>1, WFMin
<1>4. \A y \in T : ~(y < x)
  BY <1>2, <1>3
<1> QED BY <1>3, <1>4

\* The greatest of some numbers up to n.
LEMMA Greatest ==
    ASSUME NEW n \in Nat, NEW I \in SUBSET (1 .. n), I # {}
    PROVE  Max(I) \in I /\ \A i \in I : i <= Max(I)
<1> DEFINE T == {n - i : i \in I}
<1>i. \A i \in I : i \in Nat /\ n - i \in Nat
  OBVIOUS
<1>1. T \in SUBSET Nat /\ T # {} /\ \A i \in I : n - i \in T
  BY <1>i
<1>2. PICK x \in T : \A y \in T : x <= y
  BY <1>1, LeastNat
<1>3. PICK k \in I : x = n - k
  BY <1>2
<1> HIDE DEF T
<1>4. ASSUME NEW i \in I PROVE i <= k
  <2>1. n - k <= n - i
    BY <1>1, <1>2, <1>3
  <2> QED BY <1>i, <2>1
<1>5. \E h \in I : \A y \in I : h >= y
  BY <1>4, <1>i
<1> QED BY <1>5, <1>i DEF Max

LEMMA GreatestIs ==
    ASSUME NEW n \in Nat, NEW I \in SUBSET (1 .. n), NEW k \in I, \A i \in I : i <= k
    PROVE  Max(I) = k
<1>1. Max(I) \in I /\ \A i \in I : i <= Max(I)
  BY Greatest
<1>i. I \subseteq Nat
  OBVIOUS
<1>2. Max(I) <= k /\ k <= Max(I) /\ k \in Nat /\ Max(I) \in Nat
  BY <1>1, <1>i
<1> QED BY <1>2

\* Something more in a list: what it does is done last.
LEMMA ListGrows ==
    ASSUME NEW ops \in Seq(Ops), NEW op \in Ops, NEW b
    PROVE  /\ op.kind = "use" /\ op.bound = b =>
                /\ Uses(Append(ops, op), b) # {}
                /\ Max(Uses(Append(ops, op), b)) = Len(ops) + 1
                /\ Append(ops, op)[Len(ops) + 1] = op
           /\ ~(op.kind = "use" /\ op.bound = b) =>
                /\ Uses(Append(ops, op), b) = Uses(ops, b)
                /\ \A i \in Uses(ops, b) : Append(ops, op)[i] = ops[i]
<1> DEFINE more == Append(ops, op)  n == Len(ops) + 1
<1>1. /\ Len(ops) \in Nat /\ Len(more) = n /\ DOMAIN more = 1 .. n /\ DOMAIN ops = 1 .. Len(ops)
      /\ more[n] = op /\ \A i \in 1 .. Len(ops) : more[i] = ops[i]
  OBVIOUS
<1>2. n \in Nat
  BY <1>1
<1> HIDE DEF more, n
<1>3. /\ \A i \in DOMAIN more : i \in DOMAIN ops \/ i = n
      /\ \A i \in DOMAIN ops : i \in DOMAIN more /\ i # n /\ i <= n
      /\ n \in DOMAIN more
  BY <1>1 DEF n
<1>4. ASSUME op.kind = "use", op.bound = b
      PROVE  Uses(more, b) # {} /\ Max(Uses(more, b)) = n
  <2>1. n \in Uses(more, b)
    BY <1>1, <1>3, <1>4 DEF Uses
  <2>2. Uses(more, b) \in SUBSET (1 .. n) /\ \A i \in Uses(more, b) : i <= n
    BY <1>1, <1>2 DEF Uses
  <2> QED BY <1>2, <2>1, <2>2, GreatestIs
<1>5. ASSUME ~(op.kind = "use" /\ op.bound = b)
      PROVE  Uses(more, b) = Uses(ops, b) /\ \A i \in Uses(ops, b) : more[i] = ops[i]
  BY <1>1, <1>3, <1>5 DEF Uses
<1> QED BY <1>1, <1>4, <1>5 DEF more, n

\* The same of the state a texture is left in.
LEMMA StateGrows ==
    ASSUME NEW ops \in Seq(Ops), NEW op \in Ops, NEW s, NEW state
    PROVE  StateIn(Append(ops, op), s, state)
             = IF op.kind = "to" /\ op.surface = s THEN op.after ELSE StateIn(ops, s, state)
<1> DEFINE more == Append(ops, op)  n == Len(ops) + 1
<1>1. /\ Len(ops) \in Nat /\ Len(more) = n /\ DOMAIN more = 1 .. n /\ DOMAIN ops = 1 .. Len(ops)
      /\ more[n] = op /\ \A i \in 1 .. Len(ops) : more[i] = ops[i]
  OBVIOUS
<1>2. n \in Nat
  BY <1>1
<1> HIDE DEF more, n
<1>3. /\ \A i \in DOMAIN more : i \in DOMAIN ops \/ i = n
      /\ \A i \in DOMAIN ops : i \in DOMAIN more /\ i # n /\ i <= n
      /\ n \in DOMAIN more
  BY <1>1 DEF n
<1>6. ASSUME op.kind = "to", op.surface = s PROVE StateIn(more, s, state) = op.after
  <2>1. n \in Barriers(more, s)
    BY <1>1, <1>3, <1>6 DEF Barriers
  <2>2. Barriers(more, s) \in SUBSET (1 .. n) /\ \A i \in Barriers(more, s) : i <= n
    BY <1>1, <1>2 DEF Barriers
  <2>3. Max(Barriers(more, s)) = n
    BY <1>2, <2>1, <2>2, GreatestIs
  <2> QED BY <1>1, <2>1, <2>3 DEF StateIn
<1>7. ASSUME ~(op.kind = "to" /\ op.surface = s)
      PROVE  StateIn(more, s, state) = StateIn(ops, s, state)
  <2>1. Barriers(more, s) = Barriers(ops, s)
    BY <1>1, <1>3, <1>7 DEF Barriers
  <2>2. \A i \in Barriers(ops, s) : more[i] = ops[i]
    BY <1>1 DEF Barriers
  <2>3. CASE Barriers(ops, s) = {}
    BY <2>1, <2>3 DEF StateIn
  <2>4. CASE Barriers(ops, s) # {}
    <3>1. Barriers(ops, s) \in SUBSET (1 .. Len(ops))
      BY <1>1 DEF Barriers
    <3>2. Max(Barriers(ops, s)) \in Barriers(ops, s)
      BY <1>1, <2>4, <3>1, Greatest
    <3> QED BY <2>1, <2>2, <2>4, <3>2 DEF StateIn
  <2> QED BY <2>3, <2>4
<1> QED BY <1>6, <1>7 DEF more

\* A list with the writebacks behind it: they are no dispatches and no barriers.
LEMMA WithWritebacks ==
    ASSUME NEW ops \in Seq(Ops), NEW backs \in Seq(Ops), NEW b,
           \A i \in DOMAIN backs : backs[i].kind = "back"
    PROVE  /\ Uses(ops \o backs, b) = Uses(ops, b)
           /\ \A i \in Uses(ops, b) : (ops \o backs)[i] = ops[i]
           /\ \A i \in DOMAIN backs : backs[i].bound = b =>
                /\ i + Len(ops) \in Backs(ops \o backs, b)
                /\ \A j \in Uses(ops \o backs, b) : j < i + Len(ops)
<1> DEFINE all == ops \o backs
<1>1. /\ Len(ops) \in Nat /\ Len(backs) \in Nat
      /\ DOMAIN all = 1 .. Len(ops) + Len(backs) /\ DOMAIN ops = 1 .. Len(ops)
      /\ DOMAIN backs = 1 .. Len(backs)
      /\ \A i \in 1 .. Len(ops) + Len(backs) :
            all[i] = IF i <= Len(ops) THEN ops[i] ELSE backs[i - Len(ops)]
  BY ConcatProperties
<1> HIDE DEF all
<1>2. \A i \in DOMAIN ops : i \in DOMAIN all /\ all[i] = ops[i]
  BY <1>1
<1>3. ASSUME NEW i \in DOMAIN all, i \notin DOMAIN ops PROVE all[i].kind = "back"
  <2>1. i - Len(ops) \in DOMAIN backs /\ ~(i <= Len(ops))
    BY <1>1, <1>3
  <2> QED BY <1>1, <2>1
<1>4. Uses(all, b) = Uses(ops, b) /\ \A i \in Uses(ops, b) : all[i] = ops[i]
  BY <1>2, <1>3 DEF Uses
<1>6. ASSUME NEW i \in DOMAIN backs, backs[i].bound = b
      PROVE  i + Len(ops) \in Backs(all, b) /\ \A j \in Uses(all, b) : j < i + Len(ops)
  <2>1. /\ i + Len(ops) \in DOMAIN all /\ ~(i + Len(ops) <= Len(ops))
        /\ (i + Len(ops)) - Len(ops) = i
    BY <1>1
  <2>2. all[i + Len(ops)] = backs[i]
    BY <1>1, <2>1
  <2>3. i + Len(ops) \in Backs(all, b)
    BY <1>6, <2>1, <2>2 DEF Backs
  <2>4. \A j \in Uses(ops, b) : j < i + Len(ops)
    BY <1>1 DEF Uses
  <2> QED BY <1>4, <2>3, <2>4
<1> QED BY <1>4, <1>6 DEF all

\* The same of the state a texture is left in.
LEMMA StateWrittenBack ==
    ASSUME NEW ops \in Seq(Ops), NEW backs \in Seq(Ops), NEW s, NEW state,
           \A i \in DOMAIN backs : backs[i].kind = "back"
    PROVE  StateIn(ops \o backs, s, state) = StateIn(ops, s, state)
<1> DEFINE all == ops \o backs
<1>1. /\ Len(ops) \in Nat /\ Len(backs) \in Nat
      /\ DOMAIN all = 1 .. Len(ops) + Len(backs) /\ DOMAIN ops = 1 .. Len(ops)
      /\ DOMAIN backs = 1 .. Len(backs)
      /\ \A i \in 1 .. Len(ops) + Len(backs) :
            all[i] = IF i <= Len(ops) THEN ops[i] ELSE backs[i - Len(ops)]
  BY ConcatProperties
<1> HIDE DEF all
<1>2. \A i \in DOMAIN ops : i \in DOMAIN all /\ all[i] = ops[i]
  BY <1>1
<1>3. ASSUME NEW i \in DOMAIN all, i \notin DOMAIN ops PROVE all[i].kind = "back"
  <2>1. i - Len(ops) \in DOMAIN backs /\ ~(i <= Len(ops))
    BY <1>1, <1>3
  <2> QED BY <1>1, <2>1
<1>5. StateIn(all, s, state) = StateIn(ops, s, state)
  <2>1. Barriers(all, s) = Barriers(ops, s) /\ \A i \in Barriers(ops, s) : all[i] = ops[i]
    BY <1>2, <1>3 DEF Barriers
  <2>2. CASE Barriers(ops, s) = {}
    BY <2>1, <2>2 DEF StateIn
  <2>3. CASE Barriers(ops, s) # {}
    <3>1. Barriers(ops, s) \in SUBSET (1 .. Len(ops))
      BY <1>1 DEF Barriers
    <3>2. Max(Barriers(ops, s)) \in Barriers(ops, s)
      BY <1>1, <2>3, <3>1, Greatest
    <3> QED BY <2>1, <2>3, <3>2 DEF StateIn
  <2> QED BY <2>2, <2>3
<1> QED BY <1>5 DEF all

\* The state the lists of queue q leave a texture in.
Listed(q, s) == {i \in DOMAIN q : Barriers(q[i].ops, s) # {}}
QueueState(q, s, state) ==
    IF Listed(q, s) = {} THEN state ELSE StateIn(q[Max(Listed(q, s))].ops, s, state)

LEMMA StateIs == ASSUME NEW s PROVE StateAfter(s) = QueueState(queue, s, texture[s])
  BY DEF StateAfter, QueueState, Listed

\* A list comes to the end of the queue.
LEMMA StateListed ==
    ASSUME NEW q \in Seq(Items), NEW item \in Items, NEW s, NEW state
    PROVE  QueueState(Append(q, item), s, state) = StateIn(item.ops, s, QueueState(q, s, state))
<1> DEFINE more == Append(q, item)  n == Len(q) + 1
<1>1. /\ Len(q) \in Nat /\ n \in Nat /\ DOMAIN more = 1 .. n /\ DOMAIN q = 1 .. Len(q)
      /\ more[n] = item /\ \A i \in 1 .. Len(q) : more[i] = q[i]
  OBVIOUS
<1> HIDE DEF more, n
<1>2. /\ \A i \in DOMAIN more : i \in DOMAIN q \/ i = n
      /\ \A i \in DOMAIN q : i \in DOMAIN more /\ i <= n
      /\ n \in DOMAIN more /\ n \notin DOMAIN q
  BY <1>1 DEF n
<1>3. CASE Barriers(item.ops, s) = {}
  <2>1. Listed(more, s) = Listed(q, s)
    BY <1>1, <1>2, <1>3 DEF Listed
  <2>2. CASE Listed(q, s) = {}
    BY <1>3, <2>1, <2>2 DEF QueueState, StateIn, more
  <2>3. CASE Listed(q, s) # {}
    <3>1. Listed(q, s) \in SUBSET (1 .. Len(q))
      BY <1>1 DEF Listed
    <3>2. Max(Listed(q, s)) \in Listed(q, s)
      BY <1>1, <2>3, <3>1, Greatest
    <3>3. more[Max(Listed(q, s))] = q[Max(Listed(q, s))]
      BY <1>1, <3>1, <3>2
    <3> QED BY <1>3, <2>1, <2>3, <3>3 DEF QueueState, StateIn, more
  <2> QED BY <2>2, <2>3
<1>4. CASE Barriers(item.ops, s) # {}
  <2>1. n \in Listed(more, s) /\ Listed(more, s) \in SUBSET (1 .. n)
    BY <1>1, <1>2, <1>4 DEF Listed
  <2>2. \A i \in Listed(more, s) : i <= n
    BY <1>1, <1>2 DEF Listed
  <2>3. Max(Listed(more, s)) = n
    BY <1>1, <2>1, <2>2, GreatestIs
  <2>4. QueueState(more, s, state) = StateIn(item.ops, s, state)
    BY <1>1, <2>1, <2>3 DEF QueueState
  <2> QED BY <1>4, <2>4 DEF StateIn, more
<1> QED BY <1>3, <1>4

\* The GPU executes the first list of the queue.
LEMMA StateRun ==
    ASSUME NEW q \in Seq(Items), q # <<>>, NEW s, NEW state
    PROVE  QueueState(Tail(q), s, StateIn(Head(q).ops, s, state)) = QueueState(q, s, state)
<1> DEFINE rest == Tail(q)  n == Len(q)  after == StateIn(Head(q).ops, s, state)
<1>1. /\ n \in Nat /\ n > 0 /\ DOMAIN q = 1 .. n /\ DOMAIN rest = 1 .. n - 1 /\ Head(q) = q[1]
      /\ \A i \in 1 .. n - 1 : rest[i] = q[i + 1]
  OBVIOUS
<1> HIDE DEF rest, n
<1>2. \A i \in Listed(rest, s) : i + 1 \in Listed(q, s)
  BY <1>1 DEF Listed
<1>3. \A i \in Listed(q, s) : i = 1 \/ i - 1 \in Listed(rest, s)
  <2> SUFFICES ASSUME NEW i \in Listed(q, s), i # 1 PROVE i - 1 \in Listed(rest, s)
    OBVIOUS
  <2>1. i \in 1 .. n /\ Barriers(q[i].ops, s) # {}
    BY <1>1 DEF Listed
  <2>2. i - 1 \in 1 .. n - 1 /\ (i - 1) + 1 = i
    BY <1>1, <2>1
  <2> QED BY <1>1, <2>1, <2>2 DEF Listed
<1>4. Listed(q, s) \in SUBSET (1 .. n) /\ Listed(rest, s) \in SUBSET (1 .. n - 1)
  BY <1>1 DEF Listed
<1>5. CASE Listed(rest, s) = {}
  <2>1. QueueState(rest, s, after) = after
    BY <1>5 DEF QueueState
  <2>2. CASE Listed(q, s) = {}
    <3>1. 1 \in DOMAIN q
      BY <1>1
    <3>2. Barriers(q[1].ops, s) = {}
      BY <2>2, <3>1 DEF Listed
    <3> QED BY <1>1, <2>1, <2>2, <3>2 DEF QueueState, StateIn, rest
  <2>3. CASE Listed(q, s) # {}
    <3>1. Max(Listed(q, s)) \in Listed(q, s)
      BY <1>1, <1>4, <2>3, Greatest
    <3>2. Max(Listed(q, s)) = 1
      BY <1>3, <1>5, <3>1
    <3> QED BY <1>1, <2>1, <2>3, <3>2 DEF QueueState, rest
  <2> QED BY <2>2, <2>3
<1>6. CASE Listed(rest, s) # {}
  <2> DEFINE k == Max(Listed(rest, s))
  <2>1. n - 1 \in Nat
    BY <1>1
  <2>2. k \in Listed(rest, s) /\ \A i \in Listed(rest, s) : i <= k
    BY <1>4, <1>6, <2>1, Greatest
  <2> HIDE DEF k
  <2>3. k \in 1 .. n - 1 /\ k + 1 \in Listed(q, s)
    BY <1>2, <1>4, <2>2
  <2>4. ASSUME NEW i \in Listed(q, s) PROVE i <= k + 1
    <3>1. i \in 1 .. n
      BY <1>4
    <3>2. CASE i = 1
      BY <2>3, <3>2
    <3>3. CASE i # 1
      <4>1. i - 1 <= k
        BY <1>3, <2>2, <3>3
      <4> QED BY <2>3, <3>1, <4>1
    <3> QED BY <3>2, <3>3
  <2>5. Max(Listed(q, s)) = k + 1
    BY <1>1, <1>4, <2>3, <2>4, GreatestIs
  <2>6. rest[k] = q[k + 1] /\ Barriers(rest[k].ops, s) # {}
    BY <1>1, <2>2, <2>3 DEF Listed
  <2>7. QueueState(q, s, state) = StateIn(q[k + 1].ops, s, state)
    BY <2>3, <2>5 DEF QueueState
  <2>8. QueueState(rest, s, after) = StateIn(rest[k].ops, s, after)
    BY <1>6 DEF QueueState, k
  <2> QED BY <2>6, <2>7, <2>8 DEF StateIn, rest
<1> QED BY <1>5, <1>6

\* What the surfaces are recorded to be in is what the GPU will find, with what a call
\* has recorded so far; a read back of a surface ends with it a target again.
SurfaceSound(s) ==
    surfaceState[s] = IF call.op = "record" THEN StateIn(call.ops, s, StateAfter(s))
                      ELSE StateAfter(s)
SInv ==
    /\ surfaceState \in [Surfaces -> {Target, Resource, Shown}]
    /\ texture \in [Surfaces -> {Target, Resource, Shown, Source}]
    /\ ready => \A s \in Surfaces :
                  IF call.op = "finish" /\ call.to = "pixels" /\ call.of = s
                  THEN StateAfter(s) = Target ELSE SurfaceSound(s)

\* What a list leaves a texture in is a state, and what it finds if it has no barrier.
LEMMA StateType ==
    ASSUME NEW ops \in Seq(Ops), NEW s, NEW state \in {Target, Resource, Shown, Source}
    PROVE  /\ StateIn(ops, s, state) \in {Target, Resource, Shown, Source}
           /\ StateIn(<<>>, s, state) = state
<1> DEFINE is(x) == x \in {Target, Resource, Shown, Source}
<1>1. Barriers(ops, s) = {} => is(StateIn(ops, s, state))
  BY DEF StateIn
<1>2. ASSUME Barriers(ops, s) # {} PROVE is(StateIn(ops, s, state))
  <2>1. Barriers(ops, s) \in SUBSET (1 .. Len(ops)) /\ Len(ops) \in Nat
    BY DEF Barriers
  <2>2. Max(Barriers(ops, s)) \in Barriers(ops, s)
    BY <1>2, <2>1, Greatest
  <2>3. ops[Max(Barriers(ops, s))] \in Ops /\ ops[Max(Barriers(ops, s))].kind = "to"
    BY <2>2 DEF Barriers
  <2>4. ops[Max(Barriers(ops, s))].after \in {Target, Resource, Shown, Source}
    BY <2>3 DEF Ops
  <2> QED BY <1>2, <2>4 DEF StateIn
<1>3. StateIn(<<>>, s, state) = state
  BY DEF StateIn, Barriers
<1> QED BY <1>1, <1>2, <1>3

\* A list is queued, and the texture is as it was: the surface will be in the state the
\* list leaves it in.
LEMMA SurfaceListed ==
    ASSUME FInv, NEW ops \in Seq(Ops), ListQueued(ops), UNCHANGED texture, NEW s
    PROVE  StateAfter(s)' = StateIn(ops, s, StateAfter(s))
<1> DEFINE item == [fence |-> fenceValue + 1, frame |-> frameIndex, ops |-> ops]
<1>1. item \in Items /\ queue \in Seq(Items) /\ item.ops = ops
  BY DEF FInv, FrameTypes, Items
<1>2. queue' = Append(queue, item)
  BY DEF ListQueued
<1> HIDE DEF item
<1>3. QueueState(Append(queue, item), s, texture[s])
         = StateIn(ops, s, QueueState(queue, s, texture[s]))
  BY <1>1, StateListed
<1>4. StateAfter(s)' = QueueState(queue', s, texture'[s])
  BY DEF StateAfter, QueueState, Listed, StateIn
<1> QED BY <1>2, <1>3, <1>4, StateIs

LEMMA SurfaceKept ==
    ASSUME UNCHANGED <<queue, texture>>, NEW s PROVE StateAfter(s)' = StateAfter(s)
  BY DEF StateAfter, StateIn

LEMMA StateAfterType ==
    ASSUME FInv, SInv, NEW s \in Surfaces
    PROVE  StateAfter(s) \in {Target, Resource, Shown, Source}
<1>1. texture[s] \in {Target, Resource, Shown, Source} /\ queue \in Seq(Items)
  BY DEF SInv, FInv, FrameTypes
<1>2. CASE Listed(queue, s) = {}
  BY <1>1, <1>2, StateIs DEF QueueState
<1>3. CASE Listed(queue, s) # {}
  <2>1. Listed(queue, s) \in SUBSET (1 .. Len(queue)) /\ Len(queue) \in Nat
    BY <1>1 DEF Listed
  <2>2. Max(Listed(queue, s)) \in Listed(queue, s)
    BY <1>3, <2>1, Greatest
  <2>3. queue[Max(Listed(queue, s))] \in Items
    BY <1>1, <2>1, <2>2
  <2>4. queue[Max(Listed(queue, s))].ops \in Seq(Ops)
    BY <2>3 DEF Items
  <2> QED BY <1>1, <1>3, <2>4, StateIs, StateType DEF QueueState
<1> QED BY <1>2, <1>3

\* Steps that leave the surfaces and the queue alone, and begin no list of barriers.
LEMMA SurfaceQuiet ==
    ASSUME SInv, UNCHANGED <<surfaceState, texture, queue>>, ready' => ready,
           \/ UNCHANGED call
           \/ call'.op = "record" /\ call'.ops = <<>> /\ call.op = "none"
           \/ call'.op \notin {"record", "finish"} /\ call.op # "record"
              /\ (call.op = "finish" => call.to # "pixels")
           \/ call'.op = "finish" /\ call'.to # "pixels" /\ call.op = "none"
           \/ /\ call'.op = "finish" /\ call.op = "finish" /\ call'.to = call.to
              /\ call.to = "pixels" => call'.of = call.of
           \/ ~ready'
    PROVE  SInv'
<1>1. \A s : StateAfter(s)' = StateAfter(s)
  BY SurfaceKept
<1>2. \A s, state : StateIn(<<>>, s, state) = state
  BY DEF StateIn, Barriers
<1>3. \A ops, s, state : StateIn(ops, s, state)' = StateIn(ops', s', state')
  BY DEF StateIn, Barriers
<1> QED BY <1>1, <1>2 DEF SInv, SurfaceSound, StateIn

\* The GPU executes a list.
LEMMA RunListSurface == ASSUME FInv, SInv, RunList PROVE SInv'
<1> DEFINE ops == Head(queue).ops
<1>1. /\ queue \in Seq(Items) /\ queue # <<>> /\ queue' = Tail(queue)
      /\ texture' = [s \in Surfaces |-> StateIn(ops, s, texture[s])]
      /\ UNCHANGED <<surfaceState, call, ready>>
  BY DEF RunList, FInv, FrameTypes
<1>2. ops \in Seq(Ops)
  <2>1. Head(queue) \in Items
    BY <1>1
  <2> QED BY <2>1 DEF Items
<1>3. texture' \in [Surfaces -> {Target, Resource, Shown, Source}]
  BY <1>1, <1>2, StateType DEF SInv
<1>4. ASSUME NEW s \in Surfaces PROVE StateAfter(s)' = StateAfter(s)
  <2>1. StateAfter(s)' = QueueState(queue', s, texture'[s])
    BY DEF StateAfter, QueueState, Listed, StateIn
  <2>2. texture'[s] = StateIn(Head(queue).ops, s, texture[s])
    BY <1>1
  <2> QED BY <1>1, <2>1, <2>2, StateRun, StateIs
<1> QED BY <1>1, <1>3, <1>4 DEF SInv, SurfaceSound, StateIn

\* Something is recorded: it changes what a surface will be in, or not.
LEMMA RecordedSurface ==
    ASSUME FInv, SInv, call.op = "record", NEW op \in Ops, Recorded(op),
           UNCHANGED <<texture, queue, ready>>,
           surfaceState' = IF op.kind = "to" THEN [surfaceState EXCEPT ![op.surface] = op.after]
                           ELSE surfaceState,
           op.kind = "to" => op.surface \in Surfaces /\ op.after \in {Target, Resource, Shown}
    PROVE  SInv'
<1> DEFINE lists == Seq(Ops)
<1>1. call \in [op : {"record"}, ops : lists]
  BY CallShape DEF FInv, FrameTypes
<1>2. call.ops \in Seq(Ops) /\ call'.op = "record" /\ call'.ops = Append(call.ops, op)
  BY <1>1 DEF Recorded
<1> HIDE DEF lists
<1>3. \A s \in Surfaces : StateAfter(s)' = StateAfter(s)
  BY SurfaceKept
<1>4. surfaceState' \in [Surfaces -> {Target, Resource, Shown}]
  BY DEF SInv
<1>5. ASSUME ready, NEW s \in Surfaces
      PROVE  surfaceState'[s] = StateIn(Append(call.ops, op), s, StateAfter(s))
  <2>1. surfaceState[s] = StateIn(call.ops, s, StateAfter(s))
    BY <1>5 DEF SInv, SurfaceSound
  <2>2. StateIn(Append(call.ops, op), s, StateAfter(s))
          = IF op.kind = "to" /\ op.surface = s THEN op.after
            ELSE StateIn(call.ops, s, StateAfter(s))
    BY <1>2, StateGrows
  <2> QED BY <2>1, <2>2 DEF SInv
<1>6. ASSUME NEW s, NEW state
      PROVE  StateIn(call.ops, s, state)' = StateIn(call'.ops, s, state')
  BY DEF StateIn, Barriers
<1>7. ASSUME ready, NEW s \in Surfaces PROVE SurfaceSound(s)'
  <2>1. StateIn(call.ops, s, StateAfter(s))' = StateIn(Append(call.ops, op), s, StateAfter(s))
    BY <1>2, <1>3 DEF StateIn, Barriers
  <2> QED BY <1>2, <1>5, <1>7, <2>1 DEF SurfaceSound
<1>8. UNCHANGED <<texture, ready>>
  OBVIOUS
<1> QED BY <1>2, <1>4, <1>7, <1>8 DEF SInv

\* A list of a call that is no read back is queued, and the call ends.
LEMMA QueuedSurface ==
    ASSUME FInv, SInv, NEW ops \in Seq(Ops), ListQueued(ops), UNCHANGED <<texture, ready>>,
           surfaceState' \in [Surfaces -> {Target, Resource, Shown}],
           ready => \A s \in Surfaces : surfaceState'[s] = StateIn(ops, s, StateAfter(s)),
           call'.op # "record", call'.op = "finish" => call'.to # "pixels"
    PROVE  SInv'
<1>1. \A s \in Surfaces : StateAfter(s)' = StateIn(ops, s, StateAfter(s))
  BY SurfaceListed
<1> QED BY <1>1 DEF SInv, SurfaceSound

LEMMA ExecuteListSurface == ASSUME FInv, SInv, ExecuteList PROVE SInv'
<1>1. /\ call \in [op : {"record"}, ops : Seq(Ops)] /\ call.op = "record"
      /\ AtRest.op = "none"
  BY CallShape DEF ExecuteList, FInv, FrameTypes
<1>2. call.ops \in Seq(Ops) /\ WritebackOps \in Seq(Ops)
      /\ \A i \in DOMAIN WritebackOps : WritebackOps[i].kind = "back"
  BY <1>1, WritebackType
<1>3. call.ops \o WritebackOps \in Seq(Ops)
  BY <1>2
<1>4. ASSUME ready, NEW s \in Surfaces
      PROVE  surfaceState[s] = StateIn(call.ops \o WritebackOps, s, StateAfter(s))
  <2>1. surfaceState[s] = StateIn(call.ops, s, StateAfter(s))
    BY <1>1, <1>4 DEF SInv, SurfaceSound
  <2> QED BY <1>2, <2>1, StateWrittenBack
<1>5. /\ ListQueued(call.ops \o WritebackOps) /\ call' = AtRest
      /\ UNCHANGED <<surfaceState, texture, ready>>
  BY DEF ExecuteList, surfaceVars
<1>6. surfaceState' \in [Surfaces -> {Target, Resource, Shown}]
  BY <1>5 DEF SInv
<1> QED BY <1>1, <1>3, <1>4, <1>5, <1>6, QueuedSurface

LEMMA FinishBeginSurface ==
    ASSUME FInv, SInv, NEW purpose \in Purposes, FinishBegin(purpose) PROVE SInv'
<1>1. /\ ListQueued(<<>>) /\ call' = purpose /\ call.op = "none"
      /\ UNCHANGED <<surfaceState, texture, ready>>
  BY DEF FinishBegin, surfaceVars, AtRest
<1>2. purpose.op = "finish" /\ purpose.to # "pixels"
  BY DEF Purposes
<1>3. <<>> \in Seq(Ops) /\ surfaceState' \in [Surfaces -> {Target, Resource, Shown}]
  BY <1>1 DEF SInv
<1>4. ready => \A s \in Surfaces : surfaceState'[s] = StateIn(<<>>, s, StateAfter(s))
  BY <1>1 DEF SInv, SurfaceSound, StateIn, Barriers
<1> QED BY <1>1, <1>2, <1>3, <1>4, QueuedSurface

\* When a finish has ended the GPU has nothing left to do.
LEMMA FinishedState ==
    ASSUME FInv, NEW purpose, Finished(purpose), NEW s PROVE StateAfter(s) = texture[s]
<1>1. ASSUME NEW item \in Queued PROVE item.ops = <<>>
  <2>1. item.frame \in FrameIndices /\ item.frame < FrameCount
    BY ItemFields, FramesAssumption DEF FInv, FrameIndices
  <2>2. Idle(item.frame)
    BY <2>1 DEF Finished, FInv, FramesKept
  <2> QED BY <2>2 DEF Idle
<1>2. Listed(queue, s) = {}
  BY <1>1 DEF Listed, Queued, Barriers
<1> QED BY <1>2, StateIs DEF QueueState

LEMMA RegisterSurface == ASSUME FInv, SInv, Register PROVE SInv'
<1>1. /\ call.of \in Surfaces /\ Finished("register") /\ call' = AtRest /\ AtRest.op = "none"
      /\ surfaceState' = [surfaceState EXCEPT ![call.of] = Target]
      /\ texture' = [texture EXCEPT ![call.of] = Target] /\ UNCHANGED <<queue, ready>>
  BY FinishedCall DEF Register, AtRest
<1>2. \A s \in Surfaces : StateAfter(s) = texture[s]
  BY <1>1, FinishedState
<1>3. \A s \in Surfaces : Listed(queue, s) = {}
  <2>1. ASSUME NEW item \in Queued PROVE item.ops = <<>>
    <3>1. item.frame \in FrameIndices /\ item.frame < FrameCount
      BY ItemFields, FramesAssumption DEF FInv, FrameIndices
    <3>2. Idle(item.frame)
      BY <1>1, <3>1 DEF Finished, FInv, FramesKept
    <3> QED BY <3>2 DEF Idle
  <2> QED BY <2>1 DEF Listed, Queued, Barriers
<1>4. \A s \in Surfaces : StateAfter(s)' = texture'[s]
  BY <1>1, <1>3 DEF StateAfter, Listed
<1>5. ready => \A s \in Surfaces : surfaceState[s] = texture[s]
  BY <1>1, <1>2 DEF Finished, SInv, SurfaceSound
<1>6. /\ surfaceState' \in [Surfaces -> {Target, Resource, Shown}]
      /\ texture' \in [Surfaces -> {Target, Resource, Shown, Source}]
  BY <1>1 DEF SInv
<1>7. ready => \A s \in Surfaces : surfaceState'[s] = texture'[s]
  BY <1>1, <1>5 DEF SInv
<1> QED BY <1>1, <1>4, <1>6, <1>7 DEF SInv, SurfaceSound

\* A list with one barrier, and with two.
LEMMA OneBarrier ==
    ASSUME NEW op \in Ops, op.kind = "to", NEW s, NEW state
    PROVE  StateIn(<<op>>, s, state) = IF s = op.surface THEN op.after ELSE state
<1>1. /\ Len(<<op>>) = 1 /\ <<op>>[1] = op
      /\ \A i \in DOMAIN <<op>> : i = 1
      /\ 1 \in DOMAIN <<op>>
  OBVIOUS
<1>2. CASE s = op.surface
  <2>1. Barriers(<<op>>, s) = {1}
    BY <1>1, <1>2 DEF Barriers
  <2>2. Max({1}) = 1
    BY GreatestIs
  <2> QED BY <1>1, <1>2, <2>1, <2>2 DEF StateIn
<1>3. CASE s # op.surface
  <2>1. Barriers(<<op>>, s) = {}
    BY <1>1, <1>3 DEF Barriers
  <2> QED BY <1>3, <2>1 DEF StateIn
<1> QED BY <1>2, <1>3

LEMMA TwoBarriers ==
    ASSUME NEW op \in Ops, op.kind = "to", NEW last \in Ops, last.kind = "to",
           last.surface = op.surface, NEW s, NEW state
    PROVE  StateIn(<<op, last>>, s, state) = IF s = op.surface THEN last.after ELSE state
<1> DEFINE first == <<op>>
<1>1. first \in Seq(Ops) /\ <<op, last>> = Append(first, last)
  OBVIOUS
<1>2. StateIn(first, s, state) = IF s = op.surface THEN op.after ELSE state
  BY OneBarrier
<1> HIDE DEF first
<1>3. StateIn(Append(first, last), s, state)
        = IF last.kind = "to" /\ last.surface = s THEN last.after ELSE StateIn(first, s, state)
  BY <1>1, StateGrows
<1> QED BY <1>1, <1>2, <1>3

LEMMA PublishSurfaceSurface == ASSUME FInv, SInv, PublishSurface PROVE SInv'
<1> DEFINE op == [kind |-> "to", surface |-> call.of, after |-> Shown]
<1>1. /\ call.of \in Surfaces /\ Finished("publish") /\ call' = AtRest /\ AtRest.op = "none"
      /\ UNCHANGED <<texture, ready>>
  BY FinishedCall DEF PublishSurface, AtRest, surfaceVars
<1>2. ready => \A s \in Surfaces : surfaceState[s] = StateAfter(s)
  BY <1>1 DEF Finished, SInv, SurfaceSound
<1>3. CASE UNCHANGED <<fenceValue, queue, surfaceState, frames>>
  BY <1>1, <1>3, SurfaceQuiet DEF Finished
<1>4. CASE surfaceState[call.of] = Shown /\ ListQueued(<<>>)
           /\ surfaceState' = [surfaceState EXCEPT ![call.of] = Shown]
  <2>1. surfaceState' = surfaceState /\ <<>> \in Seq(Ops)
    BY <1>4 DEF SInv
  <2>2. surfaceState' \in [Surfaces -> {Target, Resource, Shown}]
    BY <2>1 DEF SInv
  <2>3. ready => \A s \in Surfaces : surfaceState'[s] = StateIn(<<>>, s, StateAfter(s))
    BY <1>2, <2>1 DEF StateIn, Barriers
  <2> QED BY <1>1, <1>4, <2>1, <2>2, <2>3, QueuedSurface
<1>5. CASE ListQueued(<<op>>) /\ surfaceState' = [surfaceState EXCEPT ![call.of] = Shown]
  <2>1. op \in Ops /\ <<>> \in Seq(Ops) /\ <<op>> = Append(<<>>, op)
    BY <1>1 DEF Ops
  <2>2. op.kind = "to" /\ op.surface = call.of /\ op.after = Shown
    OBVIOUS
  <2> HIDE DEF op
  <2>3. <<op>> \in Seq(Ops)
    BY <2>1
  <2>4. surfaceState' \in [Surfaces -> {Target, Resource, Shown}]
    BY <1>1, <1>5 DEF SInv
  <2>5. ASSUME ready, NEW s \in Surfaces
        PROVE  surfaceState'[s] = StateIn(<<op>>, s, StateAfter(s))
    <3>1. StateIn(<<op>>, s, StateAfter(s))
            = IF s = op.surface THEN op.after ELSE StateAfter(s)
      BY <2>1, <2>2, OneBarrier
    <3>2. surfaceState'[s] = IF s = call.of THEN Shown ELSE surfaceState[s]
      BY <1>1, <1>5 DEF SInv
    <3> QED BY <1>2, <2>2, <2>5, <3>1, <3>2
  <2> QED BY <1>1, <1>5, <2>3, <2>4, <2>5, QueuedSurface
<1> QED BY <1>3, <1>4, <1>5 DEF PublishSurface

LEMMA ReadBeginSurface == ASSUME FInv, SInv, ReadBegin PROVE SInv'
<1> DEFINE op == [kind |-> "to", surface |-> call.of, after |-> Source]
           last == [kind |-> "to", surface |-> call.of, after |-> Target]
<1>1. /\ call \in OfOne /\ call.of \in Surfaces /\ Finished("read") /\ AtRest.op = "none"
      /\ UNCHANGED <<surfaceState, texture, ready>>
  BY FinishedCall DEF ReadBegin, AtRest, surfaceVars
<1>2. ready => \A s \in Surfaces : surfaceState[s] = StateAfter(s)
  BY <1>1 DEF Finished, SInv, SurfaceSound
<1>3. CASE call' = AtRest /\ UNCHANGED <<fenceValue, queue, frames>>
  BY <1>1, <1>3, SurfaceQuiet DEF Finished
<1>4. CASE ListQueued(<<op, last>>) /\ call' = [call EXCEPT !.to = "pixels", !.at = 0]
  <2>1. op \in Ops /\ last \in Ops
    BY <1>1 DEF Ops
  <2>2. /\ op.kind = "to" /\ op.surface = call.of
        /\ last.kind = "to" /\ last.surface = call.of /\ last.after = Target
    OBVIOUS
  <2> HIDE DEF op, last
  <2>3. <<op, last>> \in Seq(Ops)
    BY <2>1
  <2>4. ASSUME NEW s \in Surfaces
        PROVE  StateAfter(s)' = IF s = call.of THEN Target ELSE StateAfter(s)
    <3>1. StateAfter(s)' = StateIn(<<op, last>>, s, StateAfter(s))
      BY <1>1, <1>4, <2>3, SurfaceListed
    <3>2. StateIn(<<op, last>>, s, StateAfter(s))
            = IF s = op.surface THEN last.after ELSE StateAfter(s)
      BY <2>1, <2>2, TwoBarriers
    <3> QED BY <2>2, <3>1, <3>2
  <2>5. call'.op = "finish" /\ call'.to = "pixels" /\ call'.of = call.of
    BY <1>1, <1>4 DEF OfOne
  <2> QED BY <1>1, <1>2, <2>4, <2>5 DEF SInv, SurfaceSound
<1> QED BY <1>3, <1>4 DEF ReadBegin

LEMMA ReadEndSurface == ASSUME FInv, SInv, ReadEnd PROVE SInv'
<1>1. /\ call.of \in Surfaces /\ Finished("pixels") /\ call' = AtRest /\ AtRest.op = "none"
      /\ UNCHANGED <<queue, texture, ready>>
      /\ surfaceState' = [surfaceState EXCEPT ![call.of] = Target]
  BY FinishedCall DEF ReadEnd, AfterRead, AtRest
<1>2. \A s \in Surfaces : StateAfter(s)' = StateAfter(s)
  BY <1>1, SurfaceKept
<1> QED BY <1>1, <1>2 DEF SInv, SurfaceSound, Finished

LEMMA TransitionSurface ==
    ASSUME FInv, SInv, NEW s \in Surfaces, NEW state \in {Target, Resource, Shown},
           Transition(s, state)
    PROVE  SInv'
<1> DEFINE op == [kind |-> "to", surface |-> s, after |-> state]
<1>1. op \in Ops /\ op.kind = "to" /\ op.surface = s /\ op.after = state
  BY DEF Ops
<1>2. /\ call.op = "record" /\ Recorded(op) /\ UNCHANGED <<texture, queue, ready>>
      /\ surfaceState' = [surfaceState EXCEPT ![s] = state]
  BY DEF Transition, Recording
<1> HIDE DEF op
<1> QED BY <1>1, <1>2, RecordedSurface

LEMMA DispatchSurface ==
    ASSUME FInv, SInv, NEW b \in Bounds, Dispatch(b) PROVE SInv'
<1>p. PICK by \in Outcomes :
        Recorded([kind |-> "use", bound |-> b, born |-> born'[b], effect |-> Wrote(by)])
  BY DEF Dispatch
<1> DEFINE op == [kind |-> "use", bound |-> b, born |-> born'[b], effect |-> Wrote(by)]
<1>1. op \in Ops
  <2>1. born' \in [Bounds -> Births]
    BY DispatchInv DEF FInv, FrameTypes
  <2>2. NextEffect \in Nat
    BY DEF NextEffect, FInv, FrameTypes
  <2> QED BY <2>1, <2>2 DEF Ops, Wrote
<1>2. /\ call.op = "record" /\ Recorded(op) /\ op.kind = "use"
      /\ UNCHANGED <<texture, queue, ready, surfaceState>>
  BY <1>p DEF Dispatch, Recording, surfaceVars
<1> HIDE DEF op
<1> QED BY <1>1, <1>2, RecordedSurface

\* The calls that change no surface and begin no barrier.
LEMMA QuietSurface ==
    ASSUME FInv, SInv,
           \/ \E a \in Bounds : GuestStores(a)
           \/ \E s \in Surfaces : DrawAgain(s)
           \/ SubmitBegin \/ FinishWait \/ FinishEnd \/ Lost
           \/ UNCHANGED frameVars
    PROVE  SInv'
<1>1. CASE \E a \in Bounds : GuestStores(a)
  BY <1>1, SurfaceQuiet DEF GuestStores, frameRing, surfaceVars
<1>2. CASE \E s \in Surfaces : DrawAgain(s)
  BY <1>2, SurfaceQuiet DEF DrawAgain, frameRing
<1>3. CASE SubmitBegin
  <2>1. call.op = "none" /\ UNCHANGED <<surfaceState, texture, queue, ready>>
    BY <1>3 DEF SubmitBegin, surfaceVars, AtRest
  <2>2. \/ UNCHANGED call
        \/ call'.op = "record" /\ call'.ops = <<>>
    BY <1>3 DEF SubmitBegin
  <2> QED BY <2>1, <2>2, SurfaceQuiet
<1>4. CASE FinishWait
  <2>1. call \in Plain \union OfOne /\ call.op = "finish"
    BY <1>4, CallShape DEF FinishWait, FInv, FrameTypes
  <2>2. /\ call'.op = "finish" /\ call'.to = call.to
        /\ call.to = "pixels" => call'.of = call.of
    BY <1>4, <2>1 DEF FinishWait, Plain, OfOne
  <2>3. UNCHANGED <<surfaceState, texture, queue, ready>>
    BY <1>4 DEF FinishWait, surfaceVars
  <2> QED BY <2>1, <2>2, <2>3, SurfaceQuiet
<1>5. CASE FinishEnd
  <2>1. /\ call.op = "finish" /\ call.to # "pixels" /\ call' = AtRest /\ AtRest.op = "none"
        /\ UNCHANGED <<surfaceState, texture, queue, ready>>
    BY <1>5 DEF FinishEnd, Finished, AtRest
  <2> QED BY <2>1, SurfaceQuiet
<1>6. CASE Lost
  BY <1>6, SurfaceQuiet DEF Lost, surfaceVars
<1>7. CASE UNCHANGED frameVars
  BY <1>7, SurfaceQuiet DEF frameVars, frameRing, surfaceVars
<1> QED BY <1>1, <1>2, <1>3, <1>4, <1>5, <1>6, <1>7

LEMMA SurfaceInit == ASSUME FramesInit PROVE SInv
<1>1. queue = <<>> /\ call.op = "none" /\ texture = [s \in Surfaces |-> Target]
      /\ surfaceState = [s \in Surfaces |-> Target]
  BY DEF FramesInit, AtRest
<1>2. \A s \in Surfaces : Listed(queue, s) = {}
  BY <1>1 DEF Listed
<1>3. \A s \in Surfaces : StateAfter(s) = texture[s]
  BY <1>2, StateIs DEF QueueState
<1> QED BY <1>1, <1>3 DEF SInv, SurfaceSound

LEMMA SurfaceNext == ASSUME FInv, SInv, [FramesNext]_frameVars PROVE SInv'
<1>1. CASE \E b \in Bounds : Dispatch(b)
  BY <1>1, DispatchSurface
<1>2. CASE \E s \in Surfaces, state \in {Target, Resource, Shown} : Transition(s, state)
  BY <1>2, TransitionSurface
<1>3. CASE \E purpose \in Purposes : FinishBegin(purpose)
  BY <1>3, FinishBeginSurface
<1> QED
  BY <1>1, <1>2, <1>3, QuietSurface, RunListSurface, ExecuteListSurface, RegisterSurface,
     PublishSurfaceSurface, ReadBeginSurface, ReadEndSurface DEF FramesNext

\* Lockstep of shadps4_d3d12_transition_surface, _publish_surface and _read_surface, for
\* any number of frames, surfaces and lists and whatever fails on the way: between two
\* calls the recorded state of a surface is the one the GPU will find its texture in.
THEOREM LockstepHolds == FramesSpec => []Lockstep
<1>1. FramesInit => FInv /\ SInv
  BY FramesInitInv, SurfaceInit
<1>2. FInv /\ SInv /\ [FramesNext]_frameVars => (FInv /\ SInv)'
  BY FramesNextInv, SurfaceNext
<1>3. FInv /\ SInv => Lockstep
  BY DEF SInv, SurfaceSound, Lockstep, AtRest
<1> QED BY <1>1, <1>2, <1>3, PTL DEF FramesSpec

\* Where the newest copy of buffer b is, for which the GPU writes n: in the list call c
\* records, in a list of queue q that writes it back, or, executed, in the readback of
\* its resource together with what was uploaded.
LastUse(ops, b, n) == Uses(ops, b) # {} /\ ops[Max(Uses(ops, b))].effect = n
Written(ops, b)    == Backs(ops, b) # {} /\ Max(Uses(ops, b)) < Max(Backs(ops, b))
NoUses(q, b)       == \A i \in DOMAIN q : Uses(q[i].ops, b) = {}
QueueHolds(q, fs, b, n) ==
    \E i \in DOMAIN q :
      /\ LastUse(q[i].ops, b, n) /\ Written(q[i].ops, b)
      /\ b \in Range(fs[q[i].frame].back)
      /\ \A j \in DOMAIN q : j > i => Uses(q[j].ops, b) = {}
Calling(c, b)  == c.op = "record" /\ Uses(c.ops, b) # {}
Flying(fs, b)  == \E f \in FrameIndices : b \in Range(fs[f].back)
HeldIn(c, q, fs, up, gpu, back, mem, b, n) ==
    IF Calling(c, b) THEN LastUse(c.ops, b, n)
    ELSE \/ QueueHolds(q, fs, b, n)
         \/ /\ NoUses(q, b) /\ up \union n \subseteq gpu /\ up \union n \subseteq back
            /\ Flying(fs, b) \/ up \union n \subseteq mem
\* The newest copy of b, and what the GPU writes for it.
Newest(b) == {n \in CopiesOf(b) : \A m \in CopiesOf(b) : m <= n}
Last(b)   == {{n} \intersect EffectsOn(b) : n \in Newest(b)}

\* A buffer nobody touched while it was in flight, every effect of which is in all: one
\* frame will write it back, and what it will write is all.
Whole(c, q, fs, up, gpu, back, mem, all, last, b) ==
    /\ \A f, g \in FrameIndices :
         b \in Range(fs[f].back) /\ b \in Range(fs[g].back) => f = g
    /\ ~Flying(fs, b) => mem = all
    /\ Flying(fs, b) => /\ \E n \in last : all = up \union n
                        /\ ~Calling(c, b) /\ NoUses(q, b) => gpu = all /\ back = all

\* What a call records is of the frame it records for, which it has not signalled yet.
CallSound(c, fs, fi) ==
    c.op = "record" => \A k \in DOMAIN c.ops :
                         c.ops[k].kind = "use" => c.ops[k].bound \in Range(fs[fi].back)
Fenced(c, fs, fi) ==
    \A f \in FrameIndices :
      fs[f].back # <<>> => fs[f].fence # 0 \/ (c.op = "record" /\ f = fi)

BufferHeld(b) ==
    /\ \A n \in Last(b) :
         HeldIn(call, queue, frames, uploads[b], onGpu[b], readbacks[b], guest[b], b, n)
    /\ b \in alone => Whole(call, queue, frames, uploads[b], onGpu[b], readbacks[b], guest[b],
                            EffectsOn(b), Last(b), b)
BInv ==
    /\ DOMAIN guest = Bounds /\ DOMAIN uploads = Bounds /\ address = [b \in Bounds |-> b]
    /\ ready => /\ CallSound(call, frames, frameIndex) /\ Fenced(call, frames, frameIndex)
                /\ \A b \in Bounds : BufferHeld(b)
    /\ found = uploads

\* What has to be shown of a step.
LEMMA BufferThen ==
    ASSUME NEW b,
           \A n \in Last(b)' :
             HeldIn(call', queue', frames', uploads'[b], onGpu'[b], readbacks'[b], guest'[b], b, n),
           b \in alone' => Whole(call', queue', frames', uploads'[b], onGpu'[b], readbacks'[b],
                                 guest'[b], EffectsOn(b)', Last(b)', b)
    PROVE  BufferHeld(b)'
BY DEF BufferHeld, HeldIn, Whole, Calling, Flying, QueueHolds, NoUses, Written, LastUse,
       Uses, Backs

LEMMA BuffersThen ==
    ASSUME DOMAIN guest' = Bounds, DOMAIN uploads' = Bounds, address' = [b \in Bounds |-> b],
           found' = uploads',
           ready' => /\ CallSound(call', frames', frameIndex')
                     /\ Fenced(call', frames', frameIndex')
                     /\ \A b \in Bounds : BufferHeld(b)'
    PROVE  BInv'
BY DEF BInv, CallSound, Fenced

\* A store, a dispatch or a dropped one more.
LEMMA EffectsGrow ==
    ASSUME FInv, NEW a \in Bounds, NEW by \in {"store", "dispatch", "dropped"},
           effects' = WithEffect(a, by), NEW b
    PROVE  /\ EffectsOn(b)' = EffectsOn(b) \union
                               IF b = a /\ by # "dropped" THEN {NextEffect} ELSE {}
           /\ b = a /\ by # "store" =>
                Last(b)' = {IF by = "dispatch" THEN {NextEffect} ELSE {}}
           /\ ~(b = a /\ by # "store") => Last(b)' = Last(b)
<1> DEFINE e == [on |-> a, by |-> by]  n == Len(effects) + 1
<1>1. /\ effects' = Append(effects, e) /\ NextEffect = n
      /\ effects \in Seq(Entries) /\ e \in Entries
      /\ e.on = a /\ e.by = by
  BY DEF WithEffect, NextEffect, FInv, FrameTypes, Entries
<1> HIDE DEF e
<1>2. /\ Len(effects) \in Nat /\ DOMAIN effects = 1 .. Len(effects) /\ DOMAIN effects' = 1 .. n
      /\ effects'[n] = e /\ \A i \in 1 .. Len(effects) : effects'[i] = effects[i]
  BY <1>1
<1>3. /\ \A i \in DOMAIN effects' : i \in DOMAIN effects \/ i = n
      /\ \A i \in DOMAIN effects : i \in DOMAIN effects' /\ i <= n /\ i # n /\ ~(n <= i)
      /\ n \in DOMAIN effects' /\ n <= n
  BY <1>2
<1> HIDE DEF n
<1>4. EffectsOn(b)' = EffectsOn(b) \union IF b = a /\ by # "dropped" THEN {n} ELSE {}
  BY <1>1, <1>2, <1>3 DEF EffectsOn
<1>5. CopiesOf(b)' = CopiesOf(b) \union IF b = a /\ by # "store" THEN {n} ELSE {}
  BY <1>1, <1>2, <1>3 DEF CopiesOf
<1>6. /\ \A i \in CopiesOf(b) : i \in DOMAIN effects
      /\ n \notin EffectsOn(b)
  BY <1>3 DEF CopiesOf, EffectsOn
<1>7. b = a /\ by # "store" => Last(b)' = {IF by = "dispatch" THEN {n} ELSE {}}
  <2> SUFFICES ASSUME b = a, by # "store"
               PROVE  Last(b)' = {IF by = "dispatch" THEN {n} ELSE {}}
    OBVIOUS
  <2>1. Newest(b)' = {n}
    BY <1>3, <1>5, <1>6 DEF Newest
  <2>2. {n} \intersect EffectsOn(b)' = IF by = "dispatch" THEN {n} ELSE {}
    BY <1>4, <1>6
  <2> QED BY <2>1, <2>2 DEF Last
<1>8. ~(b = a /\ by # "store") => Last(b)' = Last(b)
  <2> SUFFICES ASSUME ~(b = a /\ by # "store") PROVE Last(b)' = Last(b)
    OBVIOUS
  <2>1. Newest(b)' = Newest(b)
    BY <1>5 DEF Newest
  <2>2. \A i \in Newest(b) : i # n
    BY <1>3, <1>6 DEF Newest
  <2>3. \A i \in Newest(b) : {i} \intersect EffectsOn(b)' = {i} \intersect EffectsOn(b)
    BY <1>4, <2>2
  <2> QED BY <2>1, <2>3 DEF Last
<1> QED BY <1>1, <1>4, <1>7, <1>8

LEMMA EffectsSame ==
    ASSUME UNCHANGED effects, NEW b PROVE EffectsOn(b)' = EffectsOn(b) /\ Last(b)' = Last(b)
BY DEF EffectsOn, CopiesOf, Newest, Last

\* What the GPU leaves in a resource, and in its readback.
LEMMA ContentsIs ==
    ASSUME NEW ops, NEW b, NEW n, \A i \in Uses(ops, b) : i <= n
    PROVE  Contents(ops, b, n) = IF Uses(ops, b) = {} THEN onGpu[b]
                                 ELSE uploads[b] \union ops[Max(Uses(ops, b))].effect
<1>1. {i \in Uses(ops, b) : i <= n} = Uses(ops, b)
  OBVIOUS
<1> QED BY <1>1 DEF Contents

LEMMA RunData ==
    ASSUME FInv, RunList, NEW b \in Bounds
    PROVE  LET ops == Head(queue).ops IN
           /\ Uses(ops, b) = {} => /\ onGpu'[b] = onGpu[b]
                                   /\ readbacks'[b] \in {readbacks[b], onGpu[b]}
           /\ \A n : LastUse(ops, b, n) => onGpu'[b] = uploads[b] \union n
           /\ \A n : LastUse(ops, b, n) /\ Written(ops, b) =>
                readbacks'[b] = uploads[b] \union n
<1> DEFINE ops == Head(queue).ops
<1>1. Head(queue) \in Items
  BY DEF RunList, FInv, FrameTypes
<1>2. ops \in Seq(Ops)
  BY <1>1 DEF Items
<1>3. /\ onGpu'[b] = Contents(ops, b, Len(ops))
      /\ readbacks'[b] = IF Backs(ops, b) = {} THEN readbacks[b]
                         ELSE Contents(ops, b, Max(Backs(ops, b)))
  BY DEF RunList
<1> HIDE DEF ops
<1>4. /\ Len(ops) \in Nat /\ Uses(ops, b) \in SUBSET (1 .. Len(ops))
      /\ Backs(ops, b) \in SUBSET (1 .. Len(ops)) /\ \A i \in Uses(ops, b) : i <= Len(ops)
  BY <1>2 DEF Uses, Backs
<1>5. onGpu'[b] = IF Uses(ops, b) = {} THEN onGpu[b]
                  ELSE uploads[b] \union ops[Max(Uses(ops, b))].effect
  BY <1>3, <1>4, ContentsIs
<1>6. CASE Uses(ops, b) = {}
  <2>1. Contents(ops, b, Max(Backs(ops, b))) = onGpu[b]
    BY <1>6, ContentsIs
  <2> QED BY <1>3, <1>5, <1>6, <2>1 DEF LastUse, ops
<1>7. CASE Uses(ops, b) # {}
  <2>u. Max(Uses(ops, b)) \in Uses(ops, b) /\ \A i \in Uses(ops, b) : i <= Max(Uses(ops, b))
    BY <1>4, <1>7, Greatest
  <2>1. Max(Uses(ops, b)) \in Nat /\ \A i \in Uses(ops, b) : i <= Max(Uses(ops, b)) /\ i \in Nat
    BY <1>4, <2>u
  <2>2. ASSUME Written(ops, b)
        PROVE  readbacks'[b] = uploads[b] \union ops[Max(Uses(ops, b))].effect
    <3>b. Backs(ops, b) # {} /\ Max(Uses(ops, b)) < Max(Backs(ops, b))
      BY <2>2 DEF Written
    <3>c. Max(Backs(ops, b)) \in Backs(ops, b)
      BY <1>4, <3>b, Greatest
    <3>1. Max(Backs(ops, b)) \in Nat /\ Max(Uses(ops, b)) < Max(Backs(ops, b))
      BY <1>4, <3>b, <3>c
    <3>2. \A i \in Uses(ops, b) : i <= Max(Backs(ops, b))
      BY <2>1, <3>1
    <3>3. Contents(ops, b, Max(Backs(ops, b)))
            = uploads[b] \union ops[Max(Uses(ops, b))].effect
      BY <1>7, <3>2, ContentsIs
    <3> QED BY <1>3, <2>2, <3>3 DEF Written
  <2> QED BY <1>5, <1>7, <2>2 DEF LastUse, ops
<1> QED BY <1>6, <1>7

\* The GPU executes the first list of the queue.
LEMMA RunListBuffers ==
    ASSUME FInv, BInv, RunList PROVE BInv'
<1> DEFINE ops == Head(queue).ops  n == Len(queue)  rest == Tail(queue)
<1>1. /\ queue \in Seq(Items) /\ queue # <<>> /\ queue' = Tail(queue)
      /\ UNCHANGED <<frames, frameIndex, call, ready, uploads, address, guest, effects, found,
                     alone>>
  BY DEF RunList, FInv, FrameTypes
<1>2. /\ n \in Nat /\ n > 0 /\ DOMAIN queue = 1 .. n /\ DOMAIN rest = 1 .. n - 1
      /\ Head(queue) = queue[1] /\ \A i \in 1 .. n - 1 : rest[i] = queue[i + 1]
  BY <1>1
<1>3. ASSUME ready, NEW b \in Bounds PROVE BufferHeld(b)'
  <2>1. /\ Uses(ops, b) = {} => /\ onGpu'[b] = onGpu[b]
                                /\ readbacks'[b] \in {readbacks[b], onGpu[b]}
        /\ \A k : LastUse(ops, b, k) => onGpu'[b] = uploads[b] \union k
        /\ \A k : LastUse(ops, b, k) /\ Written(ops, b) => readbacks'[b] = uploads[b] \union k
    BY RunData
  <2>2. EffectsOn(b)' = EffectsOn(b) /\ Last(b)' = Last(b)
    BY <1>1, EffectsSame
  <2>3. BufferHeld(b)
    BY <1>3 DEF BInv
  <2> HIDE DEF ops, rest, n
  <2>4. 1 \in DOMAIN queue /\ ops = queue[1].ops
    BY <1>2 DEF ops
  <2>q. queue' = rest
    BY <1>1 DEF rest
  <2>5. NoUses(queue, b) => Uses(ops, b) = {} /\ NoUses(rest, b)
    <3> SUFFICES ASSUME NoUses(queue, b) PROVE NoUses(rest, b)
      BY <2>4 DEF NoUses
    <3>1. ASSUME NEW i \in DOMAIN rest PROVE Uses(rest[i].ops, b) = {}
      <4>1. i + 1 \in DOMAIN queue /\ rest[i] = queue[i + 1]
        BY <1>2
      <4> QED BY <4>1 DEF NoUses
    <3> QED BY <3>1 DEF NoUses
  \* A list that held the newest dispatch is the one executed, or still queued.
  <2>6. ASSUME NEW k, QueueHolds(queue, frames, b, k)
        PROVE  \/ /\ LastUse(ops, b, k) /\ Written(ops, b) /\ NoUses(rest, b)
                  /\ Flying(frames, b)
               \/ QueueHolds(rest, frames, b, k) /\ ~NoUses(rest, b)
    <3>1. PICK i \in DOMAIN queue :
             /\ LastUse(queue[i].ops, b, k) /\ Written(queue[i].ops, b)
             /\ b \in Range(frames[queue[i].frame].back)
             /\ \A j \in DOMAIN queue : j > i => Uses(queue[j].ops, b) = {}
      BY <2>6 DEF QueueHolds
    <3>2. CASE i = 1
      <4>1. ASSUME NEW j \in DOMAIN rest PROVE Uses(rest[j].ops, b) = {}
        <5>1. j + 1 \in DOMAIN queue /\ j + 1 > 1 /\ rest[j] = queue[j + 1]
          BY <1>2
        <5> QED BY <3>1, <3>2, <5>1
      <4>2. queue[i].frame \in FrameIndices
        BY <3>1, ItemFields DEF Queued, FInv
      <4> QED BY <2>4, <3>1, <3>2, <4>1, <4>2 DEF NoUses, Flying
    <3>3. CASE i # 1
      <4> DEFINE h == i - 1
      <4>1. h \in DOMAIN rest /\ rest[h] = queue[i]
        <5>1. i - 1 \in 1 .. n - 1 /\ (i - 1) + 1 = i
          BY <1>2, <3>1, <3>3
        <5> QED BY <1>2, <5>1
      <4>2. ASSUME NEW j \in DOMAIN rest, j > h PROVE Uses(rest[j].ops, b) = {}
        <5>1. j + 1 \in DOMAIN queue /\ j + 1 > i /\ rest[j] = queue[j + 1]
          BY <1>2, <3>1, <4>2
        <5> QED BY <3>1, <5>1
      <4> HIDE DEF h
      <4>3. Uses(rest[h].ops, b) # {}
        BY <3>1, <4>1 DEF LastUse
      <4> QED BY <3>1, <4>1, <4>2, <4>3 DEF QueueHolds, NoUses
    <3> QED BY <3>2, <3>3
  <2>7. ASSUME NEW k \in Last(b)
        PROVE  HeldIn(call, rest, frames, uploads[b], onGpu'[b], readbacks'[b], guest[b], b, k)
    <3>1. HeldIn(call, queue, frames, uploads[b], onGpu[b], readbacks[b], guest[b], b, k)
      BY <2>3 DEF BufferHeld
    <3>2. QueueHolds(queue, frames, b, k) =>
             \/ QueueHolds(rest, frames, b, k)
             \/ /\ NoUses(rest, b) /\ Flying(frames, b)
                /\ uploads[b] \union k \subseteq onGpu'[b]
                /\ uploads[b] \union k \subseteq readbacks'[b]
      BY <2>1, <2>6
    <3>3. /\ NoUses(queue, b)
          /\ uploads[b] \union k \subseteq onGpu[b] /\ uploads[b] \union k \subseteq readbacks[b]
          => /\ NoUses(rest, b)
             /\ uploads[b] \union k \subseteq onGpu'[b]
             /\ uploads[b] \union k \subseteq readbacks'[b]
      BY <2>1, <2>5
    <3> QED BY <3>1, <3>2, <3>3 DEF HeldIn
  <2>8. ASSUME b \in alone
        PROVE  Whole(call, rest, frames, uploads[b], onGpu'[b], readbacks'[b], guest[b],
                     EffectsOn(b), Last(b), b)
    <3>1. Whole(call, queue, frames, uploads[b], onGpu[b], readbacks[b], guest[b],
                EffectsOn(b), Last(b), b)
      BY <2>3, <2>8 DEF BufferHeld
    <3>2. ASSUME Flying(frames, b), ~Calling(call, b), NoUses(rest, b)
          PROVE  onGpu'[b] = EffectsOn(b) /\ readbacks'[b] = EffectsOn(b)
      <4>1. PICK k \in Last(b) : EffectsOn(b) = uploads[b] \union k
        BY <3>1, <3>2 DEF Whole
      <4>2. HeldIn(call, queue, frames, uploads[b], onGpu[b], readbacks[b], guest[b], b, k)
        BY <2>3, <4>1 DEF BufferHeld
      <4>3. CASE QueueHolds(queue, frames, b, k)
        BY <2>1, <2>6, <3>2, <4>1, <4>3
      <4>4. CASE NoUses(queue, b)
        BY <2>1, <2>5, <3>1, <3>2, <4>4 DEF Whole
      <4> QED BY <3>2, <4>2, <4>3, <4>4 DEF HeldIn
    <3> QED BY <3>1, <3>2 DEF Whole
  <2> QED BY <1>1, <2>q, <2>2, <2>7, <2>8, BufferThen
<1> QED BY <1>1, <1>3, BuffersThen DEF BInv

\* A list comes to the end of the queue.
LEMMA QueueGrows ==
    ASSUME NEW q \in Seq(Items), NEW item \in Items, NEW fs, NEW b
    PROVE  /\ NoUses(Append(q, item), b) <=> NoUses(q, b) /\ Uses(item.ops, b) = {}
           /\ \A n : Uses(item.ops, b) = {} /\ QueueHolds(q, fs, b, n)
                       => QueueHolds(Append(q, item), fs, b, n)
           /\ \A n : LastUse(item.ops, b, n) /\ Written(item.ops, b)
                     /\ b \in Range(fs[item.frame].back)
                       => QueueHolds(Append(q, item), fs, b, n)
<1> DEFINE more == Append(q, item)  m == Len(q) + 1
<1>1. /\ Len(q) \in Nat /\ DOMAIN more = 1 .. m /\ DOMAIN q = 1 .. Len(q)
      /\ more[m] = item /\ \A i \in 1 .. Len(q) : more[i] = q[i]
  OBVIOUS
<1>2. /\ \A i \in DOMAIN more : i \in DOMAIN q \/ i = m
      /\ \A i \in DOMAIN q : i \in DOMAIN more /\ more[i] = q[i]
      /\ m \in DOMAIN more /\ \A i \in DOMAIN more : ~(i > m)
  BY <1>1
<1> HIDE DEF more, m
<1>3. NoUses(more, b) <=> NoUses(q, b) /\ Uses(item.ops, b) = {}
  BY <1>1, <1>2 DEF NoUses
<1>4. ASSUME NEW n, Uses(item.ops, b) = {}, QueueHolds(q, fs, b, n)
      PROVE  QueueHolds(more, fs, b, n)
  <2>1. PICK i \in DOMAIN q :
           /\ LastUse(q[i].ops, b, n) /\ Written(q[i].ops, b)
           /\ b \in Range(fs[q[i].frame].back)
           /\ \A j \in DOMAIN q : j > i => Uses(q[j].ops, b) = {}
    BY <1>4 DEF QueueHolds
  <2>2. \A j \in DOMAIN more : j > i => Uses(more[j].ops, b) = {}
    BY <1>1, <1>2, <1>4, <2>1
  <2>3. i \in DOMAIN more /\ more[i] = q[i]
    BY <1>2, <2>1
  <2> QED BY <2>1, <2>2, <2>3 DEF QueueHolds
<1>5. ASSUME NEW n, LastUse(item.ops, b, n), Written(item.ops, b),
             b \in Range(fs[item.frame].back)
      PROVE  QueueHolds(more, fs, b, n)
  BY <1>1, <1>2, <1>5 DEF QueueHolds
<1> QED BY <1>3, <1>4, <1>5 DEF more

\* Frames that are to write back the same buffers.
LEMMA SameBacks ==
    ASSUME NEW q \in Seq(Items), NEW fs, NEW new, NEW b,
           \A f \in FrameIndices : new[f].back = fs[f].back
    PROVE  /\ Flying(new, b) <=> Flying(fs, b)
           /\ \A n : QueueHolds(q, fs, b, n) => QueueHolds(q, new, b, n)
<1>1. Flying(new, b) <=> Flying(fs, b)
  BY DEF Flying
<1>2. \A i \in DOMAIN q : q[i].frame \in FrameIndices
  <2> SUFFICES ASSUME NEW i \in DOMAIN q PROVE q[i].frame \in FrameIndices
    OBVIOUS
  <2>1. q[i] \in Items
    OBVIOUS
  <2> QED BY <2>1 DEF Items
<1>3. ASSUME NEW n, QueueHolds(q, fs, b, n) PROVE QueueHolds(q, new, b, n)
  BY <1>2, <1>3 DEF QueueHolds
<1> QED BY <1>1, <1>3

\* A list is queued that a call recorded, or one that makes no dispatch.
LEMMA ListBuffers ==
    ASSUME FInv, BInv, NEW ops \in Seq(Ops), ListQueued(ops),
           UNCHANGED <<dataVars, ready, frameIndex>>, call'.op # "record",
           \A f \in FrameIndices :
             /\ frames'[f].back = frames[f].back
             /\ frames'[f].fence = IF f = frameIndex THEN fenceValue + 1 ELSE frames[f].fence,
           ready => \A b \in Bounds :
             /\ Calling(call, b) <=> Uses(ops, b) # {}
             /\ \A n : Calling(call, b) /\ LastUse(call.ops, b, n) =>
                  /\ LastUse(ops, b, n) /\ Written(ops, b)
                  /\ b \in Range(frames[frameIndex].back)
    PROVE  BInv'
<1> DEFINE item == [fence |-> fenceValue + 1, frame |-> frameIndex, ops |-> ops]
<1>1. /\ item \in Items /\ queue \in Seq(Items) /\ item.ops = ops /\ item.frame = frameIndex
      /\ queue' = Append(queue, item) /\ fenceValue \in Nat /\ frameIndex \in FrameIndices
  BY DEF FInv, FrameTypes, Items, ListQueued
<1> HIDE DEF item
<1>2. UNCHANGED <<uploads, onGpu, readbacks, address, guest, effects, found, alone>>
  BY DEF dataVars
<1>3. ASSUME ready PROVE CallSound(call', frames', frameIndex') /\ Fenced(call', frames', frameIndex')
  <2>1. \A f \in FrameIndices : frames'[f].back # <<>> => frames'[f].fence # 0
    BY <1>1, <1>3 DEF BInv, Fenced
  <2> QED BY <2>1 DEF CallSound, Fenced
<1>4. ASSUME ready, NEW b \in Bounds PROVE BufferHeld(b)'
  <2> DEFINE all == Append(queue, item)
  <2>1. EffectsOn(b)' = EffectsOn(b) /\ Last(b)' = Last(b)
    BY <1>2, EffectsSame
  <2>2. BufferHeld(b)
    BY <1>4 DEF BInv
  <2>3. /\ NoUses(all, b) <=> NoUses(queue, b) /\ Uses(ops, b) = {}
        /\ \A n : Uses(ops, b) = {} /\ QueueHolds(queue, frames', b, n)
                    => QueueHolds(all, frames', b, n)
        /\ \A n : LastUse(ops, b, n) /\ Written(ops, b)
                  /\ b \in Range(frames'[frameIndex].back) => QueueHolds(all, frames', b, n)
    BY <1>1, QueueGrows
  <2>4. /\ Flying(frames', b) <=> Flying(frames, b)
        /\ \A n : QueueHolds(queue, frames, b, n) => QueueHolds(queue, frames', b, n)
    BY <1>1, SameBacks
  <2>5. ~Calling(call', b)
    BY DEF Calling
  <2>6. /\ Calling(call, b) <=> Uses(ops, b) # {}
        /\ \A n : Calling(call, b) /\ LastUse(call.ops, b, n) =>
             LastUse(ops, b, n) /\ Written(ops, b) /\ b \in Range(frames'[frameIndex].back)
    BY <1>1, <1>4
  <2> HIDE DEF all
  <2>7. ASSUME NEW n \in Last(b)
        PROVE  HeldIn(call', all, frames', uploads[b], onGpu[b], readbacks[b], guest[b], b, n)
    <3>1. HeldIn(call, queue, frames, uploads[b], onGpu[b], readbacks[b], guest[b], b, n)
      BY <2>2 DEF BufferHeld
    <3> QED BY <2>3, <2>4, <2>5, <2>6, <3>1 DEF HeldIn
  <2>8. ASSUME b \in alone
        PROVE  Whole(call', all, frames', uploads[b], onGpu[b], readbacks[b], guest[b],
                     EffectsOn(b), Last(b), b)
    <3>1. Whole(call, queue, frames, uploads[b], onGpu[b], readbacks[b], guest[b],
                EffectsOn(b), Last(b), b)
      BY <2>2, <2>8 DEF BufferHeld
    <3> QED BY <2>3, <2>4, <2>6, <3>1 DEF Whole
  <2>q. queue' = all
    BY <1>1 DEF all
  <2> QED BY <1>2, <2>1, <2>7, <2>8, <2>q, BufferThen
<1> QED BY <1>2, <1>3, <1>4, BuffersThen DEF BInv

\* Where a list leaves the frame it is of.
LEMMA FrameSignalled ==
    ASSUME FInv, NEW f \in FrameIndices,
           FrameListed \/ frames' = [frames EXCEPT ![frameIndex].fence = fenceValue + 1]
    PROVE  /\ frames'[f].back = frames[f].back
           /\ frames'[f].fence = IF f = frameIndex THEN fenceValue + 1 ELSE frames[f].fence
<1> DEFINE backs == Seq(Bounds)
<1>1. frames \in [FrameIndices -> [held : Nat, fence : Nat, back : backs]]
      /\ frameIndex \in FrameIndices
  BY DEF FInv, FrameTypes, FrameSet
<1> HIDE DEF backs
<1> QED BY <1>1 DEF FrameListed

LEMMA NoDispatch ==
    ASSUME NEW ops, \A i \in DOMAIN ops : ops[i].kind # "use", NEW b PROVE Uses(ops, b) = {}
BY DEF Uses

LEMMA ExecuteListBuffers == ASSUME FInv, BInv, ExecuteList PROVE BInv'
<1>1. /\ call \in [op : {"record"}, ops : Seq(Ops)] /\ call.op = "record"
      /\ AtRest.op = "none"
  BY CallShape DEF ExecuteList, FInv, FrameTypes
<1>2. /\ call.ops \in Seq(Ops) /\ WritebackOps \in Seq(Ops)
      /\ DOMAIN WritebackOps = DOMAIN frames[frameIndex].back
      /\ \A i \in DOMAIN WritebackOps : /\ WritebackOps[i].kind = "back"
                                        /\ WritebackOps[i].bound = frames[frameIndex].back[i]
  BY <1>1, WritebackType
<1> DEFINE all == call.ops \o WritebackOps
<1>3. all \in Seq(Ops)
  BY <1>2
<1>4. /\ ListQueued(all) /\ FrameListed /\ call' = AtRest
      /\ UNCHANGED <<dataVars, frameIndex, ready>>
  BY DEF ExecuteList, FrameListed
<1> HIDE DEF all
<1>5. ASSUME ready, NEW b \in Bounds
      PROVE  /\ Calling(call, b) <=> Uses(all, b) # {}
             /\ \A n : Calling(call, b) /\ LastUse(call.ops, b, n) =>
                  /\ LastUse(all, b, n) /\ Written(all, b)
                  /\ b \in Range(frames[frameIndex].back)
  <2>1. /\ Uses(all, b) = Uses(call.ops, b)
        /\ \A i \in Uses(call.ops, b) : all[i] = call.ops[i]
        /\ \A i \in DOMAIN WritebackOps : WritebackOps[i].bound = b =>
             /\ i + Len(call.ops) \in Backs(all, b)
             /\ \A j \in Uses(all, b) : j < i + Len(call.ops)
    BY <1>2, WithWritebacks DEF all
  <2>2. Calling(call, b) <=> Uses(all, b) # {}
    BY <1>1, <2>1 DEF Calling
  <2>3. ASSUME Uses(call.ops, b) # {}
        PROVE  /\ Max(Uses(call.ops, b)) \in Uses(call.ops, b)
               /\ Written(all, b) /\ b \in Range(frames[frameIndex].back)
    <3>1. Uses(call.ops, b) \in SUBSET (1 .. Len(call.ops)) /\ Len(call.ops) \in Nat
      BY <1>2 DEF Uses
    <3>2. Max(Uses(call.ops, b)) \in Uses(call.ops, b)
      BY <2>3, <3>1, Greatest
    <3>3. CallSound(call, frames, frameIndex)
      BY <1>5 DEF BInv
    <3>4. b \in Range(frames[frameIndex].back)
      BY <1>1, <3>2, <3>3 DEF CallSound, Uses
    <3>5. PICK i \in DOMAIN frames[frameIndex].back : frames[frameIndex].back[i] = b
      BY <3>4 DEF Range
    <3>6. /\ i + Len(call.ops) \in Backs(all, b)
          /\ Max(Uses(all, b)) < i + Len(call.ops)
      BY <1>2, <2>1, <3>2, <3>5
    <3>7. Backs(all, b) \in SUBSET (1 .. Len(all)) /\ Len(all) \in Nat
      BY <1>3 DEF Backs
    <3>8. /\ Max(Backs(all, b)) \in Backs(all, b)
          /\ \A j \in Backs(all, b) : j <= Max(Backs(all, b))
      BY <3>6, <3>7, Greatest
    <3>9. i + Len(call.ops) <= Max(Backs(all, b)) /\ i + Len(call.ops) \in Nat
          /\ Max(Backs(all, b)) \in Nat /\ Max(Uses(all, b)) \in Nat
      BY <2>1, <3>1, <3>2, <3>6, <3>7, <3>8
    <3>10. Max(Uses(all, b)) < Max(Backs(all, b))
      BY <3>6, <3>9
    <3> QED BY <3>2, <3>4, <3>6, <3>10 DEF Written
  <2>4. \A n : LastUse(call.ops, b, n) => LastUse(all, b, n)
    BY <2>1, <2>3 DEF LastUse
  <2> QED BY <2>2, <2>3, <2>4 DEF LastUse
<1>6. \A f \in FrameIndices :
        /\ frames'[f].back = frames[f].back
        /\ frames'[f].fence = IF f = frameIndex THEN fenceValue + 1 ELSE frames[f].fence
  BY <1>4, FrameSignalled
<1> QED BY <1>1, <1>3, <1>4, <1>5, <1>6, ListBuffers

\* Steps that leave the buffers, the frames and the queue alone: a call records something
\* that is no dispatch, begins, ends or is lost.
LEMMA BuffersQuiet ==
    ASSUME FInv, BInv, UNCHANGED <<frames, frameIndex, queue, dataVars>>, ready' => ready,
           ready' => /\ \A b \in Bounds : /\ Calling(call', b) <=> Calling(call, b)
                                          /\ \A n : Calling(call, b) /\ LastUse(call.ops, b, n)
                                                      => LastUse(call'.ops, b, n)
                     /\ CallSound(call', frames, frameIndex)
                     /\ call.op = "record" => call'.op = "record"
    PROVE  BInv'
<1>1. UNCHANGED <<uploads, onGpu, readbacks, address, guest, effects, found, alone>>
  BY DEF dataVars
<1>2. ASSUME ready' PROVE CallSound(call', frames', frameIndex') /\ Fenced(call', frames', frameIndex')
  BY <1>2 DEF BInv, Fenced, CallSound
<1>3. ASSUME ready', NEW b \in Bounds PROVE BufferHeld(b)'
  <2>1. EffectsOn(b)' = EffectsOn(b) /\ Last(b)' = Last(b)
    BY <1>1, EffectsSame
  <2>2. BufferHeld(b)
    BY <1>3 DEF BInv
  <2>3. \A n \in Last(b) :
          HeldIn(call', queue, frames, uploads[b], onGpu[b], readbacks[b], guest[b], b, n)
    BY <1>3, <2>2 DEF BufferHeld, HeldIn
  <2>4. b \in alone => Whole(call', queue, frames, uploads[b], onGpu[b], readbacks[b], guest[b],
                             EffectsOn(b), Last(b), b)
    BY <1>3, <2>2 DEF BufferHeld, Whole
  <2> QED BY <1>1, <2>1, <2>3, <2>4, BufferThen
<1> QED BY <1>1, <1>2, <1>3, BuffersThen DEF BInv

\* A call other than a recording begins or ends.
LEMMA CallEnds ==
    ASSUME FInv, BInv, UNCHANGED <<frames, frameIndex, queue, dataVars>>, ready' => ready,
           ready' => \/ UNCHANGED call
                     \/ call.op # "record" /\ call'.op # "record"
    PROVE  BInv'
<1>1. ASSUME ready'
      PROVE  /\ \A b \in Bounds : /\ Calling(call', b) <=> Calling(call, b)
                                  /\ \A n : Calling(call, b) /\ LastUse(call.ops, b, n)
                                              => LastUse(call'.ops, b, n)
             /\ CallSound(call', frames, frameIndex)
             /\ call.op = "record" => call'.op = "record"
  BY <1>1 DEF BInv, Calling, CallSound
<1> QED BY <1>1, BuffersQuiet

LEMMA QuietBuffers ==
    ASSUME FInv, BInv,
           \/ \E s \in Surfaces : DrawAgain(s)
           \/ FinishEnd \/ Register \/ ReadEnd \/ Lost
           \/ UNCHANGED frameVars
    PROVE  BInv'
<1>a. AtRest.op = "none"
  BY DEF AtRest
<1>1. CASE \E s \in Surfaces : DrawAgain(s)
  BY <1>1, CallEnds DEF DrawAgain, frameRing
<1>2. CASE FinishEnd
  BY <1>a, <1>2, CallEnds DEF FinishEnd, Finished
<1>3. CASE Register
  BY <1>a, <1>3, CallEnds DEF Register, Finished
<1>4. CASE ReadEnd
  BY <1>a, <1>4, CallEnds DEF ReadEnd, Finished
<1>5. CASE Lost
  BY <1>5, CallEnds DEF Lost
<1>6. CASE UNCHANGED frameVars
  BY <1>6, CallEnds DEF frameVars, frameRing
<1> QED BY <1>1, <1>2, <1>3, <1>4, <1>5, <1>6

LEMMA FinishBeginBuffers ==
    ASSUME FInv, BInv, NEW purpose \in Purposes, FinishBegin(purpose) PROVE BInv'
<1>1. /\ ListQueued(<<>>) /\ call' = purpose /\ call.op = "none"
      /\ UNCHANGED <<dataVars, ready, frameIndex>>
      /\ frames' = [frames EXCEPT ![frameIndex].fence = fenceValue + 1]
  BY DEF FinishBegin, AtRest
<1>2. purpose.op = "finish" /\ <<>> \in Seq(Ops)
  BY DEF Purposes
<1>3. \A f \in FrameIndices :
        /\ frames'[f].back = frames[f].back
        /\ frames'[f].fence = IF f = frameIndex THEN fenceValue + 1 ELSE frames[f].fence
  BY <1>1, FrameSignalled
<1>4. \A b \in Bounds : ~Calling(call, b) /\ Uses(<<>>, b) = {}
  BY <1>1, NoDispatch DEF Calling
<1> QED BY <1>1, <1>2, <1>3, <1>4, ListBuffers

\* A list that only has barriers.
LEMMA BarrierList ==
    ASSUME FInv, BInv, call.op = "finish", NEW ops \in Seq(Ops), ListQueued(ops), FrameListed,
           UNCHANGED <<dataVars, ready, frameIndex>>, call'.op # "record",
           \A i \in DOMAIN ops : ops[i].kind # "use"
    PROVE  BInv'
<1>1. \A f \in FrameIndices :
        /\ frames'[f].back = frames[f].back
        /\ frames'[f].fence = IF f = frameIndex THEN fenceValue + 1 ELSE frames[f].fence
  BY FrameSignalled
<1>2. \A b \in Bounds : ~Calling(call, b) /\ Uses(ops, b) = {}
  BY NoDispatch DEF Calling
<1> QED BY <1>1, <1>2, ListBuffers

LEMMA PublishSurfaceBuffers == ASSUME FInv, BInv, PublishSurface PROVE BInv'
<1>1. /\ call.of \in Surfaces /\ call.op = "finish" /\ call' = AtRest /\ AtRest.op = "none"
      /\ UNCHANGED <<dataVars, ready, frameIndex>>
  BY FinishedCall DEF PublishSurface, AtRest, Finished
<1>2. CASE UNCHANGED <<fenceValue, queue, surfaceState, frames>>
  BY <1>1, <1>2, CallEnds
<1> DEFINE op == [kind |-> "to", surface |-> call.of, after |-> Shown]
<1>3. ASSUME NEW ops \in {<<>>, <<op>>}, ListQueued(ops), FrameListed PROVE BInv'
  <2>1. op \in Ops /\ op.kind # "use"
    BY <1>1 DEF Ops
  <2> HIDE DEF op
  <2>2. /\ <<>> \in Seq(Ops) /\ \A i \in DOMAIN <<>> : <<>>[i].kind # "use"
        /\ <<op>> \in Seq(Ops) /\ \A i \in DOMAIN <<op>> : <<op>>[i].kind # "use"
    BY <2>1
  <2>3. ops \in Seq(Ops) /\ \A i \in DOMAIN ops : ops[i].kind # "use"
    BY <2>2
  <2> QED BY <1>1, <1>3, <2>3, BarrierList
<1> QED BY <1>2, <1>3 DEF PublishSurface, FrameListed

LEMMA ReadBeginBuffers == ASSUME FInv, BInv, ReadBegin PROVE BInv'
<1> DEFINE op == [kind |-> "to", surface |-> call.of, after |-> Source]
           last == [kind |-> "to", surface |-> call.of, after |-> Target]
<1>1. /\ call \in OfOne /\ call.of \in Surfaces /\ call.op = "finish" /\ AtRest.op = "none"
      /\ UNCHANGED <<dataVars, ready, frameIndex>>
  BY FinishedCall DEF ReadBegin, AtRest, Finished
<1>2. CASE call' = AtRest /\ UNCHANGED <<fenceValue, queue, frames>>
  BY <1>1, <1>2, CallEnds
<1>3. CASE /\ ListQueued(<<op, last>>) /\ FrameListed
           /\ call' = [call EXCEPT !.to = "pixels", !.at = 0]
  <2>1. op \in Ops /\ last \in Ops /\ op.kind = "to" /\ last.kind = "to"
    BY <1>1 DEF Ops
  <2>2. call'.op = "finish"
    BY <1>1, <1>3 DEF OfOne
  <2> HIDE DEF op, last
  <2>3. <<op, last>> \in Seq(Ops) /\ \A i \in DOMAIN <<op, last>> : <<op, last>>[i].kind # "use"
    BY <2>1
  <2> QED BY <1>1, <1>3, <2>2, <2>3, BarrierList
<1> QED BY <1>2, <1>3 DEF ReadBegin, FrameListed

LEMMA GuestStoresBuffers ==
    ASSUME FInv, BInv, NEW a \in Bounds, GuestStores(a) PROVE BInv'
<1>1. /\ effects' = WithEffect(a, "store") /\ alone' = Touched(a)
      /\ guest' = [guest EXCEPT ![a] = @ \union {NextEffect}]
      /\ UNCHANGED <<frames, frameIndex, queue, call, ready, uploads, onGpu, readbacks, address,
                     found>>
  BY DEF GuestStores, frameRing
<1>2. /\ DOMAIN guest = Bounds /\ DOMAIN uploads = Bounds /\ address = [b \in Bounds |-> b]
  BY DEF BInv
<1>3. alone' = IF Flying(frames, a) THEN alone \ {a} ELSE alone
  BY <1>1, <1>2 DEF Touched, InFlight, Flying
<1>4. \A b \in Bounds : guest'[b] = IF b = a THEN guest[b] \union {NextEffect} ELSE guest[b]
  BY <1>1, <1>2
<1>5. ASSUME ready, NEW b \in Bounds PROVE BufferHeld(b)'
  <2>1. /\ EffectsOn(b)' = EffectsOn(b) \union IF b = a THEN {NextEffect} ELSE {}
        /\ Last(b)' = Last(b)
    BY <1>1, EffectsGrow
  <2>2. BufferHeld(b)
    BY <1>5 DEF BInv
  <2>3. \A n \in Last(b) :
          HeldIn(call, queue, frames, uploads[b], onGpu[b], readbacks[b], guest'[b], b, n)
    BY <1>4, <2>2 DEF BufferHeld, HeldIn
  <2>4. ASSUME b \in alone'
        PROVE  Whole(call, queue, frames, uploads[b], onGpu[b], readbacks[b], guest'[b],
                     EffectsOn(b)', Last(b), b)
    <3>1. Whole(call, queue, frames, uploads[b], onGpu[b], readbacks[b], guest[b],
                EffectsOn(b), Last(b), b)
      BY <1>3, <2>2, <2>4 DEF BufferHeld
    <3>2. CASE b = a
      <4>1. ~Flying(frames, b)
        BY <1>3, <2>4, <3>2
      <4> QED BY <1>4, <2>1, <3>1, <3>2, <4>1 DEF Whole
    <3>3. CASE b # a
      BY <1>4, <2>1, <3>1, <3>3
    <3> QED BY <3>2, <3>3
  <2> QED BY <1>1, <2>1, <2>3, <2>4, BufferThen
<1>6. DOMAIN guest' = Bounds
  BY <1>1, <1>2
<1> QED BY <1>1, <1>2, <1>5, <1>6, BuffersThen DEF BInv

LEMMA TransitionBuffers ==
    ASSUME FInv, BInv, NEW s \in Surfaces, NEW state \in {Target, Resource, Shown},
           Transition(s, state)
    PROVE  BInv'
<1> DEFINE op == [kind |-> "to", surface |-> s, after |-> state]
<1>1. op \in Ops /\ op.kind = "to"
  BY DEF Ops
<1>2. /\ call \in [op : {"record"}, ops : Seq(Ops)] /\ call.op = "record" /\ Recorded(op)
      /\ UNCHANGED <<frames, frameIndex, queue, dataVars, ready>>
  BY CallShape DEF Transition, Recording, FInv, FrameTypes
<1> HIDE DEF op
<1>3. call.ops \in Seq(Ops) /\ call'.op = "record" /\ call'.ops = Append(call.ops, op)
  <2> DEFINE lists == Seq(Ops)
  <2>1. call \in [op : {"record"}, ops : lists]
    BY <1>2
  <2> HIDE DEF lists
  <2>2. call.ops \in lists /\ call'.op = "record" /\ call'.ops = Append(call.ops, op)
    BY <1>2, <2>1 DEF Recorded
  <2> QED BY <2>2 DEF lists
<1>4. ASSUME NEW b
      PROVE  /\ Uses(call'.ops, b) = Uses(call.ops, b)
             /\ \A i \in Uses(call.ops, b) : call'.ops[i] = call.ops[i]
  <2>1. /\ Uses(Append(call.ops, op), b) = Uses(call.ops, b)
        /\ \A i \in Uses(call.ops, b) : Append(call.ops, op)[i] = call.ops[i]
    BY <1>1, <1>3, ListGrows
  <2> QED BY <1>3, <2>1
<1>5. \A b, n : LastUse(call.ops, b, n) => LastUse(call'.ops, b, n)
  <2> SUFFICES ASSUME NEW b, NEW n, LastUse(call.ops, b, n) PROVE LastUse(call'.ops, b, n)
    OBVIOUS
  <2>1. Uses(call.ops, b) # {} /\ Uses(call.ops, b) \in SUBSET (1 .. Len(call.ops))
        /\ Len(call.ops) \in Nat
    BY <1>3 DEF LastUse, Uses
  <2>2. Max(Uses(call.ops, b)) \in Uses(call.ops, b)
    BY <2>1, Greatest
  <2> QED BY <1>4, <2>2 DEF LastUse
<1>6. \A b : Calling(call', b) <=> Calling(call, b)
  BY <1>2, <1>3, <1>4 DEF Calling
<1>7. ASSUME CallSound(call, frames, frameIndex) PROVE CallSound(call', frames, frameIndex)
  <2> SUFFICES ASSUME NEW k \in DOMAIN call'.ops, call'.ops[k].kind = "use"
               PROVE  call'.ops[k].bound \in Range(frames[frameIndex].back)
    BY DEF CallSound
  <2>1. k \in DOMAIN call.ops /\ call'.ops[k] = call.ops[k]
    BY <1>1, <1>3
  <2> QED BY <1>2, <1>7, <2>1 DEF CallSound
<1> QED BY <1>2, <1>3, <1>5, <1>6, <1>7, BuffersQuiet DEF BInv

\* The wait for a frame completes its writebacks: what it holds is what was newest.
LEMMA WaitBuffers ==
    ASSUME FInv, BInv, NEW f \in FrameIndices, WaitFrame(f), call.op # "record",
           UNCHANGED <<queue, ready, uploads, onGpu, readbacks, address, effects, found, alone>>,
           call'.op = "record" => call'.ops = <<>>
    PROVE  BInv'
<1>1. /\ Idle(f) /\ guest' = Completed(f) /\ frames' = [frames EXCEPT ![f] = NoFrame]
      /\ DOMAIN guest = Bounds /\ DOMAIN uploads = Bounds /\ address = [b \in Bounds |-> b]
      /\ NoFrame.back = <<>>
  BY ReachedIdle DEF WaitFrame, BInv, NoFrame
<1>2. frames \in [FrameIndices -> FrameSet] /\ frames[f].back \in Seq(Bounds)
      /\ queue \in Seq(Items)
  BY FrameFields DEF FInv, FrameTypes
<1>3. \A g \in FrameIndices : frames'[g] = IF g = f THEN NoFrame ELSE frames[g]
  BY <1>1, <1>2
<1>4. ASSUME ready, NEW b \in Bounds
      PROVE  guest'[b] = IF b \in Range(frames[f].back) THEN readbacks[b] ELSE guest[b]
  <2> DEFINE back == frames[f].back
  <2>1. /\ guest'[b] = IF frames[f].fence = 0 \/ To(f, b) = {} THEN guest[b]
                       ELSE readbacks[back[Max(To(f, b))]]
    BY <1>1 DEF Completed
  <2>2. \A i \in DOMAIN back : back[i] \in Bounds
    BY <1>2
  <2>3. To(f, b) = {i \in DOMAIN back : back[i] = b}
    BY <1>1, <2>2 DEF To
  <2>4. CASE b \in Range(back)
    <3>1. PICK i \in DOMAIN back : back[i] = b
      BY <2>4 DEF Range
    <3>2. To(f, b) # {} /\ To(f, b) \in SUBSET (1 .. Len(back)) /\ Len(back) \in Nat
      BY <1>2, <2>3, <3>1
    <3>3. Max(To(f, b)) \in To(f, b)
      BY <3>2, Greatest
    <3>4. back[Max(To(f, b))] = b /\ back # <<>>
      BY <2>3, <3>1, <3>3
    <3>5. frames[f].fence # 0
      BY <1>4, <3>4 DEF BInv, Fenced
    <3> QED BY <2>1, <2>4, <3>2, <3>4, <3>5
  <2>5. CASE b \notin Range(back)
    <3>1. To(f, b) = {}
      BY <2>3, <2>5 DEF Range
    <3> QED BY <2>1, <2>5, <3>1
  <2> QED BY <2>4, <2>5
<1>5. ASSUME NEW b
      PROVE  /\ Flying(frames', b) => Flying(frames, b)
             /\ Flying(frames, b) => Flying(frames', b) \/ b \in Range(frames[f].back)
             /\ \A g \in FrameIndices :
                  b \in Range(frames'[g].back) => b \in Range(frames[g].back) /\ g # f
  <2>1. b \notin Range(NoFrame.back)
    BY DEF NoFrame, Range
  <2> QED BY <1>3, <2>1 DEF Flying
<1>6. ASSUME NEW b, NEW n, QueueHolds(queue, frames, b, n)
      PROVE  /\ QueueHolds(queue, frames', b, n)
             /\ Flying(frames', b)
  <2>1. PICK i \in DOMAIN queue :
           /\ LastUse(queue[i].ops, b, n) /\ Written(queue[i].ops, b)
           /\ b \in Range(frames[queue[i].frame].back)
           /\ \A j \in DOMAIN queue : j > i => Uses(queue[j].ops, b) = {}
    BY <1>6 DEF QueueHolds
  <2>2. queue[i] \in Queued /\ queue[i].frame \in FrameIndices
    BY ItemFields DEF Queued, FInv
  <2>3. queue[i].ops # <<>>
    BY <2>1 DEF LastUse, Uses
  <2>4. frames'[queue[i].frame] = frames[queue[i].frame]
    BY <1>1, <1>3, <2>2, <2>3 DEF Idle
  <2> QED BY <2>1, <2>2, <2>4 DEF QueueHolds, Flying
<1>7. ASSUME ready PROVE CallSound(call', frames', frameIndex') /\ Fenced(call', frames', frameIndex')
  <2>1. CallSound(call', frames', frameIndex')
    BY DEF CallSound
  <2>2. Fenced(call', frames', frameIndex')
    BY <1>1, <1>3, <1>7 DEF BInv, Fenced
  <2> QED BY <2>1, <2>2
<1>8. ASSUME ready, NEW b \in Bounds PROVE BufferHeld(b)'
  <2>1. EffectsOn(b)' = EffectsOn(b) /\ Last(b)' = Last(b)
    BY EffectsSame
  <2>2. BufferHeld(b)
    BY <1>8 DEF BInv
  <2>3. guest'[b] = IF b \in Range(frames[f].back) THEN readbacks[b] ELSE guest[b]
    BY <1>4, <1>8
  <2>4. ~Calling(call, b) /\ ~Calling(call', b)
    BY DEF Calling, Uses
  <2>5. ASSUME NEW n \in Last(b)
        PROVE  HeldIn(call', queue, frames', uploads[b], onGpu[b], readbacks[b], guest'[b], b, n)
    <3>1. HeldIn(call, queue, frames, uploads[b], onGpu[b], readbacks[b], guest[b], b, n)
      BY <2>2 DEF BufferHeld
    <3>2. CASE QueueHolds(queue, frames, b, n)
      BY <1>6, <2>4, <3>2 DEF HeldIn
    <3>3. CASE /\ NoUses(queue, b)
               /\ uploads[b] \union n \subseteq onGpu[b]
               /\ uploads[b] \union n \subseteq readbacks[b]
               /\ Flying(frames, b) \/ uploads[b] \union n \subseteq guest[b]
      <4>1. Flying(frames', b) \/ uploads[b] \union n \subseteq guest'[b]
        BY <1>5, <2>3, <3>3
      <4> QED BY <2>4, <3>3, <4>1 DEF HeldIn
    <3> QED BY <2>4, <3>1, <3>2, <3>3 DEF HeldIn
  <2>6. ASSUME b \in alone
        PROVE  Whole(call', queue, frames', uploads[b], onGpu[b], readbacks[b], guest'[b],
                     EffectsOn(b), Last(b), b)
    <3>1. Whole(call, queue, frames, uploads[b], onGpu[b], readbacks[b], guest[b],
                EffectsOn(b), Last(b), b)
      BY <2>2, <2>6 DEF BufferHeld
    <3>2. \A g, h \in FrameIndices :
            b \in Range(frames'[g].back) /\ b \in Range(frames'[h].back) => g = h
      BY <1>5, <3>1 DEF Whole
    <3>3. ASSUME ~Flying(frames', b) PROVE guest'[b] = EffectsOn(b)
      <4>1. CASE ~Flying(frames, b)
        <5>1. b \notin Range(frames[f].back)
          BY <4>1 DEF Flying
        <5> QED BY <2>3, <3>1, <4>1, <5>1 DEF Whole
      <4>2. CASE Flying(frames, b)
        <5>1. PICK n \in Last(b) : EffectsOn(b) = uploads[b] \union n
          BY <3>1, <4>2 DEF Whole
        <5>2. HeldIn(call, queue, frames, uploads[b], onGpu[b], readbacks[b], guest[b], b, n)
          BY <2>2, <5>1 DEF BufferHeld
        <5>3. NoUses(queue, b)
          BY <1>6, <2>4, <3>3, <5>2 DEF HeldIn
        <5>4. readbacks[b] = EffectsOn(b)
          BY <2>4, <3>1, <4>2, <5>3 DEF Whole
        <5>5. b \in Range(frames[f].back)
          BY <1>5, <3>3, <4>2
        <5> QED BY <2>3, <5>4, <5>5
      <4> QED BY <4>1, <4>2
    <3>4. Flying(frames', b) =>
            /\ \E n \in Last(b) : EffectsOn(b) = uploads[b] \union n
            /\ NoUses(queue, b) => onGpu[b] = EffectsOn(b) /\ readbacks[b] = EffectsOn(b)
      BY <1>5, <2>4, <3>1 DEF Whole
    <3> QED BY <3>2, <3>3, <3>4 DEF Whole
  <2> QED BY <2>1, <2>5, <2>6, BufferThen
<1>9. DOMAIN guest' = Bounds
  BY <1>1 DEF Completed
<1> QED BY <1>1, <1>7, <1>8, <1>9, BuffersThen DEF BInv

LEMMA SubmitBeginBuffers == ASSUME FInv, BInv, SubmitBegin PROVE BInv'
<1>1. /\ nextFrame \in FrameIndices /\ WaitFrame(nextFrame) /\ call.op # "record"
      /\ UNCHANGED <<queue, ready, uploads, onGpu, readbacks, address, effects, found, alone>>
  BY DEF SubmitBegin, AtRest, FInv, FrameTypes
<1>2. call'.op = "record" => call'.ops = <<>>
  BY DEF SubmitBegin, AtRest
<1> QED BY <1>1, <1>2, WaitBuffers

LEMMA FinishWaitBuffers == ASSUME FInv, BInv, FinishWait PROVE BInv'
<1>1. call.op = "finish" /\ call \in Plain \union OfOne
  BY CallShape DEF FinishWait, FInv, FrameTypes
<1>2. call.at \in FrameIndices /\ WaitFrame(call.at) /\ call.op # "record"
  BY <1>1, FramesAssumption DEF FinishWait, FrameIndices, Plain, OfOne
<1>3. call'.op = "finish"
  BY <1>1 DEF FinishWait, Plain, OfOne
<1>4. UNCHANGED <<queue, ready, uploads, onGpu, readbacks, address, effects, found, alone>>
  BY DEF FinishWait
<1> QED BY <1>2, <1>3, <1>4, WaitBuffers

\* b is copied, and a dispatch on it recorded or dropped: it is the newest, its upload
\* buffer holds what the guest's buffer did, and the frame is to write it back.  Nothing
\* else of b is in flight, or b counts as touched.
LEMMA DispatchBuffers ==
    ASSUME FramesPermitted = {}, FInv, BInv, NEW b \in Bounds, Dispatch(b) PROVE BInv'
<1>p. PICK by \in Outcomes :
        /\ Recorded([kind |-> "use", bound |-> b, born |-> born'[b], effect |-> Wrote(by)])
        /\ effects' = WithEffect(address[b], by)
  BY DEF Dispatch
<1> DEFINE op == [kind |-> "use", bound |-> b, born |-> born'[b], effect |-> Wrote(by)]
           back == frames[frameIndex].back
<1>1. /\ DOMAIN guest = Bounds /\ DOMAIN uploads = Bounds /\ address = [c \in Bounds |-> c]
      /\ address[b] = b
  BY DEF BInv
<1>2. Remade = {{}}
  BY DEF Remade
<1>3. /\ call \in [op : {"record"}, ops : Seq(Ops)] /\ call.op = "record" /\ Recorded(op)
      /\ uploads' = [uploads EXCEPT ![b] = guest[b]]
      /\ effects' = WithEffect(b, by) /\ alone' = Touched(b)
      /\ found' = [found EXCEPT ![b] = guest[b]]
      /\ frames' = [frames EXCEPT ![frameIndex].back =
                      IF b \in Range(back) THEN back ELSE Append(back, b)]
      /\ UNCHANGED <<frameIndex, queue, ready, onGpu, address, guest>>
  BY <1>1, <1>p, CallShape DEF Dispatch, Recording, FInv, FrameTypes
<1>4. \A c \in Bounds : readbacks'[c] = readbacks[c]
  BY <1>2 DEF Dispatch
<1>5. op \in Ops
  <2>1. born' \in [Bounds -> Births]
    BY DispatchInv DEF FInv, FrameTypes
  <2>2. NextEffect \in Nat
    BY DEF NextEffect, FInv, FrameTypes
  <2> QED BY <2>1, <2>2 DEF Ops, Wrote
<1>o. op.kind = "use" /\ op.bound = b /\ op.effect = Wrote(by)
  OBVIOUS
<1> HIDE DEF op
<1>6. call.ops \in Seq(Ops) /\ call'.op = "record" /\ call'.ops = Append(call.ops, op)
  <2> DEFINE lists == Seq(Ops)
  <2>1. call \in [op : {"record"}, ops : lists]
    BY <1>3
  <2> HIDE DEF lists
  <2>2. call.ops \in lists /\ call'.op = "record" /\ call'.ops = Append(call.ops, op)
    BY <1>3, <2>1 DEF Recorded
  <2> QED BY <2>2 DEF lists
<1>7. \A f \in FrameIndices :
        /\ frames'[f].fence = frames[f].fence
        /\ f # frameIndex => frames'[f].back = frames[f].back
        /\ \A c : c \in Range(frames'[f].back)
                    <=> c \in Range(frames[f].back) \/ (c = b /\ f = frameIndex)
  <2> DEFINE backs == Seq(Bounds)
             more == IF b \in Range(back) THEN back ELSE Append(back, b)
  <2>1. frames \in [FrameIndices -> [held : Nat, fence : Nat, back : backs]]
        /\ frameIndex \in FrameIndices
    BY DEF FInv, FrameTypes, FrameSet
  <2>2. back \in Seq(Bounds)
    BY <2>1
  <2>3. Range(more) = Range(back) \union {b}
    <3>1. CASE b \in Range(back)
      BY <3>1
    <3>2. CASE b \notin Range(back)
      <4>1. /\ more = Append(back, b) /\ Len(back) \in Nat /\ DOMAIN back = 1 .. Len(back)
            /\ DOMAIN more = 1 .. Len(back) + 1 /\ more[Len(back) + 1] = b
            /\ \A i \in DOMAIN back : more[i] = back[i]
        BY <2>2, <3>2
      <4>2. \A i \in DOMAIN more : i \in DOMAIN back \/ i = Len(back) + 1
        BY <4>1
      <4>3. Len(back) + 1 \in DOMAIN more /\ \A i \in DOMAIN back : i \in DOMAIN more
        BY <4>1
      <4> HIDE DEF more
      <4> QED BY <4>1, <4>2, <4>3 DEF Range
    <3> QED BY <3>1, <3>2
  <2>4. frames' = [frames EXCEPT ![frameIndex].back = more]
    BY <1>3
  <2> HIDE DEF backs, more
  <2>5. \A f \in FrameIndices :
          /\ frames'[f].fence = frames[f].fence
          /\ frames'[f].back = IF f = frameIndex THEN more ELSE frames[f].back
    BY <2>1, <2>4
  <2> QED BY <2>3, <2>5
<1> HIDE DEF back
<1>8. frameIndex \in FrameIndices /\ queue \in Seq(Items)
  BY DEF FInv, FrameTypes
<1>9. alone' = IF Flying(frames, b) THEN alone \ {b} ELSE alone
  BY <1>1, <1>3 DEF Touched, InFlight, Flying
<1>10. \A c : Flying(frames', c) <=> Flying(frames, c) \/ c = b
  BY <1>7, <1>8 DEF Flying
<1>11. ASSUME NEW c, NEW n, QueueHolds(queue, frames, c, n)
       PROVE  QueueHolds(queue, frames', c, n)
  <2>1. \A i \in DOMAIN queue : queue[i].frame \in FrameIndices
    BY ItemFields DEF Queued, FInv
  <2> QED BY <1>7, <1>11, <2>1 DEF QueueHolds
\* The list now ends with the dispatch.
<1>12. Calling(call', b) /\ LastUse(call'.ops, b, Wrote(by))
  <2>1. /\ Uses(Append(call.ops, op), b) # {}
        /\ Max(Uses(Append(call.ops, op), b)) = Len(call.ops) + 1
        /\ Append(call.ops, op)[Len(call.ops) + 1] = op
    BY <1>5, <1>6, <1>o, ListGrows
  <2> QED BY <1>6, <1>o, <2>1 DEF Calling, LastUse
<1>13. ASSUME NEW c, c # b
       PROVE  /\ Calling(call', c) <=> Calling(call, c)
              /\ \A n : LastUse(call.ops, c, n) => LastUse(call'.ops, c, n)
  <2>1. /\ Uses(Append(call.ops, op), c) = Uses(call.ops, c)
        /\ \A i \in Uses(call.ops, c) : Append(call.ops, op)[i] = call.ops[i]
    BY <1>5, <1>6, <1>13, <1>o, ListGrows
  <2>2. Calling(call', c) <=> Calling(call, c)
    BY <1>3, <1>6, <2>1 DEF Calling
  <2>3. ASSUME NEW n, LastUse(call.ops, c, n) PROVE LastUse(call'.ops, c, n)
    <3>1. Uses(call.ops, c) # {} /\ Uses(call.ops, c) \in SUBSET (1 .. Len(call.ops))
          /\ Len(call.ops) \in Nat
      BY <1>6, <2>3 DEF LastUse, Uses
    <3>2. Max(Uses(call.ops, c)) \in Uses(call.ops, c)
      BY <3>1, Greatest
    <3> QED BY <1>6, <2>1, <2>3, <3>2 DEF LastUse
  <2> QED BY <2>2, <2>3
<1>14. ASSUME ready PROVE CallSound(call', frames', frameIndex') /\ Fenced(call', frames', frameIndex')
  <2>1. ASSUME NEW k \in DOMAIN call'.ops, call'.ops[k].kind = "use"
        PROVE  call'.ops[k].bound \in Range(frames'[frameIndex].back)
    <3>1. CASE k \in DOMAIN call.ops
      <4>1. call'.ops[k] = call.ops[k]
        BY <1>6, <3>1
      <4>2. call.ops[k].bound \in Range(frames[frameIndex].back)
        BY <1>3, <1>14, <2>1, <3>1, <4>1 DEF BInv, CallSound
      <4> QED BY <1>7, <1>8, <4>1, <4>2
    <3>2. CASE k \notin DOMAIN call.ops
      <4>1. call'.ops[k] = op
        BY <1>6, <2>1, <3>2
      <4> QED BY <1>7, <1>8, <1>o, <4>1
    <3> QED BY <3>1, <3>2
  <2>2. CallSound(call', frames', frameIndex')
    BY <1>3, <2>1 DEF CallSound
  <2>3. Fenced(call', frames', frameIndex')
    BY <1>3, <1>6, <1>7, <1>14 DEF BInv, Fenced
  <2> QED BY <2>2, <2>3
<1>15. ASSUME ready PROVE BufferHeld(b)'
  <2>1. EffectsOn(b)' = EffectsOn(b) \union Wrote(by) /\ Last(b)' = {Wrote(by)}
    BY <1>3, EffectsGrow DEF Outcomes, Wrote
  <2>2. \A n \in Last(b)' :
          HeldIn(call', queue', frames', uploads'[b], onGpu'[b], readbacks'[b], guest'[b], b, n)
    BY <1>12, <2>1 DEF HeldIn
  <2>3. ASSUME b \in alone'
        PROVE  Whole(call', queue', frames', uploads'[b], onGpu'[b], readbacks'[b], guest'[b],
                     EffectsOn(b)', Last(b)', b)
    <3>1. b \in alone /\ ~Flying(frames, b)
      BY <1>9, <2>3
    <3>2. guest[b] = EffectsOn(b)
      BY <1>15, <3>1 DEF BInv, BufferHeld, Whole
    <3>3. uploads'[b] = guest[b]
      BY <1>1, <1>3
    <3>4. \A f, g \in FrameIndices :
            b \in Range(frames'[f].back) /\ b \in Range(frames'[g].back) => f = g
      BY <1>7, <3>1 DEF Flying
    <3>5. Flying(frames', b)
      BY <1>10
    <3> QED BY <1>12, <2>1, <3>2, <3>3, <3>4, <3>5 DEF Whole
  <2> QED BY <2>2, <2>3, BufferThen
<1>16. ASSUME ready, NEW c \in Bounds, c # b PROVE BufferHeld(c)'
  <2>e. effects' = WithEffect(b, by) /\ by \in {"store", "dispatch", "dropped"}
    BY <1>3 DEF Outcomes
  <2>f. /\ EffectsOn(c)' = EffectsOn(c) \union
                            IF c = b /\ by # "dropped" THEN {NextEffect} ELSE {}
        /\ ~(c = b /\ by # "store") => Last(c)' = Last(c)
    BY <2>e, EffectsGrow
  <2>1. EffectsOn(c)' = EffectsOn(c) /\ Last(c)' = Last(c)
    BY <1>16, <2>f
  <2>2. BufferHeld(c)
    BY <1>16 DEF BInv
  <2>3. /\ Calling(call', c) <=> Calling(call, c)
        /\ \A n : LastUse(call.ops, c, n) => LastUse(call'.ops, c, n)
    BY <1>13, <1>16
  <2>4. ASSUME NEW n \in Last(c)
        PROVE  HeldIn(call', queue, frames', uploads[c], onGpu[c], readbacks[c], guest[c], c, n)
    <3>1. HeldIn(call, queue, frames, uploads[c], onGpu[c], readbacks[c], guest[c], c, n)
      BY <2>2 DEF BufferHeld
    <3> QED BY <1>10, <1>11, <2>3, <3>1 DEF HeldIn
  <2>5. ASSUME c \in alone'
        PROVE  Whole(call', queue, frames', uploads[c], onGpu[c], readbacks[c], guest[c],
                     EffectsOn(c), Last(c), c)
    <3>1. Whole(call, queue, frames, uploads[c], onGpu[c], readbacks[c], guest[c],
                EffectsOn(c), Last(c), c)
      BY <1>9, <2>2, <2>5 DEF BufferHeld
    <3>2. \A f, g \in FrameIndices :
            c \in Range(frames'[f].back) /\ c \in Range(frames'[g].back) => f = g
      BY <1>7, <1>16, <3>1 DEF Whole
    <3> QED BY <1>10, <1>16, <2>3, <3>1, <3>2 DEF Whole
  <2>6. uploads'[c] = uploads[c] /\ readbacks'[c] = readbacks[c]
    BY <1>1, <1>3, <1>4, <1>16
  <2> QED BY <1>3, <2>1, <2>4, <2>5, <2>6, BufferThen
<1>17. DOMAIN uploads' = Bounds /\ found' = uploads'
  BY <1>1, <1>3 DEF BInv
<1> QED BY <1>1, <1>3, <1>14, <1>15, <1>16, <1>17, BuffersThen

LEMMA BuffersInit == ASSUME FramesPermitted = {}, FramesInit PROVE BInv
<1>1. /\ DOMAIN guest = Bounds /\ DOMAIN uploads = Bounds /\ address = [b \in Bounds |-> b]
      /\ found = uploads /\ call.op = "none" /\ effects = <<>> /\ guest = [a \in Bounds |-> {}]
      /\ \A f \in FrameIndices : frames[f].back = <<>>
  BY DEF FramesInit, AtRest, NoFrame
<1>2. CallSound(call, frames, frameIndex) /\ Fenced(call, frames, frameIndex)
  BY <1>1 DEF CallSound, Fenced
<1>3. ASSUME NEW b \in Bounds PROVE BufferHeld(b)
  <2>1. EffectsOn(b) = {} /\ Last(b) = {}
    BY <1>1 DEF EffectsOn, CopiesOf, Newest, Last
  <2>2. \A f \in FrameIndices : b \notin Range(frames[f].back)
    BY <1>1 DEF Range
  <2> QED BY <1>1, <2>1, <2>2 DEF BufferHeld, Whole, Flying
<1> QED BY <1>1, <1>2, <1>3 DEF BInv

LEMMA BuffersNext ==
    ASSUME FramesPermitted = {}, FInv, BInv, [FramesNext]_frameVars PROVE BInv'
<1>1. CASE \E b \in Bounds : Dispatch(b)
  BY <1>1, DispatchBuffers
<1>2. CASE \E s \in Surfaces, state \in {Target, Resource, Shown} : Transition(s, state)
  BY <1>2, TransitionBuffers
<1>3. CASE \E purpose \in Purposes : FinishBegin(purpose)
  BY <1>3, FinishBeginBuffers
<1>4. CASE \E a \in Bounds : GuestStores(a)
  BY <1>4, GuestStoresBuffers
<1> QED
  BY <1>1, <1>2, <1>3, <1>4, QuietBuffers, RunListBuffers, SubmitBeginBuffers,
     FinishWaitBuffers, ExecuteListBuffers, PublishSurfaceBuffers, ReadBeginBuffers
     DEF FramesNext

LEMMA BuffersArrive == ASSUME FInv, BInv PROVE NewestArrives
<1> SUFFICES ASSUME NEW a \in Bounds, Settled(a)
             PROVE  /\ \A n \in CopiesOf(a) : (\A m \in CopiesOf(a) : m <= n) =>
                         found[a] \union ({n} \intersect EffectsOn(a)) \subseteq guest[a]
                    /\ a \in alone => guest[a] = EffectsOn(a)
  BY DEF NewestArrives
<1>1. /\ call = AtRest /\ ready /\ ~Flying(frames, a) /\ BufferHeld(a)
      /\ found[a] = uploads[a]
  BY DEF Settled, BInv, InFlight, Flying
<1>2. ~Calling(call, a)
  BY <1>1 DEF Calling, AtRest
<1>3. ASSUME NEW n \in Last(a) PROVE uploads[a] \union n \subseteq guest[a]
  <2>1. HeldIn(call, queue, frames, uploads[a], onGpu[a], readbacks[a], guest[a], a, n)
    BY <1>1 DEF BufferHeld
  <2>2. \A i \in DOMAIN queue : queue[i].frame \in FrameIndices
    BY ItemFields DEF Queued, FInv
  <2>3. ~QueueHolds(queue, frames, a, n)
    BY <1>1, <2>2 DEF QueueHolds, Flying
  <2> QED BY <1>1, <1>2, <2>1, <2>3 DEF HeldIn
<1>4. a \in alone => guest[a] = EffectsOn(a)
  BY <1>1 DEF BufferHeld, Whole
<1> QED BY <1>1, <1>3, <1>4 DEF Last, Newest

\* NewestArrives of shadps4_d3d12_prepare_writable_buffer, _record_dispatch,
\* _record_writebacks and _complete_writebacks, for any number of frames, resources and
\* dispatches, dropped ones among them: while no shader leaves the cache and every
\* resource has a guest buffer of its own, guest memory holds, once nothing is open, what
\* the last copy of a buffer found there and what its dispatch wrote, if it was not
\* dropped; and a buffer that nobody touched in flight has lost no effect.
THEOREM NewestArrivesHolds ==
    ASSUME FramesPermitted = {} PROVE FramesSpec => []NewestArrives
<1>1. FramesInit => FInv /\ BInv
  BY FramesInitInv, BuffersInit
<1>2. FInv /\ BInv /\ [FramesNext]_frameVars => (FInv /\ BInv)'
  BY FramesNextInv, BuffersNext
<1>3. FInv /\ BInv => NewestArrives
  BY BuffersArrive
<1> QED BY <1>1, <1>2, <1>3, PTL DEF FramesSpec
-----------------------------------------------------------------------------
(* The command processor *)

GpuTypes ==
    /\ packets \in Seq([kind : PacketKinds, first : Nat])
    /\ mapped \subseteq GpuQueues
    /\ readOffset \in [GpuQueues -> Offsets] /\ published \in [GpuQueues -> Offsets]
    /\ tail \in [GpuQueues -> Offsets] /\ ring \in [GpuQueues -> [Offsets -> Nat]]
    /\ put \in [GpuQueues -> Seq(Nat)] /\ taken \in [GpuQueues -> Seq(Nat)]

\* What was put is what was accepted and what is on the ring, and the word the guest
\* sees is not ahead of what was read.
RingSound(q) ==
    /\ q \notin mapped => tail[q] = 0 /\ put[q] = <<>> /\ taken[q] = <<>>
    /\ q \in mapped =>
         /\ put[q] = taken[q] \o OnRing(q, readOffset[q], tail[q])
         /\ Between(published[q], readOffset[q]) <= Between(published[q], tail[q])

\* A doorbell works on what it read, up to where it rang.
Works == [of : GpuQueues \union {Direct}, list : Seq(Nat), more : SUBSET Nat,
          next : Offsets, at : Nat, phase : {"draw", "memory"}]
LastOf(list) == list[Len(list)]
WorkSound ==
    work # NoWork =>
      /\ work \in Works /\ work.list # <<>>
      /\ work.of = Direct => \A e \in work.more : e > LastOf(work.list)
      /\ work.of # Direct =>
           /\ work.of \in mapped
           /\ work.list = OnRing(work.of, readOffset[work.of], work.next)
           /\ Between(readOffset[work.of], work.next)
                <= Between(readOffset[work.of], tail[work.of])

RInv == GpuTypes /\ WorkSound /\ \A q \in GpuQueues : RingSound(q)

\* The arithmetic of a ring: how far it is from one offset to another.
LEMMA Distances ==
    ASSUME NEW a \in Offsets, NEW b \in Offsets, NEW c \in Offsets
    PROVE  /\ Between(a, b) \in Nat /\ Between(a, b) < RingDwords /\ Between(a, a) = 0
           /\ Between(a, b) = 0 => a = b
           /\ Ahead(a, Between(a, b)) = b
           /\ Next1(a) \in Offsets
           /\ Next1(b) # a => Between(a, Next1(b)) = Between(a, b) + 1
           /\ Between(a, b) <= Between(a, c) =>
                Between(b, c) = Between(a, c) - Between(a, b)
  BY GpuAssumption DEF Offsets, Between, Ahead, Next1

\* An offset that lies between two others comes between them from any earlier one.
LEMMA Further ==
    ASSUME NEW p \in Offsets, NEW r \in Offsets, NEW n \in Offsets, NEW t \in Offsets,
           Between(p, r) <= Between(p, t), Between(r, n) <= Between(r, t)
    PROVE  Between(p, n) <= Between(p, t)
  BY GpuAssumption DEF Offsets, Between

\* Where the guest has room to put a packet, what lies behind it is not read yet.
LEMMA RoomLeft ==
    ASSUME NEW p \in Offsets, NEW r \in Offsets, NEW t \in Offsets,
           Between(p, r) <= Between(p, t), Next1(t) # p
    PROVE  Next1(t) # r
  BY GpuAssumption DEF Offsets, Between, Next1

\* Stepping along the ring.
LEMMA Steps ==
    ASSUME NEW r \in Offsets, NEW n \in Offsets, NEW i \in Nat, NEW t \in Offsets
    PROVE  /\ i < RingDwords => Ahead(r, i) \in Offsets
           /\ i < Between(r, t) => Ahead(r, i) # t
           /\ Between(r, n) + i < RingDwords => Ahead(n, i) = Ahead(r, Between(r, n) + i)
  BY GpuAssumption DEF Offsets, Between, Ahead

\* What a ring g holds from one offset to another.
Part(g, r, t) == [i \in 1 .. Between(r, t) |-> g[Ahead(r, i - 1)]]

LEMMA PartOfRing ==
    ASSUME NEW g \in [Offsets -> Nat], NEW r \in Offsets, NEW t \in Offsets
    PROVE  /\ Part(g, r, t) \in Seq(Nat) /\ Len(Part(g, r, t)) = Between(r, t)
           /\ \A i \in 1 .. Between(r, t) : Part(g, r, t)[i] = g[Ahead(r, i - 1)]
<1>1. Between(r, t) \in Nat /\ Between(r, t) < RingDwords
  BY Distances, GpuAssumption
<1>2. \A i \in 1 .. Between(r, t) : g[Ahead(r, i - 1)] \in Nat
  <2> SUFFICES ASSUME NEW i \in 1 .. Between(r, t) PROVE g[Ahead(r, i - 1)] \in Nat
    OBVIOUS
  <2>1. i - 1 \in Nat /\ i - 1 < RingDwords
    BY <1>1, GpuAssumption
  <2> QED BY <2>1, Steps
<1> QED BY <1>1, <1>2 DEF Part

\* What lies between two offsets is what lies up to one between them, and the rest.
LEMMA PartSplit ==
    ASSUME NEW g \in [Offsets -> Nat], NEW r \in Offsets, NEW n \in Offsets,
           NEW t \in Offsets, Between(r, n) <= Between(r, t)
    PROVE  Part(g, r, t) = Part(g, r, n) \o Part(g, n, t)
<1> DEFINE a == Part(g, r, n)  b == Part(g, n, t)  c == Part(g, r, t)
<1>1. /\ a \in Seq(Nat) /\ b \in Seq(Nat) /\ c \in Seq(Nat)
      /\ Len(a) = Between(r, n) /\ Len(b) = Between(n, t) /\ Len(c) = Between(r, t)
  BY PartOfRing
<1>2. /\ Between(n, t) = Between(r, t) - Between(r, n)
      /\ Between(r, n) \in Nat /\ Between(n, t) \in Nat
      /\ Between(r, t) \in Nat /\ Between(r, t) < RingDwords
  BY Distances, GpuAssumption
<1>3. ASSUME NEW i \in 1 .. Len(c)
      PROVE  c[i] = IF i <= Len(a) THEN a[i] ELSE b[i - Len(a)]
  <2>1. c[i] = g[Ahead(r, i - 1)]
    BY <1>1, PartOfRing
  <2>2. CASE i <= Len(a)
    <3>1. i \in 1 .. Between(r, n)
      BY <1>1, <1>2, <2>2
    <3> QED BY <2>1, <2>2, <3>1, PartOfRing
  <2>3. CASE i > Len(a)
    <3>1. i - Len(a) \in 1 .. Between(n, t)
      BY <1>1, <1>2, <2>3
    <3>2. b[i - Len(a)] = g[Ahead(n, i - Len(a) - 1)]
      BY <3>1, PartOfRing
    <3>3. i - Len(a) - 1 \in Nat /\ Between(r, n) + (i - Len(a) - 1) < RingDwords
      BY <1>1, <1>2, <2>3, GpuAssumption
    <3>4. Ahead(n, i - Len(a) - 1) = Ahead(r, Between(r, n) + (i - Len(a) - 1))
      BY <3>3, Steps
    <3>5. Between(r, n) + (i - Len(a) - 1) = i - 1
      BY <1>1, <1>2, <2>3
    <3>6. ~(i <= Len(a))
      BY <1>1, <1>2, <2>3
    <3> QED BY <2>1, <3>2, <3>4, <3>5, <3>6
  <2> QED BY <1>1, <1>2, <2>2, <2>3
<1> HIDE DEF a, b, c
<1>4. Len(c) = Len(a) + Len(b)
  BY <1>1, <1>2
<1>5. /\ a \o b \in Seq(Nat) /\ Len(a \o b) = Len(c)
      /\ \A i \in 1 .. Len(c) : (a \o b)[i] = c[i]
  BY <1>1, <1>3, <1>4, ConcatProperties
<1>6. c = a \o b
  BY <1>1, <1>5, SeqEqual
<1> QED BY <1>6 DEF a, b, c

\* A packet put at offset t comes at the end of what is read up to there, and leaves
\* alone what lies before it.
LEMMA PartGrows ==
    ASSUME NEW g \in [Offsets -> Nat], NEW n \in Nat, NEW r \in Offsets,
           NEW t \in Offsets, Next1(t) # r
    PROVE  /\ Part([g EXCEPT ![t] = n], r, Next1(t)) = Append(Part(g, r, t), n)
           /\ \A to \in Offsets : Between(r, to) <= Between(r, t) =>
                 Part([g EXCEPT ![t] = n], r, to) = Part(g, r, to)
<1> DEFINE h == [g EXCEPT ![t] = n]
<1>1. h \in [Offsets -> Nat] /\ \A o \in Offsets : h[o] = IF o = t THEN n ELSE g[o]
  OBVIOUS
<1> HIDE DEF h
<1>2. /\ Between(r, Next1(t)) = Between(r, t) + 1 /\ Ahead(r, Between(r, t)) = t
      /\ Between(r, t) \in Nat /\ Between(r, t) < RingDwords /\ Next1(t) \in Offsets
  BY Distances, GpuAssumption
<1>3. ASSUME NEW i \in 1 .. Between(r, t) PROVE h[Ahead(r, i - 1)] = g[Ahead(r, i - 1)]
  <2>1. i - 1 \in Nat /\ i - 1 < Between(r, t) /\ i - 1 < RingDwords
    BY <1>2, GpuAssumption
  <2>2. Ahead(r, i - 1) \in Offsets /\ Ahead(r, i - 1) # t
    BY <2>1, Steps
  <2> QED BY <1>1, <2>2
<1>4. ASSUME NEW to \in Offsets, Between(r, to) <= Between(r, t)
      PROVE  Part(h, r, to) = Part(g, r, to)
  <2>1. \A i \in 1 .. Between(r, to) : i \in 1 .. Between(r, t)
    BY <1>2, <1>4, Distances
  <2> QED BY <1>3, <2>1 DEF Part
<1>5. Part(h, r, Next1(t)) = Append(Part(g, r, t), n)
  <2> DEFINE a == Part(g, r, t)  b == Part(h, r, Next1(t))
  <2>a. /\ a \in Seq(Nat) /\ Len(a) = Between(r, t)
        /\ \A i \in 1 .. Between(r, t) : a[i] = g[Ahead(r, i - 1)]
    BY PartOfRing
  <2>b. /\ b \in Seq(Nat) /\ Len(b) = Between(r, Next1(t))
        /\ \A i \in 1 .. Between(r, Next1(t)) : b[i] = h[Ahead(r, i - 1)]
    BY <1>1, <1>2, PartOfRing
  <2> HIDE DEF a, b
  <2>1. /\ a \in Seq(Nat) /\ Len(a) = Between(r, t)
        /\ b \in Seq(Nat) /\ Len(b) = Between(r, t) + 1
        /\ \A i \in 1 .. Between(r, t) : a[i] = g[Ahead(r, i - 1)]
        /\ \A i \in 1 .. Between(r, t) + 1 : b[i] = h[Ahead(r, i - 1)]
    BY <1>2, <2>a, <2>b
  <2>2. ASSUME NEW i \in 1 .. Between(r, t) PROVE b[i] = a[i]
    <3>1. i \in 1 .. Between(r, t) + 1
      BY <1>2
    <3>2. b[i] = h[Ahead(r, i - 1)] /\ a[i] = g[Ahead(r, i - 1)]
      BY <2>1, <3>1
    <3> QED BY <1>3, <3>2
  <2>3. b[Between(r, t) + 1] = n
    <3>1. Between(r, t) + 1 \in 1 .. Between(r, t) + 1 /\ (Between(r, t) + 1) - 1 = Between(r, t)
      BY <1>2
    <3> QED BY <1>1, <1>2, <2>1, <3>1
  <2>4. /\ Append(a, n) \in Seq(Nat) /\ Len(Append(a, n)) = Len(b)
        /\ \A i \in 1 .. Len(b) : b[i] = Append(a, n)[i]
    BY <1>2, <2>1, <2>2, <2>3, AppendProperties
  <2>5. b = Append(a, n)
    BY <2>1, <2>4, SeqEqual
  <2> QED BY <2>5 DEF a, b
<1> QED BY <1>4, <1>5 DEF h

\* What is read of a queue is a part of its ring.
LEMMA ReadPart ==
    ASSUME NEW q, NEW from, NEW to PROVE OnRing(q, from, to) = Part(ring[q], from, to)
  BY DEF OnRing, Part

\* The offsets of a queue, and its ring.
LEMMA QueueTypes ==
    ASSUME GpuTypes, NEW q \in GpuQueues
    PROVE  /\ tail[q] \in Offsets /\ Next1(tail[q]) \in Offsets /\ published[q] \in Offsets
           /\ readOffset[q] \in Offsets /\ ring[q] \in [Offsets -> Nat]
           /\ put[q] \in Seq(Nat) /\ taken[q] \in Seq(Nat)
  BY Distances DEF GpuTypes

\* One more at the end of two sequences.
LEMMA AppendBehind ==
    ASSUME NEW a \in Seq(Nat), NEW b \in Seq(Nat), NEW n \in Nat
    PROVE  Append(a \o b, n) = a \o Append(b, n)
<1>1. a \o b \in Seq(Nat) /\ <<n>> \in Seq(Nat)
  BY ConcatProperties
<1>2. Append(a \o b, n) = (a \o b) \o <<n>> /\ Append(b, n) = b \o <<n>>
  BY <1>1, AppendIsConcat
<1> QED BY <1>1, <1>2, ConcatAssociative

\* The guest puts a packet on a ring.
LEMMA PutRing ==
    ASSUME RInv, NEW q \in GpuQueues, NEW kind \in PacketKinds, Put(q, kind)
    PROVE  RInv'
<1> DEFINE n == Len(packets) + 1
<1>0. GpuTypes /\ WorkSound /\ n \in Nat /\ RingSound(q) /\ q \in mapped
  BY DEF RInv, Put, GpuTypes
<1>1. /\ put' = [put EXCEPT ![q] = Append(@, n)]
      /\ packets' = Append(packets, [kind |-> kind, first |-> put'[q][1]])
      /\ ring' = [ring EXCEPT ![q][tail[q]] = n]
      /\ tail' = [tail EXCEPT ![q] = Next1(@)] /\ Next1(tail[q]) # published[q]
      /\ UNCHANGED <<mapped, readOffset, published, taken, work>>
  BY DEF Put
<1> HIDE DEF n
<1>t. /\ tail[q] \in Offsets /\ Next1(tail[q]) \in Offsets
      /\ published[q] \in Offsets /\ readOffset[q] \in Offsets
      /\ put[q] \in Seq(Nat) /\ taken[q] \in Seq(Nat) /\ ring[q] \in [Offsets -> Nat]
  BY <1>0, QueueTypes
<1>2. /\ tail'[q] = Next1(tail[q]) /\ put'[q] = Append(put[q], n)
      /\ ring'[q] = [ring[q] EXCEPT ![tail[q]] = n]
      /\ \A p \in GpuQueues \ {q} : tail'[p] = tail[p] /\ put'[p] = put[p] /\ ring'[p] = ring[p]
  BY <1>0, <1>1 DEF GpuTypes
<1>3. GpuTypes'
  <2>1. put'[q] \in Seq(Nat) /\ put'[q][1] \in Nat
    BY <1>0, <1>2, <1>t, AppendProperties
  <2>2. packets' \in Seq([kind : PacketKinds, first : Nat])
    BY <1>0, <1>1, <2>1 DEF GpuTypes
  <2>3. put' \in [GpuQueues -> Seq(Nat)]
    BY <1>0, <1>1, <1>2, <2>1 DEF GpuTypes
  <2>4. ring' \in [GpuQueues -> [Offsets -> Nat]]
    BY <1>0, <1>1, <1>t DEF GpuTypes
  <2>5. tail' \in [GpuQueues -> Offsets]
    BY <1>0, <1>1, <1>t DEF GpuTypes
  <2> QED BY <1>0, <1>1, <2>2, <2>3, <2>4, <2>5 DEF GpuTypes
<1>4. Next1(tail[q]) # readOffset[q]
  <2>1. Between(published[q], readOffset[q]) <= Between(published[q], tail[q])
    BY <1>0 DEF RingSound
  <2> QED BY <1>1, <1>t, <2>1, RoomLeft
<1>5. /\ Part(ring'[q], readOffset[q], Next1(tail[q]))
            = Append(Part(ring[q], readOffset[q], tail[q]), n)
      /\ \A to \in Offsets : Between(readOffset[q], to) <= Between(readOffset[q], tail[q]) =>
            Part(ring'[q], readOffset[q], to) = Part(ring[q], readOffset[q], to)
  <2> DEFINE g == ring[q]  r == readOffset[q]  t == tail[q]
  <2>1. /\ g \in [Offsets -> Nat] /\ n \in Nat /\ r \in Offsets /\ t \in Offsets
        /\ Next1(t) # r
    BY <1>0, <1>4, <1>t
  <2> HIDE DEF g, r, t
  <2>2. /\ Part([g EXCEPT ![t] = n], r, Next1(t)) = Append(Part(g, r, t), n)
        /\ \A to \in Offsets : Between(r, to) <= Between(r, t) =>
              Part([g EXCEPT ![t] = n], r, to) = Part(g, r, to)
    BY <2>1, PartGrows
  <2>3. ring'[q] = [g EXCEPT ![t] = n]
    BY <1>2 DEF g, t
  <2> QED BY <2>2, <2>3 DEF g, r, t
<1>6. /\ Between(readOffset[q], Next1(tail[q])) = Between(readOffset[q], tail[q]) + 1
      /\ Between(published[q], Next1(tail[q])) = Between(published[q], tail[q]) + 1
      /\ Between(published[q], readOffset[q]) \in Nat /\ Between(published[q], tail[q]) \in Nat
  BY <1>1, <1>4, <1>t, Distances
<1>7. RingSound(q)'
  <2>1. Part(ring[q], readOffset[q], tail[q]) \in Seq(Nat)
    BY <1>t, PartOfRing
  <2>2. put[q] = taken[q] \o Part(ring[q], readOffset[q], tail[q])
    BY <1>0, ReadPart DEF RingSound
  <2>3. put'[q] = taken[q] \o Part(ring'[q], readOffset[q], tail'[q])
    <3> DEFINE a == taken[q]  b == Part(ring[q], readOffset[q], tail[q])
    <3>1. a \in Seq(Nat) /\ b \in Seq(Nat) /\ n \in Nat
      BY <1>0, <1>t, <2>1
    <3>2. put'[q] = Append(a \o b, n) /\ Part(ring'[q], readOffset[q], tail'[q]) = Append(b, n)
      BY <1>2, <1>5, <2>2
    <3> HIDE DEF a, b
    <3>3. Append(a \o b, n) = a \o Append(b, n)
      BY <3>1, AppendBehind
    <3>4. a = taken[q]
      BY DEF a
    <3> QED BY <3>2, <3>3, <3>4
  <2>4. OnRing(q, readOffset[q], tail[q])' = Part(ring'[q], readOffset[q], tail'[q])
    BY <1>1, ReadPart DEF OnRing, Part, Between, Ahead
  <2>5. (Between(published[q], readOffset[q]) <= Between(published[q], tail[q]))'
    BY <1>0, <1>1, <1>2, <1>6 DEF RingSound, Between
  <2> QED BY <1>0, <1>1, <2>3, <2>4, <2>5 DEF RingSound
<1>8. ASSUME NEW p \in GpuQueues \ {q} PROVE RingSound(p)'
  <2>1. OnRing(p, readOffset[p], tail[p])' = OnRing(p, readOffset[p], tail[p])
    BY <1>1, <1>2 DEF OnRing, Between, Ahead
  <2>2. RingSound(p)
    BY DEF RInv
  <2> QED BY <1>1, <1>2, <2>1, <2>2 DEF RingSound, Between
<1>9. WorkSound'
  <2> SUFFICES ASSUME work # NoWork, work.of # Direct
               PROVE  /\ work.list = OnRing(work.of, readOffset[work.of], work.next)'
                      /\ Between(readOffset[work.of], work.next)
                            <= Between(readOffset[work.of], tail'[work.of])
    BY <1>0, <1>1 DEF WorkSound, Between
  <2>1. PICK p \in GpuQueues : p = work.of
    BY <1>0 DEF WorkSound, Works
  <2>2. /\ work.list = Part(ring[p], readOffset[p], work.next) /\ work.next \in Offsets
        /\ Between(readOffset[p], work.next) <= Between(readOffset[p], tail[p])
    BY <1>0, <2>1, ReadPart DEF WorkSound, Works
  <2>3. OnRing(p, readOffset[p], work.next)' = Part(ring'[p], readOffset[p], work.next)
    BY <1>1 DEF OnRing, Part, Between, Ahead
  <2>4. CASE p = q
    <3>1. Between(readOffset[q], tail[q]) \in Nat /\ Between(readOffset[q], work.next) \in Nat
      BY <1>t, <2>2, Distances
    <3>2. Between(readOffset[q], work.next) <= Between(readOffset[q], tail'[q])
      BY <1>2, <1>6, <2>2, <2>4, <3>1
    <3>3. OnRing(work.of, readOffset[work.of], work.next)' = Part(ring'[q], readOffset[q], work.next)
      BY <1>1, <2>1, <2>3, <2>4
    <3> QED BY <1>5, <2>1, <2>2, <2>4, <3>2, <3>3
  <2>5. CASE p # q
    <3>1. OnRing(work.of, readOffset[work.of], work.next)' = Part(ring'[p], readOffset[p], work.next)
      BY <1>1, <2>1, <2>3
    <3> QED BY <1>2, <2>1, <2>2, <2>5, <3>1
  <2> QED BY <2>4, <2>5
<1> QED BY <1>3, <1>7, <1>8, <1>9 DEF RInv

\* An empty part of a ring.
LEMMA EmptyPart ==
    ASSUME NEW g \in [Offsets -> Nat], NEW r \in Offsets PROVE Part(g, r, r) = <<>>
<1>1. Part(g, r, r) \in Seq(Nat) /\ Len(Part(g, r, r)) = 0
  BY PartOfRing, Distances
<1>2. <<>> \in Seq(Nat) /\ Len(<<>>) = 0
  BY EmptySeq
<1> QED BY <1>1, <1>2, SeqEqual

\* The offsets and the packets of queue q.
ringOf(q) == <<mapped, readOffset[q], published[q], tail[q], ring[q], put[q], taken[q]>>

\* A step that leaves a queue alone.
LEMMA SameRing ==
    ASSUME NEW q \in GpuQueues, RingSound(q), ringOf(q)' = ringOf(q) PROVE RingSound(q)'
  BY DEF RingSound, ringOf, OnRing, Between, Ahead

\* A queue is mapped, or given up: its ring begins again.
LEMMA MapRing ==
    ASSUME RInv, NEW q \in GpuQueues, MapQueue(q) \/ UnmapQueue(q) PROVE RInv'
<1>0. GpuTypes /\ \A p \in GpuQueues : RingSound(p)
  BY DEF RInv
<1>1. GpuTypes'
  <2>1. 0 \in Offsets /\ NoRing \in [Offsets -> Nat] /\ <<>> \in Seq(Nat)
    BY GpuAssumption DEF Offsets, NoRing
  <2>2. CASE MapQueue(q)
    <3>1. readOffset' \in [GpuQueues -> Offsets] /\ published' \in [GpuQueues -> Offsets]
      BY <1>0, <2>1, <2>2 DEF GpuTypes, MapQueue
    <3>2. mapped' \subseteq GpuQueues
      BY <1>0, <2>2 DEF GpuTypes, MapQueue
    <3> QED BY <1>0, <2>2, <3>1, <3>2 DEF GpuTypes, MapQueue
  <2>3. CASE UnmapQueue(q)
    <3>1. readOffset' \in [GpuQueues -> Offsets] /\ tail' \in [GpuQueues -> Offsets]
      BY <1>0, <2>1, <2>3 DEF GpuTypes, UnmapQueue
    <3>2. put' \in [GpuQueues -> Seq(Nat)] /\ taken' \in [GpuQueues -> Seq(Nat)]
      BY <1>0, <2>1, <2>3 DEF GpuTypes, UnmapQueue
    <3>3. ring' \in [GpuQueues -> [Offsets -> Nat]]
      BY <1>0, <2>1, <2>3 DEF GpuTypes, UnmapQueue
    <3>4. mapped' \subseteq GpuQueues
      BY <1>0, <2>3 DEF GpuTypes, UnmapQueue
    <3> QED BY <1>0, <2>3, <3>1, <3>2, <3>3, <3>4 DEF GpuTypes, UnmapQueue
  <2> QED BY <2>2, <2>3
<1>2. WorkSound'
  BY DEF MapQueue, UnmapQueue, WorkSound
<1>3. ASSUME NEW p \in GpuQueues, p # q PROVE RingSound(p)'
  <2>1. /\ p \in mapped' <=> p \in mapped
        /\ readOffset'[p] = readOffset[p] /\ published'[p] = published[p] /\ tail'[p] = tail[p]
        /\ ring'[p] = ring[p] /\ put'[p] = put[p] /\ taken'[p] = taken[p]
    BY <1>0, <1>3 DEF MapQueue, UnmapQueue, GpuTypes
  <2> QED BY <1>0, <2>1 DEF RingSound, OnRing, Between, Ahead
<1>4. CASE MapQueue(q)
  <2>1. /\ readOffset'[q] = 0 /\ published'[q] = 0 /\ tail'[q] = 0
        /\ put'[q] = <<>> /\ taken'[q] = <<>> /\ q \in mapped'
    BY <1>0, <1>4 DEF MapQueue, GpuTypes, RingSound
  <2>2. 0 \in Offsets /\ ring'[q] \in [Offsets -> Nat]
    BY <1>1, GpuAssumption DEF Offsets, GpuTypes
  <2>3. OnRing(q, readOffset[q], tail[q])' = <<>>
    <3>1. OnRing(q, readOffset[q], tail[q])' = Part(ring'[q], 0, 0)
      BY <2>1 DEF OnRing, Part, Between, Ahead
    <3> QED BY <2>2, <3>1, EmptyPart
  <2>4. <<>> = <<>> \o <<>>
    BY ConcatEmptySeq, EmptySeq
  <2>5. RingSound(q)'
    BY <2>1, <2>3, <2>4 DEF RingSound, Between
  <2> QED BY <1>1, <1>2, <1>3, <2>5 DEF RInv
<1>5. CASE UnmapQueue(q)
  <2>1. tail'[q] = 0 /\ put'[q] = <<>> /\ taken'[q] = <<>> /\ q \notin mapped'
    BY <1>0, <1>5 DEF UnmapQueue, GpuTypes
  <2>2. RingSound(q)'
    BY <2>1 DEF RingSound
  <2> QED BY <1>1, <1>2, <1>3, <2>2 DEF RInv
<1> QED BY <1>4, <1>5

\* The first of a set of numbers.
LEMMA FirstIs ==
    ASSUME NEW ends \in SUBSET Nat, ends # {}
    PROVE  First(ends) \in ends /\ \A d \in ends : First(ends) <= d
<1>1. \E e \in ends : \A d \in ends : e <= d
  BY LeastNat
<1> QED BY <1>1 DEF First

\* A buffer holds numbers one after another.
LEMMA BufferIs ==
    ASSUME NEW n \in Nat, NEW ends \in SUBSET Nat, ends # {}, \A e \in ends : n <= e
    PROVE  /\ Buffer(n, ends) \in Seq(Nat) /\ Buffer(n, ends) # <<>>
           /\ LastOf(Buffer(n, ends)) = First(ends)
           /\ Range(Buffer(n, ends)) = n .. First(ends)
<1> DEFINE e == First(ends)  list == Buffer(n, ends)
<1>1. e \in Nat /\ n <= e
  BY FirstIs
<1> HIDE DEF e
<1>2. list = [i \in 1 .. e - n + 1 |-> n + i - 1]
  BY DEF Buffer, e
<1> HIDE DEF list
<1>3. list \in Seq(Nat) /\ Len(list) = e - n + 1
  BY <1>1, <1>2
<1>4. LastOf(list) = e
  BY <1>1, <1>2, <1>3 DEF LastOf
<1>5. Range(list) = n .. e
  <2>1. ASSUME NEW k \in n .. e PROVE k \in Range(list)
    <3>1. k - n + 1 \in 1 .. e - n + 1 /\ n + (k - n + 1) - 1 = k
      BY <1>1
    <3> QED BY <1>2, <3>1 DEF Range
  <2>2. ASSUME NEW i \in 1 .. e - n + 1 PROVE list[i] \in n .. e
    BY <1>1, <1>2
  <2> QED BY <1>2, <2>1, <2>2 DEF Range
<1> QED BY <1>1, <1>3, <1>4, <1>5 DEF e, list

\* A doorbell begins to work on what the ring holds up to where it rings.
LEMMA DingDongRing ==
    ASSUME RInv, "late_doorbell" \notin GpuPermitted, NEW q \in GpuQueues,
           NEW next \in Offsets, DingDong(q, next)
    PROVE  RInv'
<1>0. GpuTypes /\ q \in mapped /\ RingSound(q) /\ work = NoWork
  BY DEF RInv, DingDong
<1>1. UNCHANGED <<packets, mapped, readOffset, ring, tail, put, taken>>
  BY DEF DingDong
<1>2. Between(readOffset[q], next) <= Between(readOffset[q], tail[q])
  BY DEF DingDong, RungFor
<1>t. readOffset[q] \in Offsets /\ ring[q] \in [Offsets -> Nat] /\ tail[q] \in Offsets
  BY <1>0, QueueTypes
<1>3. published' = published \/ published' = [published EXCEPT ![q] = readOffset[q]]
  BY DEF DingDong, Publish
<1>4. GpuTypes'
  BY <1>0, <1>1, <1>3, <1>t DEF GpuTypes
<1>5. ASSUME NEW p \in GpuQueues PROVE RingSound(p)'
  <2>1. RingSound(p)
    BY DEF RInv
  <2>2. CASE published'[p] = published[p]
    BY <1>1, <2>1, <2>2, SameRing DEF ringOf
  <2>3. CASE published'[p] # published[p]
    <3>1. p = q /\ published'[q] = readOffset[q]
      BY <1>0, <1>3, <2>3 DEF GpuTypes
    <3>2. Between(readOffset[q], readOffset[q]) = 0 /\ Between(readOffset[q], tail[q]) \in Nat
      BY <1>t, Distances
    <3>3. (Between(published[q], readOffset[q]) <= Between(published[q], tail[q]))'
      BY <1>1, <3>1, <3>2 DEF Between
    <3> QED BY <1>0, <1>1, <3>1, <3>3 DEF RingSound, OnRing, Between, Ahead
  <2> QED BY <2>2, <2>3
<1>6. WorkSound'
  <2> DEFINE list == OnRing(q, readOffset[q], next)
  <2> SUFFICES ASSUME work' # NoWork PROVE WorkSound'
    BY DEF WorkSound
  <2>1. work' = Begun(q, list, {}, next) /\ list # <<>>
    BY <1>0 DEF DingDong
  <2>2. list \in Seq(Nat)
    BY <1>t, ReadPart, PartOfRing
  <2>3. /\ work'.of = q /\ work'.list = list /\ work'.more = {} /\ work'.next = next
        /\ work' \in Works /\ q # Direct
    BY <2>1, <2>2, GpuAssumption DEF Begun, Works
  <2>4. list = OnRing(q, readOffset[q], next)'
    BY <1>1 DEF OnRing, Between, Ahead
  <2> QED BY <1>0, <1>1, <1>2, <2>1, <2>3, <2>4 DEF WorkSound, Between, OnRing, Ahead
<1> QED BY <1>4, <1>5, <1>6 DEF RInv

\* A submit call begins with its first buffer.
LEMMA SubmitRing ==
    ASSUME RInv, NEW kinds \in CallKinds, NEW ends \in Ends(kinds), Submit(kinds, ends)
    PROVE  RInv'
<1>0. GpuTypes
  BY DEF RInv
<1>1. UNCHANGED ringVars
  BY DEF Submit
<1>2. GpuTypes'
  <2>1. PICK n \in Nat : kinds \in [1 .. n -> PacketKinds]
    BY DEF CallKinds
  <2>2. Len(packets) + 1 \in Nat
    BY <1>0 DEF GpuTypes
  <2>3. [i \in DOMAIN kinds |-> [kind |-> kinds[i], first |-> Len(packets) + 1]]
           \in Seq([kind : PacketKinds, first : Nat])
    BY <2>1, <2>2
  <2>4. packets' \in Seq([kind : PacketKinds, first : Nat])
    BY <1>0, <2>3, ConcatProperties DEF Submit, GpuTypes
  <2> QED BY <1>0, <1>1, <2>4 DEF GpuTypes, ringVars
<1>3. \A p \in GpuQueues : RingSound(p)'
  BY <1>1, SameRing DEF RInv, ringVars, ringOf
<1>4. WorkSound'
  <2> DEFINE last == {Len(packets) + e : e \in ends}  first == Len(packets) + 1
  <2> SUFFICES ASSUME work' # NoWork PROVE WorkSound'
    BY DEF WorkSound
  <2>1. work' = Begun(Direct, Buffer(first, last), Later(last), 0)
    BY DEF Submit
  <2>2. last \in SUBSET Nat /\ last # {} /\ first \in Nat /\ \A e \in last : first <= e
    <3>1. PICK n \in Nat : n > 0 /\ kinds \in [1 .. n -> PacketKinds]
      BY DEF CallKinds
    <3>2. ends \subseteq 1 .. n /\ ends # {}
      BY <3>1 DEF Ends
    <3>3. Len(packets) \in Nat
      BY <1>0 DEF GpuTypes
    <3>4. ASSUME NEW e \in ends PROVE Len(packets) + e \in Nat /\ first <= Len(packets) + e
      BY <3>1, <3>2, <3>3
    <3>5. last \subseteq Nat /\ \A e \in last : first <= e
      BY <3>4
    <3>6. last # {}
      BY <3>2
    <3> QED BY <3>3, <3>5, <3>6
  <2> HIDE DEF last, first
  <2>3. /\ Buffer(first, last) \in Seq(Nat) /\ Buffer(first, last) # <<>>
        /\ LastOf(Buffer(first, last)) = First(last) /\ First(last) \in Nat
        /\ \A e \in last : First(last) <= e
    BY <2>2, BufferIs, FirstIs
  <2>4. \A e \in Later(last) : e \in Nat /\ e > First(last)
    BY <2>2, <2>3 DEF Later
  <2>5. /\ work'.of = Direct /\ work'.list = Buffer(first, last) /\ work'.more = Later(last)
        /\ work'.next = 0 /\ work'.at = 0 /\ work'.phase = "draw"
    BY <2>1 DEF Begun
  <2>6. work' \in Works
    BY <2>1, <2>3, <2>4, GpuAssumption DEF Begun, Works, Offsets
  <2> QED BY <2>3, <2>4, <2>5, <2>6 DEF WorkSound
<1> QED BY <1>2, <1>3, <1>4 DEF RInv

\* The steps of a submission that leave the rings alone.
LEMMA QuietRing == ASSUME RInv, Draw \/ Execute PROVE RInv'
<1>1. UNCHANGED <<packets, ringVars>>
  BY DEF Draw, Execute
<1>2. GpuTypes' /\ \A p \in GpuQueues : RingSound(p)'
  BY <1>1, SameRing DEF RInv, ringVars, ringOf, GpuTypes
<1>3. WorkSound'
  <2> SUFFICES ASSUME work' # NoWork PROVE WorkSound'
    BY DEF WorkSound
  <2>1. work # NoWork /\ work \in Works
    BY DEF RInv, WorkSound, Draw, Execute
  <2>2. /\ work' \in Works /\ work'.of = work.of /\ work'.list = work.list
        /\ work'.more = work.more /\ work'.next = work.next
    BY <2>1 DEF Draw, Execute, Works
  <2>3. \A q \in GpuQueues : /\ OnRing(q, readOffset[q], work.next)' = OnRing(q, readOffset'[q], work'.next)
                             /\ (Between(readOffset[q], tail[q]))' = Between(readOffset[q], tail[q])
    BY <1>1, <2>2 DEF OnRing, Between, Ahead, ringVars
  <2> QED BY <1>1, <2>1, <2>2 DEF RInv, WorkSound, ringVars, OnRing, Between, Ahead
<1> QED BY <1>2, <1>3 DEF RInv

\* A doorbell moves its queue on; a submit call goes on with its next buffer.
LEMMA CommitRing == ASSUME RInv, Commit PROVE RInv'
<1>0. /\ GpuTypes /\ WorkSound /\ work # NoWork /\ work \in Works /\ work.list # <<>>
      /\ UNCHANGED <<packets, mapped, ring, tail, put>>
  BY DEF RInv, Commit, WorkSound
<1>1. CASE work.of = Direct
  <2> DEFINE more == work.more  n == LastOf(work.list) + 1
  <2>1. UNCHANGED <<readOffset, published, taken>>
    BY <1>1 DEF Commit
  <2>2. GpuTypes' /\ \A p \in GpuQueues : RingSound(p)'
    BY <1>0, <2>1, SameRing DEF RInv, ringOf, GpuTypes
  <2>3. WorkSound'
    <3> SUFFICES ASSUME work' # NoWork PROVE WorkSound'
      BY DEF WorkSound
    <3>1. work' = Begun(Direct, Buffer(n, more), Later(more), 0) /\ more # {}
      BY <1>1 DEF Commit, LastOf
    <3>2. more \in SUBSET Nat /\ n \in Nat /\ \A e \in more : n <= e
      <4>1. work.list \in Seq(Nat) /\ more \in SUBSET Nat
        BY <1>0 DEF Works
      <4>2. LastOf(work.list) \in Nat
        BY <1>0, <4>1 DEF LastOf
      <4>3. \A e \in more : e > LastOf(work.list)
        BY <1>0, <1>1 DEF WorkSound
      <4> QED BY <4>1, <4>2, <4>3
    <3> HIDE DEF more, n
    <3>3. /\ Buffer(n, more) \in Seq(Nat) /\ Buffer(n, more) # <<>>
          /\ LastOf(Buffer(n, more)) = First(more) /\ First(more) \in Nat
          /\ \A e \in more : First(more) <= e
      BY <3>1, <3>2, BufferIs, FirstIs
    <3>4. \A e \in Later(more) : e \in Nat /\ e > First(more)
      BY <3>2, <3>3 DEF Later
    <3>5. /\ work'.of = Direct /\ work'.list = Buffer(n, more) /\ work'.more = Later(more)
          /\ work'.next = 0 /\ work'.at = 0 /\ work'.phase = "draw"
      BY <3>1 DEF Begun
    <3>6. work' \in Works
      BY <3>1, <3>3, <3>4, GpuAssumption DEF Begun, Works, Offsets
    <3> QED BY <3>3, <3>4, <3>5, <3>6 DEF WorkSound
  <2> QED BY <2>2, <2>3 DEF RInv
<1>2. CASE work.of # Direct
  <2>1. PICK q \in GpuQueues : q = work.of
    BY <1>0, <1>2 DEF Works
  <2> DEFINE g == ring[q]  r == readOffset[q]  n == work.next  t == tail[q]
  <2>2. /\ readOffset' = [readOffset EXCEPT ![q] = n]
        /\ published' = published \/ published' = [published EXCEPT ![q] = n]
        /\ taken' = [taken EXCEPT ![q] = @ \o work.list] /\ work' = NoWork
    BY <1>2, <2>1 DEF Commit, Publish
  <2>3. /\ g \in [Offsets -> Nat] /\ r \in Offsets /\ n \in Offsets /\ t \in Offsets
        /\ published[q] \in Offsets /\ taken[q] \in Seq(Nat) /\ work.list \in Seq(Nat)
    BY <1>0, QueueTypes DEF Works
  <2>4. q \in mapped /\ work.list = Part(g, r, n) /\ Between(r, n) <= Between(r, t)
    BY <1>0, <1>2, <2>1, ReadPart DEF WorkSound
  <2>5. put[q] = taken[q] \o Part(g, r, t) /\ Between(published[q], r) <= Between(published[q], t)
    BY <2>4, ReadPart DEF RInv, RingSound
  <2> HIDE DEF g, r, n, t
  <2>6. GpuTypes'
    <3>1. taken[q] \o work.list \in Seq(Nat)
      BY <2>3, ConcatProperties
    <3>2. readOffset' \in [GpuQueues -> Offsets] /\ published' \in [GpuQueues -> Offsets]
      BY <1>0, <2>2, <2>3 DEF GpuTypes
    <3>3. taken' \in [GpuQueues -> Seq(Nat)]
      BY <1>0, <2>2, <3>1 DEF GpuTypes
    <3> QED BY <1>0, <3>2, <3>3 DEF GpuTypes
  <2>7. put[q] = (taken[q] \o work.list) \o Part(g, n, t)
    <3>1. Part(g, n, t) \in Seq(Nat) /\ Part(g, r, n) \in Seq(Nat)
      BY <2>3, PartOfRing
    <3>2. Between(r, n) <= Between(r, t)
      BY <2>4
    <3>3. Part(g, r, t) = Part(g, r, n) \o Part(g, n, t)
      BY <2>3, <3>2, PartSplit
    <3> DEFINE a == taken[q]  b == Part(g, r, n)  c == Part(g, n, t)
    <3>4. a \in Seq(Nat) /\ b \in Seq(Nat) /\ c \in Seq(Nat)
      BY <2>3, <3>1
    <3>5. put[q] = a \o (b \o c) /\ b = work.list
      BY <2>4, <2>5, <3>3
    <3> HIDE DEF a, b, c
    <3>6. a \o (b \o c) = (a \o b) \o c
      BY <3>4, ConcatAssociative
    <3>7. put[q] = (a \o work.list) \o c
      BY <3>5, <3>6
    <3> QED BY <3>7 DEF a, c
  <2>8. /\ Between(published[q], n) <= Between(published[q], t)
        /\ Between(n, n) = 0 /\ Between(n, t) \in Nat
    BY <2>3, <2>4, <2>5, Further, Distances
  <2>9. /\ readOffset'[q] = n /\ tail'[q] = t /\ ring'[q] = g /\ put'[q] = put[q]
        /\ taken'[q] = taken[q] \o work.list
        /\ published'[q] = published[q] \/ published'[q] = n
    BY <1>0, <2>2 DEF GpuTypes, g, t
  <2>10. RingSound(q)'
    <3>1. OnRing(q, readOffset[q], tail[q])' = Part(g, n, t)
      BY <2>9 DEF OnRing, Part, Between, Ahead
    <3>2. (Between(published[q], readOffset[q]) <= Between(published[q], tail[q]))'
      BY <2>8, <2>9 DEF Between
    <3> QED BY <1>0, <2>4, <2>7, <2>9, <3>1, <3>2 DEF RingSound
  <2>11. ASSUME NEW p \in GpuQueues, p # q PROVE RingSound(p)'
    <3>1. readOffset'[p] = readOffset[p] /\ published'[p] = published[p] /\ taken'[p] = taken[p]
      BY <1>0, <2>2, <2>11 DEF GpuTypes
    <3> QED BY <1>0, <3>1, SameRing DEF RInv, ringOf
  <2> QED BY <2>2, <2>6, <2>10, <2>11 DEF RInv, WorkSound
<1> QED BY <1>1, <1>2

\* The processor is reset, or starts: every ring is empty and given up.
LEMMA EmptyRings ==
    ASSUME mapped = {}, packets = <<>>, work = NoWork,
           readOffset = [q \in GpuQueues |-> 0], published \in [GpuQueues -> Offsets],
           tail = [q \in GpuQueues |-> 0], ring = [q \in GpuQueues |-> NoRing],
           put = [q \in GpuQueues |-> <<>>], taken = [q \in GpuQueues |-> <<>>]
    PROVE  RInv
<1>1. 0 \in Offsets /\ NoRing \in [Offsets -> Nat] /\ <<>> \in Seq(Nat)
  BY GpuAssumption DEF Offsets, NoRing
<1>2. GpuTypes
  <2>1. readOffset \in [GpuQueues -> Offsets] /\ tail \in [GpuQueues -> Offsets]
    BY <1>1
  <2>2. put \in [GpuQueues -> Seq(Nat)] /\ taken \in [GpuQueues -> Seq(Nat)]
    BY <1>1
  <2>3. ring \in [GpuQueues -> [Offsets -> Nat]]
    BY <1>1
  <2> QED BY <2>1, <2>2, <2>3 DEF GpuTypes
<1> QED BY <1>2 DEF RInv, WorkSound, RingSound

\* The reset begins with empty rings.
LEMMA ResetRing == ASSUME RInv, GpuReset PROVE RInv'
<1>1. published' \in [GpuQueues -> Offsets]
  BY DEF RInv, GpuTypes, GpuReset
<1>2. /\ mapped' = {} /\ packets' = <<>> /\ work' = NoWork
      /\ readOffset' = [q \in GpuQueues |-> 0] /\ tail' = [q \in GpuQueues |-> 0]
      /\ ring' = [q \in GpuQueues |-> NoRing]
      /\ put' = [q \in GpuQueues |-> <<>>] /\ taken' = [q \in GpuQueues |-> <<>>]
  BY DEF GpuReset
<1>3. 0 \in Offsets /\ NoRing \in [Offsets -> Nat] /\ <<>> \in Seq(Nat)
  BY GpuAssumption DEF Offsets, NoRing
<1>4. GpuTypes'
  <2>1. readOffset' \in [GpuQueues -> Offsets] /\ tail' \in [GpuQueues -> Offsets]
    BY <1>2, <1>3
  <2>2. put' \in [GpuQueues -> Seq(Nat)] /\ taken' \in [GpuQueues -> Seq(Nat)]
    BY <1>2, <1>3
  <2>3. ring' \in [GpuQueues -> [Offsets -> Nat]]
    BY <1>2, <1>3
  <2> QED BY <1>1, <1>2, <2>1, <2>2, <2>3 DEF GpuTypes
<1> QED BY <1>2, <1>4 DEF RInv, WorkSound, RingSound

\* The rings stay sound.
LEMMA AlwaysRInv == "late_doorbell" \notin GpuPermitted => (GpuSpec => []RInv)
<1> SUFFICES ASSUME "late_doorbell" \notin GpuPermitted PROVE GpuSpec => []RInv
  OBVIOUS
<1>1. GpuInit => RInv
  <2>1. GpuInit => published \in [GpuQueues -> Offsets]
    BY GpuAssumption DEF GpuInit, Offsets
  <2> QED BY <2>1, EmptyRings DEF GpuInit
<1>2. ASSUME RInv, [GpuNext]_gpuVars PROVE RInv'
  <2>1. CASE UNCHANGED gpuVars
    BY <1>2, <2>1 DEF gpuVars, ringVars, RInv, GpuTypes, WorkSound, RingSound, OnRing,
                      Between, Ahead
  <2>2. CASE GpuNext
    BY <1>2, <2>2, PutRing, MapRing, DingDongRing, SubmitRing, QuietRing, CommitRing,
       ResetRing DEF GpuNext
  <2> QED BY <1>2, <2>1, <2>2
<1> QED BY <1>1, <1>2, PTL DEF GpuSpec

\* No doorbell lags behind: what was put on a ring was accepted once and in order, or
\* is still on it.
THEOREM RingWholeHolds == "late_doorbell" \notin GpuPermitted => (GpuSpec => []RingWhole)
<1>1. RInv => RingWhole
  BY DEF RInv, RingSound, RingWhole, GpuTypes
<1> QED BY <1>1, AlwaysRInv, PTL

\* What was put on a ring, in packets ps: its packets one behind the other, and all
\* that have its first one.
Owned(s, ps) ==
    /\ \A i \in 1 .. Len(s) : s[i] \in 1 .. Len(ps) /\ ps[s[i]].first = s[1]
    /\ \A i, j \in 1 .. Len(s) : i < j => s[i] < s[j]
    /\ s # <<>> => \A m \in 1 .. Len(ps) :
                     ps[m].first = s[1] => \E i \in 1 .. Len(s) : s[i] = m

\* What comes before the packets of a list is drawn, or in the list.
Behind(list, ps, done) ==
    \A k \in Range(list) :
      /\ k \in 1 .. Len(ps)
      /\ \A m \in 1 .. k - 1 : ps[m].first = ps[k].first => m \in done \union Range(list)

\* The buffers a call has left lie behind the one it is at.
Rest(w, ps) ==
    \A e \in w.more : /\ e <= Len(ps)
                      /\ \A m \in LastOf(w.list) .. e : ps[m].first = ps[LastOf(w.list)].first

FirstsBefore == \A m \in 1 .. Len(packets) : packets[m].first \in 1 .. m
FirstsApart ==
    \A p, q \in GpuQueues :
      p # q /\ put[p] # <<>> /\ put[q] # <<>> => put[p][1] # put[q][1]
DrawnInOrder ==
    \A q \in GpuQueues : Owned(put[q], packets) /\ Range(taken[q]) \subseteq drawn
WorkInOrder ==
    work # NoWork =>
      /\ Behind(work.list, packets, drawn)
      /\ work.phase = "memory" => Range(work.list) \subseteq drawn
      /\ work.of = Direct => Rest(work, packets)
Labels == seen \subseteq 1 .. Len(packets) /\ LabelAfterWork

LInv == FirstsBefore /\ FirstsApart /\ DrawnInOrder /\ WorkInOrder /\ Labels

\* Three parts, put together from either end.
LEMMA ThreeParts ==
    ASSUME NEW a \in Seq(Nat), NEW b \in Seq(Nat), NEW c \in Seq(Nat)
    PROVE  (a \o b) \o c = a \o (b \o c)
  BY ONLY ConcatAssociative, a \in Seq(Nat), b \in Seq(Nat), c \in Seq(Nat)

\* What a concatenation holds.
LEMMA RangeOfConcat ==
    ASSUME NEW a \in Seq(Nat), NEW b \in Seq(Nat)
    PROVE  Range(a \o b) = Range(a) \union Range(b)
<1>1. /\ a \o b \in Seq(Nat) /\ Len(a \o b) = Len(a) + Len(b)
      /\ \A i \in 1 .. Len(a) + Len(b) :
            (a \o b)[i] = IF i <= Len(a) THEN a[i] ELSE b[i - Len(a)]
  BY ConcatProperties
<1>2. Len(a) \in Nat /\ Len(b) \in Nat /\ DOMAIN a = 1 .. Len(a) /\ DOMAIN b = 1 .. Len(b)
      /\ DOMAIN (a \o b) = 1 .. Len(a) + Len(b)
  BY <1>1
<1>3. ASSUME NEW i \in 1 .. Len(a) + Len(b) PROVE (a \o b)[i] \in Range(a) \union Range(b)
  <2>1. CASE i <= Len(a)
    BY <1>1, <1>2, <2>1 DEF Range
  <2>2. CASE i > Len(a)
    <3>1. i - Len(a) \in 1 .. Len(b) /\ ~(i <= Len(a))
      BY <1>2, <2>2
    <3> QED BY <1>1, <1>2, <3>1 DEF Range
  <2> QED BY <1>2, <2>1, <2>2
<1>4. ASSUME NEW i \in 1 .. Len(a) PROVE a[i] \in Range(a \o b)
  <2>1. i \in 1 .. Len(a) + Len(b) /\ i <= Len(a)
    BY <1>2
  <2> QED BY <1>1, <1>2, <2>1 DEF Range
<1>5. ASSUME NEW i \in 1 .. Len(b) PROVE b[i] \in Range(a \o b)
  <2>1. i + Len(a) \in 1 .. Len(a) + Len(b) /\ ~(i + Len(a) <= Len(a)) /\ (i + Len(a)) - Len(a) = i
    BY <1>2
  <2> QED BY <1>1, <1>2, <2>1 DEF Range
<1>6. Range(a \o b) \subseteq Range(a) \union Range(b)
  BY <1>2, <1>3 DEF Range
<1>7. Range(a) \subseteq Range(a \o b)
  BY <1>2, <1>4 DEF Range
<1>8. Range(b) \subseteq Range(a \o b)
  BY <1>2, <1>5 DEF Range
<1> QED BY <1>6, <1>7, <1>8

\* A packet with the first of what was put on a ring, before one of a part of it: it is
\* in the part, or before it.
LEMMA OwnedBehind ==
    ASSUME NEW a \in Seq(Nat), NEW b \in Seq(Nat), NEW c \in Seq(Nat), NEW ps,
           Len(ps) \in Nat, Owned((a \o b) \o c, ps)
    PROVE  Behind(b, ps, Range(a))
<1> DEFINE ab == a \o b  s == ab \o c
<1>1. /\ ab \in Seq(Nat) /\ Len(ab) \in Nat /\ s \in Seq(Nat) /\ Len(s) \in Nat
      /\ Len(ab) <= Len(s) /\ DOMAIN ab = 1 .. Len(ab)
      /\ \A i \in 1 .. Len(ab) : i \in 1 .. Len(s) /\ s[i] = ab[i]
  BY ConcatProperties
<1>2. Range(ab) = Range(a) \union Range(b)
  BY RangeOfConcat
<1>o. Owned(s, ps)
  OBVIOUS
<1> HIDE DEF ab, s
<1> SUFFICES ASSUME NEW k \in Range(b)
             PROVE  /\ k \in 1 .. Len(ps)
                    /\ \A m \in 1 .. k - 1 :
                         ps[m].first = ps[k].first => m \in Range(ab)
  BY <1>2 DEF Behind
<1>3. PICK i \in 1 .. Len(ab) : ab[i] = k
  BY <1>1, <1>2 DEF Range
<1>4. s[i] = k /\ i \in 1 .. Len(s) /\ k \in 1 .. Len(ps) /\ ps[k].first = s[1]
  BY <1>1, <1>3, <1>o DEF Owned
<1>5. ASSUME NEW m \in 1 .. k - 1, ps[m].first = ps[k].first PROVE m \in Range(ab)
  <2>1. s # <<>>
    BY <1>4
  <2>2. m \in 1 .. Len(ps)
    BY <1>4
  <2>3. PICK j \in 1 .. Len(s) : s[j] = m
    BY <1>4, <1>5, <1>o, <2>1, <2>2 DEF Owned
  <2>4. m < k
    BY <1>4
  <2>5. ~(i < j) /\ i # j
    <3>1. i < j => k < m
      BY <1>4, <1>o, <2>3 DEF Owned
    <3> QED BY <1>4, <2>3, <2>4, <3>1
  <2>6. j \in 1 .. Len(ab)
    BY <1>1, <1>3, <2>3, <2>5
  <2> QED BY <1>1, <2>3, <2>6 DEF Range
<1> QED BY <1>4, <1>5

\* Packets ps are those of qs and more.
More(ps, qs) ==
    /\ Len(ps) \in Nat /\ Len(qs) \in Nat /\ Len(ps) <= Len(qs)
    /\ \A m \in 1 .. Len(ps) : qs[m] = ps[m]

\* More packets come.
LEMMA MorePackets ==
    ASSUME NEW ps, NEW qs, More(ps, qs)
    PROVE  /\ \A list, done : Behind(list, ps, done) => Behind(list, qs, done)
           /\ \A w \in Works : LastOf(w.list) \in 1 .. Len(ps) /\ Rest(w, ps) => Rest(w, qs)
<1>1. ASSUME NEW list, NEW done, Behind(list, ps, done) PROVE Behind(list, qs, done)
  <2> SUFFICES ASSUME NEW k \in Range(list)
               PROVE  /\ k \in 1 .. Len(qs)
                      /\ \A m \in 1 .. k - 1 :
                           qs[m].first = qs[k].first => m \in done \union Range(list)
    BY DEF Behind
  <2>1. k \in 1 .. Len(ps) /\ qs[k] = ps[k]
    BY <1>1 DEF Behind, More
  <2>2. \A m \in 1 .. k - 1 : m \in 1 .. Len(ps) /\ qs[m] = ps[m]
    BY <2>1 DEF More
  <2> QED BY <1>1, <2>1, <2>2 DEF Behind, More
<1>2. ASSUME NEW w \in Works, LastOf(w.list) \in 1 .. Len(ps), Rest(w, ps) PROVE Rest(w, qs)
  <2> SUFFICES ASSUME NEW e \in w.more
               PROVE  /\ e <= Len(qs)
                      /\ \A m \in LastOf(w.list) .. e :
                           qs[m].first = qs[LastOf(w.list)].first
    BY DEF Rest
  <2>1. e \in Nat /\ e <= Len(ps)
    BY <1>2 DEF Rest, Works
  <2>2. \A m \in LastOf(w.list) .. e : m \in 1 .. Len(ps)
    BY <1>2, <2>1 DEF More
  <2> QED BY <1>2, <2>1, <2>2 DEF Rest, More
<1> QED BY <1>1, <1>2

\* Packets of others come: what a ring has put stays all there is of its first.
LEMMA OwnedApart ==
    ASSUME NEW s \in Seq(Nat), NEW ps, NEW qs, More(ps, qs), Owned(s, ps),
           s # <<>> => \A m \in Len(ps) + 1 .. Len(qs) : qs[m].first # s[1]
    PROVE  Owned(s, qs)
<1>1. \A i \in 1 .. Len(s) : s[i] \in 1 .. Len(qs) /\ qs[s[i]].first = s[1]
  BY DEF Owned, More
<1>2. ASSUME s # <<>>, NEW m \in 1 .. Len(qs), qs[m].first = s[1]
      PROVE  \E i \in 1 .. Len(s) : s[i] = m
  <2>1. m \in 1 .. Len(ps)
    BY <1>2 DEF More
  <2> QED BY <1>2, <2>1 DEF Owned, More
<1> QED BY <1>1, <1>2 DEF Owned

\* A packet is put behind the others of its ring.
LEMMA OwnedGrows ==
    ASSUME NEW s \in Seq(Nat), NEW ps, NEW qs, Len(ps) \in Nat, Len(qs) = Len(ps) + 1,
           More(ps, qs), Owned(s, ps), \A m \in 1 .. Len(ps) : ps[m].first \in 1 .. m,
           qs[Len(qs)].first = IF s = <<>> THEN Len(qs) ELSE s[1]
    PROVE  Owned(Append(s, Len(qs)), qs)
<1> DEFINE n == Len(qs)  t == Append(s, n)
<1>1. /\ Len(s) \in Nat /\ n \in Nat /\ n \in 1 .. Len(qs) /\ t # <<>>
      /\ Len(t) = Len(s) + 1 /\ t[Len(s) + 1] = n /\ \A i \in 1 .. Len(s) : t[i] = s[i]
  <2>1. n \in Nat /\ n \in 1 .. Len(qs)
    BY DEF More
  <2> QED BY <2>1, AppendProperties
<1>2. s = <<>> => Len(s) = 0
  OBVIOUS
<1>3. s # <<>> => Len(s) > 0
  <2>1. Len(s) = 0 => s = <<>>
    BY EmptySeq
  <2> QED BY <1>1, <2>1
<1>4. \A i \in 1 .. Len(s) : s[i] \in 1 .. Len(ps) /\ ps[s[i]].first = s[1]
  BY DEF Owned
<1> HIDE DEF n, t
<1>5. t[1] = qs[n].first
  BY <1>1, <1>2, <1>3 DEF n
<1>6. ASSUME NEW i \in 1 .. Len(t) PROVE t[i] \in 1 .. Len(qs) /\ qs[t[i]].first = t[1]
  <2>1. CASE i = Len(s) + 1
    BY <1>1, <1>5, <2>1
  <2>2. CASE i # Len(s) + 1
    <3>1. i \in 1 .. Len(s) /\ s # <<>>
      BY <1>1, <1>2, <2>2
    <3>2. t[i] \in 1 .. Len(ps) /\ ps[t[i]].first = s[1] /\ t[1] = s[1]
      BY <1>1, <1>3, <1>4, <3>1
    <3> QED BY <3>2 DEF More
  <2> QED BY <2>1, <2>2
<1>7. ASSUME NEW i \in 1 .. Len(t), NEW j \in 1 .. Len(t), i < j PROVE t[i] < t[j]
  <2>1. i \in 1 .. Len(s) /\ t[i] = s[i] /\ s[i] <= Len(ps)
    BY <1>1, <1>4, <1>7
  <2>2. CASE j = Len(s) + 1
    BY <1>1, <1>4, <2>1, <2>2 DEF n
  <2>3. CASE j # Len(s) + 1
    <3>1. j \in 1 .. Len(s) /\ t[j] = s[j]
      BY <1>1, <2>3
    <3>2. s[i] < s[j]
      BY <1>7, <2>1, <3>1 DEF Owned
    <3> QED BY <2>1, <3>1, <3>2
  <2> QED BY <2>2, <2>3
<1>8. ASSUME NEW m \in 1 .. Len(qs), qs[m].first = t[1]
      PROVE  \E i \in 1 .. Len(t) : t[i] = m
  <2>1. CASE m = n
    <3>1. Len(s) + 1 \in 1 .. Len(t)
      BY <1>1
    <3> QED BY <1>1, <2>1, <3>1
  <2>2. CASE m # n
    <3>1. m \in 1 .. Len(ps) /\ ps[m].first = t[1] /\ ps[m].first \in 1 .. m /\ m < n
      BY <1>1, <1>8, <2>2 DEF n, More
    <3>2. s # <<>> /\ t[1] = s[1]
      BY <1>1, <1>3, <1>5, <3>1 DEF n
    <3>3. PICK i \in 1 .. Len(s) : s[i] = m
      BY <3>1, <3>2 DEF Owned
    <3>4. i \in 1 .. Len(t) /\ t[i] = m
      BY <1>1, <3>3
    <3> QED BY <3>4
  <2> QED BY <2>1, <2>2
<1>9. Owned(t, qs)
  BY <1>6, <1>7, <1>8 DEF Owned
<1> QED BY <1>9 DEF n, t

\* The last packet of what a submission works on is a packet.
LEMMA LastIn ==
    ASSUME NEW list \in Seq(Nat), list # <<>>
    PROVE  LastOf(list) \in Range(list)
<1>1. Len(list) \in DOMAIN list
  <2>1. Len(list) = 0 => list = <<>>
    BY EmptySeq
  <2> QED BY <2>1
<1> QED BY <1>1 DEF LastOf, Range

\* More packets leave what is worked on, and the labels, in order.
LEMMA GrowWork ==
    ASSUME RInv, LInv, More(packets, packets'), UNCHANGED <<drawn, seen>>
    PROVE  Labels' /\ (UNCHANGED work => WorkInOrder')
<1>1. Labels'
  BY DEF LInv, Labels, LabelAfterWork, More
<1>2. ASSUME UNCHANGED work, work # NoWork PROVE WorkInOrder'
  <2>1. /\ work \in Works /\ Behind(work.list, packets, drawn)
        /\ work.phase = "memory" => Range(work.list) \subseteq drawn
        /\ work.of = Direct => Rest(work, packets)
    BY <1>2 DEF RInv, WorkSound, LInv, WorkInOrder
  <2>2. LastOf(work.list) \in Range(work.list)
    BY <1>2, <2>1, LastIn DEF RInv, WorkSound, Works
  <2>3. LastOf(work.list) \in 1 .. Len(packets)
    BY <2>1, <2>2 DEF Behind
  <2>4. Behind(work.list, packets', drawn)
    BY <2>1, MorePackets
  <2>5. work.of = Direct => Rest(work, packets')
    BY <2>1, <2>3, MorePackets
  <2> QED BY <1>2, <2>1, <2>4, <2>5 DEF WorkInOrder
<1> QED BY <1>1, <1>2 DEF WorkInOrder

\* The guest puts a packet on a ring.
LEMMA PutLabel ==
    ASSUME RInv, LInv, NEW q \in GpuQueues, NEW kind \in PacketKinds, Put(q, kind)
    PROVE  LInv'
<1> DEFINE n == Len(packets) + 1
           f == IF put[q] = <<>> THEN n ELSE put[q][1]
<1>1. /\ UNCHANGED <<taken, work, drawn, seen>> /\ put' = [put EXCEPT ![q] = Append(@, n)]
      /\ packets' = Append(packets, [kind |-> kind, first |-> put'[q][1]])
  BY DEF Put
<1>2. /\ put \in [GpuQueues -> Seq(Nat)] /\ Len(packets) \in Nat /\ put[q] \in Seq(Nat)
      /\ packets \in Seq([kind : PacketKinds, first : Nat])
  BY DEF RInv, GpuTypes
<1>3. /\ put'[q] = Append(put[q], n) /\ \A p \in GpuQueues \ {q} : put'[p] = put[p]
  BY <1>1, <1>2
<1>4. put'[q][1] = f /\ f \in Nat /\ f \in 1 .. n
  <2>1. CASE put[q] = <<>>
    <3>1. put'[q] = <<n>>
      BY <1>3, <2>1
    <3> QED BY <1>2, <2>1, <3>1
  <2>2. CASE put[q] # <<>>
    <3>1. 1 \in 1 .. Len(put[q])
      BY <1>2, <2>2, EmptySeq
    <3>2. put[q][1] \in 1 .. Len(packets)
      BY <3>1 DEF LInv, DrawnInOrder, Owned
    <3>3. put'[q][1] = put[q][1]
      BY <1>2, <1>3, <3>1, AppendProperties
    <3> QED BY <1>2, <2>2, <3>2, <3>3
  <2> QED BY <2>1, <2>2
<1> HIDE DEF n, f
<1>5. /\ More(packets, packets') /\ Len(packets') = n /\ packets'[n].first = f
      /\ \A m \in 1 .. Len(packets) : packets'[m] = packets[m]
  <2>1. packets' = Append(packets, [kind |-> kind, first |-> f])
    BY <1>1, <1>4
  <2>2. /\ Len(packets') = Len(packets) + 1 /\ packets'[Len(packets) + 1].first = f
        /\ \A m \in 1 .. Len(packets) : packets'[m] = packets[m]
    BY <1>2, <2>1
  <2> QED BY <1>2, <2>2 DEF More, n
<1>6. FirstsBefore'
  <2> SUFFICES ASSUME NEW m \in 1 .. n PROVE packets'[m].first \in 1 .. m
    BY <1>5 DEF FirstsBefore
  <2>1. CASE m = n
    BY <1>4, <1>5, <2>1
  <2>2. CASE m # n
    <3>1. m \in 1 .. Len(packets)
      BY <1>2, <2>2 DEF n
    <3> QED BY <1>5, <3>1 DEF LInv, FirstsBefore
  <2> QED BY <2>1, <2>2
<1>7. ASSUME NEW p \in GpuQueues, p # q, put[p] # <<>> PROVE put[p][1] # f
  <2>1. put[p][1] \in 1 .. Len(packets)
    <3>1. put[p] \in Seq(Nat) /\ 1 \in 1 .. Len(put[p])
      BY <1>2, <1>7, EmptySeq
    <3> QED BY <3>1 DEF LInv, DrawnInOrder, Owned
  <2>2. CASE put[q] = <<>>
    BY <1>2, <2>1, <2>2 DEF f, n
  <2>3. CASE put[q] # <<>>
    BY <1>7, <2>3 DEF LInv, FirstsApart, f
  <2> QED BY <2>2, <2>3
<1>8. FirstsApart'
  <2> SUFFICES ASSUME NEW p \in GpuQueues, NEW r \in GpuQueues, p # r,
                      put'[p] # <<>>, put'[r] # <<>>
               PROVE  put'[p][1] # put'[r][1]
    BY DEF FirstsApart
  <2>1. CASE p = q
    BY <1>3, <1>4, <1>7, <2>1
  <2>2. CASE r = q
    BY <1>3, <1>4, <1>7, <2>2
  <2>3. CASE p # q /\ r # q
    BY <1>3, <2>3 DEF LInv, FirstsApart
  <2> QED BY <2>1, <2>2, <2>3
<1>9. DrawnInOrder'
  <2> SUFFICES ASSUME NEW p \in GpuQueues PROVE Owned(put'[p], packets')
    BY <1>1 DEF LInv, DrawnInOrder
  <2>1. Owned(put[p], packets) /\ put[p] \in Seq(Nat)
    BY <1>2 DEF LInv, DrawnInOrder
  <2>2. CASE p = q
    <3>1. \A m \in 1 .. Len(packets) : packets[m].first \in 1 .. m
      BY DEF LInv, FirstsBefore
    <3>2. packets'[Len(packets')].first = IF put[q] = <<>> THEN Len(packets') ELSE put[q][1]
      BY <1>5 DEF f
    <3>3. Len(packets') = Len(packets) + 1
      BY <1>5 DEF n
    <3>4. Owned(Append(put[q], Len(packets')), packets')
      BY <1>2, <1>5, <2>1, <2>2, <3>1, <3>2, <3>3, OwnedGrows
    <3> QED BY <1>3, <1>5, <2>2, <3>4
  <2>3. CASE p # q
    <3>1. put[p] # <<>> =>
             \A m \in Len(packets) + 1 .. Len(packets') : packets'[m].first # put[p][1]
      <4> SUFFICES ASSUME put[p] # <<>>, NEW m \in Len(packets) + 1 .. Len(packets')
                   PROVE  packets'[m].first # put[p][1]
        OBVIOUS
      <4>1. m = n
        BY <1>2, <1>5 DEF n
      <4> QED BY <1>5, <1>7, <2>3, <4>1
    <3>2. Owned(put[p], packets')
      BY <1>5, <2>1, <3>1, OwnedApart
    <3> QED BY <1>3, <2>3, <3>2
  <2> QED BY <2>2, <2>3
<1>10. Labels' /\ WorkInOrder'
  BY <1>1, <1>5, GrowWork
<1> QED BY <1>6, <1>8, <1>9, <1>10 DEF LInv

\* A queue is mapped, or given up: what it is given next has a first of its own.
LEMMA MapLabel ==
    ASSUME RInv, LInv, NEW q \in GpuQueues, MapQueue(q) \/ UnmapQueue(q) PROVE LInv'
<1>1. UNCHANGED <<packets, work, drawn, seen>> /\ work = NoWork
  BY DEF MapQueue, UnmapQueue
<1>2. FirstsBefore' /\ Labels' /\ WorkInOrder'
  BY <1>1 DEF LInv, FirstsBefore, Labels, LabelAfterWork, WorkInOrder
<1>3. \A p \in GpuQueues : \/ put'[p] = put[p] /\ taken'[p] = taken[p]
                           \/ put'[p] = <<>> /\ taken'[p] = <<>>
  BY DEF RInv, GpuTypes, MapQueue, UnmapQueue
<1>4. FirstsApart'
  <2> SUFFICES ASSUME NEW p \in GpuQueues, NEW r \in GpuQueues, p # r,
                      put'[p] # <<>>, put'[r] # <<>>
               PROVE  put'[p][1] # put'[r][1]
    BY DEF FirstsApart
  <2> QED BY <1>3 DEF LInv, FirstsApart
<1>5. DrawnInOrder'
  <2> SUFFICES ASSUME NEW p \in GpuQueues
               PROVE  Owned(put'[p], packets) /\ Range(taken'[p]) \subseteq drawn
    BY <1>1 DEF DrawnInOrder
  <2>1. Owned(<<>>, packets) /\ Range(<<>>) = {}
    BY DEF Owned, Range
  <2> QED BY <1>3, <2>1 DEF LInv, DrawnInOrder
<1> QED BY <1>2, <1>4, <1>5 DEF LInv

\* A doorbell works on what comes next on its ring.
LEMMA DingDongLabel ==
    ASSUME RInv, LInv, "late_doorbell" \notin GpuPermitted, NEW q \in GpuQueues,
           NEW next \in Offsets, DingDong(q, next)
    PROVE  LInv'
<1>1. UNCHANGED <<packets, put, taken, drawn, seen>> /\ work = NoWork /\ q \in mapped
  BY DEF DingDong
<1>2. FirstsBefore' /\ Labels' /\ FirstsApart' /\ DrawnInOrder'
  BY <1>1 DEF LInv, FirstsBefore, Labels, LabelAfterWork, FirstsApart, DrawnInOrder
<1>3. WorkInOrder'
  <2> DEFINE g == ring[q]  r == readOffset[q]  t == tail[q]
             list == Part(g, r, next)  rest == Part(g, next, t)
  <2> SUFFICES ASSUME work' # NoWork PROVE WorkInOrder'
    BY DEF WorkInOrder
  <2>1. work' = Begun(q, list, {}, next)
    BY <1>1, ReadPart DEF DingDong
  <2>2. /\ g \in [Offsets -> Nat] /\ r \in Offsets /\ t \in Offsets /\ taken[q] \in Seq(Nat)
        /\ Len(packets) \in Nat
    BY QueueTypes DEF RInv, GpuTypes
  <2>3. Between(r, next) <= Between(r, t)
    BY DEF DingDong, RungFor
  <2>4. list \in Seq(Nat) /\ rest \in Seq(Nat)
    BY <2>2, PartOfRing
  <2>5. Part(g, r, t) = list \o rest
    BY <2>2, <2>3, PartSplit
  <2>6. put[q] = taken[q] \o Part(g, r, t)
    BY <1>1, ReadPart DEF RInv, RingSound
  <2> HIDE DEF g, r, t, list, rest
  <2>7. put[q] = (taken[q] \o list) \o rest
    <3> DEFINE a == taken[q]
    <3>1. a \in Seq(Nat) /\ list \in Seq(Nat) /\ rest \in Seq(Nat)
      BY <2>2, <2>4
    <3>p. put[q] = a \o (list \o rest)
      BY <2>5, <2>6
    <3> HIDE DEF a
    <3>2. a \o (list \o rest) = (a \o list) \o rest
      BY <3>1, ThreeParts
    <3>3. put[q] = (a \o list) \o rest
      BY <3>2, <3>p
    <3> QED BY <3>3 DEF a
  <2>8. Owned(put[q], packets) /\ Range(taken[q]) \subseteq drawn
    BY DEF LInv, DrawnInOrder
  <2>9. Behind(list, packets, Range(taken[q]))
    BY <2>2, <2>4, <2>7, <2>8, OwnedBehind
  <2>10. Behind(list, packets, drawn)
    BY <2>8, <2>9 DEF Behind
  <2>11. work'.list = list /\ work'.phase = "draw" /\ work'.of # Direct
    BY <2>1, GpuAssumption DEF Begun
  <2> QED BY <1>1, <2>10, <2>11 DEF WorkInOrder
<1> QED BY <1>2, <1>3 DEF LInv

\* A submit call's packets have a first of their own.
LEMMA SubmitLabel ==
    ASSUME RInv, LInv, NEW kinds \in CallKinds, NEW ends \in Ends(kinds), Submit(kinds, ends)
    PROVE  LInv'
<1> DEFINE first == Len(packets) + 1  last == {Len(packets) + e : e \in ends}
<1>1. /\ UNCHANGED <<put, taken, drawn, seen>> /\ work = NoWork
      /\ packets' = packets \o [i \in DOMAIN kinds |-> [kind |-> kinds[i], first |-> first]]
  BY DEF Submit, ringVars
<1>2. PICK n \in Nat : n > 0 /\ kinds \in [1 .. n -> PacketKinds]
  BY DEF CallKinds
<1>3. Len(packets) \in Nat /\ packets \in Seq([kind : PacketKinds, first : Nat])
      /\ put \in [GpuQueues -> Seq(Nat)]
  BY DEF RInv, GpuTypes
<1>4. /\ Len(packets') = Len(packets) + n /\ More(packets, packets')
      /\ \A m \in 1 .. Len(packets) : packets'[m] = packets[m]
      /\ \A m \in first .. Len(packets) + n : packets'[m].first = first
  <2> DEFINE new == [i \in DOMAIN kinds |-> [kind |-> kinds[i], first |-> first]]
  <2>1. new \in Seq([kind : PacketKinds, first : Nat]) /\ Len(new) = n
    BY <1>2, <1>3
  <2>2. \A i \in 1 .. n : new[i].first = first
    BY <1>2
  <2> HIDE DEF new, first
  <2>3. /\ Len(packets \o new) = Len(packets) + n
        /\ \A i \in 1 .. Len(packets) + n :
              (packets \o new)[i] = IF i <= Len(packets) THEN packets[i]
                                    ELSE new[i - Len(packets)]
    BY <1>3, <2>1, ConcatProperties
  <2>4. packets' = packets \o new
    BY <1>1 DEF new
  <2>5. ASSUME NEW m \in first .. Len(packets) + n PROVE packets'[m].first = first
    <3>1. m - Len(packets) \in 1 .. n /\ m \in 1 .. Len(packets) + n /\ ~(m <= Len(packets))
      BY <1>2, <1>3 DEF first
    <3> QED BY <2>2, <2>3, <2>4, <3>1
  <2>6. \A m \in 1 .. Len(packets) : packets'[m] = packets[m]
    BY <1>2, <1>3, <2>3, <2>4
  <2>7. Len(packets') = Len(packets) + n
    BY <2>3, <2>4
  <2>8. More(packets, packets')
    BY <1>2, <1>3, <2>6, <2>7 DEF More
  <2> QED BY <2>5, <2>6, <2>7, <2>8
<1>5. FirstsBefore'
  <2> SUFFICES ASSUME NEW m \in 1 .. Len(packets) + n PROVE packets'[m].first \in 1 .. m
    BY <1>4 DEF FirstsBefore
  <2>1. CASE m <= Len(packets)
    <3>1. m \in 1 .. Len(packets)
      BY <1>3, <2>1
    <3> QED BY <1>4, <3>1 DEF LInv, FirstsBefore
  <2>2. CASE m > Len(packets)
    BY <1>2, <1>3, <1>4, <2>2
  <2> QED BY <1>2, <1>3, <2>1, <2>2
<1>6. FirstsApart'
  BY <1>1 DEF LInv, FirstsApart
<1>7. DrawnInOrder'
  <2> SUFFICES ASSUME NEW p \in GpuQueues PROVE Owned(put[p], packets')
    BY <1>1 DEF LInv, DrawnInOrder
  <2>1. Owned(put[p], packets) /\ put[p] \in Seq(Nat)
    BY <1>3 DEF LInv, DrawnInOrder
  <2>2. put[p] # <<>> =>
           \A m \in Len(packets) + 1 .. Len(packets') : packets'[m].first # put[p][1]
    <3> SUFFICES ASSUME put[p] # <<>>, NEW m \in Len(packets) + 1 .. Len(packets')
                 PROVE  packets'[m].first # put[p][1]
      OBVIOUS
    <3>1. 1 \in 1 .. Len(put[p])
      BY <2>1, EmptySeq
    <3>2. put[p][1] \in 1 .. Len(packets)
      BY <2>1, <3>1 DEF Owned
    <3>3. packets'[m].first = Len(packets) + 1
      BY <1>4
    <3> QED BY <1>3, <3>2, <3>3
  <2> QED BY <1>4, <2>1, <2>2, OwnedApart
<1>8. Labels'
  BY <1>1, <1>4, GrowWork
<1>9. WorkInOrder'
  <2> SUFFICES ASSUME work' # NoWork PROVE WorkInOrder'
    BY DEF WorkInOrder
  <2>1. work' = Begun(Direct, Buffer(first, last), Later(last), 0)
    BY DEF Submit
  <2>2. last \in SUBSET Nat /\ last # {} /\ first \in Nat /\ first > 0
        /\ \A e \in last : first <= e /\ e <= Len(packets')
    <3>1. ends \subseteq 1 .. n /\ ends # {}
      BY <1>2 DEF Ends
    <3>2. ASSUME NEW e \in ends
          PROVE  /\ Len(packets) + e \in Nat /\ first <= Len(packets) + e
                 /\ Len(packets) + e <= Len(packets')
      BY <1>2, <1>3, <1>4, <3>1
    <3>3. last \subseteq Nat /\ \A e \in last : first <= e /\ e <= Len(packets')
      BY <3>2
    <3>4. last # {}
      BY <3>1
    <3> QED BY <1>3, <3>3, <3>4
  <2>3. \A m \in first .. Len(packets') : packets'[m].first = first
    BY <1>4
  <2>l. Len(packets') \in Nat
    BY <1>2, <1>3, <1>4
  <2> HIDE DEF last, first
  <2>4. /\ LastOf(Buffer(first, last)) = First(last) /\ First(last) \in last
        /\ Range(Buffer(first, last)) = first .. First(last)
    BY <2>2, BufferIs, FirstIs
  <2>f. First(last) \in Nat /\ first <= First(last) /\ First(last) <= Len(packets')
    BY <2>2, <2>4
  <2>5. Behind(Buffer(first, last), packets', drawn)
    <3> SUFFICES ASSUME NEW k \in first .. First(last)
                 PROVE  /\ k \in 1 .. Len(packets')
                        /\ \A m \in 1 .. k - 1 :
                             packets'[m].first = packets'[k].first => m \in first .. First(last)
      BY <2>4 DEF Behind
    <3>1. k \in first .. Len(packets') /\ k \in 1 .. Len(packets') /\ First(last) \in Nat
      <4>1. first \in Nat /\ first > 0
        BY <2>2
      <4> QED BY <2>f, <2>l, <4>1
    <3>2. packets'[k].first = first
      BY <2>3, <3>1
    <3>3. ASSUME NEW m \in 1 .. k - 1, packets'[m].first = first PROVE m \in first .. First(last)
      <4>1. m \in 1 .. Len(packets')
        BY <2>l, <3>1
      <4>2. packets'[m].first \in 1 .. m
        BY <1>5, <4>1 DEF FirstsBefore
      <4> QED BY <2>2, <3>1, <3>3, <4>2
    <3> QED BY <3>1, <3>2, <3>3
  <2>6. /\ work'.list = Buffer(first, last) /\ work'.more = Later(last)
        /\ work'.phase = "draw"
    BY <2>1 DEF Begun
  <2>7. Rest(work', packets')
    <3> SUFFICES ASSUME NEW e \in Later(last)
                 PROVE  /\ e <= Len(packets')
                        /\ \A m \in First(last) .. e : packets'[m].first = packets'[First(last)].first
      BY <2>4, <2>6 DEF Rest
    <3>1. e \in last
      BY DEF Later
    <3>2. first \in Nat /\ e \in Nat /\ e <= Len(packets')
      BY <2>2, <3>1
    <3>3. First(last) \in first .. Len(packets') /\ \A m \in First(last) .. e : m \in first .. Len(packets')
      BY <2>f, <2>l, <3>2
    <3> QED BY <2>2, <2>3, <3>1, <3>2, <3>3
  <2> QED BY <1>1, <2>5, <2>6, <2>7 DEF WorkInOrder
<1> QED BY <1>5, <1>6, <1>7, <1>8, <1>9 DEF LInv

\* Without failures what is worked on is given to the back end before it writes memory.
LEMMA DrawLabel ==
    ASSUME RInv, LInv, "draw_fails" \notin GpuPermitted, Draw PROVE LInv'
<1>1. /\ UNCHANGED <<packets, put, taken, seen>> /\ drawn' = drawn \union Range(work.list)
      /\ work # NoWork /\ work' = [work EXCEPT !.phase = "memory"]
  BY DEF Draw, ringVars
<1>2. FirstsBefore' /\ Labels' /\ FirstsApart' /\ DrawnInOrder'
  BY <1>1 DEF LInv, FirstsBefore, Labels, LabelAfterWork, FirstsApart, DrawnInOrder
<1>3. work \in Works
  BY <1>1 DEF RInv, WorkSound
<1>4. /\ work'.list = work.list /\ work'.more = work.more /\ work'.of = work.of
      /\ work'.phase = "memory"
  BY <1>1, <1>3 DEF Works
<1>5. Behind(work'.list, packets', drawn')
  BY <1>1, <1>4 DEF LInv, WorkInOrder, Behind
<1>6. work'.of = Direct => Rest(work', packets')
  BY <1>1, <1>4 DEF LInv, WorkInOrder, Rest
<1>7. WorkInOrder'
  BY <1>1, <1>4, <1>5, <1>6 DEF WorkInOrder
<1> QED BY <1>2, <1>7 DEF LInv

\* A label is written when what comes before it was drawn.
LEMMA ExecuteLabel == ASSUME RInv, LInv, Execute PROVE LInv'
<1> DEFINE n == work.list[work.at + 1]
<1>1. /\ UNCHANGED <<packets, put, taken, drawn>> /\ work # NoWork /\ work.phase = "memory"
      /\ work.at < Len(work.list) /\ seen' = IF Kind(n) = "label" THEN seen \union {n} ELSE seen
      /\ work' = NoWork \/ work' = [work EXCEPT !.at = @ + 1]
  BY DEF Execute, ringVars
<1>2. FirstsBefore' /\ FirstsApart' /\ DrawnInOrder'
  BY <1>1 DEF LInv, FirstsBefore, FirstsApart, DrawnInOrder
<1>3. work \in Works
  BY <1>1 DEF RInv, WorkSound
<1>4. WorkInOrder'
  <2> SUFFICES ASSUME work' # NoWork PROVE WorkInOrder'
    BY DEF WorkInOrder
  <2>1. /\ work'.list = work.list /\ work'.more = work.more /\ work'.of = work.of
        /\ work'.phase = work.phase
    BY <1>1, <1>3 DEF Works
  <2> QED BY <1>1, <2>1 DEF LInv, WorkInOrder, Behind, Rest
<1>5. n \in Range(work.list)
  <2>1. work.at + 1 \in 1 .. Len(work.list)
    BY <1>1, <1>3 DEF Works
  <2> QED BY <1>3, <2>1 DEF Works, Range
<1>6. /\ Behind(work.list, packets, drawn) /\ Range(work.list) \subseteq drawn
  BY <1>1 DEF LInv, WorkInOrder
<1>7. /\ n \in 1 .. Len(packets)
      /\ \A m \in 1 .. n - 1 : packets[m].first = packets[n].first => m \in drawn
  BY <1>5, <1>6 DEF Behind
<1> HIDE DEF n
<1>8. Labels'
  BY <1>1, <1>7 DEF LInv, Labels, LabelAfterWork
<1> QED BY <1>2, <1>4, <1>8 DEF LInv

\* A doorbell's packets are accepted; a call goes on behind what it has drawn.
LEMMA CommitLabel == ASSUME RInv, LInv, Commit PROVE LInv'
<1>1. /\ UNCHANGED <<packets, put, drawn, seen>> /\ work # NoWork /\ work.phase = "memory"
      /\ work \in Works /\ work.list # <<>>
  BY DEF Commit, RInv, WorkSound
<1>2. FirstsBefore' /\ Labels' /\ FirstsApart'
  BY <1>1 DEF LInv, FirstsBefore, Labels, LabelAfterWork, FirstsApart
<1>3. /\ Behind(work.list, packets, drawn) /\ Range(work.list) \subseteq drawn
      /\ work.of = Direct => Rest(work, packets)
  BY <1>1 DEF LInv, WorkInOrder
<1>4. CASE work.of # Direct
  <2>1. PICK q \in GpuQueues : q = work.of
    BY <1>1, <1>4 DEF Works
  <2>2. taken' = [taken EXCEPT ![q] = @ \o work.list] /\ work' = NoWork
    BY <1>4, <2>1 DEF Commit
  <2>3. /\ taken \in [GpuQueues -> Seq(Nat)] /\ taken[q] \in Seq(Nat) /\ work.list \in Seq(Nat)
    BY <1>1 DEF RInv, GpuTypes, Works
  <2>4. Range(taken[q] \o work.list) = Range(taken[q]) \union Range(work.list)
    BY <2>3, RangeOfConcat
  <2>5. \A p \in GpuQueues : taken'[p] = IF p = q THEN taken[q] \o work.list ELSE taken[p]
    BY <2>2, <2>3
  <2>6. \A p \in GpuQueues : Range(taken'[p]) \subseteq drawn
    BY <1>3, <2>4, <2>5 DEF LInv, DrawnInOrder
  <2>7. DrawnInOrder'
    BY <1>1, <2>6 DEF LInv, DrawnInOrder
  <2> QED BY <1>2, <2>2, <2>7 DEF LInv, WorkInOrder
<1>5. CASE work.of = Direct
  <2> DEFINE more == work.more  l == LastOf(work.list)
  <2>1. DrawnInOrder'
    BY <1>1, <1>5 DEF LInv, DrawnInOrder, Commit
  <2>2. WorkInOrder'
    <3> SUFFICES ASSUME work' # NoWork PROVE WorkInOrder'
      BY DEF WorkInOrder
    <3>1. work' = Begun(Direct, Buffer(l + 1, more), Later(more), 0) /\ more # {}
      BY <1>5 DEF Commit, LastOf
    <3>2. work.list \in Seq(Nat) /\ more \in SUBSET Nat /\ l \in Range(work.list)
      BY <1>1, LastIn DEF Works
    <3>3. l \in 1 .. Len(packets) /\ l \in drawn
      BY <1>3, <3>2 DEF Behind
    <3>4. \A m \in 1 .. l - 1 : packets[m].first = packets[l].first => m \in drawn
      BY <1>3, <3>2 DEF Behind
    <3>5. \A e \in more : /\ l < e /\ e <= Len(packets)
                          /\ \A m \in l .. e : packets[m].first = packets[l].first
      BY <1>1, <1>3, <1>5 DEF RInv, WorkSound, Rest
    <3>p. Len(packets) \in Nat /\ l \in Nat
      BY <3>3 DEF RInv, GpuTypes
    <3> HIDE DEF more, l
    <3>6. l + 1 \in Nat /\ more \in SUBSET Nat /\ more # {} /\ \A e \in more : l + 1 <= e
      BY <3>1, <3>2, <3>5, <3>p
    <3>7. /\ LastOf(Buffer(l + 1, more)) = First(more) /\ First(more) \in more
          /\ Range(Buffer(l + 1, more)) = l + 1 .. First(more)
      BY <3>6, BufferIs, FirstIs
    <3>8. /\ First(more) \in Nat /\ First(more) <= Len(packets) /\ l < First(more)
          /\ \A m \in l .. First(more) : packets[m].first = packets[l].first
      BY <3>2, <3>5, <3>7
    <3>9. Behind(Buffer(l + 1, more), packets, drawn)
      <4> SUFFICES ASSUME NEW k \in l + 1 .. First(more)
                   PROVE  /\ k \in 1 .. Len(packets)
                          /\ \A m \in 1 .. k - 1 :
                               packets[m].first = packets[k].first =>
                                 m \in drawn \union l + 1 .. First(more)
        BY <3>7 DEF Behind
      <4>1. k \in 1 .. Len(packets) /\ k \in l .. First(more)
        BY <3>8, <3>p
      <4>2. packets[k].first = packets[l].first
        BY <3>8, <4>1
      <4>3. ASSUME NEW m \in 1 .. k - 1, packets[m].first = packets[l].first
            PROVE  m \in drawn \union l + 1 .. First(more)
        <5>1. m < l \/ m = l \/ m \in l + 1 .. First(more)
          BY <3>8, <3>p, <4>1
        <5>2. m < l => m \in 1 .. l - 1
          BY <3>p
        <5> QED BY <3>3, <3>4, <4>3, <5>1, <5>2
      <4> QED BY <4>1, <4>2, <4>3
    <3>10. /\ work'.list = Buffer(l + 1, more) /\ work'.more = Later(more)
           /\ work'.phase = "draw"
      BY <3>1 DEF Begun
    <3>11. Rest(work', packets)
      <4> SUFFICES ASSUME NEW e \in Later(more)
                   PROVE  /\ e <= Len(packets)
                          /\ \A m \in First(more) .. e :
                               packets[m].first = packets[First(more)].first
        BY <3>7, <3>10 DEF Rest
      <4>1. e \in more /\ e \in Nat
        BY <3>2 DEF Later
      <4>2. First(more) \in l .. First(more) /\ \A m \in First(more) .. e : m \in l .. e
        BY <3>8, <3>p, <4>1
      <4> QED BY <3>5, <3>8, <4>1, <4>2
    <3> QED BY <1>1, <3>9, <3>10, <3>11 DEF WorkInOrder
  <2> QED BY <1>2, <2>1, <2>2 DEF LInv
<1> QED BY <1>4, <1>5

\* A reset forgets what was drawn, with the packets.
LEMMA ResetLabel == ASSUME RInv, LInv, GpuReset PROVE LInv'
<1>1. /\ packets' = <<>> /\ work' = NoWork /\ drawn' = {} /\ seen' = {}
      /\ put' = [q \in GpuQueues |-> <<>>] /\ taken' = [q \in GpuQueues |-> <<>>]
  BY DEF GpuReset
<1>2. FirstsBefore' /\ FirstsApart' /\ Labels' /\ WorkInOrder'
  BY <1>1 DEF FirstsBefore, FirstsApart, Labels, LabelAfterWork, WorkInOrder
<1>3. Owned(<<>>, <<>>) /\ Range(<<>>) = {}
  BY DEF Owned, Range
<1>4. DrawnInOrder'
  BY <1>1, <1>3 DEF DrawnInOrder
<1> QED BY <1>2, <1>4 DEF LInv

\* Neither a late doorbell nor a failure of the back end: a guest that sees a label finds
\* the work put before it with the back end.
THEOREM LabelAfterWorkHolds == GpuPermitted = {} => (GpuSpec => []LabelAfterWork)
<1> SUFFICES ASSUME GpuPermitted = {} PROVE GpuSpec => []LabelAfterWork
  OBVIOUS
<1>1. GpuInit => LInv
  <2> SUFFICES ASSUME GpuInit PROVE LInv
    OBVIOUS
  <2>1. /\ packets = <<>> /\ work = NoWork /\ drawn = {} /\ seen = {}
        /\ put = [q \in GpuQueues |-> <<>>] /\ taken = [q \in GpuQueues |-> <<>>]
    BY DEF GpuInit
  <2>2. FirstsBefore /\ FirstsApart /\ Labels /\ WorkInOrder
    BY <2>1 DEF FirstsBefore, FirstsApart, Labels, LabelAfterWork, WorkInOrder
  <2>3. Owned(<<>>, <<>>) /\ Range(<<>>) = {}
    BY DEF Owned, Range
  <2>4. DrawnInOrder
    BY <2>1, <2>3 DEF DrawnInOrder
  <2> QED BY <2>2, <2>4 DEF LInv
<1>2. ASSUME RInv, LInv, [GpuNext]_gpuVars PROVE LInv'
  <2>1. CASE UNCHANGED gpuVars
    BY <1>2, <2>1 DEF gpuVars, ringVars, LInv, FirstsBefore, FirstsApart, DrawnInOrder,
                      Labels, LabelAfterWork, WorkInOrder
  <2>2. CASE GpuNext
    BY <1>2, <2>2, PutLabel, MapLabel, DingDongLabel, SubmitLabel, DrawLabel, ExecuteLabel,
       CommitLabel, ResetLabel DEF GpuNext
  <2> QED BY <1>2, <2>1, <2>2
<1>3. LInv => LabelAfterWork
  BY DEF LInv, Labels
<1>4. GpuSpec => []RInv
  BY AlwaysRInv
<1> QED BY <1>1, <1>2, <1>3, <1>4, PTL DEF GpuSpec
=============================================================================

------------------------------- MODULE GuestGpu -------------------------------
(***************************************************************************)
(* The command processor of hw/i386/shadps4-gpu.c: buffers of PM4 packets    *)
(* the guest submits, and compute queues it maps, fills and rings.           *)
(*                                                                          *)
(* A call runs under the BQL from its start to its end, but other vCPUs run  *)
(* guest code meanwhile: they see each write of a packet, and may fill a      *)
(* ring.  A packet is one dword here and has its number; indirect buffers     *)
(* are flattened into the packets they hold, as they are when the call       *)
(* begins.  What the packets draw is left to the back end (external).        *)
(***************************************************************************)
EXTENDS Integers, Sequences, Functions

CONSTANTS
    GpuQueues,     \* compute queues
    RingDwords,    \* the size of a ring
    MaxPackets,    \* bounds the packets of a behaviour
    CallPackets,   \* bounds the packets in the buffers of a submit call
    GpuPermitted   \* what may happen: "late_doorbell", "draw_fails"

\* "draw" sets registers or draws, "label" writes a word of memory at the end of
\* the work before it; "bad" does not parse, what a "fault" writes is unmapped.
PacketKinds == {"draw", "label", "bad", "fault"}

Offsets == 0 .. RingDwords - 1
NoRing  == [o \in Offsets |-> 0]
Direct  == "direct"  \* the work of a submit call, on no ring
NoWork  == [of |-> "nobody"]

ASSUME GpuAssumption ==
    /\ RingDwords \in Nat \ {0, 1} /\ MaxPackets \in Nat /\ CallPackets \in Nat
    /\ GpuPermitted \subseteq {"late_doorbell", "draw_fails"} /\ Direct \notin GpuQueues

VARIABLES
    packets,     \* by number, what a packet is and the first of its ring or call
    mapped,      \* queues[].mapped
    readOffset,  \* queues[].read_offset
    ring,        \* the guest's ring at ring_addr
    published,   \* the guest's word at read_ptr_addr
    tail,        \* where the guest puts its next packet
    work,        \* the call the BQL is held for
    drawn,       \* packets the back end has been given
    seen,        \* labels that are in memory
    taken,       \* by queue, the accepted packets of the ring since it was mapped:
                 \* registers and counters are what they leave
    put          \* by queue, the packets put on it since

ringVars == <<mapped, readOffset, ring, published, tail, put, taken>>
gpuVars  == <<packets, ringVars, work, drawn, seen>>

\* Offsets run around the ring, and shadps4_gpu_ding_dong reads to its end and
\* on from its start.
Next1(offset) == IF offset + 1 = RingDwords THEN 0 ELSE offset + 1
Between(from, to) == IF to >= from THEN to - from ELSE RingDwords - from + to
Ahead(from, i) == IF from + i < RingDwords THEN from + i ELSE from + i - RingDwords
OnRingShort(q, from, to) ==
    IF to >= from THEN [i \in 1 .. Between(from, to) |-> ring[q][from + i - 1]]
                  ELSE [i \in 1 .. RingDwords - from |-> ring[q][from + i - 1]]
OnRing(q, from, to) ==
    [i \in 1 .. Between(from, to) |-> ring[q][Ahead(from, i - 1)]]

GpuInit ==
    /\ packets = <<>> /\ mapped = {} /\ work = NoWork
    /\ readOffset = [q \in GpuQueues |-> 0] /\ published = [q \in GpuQueues |-> 0]
    /\ tail = [q \in GpuQueues |-> 0] /\ put = [q \in GpuQueues |-> <<>>]
    /\ ring = [q \in GpuQueues |-> NoRing]
    /\ taken = [q \in GpuQueues |-> <<>>]
    /\ drawn = {} /\ seen = {}

Kind(n) == packets[n].kind
-----------------------------------------------------------------------------
(* The guest's side of a ring *)

\* The guest writes a packet where the published pointer leaves room.
Put(q, kind) ==
    /\ q \in mapped /\ Len(packets) < MaxPackets
    /\ Next1(tail[q]) # published[q]
    /\ put' = [put EXCEPT ![q] = Append(@, Len(packets) + 1)]
    /\ packets' = Append(packets, [kind |-> kind, first |-> put'[q][1]])
    /\ ring' = [ring EXCEPT ![q][tail[q]] = Len(packets) + 1]
    /\ tail' = [tail EXCEPT ![q] = Next1(@)]
    /\ UNCHANGED <<mapped, readOffset, published, taken, work, drawn, seen>>

\* shadps4_gpu_map_queue writes 0 to the read pointer.
MapQueue(q) ==
    /\ work = NoWork /\ q \notin mapped
    /\ mapped' = mapped \union {q}
    /\ readOffset' = [readOffset EXCEPT ![q] = 0]
    /\ published' = [published EXCEPT ![q] = 0]
    /\ UNCHANGED <<packets, ring, tail, put, taken, work, drawn, seen>>

\* shadps4_gpu_unmap_queue: what was not rung for is forgotten.  The guest gives
\* the ring up and begins another one.
UnmapQueue(q) ==
    /\ work = NoWork /\ q \in mapped
    /\ mapped' = mapped \ {q} /\ readOffset' = [readOffset EXCEPT ![q] = 0]
    /\ put' = [put EXCEPT ![q] = <<>>] /\ taken' = [taken EXCEPT ![q] = <<>>]
    /\ tail' = [tail EXCEPT ![q] = 0] /\ ring' = [ring EXCEPT ![q] = NoRing]
    /\ UNCHANGED <<packets, published, work, drawn, seen>>

-----------------------------------------------------------------------------
(* Submissions *)

\* Flattened and parsed, into copies of the registers.
Parses(list) == \A i \in DOMAIN list : Kind(list[i]) # "bad"
Begun(of, list, more, next) ==
    [of |-> of, list |-> list, more |-> more, next |-> next,
     at |-> 0, phase |-> "draw"]

\* Where the guest may ring for: a packet boundary between what is read and
\* what is put; a doorbell of another vCPU that comes late names one before.
RungFor(q, next) ==
    \/ /\ "late_doorbell" \in GpuPermitted
       /\ 0 \notin Range(OnRing(q, readOffset[q], next))
    \/ Between(readOffset[q], next) <= Between(readOffset[q], tail[q])

\* The end of shadps4_gpu_ding_dong; the write of the pointer may fail.
Publish(q, offset) ==
    published' \in {published, [published EXCEPT ![q] = offset]}

\* shadps4_gpu_ding_dong; with nothing new it publishes the pointer again.
DingDong(q, next) ==
    /\ work = NoWork /\ q \in mapped /\ RungFor(q, next)
    /\ LET list == OnRing(q, readOffset[q], next) IN
       IF list = <<>>
       THEN Publish(q, readOffset[q]) /\ UNCHANGED work
       ELSE /\ UNCHANGED published
            /\ work' = IF Parses(list) THEN Begun(q, list, {}, next) ELSE NoWork
    /\ UNCHANGED <<packets, mapped, readOffset, ring, tail, put, taken, drawn, seen>>

\* The buffers of a submit call lie one behind the other, each ends at one of ends.
First(ends)     == CHOOSE e \in ends : \A d \in ends : e <= d
Buffer(n, ends) == [i \in 1 .. First(ends) - n + 1 |-> n + i - 1]
Later(ends)     == ends \ {First(ends)}

\* shadps4_hle_gnm_submit: an array of buffers, up to the first rejected.
Submit(kinds, ends) ==
    LET first == Len(packets) + 1 IN
    /\ work = NoWork /\ Len(packets) + Len(kinds) <= MaxPackets
    /\ packets' = packets \o [i \in DOMAIN kinds |-> [kind |-> kinds[i], first |-> first]]
    /\ work' = IF \E i \in 1 .. First(ends) : kinds[i] = "bad" THEN NoWork
               ELSE LET last == {Len(packets) + e : e \in ends}
                    IN  Begun(Direct, Buffer(first, last), Later(last), 0)
    /\ UNCHANGED <<ringVars, drawn, seen>>

\* shadps4_d3d12_submit, before any packet writes memory; a failure is warned of.
DrawNothing ==
    /\ work # NoWork /\ work.phase = "draw"
    /\ work' = [work EXCEPT !.phase = "memory"]
    /\ UNCHANGED <<packets, ringVars, drawn, seen>>
Draw ==
    /\ work # NoWork /\ work.phase = "draw"
    /\ \/ drawn' = drawn \union Range(work.list)
       \/ "draw_fails" \in GpuPermitted /\ UNCHANGED drawn
    /\ work' = [work EXCEPT !.phase = "memory"]
    /\ UNCHANGED <<packets, ringVars, seen>>

\* shadps4_gpu_execute_pm4_memory: one packet.
Execute ==
    /\ work # NoWork /\ work.phase = "memory" /\ work.at < Len(work.list)
    /\ LET n == work.list[work.at + 1] IN
       /\ seen' = IF Kind(n) = "label" THEN seen \union {n} ELSE seen
       /\ work' = IF Kind(n) = "fault" THEN NoWork ELSE [work EXCEPT !.at = @ + 1]
    /\ UNCHANGED <<packets, ringVars, drawn>>

\* The end of shadps4_gpu_submit_commands; a doorbell moves its queue on and
\* publishes, a submit call goes on with its next buffer.
Commit ==
    /\ work # NoWork /\ work.phase = "memory" /\ work.at = Len(work.list)
    /\ IF work.of = Direct
       THEN /\ LET list == Buffer(work.list[Len(work.list)] + 1, work.more)
               IN  work' = IF work.more # {} /\ Parses(list)
                           THEN Begun(Direct, list, Later(work.more), 0) ELSE NoWork
            /\ UNCHANGED <<readOffset, published, taken>>
       ELSE /\ readOffset' = [readOffset EXCEPT ![work.of] = work.next]
            /\ Publish(work.of, work.next)
            /\ taken' = [taken EXCEPT ![work.of] = @ \o work.list]
            /\ work' = NoWork
    /\ UNCHANGED <<packets, mapped, ring, tail, put, drawn, seen>>

\* shadps4_gpu_reset: another program begins, with other packets and rings.
GpuReset ==
    /\ work = NoWork
    /\ packets' = <<>> /\ mapped' = {} /\ readOffset' = [q \in GpuQueues |-> 0]
    /\ tail' = [q \in GpuQueues |-> 0] /\ put' = [q \in GpuQueues |-> <<>>]
    /\ ring' = [q \in GpuQueues |-> NoRing]
    /\ taken' = [q \in GpuQueues |-> <<>>] /\ drawn' = {} /\ seen' = {}
    /\ UNCHANGED <<published, work>>

\* The arrays of buffers a call may have: packets, and where the buffers end.
Ends(kinds) == {ends \in SUBSET DOMAIN kinds : Len(kinds) \in ends}
CallKinds == UNION {[1 .. n -> PacketKinds] : n \in 1 .. CallPackets}

GpuNext ==
    \/ \E q \in GpuQueues, kind \in PacketKinds : Put(q, kind)
    \/ \E q \in GpuQueues : MapQueue(q)
    \/ \E q \in GpuQueues : UnmapQueue(q)
    \/ \E q \in GpuQueues, next \in Offsets : DingDong(q, next)
    \/ \E kinds \in CallKinds : \E ends \in Ends(kinds) : Submit(kinds, ends)
    \/ Draw
    \/ Execute
    \/ Commit
    \/ GpuReset

GpuSpec == GpuInit /\ [][GpuNext]_gpuVars

-----------------------------------------------------------------------------
(* Properties *)

GpuTypeOK ==
    /\ packets \in Seq([kind : PacketKinds, first : 1 .. MaxPackets])
    /\ mapped \subseteq GpuQueues
    /\ readOffset \in [GpuQueues -> Offsets] /\ published \in [GpuQueues -> Offsets]
    /\ tail \in [GpuQueues -> Offsets]
    /\ ring \in [GpuQueues -> [Offsets -> 0 .. MaxPackets]]
    /\ drawn \subseteq 1 .. MaxPackets /\ seen \subseteq 1 .. MaxPackets

\* Every packet the guest puts on a ring is accepted once and in its order,
\* around the end of the ring, rung for early or in parts, with submissions
\* rejected and read pointers that could not be written in between: what was
\* accepted and what is left on the ring is what was put.
RingWhole ==
    \A q \in mapped :
      put[q] = taken[q] \o OnRing(q, readOffset[q], tail[q])

\* A guest that sees a label in memory finds the work put before it, on its ring
\* or in its call, with the back end, although other submissions of that work
\* were rejected or are still being executed.
LabelAfterWork ==
    \A n \in seen : \A m \in 1 .. n - 1 :
      packets[m].first = packets[n].first => m \in drawn
=============================================================================

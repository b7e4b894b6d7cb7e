------------------------------ MODULE GpuFrames ------------------------------
(***************************************************************************)
(* The back end of hw/i386/shadps4-gpu-d3d12.c: a ring of frames, each with  *)
(* a command list, buffers for what it draws and a list of guest buffers to  *)
(* write back; the host's GPU executes the lists in their order and reaches  *)
(* their fences.                                                            *)
(*                                                                          *)
(* The calls run under the BQL, so one at a time; the GPU and the guest's    *)
(* other vCPUs run beside them.  What a guest buffer holds is the set of     *)
(* the effects that are in it: a dispatch, or a store of the guest.  A       *)
(* dispatch that is dropped after its buffer was copied adds none, and the   *)
(* copy is written back all the same.  A list is executed at one instant.    *)
(***************************************************************************)
EXTENDS Integers, Sequences, Functions, FiniteSetsExt

CONSTANTS
    FrameCount,      \* SHADPS4_D3D12_FRAMES_IN_FLIGHT
    Bounds,          \* the writable resources the cached shaders bind
    Surfaces,        \* VideoOut surfaces
    MaxEffects,      \* bounds the dispatches and stores of a behaviour
    MaxFences,       \* bounds the lists and finishes
    MaxOps,          \* bounds the packets of a submission
    FramesPermitted  \* what may happen: "evict", "same_buffer"

ASSUME FramesAssumption ==
    /\ FrameCount \in Nat \ {0} /\ MaxEffects \in Nat /\ MaxFences \in Nat
    /\ MaxOps \in Nat /\ FramesPermitted \subseteq {"evict", "same_buffer"}

FrameIndices == 0 .. FrameCount - 1
Effects == 1 .. MaxEffects
\* Resource states of a surface.
Target == "RENDER_TARGET"
Shown  == "COMMON"
Resource == "SHADER_RESOURCE"
Source == "COPY_SOURCE"
AtRest == [op |-> "none"]

VARIABLES
    frames,        \* frames[]: the list whose commands, per-frame buffers and
                   \* transients it holds, fence_value and writebacks
    frameIndex,    \* frame_index
    nextFrame,     \* next_frame
    fenceValue,    \* fence_value
    queue,         \* what the GPU has not executed, each with its fence
    call,          \* the call the BQL is held for
    ready,         \* ready
    uploads,       \* by resource: its upload buffer,
    onGpu,         \* its contents,
    readbacks,     \* its readback buffer,
    born,          \* and how often it was made
    address,       \* the guest buffer a resource stands for
    guest,         \* the guest's memory
    surfaceState,  \* surfaces[].state
    texture,       \* the state the texture is in
    rendered,      \* surfaces[].rendered
    effects,       \* the stores and dispatches so far: the buffer, and what it was
    found,         \* what each guest buffer held when it was last copied to the GPU
    alone          \* buffers never touched again before they were written back

dataVars    == <<uploads, onGpu, readbacks, born, address, guest, effects, found,
                 alone>>
surfaceVars == <<surfaceState, texture, rendered>>
frameRing   == <<frames, frameIndex, nextFrame, fenceValue, queue, call, ready>>
frameVars   == <<frameRing, dataVars, surfaceVars>>

NoFrame == [held |-> 0, fence |-> 0, back |-> <<>>]

FramesInit ==
    /\ frames = [f \in FrameIndices |-> NoFrame]
    /\ frameIndex = 0 /\ nextFrame = 0 /\ fenceValue = 0 /\ queue = <<>>
    /\ call = AtRest /\ ready = TRUE
    /\ uploads = [b \in Bounds |-> {}] /\ onGpu = [b \in Bounds |-> {}]
    /\ readbacks = [b \in Bounds |-> {}] /\ born = [b \in Bounds |-> 0]
    /\ address \in IF "same_buffer" \in FramesPermitted THEN [Bounds -> Bounds]
                   ELSE {[b \in Bounds |-> b]}
    /\ guest = [a \in Bounds |-> {}] /\ effects = <<>>
    /\ found = [a \in Bounds |-> {}] /\ alone = Bounds
    /\ surfaceState = [s \in Surfaces |-> Target]
    /\ texture = [s \in Surfaces |-> Target] /\ rendered = {}

NextEffect == Len(effects) + 1
WithEffect(a, by) == Append(effects, [on |-> a, by |-> by])
EffectsOn(a) == {n \in DOMAIN effects : effects[n].on = a /\ effects[n].by # "dropped"}
CopiesOf(a) == {n \in DOMAIN effects : effects[n].on = a /\ effects[n].by # "store"}
InFlight(b) == \E f \in FrameIndices : b \in Range(frames[f].back)
Touched(a) == IF \E b \in Bounds : address[b] = a /\ InFlight(b)
              THEN alone \ {a} ELSE alone
-----------------------------------------------------------------------------
(* The GPU *)

\* The dispatches of a list on a resource, its writebacks, its barriers of a surface.
Uses(ops, b)     == {i \in DOMAIN ops : ops[i].kind = "use" /\ ops[i].bound = b}
Backs(ops, b)    == {i \in DOMAIN ops : ops[i].kind = "back" /\ ops[i].bound = b}
Barriers(ops, s) == {i \in DOMAIN ops : ops[i].kind = "to" /\ ops[i].surface = s}

\* What resource b holds when the GPU has come to operation n of a list, and the
\* state the list leaves a texture in.
Contents(ops, b, n) ==
    LET I == {i \in Uses(ops, b) : i <= n}
    IN  IF I = {} THEN onGpu[b] ELSE uploads[b] \union ops[Max(I)].effect
StateIn(ops, s, state) ==
    IF Barriers(ops, s) = {} THEN state ELSE ops[Max(Barriers(ops, s))].after

RunList ==
    /\ queue # <<>>
    /\ queue' = Tail(queue)
    /\ LET ops == Head(queue).ops IN
       /\ onGpu' = [b \in Bounds |-> Contents(ops, b, Len(ops))]
       /\ readbacks' = [b \in Bounds |->
                          IF Backs(ops, b) = {} THEN readbacks[b]
                          ELSE Contents(ops, b, Max(Backs(ops, b)))]
       /\ texture' = [s \in Surfaces |-> StateIn(ops, s, texture[s])]
    /\ UNCHANGED <<frames, frameIndex, nextFrame, fenceValue, call, ready, uploads,
                   born, address, guest, surfaceState, rendered, effects, found,
                   alone>>

ReachedNext(f) == \A i \in DOMAIN queue : queue[i].fence >= frames[f].fence
\* ID3D12Fence_GetCompletedValue has come to the fence of the frame.
Reached(f) == \A i \in DOMAIN queue : queue[i].fence > frames[f].fence

\* A vCPU stores into a buffer.
GuestStores(a) ==
    /\ NextEffect <= MaxEffects
    /\ guest' = [guest EXCEPT ![a] = @ \union {NextEffect}]
    /\ effects' = WithEffect(a, "store")
    /\ alone' = Touched(a)
    /\ UNCHANGED <<frameRing, surfaceVars, uploads, onGpu, readbacks, born, address,
                   found>>
-----------------------------------------------------------------------------
(* Waiting for a frame *)

\* shadps4_d3d12_complete_writebacks; without a fence they are forgotten.
To(f, a) == {i \in DOMAIN frames[f].back : address[frames[f].back[i]] = a}
Completed(f) ==
    [a \in Bounds |-> IF frames[f].fence = 0 \/ To(f, a) = {} THEN guest[a]
                      ELSE readbacks[frames[f].back[Max(To(f, a))]]]

\* shadps4_d3d12_wait_frame
WaitFrame(f) ==
    /\ Reached(f)
    /\ guest' = Completed(f)
    /\ frames' = [frames EXCEPT ![f] = NoFrame]
    /\ frameIndex' = f

\* A wait of ten seconds, a list that does not close, a fence that cannot be
\* signalled: no call is served any more.
Lost ==
    /\ ready /\ call # AtRest
    /\ ready' = FALSE /\ call' = AtRest
    /\ UNCHANGED <<frames, frameIndex, nextFrame, fenceValue, queue, dataVars,
                   surfaceVars>>
-----------------------------------------------------------------------------
(* shadps4_d3d12_submit *)

SubmitBegin ==
    /\ ready /\ call = AtRest /\ fenceValue < MaxFences
    /\ nextFrame' = (nextFrame + 1) % FrameCount
    /\ WaitFrame(nextFrame)
    /\ call' \in {AtRest,  \* the allocator or the list could not be reset
                  [op |-> "record", ops |-> <<>>]}
    /\ UNCHANGED <<fenceValue, queue, ready, uploads, onGpu, readbacks, born, address,
                   effects, found, alone, surfaceVars>>

Recording == call.op = "record" /\ Len(call.ops) < MaxOps
Recorded(op) == call' = [call EXCEPT !.ops = Append(@, op)]

\* The resources made anew before a dispatch: one of a shader that leaves the
\* cache, or one of another size.
Remade == IF "evict" \in FramesPermitted THEN {{}} \union {{b} : b \in Bounds}
          ELSE {{}}

\* What comes of a dispatch whose buffer has been copied: another resource that
\* cannot be prepared, no pipeline, arguments that cannot be read or a size of
\* zero, and nothing is dispatched.
Outcomes == {"dispatch", "dropped"}
Wrote(by) == IF by = "dispatch" THEN {NextEffect} ELSE {}

\* shadps4_d3d12_prepare_writable_buffer and its dispatch.
Dispatch(b) ==
    \E gone \in Remade, by \in Outcomes : LET a == address[b] IN
    /\ Recording /\ NextEffect <= MaxEffects
    /\ born' = [c \in Bounds |-> IF c \in gone THEN born[c] + 1 ELSE born[c]]
    /\ readbacks' = [c \in Bounds |-> IF c \in gone THEN {} ELSE readbacks[c]]
    /\ uploads' = [uploads EXCEPT ![b] = guest[a]]
    /\ found' = [found EXCEPT ![a] = guest[a]]
    /\ Recorded([kind |-> "use", bound |-> b, born |-> born'[b],
                 effect |-> Wrote(by)])
    /\ frames' = [frames EXCEPT ![frameIndex].back =
                                  IF b \in Range(@) THEN @ ELSE Append(@, b)]
    /\ effects' = WithEffect(a, by)
    /\ alone' = Touched(a)
    /\ UNCHANGED <<frameIndex, nextFrame, fenceValue, queue, ready, onGpu, address, guest,
                   surfaceVars>>

\* shadps4_d3d12_transition_surface, of a draw into the surface, a draw that
\* reads it, and a packet that makes it visible; a draw may yet fail.
Transition(s, state) ==
    /\ Recording /\ surfaceState[s] # state
    /\ surfaceState' = [surfaceState EXCEPT ![s] = state]
    /\ rendered' \in {rendered} \union
                     IF state = Target THEN {rendered \union {s}} ELSE {}
    /\ Recorded([kind |-> "to", surface |-> s, after |-> state])
    /\ UNCHANGED <<frames, frameIndex, nextFrame, fenceValue, queue, ready, dataVars,
                   texture>>
DrawAgain(s) ==
    /\ call.op = "record" /\ surfaceState[s] = Target /\ s \notin rendered
    /\ rendered' = rendered \union {s}
    /\ UNCHANGED <<frameRing, dataVars, surfaceState, texture>>

\* shadps4_d3d12_record_writebacks
WritebackOps == [i \in DOMAIN frames[frameIndex].back |->
                   LET b == frames[frameIndex].back[i]
                   IN  [kind |-> "back", bound |-> b, born |-> born[b]]]

\* ExecuteCommandLists and the signal after it.
ListQueued(ops) ==
    /\ fenceValue' = fenceValue + 1
    /\ queue' = Append(queue, [fence |-> fenceValue + 1, frame |-> frameIndex,
                               ops |-> ops])

ExecuteSwapped ==
    /\ call.op = "record"
    /\ ListQueued(WritebackOps \o call.ops)
    /\ frames' = [frames EXCEPT ![frameIndex].fence = fenceValue + 1,
                                ![frameIndex].held = fenceValue + 1]
    /\ call' = AtRest
    /\ UNCHANGED <<frameIndex, nextFrame, ready, dataVars, surfaceVars>>

ExecuteList ==
    /\ call.op = "record"
    /\ ListQueued(call.ops \o WritebackOps)
    /\ frames' = [frames EXCEPT ![frameIndex].fence = fenceValue + 1,
                                ![frameIndex].held = fenceValue + 1]
    /\ call' = AtRest
    /\ UNCHANGED <<frameIndex, nextFrame, ready, dataVars, surfaceVars>>
-----------------------------------------------------------------------------
(* shadps4_d3d12_finish and the calls that begin with it *)

Purposes == {[op |-> "finish", to |-> "nothing", at |-> 0],
             [op |-> "finish", to |-> "reset", at |-> 0]}
            \union [op : {"finish"}, to : {"publish", "read"}, of : rendered, at : {0}]
            \union [op : {"finish"}, to : {"register"}, of : Surfaces, at : {0}]

FinishBegin(purpose) ==
    /\ ready /\ call = AtRest /\ fenceValue < MaxFences
    /\ ListQueued(<<>>)
    /\ frames' = [frames EXCEPT ![frameIndex].fence = fenceValue + 1]
    /\ call' = purpose
    /\ UNCHANGED <<frameIndex, nextFrame, ready, dataVars, surfaceVars>>

FinishWait ==
    /\ call.op = "finish" /\ call.at < FrameCount
    /\ WaitFrame(call.at)
    /\ call' = [call EXCEPT !.at = @ + 1]
    /\ UNCHANGED <<nextFrame, fenceValue, queue, ready, uploads, onGpu, readbacks, born,
                   address, effects, found, alone, surfaceVars>>

Finished(purpose) ==
    call.op = "finish" /\ call.at = FrameCount /\ call.to = purpose

\* shadps4_d3d12_reset
FinishEnd ==
    /\ Finished("nothing") \/ Finished("reset")
    /\ rendered' = IF call.to = "reset" THEN {} ELSE rendered
    /\ call' = AtRest
    /\ UNCHANGED <<frames, frameIndex, nextFrame, fenceValue, queue, ready, dataVars,
                   surfaceState, texture>>

\* shadps4_d3d12_register_surface: another texture takes the place.
Register ==
    /\ Finished("register")
    /\ rendered' = rendered \ {call.of}
    /\ surfaceState' = [surfaceState EXCEPT ![call.of] = Target]
    /\ texture' = [texture EXCEPT ![call.of] = Target]
    /\ call' = AtRest
    /\ UNCHANGED <<frames, frameIndex, nextFrame, fenceValue, queue, ready, dataVars>>

\* The rest of shadps4_d3d12_publish_surface: the application is given the
\* texture, and the fence at which it may read it.  A Signal that fails after the
\* list was handed over leaves the frame unheld and the device ready; it fails for a
\* device that was removed, which executes nothing more, and is left out.
PublishSurface ==
    /\ Finished("publish")
    /\ \/ LET s == call.of IN
          /\ ListQueued(IF surfaceState[s] = Shown THEN <<>>
                    ELSE <<[kind |-> "to", surface |-> s, after |-> Shown]>>)
          /\ surfaceState' = [surfaceState EXCEPT ![s] = Shown]
          /\ frames' = [frames EXCEPT ![frameIndex].fence = fenceValue + 1,
                                      ![frameIndex].held = fenceValue + 1]
       \/ UNCHANGED <<fenceValue, queue, surfaceState, frames>>  \* no reset, no list
    /\ call' = AtRest
    /\ UNCHANGED <<frameIndex, nextFrame, ready, dataVars, texture, rendered>>

\* The rest of shadps4_d3d12_read_surface: a list that copies, another finish,
\* and the state the list's last barrier leaves.
ReadBegin ==
    /\ Finished("read")
    /\ \/ /\ ListQueued(<<[kind |-> "to", surface |-> call.of, after |-> Source],
                      [kind |-> "to", surface |-> call.of, after |-> Target]>>)
          /\ frames' = [frames EXCEPT ![frameIndex].fence = fenceValue + 1,
                                      ![frameIndex].held = fenceValue + 1]
          /\ call' = [call EXCEPT !.to = "pixels", !.at = 0]
       \/ call' = AtRest /\ UNCHANGED <<fenceValue, queue, frames>>
    /\ UNCHANGED <<frameIndex, nextFrame, ready, dataVars, surfaceVars>>
AfterReadAsBefore(s) == surfaceState
AfterRead(s) == [surfaceState EXCEPT ![s] = Target]
ReadEnd ==
    /\ Finished("pixels")
    /\ surfaceState' = AfterRead(call.of)
    /\ call' = AtRest
    /\ UNCHANGED <<frames, frameIndex, nextFrame, fenceValue, queue, ready, dataVars,
                   texture, rendered>>

FramesNext ==
    \/ RunList
    \/ \E a \in Bounds : GuestStores(a)
    \/ SubmitBegin
    \/ \E b \in Bounds : Dispatch(b)
    \/ \E s \in Surfaces, state \in {Target, Resource, Shown} : Transition(s, state)
    \/ \E s \in Surfaces : DrawAgain(s)
    \/ ExecuteList
    \/ \E purpose \in Purposes : FinishBegin(purpose)
    \/ FinishWait
    \/ FinishEnd
    \/ Register
    \/ PublishSurface
    \/ ReadBegin
    \/ ReadEnd
    \/ Lost

FramesSpec == FramesInit /\ [][FramesNext]_frameVars

-----------------------------------------------------------------------------
(* Properties *)

FramesTypeOK ==
    /\ \A f \in FrameIndices :
         /\ frames[f].held \in 0 .. MaxFences + 2 /\ frames[f].fence \in 0 .. MaxFences + 2
         /\ frames[f].back \in Seq(Bounds)
    /\ frameIndex \in FrameIndices /\ nextFrame \in FrameIndices
    /\ ready \in BOOLEAN /\ rendered \subseteq Surfaces /\ alone \subseteq Bounds
    /\ guest \in [Bounds -> SUBSET Effects]

\* The buffers an operation of a list works on.
BuffersLive(op) == op.kind \in {"use", "back"} => op.born = born[op.bound]

\* What a list of the GPU's queue refers to is kept until it is executed: its
\* frame's allocator is not reset nor its transients released, and the resources
\* it binds are those that were there when it was recorded.
InFlightKept ==
    \A i \in {j \in DOMAIN queue : queue[j].ops # <<>>} :
      /\ frames[queue[i].frame].held = queue[i].fence
      /\ \A k \in DOMAIN queue[i].ops : BuffersLive(queue[i].ops[k])

\* No call is under way, and no writeback to a buffer is open.
Settled(a) ==
    call = AtRest /\ ready /\ \A b \in Bounds : address[b] = a => ~InFlight(b)

\* When nothing is to be written back to a guest buffer any more it holds what
\* its last copy to the GPU found there, and what the dispatch it was made for
\* wrote, however frames, finishes and the GPU interleaved: no older writeback
\* came after it.  A dispatch that was dropped after its copy wrote nothing, so
\* what an earlier one still in flight wrote is not promised: the dropped one's
\* writeback may put back what was there before.  If nobody touched the buffer
\* while it was in flight, it holds every effect.
NewestArrives ==
    \A a \in Bounds : Settled(a) =>
      /\ \A n \in CopiesOf(a) : (\A m \in CopiesOf(a) : m <= n) =>
           found[a] \union ({n} \intersect EffectsOn(a)) \subseteq guest[a]
      /\ a \in alone => guest[a] = EffectsOn(a)

\* The state the queued lists leave a texture in.
StateAfter(s) ==
    LET I == {i \in DOMAIN queue : Barriers(queue[i].ops, s) # {}}
    IN  IF I = {} THEN texture[s] ELSE StateIn(queue[Max(I)].ops, s, texture[s])

\* The recorded state of a surface stays in lockstep with the barriers (comment
\* in shadps4_d3d12_read_surface): the next barrier will name the state the
\* texture is in when the GPU comes to it, whatever was drawn, shown, read back
\* or failed before.
Lockstep ==
    call = AtRest /\ ready => \A s \in Surfaces : surfaceState[s] = StateAfter(s)
=============================================================================

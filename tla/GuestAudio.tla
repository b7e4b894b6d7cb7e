------------------------------ MODULE GuestAudio ------------------------------
(***************************************************************************)
(* Audio of hw/i386/shadps4-io.c, the AudioOut ports of shadps4-hle.c that   *)
(* share its voice, and the XAudio2 voice of audio/xaudio2audio.c.           *)
(*                                                                          *)
(* Frames the guest writes go through audio_queue to the software voice of  *)
(* QEMU's mixer (external), from there in buffers to the source voice, and  *)
(* are heard when a buffer ends.  Captured frames go the other way through  *)
(* audio_input_queue.  Calls and callbacks run under the BQL, so that each   *)
(* is one step.  A frame is its number and the format it was written in;    *)
(* what its format is made of, volumes, the ports that go to the application *)
(* only (types 2, 3 and 4), and a machine without an audio backend, which    *)
(* opens ports and plays nothing, are left out.                              *)
(***************************************************************************)
EXTENDS Integers, Sequences

CONSTANTS
    Formats,        \* rate, channels and sample type, as one value
    NoVoice,        \* no voice, and no port
    AudioPorts,     \* how many AudioOut ports, SHADPS4_HLE_MAX_AUDIO_PORTS
    MaxQueue,       \* frames in a queue, SHADPS4_AUDIO_MAX_QUEUE
    MixerRoom,      \* frames in the mixer's software voice
    MaxBuffers,     \* buffers in the source voice, XAUDIO2_QEMU_MAX_BUFFERS
    MaxFrames,      \* bounds the frames written, and those captured
    AudioPermitted  \* what may happen: "open_fails", "mixed_formats"

ASSUME AudioAssumption ==
    /\ NoVoice \notin Formats /\ Formats # {}
    /\ {AudioPorts, MaxQueue, MixerRoom, MaxBuffers, MaxFrames} \subseteq Nat \ {0}

ClosedPort == NoVoice
Default    == CHOOSE f \in Formats : TRUE  \* 48000 Hz, stereo, S16

VARIABLES
    audioQueue,     \* audio_queue, with the frames already taken
    audioOffset,    \* audio_queue_offset
    audioFormat,    \* audio_rate, audio_channels, audio_format
    voice,          \* the format audio_voice was opened with
    audioPorts,     \* the format of each open port
    mixed,          \* frames in the software voice
    buffers,        \* pAudioData of the buffers XAudio2 has not ended
    heard,          \* the numbers of the frames played
    written,        \* how many frames the queue has taken
    flushed,        \* the numbers of the frames a close or a reset discarded
    captureQueue,   \* audio_input_queue
    captureOffset,  \* audio_input_offset
    captureFormat,  \* audio_input_rate, audio_input_channels, audio_input_format
    captured,       \* how many frames the application has sent
    captureRead     \* the number of the last frame the guest read

outputVars  == <<audioQueue, audioOffset, audioFormat, voice, audioPorts, mixed,
                 buffers, heard, written, flushed>>
captureVars == <<captureQueue, captureOffset, captureFormat, captured, captureRead>>
audioVars   == <<outputVars, captureVars>>

Rest(queue, offset) == SubSeq(queue, offset + 1, Len(queue))
Queued   == Rest(audioQueue, audioOffset)
Pending  == Rest(captureQueue, captureOffset)
Lesser(a, b) == IF a < b THEN a ELSE b

\* The frames with the k numbers after n.
Frames(n, k, form) == [i \in 1 .. k |-> [number |-> n + i, form |-> form]]
Numbers(frames)    == [i \in DOMAIN frames |-> frames[i].number]
Members(frames)    == {frames[i].number : i \in DOMAIN frames}
InVoice == Members(mixed) \union UNION {Members(buffers[b]) : b \in DOMAIN buffers}

AudioInit ==
    /\ audioQueue = <<>> /\ audioOffset = 0 /\ audioFormat = Default
    /\ voice = NoVoice /\ audioPorts = [p \in 1 .. AudioPorts |-> ClosedPort]
    /\ mixed = <<>> /\ buffers = <<>> /\ heard = <<>> /\ written = 0 /\ flushed = {}
    /\ captureQueue = <<>> /\ captureOffset = 0 /\ captureFormat = Default
    /\ captured = 0 /\ captureRead = 0

-----------------------------------------------------------------------------
(* Output *)

\* shadps4_io_audio_out: the voice takes what fits; the array is emptied when
\* all of it is taken, and never shortened before.
PumpEmptiesAlways(queue, offset) ==
    LET taken == Lesser(Len(queue) - offset, MixerRoom - Len(mixed)) IN
    /\ mixed' = mixed \o SubSeq(queue, offset + 1, offset + taken)
    /\ audioQueue' = <<>> /\ audioOffset' = 0
Pump(queue, offset) ==
    LET taken == Lesser(Len(queue) - offset, MixerRoom - Len(mixed))
        all   == offset + taken = Len(queue)
    IN  /\ mixed' = mixed \o SubSeq(queue, offset + 1, offset + taken)
        /\ audioQueue' = IF all THEN <<>> ELSE queue
        /\ audioOffset' = IF all THEN 0 ELSE offset + taken

\* The voice after shadps4_io_configure_audio has closed the one before.
OpenedUnlessSame(form, opens) ==
    IF opens /\ form # audioFormat THEN form ELSE NoVoice
Opened(form, opens) == IF opens THEN form ELSE NoVoice

\* shadps4_io_close_audio; xaudio2_enable_out and xaudio2_fini_out flush.
CloseVoice ==
    /\ flushed' = flushed \union InVoice
    /\ mixed' = <<>> /\ buffers' = <<>>

\* A careful program uses a new format only when the frames of the old one have
\* been taken and no port writes them any more.
MayUse(form) ==
    \/ "mixed_formats" \in AudioPermitted
    \/ /\ \A i \in DOMAIN Queued : Queued[i].form = form
       /\ \A p \in 1 .. AudioPorts : audioPorts[p] \in {form, ClosedPort}

\* shadps4_io_configure_audio: the queue stays as it is.
Configured(form, opens) ==
    /\ MayUse(form)
    /\ ~opens => "open_fails" \in AudioPermitted
    /\ CloseVoice
    /\ audioFormat' = form
    /\ voice' = Opened(form, opens)
    /\ UNCHANGED <<audioQueue, audioOffset, heard, written, captureVars>>

\* SHADPS4_AUDIO_IOCTL_CONFIG on /dev/audioout
Configure(form, opens) == Configured(form, opens) /\ UNCHANGED audioPorts

\* shadps4_hle_audio_out_open: the device is configured before a port is looked
\* for, and stays so when there is none.
FreePorts == {p \in 1 .. AudioPorts : audioPorts[p] = ClosedPort}
OpenPort(form, opens) ==
    /\ Configured(form, opens)
    /\ audioPorts' =
         [p \in 1 .. AudioPorts |->
            IF opens /\ p \in FreePorts /\ \A other \in FreePorts : p <= other
            THEN form ELSE audioPorts[p]]

\* SHADPS4_HLE_AUDIO_OUT_CLOSE
ClosePort(p) ==
    /\ audioPorts[p] # ClosedPort
    /\ audioPorts' = [audioPorts EXCEPT ![p] = ClosedPort]
    /\ UNCHANGED <<audioQueue, audioOffset, audioFormat, voice, mixed, buffers, heard,
                   written, flushed, captureVars>>

\* shadps4_io_emit_audio_format: more than the queue has room for is refused;
\* without a voice the application alone gets the frames.
Emit(form, k) ==
    /\ voice # NoVoice
    /\ k <= MaxQueue - Len(Queued) /\ written + k <= MaxFrames
    /\ LET new == Frames(written, k, form) IN
       IF Queued = <<>> THEN Pump(new, 0) ELSE Pump(audioQueue \o new, audioOffset)
    /\ written' = written + k
    /\ UNCHANGED <<audioFormat, voice, audioPorts, buffers, heard, flushed, captureVars>>

\* shadps4_hle_write on /dev/audioout, in the format of the device, and
\* shadps4_hle_audio_out_output, in the format of the port; a batch
\* (AUDIO_OUT_OUTPUTS) is outputs one after the other, up to the first refused.
Write(k)     == Emit(audioFormat, k)
Output(p, k) == audioPorts[p] # ClosedPort /\ Emit(audioPorts[p], k)

\* The mixer asks for frames, or the guest drains: the same function.
VoiceAsks ==
    /\ voice # NoVoice /\ Queued # <<>> /\ Len(mixed) < MixerRoom
    /\ Pump(audioQueue, audioOffset)
    /\ UNCHANGED <<audioFormat, voice, audioPorts, buffers, heard, written, flushed,
                   captureVars>>

\* xaudio2_write: the mixer hands over what it has as one copied buffer.
SubmitBuffer ==
    /\ mixed # <<>> /\ Len(buffers) < MaxBuffers
    /\ buffers' = Append(buffers, mixed) /\ mixed' = <<>>
    /\ UNCHANGED <<audioQueue, audioOffset, audioFormat, voice, audioPorts, heard,
                   written, flushed, captureVars>>

\* xaudio2_cb_on_buffer_end: the oldest buffer has been played.
BufferEnd ==
    /\ buffers # <<>>
    /\ heard' = heard \o Numbers(Head(buffers)) /\ buffers' = Tail(buffers)
    /\ UNCHANGED <<audioQueue, audioOffset, audioFormat, voice, audioPorts, mixed,
                   written, flushed, captureVars>>

-----------------------------------------------------------------------------
(* Capture *)

\* shadps4_io_audio_input: what does not fit beside the frames queued is refused,
\* in another format too; frames of another format are discarded.
Capture(form, k) ==
    LET keep == Pending # <<>> /\ form = captureFormat IN
    /\ k <= MaxQueue - Len(Pending) /\ captured + k <= MaxFrames
    /\ captureQueue' = (IF keep THEN captureQueue ELSE <<>>) \o Frames(captured, k, form)
    /\ captureOffset' = IF keep THEN captureOffset ELSE 0
    /\ captureFormat' = form /\ captured' = captured + k
    /\ UNCHANGED <<captureRead, outputVars>>

\* shadps4_io_read_audio_input
ReadCapture(k) ==
    LET copied == Lesser(k, Len(Pending))
        end    == captureOffset + copied
        all    == end = Len(captureQueue)
    IN  /\ copied > 0
        /\ captureRead' = captureQueue[end].number
        /\ captureQueue' = IF all THEN <<>> ELSE captureQueue
        /\ captureOffset' = IF all THEN 0 ELSE end
        /\ UNCHANGED <<captureFormat, captured, outputVars>>

\* shadps4_io_reset, and the ports in shadps4_hle_reset.
AudioReset ==
    /\ flushed' = flushed \union InVoice \union Members(Queued)
    /\ mixed' = <<>> /\ buffers' = <<>> /\ voice' = NoVoice
    /\ audioQueue' = <<>> /\ audioOffset' = 0 /\ audioFormat' = Default
    /\ audioPorts' = [p \in 1 .. AudioPorts |-> ClosedPort]
    /\ captureQueue' = <<>> /\ captureOffset' = 0 /\ captureFormat' = Default
    /\ UNCHANGED <<heard, written, captured, captureRead>>

AudioNext ==
    \/ \E form \in Formats, opens \in BOOLEAN : Configure(form, opens)
    \/ \E form \in Formats, opens \in BOOLEAN : OpenPort(form, opens)
    \/ \E p \in 1 .. AudioPorts : ClosePort(p)
    \/ \E k \in 1 .. MaxQueue : Write(k)
    \/ \E p \in 1 .. AudioPorts, k \in 1 .. MaxQueue : Output(p, k)
    \/ VoiceAsks
    \/ SubmitBuffer
    \/ BufferEnd
    \/ \E form \in Formats, k \in 1 .. MaxQueue : Capture(form, k)
    \/ \E k \in 1 .. MaxQueue : ReadCapture(k)
    \/ AudioReset

AudioSpec == AudioInit /\ [][AudioNext]_audioVars

-----------------------------------------------------------------------------
(* Properties *)

AudioTypeOK ==
    /\ audioOffset \in 0 .. Len(audioQueue) /\ captureOffset \in 0 .. Len(captureQueue)
    /\ audioFormat \in Formats /\ captureFormat \in Formats
    /\ voice \in Formats \union {NoVoice}
    /\ audioPorts \in [1 .. AudioPorts -> Formats \union {ClosedPort}]
    /\ Len(Queued) <= MaxQueue /\ Len(mixed) <= MixerRoom /\ Len(buffers) <= MaxBuffers

\* The number before the first frame of the queue, of the mixer and of a buffer.
QueueFrom     == written - Len(Queued)
MixedFrom     == QueueFrom - Len(mixed)
BufferFrom(b) == IF b \in DOMAIN buffers THEN buffers[b][1].number - 1 ELSE MixedFrom
RunsFrom(n, frames) == \A i \in DOMAIN frames : frames[i].number = n + i

\* What the guest wrote is played in its order and once.  On their way are the last
\* frames it wrote, each behind the one before: buffers, mixer, queue.  Of those in
\* front of them, what closing the voice or a reset discarded is never heard, and all
\* others were, in order.  Rejected writes, partial takes, the array emptied late and
\* formats changed in between lose and repeat nothing.
OutputInOrder ==
    /\ RunsFrom(QueueFrom, Queued) /\ RunsFrom(MixedFrom, mixed)
    /\ \A b \in DOMAIN buffers : /\ RunsFrom(BufferFrom(b), buffers[b])
                                 /\ BufferFrom(b + 1) = BufferFrom(b) + Len(buffers[b])
    /\ \A i, j \in DOMAIN heard : i < j => heard[i] < heard[j]
    /\ flushed \subseteq 1 .. BufferFrom(1)
    /\ {heard[i] : i \in DOMAIN heard} = (1 .. BufferFrom(1)) \ flushed

\* The capture queue holds consecutive frames of one format, the one the device
\* says, all younger than what the guest has read: a change of format discards
\* what is left of the old one, and never the middle of a recording.
CaptureInOrder ==
    \A i \in DOMAIN Pending :
      /\ Pending[i].form = captureFormat
      /\ Pending[i].number = Pending[1].number + i - 1
      /\ Pending[1].number > captureRead

\* Both ways no frame is lost, repeated or out of order.
FramesInOrder == OutputInOrder /\ CaptureInOrder

\* A guest that waits for its output to drain gets there: what is queued is
\* taken, however full mixer and source voice are and however often the device
\* is opened again.  The writes of a behaviour are bounded.
DrainCompletes == Queued # <<>> ~> Queued = <<>>
=============================================================================

---------------------------- MODULE MCGuestServices ----------------------------
(***************************************************************************)
(* One run for parts of the guest's side that share no state with each       *)
(* other: turns of threads on a vCPU, the guest's memory, audio output and   *)
(* audio input.  A behaviour uses one of them and the others stay as they     *)
(* began.                                                                   *)
(***************************************************************************)
EXTENDS MCGuestScheduler, GuestMemory, GuestAudio

VARIABLE part  \* the part this behaviour uses

parts == <<part, vars, memoryVars, audioVars>>

PartsInit == /\ part \in {"threads", "memory", "output", "capture"}
             /\ Init /\ MemoryInit /\ AudioInit

TakingTurns == part = "threads" /\ UNCHANGED <<part, memoryVars, audioVars>>
UsingMemory == part = "memory" /\ UNCHANGED <<part, vars, audioVars>>
Playing     == part = "output" /\ UNCHANGED <<part, vars, memoryVars, captureVars>>
Recording   == part = "capture" /\ UNCHANGED <<part, vars, memoryVars, outputVars>>

PartsNext == \/ TakingTurns /\ Next
             \/ UsingMemory /\ MemoryNext
             \/ Playing /\ AudioNext
             \/ Recording /\ AudioNext

\* The audio thread of the host keeps playing, and the mixer's timer running.
PartsSpec ==
    /\ PartsInit /\ [][PartsNext]_parts
    /\ \A c \in Workers : /\ WF_parts(TakingTurns /\ GatewayRead(c))
                          /\ SF_parts(TakingTurns /\ Preempt(c))
    /\ WF_parts(Playing /\ VoiceAsks)
    /\ WF_parts(Playing /\ SubmitBuffer)
    /\ WF_parts(Playing /\ BufferEnd)
=============================================================================

---------------------------- MODULE MCGuestDevices ----------------------------
(***************************************************************************)
(* One run for the scheduler of guest threads (shadps4.c), the event queues  *)
(* (shadps4-hle.c), the command processor (shadps4-gpu.c) and the frames of  *)
(* shadps4-gpu-d3d12.c.  They share no state: a behaviour uses one of them   *)
(* and the others stay as they began.                                       *)
(***************************************************************************)
EXTENDS MCGuestScheduler, GuestGpu, GuestEvents, GpuFrames

VARIABLE part  \* the part this behaviour uses

parts == <<part, vars, gpuVars, eventVars, frameVars>>

PartsInit == /\ part \in {"threads", "gpu", "events", "frames"}
             /\ Init /\ GpuInit /\ EventInit /\ FramesInit
             /\ part # "threads" => \A t \in Threads : priority[t] = 700

Threading == part = "threads" /\ UNCHANGED <<part, gpuVars, eventVars, frameVars>>
Drawing   == part = "gpu" /\ UNCHANGED <<part, vars, eventVars, frameVars>>
Reporting == part = "events" /\ UNCHANGED <<part, vars, gpuVars, frameVars>>
Rendering == part = "frames" /\ UNCHANGED <<part, vars, gpuVars, eventVars>>

PartsNext == \/ Threading /\ Next
             \/ Drawing /\ GpuNext
             \/ Reporting /\ EventNext
             \/ Rendering /\ FramesNext

PartsSpec == PartsInit /\ [][PartsNext]_parts
=============================================================================

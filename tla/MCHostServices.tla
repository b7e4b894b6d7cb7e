---------------------------- MODULE MCHostServices ----------------------------
(***************************************************************************)
(* The run of the services of system/host.c.  They share no state, so a     *)
(* behaviour uses one of them and the others stay as they began.            *)
(***************************************************************************)
EXTENDS HostDialog, BrokeredStorage

VARIABLE service  \* the service this behaviour uses

services == <<service, vars, storageVars>>

TwoMounts  == {<<"d">>, <<"d", "f">>}
ThreeFiles == {<<"d">>, <<"d", "f">>, <<"d", "f", "g">>}

ServicesInit == service \in {"dialogs", "storage"} /\ Init /\ StorageInit

Dialogging == service = "dialogs" /\ UNCHANGED <<service, storageVars>>
Storing    == service = "storage" /\ UNCHANGED <<service, vars>>

ServicesNext == \/ Next /\ Dialogging
                \/ StorageNext /\ Storing

ServicesSpec ==
    /\ ServicesInit /\ [][ServicesNext]_services
    /\ WF_services(Dialogging /\ \E taken \in BOOLEAN : CallbackReturns(taken))
    /\ WF_services(Dialogging /\ Poll)
    /\ \A d \in Dialogs :
         WF_services(Dialogging /\ \E large \in Sizes : Complete(d, large))
    /\ WF_services(Storing /\ Answers)
    /\ WF_services(Storing /\ Cleanup)
    /\ SF_services(Storing /\ QemuCleanup)
=============================================================================

------------------------------ MODULE HostDialog ------------------------------
(***************************************************************************)
(* Dialogs: the guest asks the application to show one and polls for its    *)
(* result.  system/host.c keeps a table of open requests and a bounded      *)
(* queue of responses under host_callback_lock; hw/i386/shadps4-hle.c keeps *)
(* the state of the one library dialog and the /dev/dialog file, which      *)
(* share that queue.                                                        *)
(*                                                                          *)
(* Guest calls run under the BQL, one at a time, also while the callback    *)
(* runs; the application's threads answer and register at any moment.       *)
(***************************************************************************)
EXTENDS Naturals, Sequences

CONSTANTS
    MaxResponses,      \* 16 responses in the queue
    MaxDialogs,        \* bound: the requests of a run
    MaxRegistrations,  \* bound: how often the application registers
    Permitted          \* what may happen in a run, of Hazards

Hazards == {"file_steals",   \* /dev/dialog is read while a library dialog runs
            "large_answer"}  \* answers that exceed dialog_result, 64 bytes

ASSUME BoundsAssumption == /\ MaxResponses \in Nat \ {0}
                           /\ MaxDialogs \in Nat \ {0}
                           /\ MaxRegistrations \in Nat
                           /\ Permitted \subseteq Hazards

Dialogs   == 1 .. MaxDialogs
NoDialog  == 0
NoRequest == 0

VARIABLES
    \* system/host.c
    registrations,  \* how often host_dialog_callback was set
    nextId,         \* host_next_dialog_id
    requests,       \* host_dialog_requests
    responses,      \* host_dialog_responses
    \* shadps4-hle.c
    call,           \* the request whose callback is running, and for whom
    status,         \* dialog_status
    requestId,      \* dialog_request_id
    \* what the people see
    shown,          \* the dialogs the application was asked for, with their ids
    opened,         \* the dialog the guest's library has open
    answered        \* the dialog whose answer is the result

hostVars  == <<registrations, nextId, requests, responses>>
guestVars == <<status, requestId, opened, answered>>
vars == <<registrations, nextId, requests, responses, call, status, requestId,
          shown, opened, answered>>

NoCall == [by |-> "nobody", id |-> NoRequest, dialog |-> NoDialog]
Ids    == 1 .. MaxDialogs
Answer == [id : Ids, dialog : Dialogs, large : BOOLEAN]

\* The types; a library dialog that is running has a request.
TypeOK ==
    /\ registrations \in 0 .. MaxRegistrations
    /\ nextId \in 1 .. MaxDialogs + 1
    /\ requests \subseteq Ids
    /\ responses \in Seq(Answer) /\ Len(responses) <= MaxResponses
    /\ call \in [by : {"nobody", "library", "file"}, id : Ids \cup {NoRequest},
                 dialog : Dialogs \cup {NoDialog}]
    /\ status \in {"none", "initialized", "running", "finished"}
    /\ requestId \in Ids \cup {NoRequest}
    /\ shown \in Seq(Ids) /\ Len(shown) <= MaxDialogs
    /\ opened \in Dialogs \cup {NoDialog}
    /\ answered \in Dialogs \cup {NoDialog}
    /\ status = "running" => requestId # NoRequest

Init ==
    /\ registrations = 0 /\ nextId = 1 /\ requests = {} /\ responses = <<>>
    /\ call = NoCall /\ status = "none" /\ requestId = NoRequest
    /\ shown = <<>> /\ opened = NoDialog /\ answered = NoDialog

----------------------------------------------------------------------------
\* The application

\* qemu_host_register_dialog_callback; cleanup unregisters when no guest runs.
Register ==
    /\ registrations < MaxRegistrations
    /\ registrations' = registrations + 1
    /\ requests' = {} /\ responses' = <<>> /\ nextId' = 1
    /\ UNCHANGED <<call, shown, guestVars>>

\* qemu_host_complete_dialog of a dialog that was shown, any number of times
\* and as late as the application likes.  It accepts an answer to an open
\* request while there is room; otherwise it fails and changes nothing.
Accepts(id) == id \in requests /\ Len(responses) < MaxResponses

Answered(d, large) ==
    responses' = Append(responses, [id |-> shown[d], dialog |-> d, large |-> large])

CompleteKeepsRequest(d, large) ==
    /\ d \in DOMAIN shown /\ Accepts(shown[d])
    /\ Answered(d, large)
    /\ UNCHANGED <<registrations, nextId, requests, call, shown, guestVars>>

\* removes the request before it looks for room
CompleteTakesFirst(d, large) ==
    /\ d \in DOMAIN shown /\ shown[d] \in requests
    /\ requests' = requests \ {shown[d]}
    /\ IF Accepts(shown[d]) THEN Answered(d, large) ELSE UNCHANGED responses
    /\ UNCHANGED <<registrations, nextId, call, shown, guestVars>>

Complete(d, large) ==
    /\ d \in DOMAIN shown /\ Accepts(shown[d])
    /\ requests' = requests \ {shown[d]}
    /\ Answered(d, large)
    /\ UNCHANGED <<registrations, nextId, call, shown, guestVars>>

----------------------------------------------------------------------------
\* The guest

Idle == call = NoCall

\* the init calls of the dialog libraries
Initialize ==
    /\ Idle /\ status = "none"
    /\ status' = "initialized"
    /\ UNCHANGED <<hostVars, call, shown, requestId, opened, answered>>

\* qemu_host_dialog_request up to the callback, which now has the id
Request(by) ==
    /\ Idle /\ registrations > 0 /\ Len(shown) < MaxDialogs
    /\ nextId' = nextId + 1
    /\ requests' = requests \cup {nextId}
    /\ shown' = Append(shown, nextId)
    /\ call' = [by |-> by, id |-> nextId, dialog |-> Len(shown) + 1]
    /\ UNCHANGED <<registrations, responses>>

\* shadps4_hle_dialog_open stores the id even if the request fails; the calls
\* of services5 clear the result first.
Open ==
    /\ status \in {"initialized", "finished"}
    /\ Request("library")
    /\ requestId' = nextId
    /\ answered' \in {answered, NoDialog}
    /\ UNCHANGED <<status, opened>>

\* a write to /dev/dialog
FileWrite == Request("file") /\ UNCHANGED guestVars

\* The callback takes the request or refuses it, possibly after an answer.
CallbackReturns(taken) ==
    /\ ~Idle
    /\ call' = NoCall
    /\ requests' = IF taken THEN requests ELSE requests \ {call.id}
    /\ IF taken /\ call.by = "library"
       THEN /\ status' = "running" /\ opened' = call.dialog
            /\ answered' = NoDialog
            /\ UNCHANGED requestId
       ELSE UNCHANGED guestVars
    /\ UNCHANGED <<registrations, nextId, responses, shown>>

\* shadps4_hle_dialog_poll, in every call for the status or the result.  What
\* does not fit into dialog_result is not taken; what answers another request
\* is dropped.
PollAnyAnswer ==
    /\ Idle /\ status = "running"
    /\ responses # <<>> /\ ~Head(responses).large
    /\ responses' = Tail(responses)
    /\ status' = "finished" /\ answered' = Head(responses).dialog
    /\ UNCHANGED <<registrations, nextId, requests, call, shown, requestId, opened>>

PollKeepsOthers ==
    /\ Idle /\ status = "running"
    /\ responses # <<>> /\ ~Head(responses).large
    /\ Head(responses).id = requestId
    /\ responses' = Tail(responses)
    /\ status' = "finished" /\ answered' = Head(responses).dialog
    /\ UNCHANGED <<registrations, nextId, requests, call, shown, requestId, opened>>

Poll ==
    /\ Idle /\ status = "running"
    /\ responses # <<>> /\ ~Head(responses).large
    /\ responses' = Tail(responses)
    /\ IF Head(responses).id = requestId
       THEN status' = "finished" /\ answered' = Head(responses).dialog
       ELSE UNCHANGED <<status, answered>>
    /\ UNCHANGED <<registrations, nextId, requests, call, shown, requestId, opened>>

\* a read of /dev/dialog, with room for any answer
FileRead ==
    /\ status = "running" => "file_steals" \in Permitted
    /\ Idle /\ responses # <<>>
    /\ responses' = Tail(responses)
    /\ UNCHANGED <<registrations, nextId, requests, call, shown, guestVars>>

\* the close calls, and a commerce dialog opened with bad parameters
Close ==
    /\ Idle /\ status \in {"initialized", "running"}
    /\ status' = "finished"
    /\ UNCHANGED <<hostVars, call, shown, requestId, opened, answered>>

\* the terminate calls and shadps4_hle_reset; the host keeps the request
Terminate ==
    /\ Idle /\ status # "none"
    /\ status' = "none" /\ requestId' = NoRequest
    /\ opened' = NoDialog /\ answered' = NoDialog
    /\ UNCHANGED <<hostVars, call, shown>>

Sizes == IF "large_answer" \in Permitted THEN BOOLEAN ELSE {FALSE}

Next ==
    \/ Register
    \/ \E d \in Dialogs, large \in Sizes : Complete(d, large)
    \/ Initialize \/ Open \/ FileWrite \/ Poll \/ FileRead \/ Close \/ Terminate
    \/ \E taken \in BOOLEAN : CallbackReturns(taken)

Spec == Init /\ [][Next]_vars

\* Callbacks return ("callbacks devem ser curtos"), the application answers
\* every dialog it shows and tries again while the queue is full, and the
\* guest polls a dialog that is running.
FairSpec ==
    /\ Spec
    /\ WF_vars(\E taken \in BOOLEAN : CallbackReturns(taken))
    /\ WF_vars(Poll)
    /\ \A d \in Dialogs : WF_vars(\E large \in Sizes : Complete(d, large))

----------------------------------------------------------------------------
\* Properties

PendingIds == {responses[i].id : i \in DOMAIN responses}

\* A request is open, or has one response in the queue, or neither: a second
\* answer, a refusal after an answer and an id of nobody add nothing.
\* "respostas de dialogo duplicadas ou sem request ativo retornam ENOENT"
OneAnswerEach ==
    /\ \A i, j \in DOMAIN responses : i # j => responses[i].id # responses[j].id
    /\ PendingIds \cap requests = {}
    /\ \A id \in PendingIds \cup requests : id < nextId

\* The result the guest sees was given to the dialog it has open, though
\* answers to dialogs it closed or abandoned arrive later.
RightAnswer ==
    status = "finished" /\ answered # NoDialog => answered = opened

\* A running dialog can still be answered, or its answer is under way.
Answerable ==
    status = "running" => requestId \in requests \cup PendingIds

\* A running dialog does not run for ever: answers the guest no longer waits
\* for do not keep the queue full, and every accepted answer can be taken.
\* "payload_size de resposta e limitado a 1 MiB"
DialogFinishes == status = "running" ~> status # "running"
=============================================================================

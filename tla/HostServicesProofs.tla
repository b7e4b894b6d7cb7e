-------------------------- MODULE HostServicesProofs --------------------------
(***************************************************************************)
(* Proofs about HostDialog, for any number of dialogs and any length of the *)
(* queue.  That an id has one answer holds however often the application    *)
(* registers.  The rest needs that it registers once: ids then count the    *)
(* dialogs, so that an id names one dialog.                                 *)
(*                                                                          *)
(* And about BrokeredStorage: it implements ObjectLoans, for any objects,   *)
(* mounts, paths and number of handles.                                     *)
(***************************************************************************)
EXTENDS HostDialog, BrokeredStorage, FiniteSetTheorems, WellFoundedInduction, TLAPS

Responses == [id : Nat, dialog : Nat, large : BOOLEAN]

Types ==
    /\ registrations \in Nat /\ nextId \in Nat \ {0}
    /\ requests \subseteq Nat \ {0}
    /\ responses \in Seq(Responses)
    /\ shown \in Seq(Nat)
    /\ call \in [by : {"nobody", "library", "file"}, id : Nat, dialog : Nat]
    /\ requestId \in Nat /\ opened \in Nat /\ answered \in Nat

\* What makes OneAnswerEach inductive: nothing more than types.
AInv == Types /\ OneAnswerEach

\* It holds before anything happens.
LEMMA InitAInv == Init => AInv
BY DEF Init, AInv, Types, OneAnswerEach, PendingIds, NoCall, NoRequest, NoDialog

\* An accepted answer adds its id to those of the queue.
LEMMA AnswerPending ==
    ASSUME Types, NEW answer \in Responses, responses' = Append(responses, answer)
    PROVE  /\ responses' \in Seq(Responses)
           /\ Len(responses') = Len(responses) + 1
           /\ \A i \in 1 .. Len(responses) : responses'[i] = responses[i]
           /\ responses'[Len(responses) + 1] = answer
           /\ PendingIds' = PendingIds \cup {answer.id}
<1>1. /\ responses' \in Seq(Responses) /\ Len(responses') = Len(responses) + 1
      /\ \A i \in 1 .. Len(responses) : responses'[i] = responses[i]
      /\ responses'[Len(responses) + 1] = answer
  BY DEF Types
<1>2. /\ DOMAIN responses = 1 .. Len(responses) /\ Len(responses) \in Nat
      /\ DOMAIN responses' = 1 .. Len(responses) + 1
  BY <1>1 DEF Types
<1>3. PendingIds' = PendingIds \cup {answer.id}
  BY <1>1, <1>2 DEF PendingIds
<1> QED BY <1>1, <1>3

\* Who takes the head of the queue leaves the ids of the others in it.
LEMMA TakePending ==
    ASSUME Types, responses # <<>>, responses' = Tail(responses)
    PROVE  /\ responses' \in Seq(Responses) /\ Head(responses) = responses[1]
           /\ 1 \in DOMAIN responses
           /\ \A i \in DOMAIN responses' : /\ i + 1 \in DOMAIN responses
                                           /\ responses'[i] = responses[i + 1]
           /\ PendingIds' \subseteq PendingIds
           /\ PendingIds \subseteq PendingIds' \cup {Head(responses).id}
<1>1. /\ responses' \in Seq(Responses) /\ Head(responses) = responses[1]
      /\ Len(responses) \in Nat \ {0}
      /\ DOMAIN responses = 1 .. Len(responses)
      /\ DOMAIN responses' = 1 .. Len(responses) - 1
      /\ \A i \in 1 .. Len(responses) - 1 : responses'[i] = responses[i + 1]
  BY DEF Types
<1>2. \A i \in DOMAIN responses' : /\ i + 1 \in DOMAIN responses
                                   /\ responses'[i] = responses[i + 1]
  BY <1>1
<1>3. PendingIds' \subseteq PendingIds
  BY <1>2 DEF PendingIds
<1>4. PendingIds \subseteq PendingIds' \cup {Head(responses).id}
  <2> SUFFICES ASSUME NEW i \in DOMAIN responses, i # 1
               PROVE  responses[i].id \in PendingIds'
    BY <1>1 DEF PendingIds
  <2>1. i - 1 \in DOMAIN responses' /\ (i - 1) + 1 = i
    BY <1>1
  <2> QED BY <1>2, <2>1 DEF PendingIds
<1> QED BY <1>1, <1>2, <1>3, <1>4

\* An answer that is accepted moves its id from the table to the queue.
LEMMA CompleteAInv ==
    ASSUME AInv, NEW d, NEW large \in BOOLEAN, d \in Dialogs, Complete(d, large)
    PROVE  AInv'
<1> DEFINE answer == [id |-> shown[d], dialog |-> d, large |-> large]
<1>1. /\ d \in DOMAIN shown /\ shown[d] \in requests
      /\ requests' = requests \ {shown[d]}
      /\ responses' = Append(responses, answer)
      /\ UNCHANGED <<registrations, nextId, call, shown, guestVars>>
  BY DEF Complete, Accepts, Answered
<1>2. answer \in Responses /\ answer.id = shown[d]
  BY <1>1, BoundsAssumption DEF AInv, Types, Responses, Dialogs
<1> HIDE DEF answer
<1>3. /\ responses' \in Seq(Responses)
      /\ Len(responses') = Len(responses) + 1
      /\ \A i \in 1 .. Len(responses) : responses'[i] = responses[i]
      /\ responses'[Len(responses) + 1] = answer
      /\ PendingIds' = PendingIds \cup {shown[d]}
  BY <1>1, <1>2, AnswerPending DEF AInv
<1>4. Types'
  <2>1. requests' \subseteq Nat \ {0}
    BY <1>1 DEF AInv, Types
  <2> QED BY <1>1, <1>3, <2>1 DEF AInv, Types, guestVars
<1>5. \A i \in DOMAIN responses : responses[i].id # shown[d]
  BY <1>1 DEF AInv, OneAnswerEach, PendingIds
<1>6. /\ DOMAIN responses = 1 .. Len(responses) /\ Len(responses) \in Nat
      /\ DOMAIN responses' = 1 .. Len(responses) + 1
  BY <1>3 DEF AInv, Types
<1>7. \A i, j \in DOMAIN responses' : i # j => responses'[i].id # responses'[j].id
  BY <1>2, <1>3, <1>5, <1>6 DEF AInv, OneAnswerEach
<1>8. /\ PendingIds' \cap requests' = {}
      /\ \A id \in PendingIds' \cup requests' : id < nextId'
  BY <1>1, <1>3 DEF AInv, OneAnswerEach
<1> QED BY <1>4, <1>7, <1>8 DEF AInv, OneAnswerEach

\* A request has an id above all others.
LEMMA RequestAInv ==
    ASSUME AInv, Open \/ FileWrite
    PROVE  AInv'
<1>1. PICK by \in {"library", "file"} : Request(by)
  BY DEF Open, FileWrite
<1>2. /\ nextId' = nextId + 1 /\ requests' = requests \cup {nextId}
      /\ shown' = Append(shown, nextId)
      /\ call' = [by |-> by, id |-> nextId, dialog |-> Len(shown) + 1]
      /\ UNCHANGED <<registrations, responses>>
  BY <1>1 DEF Request
<1>3. requestId' \in Nat /\ opened' \in Nat /\ answered' \in Nat
  BY DEF Open, FileWrite, guestVars, AInv, Types, NoDialog
<1>4. Types'
  <2>1. requests' \subseteq Nat \ {0} /\ nextId' \in Nat \ {0}
    BY <1>2 DEF AInv, Types
  <2>2. shown' \in Seq(Nat) /\ Len(shown) \in Nat
    BY <1>2 DEF AInv, Types
  <2>3. call' \in [by : {"nobody", "library", "file"}, id : Nat, dialog : Nat]
    BY <1>2, <2>2 DEF AInv, Types
  <2> QED BY <1>2, <1>3, <2>1, <2>2, <2>3 DEF AInv, Types
<1>5. PendingIds' = PendingIds
  BY <1>2 DEF PendingIds
<1>6. nextId \in Nat /\ PendingIds \subseteq Nat
  <2>1. \A i \in DOMAIN responses : responses[i] \in Responses
    BY DEF AInv, Types
  <2> QED BY <2>1 DEF AInv, Types, PendingIds, Responses
<1>7. /\ PendingIds' \cap requests' = {}
      /\ \A id \in PendingIds' \cup requests' : id < nextId'
  BY <1>2, <1>5, <1>6 DEF AInv, Types, OneAnswerEach
<1>8. \A i, j \in DOMAIN responses' : i # j => responses'[i].id # responses'[j].id
  BY <1>2 DEF AInv, OneAnswerEach
<1> QED BY <1>4, <1>7, <1>8 DEF AInv, OneAnswerEach

\* The guest takes answers from the queue's head only.
LEMMA TakeAInv ==
    ASSUME AInv, Poll \/ FileRead
    PROVE  AInv'
<1>1. /\ responses # <<>> /\ responses' = Tail(responses)
      /\ UNCHANGED <<registrations, nextId, requests, call, shown, requestId, opened>>
  BY DEF Poll, FileRead, guestVars
<1>2. /\ responses' \in Seq(Responses) /\ Head(responses) = responses[1]
      /\ 1 \in DOMAIN responses
      /\ \A i \in DOMAIN responses' : /\ i + 1 \in DOMAIN responses
                                      /\ responses'[i] = responses[i + 1]
      /\ PendingIds' \subseteq PendingIds
  BY <1>1, TakePending DEF AInv
<1>3. answered' \in Nat
  <2>1. responses[1] \in Responses
    BY <1>2 DEF AInv, Types
  <2>2. Head(responses).dialog \in Nat
    BY <1>2, <2>1 DEF Responses
  <2> QED BY <2>2 DEF Poll, FileRead, guestVars, AInv, Types, NoDialog
<1>4. Types'
  BY <1>1, <1>2, <1>3 DEF AInv, Types
<1>5. DOMAIN responses \subseteq Nat /\ DOMAIN responses' \subseteq Nat
  BY <1>2 DEF AInv, Types
<1>6. \A i, j \in DOMAIN responses' : i # j => responses'[i].id # responses'[j].id
  BY <1>2, <1>5 DEF AInv, OneAnswerEach
<1>7. /\ PendingIds' \cap requests' = {}
      /\ \A id \in PendingIds' \cup requests' : id < nextId'
  BY <1>1, <1>2 DEF AInv, OneAnswerEach
<1> QED BY <1>4, <1>6, <1>7 DEF AInv, OneAnswerEach

\* The other actions leave the queue, or empty it.
LEMMA RestAInv ==
    ASSUME AInv, \/ Register \/ Initialize \/ Close \/ Terminate
                 \/ \E taken \in BOOLEAN : CallbackReturns(taken)
                 \/ UNCHANGED vars
    PROVE  AInv'
<1>1. CASE Register
  <2>1. registrations' \in Nat /\ nextId' = 1 /\ requests' = {} /\ responses' = <<>>
    BY <1>1 DEF Register, AInv, Types
  <2>2. Types'
    BY <1>1, <2>1 DEF Register, guestVars, AInv, Types
  <2> QED BY <2>1, <2>2 DEF AInv, OneAnswerEach, PendingIds
<1>2. CASE Initialize \/ Close \/ Terminate \/ UNCHANGED vars
  <2>1. /\ UNCHANGED <<hostVars, call, shown>>
        /\ requestId' \in Nat /\ opened' \in Nat /\ answered' \in Nat
    BY <1>2 DEF Initialize, Close, Terminate, vars, hostVars, AInv, Types,
                NoRequest, NoDialog
  <2>2. Types'
    BY <2>1 DEF hostVars, AInv, Types
  <2>3. OneAnswerEach'
    BY <2>1 DEF hostVars, AInv, OneAnswerEach, PendingIds
  <2> QED BY <2>2, <2>3 DEF AInv
<1>3. CASE \E taken \in BOOLEAN : CallbackReturns(taken)
  <2>1. /\ call' = NoCall /\ requests' \subseteq requests
        /\ UNCHANGED <<registrations, nextId, responses, shown>>
        /\ requestId' \in Nat /\ opened' \in Nat /\ answered' \in Nat
    BY <1>3 DEF CallbackReturns, guestVars, AInv, Types, NoDialog
  <2>2. Types'
    BY <2>1 DEF AInv, Types, NoCall, NoRequest, NoDialog
  <2>3. OneAnswerEach'
    BY <2>1 DEF AInv, OneAnswerEach, PendingIds
  <2> QED BY <2>2, <2>3 DEF AInv
<1> QED BY <1>1, <1>2, <1>3

\* Every step keeps AInv.
LEMMA NextAInv == AInv /\ [Next]_vars => AInv'
<1> SUFFICES ASSUME AInv, [Next]_vars PROVE AInv'
  OBVIOUS
<1>1. CASE \E d \in Dialogs, large \in Sizes : Complete(d, large)
  BY <1>1, CompleteAInv DEF Sizes
<1>2. CASE Open \/ FileWrite
  BY <1>2, RequestAInv
<1>3. CASE Poll \/ FileRead
  BY <1>3, TakeAInv
<1>4. CASE \/ Register \/ Initialize \/ Close \/ Terminate
           \/ \E taken \in BOOLEAN : CallbackReturns(taken)
           \/ UNCHANGED vars
  BY <1>4, RestAInv
<1> QED BY <1>1, <1>2, <1>3, <1>4 DEF Next

\* AInv holds in every state.
LEMMA AInvHolds == Spec => []AInv
BY InitAInv, NextAInv, PTL DEF Spec

\* Every request is answered at most once: neither a second answer nor a
\* refusal after an answer adds to the queue of qemu_host_complete_dialog,
\* however often the application registers.
THEOREM OneAnswerEachHolds == Spec => []OneAnswerEach
<1>1. AInv => OneAnswerEach
  BY DEF AInv
<1> QED BY <1>1, AInvHolds, PTL

----------------------------------------------------------------------------
(***************************************************************************)
(* An application that registers once.  An id is then the number of its     *)
(* dialog; the library has open the dialog whose id it stores; a callback   *)
(* of the library runs only while no dialog of the library does.            *)
(***************************************************************************)
IdsCount ==
    /\ registrations <= MaxRegistrations
    /\ registrations = 0 => shown = <<>> /\ call = NoCall /\ status # "running"
    /\ nextId = Len(shown) + 1
    /\ \A d \in DOMAIN shown : shown[d] = d
    /\ \A i \in DOMAIN responses : responses[i].dialog = responses[i].id

LibraryWaits ==
    /\ call # NoCall => /\ call.by \in {"library", "file"}
                        /\ call.dialog = call.id /\ call.id < nextId
    /\ call # NoCall /\ call.by = "library" => requestId = call.id /\ status # "running"
    /\ call # NoCall /\ call.by = "file" /\ status = "running" => requestId # call.id
    /\ status = "running" => requestId = opened /\ requestId < nextId
    /\ answered # NoDialog => status = "finished" /\ answered = opened

BInv == AInv /\ IdsCount /\ LibraryWaits

\* An open call is in the table or in the queue, and so is the running dialog
\* of the library unless /dev/dialog may take its answer.
CInv ==
    /\ BInv
    /\ call # NoCall => call.id \in requests \cup PendingIds
    /\ Answerable

\* It holds before anything happens.
LEMMA InitCInv == Init => CInv
<1> SUFFICES ASSUME Init PROVE CInv
  OBVIOUS
<1>1. AInv
  BY InitAInv
<1>2. IdsCount /\ LibraryWaits
  BY BoundsAssumption DEF Init, IdsCount, LibraryWaits, NoCall, NoRequest, NoDialog
<1> QED BY <1>1, <1>2 DEF Init, CInv, BInv, Answerable

\* Registering comes before the first dialog.
LEMMA RegisterIds ==
    ASSUME BInv, MaxRegistrations <= 1, Register
    PROVE  IdsCount' /\ LibraryWaits' /\ status' # "running" /\ call' = NoCall
<1>1. registrations = 0 /\ registrations' = 1
  BY BoundsAssumption DEF Register, BInv, AInv, Types
<1>2. /\ shown = <<>> /\ call = NoCall /\ status # "running"
      /\ responses' = <<>> /\ nextId' = 1
      /\ UNCHANGED <<call, shown, status, requestId, opened, answered>>
  BY <1>1 DEF Register, guestVars, BInv, IdsCount
<1>3. IdsCount'
  <2>1. Len(shown) = 0 /\ nextId' = Len(shown') + 1
    BY <1>2
  <2>2. registrations' <= MaxRegistrations
    BY <1>1, BoundsAssumption DEF Register
  <2> QED BY <1>1, <1>2, <2>1, <2>2 DEF IdsCount
<1>4. LibraryWaits'
  BY <1>2 DEF BInv, LibraryWaits
<1> QED BY <1>2, <1>3, <1>4

\* An accepted answer names the dialog it was given to.
LEMMA CompleteIds ==
    ASSUME BInv, NEW d \in Dialogs, NEW large \in BOOLEAN, Complete(d, large)
    PROVE  /\ IdsCount' /\ LibraryWaits'
           /\ requests' = requests \ {d} /\ PendingIds' = PendingIds \cup {d}
<1> DEFINE answer == [id |-> shown[d], dialog |-> d, large |-> large]
<1>1. /\ d \in DOMAIN shown /\ shown[d] = d
      /\ requests' = requests \ {shown[d]}
      /\ responses' = Append(responses, answer)
      /\ UNCHANGED <<registrations, nextId, call, shown,
                     status, requestId, opened, answered>>
  BY DEF Complete, Accepts, Answered, guestVars, BInv, IdsCount
<1>2. answer \in Responses /\ answer.id = d /\ answer.dialog = d
  BY <1>1, BoundsAssumption DEF Responses, Dialogs
<1> HIDE DEF answer
<1>3. /\ responses' \in Seq(Responses)
      /\ Len(responses') = Len(responses) + 1
      /\ \A i \in 1 .. Len(responses) : responses'[i] = responses[i]
      /\ responses'[Len(responses) + 1] = answer
      /\ PendingIds' = PendingIds \cup {d}
  BY <1>1, <1>2, AnswerPending DEF BInv, AInv
<1>4. /\ DOMAIN responses = 1 .. Len(responses) /\ Len(responses) \in Nat
      /\ DOMAIN responses' = 1 .. Len(responses) + 1
  BY <1>3 DEF BInv, AInv, Types
<1>5. \A i \in DOMAIN responses' : responses'[i].dialog = responses'[i].id
  BY <1>2, <1>3, <1>4 DEF BInv, IdsCount
<1>6. IdsCount'
  BY <1>1, <1>5 DEF BInv, IdsCount
<1>7. LibraryWaits'
  BY <1>1 DEF BInv, LibraryWaits
<1> QED BY <1>1, <1>3, <1>6, <1>7

\* A new request has an id no dialog of the library has.
LEMMA RequestIds ==
    ASSUME BInv, Open \/ FileWrite
    PROVE  /\ IdsCount' /\ LibraryWaits'
           /\ call'.id = nextId /\ UNCHANGED responses
           /\ requests' = requests \cup {nextId}
           /\ status' = "running" <=> status = "running"
<1>1. PICK by \in {"library", "file"} :
         /\ Request(by)
         /\ by = "library" => Open
         /\ by = "file" => FileWrite
  BY DEF Open, FileWrite
<1>2. /\ call = NoCall /\ registrations > 0
      /\ nextId' = nextId + 1 /\ requests' = requests \cup {nextId}
      /\ shown' = Append(shown, nextId)
      /\ call' = [by |-> by, id |-> nextId, dialog |-> Len(shown) + 1]
      /\ UNCHANGED <<registrations, responses, opened>>
      /\ status' = "running" <=> status = "running"
      /\ status = "finished" => status' = "finished"
  BY <1>1 DEF Request, Idle, Open, FileWrite, guestVars
<1>3. nextId \in Nat \ {0} /\ nextId = Len(shown) + 1 /\ shown \in Seq(Nat)
  BY DEF BInv, AInv, Types, IdsCount
<1>4. /\ Len(shown') = Len(shown) + 1
      /\ \A d \in DOMAIN shown' : shown'[d] = d
  BY <1>2, <1>3 DEF BInv, IdsCount
<1>5. IdsCount'
  BY <1>2, <1>3, <1>4 DEF BInv, AInv, Types, IdsCount
<1>6. /\ call'.by = by /\ call'.id = nextId /\ call'.dialog = call'.id
      /\ nextId < nextId' /\ \A n \in Nat : n < nextId => n < nextId' /\ n # nextId
  BY <1>2, <1>3
<1>7. CASE by = "library"
  <2>1. requestId' = nextId /\ answered' \in {answered, NoDialog} /\ status # "running"
    BY <1>1, <1>7 DEF Open
  <2> QED BY <1>2, <1>5, <1>6, <1>7, <2>1 DEF BInv, LibraryWaits
<1>8. CASE by = "file"
  <2>1. UNCHANGED <<requestId, answered>>
    BY <1>1, <1>8 DEF FileWrite, guestVars
  <2>2. status = "running" => requestId # nextId
    BY <1>6 DEF BInv, AInv, Types, LibraryWaits
  <2>3. status = "running" => requestId < nextId'
    BY <1>6 DEF BInv, AInv, Types, LibraryWaits
  <2> QED BY <1>2, <1>5, <1>6, <1>8, <2>1, <2>2, <2>3 DEF BInv, LibraryWaits
<1> QED BY <1>7, <1>8

\* What is taken from the queue leaves answers that name their dialogs, and
\* the library believes only the answer to its own request.
LEMMA TakeIds ==
    ASSUME BInv, Poll \/ FileRead
    PROVE  /\ IdsCount' /\ LibraryWaits'
           /\ UNCHANGED <<requests, call, requestId>>
           /\ PendingIds \subseteq PendingIds' \cup {Head(responses).id}
<1>1. /\ responses # <<>> /\ responses' = Tail(responses) /\ call = NoCall
      /\ UNCHANGED <<registrations, nextId, requests, call, shown, requestId, opened>>
  BY DEF Poll, FileRead, guestVars, Idle
<1>2. /\ Head(responses) = responses[1]
      /\ 1 \in DOMAIN responses
      /\ \A i \in DOMAIN responses' : /\ i + 1 \in DOMAIN responses
                                      /\ responses'[i] = responses[i + 1]
      /\ PendingIds \subseteq PendingIds' \cup {Head(responses).id}
  BY <1>1, TakePending DEF BInv, AInv
<1>3. \A i \in DOMAIN responses' : responses'[i].dialog = responses'[i].id
  BY <1>2 DEF BInv, IdsCount
<1>4. IdsCount'
  <2>1. status' = "running" => status = "running"
    BY DEF Poll, FileRead, guestVars
  <2> QED BY <1>1, <1>3, <2>1 DEF BInv, IdsCount
<1>5. Head(responses).dialog = Head(responses).id
  BY <1>2 DEF BInv, IdsCount
<1>6. LibraryWaits'
  BY <1>1, <1>5 DEF Poll, FileRead, guestVars, BInv, LibraryWaits
<1> QED BY <1>1, <1>2, <1>4, <1>6

\* The calls of the library that need no answer.
LEMMA LibraryIds ==
    ASSUME BInv, Initialize \/ Close \/ Terminate \/ UNCHANGED vars
    PROVE  /\ IdsCount' /\ LibraryWaits'
           /\ UNCHANGED <<requests, responses, call>>
           /\ status' = "running" => status = "running" /\ requestId' = requestId
<1>1. /\ UNCHANGED <<registrations, nextId, requests, responses, call, shown>>
      /\ status' = "running" => status = "running" /\ UNCHANGED <<requestId, opened>>
  BY DEF Initialize, Close, Terminate, vars, hostVars
<1>2. IdsCount'
  BY <1>1 DEF BInv, IdsCount
<1>3. LibraryWaits'
  BY <1>1 DEF Initialize, Close, Terminate, vars, Idle, BInv, LibraryWaits, NoDialog
<1> QED BY <1>1, <1>2, <1>3

\* A callback that takes the library's request leaves the dialog it opened.
LEMMA CallbackIds ==
    ASSUME BInv, NEW taken \in BOOLEAN, CallbackReturns(taken)
    PROVE  IdsCount' /\ LibraryWaits'
<1>1. /\ call # NoCall /\ call' = NoCall
      /\ UNCHANGED <<registrations, nextId, responses, shown>>
  BY DEF CallbackReturns, Idle
<1>2. IdsCount'
  BY <1>1 DEF BInv, IdsCount
<1>3. CASE taken /\ call.by = "library"
  <2>1. /\ status' = "running" /\ opened' = call.dialog /\ answered' = NoDialog
        /\ requestId' = requestId
    BY <1>3 DEF CallbackReturns
  <2> QED BY <1>1, <1>2, <1>3, <2>1 DEF BInv, LibraryWaits
<1>4. CASE ~(taken /\ call.by = "library")
  <2>1. UNCHANGED <<status, requestId, opened, answered>>
    BY <1>4 DEF CallbackReturns, guestVars
  <2> QED BY <1>1, <1>2, <2>1 DEF BInv, LibraryWaits
<1> QED BY <1>3, <1>4

\* Every step keeps BInv.
LEMMA NextBInv ==
    ASSUME BInv, [Next]_vars, MaxRegistrations <= 1
    PROVE  BInv'
<1>1. AInv'
  BY NextAInv DEF BInv
<1>2. CASE Register
  BY <1>1, <1>2, RegisterIds DEF BInv
<1>3. CASE \E d \in Dialogs, large \in Sizes : Complete(d, large)
  BY <1>1, <1>3, CompleteIds DEF BInv, Sizes
<1>4. CASE Open \/ FileWrite
  BY <1>1, <1>4, RequestIds DEF BInv
<1>5. CASE Poll \/ FileRead
  BY <1>1, <1>5, TakeIds DEF BInv
<1>6. CASE Initialize \/ Close \/ Terminate \/ UNCHANGED vars
  BY <1>1, <1>6, LibraryIds DEF BInv
<1>7. CASE \E taken \in BOOLEAN : CallbackReturns(taken)
  BY <1>1, <1>7, CallbackIds DEF BInv
<1> QED BY <1>2, <1>3, <1>4, <1>5, <1>6, <1>7 DEF Next

\* BInv holds in every state of an application that registers once.
LEMMA BInvHolds == ASSUME MaxRegistrations <= 1 PROVE Spec => []BInv
<1>1. Init => BInv
  BY InitCInv DEF CInv
<1>2. BInv /\ [Next]_vars => BInv'
  BY NextBInv
<1> QED BY <1>1, <1>2, PTL DEF Spec

\* With an application that registers once the guest never takes for its
\* result what the user answered to another dialog, however late.
THEOREM RightAnswerHolds ==
    ASSUME MaxRegistrations <= 1 PROVE Spec => []RightAnswer
<1>1. BInv => RightAnswer
  BY DEF BInv, LibraryWaits, RightAnswer
<1> QED BY <1>1, BInvHolds, PTL

\* Every step keeps CInv while /dev/dialog takes no answer of the library.
LEMMA NextCInv ==
    ASSUME CInv, [Next]_vars, MaxRegistrations <= 1, "file_steals" \notin Permitted
    PROVE  CInv'
<1> DEFINE Expected == requests \cup PendingIds
<1>1. BInv /\ BInv'
  BY NextBInv DEF CInv
<1> SUFFICES /\ call' # NoCall => call'.id \in Expected'
             /\ status' = "running" => requestId' \in Expected'
  BY <1>1 DEF CInv, Answerable
<1>2. CASE Register
  BY <1>1, <1>2, RegisterIds
<1>3. CASE \E d \in Dialogs, large \in Sizes : Complete(d, large)
  <2>1. PICK d \in Dialogs, large \in BOOLEAN : Complete(d, large)
    BY <1>3 DEF Sizes
  <2>2. requests' = requests \ {d} /\ PendingIds' = PendingIds \cup {d}
    BY <1>1, <2>1, CompleteIds
  <2>3. Expected \subseteq Expected'
    BY <2>2
  <2> QED BY <2>1, <2>3 DEF Complete, guestVars, CInv, Answerable
<1>4. CASE Open \/ FileWrite
  <2>1. /\ call'.id = nextId /\ UNCHANGED responses
        /\ requests' = requests \cup {nextId}
        /\ status' = "running" <=> status = "running"
    BY <1>1, <1>4, RequestIds
  <2>2. PendingIds' = PendingIds
    BY <2>1 DEF PendingIds
  <2>3. status' = "running" => requestId' = requestId
    BY <1>4, <2>1 DEF Open, FileWrite, guestVars
  <2> QED BY <2>1, <2>2, <2>3 DEF CInv, Answerable
<1>5. CASE Poll \/ FileRead
  <2>1. /\ UNCHANGED <<requests, call, requestId>>
        /\ PendingIds \subseteq PendingIds' \cup {Head(responses).id}
    BY <1>1, <1>5, TakeIds
  <2>2. call' = NoCall
    BY <1>5, <2>1 DEF Poll, FileRead, Idle
  <2>3. status' = "running" => status = "running" /\ Head(responses).id # requestId
    BY <1>5 DEF Poll, FileRead, guestVars
  <2> QED BY <2>1, <2>2, <2>3 DEF CInv, Answerable
<1>6. CASE Initialize \/ Close \/ Terminate \/ UNCHANGED vars
  <2>1. /\ UNCHANGED <<requests, responses, call>>
        /\ status' = "running" => status = "running" /\ requestId' = requestId
    BY <1>1, <1>6, LibraryIds
  <2>2. Expected' = Expected
    BY <2>1 DEF PendingIds
  <2> QED BY <2>1, <2>2 DEF CInv, Answerable
<1>7. CASE \E taken \in BOOLEAN : CallbackReturns(taken)
  <2>1. PICK taken \in BOOLEAN : CallbackReturns(taken)
    BY <1>7
  <2>2. /\ call # NoCall /\ call' = NoCall /\ requestId' = requestId
        /\ requests' = IF taken THEN requests ELSE requests \ {call.id}
        /\ UNCHANGED responses
    BY <2>1 DEF CallbackReturns, Idle, guestVars
  <2>3. PendingIds' = PendingIds
    BY <2>2 DEF PendingIds
  <2>4. CASE taken /\ call.by = "library"
    BY <1>1, <2>2, <2>3, <2>4 DEF BInv, LibraryWaits, CInv
  <2>5. CASE ~(taken /\ call.by = "library")
    <3>1. status' = status
      BY <2>1, <2>5 DEF CallbackReturns, guestVars
    <3>2. status = "running" => requestId # call.id
      BY <1>1, <2>2 DEF BInv, AInv, Types, LibraryWaits, NoCall
    <3> QED BY <2>2, <2>3, <3>1, <3>2 DEF CInv, Answerable
  <2> QED BY <2>4, <2>5
<1> QED BY <1>2, <1>3, <1>4, <1>5, <1>6, <1>7 DEF Next

\* With an application that registers once, and while nobody reads /dev/dialog
\* for an answer to the library, the application can still answer the running
\* dialog, or its answer is in the queue: late answers to dialogs the guest
\* closed push none out.
THEOREM AnswerableHolds ==
    ASSUME MaxRegistrations <= 1, "file_steals" \notin Permitted
    PROVE  Spec => []Answerable
<1>1. Init => CInv
  BY InitCInv
<1>2. CInv /\ [Next]_vars => CInv'
  BY NextCInv
<1>3. CInv => Answerable
  BY DEF CInv
<1> QED BY <1>1, <1>2, <1>3, PTL DEF Spec

----------------------------------------------------------------------------
(* Brokered storage                                                         *)

\* What every mount and every stream behind it was retained for.
WithObject(ms, o) == {m \in ms : m.object = o}
WithStream(ms, o) == {m \in ms : m.stream = o}
References(ms, o) == Cardinality(WithObject(ms, o)) + Cardinality(WithStream(ms, o))
Counted == IsFiniteSet(Mounted) /\ \A o \in Objects : held[o] = References(Mounted, o)

\* No two numbers stand for one handle of the application.
HandlesApart ==
    /\ \A n, k \in Numbers :
          handles[n] # NoFile /\ handles[k].backend = handles[n].backend => k = n
    /\ \A f, g \in emptied.files : g.backend = f.backend => g = f

\* What the machine asks for: a file it does not have yet, or one it has.
AskMeans ==
    /\ ask.op = "none" => ask = NoAsk
    /\ ask.op = "path" => ask.backend = None
    /\ ask.op = "open" /\ ask.backend # None =>
          \A n \in Numbers : handles[n].backend # ask.backend
    /\ ask.op \in {"use", "close"} => ask.number \in Numbers /\ handles[ask.number] # NoFile
    /\ ask.op = "use" => ask.backend = handles[ask.number].backend
    /\ ask.op = "close" => ask.backend \in {None, handles[ask.number].backend}

\* What is open or asked for has a mount.
Reached ==
    /\ \A n \in Numbers : handles[n] # NoFile => Covering(Mounted, handles[n].path) # {}
    /\ \A f \in emptied.files : f # NoFile /\ Covering(Mounted, f.path) # {}
    /\ ask.op \in {"open", "path"} =>
          ask.path \in FilePaths /\ Covering(Mounted, ask.path) # {}

\* Mounts change only while nothing is open, and cleanup finds nobody asking.
Stages ==
    /\ ~MachineRuns => ask = NoAsk
    /\ phase \in {"setup", "closing", "over"} => \A n \in Numbers : handles[n] = NoFile
    /\ phase \in {"closing", "over"} => mounts = {}
    /\ phase # "closing" => emptied.mounts = {} /\ emptied.files = {}

\* The inductive invariant.
LoanInv == StorageTypeOK /\ Counted /\ HandlesApart /\ AskMeans /\ Reached /\ Stages

----------------------------------------------------------------------------
\* The longest mount

\* A set of naturals has a least member.
LEMMA LeastOfAny ==
    ASSUME NEW T \in SUBSET Nat, T # {}
    PROVE  \E x \in T : \A y \in T : x <= y
<1> DEFINE R == OpToRel(<, Nat)
<1>1. IsWellFoundedOn(R, Nat)
  BY NatLessThanWellFounded
<1>2. \A x, y \in Nat : x < y => <<x, y>> \in R
  BY DEF OpToRel
<1> HIDE DEF R
<1>3. PICK x \in T : \A y \in T : ~(<<y, x>> \in R)
  BY <1>1, WFMin
<1>4. \A y \in T : ~(y < x)
  BY <1>2, <1>3
<1> QED BY <1>3, <1>4

\* Of the mounts that cover a path one is longest, and is chosen.
LEMMA LongestMount ==
    ASSUME NEW ms \in SUBSET Mount, NEW path \in FilePaths, Covering(ms, path) # {}
    PROVE  MountOf(ms, path) \in Covering(ms, path)
<1> DEFINE Cs == Covering(ms, path)
           Left == {Len(path) - Len(m.path) : m \in Cs}
<1>1. path \in Seq(STRING) /\ Len(path) \in Nat
  BY StorageAssumption
<1>2. ASSUME NEW m \in Cs PROVE Len(m.path) \in Nat /\ Len(path) - Len(m.path) \in Nat
  <2>1. m \in Mount /\ Len(m.path) <= Len(path)
    BY DEF Covering
  <2>2. m.path \in Seq(STRING)
    BY <2>1, StorageAssumption DEF Mount
  <2> QED BY <1>1, <2>1, <2>2
<1>3. Left \in SUBSET Nat /\ Left # {}
  BY <1>2
<1>4. PICK x \in Left : \A y \in Left : x <= y
  BY <1>3, LeastOfAny
<1>5. PICK m \in Cs : x = Len(path) - Len(m.path)
  BY <1>4
<1>6. ASSUME NEW n \in Cs PROVE Len(n.path) <= Len(m.path)
  <2>1. Len(path) - Len(n.path) \in Left
    OBVIOUS
  <2>2. Len(path) - Len(m.path) <= Len(path) - Len(n.path)
    BY <2>1, <1>4, <1>5
  <2> QED BY <1>1, <1>2, <2>2
<1>7. \E c \in Covering(ms, path) : \A n \in Covering(ms, path) : Len(n.path) <= Len(c.path)
  BY <1>6
<1> QED BY <1>7 DEF MountOf

\* What is behind a path that has a mount: an object, a stream or none.
LEMMA BehindPath ==
    ASSUME StorageTypeOK, NEW path \in FilePaths, Covering(Mounted, path) # {}
    PROVE  \E m \in Mounted : /\ m \in Mount /\ Behind(path) = <<m.object, m.stream>>
                              /\ m.object \in Objects /\ m.stream \in Objects \cup {None}
<1>1. Mounted \subseteq Mount
  BY DEF StorageTypeOK, Mounted
<1>2. MountOf(Mounted, path) \in Covering(Mounted, path)
  BY <1>1, LongestMount
<1>3. MountOf(Mounted, path) \in Mounted
  BY <1>2 DEF Covering
<1> QED BY <1>1, <1>3 DEF Behind, Mount

----------------------------------------------------------------------------
\* Counting references

\* References are counted in naturals; an object some mount holds has one at least.
LEMMA ReferencesAre ==
    ASSUME NEW ms, IsFiniteSet(ms), NEW o
    PROVE  /\ IsFiniteSet(WithObject(ms, o)) /\ Cardinality(WithObject(ms, o)) \in Nat
           /\ IsFiniteSet(WithStream(ms, o)) /\ Cardinality(WithStream(ms, o)) \in Nat
           /\ References(ms, o) \in Nat
           /\ \A m \in ms : m.object = o \/ m.stream = o => References(ms, o) > 0
           /\ ms = {} => References(ms, o) = 0
<1>1. WithObject(ms, o) \subseteq ms /\ WithStream(ms, o) \subseteq ms
  BY DEF WithObject, WithStream
<1>2. IsFiniteSet(WithObject(ms, o)) /\ IsFiniteSet(WithStream(ms, o))
  BY <1>1, FS_Subset
<1>3. Cardinality(WithObject(ms, o)) \in Nat /\ Cardinality(WithStream(ms, o)) \in Nat
  BY <1>2, FS_CardinalityType
<1>4. References(ms, o) \in Nat
  BY <1>3 DEF References
<1>5. ASSUME NEW m \in ms, m.object = o \/ m.stream = o PROVE References(ms, o) > 0
  <2>1. WithObject(ms, o) # {} \/ WithStream(ms, o) # {}
    BY <1>5 DEF WithObject, WithStream
  <2>2. Cardinality(WithObject(ms, o)) # 0 \/ Cardinality(WithStream(ms, o)) # 0
    BY <2>1, <1>2, FS_EmptySet
  <2> QED BY <1>3, <2>2 DEF References
<1>6. ASSUME ms = {} PROVE References(ms, o) = 0
  <2>1. WithObject(ms, o) = {} /\ WithStream(ms, o) = {}
    BY <1>6 DEF WithObject, WithStream
  <2> QED BY <2>1, FS_EmptySet DEF References
<1> QED BY <1>2, <1>3, <1>4, <1>5, <1>6

\* A mount more adds what was retained for it.
LEMMA OneMountMore ==
    ASSUME NEW ms, IsFiniteSet(ms), NEW m, m \notin ms, NEW o
    PROVE  References(ms \cup {m}, o) = References(ms, o) + Retained(m, o)
<1>1. /\ WithObject(ms \cup {m}, o) = IF m.object = o THEN WithObject(ms, o) \cup {m}
                                                      ELSE WithObject(ms, o)
      /\ WithStream(ms \cup {m}, o) = IF m.stream = o THEN WithStream(ms, o) \cup {m}
                                                      ELSE WithStream(ms, o)
      /\ m \notin WithObject(ms, o) /\ m \notin WithStream(ms, o)
  BY DEF WithObject, WithStream
<1>2. /\ IsFiniteSet(WithObject(ms, o)) /\ Cardinality(WithObject(ms, o)) \in Nat
      /\ IsFiniteSet(WithStream(ms, o)) /\ Cardinality(WithStream(ms, o)) \in Nat
  BY ReferencesAre
<1>3. /\ Cardinality(WithObject(ms, o) \cup {m}) = Cardinality(WithObject(ms, o)) + 1
      /\ Cardinality(WithStream(ms, o) \cup {m}) = Cardinality(WithStream(ms, o)) + 1
  BY <1>1, <1>2, FS_AddElement
<1> QED BY <1>1, <1>2, <1>3 DEF References, Retained

\* A mount less takes that away.
LEMMA OneMountLess ==
    ASSUME NEW ms, IsFiniteSet(ms), NEW m \in ms, NEW o
    PROVE  /\ References(ms, o) = References(ms \ {m}, o) + Retained(m, o)
           /\ References(ms \ {m}, o) \in Nat /\ IsFiniteSet(ms \ {m})
<1> DEFINE less == ms \ {m}
<1>1. IsFiniteSet(less) /\ m \notin less /\ less \cup {m} = ms
  BY FS_Subset
<1> HIDE DEF less
<1>2. References(less \cup {m}, o) = References(less, o) + Retained(m, o)
  BY <1>1, OneMountMore
<1>3. References(less, o) \in Nat
  BY <1>1, ReferencesAre
<1> QED BY <1>1, <1>2, <1>3 DEF less

----------------------------------------------------------------------------
\* The invariant

\* An entry of the table with a file has a handle of the application and a path.
LEMMA FileIs ==
    ASSUME NEW f \in File, f # NoFile
    PROVE  f \in [backend : Backend, path : FilePaths] /\ f.backend \in Backend
           /\ f.path \in FilePaths /\ f.backend # None
BY StorageAssumption DEF File

\* An empty entry has none.
LEMMA NoFileIs == NoFile \in File /\ NoFile.backend = None /\ None \notin Backend
BY StorageAssumption DEF File, NoFile

\* Nobody asking.
LEMMA NoAskIs == NoAsk.op = "none" /\ NoAsk.backend = None /\ NoAsk.number = None
                 /\ NoAsk \in [op : {"none", "open", "use", "close", "path"},
                               path : FilePaths \cup {<<>>},
                               number : Numbers \cup {None}, backend : Backend \cup {None}]
BY DEF NoAsk

\* With nothing mounted and nothing open the invariant holds.
LEMMA LoanInvInit == StorageInit => LoanInv
<1> SUFFICES ASSUME StorageInit PROVE LoanInv
  OBVIOUS
<1> USE NoFileIs, NoAskIs DEF StorageInit
<1>1. StorageTypeOK
  <2>1. 0 \in Numbers
    BY StorageAssumption DEF Numbers
  <2>2. handles \in [Numbers -> File] /\ held \in [Objects -> Int]
    OBVIOUS
  <2>3. emptied \in [mounts : SUBSET Mount, files : SUBSET File]
    OBVIOUS
  <2> QED BY <2>1, <2>2, <2>3 DEF StorageTypeOK, Phases
<1>2. Counted
  <2>1. Mounted = {} /\ IsFiniteSet({})
    BY FS_EmptySet DEF Mounted
  <2> QED BY <2>1, ReferencesAre DEF Counted
<1>3. HandlesApart /\ AskMeans /\ Reached /\ Stages
  BY DEF HandlesApart, AskMeans, Reached, Stages, MachineRuns
<1> QED BY <1>1, <1>2, <1>3 DEF LoanInv

\* Registering, and moving on: nothing is mounted, opened or asked.
LEMMA MovingOn ==
    ASSUME LoanInv, RegisterStorage \/ InitBegin \/ InitFinish \/ CleanupBegin \/ QemuCleanup
    PROVE  LoanInv'
<1>1. /\ UNCHANGED <<mounts, handles, nextNumber, ask, emptied, held>>
      /\ registered' \in BOOLEAN
  BY DEF RegisterStorage, InitBegin, InitFinish, CleanupBegin, QemuCleanup, LoanInv,
         StorageTypeOK, tables
<1>2. phase' \in Phases /\ Stages'
  BY <1>1 DEF RegisterStorage, InitBegin, InitFinish, CleanupBegin, QemuCleanup,
              MountingAllowed, LoanInv, StorageTypeOK, Phases, Stages, MachineRuns
<1>3. StorageTypeOK'
  BY <1>1, <1>2 DEF LoanInv, StorageTypeOK
<1>4. Counted' /\ Reached'
  BY <1>1 DEF LoanInv, Counted, Reached, Mounted
<1>5. HandlesApart' /\ AskMeans'
  BY <1>1 DEF LoanInv, HandlesApart, AskMeans
<1> QED BY <1>2, <1>3, <1>4, <1>5 DEF LoanInv

\* While the mounts change, nothing is open and nobody asks.
Resting == /\ ask = NoAsk /\ emptied.files = {}
           /\ \A n \in Numbers : handles[n] = NoFile

\* A mount enters the tables and what is behind it was retained.
LEMMA MountStep ==
    ASSUME LoanInv, NEW m \in Mount, AddMount(m)
    PROVE  /\ LoanInv' /\ Resting /\ Resting'
           /\ phase = "setup" /\ UNCHANGED phase
           /\ held' = [o \in Objects |-> held[o] + Retained(m, o)]
<1> USE DEF AddMount, MountingAllowed
<1>1. Resting /\ Resting' /\ emptied.mounts = {}
  BY DEF LoanInv, Stages, MachineRuns, Resting
<1>2. Mounted = mounts /\ Mounted' = mounts \cup {m} /\ m \notin mounts
  BY <1>1 DEF Mounted
<1>3. \A o \in Objects : held[o] \in Int /\ Retained(m, o) \in Int
  BY DEF LoanInv, StorageTypeOK, Retained
<1>4. StorageTypeOK'
  BY <1>3 DEF LoanInv, StorageTypeOK
<1>5. Counted'
  <2>1. IsFiniteSet(mounts) /\ \A o \in Objects : held[o] = References(mounts, o)
    BY <1>2 DEF LoanInv, Counted
  <2>2. IsFiniteSet(mounts \cup {m})
    BY <2>1, FS_AddElement
  <2>3. \A o \in Objects : held'[o] = References(mounts \cup {m}, o)
    BY <2>1, <1>2, OneMountMore
  <2> QED BY <1>2, <2>2, <2>3 DEF Counted
<1>6. HandlesApart' /\ AskMeans' /\ Stages'
  BY DEF LoanInv, HandlesApart, AskMeans, Stages, MachineRuns
<1>7. Reached'
  BY <1>1, NoAskIs DEF Reached, Resting
<1> QED BY <1>1, <1>4, <1>5, <1>6, <1>7 DEF LoanInv

\* A mount leaves the tables, or is freed at cleanup: its references go back.
LEMMA UnmountStep ==
    ASSUME LoanInv, NEW m \in Mounted, 
           (m \in mounts /\ Unmount(m)) \/ (m \in emptied.mounts /\ CleanupFree(m))
    PROVE  /\ LoanInv' /\ Resting /\ Resting' /\ UNCHANGED phase
           /\ held' = Released(m) /\ m \in Mount
           /\ \A o \in Objects : Retained(m, o) <= held[o]
<1> USE DEF Unmount, CleanupFree, MountingAllowed
<1>1. Resting /\ Resting'
  BY DEF LoanInv, Stages, MachineRuns, Resting, tables, StorageTypeOK
<1>2. Mounted' = Mounted \ {m} /\ emptied' \in [mounts : SUBSET Mount, files : SUBSET File]
      /\ mounts' \subseteq Mount /\ Stages'
  <2>1. CASE m \in mounts /\ Unmount(m)
    BY <2>1 DEF LoanInv, Stages, MachineRuns, StorageTypeOK, Mounted
  <2>2. CASE m \in emptied.mounts /\ CleanupFree(m)
    BY <2>2 DEF LoanInv, Stages, MachineRuns, StorageTypeOK, Mounted, tables
  <2> QED BY <2>1, <2>2
<1>3. m \in Mount
  BY DEF LoanInv, StorageTypeOK, Mounted
<1>4. /\ UNCHANGED <<phase, registered, handles, nextNumber, ask>>
      /\ held' = Released(m)
  BY DEF tables
<1>5. \A o \in Objects : held[o] \in Int /\ Retained(m, o) \in Int
  BY DEF LoanInv, StorageTypeOK, Retained
<1>6. StorageTypeOK'
  BY <1>2, <1>4, <1>5 DEF LoanInv, StorageTypeOK, Released
<1>7. ASSUME NEW o \in Objects
      PROVE held'[o] = References(Mounted', o) /\ Retained(m, o) <= held[o]
            /\ IsFiniteSet(Mounted')
  <2>1. held[o] = References(Mounted, o) /\ IsFiniteSet(Mounted)
    BY DEF LoanInv, Counted
  <2>2. /\ References(Mounted, o) = References(Mounted', o) + Retained(m, o)
        /\ References(Mounted', o) \in Nat /\ IsFiniteSet(Mounted')
    BY <1>2, <2>1, OneMountLess
  <2>3. held'[o] = held[o] - Retained(m, o)
    BY <1>4 DEF Released
  <2> QED BY <1>5, <2>1, <2>2, <2>3
<1>8. IsFiniteSet(Mounted')
  BY <1>2, FS_Subset DEF LoanInv, Counted
<1>9. Counted'
  BY <1>7, <1>8 DEF Counted
<1>10. HandlesApart' /\ AskMeans' /\ Reached'
  BY <1>1, NoAskIs, NoFileIs DEF HandlesApart, AskMeans, Reached, Resting
<1> QED BY <1>1, <1>2, <1>3, <1>4, <1>6, <1>7, <1>9, <1>10 DEF LoanInv

\* The machine asks.
LEMMA CallStep ==
    ASSUME LoanInv, NEW op \in {"open", "use", "close", "path"}, NEW path, NEW number,
           NEW backend, Calls(op, path, number, backend),
           path \in FilePaths,
           \/ /\ op \in {"open", "path"} /\ number = None /\ backend = None
              /\ Covering(mounts, path) # {}
           \/ /\ op \in {"use", "close"} /\ number \in Numbers
              /\ handles[number] # NoFile /\ backend = handles[number].backend
    PROVE  LoanInv'
<1> USE DEF Calls, tables
<1>1. Mounted' = Mounted /\ mounts \subseteq Mounted
  BY DEF Mounted
<1>2. ASSUME Covering(mounts, path) # {} PROVE Covering(Mounted, path) # {}
  BY <1>1, <1>2 DEF Covering
<1>3. backend \in Backend \cup {None}
  BY FileIs DEF LoanInv, StorageTypeOK
<1>4. StorageTypeOK'
  BY <1>3 DEF LoanInv, StorageTypeOK
<1>5. Counted' /\ HandlesApart'
  BY <1>1 DEF LoanInv, Counted, HandlesApart
<1>6. AskMeans'
  BY DEF AskMeans, NoAsk
<1>7. Reached'
  BY <1>1, <1>2 DEF LoanInv, Reached
<1>8. Stages'
  BY DEF LoanInv, Stages, MachineRuns
<1> QED BY <1>4, <1>5, <1>6, <1>7, <1>8 DEF LoanInv

\* A call returns and the table of handles is as it was.
LEMMA ReturnStep ==
    ASSUME LoanInv, Returns(handles, nextNumber)
    PROVE  LoanInv'
<1> USE NoAskIs DEF Returns
<1>1. Mounted' = Mounted
  BY DEF Mounted
<1>2. StorageTypeOK' /\ AskMeans' /\ Stages'
  BY DEF LoanInv, StorageTypeOK, AskMeans, Stages, MachineRuns
<1>3. Counted' /\ HandlesApart' /\ Reached'
  BY <1>1 DEF LoanInv, Counted, HandlesApart, Reached
<1> QED BY <1>2, <1>3 DEF LoanInv

\* The application opened a file, under a handle of its own that QEMU does not know.
LEMMA OpenedStep ==
    ASSUME LoanInv, NEW b \in Backend, OpenSucceeds(b)
    PROVE  LoanInv'
<1> USE DEF OpenSucceeds, tables
<1>1. Mounted' = Mounted /\ b # None
  BY StorageAssumption DEF Mounted
<1>2. /\ ask'.op = "open" /\ ask'.backend = b /\ ask'.path = ask.path
      /\ ask' \in [op : {"none", "open", "use", "close", "path"},
                   path : FilePaths \cup {<<>>},
                   number : Numbers \cup {None}, backend : Backend \cup {None}]
  BY DEF LoanInv, StorageTypeOK
<1>3. StorageTypeOK'
  BY <1>2 DEF LoanInv, StorageTypeOK
<1>4. Counted' /\ HandlesApart'
  BY <1>1 DEF LoanInv, Counted, HandlesApart
<1>5. AskMeans'
  BY <1>2 DEF AskMeans, Known
<1>6. Reached'
  BY <1>1, <1>2 DEF LoanInv, Reached
<1>7. Stages'
  BY NoAskIs DEF LoanInv, Stages, MachineRuns
<1> QED BY <1>3, <1>4, <1>5, <1>6, <1>7 DEF LoanInv

\* QEMU gives an opened file a number nothing has.
LEMMA PublishStep ==
    ASSUME LoanInv, Publish
    PROVE  /\ LoanInv'
           /\ \E n \in Numbers :
                /\ handles[n] = NoFile /\ ask' = NoAsk
                /\ handles' = [handles EXCEPT ![n] = [backend |-> ask.backend,
                                                      path |-> ask.path]]
<1>1. PICK n \in Numbers :
        /\ FirstFree(n)
        /\ Returns([handles EXCEPT ![n] = [backend |-> ask.backend, path |-> ask.path]],
                   After(n, 1))
  BY DEF Publish
<1> DEFINE file == [backend |-> ask.backend, path |-> ask.path]
<1> USE NoAskIs DEF Returns
<1>2. /\ ask.op = "open" /\ ask.backend \in Backend /\ ask.path \in FilePaths
      /\ Covering(Mounted, ask.path) # {}
      /\ \A k \in Numbers : handles[k].backend # ask.backend
  BY DEF Publish, LoanInv, StorageTypeOK, AskMeans, Reached
<1>3. Mounted' = Mounted
  BY <1>1 DEF Mounted
<1>4. file \in File /\ file # NoFile /\ file.backend = ask.backend /\ file.path = ask.path
  BY <1>2, NoFileIs DEF File
<1>5. handles[n] = NoFile /\ handles' = [handles EXCEPT ![n] = file]
  BY <1>1 DEF FirstFree, Free
<1>6. \A k \in Numbers : handles'[k] = IF k = n THEN file ELSE handles[k]
  BY <1>5 DEF LoanInv, StorageTypeOK
<1>7. nextNumber' \in Numbers
  <2>1. nextNumber' = (n + 1) % NumberCount
    BY <1>1 DEF After
  <2>2. n \in Nat /\ NumberCount \in Nat \ {0}
    BY StorageAssumption DEF Numbers
  <2> QED BY <2>1, <2>2 DEF Numbers
<1> HIDE DEF file
<1>8. StorageTypeOK'
  BY <1>1, <1>4, <1>5, <1>7 DEF LoanInv, StorageTypeOK
<1>9. Counted'
  BY <1>1, <1>3 DEF LoanInv, Counted
<1>10. HandlesApart'
  BY <1>1, <1>2, <1>4, <1>6 DEF LoanInv, HandlesApart
<1>11. AskMeans'
  BY <1>1 DEF AskMeans
<1>12. Reached'
  BY <1>1, <1>2, <1>3, <1>4, <1>6 DEF LoanInv, Reached
<1>13. Stages'
  BY <1>1, <1>2 DEF LoanInv, Stages, MachineRuns
<1> QED BY <1>1, <1>5, <1>8, <1>9, <1>10, <1>11, <1>12, <1>13 DEF LoanInv, file

\* The application closed a file; QEMU then frees its number.
LEMMA ClosedStep ==
    ASSUME LoanInv, CloseSucceeds
    PROVE  LoanInv'
<1> USE DEF CloseSucceeds, tables
<1>1. Mounted' = Mounted
  BY DEF Mounted
<1>2. /\ ask'.op = "close" /\ ask'.backend = None /\ ask'.number = ask.number
      /\ ask' \in [op : {"none", "open", "use", "close", "path"},
                   path : FilePaths \cup {<<>>},
                   number : Numbers \cup {None}, backend : Backend \cup {None}]
  BY DEF LoanInv, StorageTypeOK
<1>3. StorageTypeOK'
  BY <1>2 DEF LoanInv, StorageTypeOK
<1>4. Counted' /\ HandlesApart'
  BY <1>1 DEF LoanInv, Counted, HandlesApart
<1>5. AskMeans' /\ Reached'
  BY <1>1, <1>2 DEF LoanInv, AskMeans, Reached
<1>6. Stages'
  BY NoAskIs DEF LoanInv, Stages, MachineRuns
<1> QED BY <1>3, <1>4, <1>5, <1>6 DEF LoanInv

\* The number of the closed file is free again.
LEMMA RemoveStep ==
    ASSUME LoanInv, CloseRemove
    PROVE  LoanInv' /\ ask.number \in Numbers
           /\ \A k \in Numbers : handles'[k] = IF k = ask.number THEN NoFile ELSE handles[k]
<1> USE NoAskIs, NoFileIs DEF CloseRemove, Returns
<1>1. Mounted' = Mounted
  BY DEF Mounted
<1>2. ask.number \in Numbers
  BY DEF LoanInv, AskMeans
<1>3. \A k \in Numbers : handles'[k] = IF k = ask.number THEN NoFile ELSE handles[k]
  BY <1>2 DEF LoanInv, StorageTypeOK
<1>4. StorageTypeOK'
  BY DEF LoanInv, StorageTypeOK
<1>5. Counted' /\ AskMeans'
  BY <1>1 DEF LoanInv, Counted, AskMeans
<1>6. HandlesApart'
  <2>1. \A n \in Numbers : handles[n] # NoFile => handles[n].backend # None
    BY FileIs DEF LoanInv, StorageTypeOK
  <2> QED BY <1>3, <2>1 DEF LoanInv, HandlesApart
<1>7. Reached' /\ Stages'
  BY <1>1, <1>3 DEF LoanInv, Reached, Stages, MachineRuns
<1> QED BY <1>2, <1>3, <1>4, <1>5, <1>6, <1>7 DEF LoanInv

\* Cleanup takes the tables: what was mounted and open stays so, outside them.
LEMMA TakeStep ==
    ASSUME LoanInv, CleanupTake
    PROVE  /\ LoanInv' /\ Mounted' = Mounted /\ ask = NoAsk /\ UNCHANGED <<ask, held>>
           /\ emptied.files = {} /\ \A n \in Numbers : handles'[n] = NoFile
           /\ emptied'.files = {handles[n] : n \in Numbers} \ {NoFile}
<1> USE DEF CleanupTake
<1>1. /\ ask = NoAsk /\ emptied.mounts = {} /\ emptied.files = {}
      /\ emptied'.mounts = mounts /\ mounts' = {}
      /\ emptied'.files = {handles[n] : n \in Numbers} \ {NoFile}
      /\ \A n \in Numbers : handles'[n] = NoFile
  BY DEF LoanInv, Stages, MachineRuns
<1>2. Mounted' = Mounted
  BY <1>1 DEF Mounted
<1>3. StorageTypeOK'
  BY NoFileIs DEF LoanInv, StorageTypeOK, Phases
<1>4. Counted' /\ AskMeans'
  BY <1>1, <1>2, NoAskIs DEF LoanInv, Counted, AskMeans
<1>5. HandlesApart'
  BY <1>1 DEF LoanInv, HandlesApart
<1>6. Reached' /\ Stages'
  BY <1>1, <1>2, NoAskIs DEF LoanInv, Reached, Stages, MachineRuns
<1> QED BY <1>1, <1>2, <1>3, <1>4, <1>5, <1>6 DEF LoanInv

\* Cleanup closes a handle.
LEMMA CloseAllStep ==
    ASSUME LoanInv, NEW f \in emptied.files, CleanupClose(f)
    PROVE  /\ LoanInv' /\ Mounted' = Mounted /\ ask = NoAsk
           /\ UNCHANGED <<handles, ask, held, phase>>
           /\ emptied'.files = emptied.files \ {f}
<1> USE DEF CleanupClose, tables
<1>1. /\ ask = NoAsk /\ emptied'.mounts = emptied.mounts
      /\ emptied'.files = emptied.files \ {f}
      /\ emptied' \in [mounts : SUBSET Mount, files : SUBSET File]
  BY DEF LoanInv, Stages, MachineRuns, StorageTypeOK
<1>2. Mounted' = Mounted
  BY <1>1 DEF Mounted
<1>3. StorageTypeOK'
  BY <1>1 DEF LoanInv, StorageTypeOK
<1>4. Counted' /\ AskMeans' /\ HandlesApart'
  BY <1>1, <1>2 DEF LoanInv, Counted, AskMeans, HandlesApart
<1>5. Reached' /\ Stages'
  BY <1>1, <1>2 DEF LoanInv, Reached, Stages, MachineRuns
<1> QED BY <1>1, <1>2, <1>3, <1>4, <1>5 DEF LoanInv

\* At the end nothing is mounted.
LEMMA EndStep ==
    ASSUME LoanInv, CleanupEnd
    PROVE  LoanInv' /\ Resting /\ Mounted = {}
<1> USE DEF CleanupEnd
<1>1. /\ Resting /\ mounts = {} /\ Mounted' = Mounted /\ Mounted = {}
  BY DEF LoanInv, Stages, MachineRuns, Resting, Mounted
<1>2. StorageTypeOK'
  <2>1. 0 \in Numbers
    BY StorageAssumption DEF Numbers
  <2> QED BY <2>1 DEF LoanInv, StorageTypeOK, Phases
<1>3. Counted' /\ AskMeans' /\ HandlesApart'
  BY <1>1 DEF LoanInv, Counted, AskMeans, HandlesApart
<1>4. Reached' /\ Stages'
  BY <1>1 DEF LoanInv, Reached, Stages, MachineRuns
<1> QED BY <1>1, <1>2, <1>3, <1>4 DEF LoanInv

----------------------------------------------------------------------------
\* Which handles are open, and through what

FilesOf(hs, a, fs) ==
    ( {hs[n] : n \in {k \in Numbers : ~(/\ a.op = "close" /\ a.backend = None
                                       /\ a.number = k)}}
      \cup fs
      \cup {[backend |-> a.backend, path |-> path] :
               path \in {p \in {a.path} : a.op = "open"}} ) \ {NoFile}
OpenIn(files) == {f \in files : f.backend \in Backend}
BehindIn(ms, path) ==
    IF Covering(ms, path) = {} THEN <<None, None>>
    ELSE LET m == MountOf(ms, path) IN <<m.object, m.stream>>
ThroughIn(files, ms, b) ==
    IF \E f \in files : f.backend = b
    THEN BehindIn(ms, (CHOOSE f \in files : f.backend = b).path)[1]
    ELSE None
Opens == OpenIn(FilesOf(handles, ask, emptied.files))
Ways == [b \in Backend |-> Through(b)]

Apart(fs) == \A f, g \in fs : g.backend = f.backend => g = f

\* What is open: numbered, taken by cleanup, or just opened, and not just closed.
LEMMA OpenAre ==
    ASSUME NEW hs, NEW a, NEW fs, NEW f
    PROVE  f \in OpenIn(FilesOf(hs, a, fs)) <=>
             /\ f.backend \in Backend
             /\ \/ \E n \in Numbers : /\ hs[n] = f
                                      /\ ~(a.op = "close" /\ a.backend = None /\ a.number = n)
                \/ f \in fs
                \/ a.op = "open" /\ f = [backend |-> a.backend, path |-> a.path]
BY NoFileIs DEF OpenIn, FilesOf

\* The same of the variables, before and after a step.
LEMMA OpensMean ==
    \A f :
      /\ f \in Opens <=>
           /\ f.backend \in Backend
           /\ \/ \E n \in Numbers : /\ handles[n] = f
                                    /\ ~(ask.op = "close" /\ ask.backend = None /\ ask.number = n)
              \/ f \in emptied.files
              \/ ask.op = "open" /\ f = [backend |-> ask.backend, path |-> ask.path]
      /\ f \in Opens' <=>
           /\ f.backend \in Backend
           /\ \/ \E n \in Numbers : /\ handles'[n] = f
                                    /\ ~(ask'.op = "close" /\ ask'.backend = None /\ ask'.number = n)
              \/ f \in emptied'.files
              \/ ask'.op = "open" /\ f = [backend |-> ask'.backend, path |-> ask'.path]
BY OpenAre DEF Opens

\* A handle that is open was opened through what is behind its path.
LEMMA ThroughOpen ==
    ASSUME NEW files, NEW ms, NEW b, Apart(OpenIn(files)),
           NEW f \in OpenIn(files), f.backend = b
    PROVE  ThroughIn(files, ms, b) = BehindIn(ms, f.path)[1]
<1> DEFINE g == CHOOSE h \in files : h.backend = b
<1>1. f \in files /\ b \in Backend
  BY DEF OpenIn
<1>2. g \in files /\ g.backend = b
  BY <1>1
<1>3. g \in OpenIn(files)
  BY <1>1, <1>2 DEF OpenIn
<1>4. g = f
  BY <1>2, <1>3 DEF Apart
<1> QED BY <1>1, <1>4 DEF ThroughIn

\* Another was opened through nothing.
LEMMA ThroughNone ==
    ASSUME NEW files, NEW ms, NEW b \in Backend, \A f \in OpenIn(files) : f.backend # b
    PROVE  ThroughIn(files, ms, b) = None
<1>1. ~ \E f \in files : f.backend = b
  BY DEF OpenIn
<1> QED BY <1>1 DEF ThroughIn

\* The two forms of the same.
LEMMA WaysAre ==
    /\ \A b \in Backend : Ways[b] = ThroughIn(FilesOf(handles, ask, emptied.files), Mounted, b)
    /\ \A b \in Backend :
          Ways'[b] = ThroughIn(FilesOf(handles', ask', emptied'.files), Mounted', b)
<1>1. OpenFiles = FilesOf(handles, ask, emptied.files)
  BY DEF OpenFiles, FilesOf
<1>2. OpenFiles' = FilesOf(handles', ask', emptied'.files)
  BY DEF OpenFiles, FilesOf
<1>3. \A path : Behind(path) = BehindIn(Mounted, path)
  BY DEF Behind, BehindIn
<1>4. \A path : Behind(path)' = BehindIn(Mounted', path)
  BY DEF Behind, BehindIn
<1>5. \A b : Through(b) = ThroughIn(OpenFiles, Mounted, b)
  BY <1>3 DEF Through, ThroughIn
<1>6. \A b : Through(b)' = ThroughIn(OpenFiles', Mounted', b)
  BY <1>4 DEF Through, ThroughIn
<1>7. \A b \in Backend : Ways[b] = Through(b) /\ Ways'[b] = Through(b)'
  BY DEF Ways
<1> QED BY <1>1, <1>2, <1>5, <1>6, <1>7

\* Nothing is opened or closed.
LEMMA WaysKept ==
    ASSUME Apart(Opens), Opens' = Opens, Mounted' = Mounted
    PROVE  Ways' = Ways
<1> SUFFICES ASSUME NEW b \in Backend PROVE Ways'[b] = Ways[b]
  BY DEF Ways
<1> DEFINE before == FilesOf(handles, ask, emptied.files)
           after  == FilesOf(handles', ask', emptied'.files)
<1>1. Opens = OpenIn(before)
  BY DEF Opens
<1>2. Opens' = OpenIn(after)
  BY DEF Opens
<1>3. /\ Ways[b] = ThroughIn(before, Mounted, b)
      /\ Ways'[b] = ThroughIn(after, Mounted', b)
  BY WaysAre
<1> HIDE DEF before, after
<1>4. CASE \E f \in Opens : f.backend = b
  <2>1. PICK f \in Opens : f.backend = b
    BY <1>4
  <2>2. ThroughIn(before, Mounted, b) = BehindIn(Mounted, f.path)[1]
    BY <1>1, <2>1, ThroughOpen
  <2>3. ThroughIn(after, Mounted, b) = BehindIn(Mounted, f.path)[1]
    BY <1>2, <2>1, ThroughOpen
  <2> QED BY <1>3, <2>2, <2>3
<1>5. CASE \A f \in Opens : f.backend # b
  <2>1. ThroughIn(before, Mounted, b) = None
    BY <1>1, <1>5, ThroughNone
  <2>2. ThroughIn(after, Mounted, b) = None
    BY <1>2, <1>5, ThroughNone
  <2> QED BY <1>3, <2>1, <2>2
<1> QED BY <1>4, <1>5

\* A file of f's backend is open now, and was not.
LEMMA WaysOpened ==
    ASSUME Apart(Opens), NEW f, f.backend \in Backend,
           \A g \in Opens : g.backend # f.backend,
           Opens' = Opens \cup {f}, Mounted' = Mounted
    PROVE  /\ Ways[f.backend] = None
           /\ Ways' = [Ways EXCEPT ![f.backend] = BehindIn(Mounted, f.path)[1]]
<1> DEFINE before == FilesOf(handles, ask, emptied.files)
           after  == FilesOf(handles', ask', emptied'.files)
<1>1. Opens = OpenIn(before)
  BY DEF Opens
<1>2. Opens' = OpenIn(after)
  BY DEF Opens
<1>3. Apart(Opens')
  BY DEF Apart
<1>4. \A b \in Backend : /\ Ways[b] = ThroughIn(before, Mounted, b)
                         /\ Ways'[b] = ThroughIn(after, Mounted, b)
  BY WaysAre
<1> HIDE DEF before, after
<1>5. Ways[f.backend] = None
  BY <1>1, <1>4, ThroughNone
<1>6. ASSUME NEW b \in Backend
      PROVE  Ways'[b] = IF b = f.backend THEN BehindIn(Mounted, f.path)[1] ELSE Ways[b]
  <2>1. CASE b = f.backend
    <3>1. f \in Opens'
      OBVIOUS
    <3>2. ThroughIn(after, Mounted, b) = BehindIn(Mounted, f.path)[1]
      BY <1>2, <1>3, <2>1, <3>1, ThroughOpen
    <3> QED BY <1>4, <2>1, <3>2
  <2>2. CASE b # f.backend /\ \E g \in Opens : g.backend = b
    <3>1. PICK g \in Opens : g.backend = b
      BY <2>2
    <3>2. ThroughIn(before, Mounted, b) = BehindIn(Mounted, g.path)[1]
      BY <1>1, <3>1, ThroughOpen
    <3>3. g \in Opens'
      OBVIOUS
    <3>4. ThroughIn(after, Mounted, b) = BehindIn(Mounted, g.path)[1]
      BY <1>2, <1>3, <3>1, <3>3, ThroughOpen
    <3> QED BY <1>4, <2>2, <3>2, <3>4
  <2>3. CASE b # f.backend /\ \A g \in Opens : g.backend # b
    <3>1. ThroughIn(before, Mounted, b) = None
      BY <1>1, <2>3, ThroughNone
    <3>2. \A g \in Opens' : g.backend # b
      BY <2>3
    <3>3. ThroughIn(after, Mounted, b) = None
      BY <1>2, <1>3, <3>2, ThroughNone
    <3> QED BY <1>4, <2>3, <3>1, <3>3
  <2> QED BY <2>1, <2>2, <2>3
<1>7. /\ Ways = [b \in Backend |-> Ways[b]] /\ Ways' = [b \in Backend |-> Ways'[b]]
  BY DEF Ways
<1> QED BY <1>5, <1>6, <1>7

\* The file f is not open any more.
LEMMA WaysClosed ==
    ASSUME Apart(Opens), NEW f \in Opens, Opens' = Opens \ {f}, Mounted' = Mounted
    PROVE  /\ f.backend \in Backend
           /\ Ways[f.backend] = BehindIn(Mounted, f.path)[1]
           /\ Ways' = [Ways EXCEPT ![f.backend] = None]
<1> DEFINE before == FilesOf(handles, ask, emptied.files)
           after  == FilesOf(handles', ask', emptied'.files)
<1>1. Opens = OpenIn(before)
  BY DEF Opens
<1>2. Opens' = OpenIn(after)
  BY DEF Opens
<1>3. Apart(Opens') /\ f.backend \in Backend
  BY <1>1 DEF Apart, OpenIn
<1>4. \A b \in Backend : /\ Ways[b] = ThroughIn(before, Mounted, b)
                         /\ Ways'[b] = ThroughIn(after, Mounted, b)
  BY WaysAre
<1> HIDE DEF before, after
<1>5. Ways[f.backend] = BehindIn(Mounted, f.path)[1]
  BY <1>1, <1>3, <1>4, ThroughOpen
<1>6. ASSUME NEW b \in Backend
      PROVE  Ways'[b] = IF b = f.backend THEN None ELSE Ways[b]
  <2>1. CASE b # f.backend /\ \E g \in Opens : g.backend = b
    <3>1. PICK g \in Opens : g.backend = b
      BY <2>1
    <3>2. ThroughIn(before, Mounted, b) = BehindIn(Mounted, g.path)[1]
      BY <1>1, <3>1, ThroughOpen
    <3>3. g \in Opens'
      BY <2>1, <3>1
    <3>4. ThroughIn(after, Mounted, b) = BehindIn(Mounted, g.path)[1]
      BY <1>2, <1>3, <3>1, <3>3, ThroughOpen
    <3> QED BY <1>4, <2>1, <3>2, <3>4
  <2>2. CASE \A g \in Opens' : g.backend # b
    <3>1. ThroughIn(after, Mounted, b) = None
      BY <1>2, <1>3, <2>2, ThroughNone
    <3>2. CASE b = f.backend
      BY <1>4, <3>1, <3>2
    <3>3. CASE b # f.backend
      <4>1. \A g \in Opens : g.backend # b
        BY <2>2, <3>3
      <4>2. ThroughIn(before, Mounted, b) = None
        BY <1>1, <4>1, ThroughNone
      <4> QED BY <1>4, <3>1, <3>3, <4>2
    <3> QED BY <3>2, <3>3
  <2>3. b = f.backend => \A g \in Opens' : g.backend # b
    BY DEF Apart
  <2>4. (\A g \in Opens : g.backend # b) => \A g \in Opens' : g.backend # b
    OBVIOUS
  <2> QED BY <2>1, <2>2, <2>3, <2>4
<1>7. /\ Ways = [b \in Backend |-> Ways[b]] /\ Ways' = [b \in Backend |-> Ways'[b]]
  BY DEF Ways
<1> QED BY <1>3, <1>5, <1>6, <1>7

\* What is open is a file with a mount, and each backend's handle is open once.
LEMMA OpensAre ==
    ASSUME LoanInv
    PROVE  /\ Apart(Opens)
           /\ \A f \in Opens : /\ f.backend \in Backend /\ f.path \in FilePaths
                               /\ Covering(Mounted, f.path) # {}
<1>1. \A f : f \in Opens <=>
             /\ f.backend \in Backend
             /\ \/ \E n \in Numbers : /\ handles[n] = f
                                      /\ ~(ask.op = "close" /\ ask.backend = None /\ ask.number = n)
                \/ f \in emptied.files
                \/ ask.op = "open" /\ f = [backend |-> ask.backend, path |-> ask.path]
  BY OpenAre DEF Opens
<1> DEFINE opening == [backend |-> ask.backend, path |-> ask.path]
           ByNumber(f) == f # NoFile /\ \E n \in Numbers : handles[n] = f
<1>2. \A f \in Opens : f.backend \in Backend /\ f # NoFile
  BY <1>1, NoFileIs
<1>3. \A f \in Opens : ByNumber(f) \/ f \in emptied.files \/ (ask.op = "open" /\ f = opening)
  BY <1>1, <1>2
<1>4. opening.backend = ask.backend /\ opening.path = ask.path
  OBVIOUS
<1> HIDE DEF opening
<1>5. ASSUME NEW f \in Opens
      PROVE  f.path \in FilePaths /\ Covering(Mounted, f.path) # {}
  <2>1. CASE ByNumber(f)
    BY <2>1, FileIs DEF LoanInv, StorageTypeOK, Reached
  <2>2. CASE f \in emptied.files
    BY <2>2, FileIs DEF LoanInv, StorageTypeOK, Reached
  <2>3. CASE ask.op = "open" /\ f = opening
    BY <2>3, <1>4 DEF LoanInv, Reached
  <2> QED BY <1>3, <2>1, <2>2, <2>3
<1>6. ASSUME NEW f \in Opens, NEW g \in Opens, g.backend = f.backend PROVE g = f
  <2>1. CASE \E h \in Opens : h \in emptied.files
    <3>1. ask = NoAsk /\ \A n \in Numbers : handles[n] = NoFile
      BY <2>1 DEF LoanInv, Stages, MachineRuns
    <3>2. f \in emptied.files /\ g \in emptied.files
      BY <1>3, <3>1, NoAskIs
    <3> QED BY <3>2, <1>6 DEF LoanInv, HandlesApart
  <2>2. CASE \A h \in Opens : h \notin emptied.files
    <3>1. CASE ByNumber(f) /\ ByNumber(g)
      BY <3>1, <1>6 DEF LoanInv, HandlesApart
    <3>2. CASE ask.op = "open" /\ f = opening /\ ByNumber(g)
      BY <3>2, <1>2, <1>4, <1>6, NoFileIs DEF LoanInv, AskMeans
    <3>3. CASE ask.op = "open" /\ g = opening /\ ByNumber(f)
      BY <3>3, <1>2, <1>4, <1>6, NoFileIs DEF LoanInv, AskMeans
    <3>4. CASE f = opening /\ g = opening
      BY <3>4
    <3> QED BY <1>3, <2>2, <3>1, <3>2, <3>3, <3>4
  <2> QED BY <2>1, <2>2
<1> QED BY <1>2, <1>5, <1>6 DEF Apart

\* While the mounts change, no handle is open and nothing is in use.
LEMMA AtRest ==
    /\ Resting => Ways = [b \in Backend |-> None] /\ Using = {}
    /\ Resting' => Ways' = [b \in Backend |-> None] /\ Using' = {}
<1>1. ASSUME Resting PROVE Ways = [b \in Backend |-> None] /\ Using = {}
  <2>1. Opens = {}
    BY <1>1, OpenAre, NoAskIs, NoFileIs DEF Opens, Resting
  <2>2. \A b \in Backend : Ways[b] = None
    <3> DEFINE before == FilesOf(handles, ask, emptied.files)
    <3>1. Opens = OpenIn(before) /\ Apart(Opens)
      BY <2>1 DEF Opens, Apart
    <3>2. \A b \in Backend : Ways[b] = ThroughIn(before, Mounted, b)
      BY WaysAre
    <3> HIDE DEF before
    <3> QED BY <2>1, <3>1, <3>2, ThroughNone
  <2> QED BY <1>1, <2>2, NoAskIs DEF Ways, Using, Resting
<1>2. ASSUME Resting' PROVE Ways' = [b \in Backend |-> None] /\ Using' = {}
  <2>1. Opens' = {}
    BY <1>2, OpenAre, NoAskIs, NoFileIs DEF Opens, Resting
  <2>2. \A b \in Backend : Ways'[b] = None
    <3> DEFINE after == FilesOf(handles', ask', emptied'.files)
    <3>1. Opens' = OpenIn(after) /\ Apart(Opens')
      BY <2>1 DEF Opens, Apart
    <3>2. \A b \in Backend : Ways'[b] = ThroughIn(after, Mounted', b)
      BY WaysAre
    <3> HIDE DEF after
    <3> QED BY <2>1, <3>1, <3>2, ThroughNone
  <2> QED BY <1>2, <2>2, NoAskIs DEF Ways, Using, Resting
<1> QED BY <1>1, <1>2

\* An open handle was opened through an object that is mounted.
LEMMA OpenThrough ==
    ASSUME LoanInv, NEW f \in Opens
    PROVE  /\ Ways[f.backend] = BehindIn(Mounted, f.path)[1]
           /\ Ways[f.backend] \in Objects /\ Ways[f.backend] # None
<1> DEFINE files == FilesOf(handles, ask, emptied.files)
<1>1. Apart(Opens) /\ Opens = OpenIn(files)
  BY OpensAre DEF Opens
<1>2. f.backend \in Backend /\ f.path \in FilePaths /\ Covering(Mounted, f.path) # {}
  BY OpensAre
<1>3. Ways[f.backend] = ThroughIn(files, Mounted, f.backend)
  BY <1>2, WaysAre
<1> HIDE DEF files
<1>4. Ways[f.backend] = BehindIn(Mounted, f.path)[1]
  BY <1>1, <1>3, ThroughOpen
<1>5. PICK m \in Mounted : Behind(f.path) = <<m.object, m.stream>> /\ m.object \in Objects
  BY <1>2, BehindPath DEF LoanInv
<1>6. BehindIn(Mounted, f.path) = Behind(f.path)
  BY DEF Behind, BehindIn
<1> QED BY <1>4, <1>5, <1>6, StorageAssumption

----------------------------------------------------------------------------
\* Each step is one of ObjectLoans, or changes nothing of it

\* Mounting borrows the object and the stream.
LEMMA Borrows ==
    ASSUME LoanInv, NEW m \in Mount, AddMount(m)
    PROVE  Loans!Borrow
<1>1. /\ Resting /\ Resting' /\ phase = "setup" /\ UNCHANGED phase
      /\ held' = [o \in Objects |-> held[o] + Retained(m, o)]
  BY MountStep
<1>2. UNCHANGED <<Ways, Using>>
  BY <1>1, AtRest
<1>3. m.object \in Objects \cup {None} /\ m.stream \in Objects \cup {None}
  BY DEF Mount
<1>4. held' = [x \in Objects |-> held[x] + (IF x = m.object THEN 1 ELSE 0)
                                         + (IF x = m.stream THEN 1 ELSE 0)]
  <2>1. \A x \in Objects : held[x] \in Int
    BY DEF LoanInv, StorageTypeOK
  <2>2. \A x \in Objects : held[x] + Retained(m, x) =
                           held[x] + (IF x = m.object THEN 1 ELSE 0)
                                   + (IF x = m.stream THEN 1 ELSE 0)
    BY <2>1 DEF Retained
  <2> QED BY <1>1, <2>2
<1> QED BY <1>1, <1>2, <1>3, <1>4 DEF Loans!Borrow, Ways

\* Unmounting, and freeing a mount at cleanup, gives them back.
LEMMA Gives ==
    ASSUME LoanInv, NEW m \in Mounted,
           (m \in mounts /\ Unmount(m)) \/ (m \in emptied.mounts /\ CleanupFree(m))
    PROVE  Loans!Return
<1> DEFINE o == m.object
           p == m.stream
           f == [x \in {o, p} \cap Objects |-> Retained(m, x)]
<1>1. /\ Resting /\ Resting' /\ UNCHANGED phase
      /\ held' = Released(m) /\ m \in Mount
      /\ \A x \in Objects : Retained(m, x) <= held[x]
  BY UnmountStep
<1>2. /\ UNCHANGED <<Ways, Using>> /\ Using = {}
      /\ Ways = [b \in Backend |-> None]
  BY <1>1, AtRest
<1>3. o \in Objects \cup {None} /\ p \in Objects \cup {None}
  BY <1>1 DEF Mount
<1>4. f \in [{o, p} \cap Objects -> {1, 2}]
  BY DEF Retained
<1>5. \A x \in DOMAIN f : x \in Objects /\ f[x] <= held[x]
  BY <1>1
<1>6. held' = [x \in Objects |-> IF x \in DOMAIN f THEN held[x] - f[x] ELSE held[x]]
  <2>1. \A x \in Objects : held[x] \in Int
    BY DEF LoanInv, StorageTypeOK
  <2>2. \A x \in Objects : held[x] - Retained(m, x) =
                           IF x \in DOMAIN f THEN held[x] - f[x] ELSE held[x]
    BY <2>1 DEF Retained
  <2> QED BY <1>1, <2>2 DEF Released
<1>7. \A x \in DOMAIN f : x \notin Using /\ \A h \in Backend : Ways[h] # x
  BY <1>2, <1>5, StorageAssumption
<1> DEFINE Returning(x, y, g) ==
              /\ \A z \in DOMAIN g : /\ g[z] <= held[z]
                                     /\ g[z] = held[z] => /\ z \notin Using
                                                          /\ \A h \in Backend : Ways[h] # z
              /\ held' = [z \in Objects |-> IF z \in DOMAIN g THEN held[z] - g[z] ELSE held[z]]
<1> HIDE DEF f, o, p
<1>8. Returning(o, p, f)
  BY <1>5, <1>6, <1>7
<1> HIDE DEF Returning
<1>9. \E x, y \in Objects \cup {None} : \E g \in [{x, y} \cap Objects -> {1, 2}] :
         Returning(x, y, g)
  BY <1>3, <1>4, <1>8
<1> QED BY <1>1, <1>2, <1>9 DEF Loans!Return, Ways, Returning

\* The machine names a path: what is behind it is lent.
LEMMA UsesPath ==
    ASSUME LoanInv, NEW op \in {"open", "path"}, NEW path \in FilePaths, Served(path),
           Calls(op, path, None, None)
    PROVE  LoanInv' /\ Loans!BeginUse
<1> USE DEF Calls, tables
<1>1. LoanInv'
  BY CallStep DEF Served
<1>2. Mounted' = Mounted /\ mounts \subseteq Mounted
  BY DEF Mounted
<1>3. Covering(Mounted, path) # {}
  BY <1>2 DEF Served, Covering
<1>4. PICK m \in Mounted : /\ Behind(path) = <<m.object, m.stream>>
                           /\ m.object \in Objects /\ m.stream \in Objects \cup {None}
  BY <1>3, BehindPath DEF LoanInv
<1>5. Behind(path)' = Behind(path)
  BY <1>2 DEF Behind
<1>6. Using = {}
  BY NoAskIs DEF Using
<1>7. Using' = {m.object, m.stream} \ {None}
  <2>1. /\ ask'.op = op /\ ask'.path = path /\ ask'.backend = None
    OBVIOUS
  <2>2. Using' = {Behind(path)'[1], Behind(path)'[2]} \ {None}
    BY <2>1 DEF Using, Behind
  <2> QED BY <2>2, <1>4, <1>5
<1>8. \A x \in Using' : x \in Objects /\ held[x] > 0
  <2>1. \A x \in Objects : held[x] = References(Mounted, x) /\ IsFiniteSet(Mounted)
    BY DEF LoanInv, Counted
  <2>2. \A x \in Objects : m.object = x \/ m.stream = x => References(Mounted, x) > 0
    BY <2>1, ReferencesAre
  <2> QED BY <1>4, <1>7, <2>1, <2>2
<1>9. Using' # {}
  BY <1>4, <1>7, StorageAssumption
<1>10. Ways' = Ways
  <2>1. \A f : f \in Opens' <=> f \in Opens
    BY OpenAre, NoAskIs, NoFileIs DEF Opens
  <2> QED BY <1>2, <2>1, WaysKept, OpensAre
<1>11. phase # "over" /\ phase' = phase /\ held' = held
  BY DEF MachineRuns
<1>12. Using' \in SUBSET (Objects \cup Backend) /\ Using' \cap Backend = {}
  BY <1>8, StorageAssumption
<1>13. \A o \in Using' \cap Objects : held[o] > 0
  BY <1>8
<1>14. UNCHANGED [b \in Backend |-> Through(b)]
  BY <1>10 DEF Ways
<1> QED BY <1>1, <1>6, <1>9, <1>11, <1>12, <1>13, <1>14
        DEF Loans!BeginUse, Loans!Lent

\* The machine names an open file: its handle is open.
LEMMA UsesHandle ==
    ASSUME LoanInv, NEW op \in {"use", "close"}, NEW n \in Numbers, handles[n] # NoFile,
           Calls(op, handles[n].path, n, handles[n].backend)
    PROVE  LoanInv' /\ Loans!BeginUse
<1> USE DEF Calls, tables
<1>1. /\ handles[n].backend \in Backend /\ handles[n].path \in FilePaths
      /\ handles[n].backend # None
  BY FileIs DEF LoanInv, StorageTypeOK
<1>2. LoanInv' /\ Mounted' = Mounted
  BY <1>1, CallStep DEF Mounted
<1>3. Using = {} /\ Using' = {handles[n].backend}
  BY <1>1, NoAskIs DEF Using
<1>4. \A f : f \in Opens' <=> f \in Opens
  BY <1>1, OpenAre, NoAskIs, NoFileIs DEF Opens
<1>5. Ways' = Ways
  BY <1>2, <1>4, WaysKept, OpensAre
<1>6. handles[n] \in Opens
  BY <1>1, OpenAre, NoAskIs DEF Opens
<1>7. Ways[handles[n].backend] # None
  BY <1>6, OpenThrough
<1>8. phase # "over" /\ phase' = phase /\ held' = held
  BY DEF MachineRuns
<1>9. Using' \in SUBSET (Objects \cup Backend) /\ Using' \cap Objects = {} /\ Using' # {}
  BY <1>1, <1>3, StorageAssumption
<1>10. UNCHANGED [b \in Backend |-> Through(b)]
  BY <1>5 DEF Ways
<1>11. \A h \in Using' \cap Backend : [b \in Backend |-> Through(b)][h] # None
  BY <1>3, <1>7 DEF Ways
<1> QED BY <1>2, <1>3, <1>8, <1>9, <1>10, <1>11
        DEF Loans!BeginUse, Loans!Open

\* The application answers and nothing was opened or closed by it.
LEMMA EndsUse ==
    ASSUME LoanInv, OpenFails \/ StorageAnswer \/ CloseFails
    PROVE  LoanInv' /\ Loans!EndUse
<1> USE DEF OpenFails, StorageAnswer, CloseFails, Returns, tables
<1>1. LoanInv' /\ Mounted' = Mounted /\ UNCHANGED <<phase, held, handles, emptied>>
  BY ReturnStep DEF Mounted
<1>2. \A f : f \in Opens' <=> f \in Opens
  BY OpenAre, NoAskIs, NoFileIs DEF Opens
<1>3. Ways' = Ways
  BY <1>1, <1>2, WaysKept, OpensAre
<1>4. Using' = {}
  BY NoAskIs DEF Using
<1>5. Using # {}
  <2>1. CASE ask.op = "open" \/ ask.op = "path"
    <3>1. ask.path \in FilePaths /\ Covering(Mounted, ask.path) # {}
      BY <2>1 DEF LoanInv, Reached
    <3>2. Behind(ask.path)[1] \in Objects
      BY <3>1, BehindPath DEF LoanInv
    <3>3. Behind(ask.path)[1] \in Using
      BY <2>1, <3>2, StorageAssumption DEF Using
    <3> QED BY <3>3
  <2>2. CASE ask.op = "use" \/ ask.op = "close"
    <3>1. ask.backend # None
      BY <2>2, FileIs DEF LoanInv, AskMeans, StorageTypeOK
    <3>2. Using = {ask.backend}
      BY <2>2, <3>1 DEF Using
    <3> QED BY <3>2
  <2> QED BY <2>1, <2>2
<1> QED BY <1>1, <1>3, <1>4, <1>5 DEF Loans!EndUse, Ways

\* The application opens a handle, through the object behind the path.
LEMMA Opening ==
    ASSUME LoanInv, NEW b \in Backend, OpenSucceeds(b)
    PROVE  LoanInv' /\ Loans!OpenHandle
<1> USE DEF OpenSucceeds, tables
<1> DEFINE f == [backend |-> b, path |-> ask.path]
<1>1. LoanInv' /\ Mounted' = Mounted /\ UNCHANGED <<phase, held, handles, emptied>>
  BY OpenedStep DEF Mounted
<1>2. f.backend = b /\ f.path = ask.path /\ b # None
  BY StorageAssumption
<1>3. ask.path \in FilePaths /\ Covering(Mounted, ask.path) # {}
  BY DEF LoanInv, Reached
<1>4. PICK m \in Mounted : Behind(ask.path) = <<m.object, m.stream>> /\ m.object \in Objects
  BY <1>3, BehindPath DEF LoanInv
<1>5. BehindIn(Mounted, ask.path) = Behind(ask.path)
  BY DEF Behind, BehindIn
<1>6. m.object \in Using
  BY <1>4, StorageAssumption DEF Using
<1>7. Using' = {}
  <2>1. ask'.op = "open" /\ ask'.backend = b
    BY DEF LoanInv, StorageTypeOK
  <2> QED BY <1>2, <2>1 DEF Using
<1>8. emptied.files = {}
  BY NoAskIs DEF LoanInv, Stages, MachineRuns
<1>9. /\ ask'.op = "open" /\ ask'.backend = b /\ ask'.path = ask.path
      /\ ask'.number = ask.number
  BY DEF LoanInv, StorageTypeOK
<1>10. \A g : g \in Opens' <=> g \in Opens \/ g = f
  <2>1. \A g : g \in Opens <=> g.backend \in Backend /\ \E n \in Numbers : handles[n] = g
    BY <1>8, OpensMean, NoFileIs
  <2>2. \A g : g \in Opens' <=> /\ g.backend \in Backend
                                /\ (\E n \in Numbers : handles[n] = g) \/ g = f
    BY <1>1, <1>8, <1>9, OpensMean
  <2> QED BY <1>2, <2>1, <2>2
<1>11. \A g \in Opens : g.backend # b
  BY <1>2, <1>8, OpenAre DEF Opens, Known
<1> HIDE DEF f
<1>12. Ways[b] = None /\ Ways' = [Ways EXCEPT ![b] = m.object]
  <2>1. Opens' = Opens \cup {f}
    BY <1>10
  <2>2. /\ Ways[f.backend] = None
        /\ Ways' = [Ways EXCEPT ![f.backend] = BehindIn(Mounted, f.path)[1]]
    BY <1>1, <1>2, <1>11, <2>1, OpensAre, WaysOpened
  <2>3. BehindIn(Mounted, ask.path)[1] = m.object
    BY <1>4, <1>5
  <2> QED BY <1>2, <2>2, <2>3
<1>13. \E h \in Backend, o \in Using \cap Objects :
          Ways[h] = None /\ Ways' = [Ways EXCEPT ![h] = o]
  BY <1>4, <1>6, <1>12
<1> QED BY <1>1, <1>7, <1>13 DEF Loans!OpenHandle, Loans!Open, Ways

\* It closes one that is open, ...
LEMMA Closing ==
    ASSUME LoanInv, CloseSucceeds
    PROVE  LoanInv' /\ Loans!CloseHandle
<1> USE DEF CloseSucceeds, tables
<1> DEFINE f == handles[ask.number]
<1>1. LoanInv' /\ Mounted' = Mounted /\ UNCHANGED <<phase, held, handles, emptied>>
  BY ClosedStep DEF Mounted
<1>2. /\ ask.number \in Numbers /\ f # NoFile /\ ask.backend = f.backend
      /\ f.backend \in Backend /\ f.backend # None
  BY FileIs DEF LoanInv, AskMeans, StorageTypeOK
<1>3. /\ ask'.op = "close" /\ ask'.backend = None /\ ask'.number = ask.number
  BY DEF LoanInv, StorageTypeOK
<1>4. emptied.files = {}
  BY NoAskIs DEF LoanInv, Stages, MachineRuns
<1>5. f \in Opens
  BY <1>2, OpenAre DEF Opens
<1>6. \A g : g \in Opens' <=> g \in Opens /\ g # f
  <2>1. \A g : g \in Opens <=> g.backend \in Backend /\ \E n \in Numbers : handles[n] = g
    BY <1>2, <1>4, OpenAre DEF Opens
  <2>2. \A g : g \in Opens' <=> /\ g.backend \in Backend
                                /\ \E n \in Numbers : handles[n] = g /\ n # ask.number
    BY <1>1, <1>3, <1>4, OpensMean
  <2>3. \A n \in Numbers : handles[n] = f => n = ask.number
    BY <1>2 DEF LoanInv, HandlesApart
  <2> QED BY <2>1, <2>2, <2>3
<1> HIDE DEF f
<1>7. Ways' = [Ways EXCEPT ![f.backend] = None]
  <2>1. Opens' = Opens \ {f}
    BY <1>6
  <2> QED BY <1>1, <1>5, <2>1, OpensAre, WaysClosed
<1>8. Ways[f.backend] # None
  BY <1>5, OpenThrough
<1>9. Using' = {}
  BY <1>3 DEF Using
<1>10. \E h \in Backend : Ways[h] # None /\ Ways' = [Ways EXCEPT ![h] = None]
  BY <1>2, <1>7, <1>8
<1> QED BY <1>1, <1>9, <1>10 DEF Loans!CloseHandle, Loans!Open, Ways

\* ... and so does cleanup.
LEMMA ClosingAtCleanup ==
    ASSUME LoanInv, NEW f \in emptied.files, CleanupClose(f)
    PROVE  LoanInv' /\ Loans!CloseHandle
<1>1. /\ LoanInv' /\ Mounted' = Mounted /\ ask = NoAsk
      /\ UNCHANGED <<handles, ask, held, phase>>
      /\ emptied'.files = emptied.files \ {f}
  BY CloseAllStep
<1>2. \A n \in Numbers : handles[n] = NoFile
  BY DEF LoanInv, Stages
<1>3. f.backend \in Backend
  BY FileIs DEF LoanInv, Reached, StorageTypeOK
<1>4. \A g : g \in Opens <=> g.backend \in Backend /\ g \in emptied.files
  BY <1>1, <1>2, OpenAre, NoAskIs, NoFileIs DEF Opens
<1>5. \A g : g \in Opens' <=> g.backend \in Backend /\ g \in emptied.files /\ g # f
  BY <1>1, <1>2, OpenAre, NoAskIs, NoFileIs DEF Opens
<1>6. f \in Opens /\ Opens' = Opens \ {f}
  BY <1>3, <1>4, <1>5
<1>7. Ways' = [Ways EXCEPT ![f.backend] = None]
  BY <1>1, <1>6, OpensAre, WaysClosed
<1>8. Ways[f.backend] # None
  BY <1>6, OpenThrough
<1>9. Using' = {}
  BY <1>1, NoAskIs DEF Using
<1>10. \E h \in Backend : Ways[h] # None /\ Ways' = [Ways EXCEPT ![h] = None]
  BY <1>3, <1>7, <1>8
<1> QED BY <1>1, <1>9, <1>10 DEF Loans!CloseHandle, Loans!Open, Ways

\* The steps the application sees nothing of.
LEMMA Unseen ==
    ASSUME LoanInv,
           RegisterStorage \/ InitBegin \/ InitFinish \/ QemuCleanup \/ Publish \/ CloseRemove
             \/ CleanupTake
    PROVE  LoanInv' /\ UNCHANGED Loans!vars
<1>1. CASE RegisterStorage \/ InitBegin \/ InitFinish \/ QemuCleanup
  <2>1. LoanInv' /\ UNCHANGED <<handles, ask, emptied, held, mounts>>
    BY <1>1, MovingOn DEF RegisterStorage, InitBegin, InitFinish, QemuCleanup, tables
  <2>2. Mounted' = Mounted /\ Using' = Using
    BY <2>1 DEF Mounted, Using, Behind
  <2>3. Opens' = Opens
    BY <2>1 DEF Opens
  <2>4. Ways' = Ways
    BY <2>2, <2>3, WaysKept, OpensAre
  <2> QED BY <1>1, <2>1, <2>2, <2>4 DEF Loans!vars, Ways, RegisterStorage, InitBegin,
                                       InitFinish, QemuCleanup
<1>2. CASE Publish
  <2>1. LoanInv'
    BY <1>2, PublishStep
  <2>2. PICK n \in Numbers :
           /\ handles[n] = NoFile /\ ask' = NoAsk
           /\ handles' = [handles EXCEPT ![n] = [backend |-> ask.backend, path |-> ask.path]]
    BY <1>2, PublishStep
  <2>3. /\ ask.op = "open" /\ ask.backend # None
        /\ UNCHANGED <<phase, mounts, emptied, held>>
    BY <1>2 DEF Publish, Returns
  <2>4. Mounted' = Mounted /\ Using' = {} /\ Using = {}
    BY <2>2, <2>3, NoAskIs DEF Mounted, Using
  <2>5. \A k \in Numbers : handles'[k] = IF k = n THEN [backend |-> ask.backend, path |-> ask.path]
                                         ELSE handles[k]
    BY <2>2 DEF LoanInv, StorageTypeOK
  <2>6. \A f : f \in Opens' <=> f \in Opens
    <3> DEFINE file == [backend |-> ask.backend, path |-> ask.path]
    <3>1. \A f : f \in Opens <=> /\ f.backend \in Backend
                                 /\ \/ \E k \in Numbers : handles[k] = f
                                    \/ f \in emptied.files
                                    \/ f = file
      BY <2>3, OpensMean
    <3>2. \A f : f \in Opens' <=> /\ f.backend \in Backend
                                  /\ \/ \E k \in Numbers : handles'[k] = f
                                     \/ f \in emptied.files
      BY <2>2, <2>3, NoAskIs, OpensMean
    <3>3. \A f : f.backend \in Backend => f # NoFile
      BY NoFileIs
    <3> HIDE DEF file
    <3>4. \A k \in Numbers : handles'[k] = IF k = n THEN file ELSE handles[k]
      BY <2>5 DEF file
    <3> QED BY <2>2, <3>1, <3>2, <3>3, <3>4
  <2>7. Ways' = Ways
    BY <2>4, <2>6, WaysKept, OpensAre
  <2> QED BY <2>1, <2>3, <2>4, <2>7 DEF Loans!vars, Ways
<1>3. CASE CloseRemove
  <2>1. /\ LoanInv' /\ ask.number \in Numbers
        /\ \A k \in Numbers : handles'[k] = IF k = ask.number THEN NoFile ELSE handles[k]
    BY <1>3, RemoveStep
  <2>2. /\ ask.op = "close" /\ ask.backend = None /\ ask' = NoAsk
        /\ UNCHANGED <<phase, mounts, emptied, held>>
    BY <1>3 DEF CloseRemove, Returns
  <2>3. Mounted' = Mounted /\ Using' = {} /\ Using = {}
    BY <2>2, NoAskIs DEF Mounted, Using
  <2>4. \A f : f \in Opens' <=> f \in Opens
    BY <2>1, <2>2, OpenAre, NoAskIs, NoFileIs DEF Opens
  <2>5. Ways' = Ways
    BY <2>3, <2>4, WaysKept, OpensAre
  <2> QED BY <2>1, <2>2, <2>3, <2>5 DEF Loans!vars, Ways
<1>4. CASE CleanupTake
  <2>1. /\ LoanInv' /\ Mounted' = Mounted /\ ask = NoAsk /\ UNCHANGED <<ask, held>>
        /\ emptied.files = {} /\ \A n \in Numbers : handles'[n] = NoFile
        /\ emptied'.files = {handles[n] : n \in Numbers} \ {NoFile}
    BY <1>4, TakeStep
  <2>2. Using' = {} /\ Using = {}
    BY <2>1, NoAskIs DEF Using
  <2>3. \A f : f \in Opens' <=> f \in Opens
    BY <2>1, OpenAre, NoAskIs, NoFileIs DEF Opens
  <2>4. Ways' = Ways
    BY <2>1, <2>3, WaysKept, OpensAre
  <2> QED BY <1>4, <2>1, <2>2, <2>4 DEF Loans!vars, Ways, CleanupTake
<1> QED BY <1>1, <1>2, <1>3, <1>4

\* Cleanup begins, and ends with nothing lent and nothing open.
LEMMA BeginsAndEnds ==
    ASSUME LoanInv, CleanupBegin \/ CleanupEnd
    PROVE  LoanInv' /\ (Loans!BeginClosing \/ Loans!Finish)
<1>1. CASE CleanupBegin
  <2>1. LoanInv' /\ UNCHANGED <<handles, ask, emptied, held, mounts>>
    BY <1>1, MovingOn DEF CleanupBegin, tables
  <2>2. Mounted' = Mounted /\ Using' = Using
    BY <2>1 DEF Mounted, Using, Behind
  <2>3. Opens' = Opens
    BY <2>1 DEF Opens
  <2>4. Ways' = Ways
    BY <2>2, <2>3, WaysKept, OpensAre
  <2> QED BY <1>1, <2>1, <2>2, <2>4 DEF Loans!BeginClosing, Ways, CleanupBegin
<1>2. CASE CleanupEnd
  <2>1. LoanInv' /\ Resting /\ Mounted = {}
    BY <1>2, EndStep
  <2>2. Resting' /\ UNCHANGED held
    BY <1>2, <2>1 DEF CleanupEnd, Resting
  <2>3. /\ Ways = [b \in Backend |-> None] /\ Using = {}
        /\ Ways' = [b \in Backend |-> None] /\ Using' = {}
    BY <2>1, <2>2, AtRest
  <2>4. \A o \in Objects : held[o] = 0
    BY <2>1, ReferencesAre DEF LoanInv, Counted
  <2>5. phase = "closing" /\ phase' = "over"
    BY <1>2 DEF CleanupEnd
  <2>6. \A b \in Backend : Ways[b] = None
    BY <2>3
  <2> QED BY <2>1, <2>2, <2>3, <2>4, <2>5, <2>6 DEF Loans!Finish, Loans!Lent, Loans!Open, Ways
<1> QED BY <1>1, <1>2

\* Every step keeps the invariant and is allowed by ObjectLoans.
LEMMA LoanStep ==
    ASSUME LoanInv, [StorageNext]_storageVars
    PROVE  LoanInv' /\ [Loans!Next]_Loans!vars
<1> USE DEF Loans!Next
<1>1. CASE Application
  <2>1. CASE RegisterStorage \/ InitBegin \/ InitFinish \/ QemuCleanup
    BY <2>1, Unseen
  <2>2. CASE \E m \in Mount : AddMount(m)
    BY <2>2, Borrows, MountStep
  <2>3. CASE \E m \in mounts : Unmount(m)
    <3>1. PICK m \in mounts : Unmount(m)
      BY <2>3
    <3>2. m \in Mounted
      BY DEF Mounted
    <3> QED BY <3>1, <3>2, Gives, UnmountStep
  <2>4. CASE CleanupBegin
    BY <2>4, BeginsAndEnds
  <2> QED BY <1>1, <2>1, <2>2, <2>3, <2>4 DEF Application
<1>2. CASE Cleanup
  <2>1. CASE CleanupTake
    BY <2>1, Unseen
  <2>2. CASE \E f \in emptied.files : CleanupClose(f)
    BY <2>2, ClosingAtCleanup
  <2>3. CASE \E m \in emptied.mounts : CleanupFree(m)
    <3>1. PICK m \in emptied.mounts : CleanupFree(m)
      BY <2>3
    <3>2. m \in Mounted
      BY DEF Mounted
    <3> QED BY <3>1, <3>2, Gives, UnmountStep
  <2>4. CASE CleanupEnd
    BY <2>4, BeginsAndEnds
  <2> QED BY <1>2, <2>1, <2>2, <2>3, <2>4 DEF Cleanup
<1>3. CASE Asks
  <2>1. CASE \E path \in FilePaths : OpenFile(path) \/ Stat(path)
    BY <2>1, UsesPath DEF OpenFile, Stat
  <2>2. CASE \E path \in FilePaths : \E op \in NameOps \cup TreeOps : FolderCall(op, path)
    BY <2>2, UsesPath DEF FolderCall
  <2>3. CASE \E old, new \in FilePaths : Rename(old, new)
    BY <2>3, UsesPath DEF Rename
  <2>4. CASE \E n \in Numbers : UseFile(n) \/ CloseFile(n)
    BY <2>4, UsesHandle DEF UseFile, CloseFile
  <2> QED BY <1>3, <2>1, <2>2, <2>3, <2>4 DEF Asks
<1>4. CASE Answers
  <2>1. CASE OpenFails \/ StorageAnswer \/ CloseFails
    BY <2>1, EndsUse
  <2>2. CASE Publish \/ CloseRemove
    BY <2>2, Unseen
  <2>3. CASE \E b \in Backend : OpenSucceeds(b)
    BY <2>3, Opening
  <2>4. CASE CloseSucceeds
    BY <2>4, Closing
  <2> QED BY <1>4, <2>1, <2>2, <2>3, <2>4 DEF Answers
<1>5. CASE UNCHANGED storageVars
  <2>1. LoanInv'
    BY <1>5 DEF storageVars, tables, LoanInv, StorageTypeOK, Counted, HandlesApart, AskMeans,
                Reached, Stages, MachineRuns, Mounted
  <2>2. UNCHANGED Loans!vars
    BY <1>5 DEF storageVars, tables, Loans!vars, Through, OpenFiles, Behind, Mounted, Using
  <2> QED BY <2>1, <2>2
<1> QED BY <1>1, <1>2, <1>3, <1>4, <1>5 DEF StorageNext

\* Brokered storage implements ObjectLoans: it uses an object or a handle only
\* while that is lent or open, opens handles through lent objects, releases what
\* it retained once, and ends only when everything went back.
THEOREM LoansKeptHolds == StorageSpec => LoansKept
<1>1. StorageInit => LoanInv
  BY LoanInvInit
<1>2. LoanInv /\ [StorageNext]_storageVars => LoanInv' /\ [Loans!Next]_Loans!vars
  BY LoanStep
<1>3. StorageInit => Loans!Init
  <2> SUFFICES ASSUME StorageInit PROVE Loans!Init
    OBVIOUS
  <2>1. Resting
    BY DEF StorageInit, Resting
  <2>2. Ways = [b \in Backend |-> None] /\ Using = {}
    BY <2>1, AtRest
  <2> QED BY <2>2 DEF Loans!Init, Ways, StorageInit
<1> QED BY <1>1, <1>2, <1>3, PTL DEF StorageSpec, LoansKept, Loans!Spec
=============================================================================

----------------------------- MODULE ObjectLoans -----------------------------
(***************************************************************************)
(* What the brokered storage promises the application.  The application     *)
(* lends objects (files, folders, streams) and, through them, handles.      *)
(* An object or a handle is used only while it is lent, every reference is  *)
(* given back once, an object never before the handles opened through it,   *)
(* and in the end everything has been given back.                           *)
(***************************************************************************)
EXTENDS Naturals

CONSTANTS Objects, Handles, None

VARIABLES
    loans,    \* how many references to an object are lent
    through,  \* the object a handle was opened through, None when it is not open
    using,    \* the objects and handles in use
    closing,  \* the borrower has begun to give everything back
    over      \* and has done so

vars == <<loans, through, using, closing, over>>

Lent(o) == loans[o] > 0
Open(h) == through[h] # None

Init ==
    /\ loans = [o \in Objects |-> 0]
    /\ through = [h \in Handles |-> None]
    /\ using = {} /\ closing = FALSE /\ over = FALSE

Borrow ==
    /\ ~closing
    /\ \E o, p \in Objects \cup {None} :
         loans' = [x \in Objects |-> loans[x] + (IF x = o THEN 1 ELSE 0)
                                              + (IF x = p THEN 1 ELSE 0)]
    /\ UNCHANGED <<through, using, closing, over>>

\* An object whose last references go back is neither in use nor behind a handle.
Return ==
    /\ \E o, p \in Objects \cup {None} :
         \E f \in [{o, p} \cap Objects -> {1, 2}] :
           /\ \A x \in DOMAIN f : /\ f[x] <= loans[x]
                                  /\ f[x] = loans[x] =>
                                       /\ x \notin using
                                       /\ \A h \in Handles : through[h] # x
           /\ loans' = [x \in Objects |-> IF x \in DOMAIN f THEN loans[x] - f[x]
                                                            ELSE loans[x]]
    /\ UNCHANGED <<through, using, closing, over>>

BeginUse ==
    /\ using = {} /\ ~over
    /\ using' \in (SUBSET (Objects \cup Handles)) \ {{}}
    /\ \A o \in using' \cap Objects : Lent(o)
    /\ \A h \in using' \cap Handles : Open(h)
    /\ UNCHANGED <<loans, through, closing, over>>

EndUse == /\ using # {} /\ using' = {}
          /\ UNCHANGED <<loans, through, closing, over>>

OpenHandle ==
    /\ \E h \in Handles, o \in using \cap Objects :
         /\ ~Open(h)
         /\ through' = [through EXCEPT ![h] = o]
    /\ using' = {}
    /\ UNCHANGED <<loans, closing, over>>

\* A handle is closed once: it must be open.
CloseHandle ==
    /\ \E h \in Handles : /\ Open(h)
                          /\ through' = [through EXCEPT ![h] = None]
    /\ using' = {}
    /\ UNCHANGED <<loans, closing, over>>

BeginClosing == /\ ~closing /\ closing' = TRUE
                /\ UNCHANGED <<loans, through, using, over>>

Finish ==
    /\ closing /\ ~over /\ using = {}
    /\ \A o \in Objects : ~Lent(o)
    /\ \A h \in Handles : ~Open(h)
    /\ over' = TRUE
    /\ UNCHANGED <<loans, through, using, closing>>

Next == \/ Borrow \/ Return \/ BeginUse \/ EndUse \/ OpenHandle \/ CloseHandle
        \/ BeginClosing \/ Finish

Spec == Init /\ [][Next]_vars

\* Once the borrower begins to close, everything is given back in the end.
AllReturned == closing ~> over /\ \A o \in Objects : ~Lent(o)
=============================================================================

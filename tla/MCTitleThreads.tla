---------------------------- MODULE MCTitleThreads ----------------------------
(***************************************************************************)
(* One run for loading a title, for the scheduler of the threads it then has, *)
(* and for the data it saves.  None of the three knows of the others: a      *)
(* behaviour is about one of them and the others stay as they began.        *)
(***************************************************************************)
EXTENDS MCGuestScheduler, ModuleLoader, SaveData

File(pages, tls, imports, weak, exports) ==
    [pages |-> pages, tls |-> tls, imports |-> imports, weak |-> weak,
     exports |-> exports, sound |-> TRUE]
Game == File(1, TRUE, {"malloc", "gnm"}, {}, {})
MCKinds ==
    {Game,
     File(1, TRUE, {}, {}, {"malloc", "free"}),        \* a libc
     File(2, FALSE, {"malloc", "free"}, {"free"}, {}), \* a library that uses it
     File(1, FALSE, {"thing"}, {"thing"}, {}),
     File(1, FALSE, {"thing"}, {}, {}),                \* may stay unresolved
     File(1, FALSE, {}, {}, {"thing", "gnm"}),
     [Game EXCEPT !.sound = FALSE]}
MCMarked == [x \in {"a"} \X Marks |-> IF x[2] = "tmp" THEN "a.tmp" ELSE "a.old"]
MCListing == <<"Media/codec.prx", "libc.prx">>
SmallTitle == [file \in Files |-> IF file = Main THEN Game ELSE Missing]

VARIABLE part  \* the part this behaviour uses

parts == <<part, vars, loaderVars, saveVars>>

\* One thread at most is kept off the two workers.
FewPinned == \E t \in Threads : \A u \in Threads \ {t} : affinity[u] = TwoWorkers

PartsInit == /\ part \in {"threads", "loading", "saves", "memory"}
             /\ Init /\ FewPinned /\ LoaderInit /\ SaveInit
             /\ part # "loading" => title = SmallTitle
             /\ part # "threads" => \A t \in Threads : affinity[t] = TwoWorkers

Threading == part = "threads" /\ UNCHANGED <<part, loaderVars, saveVars>>
Loading   == part = "loading" /\ UNCHANGED <<part, vars, saveVars>>
Saving    == part = "saves" /\ UNCHANGED <<part, vars, loaderVars, memories>>
Keeping   == /\ part = "memory"
             /\ UNCHANGED <<part, vars, loaderVars, copies, mounted>>

PartsNext == \/ Threading /\ Next /\ FewPinned'
             \/ Loading /\ LoaderNext
             \/ (Saving \/ Keeping) /\ SaveNext

PartsSpec == PartsInit /\ [][PartsNext]_parts
=============================================================================

--------------------------- MODULE GuestFilesProofs ---------------------------
(***************************************************************************)
(* Proofs about GuestFiles: the types, and the four properties of handles,  *)
(* local pairs, the process's socket and sleeping receivers, for any number *)
(* of descriptors, threads, handles and bytes.  What a host call does to    *)
(* the table is described once (TableStep), so that the properties of the   *)
(* sockets need one lemma for all of them.                                  *)
(*                                                                          *)
(* Then proofs about LibraryObjects: no handle is lost, and owners live, for *)
(* any number of slots.  All but four of its calls are plain (Plain): they   *)
(* make one object, delete some with all below them, or do neither.  Last,  *)
(* what slots and ended libraries pass on: nothing (ObjectsWhole).          *)
(***************************************************************************)
EXTENDS GuestFiles, LibraryObjects, TLAPS

\* NoSleepOnData with what it rests on: a careful program waits in the calls
\* of its family only, on sockets that are open, one thread on each.
CarefulWaits ==
    Careful => \A t \in Thread : waits[t] # NoWait =>
        /\ waits[t].family = style
        /\ files[waits[t].fd] = "local"
        /\ queue[waits[t].fd] <= 0
        /\ \A u \in Thread \ {t} : waits[u].fd # waits[t].fd

\* The process has its socket while it has another end for it.
TiedToParent == tied # NoFd => parent # NoFd

\* What a host call does: free descriptors get kinds other than local.
TableStep ==
    /\ \A fd \in Fd : files'[fd] # files[fd] => files[fd] = "free" /\ files'[fd] # "local"
    /\ UNCHANGED <<style, sockets, process, cleanupDone>>

\* Lowest picks members of a set of numbers, and not two of them.
LEMMA LowestLemma ==
    ASSUME NEW S, S \subseteq Nat
    PROVE  Lowest(S) \subseteq S /\ \A x, y \in Lowest(S) : x = y
  BY DEF Lowest

\* The lowest free descriptors are free descriptors.
LEMMA LowestFree ==
    ASSUME NEW S, S \subseteq Free
    PROVE  Lowest(S) \subseteq Free /\ \A x, y \in Lowest(S) : x = y
  BY LowestLemma, FilesAssumption DEF Free

----------------------------------------------------------------------------
\* The types

\* Adopt keeps the types of the table and of the application's handles, and
\* it is a step of the table.
LEMMA AdoptTyped ==
    ASSUME TypeOK, NEW kind \in HostKinds, NEW h \in Fresh,
           NEW fails \in BOOLEAN, NEW refused \in SUBSET {h},
           Adopt(kind, h, fails, refused),
           UNCHANGED <<style, sockets, process, cleanupDone>>
    PROVE  TypeOK' /\ TableStep
  <1> DEFINE to == IF fails THEN {} ELSE Lowest(Free)
  <1>1. to \subseteq Free
    BY LowestFree
  <1>2. /\ files' = [fd \in Fd |-> IF fd \in to THEN kind ELSE files[fd]]
        /\ handles' = [fd \in Fd |-> IF fd \in to THEN h ELSE handles[fd]]
    BY DEF Adopt, Entered
  <1>3. excused' \subseteq opened' /\ opened' \subseteq Handle
    BY DEF Adopt, LeavesOpen, TypeOK, Fresh
  <1> HIDE DEF to
  <1>4. files' \in [Fd -> Kinds] /\ handles' \in [Fd -> Handle \cup {NoHandle}]
    BY <1>2 DEF TypeOK, Kinds, Fresh
  <1>5. \A fd \in Fd : handles'[fd] # NoHandle <=> files'[fd] \in HostKinds
    BY <1>1, <1>2, FilesAssumption DEF TypeOK, Fresh, HostKinds
  <1>6. TableStep
    BY <1>1, <1>2 DEF TableStep, Free, HostKinds, TypeOK
  <1> QED
    BY <1>3, <1>4, <1>5, <1>6 DEF TypeOK, sockets, process

\* So does SOCKET_PAIR with a pair of the application.
LEMMA SocketPairTyped ==
    ASSUME TypeOK, NEW h \in Fresh, NEW g \in Fresh \ {h},
           NEW fails \in BOOLEAN, NEW refused \in SUBSET {h, g},
           SocketPair(h, g, fails, refused)
    PROVE  TypeOK' /\ TableStep
  <1> DEFINE first  == Lowest(Free)
             second == Lowest(Free \ first)
             kept   == IF second # {} /\ ~fails THEN {h, g} ELSE {h, g} \cap refused
             one    == IF h \in kept THEN first ELSE {}
             other  == IF g \in kept THEN second ELSE {}
  <1>1. one \subseteq Free /\ other \subseteq Free
    BY LowestFree
  <1>2. /\ files' = [fd \in Fd |->
                       IF fd \in one \cup other THEN "network" ELSE files[fd]]
        /\ handles' = [fd \in Fd |-> IF fd \in one THEN h
                                     ELSE IF fd \in other THEN g ELSE handles[fd]]
        /\ LeavesOpen(kept, {x \in kept : IF x = h THEN one = {} ELSE other = {}})
        /\ UNCHANGED <<style, sockets, process, cleanupDone>>
    BY DEF SocketPair
  <1>3. kept \subseteq Handle
    BY DEF Fresh
  <1> HIDE DEF one, other, kept
  <1>4. excused' \subseteq opened' /\ opened' \subseteq Handle
    BY <1>2, <1>3 DEF LeavesOpen, TypeOK
  <1>5. files' \in [Fd -> Kinds] /\ handles' \in [Fd -> Handle \cup {NoHandle}]
    BY <1>2 DEF TypeOK, Kinds, HostKinds, Fresh
  <1>6. \A fd \in Fd : handles'[fd] # NoHandle <=> files'[fd] \in HostKinds
    BY <1>1, <1>2, FilesAssumption DEF TypeOK, Fresh, HostKinds
  <1>7. TableStep
    BY <1>1, <1>2 DEF TableStep, Free, TypeOK
  <1> QED
    BY <1>2, <1>4, <1>5, <1>6, <1>7 DEF TypeOK, sockets, process

\* And the virtual devices.
LEMMA OpenDeviceTyped ==
    ASSUME TypeOK, OpenDevice
    PROVE  TypeOK' /\ TableStep
  <1>1. Lowest(Free) \subseteq Free
    BY LowestFree
  <1>2. /\ files' = [fd \in Fd |-> IF fd \in Lowest(Free) THEN "device" ELSE files[fd]]
        /\ handles' = [fd \in Fd |-> IF fd \in Lowest(Free) THEN NoHandle ELSE handles[fd]]
        /\ UNCHANGED <<style, sockets, process, cleanupDone, appSide>>
    BY DEF OpenDevice, Entered
  <1>3. files' \in [Fd -> Kinds] /\ handles' \in [Fd -> Handle \cup {NoHandle}]
    BY <1>2 DEF TypeOK, Kinds
  <1>4. \A fd \in Fd : handles'[fd] # NoHandle <=> files'[fd] \in HostKinds
    BY <1>1, <1>2 DEF TypeOK, HostKinds
  <1>5. TableStep
    BY <1>1, <1>2 DEF TableStep, Free, TypeOK
  <1> QED
    BY <1>2, <1>3, <1>4, <1>5 DEF TypeOK, sockets, process, appSide

\* Every host call is a step of the table and keeps the types.
LEMMA HostCallTyped ==
    ASSUME TypeOK, HostCalls
    PROVE  TypeOK' /\ TableStep
  <1>1. CASE OpenDevice
    BY <1>1, OpenDeviceTyped
  <1>2. CASE \E h \in Fresh : \E refused \in SUBSET {h} :
               \/ OpenStorage(h, refused) \/ Socket(h, refused)
               \/ \E fails \in BOOLEAN : Accept(h, fails, refused)
    <2>1. PICK h \in Fresh : \E refused \in SUBSET {h} :
               \/ OpenStorage(h, refused) \/ Socket(h, refused)
               \/ \E fails \in BOOLEAN : Accept(h, fails, refused)
      BY <1>2
    <2>2. PICK refused \in SUBSET {h} :
               \/ OpenStorage(h, refused) \/ Socket(h, refused)
               \/ \E fails \in BOOLEAN : Accept(h, fails, refused)
      BY <2>1
    <2>3. PICK kind \in HostKinds, fails \in BOOLEAN :
               /\ Adopt(kind, h, fails, refused)
               /\ UNCHANGED <<style, sockets, process, cleanupDone>>
      BY <2>2 DEF OpenStorage, Socket, Accept, HostKinds
    <2> QED
      BY <2>3, AdoptTyped
  <1>3. CASE \E h \in Fresh : \E g \in Fresh \ {h} : \E refused \in SUBSET {h, g} :
               \E fails \in BOOLEAN : SocketPair(h, g, fails, refused)
    BY <1>3, SocketPairTyped
  <1> QED
    BY <1>1, <1>2, <1>3 DEF HostCalls

\* The other actions keep the types.
LEMMA TypeStep == TypeOK /\ [Next]_vars => TypeOK'
  <1> SUFFICES ASSUME TypeOK, [Next]_vars PROVE TypeOK'
    OBVIOUS
  <1>1. CASE HostCalls
    BY <1>1, HostCallTyped
  <1>2. ASSUME NEW fails \in BOOLEAN, LocalPair(fails) PROVE TypeOK'
    <2>1. PICK first \in Lowest(Free) : \E second \in Lowest(Free \ {first}) :
              /\ files' = [files EXCEPT ![first] = "local", ![second] = "local"]
              /\ peers' = [peers EXCEPT ![first] = second, ![second] = first]
              /\ queue' = [queue EXCEPT ![first] = 0, ![second] = 0]
              /\ UNCHANGED <<style, handles, waits, process, cleanupDone, appSide>>
      BY <1>2 DEF LocalPair
    <2>2. PICK second \in Lowest(Free \ {first}) :
              /\ files' = [files EXCEPT ![first] = "local", ![second] = "local"]
              /\ peers' = [peers EXCEPT ![first] = second, ![second] = first]
              /\ queue' = [queue EXCEPT ![first] = 0, ![second] = 0]
              /\ UNCHANGED <<style, handles, waits, process, cleanupDone, appSide>>
      BY <2>1
    <2>3. first \in Free /\ second \in Free
      BY LowestFree
    <2>4. files' \in [Fd -> Kinds] /\ peers' \in [Fd -> Fd \cup {NoFd}]
      BY <2>2, <2>3 DEF TypeOK, Kinds, Free
    <2>5. queue' \in [Fd -> NoQueue .. MaxQueue]
      BY <2>2, <2>3, FilesAssumption DEF TypeOK, Free, NoQueue
    <2>6. \A fd \in Fd : handles'[fd] # NoHandle <=> files'[fd] \in HostKinds
      BY <2>2, <2>3 DEF TypeOK, Free, HostKinds
    <2> QED
      BY <2>2, <2>4, <2>5, <2>6 DEF TypeOK, process, appSide
  <1>3. ASSUME NEW t \in Thread, NEW fd \in Fd, NEW family \in Families,
               NEW size \in CallSizes, Send(t, fd, family, size)
        PROVE  TypeOK'
    <2> DEFINE to == peers[fd]  total == queue[to] + size
    <2>1. to \in Fd /\ queue[to] \in 0 .. MaxQueue /\ total \in 0 .. MaxQueue
      <3>1. to \in Fd /\ queue[to] # NoQueue /\ HasRoom(to, size)
        BY <1>3 DEF Send, TypeOK
      <3>2. queue[to] \in NoQueue .. MaxQueue /\ size \in Nat /\ MaxQueue \in Nat
        BY <3>1, FilesAssumption DEF TypeOK, CallSizes
      <3> QED
        BY <3>1, <3>2 DEF HasRoom, NoQueue
    <2>2. /\ UNCHANGED <<style, table, peers, process, cleanupDone, appSide>>
          /\ \/ queue' = [queue EXCEPT ![to] = total] /\ UNCHANGED waits
             \/ \E r \in Lowest(Receivers(to, family)), want \in CallSizes, current \in Thread :
                 /\ queue' = [queue EXCEPT ![to] = total - Taken(total, want)]
                 /\ waits' = [waits EXCEPT
                      ![current] = IF /\ family = "message" /\ total = 0
                                      /\ waits[current] = NoWait
                                   THEN waits[r] ELSE @,
                      ![r] = NoWait]
      BY <1>3 DEF Send
    <2> HIDE DEF to, total
    <2>3. queue' \in [Fd -> NoQueue .. MaxQueue]
      BY <2>1, <2>2, FilesAssumption DEF TypeOK, NoQueue, Taken, CallSizes
    <2>4. Lowest(Receivers(to, family)) \subseteq Thread
      BY DEF Lowest, Receivers
    <2>5. waits' \in [Thread -> [family : {"stream", "message"}, fd : Fd] \cup {NoWait}]
      BY <2>2, <2>4 DEF TypeOK
    <2> QED
      BY <2>2, <2>3, <2>5 DEF TypeOK, table, process, appSide
  <1>4. ASSUME NEW t \in Thread, NEW fd \in Fd, NEW family \in Families,
               NEW size \in CallSizes, Receive(t, fd, family, size)
        PROVE  TypeOK'
    <2>1. queue' \in [Fd -> NoQueue .. MaxQueue]
      BY <1>4, FilesAssumption DEF Receive, TypeOK, NoQueue, Taken, CallSizes
    <2>2. waits' \in [Thread -> [family : {"stream", "message"}, fd : Fd] \cup {NoWait}]
      BY <1>4 DEF Receive, TypeOK, Families
    <2> QED
      BY <1>4, <2>1, <2>2 DEF Receive, TypeOK, table, process, appSide
  <1>5. ASSUME NEW fd \in Fd, Close(fd) PROVE TypeOK'
    <2> PICK U \in SUBSET Fd : CloseWhere(fd, U)
      BY <1>5 DEF Close, Linked
    <2>1. files' \in [Fd -> Kinds] /\ handles' \in [Fd -> Handle \cup {NoHandle}]
      BY DEF CloseWhere, TypeOK, Kinds
    <2>2. peers' \in [Fd -> Fd \cup {NoFd}] /\ queue' \in [Fd -> NoQueue .. MaxQueue]
      BY FilesAssumption DEF CloseWhere, TypeOK, NoQueue
    <2>3. \A e \in Fd : handles'[e] # NoHandle <=> files'[e] \in HostKinds
      BY DEF CloseWhere, TypeOK, HostKinds
    <2> QED
      BY <2>1, <2>2, <2>3 DEF CloseWhere, TypeOK, process
  <1>6. ASSUME NEW fd \in Fd, ProcessAdd(fd) PROVE TypeOK'
    BY <1>6 DEF ProcessAdd, TypeOK, table, sockets, appSide
  <1>7. CASE ProcessKill
    BY <1>7 DEF ProcessKill, TypeOK, table, sockets, appSide
  <1>8. ASSUME NEW refused, Exit(refused) PROVE TypeOK'
    <2>1. queue' \in [Fd -> NoQueue .. MaxQueue]
      BY <1>8, FilesAssumption DEF Exit, NoQueue
    <2> QED
      BY <1>8, <2>1 DEF Exit, ClosesAll, TypeOK, table, process
  <1>9. ASSUME NEW refused, Reset(refused) PROVE TypeOK'
    <2>1. queue' \in [Fd -> NoQueue .. MaxQueue]
      BY <1>9, FilesAssumption DEF Reset, NoQueue
    <2>2. excused' \subseteq opened' /\ opened' \subseteq Handle
      BY <1>9 DEF Reset, ClosesAll, TypeOK, appSide
    <2> QED
      BY <1>9, <2>1, <2>2 DEF Reset, TypeOK, Kinds, HostKinds
  <1>10. CASE UNCHANGED vars
    BY <1>10 DEF vars, TypeOK
  <1> QED
    BY <1>1, <1>2, <1>3, <1>4, <1>5, <1>6, <1>7, <1>8, <1>9, <1>10 DEF Next, SocketCalls

\* Every variable keeps its type, and a descriptor has a handle exactly when
\* its kind is one of the application's.
THEOREM TypeOKHolds == Spec => []TypeOK
  <1>1. Init => TypeOK
    <2> SUFFICES ASSUME Init PROVE TypeOK
      OBVIOUS
    <2>1. queue \in [Fd -> NoQueue .. MaxQueue]
      BY FilesAssumption DEF Init, NoQueue
    <2> QED
      BY <2>1 DEF Init, TypeOK, Kinds, HostKinds
  <1> QED
    BY <1>1, TypeStep, PTL DEF Spec

----------------------------------------------------------------------------
\* The local sockets

\* What holds of the sockets in every state.
SocketInv == PairsWhole /\ ChildConnected /\ TiedToParent /\ CarefulWaits

\* Host calls touch free descriptors only, and no socket is free.
LEMMA TableKeepsSockets ==
    ASSUME TypeOK, SocketInv, TableStep
    PROVE  SocketInv'
  <1>1. \A fd \in Fd : files[fd] = "local" => files'[fd] = "local"
    BY DEF TableStep
  <1>2. \A fd \in Fd : files'[fd] = "local" => files[fd] = "local"
    BY DEF TableStep
  <1>3. UNCHANGED <<style, peers, queue, waits, parent, tied, cleanupDone>>
    BY DEF TableStep, sockets, process
  <1>4. PairsWhole'
    <2>1. SUFFICES ASSUME NEW fd \in Fd
                   PROVE  /\ peers[fd] # NoFd =>
                               /\ files'[fd] = "local" /\ files'[peers[fd]] = "local"
                               /\ peers[fd] # fd /\ peers[peers[fd]] = fd
                          /\ queue[fd] # NoQueue => files'[fd] = "local"
                          /\ files'[fd] = "local" /\ ~cleanupDone => queue[fd] # NoQueue
      BY <1>3 DEF PairsWhole
    <2> QED
      BY <1>1, <1>2 DEF SocketInv, PairsWhole, TypeOK
  <1>5. ChildConnected' /\ TiedToParent'
    BY <1>1, <1>3 DEF SocketInv, ChildConnected, TiedToParent, TypeOK, NoFd
  <1>6. CarefulWaits'
    <2>1. \A t \in Thread : waits[t] # NoWait => waits[t].fd \in Fd
      BY DEF TypeOK
    <2> QED
      BY <1>1, <1>3, <2>1 DEF SocketInv, CarefulWaits, Careful
  <1> QED
    BY <1>4, <1>5, <1>6 DEF SocketInv

\* A new pair takes two free descriptors; in a careful program nobody waits
\* on those.
LEMMA LocalPairStep ==
    ASSUME TypeOK, SocketInv, NEW fails \in BOOLEAN, LocalPair(fails)
    PROVE  SocketInv'
  <1>1. PICK first \in Lowest(Free) : \E second \in Lowest(Free \ {first}) :
            /\ files' = [files EXCEPT ![first] = "local", ![second] = "local"]
            /\ peers' = [peers EXCEPT ![first] = second, ![second] = first]
            /\ queue' = [queue EXCEPT ![first] = 0, ![second] = 0]
            /\ UNCHANGED <<style, handles, waits, process, cleanupDone, appSide>>
    BY DEF LocalPair
  <1>2. PICK second \in Lowest(Free \ {first}) :
            /\ files' = [files EXCEPT ![first] = "local", ![second] = "local"]
            /\ peers' = [peers EXCEPT ![first] = second, ![second] = first]
            /\ queue' = [queue EXCEPT ![first] = 0, ![second] = 0]
            /\ UNCHANGED <<style, handles, waits, process, cleanupDone, appSide>>
    BY <1>1
  <1>3. first \in Free /\ second \in Free
    BY LowestFree
  <1>4. first # second
    BY LowestLemma, FilesAssumption DEF Lowest
  <1>5. \A fd \in Fd \ {first, second} :
            files'[fd] = files[fd] /\ peers'[fd] = peers[fd] /\ queue'[fd] = queue[fd]
    BY <1>2 DEF TypeOK
  <1>6. /\ first \in Fd /\ second \in Fd
        /\ files[first] = "free" /\ files[second] = "free"
        /\ files'[first] = "local" /\ files'[second] = "local"
        /\ peers'[first] = second /\ peers'[second] = first
        /\ queue'[first] = 0 /\ queue'[second] = 0
    BY <1>2, <1>3, <1>4 DEF TypeOK, Free
  <1>7. \A fd \in Fd \ {first, second} : peers[fd] # NoFd =>
            /\ files[fd] = "local"
            /\ peers[fd] \in Fd \ {first, second}
            /\ files[peers[fd]] = "local" /\ peers[fd] # fd /\ peers[peers[fd]] = fd
    BY <1>6 DEF SocketInv, PairsWhole, TypeOK
  <1>8. UNCHANGED <<style, waits, parent, tied, cleanupDone>>
    BY <1>2 DEF process
  <1>9. PairsWhole'
    <2>1. SUFFICES ASSUME NEW fd \in Fd
                   PROVE  /\ peers'[fd] # NoFd =>
                               /\ files'[fd] = "local" /\ files'[peers'[fd]] = "local"
                               /\ peers'[fd] # fd /\ peers'[peers'[fd]] = fd
                          /\ queue'[fd] # NoQueue => files'[fd] = "local"
                          /\ files'[fd] = "local" /\ ~cleanupDone => queue'[fd] # NoQueue
      BY <1>8 DEF PairsWhole
    <2>2. CASE fd \in {first, second}
      BY <1>4, <1>6, <2>2 DEF NoQueue
    <2>3. CASE fd \notin {first, second}
      BY <1>5, <1>7, <2>3 DEF SocketInv, PairsWhole
    <2> QED
      BY <2>2, <2>3
  <1>10. ChildConnected' /\ TiedToParent'
    <2>1. tied # NoFd => parent \in Fd \ {first, second}
      BY <1>6 DEF SocketInv, ChildConnected, TiedToParent, TypeOK
    <2> QED
      BY <1>5, <1>8, <2>1 DEF SocketInv, ChildConnected, TiedToParent
  <1>11. CarefulWaits'
    <2>1. Careful => \A t \in Thread : waits[t] # NoWait =>
              waits[t].fd \in Fd \ {first, second}
      BY <1>6 DEF SocketInv, CarefulWaits, TypeOK
    <2> QED
      BY <1>5, <1>8, <2>1 DEF SocketInv, CarefulWaits, Careful
  <1> QED
    BY <1>9, <1>10, <1>11 DEF SocketInv

\* A send leaves the pairs as they are; in a careful program the thread that
\* waits at the other end, of which there is one at most, is woken.
LEMMA SendStep ==
    ASSUME TypeOK, SocketInv, NEW t \in Thread, NEW fd \in Fd,
           NEW family \in Families, NEW size \in CallSizes, Send(t, fd, family, size)
    PROVE  SocketInv'
  <1> DEFINE to == peers[fd]  total == queue[to] + size
             first == Lowest(Receivers(to, family))
  <1>1. /\ to \in Fd /\ files[to] = "local" /\ queue[to] \in 0 .. MaxQueue
        /\ size \in Nat
    <2>1. to \in Fd /\ files[to] = "local" /\ queue[to] # NoQueue
      BY DEF Send, TypeOK
    <2>2. queue[to] \in NoQueue .. MaxQueue /\ size \in Nat /\ MaxQueue \in Nat
      BY <2>1, FilesAssumption DEF TypeOK, CallSizes
    <2> QED
      BY <2>1, <2>2 DEF NoQueue
  <1>2. UNCHANGED <<style, files, peers, parent, tied, cleanupDone>>
    BY DEF Send, table, process
  <1>3. \A e \in Fd \ {to} : queue'[e] = queue[e]
    BY DEF Send, TypeOK
  <1>4. queue'[to] >= 0
    <2>1. CASE first = {}
      BY <1>1, <2>1 DEF Send, TypeOK
    <2>2. CASE first # {}
      <3>1. PICK want \in CallSizes :
                queue' = [queue EXCEPT ![to] = total - Taken(total, want)]
        BY <2>2 DEF Send
      <3>2. want \in Nat
        BY FilesAssumption DEF CallSizes
      <3> QED
        BY <1>1, <3>1, <3>2 DEF TypeOK, Taken
    <2> QED
      BY <2>1, <2>2
  <1>5. PairsWhole' /\ ChildConnected' /\ TiedToParent'
    <2> HIDE DEF to
    <2>1. PairsWhole'
      <3> SUFFICES ASSUME NEW e \in Fd
                   PROVE  /\ peers[e] # NoFd =>
                               /\ files[e] = "local" /\ files[peers[e]] = "local"
                               /\ peers[e] # e /\ peers[peers[e]] = e
                          /\ queue'[e] # NoQueue => files[e] = "local"
                          /\ files[e] = "local" /\ ~cleanupDone => queue'[e] # NoQueue
        BY <1>2 DEF PairsWhole
      <3>1. CASE e = to
        BY <1>1, <1>4, <3>1 DEF SocketInv, PairsWhole, NoQueue
      <3>2. CASE e # to
        BY <1>3, <3>2 DEF SocketInv, PairsWhole
      <3> QED
        BY <3>1, <3>2
    <2>2. ChildConnected' /\ TiedToParent'
      BY <1>2 DEF SocketInv, ChildConnected, TiedToParent
    <2> QED
      BY <2>1, <2>2
  <1>6. CarefulWaits'
    <2> SUFFICES ASSUME Careful PROVE CarefulWaits'
      BY <1>2 DEF CarefulWaits, Careful
    <2>1. family = style /\ family # "plain"
      BY DEF Send, MayCall, TypeOK, Careful
    <2>2. \A r \in Thread : waits[r].fd = to => r \in Receivers(to, family)
      <3> SUFFICES ASSUME NEW r \in Thread, waits[r].fd = to
                   PROVE  r \in Receivers(to, family)
        OBVIOUS
      <3>1. waits[r] # NoWait
        BY <1>1, FilesAssumption DEF NoWait, NoFd
      <3> QED
        BY <2>1, <3>1 DEF SocketInv, CarefulWaits, Receivers
    <2>5. \A r, u \in Thread : waits[r].fd = to /\ waits[u].fd = to => r = u
      <3>1. \A r \in Thread : waits[r].fd = to => waits[r] # NoWait
        BY <1>1, FilesAssumption DEF NoWait, NoFd
      <3> QED
        BY <3>1 DEF SocketInv, CarefulWaits
    <2>3. CASE first = {}
      <3>1. Receivers(to, family) = {}
        <4> SUFFICES ASSUME NEW r \in Receivers(to, family) PROVE FALSE
          OBVIOUS
        <4>1. Receivers(to, family) \subseteq {r}
          BY <2>5 DEF Receivers
        <4>2. r \in Nat
          BY FilesAssumption DEF Receivers
        <4>3. r \in first
          BY <4>1, <4>2 DEF Lowest
        <4> QED
          BY <2>3, <4>3
      <3>2. UNCHANGED waits
        BY <2>3 DEF Send
      <3>3. \A r \in Thread : waits[r].fd # to
        BY <2>2, <3>1
      <3>4. \A r \in Thread : waits[r] # NoWait => queue'[waits[r].fd] = queue[waits[r].fd]
        BY <1>3, <3>3 DEF TypeOK
      <3> HIDE DEF to, total, first
      <3> QED
        BY <1>2, <3>2, <3>4 DEF SocketInv, CarefulWaits
    <2>4. CASE first # {}
      <3>1. PICK r \in first, want \in CallSizes, current \in Thread :
                waits' = [waits EXCEPT
                     ![current] = IF /\ family = "message" /\ total = 0
                                     /\ waits[current] = NoWait
                                  THEN waits[r] ELSE @,
                     ![r] = NoWait]
        BY <2>4 DEF Send
      <3>2. size > 0 /\ total # 0
        BY <1>1 DEF CallSizes
      <3>3. r \in Thread /\ waits[r].fd = to
        BY DEF Lowest, Receivers
      <3>4. waits' = [waits EXCEPT ![r] = NoWait]
        BY <3>1, <3>2, <3>3 DEF TypeOK
      <3>5. \A u \in Thread \ {r} : waits[u].fd # to
        BY <2>5, <3>3
      <3>6. \A u \in Thread : waits'[u] # NoWait =>
                u # r /\ waits'[u] = waits[u] /\ waits[u].fd \in Fd \ {to}
        BY <3>3, <3>4, <3>5 DEF TypeOK
      <3> QED
        <4> SUFFICES ASSUME NEW u \in Thread, waits'[u] # NoWait
                     PROVE  /\ waits[u].family = style
                            /\ files[waits[u].fd] = "local"
                            /\ queue'[waits[u].fd] <= 0
                            /\ \A v \in Thread \ {u} : waits'[v].fd # waits[u].fd
          BY <1>2, <3>6 DEF CarefulWaits
        <4>1. u # r /\ waits'[u] = waits[u] /\ waits[u].fd \in Fd \ {to}
          BY <3>6
        <4>2. \A v \in Thread \ {u} : waits'[v].fd = waits[v].fd \/ waits'[v].fd = NoFd
          BY <3>3, <3>4 DEF TypeOK, NoWait
        <4>3. NoFd \notin Fd
          BY FilesAssumption DEF NoFd
        <4>4. queue'[waits[u].fd] = queue[waits[u].fd]
          BY <1>3, <4>1
        <4> QED
          BY <4>1, <4>2, <4>3, <4>4 DEF SocketInv, CarefulWaits
    <2> QED
      BY <2>3, <2>4
  <1> QED
    BY <1>5, <1>6 DEF SocketInv

\* A receive takes bytes or sleeps on an empty socket.
LEMMA ReceiveStep ==
    ASSUME TypeOK, SocketInv, NEW t \in Thread, NEW fd \in Fd,
           NEW family \in Families, NEW size \in CallSizes, Receive(t, fd, family, size)
    PROVE  SocketInv'
  <1>1. UNCHANGED <<style, files, peers, parent, tied, cleanupDone>>
    BY DEF Receive, table, process
  <1>2. files[fd] = "local" /\ waits[t] = NoWait
    BY DEF Receive, MayCall
  <1>3. CASE queue[fd] > 0 /\ queue' = [queue EXCEPT ![fd] = @ - Taken(@, size)]
             /\ UNCHANGED waits
    <2>1. queue'[fd] >= 0 /\ \A e \in Fd \ {fd} : queue'[e] = queue[e]
      <3>1. size \in Nat /\ queue[fd] \in NoQueue .. MaxQueue /\ MaxQueue \in Nat
        BY FilesAssumption DEF CallSizes, TypeOK
      <3> QED
        BY <1>3, <3>1 DEF Taken, NoQueue, TypeOK
    <2>2. PairsWhole'
      <3> SUFFICES ASSUME NEW e \in Fd
                   PROVE  /\ peers[e] # NoFd =>
                               /\ files[e] = "local" /\ files[peers[e]] = "local"
                               /\ peers[e] # e /\ peers[peers[e]] = e
                          /\ queue'[e] # NoQueue => files[e] = "local"
                          /\ files[e] = "local" /\ ~cleanupDone => queue'[e] # NoQueue
        BY <1>1 DEF PairsWhole
      <3> QED
        BY <1>2, <2>1 DEF SocketInv, PairsWhole, NoQueue
    <2>3. ChildConnected' /\ TiedToParent'
      BY <1>1 DEF SocketInv, ChildConnected, TiedToParent
    <2>4. CarefulWaits'
      <3>1. Careful => \A r \in Thread : waits[r].fd # fd
        BY <1>3, FilesAssumption DEF Receive, Asleep
      <3>2. \A r \in Thread : waits[r] # NoWait => waits[r].fd \in Fd
        BY DEF TypeOK
      <3> QED
        BY <1>1, <1>3, <2>1, <3>1, <3>2 DEF SocketInv, CarefulWaits, Careful
    <2> QED
      BY <2>2, <2>3, <2>4 DEF SocketInv
  <1>4. CASE /\ queue[fd] <= 0 /\ family # "plain" /\ UNCHANGED queue
             /\ waits' = [waits EXCEPT ![t] = [family |-> family, fd |-> fd]]
    <2>1. PairsWhole' /\ ChildConnected' /\ TiedToParent'
      BY <1>1, <1>4 DEF SocketInv, PairsWhole, ChildConnected, TiedToParent
    <2>2. ASSUME Careful PROVE CarefulWaits'
      <3>1. family = style /\ \A r \in Thread : waits[r].fd # fd
        BY <2>2 DEF Receive, MayCall, Asleep
      <3>2. waits'[t].family = style /\ waits'[t].fd = fd
        BY <1>4, <3>1 DEF TypeOK
      <3>3. \A r \in Thread \ {t} : waits'[r] = waits[r]
        BY <1>4 DEF TypeOK
      <3>4. waits[t].fd = NoFd /\ NoFd \notin Fd
        BY <1>2, FilesAssumption DEF NoWait, NoFd
      <3> SUFFICES ASSUME NEW r \in Thread, waits'[r] # NoWait
                   PROVE  /\ waits'[r].family = style
                          /\ files[waits'[r].fd] = "local"
                          /\ queue[waits'[r].fd] <= 0
                          /\ \A u \in Thread \ {r} : waits'[u].fd # waits'[r].fd
        BY <1>1, <1>4 DEF CarefulWaits
      <3>5. CASE r = t
        BY <1>2, <1>4, <3>1, <3>2, <3>3, <3>5
      <3>6. CASE r # t
        BY <2>2, <3>1, <3>2, <3>3, <3>6 DEF SocketInv, CarefulWaits
      <3> QED
        BY <3>5, <3>6
    <2>3. CarefulWaits'
      BY <1>1, <2>2 DEF CarefulWaits, Careful
    <2> QED
      BY <2>1, <2>3 DEF SocketInv
  <1> QED
    BY <1>3, <1>4 DEF Receive

\* A close unlinks the other end and neither end of the process's socket.
LEMMA CloseStep ==
    ASSUME TypeOK, SocketInv, NEW fd \in Fd, Close(fd)
    PROVE  SocketInv'
  <1> DEFINE U == {fd} \cup Linked(fd)
  <1>1. /\ files[fd] # "free" /\ files'[fd] = "free"
        /\ \A e \in Fd \ {fd} : files'[e] = files[e] /\ queue'[e] = queue[e]
        /\ queue'[fd] = NoQueue
        /\ \A e \in Fd : peers'[e] = IF e \in U THEN NoFd ELSE peers[e]
        /\ UNCHANGED <<style, waits, parent, tied, cleanupDone>>
    BY DEF Close, CloseWhere, TypeOK, process
  <1>2. \A e \in Fd : e \notin U /\ peers[e] # NoFd =>
            peers[e] \in Fd /\ peers[e] # fd /\ peers[e] \notin Linked(fd)
    BY DEF SocketInv, PairsWhole, Linked, TypeOK
  <1>3. PairsWhole'
    <2> SUFFICES ASSUME NEW e \in Fd
                 PROVE  /\ peers'[e] # NoFd =>
                             /\ files'[e] = "local" /\ files'[peers'[e]] = "local"
                             /\ peers'[e] # e /\ peers'[peers'[e]] = e
                        /\ queue'[e] # NoQueue => files'[e] = "local"
                        /\ files'[e] = "local" /\ ~cleanupDone => queue'[e] # NoQueue
      BY <1>1 DEF PairsWhole
    <2>1. CASE e = fd
      BY <1>1, <2>1 DEF NoQueue
    <2>2. CASE e # fd
      <3>1. /\ queue'[e] # NoQueue => files'[e] = "local"
            /\ files'[e] = "local" /\ ~cleanupDone => queue'[e] # NoQueue
        BY <1>1, <2>2 DEF SocketInv, PairsWhole
      <3>2. ASSUME peers'[e] # NoFd
            PROVE  /\ files'[e] = "local" /\ files'[peers'[e]] = "local"
                   /\ peers'[e] # e /\ peers'[peers'[e]] = e
        <4>1. e \notin U /\ peers'[e] = peers[e]
          BY <1>1, <3>2
        <4>2. peers[e] \in Fd /\ peers[e] # fd /\ peers[e] \notin U
          BY <1>2, <3>2, <4>1
        <4> HIDE DEF U
        <4> QED
          BY <1>1, <2>2, <3>2, <4>1, <4>2 DEF SocketInv, PairsWhole
      <3> QED
        BY <3>1, <3>2
    <2> QED
      BY <2>1, <2>2
  <1>4. ChildConnected' /\ TiedToParent'
    <2>1. tied # NoFd => /\ parent \in Fd /\ files[parent] = "local"
                         /\ peers[parent] = tied /\ parent # NoFd
      BY DEF SocketInv, ChildConnected, TiedToParent, TypeOK
    <2>2. tied # NoFd => parent # fd /\ peers[fd] # parent
      BY <2>1 DEF Close, Held, SocketInv, PairsWhole
    <2>3. tied # NoFd => parent \notin U
      BY <2>2 DEF Linked
    <2> HIDE DEF U
    <2> QED
      BY <1>1, <2>1, <2>2, <2>3 DEF ChildConnected, TiedToParent
  <1>5. CarefulWaits'
    <2>1. Careful => \A t \in Thread : waits[t].fd # fd
      BY DEF Close, CloseWhere, Asleep
    <2>2. \A t \in Thread : waits[t] # NoWait => waits[t].fd \in Fd
      BY DEF TypeOK
    <2> HIDE DEF U
    <2> QED
      BY <1>1, <2>1, <2>2 DEF SocketInv, CarefulWaits, Careful
  <1> QED
    BY <1>3, <1>4, <1>5 DEF SocketInv

\* The sockets keep what holds of them in every step.
LEMMA SocketStep == TypeOK /\ SocketInv /\ [Next]_vars => SocketInv'
  <1> SUFFICES ASSUME TypeOK, SocketInv, [Next]_vars PROVE SocketInv'
    OBVIOUS
  <1>1. CASE HostCalls
    BY <1>1, HostCallTyped, TableKeepsSockets
  <1>2. CASE SocketCalls
    BY <1>2, LocalPairStep, SendStep, ReceiveStep DEF SocketCalls
  <1>3. ASSUME NEW fd \in Fd, Close(fd) PROVE SocketInv'
    BY <1>3, CloseStep
  <1>4. ASSUME NEW fd \in Fd, ProcessAdd(fd) PROVE SocketInv'
    <2>1. /\ UNCHANGED <<style, files, peers, queue, waits, cleanupDone>>
          /\ parent' = fd /\ tied' = peers[fd]
      BY <1>4 DEF ProcessAdd, table, sockets
    <2>2. PairsWhole' /\ CarefulWaits'
      BY <2>1 DEF SocketInv, PairsWhole, CarefulWaits, Careful
    <2>3. ChildConnected' /\ TiedToParent'
      BY <2>1, FilesAssumption DEF SocketInv, PairsWhole, ChildConnected, TiedToParent, NoFd
    <2> QED
      BY <2>2, <2>3 DEF SocketInv
  <1>5. CASE ProcessKill
    <2>1. /\ UNCHANGED <<style, files, peers, queue, waits, cleanupDone>>
          /\ tied' = NoFd
      BY <1>5 DEF ProcessKill, table, sockets
    <2> QED
      BY <2>1 DEF SocketInv, PairsWhole, CarefulWaits, Careful, ChildConnected, TiedToParent
  <1>6. ASSUME NEW refused, Exit(refused) PROVE SocketInv'
    <2>1. /\ UNCHANGED <<style, files, peers, waits, parent, tied>>
          /\ cleanupDone' /\ queue' = [fd \in Fd |-> NoQueue]
      BY <1>6 DEF Exit, table, process
    <2>2. PairsWhole' /\ ChildConnected' /\ TiedToParent'
      BY <2>1 DEF SocketInv, PairsWhole, ChildConnected, TiedToParent
    <2>3. \A t \in Thread : waits[t] # NoWait => queue'[waits[t].fd] = NoQueue
      BY <2>1 DEF TypeOK
    <2>4. CarefulWaits'
      BY <2>1, <2>3 DEF SocketInv, CarefulWaits, Careful, NoQueue
    <2> QED
      BY <2>2, <2>4 DEF SocketInv
  <1>7. ASSUME NEW refused, Reset(refused) PROVE SocketInv'
    BY <1>7 DEF Reset, SocketInv, PairsWhole, ChildConnected, TiedToParent, CarefulWaits
  <1>8. CASE UNCHANGED vars
    BY <1>8 DEF vars, SocketInv, PairsWhole, ChildConnected, TiedToParent, CarefulWaits, Careful
  <1> QED
    BY <1>1, <1>2, <1>3, <1>4, <1>5, <1>6, <1>7, <1>8 DEF Next

----------------------------------------------------------------------------
\* The handles

\* Once the guest has been cleaned up no open handle is anybody's any more:
\* a reset then forgets the table without closing it.
HandleInv == HandlesAccounted /\ (cleanupDone => opened \subseteq excused)

\* The end of open, socket and accept accounts for the handle it was given.
LEMMA AdoptAccounted ==
    ASSUME TypeOK, HandleInv, NEW kind \in HostKinds, NEW h \in Fresh,
           NEW fails \in BOOLEAN, NEW refused \in SUBSET {h},
           Adopt(kind, h, fails, refused), UNCHANGED cleanupDone
    PROVE  HandleInv'
  <1> DEFINE to == IF fails THEN {} ELSE Lowest(Free)
  <1>1. to \subseteq Free /\ \A x, y \in to : x = y
    BY LowestFree
  <1>2. handles' = [fd \in Fd |-> IF fd \in to THEN h ELSE handles[fd]]
    BY DEF Adopt, Entered
  <1>3. IF to # {} THEN LeavesOpen({h}, {})
                   ELSE LeavesOpen({h} \cap refused, {h} \cap refused)
    BY DEF Adopt
  <1>4. \A fd \in Fd : files[fd] # "free" => fd \notin to
    BY <1>1 DEF Free
  <1>5. h # NoHandle /\ h \notin opened
    BY FilesAssumption DEF Fresh
  <1> HIDE DEF to
  <1>6. cleanupDone' => opened' \subseteq excused'
    BY <1>3 DEF LeavesOpen, HandleInv
  <1>7. opened' \ excused' \subseteq Named'
    <2> SUFFICES ASSUME NEW x \in opened', x \notin excused' PROVE x \in Named'
      OBVIOUS
    <2>1. CASE x \in opened
      <3>1. PICK fd \in Fd : handles[fd] = x
        BY <1>3, <2>1 DEF HandleInv, HandlesAccounted, Named, LeavesOpen
      <3>2. fd \notin to
        BY <1>4, <2>1, <3>1, FilesAssumption DEF TypeOK, HostKinds
      <3> QED
        BY <1>2, <3>1, <3>2 DEF Named
    <2>2. CASE x \notin opened
      <3>1. x = h /\ to # {}
        BY <1>3, <2>2 DEF LeavesOpen
      <3>2. PICK fd \in to : TRUE
        BY <3>1
      <3> QED
        BY <1>1, <1>2, <3>1, <3>2 DEF Named, Free
    <2> QED
      BY <2>1, <2>2
  <1>8. ASSUME ~cleanupDone', NEW fd \in Fd, handles'[fd] # NoHandle
        PROVE  handles'[fd] \in opened' /\ \A e \in Fd \ {fd} : handles'[e] # handles'[fd]
    <2>1. \A e \in Fd : handles[e] # NoHandle =>
              handles[e] \in opened /\ \A f \in Fd \ {e} : handles[f] # handles[e]
      BY <1>8 DEF HandleInv, HandlesAccounted
    <2>2. \A e \in Fd : handles[e] # h
      BY <1>5, <2>1
    <2>3. opened \subseteq opened' /\ (to # {} => h \in opened')
      BY <1>3 DEF LeavesOpen
    <2> QED
      BY <1>1, <1>2, <1>8, <2>1, <2>2, <2>3
  <1> QED
    BY <1>6, <1>7, <1>8 DEF HandleInv, HandlesAccounted

\* SOCKET_PAIR loses neither handle.
LEMMA SocketPairAccounted ==
    ASSUME TypeOK, HandleInv, NEW h \in Fresh, NEW g \in Fresh \ {h},
           NEW fails \in BOOLEAN, NEW refused \in SUBSET {h, g},
           SocketPair(h, g, fails, refused)
    PROVE  HandleInv'
  <1> DEFINE first  == Lowest(Free)
             second == Lowest(Free \ first)
             kept   == IF second # {} /\ ~fails THEN {h, g} ELSE {h, g} \cap refused
             one    == IF h \in kept THEN first ELSE {}
             other  == IF g \in kept THEN second ELSE {}
  <1>1. /\ one \subseteq Free /\ \A x, y \in one : x = y
        /\ other \subseteq Free /\ \A x, y \in other : x = y
    BY LowestFree
  <1>2. one \cap other = {}
    BY DEF Lowest
  <1>3. /\ handles' = [fd \in Fd |-> IF fd \in one THEN h
                                     ELSE IF fd \in other THEN g ELSE handles[fd]]
        /\ LeavesOpen(kept, {x \in kept : IF x = h THEN one = {} ELSE other = {}})
        /\ UNCHANGED cleanupDone
    BY DEF SocketPair
  <1>4. /\ kept \subseteq {h, g}
        /\ one # {} => h \in kept
        /\ other # {} => g \in kept
    OBVIOUS
  <1>5. \A fd \in Fd : files[fd] # "free" => fd \notin one /\ fd \notin other
    BY <1>1 DEF Free
  <1>6. h # NoHandle /\ h \notin opened /\ g # NoHandle /\ g \notin opened /\ g # h
    BY FilesAssumption DEF Fresh
  <1> HIDE DEF one, other, kept
  <1>7. cleanupDone' => opened' \subseteq excused'
    BY <1>3 DEF LeavesOpen, HandleInv
  <1>8. opened' \ excused' \subseteq Named'
    <2> SUFFICES ASSUME NEW x \in opened', x \notin excused' PROVE x \in Named'
      OBVIOUS
    <2>1. CASE x \in opened
      <3>1. PICK fd \in Fd : handles[fd] = x
        BY <1>3, <2>1 DEF HandleInv, HandlesAccounted, Named, LeavesOpen
      <3>2. fd \notin one /\ fd \notin other
        BY <1>5, <2>1, <3>1, FilesAssumption DEF TypeOK, HostKinds
      <3> QED
        BY <1>3, <3>1, <3>2 DEF Named
    <2>2. CASE x \notin opened
      <3>1. x \in kept /\ IF x = h THEN one # {} ELSE other # {}
        BY <1>3, <2>2 DEF LeavesOpen
      <3>2. CASE x = h
        <4>1. PICK fd \in one : TRUE
          BY <3>1, <3>2
        <4> QED
          BY <1>1, <1>3, <3>2, <4>1 DEF Named, Free
      <3>3. CASE x # h
        <4>1. x = g
          BY <1>4, <3>1, <3>3
        <4>2. PICK fd \in other : TRUE
          BY <3>1, <3>3
        <4>3. fd \in Fd /\ handles'[fd] = g
          BY <1>1, <1>2, <1>3, <4>2 DEF Free
        <4> QED
          BY <4>1, <4>3 DEF Named
      <3> QED
        BY <3>2, <3>3
    <2> QED
      BY <2>1, <2>2
  <1>9. ASSUME ~cleanupDone', NEW fd \in Fd, handles'[fd] # NoHandle
        PROVE  handles'[fd] \in opened' /\ \A e \in Fd \ {fd} : handles'[e] # handles'[fd]
    <2>1. \A e \in Fd : handles[e] # NoHandle =>
              handles[e] \in opened /\ \A f \in Fd \ {e} : handles[f] # handles[e]
      BY <1>3, <1>9 DEF HandleInv, HandlesAccounted
    <2>2. \A e \in Fd : handles[e] # h /\ handles[e] # g
      BY <1>6, <2>1
    <2>3. opened \subseteq opened' /\ kept \subseteq opened'
      BY <1>3 DEF LeavesOpen
    <2>4. CASE fd \in one
      BY <1>1, <1>2, <1>3, <1>4, <1>6, <2>2, <2>3, <2>4
    <2>5. CASE fd \in other
      BY <1>1, <1>2, <1>3, <1>4, <1>6, <2>2, <2>3, <2>5
    <2>6. CASE fd \notin one /\ fd \notin other
      BY <1>3, <1>9, <2>1, <2>2, <2>3, <2>6
    <2> QED
      BY <2>4, <2>5, <2>6
  <1> QED
    BY <1>7, <1>8, <1>9 DEF HandleInv, HandlesAccounted

\* Every step accounts for the handles.
LEMMA HandleStep == TypeOK /\ HandleInv /\ [Next]_vars => HandleInv'
  <1> SUFFICES ASSUME TypeOK, HandleInv, [Next]_vars PROVE HandleInv'
    OBVIOUS
  <1>1. CASE UNCHANGED <<handles, opened, excused, cleanupDone>>
    BY <1>1 DEF HandleInv, HandlesAccounted, Named
  <1>2. CASE HostCalls
    <2>1. CASE OpenDevice
      <3>1. Lowest(Free) \subseteq Free
        BY LowestFree
      <3>2. handles' = [fd \in Fd |-> IF fd \in Lowest(Free) THEN NoHandle ELSE handles[fd]]
        BY <2>1 DEF OpenDevice, Entered
      <3>3. \A fd \in Fd : fd \in Lowest(Free) => handles[fd] = NoHandle
        BY <3>1 DEF Free, TypeOK, HostKinds
      <3>4. handles' = handles
        BY <3>2, <3>3 DEF TypeOK
      <3> QED
        BY <1>1, <2>1, <3>4 DEF OpenDevice, appSide
    <2>2. ASSUME NEW h \in Fresh, NEW refused \in SUBSET {h},
                 \/ OpenStorage(h, refused) \/ Socket(h, refused)
                 \/ \E fails \in BOOLEAN : Accept(h, fails, refused)
          PROVE  HandleInv'
      <3>1. PICK kind \in HostKinds, fails \in BOOLEAN :
                 Adopt(kind, h, fails, refused) /\ UNCHANGED cleanupDone
        BY <2>2 DEF OpenStorage, Socket, Accept, HostKinds
      <3> QED
        BY <3>1, AdoptAccounted
    <2> QED
      BY <1>2, <2>1, <2>2, SocketPairAccounted DEF HostCalls
  <1>3. CASE SocketCalls
    <2>1. UNCHANGED <<handles, opened, excused, cleanupDone>>
      <3>1. ASSUME NEW fails, LocalPair(fails)
            PROVE  UNCHANGED <<handles, opened, excused, cleanupDone>>
        BY <3>1 DEF LocalPair, appSide
      <3>2. ASSUME NEW t, NEW fd, NEW family, NEW size,
                   Send(t, fd, family, size) \/ Receive(t, fd, family, size)
            PROVE  UNCHANGED <<handles, opened, excused, cleanupDone>>
        BY <3>2 DEF Send, Receive, table, appSide
      <3> QED
        BY <1>3, <3>1, <3>2 DEF SocketCalls
    <2> QED
      BY <1>1, <2>1
  <1>4. ASSUME NEW fd \in Fd, Close(fd) PROVE HandleInv'
    <2>1. /\ handles' = [handles EXCEPT ![fd] = NoHandle]
          /\ opened' = opened \ {handles[fd]} /\ excused' = excused \ {handles[fd]}
          /\ UNCHANGED cleanupDone
      BY <1>4 DEF Close, CloseWhere
    <2>2. handles'[fd] = NoHandle /\ \A e \in Fd \ {fd} : handles'[e] = handles[e]
      BY <2>1 DEF TypeOK
    <2>3. opened' \ excused' \subseteq Named'
      BY <2>1, <2>2 DEF HandleInv, HandlesAccounted, Named
    <2>4. ~cleanupDone' => \A d \in Fd : handles'[d] # NoHandle =>
              handles'[d] \in opened' /\ \A e \in Fd \ {d} : handles'[e] # handles'[d]
      BY <2>1, <2>2 DEF HandleInv, HandlesAccounted
    <2> QED
      BY <2>1, <2>3, <2>4 DEF HandleInv, HandlesAccounted
  <1>5. ASSUME NEW fd \in Fd, ProcessAdd(fd) PROVE HandleInv'
    BY <1>1, <1>5 DEF ProcessAdd, table, appSide
  <1>6. CASE ProcessKill
    BY <1>1, <1>6 DEF ProcessKill, table, appSide
  <1>7. ASSUME NEW refused \in SUBSET Named, Exit(refused) PROVE HandleInv'
    <2>1. opened' \subseteq excused' /\ cleanupDone'
      BY <1>7 DEF Exit, ClosesAll, HandleInv, HandlesAccounted
    <2> QED
      BY <2>1 DEF HandleInv, HandlesAccounted
  <1>8. ASSUME NEW refused \in SUBSET Named, Reset(refused) PROVE HandleInv'
    <2>1. opened' \subseteq excused'
      BY <1>8 DEF Reset, ClosesAll, appSide, HandleInv, HandlesAccounted
    <2>2. \A fd \in Fd : handles'[fd] = NoHandle
      BY <1>8 DEF Reset
    <2> QED
      BY <2>1, <2>2 DEF HandleInv, HandlesAccounted
  <1>9. CASE UNCHANGED vars
    BY <1>1, <1>9 DEF vars
  <1> QED
    BY <1>2, <1>3, <1>4, <1>5, <1>6, <1>7, <1>8, <1>9 DEF Next

----------------------------------------------------------------------------
\* The theorems

\* What holds of the sockets and of the handles, always.
LEMMA AlwaysInv == Spec => [](TypeOK /\ SocketInv /\ HandleInv)
  <1>1. Init => TypeOK /\ SocketInv /\ HandleInv
    <2> SUFFICES ASSUME Init PROVE TypeOK /\ SocketInv /\ HandleInv
      OBVIOUS
    <2>1. TypeOK
      <3>1. queue \in [Fd -> NoQueue .. MaxQueue]
        BY FilesAssumption DEF Init, NoQueue
      <3> QED
        BY <3>1 DEF Init, TypeOK, Kinds, HostKinds
    <2>2. SocketInv
      BY DEF Init, SocketInv, PairsWhole, ChildConnected, TiedToParent, CarefulWaits
    <2>3. HandleInv
      BY DEF Init, HandleInv, HandlesAccounted
    <2> QED
      BY <2>1, <2>2, <2>3
  <1> QED
    BY <1>1, TypeStep, SocketStep, HandleStep, PTL DEF Spec

\* No handle of the application is lost or named twice: whatever the guest
\* opens, adopts, closes and however its calls fail.
THEOREM HandlesAccountedHolds == Spec => []HandlesAccounted
  <1>1. HandleInv => HandlesAccounted
    BY DEF HandleInv
  <1> QED
    BY <1>1, AlwaysInv, PTL

\* The two ends of every local pair name each other, and no sequence of closes and
\* calls takes the process's connection away.
THEOREM SocketsWholeHolds == Spec => []SocketsWhole
  <1>1. SocketInv => SocketsWhole
    BY DEF SocketInv, SocketsWhole
  <1> QED
    BY <1>1, AlwaysInv, PTL

\* A careful program's receivers do not sleep on data.
THEOREM NoSleepOnDataHolds == Spec => []NoSleepOnData
  <1>1. SocketInv => NoSleepOnData
    BY DEF SocketInv, CarefulWaits, NoSleepOnData
  <1> QED
    BY <1>1, AlwaysInv, PTL

----------------------------------------------------------------------------
\* The handles that requests and players hold

\* LoansNamed with what it rests on: a vacant slot holds no handle, so that
\* making an object in it drops none.
LoanInv ==
    /\ kinds = [s \in Slot |-> kinds[s]]
    /\ hosts \in [Slot -> AppHandle \cup {NoLoan}]
    /\ \A s \in Slot : kinds[s] = Vacant => hosts[s] = NoLoan
    /\ LoansNamed

\* The owners of the table are living objects, of the kinds the code takes them for.
OwnerInv ==
    /\ kinds = [s \in Slot |-> kinds[s]] /\ parents = [s \in Slot |-> parents[s]]
    /\ OwnersLive

\* An object of a kind may belong to p.
Fits(kind, p) == kind \in DOMAIN Owners => KindOf(p) \in Owners[kind]

\* What most calls do to kinds, owners and handles: nothing, a transfer given another
\* device, an object made in a vacant slot, or objects deleted with all that belong
\* to them and their handles closed.
Quiet == UNCHANGED <<kinds, parents, hosts, loans>>
Turned ==
    /\ \E s \in Living("usb_transfer") : \E p : parents' = [parents EXCEPT ![s] = p]
    /\ UNCHANGED <<kinds, hosts, loans>>
Filled ==
    \E s \in FirstVacant : \E kind, p :
      /\ kinds' = [kinds EXCEPT ![s] = kind]
      /\ parents' = [parents EXCEPT ![s] = p]
      /\ hosts' = [hosts EXCEPT ![s] = NoLoan]
      /\ Fits(kind, p)
      /\ UNCHANGED loans
Dropped ==
    \E gone \in SUBSET Slot, refused \in SUBSET lent :
      /\ OneBelow(gone) = gone
      /\ kinds' = [s \in Slot |-> IF s \in gone THEN Vacant ELSE kinds[s]]
      /\ parents' = [s \in Slot |-> IF s \in gone THEN NoSlot ELSE parents[s]]
      /\ hosts' = [s \in Slot |-> IF s \in gone THEN NoLoan ELSE hosts[s]]
      /\ Closes({hosts[s] : s \in gone} \ {NoLoan}, refused)
Plain == Quiet \/ Turned \/ Filled \/ Dropped

\* The kinds that have no owner the code looks at, or may have none.
LEMMA Rootless ==
    \A kind \in
        {"net_pool", "net_epoll", "resolver", "http_context", "matching_context",
         "signaling_context", "score_title", "tus_title", "np_request", "np_callback",
         "auth_request", "ajm_context", "ngs2_system", "ngs2_report", "avplayer",
         "audio3d_port", "png_encoder", "png_decoder", "video_decoder", "video_decoder2",
         "font_library", "font_renderer", "move_handle", "zlib_request", "usb_transfer",
         "camera", "hmd_handle", "ime_session", "ime_keyboard", "trophy_context",
         "trophy_handle", "event_flag", "rwlock_attr", "rwlock", Vacant} :
      kind \notin DOMAIN Owners /\ \A p : Fits(kind, p)
  <1>1. DOMAIN Owners =
          {"http_template", "http_connection", "http_request", "http_epoll",
           "webapi_context", "webapi_user", "webapi_handle", "webapi_filter",
           "webapi_callback", "webapi_push", "score_request", "tus_request",
           "ajm_instance", "ajm_batch", "audio3d_object", "font", "ngs2_rack"}
    BY DEF Owners
  <1> QED
    BY <1>1 DEF Fits, Vacant

LEMMA RackRoot == Fits("ngs2_rack", NoSlot)
  <1>1. KindOf(NoSlot) = "nothing"
    BY LibraryAssumption DEF KindOf, NoSlot
  <1>2. "nothing" \in Owners["ngs2_rack"]
    BY DEF Owners
  <1> QED
    BY <1>1, <1>2 DEF Fits

\* The owners that the calls give to the other kinds.
LEMMA Owned ==
    /\ "http_context" \in Owners["http_template"]
    /\ "http_template" \in Owners["http_connection"]
    /\ "http_connection" \in Owners["http_request"]
    /\ "http_template" \in Owners["http_request"]
    /\ "webapi_user" \in Owners["http_request"]
    /\ "http_context" \in Owners["http_epoll"]
    /\ "http_context" \in Owners["webapi_context"]
    /\ "webapi_context" \in Owners["webapi_user"]
    /\ "webapi_context" \in Owners["webapi_handle"]
    /\ "webapi_context" \in Owners["webapi_filter"]
    /\ "webapi_user" \in Owners["webapi_callback"]
    /\ "webapi_context" \in Owners["webapi_callback"]
    /\ "webapi_user" \in Owners["webapi_push"]
    /\ "score_title" \in Owners["score_request"]
    /\ "tus_title" \in Owners["tus_request"]
    /\ "ajm_context" \in Owners["ajm_instance"]
    /\ "ajm_context" \in Owners["ajm_batch"]
    /\ "ngs2_system" \in Owners["ngs2_rack"]
    /\ "audio3d_port" \in Owners["audio3d_object"]
    /\ "font_library" \in Owners["font"]
    /\ "font" \in Owners["font"]
  <1>1. /\ "http_context" \in Owners["http_template"]
       /\ "http_template" \in Owners["http_connection"]
       /\ "http_connection" \in Owners["http_request"]
       /\ "http_template" \in Owners["http_request"]
       /\ "webapi_user" \in Owners["http_request"]
       /\ "http_context" \in Owners["http_epoll"]
    BY DEF Owners
  <1>2. /\ "http_context" \in Owners["webapi_context"]
       /\ "webapi_context" \in Owners["webapi_user"]
       /\ "webapi_context" \in Owners["webapi_handle"]
       /\ "webapi_context" \in Owners["webapi_filter"]
       /\ "webapi_user" \in Owners["webapi_callback"]
       /\ "webapi_context" \in Owners["webapi_callback"]
       /\ "webapi_user" \in Owners["webapi_push"]
    BY DEF Owners
  <1>3. /\ "score_title" \in Owners["score_request"]
       /\ "tus_title" \in Owners["tus_request"]
       /\ "ajm_context" \in Owners["ajm_instance"]
       /\ "ajm_context" \in Owners["ajm_batch"]
       /\ "ngs2_system" \in Owners["ngs2_rack"]
       /\ "audio3d_port" \in Owners["audio3d_object"]
       /\ "font_library" \in Owners["font"]
       /\ "font" \in Owners["font"]
    BY DEF Owners
  <1> QED
    BY <1>1, <1>2, <1>3

\* The kind of a living object.
LEMMA LivingKind ==
    ASSUME NEW kind, NEW p \in Living(kind)
    PROVE  p \in Slot /\ KindOf(p) = kind
  BY DEF Living, KindOf

\* The helpers that make objects.
LEMMA MadeFills ==
    ASSUME NEW kind, NEW p, Fits(kind, p), NEW s \in FirstVacant,
           Fills(s, kind, p), UNCHANGED loans
    PROVE  Plain
  BY DEF Fills, Plain, Filled

LEMMA RootFills ==
    ASSUME NEW kind, kind \notin DOMAIN Owners, Root(kind)
    PROVE  Plain
  BY MadeFills DEF Root, MakesAs, Fits

LEMMA UnderFills ==
    ASSUME NEW above, NEW kind, above \in Owners[kind], Under(above, kind)
    PROVE  Plain
  <1>1. \A p \in Living(above) : Fits(kind, p)
    BY LivingKind, Owned DEF Fits
  <1> QED
    BY <1>1, MadeFills DEF Under, MakesAs

\* What goes with a set of objects is closed under belonging.
LEMMA BelowClosed ==
    ASSUME NEW S
    PROVE  Below(S) \subseteq Slot /\ OneBelow(Below(S)) = Below(S)
  <1>1. ASSUME NEW s \in Slot, kinds[s] # Vacant, parents[s] \in Below(S)
        PROVE  s \in Below(S)
    <2>1. ASSUME NEW D \in SUBSET Slot, S \subseteq D, OneBelow(D) = D
          PROVE  s \in D
      BY <1>1, <2>1 DEF Below, OneBelow
    <2> QED
      BY <2>1 DEF Below
  <1> QED
    BY <1>1 DEF Below, OneBelow

\* The helpers that delete objects.
LEMMA DeletesDrops ==
    ASSUME NEW S, Deletes(S)
    PROVE  Plain
  <1>1. PICK refused \in SUBSET lent : DeletesBelow(Below(S), refused)
    BY DEF Deletes
  <1> QED
    BY <1>1, BelowClosed DEF DeletesBelow, Plain, Dropped

LEMMA DeletedDrops ==
    ASSUME NEW above, NEW kind, Deleted(kind) \/ DeletedFrom(above, kind)
    PROVE  Plain
  BY DeletesDrops DEF Deleted, DeletedFrom

\* The helpers that touch neither.
LEMMA SetsQuiet ==
    ASSUME NEW s, NEW row, Sets(s, row)
    PROVE  Plain
  BY DEF Sets, Plain, Quiet

LEMMA MarksQuiet ==
    ASSUME NEW kind, NEW state, Marks(kind, state) \/ Answers(kind, state)
    PROVE  Plain
  BY SetsQuiet DEF Marks, Answers

LEMMA StartsQuiet ==
    ASSUME NEW library, Starts(library) \/ EndsAlone(library)
    PROVE  Plain
  BY DEF Starts, EndsAlone, objects, Plain, Quiet

LEMMA EndsDrops ==
    ASSUME NEW library, NEW kind, Ends(library, kind)
    PROVE  Plain
  BY DeletesDrops DEF Ends

LEMMA PlacesQuiet ==
    ASSUME NEW flags, NEW p, Takes(flags, p) \/ Frees(flags) \/ EndsPlaces(flags)
    PROVE  Plain
  BY DEF Takes, Frees, EndsPlaces, objects, Plain, Quiet

\* The calls on the network and the web that hold no handle.
LEMMA NetPlain ==
    ASSUME OwnersLive,
           \/ NetObjects \/ Resolvers \/ NetCtl \/ NetCtlCallbacks
           \/ HttpObjects \/ HttpEpolls \/ HttpSetNonblock
           \/ WebapiFilters \/ WebapiCallbacks \/ WebapiPush
    PROVE  Plain
  <1>1. CASE NetObjects
    BY <1>1, RootFills, Rootless, DeletedDrops DEF NetObjects
  <1>2. CASE Resolvers
    BY <1>2, DeletedDrops, MadeFills, Rootless DEF Resolvers, MakesAs
  <1>3. CASE NetCtl \/ NetCtlCallbacks
    BY <1>3, StartsQuiet, PlacesQuiet DEF NetCtl, NetCtlCallbacks
  <1>4. CASE HttpObjects
    BY <1>4, RootFills, Rootless, UnderFills, Owned, DeletedDrops DEF HttpObjects
  <1>5. CASE HttpEpolls \/ HttpSetNonblock
    BY <1>5, UnderFills, Owned, DeletedDrops, SetsQuiet DEF HttpEpolls, HttpSetNonblock
  <1>6. CASE WebapiFilters
    BY <1>6, UnderFills, Owned, DeletedDrops DEF WebapiFilters
  <1>7. ASSUME NEW above \in {"webapi_user", "webapi_context"},
               NEW filter, NEW state, Registers(above, filter, state)
        PROVE  Plain
    <2>1. \A p \in Living(above) : Fits("webapi_callback", p)
      BY <1>7, LivingKind, Owned DEF Fits
    <2> QED
      BY <1>7, <2>1, MadeFills DEF Registers, MakesAs
  <1>8. CASE WebapiCallbacks
    BY <1>7, <1>8, DeletedDrops, DeletesDrops DEF WebapiCallbacks
  <1>9. ASSUME NEW h \in Living("webapi_handle"), FiltersFor(h)
        PROVE  Plain
    <2>1. "webapi_handle" \in DOMAIN Owners /\ Owners["webapi_handle"] = {"webapi_context"}
      BY DEF Owners
    <2>2. KindOf(parents[h]) = "webapi_context"
      BY <2>1 DEF OwnersLive, Living
    <2>3. Fits("webapi_filter", parents[h])
      BY <2>2, Owned DEF Fits
    <2> QED
      BY <1>9, <2>3, MadeFills DEF FiltersFor, MakesAs
  <1>10. CASE WebapiPush
    BY <1>7, <1>9, <1>10, UnderFills, Owned, DeletedDrops, MarksQuiet DEF WebapiPush
  <1> QED
    BY <1>1, <1>2, <1>3, <1>4, <1>5, <1>6, <1>8, <1>10

\* The calls on accounts, pictures and sound that hold no handle.
LEMMA MediaPlain ==
    ASSUME \/ NpMatching \/ NpSignaling \/ NpScore \/ NpTus \/ NpManager \/ NpAuth
           \/ Ajm \/ Ngs2 \/ Ngs2Reports \/ Audio3d
           \/ PngEncoders \/ PngDecoders \/ VideoDecoders \/ VideoDecoders2
           \/ Fonts \/ FontRenderers
    PROVE  Plain
  <1>1. CASE NpMatching \/ NpSignaling
    BY <1>1, StartsQuiet, EndsDrops, RootFills, Rootless, DeletedDrops DEF NpMatching, NpSignaling
  <1>2. CASE NpScore \/ NpTus
    BY <1>2, RootFills, Rootless, UnderFills, Owned, DeletedDrops, MarksQuiet DEF NpScore, NpTus
  <1>3. CASE NpManager
    BY <1>3, MadeFills, RootFills, Rootless, DeletedDrops, MarksQuiet, SetsQuiet
    DEF NpManager, MakesAs
  <1>4. CASE NpAuth
    BY <1>4, MadeFills, Rootless, DeletedDrops, SetsQuiet DEF NpAuth, MakesAs
  <1>5. CASE Ajm
    <2>1. \A c \in Living("ajm_context") : Fits("ajm_instance", c)
      BY LivingKind, Owned DEF Fits
    <2>2. ASSUME NEW c \in Living("ajm_context"), MakesAs("ajm_instance", c, Unset)
          PROVE  Plain
      BY <2>1, <2>2, MadeFills DEF MakesAs
    <2> QED
      BY <1>5, <2>2, RootFills, Rootless, UnderFills, Owned, DeletesDrops, DeletedDrops,
         MarksQuiet DEF Ajm
  <1>6. CASE Ngs2 \/ Ngs2Reports
    <2>1. \A p \in Living("ngs2_system") \cup {NoSlot} : Fits("ngs2_rack", p)
      BY LivingKind, Owned, RackRoot DEF Fits
    <2>2. ASSUME NEW p \in Living("ngs2_system") \cup {NoSlot}, MakesAs("ngs2_rack", p, Unset)
          PROVE  Plain
      BY <2>1, <2>2, MadeFills DEF MakesAs
    <2>3. ASSUME NEW p, MakesAs("ngs2_report", p, Unset)
          PROVE  Plain
      BY <2>3, MadeFills, Rootless DEF MakesAs
    <2> QED
      BY <1>6, <2>2, <2>3, RootFills, Rootless, DeletedDrops, SetsQuiet DEF Ngs2, Ngs2Reports
  <1>7. CASE Audio3d
    BY <1>7, StartsQuiet, RootFills, Rootless, UnderFills, Owned, DeletedDrops, SetsQuiet DEF Audio3d
  <1>8. CASE PngEncoders \/ PngDecoders \/ VideoDecoders \/ VideoDecoders2
    BY <1>8, RootFills, Rootless, DeletedDrops
    DEF PngEncoders, PngDecoders, VideoDecoders, VideoDecoders2
  <1>9. CASE Fonts \/ FontRenderers
    BY <1>9, RootFills, Rootless, UnderFills, Owned, DeletedDrops, SetsQuiet DEF Fonts, FontRenderers
  <1> QED
    BY <1>1, <1>2, <1>3, <1>4, <1>5, <1>6, <1>7, <1>8, <1>9

\* The calls on devices, trophies and locks.
LEMMA DevicePlain ==
    ASSUME \/ Move \/ Camera \/ Hmd \/ Ime \/ Usbd \/ Zlib \/ PlayGo
           \/ VrTracker \/ Pads \/ Trophies \/ EventFlags \/ RwLocks
    PROVE  Plain
  <1>1. CASE Move \/ Camera \/ Hmd \/ Ime
    BY <1>1, StartsQuiet, EndsDrops, RootFills, Rootless, DeletedDrops DEF Move, Camera, Hmd, Ime
  <1>2. CASE Usbd
    BY <1>2, StartsQuiet, RootFills, Rootless, DeletedDrops, DeletesDrops DEF Usbd, Plain, Turned
  <1>3. CASE Zlib
    BY <1>3, MadeFills, Rootless, StartsQuiet, EndsDrops, SetsQuiet DEF Zlib, MakesAs
  <1>4. CASE PlayGo
    BY <1>4, StartsQuiet DEF PlayGo, objects, Plain, Quiet
  <1>5. CASE VrTracker \/ Pads
    BY <1>5, StartsQuiet, PlacesQuiet DEF VrTracker, Pads
  <1>6. CASE Trophies
    <2>1. ASSUME TrophyContext
          PROVE  Plain
      BY <2>1, MadeFills, Rootless DEF TrophyContext
    <2>2. ASSUME NEW s, NEW t, TrophyUnlock(s, t)
          PROVE  Plain
      BY <2>2 DEF TrophyUnlock, objects, Plain, Quiet
    <2> QED
      BY <1>6, <2>1, <2>2, RootFills, Rootless, DeletedDrops, MarksQuiet DEF Trophies
  <1>7. CASE EventFlags \/ RwLocks
    BY <1>7, RootFills, Rootless, DeletedDrops, MarksQuiet, SetsQuiet DEF EventFlags, RwLocks
  <1> QED
    BY <1>1, <1>2, <1>3, <1>4, <1>5, <1>6, <1>7
----------------------------------------------------------------------------
\* What a step does to the handles

\* Handles closed and no longer named: the rest are open and named as before.
LEMMA ClosedNames ==
    ASSUME LoanInv, NEW gone \in SUBSET Slot, NEW refused,
           hosts' = [s \in Slot |-> IF s \in gone THEN NoLoan ELSE hosts[s]],
           Closes({hosts[s] : s \in gone} \ {NoLoan}, refused)
    PROVE  LoansNamed'
  <1> DEFINE loaned == {hosts[s] : s \in gone} \ {NoLoan}
  <1>1. lent' = lent \ (loaned \ refused) /\ abandoned' = (abandoned \cup loaned) \cap lent'
    BY DEF Closes
  <1>2. \A s, u \in Slot : hosts'[s] # NoLoan /\ s # u => hosts'[u] # hosts'[s]
    BY DEF LoanInv, LoansNamed
  <1>3. ASSUME NEW h \in HostsNamed'
        PROVE  h \in lent'
    <2>1. PICK s \in Slot : h = hosts'[s] /\ h # NoLoan
      BY <1>3 DEF HostsNamed
    <2>2. s \notin gone /\ h = hosts[s]
      BY <2>1
    <2>3. h \in lent /\ \A u \in gone : hosts[u] # h
      BY <2>1, <2>2 DEF LoanInv, LoansNamed, HostsNamed
    <2> QED
      BY <1>1, <2>3
  <1>4. ASSUME NEW h \in lent' \ abandoned'
        PROVE  h \in HostsNamed'
    <2>1. h \in lent \ abandoned /\ h \notin loaned
      BY <1>1, <1>4
    <2>2. PICK s \in Slot : h = hosts[s] /\ h # NoLoan
      BY <2>1 DEF LoanInv, LoansNamed, HostsNamed
    <2>3. hosts'[s] = h
      BY <2>1, <2>2
    <2> QED
      BY <2>2, <2>3 DEF HostsNamed
  <1> QED
    BY <1>2, <1>3, <1>4 DEF LoansNamed

\* A slot given another handle, none of the ones held, or the handle it had none
\* of before; what it held is abandoned or closed.
LEMMA HandleGiven ==
    ASSUME LoanInv, NEW s \in Slot, NEW h \in AppHandle \ lent, NEW refused,
           refused \subseteq {hosts[s]} \ {NoLoan},
           hosts' = [hosts EXCEPT ![s] = h],
           lent' = (lent \cup {h}) \ (({hosts[s]} \ {NoLoan}) \ refused),
           abandoned' = abandoned \cup refused
    PROVE  LoansNamed' /\ hosts' \in [Slot -> AppHandle \cup {NoLoan}]
  <1>1. /\ hosts' \in [Slot -> AppHandle \cup {NoLoan}] /\ hosts'[s] = h
        /\ \A u \in Slot \ {s} : hosts'[u] = hosts[u]
    BY DEF LoanInv
  <1>2. h # NoLoan /\ \A u \in Slot : hosts[u] # h
    BY LibraryAssumption DEF LoanInv, LoansNamed, HostsNamed
  <1>3. \A t, u \in Slot : hosts'[t] # NoLoan /\ t # u => hosts'[u] # hosts'[t]
    BY <1>1, <1>2 DEF LoanInv, LoansNamed
  <1>4. ASSUME NEW g \in HostsNamed'
        PROVE  g \in lent'
    <2>1. PICK u \in Slot : g = hosts'[u] /\ g # NoLoan
      BY <1>4 DEF HostsNamed
    <2>2. CASE u = s
      BY <1>1, <1>2, <2>1, <2>2
    <2>3. CASE u # s
      <3>1. g \in lent /\ g # hosts[s]
        BY <1>1, <2>1, <2>3 DEF LoanInv, LoansNamed, HostsNamed
      <3> QED
        BY <3>1
    <2> QED
      BY <2>2, <2>3
  <1>5. ASSUME NEW g \in lent' \ abandoned'
        PROVE  g \in HostsNamed'
    <2>1. CASE g = h
      BY <1>1, <1>2, <2>1 DEF HostsNamed
    <2>2. CASE g # h
      <3>1. g \in lent \ abandoned /\ g \notin {hosts[s]} \ {NoLoan}
        BY <1>5, <2>2
      <3>2. PICK u \in Slot : g = hosts[u] /\ g # NoLoan
        BY <3>1 DEF LoanInv, LoansNamed, HostsNamed
      <3>3. hosts'[u] = g
        BY <1>1, <3>1, <3>2
      <3> QED
        BY <3>2, <3>3 DEF HostsNamed
    <2> QED
      BY <2>1, <2>2
  <1> QED
    BY <1>1, <1>3, <1>4, <1>5 DEF LoansNamed

LEMMA PlainStep ==
    ASSUME LoanInv, Plain
    PROVE  LoanInv'
  <1>1. CASE Quiet
    BY <1>1 DEF Quiet, loans, LoanInv, LoansNamed, HostsNamed
  <1>4. CASE Turned
    BY <1>4 DEF Turned, loans, LoanInv, LoansNamed, HostsNamed
  <1>2. CASE Filled
    <2>1. PICK s \in FirstVacant : \E kind :
            /\ kinds' = [kinds EXCEPT ![s] = kind]
            /\ hosts' = [hosts EXCEPT ![s] = NoLoan]
            /\ UNCHANGED loans
      BY <1>2 DEF Filled
    <2>2. s \in Slot /\ hosts[s] = NoLoan
      BY DEF FirstVacant, Living, LoanInv
    <2>3. hosts' = hosts /\ lent' = lent /\ abandoned' = abandoned
      BY <2>1, <2>2 DEF LoanInv, loans
    <2>4. /\ kinds' = [u \in Slot |-> kinds'[u]]
          /\ \A u \in Slot \ {s} : kinds'[u] = kinds[u]
      BY <2>1 DEF LoanInv
    <2> QED
      BY <2>2, <2>3, <2>4 DEF LoanInv, LoansNamed, HostsNamed
  <1>3. CASE Dropped
    <2>1. PICK gone \in SUBSET Slot, refused \in SUBSET lent :
            /\ kinds' = [s \in Slot |-> IF s \in gone THEN Vacant ELSE kinds[s]]
            /\ hosts' = [s \in Slot |-> IF s \in gone THEN NoLoan ELSE hosts[s]]
            /\ Closes({hosts[s] : s \in gone} \ {NoLoan}, refused)
      BY <1>3 DEF Dropped
    <2>2. LoansNamed'
      BY <2>1, ClosedNames
    <2>3. kinds' = [s \in Slot |-> kinds'[s]]
      BY <2>1
    <2>4. hosts' \in [Slot -> AppHandle \cup {NoLoan}]
      BY <2>1 DEF LoanInv
    <2>5. \A s \in Slot : kinds'[s] = Vacant => hosts'[s] = NoLoan
      BY <2>1 DEF LoanInv
    <2> QED
      BY <2>2, <2>3, <2>4, <2>5 DEF LoanInv
  <1> QED
    BY <1>1, <1>2, <1>3, <1>4 DEF Plain

\* A request opened, in a slot or in none.
LEMMA OpensStep ==
    ASSUME LoanInv, NEW p, OpensRequest(p)
    PROVE  LoanInv'
  <1>1. PICK h \in AppHandle \ lent :
          \/ /\ Keeps(h)
             /\ \E s \in FirstVacant :
                  /\ kinds' = [kinds EXCEPT ![s] = "http_request"]
                  /\ parents' = [parents EXCEPT ![s] = p]
                  /\ hosts' = [hosts EXCEPT ![s] = h]
          \/ FirstVacant = {} /\ ClosesAgain(h) /\ UNCHANGED <<kinds, parents, hosts>>
    BY DEF OpensRequest
  <1>2. CASE Keeps(h) /\ \E s \in FirstVacant :
                  /\ kinds' = [kinds EXCEPT ![s] = "http_request"]
                  /\ hosts' = [hosts EXCEPT ![s] = h]
    <2>1. PICK s \in FirstVacant : /\ kinds' = [kinds EXCEPT ![s] = "http_request"]
                                   /\ hosts' = [hosts EXCEPT ![s] = h]
      BY <1>2
    <2>2. s \in Slot /\ hosts[s] = NoLoan
      BY DEF FirstVacant, Living, LoanInv
    <2>3. /\ lent' = (lent \cup {h}) \ (({hosts[s]} \ {NoLoan}) \ {})
          /\ abandoned' = abandoned \cup {}
      BY <1>2, <2>2 DEF Keeps
    <2>4. LoansNamed' /\ hosts' \in [Slot -> AppHandle \cup {NoLoan}]
      BY <2>1, <2>2, <2>3, HandleGiven
    <2>5. kinds' = [u \in Slot |-> kinds'[u]]
      BY <2>1 DEF LoanInv
    <2>6. \A u \in Slot : kinds'[u] = Vacant => hosts'[u] = NoLoan
      BY <2>1, <2>2 DEF LoanInv, Vacant
    <2> QED
      BY <2>4, <2>5, <2>6 DEF LoanInv
  <1>3. CASE ClosesAgain(h) /\ UNCHANGED <<kinds, hosts>>
    BY <1>3, LibraryAssumption DEF ClosesAgain, LoanInv, LoansNamed, HostsNamed
  <1> QED
    BY <1>1, <1>2, <1>3

\* A player given its source, or another.
LEMMA PlayerStep ==
    ASSUME LoanInv, NEW s \in Slot, kinds[s] # Vacant, PlayerOpens(s)
    PROVE  LoanInv'
  <1>1. PICK h \in AppHandle \ lent, refused \in SUBSET ({hosts[s]} \ {NoLoan}) :
          /\ hosts' = [hosts EXCEPT ![s] = h]
          /\ lent' = (lent \cup {h}) \ (({hosts[s]} \ {NoLoan}) \ refused)
          /\ abandoned' = abandoned \cup refused
    BY DEF PlayerOpens
  <1>2. LoansNamed' /\ hosts' \in [Slot -> AppHandle \cup {NoLoan}]
    BY <1>1, HandleGiven
  <1>3. kinds' = kinds /\ \A u \in Slot \ {s} : hosts'[u] = hosts[u]
    BY <1>1 DEF PlayerOpens, LoanInv
  <1> QED
    BY <1>2, <1>3 DEF LoanInv

\* The exit and the reset.
LEMMA EndsStep ==
    ASSUME LoanInv, LibraryExit \/ LibraryReset
    PROVE  LoanInv'
  <1>2. ASSUME NEW refused, Closes(HostsNamed, refused), hosts' = [s \in Slot |-> NoLoan]
        PROVE  LoansNamed'
    <2>1. HostsNamed = {hosts[s] : s \in Slot} \ {NoLoan}
      BY DEF HostsNamed
    <2>2. hosts' = [s \in Slot |-> IF s \in Slot THEN NoLoan ELSE hosts[s]]
      BY <1>2
    <2> QED
      BY <1>2, <2>1, <2>2, ClosedNames
  <1>3. CASE LibraryExit
    <2>1. LoansNamed'
      BY <1>2, <1>3 DEF LibraryExit
    <2> QED
      BY <1>3, <2>1 DEF LibraryExit, LoanInv
  <1>4. CASE LibraryReset
    <2>1. LoansNamed'
      <3>1. CASE ~cleaned
        BY <1>2, <1>4, <3>1 DEF LibraryReset
      <3>2. CASE cleaned
        BY <1>4, <3>2 DEF LibraryReset, LoanInv, LoansNamed, HostsNamed
      <3> QED
        BY <3>1, <3>2
    <2> QED
      BY <1>4, <2>1 DEF LibraryReset, LoanInv
  <1> QED
    BY <1>3, <1>4

----------------------------------------------------------------------------
\* What a step does to the owners

\* Nothing belongs to a vacant slot.
LEMMA VacantOwnsNone ==
    ASSUME OwnersLive, NEW s \in Slot, kinds[s] = Vacant,
           NEW u \in Slot, kinds[u] \in DOMAIN Owners
    PROVE  parents[u] # s
  <1>1. \A kind \in DOMAIN Owners : Vacant \notin Owners[kind]
    BY DEF Owners, Vacant
  <1> QED
    BY <1>1 DEF OwnersLive, KindOf

\* An object made in a vacant slot for an owner that fits.
LEMMA AddedFits ==
    ASSUME OwnerInv, NEW s \in FirstVacant, NEW kind, NEW p, Fits(kind, p),
           kinds' = [kinds EXCEPT ![s] = kind], parents' = [parents EXCEPT ![s] = p]
    PROVE  OwnerInv'
  <1>1. s \in Slot /\ kinds[s] = Vacant
    BY DEF FirstVacant, Living
  <1>2. /\ kinds' = [u \in Slot |-> kinds'[u]] /\ parents' = [u \in Slot |-> parents'[u]]
        /\ kinds'[s] = kind /\ parents'[s] = p
        /\ \A u \in Slot \ {s} : kinds'[u] = kinds[u] /\ parents'[u] = parents[u]
    BY <1>1 DEF OwnerInv
  <1>3. ASSUME NEW u \in Slot \ {s}, kinds'[u] \in DOMAIN Owners
        PROVE  KindOf(parents[u])' \in Owners[kinds'[u]]
    <2>1. parents[u] # s /\ KindOf(parents[u]) \in Owners[kinds[u]]
      BY <1>1, <1>2, <1>3, VacantOwnsNone DEF OwnerInv, OwnersLive
    <2>2. KindOf(parents[u])' = KindOf(parents[u])
      BY <1>2, <2>1 DEF KindOf
    <2> QED
      BY <1>2, <2>1, <2>2
  <1>4. ASSUME kind \in DOMAIN Owners
        PROVE  KindOf(parents[s])' \in Owners[kind]
    <2>1. \A k \in DOMAIN Owners : Vacant \notin Owners[k]
      BY DEF Owners, Vacant
    <2>2. p # s
      BY <1>1, <1>4, <2>1 DEF Fits, KindOf
    <2>3. KindOf(parents[s])' = KindOf(p)
      BY <1>2, <2>2 DEF KindOf
    <2> QED
      BY <1>4, <2>3 DEF Fits
  <1>5. OwnersLive'
    BY <1>2, <1>3, <1>4 DEF OwnersLive
  <1> QED
    BY <1>2, <1>5 DEF OwnerInv

LEMMA PlainKeepsOwners ==
    ASSUME OwnerInv, Plain
    PROVE  OwnerInv'
  <1>1. CASE Quiet
    BY <1>1 DEF Quiet, OwnerInv, OwnersLive, KindOf
  <1>2. CASE Turned
    <2>1. PICK s \in Living("usb_transfer") : \E p : parents' = [parents EXCEPT ![s] = p]
      BY <1>2 DEF Turned
    <2>2. s \in Slot /\ kinds[s] \notin DOMAIN Owners
      BY Rootless DEF Living
    <2>3. \A u \in Slot \ {s} : parents'[u] = parents[u]
      BY <2>1 DEF OwnerInv
    <2>4. kinds' = kinds /\ parents' = [u \in Slot |-> parents'[u]]
      BY <1>2, <2>1 DEF Turned, OwnerInv
    <2> QED
      BY <2>2, <2>3, <2>4 DEF OwnerInv, OwnersLive, KindOf
  <1>3. CASE Filled
    BY <1>3, AddedFits DEF Filled
  <1>4. CASE Dropped
    <2>1. PICK gone \in SUBSET Slot :
            /\ OneBelow(gone) = gone
            /\ kinds' = [s \in Slot |-> IF s \in gone THEN Vacant ELSE kinds[s]]
            /\ parents' = [s \in Slot |-> IF s \in gone THEN NoSlot ELSE parents[s]]
      BY <1>4 DEF Dropped
    <2>2. Vacant \notin DOMAIN Owners
      BY Rootless
    <2>3. ASSUME NEW u \in Slot, kinds'[u] \in DOMAIN Owners
          PROVE  KindOf(parents[u])' \in Owners[kinds'[u]]
      <3>1. u \notin gone /\ kinds'[u] = kinds[u] /\ kinds[u] # Vacant
        BY <2>1, <2>2, <2>3
      <3>2. parents'[u] = parents[u] /\ parents[u] \notin gone
        BY <2>1, <3>1 DEF OneBelow
      <3>3. KindOf(parents[u])' = KindOf(parents[u])
        BY <2>1, <3>2 DEF KindOf
      <3> QED
        BY <2>3, <3>1, <3>3 DEF OwnerInv, OwnersLive
    <2>4. OwnersLive'
      BY <2>3 DEF OwnersLive
    <2> QED
      BY <2>1, <2>4 DEF OwnerInv
  <1> QED
    BY <1>1, <1>2, <1>3, <1>4 DEF Plain

----------------------------------------------------------------------------
\* Every step

\* Every call is a plain one, opens a request for an owner of its kind, gives a
\* player its source, or ends things.
LEMMA StepKinds ==
    ASSUME OwnersLive, [LibraryNext]_libraryVars
    PROVE  \/ Plain
           \/ \E p \in Slot : Fits("http_request", p) /\ OpensRequest(p)
           \/ \E s \in Slot : kinds[s] # Vacant /\ PlayerOpens(s)
           \/ LibraryExit \/ LibraryReset
  <1>1. CASE UNCHANGED libraryVars
    BY <1>1 DEF libraryVars, Plain, Quiet, loans
  <1>2. CASE HttpRequests \/ Http2Requests \/ WebapiObjects
    <2>1. \A above \in {"http_connection", "http_template", "webapi_user"} :
            \A p \in Living(above) : p \in Slot /\ Fits("http_request", p)
      BY LivingKind, Owned DEF Fits
    <2>2. CASE HttpRequests \/ Http2Requests
      BY <2>1, <2>2 DEF HttpRequests, Http2Requests
    <2>3. CASE WebapiObjects
      BY <2>1, <2>3, UnderFills, Owned, DeletedDrops DEF WebapiObjects, WebapiRequests
    <2> QED
      BY <1>2, <2>2, <2>3
  <1>3. CASE AvPlayer
    <2>1. \A s \in Living("avplayer") : s \in Slot /\ kinds[s] # Vacant
      BY DEF Living, Vacant
    <2> QED
      BY <1>3, <2>1, RootFills, Rootless, DeletedDrops, SetsQuiet DEF AvPlayer
  <1>4. CASE HttpDeleteRequest
    <2>1. PICK s \in Slot : DeletesBelow(Below({s}), {})
      BY <1>4 DEF HttpDeleteRequest, Living
    <2> QED
      BY <2>1, BelowClosed DEF DeletesBelow, Plain, Dropped
  <1> QED
    BY <1>1, <1>2, <1>3, <1>4, NetPlain, MediaPlain, DevicePlain DEF LibraryNext

LEMMA OwnerStep ==
    ASSUME OwnerInv, [LibraryNext]_libraryVars
    PROVE  OwnerInv'
  <1>1. CASE Plain
    BY <1>1, PlainKeepsOwners
  <1>2. ASSUME NEW p, Fits("http_request", p), OpensRequest(p)
        PROVE  OwnerInv'
    <2>1. CASE UNCHANGED <<kinds, parents>>
      BY <2>1 DEF OwnerInv, OwnersLive, KindOf
    <2>2. CASE \E s \in FirstVacant : /\ kinds' = [kinds EXCEPT ![s] = "http_request"]
                                     /\ parents' = [parents EXCEPT ![s] = p]
      BY <1>2, <2>2, AddedFits
    <2> QED
      BY <1>2, <2>1, <2>2 DEF OpensRequest
  <1>3. CASE LibraryExit \/ \E s \in Slot : PlayerOpens(s)
    BY <1>3 DEF LibraryExit, PlayerOpens, OwnerInv, OwnersLive, KindOf
  <1>4. CASE LibraryReset
    BY <1>4, Rootless DEF LibraryReset, OwnerInv, OwnersLive
  <1> QED
    BY <1>1, <1>2, <1>3, <1>4, StepKinds DEF OwnerInv

LEMMA LoanStep ==
    ASSUME OwnersLive, LoanInv, [LibraryNext]_libraryVars
    PROVE  LoanInv'
  BY StepKinds, PlainStep, OpensStep, PlayerStep, EndsStep

LEMMA AlwaysLibraryInv == LibrarySpec => [](OwnerInv /\ LoanInv)
  <1>1. LibraryInit => OwnerInv
    BY Rootless DEF LibraryInit, OwnerInv, OwnersLive
  <1>2. LibraryInit => LoanInv
    BY DEF LibraryInit, LoanInv, LoansNamed, HostsNamed
  <1>3. OwnerInv => OwnersLive
    BY DEF OwnerInv
  <1> QED
    BY <1>1, <1>2, <1>3, OwnerStep, LoanStep, PTL DEF LibrarySpec

\* No handle that a request or a player holds is lost, or held by two objects,
\* whatever the libraries, however many slots and handles there are.
THEOREM LoansNamedHolds == LibrarySpec => []LoansNamed
  <1>1. LoanInv => LoansNamed
    BY DEF LoanInv
  <1> QED
    BY <1>1, AlwaysLibraryInv, PTL

\* No object outlives the one it belongs to, nor comes to belong to the next object
\* of its slot: what the code takes for the owner of an object is one, in every
\* order of creations, deletions, ends and resets.
THEOREM OwnersLiveHolds == LibrarySpec => []OwnersLive
  <1>1. OwnerInv => OwnersLive
    BY DEF OwnerInv
  <1> QED
    BY <1>1, AlwaysLibraryInv, PTL

----------------------------------------------------------------------------
\* What slots and libraries pass on

\* What the slots hold, the libraries that are initialised and the flags they keep: the
\* rest of ObjectsWhole, with the columns of every row.
SlotInv ==
    /\ columns \in [Slot -> Rows]
    /\ DOMAIN trophies = Slot /\ DOMAIN earned = Slot /\ DOMAIN taken = FlagSets
    /\ NothingInherited /\ NothingAfterEnd /\ WritersAlone
WholeInv == OwnerInv /\ LoanInv /\ SlotInv

\* Kinds of objects that no end of a library and no flag is about.
Ordinary(kind) ==
    kind \notin {Vacant, "rwlock", "trophy_context", "move_handle", "zlib_request",
                 "matching_context", "signaling_context"}
\* An object of the kind may be made now.
Allowed(kind) ==
    /\ kind # Vacant
    /\ kind = "move_handle" => "move" \in started
    /\ kind = "zlib_request" => "zlib" \in started
    /\ kind = "matching_context" => "np_matching" \in started
    /\ kind = "signaling_context" => "np_signaling" \in started
\* A lock with such a row is written by one or read.
LockRow(row) == row.state = "written" => row.level = 0

LEMMA RowChanged ==
    ASSUME NEW row \in Rows
    PROVE  /\ \A state \in {"idle", "active", "aborted", "offline", "new", "codec", "locked",
                            "sourced", "playing", "registered", "set", "written"} :
                /\ [row EXCEPT !.state = state] \in Rows
                /\ [row EXCEPT !.state = state].level = row.level
                /\ [row EXCEPT !.state = state].state = state
           /\ \A on \in BOOLEAN : /\ [row EXCEPT !.nonblock = on] \in Rows
                                  /\ [row EXCEPT !.nonblock = on].level = row.level
                                  /\ [row EXCEPT !.nonblock = on].state = row.state
           /\ \A p \in Slot \cup {NoSlot} : /\ [row EXCEPT !.refers = p] \in Rows
           /\ \A n \in 0 .. Depth : /\ [row EXCEPT !.level = n] \in Rows
                                    /\ [row EXCEPT !.level = n].level = n
                                    /\ [row EXCEPT !.level = n].state = row.state
           /\ row.level \in 0 .. Depth
<1> DEFINE states == {"idle", "active", "aborted", "offline", "new", "codec", "locked",
                      "sourced", "playing", "registered", "set", "written"}
           levels == 0 .. Depth  slots == Slot \cup {NoSlot}
<1>1. row \in [refers : slots, nonblock : BOOLEAN, level : levels, state : states]
  BY DEF Rows
<1> HIDE DEF states, levels, slots
<1>2. /\ \A state \in states :
           /\ [row EXCEPT !.state = state]
                \in [refers : slots, nonblock : BOOLEAN, level : levels, state : states]
           /\ [row EXCEPT !.state = state].level = row.level
           /\ [row EXCEPT !.state = state].state = state
  BY <1>1
<1>3. /\ \A on \in BOOLEAN :
           /\ [row EXCEPT !.nonblock = on]
                \in [refers : slots, nonblock : BOOLEAN, level : levels, state : states]
           /\ [row EXCEPT !.nonblock = on].level = row.level
           /\ [row EXCEPT !.nonblock = on].state = row.state
      /\ \A p \in slots :
           [row EXCEPT !.refers = p]
             \in [refers : slots, nonblock : BOOLEAN, level : levels, state : states]
  BY <1>1
<1>4. /\ \A n \in levels :
           /\ [row EXCEPT !.level = n]
                \in [refers : slots, nonblock : BOOLEAN, level : levels, state : states]
           /\ [row EXCEPT !.level = n].level = n
           /\ [row EXCEPT !.level = n].state = row.state
      /\ row.level \in levels
  BY <1>1
<1> QED BY <1>2, <1>3, <1>4 DEF Rows, states, levels, slots

\* The same of a row with a name.
LEMMA NamedRow ==
    ASSUME NEW row \in Rows, NEW new
    PROVE  /\ \A n \in 0 .. Depth :
                new = [row EXCEPT !.level = n] => new \in Rows /\ new.state = row.state
           /\ \A state \in {"written", "idle"} :
                new = [row EXCEPT !.state = state] =>
                  new \in Rows /\ new.level = row.level /\ new.state = state
           /\ \A on \in BOOLEAN :
                new = [row EXCEPT !.nonblock = on] =>
                  new \in Rows /\ new.level = row.level /\ new.state = row.state
<1>1. ASSUME NEW n \in 0 .. Depth, new = [row EXCEPT !.level = n]
      PROVE  new \in Rows /\ new.state = row.state
  <2>1. [row EXCEPT !.level = n] \in Rows
    BY RowChanged
  <2>2. new.state = row.state
    BY <1>1 DEF Rows
  <2> QED BY <1>1, <2>1, <2>2
<1>2. ASSUME NEW state \in {"written", "idle"}, new = [row EXCEPT !.state = state]
      PROVE  new \in Rows /\ new.level = row.level /\ new.state = state
  <2>1. [row EXCEPT !.state = state] \in Rows
    BY RowChanged
  <2>2. new.level = row.level /\ new.state = state
    BY <1>2 DEF Rows
  <2> QED BY <1>2, <2>1, <2>2
<1>3. ASSUME NEW on \in BOOLEAN, new = [row EXCEPT !.nonblock = on]
      PROVE  new \in Rows /\ new.level = row.level /\ new.state = row.state
  <2>1. [row EXCEPT !.nonblock = on] \in Rows
    BY RowChanged
  <2>2. new.level = row.level /\ new.state = row.state
    BY <1>3 DEF Rows
  <2> QED BY <1>3, <2>1, <2>2
<1> QED BY <1>1, <1>2, <1>3

LEMMA BlankRow == Blank \in Rows /\ LockRow(Blank)
<1>1. 0 \in 0 .. Depth
  BY LibraryAssumption
<1> QED BY <1>1 DEF Blank, Rows, LockRow, NoSlot

\* An object is made in a vacant slot.
LEMMA BornWhole ==
    ASSUME WholeInv, NEW s \in FirstVacant, NEW kind, Allowed(kind), NEW row \in Rows,
           kind = "rwlock" => LockRow(row),
           kinds' = [kinds EXCEPT ![s] = kind],
           columns' = [columns EXCEPT ![s] = row],
           \A u \in Slot \ {s} : parents'[u] = parents[u] /\ hosts'[u] = hosts[u],
           UNCHANGED <<started, taken>>,
           DOMAIN trophies' = Slot, DOMAIN earned' = Slot,
           \A u \in Slot \ {s} : trophies'[u] = trophies[u] /\ earned'[u] = earned[u],
           kind = "trophy_context" => trophies'[s] = earned'[s]
    PROVE  SlotInv'
<1>1. s \in Slot /\ kinds[s] = Vacant /\ kind # Vacant
  BY DEF FirstVacant, Living, Allowed
<1>2. /\ columns' \in [Slot -> Rows] /\ columns'[s] = row /\ kinds'[s] = kind
      /\ \A u \in Slot \ {s} : columns'[u] = columns[u] /\ kinds'[u] = kinds[u]
  BY <1>1 DEF WholeInv, SlotInv, OwnerInv
<1>3. NothingInherited'
  <2>1. ASSUME NEW u \in Slot \ {s}
        PROVE  /\ kinds'[u] = Vacant =>
                    parents'[u] = NoSlot /\ hosts'[u] = NoLoan /\ columns'[u] = Blank
               /\ kinds'[u] = "trophy_context" => trophies'[u] = earned'[u]
    BY <1>2, <2>1 DEF WholeInv, SlotInv, NothingInherited
  <2>2. /\ kinds'[s] # Vacant
        /\ kinds'[s] = "trophy_context" => trophies'[s] = earned'[s]
    BY <1>1, <1>2
  <2>3. \A u \in Slot :
          /\ kinds'[u] = Vacant =>
               parents'[u] = NoSlot /\ hosts'[u] = NoLoan /\ columns'[u] = Blank
          /\ kinds'[u] = "trophy_context" => trophies'[u] = earned'[u]
    BY <2>1, <2>2
  <2> QED BY <2>3 DEF NothingInherited, Blank
<1>4. NothingAfterEnd'
  <2>1. \A k : Living(k)' \subseteq IF k = kind THEN Living(k) \cup {s} ELSE Living(k)
    BY <1>2 DEF Living
  <2>2. NothingAfterEnd
    BY DEF WholeInv, SlotInv
  <2>3. /\ "move" \notin started' => Living("move_handle")' = {}
        /\ "zlib" \notin started' => Living("zlib_request")' = {}
        /\ "np_matching" \notin started' => Living("matching_context")' = {}
        /\ "np_signaling" \notin started' => Living("signaling_context")' = {}
    BY <2>1, <2>2 DEF NothingAfterEnd, Allowed
  <2> QED BY <2>2, <2>3 DEF NothingAfterEnd
<1>5. WritersAlone'
  BY <1>1, <1>2 DEF WholeInv, SlotInv, WritersAlone, Living, LockRow
<1> QED BY <1>2, <1>3, <1>4, <1>5 DEF WholeInv, SlotInv

\* An object changes.
LEMMA MarkedWhole ==
    ASSUME WholeInv, NEW s \in Slot, kinds[s] # Vacant, NEW row \in Rows,
           kinds[s] = "rwlock" => LockRow(row),
           columns' = [columns EXCEPT ![s] = row],
           \A u \in Slot \ {s} : parents'[u] = parents[u] /\ hosts'[u] = hosts[u],
           UNCHANGED <<kinds, started, taken, trophies, earned>>
    PROVE  SlotInv'
<1>2. /\ columns' \in [Slot -> Rows] /\ columns'[s] = row
      /\ \A u \in Slot \ {s} : columns'[u] = columns[u]
  BY DEF WholeInv, SlotInv
<1>3. NothingInherited'
  BY <1>2 DEF WholeInv, SlotInv, NothingInherited, Blank
<1>4. NothingAfterEnd'
  BY DEF WholeInv, SlotInv, NothingAfterEnd, Living
<1>5. WritersAlone'
  BY <1>2 DEF WholeInv, SlotInv, WritersAlone, Living, LockRow
<1> QED BY <1>2, <1>3, <1>4, <1>5 DEF WholeInv, SlotInv

\* Libraries that end with the objects they made.
Endings == {<<"move", "move_handle">>, <<"zlib", "zlib_request">>,
            <<"np_matching", "matching_context">>, <<"np_signaling", "signaling_context">>,
            <<"usbd", "usb_transfer">>}
\* Objects are deleted.
LEMMA DiedWhole ==
    ASSUME WholeInv, NEW gone \in SUBSET Slot, NEW refused, DeletesBelow(gone, refused),
           \/ UNCHANGED started
           \/ \E pair \in Endings : /\ started' = started \ {pair[1]}
                                    /\ Living(pair[2]) \subseteq gone
    PROVE  SlotInv'
<1>1. /\ kinds' = [s \in Slot |-> IF s \in gone THEN Vacant ELSE kinds[s]]
      /\ parents' = [s \in Slot |-> IF s \in gone THEN NoSlot ELSE parents[s]]
      /\ hosts' = [s \in Slot |-> IF s \in gone THEN NoLoan ELSE hosts[s]]
      /\ columns' = [s \in Slot |-> IF s \in gone THEN Blank ELSE columns[s]]
      /\ UNCHANGED <<taken, trophies, earned>>
  BY DEF DeletesBelow, trophySet
<1>2. columns' \in [Slot -> Rows]
  BY <1>1, BlankRow DEF WholeInv, SlotInv
<1>3. NothingInherited'
  BY <1>1 DEF WholeInv, SlotInv, NothingInherited, Vacant
<1>4. \A kind : kind # Vacant => Living(kind)' = Living(kind) \ gone
  BY <1>1 DEF Living
<1>5. NothingAfterEnd'
  <2>1. NothingAfterEnd
    BY DEF WholeInv, SlotInv
  <2>2. /\ Living("move_handle")' = Living("move_handle") \ gone
        /\ Living("zlib_request")' = Living("zlib_request") \ gone
        /\ Living("matching_context")' = Living("matching_context") \ gone
        /\ Living("signaling_context")' = Living("signaling_context") \ gone
    BY <1>4 DEF Vacant
  <2>3. CASE UNCHANGED started
    BY <1>1, <2>1, <2>2, <2>3 DEF NothingAfterEnd
  <2>4. ASSUME NEW library, NEW kind, <<library, kind>> \in Endings,
               started' = started \ {library}, Living(kind) \subseteq gone
        PROVE  NothingAfterEnd'
    <3>1. /\ "move" \notin started' => Living("move_handle")' = {}
          /\ "zlib" \notin started' => Living("zlib_request")' = {}
          /\ "np_matching" \notin started' => Living("matching_context")' = {}
          /\ "np_signaling" \notin started' => Living("signaling_context")' = {}
      BY <2>1, <2>2, <2>4 DEF NothingAfterEnd, Endings
    <3>2. "playgo" \notin started' => "playgo open" \notin started'
      BY <2>1, <2>4 DEF NothingAfterEnd, Endings
    <3>3. \A f \in FlagSets \ started' : taken'[f] = {}
      BY <1>1, <2>1, <2>4 DEF NothingAfterEnd, Endings, FlagSets
    <3> QED BY <3>1, <3>2, <3>3 DEF NothingAfterEnd
  <2> QED BY <2>3, <2>4 DEF Endings
<1>6. WritersAlone'
  BY <1>1 DEF WholeInv, SlotInv, WritersAlone, Living, Vacant
<1> QED BY <1>1, <1>2, <1>3, <1>5, <1>6 DEF WholeInv, SlotInv

\* The objects stay as they are.
LEMMA SwitchedWhole ==
    ASSUME WholeInv, UNCHANGED <<objects, trophySet>>, DOMAIN taken' = FlagSets,
           \A library \in {"move", "zlib", "np_matching", "np_signaling"} :
             library \in started => library \in started',
           "playgo open" \in started' => "playgo" \in started',
           \A f \in FlagSets \ started' : taken'[f] = {}
    PROVE  SlotInv'
<1>1. UNCHANGED <<kinds, parents, hosts, columns, trophies, earned>>
  BY DEF objects, trophySet
<1>2. NothingAfterEnd'
  BY <1>1 DEF WholeInv, SlotInv, NothingAfterEnd, Living
<1>3. NothingInherited' /\ WritersAlone'
  BY <1>1 DEF WholeInv, SlotInv, NothingInherited, WritersAlone, Living
<1> QED BY <1>1, <1>2, <1>3 DEF WholeInv, SlotInv

\* The helpers that make objects.
LEMMA MadeWhole ==
    ASSUME WholeInv, NEW kind, NEW p, Allowed(kind), kind # "trophy_context",
           NEW s \in FirstVacant, Fills(s, kind, p), NEW row \in Rows,
           kind = "rwlock" => LockRow(row), columns' = [columns EXCEPT ![s] = row],
           UNCHANGED <<switches, trophySet>>
    PROVE  SlotInv'
<1>1. /\ kinds' = [kinds EXCEPT ![s] = kind]
      /\ \A u \in Slot \ {s} : parents'[u] = parents[u] /\ hosts'[u] = hosts[u]
  BY DEF Fills, WholeInv, OwnerInv, LoanInv
<1>2. UNCHANGED <<started, taken, trophies, earned>>
  BY DEF switches, trophySet
<1>3. DOMAIN trophies' = Slot /\ DOMAIN earned' = Slot
  BY <1>2 DEF WholeInv, SlotInv
<1> QED BY <1>1, <1>2, <1>3, BornWhole

LEMMA SameWhole ==
    ASSUME WholeInv, UNCHANGED <<kinds, parents, hosts, columns, started, taken, trophies, earned>>
    PROVE  SlotInv'
BY DEF WholeInv, SlotInv, NothingInherited, NothingAfterEnd, WritersAlone, Living

LEMMA VacantRow ==
    ASSUME WholeInv, NEW s \in FirstVacant
    PROVE  s \in Slot /\ columns[s] = Blank /\ columns[s] \in Rows
BY BlankRow DEF FirstVacant, Living, WholeInv, SlotInv, NothingInherited

LEMMA UnsetWhole ==
    ASSUME WholeInv, NEW kind, NEW p, Allowed(kind), kind # "trophy_context",
           MakesAs(kind, p, Unset)
    PROVE  SlotInv'
<1>1. PICK s \in FirstVacant : Fills(s, kind, p) /\ columns' = [columns EXCEPT ![s] = columns[s]]
  BY DEF MakesAs, Unset
<1>2. UNCHANGED <<switches, trophySet>>
  BY DEF MakesAs
<1>3. columns[s] \in Rows /\ LockRow(columns[s])
  BY VacantRow, BlankRow
<1> QED BY <1>1, <1>2, <1>3, MadeWhole

LEMMA RootWhole ==
    ASSUME WholeInv, NEW kind, Allowed(kind), kind # "trophy_context", Root(kind)
    PROVE  SlotInv'
BY UnsetWhole DEF Root

LEMMA UnderWhole ==
    ASSUME WholeInv, NEW kind, NEW above, Allowed(kind), kind # "trophy_context",
           Under(above, kind)
    PROVE  SlotInv'
BY UnsetWhole DEF Under

\* An object made that is given a row of its own.
LEMMA GivenWhole ==
    ASSUME WholeInv, NEW kind, NEW p, Ordinary(kind) \/ (kind = "zlib_request" /\ "zlib" \in started),
           NEW s \in FirstVacant, Fills(s, kind, p), NEW row \in Rows,
           columns' = [columns EXCEPT ![s] = row], UNCHANGED <<switches, trophySet>>
    PROVE  SlotInv'
<1>1. Allowed(kind) /\ kind # "trophy_context" /\ kind # "rwlock"
  BY DEF Ordinary, Allowed, Vacant
<1> QED BY <1>1, MadeWhole

\* The helpers that delete objects.
LEMMA DeletesWhole ==
    ASSUME WholeInv, NEW S, Deletes(S), UNCHANGED started PROVE SlotInv'
<1>1. PICK refused \in SUBSET lent : DeletesBelow(Below(S), refused)
  BY DEF Deletes
<1>2. Below(S) \in SUBSET Slot
  BY BelowClosed
<1> QED BY <1>1, <1>2, DiedWhole

LEMMA DeletedWhole ==
    ASSUME WholeInv, NEW above, NEW kind, Deleted(kind) \/ DeletedFrom(above, kind)
    PROVE  SlotInv'
BY DeletesWhole DEF Deleted, DeletedFrom

LEMMA EndsWhole ==
    ASSUME WholeInv, NEW library, NEW kind, <<library, kind>> \in Endings,
           started' = started \ {library}, Deletes(Living(kind))
    PROVE  SlotInv'
<1>1. PICK refused \in SUBSET lent : DeletesBelow(Below(Living(kind)), refused)
  BY DEF Deletes
<1>2. Below(Living(kind)) \in SUBSET Slot /\ Living(kind) \subseteq Below(Living(kind))
  BY BelowClosed DEF Below, Living
<1>3. \E pair \in Endings : /\ started' = started \ {pair[1]}
                            /\ Living(pair[2]) \subseteq Below(Living(kind))
  <2> DEFINE pair == <<library, kind>>
  <2>1. pair \in Endings /\ pair[1] = library /\ pair[2] = kind
    OBVIOUS
  <2> QED BY <1>2, <2>1
<1> QED BY <1>1, <1>2, <1>3, DiedWhole

\* The helpers that change a row.
LEMMA SetsWhole ==
    ASSUME WholeInv, NEW s \in Slot, kinds[s] # Vacant, NEW row \in Rows,
           kinds[s] = "rwlock" => LockRow(row), Sets(s, row)
    PROVE  SlotInv'
<1>1. /\ columns' = [columns EXCEPT ![s] = row] /\ UNCHANGED <<kinds, parents, hosts>>
      /\ UNCHANGED <<started, taken, trophies, earned>>
  BY DEF Sets, switches, trophySet
<1> QED BY <1>1, MarkedWhole

LEMMA MarksWhole ==
    ASSUME WholeInv, NEW kind, kind # Vacant, kind # "rwlock",
           NEW state \in {"idle", "active", "aborted", "offline", "new", "codec", "locked",
                          "sourced", "playing", "registered", "set", "written"},
           Marks(kind, state) \/ Answers(kind, state)
    PROVE  SlotInv'
<1>1. PICK s \in Living(kind) : Sets(s, [columns[s] EXCEPT !.state = state])
  BY DEF Marks, Answers
<1>2. s \in Slot /\ kinds[s] = kind
  BY DEF Living
<1>3. columns[s] \in Rows
  BY <1>2 DEF WholeInv, SlotInv
<1>4. [columns[s] EXCEPT !.state = state] \in Rows
  BY <1>3, RowChanged
<1> QED BY <1>1, <1>2, <1>4, SetsWhole

\* The helpers of libraries and places.
LEMMA StartsWhole ==
    ASSUME WholeInv, NEW library, library = "playgo open" => "playgo" \in started,
           Starts(library)
    PROVE  SlotInv'
<1>1. /\ started' = started \cup {library} /\ UNCHANGED <<objects, trophySet, taken>>
  BY DEF Starts
<1>2. DOMAIN taken = FlagSets /\ NothingAfterEnd
  BY DEF WholeInv, SlotInv
<1>3. \A f \in FlagSets \ started' : taken'[f] = {}
  BY <1>1, <1>2 DEF NothingAfterEnd
<1>4. "playgo open" \in started' => "playgo" \in started'
  BY <1>1, <1>2 DEF NothingAfterEnd
<1> QED BY <1>1, <1>2, <1>3, <1>4, SwitchedWhole

LEMMA EndsAloneWhole ==
    ASSUME WholeInv, NEW library \in {"audio3d", "hmd", "playgo open"}, EndsAlone(library)
    PROVE  SlotInv'
<1>1. /\ started' = started \ {library} /\ UNCHANGED <<objects, trophySet, taken>>
  BY DEF EndsAlone
<1>2. DOMAIN taken = FlagSets /\ NothingAfterEnd
  BY DEF WholeInv, SlotInv
<1>3. \A f \in FlagSets \ started' : taken'[f] = {}
  BY <1>1, <1>2 DEF NothingAfterEnd, FlagSets
<1>4. "playgo open" \in started' => "playgo" \in started'
  BY <1>1, <1>2 DEF NothingAfterEnd
<1>5. \A l \in {"move", "zlib", "np_matching", "np_signaling"} : l \in started => l \in started'
  BY <1>1
<1> QED BY <1>1, <1>2, <1>3, <1>4, <1>5, SwitchedWhole

LEMMA PlacesWhole ==
    ASSUME WholeInv, NEW flags \in FlagSets,
           \/ EndsPlaces(flags) \/ Frees(flags)
           \/ flags \in started /\ \E p : Takes(flags, p)
    PROVE  SlotInv'
<1>1. UNCHANGED <<objects, trophySet>>
  BY DEF EndsPlaces, Frees, Takes
<1>2. DOMAIN taken = FlagSets /\ NothingAfterEnd
  BY DEF WholeInv, SlotInv
<1>3. DOMAIN taken' = FlagSets
  BY <1>2 DEF EndsPlaces, Frees, Takes
<1>4. \A f \in FlagSets \ started' : taken'[f] = {}
  BY <1>2 DEF EndsPlaces, Frees, Takes, NothingAfterEnd
<1>5. \A l \in {"move", "zlib", "np_matching", "np_signaling", "playgo", "playgo open"} :
         l \in started <=> l \in started'
  BY DEF EndsPlaces, Frees, Takes, FlagSets
<1>6. "playgo open" \in started' => "playgo" \in started'
  BY <1>2, <1>5 DEF NothingAfterEnd
<1> QED BY <1>1, <1>3, <1>4, <1>5, <1>6, SwitchedWhole

LEMMA OrdinaryKinds ==
    \A kind \in
        {"net_pool", "net_epoll", "resolver", "http_context", "http_template",
         "http_connection", "http_request", "http_epoll", "webapi_context", "webapi_user",
         "webapi_handle", "webapi_filter", "webapi_callback", "webapi_push", "score_title",
         "score_request", "tus_title", "tus_request", "np_request", "np_callback",
         "auth_request", "ajm_context", "ajm_instance", "ajm_batch", "ngs2_system",
         "ngs2_rack", "ngs2_report", "avplayer", "audio3d_port", "audio3d_object",
         "png_encoder", "png_decoder", "video_decoder", "video_decoder2", "font_library",
         "font_renderer", "font", "usb_transfer", "camera", "hmd_handle", "ime_session",
         "ime_keyboard", "trophy_handle", "event_flag", "rwlock_attr"} : Ordinary(kind)
BY DEF Ordinary, Vacant

LEMMA OrdinaryMade ==
    ASSUME WholeInv, NEW kind, Ordinary(kind),
           \/ Root(kind)
           \/ \E above : Under(above, kind)
           \/ \E p : MakesAs(kind, p, Unset)
    PROVE  SlotInv'
<1>1. Allowed(kind) /\ kind # "trophy_context"
  BY DEF Ordinary, Allowed
<1>2. ASSUME NEW p, MakesAs(kind, p, Unset) PROVE SlotInv'
  BY <1>1, <1>2, UnsetWhole
<1> QED BY <1>1, <1>2, RootWhole, UnderWhole

LEMMA OrdinaryMarked ==
    ASSUME WholeInv, NEW kind, Ordinary(kind), NEW s \in Living(kind), NEW row \in Rows,
           Sets(s, row)
    PROVE  SlotInv'
<1>1. s \in Slot /\ kinds[s] = kind /\ kind # Vacant /\ kind # "rwlock"
  BY DEF Living, Ordinary
<1> QED BY <1>1, SetsWhole

LEMMA OrdinaryMarks ==
    ASSUME WholeInv, NEW kind, Ordinary(kind),
           NEW state \in {"idle", "active", "aborted", "offline", "new", "codec", "locked",
                          "sourced", "playing", "registered", "set", "written"},
           Marks(kind, state) \/ Answers(kind, state)
    PROVE  SlotInv'
<1>1. kind # Vacant /\ kind # "rwlock"
  BY DEF Ordinary
<1> QED BY <1>1, MarksWhole

LEMMA RowOf ==
    ASSUME WholeInv, NEW kind, NEW s \in Living(kind)
    PROVE  s \in Slot /\ columns[s] \in Rows /\ kinds[s] = kind
BY DEF Living, WholeInv, SlotInv

\* The calls on the network and the web.
LEMMA NetWhole ==
    ASSUME WholeInv,
           \/ NetObjects \/ Resolvers \/ NetCtl \/ NetCtlCallbacks
           \/ HttpObjects \/ HttpEpolls \/ HttpSetNonblock
           \/ WebapiFilters \/ WebapiCallbacks \/ WebapiPush
    PROVE  SlotInv'
<1>1. CASE NetObjects
  BY <1>1, OrdinaryKinds, OrdinaryMade, DeletedWhole DEF NetObjects
<1>2. CASE Resolvers
  BY <1>2, OrdinaryKinds, OrdinaryMade, DeletedWhole DEF Resolvers
<1>3. CASE NetCtl \/ NetCtlCallbacks
  <2>1. ASSUME Starts("netctl") PROVE SlotInv'
    BY <2>1, StartsWhole
  <2>2. "netctl" \in FlagSets
    BY DEF FlagSets
  <2> QED BY <1>3, <2>1, <2>2, PlacesWhole DEF NetCtl, NetCtlCallbacks
<1>4. CASE HttpObjects
  BY <1>4, OrdinaryKinds, OrdinaryMade, DeletedWhole DEF HttpObjects
<1>5. CASE HttpEpolls
  <2>1. ASSUME NEW s \in Living("http_request"), NEW e \in Living("http_epoll") \cup {NoSlot},
               Sets(s, [columns[s] EXCEPT !.refers = e])
        PROVE  SlotInv'
    <3>1. e \in Slot \cup {NoSlot}
      BY DEF Living
    <3>2. [columns[s] EXCEPT !.refers = e] \in Rows
      BY <3>1, RowOf, RowChanged
    <3> QED BY <2>1, <3>2, OrdinaryKinds, OrdinaryMarked
  <2> QED BY <1>5, <2>1, OrdinaryKinds, OrdinaryMade, DeletedWhole DEF HttpEpolls
<1>6. CASE HttpSetNonblock
  <2>1. PICK s \in Slot \ Living(Vacant), on \in BOOLEAN :
          Sets(s, [columns[s] EXCEPT !.nonblock = on])
    BY <1>6 DEF HttpSetNonblock
  <2>2. s \in Slot /\ kinds[s] # Vacant
    BY <2>1 DEF Living
  <2>3. columns[s] \in Rows
    BY <2>2 DEF WholeInv, SlotInv
  <2> DEFINE old == columns[s]  row == [old EXCEPT !.nonblock = on]
  <2>4. row \in Rows /\ row.level = old.level /\ row.state = old.state
    <3>1. row = [old EXCEPT !.nonblock = on] /\ old \in Rows
      BY <2>3
    <3> HIDE DEF old, row
    <3> QED BY <2>1, <3>1, NamedRow
  <2>5. kinds[s] = "rwlock" => LockRow(row)
    BY <2>2, <2>4 DEF WholeInv, SlotInv, WritersAlone, Living, LockRow
  <2>6. Sets(s, row)
    BY <2>1
  <2> HIDE DEF row
  <2> QED BY <2>2, <2>4, <2>5, <2>6, SetsWhole
<1>7. CASE WebapiFilters
  BY <1>7, OrdinaryKinds, OrdinaryMade, DeletedWhole DEF WebapiFilters
<1>8. ASSUME NEW above, NEW filter \in Slot \cup {NoSlot}, NEW state \in {"idle", "active"},
             Registers(above, filter, state)
      PROVE  SlotInv'
  <2> DEFINE Given(row) == [row EXCEPT !.refers = filter, !.state = state]
  <2>1. PICK p : MakesAs("webapi_callback", p, Given)
    BY <1>8 DEF Registers
  <2>2. PICK s \in FirstVacant : /\ Fills(s, "webapi_callback", p)
                                 /\ columns' = [columns EXCEPT ![s] = Given(columns[s])]
    BY <2>1 DEF MakesAs
  <2>3. UNCHANGED <<switches, trophySet>>
    BY <2>1 DEF MakesAs
  <2>4. [columns[s] EXCEPT !.refers = filter] \in Rows
    BY VacantRow, RowChanged
  <2>5. [[columns[s] EXCEPT !.refers = filter] EXCEPT !.state = state] \in Rows
    BY <2>4, RowChanged
  <2>6. Given(columns[s]) \in Rows
    BY <2>5
  <2> HIDE DEF Given
  <2> QED BY <2>2, <2>3, <2>6, OrdinaryKinds, GivenWhole
<1>9. \A filter \in Living("webapi_filter") \cup {NoSlot} : filter \in Slot \cup {NoSlot}
  BY DEF Living
<1>10. CASE WebapiCallbacks
  BY <1>8, <1>9, <1>10, DeletedWhole, DeletesWhole DEF WebapiCallbacks
<1>11. ASSUME NEW h \in Living("webapi_handle"), FiltersFor(h)
       PROVE  SlotInv'
  <2> DEFINE Given(row) == [row EXCEPT !.refers = h]
  <2>1. MakesAs("webapi_filter", parents[h], Given)
    BY <1>11 DEF FiltersFor
  <2>2. PICK s \in FirstVacant : /\ Fills(s, "webapi_filter", parents[h])
                                 /\ columns' = [columns EXCEPT ![s] = Given(columns[s])]
    BY <2>1 DEF MakesAs
  <2>3. UNCHANGED <<switches, trophySet>>
    BY <2>1 DEF MakesAs
  <2>4. h \in Slot \cup {NoSlot}
    BY DEF Living
  <2>5. Given(columns[s]) \in Rows
    BY <2>4, VacantRow, RowChanged
  <2> HIDE DEF Given
  <2> QED BY <2>2, <2>3, <2>5, OrdinaryKinds, GivenWhole
<1>12. CASE WebapiPush
  <2>1. ASSUME Marks("webapi_push", "active") PROVE SlotInv'
    BY <2>1, OrdinaryKinds, OrdinaryMarks
  <2> QED BY <1>8, <1>9, <1>11, <1>12, <2>1, OrdinaryKinds, OrdinaryMade, DeletedWhole
          DEF WebapiPush
<1> QED BY <1>1, <1>2, <1>3, <1>4, <1>5, <1>6, <1>7, <1>10, <1>12

\* The calls on accounts, pictures and sound.
LEMMA MediaWhole ==
    ASSUME WholeInv,
           \/ NpMatching \/ NpSignaling \/ NpScore \/ NpTus \/ NpManager \/ NpAuth
           \/ Ajm \/ Ngs2 \/ Ngs2Reports \/ Audio3d
           \/ PngEncoders \/ PngDecoders \/ VideoDecoders \/ VideoDecoders2
           \/ Fonts \/ FontRenderers
    PROVE  SlotInv'
<1>1. CASE NpMatching
  <2>1. ASSUME Starts("np_matching") PROVE SlotInv'
    BY <2>1, StartsWhole
  <2>2. ASSUME Ends("np_matching", "matching_context") PROVE SlotInv'
    BY <2>2, EndsWhole DEF Ends, Endings
  <2>3. ASSUME "np_matching" \in started, Root("matching_context") PROVE SlotInv'
    BY <2>3, RootWhole DEF Allowed, Vacant
  <2> QED BY <1>1, <2>1, <2>2, <2>3, DeletedWhole DEF NpMatching
<1>2. CASE NpSignaling
  <2>1. ASSUME Starts("np_signaling") PROVE SlotInv'
    BY <2>1, StartsWhole
  <2>2. ASSUME Ends("np_signaling", "signaling_context") PROVE SlotInv'
    BY <2>2, EndsWhole DEF Ends, Endings
  <2>3. ASSUME "np_signaling" \in started, Root("signaling_context") PROVE SlotInv'
    BY <2>3, RootWhole DEF Allowed, Vacant
  <2> QED BY <1>2, <2>1, <2>2, <2>3, DeletedWhole DEF NpSignaling
<1>3. CASE NpScore \/ NpTus
  <2>1. ASSUME NEW state \in {"aborted", "offline"}, Answers("score_request", state)
        PROVE  SlotInv'
    BY <2>1, OrdinaryKinds, OrdinaryMarks
  <2> QED BY <1>3, <2>1, OrdinaryKinds, OrdinaryMade, DeletedWhole DEF NpScore, NpTus
<1>4. CASE NpManager
  <2>1. ASSUME NEW async \in BOOLEAN,
               MakesAs("np_request", NoSlot,
                       LAMBDA row : IF async THEN [row EXCEPT !.nonblock = TRUE] ELSE row)
        PROVE  SlotInv'
    <3> DEFINE Given(row) == IF async THEN [row EXCEPT !.nonblock = TRUE] ELSE row
    <3>1. PICK s \in FirstVacant : /\ Fills(s, "np_request", NoSlot)
                                   /\ columns' = [columns EXCEPT ![s] = Given(columns[s])]
      BY <2>1 DEF MakesAs
    <3>2. UNCHANGED <<switches, trophySet>>
      BY <2>1 DEF MakesAs
    <3>3. Given(columns[s]) \in Rows
      BY VacantRow, RowChanged
    <3> HIDE DEF Given
    <3> QED BY <3>1, <3>2, <3>3, OrdinaryKinds, GivenWhole
  <2>2. ASSUME NEW state \in {"aborted", "offline"}, Answers("np_request", state)
        PROVE  SlotInv'
    BY <2>2, OrdinaryKinds, OrdinaryMarks
  <2>3. ASSUME NEW s \in Living("np_request"),
               Sets(s, [columns[s] EXCEPT !.state = "offline"])
        PROVE  SlotInv'
    <3>1. [columns[s] EXCEPT !.state = "offline"] \in Rows
      BY RowOf, RowChanged
    <3> QED BY <2>3, <3>1, OrdinaryKinds, OrdinaryMarked
  <2> QED BY <1>4, <2>1, <2>2, <2>3, OrdinaryKinds, OrdinaryMade, DeletedWhole DEF NpManager
<1>5. CASE NpAuth
  <2>1. ASSUME NEW async \in BOOLEAN,
               MakesAs("auth_request", NoSlot,
                       LAMBDA row : [row EXCEPT !.nonblock = async, !.state = "new"])
        PROVE  SlotInv'
    <3> DEFINE Given(row) == [row EXCEPT !.nonblock = async, !.state = "new"]
    <3>1. PICK s \in FirstVacant : /\ Fills(s, "auth_request", NoSlot)
                                   /\ columns' = [columns EXCEPT ![s] = Given(columns[s])]
      BY <2>1 DEF MakesAs
    <3>2. UNCHANGED <<switches, trophySet>>
      BY <2>1 DEF MakesAs
    <3>3. [columns[s] EXCEPT !.nonblock = async] \in Rows
      BY VacantRow, RowChanged
    <3>4. [[columns[s] EXCEPT !.nonblock = async] EXCEPT !.state = "new"] \in Rows
      BY <3>3, RowChanged
    <3>5. Given(columns[s]) \in Rows
      BY <3>4
    <3> HIDE DEF Given
    <3> QED BY <3>1, <3>2, <3>5, OrdinaryKinds, GivenWhole
  <2>2. ASSUME NEW s \in Living("auth_request"), NEW state \in {"aborted", "offline"},
               Sets(s, [columns[s] EXCEPT !.state = state])
        PROVE  SlotInv'
    <3>1. [columns[s] EXCEPT !.state = state] \in Rows
      BY RowOf, RowChanged
    <3> QED BY <2>2, <3>1, OrdinaryKinds, OrdinaryMarked
  <2> QED BY <1>5, <2>1, <2>2, DeletedWhole DEF NpAuth
<1>6. CASE Ajm
  <2>1. ASSUME Marks("ajm_context", "codec") PROVE SlotInv'
    BY <2>1, OrdinaryKinds, OrdinaryMarks
  <2> QED BY <1>6, <2>1, OrdinaryKinds, OrdinaryMade, DeletedWhole, DeletesWhole DEF Ajm
<1>7. CASE Ngs2
  <2>1. ASSUME NEW kind \in {"ngs2_system", "ngs2_rack"}, NEW s \in Slot, kinds[s] = kind,
               Sets(s, [columns[s] EXCEPT !.state = IF @ = "locked" THEN "idle" ELSE "locked"])
        PROVE  SlotInv'
    <3> DEFINE state == IF columns[s].state = "locked" THEN "idle" ELSE "locked"
    <3>1. s \in Living(kind)
      BY <2>1 DEF Living
    <3>2. state \in {"idle", "locked"}
      OBVIOUS
    <3>3. Sets(s, [columns[s] EXCEPT !.state = state])
      BY <2>1
    <3> HIDE DEF state
    <3>4. [columns[s] EXCEPT !.state = state] \in Rows
      BY <3>1, <3>2, RowOf, RowChanged
    <3> QED BY <3>1, <3>3, <3>4, OrdinaryKinds, OrdinaryMarked
  <2>2. ASSUME NEW p, MakesAs("ngs2_rack", p, Unset) PROVE SlotInv'
    BY <2>2, OrdinaryKinds, OrdinaryMade
  <2> QED BY <1>7, <2>1, <2>2, OrdinaryKinds, OrdinaryMade, DeletedWhole DEF Ngs2
<1>8. CASE Ngs2Reports
  BY <1>8, OrdinaryKinds, OrdinaryMade, DeletedWhole DEF Ngs2Reports
<1>9. CASE Audio3d
  <2>1. ASSUME Starts("audio3d") PROVE SlotInv'
    BY <2>1, StartsWhole
  <2>2. ASSUME EndsAlone("audio3d") PROVE SlotInv'
    BY <2>2, EndsAloneWhole
  <2>3. ASSUME NEW s \in Living("audio3d_port"), NEW n \in 0 .. Depth,
               Sets(s, [columns[s] EXCEPT !.level = n])
        PROVE  SlotInv'
    <3>1. [columns[s] EXCEPT !.level = n] \in Rows
      BY RowOf, RowChanged
    <3> QED BY <2>3, <3>1, OrdinaryKinds, OrdinaryMarked
  <2>4. ASSUME NEW s \in Living("audio3d_port"),
               \/ columns[s].level < Depth /\ Sets(s, [columns[s] EXCEPT !.level = @ + 1])
               \/ columns[s].level > 0 /\ Sets(s, [columns[s] EXCEPT !.level = @ - 1])
               \/ Sets(s, [columns[s] EXCEPT !.level = 0])
        PROVE  SlotInv'
    <3>1. columns[s].level \in 0 .. Depth /\ Depth \in Nat
      BY RowOf, RowChanged, LibraryAssumption
    <3>2. /\ 0 \in 0 .. Depth
          /\ columns[s].level < Depth => columns[s].level + 1 \in 0 .. Depth
          /\ columns[s].level > 0 => columns[s].level - 1 \in 0 .. Depth
      BY <3>1
    <3> QED BY <2>3, <2>4, <3>2
  <2> QED BY <1>9, <2>1, <2>2, <2>4, OrdinaryKinds, OrdinaryMade, DeletedWhole DEF Audio3d
<1>10. CASE PngEncoders \/ PngDecoders \/ VideoDecoders \/ VideoDecoders2
  BY <1>10, OrdinaryKinds, OrdinaryMade, DeletedWhole
  DEF PngEncoders, PngDecoders, VideoDecoders, VideoDecoders2
<1>11. CASE Fonts
  BY <1>11, OrdinaryKinds, OrdinaryMade, DeletedWhole DEF Fonts
<1>12. CASE FontRenderers
  <2>1. PICK s \in Living("font"), r \in Living("font_renderer") \cup {NoSlot} :
          Sets(s, [columns[s] EXCEPT !.refers = r])
    BY <1>12 DEF FontRenderers
  <2>2. r \in Slot \cup {NoSlot}
    BY <2>1 DEF Living
  <2>3. [columns[s] EXCEPT !.refers = r] \in Rows
    BY <2>1, <2>2, RowOf, RowChanged
  <2> QED BY <2>1, <2>3, OrdinaryKinds, OrdinaryMarked
<1> QED BY <1>1, <1>2, <1>3, <1>4, <1>5, <1>6, <1>7, <1>8, <1>9, <1>10, <1>11, <1>12

\* The calls on devices, trophies and locks.
LEMMA DeviceWhole ==
    ASSUME WholeInv,
           \/ Move \/ Camera \/ Hmd \/ Ime \/ Usbd \/ Zlib \/ PlayGo
           \/ VrTracker \/ Pads \/ Trophies \/ EventFlags \/ RwLocks
    PROVE  SlotInv'
<1>1. CASE Move
  <2>1. ASSUME Starts("move") PROVE SlotInv'
    BY <2>1, StartsWhole
  <2>2. ASSUME Ends("move", "move_handle") PROVE SlotInv'
    BY <2>2, EndsWhole DEF Ends, Endings
  <2>3. ASSUME "move" \in started, Root("move_handle") PROVE SlotInv'
    BY <2>3, RootWhole DEF Allowed, Vacant
  <2> QED BY <1>1, <2>1, <2>2, <2>3, DeletedWhole DEF Move
<1>2. CASE Camera
  BY <1>2, OrdinaryKinds, OrdinaryMade, DeletedWhole DEF Camera
<1>3. CASE Hmd
  <2>1. ASSUME Starts("hmd") PROVE SlotInv'
    BY <2>1, StartsWhole
  <2>2. ASSUME EndsAlone("hmd") PROVE SlotInv'
    BY <2>2, EndsAloneWhole
  <2> QED BY <1>3, <2>1, <2>2, OrdinaryKinds, OrdinaryMade, DeletedWhole DEF Hmd
<1>4. CASE Ime
  BY <1>4, OrdinaryKinds, OrdinaryMade, DeletedWhole DEF Ime
<1>5. CASE Usbd
  <2>1. ASSUME Starts("usbd") PROVE SlotInv'
    BY <2>1, StartsWhole
  <2>2. ASSUME started' = started \ {"usbd"}, Deletes(Living("usb_transfer")) PROVE SlotInv'
    BY <2>2, EndsWhole DEF Endings
  <2>3. ASSUME NEW s \in Living("usb_transfer"), NEW device \in Slot \cup {NoSlot},
               parents' = [parents EXCEPT ![s] = device],
               UNCHANGED <<libraries, kinds, hosts, columns, switches, trophySet, cleaned, loans>>
        PROVE  SlotInv'
    <3>1. /\ s \in Slot /\ columns[s] \in Rows /\ kinds[s] = "usb_transfer"
      BY RowOf
    <3>2. kinds[s] # Vacant /\ kinds[s] # "rwlock"
      BY <3>1 DEF Vacant
    <3>3. columns' = [columns EXCEPT ![s] = columns[s]]
      BY <2>3, <3>1 DEF WholeInv, SlotInv
    <3>4. \A u \in Slot \ {s} : parents'[u] = parents[u] /\ hosts'[u] = hosts[u]
      BY <2>3 DEF WholeInv, OwnerInv
    <3>5. UNCHANGED <<kinds, started, taken, trophies, earned>>
      BY <2>3 DEF switches, trophySet
    <3> QED BY <3>1, <3>2, <3>3, <3>4, <3>5, MarkedWhole
  <2> QED BY <1>5, <2>1, <2>2, <2>3, OrdinaryKinds, OrdinaryMade, DeletedWhole DEF Usbd
<1>6. CASE Zlib
  <2>1. ASSUME Starts("zlib") PROVE SlotInv'
    BY <2>1, StartsWhole
  <2>2. ASSUME Ends("zlib", "zlib_request") PROVE SlotInv'
    BY <2>2, EndsWhole DEF Ends, Endings
  <2>3. ASSUME "zlib" \in started,
               MakesAs("zlib_request", NoSlot, LAMBDA row : [row EXCEPT !.state = "active"])
        PROVE  SlotInv'
    <3> DEFINE Given(row) == [row EXCEPT !.state = "active"]
    <3>1. PICK s \in FirstVacant : /\ Fills(s, "zlib_request", NoSlot)
                                   /\ columns' = [columns EXCEPT ![s] = Given(columns[s])]
      BY <2>3 DEF MakesAs
    <3>2. UNCHANGED <<switches, trophySet>>
      BY <2>3 DEF MakesAs
    <3>3. Given(columns[s]) \in Rows
      BY VacantRow, RowChanged
    <3> HIDE DEF Given
    <3> QED BY <2>3, <3>1, <3>2, <3>3, GivenWhole
  <2>4. ASSUME NEW s \in Living("zlib_request"),
               Sets(s, [columns[s] EXCEPT !.state = "idle"])
        PROVE  SlotInv'
    <3>1. s \in Slot /\ columns[s] \in Rows /\ kinds[s] = "zlib_request"
      BY RowOf
    <3>2. [columns[s] EXCEPT !.state = "idle"] \in Rows
      BY <3>1, RowChanged
    <3>3. kinds[s] # Vacant /\ kinds[s] # "rwlock"
      BY <3>1 DEF Vacant
    <3> QED BY <2>4, <3>1, <3>2, <3>3, SetsWhole
  <2> QED BY <1>6, <2>1, <2>2, <2>3, <2>4 DEF Zlib
<1>7. CASE PlayGo
  <2>1. ASSUME Starts("playgo") PROVE SlotInv'
    BY <2>1, StartsWhole
  <2>2. ASSUME "playgo" \in started, Starts("playgo open") PROVE SlotInv'
    BY <2>2, StartsWhole
  <2>3. ASSUME EndsAlone("playgo open") PROVE SlotInv'
    BY <2>3, EndsAloneWhole
  <2>4. ASSUME started' = started \ {"playgo", "playgo open"},
               UNCHANGED <<libraries, objects, taken, trophySet, cleaned, loans>>
        PROVE  SlotInv'
    <3>1. DOMAIN taken = FlagSets /\ NothingAfterEnd
      BY DEF WholeInv, SlotInv
    <3>2. DOMAIN taken' = FlagSets /\ \A f \in FlagSets \ started' : taken'[f] = {}
      BY <2>4, <3>1 DEF NothingAfterEnd, FlagSets
    <3>3. /\ \A l \in {"move", "zlib", "np_matching", "np_signaling"} :
               l \in started => l \in started'
          /\ "playgo open" \notin started'
      BY <2>4
    <3> QED BY <2>4, <3>2, <3>3, SwitchedWhole
  <2> QED BY <1>7, <2>1, <2>2, <2>3, <2>4 DEF PlayGo
<1>8. CASE VrTracker \/ Pads
  <2>1. ASSUME NEW library \in {"vr", "pad"}, Starts(library) PROVE SlotInv'
    BY <2>1, StartsWhole
  <2>2. "vr" \in FlagSets /\ "pad" \in FlagSets
    BY DEF FlagSets
  <2> QED BY <1>8, <2>1, <2>2, PlacesWhole DEF VrTracker, Pads
<1>9. CASE Trophies
  <2>1. ASSUME TrophyContext PROVE SlotInv'
    <3>1. PICK s \in FirstVacant : /\ Fills(s, "trophy_context", NoSlot)
                                   /\ trophies' = [trophies EXCEPT ![s] = {}]
                                   /\ earned' = [earned EXCEPT ![s] = {}]
      BY <2>1 DEF TrophyContext
    <3>2. s \in Slot /\ columns[s] \in Rows
      BY VacantRow
    <3>3. /\ UNCHANGED columns /\ UNCHANGED <<started, taken>>
      BY <2>1 DEF TrophyContext, switches
    <3>4. columns' = [columns EXCEPT ![s] = columns[s]]
      BY <3>2, <3>3 DEF WholeInv, SlotInv
    <3>5. /\ kinds' = [kinds EXCEPT ![s] = "trophy_context"]
          /\ \A u \in Slot \ {s} : parents'[u] = parents[u] /\ hosts'[u] = hosts[u]
      BY <3>1 DEF Fills, WholeInv, OwnerInv, LoanInv
    <3>6. /\ DOMAIN trophies' = Slot /\ DOMAIN earned' = Slot
          /\ trophies'[s] = earned'[s]
          /\ \A u \in Slot \ {s} : trophies'[u] = trophies[u] /\ earned'[u] = earned[u]
      BY <3>1, <3>2 DEF WholeInv, SlotInv
    <3>7. Allowed("trophy_context")
      BY DEF Allowed, Vacant
    <3> QED BY <3>1, <3>2, <3>3, <3>4, <3>5, <3>6, <3>7, BornWhole
  <2>2. ASSUME NEW s \in Living("trophy_context"), NEW t, TrophyUnlock(s, t) PROVE SlotInv'
    <3>1. s \in Slot /\ kinds[s] = "trophy_context"
      BY DEF Living
    <3>2. /\ UNCHANGED <<kinds, parents, hosts, columns, started, taken>>
          /\ trophies' = [trophies EXCEPT ![s] = @ \cup {t}]
          /\ earned' = [earned EXCEPT ![s] = @ \cup {t}]
      BY <2>2 DEF TrophyUnlock, objects, switches
    <3>3. NothingInherited'
      BY <3>1, <3>2 DEF WholeInv, SlotInv, NothingInherited
    <3>4. NothingAfterEnd' /\ WritersAlone'
      BY <3>2 DEF WholeInv, SlotInv, NothingAfterEnd, WritersAlone, Living
    <3> QED BY <3>2, <3>3, <3>4 DEF WholeInv, SlotInv
  <2>3. ASSUME Marks("trophy_context", "registered") PROVE SlotInv'
    BY <2>3, MarksWhole DEF Vacant
  <2> QED BY <1>9, <2>1, <2>2, <2>3, OrdinaryKinds, OrdinaryMade, DeletedWhole DEF Trophies
<1>10. CASE EventFlags
  <2>1. ASSUME NEW state \in {"set", "idle"}, Marks("event_flag", state) PROVE SlotInv'
    BY <2>1, OrdinaryKinds, OrdinaryMarks
  <2> QED BY <1>10, <2>1, OrdinaryKinds, OrdinaryMade, DeletedWhole DEF EventFlags
<1>11. CASE RwLocks
  <2>1. ASSUME Root("rwlock") PROVE SlotInv'
    BY <2>1, RootWhole DEF Allowed, Vacant
  <2>2. ASSUME NEW s \in Living("rwlock"), NEW row \in Rows, LockRow(row), Sets(s, row)
        PROVE  SlotInv'
    <3>1. s \in Slot /\ kinds[s] = "rwlock" /\ kinds[s] # Vacant
      BY RowOf DEF Vacant
    <3> QED BY <2>2, <3>1, SetsWhole
  <2>3. ASSUME NEW s \in Living("rwlock"), columns[s].state # "written", NEW n \in 0 .. Depth,
               Sets(s, [columns[s] EXCEPT !.level = n])
        PROVE  SlotInv'
    <3> DEFINE old == columns[s]  row == [old EXCEPT !.level = n]
    <3>1. old \in Rows
      BY RowOf
    <3>2. Sets(s, row) /\ old.state # "written"
      BY <2>3
    <3>5. row = [old EXCEPT !.level = n]
      OBVIOUS
    <3> HIDE DEF old, row
    <3>3. row \in Rows /\ row.state = old.state
      BY <3>1, <3>5, NamedRow
    <3>4. LockRow(row)
      BY <3>2, <3>3 DEF LockRow
    <3> QED BY <2>2, <3>2, <3>3, <3>4
  <2>4. ASSUME NEW s \in Living("rwlock"), NEW state \in {"written", "idle"},
               state = "written" => columns[s].level = 0,
               Sets(s, [columns[s] EXCEPT !.state = state])
        PROVE  SlotInv'
    <3> DEFINE old == columns[s]  row == [old EXCEPT !.state = state]
    <3>1. old \in Rows
      BY RowOf
    <3>2. Sets(s, row) /\ (state = "written" => old.level = 0)
      BY <2>4
    <3>5. row = [old EXCEPT !.state = state]
      OBVIOUS
    <3> HIDE DEF old, row
    <3>3. row \in Rows /\ row.level = old.level /\ row.state = state
      BY <3>1, <3>5, NamedRow
    <3>4. LockRow(row)
      BY <3>2, <3>3 DEF LockRow
    <3> QED BY <2>2, <3>2, <3>3, <3>4
  <2>5. ASSUME NEW s \in Living("rwlock")
        PROVE  /\ columns[s].level < Depth => columns[s].level + 1 \in 0 .. Depth
               /\ columns[s].level > 0 => columns[s].level - 1 \in 0 .. Depth
    <3>1. columns[s].level \in 0 .. Depth /\ Depth \in Nat
      BY RowOf, RowChanged, LibraryAssumption
    <3> QED BY <3>1
  <2>6. ASSUME NEW s \in Living("rwlock"),
               \/ /\ columns[s].state # "written" /\ columns[s].level < Depth
                  /\ Sets(s, [columns[s] EXCEPT !.level = @ + 1])
               \/ /\ columns[s].state # "written" /\ columns[s].level = 0
                  /\ Sets(s, [columns[s] EXCEPT !.state = "written"])
               \/ columns[s].state = "written" /\ Sets(s, [columns[s] EXCEPT !.state = "idle"])
               \/ /\ columns[s].state # "written" /\ columns[s].level > 0
                  /\ Sets(s, [columns[s] EXCEPT !.level = @ - 1])
        PROVE  SlotInv'
    BY <2>3, <2>4, <2>5, <2>6
  <2> QED BY <1>11, <2>1, <2>6, OrdinaryKinds, OrdinaryMade, DeletedWhole DEF RwLocks
<1> QED BY <1>1, <1>2, <1>3, <1>4, <1>5, <1>6, <1>7, <1>8, <1>9, <1>10, <1>11

\* The calls that open handles of the application and close them.
LEMMA HandleWhole ==
    ASSUME WholeInv,
           \/ \E p : OpensRequest(p)
           \/ HttpDeleteRequest \/ AvPlayer
           \/ HttpRequests \/ Http2Requests \/ WebapiObjects
    PROVE  SlotInv'
<1>1. ASSUME NEW p, OpensRequest(p) PROVE SlotInv'
  <2>1. UNCHANGED <<columns, started, taken, trophies, earned>>
    BY <1>1 DEF OpensRequest, switches, trophySet
  <2>2. CASE UNCHANGED <<kinds, parents, hosts>>
    BY <2>1, <2>2, SameWhole
  <2>3. CASE \E s \in FirstVacant : \E h :
               /\ kinds' = [kinds EXCEPT ![s] = "http_request"]
               /\ parents' = [parents EXCEPT ![s] = p]
               /\ hosts' = [hosts EXCEPT ![s] = h]
    <3>1. PICK s \in FirstVacant : \E h :
               /\ kinds' = [kinds EXCEPT ![s] = "http_request"]
               /\ parents' = [parents EXCEPT ![s] = p]
               /\ hosts' = [hosts EXCEPT ![s] = h]
      BY <2>3
    <3>2. s \in Slot /\ columns[s] \in Rows
      BY VacantRow
    <3>3. columns' = [columns EXCEPT ![s] = columns[s]]
      BY <2>1, <3>2 DEF WholeInv, SlotInv
    <3>4. \A u \in Slot \ {s} : parents'[u] = parents[u] /\ hosts'[u] = hosts[u]
      BY <3>1 DEF WholeInv, OwnerInv, LoanInv
    <3>5. Allowed("http_request")
      BY DEF Allowed, Vacant
    <3>6. DOMAIN trophies' = Slot /\ DOMAIN earned' = Slot
      BY <2>1 DEF WholeInv, SlotInv
    <3> QED BY <2>1, <3>1, <3>2, <3>3, <3>4, <3>5, <3>6, BornWhole
  <2> QED BY <1>1, <2>2, <2>3 DEF OpensRequest
<1>2. CASE HttpDeleteRequest
  <2>1. PICK s \in Living("http_request") : DeletesBelow(Below({s}), {}) /\ UNCHANGED started
    BY <1>2 DEF HttpDeleteRequest
  <2>2. Below({s}) \in SUBSET Slot
    BY BelowClosed
  <2> QED BY <2>1, <2>2, DiedWhole
<1>3. CASE AvPlayer
  <2>1. ASSUME NEW s \in Living("avplayer"), PlayerOpens(s) PROVE SlotInv'
    <3> DEFINE state == IF columns[s].state = "idle" THEN "sourced" ELSE columns[s].state
               row == [columns[s] EXCEPT !.state = state]
    <3>1. s \in Slot /\ columns[s] \in Rows /\ kinds[s] = "avplayer"
      BY RowOf
    <3>2. kinds[s] # Vacant /\ kinds[s] # "rwlock"
      BY <3>1 DEF Vacant
    <3>3. columns' = [columns EXCEPT ![s] = row]
      BY <2>1, <3>1 DEF PlayerOpens, WholeInv, SlotInv
    <3>4. row \in Rows
      <4>1. CASE columns[s].state = "idle"
        BY <3>1, <4>1, RowChanged
      <4>2. CASE columns[s].state # "idle"
        <5>1. columns[s].state \in {"idle", "active", "aborted", "offline", "new", "codec",
                                    "locked", "sourced", "playing", "registered", "set",
                                    "written"}
          BY <3>1 DEF Rows
        <5> HIDE DEF row, state
        <5>2. state = columns[s].state
          BY <4>2 DEF state
        <5>3. [columns[s] EXCEPT !.state = state] \in Rows
          BY <3>1, <5>1, <5>2, RowChanged
        <5> QED BY <5>3 DEF row
      <4> QED BY <4>1, <4>2
    <3>5. \A u \in Slot \ {s} : parents'[u] = parents[u] /\ hosts'[u] = hosts[u]
      BY <2>1 DEF PlayerOpens, WholeInv, LoanInv
    <3>6. UNCHANGED <<kinds, started, taken, trophies, earned>>
      BY <2>1 DEF PlayerOpens, switches, trophySet
    <3> HIDE DEF row
    <3> QED BY <3>1, <3>2, <3>3, <3>4, <3>5, <3>6, MarkedWhole
  <2>2. ASSUME NEW s \in Living("avplayer"),
               \/ \E state \in {"sourced", "playing"} :
                    Sets(s, [columns[s] EXCEPT !.state = state])
               \/ \E looping \in BOOLEAN : Sets(s, [columns[s] EXCEPT !.nonblock = looping])
        PROVE  SlotInv'
    <3>1. \A state \in {"sourced", "playing"} : [columns[s] EXCEPT !.state = state] \in Rows
      BY RowOf, RowChanged
    <3>2. \A looping \in BOOLEAN : [columns[s] EXCEPT !.nonblock = looping] \in Rows
      BY RowOf, RowChanged
    <3> QED BY <2>2, <3>1, <3>2, OrdinaryKinds, OrdinaryMarked
  <2> QED BY <1>3, <2>1, <2>2, OrdinaryKinds, OrdinaryMade, DeletedWhole DEF AvPlayer
<1>4. CASE HttpRequests \/ Http2Requests
  BY <1>1, <1>4 DEF HttpRequests, Http2Requests
<1>5. CASE WebapiObjects
  BY <1>1, <1>5, OrdinaryKinds, OrdinaryMade, DeletedWhole DEF WebapiObjects, WebapiRequests
<1> QED BY <1>1, <1>2, <1>3, <1>4, <1>5

LEMMA SlotStep ==
    ASSUME WholeInv, [LibraryNext]_libraryVars PROVE SlotInv'
<1>1. CASE LibraryExit
  <2>1. /\ UNCHANGED <<kinds, parents, columns, started, taken, trophies, earned>>
        /\ hosts' = [s \in Slot |-> NoLoan]
    BY <1>1 DEF LibraryExit, switches, trophySet
  <2>2. NothingInherited'
    BY <2>1 DEF WholeInv, SlotInv, NothingInherited
  <2>3. NothingAfterEnd' /\ WritersAlone'
    BY <2>1 DEF WholeInv, SlotInv, NothingAfterEnd, WritersAlone, Living
  <2> QED BY <2>1, <2>2, <2>3 DEF WholeInv, SlotInv
<1>2. CASE LibraryReset
  <2>1. /\ kinds' = [s \in Slot |-> Vacant] /\ parents' = [s \in Slot |-> NoSlot]
        /\ hosts' = [s \in Slot |-> NoLoan] /\ columns' = [s \in Slot |-> Blank]
        /\ started' = {} /\ taken' = [f \in FlagSets |-> {}]
        /\ trophies' = [s \in Slot |-> {}] /\ earned' = [s \in Slot |-> {}]
    BY <1>2 DEF LibraryReset
  <2> QED BY <2>1, BlankRow DEF SlotInv, NothingInherited, NothingAfterEnd, WritersAlone,
                                Living, Vacant
<1>3. CASE UNCHANGED libraryVars
  <2>1. UNCHANGED <<kinds, parents, hosts, columns, started, taken, trophies, earned>>
    BY <1>3 DEF libraryVars
  <2> QED BY <2>1, SameWhole
<1> QED BY <1>1, <1>2, <1>3, NetWhole, MediaWhole, DeviceWhole, HandleWhole DEF LibraryNext

\* The table of objects through every order of creations, deletions, ends of libraries
\* and reuse of slots, by every call of every library.
THEOREM ObjectsWholeHolds == LibrarySpec => []ObjectsWhole
<1>1. LibraryInit => SlotInv
  <2> SUFFICES ASSUME LibraryInit PROVE SlotInv
    OBVIOUS
  <2>1. /\ kinds = [s \in Slot |-> Vacant] /\ parents = [s \in Slot |-> NoSlot]
        /\ hosts = [s \in Slot |-> NoLoan] /\ columns = [s \in Slot |-> Blank]
        /\ started = {} /\ taken = [f \in FlagSets |-> {}]
        /\ trophies = [s \in Slot |-> {}] /\ earned = [s \in Slot |-> {}]
    BY DEF LibraryInit
  <2> QED BY <2>1, BlankRow DEF SlotInv, NothingInherited, NothingAfterEnd, WritersAlone,
                                Living, Vacant
<1>2. OwnerInv /\ LoanInv /\ SlotInv /\ [LibraryNext]_libraryVars => SlotInv'
  BY SlotStep DEF WholeInv
<1>3. OwnerInv /\ SlotInv => ObjectsWhole
  BY DEF OwnerInv, SlotInv, ObjectsWhole
<1> QED BY <1>1, <1>2, <1>3, AlwaysLibraryInv, PTL DEF LibrarySpec
=============================================================================

------------------------------ MODULE GuestFiles ------------------------------
(***************************************************************************)
(* The descriptor table of the guest: files and sockets whose handles the   *)
(* application owns, and the local socket pairs of hw/i386/shadps4-hle.c,   *)
(* which carry bytes between guest threads, make receivers wait, and tie    *)
(* the PS2 compiler process to the program that launched it.                *)
(*                                                                          *)
(* Every guest call runs under the BQL, so one call is one action.  A call  *)
(* that fails before it changes anything is not an action.                  *)
(***************************************************************************)
EXTENDS Integers

CONSTANTS
    Fd,        \* the descriptors from 3 on; SHADPS4_HLE_MAX_FDS is 16
    Thread,    \* the wait slots, one of each guest thread
    Handle,    \* handles of the application, which uses closed ones again
    NoHandle,
    MaxQueue,  \* bytes a local socket holds, 16 MiB
    Sizes      \* bound: how many bytes a call sends or asks for

ASSUME FilesAssumption ==
    /\ Fd \subseteq Nat \ {0} /\ Thread \subseteq Nat
    /\ NoHandle \notin Handle
    /\ MaxQueue \in Nat \ {0} /\ Sizes \subseteq Nat

NoFd     == 0                   \* -1 in the code
NoQueue  == -1                  \* a null local_socket_rx
Families == {"stream",          \* send, recv and the system calls of a process
             "message",         \* sendmsg, recvmsg
             "plain"}           \* the read and write of libkernel, which never wait
NoWait   == [family |-> "none", fd |-> NoFd]

VARIABLES
    style,       \* how the guest program uses its local sockets; never changes
    \* shadps4-hle.c
    files,       \* the kind of each descriptor
    handles,     \* storage_handles, network_handles
    peers,       \* local_socket_peers
    queue,       \* how many bytes local_socket_rx holds
    waits,       \* wait_kind and wait_object of the socket waits
    parent,      \* ps2_parent_socket, NoFd unless ps2_process_active
    cleanupDone, \* cleanup_done
    \* the application
    opened,      \* the handles it has open
    \* what an observer notes
    excused,     \* open handles whose close was refused, or opened after an exit
    tied         \* the other end of the parent socket when the process began

vars == <<style, files, handles, peers, queue, waits, parent, cleanupDone,
          opened, excused, tied>>
table   == <<files, handles>>
sockets == <<peers, queue, waits>>
process == <<parent, tied>>
appSide == <<opened, excused>>

HostKinds == {"storage", "network"}
Kinds     == HostKinds \cup {"free", "device", "local"}

TypeOK ==
    /\ style \in {"stream", "message", "any"}
    /\ files \in [Fd -> Kinds]
    /\ handles \in [Fd -> Handle \cup {NoHandle}]
    /\ \A fd \in Fd : handles[fd] # NoHandle <=> files[fd] \in HostKinds
    /\ peers \in [Fd -> Fd \cup {NoFd}]
    /\ queue \in [Fd -> NoQueue .. MaxQueue]
    /\ waits \in [Thread -> [family : {"stream", "message"}, fd : Fd] \cup {NoWait}]
    /\ parent \in Fd \cup {NoFd} /\ tied \in Fd \cup {NoFd}
    /\ cleanupDone \in BOOLEAN
    /\ excused \subseteq opened /\ opened \subseteq Handle

Init ==
    /\ style \in {"stream", "message", "any"}
    /\ files = [fd \in Fd |-> "free"] /\ handles = [fd \in Fd |-> NoHandle]
    /\ peers = [fd \in Fd |-> NoFd] /\ queue = [fd \in Fd |-> NoQueue]
    /\ waits = [t \in Thread |-> NoWait]
    /\ parent = NoFd /\ tied = NoFd /\ cleanupDone = FALSE
    /\ opened = {} /\ excused = {}

----------------------------------------------------------------------------
\* Descriptors whose handle the application owns

\* the lowest descriptor that is free, the first slot that waits: at most one
Lowest(S) == {x \in S : \A y \in S : x <= y}

Free == {fd \in Fd : files[fd] = "free"}

\* A careful program keeps to one family of calls, has one receiver at a time
\* on a socket, asks for and sends at least one byte, and does not close a
\* socket it is receiving from.
Careful == style # "any"

\* The table when the descriptors of a set get a handle of a kind.
Entered(fds, kind, h) ==
    /\ files' = [fd \in Fd |-> IF fd \in fds THEN kind ELSE files[fd]]
    /\ handles' = [fd \in Fd |-> IF fd \in fds THEN h ELSE handles[fd]]

\* The handles a step leaves open with the application.
LeavesOpen(kept, lost) ==
    /\ opened' = opened \cup kept
    /\ excused' = excused \cup lost \cup (IF cleanupDone THEN kept ELSE {})

\* The end of open, socket and accept: the lowest free descriptor gets the
\* handle; with none left, or when accept cannot store the address (fails),
\* the handle is closed, which the application may refuse.
AdoptLeaks(kind, h, fails, refused) ==
    LET to == IF fails THEN {} ELSE Lowest(Free)
    IN  Entered(to, kind, h) /\ LeavesOpen({h}, {})

Adopt(kind, h, fails, refused) ==
    LET to == IF fails THEN {} ELSE Lowest(Free)
    IN  /\ Entered(to, kind, h)
        /\ IF to # {} THEN LeavesOpen({h}, {})
           ELSE LeavesOpen({h} \cap refused, {h} \cap refused)

\* shadps4_hle_open of a path of the application
OpenStorage(h, refused) ==
    /\ Adopt("storage", h, FALSE, refused)
    /\ UNCHANGED <<style, sockets, process, cleanupDone>>

\* shadps4_hle_open of a virtual device
OpenDevice ==
    /\ Entered(Lowest(Free), "device", NoHandle)
    /\ UNCHANGED <<style, sockets, process, cleanupDone, appSide>>

Socket(h, refused) ==
    /\ Adopt("network", h, FALSE, refused)
    /\ UNCHANGED <<style, sockets, process, cleanupDone>>

Accept(h, fails, refused) ==
    /\ \E fd \in Fd : files[fd] = "network"
    /\ Adopt("network", h, fails, refused)
    /\ UNCHANGED <<style, sockets, process, cleanupDone>>

\* SOCKET_PAIR with a pair of the application.  When the second handle finds
\* no descriptor, or the guest cannot be told (fails), what was adopted is
\* closed again; a descriptor whose close is refused stays.
SocketPair(h, g, fails, refused) ==
    LET first  == Lowest(Free)
        second == Lowest(Free \ first)
        kept   == IF second # {} /\ ~fails THEN {h, g} ELSE {h, g} \cap refused
        one    == IF h \in kept THEN first ELSE {}
        other  == IF g \in kept THEN second ELSE {}
    IN  /\ files' = [fd \in Fd |->
                        IF fd \in one \cup other THEN "network" ELSE files[fd]]
        /\ handles' = [fd \in Fd |-> IF fd \in one THEN h
                                     ELSE IF fd \in other THEN g ELSE handles[fd]]
        /\ LeavesOpen(kept, {x \in kept : IF x = h THEN one = {} ELSE other = {}})
        /\ UNCHANGED <<style, sockets, process, cleanupDone>>

----------------------------------------------------------------------------
\* Local sockets

\* The launcher and the process it started have one descriptor table: while
\* the process is active, a close of either end of its socket does nothing.
HeldByNumber(fd) == parent # NoFd /\ fd = parent
Held(fd) == parent # NoFd /\ (fd = parent \/ peers[fd] = parent)

\* SOCKET_PAIR when the application has no pair to give
LocalPair(fails) ==
    \E first \in Lowest(Free) : \E second \in Lowest(Free \ {first}) :
        /\ fails => parent \in {first, second}
        /\ files' = [files EXCEPT ![first] = "local", ![second] = "local"]
        /\ peers' = [peers EXCEPT ![first] = second, ![second] = first]
        /\ queue' = [queue EXCEPT ![first] = 0, ![second] = 0]
        /\ UNCHANGED <<style, handles, waits, process, cleanupDone, appSide>>

Receivers(fd, family) ==
    {t \in Thread : waits[t].fd = fd /\ waits[t].family = family}
Asleep(fd) == {t \in Thread : waits[t].fd = fd}

CallSizes == IF Careful THEN Sizes \ {0} ELSE Sizes

MayCall(t, fd, family) ==
    /\ waits[t] = NoWait
    /\ files[fd] = "local"
    /\ Careful => family = style

HasRoom(fd, size) == size <= MaxQueue - queue[fd]

Taken(size, want) == IF want < size THEN want ELSE size

\* send, sendmsg and the plain write.  The bytes go to the other end, and the
\* first thread that waits there in a call of the same family is given what
\* it asked for, which waits does not keep.  A woken recvmsg that still finds nothing, after an empty
\* sendmsg, waits again in the name of the thread that now runs on its vCPU.
SendWakesNobody(t, fd, family, size) ==
    LET to == peers[fd]
    IN  /\ MayCall(t, fd, family)
        /\ to # NoFd /\ files[to] = "local"
        /\ queue[to] # NoQueue /\ HasRoom(to, size)
        /\ queue' = [queue EXCEPT ![to] = @ + size]
        /\ UNCHANGED <<style, table, peers, waits, process, cleanupDone, appSide>>

Send(t, fd, family, size) ==
    LET to    == peers[fd]
        total == queue[to] + size
        first == Lowest(Receivers(to, family))
    IN  /\ MayCall(t, fd, family)
        /\ to # NoFd /\ files[to] = "local"
        /\ queue[to] # NoQueue /\ HasRoom(to, size)
        /\ IF first = {}
           THEN queue' = [queue EXCEPT ![to] = total] /\ UNCHANGED waits
           ELSE \E r \in first, want \in CallSizes, current \in Thread :
                /\ queue' = [queue EXCEPT ![to] = total - Taken(total, want)]
                /\ waits' = [waits EXCEPT
                     ![current] = IF /\ family = "message" /\ total = 0
                                     /\ waits[current] = NoWait
                                  THEN waits[r] ELSE @,
                     ![r] = NoWait]
        /\ UNCHANGED <<style, table, peers, process, cleanupDone, appSide>>

\* recv, recvmsg and the plain read, which fails where the others wait
Receive(t, fd, family, want) ==
    /\ MayCall(t, fd, family)
    /\ Careful => Asleep(fd) = {}
    /\ \/ /\ queue[fd] > 0
          /\ queue' = [queue EXCEPT ![fd] = @ - Taken(@, want)]
          /\ UNCHANGED waits
       \/ /\ queue[fd] <= 0 /\ family # "plain"
          /\ waits' = [waits EXCEPT ![t] = [family |-> family, fd |-> fd]]
          /\ UNCHANGED queue
    /\ UNCHANGED <<style, table, peers, process, cleanupDone, appSide>>

----------------------------------------------------------------------------
\* Closing, the PS2 process, the end

\* shadps4_hle_close, when the application does not refuse.  The other end of
\* a local socket stays, without a peer; receivers are not told.
CloseWhere(fd, unlinked) ==
    /\ files[fd] # "free"
    /\ Careful => Asleep(fd) = {}
    /\ files' = [files EXCEPT ![fd] = "free"]
    /\ handles' = [handles EXCEPT ![fd] = NoHandle]
    /\ opened' = opened \ {handles[fd]}
    /\ excused' = excused \ {handles[fd]}
    /\ peers' = [e \in Fd |-> IF e \in unlinked THEN NoFd ELSE peers[e]]
    /\ queue' = [queue EXCEPT ![fd] = NoQueue]
    /\ UNCHANGED <<style, waits, process, cleanupDone>>

Linked(fd) == {e \in Fd : e = peers[fd] /\ peers[e] = fd}

CloseOtherEnd(fd) ==
    (files[fd] = "local" => ~HeldByNumber(fd)) /\ CloseWhere(fd, {fd} \cup Linked(fd))

Close(fd) ==
    (files[fd] = "local" => ~Held(fd)) /\ CloseWhere(fd, {fd} \cup Linked(fd))

\* shadps4_hle_ps2_process_add, given a socket in the launch block
ProcessAdd(fd) ==
    /\ parent = NoFd
    /\ files[fd] \in {"network", "local"}
    /\ parent' = fd /\ tied' = peers[fd]
    /\ UNCHANGED <<style, table, sockets, cleanupDone, appSide>>

\* PS2_PROCESS_KILL; a wait of the killed thread stays in its slot
ProcessKill ==
    /\ parent # NoFd
    /\ parent' = NoFd /\ tied' = NoFd
    /\ UNCHANGED <<style, table, sockets, cleanupDone, appSide>>

\* shadps4_hle_cleanup closes what the table names and keeps the table; if
\* the guest has been cleaned up before, it does nothing.
Named == {handles[fd] : fd \in Fd}
ClosesAll(refused) ==
    /\ opened' = opened \ (Named \ refused)
    /\ excused' = (excused \cup Named) \cap opened'

\* exit, an unhandled fault, a failed stack check
Exit(refused) ==
    /\ ~cleanupDone
    /\ cleanupDone' = TRUE
    /\ ClosesAll(refused)
    /\ queue' = [fd \in Fd |-> NoQueue]
    /\ UNCHANGED <<style, table, peers, waits, process>>

\* shadps4_hle_reset: cleanup, and everything as at the start
Reset(refused) ==
    /\ IF cleanupDone THEN UNCHANGED appSide ELSE ClosesAll(refused)
    /\ files' = [fd \in Fd |-> "free"] /\ handles' = [fd \in Fd |-> NoHandle]
    /\ peers' = [fd \in Fd |-> NoFd] /\ queue' = [fd \in Fd |-> NoQueue]
    /\ waits' = [t \in Thread |-> NoWait]
    /\ parent' = NoFd /\ tied' = NoFd /\ cleanupDone' = FALSE
    /\ UNCHANGED style

----------------------------------------------------------------------------
Fresh == Handle \ opened

HostCalls ==
    \/ OpenDevice
    \/ \E h \in Fresh : \E refused \in SUBSET {h} :
         \/ OpenStorage(h, refused) \/ Socket(h, refused)
         \/ \E fails \in BOOLEAN : Accept(h, fails, refused)
    \/ \E h \in Fresh : \E g \in Fresh \ {h} : \E refused \in SUBSET {h, g} :
         \E fails \in BOOLEAN : SocketPair(h, g, fails, refused)

SocketCalls ==
    \/ \E fails \in BOOLEAN : LocalPair(fails)
    \/ \E t \in Thread, fd \in Fd, family \in Families, size \in CallSizes :
         Send(t, fd, family, size) \/ Receive(t, fd, family, size)

Next ==
    \/ HostCalls \/ SocketCalls
    \/ \E fd \in Fd : Close(fd) \/ ProcessAdd(fd)
    \/ ProcessKill
    \/ \E refused \in SUBSET Named : Exit(refused) \/ Reset(refused)

Spec == Init /\ [][Next]_vars

----------------------------------------------------------------------------
\* Properties

\* Every handle the application has open is named by a descriptor, unless the
\* application refused to close it or the guest opened it after its exit; and
\* until the exit every descriptor names an open handle of its own, so that
\* closing one never closes another's.
HandlesAccounted ==
    /\ opened \ excused \subseteq Named
    /\ ~cleanupDone =>
         \A fd \in Fd : handles[fd] # NoHandle =>
             /\ handles[fd] \in opened
             /\ \A e \in Fd \ {fd} : handles[e] # handles[fd]

\* The two ends of a local pair name each other, whichever of them are closed
\* and whatever takes the number of a closed one; only a local socket has an
\* other end, and bytes are kept for local sockets only.
PairsWhole ==
    \A fd \in Fd :
        /\ peers[fd] # NoFd => /\ files[fd] = "local" /\ files[peers[fd]] = "local"
                               /\ peers[fd] # fd /\ peers[peers[fd]] = fd
        /\ queue[fd] # NoQueue => files[fd] = "local"
        /\ files[fd] = "local" /\ ~cleanupDone => queue[fd] # NoQueue

\* "keep both duplicated endpoints alive when the parent closes its copy": as
\* long as the process is active, its socket keeps the other end it had.
ChildConnected ==
    tied # NoFd => files[parent] = "local" /\ peers[parent] = tied

\* Local sockets: pairs are whole, and the process keeps its connection, through
\* every order of closes, reuse of numbers, exit of the process and cleanup.
SocketsWhole == PairsWhole /\ ChildConnected

\* A thread of a careful program never sleeps in recv or recvmsg while bytes
\* for it lie in the queue.
NoSleepOnData ==
    Careful => \A t \in Thread : waits[t] # NoWait => queue[waits[t].fd] <= 0
=============================================================================

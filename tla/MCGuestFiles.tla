----------------------------- MODULE MCGuestFiles -----------------------------
(***************************************************************************)
(* The run of the two tables by which shadps4-hle.c holds handles of the     *)
(* application.  They share no state, so a behaviour uses one of them.      *)
(***************************************************************************)
EXTENDS GuestFiles, LibraryObjects, TLC

VARIABLE part  \* the table this behaviour uses

tables == <<part, vars, libraryVars>>

Symmetry == Permutations(Handle)

\* A bound: the sockets of a program that is promised nothing about its receivers
\* hold one byte, and one of its threads receives at a time.
SmallWhenCareless ==
    Careful \/ /\ \A fd \in Fd : queue[fd] <= 1
               /\ \A t, u \in Thread : t < u => NoWait \in {waits[t], waits[u]}

\* Every library, and those that make objects of or for one another together.
Together ==
    {{"http", "http1"}, {"http", "http2"}, {"http", "webapi"},
     {"http", "webapi", "callbacks", "push"},
     {"net"}, {"netctl", "places", "playgo"}, {"matching"}, {"scores"}, {"accounts"},
     {"ajm"}, {"ngs2"}, {"audio3d"}, {"players"}, {"codecs"}, {"fonts"},
     {"devices"}, {"usbd"}, {"zlib"}, {"trophies"}, {"locks"}}

\* A bound: what says how the other table is used has one value.
TablesInit ==
    /\ Init /\ LibraryInit
    /\ \/ part = "descriptors" /\ libraries = {"net"}
       \/ part = "objects" /\ style = "any"

TablesNext ==
    \/ part = "descriptors" /\ Next /\ SmallWhenCareless' /\ UNCHANGED <<part, libraryVars>>
    \/ part = "objects" /\ LibraryNext /\ UNCHANGED <<part, vars>>

TablesSpec == TablesInit /\ [][TablesNext]_tables
=============================================================================

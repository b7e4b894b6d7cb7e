--------------------------- MODULE BrokeredStorage ---------------------------
(***************************************************************************)
(* Brokered storage of system/host.c: the application mounts files and      *)
(* folders it was granted, QEMU retains the objects, opens files through    *)
(* them under handle numbers of its own, and gives everything back at       *)
(* cleanup.                                                                 *)
(*                                                                          *)
(* Registering and mounting hold host_state_lock and host_callback_lock.    *)
(* The machine, its loader and its guest, asks for files under the BQL, one *)
(* call at a time; a call reads the tables under host_callback_lock, calls  *)
(* the application without it, and takes it again to change the tables.     *)
(***************************************************************************)
EXTENDS Integers, FiniteSets, Sequences

CONSTANTS
    Objects,       \* the StorageFile, StorageFolder and stream objects
    MountPaths,    \* the virtual paths of the mounts, sequences of names
    FilePaths,     \* the paths the guest names
    NumberCount,   \* how many handle numbers there are, 0x4000000000000000 is 0
    Backend,       \* the application's own handle numbers
    None

ASSUME StorageAssumption ==
    /\ IsFiniteSet(Objects) /\ None \notin Objects \cup Backend
    /\ Objects \cap Backend = {}
    /\ MountPaths \cup FilePaths \subseteq Seq(STRING) \ {<<>>}
    /\ NumberCount \in Nat \ {0}

Numbers == 0 .. NumberCount - 1

VARIABLES
    phase,       \* how far the application has come: Phases
    registered,  \* host_brokered_callbacks is set
    mounts,      \* host_brokered_mounts
    handles,     \* host_brokered_handles
    nextNumber,  \* host_next_brokered_handle
    ask,         \* the machine's call in progress
    emptied,     \* the mounts and files cleanup took out of the tables
    held         \* retain less release of each object, as the application counts

tables == <<registered, mounts, handles, nextNumber>>
storageVars == <<phase, tables, ask, emptied, held>>

Phases == {"setup",         \* neither host_initializing nor host_initialized
           "initializing", "initialized",
           "cleaned",       \* host_cleaned, before qemu_cleanup
           "stopped",       \* qemu_cleanup returned
           "closing",       \* cleanup closes handles and frees mounts
           "over"}          \* qemu_host_cleanup returned
Mount  == [path : MountPaths, object : Objects, stream : Objects \cup {None}]
NoFile == [backend |-> None, path |-> <<>>]
File   == [backend : Backend, path : FilePaths] \cup {NoFile}
NoAsk  == [op |-> "none", path |-> <<>>, number |-> None, backend |-> None]

\* The types.
StorageTypeOK ==
    /\ phase \in Phases /\ registered \in BOOLEAN
    /\ mounts \subseteq Mount
    /\ handles \in [Numbers -> File] /\ nextNumber \in Numbers
    /\ ask \in [op : {"none", "open", "use", "close", "path"},
                path : FilePaths \cup {<<>>},
                number : Numbers \cup {None}, backend : Backend \cup {None}]
    /\ emptied \in [mounts : SUBSET Mount, files : SUBSET File]
    /\ held \in [Objects -> Int]

StorageInit ==
    /\ phase = "setup" /\ registered = FALSE
    /\ mounts = {} /\ handles = [n \in Numbers |-> NoFile] /\ nextNumber = 0
    /\ ask = NoAsk
    /\ emptied = [mounts |-> {}, files |-> {}]
    /\ held = [o \in Objects |-> 0]

----------------------------------------------------------------------------
\* Mounts

IsFile(m) == m.stream # None

Retained(m, o) == (IF m.object = o THEN 1 ELSE 0)
                  + (IF m.stream = o THEN 1 ELSE 0)

\* The mounts whose path is a prefix, up to a separator; a file mount serves
\* exactly its path.
Covering(ms, path) ==
    {m \in ms : /\ Len(m.path) <= Len(path)
                /\ SubSeq(path, 1, Len(m.path)) = m.path
                /\ IsFile(m) => Len(path) = Len(m.path)}

\* The longest of them.
MountOf(ms, path) ==
    CHOOSE m \in Covering(ms, path) :
        \A n \in Covering(ms, path) : Len(n.path) <= Len(m.path)

Relative(m, path) == SubSeq(path, Len(m.path) + 1, Len(path))

Served(path) == Covering(mounts, path) # {}

\* Registration, mounting and unmounting fail with EBUSY from init on.
MountingAllowedUntilReady == phase \in {"setup", "initializing"}
MountingAllowed == phase = "setup"

RegisterStorage ==
    /\ MountingAllowed /\ mounts = {}
    /\ registered' = TRUE
    /\ UNCHANGED <<phase, mounts, handles, nextNumber, ask, emptied, held>>

AddMount(m) ==
    /\ MountingAllowed /\ registered
    /\ \A n \in mounts : n.path # m.path
    /\ mounts' = mounts \cup {m}
    /\ held' = [o \in Objects |-> held[o] + Retained(m, o)]
    /\ UNCHANGED <<phase, registered, handles, nextNumber, ask, emptied>>

\* host_brokered_mount_free: release the stream and the object.
ReleasedObject(m) == [held EXCEPT ![m.object] = @ - 1]
Released(m) == [o \in Objects |-> held[o] - Retained(m, o)]

Unmount(m) ==
    /\ MountingAllowed
    /\ mounts' = mounts \ {m}
    /\ held' = Released(m)
    /\ UNCHANGED <<phase, registered, handles, nextNumber, ask, emptied>>

\* qemu_host_init; the loader opens its files while it runs.
InitBegin ==
    /\ phase = "setup" /\ phase' = "initializing"
    /\ UNCHANGED <<tables, ask, emptied, held>>

InitFinish ==
    /\ phase = "initializing" /\ ask = NoAsk /\ phase' = "initialized"
    /\ UNCHANGED <<tables, ask, emptied, held>>

----------------------------------------------------------------------------
\* Calls of the machine

MachineRuns == phase \in {"initializing", "initialized", "cleaned"}

Calls(op, path, number, backend) ==
    /\ MachineRuns /\ ask = NoAsk
    /\ ask' = [op |-> op, path |-> path, number |-> number, backend |-> backend]
    /\ UNCHANGED <<phase, tables, emptied, held>>

Returns(hs, n) ==
    /\ ask' = NoAsk /\ handles' = hs /\ nextNumber' = n
    /\ UNCHANGED <<phase, registered, mounts, emptied, held>>

\* The handles of the application that QEMU knows of.
Known == {handles[n].backend : n \in Numbers} \cup {ask.backend}

\* qemu_host_storage_open finds the mount and calls open_file or open_at ...
OpenFile(path) == Served(path) /\ Calls("open", path, None, None)

\* ... which fails, ENOENT for example, ...
OpenFails == ask.op = "open" /\ ask.backend = None /\ Returns(handles, nextNumber)

\* ... or opens a file.
OpenSucceeds(b) ==
    /\ ask.op = "open" /\ ask.backend = None /\ b \notin Known
    /\ ask' = [ask EXCEPT !.backend = b]
    /\ UNCHANGED <<phase, tables, emptied, held>>

\* The k-th number after n; they start again after the last.
After(n, k) == (n + k) % NumberCount
Free(n) == handles[n] = NoFile

\* The first number from next on that is not in the table.
FirstFree(n) ==
    /\ Free(n)
    /\ \E k \in Numbers :
         /\ n = After(nextNumber, k)
         /\ \A j \in 0 .. k - 1 : ~Free(After(nextNumber, j))

\* Second part of qemu_host_storage_open.
Publish ==
    /\ ask.op = "open" /\ ask.backend # None
    /\ \E n \in Numbers :
         /\ FirstFree(n)
         /\ Returns([handles EXCEPT ![n] = [backend |-> ask.backend,
                                            path |-> ask.path]],
                    After(n, 1))

\* read, write, seek, readdir, flush and truncate of an open file.  An
\* application without write, flush or truncate is not called.
UseFile(n) == handles[n] # NoFile /\ Calls("use", handles[n].path, n, handles[n].backend)

\* stat, of a file or in a folder
Stat(path) == Served(path) /\ Calls("path", path, None, None)

\* mkdir and unlink, atomic_replace and cleanup need a folder; mkdir of the
\* mounted folder itself finds it there.
NameOps == {"mkdir", "unlink"}
TreeOps == {"atomic_replace", "cleanup"}
FolderCall(op, path) ==
    /\ Served(path)
    /\ LET m == MountOf(mounts, path) IN
         /\ ~IsFile(m)
         /\ op = "mkdir" => Relative(m, path) # <<>>
    /\ Calls("path", path, None, None)

\* rename stays within one folder object, which may be mounted twice.
Rename(old, new) ==
    /\ Served(old) /\ Served(new)
    /\ LET from == MountOf(mounts, old)
           to   == MountOf(mounts, new) IN
         /\ ~IsFile(from) /\ ~IsFile(to)
         /\ from.object = to.object
    /\ Calls("path", old, None, None)

\* The application answers; of these operations nothing is kept.
StorageAnswer == ask.op \in {"use", "path"} /\ Returns(handles, nextNumber)

\* qemu_host_storage_close: the handle leaves the table only when the
\* application could close it.
CloseFile(n) == handles[n] # NoFile /\ Calls("close", handles[n].path, n, handles[n].backend)

CloseFails == ask.op = "close" /\ ask.backend # None /\ Returns(handles, nextNumber)

CloseSucceeds ==
    /\ ask.op = "close" /\ ask.backend # None
    /\ ask' = [ask EXCEPT !.backend = None]
    /\ UNCHANGED <<phase, tables, emptied, held>>

CloseRemove ==
    /\ ask.op = "close" /\ ask.backend = None
    /\ Returns([handles EXCEPT ![ask.number] = NoFile], nextNumber)

----------------------------------------------------------------------------
\* qemu_host_cleanup

CleanupBegin ==
    /\ phase = "initialized" /\ phase' = "cleaned"
    /\ UNCHANGED <<tables, ask, emptied, held>>

\* qemu_cleanup under the BQL stops the machine.
QemuCleanup ==
    /\ phase = "cleaned" /\ ask = NoAsk /\ phase' = "stopped"
    /\ UNCHANGED <<tables, ask, emptied, held>>

\* host_brokered_cleanup takes the tables, ...
CleanupTake ==
    /\ phase = "stopped"
    /\ phase' = "closing"
    /\ emptied' = [mounts |-> mounts,
                 files  |-> {handles[n] : n \in Numbers} \ {NoFile}]
    /\ mounts' = {} /\ handles' = [n \in Numbers |-> NoFile]
    /\ UNCHANGED <<registered, nextNumber, ask, held>>

\* ... closes every handle, whatever the application answers, ...
CleanupClose(f) ==
    /\ phase = "closing"
    /\ emptied' = [emptied EXCEPT !.files = @ \ {f}]
    /\ UNCHANGED <<phase, tables, ask, held>>

\* ... then frees the mounts ...
CleanupFree(m) ==
    /\ phase = "closing" /\ emptied.files = {}
    /\ emptied' = [emptied EXCEPT !.mounts = @ \ {m}]
    /\ held' = Released(m)
    /\ UNCHANGED <<phase, tables, ask>>

\* ... and clears the callbacks.
CleanupEnd ==
    /\ phase = "closing" /\ emptied.files = {} /\ emptied.mounts = {}
    /\ phase' = "over" /\ registered' = FALSE /\ nextNumber' = 0
    /\ UNCHANGED <<mounts, handles, ask, emptied, held>>

----------------------------------------------------------------------------
Application ==
    \/ RegisterStorage \/ InitBegin \/ InitFinish
    \/ \E m \in Mount : AddMount(m)
    \/ \E m \in mounts : Unmount(m)
    \/ CleanupBegin \/ QemuCleanup

Cleanup ==
    \/ CleanupTake
    \/ \E f \in emptied.files : CleanupClose(f)
    \/ \E m \in emptied.mounts : CleanupFree(m)
    \/ CleanupEnd

Asks ==
    \/ \E path \in FilePaths :
         \/ OpenFile(path) \/ Stat(path)
         \/ \E op \in NameOps \cup TreeOps : FolderCall(op, path)
    \/ \E old, new \in FilePaths : Rename(old, new)
    \/ \E n \in Numbers : UseFile(n) \/ CloseFile(n)

Answers ==
    \/ OpenFails \/ Publish \/ StorageAnswer
    \/ \E b \in Backend : OpenSucceeds(b)
    \/ CloseFails \/ CloseSucceeds \/ CloseRemove

StorageNext == Application \/ Cleanup \/ Asks \/ Answers

StorageSpec == StorageInit /\ [][StorageNext]_storageVars

\* The application's callbacks return, and the thread in qemu_host_cleanup goes on.
StorageFairSpec ==
    /\ StorageSpec
    /\ WF_storageVars(Answers) /\ WF_storageVars(Cleanup) /\ SF_storageVars(QemuCleanup)

----------------------------------------------------------------------------
\* What the application is promised

Mounted == mounts \cup emptied.mounts

\* The object and the stream behind a path.
Behind(path) ==
    IF Covering(Mounted, path) = {} THEN <<None, None>>
    ELSE LET m == MountOf(Mounted, path) IN <<m.object, m.stream>>

\* A file that is being opened is open, one that could be closed is not.
OpenFiles ==
    ( {handles[n] : n \in {k \in Numbers : ~(/\ ask.op = "close"
                                             /\ ask.backend = None
                                             /\ ask.number = k)}}
      \cup emptied.files
      \cup {[backend |-> ask.backend, path |-> path] :
               path \in {p \in {ask.path} : ask.op = "open"}} ) \ {NoFile}

\* The object the application's handle b was opened through.
Through(b) ==
    IF \E f \in OpenFiles : f.backend = b
    THEN Behind((CHOOSE f \in OpenFiles : f.backend = b).path)[1]
    ELSE None

\* What the application was called with, until it answers.
Using ==
    ( IF ask.op = "path" \/ (ask.op = "open" /\ ask.backend = None)
      THEN {Behind(ask.path)[1], Behind(ask.path)[2]}
      ELSE IF ask.op = "open" THEN {} ELSE {ask.backend} ) \ {None}

Loans == INSTANCE ObjectLoans
           WITH Handles <- Backend,
                loans   <- held,
                through <- [b \in Backend |-> Through(b)],
                using   <- Using,
                closing <- phase \in {"cleaned", "stopped", "closing", "over"},
                over    <- phase = "over"

\* The storage borrows as ObjectLoans says: host.c uses an object or a handle
\* only while the application lends it, releases what it retained exactly once
\* and no object before the handles behind it are closed.
LoansKept == Loans!Spec

\* qemu_host_cleanup gives everything back, though a guest kept its files open
\* and the application refused to close them.
AllReturned == Loans!AllReturned
=============================================================================

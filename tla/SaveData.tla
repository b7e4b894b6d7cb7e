------------------------------ MODULE SaveData ------------------------------
(***************************************************************************)
(* The save data of a title (shadps4-hle.c, shadps4-services2.inc.c): save   *)
(* directories, their backups, and save data memory, all kept by the         *)
(* application's storage, which outlives a crash.                            *)
(*                                                                          *)
(* A guest call runs under the BQL, so no other call comes in between; but   *)
(* copying a directory asks the application many times, and QEMU may end,    *)
(* and the application refuse, at each of them.                              *)
(***************************************************************************)
EXTENDS Integers, Sequences

CONSTANTS
    Names,          \* the directory names of the title's saves
    Marked,         \* a name and "tmp" or "old": the name with .tmp or .old after it
    SaveFiles,      \* the files in a save, icon0.png and others
    MaxVersion,     \* bound: contents of a file that are told apart
    MemorySlots,    \* the slots of save data memory
    MaxMemory,      \* bound: units of memory in a slot, for 64 MiB
    MaxFaults,      \* bound: crashes and refusals
    SavePermitted   \* what may happen in a run, of SaveHazards

\* What the application may do beyond refusing to copy or to rename, and the title.
\* "vacant_backup": the title backs up the empty save a mount gave it in place of
\* one that a cut has left beside its place.
SaveHazards == {"remove_fails", "stat_fails", "vacant_backup"}
Marks == {"tmp", "old"}

ASSUME SaveAssumption ==
    /\ MaxVersion \in Nat \ {0} /\ MaxMemory \in Nat /\ MaxFaults \in Nat
    /\ \A x, y \in Names \X Marks : Marked[x] = Marked[y] => x = y
    /\ "" \notin Names \cup SaveFiles
    /\ SavePermitted \subseteq SaveHazards

\* No save has the name another one's copies get.
NamesApart == \A x \in Names \X Marks : Marked[x] \notin Names

VARIABLES
    tree,         \* what stands at a path of the application's storage
    initialized,  \* save_data_initialized
    mounted,      \* the name in save_data_dir when save_data_mounted, or ""
    op,           \* the backup or restore in progress
    crashes,      \* how often QEMU ended during one
    refusals,     \* how often the application refused
    placed,       \* what was last put at a save or a backup
    lasting,      \* what the title made there or had copied there, which a mount that
                  \* finds nothing does not change
    memory,       \* the units of memory<slot>.bin
    ready,        \* save_memory_ready
    size,         \* save_memory_size
    stored        \* what the title last set each unit to

copies == <<tree, op, crashes, refusals, placed, lasting>>
memories == <<memory, ready, size, stored>>
saveVars == <<copies, initialized, mounted, memories>>

Areas  == {"save", "backup"}  \* save_data_root, and the same with -backup
Homes  == Areas \X Names
Places == Areas \X (Names \cup {Marked[x] : x \in Names \X Marks})
Tmp(p) == <<p[1], Marked[<<p[2], "tmp">>]>>
Old(p) == <<p[1], Marked[<<p[2], "old">>]>>
Source(p) == <<IF p[1] = "save" THEN "backup" ELSE "save", p[2]>>

\* A file is absent, has a content, or was cut in the middle of being copied.
Absent  == 0
Torn    == MaxVersion + 1
NoTree  == [f \in {} |-> Absent]
Empty   == [f \in SaveFiles |-> Absent]
Trees   == [SaveFiles -> 0 .. Torn] \cup {NoTree}

NoFile  == ""
AtRest  == [step |-> "none", to |-> <<"save", "">>, had |-> FALSE, done |-> {},
            file |-> NoFile]
Steps   == {"clear", "mkdir", "copy", "drop", "away", "in", "back", "undo", "end"}
Working == op # AtRest
SaveTmp == Tmp(op.to)
From    == tree[Source(op.to)]

Units == 1 .. MaxMemory

\* The types.
SaveTypeOK ==
    /\ tree \in [Places -> Trees] /\ placed \in [Homes -> Trees]
    /\ lasting \in [Homes -> Trees]
    /\ initialized \in BOOLEAN /\ mounted \in Names \cup {""}
    /\ op \in [step : Steps, to : Homes, had : BOOLEAN, done : SUBSET SaveFiles,
               file : SaveFiles \cup {NoFile}] \cup {AtRest}
    /\ crashes \in Nat /\ refusals \in Nat
    /\ memory \in [MemorySlots -> Seq(0 .. MaxVersion)]
    /\ ready \in [MemorySlots -> BOOLEAN] /\ size \in [MemorySlots -> 0 .. MaxMemory]
    /\ stored \in [MemorySlots -> [Units -> 0 .. MaxVersion]]

SaveInit ==
    /\ tree = [p \in Places |-> NoTree]
    /\ placed = [p \in Homes |-> NoTree] /\ lasting = placed
    /\ initialized = FALSE /\ mounted = "" /\ op = AtRest
    /\ crashes = 0 /\ refusals = 0
    /\ memory = [s \in MemorySlots |-> <<>>]
    /\ ready = [s \in MemorySlots |-> FALSE] /\ size = [s \in MemorySlots |-> 0]
    /\ stored = [s \in MemorySlots |-> [u \in Units |-> 0]]

----------------------------------------------------------------------------
\* The library and its directories

Calling == ~Working /\ initialized

Put(p, content) ==
    /\ tree' = [tree EXCEPT ![p] = content]
    /\ placed' = [placed EXCEPT ![p] = content]
    /\ lasting' = [lasting EXCEPT ![p] = content]
    /\ UNCHANGED <<op, crashes, refusals>>

Initialize ==
    /\ ~Working /\ initialized' = TRUE
    /\ UNCHANGED <<copies, mounted, memories>>

Terminate ==
    /\ ~Working /\ initialized' = FALSE /\ mounted' = ""
    /\ UNCHANGED <<copies, memories>>

\* shadps4_hle_save_mount makes the directory if there is none, and says so; it
\* does not look for what a cut may have left beside
MakeDirectory(home) ==
    /\ tree' = [tree EXCEPT ![home] = Empty]
    /\ placed' = [placed EXCEPT ![home] = Empty]
    /\ lasting' = [lasting EXCEPT ![home] = IF @ = NoTree THEN Empty ELSE @]
    /\ UNCHANGED <<op, crashes, refusals>>

Mount(n) ==
    LET home == <<"save", n>> IN
    /\ Calling /\ mounted' = n
    /\ IF tree[home] = NoTree THEN MakeDirectory(home) ELSE UNCHANGED copies
    /\ UNCHANGED <<initialized, memories>>

TransferringMount(n) ==
    /\ Calling /\ tree[<<"save", n>>] # NoTree
    /\ mounted' = n
    /\ UNCHANGED <<copies, initialized, memories>>

Umount ==
    /\ Calling /\ mounted # ""
    /\ mounted' = ""
    /\ UNCHANGED <<copies, initialized, memories>>

\* the title changes a file of /savedata0, by its file calls or as its icon;
\* what a failure leaves of it is one more content
Store(f, content) ==
    LET home == <<"save", mounted>> IN
    /\ ~Working /\ mounted # "" /\ tree[home] # NoTree
    /\ Put(home, [tree[home] EXCEPT ![f] = content])
    /\ UNCHANGED <<initialized, mounted, memories>>

\* shadps4_hle_save_delete does not ask whether the library is initialized
Delete(n) ==
    /\ ~Working
    /\ Put(<<"save", n>>, NoTree)
    /\ UNCHANGED <<initialized, mounted, memories>>

----------------------------------------------------------------------------
(***************************************************************************)
(* Backup and restore, shadps4_hle_save_backup_operation: the source is      *)
(* copied beside the destination, the destination moved away, the copy moved *)
(* in, and what was moved away removed.  The application serves each request *)
(* in a step of its own.                                                     *)
(***************************************************************************)
Refusing == crashes + refusals < MaxFaults /\ refusals' = refusals + 1

Copying == UNCHANGED <<initialized, mounted, memories, crashes>>
Settled == UNCHANGED <<placed, lasting>>
Unmoved == Settled /\ UNCHANGED tree

Begin(to) ==
    /\ Calling /\ tree[Source(to)] # NoTree
    /\ op' = [AtRest EXCEPT !.step = "clear", !.to = to]
    /\ Copying /\ Unmoved /\ UNCHANGED refusals

Vacant(p) == tree[p] # lasting[p]
Backup(n) ==
    /\ Vacant(<<"save", n>>) => "vacant_backup" \in SavePermitted
    /\ Begin(<<"backup", n>>)
Restore(n) == Begin(<<"save", n>>)

\* Nobody looks at what qemu_host_storage_cleanup returns.
CleanUp(p) ==
    \/ tree' = [tree EXCEPT ![p] = NoTree] /\ UNCHANGED refusals
    \/ "remove_fails" \in SavePermitted /\ Refusing /\ UNCHANGED tree

\* the mutant leaves what an earlier call left
ClearNothing ==
    /\ op.step = "clear" /\ op' = [op EXCEPT !.step = "mkdir"]
    /\ UNCHANGED <<tree, refusals>> /\ Settled /\ Copying
ClearTemporary ==
    /\ op.step = "clear" /\ op' = [op EXCEPT !.step = "mkdir"]
    /\ CleanUp(SaveTmp)
    /\ Copying /\ Settled

\* mkdir of the temporary directory, which may be there already
CopyBegin ==
    /\ op.step = "mkdir" /\ op' = [op EXCEPT !.step = "copy"]
    /\ tree' = [tree EXCEPT ![SaveTmp] = IF @ = NoTree THEN Empty ELSE @]
    /\ Copying /\ Settled /\ UNCHANGED refusals

\* shadps4_hle_storage_copy_file truncates the file and fills it
OpenCopy(f) ==
    /\ op.step = "copy" /\ op.file = NoFile
    /\ f \notin op.done /\ From[f] # Absent
    /\ tree' = [tree EXCEPT ![SaveTmp] = [@ EXCEPT ![f] = Torn]]
    /\ op' = [op EXCEPT !.file = f]
    /\ Copying /\ Settled /\ UNCHANGED refusals

FillCopy ==
    /\ op.step = "copy" /\ op.file # NoFile
    /\ tree' = [tree EXCEPT ![SaveTmp] = [@ EXCEPT ![op.file] = From[op.file]]]
    /\ op' = [op EXCEPT !.done = @ \cup {op.file}, !.file = NoFile]
    /\ Copying /\ Settled /\ UNCHANGED refusals

\* making the directory, listing the source or copying a file was refused
CopyFails ==
    /\ op.step \in {"mkdir", "copy"} /\ op' = [op EXCEPT !.step = "undo"]
    /\ Refusing
    /\ Copying /\ Unmoved

\* shadps4_hle_storage_copy_tree came to the end, and stat finds the destination,
\* or fails to
CopyEnd ==
    /\ op.step = "copy" /\ op.file = NoFile
    /\ \A f \in SaveFiles : From[f] # Absent => f \in op.done
    /\ \/ /\ op' = [op EXCEPT !.step = "drop", !.had = tree[op.to] # NoTree]
          /\ UNCHANGED refusals
       \/ /\ "stat_fails" \in SavePermitted /\ Refusing
          /\ op' = [op EXCEPT !.step = "drop", !.had = FALSE]
    /\ Copying /\ Unmoved

DropPrevious ==
    /\ op.step = "drop"
    /\ op' = [op EXCEPT !.step = IF op.had THEN "away" ELSE "in"]
    /\ CleanUp(Old(op.to))
    /\ Copying /\ Settled

\* qemu_host_storage_rename, to a path where nothing stands
Rename(p, q) ==
    /\ tree[p] # NoTree /\ tree[q] = NoTree
    /\ tree' = [tree EXCEPT ![q] = tree[p], ![p] = NoTree]
    /\ UNCHANGED refusals

RefusesRename(q) ==
    /\ UNCHANGED tree
    /\ IF tree[q] # NoTree THEN UNCHANGED refusals ELSE Refusing

MoveAway ==
    /\ op.step = "away"
    /\ \/ Rename(op.to, Old(op.to)) /\ op' = [op EXCEPT !.step = "in"]
       \/ RefusesRename(Old(op.to)) /\ op' = [op EXCEPT !.step = "back"]
    /\ Copying /\ Settled

\* the mutant does not move back what it has moved away
MoveInOnly ==
    /\ op.step = "in"
    /\ \/ /\ Rename(SaveTmp, op.to) /\ op' = [op EXCEPT !.step = "end"]
          /\ placed' = [placed EXCEPT ![op.to] = From]
          /\ lasting' = [lasting EXCEPT ![op.to] = lasting[Source(op.to)]]
       \/ /\ RefusesRename(op.to) /\ op' = [op EXCEPT !.step = "undo"]
          /\ Settled
    /\ Copying
MoveIn ==
    /\ op.step = "in"
    /\ \/ /\ Rename(SaveTmp, op.to) /\ op' = [op EXCEPT !.step = "end"]
          /\ placed' = [placed EXCEPT ![op.to] = From]
          /\ lasting' = [lasting EXCEPT ![op.to] = lasting[Source(op.to)]]
       \/ /\ RefusesRename(op.to)
          /\ op' = [op EXCEPT !.step = IF op.had THEN "back" ELSE "undo"]
          /\ Settled
    /\ Copying

\* nothing was moved away when that was refused
MoveBack ==
    /\ op.step = "back" /\ op' = [op EXCEPT !.step = "undo"]
    /\ \/ Rename(Old(op.to), op.to)
       \/ UNCHANGED tree /\ IF tree[Old(op.to)] = NoTree \/ tree[op.to] # NoTree
                            THEN UNCHANGED refusals ELSE Refusing
    /\ Copying /\ Settled

\* the call ends in an error, or well
Undo ==
    /\ op.step = "undo" /\ op' = AtRest
    /\ CleanUp(SaveTmp)
    /\ Copying /\ Settled

Finish ==
    /\ op.step = "end" /\ op' = AtRest
    /\ CleanUp(Old(op.to))
    /\ Copying /\ Settled

BackupStep ==
    \/ ClearTemporary \/ CopyBegin \/ FillCopy \/ CopyFails \/ CopyEnd
    \/ \E f \in SaveFiles : OpenCopy(f)
    \/ DropPrevious \/ MoveAway \/ MoveIn \/ MoveBack \/ Undo \/ Finish

----------------------------------------------------------------------------
\* Save data memory: a file of its own for each slot

Zeros(n) == [u \in 1 .. n |-> 0]

Extended(units, n) == units \o Zeros(n - Len(units))  \* n may be less

\* the mutant writes the last byte always
SetupMemoryAlways(s, n) ==
    /\ Calling
    /\ ready' = [ready EXCEPT ![s] = TRUE] /\ size' = [size EXCEPT ![s] = n]
    /\ memory' = [memory EXCEPT ![s] = [Extended(@, n) EXCEPT ![n] = 0]]
    /\ UNCHANGED <<copies, initialized, mounted, stored>>
\* both setups write the last byte of a file that is too short; to one they could
\* not ask the size of, they write it too
SetupMemory(s, n) ==
    /\ Calling
    /\ ready' = [ready EXCEPT ![s] = TRUE] /\ size' = [size EXCEPT ![s] = n]
    /\ IF Len(memory[s]) < n
       THEN memory' = [memory EXCEPT ![s] = Extended(@, n)] /\ UNCHANGED refusals
       ELSE \/ UNCHANGED <<memory, refusals>>
            \/ /\ "stat_fails" \in SavePermitted /\ Refusing
               /\ memory' = [memory EXCEPT ![s] = [@ EXCEPT ![n] = 0]]
    /\ Settled /\ UNCHANGED <<tree, op, crashes, initialized, mounted, stored>>

\* a stretch of units and what the title writes there
Runs(s) == {run \in [first : Units, last : Units, version : 0 .. MaxVersion] :
              run.first <= run.last /\ run.last <= size[s]}

\* The stretches that cover a unit; what the last of them writes stays.
Over(runs, u) == {i \in DOMAIN runs : u \in runs[i].first .. runs[i].last}
Latest(over)  == CHOOSE i \in over : \A j \in over : j <= i
Written(units, runs) ==
    [u \in DOMAIN units |-> IF Over(runs, u) = {} THEN units[u]
                            ELSE runs[Latest(Over(runs, u))].version]

\* shadps4_hle_save_memory_data and _legacy write the stretches in order, up to
\* one that is out of bounds or refused, of which a first part may be written
SetMemory(s, runs) ==
    /\ Calling /\ ready[s]
    /\ memory' = [memory EXCEPT ![s] = Written(@, runs)]
    /\ stored' = [stored EXCEPT ![s] = Written(@, runs)]
    /\ UNCHANGED <<copies, initialized, mounted, ready, size>>

MemoryStep ==
    \E s \in MemorySlots :
       \/ \E n \in Units : SetupMemory(s, n)
       \/ \E runs \in {<<r>> : r \in Runs(s)} \cup (Runs(s) \X Runs(s)) : SetMemory(s, runs)

----------------------------------------------------------------------------
Forgotten ==
    /\ initialized' = FALSE /\ mounted' = ""
    /\ ready' = [s \in MemorySlots |-> FALSE] /\ size' = [s \in MemorySlots |-> 0]

\* shadps4_hle_reset, or QEMU ends and is started again, between calls
SaveReset ==
    /\ ~Working /\ Forgotten
    /\ UNCHANGED <<copies, memory, stored>>

\* QEMU ends within a call
Crash ==
    /\ Working /\ crashes + refusals < MaxFaults
    /\ crashes' = crashes + 1 /\ op' = AtRest
    /\ Forgotten
    /\ Settled /\ UNCHANGED <<tree, refusals, memory, stored>>

SaveStep(n) ==
    \/ Mount(n) \/ TransferringMount(n) \/ Delete(n)
    \/ Backup(n) \/ Restore(n)

SaveNext ==
    \/ Initialize \/ Terminate \/ Umount
    \/ \E n \in Names : SaveStep(n)
    \/ \E f \in SaveFiles, content \in 0 .. MaxVersion : Store(f, content)
    \/ BackupStep \/ MemoryStep
    \/ SaveReset \/ Crash

SaveSpec == SaveInit /\ [][SaveNext]_saveVars

----------------------------------------------------------------------------
\* Properties

\* What stands at a save or a backup is whole: what the title made there, or an
\* exact copy of the other, wherever a backup or a restore was cut or refused.
\* "diretorio temporario seguido de rename, evitando destino parcial"
SavesWhole == \A p \in Homes : tree[p] \in {NoTree, placed[p]}

\* What a title has of a save or a backup is at its place or beside it, or about to
\* be replaced by a whole copy of the other, as the title asked.  A backup or a
\* restore that fails leaves its destination as it was, and one that is cut leaves
\* the old state beside it at the worst.  There it stays, also when the title then
\* mounts the save and gets an empty one (it is told so, and nothing takes the old
\* state back), until the title stores in that save, restores or deletes it.  Only
\* the backup of that empty save is left out: it replaces the backup, and a restore
\* then removes what was beside ("vacant_backup").
SavesKept ==
    \A p \in Homes : lasting[p] # NoTree =>
      \/ tree[p] = lasting[p]
      \/ tree[Old(p)] = lasting[p] /\ (op.to = p \/ crashes > 0)
      \/ op.to = p /\ crashes > 0 /\ tree[SaveTmp] = lasting[Source(p)]

\* What the title stored in save data memory is there, whatever sizes it sets up
\* later, across resets too; and memory that was set up can be read in full.
MemoryKept ==
    \A s \in MemorySlots :
      /\ \A u \in Units :
           stored[s][u] = IF u <= Len(memory[s]) THEN memory[s][u] ELSE 0
      /\ ready[s] => size[s] <= Len(memory[s])

\* The title's saves and its save data memory, through one crash or refusal.
NothingLost == SavesKept /\ MemoryKept
=============================================================================

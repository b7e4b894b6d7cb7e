# A TLA+ model of the embeddable QEMU "shadps4" machine

The repository is a fork overlay of QEMU.  It turns QEMU into a DLL that a host
application embeds (`system/host.c`, `include/qemu/qemu-host.h`) and adds a
machine, `shadps4` (`hw/i386/shadps4*.c`), that loads a PS4 program, runs its
code on up to eight TCG vCPUs and implements the console's system libraries by
high-level emulation (HLE).  Everything else in the tree is build files,
vendored code (`subprojects/dtc`), or QEMU files replaced for a UWP build.

## 1. Inventory

### 1.1 The parts and their state

| Part | Code | State | Operations |
|---|---|---|---|
| Host life cycle | `system/host.c` 24-34, 1524-1976 | nine flags under `host_state_lock`, the loop thread, the last fault | init, start, step, pause, resume, request_shutdown, request_stop, reset, join, cleanup |
| Main loop | `system/runstate.c` | run state, requests for shutdown, reset, power-down, the exit action | `main_loop_should_exit`, `qemu_main_loop_step`, `qemu_cleanup` |
| Host callbacks | `system/host.c` 274-359, 533-808, 1349-1522 | one slot per callback (function and opaque) under `host_callback_lock` | register, emit |
| Dialogs | `system/host.c` 254-272, 489-531, 1277-1347; `shadps4-hle.c` 6793-6855 | table of requests, queue of responses, next id | register, request, complete, take |
| Brokered storage | `system/host.c` 84-248, 361-487, 809-1275, 1809-1849 | mounts, handles, next handle, reported misses | mount, unmount, open, read, write, seek, close, path operations, cleanup |
| Gateway | `shadps4.c` 193-343 | the per-CPU "in the gateway" flags and results | one HLE call per MMIO write |
| Guest threads | `shadps4.c` 1169-1752 | saved contexts, handles, priorities, order, current and pending slot of each vCPU | start, block, wake, yield, preempt, exit, kill |
| Service objects | `shadps4-hle.c` 5591-6100 | 512 slots: type, owner, value, active, waiters, children | alloc, create, destroy |
| Waits | `shadps4-hle.c` 7752-7977 | per thread: kind, object, mutex, deadline timer, result | begin, finish, time out |
| Synchronisation | `shadps4-hle.c` 11247-11881, 12433-12510 | the objects' fields | mutex, condition variable, read-write lock, semaphores, barrier, once, sleeps |
| Threads API | `shadps4-hle.c` 12651-12893, 15603-15622 | thread objects | create, detach, join, exit, scheduling parameters, process kill |
| Event queues | `shadps4-hle.c` 3352-3533 | user, timer, video events | add, trigger, poll |
| Memory | `shadps4-hle.c` 1677-2910 | page-slot states, direct memory cursor | mmap, munmap, mprotect, reserve, direct allocation |
| Files, sockets, AIO | `shadps4-hle.c` 1046-1675, 3941-4195, 4959-5343 | descriptor table, socket objects | open, read, write, close, send, receive |
| Save data | `shadps4-hle.c` 6380-6790, `shadps4-services2.inc.c` | mounts, save data memory | mount, change, delete, back up, restore |
| Library services | `shadps4-hle.c` 5525-5657, 6143-6318, 8614-15296, `shadps4-services3..6.inc.c` | objects in the service slots, their owners, initialised libraries, places, trophies | create, delete, initialise, end, register, ask |
| GPU | `shadps4-gpu.c`, `shadps4-gpu-d3d12.c`, `subprojects/shadps4-gcn-bridge` | PM4 queues, video-out buffers and flips | map queue, ding-dong, submit, flip, vblank |
| Input and audio | `shadps4-io.c`, `audio/`, `ui/host-display.c` | pad state, capture ring, output ports | input events, audio in/out |
| Loader | `shadps4-loader.c` | modules, relocations, symbols | load, relocate, link |
| CPU profile | `target/i386/cxbx-cpu.c`, `tcg/region.c` | CPUID, translation buffer regions | |
| Utilities | `util/`, `block/file-win32.c`, `chardev/`, `net/`, `crypto/` | QEMU files adapted to UWP | |

### 1.2 How they interact

* The application calls `qemu_host_*` from its own threads.  Flags live under
  `host_state_lock`, callbacks and dialogs under `host_callback_lock`; both are
  released before anything else is called.  Commands ask `host_is_ready` under
  the lock and act later, under the BQL.
* The main loop runs in the thread that `qemu_host_start` creates or in the
  callers of `qemu_host_main_loop_step`.  It takes requests left in plain
  variables and is woken by `qemu_notify_event`.
* Guest code runs on vCPU threads.  A guest library call writes to the gateway's
  MMIO page: the write runs under the BQL, dispatches the HLE function, stores
  the result, and then asks the scheduler to park, requeue or switch the guest
  thread.  Timers (wait deadlines, the 2 ms preemption tick) and the work a tick
  queues on a vCPU run under the BQL as well, so that each of these is atomic
  with respect to the others.
* The HLE calls back into the application (storage, dialogs, network, video,
  audio) through the callback slots, after unlocking.

### 1.3 What is hard

* Calls of the application racing each other and the loop: start against join,
  a command against cleanup, register against an emission in flight.
* Waits: a thread is in a waiter set of an object, has a deadline, has a saved
  context and (perhaps) a vCPU; wake, time-out, destroy, kill and exit each
  touch some of these.
* The scheduler: eight vCPUs, more guest threads than vCPUs, a thread parked in
  place on a vCPU when there is nothing to switch to.
* Responses that come back for a request of an earlier registration; a full
  response queue; a handle closed twice; a backend open in flight while the
  storage is cleaned up.

## 2. Plan

Done, in this order, the behaviour everything else rests on first:

1. `HostLifecycle`: the entry points of the DLL and the main loop.
2. `HleSync`: service objects, waits, deadlines, mutexes, condition variables,
   semaphores, barriers, joins, destruction, kill, fault and reset.
3. `GuestScheduler`: vCPUs, contexts, block, wake, yield, preempt, exit, kill,
   exception handlers, priorities and affinities.
4. `HostDialog`: dialogs between guest, host table and application.
5. `GuestFiles`: descriptors, application handles, local sockets.
6. `ObjectLoans` and `BrokeredStorage`: what the storage promises the
   application, and the mounts, handles and calls that implement it.
7. `GuestMemory`: the mapping calls and their failures.  `GuestAudio`: both
   queues, the ports, the mixer and the voice.
8. `GuestGpu`, `GuestEvents`, `GpuFrames`: packets and rings, event queues and
   flips, and the ring of frames of the Direct3D back end.
9. `ModuleLoader`: which images a title has, where they lie, and who provides
   their imports.
10. `SaveData`: saves, their backups and save data memory, with crashes.
11. `LibraryObjects`: the objects of the network, web, account, media, font and
    device libraries, read-write locks and event flags.

Next:

12. AIO requests and file positions.  Noted while reading: a submit of several
    requests overwrites the failed state 4 of one with 3 (`shadps4-hle.c` 1632),
    the common id of a multi-submit stays in state 2, and ids wrap.
13. `HleSync` composed with `GuestScheduler`: `HleSync` leaves open which parked
    thread runs where, `GuestScheduler` leaves open why a thread waits.  The
    mapping is `parked <- waiting`; every scheduler step is a stutter or one wait
    or wake of `HleSync`, and `ParkedWaits` is what justifies `Running` there.
14. An abstract mutex (owner, depth, line) that the mutexes of `HleSync`
    implement; `LockView`, `HandOffInOrder` and `NoForgottenWaiter`, which are
    proved, say most of what it would.
15. Register against emission in flight of the host callbacks (`host.c` 300): an
    unregister returns while a call still uses the opaque.

Every safety property of the runs is a theorem (section 6), each under the
permitted events with which it holds.  Still to prove: the same with fewer
events excluded, where the property itself would have to say what is left
(`NothingLost` of two faults, `MemoryAccounted` of a guest that unmaps memory it
sees twice).

## 3. Modules and how they correspond to the code

Every module reads the same way: variables carry the names of the C variables
where they have one, an action is one critical section or one guest call with
everything it calls, and the comment above an action names the C function.  The
constant `Permitted` of a module lists events that are rare or wrong but
possible (`kill`, `fatal_fault`, `destroy_busy`...); a run names the ones whose
consequences it looks at, a theorem says which ones it excludes.  A call that
fails before it changes anything is not a step.

Definitions that stand directly before an action and share its parameters
(`StartAllowedDuringStep`, `AdoptLeaks`, `MoveInOnly`...) are plausible
mistakes; they are no part of the specification, and show that the properties
notice them.

| Module | Code | Atomic step |
|---|---|---|
| `HostLifecycle` | `host.c` 1524-1976, `runstate.c` main loop | a region under `host_state_lock`, or under the BQL up to a place where QEMU drops it |
| `HleSync` | `shadps4-hle.c` objects, waits, calls | a guest call; the expiry of a wait timer |
| `GuestScheduler` | `shadps4.c` 1169-1752, gateway | a gateway access, the tick's work on a vCPU, or a call seen from the scheduler |
| `HostDialog` | `host.c` dialogs, `shadps4-hle.c` library and `/dev/dialog` | a region under `host_callback_lock`; a guest call up to its callback |
| `GuestFiles` | `shadps4-hle.c` descriptors, sockets | a guest call |
| `ObjectLoans` | the contract of `qemu-host.h` | a loan, a use, a return |
| `BrokeredStorage` | `host.c` 84-248, 361-487, 809-1275, 1809-1849 | a region under `host_callback_lock`; a call of the application's callback |
| `GuestMemory` | `shadps4-hle.c` 1677-2910 | a guest call; each entry written when direct memory is mapped |
| `GuestAudio` | `shadps4-io.c`, `xaudio2audio.c`, AudioOut | a guest call or a callback of the mixer or of XAudio2 |
| `GuestGpu` | `shadps4-gpu.c` | a packet of a call under the BQL; a store of a vCPU |
| `GuestEvents` | `shadps4-hle.c` 3352-3533, VideoOut | a guest call |
| `GpuFrames` | `shadps4-gpu-d3d12.c` | a part of a call between waits for the GPU; a list the GPU executes |
| `ModuleLoader` | `shadps4.c` 5641-6290, `shadps4-loader.c` | an image |
| `SaveData` | `shadps4-hle.c` 6380-6790, `shadps4-services2.inc.c` 120-321 | a guest call; for backup and restore, each request to the application |
| `LibraryObjects` | `shadps4-hle.c` library calls, `shadps4-services3..6.inc.c` | a guest call |

`*Proofs` modules extend the component's module and hold its theorems.  `HleSync`
has two: `HleSyncProofs` for queues, waits and timers, `HleMutexProofs` for
mutexes.  `HostServicesProofs` holds those of `HostDialog` and `BrokeredStorage`,
`GuestServicesProofs` those of `GuestScheduler`, `GuestMemory` and `GuestAudio`,
`GuestDevicesProofs` those of `GuestEvents`, `GuestGpu` and `GpuFrames`,
`TitleProofs` those of `ModuleLoader` and `SaveData`, and `GuestFilesProofs` those
of `GuestFiles` and `LibraryObjects`.  `MC*` modules give constants
their values.  `MCGuestDevices`, `MCGuestFiles`, `MCTitleThreads`, `MCGuestServices`
and `MCHostServices` put several components that do not know of each other into one
run: a variable (`part` or `service`) says which of them a behaviour is about, the
others stay as they began, and the properties of all are checked.

### 3.1 HostLifecycle

`pc` says where each application thread and the loop thread are between two
critical sections; the flags are those of `host.c`.  `StartBegin`/`StartCreate`
are `qemu_host_start` before and after it leaves the lock, `StepBegin`,
`MainLoop*`, `StepFinish` are `qemu_host_main_loop_step`, and the `MainLoop*`
actions taken by the loop thread are `qemu_main_loop`.  `MainLoopCheck` is
`main_loop_should_exit` up to a reset, `MainLoopReset` the reset and the rest.
Commands (`Pause`, `Resume`, `RequestStop`...) are admitted in `CommandBegin` and
act in an action of their own, because `host_is_ready` is asked under a lock that
the command releases.  `JoinUncreated` is a join between the flags and the
creation of the thread: it joins a thread object nobody made, undefined in C, and
the model stops there (`crashed`).  Suspend, wake-up, debug and vm-stop requests
have no source on this machine and are left out.

### 3.2 HleSync

A slot is an element of `service_objects` with the columns kept beside it; a
queue is `waiters[s]`, a set as in the code's bit mask, from which `Picked`
selects by priority and then by slot.  `BeginWait`, `Wake` and `Timeout` are
`wait_begin`, `wait_finish` and the timer callback.  `held` and `parked` are what
an observer notes: how many locks each thread's calls reported, and who is not
executing.  Which vCPU runs a thread is left to the scheduler: a thread may step
whenever it is not parked, so that the model has every interleaving of eight
vCPUs.  `CondSignal` is the code's whole loop: a free mutex goes to one waiter,
the others move to that mutex's queue, and waiters whose mutex is gone are woken.
A killed thread takes no further step here; what its vCPU does in the meantime
is `GuestScheduler`'s `Zombie`.  Once and the lightweight libc mutex are left out;
read-write locks and event flags, at which no thread waits, are in
`LibraryObjects`.

### 3.3 GuestScheduler

vCPU 0 runs the main thread only and is never switched, so it appears as the
calls it makes on other threads.  For a worker, `handle`, `pending` and `gateway`
are the arrays of `shadps4.c`; `code` says whose registers the vCPU really
holds, and `inStub` that it stands between the write and the read of one
gateway call.  `saved` is the set of threads whose stored context is where they
stopped: a save that happens at the wrong moment takes the thread out of it.
`PlainCall`, `Yield`, `Wait` and `Exit` are the gateway write by what the call
asks of the scheduler; `GatewayRead` applies the pending switch; `Preempt` is the
work item the 2 ms tick queues.  A thread keeps the place in `order` that
`schedule_order` gives it.  A kill without replacement halts the vCPU; the
interrupt that makes it leave its code is taken as immediate, as with
`-accel tcg,thread=single`.

### 3.4 HostDialog

`requests` and `responses` are the host's table and queue; `call` is the request
whose callback is running, outside all locks, so an application may answer within
it or from another thread before it returns.  The library dialog (`status`,
`requestId`) and `/dev/dialog` share the queue: `Poll` takes only the library's
answer, `FileRead` the one at the head.  `Register` empties table and queue and
sets the next id to 1.  An answer is its dialog and whether it exceeds the 64
bytes the library offers; texts, kinds and results are abstracted.

### 3.5 GuestFiles

`files` is the kind of each descriptor, `handles` the application's handle it
names; storage and network handles, two number spaces in the code, are one set
here.  `Adopt` is the common end of `open`, `socket` and `accept`: the handle
exists before the descriptor and is closed if anything after it fails;
`SocketPair` does so for two.  A local socket keeps a count of bytes (`queue`),
its other end (`peers`) and the receivers asleep on it (`waits`).  A send appends
and then serves the first receiver that waits in a call of its own family; what
that receiver had asked for is chosen at the wake.  `opened` is the application's
set of open handles, `excused` those it refused to close or gave out after an
exit, `tied` the end the PS2 process had when it began.  `style` is how the guest
program uses its local sockets, chosen at the start: one family of calls with no
empty messages (`stream`, `message`), or anything.  Left out: control data of
`sendmsg`, positions and contents of files, AIO, bytes lost on a bad address.

### 3.6 ObjectLoans and BrokeredStorage

The application lends QEMU objects (files, folders) and QEMU retains them; through
them it opens handles.  `ObjectLoans` is that contract: `loans` counts the
references, `through` the object of each open handle, `using` what a call is using
at the moment.  `BeginUse` asks for a loan, the last `Return` of an object for no
use and no handle through it, and `Finish` comes when nothing is left.  `BrokeredStorage` has the two
tables of `host.c`, resolves a path by its longest mount (`MountOf`), and takes a
call apart where the code leaves the lock: looking up, retaining, calling the
application, and putting the answer into the table.  `LoansKept` is
`Loans!Spec` under the mapping at the end of the module: what `held` counts is what
is lent.  `AllReturned` says that a cleanup ends with everything given back.  The
cleanup runs after the machine has stopped; a close the application refuses keeps
its handle, which the cleanup closes again.

### 3.7 GuestMemory and GuestAudio

An area of guest addresses is 2 MiB with two pages; a flexible slot is both the
place and the memory of its number.  Mapping direct memory writes entry by entry
while other vCPUs walk the tables, so each entry is a step (`mapping` holds the
call's locals, and what the pages were as it began); other calls are one step, with
the entry whose write fails as a parameter.  `MemoryAccounted` relates the bit maps
to what the tables reach; `MapUndisturbing` compares each step with the beginning of
the call.

A frame of audio is a number and a format.  The FIFO of `shadps4-io.c`, the mixer's
voice and the buffers of XAudio2 are queues of frames; `flushed` notes those a
close or a reset throws away.  `FramesInOrder` says what is heard: each stage
continues where the one before it ends (`QueueFrom`, `MixedFrom`, `BufferFrom`), and
what is missing in between was flushed.  `DrainCompletes` says that a drain ends.

### 3.8 GuestGpu, GuestEvents and GpuFrames

A packet is one dword with a number; it draws, writes a label, or does not parse.
A submit call first checks all packets and then executes them, a ring is executed
from its read offset to the doorbell's, and both run under the BQL while vCPUs see
each write.  Indirect buffers are flattened.  `GuestEvents` keeps, beside the slots
of a queue, what is `owed`: what happened and has not been reported.

`GpuFrames` has frames, fences and the queue of lists the host's GPU has still to
execute, in order.  What a buffer holds is the set of effects (dispatches, stores
of the guest) in it, so that an upload, a dispatch and a writeback are a copy, an
addition and a copy.  A dispatch records its upload and queues its writeback before it
is known whether there is anything to dispatch (no pipeline, a size of zero), so
`Dispatch` has two `Outcomes`: a dropped one copies and writes back, and adds nothing.
`found` is what guest memory held at the last copy of a buffer.  `NewestArrives` asks
for that and for what the dispatch wrote: that is what the order of writebacks decides.
It does not ask for the result of an earlier dispatch that was still in flight at the
copy, which a dropped one overwrites.
A surface has the state the CPU recorded and the one the
texture is in on the GPU; `Lockstep` compares them through the lists not yet
executed.  What shaders compute and what is drawn is not modelled.  What a buffer or a surface
will be once the queue has been executed is written as a statement about the last
item of the queue that touches it, not as a fold over the queue.

### 3.9 ModuleLoader

`title` says what each file is, chosen at the start.  The main image, the modules
of the three directories by path, the compiler and the image of the machine's own
functions are placed behind each other; any failure ends the load
(`LoadFails`).  `Provider` is the choice among exporters, with
`prefer_hle_heap_provider` before it.  The stage ends at the first boot.

### 3.10 SaveData

`tree` is what stands at a path of the application's storage: the files of a save,
of its backup, and of their `.tmp` and `.old`.  A file is absent, has a content, or
is torn.  `op` is the place a backup or restore has come to; each request to the
application is a step, and at each QEMU may end (`Crash`, which keeps `tree`) or the
application refuse, up to `MaxFaults` in all.  `placed` is what was last put at a save
or a backup, by anyone, and is what `SavesWhole` compares with.  `lasting`, with which
`NothingLost` compares, is what the title itself made there or had copied there: the
empty directory with which a mount answers a save it does not find counts only where
there was nothing before.  So a save that a crash has left in `.old` is still what must
not be lost after a mount has put an empty one in its place, until the title stores in
that one, restores or deletes it.  Save data memory has `stored` beside it: what the
title last wrote at each place (`Written` says, unit by unit, what a list of runs leaves
there: the last run over a unit wins, and a unit in none is as it was).  `SavePermitted`
names what the runs leave out: a removal that fails unseen, a `stat` that fails, and a
title that backs up the empty save a mount gave it in place of one beside it
(`vacant_backup`).  Directories within a save, searches, parameters and the progress are
left out.

### 3.11 LibraryObjects

The libraries share the 512 slots of `HleSync` with the synchronisation objects.
Here a slot has a kind, an owner (`parents`), a handle of the application (`hosts`)
and the other columns in one record: `refers` is an object named by a column,
`state` what the library knows of it, `nonblock` and `level` the flag and the count.
`MakesAs` is `service_alloc` with what the caller then sets: the first vacant slot,
whose other columns stay as they are.  `Deletes` is `service_delete` with its
recursion, written as a least set closed under "belongs to" (`Below`); each object
that goes has its handle closed, which the application may refuse.  From these two,
and from one operator for each of "initialises", "ends", "takes a place" and "gives
it back", each library is a few lines, in the order of the code.  `earned` and
`abandoned` are what an observer notes: what the title unlocked since the context of
a slot was made, and handles nobody can close any more.

`ObjectsWhole` has four parts.  `OwnersLive`: an object lives only while its owner
does, and that is of a kind it may belong to; this is about the recursion, for a
child that stayed would belong to whatever is made next in the slot.
`NothingInherited`: a vacant slot is blank, since a new object resets only three of
its columns, and a trophy context has the flags earned in it, which no deletion
clears.  `NothingAfterEnd`: an ended library has no objects, no places and is not
open.  `WritersAlone`: a lock that is written has no readers.  `LoansNamed` is the
same account of handles as in `GuestFiles`: each open one is named by one object,
unless its close was refused or it was opened after the exit.

What the libraries answer is left out: contents, measures, formats, credentials, the
lists of callbacks to run.  So are objects that only the dialogs of
`shadps4-services5.inc.c`, ssl and jit memory make.

## 4. The runs

`CHECK_DEADLOCK FALSE` stands where the system may stop: an application that
never calls again, guest threads that wait for each other, a dialog bound used
up.

| Run | Question | Bounds and why they are enough |
|---|---|---|
| `host_lifecycle` | Do the flags keep the loop, join and cleanup apart, and does stop end the loop? | Two application threads and the loop thread.  Every guard excludes one other thread; a third caller only finds a flag set by one of the two. |
| `host_shutdown` | Does `request_shutdown` end the loop?  (violated) | As above. |
| `hle_locks` | Mutexes and condition variables under deadlines and changing priorities | Three threads, one mutex, one condition variable, depth 2, two priorities: an owner, a heir and a third that overtakes. |
| `hle_objects` | Semaphores, barriers, joins; destroying what is in use; a fault | Three slots for one object of each counted type and two threads beside main, counts up to 2: two waiters and a post for one. |
| `hle_faults` | What survives kill, exit with a lock held, nested waits, resets | Two threads, one mutex, one condition variable; a slot is used again by another type. |
| `hle_stale_timer` | Does a reset after a fault leave no timer?  (violated) | A sleep is enough. |
| `guest_devices` | Scheduler without kill: is each thread placed, runnable or waiting, resumed where it stopped, and does no vCPU halt while one could run on it?  Packets, labels, events: each once and in order?  Frames: is nothing in flight taken away, and do the last copy of a buffer and its result arrive? | Three threads on two vCPUs, two priorities: one running on each and one that competes.  A ring of 3 and calls of up to two packets in one or two buffers, four packets: the ring wraps.  A queue of three slots, so that a user event, a timer and a flip compete.  Two frames, one bound resource, one surface, two effects, four fences: each frame is used again. |
| `title_threads` | Does a thread run on one vCPU only, with kill, reuse of the slot and reset?  Which allocator does a title get?  Are saves whole and kept, and is save data memory? | Three threads on two vCPUs, at most one kept off them.  Titles of up to four files of seven kinds, six units of RAM, two modules: any may be too many or too large.  A save of two files (one copied, one not, at a cut), one fault, memory of two units (an old one and a new last one). |
| `guest_services` | Does every runnable thread get its turn among equals?  Are frames heard in order, and does drain end?  Is memory accounted for, whatever call fails where? | Four threads on one vCPU, so that the order is a round of more than a swap.  Two formats, two ports, queues of three frames and a voice of one, six frames.  Three areas, two page tables, three mapping calls: one call to map, one to split, one to fail. |
| `host_services` | Is each dialog answered once, by its own answer, and does it end?  Are objects and handles used only while lent, and all given back? | A queue of three and five dialogs: abandoned answers can fill the queue before the last request.  Two mounts, two objects, three paths and two handle numbers: one inside a folder, one replaced, numbers that run out. |
| `host_dialog_large` | Does a dialog with an answer above 64 bytes end?  (violated) | A queue of two, two dialogs. |
| `guest_files` | Are handles accounted for, pairs whole, and receivers awake when there is data?  Do objects go with their owners, and is nothing inherited or lost? | Three descriptors, so that a pair leaves one; two handles, two threads, two bytes, or one byte and one receiver at a time where a program may do anything (`SmallWhenCareless`).  Objects: four slots, the longest chain of owners (context, web API, user, request), so that a whole chain goes and each slot is used again by another kind; `Together` names the libraries that create owners and handles for each other, the others run by themselves, since they meet only in the table. |

What the runs show, beyond the names of the properties:

* The host's flags are a complete account of where threads are
  (`FlagsTrackThreads`), and from that follow one loop executor, a cleanup that
  is alone, and a status that does not change after the exit.
* No order of lock, unlock, wait, signal and expiry leaves a waiter outside all
  queues, a mutex half locked, or an owner the table does not know.
* With the NP trylock, nested waits, exits with a lock held and kills, queues and
  mutexes stay well formed (`QueueSound`, `MutexConsistent`), but `LockView` and
  `NoForgottenWaiter` are not claimed: a mutex may stay with a thread that is gone.
* Without kill every live thread is placed, runnable or waiting (`NotLost`).  That a
  runnable one is run is another matter: no halted vCPU is kicked for it, and
  `RunnableRuns` excuses a thread all whose vCPUs have halted.  With kill only
  `OneCpu` is left:
  TLC refutes `ParkedWaits`, `NotLost` and `ResumePoint` there, through the
  pending switch that kill leaves on a vCPU without a thread.
* With two registrations `RightAnswer` and `Answerable` fail, because ids begin
  at 1 again; the run has one registration, and a hazard records it.
* `NoSleepOnData` holds for programs that keep to one family of calls and send no
  empty messages.  It does not hold for all: `write` on a local socket wakes no
  receiver.
* Handles opened after the exit are not closed by anything; `HandlesAccounted`
  says so by excusing them.
* The storage of `host.c` implements `ObjectLoans` whatever the application
  refuses: no object is used after it was released, none released twice.
* Mapping calls that fail leave nothing behind, with the exceptions the hazards
  name: an answer that cannot be written, and `munmap` of memory that is mapped at
  another address.
* One fault at any step of a backup or a restore leaves both saves whole and the
  old state in its place or beside it, also after mounts that find nothing.  It is
  not safe from what the title does next: after a crash between "away" and "in" of a
  restore a mount makes an empty save, a backup of that one replaces the good backup,
  and a restore removes `.old`, the last copy; with `vacant_backup` permitted TLC
  refutes `NothingLost` by these steps.  TLC refutes it with two faults too
  (`NothingLost` with `MaxFaults = 2`; `SavesWhole` with a crash and then a removal
  that fails unseen), and its part about memory (`MemoryKept`) with a `stat` that
  fails.
* The recursion of `service_delete` is enough whatever belongs to what: no owner
  dies before its objects, although slots are used again at once, and one level of
  recursion would not do.  The order in which requests and players open and close
  loses no handle.
* Each `*Permitted` constant that is empty in a run names steps of the code that
  break a property of that run; the hazards say which and why.

## 5. Fairness

* `HostLifecycle`: the loop thread runs (it is a thread of the operating system),
  and a call past its admission finishes.  No fairness on calls, on the guest, or
  on timers: an application may never call again.
* `HleSync`: `Timeout` of each thread, since QEMU's timers fire.  Nothing else: a
  guest need not unlock.
* `GuestScheduler`: weak fairness on the second gateway access, which the stub
  executes next; strong fairness on `Preempt`, because a worker is preemptible
  again and again, not continuously, and the 2 ms tick (`shadps4.c` 78, 1525-1542)
  meets it there often enough.  The tick runs only while the machine runs and
  preemption is not disabled by the environment.
* `HostDialog`: callbacks return, the guest polls a dialog that runs, and the
  application answers each dialog it shows, trying again while the queue is full.
  These are the duties the usage guide gives to either side.
* `BrokeredStorage`: calls of the application return, the application that began
  to clean up goes on, and QEMU's main thread gets the lock in the end
  (`StorageFairSpec`).
* `GuestAudio`: the mixer asks the voice for frames and hands them on, and XAudio2
  ends its buffers.  No fairness on the guest.
* `GuestFiles`, `LibraryObjects`, `GuestMemory`, `GuestGpu`, `GuestEvents`,
  `GpuFrames`, `ModuleLoader` and `SaveData` state no liveness.

## 6. Proofs

All theorems hold for every value of the constants that satisfies the module's
named assumptions, except where a condition is given.

| Module | Theorems | Condition | Inductive invariant |
|---|---|---|---|
| `HostLifecycleProofs` | `Invariance`, `OneLoopExecutorHolds`, `CleanupAloneHolds`, `JoinedStatusHolds`, `ExitIsFinalHolds` | none | `TypeOK /\ FlagsTrackThreads` |
| `HostServicesProofs`, dialogs | `OneAnswerEachHolds`, `RightAnswerHolds`, `AnswerableHolds` | the last two: one registration; the last: `/dev/dialog` is not read meanwhile | `AInv`, `BInv`, `CInv` |
| `HostServicesProofs`, storage | `LoansKeptHolds`: `BrokeredStorage` implements `ObjectLoans` | none | `LoanInv` |
| `HleSyncProofs` | `QueueSoundHolds`, `TimersMatchWaitsHolds`, `NoForgottenWaiterHolds`, `NoLostWakeupHolds` | not both a fatal fault and a reset; the third: no kill, nothing destroyed in use; the fourth: no kill | `QInv`, `WInv`, `CInv` |
| `HleMutexProofs` | `MutexConsistentHolds`, `LockViewHolds`, `HandOffInOrderHolds` | not both a fatal fault and a reset; the second: none of `LockBreakers` | `MInv`, `LInv` |
| `GuestServicesProofs`, scheduler | `OneCpuHolds` | none | `OnceInv` |
| the same | `Invariance`, `ParkedWaitsHolds`, `NotLostHolds`, `ResumePointHolds`, `WorkConservingHolds` | no kill; the last: no reset | `SInv` |
| `GuestServicesProofs`, memory | `MemoryAccountedHolds`, `MapUndisturbingHolds` | `CarefulGuest` | `MemInv` |
| `GuestServicesProofs`, audio | `FramesInOrderHolds` | none | `VoiceInv` |
| `GuestDevicesProofs`, events | `EventsExactHolds` | `EventPermitted` is empty | `EInv` |
| `GuestDevicesProofs`, packets | `RingWholeHolds`, `LabelAfterWorkHolds` | the first: no late doorbell; the second: `GpuPermitted` is empty (no `late_doorbell`, no `draw_fails`) | `RInv`, `LInv` |
| `GuestDevicesProofs`, frames | `InFlightKeptHolds`, `LockstepHolds`, `NewestArrivesHolds` | the first: no shader is evicted; the third: `FramesPermitted` is empty (no `evict`, no `same_buffer`) | `FInv`, `SInv`, `BInv` |
| `GuestFilesProofs`, files | `TypeOKHolds`, `HandlesAccountedHolds`, `SocketsWholeHolds`, `NoSleepOnDataHolds` | none | `SocketInv`, `HandleInv` |
| `GuestFilesProofs`, libraries | `LoansNamedHolds`, `OwnersLiveHolds`, `ObjectsWholeHolds` | none | `LoanInv`, `OwnerInv`, `SlotInv` |
| `TitleProofs`, loader | `ImagesApartHolds`, `HeapTogetherHolds` | the second: a libc exports all of the heap or none | `LoaderInv`, `LinkInv` |
| `TitleProofs`, saves | `SavesWholeHolds`, `NothingLostHolds` | no save has the name of another one's copies, removals do not fail unseen; the second: `OneFault` (at most one, `stat` answers, no `vacant_backup`) | `SaveInv`, `KeptInv`, `UnitsInv` |

A condition excludes events that break the property, or the invariant it is proved
from; the comment of the theorem says which and why, and no passing run that
checks the property permits them.

Why the strengthening is needed, in each case (the state functions named here have
a comment of their own in the proof modules):

* Host: the guards read flags, the properties speak of program points.
  `FlagsTrackThreads` says which flag rules out which points, and that at most
  one thread is at each.
* `QInv` adds that free slots have empty queues (else a new object would inherit
  waiters), that a pending timer belongs to a wait with a deadline, and that no
  wait at a condition has one: an expiry leaves the queue of `wait_object` only,
  which is the wrong one for a thread a signal has moved to a mutex.  A fault
  followed by a reset leaves timers that belong to no wait, which is the finding
  of `hle_stale_timer`; so the theorem excludes the pair.
* `WInv`: a waiting thread is parked and, unless it sleeps, stands in some queue; the
  object of a thread that has ended has no queue; who joins joins a thread that runs.
  `NoForgottenWaiter` is that with `QInv`.  `CInv`: what a slot counts fits what waits
  at it (a semaphore with waiters is at zero, each waiter of a kernel semaphore wants
  more than there is, a barrier has as many arrivals as waiters and fewer than it
  needs), a slot that is no barrier has no arrivals, since it may become one, and no
  wait at a barrier has a deadline, so that nobody who was counted leaves early.
* `MInv` adds what a slot must hold that is no mutex but may become one: no
  owner, no count and no queue when it is free, no owner and no count when it is
  a condition.  It needs `QInv`: whoever stands in a queue waits, so that an unlock
  finds a successor unless the queue is empty (`SomebodyPicked`).  After a fault and a
  reset a queue may hold only threads that no longer wait; the unlock then leaves the
  mutex locked at depth 0, which the model follows and the theorem excludes (with both
  permitted TLC refutes `MutexConsistent` by a stale timer of a thread that a signal
  has moved from a condition to a mutex).
* `LInv`: what threads were told they hold is what the slots record, and nothing where
  the slot is no mutex; and the owner of a mutex stands in no
  queue from which it would be given the same mutex, of the mutex or of a condition.
* `SInv` adds that threads on vCPUs are live and on one only, that a waiting
  thread is live and not runnable, that one still on a vCPU waits where
  `wait_cpu` says (the wake finds it there), and that a thread on no vCPU has
  been saved.  `NotLost` and `ParkedWaits` are inductive only with these.
  `WorkConserving` is proved from it step by step: a wait and an exit look for a
  candidate first, and no other step halts a vCPU.
* `OnceInv` adds to `OneCpu` that the thread for which a switch is pending lives, is on
  no vCPU and is not the process that can be killed: else its slot could be used again,
  and the new thread be started on a second vCPU.  A kill is the only step that leaves a
  switch pending, and there is one such process at a time.
* `MemInv`: when no mapping runs, the tables are accounted (`Calm`); while one runs,
  they are so once what it wrote is taken back, and what is taken back is exactly
  what was found.  The proof of `MapUndisturbing` reads the roll-back off this.
* `VoiceInv`: the frames of every stage (queue, mixer, buffers of the voice) are
  consecutive in the order they were written, from the last one heard to the last one
  written, so that each stage begins where the one before it in that order ends.
* `AInv` is `OneAnswerEach` with the types.  `BInv` adds that with one
  registration the id of a dialog is its number, in the table, in the queue and
  in the callback, and that a library dialog that runs is the one opened last;
  `CInv` that the id of a callback in progress is in the table or in the queue.
* `LoanInv` of `HostServicesProofs`: an object is retained as often as mounts name it
  (those that cleanup took included), what a call asks with or has opened belongs to a mount that is there, handles of different
  numbers are different, and the table of mounts changes only while nothing is open.
  `ObjectLoans` knows neither mounts nor paths, so that a step maps to a step or to a
  stutter only with these.  That a path with a mount has a longest one needs that `<`
  on `Nat` is well-founded; `Least`, `Greatest` and the best priority do too.
* `EInv`: an event queue owes exactly what happened to its events, one of each kind.
* `RInv`: what was put on a ring is what was accepted and what lies between its
  offsets, and the work of a doorbell is a beginning of the latter.  `LInv`
  of the packets: every ring and every call begins with a packet of its own, and of
  what begins with the same packet all that comes earlier is drawn or in the work, so
  that a label that can be seen has its work behind it.
* `FInv`: a queued list that uses a frame is the one the frame is held for, by its
  fence, and the frame a call records for is idle.
  `SInv` of the frames: the recorded state of a surface is the state of its texture
  after the queue and, while a call records, after what it recorded.  `BInv` says where
  what the last copy of each buffer found and its dispatch wrote is (in the call, in a
  queued list that writes it back, executed, or in guest memory), and what holds the
  older effects while nobody touches the buffer.
* `SocketInv` adds to the two parts of `SocketsWhole` that the process has its
  socket while it has another end for it, and that in a careful program a thread
  waits in calls of the program's family only, on a socket that is open and has
  no other sleeper.  `HandleInv` adds to `HandlesAccounted` that after the cleanup
  every open handle is excused.
* `OwnerInv` is `OwnersLive` with the shape of the table, and its `LoanInv` adds to
  `LoansNamed` that a vacant slot names no handle, since a new object is given none.
  Nearly every call of the libraries does one of four things to kinds, owners and
  handles (`Plain`): nothing, one transfer's device, an object made in a vacant
  slot, or objects deleted with all below them; the lemmas `NetPlain`, `MediaPlain`
  and `DevicePlain` say which, and the two invariants are proved for the four and
  for the calls that open handles and end the title.  `SlotInv` is the rest of
  `ObjectsWhole` (nothing is inherited, nothing outlives its library, writers are
  alone) with the rows typed.
* `LoaderInv` adds to `ImagesApart` that the next image goes behind all others;
  `LinkInv` that the machine's own image is there when links are made.
* `SaveInv` adds what each step of a backup or restore relies on: how far the copy
  agrees with its source, and that what was moved away is the destination as it
  was.  At rest it says nothing of the copies, because a crash may leave anything
  there; that the first step removes them is what the proof needs.  `KeptInv` says where
  what the title has of each save is (`Lasts`): at its place, or beside it once a cut has
  left it there, with whatever a mount has made at the place since, and while a call
  moves it, what the step it has come to implies.  A copy goes in only when the old
  state is beside the place, there was none, or a cut has spent the one fault.  `UnitsInv` adds the types of save data memory.

The type invariants `TypeOK` of `HostLifecycle` and `GuestFiles` are proved as
theorems and no run lists them; nor do runs list `JoinedStatus`, `ExitIsFinal`,
`ParkedWaits` and `ImagesApart`.  The proofs about the other modules use the types they
need as part of their invariants (`QTypes`, `MTypes`, `Types`, `GpuTypes` and so on).

Only model-checked: liveness (`StopEndsLoop`, `TimedWaitEnds`, `RunnableRuns`,
`DialogFinishes`, `DrainCompletes`, `AllReturned`), which needs fairness and ENABLED
and is beyond the prover.  Every other property of a passing run is a theorem.

`SUBSET S \ {{}}` is bracketed in these modules: TLC reads it as `(SUBSET S) \ {{}}`, the
proof system as `SUBSET (S \ {{}})`.

## 7. Findings

1. `qemu_host_request_shutdown` does not end the loop (`host_shutdown`).  It
   raises a power-down request and this machine has nothing that answers it; the
   usage guide (318-319) and `test_brokered_storage.py` (276-283) rely on it.
2. A timer survives a fault and a reset (`hle_stale_timer`).  The fault's cleanup
   sets `cleanup_done`, so the reset's cleanup returns at once, and a deadline
   started between the two may end a wait of the next program.
3. A dialog whose answer exceeds 64 bytes runs for ever
   (`host_dialog_large`), and so does every later one, because the answer stays
   at the head of the queue.  The guide (646-647) allows 1 MiB.

Disagreements that no run shows, found while modelling:

* Configuring audio keeps the frames of the old format in the queue;
  `src/shadps4_qemu_machine_mapping.txt:1995` says it is emptied.
* A reset boots the images as the program left them, since they are read once
  (`shadps4.c` 6368); the mapping text (169) asks for repeatable resets.
* A transferring mount of a save is said to be for reading (mapping text, 3967);
  nothing makes `/savedata0` read-only.
* Without a writable mount save data go to `/savedata/<title>`
  (`shadps4-hle.c` 6870-6877), not to `/title/.qemu-savedata` as the usage guide
  (543-544) says.  With the mount the guide recommends, `/titles/<ID>/savedata`, the
  backups' directory `...savedata-backup` lies outside it.
* "Diretorio temporario seguido de rename, evitando destino parcial" (mapping text,
  3966) holds (`SavesWhole`), but nobody takes `.old` back after a crash: a mount
  makes an empty save, and the next backup or restore deletes `.old` (section 4).
* A dispatch that is dropped after its buffer was copied
  (`shadps4-gpu-d3d12.c` 2688-2722, then 3469-3498) writes the copy back over the
  result of an earlier dispatch that was still in flight.
* `missing_app_paths` remembers a file that was missing until the next reset
  (`shadps4-hle.c` 7072), although the application may mount it meanwhile.

## 8. Not modelled

* A `resume` that asked `host_is_ready` before the exit may set the run state to
  running while `qemu_cleanup` is under way.  The steps are in `HostLifecycle`;
  no property claims the opposite.
* Host callbacks, AIO and file positions: planned, see section 2.
* Of a fatal fault `HleSync` has the cleanup; the shutdown it requests
  (`shadps4-hle.c` 8242, 8280) is `GuestShutdown` of `HostLifecycle`.  Only after a
  fault and a reset can a thread call `cond_wait` with its mutex at depth 0, or
  `sem_post` meet a queue (11622-11627) whose threads no longer wait; these two calls
  are left out.
* `sceSaveDataDelete` takes the names "." and ".." (6428-6451), which a mount refuses;
  names are names of saves here.
* A `Signal` that fails after the list that shows a surface was handed over (4602-4607),
  as it does for a removed device; a machine without an audio backend, whose ports open
  and play nothing; the mode that boots the PS2 compiler in place of the launcher; the
  functions of libSceLibcInternal, of which the machine exports stubs; and whether the
  call that takes a dialog's result copies the status from before its own poll.
* Much of the source is data or translation with no state of its own: what the
  library calls of `shadps4-hle.c` and `shadps4-services*.inc.c` read, format and
  return (the objects they keep are in `LibraryObjects`); the decoding of PM4 registers and of shaders, and the
  Direct3D 12 pipelines (`shadps4-gpu*.c`, `shadps4-gcn-bridge`); the formats of
  SELF and ELF files; the CPU profile.  `subprojects/dtc` is third-party, and the UWP
  replacements of QEMU files wrap Windows calls.  That is why the modules cover a
  minor share of the lines, and most of those that keep state.
* The contents of contexts, buffers, frames, packets and files: a model value stands
  for each.

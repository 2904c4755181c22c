# TLA+ models of RTX Remix: the bridge and the renderer's threads

RTX Remix replaces the renderer of old Direct3D 9 games. The games are 32-bit programs and the renderer, a fork of DXVK
with a path tracer, is a 64-bit one, so a *bridge* runs them as two processes: a `d3d9.dll` in the game (the client)
turns each call into a command, and `NvRemixBridge.exe` (the server) executes the commands on the renderer. Everything
the two say to each other goes through shared memory and a few named semaphores, with one side of each exchange free to
crash, hang, or be slow. Behind the bridge, a D3D call of the renderer becomes a command in a chunk, which one thread records
into a command list, a second submits to the GPU and a third finishes; frame generation adds two more. Both parts are modelled
here, with the application's thread as the client of each.

All paths below are relative to the repository, without `src/` in front.

1. [Inventory](#inventory)
2. [Modules and how they correspond to the code](#modules-and-how-they-correspond-to-the-code)
3. [Runs](#runs): what each checks, its bounds, its fairness
4. [What the runs found](#what-the-runs-found)
5. [Proofs](#proofs)
6. [Not modelled, and observations outside the models](#not-modelled)
7. [Plan](#plan)

## Inventory

### The bridge

| Component | State it keeps | Operations | Talks to | Hard because | Correct when |
|---|---|---|---|---|---|
| Command queue, `bridge/src/util/util_atomiccircularqueue.h` | a ring of headers, two atomic indices | `push`, `peek`, `pull`, history | one producer and one consumer in two processes | no lock; objects copied in several words; `pull` returns a reference into the ring | objects come out whole, once and in order; references stay stable; a push ends |
| Data queue, `util_circularbuffer.h`, `util_circularqueue.h`, `util_ipcchannel.h`, `util_bridgecommand.*` | a ring of words without indices in shared memory: each side computes the other's position; four shared words and a semaphore for flow control | push of a word, several words or a blob; pull; `syncDataQueue`; the release at the end of `ProcessDeviceCommandQueue` | every command's arguments | the writer learns the reader's position once per command; wraps; announcements and releases cross | both sides agree on positions; nothing unread is overwritten; a waiting client is woken |
| Shared heap, `util_sharedheap.*`, `util_sharedmemory.*` | the client's maps of allocations and segments, the server's copies, one shared state byte per buffer | `allocate`, `deallocate`, `freeDeallocations`, `addSegment`, and the server's handling of three commands | the command queue, resources | client reuses memory while the server is behind; gaps and segment bounds; a full heap | no two buffers overlap; the server always looks up what the client meant |
| Locked resources, `bridge/src/client/lockable_buffer.h`, `d3d9_surface.cpp` | per resource a buffer id and a list of nested locks | `lock` (plain, discard, read only), `unlock`, destructor | the heap, the queue | the data of an unlock is read later, from memory that may be locked again or given back | the server ends up with what the application wrote and never looks up a buffer that is gone |
| Calls with an answer, `WAIT_FOR_SERVER_RESPONSE`, `waitForCommand` | command ids, the response queue and its data | send with an id, look at the head for the id, read words, pop | command queue, device lock | several threads on one queue; calls that give up and are answered later; header and data taken separately | each call gets its own answer and returns |
| Frame pacing, `Present`, `syncOnPresent` | a named semaphore with a maximum | send a frame, wait with retries; release after presenting | both processes | several threads, a queue that may be full, lost and late releases, a server that dies | the client is ahead only by frames that somebody waits for or gave up (the option `presentSemaphoreMaxFrames` promises a lead of that many frames, which the code does not give); success means released |
| Start and end, `client/d3d9_lss.cpp`, `server/main.cpp`, `util_process.cpp`, `util_bridge_state.h` | the two `ProcessState`s, the exit callbacks, `gbBridgeRunning`, the module thread | handshake (Syn, Ack, Continue), `RemixDetach`, `OnServerExited`, `OnClientExited`, joins | both processes, the operating system's waits | either process ends at any moment, also in the middle of the other's shutdown | nobody is left over, nobody waits for ever, no callback runs on what was freed |
| Message channels, `util_messagechannel.*`, `client/message_channels.h` | handlers, the worker thread's id, infinite retries | handshake by window message, focus changes | windows, threads, the options | a message posted to a thread without a message queue is lost | the worker ends; retries are infinite only out of focus |
| Module bridge, `server/module_processing.cpp`, `client/d3d9_module.cpp` | a second channel | calls on `IDirect3D9` | like the device channel | its wait has no timeout | as for calls |
| Client wrappers, `client/base.h`, `d3d9_device_base.*`, `d3d9_stateblock.cpp`, ... | reference counts, the device state the getters answer from, recorded state blocks | `AddRef`/`Release`, setters, `Capture`, `Apply` | the queue | counts across parents and children, state cached on the client | the cache is the server's state; a server object lives as long as its wrapper |
| Remix API over the bridge, `client/remix_api.cpp`, `util_remixapi.cpp` | none beyond the queue | serialise structures | the queue | layout | sizes agree |
| Windows and input, launcher, configuration, logging | hooks, options | | the operating system | | |

### The renderer (`src/`)

| Component | State it keeps | Hard because | Correct when |
|---|---|---|---|
| Command stream thread, `dxvk/dxvk_cs.*` | the chunk being filled, the queue of chunks, sequence numbers | the use counters of a resource say nothing of commands not executed yet | chunks run in order; `synchronize` returns when its chunk is executed |
| Submission queue, `dxvk/dxvk_queue.*`, `dxvk_cmdlist.*`, `dxvk_recycler.h` | submit and finish queue, pending count, last error, recycled lists | two threads, back-pressure, failed submissions and a lost device, lists used again | a list that is recorded does not execute; waiters wake; idle means idle |
| Lifetimes, `dxvk_lifetime.*`, and maps, `WaitForResource` of the D3D9 and the D3D11 device | use counts of each resource, held by trackers of command lists | counted and released on other threads than the one that looks | a map returns only when nothing ahead can touch the resource |
| Frame generation presenter, `dxvk/rtx_render/rtx_dlfg.*`, `d3d9/d3d9_swapchain.cpp` | jobs, the pacer's jobs, back buffers in flight, two status words without a lock, a timeline semaphore | five threads, any acquire and present may fail half-way through a frame, the swap chain is recreated in between | a back buffer belongs to one frame; nothing waits for a value nobody signals; recreation is alone |
| Events and signals, `dxvk_gpu_event.*`, `util/sync/` | values of fences | signalled from command lists | |
| Memory, pipelines, state cache, `dxvk_memory.*`, `dxvk_pipemanager.*`, `dxvk_state_cache.*` | free lists, worker queues, a file | worker threads, a cache that may be of another version | |
| RTX scene, `dxvk/rtx_render/rtx_scene_manager.*`, `rtx_instance_manager.*`, `rtx_texture_manager.*`, `rtx_opacity_micromap_manager.*`, ... | caches over frames, reference counts, budgets | garbage collection by frame, uploads on another thread | nothing in use is collected, budgets are kept |
| RTX options, `rtx_option*.cpp` | values in layers of priorities | changes applied at frame ends | the strongest layer wins |
| Assets and mods, capture, Reflex and NGX, logic graphs, passes, shaders, D3D front ends, shader compilers, vendored code | | see [Not modelled](#not-modelled) | |

`PROJECT.json` lists these components with their sources, and the hazards of each at the line where they bite, with the
properties that watch for them.

## Modules and how they correspond to the code

Variables have the code's names where the code has one; an action is a handler, or the part of it between two accesses
to shared memory. `PROJECT.json` maps every definition to its lines. Each component has a module that TLC checks through
an `MC...` module and its `.cfg`, and, next to it, a `...Proofs` module.

**`AtomicCircularQueue`** — `m_read` is the producer's index and `m_write` the consumer's, as in the code. A push is
admitted (`PushAdmit`), copied in two steps with the slot `Torn` in between, and published by its store of the index.
`Peek` and `Pull` (`PullFound`, `PullAdvance`) return a reference, which the caller reads until `UseEnd`. `BoundedFifo` is
the abstract queue of `QueueSize - 1` objects; `FifoSpec` says the ring implements it, with the slots that are published
as its contents.

**`DataQueue`** has the arithmetic both processes do on positions: a single word, several words, a blob that must be in
one piece. **`DataQueueSync`** puts a client and a server on it. The client's call goes through the steps of
`syncDataQueue` (`SyncBegin`: read `serverDataPos`; `SyncDoubleOverflow`, `SyncWrap`, `SyncNoWrap`: which case the item is;
`SyncCheck`, `Announce`: write the announcement; `Fits`, `FitsNot`; the wait; `Resolved`), writes the item and goes on to the
next, and at last queues the command (`CommandEnd`), or loses it when its retries run out on a full queue and turns the bridge off
(`CommandLost`). The server takes a command, pulls its words (through `get_data` and its kin, or as a blob of the queue directly, `server/main.cpp:2752`), answers if it must, publishes its
position and then decides, in the steps of the end of its loop, whether to release. The shared words are read and written
in steps of their own. A word of the ring is the number of the command that wrote it, so an overwrite is visible.

**`SharedHeap`** — the client's allocation is a call with steps for everything the server may interleave with: the search
(`FindRoom`, `FindNone`, or `FindUndefined` when it runs on an empty map), taking back deallocated buffers one by one
(`FreeOne`), a new segment (`Grow`, of the default size or of what the heap's limit leaves), the message and the state byte. The
server handles its three messages. Sizes and places are counted in chunks. **`BufferHeap`** is the heap's promise to its
users: a place is given out only after its last owner, the server and the heap have let go of it, in this order;
`KeepsPromise` says the heap implements it.

**`LockableBuffer`** uses a heap that is as good as that promise and models `lock`, `unlock` and the destructor with their
list of nested locks, and the server's side of each; its `LockInit`, `LockNext` and `LockSpec` are the specification. A lock has a set of flags (`Flags`
says which sets a resource is locked with), so that one may discard and be for reading only. `Destroy` is the destructor whenever
the application drops its last reference, also while locks are outstanding. `lost` is history: the buffers nobody will release,
entered where the code drops the last mention of them. Data is a number that grows with each write, and the server's copy of
a resource is the number it read.

**`BridgeCall`** — threads send calls with unique ids; `waitForCommand` is `Peek`, `TryAgain` and `GiveUp`, and taking the
answer is `GetData`, then `PopFront`. Calls are of three kinds: those that hold the device's lock while they wait, those
that do not, and `Reset`, which goes on without its answer.

**`PresentSync`** — `Present` and `syncOnPresent` of several threads, the named semaphore with its maximum, and a server
that presents and then releases, hangs, or dies. A frame is pushed under the channel's mutex (`Lock`, `Send`; `MutexIsFree`) into a device
command queue of `QueueSlots` commands, which other commands fill too (`OtherCommand`) and in which a push waits while it is full: with
timeouts until its retries run out (`SendFails`), without them until there is room. `FocusChanges` switches infinite retries, which
`StartWait` reads once for the wait of a call (`patient`).

**`BridgeLifecycle`** — both processes from `RemixAttach` and `wWinMain` to their ends: the handshake, commands, one of
which may hang, `RemixDetach`, the server's joins, its last Ack, and the callback each side has for the other's end. The waits of
the client have retries that run out; those of the server end without their object only when timeouts are enabled and the bridge has
been turned off (`TimesOut`), as `getInfiniteRetries` is always true there. Either
process may die at any step (`ClientDies`, `ServerDies`, external actions). `client.greeted` and `client.clean` are history.

**`SubmissionQueue`** — `DxvkSubmissionQueue` without its callers: `Submit`, `QueuePresent` and the two places where a caller
sleeps (`SubmitSleeps`, `ResourceSleeps`); the submit thread (`SubmitTake`, `SubmitExecute`, then `SubmitRetires` or
`SubmitFails`); the finish thread (`FinishTake`, `FinishFence` or `FinishFenceFails`, of a lost device or another error, and `FinishIdle`, `FinishNotify`,
`FinishPop`, `FinishRecycle`); and the device, which completes lists and may be lost. `holds` is the set of what the two use
counters of the resource count, so their values are its cardinalities. A submission may fail; the thread it fails on then calls
`waitForIdle` with the queue's mutex held and is `selflocked`, as in the code.

**`RenderPipeline`** extends it with the command stream thread (`CsNext`, `CsUse`, `CsFlush`, `CsBlit`, `CsPresent`) and the
application's thread: recording and dispatching (`Draw`, `Flush`, `FlushCsChunk`), a present in two parts (`BeginPresent`,
`SubmitPresent`) with `RecreateSwapChain` in between when the last one failed, a map through all steps of `WaitForResource` (`Map`, `MapSync`, `Synchronized`, `MapRecheck`, `MapFlush`,
`MapWaits`, `MapSleeps`, `MapReturns`, `MapRefused`) and the replacement of the presenter (`CreatePresenter`, `DrainStream`,
`DrainQueue`, `DrainLock`, `DrainGpu`). `Rereads` selects the D3D9 device's version of the map.

**`DlfgPresenter`** — what happens behind a present with frame generation. The swap chain (`PresentImage` to `SubmitPresent`,
and `RecreateSwapChain` with its two calls of `synchronize`, which ends in `RecreateEnd` or by an exception in `RecreateFails`), the
command stream (`CsPresent`), the submit thread (`SubmitRefused` and `SubmitStores`, a refused frame's two stores of its status,
or `SubmitMarks` and `SubmitPushes`, between which the status says more than the queue), the present thread (`JobBegins` to
`JobFinishes`, which holds its mutex in between) and the pacer thread. Each acquire and each present of the present thread may
fail. `hasty` is history: the swap chain went on by another frame's status. `awaited` and `signalled` are the highest values of the
pacer's semaphore that a present waits for and that the pacer signalled; `SynchronizeGap` is the moment between the
look at the pacer's queue and the sleep, in which a wake-up is lost because the lock held is not the pacer's.

Two decisions recur. A wait with a timeout may run out at any time, and real time is not in the models. And `disableTimeouts`,
the default, makes `peek(0)` loop until there is an object, so that there the only way out of a wait is the object.

## Runs

Deadlock is not checked: every run has a bound on calls, objects or commands after which the program idles, and the
places where one of the processes could be stuck are the subject of liveness properties.

| Run | Checks | Bounds | Fairness |
|---|---|---|---|
| `queue` | `TypeOK`; `ReferenceStable`: an object is whole and not overwritten while the consumer holds its reference; `FifoSpec`: refinement; `PushReturns` | 3 slots, 2 objects, 5 pushes: the indices wrap, the ring is full and empty on either side of a wrap. 2,255 states | the producer goes on; a pull that is enabled again and again happens (strong, since a peek does not empty the ring) |
| `dataqueue` | `TypeOK`; `OffsetsAgree`: reader and writer stand at the same place at the same command; `ProtectedElsewhere`: outside of the known blind spots nothing unread is overwritten; `ReleaseForWaiter`: no release is left over while no wait was given up; `CommandSent`: a command is queued, or the client exits or turns the bridge off | 8 words, 6 commands of five shapes (none, answered, a blob of 4, 3 words, twice 5 words), a command queue of 3, waits and pushes that may give up. The ring is filled up to three times. 845,776 states | both processes run |
| `dataqueue_overwrite` | `NoOverwrite` is violated | 8 commands of three shapes, waits do not give up | none needed |
| `sharedheap` | `TypeOK`; `AllocationsApart`: buffers do not overlap nor cross a segment; `ServerAgrees`: however far the server is behind, its view of a buffer and of its segment is the client's, and every deallocation finds its buffer; `KeepsPromise`: refinement of `BufferHeap` | 6 chunks in segments of 3, sizes 1 to 3, 4 allocations, server up to 2 commands behind: all of gap, end and growth, a heap that is full, and one that is taken back entirely. 142,195 states | safety only |
| `lockablebuffer` | `LockTypeOK`; `ServerReadsItsData`: the server only looks up buffers it knows, copies what was unlocked before a discard as it was, and with all unlocked and processed has the last data; `LostInThreeWays`: a buffer is lost by a failed lock, by undoing a discarding lock for reading, or by destruction under a discarding lock, and by nothing else | two resources, one locked with all four sets of flags, two nested locks, three buffers in two places, so that the heap can be full, server up to 3 commands behind, destruction at any time. 609,658 states | safety only |
| `call` | `TypeOK`; `OwnAnswer`; `HeadersMatchData`: header and data are taken in step; `CallsReturn` | two threads, four calls of all kinds, one retry, with and without timeouts; two answers in the queue, so the server can be held up. 195,528 states | threads that wait look again; the server answers |
| `present` | `TypeOK`; `LeadIsAwaited`: the client is ahead only by frames it awaits or gave up; `ReleasesArrive`: no release is lost while no call was given up; `PresentReturns`: every call returns, unless it waits for ever in one of the two places that `MayHang` names: for room in the queue when timeouts are disabled or retried out of focus, and for the release of a frame presented out of focus while the bridge is on | two threads, maximum 2, one retry, four frames, a queue of two commands and one other command, so that it can be full of either; one change of focus; with and without timeouts. 581,490 states | threads that are in a call go on; nothing of the server, which may hang |
| `lifecycle` | `TypeOK`; `RunsOnReadyServer`; `CallbackKeepsProcess`; `DetachIsThorough`: a detached client leaves no server behind, and a clean end means that joins and unloading are done; `ServerFollows`: a dead client's server ends if it was watching, that is, if its exit callback was registered and, without timeouts, d3d9.dll loaded (`Watching`); `DetachEnds` | two commands, two sleeps, either process dies at any step, with and without timeouts. 4,397 states | threads of both processes run; nobody is made to call, to detach, to die or to close a box, and a command may hang for ever |
| `pipeline` | `TypeOK`; `MappedIsUntouched`: when a map returns, neither a chunk, the list being recorded nor one that is queued or executes can touch the resource against the map; `RecordedListIsIdle`: no list is recorded or recycled that still executes; `IdleIsIdle`: whoever is told that the device is idle is told the truth; `CallsEnd` | 4 recorded commands (of which a present takes 3), one resource read and written, at most one queued command buffer and one recycled list, submissions that fail, a device that is lost, the D3D11 device's map. 900,215 states, two to three minutes | each thread runs, lists complete; nobody is made to draw or present |
| `pipeline_reread` | `MappedIsUntouched` is violated by the D3D9 device's map | the same without failures; a trace of 16 states | none needed |
| `dlfg` | `TypeOK`; `BuffersAreOwned`: a back buffer has one frame on its way and is in flight exactly while a job presents it; `RecreateIsIdle`; `WaitsAreSignalled`: no present waits for a value nobody will signal; `PresentsEnd`: calls end, and each frame handed over is presented or dropped, unless the application calls for ever into recreations that fail, and keeps the mutex from the other threads | 2 back buffers, up to 2 interpolated images, 3 frames: more frames than buffers, a frame in each of the queues. 70,397 states (4 frames, 575,474 states, pass as well) | every thread runs; the application need not present |
| `dlfg_recreate` | `RecreateIsSafe` is violated | the same; a trace of 24 states | none needed |

Why the bounds are enough: all objects beyond those needed to wrap a ring, fill a queue and have one call overtake another
repeat the same situations, since no code looks at more than one lap, at more than the head of a queue, or at more than one
neighbour in the heap. In the pipeline two lists in each stage suffice for one to overtake another's release; the limit of one queued
buffer makes the back-pressure bite with a second list, and a third command list is only created when the first two are on their way. The proofs below remove the bounds for the properties they name.

The fairness is the scheduling the code has: each thread is an operating system thread that runs its loop. No run assumes
that a queue is served by a process that may have died; where an answer is needed for progress (`call`, `dataqueue`), the
server is assumed to run, and its death is the subject of `present` and `lifecycle`. That a list which executes completes is Vulkan's
promise as long as the device is not lost, and a lost device drops its lists; `CallsEnd` excludes the one state in which the code locks
itself out (`SelfLocked`), `PresentsEnd` the sleep whose wake-up was missed (`overslept`).

Each property of a passing run has a mutant in `PROJECT.json`: an operator with the suffix of a bug (`..._NoWait`,
`..._OneMore`) that stands just before the definition it mutates, and that makes TLC find the property violated.

## What the runs found

1. **Overwritten data** (`dataqueue_overwrite`; `util_bridgecommand.cpp:110`). When the client is exactly one lap ahead it
   depends on `serverResetPosRequired`, which the server clears in the middle of a command as soon as it wraps itself, and an
   item that ends at the very end of the ring is not seen to wrap. `bridge/README.md:93` promises that a full queue blocks its
   writer. The other blind spots (`BlindSpot`) are an item that passes both the server and the end of the ring, a ring that starts
   over before the server has published any position, a blob that starts over past the server and ends beyond the start of its own
   command, and a command that laps itself. `ProtectedOutsideBlindSpots` proves for every ring and every set of commands that
   there are no others; and on a ring of seven words TLC finds an overwrite when any one of the six is taken off the list.
2. **A map that looks twice** (`pipeline_reread`; `d3d9_device.cpp:4500`). `WaitForResource` of the D3D9 device waits for the command
   stream only if a first `isInUse` says no, then asks again and goes by the second answer. A list released in between makes the map
   return with a chunk that uses the resource ahead of the GPU. The D3D11 device keeps its first answer, and `pipeline` shows that
   this is enough.
3. **A swap chain recreated under a frame** (`dlfg_recreate`; `rtx_dlfg.cpp:544`). The end of a job stores its status over that of a
   frame handed over since, so the swap chain recreates its back buffers while that frame is still in the command stream.
   `BuffersAreOwned` shows that everything is as it should be until a status of another frame is taken for one's own.

Two passing runs and their theorems say what the code does where its own texts say something else:

4. **No lead in frames** (`present`, `LeadIsAwaited`). `bridge/src/util/config/global_options.h:381-383` describes
   `presentSemaphoreMaxFrames` as "the maximum latency in number of frames the client can be ahead of the server before it blocks".
   The server creates the semaphore with that count, but the client creates it first, with the count 0 (`client/d3d9_lss.cpp:407`), and
   the count of the first one stays. So each thread blocks in each `Present` until its own frame, or another's, is through: whatever the
   maximum, the client is ahead only by frames that it waits for at this moment or gave up. The mutant `Init_ServerFirst` is the
   program the text describes, and breaks `ReleasesArrive`.
5. **Buffers that stay in the heap** (`lockablebuffer`, `LostInThreeWays`). `lockable_buffer.h:120-121` has a discarding lock "begin
   the process of dealloc'ing and freeing that buffer". Only the unlock of that lock ends it, and not if the lock found no room for the
   new buffer (line 130), if it was also read only (192-227), or if the resource is destroyed first (100-112; `d3d9_surface.cpp`
   has the same three). `LostOnlySo` proves that a buffer is lost in no other way.

And a wait that nothing ends: with timeouts disabled, the default, a `Present` (and any command) that finds the command queue full spins
until there is room (`util_atomiccircularqueue.h:107`), also when the server is gone and `OnServerExited` has turned the bridge off.
`PresentReturns` names this wait in `MayHang`.

Everything else that the runs ask of the code holds.

## Proofs

The theorems hold for every value of the constants: any ring, heap, number of threads, calls, retries. They rest on the
named assumptions of each module (sizes are positive, sentinels are not objects, ...), which TLC evaluates in the runs.

| Theorem | Statement |
|---|---|
| `AtomicCircularQueueProofs!TypeCorrect`, `ReferencesAreStable`, `RingIsFifo` | types; `ReferenceStable`; `Spec => FifoSpec` |
| `DataQueueSyncProofs!TypeCorrect`, `ReleasesAreAwaited`, `SamePositions`, `ProtectedOutsideBlindSpots` | types of all shared words and positions in the ring; `ReleaseForWaiter`; `OffsetsAgree`; `ProtectedElsewhere` |
| `DataQueueSyncProofs!PushManyIsPops`, `BlobInOnePiece` | the arithmetic of positions: a bulk push of n words and n pulls end at the same place; a blob is in one piece and pulled from where it was pushed |
| `SharedHeapProofs!TypeCorrect`, `BuffersApart`, `ServerKeepsUp`, `HeapKeepsPromise` | types; `AllocationsApart`; `ServerAgrees`; the refinement of `BufferHeap` |
| `SharedHeapProofs!LocksTypeCorrect`, `ServerReads`, `LostOnlySo` | about `LockableBuffer`, on the heap's promise: `LockTypeOK`; `ServerReadsItsData`; `LostInThreeWays` |
| `BridgeCallProofs!TypeCorrect`, `AnswersAreOwn`, `HeadersFollowData` | types; `OwnAnswer`; `HeadersMatchData` |
| `PresentSyncProofs!TypeCorrect`, `LeadAwaited`, `ReleasesFindRoom`, `SuccessIsReleased` | types; `LeadIsAwaited`; `ReleasesArrive`; success is only reported for a release |
| `BridgeLifecycleProofs!TypeCorrect`, `ServerIsReady`, `BoxesAreEarned`, `ProcessIsKept`, `DetachEndsServer` | types; `RunsOnReadyServer`; the message box only for a server that ended before the detach; `CallbackKeepsProcess`; `DetachIsThorough` |
| `DlfgPresenterProofs!TypeCorrect`, `PresenterIsIdle`, `ValuesAreSignalled`, `BuffersOwned` | types; `RecreateIsIdle`; `WaitsAreSignalled`; `BuffersAreOwned` |
| `RenderPipelineProofs!TypeCorrect`, `ListsAreIdle`, `DeviceIsIdle`, `MapsAreSafe` | types; `RecordedListIsIdle`; `IdleIsIdle`; `MappedIsUntouched` for the D3D11 device's map |

The arguments:

- **Ring.** `ReferenceStable` alone is not inductive. The invariant adds that a producer past its check still has room
  (`RoomKept`: the other index only moves away from it), that what it has copied is whole, that a consumer past its check
  still finds its object, that the reference is the slot just before the consumer's index or at it (`ReferencePlace`), and that
  all slots between the indices are whole. The slot kept unused is why the one a reference points to cannot be refilled
  before the consumer moves on. The refinement then needs, per step, that the sequence of slots between the indices
  changes by one `Append` at the publication, by one `Tail` at the advance, and not at all otherwise.
- **Data queue.** A release is only made for an announcement, and an announcement outlives its wait only when the wait was
  given up; `ReleaseInv` relates the semaphore, the announcement and the client's place through each step of the server's decision.
  The other two rest on one invariant, `LapInv`: although nobody in the program counts laps, there are laps of client, server
  and the ends of all commands that make a *place* (a lap and a position) of every position that is kept. `Leads` says that a
  list of items takes the writer from one place to another. An item the reader pulls piece by piece ends where the writer's
  whole item does (`PullFollows`, on the lemmas about the arithmetic), and `Journey` chains the places: the rest of the server's
  command leads to its header's place, each queued command from the one before it to its own (`Numbered` gives their order),
  and what the client has sent from the last one to where it stands. `OffsetsAgree` follows. While no blind spot was met,
  `Safe` adds that the client has not lapped the last finished command (`Clear`) and that the words of every unfinished
  command lie between that command and the client (`Inside`); that the count syncDataQueue works with is that of a command whose
  place the client has not lapped either (`CountPart`), so that what the conditions let pass laps nothing (`CheckProtects`);
  that a server whose flag is down is in the client's lap (`FlagPart`); and that a release means that every command before the
  client's is finished (`RelPart`).
- **Heap.** When the search ends, the place it found is free and inside one segment (`PlaceIsFree`), and stays so until
  the buffer is entered because only the client changes the map; the server only changes state bytes, which can only make
  buffers go. For `ServerAgrees` and the promise a second invariant says what the messages under way tell the server: of each
  buffer once, its deallocation after its allocation and only when no caller holds it (`OnTheWay`); the segments in the
  client's order, each before a buffer in it (`Told`, with the number of segments known at each message); and that a state
  byte says Deallocated only when the caller and the server have both let go (`States`). Every step is then one of
  `BufferHeap` for one buffer, or none.
- **Locked resources.** The properties speak of the head of the queue and of a server that has caught up; the invariant speaks
  of every command under way. A buffer that a resource or one of its locks names is held, by one resource (`OwnersInv`); what a
  lock discards no later lock uses, and the last lock for writing is one of the resource's own buffer (`LocksInv`: this is
  where the order of `unlock` counts). A copy under way is of a buffer the server still has and that, where every lock
  discards, nobody writes to any more (`CopiesInv`); a deallocation under way is the last command about its buffer (`DeallocsInv`);
  and for a resource nobody writes to the last copy under way is of its buffer, or there is none and the server has its data
  (`CurrentInv`). `LostInThreeWays` is part of it: it is preserved because the buffers in `lost` are held, so that none of them is
  given out again, and every step that drops the last mention of a held buffer enters it.
- **Calls.** No two calls under way have the same id (`UniqueUids`), so a thread that has seen its id at the head is the only one
  that may pop, it still finds it there (`OwnAtHead`), and headers and words stay in step (`InStep`: as many words were pulled as
  headers popped, and one more between the two; what is left answers the same commands).
  Both break once a Reset has gone on, so the invariant is stated until then.
- **Frames.** Frames in the queue, at the server, counted by the semaphore, and dropped are together those awaited and those
  given up (`Conservation`).
- **Frame generation.** `HandOver` says where frames are while the swap chain goes by its own frame's status: at most one in the
  command stream and two in the submission queue, the older of which is being queued (`OnItsWay`), all on different images, with
  the last frame's on `m_backbufferIndex` (`ImagesApart`). `PacerInv` says that a paced job that still presents gave the pacer the
  last value it will wait for (`Covered`), and that the job the pacer is about to pop is signalled. `JobShape` says how far a job
  is in its two loops, where a failure does not leave them.
- **Pipeline.** Each command list is in one place (`Placed`), what executes is in the finish queue or has just been handed over by
  the submit thread (`Threads`), and the pending count is the number of lists in the two queues (`Counting`); a list that is
  recycled therefore has nothing to do with the GPU. That a blit finds its list needs the frame's tokens: at most one chunk holds a
  blit and a present, and none does once the present's status is in (`TokenInv`). `DrainInv` is what each step of
  `CreatePresenter` has reached: the chunks counted by the command stream thread and those queued are those dispatched. For maps,
  the use in a chunk has a number no larger than the resource's (`Numbered`), a list that tracks the resource and is yet to be
  executed also holds it (`Trackers`), and a map that waits has waited for that number (`Waited`). `Waited` fails
  for the D3D9 device's map, which may go on after its second look without having waited for the chunks: `MapsAreSafe` assumes
  `~Rereads`, and the run `pipeline_reread` shows why it must.
- **Lifecycle.** Which stage of either process implies what of the other (`ServerStages`, `ClientStages`, `DetachStages`,
  `CallbackStages`), that an Ack in the queue means a server that is ready (`AckMeansReady`), and that there is at most one
  before the server is done (`OneAckBeforeDone`); this is what tells the first Ack from the last.

Only model-checked: liveness (`PushReturns`, `CommandSent`, `CallsReturn`, `PresentReturns`, `ServerFollows`, `DetachEnds`, `CallsEnd`,
`PresentsEnd`), which is out of the prover's reach, as is what a recursive function computes for all inputs.

## Not modelled

- *Of the modelled parts*: infinite retries while the window is out of focus, except in `PresentSync` (elsewhere they are waits that do
  not give up), a command queue that is full during handshake and shutdown, `CreateProcess` failing, answers of more than one word; the signals and events that
  command lists carry; several resources, and threads that use the device beside the application's; the frame latency
  signal, Reflex' sleeps, the fences between images of the frame generation, and the destructor of its threads.
- *Message channels, wrappers and state blocks*: planned.
- *Texture streaming and garbage collection of the scene*: planned.
- *Vulkan, USD, NGX, Windows' windows and input*: their behaviour is not in this repository.
- *Shaders and passes*: numeric work on the GPU, without control a model checker reaches.
- *D3D front ends and shader compilers*: sequential translations from upstream DXVK.
- *`BlockingCircularQueue`*: compiled only under `USE_BLOCKING_QUEUE`, which `util_common.h:62` has commented out.

Observed while modelling, and not the subject of a run:

- `serverDataPos` is read before the announcement is written (`util_bridgecommand.cpp:59`): a server that finishes its last
  command in between looks at no announcement again, and the client waits until its retries run out, although everything
  was consumed.
- `findAllocation` excludes an empty map before its loop (`util_sharedheap.cpp:221`), but the loop may take back all buffers and then
  searches an empty map (line 240), against the assertion in the search. Both outcomes are in the model (`FindUndefined`).
- `Reset` waits for an *optional* answer, but reads one also when the wait has failed (`d3d9_device.cpp:443`).
- `OnServerExited` disables the bridge "to terminate any ongoing processing" (`client/d3d9_lss.cpp:149`), but with timeouts disabled
  a wait in `peek` never looks at the flag.
- `util_sharedmemory.h:48`: a segment the system refuses to map is meant to be tried at half the size, but the constructor
  rethrows outside of any handler (`GrowDies`).
- `util_atomiccircularqueue.h:188`: the history that is logged when the peer dies is read without any order with the other thread.
- `dxvk_queue.cpp:271`: after any failed submission `waitForIdle` is called with `m_mutex` held, and waits for the submit queue under
  the same mutex: the renderer hangs (`SelfLocked`).
- `m_finishCond` is not notified when the submit queue shrinks, though `submit` waits for the length of both queues.
- `DxvkLifetimeTracker::m_notified` is never reset, so a tracker that is used again relies on `reset` to release.
- `dxvk_cs.h:411` still describes a sequence number 0 of `synchronize` that the code no longer treats.
- `rtx_dlfg.cpp:629` and `722`: the `continue` after a failed acquire or present only goes on with the inner loop, so an image is
  presented that was not acquired, and after a half-failed frame the assertion at line 755 can fail and values of the
  pacer's semaphore are used twice.
- `rtx_dlfg.cpp:220` stores `VK_EVENT_SET` before the job is queued under the lock: the assertion at `d3d9_swapchain.cpp:1309` can fail.
- The late store at `rtx_dlfg.cpp:544` lets the application run ahead; with four frames on two buffers the assertion at line 225 is
  reachable (four frames, `hasty`).
- `rtx_dlfg.cpp:802`: after a frame that failed half-way the pacer signals a value that is not above the semaphore's, which Vulkan does
  not allow; the model keeps the larger one.
- `rtx_dlfg.cpp:368` waits for the pacer with the present thread's mutex: a data race on the queue, and a missed wake-up
  (`overslept`).
- The first value a paced present waits for equals the semaphore's initial value when nothing was presented before, so it does not wait.

- `d3d9_device.cpp:467` compares the number of retries after the loop, so a wait that succeeds after the last failure is
  reported as a timeout.
- `bridge/src/util/config/config.cpp:118` names the option `"presentSemaphoreMaxFrames "` with a trailing blank.
- `lockable_buffer.h:213`: a plain lock after an unlock writes into the buffer the server has yet to read.
- `util_bridgecommand.cpp:202`: between attempts a thread sleeps `peekTimeoutMS`, which is 0 when timeouts are disabled, so the
  attempts that are to give another thread time to pop are over at once.
- `d3d9_swapchain.h:78` reads an answer after a failed wait as `Reset` does.
- On the server `getInfiniteRetries()` is always true (`global_options.h:160`): a client that dies before the server has registered
  `OnClientExited` leaves a server that waits for ever, with timeouts or without; and so does, without timeouts, one whose end is
  noticed while `ghModule` is still null. `server_options.h:32-38` has the server always exit. `ServerFollows` excludes this window.
- The first Ack, when `InitServer` gave it up, is taken by `RemixDetach` for the last one, and the end is logged as clean.

## Plan

In this order:

1. Signals and events in the lists of `SubmissionQueue`, and the frame latency signal of the swap chain, with the waits it
   ends.
2. `MessageChannel`, with the focus messages and infinite retries, and its effect on the waits of `DataQueueSync` and `BridgeCall`.
3. Client wrappers: reference counts with the server's objects; state blocks against a reference definition.
4. Several resources and threads in `RenderPipeline`; events and queries.
5. Texture manager and its upload thread, and instance garbage collection of the RTX scene; option layers.
6. Of `DataQueueSync`, for every ring: outside the blind spots the words the server reads of a command are the ones its
   client wrote for it. `ProtectedOutsideBlindSpots` says that none is overwritten in between; what is left is that the
   client wrote each of them, which needs the positions of a command followed from the first word to the last.

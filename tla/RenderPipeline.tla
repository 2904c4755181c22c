---------------------------- MODULE RenderPipeline ----------------------------
(***************************************************************************)
(* From the D3D device to the GPU.  The application's thread records       *)
(* commands into a chunk and dispatches it to the command stream thread    *)
(* (DxvkCsThread), which executes chunks in order on a DxvkContext: a      *)
(* command uses the resource, and is then part of the command list being   *)
(* recorded, or flushes that list into the DxvkSubmissionQueue.            *)
(*                                                                         *)
(* The application maps the resource, which waits until no command can     *)
(* still touch it (WaitForResource of the D3D9 and of the D3D11 device),   *)
(* presents, and makes the device idle before it replaces the presenter.   *)
(* It does all that under the device's lock, so it is one thread here.     *)
(***************************************************************************)
EXTENDS SubmissionQueue

CONSTANTS
  MaxCommands,  \* bound on the commands the application records
  Rereads       \* WaitForResource is the D3D9 device's, which looks at the counters twice

ASSUME PipelineAssumption == MaxCommands \in Nat /\ Rereads \in BOOLEAN

VARIABLES
  recorded,    \* commands recorded so far
  chunk,       \* m_csChunk
  dispatched,  \* m_chunksDispatched
  lastUse,     \* the sequence number tracked for the resource
  csQueue,     \* m_chunksQueued
  csBusy,      \* the thread holds a chunk
  csRest,      \* the commands of it that are yet to be executed
  executed,    \* m_chunksExecuted
  recording,   \* m_cmd of the context
  blitList,    \* the list of the swap chain's blit that is yet to be submitted, or 0
  app,         \* where the application's thread is
  target,      \* the sequence number it synchronizes with
  access       \* the access its map waits for

streamVars == <<chunk, dispatched, csQueue>>
csVars == <<csBusy, csRest, executed, recording>>
appVars == <<recorded, lastUse, app, target, access>>
vars == <<allQueueVars, streamVars, csVars, blitList, appVars>>

Commands == Accesses \cup {"flush", "blit", "present"}

Init ==
  /\ QueueInit
  /\ recorded = 0 /\ lastUse = 0
  /\ chunk = <<>> /\ dispatched = 0 /\ csQueue = <<>>
  /\ csBusy = FALSE /\ csRest = <<>> /\ executed = 0 /\ recording = 1
  /\ blitList = 0
  /\ app = "run" /\ target = 0 /\ access = "read"

----------------------------------------------------------------------------
(* The application records and dispatches. *)

\* FlushCsChunk after the commands cs were recorded; an empty chunk is not dispatched.
Dispatch(cs) ==
  LET all == chunk \o cs IN
  /\ chunk' = <<>>
  /\ IF all = <<>> THEN UNCHANGED <<dispatched, csQueue>>
                   ELSE dispatched' = dispatched + 1 /\ csQueue' = Append(csQueue, all)

CanRecord(n) == app = "run" /\ recorded + n <= MaxCommands /\ recorded' = recorded + n

Draw(a) ==
  /\ CanRecord(1)
  /\ chunk' = Append(chunk, a)
  /\ lastUse' = dispatched + 1
  /\ UNCHANGED <<allQueueVars, dispatched, csQueue, csVars, blitList, app, target, access>>

FlushCsChunk ==
  /\ app = "run" /\ chunk # <<>>
  /\ Dispatch(<<>>)
  /\ UNCHANGED <<allQueueVars, csVars, blitList, appVars>>

Flush ==
  /\ CanRecord(1)
  /\ Dispatch(<<"flush">>)
  /\ UNCHANGED <<allQueueVars, csVars, blitList, lastUse, app, target, access>>

BeginPresent ==
  /\ CanRecord(3)
  /\ Dispatch(<<"flush">>)
  /\ app' = "present"
  /\ UNCHANGED <<allQueueVars, csVars, blitList, lastUse, target, access>>

\* After a present that failed, or an acquire that does, the swap chain is recreated: that waits for
\* the submission only, and the call returns if it fails.
RecreateSwapChain ==
  /\ app = "present" /\ presentStatus # "notready"
  /\ presentStatus # "success" \/ MayFail
  /\ presentStatus' = "success"
  /\ app' \in {"present", "run"}
  /\ UNCHANGED <<listVars, queueVars, submitter, submitStatus, finishVars, lastError, queueLocked,
                 sleeping, gpuVars, streamVars, csVars, blitList, recorded, lastUse, target, access>>

\* The blit of the back buffer is a list of its own, recorded here.
SubmitPresent ==
  /\ app = "present" /\ presentStatus = "success"
  /\ presentStatus' = "notready"
  /\ blitList' = NextList
  /\ CreateCommandList
  /\ Dispatch(<<"blit", "present">>)
  /\ app' = "run"
  /\ UNCHANGED <<tracked, holds, queueVars, submitter, submitStatus, finishVars, lastError, queueLocked,
                 sleeping, gpuVars, csVars, recorded, lastUse, target, access>>

----------------------------------------------------------------------------
(* WaitForResource *)

\* The D3D11 device goes by its first look at the counters, the D3D9 device looks again.
\* The flush that a map may need counts as a command.
Map(a) ==
  /\ CanRecord(1)
  /\ app' = IF ~IsInUse(a) THEN "sync" ELSE IF Rereads THEN "recheck" ELSE "flush"
  /\ access' = a
  /\ UNCHANGED <<allQueueVars, streamVars, csVars, blitList, lastUse, target>>

\* The D3D9 device waits for all chunks, the D3D11 device for the last that uses the resource.
MapSync ==
  /\ app = "sync"
  /\ IF Rereads \/ lastUse > dispatched THEN Dispatch(<<>>) ELSE UNCHANGED streamVars
  /\ target' = IF Rereads THEN dispatched' ELSE lastUse
  /\ app' = "synced"
  /\ UNCHANGED <<allQueueVars, csVars, blitList, recorded, lastUse, access>>

\* DxvkCsThread::synchronize.
Synchronized(from, to) ==
  /\ app = from /\ executed >= target
  /\ app' = to /\ target' = 0
  /\ UNCHANGED <<allQueueVars, streamVars, csVars, blitList, recorded, lastUse, access>>

MapRecheck ==
  /\ app = "recheck"
  /\ app' = IF IsInUse(access) THEN "flush" ELSE "mapped"
  /\ UNCHANGED <<allQueueVars, streamVars, csVars, blitList, recorded, lastUse, target, access>>

\* D3DLOCK_DONOTWAIT: the map is refused.
MapRefused ==
  /\ app = "flush"
  /\ app' = "run" /\ access' = "read"
  /\ UNCHANGED <<allQueueVars, streamVars, csVars, blitList, recorded, lastUse, target>>

MapFlush ==
  /\ app = "flush"
  /\ Dispatch(<<"flush">>)
  /\ target' = IF Rereads THEN dispatched' ELSE lastUse
  /\ app' = "flushed"
  /\ UNCHANGED <<allQueueVars, csVars, blitList, recorded, lastUse, access>>

\* waitForResource: a look without the lock, then a wait on m_finishCond.
MapReturns ==
  /\ app \in {"wait", "waiting"} /\ "app" \notin sleeping /\ ~IsInUse(access)
  /\ app = "waiting" => ~SelfLocked
  /\ app' = "mapped"
  /\ UNCHANGED <<allQueueVars, streamVars, csVars, blitList, recorded, lastUse, target, access>>

MapWaits ==
  /\ app = "wait" /\ IsInUse(access)
  /\ app' = "waiting"
  /\ UNCHANGED <<allQueueVars, streamVars, csVars, blitList, recorded, lastUse, target, access>>

MapSleeps ==
  /\ app = "waiting"
  /\ ResourceSleeps("app", access)
  /\ UNCHANGED <<streamVars, csVars, blitList, appVars>>

Unmap ==
  /\ app = "mapped"
  /\ app' = "run" /\ access' = "read"
  /\ UNCHANGED <<allQueueVars, streamVars, csVars, blitList, recorded, lastUse, target>>

----------------------------------------------------------------------------
(* CreatePresenter: the submission of the last present, the command stream, the device. *)

CreatePresenter ==
  /\ CanRecord(1)
  /\ app' = "drain"
  /\ UNCHANGED <<allQueueVars, streamVars, csVars, blitList, lastUse, target, access>>

DrainStream ==
  /\ app = "drain" /\ presentStatus # "notready"
  /\ Dispatch(<<>>)
  /\ target' = dispatched'
  /\ app' = "drainstream"
  /\ UNCHANGED <<allQueueVars, csVars, blitList, recorded, lastUse, access>>

\* Mutant of DrainQueue: only the finish queue is looked at.
DrainQueue_Finish ==
  /\ app = "drainqueue" /\ ~SelfLocked /\ finishQueue = <<>>
  /\ app' = "drainlock"
  /\ UNCHANGED <<allQueueVars, streamVars, csVars, blitList, recorded, lastUse, target, access>>

DrainQueue ==
  /\ app = "drainqueue" /\ ~SelfLocked /\ submitQueue = <<>>
  /\ app' = "drainlock"
  /\ UNCHANGED <<allQueueVars, streamVars, csVars, blitList, recorded, lastUse, target, access>>

DrainLock ==
  /\ app = "drainlock"
  /\ queueLocked' = TRUE
  /\ app' = "draingpu"
  /\ UNCHANGED <<listVars, queueVars, submitVars, finishVars, lastError, sleeping, gpuVars,
                 streamVars, csVars, blitList, recorded, lastUse, target, access>>

\* vkDeviceWaitIdle
DrainGpu ==
  /\ app = "draingpu" /\ gpu = {}
  /\ queueLocked' = FALSE
  /\ app' = "drained"
  /\ UNCHANGED <<listVars, queueVars, submitVars, finishVars, lastError, sleeping, gpuVars,
                 streamVars, csVars, blitList, recorded, lastUse, target, access>>

PresenterCreated ==
  /\ app = "drained"
  /\ presentStatus' = "success"
  /\ app' = "run"
  /\ UNCHANGED <<listVars, queueVars, submitter, submitStatus, finishVars, lastError, queueLocked,
                 sleeping, gpuVars, streamVars, csVars, blitList, recorded, lastUse, target, access>>

----------------------------------------------------------------------------
(* DxvkCsThread::threadFunc *)

\* Mutant of CsNext: a chunk counts as executed when it is taken.
CsNext_CountsEarly ==
  /\ csRest = <<>> /\ (csBusy \/ csQueue # <<>>)
  /\ IF csQueue = <<>>
     THEN csBusy' = FALSE /\ UNCHANGED <<csQueue, csRest, executed>>
     ELSE csBusy' = TRUE /\ csRest' = Head(csQueue) /\ csQueue' = Tail(csQueue) /\ executed' = executed + 1
  /\ UNCHANGED <<allQueueVars, chunk, dispatched, recording, blitList, appVars>>

\* One critical section counts the chunk that was executed and takes the next.
CsNext ==
  /\ csRest = <<>> /\ (csBusy \/ csQueue # <<>>)
  /\ executed' = IF csBusy THEN executed + 1 ELSE executed
  /\ IF csQueue = <<>>
     THEN csBusy' = FALSE /\ UNCHANGED <<csQueue, csRest>>
     ELSE csBusy' = TRUE /\ csRest' = Head(csQueue) /\ csQueue' = Tail(csQueue)
  /\ UNCHANGED <<allQueueVars, chunk, dispatched, recording, blitList, appVars>>

\* The context tracks a resource that a command uses.
CsUse ==
  /\ csRest # <<>> /\ Head(csRest) \in Accesses
  /\ csRest' = Tail(csRest)
  /\ tracked' = tracked \cup {<<recording, Head(csRest)>>}
  /\ holds' = holds \cup {<<recording, Head(csRest)>>}
  /\ UNCHANGED <<recycled, created, queueVars, submitVars, finishVars, lastError, queueLocked, sleeping,
                 gpuVars, streamVars, csBusy, executed, recording, blitList, appVars>>

\* flushCommandList: the recording goes on in another list.
CsFlush ==
  /\ csRest # <<>> /\ Head(csRest) = "flush"
  /\ Submit("cs", recording)
  /\ recording' = NextList
  /\ CreateCommandList
  /\ csRest' = Tail(csRest)
  /\ UNCHANGED <<tracked, holds, streamVars, csBusy, executed, blitList, appVars>>

CsBlit ==
  /\ csRest # <<>> /\ Head(csRest) = "blit"
  /\ Submit("cs", blitList)
  /\ blitList' = 0
  /\ csRest' = Tail(csRest)
  /\ UNCHANGED <<listVars, streamVars, csBusy, executed, recording, appVars>>

CsSleeps ==
  /\ csRest # <<>> /\ Head(csRest) \in {"flush", "blit"}
  /\ SubmitSleeps("cs")
  /\ UNCHANGED <<streamVars, csVars, blitList, appVars>>

CsPresent ==
  /\ csRest # <<>> /\ Head(csRest) = "present"
  /\ QueuePresent
  /\ csRest' = Tail(csRest)
  /\ UNCHANGED <<streamVars, csBusy, executed, recording, blitList, appVars>>

----------------------------------------------------------------------------

AppStep ==
  \/ RecreateSwapChain \/ SubmitPresent
  \/ MapSync \/ MapRecheck \/ MapRefused \/ MapFlush \/ MapReturns \/ MapWaits \/ MapSleeps \/ Unmap
  \/ Synchronized("synced", "recheck") \/ Synchronized("flushed", "wait")
  \/ Synchronized("drainstream", "drainqueue")
  \/ DrainStream \/ DrainQueue \/ DrainLock \/ DrainGpu \/ PresenterCreated

CsStep == CsNext \/ CsUse \/ CsFlush \/ CsBlit \/ CsSleeps \/ CsPresent
QueueStep(A) == A /\ UNCHANGED <<streamVars, csVars, blitList, appVars>>

Next ==
  \/ \E a \in Accesses : Draw(a) \/ Map(a)
  \/ FlushCsChunk \/ Flush \/ BeginPresent \/ CreatePresenter \/ AppStep
  \/ CsStep
  \/ QueueStep(SubmitStep) \/ QueueStep(FinishStep)
  \/ QueueStep(DeviceLost) \/ \E l \in gpu : QueueStep(GpuCompletes(l))

Spec == Init /\ [][Next]_vars

\* Every thread goes on and every list that executes completes; the application need not
\* start anything.
FairSpec ==
  /\ Spec
  /\ WF_vars(AppStep) /\ WF_vars(CsStep)
  /\ WF_vars(QueueStep(SubmitStep)) /\ WF_vars(QueueStep(FinishStep))
  /\ WF_vars(\E l \in gpu : QueueStep(GpuCompletes(l)))

----------------------------------------------------------------------------

Entries == Lists \cup {Present}

QueueTypeOK ==
  /\ tracked \subseteq Lists \X Accesses /\ holds \subseteq Lists \X Accesses
  /\ recycled \in Seq(Lists) /\ created \in Lists
  /\ submitQueue \in Seq(Entries) /\ finishQueue \in Seq(Lists) /\ pending \in Nat
  /\ lastError \in {"success", "lost", "error"}
  /\ submitter \in {"idle", "taken", "executed", "selflocked"}
  /\ submitStatus \in {"success", "lost", "error", "outofdate"}
  /\ presentStatus \in {"success", "lost", "outofdate", "notready"}
  /\ finisher \in {"idle", "fence", "idling", "notify", "pop", "recycle"} /\ finishList \in Lists
  /\ queueLocked \in BOOLEAN /\ sleeping \subseteq {"app", "cs"}
  /\ gpu \subseteq Lists /\ lost \in BOOLEAN

Elements(s) == {s[i] : i \in 1 .. Len(s)}

AppStates ==
  {"run", "present", "sync", "synced", "recheck", "flush", "flushed", "wait", "waiting", "mapped",
   "drain", "drainstream", "drainqueue", "drainlock", "draingpu", "drained"}

\* Type correctness.
TypeOK ==
  /\ QueueTypeOK
  /\ recorded \in 0 .. MaxCommands
  /\ chunk \in Seq(Commands) /\ csQueue \in Seq(Seq(Commands)) /\ csRest \in Seq(Commands)
  /\ dispatched \in Nat /\ executed \in Nat /\ lastUse \in Nat /\ target \in Nat
  /\ csBusy \in BOOLEAN /\ recording \in Lists /\ blitList \in Lists \cup {0}
  /\ app \in AppStates /\ access \in Accesses

\* The uses of the resource that the GPU is yet to execute: in chunks, and in lists that are
\* recorded, queued or executing.
AheadOf(s) == {a \in Accesses : \E i \in 1 .. Len(s) : s[i] = a}
Unfinished == {recording} \cup Elements(submitQueue) \cup gpu
Ahead ==
  AheadOf(chunk) \cup (UNION {AheadOf(csQueue[i]) : i \in 1 .. Len(csQueue)}) \cup AheadOf(csRest)
  \cup {h[2] : h \in {t \in tracked : t[1] \in Unfinished}}

\* A map returns when nothing ahead can still write the resource, and for a map that writes
\* also when nothing ahead can read it: neither a chunk of the command stream, nor the list
\* being recorded, nor one that is queued or executes (WaitForResource).
MappedIsUntouched ==
  app = "mapped" => "write" \notin Ahead /\ (access = "read" => Ahead = {})

\* A list that is recorded, or waits to be recorded again, is neither queued nor executing:
\* beginRecording resets its command pools and its fence.
RecordedListIsIdle ==
  \A l \in {recording, blitList} \cup Elements(recycled) :
    l \notin gpu \cup Elements(submitQueue) \cup Elements(finishQueue)

\* When the old presenter is dropped nothing that was recorded before is still ahead of the
\* GPU: CreatePresenter flushes the command stream before it waits for the submission queue.
DrainedIsIdle == app = "drained" => chunk = <<>> /\ csQueue = <<>> /\ ~csBusy /\ submitQueue = <<>> /\ gpu = {}

\* A pending count of 0 "indicates that the GPU is currently idle" (dxvk_device.h).
ZeroPendingIsIdle == pending = 0 => gpu = {}

\* Whoever is told that the device is idle, by waitForIdle or by the pending count, finds
\* nothing executing.
IdleIsIdle == DrainedIsIdle /\ ZeroPendingIsIdle

\* A thread that maps, presents or drains gets on, unless a failed submission has locked the
\* submit thread out of its own queue.
CallsEnd == app # "run" ~> (app = "run" \/ SelfLocked)
==============================================================================

--------------------------- MODULE SubmissionQueue ---------------------------
(***************************************************************************)
(* DxvkSubmissionQueue: command lists and presents go through two queues   *)
(* with a thread each.  The submit thread hands them to the Vulkan queue,  *)
(* the finish thread waits for the fence of each list, releases the        *)
(* resources the list tracks and recycles the list.                        *)
(*                                                                         *)
(* One resource stands for all of them; its two use counters are the set   *)
(* of the holds that lists have on it.  The waits on m_appendCond and      *)
(* m_submitCond are guards, as each change of their predicates is followed *)
(* by a notify_all; m_finishCond is not notified when an entry leaves the  *)
(* submit queue, so its sleepers are kept.  This module has no Next: its   *)
(* callers are in RenderPipeline.                                          *)
(***************************************************************************)
EXTENDS Naturals, Sequences, FiniteSets

CONSTANTS
  Present,     \* the entry of the submit queue that presents an image
  MaxQueued,   \* MaxNumQueuedCommandBuffers
  MaxRecycled, \* the size of m_recycledCommandLists
  MayFail      \* whether a submission may fail and the device may be lost

ASSUME QueueAssumption ==
  /\ Present \notin Nat
  /\ MaxQueued \in Nat \ {0} /\ MaxRecycled \in Nat
  /\ MayFail \in BOOLEAN

VARIABLES
  tracked,        \* what the lists' lifetime trackers hold: pairs of a list and an access
  holds,          \* m_useCountR and m_useCountW of the resource, as the pairs they count
  recycled,       \* m_recycledCommandLists
  created,        \* lists created so far; list number n is the n-th
  submitQueue,    \* m_submitQueue
  finishQueue,    \* m_finishQueue
  pending,        \* m_pending
  lastError,      \* m_lastError
  submitter,      \* where the submit thread is
  submitStatus,   \* what its last submission returned
  finisher,       \* where the finish thread is
  finishList,     \* the list it works on
  presentStatus,  \* DxvkSubmitStatus::result of the swap chain
  queueLocked,    \* m_mutexQueue is held by a caller of lockDeviceQueue
  sleeping,       \* the threads asleep on m_finishCond
  gpu,            \* the lists that execute
  lost            \* the device is lost

listVars == <<tracked, holds, recycled, created>>
queueVars == <<submitQueue, finishQueue, pending>>
submitVars == <<submitter, submitStatus, presentStatus>>
finishVars == <<finisher, finishList>>
gpuVars == <<gpu, lost>>
allQueueVars == <<listVars, queueVars, submitVars, finishVars, lastError, queueLocked, sleeping, gpuVars>>

Accesses == {"read", "write"}

Lists == Nat \ {0}

\* Where a thread that fails to submit ends: waitForIdle, which synchronizes with the
\* queue it serves, is called with m_mutex held, and nobody gets that lock any more.
SelfLocked == submitter = "selflocked"

QueueInit ==
  /\ tracked = {} /\ holds = {} /\ recycled = <<>> /\ created = 1
  /\ submitQueue = <<>> /\ finishQueue = <<>> /\ pending = 0
  /\ lastError = "success"
  /\ submitter = "idle" /\ submitStatus = "success" /\ presentStatus = "success"
  /\ finisher = "idle" /\ finishList = 1
  /\ queueLocked = FALSE /\ sleeping = {}
  /\ gpu = {} /\ lost = FALSE

----------------------------------------------------------------------------
(* What callers do under m_mutex. *)

\* Whoever asks for reads is told of writers too.
IsInUse(access) ==
  \E h \in holds : h[2] = "write" \/ access = "read"

\* createCommandList: the list recycled last, or a new one.
NextList == IF recycled = <<>> THEN created + 1 ELSE recycled[Len(recycled)]

CreateCommandList ==
  IF recycled = <<>> THEN created' = created + 1 /\ UNCHANGED recycled
                     ELSE recycled' = SubSeq(recycled, 1, Len(recycled) - 1) /\ UNCHANGED created

HasRoom == Len(submitQueue) + Len(finishQueue) <= MaxQueued

Submit(t, l) ==
  /\ ~SelfLocked /\ t \notin sleeping /\ HasRoom
  /\ pending' = pending + 1
  /\ submitQueue' = Append(submitQueue, l)
  /\ UNCHANGED <<finishQueue, submitVars, finishVars, lastError, queueLocked, sleeping, gpuVars>>

SubmitSleeps(t) ==
  /\ ~SelfLocked /\ t \notin sleeping /\ ~HasRoom
  /\ sleeping' = sleeping \cup {t}
  /\ UNCHANGED <<listVars, queueVars, submitVars, finishVars, lastError, queueLocked, gpuVars>>

\* presentImage: there is no limit for presents.
QueuePresent ==
  /\ ~SelfLocked
  /\ submitQueue' = Append(submitQueue, Present)
  /\ presentStatus' = "notready"
  /\ UNCHANGED <<listVars, finishQueue, pending, submitter, submitStatus, finishVars, lastError,
                 queueLocked, sleeping, gpuVars>>

ResourceSleeps(t, access) ==
  /\ ~SelfLocked /\ t \notin sleeping /\ IsInUse(access)
  /\ sleeping' = sleeping \cup {t}
  /\ UNCHANGED <<listVars, queueVars, submitVars, finishVars, lastError, queueLocked, gpuVars>>

----------------------------------------------------------------------------
(* submitCmdLists *)

SubmitTake ==
  /\ submitter = "idle" /\ submitQueue # <<>>
  /\ submitter' = "taken"
  /\ UNCHANGED <<listVars, queueVars, submitStatus, presentStatus, finishVars, lastError, queueLocked,
                 sleeping, gpuVars>>

\* What the driver may answer.
Outcomes(e) ==
  IF lost THEN {"lost"}
  ELSE {"success"} \cup (IF ~MayFail THEN {} ELSE IF e = Present THEN {"outofdate"} ELSE {"error"})

\* Nothing is submitted any more once the device is lost.
SubmitExecute ==
  LET e == Head(submitQueue) IN
  /\ submitter = "taken"
  /\ \E status \in IF lastError = "lost" THEN {"lost"} ELSE Outcomes(e) :
       /\ lastError # "lost" => ~queueLocked
       /\ submitStatus' = status
       /\ presentStatus' = IF e = Present THEN status ELSE presentStatus
       /\ gpu' = IF e # Present /\ status = "success" THEN gpu \cup {e} ELSE gpu
  /\ submitter' = "executed"
  /\ UNCHANGED <<listVars, queueVars, finishVars, lastError, queueLocked, sleeping, lost>>

\* A present that failed without the loss of the device is only reported.
SubmitRetires ==
  LET e == Head(submitQueue) IN
  /\ submitter = "executed"
  /\ submitStatus = "success" \/ (submitStatus # "lost" /\ e = Present)
  /\ submitter' = "idle" /\ submitStatus' = "success"
  /\ submitQueue' = Tail(submitQueue)
  /\ finishQueue' = IF e = Present THEN finishQueue ELSE Append(finishQueue, e)
  /\ UNCHANGED <<listVars, pending, presentStatus, finishVars, lastError, queueLocked,
                 sleeping, gpuVars>>

\* A failure ends in waitForIdle, with m_mutex held.
SubmitFails ==
  /\ submitter = "executed"
  /\ submitStatus = "lost" \/ (submitStatus # "success" /\ Head(submitQueue) # Present)
  /\ submitter' = "selflocked"
  /\ lastError' = submitStatus
  /\ UNCHANGED <<listVars, queueVars, submitStatus, presentStatus, finishVars, queueLocked, sleeping,
                 gpuVars>>

----------------------------------------------------------------------------
(* finishCmdLists *)

\* Mutant of FinishTake: the list is no longer counted once it is waited for.
FinishTake_Uncounts ==
  /\ ~SelfLocked /\ finisher = "idle" /\ finishQueue # <<>>
  /\ finisher' = "fence"
  /\ finishList' = Head(finishQueue)
  /\ pending' = pending - 1
  /\ UNCHANGED <<listVars, submitQueue, finishQueue, submitVars, lastError, queueLocked, sleeping, gpuVars>>

FinishTake ==
  /\ ~SelfLocked /\ finisher = "idle" /\ finishQueue # <<>>
  /\ finisher' = "fence"
  /\ finishList' = Head(finishQueue)
  /\ UNCHANGED <<listVars, queueVars, submitVars, lastError, queueLocked, sleeping, gpuVars>>

\* Mutant of FinishFence: a wait that timed out is not repeated.
FinishFence_Once ==
  /\ finisher = "fence"
  /\ finisher' = "notify"
  /\ UNCHANGED <<listVars, queueVars, submitVars, finishList, lastError, queueLocked, sleeping, gpuVars>>

\* DxvkCommandList::synchronize waits for the fence as long as it takes.
FinishFence ==
  /\ finisher = "fence"
  /\ lastError # "lost" /\ finishList \notin gpu
  /\ finisher' = "notify"
  /\ UNCHANGED <<listVars, queueVars, submitVars, finishList, lastError, queueLocked, sleeping, gpuVars>>

\* The device was lost, or the wait itself returned another error.
FinishFenceFails ==
  /\ finisher = "fence"
  /\ finisher' = "idling"
  /\ \/ lost /\ lastError' = "lost"
     \/ MayFail /\ lastError # "lost" /\ lastError' = "error"
  /\ UNCHANGED <<listVars, queueVars, submitVars, finishList, queueLocked, sleeping, gpuVars>>

\* waitForIdle, here without m_mutex.
FinishIdle ==
  /\ ~SelfLocked /\ finisher = "idling"
  /\ submitQueue = <<>> /\ ~queueLocked /\ gpu = {}
  /\ finisher' = "notify"
  /\ UNCHANGED <<listVars, queueVars, submitVars, finishList, lastError, queueLocked, sleeping, gpuVars>>

\* notifyObjects: the tracked resources are released.
FinishNotify ==
  /\ finisher = "notify"
  /\ finisher' = "pop"
  /\ holds' = {h \in holds : h[1] # finishList}
  /\ UNCHANGED <<tracked, recycled, created, queueVars, submitVars, finishList, lastError, queueLocked, sleeping,
                 gpuVars>>

\* Mutant of FinishPop: nobody is told.
FinishPop_Quiet ==
  /\ ~SelfLocked /\ finisher = "pop"
  /\ finisher' = "recycle"
  /\ pending' = pending - 1
  /\ finishQueue' = Tail(finishQueue)
  /\ UNCHANGED <<listVars, submitQueue, submitVars, finishList, lastError, queueLocked, sleeping, gpuVars>>

FinishPop ==
  /\ ~SelfLocked /\ finisher = "pop"
  /\ finisher' = "recycle"
  /\ pending' = pending - 1
  /\ finishQueue' = Tail(finishQueue)
  /\ sleeping' = {}
  /\ UNCHANGED <<listVars, submitQueue, submitVars, finishList, lastError, queueLocked, gpuVars>>

\* A list for which the recycler has no place is destroyed.
FinishRecycle ==
  /\ finisher = "recycle"
  /\ finisher' = "idle" /\ finishList' = 1
  /\ tracked' = {h \in tracked : h[1] # finishList}
  /\ recycled' = IF Len(recycled) < MaxRecycled THEN Append(recycled, finishList) ELSE recycled
  /\ UNCHANGED <<holds, created, queueVars, submitVars, lastError, queueLocked, sleeping, gpuVars>>

----------------------------------------------------------------------------
(* The device. *)

GpuCompletes(l) ==
  /\ l \in gpu
  /\ gpu' = gpu \ {l}
  /\ UNCHANGED <<listVars, queueVars, submitVars, finishVars, lastError, queueLocked, sleeping, lost>>

DeviceLost ==
  /\ MayFail /\ ~lost
  /\ lost' = TRUE
  /\ gpu' = {}
  /\ UNCHANGED <<listVars, queueVars, submitVars, finishVars, lastError, queueLocked, sleeping>>

SubmitStep == SubmitTake \/ SubmitExecute \/ SubmitRetires \/ SubmitFails
FinishStep ==
  FinishTake \/ FinishFence \/ FinishFenceFails \/ FinishIdle \/ FinishNotify \/ FinishPop \/ FinishRecycle
==============================================================================

---------------------------- MODULE DlfgPresenter ----------------------------
(***************************************************************************)
(* DxvkDLFGPresenter: frame generation presents from threads of its own.   *)
(* The swap chain acquires a back buffer and hands the frame to the        *)
(* command stream and the submission queue (two queues here, see           *)
(* RenderPipeline); the submit thread's presentImage only queues a job.    *)
(* The present thread does the job, interpolated images first, under its   *)
(* mutex from end to end; the pacer thread releases the later images of a  *)
(* frame.  Two words are shared without a lock: the status of the swap     *)
(* chain, which four threads store, and the presenter's last status.       *)
(*                                                                         *)
(* Condition variables are guards where each change of the predicate is    *)
(* notified under the waiter's mutex.  synchronize waits for the pacer     *)
(* with the mutex of the present thread instead, so that the gap between   *)
(* its look at m_pacerQueue and its sleep is kept.                         *)
(***************************************************************************)
EXTENDS Naturals, Sequences, FiniteSets

CONSTANTS
  Images,        \* back buffers, m_appRequestedImageCount
  Interpolated,  \* most images interpolated for a frame
  MaxFrames      \* bound on the frames presented

ASSUME DlfgAssumption ==
  /\ Images \in Nat \ {0, 1}
  /\ Interpolated \in Nat
  /\ MaxFrames \in Nat

VARIABLES
  app,          \* where the thread in PresentImage is
  round,        \* which synchronize of RecreateSwapChain it is in
  frame,        \* frames handed over so far; the frame's image is m_backbufferIndex
  backbuffer,   \* m_backbufferIndex
  status,       \* m_presentStatus
  statusOf,     \* the frame that status was stored for
  hasty,        \* the swap chain went on by another frame's status, or recreated too early
  csQueue,      \* presents in chunks of the command stream
  submitQueue,  \* presents in the submission queue
  submitter,    \* where the submit thread is
  refused,      \* the frame whose refusal it still has to store again
  lastStatus,   \* m_lastPresentStatus
  inFlight,     \* m_backbufferInFlight, as the set of its true indices
  jobs,         \* m_presentQueue
  presenter,    \* where the present thread is; it holds its mutex unless idle
  count,        \* interpolatedFrameCount of its job
  shown,        \* the interpolated images it has acquired, then presented
  metered,      \* no image of its job waits for the pacer thread
  pace,         \* pacerSemaphoreValue
  nextValue,    \* m_dlfgPacerSemaphoreValue
  awaited,      \* the highest value that a present of the GPU waits for, and one
  pacerJobs,    \* m_pacerQueue
  pacer,        \* where the pacer thread is
  signalled     \* the highest value of m_dlfgPacerSemaphore it signalled, and one

appVars == <<app, round, frame, backbuffer, hasty>>
statusVars == <<status, statusOf>>
pipeVars == <<csQueue, submitQueue, submitter, refused>>
jobVars == <<presenter, count, shown, metered, pace>>
pacerVars == <<pacerJobs, pacer, signalled>>
semaphoreVars == <<nextValue, awaited>>
vars == <<appVars, statusVars, pipeVars, lastStatus, inFlight, jobs, jobVars, pacerVars, semaphoreVars>>

Init ==
  /\ app = "run" /\ round = 1 /\ frame = 0 /\ backbuffer = 0 /\ hasty = FALSE
  /\ status = "success" /\ statusOf = 0
  /\ csQueue = <<>> /\ submitQueue = <<>> /\ submitter = "idle" /\ refused = 0
  /\ lastStatus = "success" /\ inFlight = {} /\ jobs = <<>>
  /\ presenter = "idle" /\ count = 0 /\ shown = 0 /\ metered = FALSE /\ pace = 0
  /\ nextValue = 0 /\ awaited = 0
  /\ pacerJobs = <<>> /\ pacer = "idle" /\ signalled = 0

Outcomes == {"success", "failed"}

\* m_presentThread.mutex is free: the present thread waits, and the swap chain is neither about
\* to sleep nor recreates.
Unlocked == presenter = "idle" /\ app \notin {"gap", "recreating"}

Larger(a, b) == IF a < b THEN b ELSE a

----------------------------------------------------------------------------
(* The swap chain, on the application's thread. *)

PresentImage ==
  /\ app = "run" /\ frame < MaxFrames
  /\ app' = "submission"
  /\ UNCHANGED <<round, frame, backbuffer, hasty, statusVars, pipeVars, lastStatus, inFlight, jobs, jobVars,
                 pacerVars, semaphoreVars>>

\* SynchronizePresent
SynchronizePresent ==
  /\ app = "submission" /\ status # "notready"
  /\ app' = IF status = "failed" THEN "recreate" ELSE "acquire"
  /\ hasty' = (hasty \/ statusOf # frame)
  /\ UNCHANGED <<round, frame, backbuffer, statusVars, pipeVars, lastStatus, inFlight, jobs, jobVars,
                 pacerVars, semaphoreVars>>

AcquireFails ==
  /\ app = "acquire" /\ lastStatus # "success"
  /\ app' = "recreate"
  /\ UNCHANGED <<round, frame, backbuffer, hasty, statusVars, pipeVars, lastStatus, inFlight, jobs, jobVars,
                 pacerVars, semaphoreVars>>

\* Mutant of AcquireNextImage: the index does not wrap.
AcquireNextImage_NoWrap ==
  /\ app = "acquire" /\ lastStatus = "success"
  /\ backbuffer' = backbuffer + 1
  /\ app' = "available"
  /\ UNCHANGED <<round, frame, hasty, statusVars, pipeVars, lastStatus, inFlight, jobs, jobVars,
                 pacerVars, semaphoreVars>>

AcquireNextImage ==
  /\ app = "acquire" /\ lastStatus = "success"
  /\ backbuffer' = (backbuffer + 1) % Images
  /\ app' = "available"
  /\ UNCHANGED <<round, frame, hasty, statusVars, pipeVars, lastStatus, inFlight, jobs, jobVars,
                 pacerVars, semaphoreVars>>

\* Mutant of AcquireReturns: the image is not waited for.
AcquireReturns_NoWait ==
  /\ app = "available" /\ Unlocked
  /\ app' = "acquired"
  /\ UNCHANGED <<round, frame, backbuffer, hasty, statusVars, pipeVars, lastStatus, inFlight, jobs, jobVars,
                 pacerVars, semaphoreVars>>

AcquireReturns ==
  /\ app = "available" /\ Unlocked /\ backbuffer \notin inFlight
  /\ app' = "acquired"
  /\ UNCHANGED <<round, frame, backbuffer, hasty, statusVars, pipeVars, lastStatus, inFlight, jobs, jobVars,
                 pacerVars, semaphoreVars>>

SubmitPresent ==
  /\ app = "acquired"
  /\ app' = "run"
  /\ frame' = frame + 1
  /\ status' = "notready" /\ statusOf' = frame'
  /\ csQueue' = Append(csQueue, [frame |-> frame', image |-> backbuffer])
  /\ UNCHANGED <<round, backbuffer, hasty, submitQueue, submitter, refused, lastStatus, inFlight, jobs, jobVars,
                 pacerVars, semaphoreVars>>

\* RecreateSwapChain waits for a submission, then for the presenter.
RecreateSwapChain ==
  /\ app = "recreate" /\ status # "notready"
  /\ app' = "jobs" /\ round' = 1
  /\ hasty' = (hasty \/ statusOf # frame)
  /\ UNCHANGED <<frame, backbuffer, statusVars, pipeVars, lastStatus, inFlight, jobs, jobVars,
                 pacerVars, semaphoreVars>>

\* synchronize, first the jobs, then the pacer.
SynchronizeJobs ==
  /\ app = "jobs" /\ Unlocked /\ jobs = <<>>
  /\ app' = "pacer"
  /\ UNCHANGED <<round, frame, backbuffer, hasty, statusVars, pipeVars, lastStatus, inFlight, jobs, jobVars,
                 pacerVars, semaphoreVars>>

\* The predicate does not hold, and then the thread goes to sleep; if the pacer has popped
\* its last job in between, the wake-up is gone.
SynchronizeGap ==
  /\ app = "pacer" /\ Unlocked /\ pacerJobs # <<>>
  /\ app' = "gap"
  /\ UNCHANGED <<round, frame, backbuffer, hasty, statusVars, pipeVars, lastStatus, inFlight, jobs, jobVars,
                 pacerVars, semaphoreVars>>

SynchronizeSleeps ==
  /\ app = "gap"
  /\ app' = IF pacerJobs = <<>> THEN "overslept" ELSE "asleep"
  /\ UNCHANGED <<round, frame, backbuffer, hasty, statusVars, pipeVars, lastStatus, inFlight, jobs, jobVars,
                 pacerVars, semaphoreVars>>

\* Mutant of Synchronized: the pacer is not waited for.
Synchronized_JobsOnly ==
  /\ app = "pacer" /\ Unlocked

Synchronized ==
  /\ app = "pacer" /\ Unlocked /\ pacerJobs = <<>>

\* Between the two, m_presentStatus is reset and the lock is free.
SynchronizeAgain ==
  /\ Synchronized /\ round = 1
  /\ app' = "jobs" /\ round' = 2
  /\ status' = "success" /\ statusOf' = frame
  /\ UNCHANGED <<frame, backbuffer, hasty, pipeVars, lastStatus, inFlight, jobs, jobVars, pacerVars,
                 semaphoreVars>>

\* recreateSwapChain goes on under the lock.
RecreateBegin ==
  /\ Synchronized /\ round = 2
  /\ app' = "recreating" /\ round' = 1
  /\ hasty' = (hasty \/ csQueue # <<>> \/ submitQueue # <<>> \/ jobs # <<>>)
  /\ UNCHANGED <<frame, backbuffer, statusVars, pipeVars, lastStatus, inFlight, jobs, jobVars, pacerVars,
                 semaphoreVars>>

\* createBackbuffers
RecreateEnd ==
  /\ app = "recreating"
  /\ app' = "acquire"
  /\ lastStatus' = "success" /\ inFlight' = {} /\ backbuffer' = 0
  /\ UNCHANGED <<round, frame, hasty, statusVars, pipeVars, jobs, jobVars, pacerVars, semaphoreVars>>

\* The swap chain cannot be recreated: Present catches the exception and returns.
RecreateFails ==
  /\ app = "recreating"
  /\ app' = "run"
  /\ UNCHANGED <<round, frame, backbuffer, hasty, statusVars, pipeVars, lastStatus, inFlight, jobs, jobVars,
                 pacerVars, semaphoreVars>>

----------------------------------------------------------------------------
(* The command stream and the submit thread. *)

\* DxvkDevice::presentImage
CsPresent ==
  /\ csQueue # <<>>
  /\ status' = "notready" /\ statusOf' = Head(csQueue).frame
  /\ csQueue' = Tail(csQueue)
  /\ submitQueue' = Append(submitQueue, Head(csQueue))
  /\ UNCHANGED <<appVars, submitter, refused, lastStatus, inFlight, jobs, jobVars, pacerVars, semaphoreVars>>

\* presentImage after an error: the frame is dropped.  Nobody looks at its entry any more, which
\* leaves the queue only with the next step.
SubmitRefused ==
  /\ submitter = "idle" /\ submitQueue # <<>> /\ lastStatus # "success"
  /\ status' = lastStatus /\ statusOf' = Head(submitQueue).frame
  /\ submitQueue' = Tail(submitQueue)
  /\ submitter' = "refused" /\ refused' = Head(submitQueue).frame
  /\ UNCHANGED <<appVars, csQueue, lastStatus, inFlight, jobs, jobVars, pacerVars, semaphoreVars>>

\* submitCmdLists stores what presentImage returned once more, over whatever the status is by now.
SubmitStores ==
  /\ submitter = "refused"
  /\ status' = "failed" /\ statusOf' = refused
  /\ submitter' = "idle" /\ refused' = 0
  /\ UNCHANGED <<appVars, csQueue, submitQueue, lastStatus, inFlight, jobs, jobVars, pacerVars, semaphoreVars>>

\* VK_EVENT_SET is stored before the lock is taken.
SubmitMarks ==
  /\ submitter = "idle" /\ submitQueue # <<>> /\ lastStatus = "success"
  /\ status' = "queued" /\ statusOf' = Head(submitQueue).frame
  /\ submitter' = "marked"
  /\ UNCHANGED <<appVars, csQueue, submitQueue, refused, lastStatus, inFlight, jobs, jobVars, pacerVars,
                 semaphoreVars>>

SubmitPushes ==
  /\ submitter = "marked" /\ Unlocked
  /\ inFlight' = inFlight \cup {Head(submitQueue).image}
  /\ jobs' = Append(jobs, Head(submitQueue))
  /\ submitQueue' = Tail(submitQueue)
  /\ submitter' = "idle"
  /\ UNCHANGED <<appVars, statusVars, csQueue, refused, lastStatus, jobVars, pacerVars, semaphoreVars>>

----------------------------------------------------------------------------
(* runPresentThread *)

\* Frames are dropped until recreateSwapChain clears an error.
JobDropped ==
  /\ Unlocked /\ jobs # <<>> /\ lastStatus # "success"
  /\ presenter' = "finish"
  /\ UNCHANGED <<appVars, statusVars, pipeVars, lastStatus, inFlight, jobs, count, shown, metered, pace,
                 pacerVars, semaphoreVars>>

\* A job with n interpolated images, which the driver paces or the pacer thread.
JobBegins(n, byDriver) ==
  /\ Unlocked /\ jobs # <<>> /\ lastStatus = "success"
  /\ presenter' = IF n = 0 THEN "rendered" ELSE "interpolate"
  /\ count' = n /\ shown' = 0 /\ metered' = (byDriver \/ n = 0) /\ pace' = nextValue
  /\ UNCHANGED <<appVars, statusVars, pipeVars, lastStatus, inFlight, jobs, pacerVars, semaphoreVars>>

\* swapchainAcquire; an error is meant to end the job here, but only goes on with the loop.
JobInterpolates ==
  /\ presenter = "interpolate"
  /\ lastStatus' \in Outcomes
  /\ shown' = IF shown + 1 = count THEN 0 ELSE shown + 1
  /\ presenter' = IF shown + 1 = count THEN "first" ELSE "interpolate"
  /\ UNCHANGED <<appVars, statusVars, pipeVars, inFlight, jobs, count, metered, pace, pacerVars, semaphoreVars>>

\* submitPresent of the first interpolated image, which waits for nothing.
JobPresentsFirst ==
  /\ presenter = "first"
  /\ lastStatus' \in Outcomes
  /\ shown' = 1
  /\ presenter' = IF lastStatus' # "success" THEN "finish" ELSE IF metered THEN "next" ELSE "pace"
  /\ UNCHANGED <<appVars, statusVars, pipeVars, inFlight, jobs, count, metered, pace, pacerVars, semaphoreVars>>

\* Mutant of JobPaces: the pacer releases one image too few.
JobPaces_OneLess ==
  /\ presenter = "pace"
  /\ pacerJobs' = Append(pacerJobs, [value |-> pace, count |-> count - 1])
  /\ presenter' = "next"
  /\ UNCHANGED <<appVars, statusVars, pipeVars, lastStatus, inFlight, jobs, count, shown, metered, pace,
                 pacer, signalled, semaphoreVars>>

JobPaces ==
  /\ presenter = "pace"
  /\ pacerJobs' = Append(pacerJobs, [value |-> pace, count |-> count])
  /\ presenter' = "next"
  /\ UNCHANGED <<appVars, statusVars, pipeVars, lastStatus, inFlight, jobs, count, shown, metered, pace,
                 pacer, signalled, semaphoreVars>>

\* What a paced present waits for.
Awaited == IF metered THEN awaited ELSE Larger(awaited, pace + 1)

\* The other interpolated images; again an error only goes on with the loop.
JobPresentsNext ==
  /\ presenter = "next" /\ shown < count
  /\ lastStatus' \in Outcomes
  /\ awaited' = Awaited
  /\ shown' = shown + 1
  /\ pace' = IF lastStatus' = "success" /\ ~metered THEN pace + 1 ELSE pace
  /\ UNCHANGED <<appVars, statusVars, pipeVars, inFlight, jobs, presenter, count, metered, nextValue, pacerVars>>

\* swapchainAcquire for the rendered image.
JobAcquires ==
  /\ presenter = "rendered" \/ (presenter = "next" /\ shown = count)
  /\ lastStatus' \in Outcomes
  /\ presenter' = IF lastStatus' = "success" THEN "present" ELSE "finish"
  /\ UNCHANGED <<appVars, statusVars, pipeVars, inFlight, jobs, count, shown, metered, pace, pacerVars,
                 semaphoreVars>>

\* Only after this present the next frame's values move on.
JobPresents ==
  /\ presenter = "present"
  /\ lastStatus' \in Outcomes
  /\ awaited' = Awaited
  /\ nextValue' = IF lastStatus' = "success" /\ ~metered THEN nextValue + count ELSE nextValue
  /\ presenter' = "finish"
  /\ UNCHANGED <<appVars, statusVars, pipeVars, inFlight, jobs, count, shown, metered, pace, pacerVars>>

\* The scope guard signalWorkConsumed: the status is stored whatever it is by now.
JobFinishes ==
  /\ presenter = "finish"
  /\ status' = lastStatus /\ statusOf' = Head(jobs).frame
  /\ inFlight' = inFlight \ {Head(jobs).image}
  /\ jobs' = Tail(jobs)
  /\ presenter' = "idle" /\ count' = 0 /\ shown' = 0 /\ metered' = FALSE /\ pace' = 0
  /\ UNCHANGED <<appVars, pipeVars, lastStatus, pacerVars, semaphoreVars>>

----------------------------------------------------------------------------
(* runPacerThread *)

\* The values of a frame are signalled one after the other, in time or at once.  A value that
\* is not above the semaphore's, which a frame that failed half-way leaves for the next one, is one
\* vkSignalSemaphore does not accept: the error is logged, and the semaphore stays where it is.
PacerSignals ==
  /\ pacer = "idle" /\ pacerJobs # <<>>
  /\ signalled' = Larger(signalled, Head(pacerJobs).value + Head(pacerJobs).count)
  /\ pacer' = "signalled"
  /\ UNCHANGED <<appVars, statusVars, pipeVars, lastStatus, inFlight, jobs, jobVars, pacerJobs, semaphoreVars>>

\* Mutant of PacerPops: the sleeper is not woken.
PacerPops_Quiet ==
  /\ pacer = "signalled"
  /\ pacerJobs' = Tail(pacerJobs)
  /\ pacer' = "idle"
  /\ UNCHANGED <<appVars, statusVars, pipeVars, lastStatus, inFlight, jobs, jobVars, signalled, semaphoreVars>>

PacerPops ==
  /\ pacer = "signalled"
  /\ pacerJobs' = Tail(pacerJobs)
  /\ pacer' = "idle"
  /\ app' = IF app \in {"asleep", "overslept"} THEN "pacer" ELSE app
  /\ UNCHANGED <<round, frame, backbuffer, hasty, statusVars, pipeVars, lastStatus, inFlight, jobs, jobVars,
                 signalled, semaphoreVars>>

----------------------------------------------------------------------------

AppStep ==
  \/ SynchronizePresent \/ AcquireFails \/ AcquireNextImage \/ AcquireReturns \/ SubmitPresent
  \/ RecreateSwapChain \/ SynchronizeJobs \/ SynchronizeGap \/ SynchronizeSleeps \/ SynchronizeAgain
  \/ RecreateBegin \/ RecreateEnd \/ RecreateFails

SubmitStep == SubmitRefused \/ SubmitStores \/ SubmitMarks \/ SubmitPushes

PresentStep ==
  \/ JobDropped \/ \E n \in 0 .. Interpolated, d \in BOOLEAN : JobBegins(n, d)
  \/ JobInterpolates \/ JobPresentsFirst \/ JobPaces \/ JobPresentsNext \/ JobAcquires \/ JobPresents
  \/ JobFinishes

PacerStep == PacerSignals \/ PacerPops

Next == PresentImage \/ AppStep \/ CsPresent \/ SubmitStep \/ PresentStep \/ PacerStep

Spec == Init /\ [][Next]_vars

\* Every thread goes on; the application need not present.
FairSpec ==
  Spec /\ WF_vars(AppStep) /\ WF_vars(CsPresent) /\ WF_vars(SubmitStep) /\ WF_vars(PresentStep) /\ WF_vars(PacerStep)

----------------------------------------------------------------------------

Indices == 0 .. Images - 1
Presents == [frame : 1 .. MaxFrames, image : Indices]

\* Type correctness.
TypeOK ==
  /\ app \in {"run", "submission", "acquire", "available", "acquired", "recreate", "jobs", "pacer", "gap",
              "asleep", "overslept", "recreating"}
  /\ round \in {1, 2} /\ frame \in 0 .. MaxFrames /\ backbuffer \in Indices /\ hasty \in BOOLEAN
  /\ status \in {"success", "failed", "queued", "notready"} /\ statusOf \in 0 .. MaxFrames
  /\ csQueue \in Seq(Presents) /\ submitQueue \in Seq(Presents) /\ submitter \in {"idle", "marked", "refused"}
  /\ refused \in 0 .. MaxFrames
  /\ lastStatus \in Outcomes /\ inFlight \subseteq Indices /\ jobs \in Seq(Presents)
  /\ presenter \in {"idle", "interpolate", "first", "pace", "next", "rendered", "present", "finish"}
  /\ count \in 0 .. Interpolated /\ shown \in 0 .. Interpolated /\ metered \in BOOLEAN /\ pace \in Nat
  /\ nextValue \in Nat /\ awaited \in Nat /\ signalled \in Nat
  /\ pacerJobs \in Seq([value : Nat, count : 0 .. Interpolated]) /\ pacer \in {"idle", "signalled"}

Elements(s) == {s[i] : i \in 1 .. Len(s)}
Pending == Elements(csQueue) \cup Elements(submitQueue) \cup Elements(jobs)

\* As long as the swap chain goes on by the status of its own last frame, a back buffer is in
\* flight exactly while one job presents it (the assertions of presentImage and of the present
\* thread), and it is only handed out again when no frame on it is still on its way.
BuffersAreOwned ==
  hasty \/ /\ inFlight = {j.image : j \in Elements(jobs)}
           /\ \A p, q \in Pending : p.image = q.image => p = q
           /\ app = "acquired" => \A p \in Pending : p.image # backbuffer

\* While back buffers are recreated the present thread and the pacer are idle.
RecreateIsIdle == app = "recreating" => presenter = "idle" /\ pacerJobs = <<>> /\ pacer = "idle"

\* No present waits for a value of the pacer's semaphore that nobody will signal.
WaitsAreSignalled ==
  awaited <= signalled \/ \E i \in 1 .. Len(pacerJobs) : awaited <= pacerJobs[i].value + pacerJobs[i].count

\* "Ensure that we can safely destroy the swap chain" (RecreateSwapChain): when the back buffers
\* are replaced no frame on an old one is still on its way to the presenter.
RecreateIsSafe == app = "recreating" => Pending = {}

\* A call that presents ends unless synchronize misses its wake-up and oversleeps, and a frame that
\* was handed over is presented or dropped unless the application calls again and again although
\* each recreation fails, which may keep the mutex from the other threads.
PresentsEnd ==
  /\ app # "run" ~> (app \in {"run", "overslept"})
  /\ <>[](app # "recreating") =>
       \A f \in 1 .. MaxFrames : (\E p \in Pending : p.frame = f) ~> (\A p \in Pending : p.frame # f)
==============================================================================

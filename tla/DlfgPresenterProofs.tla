------------------------- MODULE DlfgPresenterProofs -------------------------
(***************************************************************************)
(* Proofs about DlfgPresenter, for any number of back buffers, interpolated *)
(* images and frames.                                                      *)
(*                                                                         *)
(* JobShape and QueueShape say how far each thread is in its work.         *)
(* PacerInv carries WaitsAreSignalled: a paced job that is still at work   *)
(* will wait for no value above the last one it gave to the pacer.         *)
(* HandOver carries BuffersAreOwned: as long as the swap chain goes by its *)
(* own frame's status, at most two frames are ahead of the presenter, and  *)
(* the older one is already being queued.                                  *)
(***************************************************************************)
EXTENDS DlfgPresenter, SequenceTheorems, TLAPS

USE DlfgAssumption DEF DlfgAssumption

----------------------------------------------------------------------------
(* The strengthening. *)

JobShape ==
  /\ presenter # "idle" => jobs # <<>>
  /\ presenter = "interpolate" => shown < count
  /\ presenter \in {"first", "pace", "next"} => count > 0
  /\ presenter = "pace" => shown = 1
  /\ presenter = "next" => shown \in 1 .. count
  /\ presenter = "rendered" => metered
  /\ presenter = "present" => metered \/ shown = count

QueueShape ==
  /\ submitter = "marked" => submitQueue # <<>>
  /\ pacer = "signalled" => pacerJobs # <<>>
  /\ app # "run" => frame < MaxFrames
  /\ \A p \in Pending : p.frame <= frame

\* Somebody signals v or has.
Covered(v) ==
  v <= signalled \/ \E i \in 1 .. Len(pacerJobs) : v <= pacerJobs[i].value + pacerJobs[i].count

PacerInv ==
  /\ pacer = "signalled" =>
       pacerJobs[1].value + pacerJobs[1].count <= signalled
  /\ Covered(awaited)
  /\ presenter \in {"next", "present"} /\ ~metered => Covered(pace + (count - shown) + 1)

\* Nothing is ahead of the presenter but a frame that is being queued.
Settled == submitQueue = <<>> \/ (Len(submitQueue) = 1 /\ submitter = "marked")

\* The states in which the swap chain has handed out no image since the last frame.
Between == app \notin {"available", "acquired"}

OnItsWay ==
  /\ Len(csQueue) <= 1 /\ Len(submitQueue) <= 2
  /\ csQueue # <<>> => csQueue[1].frame = frame /\ Settled
  /\ Len(submitQueue) = 2 => csQueue = <<>> /\ submitter = "marked" /\ submitQueue[2].frame = frame
  /\ Len(submitQueue) = 1 /\ submitter # "marked" => csQueue = <<>> /\ submitQueue[1].frame = frame
  /\ Len(submitQueue) = 2 \/ (submitQueue # <<>> /\ csQueue # <<>>) => submitQueue[1].frame < frame
  /\ (\E p \in Elements(jobs) : p.frame = frame) => csQueue = <<>> /\ submitQueue = <<>>
  /\ status # "notready" /\ statusOf = frame => csQueue = <<>> /\ Settled
  /\ submitter = "refused" => refused <= frame
  /\ submitter = "refused" /\ refused = frame => csQueue = <<>> /\ Settled
  /\ app \notin {"run", "submission"} => csQueue = <<>> /\ Settled
  /\ app = "recreating" => submitQueue = <<>> /\ jobs = <<>>

ImagesApart ==
  /\ inFlight = {p.image : p \in Elements(jobs)}
  /\ \A i, j \in 1 .. Len(jobs) : jobs[i].image = jobs[j].image => i = j
  /\ \A p \in Elements(submitQueue) \cup Elements(csQueue) : p.image \notin inFlight
  /\ Len(submitQueue) = 2 => submitQueue[1].image # submitQueue[2].image
  /\ submitQueue # <<>> /\ csQueue # <<>> => submitQueue[1].image # csQueue[1].image
  /\ csQueue # <<>> => csQueue[1].image = backbuffer
  /\ Between /\ csQueue = <<>> /\ submitQueue # <<>> => submitQueue[Len(submitQueue)].image = backbuffer
  /\ ~Between => \A p \in Elements(submitQueue) : p.image # backbuffer
  /\ app = "acquired" => backbuffer \notin inFlight

HandOver == hasty \/ (OnItsWay /\ ImagesApart)

IInv == TypeOK /\ JobShape /\ QueueShape /\ RecreateIsIdle /\ PacerInv /\ HandOver
----------------------------------------------------------------------------
(* Sequences. *)

LEMMA ElementsAppend ==
  ASSUME NEW S, NEW s \in Seq(S), NEW x \in S
  PROVE  /\ Append(s, x) \in Seq(S)
         /\ Elements(Append(s, x)) = Elements(s) \cup {x}
         /\ Len(Append(s, x)) = Len(s) + 1
         /\ \A i \in 1 .. Len(s) : Append(s, x)[i] = s[i]
         /\ Append(s, x)[Len(s) + 1] = x
<1>1. /\ Append(s, x) \in Seq(S)
      /\ Len(Append(s, x)) = Len(s) + 1
      /\ \A i \in 1 .. Len(s) : Append(s, x)[i] = s[i]
      /\ Append(s, x)[Len(s) + 1] = x
  BY AppendProperties
<1>2. Len(s) \in Nat
  OBVIOUS
<1>3. ASSUME NEW y \in Elements(Append(s, x)) PROVE y \in Elements(s) \cup {x}
  BY <1>1, <1>2, <1>3 DEF Elements
<1>4. ASSUME NEW y \in Elements(s) \cup {x} PROVE y \in Elements(Append(s, x))
  BY <1>1, <1>2, <1>4 DEF Elements
<1> QED BY <1>1, <1>3, <1>4

\* The same of a queue that was appended to.
LEMMA Appended ==
  ASSUME NEW S, NEW s \in Seq(S), NEW x \in S, NEW t, t = Append(s, x)
  PROVE  t \in Seq(S) /\ Elements(t) = Elements(s) \cup {x} /\ Len(t) = Len(s) + 1 /\ t[Len(s) + 1] = x
  BY ElementsAppend

LEMMA OneLeft == \A n \in Nat : n <= 1 /\ n # 0 => n = 1
  OBVIOUS

LEMMA ElementsTail ==
  ASSUME NEW S, NEW s \in Seq(S), s # <<>>
  PROVE  /\ Tail(s) \in Seq(S) /\ Head(s) \in S
         /\ Elements(s) = {Head(s)} \cup Elements(Tail(s))
         /\ Len(s) \in Nat /\ Len(s) > 0 /\ Len(Tail(s)) = Len(s) - 1 /\ Head(s) = s[1]
         /\ \A i \in 1 .. Len(Tail(s)) : Tail(s)[i] = s[i + 1]
<1>1. /\ Tail(s) \in Seq(S) /\ Head(s) \in S /\ Len(Tail(s)) = Len(s) - 1
      /\ \A i \in 1 .. Len(Tail(s)) : Tail(s)[i] = s[i + 1]
  BY HeadTailProperties
<1>2. Len(s) \in Nat /\ Len(s) > 0 /\ Head(s) = s[1]
  OBVIOUS
<1>3. ASSUME NEW y \in Elements(s) PROVE y \in {Head(s)} \cup Elements(Tail(s))
  <2>1. PICK i \in 1 .. Len(s) : y = s[i]
    BY <1>3 DEF Elements
  <2>2. i = 1 \/ (i - 1 \in 1 .. Len(Tail(s)) /\ Tail(s)[i - 1] = s[i])
    BY <1>1, <1>2
  <2> QED BY <1>2, <2>1, <2>2 DEF Elements
<1>4. ASSUME NEW y \in {Head(s)} \cup Elements(Tail(s)) PROVE y \in Elements(s)
  BY <1>1, <1>2, <1>4 DEF Elements
<1> QED BY <1>1, <1>2, <1>3, <1>4

LEMMA ElementsIn ==
  ASSUME NEW S, NEW s \in Seq(S)
  PROVE  /\ Elements(s) \subseteq S
         /\ Elements(s) = {} <=> s = <<>>
<1>1. Len(s) \in Nat /\ (Len(s) = 0 <=> s = <<>>) /\ \A i \in 1 .. Len(s) : s[i] \in S
  OBVIOUS
<1> QED BY <1>1 DEF Elements

\* The index of the back buffer goes round.
LEMMA NextIndex ==
  ASSUME NEW b \in Indices
  PROVE  /\ (b + 1) % Images \in Indices
         /\ (b + 1) % Images # b
  BY DEF Indices

----------------------------------------------------------------------------
(* Types. *)

PacerJob == [value : Nat, count : 0 .. Interpolated]

\* The queues, and the rest of TypeOK.
QueuesTyped ==
  /\ csQueue \in Seq(Presents) /\ submitQueue \in Seq(Presents) /\ jobs \in Seq(Presents)
  /\ pacerJobs \in Seq(PacerJob)

WordsTyped ==
  /\ app \in {"run", "submission", "acquire", "available", "acquired", "recreate", "jobs", "pacer", "gap",
              "asleep", "overslept", "recreating"}
  /\ round \in {1, 2} /\ frame \in 0 .. MaxFrames /\ backbuffer \in Indices /\ hasty \in BOOLEAN
  /\ status \in {"success", "failed", "queued", "notready"} /\ statusOf \in 0 .. MaxFrames
  /\ submitter \in {"idle", "marked", "refused"} /\ refused \in 0 .. MaxFrames
  /\ lastStatus \in Outcomes /\ inFlight \subseteq Indices
  /\ presenter \in {"idle", "interpolate", "first", "pace", "next", "rendered", "present", "finish"}
  /\ count \in 0 .. Interpolated /\ shown \in 0 .. Interpolated /\ metered \in BOOLEAN /\ pace \in Nat
  /\ nextValue \in Nat /\ awaited \in Nat /\ signalled \in Nat /\ pacer \in {"idle", "signalled"}

LEMMA TypeParts == TypeOK <=> QueuesTyped /\ WordsTyped
  BY DEF TypeOK, QueuesTyped, WordsTyped, PacerJob

LEMMA PresentFields ==
  ASSUME NEW p \in Presents
  PROVE  p.frame \in 1 .. MaxFrames /\ p.image \in Indices
  BY DEF Presents

LEMMA ShapeInit == Init => TypeOK /\ JobShape /\ QueueShape /\ RecreateIsIdle
<1> SUFFICES ASSUME Init PROVE TypeOK /\ JobShape /\ QueueShape /\ RecreateIsIdle
  OBVIOUS
<1>1. Elements(<<>>) = {}
  BY DEF Elements
<1>2. QueuesTyped
  BY DEF Init, QueuesTyped
<1>3. WordsTyped
  <2>1. 0 \in Indices /\ 0 \in 0 .. MaxFrames /\ 0 \in 0 .. Interpolated
    BY DEF Indices
  <2> QED BY <2>1 DEF Init, WordsTyped, Outcomes
<1>4. QueueShape
  BY <1>1 DEF Init, QueueShape, Pending
<1> QED BY <1>2, <1>3, <1>4, TypeParts DEF Init, JobShape, RecreateIsIdle

LEMMA QueuesNext ==
  ASSUME TypeOK, JobShape, QueueShape, [Next]_vars
  PROVE  QueuesTyped'
<1> USE DEF QueuesTyped, appVars, statusVars, pipeVars, jobVars, pacerVars, semaphoreVars
<1>0. QueuesTyped /\ WordsTyped
  BY TypeParts
<1>1. CASE SubmitPresent
  <2>1. frame + 1 \in 1 .. MaxFrames /\ backbuffer \in Indices
    BY <1>0, <1>1 DEF SubmitPresent, QueueShape, WordsTyped
  <2>2. [frame |-> frame', image |-> backbuffer] \in Presents
    BY <1>1, <2>1 DEF SubmitPresent, Presents
  <2> QED BY <1>0, <1>1, <2>2, ElementsAppend DEF SubmitPresent
<1>2. CASE CsPresent
  <2>1. Head(csQueue) \in Presents /\ Tail(csQueue) \in Seq(Presents)
    BY <1>0, <1>2, ElementsTail DEF CsPresent
  <2> QED BY <1>0, <1>2, <2>1, ElementsAppend DEF CsPresent
<1>3. CASE SubmitRefused
  BY <1>0, <1>3, ElementsTail DEF SubmitRefused
<1>4. CASE SubmitPushes
  <2>1. Head(submitQueue) \in Presents /\ Tail(submitQueue) \in Seq(Presents)
    BY <1>0, <1>4, ElementsTail DEF SubmitPushes, QueueShape
  <2> QED BY <1>0, <1>4, <2>1, ElementsAppend DEF SubmitPushes
<1>5. CASE JobPaces
  <2>1. [value |-> pace, count |-> count] \in PacerJob
    BY <1>0 DEF WordsTyped, PacerJob
  <2> QED BY <1>0, <1>5, <2>1, ElementsAppend DEF JobPaces
<1>6. CASE JobFinishes
  <2>1. Tail(jobs) \in Seq(Presents)
    BY <1>0, <1>6, ElementsTail DEF JobFinishes, JobShape
  <2> QED BY <1>0, <1>6, <2>1 DEF JobFinishes
<1>7. CASE PacerPops
  <2>1. Tail(pacerJobs) \in Seq(PacerJob)
    BY <1>0, <1>7, ElementsTail DEF PacerPops, QueueShape
  <2> QED BY <1>0, <1>7, <2>1 DEF PacerPops
<1>8. CASE UNCHANGED <<csQueue, submitQueue, jobs, pacerJobs>>
  BY <1>0, <1>8
<1> QED BY <1>1, <1>2, <1>3, <1>4, <1>5, <1>6, <1>7, <1>8
   DEF Next, AppStep, SubmitStep, PresentStep, PacerStep, PresentImage, SynchronizePresent, AcquireFails,
       AcquireReturns, RecreateSwapChain, SynchronizeJobs, SynchronizeGap, SynchronizeSleeps,
       SynchronizeAgain, RecreateBegin, RecreateEnd, RecreateFails, AcquireNextImage, SubmitMarks,
       SubmitStores, JobDropped,
       JobInterpolates, JobPresentsFirst, JobPresentsNext, JobAcquires, JobPresents, PacerSignals,
       JobBegins, vars

LEMMA WordsNext ==
  ASSUME TypeOK, JobShape, QueueShape, [Next]_vars
  PROVE  WordsTyped'
<1> USE DEF WordsTyped, Outcomes, appVars, statusVars, pipeVars, jobVars, pacerVars, semaphoreVars
<1>0. QueuesTyped /\ WordsTyped
  BY TypeParts
<1> DEFINE front(q) == Head(q).frame \in 0 .. MaxFrames /\ Head(q).image \in Indices
<1>a. \A q \in Seq(Presents) : q # <<>> => front(q)
  BY ElementsTail, PresentFields
<1>b. /\ csQueue # <<>> => front(csQueue)
      /\ submitQueue # <<>> => front(submitQueue)
      /\ jobs # <<>> => front(jobs)
  BY <1>0, <1>a DEF QueuesTyped
<1>c. (backbuffer + 1) % Images \in Indices /\ 0 \in Indices
  BY <1>0, NextIndex DEF Indices
<1>d. app # "run" => frame + 1 \in 0 .. MaxFrames
  BY <1>0 DEF QueueShape
<1>e. \A a, b \in Nat : Larger(a, b) \in Nat
  BY DEF Larger
<1>f. Awaited \in Nat
  BY <1>0, <1>e DEF Awaited
<1>g. pacerJobs # <<>> => Larger(signalled, Head(pacerJobs).value + Head(pacerJobs).count) \in Nat
  <2>1. \A j \in PacerJob : j.value + j.count \in Nat
    BY DEF PacerJob
  <2> QED BY <1>0, <1>e, <2>1, ElementsTail DEF QueuesTyped
<1> HIDE DEF front
<1>1. CASE PresentImage
  BY <1>0, <1>1 DEF PresentImage
<1>2. CASE SynchronizePresent
  BY <1>0, <1>2 DEF SynchronizePresent
<1>3. CASE AcquireFails
  BY <1>0, <1>3 DEF AcquireFails
<1>4. CASE AcquireReturns
  BY <1>0, <1>4 DEF AcquireReturns
<1>5. CASE RecreateSwapChain
  BY <1>0, <1>5 DEF RecreateSwapChain
<1>6. CASE SynchronizeJobs
  BY <1>0, <1>6 DEF SynchronizeJobs
<1>7. CASE SynchronizeGap
  BY <1>0, <1>7 DEF SynchronizeGap
<1>8. CASE SynchronizeSleeps
  BY <1>0, <1>8 DEF SynchronizeSleeps
<1>9. CASE SynchronizeAgain
  BY <1>0, <1>9 DEF SynchronizeAgain
<1>10. CASE RecreateBegin
  BY <1>0, <1>10 DEF RecreateBegin
<1>11. CASE RecreateEnd
  BY <1>0, <1>11, <1>c DEF RecreateEnd
<1>12. CASE AcquireNextImage
  BY <1>0, <1>12, <1>c DEF AcquireNextImage
<1>13. CASE SubmitPresent
  BY <1>0, <1>13, <1>d DEF SubmitPresent
<1>14. CASE CsPresent
  BY <1>0, <1>14, <1>b DEF CsPresent, front
<1>15. CASE SubmitRefused
  BY <1>0, <1>15, <1>b DEF SubmitRefused, front
<1>16. CASE SubmitMarks
  BY <1>0, <1>16, <1>b DEF SubmitMarks, front
<1>30. CASE SubmitStores
  BY <1>0, <1>30 DEF SubmitStores
<1>31. CASE RecreateFails
  BY <1>0, <1>31 DEF RecreateFails
<1>17. CASE SubmitPushes
  BY <1>0, <1>17, <1>b DEF SubmitPushes, front, QueueShape
<1>18. CASE JobDropped
  BY <1>0, <1>18 DEF JobDropped
<1>19. CASE JobInterpolates
  BY <1>0, <1>19 DEF JobInterpolates, JobShape
<1>20. CASE JobPresentsFirst
  BY <1>0, <1>20 DEF JobPresentsFirst, JobShape
<1>21. CASE JobPaces
  BY <1>0, <1>21 DEF JobPaces
<1>22. CASE JobPresentsNext
  BY <1>0, <1>22, <1>f DEF JobPresentsNext
<1>23. CASE JobAcquires
  BY <1>0, <1>23 DEF JobAcquires
<1>24. CASE JobPresents
  BY <1>0, <1>24, <1>f DEF JobPresents
<1>25. CASE JobFinishes
  <2>1. jobs # <<>>
    BY <1>25 DEF JobFinishes, JobShape
  <2>2. Head(jobs).frame \in 0 .. MaxFrames /\ inFlight \ {Head(jobs).image} \subseteq Indices
    BY <1>0, <1>b, <2>1 DEF front
  <2>3. /\ statusOf' \in 0 .. MaxFrames /\ inFlight' \subseteq Indices
        /\ status' \in {"success", "failed", "queued", "notready"}
    BY <1>0, <1>25, <2>2 DEF JobFinishes
  <2>4. /\ presenter' = "idle" /\ count' = 0 /\ shown' = 0 /\ metered' = FALSE /\ pace' = 0
        /\ UNCHANGED <<app, round, frame, backbuffer, hasty, submitter, refused, lastStatus, pacer, signalled,
                       nextValue, awaited>>
    BY <1>25 DEF JobFinishes
  <2>5. 0 \in 0 .. Interpolated /\ 0 \in Nat
    OBVIOUS
  <2> QED BY <1>0, <2>3, <2>4, <2>5
<1>26. CASE PacerSignals
  BY <1>0, <1>26, <1>g DEF PacerSignals
<1>27. CASE PacerPops
  BY <1>0, <1>27 DEF PacerPops
<1>28. ASSUME NEW n \in 0 .. Interpolated, NEW d \in BOOLEAN, JobBegins(n, d) PROVE WordsTyped'
  BY <1>0, <1>28 DEF JobBegins
<1>29. CASE UNCHANGED vars
  BY <1>0, <1>29 DEF vars
<1> QED BY <1>1, <1>2, <1>3, <1>4, <1>5, <1>6, <1>7, <1>8, <1>9, <1>10, <1>11, <1>12, <1>13, <1>14, <1>15,
     <1>16, <1>17, <1>18, <1>19, <1>20, <1>21, <1>22, <1>23, <1>24, <1>25, <1>26, <1>27, <1>28, <1>29, <1>30, <1>31 DEF Next,
     AppStep, SubmitStep, PresentStep, PacerStep

LEMMA TypeNext ==
  ASSUME TypeOK, JobShape, QueueShape, [Next]_vars
  PROVE  TypeOK'
<1>1. QueuesTyped' /\ WordsTyped'
  BY QueuesNext, WordsNext
<1> QED BY <1>1 DEF TypeOK, QueuesTyped, WordsTyped, PacerJob

----------------------------------------------------------------------------
(* How far the threads are. *)

\* Only a step that ends with the presenter at work says anything new of its job.
LEMMA JobShapeNext ==
  ASSUME TypeOK, JobShape, QueueShape, [Next]_vars
  PROVE  JobShape'
<1> USE DEF JobShape, appVars, statusVars, pipeVars, jobVars, pacerVars, semaphoreVars
<1>0. QueuesTyped /\ WordsTyped
  BY TypeParts
<1>1. CASE SubmitPushes
  <2>1. Head(submitQueue) \in Presents
    BY <1>0, <1>1, ElementsTail DEF SubmitPushes, QueueShape, QueuesTyped
  <2>2. jobs' # <<>>
    BY <1>0, <1>1, <2>1, ElementsAppend DEF SubmitPushes, QueuesTyped
  <2> QED BY <1>1, <2>2 DEF SubmitPushes
<1>2. ASSUME NEW n \in 0 .. Interpolated, NEW d \in BOOLEAN, JobBegins(n, d) PROVE JobShape'
  <2>1. jobs' # <<>> /\ count' = n /\ shown' = 0
    BY <1>2 DEF JobBegins
  <2>2. CASE n = 0
    <3>1. presenter' = "rendered" /\ metered'
      BY <1>2, <2>2 DEF JobBegins
    <3> QED BY <2>1, <3>1
  <2>3. CASE n # 0
    <3>1. presenter' = "interpolate"
      BY <1>2, <2>3 DEF JobBegins
    <3> QED BY <2>1, <2>3, <3>1
  <2> QED BY <2>2, <2>3
<1>3. CASE JobInterpolates
  BY <1>0, <1>3 DEF JobInterpolates, WordsTyped
<1>4. CASE JobPresentsFirst
  BY <1>0, <1>4 DEF JobPresentsFirst, WordsTyped
<1>5. CASE JobPaces
  BY <1>0, <1>5 DEF JobPaces, WordsTyped
<1>6. CASE JobPresentsNext
  BY <1>0, <1>6 DEF JobPresentsNext, WordsTyped
<1>7. CASE JobAcquires
  BY <1>0, <1>7 DEF JobAcquires, WordsTyped
<1>8. CASE JobDropped \/ JobPresents
  BY <1>8 DEF JobDropped, JobPresents
<1>9. CASE JobFinishes
  BY <1>9 DEF JobFinishes
<1>10. CASE UNCHANGED <<jobs, jobVars>>
  BY <1>10
<1> QED BY <1>1, <1>2, <1>3, <1>4, <1>5, <1>6, <1>7, <1>8, <1>9, <1>10
   DEF Next, AppStep, SubmitStep, PresentStep, PacerStep, PresentImage, SynchronizePresent, AcquireFails,
       AcquireNextImage, AcquireReturns, SubmitPresent, RecreateSwapChain, SynchronizeJobs, SynchronizeGap,
       SynchronizeSleeps, SynchronizeAgain, RecreateBegin, RecreateEnd, RecreateFails, CsPresent,
       SubmitRefused, SubmitStores, SubmitMarks,
       PacerSignals, PacerPops, vars

\* While the swap chain recreates, nobody begins a job.
LEMMA IdleNext ==
  ASSUME TypeOK, JobShape, QueueShape, RecreateIsIdle, [Next]_vars
  PROVE  RecreateIsIdle'
<1> USE DEF RecreateIsIdle, appVars, statusVars, pipeVars, jobVars, pacerVars, semaphoreVars
<1>1. CASE RecreateBegin
  BY <1>1 DEF RecreateBegin, Synchronized, Unlocked, QueueShape, TypeOK
<1>2. CASE app' # "recreating"
  BY <1>2
<1>3. CASE app = "recreating" /\ ~RecreateEnd /\ ~RecreateFails
  BY <1>3 DEF Next, AppStep, SubmitStep, PresentStep, PacerStep, PresentImage, SynchronizePresent, AcquireFails,
       AcquireNextImage, AcquireReturns, SubmitPresent, RecreateSwapChain, SynchronizeJobs, SynchronizeGap,
       SynchronizeSleeps, SynchronizeAgain, RecreateBegin, Synchronized, CsPresent, SubmitRefused,
       SubmitStores, SubmitMarks,
       SubmitPushes, JobDropped, JobBegins, JobInterpolates, JobPresentsFirst, JobPaces, JobPresentsNext,
       JobAcquires, JobPresents, JobFinishes, PacerSignals, PacerPops, Unlocked, vars
<1>4. CASE app # "recreating" /\ app' = "recreating" /\ ~RecreateBegin
  BY <1>4 DEF Next, AppStep, SubmitStep, PresentStep, PacerStep, PresentImage, SynchronizePresent, AcquireFails,
       AcquireNextImage, AcquireReturns, SubmitPresent, RecreateSwapChain, SynchronizeJobs, SynchronizeGap,
       SynchronizeSleeps, SynchronizeAgain, Synchronized, CsPresent, SubmitRefused, SubmitStores, SubmitMarks,
       SubmitPushes, JobDropped, JobBegins, JobInterpolates, JobPresentsFirst, JobPaces, JobPresentsNext,
       JobAcquires, JobPresents, JobFinishes, PacerSignals, PacerPops, RecreateEnd, RecreateFails, vars
<1>5. CASE RecreateEnd \/ RecreateFails
  BY <1>5 DEF RecreateEnd, RecreateFails
<1> QED BY <1>1, <1>2, <1>3, <1>4, <1>5

\* Only SubmitPresent adds a frame.
LEMMA PendingShrinks ==
  ASSUME TypeOK, JobShape, QueueShape, [Next]_vars, ~SubmitPresent
  PROVE  Pending' \subseteq Pending /\ frame' = frame
<1> USE DEF appVars, statusVars, pipeVars, jobVars, pacerVars, semaphoreVars
<1>0. QueuesTyped
  BY TypeParts
<1>1. CASE CsPresent
  <2>1. /\ Elements(csQueue) = {Head(csQueue)} \cup Elements(csQueue')
        /\ Head(csQueue) \in Presents
    BY <1>0, <1>1, ElementsTail DEF CsPresent, QueuesTyped
  <2>2. Elements(submitQueue') = Elements(submitQueue) \cup {Head(csQueue)}
    BY <1>0, <1>1, <2>1, ElementsAppend DEF CsPresent, QueuesTyped
  <2> QED BY <1>1, <2>1, <2>2 DEF CsPresent, Pending
<1>2. CASE SubmitRefused
  <2>1. Elements(submitQueue') \subseteq Elements(submitQueue)
    BY <1>0, <1>2, ElementsTail DEF SubmitRefused, QueuesTyped
  <2> QED BY <1>2, <2>1 DEF SubmitRefused, Pending
<1>3. CASE SubmitPushes
  <2>1. /\ Elements(submitQueue) = {Head(submitQueue)} \cup Elements(submitQueue')
        /\ Head(submitQueue) \in Presents
    BY <1>0, <1>3, ElementsTail DEF SubmitPushes, QueueShape, QueuesTyped
  <2>2. Elements(jobs') = Elements(jobs) \cup {Head(submitQueue)}
    BY <1>0, <1>3, <2>1, ElementsAppend DEF SubmitPushes, QueuesTyped
  <2> QED BY <1>3, <2>1, <2>2 DEF SubmitPushes, Pending
<1>4. CASE JobFinishes
  <2>1. Elements(jobs') \subseteq Elements(jobs)
    BY <1>0, <1>4, ElementsTail DEF JobFinishes, JobShape, QueuesTyped
  <2> QED BY <1>4, <2>1 DEF JobFinishes, Pending
<1>5. CASE UNCHANGED <<csQueue, submitQueue, jobs, frame>>
  BY <1>5 DEF Pending
<1> QED BY <1>1, <1>2, <1>3, <1>4, <1>5
   DEF Next, AppStep, SubmitStep, PresentStep, PacerStep, PresentImage, SynchronizePresent, AcquireFails,
       AcquireNextImage, AcquireReturns, SubmitPresent, RecreateSwapChain, SynchronizeJobs, SynchronizeGap,
       SynchronizeSleeps, SynchronizeAgain, RecreateBegin, RecreateEnd, RecreateFails, Synchronized,
       SubmitStores, SubmitMarks, JobDropped, JobBegins, JobInterpolates, JobPresentsFirst, JobPaces,
       JobPresentsNext, JobAcquires, JobPresents, PacerSignals, PacerPops, vars

LEMMA QueueShapeNext ==
  ASSUME TypeOK, JobShape, QueueShape, RecreateIsIdle, [Next]_vars
  PROVE  QueueShape'
<1> USE DEF QueueShape, appVars, statusVars, pipeVars, jobVars, pacerVars, semaphoreVars
<1>0. QueuesTyped /\ WordsTyped
  BY TypeParts
<1>1. submitter' = "marked" => submitQueue' # <<>>
  <2>1. CASE CsPresent
    BY <1>0, <2>1, ElementsTail, ElementsAppend DEF CsPresent, QueuesTyped
  <2>2. CASE SubmitPushes \/ SubmitRefused \/ SubmitStores \/ SubmitMarks
    BY <2>2 DEF SubmitPushes, SubmitRefused, SubmitStores, SubmitMarks
  <2>3. CASE UNCHANGED <<submitter, submitQueue>>
    BY <2>3
  <2> QED BY <2>1, <2>2, <2>3 DEF Next, AppStep, SubmitStep, PresentStep, PacerStep, PresentImage,
       SynchronizePresent, AcquireFails,
       AcquireNextImage, AcquireReturns, SubmitPresent, RecreateSwapChain, SynchronizeJobs, SynchronizeGap,
       SynchronizeSleeps, SynchronizeAgain, RecreateBegin, RecreateEnd, RecreateFails, 
       JobDropped, JobBegins, JobInterpolates, JobPresentsFirst, JobPaces, JobPresentsNext,
       JobAcquires, JobPresents, JobFinishes, PacerSignals, PacerPops, vars
<1>2. pacer' = "signalled" => pacerJobs' # <<>>
  <2>1. CASE JobPaces
    <3>1. [value |-> pace, count |-> count] \in PacerJob
      BY <1>0 DEF WordsTyped, PacerJob
    <3>2. Len(pacerJobs) \in Nat /\ Len(pacerJobs') = Len(pacerJobs) + 1
      BY <1>0, <2>1, <3>1, ElementsAppend DEF JobPaces, QueuesTyped
    <3> QED BY <3>2
  <2>2. CASE PacerSignals \/ PacerPops
    BY <2>2 DEF PacerSignals, PacerPops
  <2>3. CASE UNCHANGED <<pacerJobs, pacer>>
    BY <2>3
  <2> QED BY <2>1, <2>2, <2>3
     DEF Next, AppStep, SubmitStep, PresentStep, PacerStep, PresentImage, SynchronizePresent, AcquireFails,
       AcquireNextImage, AcquireReturns, SubmitPresent, RecreateSwapChain, SynchronizeJobs, SynchronizeGap,
       SynchronizeSleeps, SynchronizeAgain, RecreateBegin, RecreateEnd, RecreateFails, Synchronized,
       CsPresent, SubmitRefused, SubmitStores,
       SubmitMarks, SubmitPushes, JobDropped, JobBegins, JobInterpolates, JobPresentsFirst, 
       JobPresentsNext, JobAcquires, JobPresents, JobFinishes, vars
<1>3. app' # "run" => frame' < MaxFrames
  <2>1. CASE PresentImage
    BY <2>1 DEF PresentImage
  <2>2. CASE app # "run" /\ UNCHANGED frame
    BY <2>2
  <2>3. CASE UNCHANGED <<app, frame>>
    BY <2>3
  <2>4. CASE SubmitPresent
    BY <2>4 DEF SubmitPresent
  <2>5. CASE PacerPops
    BY <2>5 DEF PacerPops
  <2> QED BY <2>1, <2>2, <2>3, <2>4, <2>5
     DEF Next, AppStep, SubmitStep, PresentStep, PacerStep, SynchronizePresent, AcquireFails,
       AcquireNextImage, AcquireReturns, RecreateSwapChain, SynchronizeJobs, SynchronizeGap,
       SynchronizeSleeps, SynchronizeAgain, RecreateBegin, RecreateEnd, RecreateFails, Synchronized,
       CsPresent, SubmitRefused, SubmitStores,
       SubmitMarks, SubmitPushes, JobDropped, JobBegins, JobInterpolates, JobPresentsFirst, JobPaces,
       JobPresentsNext, JobAcquires, JobPresents, JobFinishes, PacerSignals, vars
<1>4. \A p \in Pending' : p.frame <= frame'
  <2>1. CASE SubmitPresent
    <3> DEFINE new == [frame |-> frame', image |-> backbuffer]
    <3>1. frame' = frame + 1 /\ frame + 1 \in 1 .. MaxFrames /\ backbuffer \in Indices /\ new.frame = frame'
      BY <1>0, <2>1 DEF SubmitPresent, WordsTyped
    <3>2. new \in Presents
      BY <3>1 DEF Presents
    <3>3. csQueue' = Append(csQueue, new) /\ submitQueue' = submitQueue /\ jobs' = jobs
      BY <2>1 DEF SubmitPresent
    <3> HIDE DEF new
    <3>4. Elements(csQueue)' = Elements(csQueue) \cup {new}
      BY <1>0, <3>2, <3>3, ElementsAppend DEF QueuesTyped
    <3>5. Pending' = Pending \cup {new}
      BY <3>3, <3>4 DEF Pending
    <3>6. \A p \in Pending : p.frame \in Nat
      BY <1>0, ElementsIn, PresentFields DEF Pending, QueuesTyped
    <3> QED BY <1>0, <3>1, <3>5, <3>6 DEF WordsTyped
  <2>2. ~SubmitPresent => Pending' \subseteq Pending /\ frame' = frame
    BY PendingShrinks
  <2> QED BY <2>1, <2>2
<1> QED BY <1>1, <1>2, <1>3, <1>4
----------------------------------------------------------------------------
(* The pacer. *)

LEMMA PacerJobFields ==
  ASSUME TypeOK, NEW i \in 1 .. Len(pacerJobs)
  PROVE  pacerJobs[i].value \in Nat /\ pacerJobs[i].count \in Nat
<1>1. pacerJobs \in Seq(PacerJob)
  BY TypeParts DEF QueuesTyped
<1>2. pacerJobs[i] \in PacerJob
  BY <1>1
<1>3. \A j \in PacerJob : j.value \in Nat /\ j.count \in Nat
  BY DEF PacerJob
<1> QED BY <1>2, <1>3

LEMMA CoveredBelow ==
  ASSUME TypeOK, NEW v \in Nat, NEW w \in Nat, w <= v, Covered(v)
  PROVE  Covered(w)
<1>0. pacerJobs \in Seq(PacerJob) /\ signalled \in Nat
  BY TypeParts DEF QueuesTyped, WordsTyped
<1>1. CASE v <= signalled
  BY <1>0, <1>1 DEF Covered
<1>2. ASSUME NEW i \in 1 .. Len(pacerJobs), v <= pacerJobs[i].value + pacerJobs[i].count PROVE Covered(w)
  <2>1. pacerJobs[i].value \in Nat /\ pacerJobs[i].count \in Nat
    BY <1>2, PacerJobFields
  <2>2. w <= pacerJobs[i].value + pacerJobs[i].count
    BY <1>2, <2>1
  <2> QED BY <2>2 DEF Covered
<1> QED BY <1>1, <1>2 DEF Covered

\* What the pacer is given covers what it names.
LEMMA PacedCovers ==
  ASSUME TypeOK, JobPaces, NEW v \in Nat
  PROVE  /\ Covered(v) => Covered(v)'
         /\ v <= pace + count => Covered(v)'
         /\ pacerJobs # <<>> => pacerJobs'[1] = pacerJobs[1]
<1> DEFINE j == [value |-> pace, count |-> count]
<1>0. QueuesTyped /\ WordsTyped
  BY TypeParts
<1>1. j \in PacerJob /\ j.value = pace /\ j.count = count
  BY <1>0 DEF WordsTyped, PacerJob
<1>2. pacerJobs' = Append(pacerJobs, j) /\ signalled' = signalled
  BY DEF JobPaces
<1> HIDE DEF j
<1>3. /\ Len(pacerJobs) \in Nat /\ Len(pacerJobs') = Len(pacerJobs) + 1
      /\ \A i \in 1 .. Len(pacerJobs) : pacerJobs'[i] = pacerJobs[i]
      /\ pacerJobs'[Len(pacerJobs) + 1] = j
  BY <1>0, <1>1, <1>2, ElementsAppend DEF QueuesTyped
<1>4. \A i \in 1 .. Len(pacerJobs) : i \in 1 .. Len(pacerJobs')
  BY <1>3
<1>5. Len(pacerJobs) + 1 \in 1 .. Len(pacerJobs')
  BY <1>3
<1>6. Covered(v) => Covered(v)'
  BY <1>2, <1>3, <1>4 DEF Covered
<1>7. v <= pace + count => Covered(v)'
  BY <1>1, <1>3, <1>5 DEF Covered
<1>8. pacerJobs # <<>> => 1 \in 1 .. Len(pacerJobs)
  BY <1>0 DEF QueuesTyped
<1> QED BY <1>3, <1>6, <1>7, <1>8

LEMMA CoveredStays ==
  ASSUME TypeOK, JobShape, QueueShape, PacerInv, [Next]_vars, NEW v \in Nat, Covered(v)
  PROVE  Covered(v)'
<1> USE DEF appVars, statusVars, pipeVars, jobVars, pacerVars, semaphoreVars
<1>0. pacerJobs \in Seq(PacerJob) /\ signalled \in Nat
  BY TypeParts DEF QueuesTyped, WordsTyped
<1>1. CASE JobPaces
  BY <1>1, PacedCovers
<1>2. CASE PacerSignals
  <2>1. Head(pacerJobs) \in PacerJob
    BY <1>0, <1>2, ElementsTail DEF PacerSignals
  <2>2. Head(pacerJobs).value + Head(pacerJobs).count \in Nat
    BY <2>1 DEF PacerJob
  <2>3. signalled <= signalled' /\ signalled' \in Nat /\ pacerJobs' = pacerJobs
    BY <1>0, <1>2, <2>2 DEF PacerSignals, Larger
  <2>4. v <= signalled => v <= signalled'
    BY <1>0, <2>3
  <2> QED BY <2>3, <2>4 DEF Covered
<1>3. CASE PacerPops
  <2>1. pacerJobs # <<>> /\ signalled' = signalled /\ pacerJobs' = Tail(pacerJobs)
    BY <1>3 DEF PacerPops, QueueShape
  <2>2. /\ Len(pacerJobs) \in Nat /\ Len(pacerJobs') = Len(pacerJobs) - 1
        /\ \A i \in 1 .. Len(pacerJobs') : pacerJobs'[i] = pacerJobs[i + 1]
    BY <1>0, <2>1, ElementsTail
  <2>3. pacerJobs[1].value + pacerJobs[1].count <= signalled
    BY <1>3 DEF PacerPops, PacerInv
  <2>4. CASE v <= signalled
    BY <2>1, <2>4 DEF Covered
  <2>5. ASSUME NEW i \in 1 .. Len(pacerJobs), v <= pacerJobs[i].value + pacerJobs[i].count
        PROVE  Covered(v)'
    <3>1. CASE i = 1
      <4>1. pacerJobs[1].value \in Nat /\ pacerJobs[1].count \in Nat
        BY <2>5, <3>1, PacerJobFields
      <4>2. v <= signalled
        BY <1>0, <2>3, <2>5, <3>1, <4>1
      <4> QED BY <2>4, <4>2
    <3>2. CASE i # 1
      <4>1. i - 1 \in 1 .. Len(pacerJobs') /\ i = (i - 1) + 1
        BY <2>2, <3>2
      <4>2. pacerJobs'[i - 1] = pacerJobs[i]
        BY <2>2, <4>1
      <4> QED BY <2>5, <4>1, <4>2 DEF Covered
    <3> QED BY <3>1, <3>2
  <2> QED BY <2>4, <2>5 DEF Covered
<1>4. CASE UNCHANGED <<pacerJobs, signalled>>
  BY <1>4 DEF Covered
<1> QED BY <1>1, <1>2, <1>3, <1>4
   DEF Next, AppStep, SubmitStep, PresentStep, PacerStep, PresentImage, SynchronizePresent, AcquireFails,
       AcquireNextImage, AcquireReturns, SubmitPresent, RecreateSwapChain, SynchronizeJobs, SynchronizeGap,
       SynchronizeSleeps, SynchronizeAgain, RecreateBegin, RecreateEnd, RecreateFails, Synchronized,
       CsPresent, SubmitRefused, SubmitStores,
       SubmitMarks, SubmitPushes, JobDropped, JobBegins, JobInterpolates, JobPresentsFirst, JobPresentsNext,
       JobAcquires, JobPresents, JobFinishes, vars

\* What a paced present waits for is covered by what its job gave to the pacer.
LEMMA AwaitedCovered ==
  ASSUME TypeOK, JobShape, PacerInv, presenter \in {"next", "present"}
  PROVE  Covered(Awaited)
<1>0. WordsTyped
  BY TypeParts
<1>1. CASE metered
  BY <1>1 DEF PacerInv, Awaited
<1>2. CASE ~metered
  <2>1. count \in Nat /\ shown \in Nat /\ shown <= count /\ pace \in Nat /\ awaited \in Nat
    BY <1>0, <1>2 DEF WordsTyped, JobShape
  <2>2. pace + (count - shown) + 1 \in Nat /\ pace + 1 \in Nat /\ pace + 1 <= pace + (count - shown) + 1
    BY <2>1
  <2>3. Covered(pace + 1)
    BY <1>2, <2>2, CoveredBelow DEF PacerInv
  <2> QED BY <1>2, <2>1, <2>3 DEF Awaited, Larger, PacerInv
<1> QED BY <1>1, <1>2

LEMMA PacerInvNext ==
  ASSUME TypeOK, JobShape, QueueShape, PacerInv, [Next]_vars
  PROVE  PacerInv'
<1> USE DEF appVars, statusVars, pipeVars, jobVars, pacerVars, semaphoreVars
<1>0. QueuesTyped /\ WordsTyped
  BY TypeParts
<1>1. pacer' = "signalled" => pacerJobs'[1].value + pacerJobs'[1].count <= signalled'
  <2>1. CASE JobPaces
    <3>1. pacer' = "signalled" => pacerJobs'[1] = pacerJobs[1] /\ signalled' = signalled /\ pacer' = pacer
      BY <2>1, PacedCovers, QueueShape DEF JobPaces, QueueShape
    <3> QED BY <3>1 DEF PacerInv
  <2>2. CASE PacerSignals
    <3>1. Head(pacerJobs) \in PacerJob /\ Head(pacerJobs) = pacerJobs[1]
      BY <1>0, <2>2, ElementsTail DEF PacerSignals, QueuesTyped
    <3>2. Head(pacerJobs).value + Head(pacerJobs).count \in Nat /\ signalled \in Nat
      BY <1>0, <3>1 DEF PacerJob, WordsTyped
    <3>3. pacerJobs[1].value + pacerJobs[1].count <= signalled'
      BY <2>2, <3>1, <3>2 DEF PacerSignals, Larger
    <3> QED BY <2>2, <3>3 DEF PacerSignals
  <2>3. CASE PacerPops
    BY <2>3 DEF PacerPops
  <2>4. CASE UNCHANGED <<pacerJobs, pacer, signalled>>
    BY <2>4 DEF PacerInv
  <2> QED BY <2>1, <2>2, <2>3, <2>4
     DEF Next, AppStep, SubmitStep, PresentStep, PacerStep, PresentImage, SynchronizePresent, AcquireFails,
       AcquireNextImage, AcquireReturns, SubmitPresent, RecreateSwapChain, SynchronizeJobs, SynchronizeGap,
       SynchronizeSleeps, SynchronizeAgain, RecreateBegin, RecreateEnd, RecreateFails, Synchronized,
       CsPresent, SubmitRefused, SubmitStores,
       SubmitMarks, SubmitPushes, JobDropped, JobBegins, JobInterpolates, JobPresentsFirst, JobPresentsNext,
       JobAcquires, JobPresents, JobFinishes, vars
<1>2. Covered(awaited)'
  <2>1. awaited \in Nat /\ Awaited \in Nat
    BY <1>0 DEF WordsTyped, Awaited, Larger
  <2>2. awaited' = awaited \/ (awaited' = Awaited /\ presenter \in {"next", "present"})
    BY DEF JobPaces, JobPresentsNext, JobAcquires, JobPresents, PacerSignals, PacerPops, Next, AppStep,
         SubmitStep, PresentStep, PacerStep, PresentImage, SynchronizePresent, AcquireFails,
       AcquireNextImage, AcquireReturns, SubmitPresent, RecreateSwapChain, SynchronizeJobs, SynchronizeGap,
       SynchronizeSleeps, SynchronizeAgain, RecreateBegin, RecreateEnd, RecreateFails, Synchronized,
       CsPresent, SubmitRefused, SubmitStores,
       SubmitMarks, SubmitPushes, JobDropped, JobBegins, JobInterpolates, JobPresentsFirst, JobFinishes, vars
  <2>3. awaited' \in Nat /\ Covered(awaited')
    BY <2>1, <2>2, AwaitedCovered DEF PacerInv
  <2>4. PICK v \in Nat : v = awaited'
    BY <2>3
  <2>5. Covered(v)'
    BY <2>3, <2>4, CoveredStays
  <2> QED BY <2>4, <2>5 DEF Covered
<1>3. presenter' \in {"next", "present"} /\ ~metered' => Covered(pace + (count - shown) + 1)'
  <2> SUFFICES ASSUME presenter' \in {"next", "present"}, ~metered' PROVE Covered(pace + (count - shown) + 1)'
    OBVIOUS
  <2> DEFINE v == pace + (count - shown) + 1
  <2>1. CASE JobPaces
    <3>1. shown = 1 /\ count \in Nat /\ pace \in Nat
      BY <1>0, <2>1 DEF JobPaces, JobShape, WordsTyped
    <3>2. v' = pace + count /\ v' \in Nat
      BY <2>1, <3>1 DEF JobPaces
    <3>3. PICK w \in Nat : w = v'
      BY <3>2
    <3>4. Covered(w)'
      BY <2>1, <3>1, <3>2, <3>3, PacedCovers
    <3> QED BY <3>3, <3>4 DEF Covered
  <2>2. CASE ~JobPaces
    <3>1. /\ presenter \in {"next", "present"} \/ (presenter = "rendered" /\ UNCHANGED metered)
          /\ ~metered /\ UNCHANGED count
          /\ (UNCHANGED <<pace, shown>>) \/ (presenter = "next" /\ shown < count /\ shown' = shown + 1
                                         /\ pace' \in {pace, pace + 1})
      BY <2>2 DEF JobPaces, JobPresentsNext, JobAcquires, JobPresents, PacerSignals, PacerPops, Next,
           AppStep, SubmitStep, PresentStep, PacerStep, PresentImage, SynchronizePresent, AcquireFails,
       AcquireNextImage, AcquireReturns, SubmitPresent, RecreateSwapChain, SynchronizeJobs, SynchronizeGap,
       SynchronizeSleeps, SynchronizeAgain, RecreateBegin, RecreateEnd, RecreateFails, Synchronized,
       CsPresent, SubmitRefused, SubmitStores,
       SubmitMarks, SubmitPushes, JobDropped, JobBegins, JobInterpolates, JobPresentsFirst, JobFinishes, vars
    <3>2. presenter \in {"next", "present"} /\ ~metered
      BY <3>1 DEF JobShape
    <3>3. count \in Nat /\ shown \in Nat /\ shown <= count /\ pace \in Nat
      BY <1>0, <3>2 DEF WordsTyped, JobShape
    <3>4. v \in Nat /\ v' \in Nat /\ v' <= v
      BY <3>1, <3>3
    <3>5. PICK w \in Nat : w = v'
      BY <3>4
    <3>6. Covered(w)
      BY <3>2, <3>4, <3>5, CoveredBelow DEF PacerInv
    <3>7. Covered(w)'
      BY <3>6, CoveredStays
    <3> QED BY <3>5, <3>7 DEF Covered
  <2> QED BY <2>1, <2>2
<1> QED BY <1>1, <1>2, <1>3 DEF PacerInv
----------------------------------------------------------------------------
(* The back buffers. *)

LEMMA ShortQueues ==
  ASSUME NEW s \in Seq(Presents)
  PROVE  /\ Len(s) \in Nat /\ (s = <<>> <=> Len(s) = 0) /\ (s = <<>> => Elements(s) = {})
         /\ Len(s) = 1 => Elements(s) = {s[1]}
         /\ Len(s) = 2 => Elements(s) = {s[1], s[2]}
         /\ \A i \in 1 .. Len(s) : s[i] \in Elements(s)
         /\ \A p \in Elements(s) : p.frame \in Nat /\ p.image \in Indices
<1>1. Len(s) \in Nat /\ (s = <<>> <=> Len(s) = 0)
  OBVIOUS
<1>2. \A p \in Elements(s) : p.frame \in Nat /\ p.image \in Indices
  BY ElementsIn, PresentFields
<1>3. \A n \in Nat : Len(s) = n => Elements(s) = {s[i] : i \in 1 .. n}
  BY DEF Elements
<1>4. 1 .. 0 = {} /\ 1 .. 1 = {1} /\ 1 .. 2 = {1, 2}
  OBVIOUS
<1>5. \A i \in 1 .. Len(s) : s[i] \in Elements(s)
  BY DEF Elements
<1>6. /\ Len(s) = 1 => Elements(s) = {s[1]}
      /\ Len(s) = 2 => Elements(s) = {s[1], s[2]}
      /\ Len(s) = 0 => Elements(s) = {}
  BY <1>3, <1>4
<1> QED BY <1>1, <1>2, <1>5, <1>6

\* What HandOver is about.
Hands == <<csQueue, submitQueue, submitter, refused, jobs, inFlight, frame, backbuffer, status, statusOf>>

LEMMA HandOverInit == Init => HandOver
<1> SUFFICES ASSUME Init PROVE OnItsWay /\ ImagesApart
  BY DEF HandOver
<1>1. Elements(<<>>) = {} /\ Len(<<>>) = 0
  BY DEF Elements
<1> QED BY <1>1 DEF Init, OnItsWay, ImagesApart, Settled, Between

\* The swap chain goes on to another part of the frame.
LEMMA HandOverKept ==
  ASSUME TypeOK, JobShape, OnItsWay, ImagesApart, UNCHANGED Hands,
         app' \notin {"run", "submission"} => csQueue = <<>> /\ Settled,
         app' = "recreating" => submitQueue = <<>> /\ jobs = <<>>,
         app' = "acquired" => backbuffer \notin inFlight,
         Between' <=> Between
  PROVE  OnItsWay' /\ ImagesApart'
<1>1. Settled' <=> Settled
  BY DEF Settled, Hands
<1>2. OnItsWay'
  BY <1>1 DEF OnItsWay, Hands
<1>3. ImagesApart'
  BY DEF ImagesApart, Hands
<1> QED BY <1>2, <1>3

LEMMA HandOverSubmits ==
  ASSUME TypeOK, QueueShape, OnItsWay, ImagesApart, SubmitPresent
  PROVE  OnItsWay' /\ ImagesApart'
<1>0. QueuesTyped /\ WordsTyped
  BY TypeParts
<1>1. frame' = frame + 1 /\ frame + 1 \in 1 .. MaxFrames /\ frame \in Nat /\ backbuffer \in Indices
  BY <1>0 DEF SubmitPresent, WordsTyped, QueueShape
<1>2. PICK new \in Presents : new.frame = frame + 1 /\ new.image = backbuffer /\ csQueue' = Append(csQueue, new)
  <2>1. [frame |-> frame', image |-> backbuffer] \in Presents
    BY <1>1 DEF Presents
  <2> QED BY <1>1, <2>1 DEF SubmitPresent
<1>3. /\ app = "acquired" /\ app' = "run" /\ status' = "notready"
      /\ UNCHANGED <<submitQueue, submitter, refused, jobs, inFlight, backbuffer>>
  BY DEF SubmitPresent
<1>4. csQueue = <<>> /\ Settled /\ ~Between /\ backbuffer \notin inFlight
  BY <1>3 DEF OnItsWay, ImagesApart, Between
<1>5. Len(csQueue') = 1 /\ csQueue'[1] = new /\ csQueue' # <<>> /\ Elements(csQueue)' = {new}
  <2>1. csQueue \in Seq(Presents) /\ Len(csQueue) = 0 /\ Elements(csQueue) = {}
    BY <1>0, <1>4, ShortQueues DEF QueuesTyped
  <2>2. /\ csQueue' \in Seq(Presents) /\ Len(csQueue') = 0 + 1 /\ csQueue'[0 + 1] = new
        /\ Elements(csQueue') = {} \cup {new}
    <3>1. /\ csQueue' \in Seq(Presents) /\ Elements(csQueue') = Elements(csQueue) \cup {new}
          /\ Len(csQueue') = Len(csQueue) + 1 /\ csQueue'[Len(csQueue) + 1] = new
      <4>1. csQueue \in Seq(Presents)
        BY <2>1
      <4>2. csQueue' = Append(csQueue, new)
        BY <1>2
      <4>3. csQueue' \in Seq(Presents)
        BY <4>1, <4>2, Appended
      <4>4. Elements(csQueue') = Elements(csQueue) \cup {new}
        <5>1. Elements(Append(csQueue, new)) = Elements(csQueue) \cup {new}
          BY <4>1, ElementsAppend
        <5> QED BY <4>2, <5>1
      <4>5. Len(csQueue') = Len(csQueue) + 1
        BY <4>1, <4>2, Appended
      <4>6. csQueue'[Len(csQueue) + 1] = new
        BY <4>1, <4>2, Appended
      <4> QED BY <4>3, <4>4, <4>5, <4>6
    <3> QED BY <2>1, <3>1
  <2>3. csQueue' # <<>>
    BY <2>2, ShortQueues
  <2> QED BY <2>2, <2>3
<1>6. /\ \A p \in Elements(submitQueue) : p.frame \in Nat /\ p.frame <= frame
      /\ \A p \in Elements(jobs) : p.frame \in Nat /\ p.frame <= frame
  BY <1>0, ShortQueues DEF QueueShape, Pending, QueuesTyped
<1>7. /\ submitQueue # <<>> => Len(submitQueue) = 1 /\ submitter = "marked" /\ submitQueue[1] \in Elements(submitQueue)
      /\ Len(submitQueue) \in Nat /\ (submitQueue = <<>> <=> Len(submitQueue) = 0)
  BY <1>0, <1>4, ShortQueues DEF QueuesTyped, Settled
<1>8. Settled'
  BY <1>3, <1>4 DEF Settled
<1>9. OnItsWay'
  <2>1. refused' = refused /\ (submitter' = "refused" => refused < frame')
    <3>1. refused' = refused /\ submitter' = submitter
      BY <1>3
    <3>2. submitter = "refused" => refused <= frame
      BY DEF OnItsWay
    <3>3. refused \in Nat
      BY <1>0 DEF WordsTyped
    <3> QED BY <1>1, <3>1, <3>2, <3>3
  <2>2. refused \in Nat
    BY <1>0 DEF WordsTyped
  <2> QED BY <1>1, <1>2, <1>3, <1>5, <1>6, <1>7, <1>8, <2>1, <2>2 DEF OnItsWay
<1>10. ImagesApart'
  <2>1. \A p \in Elements(submitQueue) : p.image # backbuffer
    BY <1>4 DEF ImagesApart
  <2>2. Between' /\ app' # "acquired" /\ (Elements(submitQueue))' = Elements(submitQueue)
        /\ (Elements(jobs))' = Elements(jobs)
    BY <1>3 DEF Between
  <2> QED BY <1>2, <1>3, <1>4, <1>5, <1>7, <2>1, <2>2 DEF ImagesApart
<1> QED BY <1>9, <1>10

LEMMA HandOverStreams ==
  ASSUME TypeOK, QueueShape, OnItsWay, ImagesApart, CsPresent
  PROVE  OnItsWay' /\ ImagesApart'
<1> DEFINE p == csQueue[1]
<1> HIDE DEF p
<1>0. QueuesTyped /\ WordsTyped
  BY TypeParts
<1>1. /\ csQueue # <<>> /\ Len(csQueue) = 1 /\ Head(csQueue) = p /\ p \in Presents
      /\ csQueue' = <<>> /\ Elements(csQueue) = {p} /\ Elements(csQueue)' = {}
  <2>1. csQueue # <<>> /\ csQueue' = Tail(csQueue)
    BY DEF CsPresent
  <2>2. Len(csQueue) = 1
    <3>1. Len(csQueue) <= 1
      BY DEF OnItsWay
    <3>2. Len(csQueue) \in Nat /\ Len(csQueue) # 0
      BY <1>0, <2>1, ShortQueues DEF QueuesTyped
    <3> QED BY <3>1, <3>2, OneLeft
  <2>3. csQueue' \in Seq(Presents) /\ Len(csQueue') = 0 /\ Head(csQueue) = p /\ p \in Presents
    BY <1>0, <2>1, <2>2, ElementsTail DEF QueuesTyped, p
  <2>4. csQueue' = <<>> /\ Elements(csQueue') = {}
    BY <2>3, ShortQueues
  <2> QED BY <1>0, <2>1, <2>2, <2>3, <2>4, ShortQueues DEF QueuesTyped, p
<1>2. p.frame = frame /\ Settled /\ p.image = backbuffer /\ app \in {"run", "submission"}
  BY <1>1 DEF OnItsWay, ImagesApart, p
<1>3. /\ status' = "notready"
      /\ UNCHANGED <<app, frame, backbuffer, submitter, refused, jobs, inFlight>>
  BY DEF CsPresent, appVars, jobVars
<1>4. /\ Len(submitQueue) \in Nat /\ (submitQueue = <<>> <=> Len(submitQueue) = 0)
      /\ submitQueue' # <<>> /\ Len(submitQueue') = Len(submitQueue) + 1
      /\ Elements(submitQueue)' = Elements(submitQueue) \cup {p}
      /\ submitQueue'[Len(submitQueue')] = p
      /\ Len(submitQueue) = 1 => submitQueue'[1] = submitQueue[1]
  <2>1. submitQueue' = Append(submitQueue, p) /\ submitQueue \in Seq(Presents)
    BY <1>0, <1>1 DEF CsPresent, QueuesTyped
  <2>2. submitQueue' \in Seq(Presents) /\ Len(submitQueue') = Len(submitQueue) + 1 /\ Len(submitQueue) \in Nat
    BY <1>1, <2>1, ElementsAppend
  <2>3. submitQueue' # <<>>
    BY <2>2, ShortQueues
  <2> QED BY <1>1, <2>1, <2>2, <2>3, ElementsAppend, ShortQueues
<1>5. Len(submitQueue) = 0 \/ (Len(submitQueue) = 1 /\ submitter = "marked" /\ submitQueue[1].frame < frame
                              /\ submitQueue[1].image # p.image)
  <2>1. submitQueue # <<>> => submitQueue[1].frame < frame /\ submitQueue[1].image # p.image
    BY <1>1 DEF OnItsWay, ImagesApart, p
  <2> QED BY <1>2, <1>4, <2>1 DEF Settled
<1>6. ~\E j \in Elements(jobs) : j.frame = frame
  BY <1>1 DEF OnItsWay
<1>7. OnItsWay'
  <2>1. Len(csQueue') = 0
    BY <1>1
  <2>2. (Elements(jobs))' = Elements(jobs)
    BY <1>3
  <2>3. CASE Len(submitQueue) = 0
    <3>1. Len(submitQueue') = 1 /\ submitQueue'[1] = p
      BY <1>4, <2>3
    <3> QED BY <1>1, <1>2, <1>3, <1>6, <2>1, <2>2, <3>1 DEF OnItsWay
  <2>4. CASE Len(submitQueue) # 0
    <3>1. Len(submitQueue') = 2 /\ submitQueue'[2] = p /\ submitQueue'[1] = submitQueue[1]
      <4>1. Len(submitQueue) = 1
        BY <1>5, <2>4
      <4> QED BY <1>4, <4>1
    <3>2. submitter' = "marked" /\ submitQueue[1].frame < frame
      BY <1>3, <1>5, <2>4
    <3> QED BY <1>1, <1>2, <1>3, <1>6, <2>1, <2>2, <3>1, <3>2 DEF OnItsWay
  <2> QED BY <2>3, <2>4
<1>8. ImagesApart'
  <2>1. Between /\ Between' /\ app' # "acquired"
    BY <1>2, <1>3 DEF Between
  <2>2. p.image \notin inFlight /\ \A q \in Elements(submitQueue) : q.image \notin inFlight
    BY <1>1 DEF ImagesApart
  <2>3. (Elements(jobs))' = Elements(jobs)
    BY <1>3
  <2> QED BY <1>1, <1>2, <1>3, <1>4, <1>5, <2>1, <2>2, <2>3 DEF ImagesApart
<1> QED BY <1>7, <1>8
\* A frame leaves the submission queue without a job, or is reported as queued: it is the last one.
LEMMA HandOverRefused ==
  ASSUME TypeOK, OnItsWay, ImagesApart, SubmitRefused \/ SubmitMarks
  PROVE  OnItsWay' /\ ImagesApart'
<1>0. QueuesTyped
  BY TypeParts
<1>1. /\ submitter = "idle" /\ submitQueue # <<>>
      /\ UNCHANGED <<app, csQueue, jobs, inFlight, frame, backbuffer>>
  BY DEF SubmitRefused, SubmitMarks, appVars, jobVars
<1>2. Len(submitQueue) = 1 /\ csQueue = <<>> /\ Len(csQueue) = 0 /\ Elements(csQueue) = {}
  <2>1. Len(submitQueue) \in Nat /\ Len(submitQueue) # 0 /\ Len(submitQueue) <= 2 /\ Len(submitQueue) # 2
    BY <1>0, <1>1, ShortQueues DEF OnItsWay, QueuesTyped
  <2>2. \A n \in Nat : n # 0 /\ n <= 2 /\ n # 2 => n = 1
    OBVIOUS
  <2>3. Len(submitQueue) = 1
    BY <2>1, <2>2
  <2>4. csQueue = <<>>
    BY <1>1, <2>3 DEF OnItsWay
  <2> QED BY <1>0, <2>3, <2>4, ShortQueues DEF QueuesTyped
<1>3. (Elements(jobs))' = Elements(jobs) /\ (Between' <=> Between) /\ (Elements(csQueue))' = Elements(csQueue)
  BY <1>1 DEF Between
<1>4. CASE SubmitRefused
  <2>1. submitQueue' = <<>> /\ Len(submitQueue') = 0 /\ Elements(submitQueue') = {}
    <3>1. submitQueue' \in Seq(Presents) /\ Len(submitQueue') = 0
      BY <1>0, <1>1, <1>2, <1>4, ElementsTail DEF SubmitRefused, QueuesTyped
    <3> QED BY <3>1, ShortQueues
  <2>2. Settled'
    BY <2>1 DEF Settled
  <2>3. OnItsWay'
    <3>1. app = "recreating" => jobs = <<>>
      BY DEF OnItsWay
    <3>2. submitQueue[1].frame = frame
      BY <1>1, <1>2 DEF OnItsWay
    <3>3. refused' = frame /\ statusOf' = frame
      BY <1>0, <1>1, <1>4, <3>2, ElementsTail DEF SubmitRefused, QueuesTyped
    <3>4. frame \in Nat
      BY TypeParts DEF WordsTyped
    <3> QED BY <1>1, <1>2, <2>1, <2>2, <3>1, <3>3, <3>4 DEF OnItsWay
  <2> QED BY <1>1, <1>2, <1>3, <2>1, <2>3 DEF ImagesApart
<1>5. CASE SubmitMarks
  <2>1. submitQueue' = submitQueue /\ submitter' = "marked"
    BY <1>5 DEF SubmitMarks
  <2>2. Settled'
    BY <1>2, <2>1 DEF Settled
  <2>3. OnItsWay'
    BY <1>1, <1>2, <1>3, <2>1, <2>2 DEF OnItsWay
  <2>4. (Elements(submitQueue))' = Elements(submitQueue)
    BY <2>1
  <2> QED BY <1>1, <1>2, <1>3, <2>1, <2>3, <2>4 DEF ImagesApart
<1> QED BY <1>4, <1>5

\* The refusal is stored again; if the frame is no longer the last one, its status is not the last
\* frame's.
LEMMA HandOverStores ==
  ASSUME TypeOK, OnItsWay, ImagesApart, SubmitStores
  PROVE  OnItsWay' /\ ImagesApart'
<1>1. /\ submitter = "refused" /\ submitter' = "idle" /\ statusOf' = refused
      /\ UNCHANGED <<app, csQueue, submitQueue, jobs, inFlight, frame, backbuffer>>
  BY DEF SubmitStores, appVars, jobVars
<1>2. Settled => submitQueue = <<>> /\ Settled'
  BY <1>1 DEF Settled
<1>3. Len(submitQueue) # 2 /\ (Len(submitQueue) = 1 => csQueue = <<>> /\ submitQueue[1].frame = frame)
  BY <1>1 DEF OnItsWay
<1>4. OnItsWay'
  BY <1>1, <1>2, <1>3 DEF OnItsWay
<1>5. ImagesApart'
  BY <1>1 DEF ImagesApart, Between
<1> QED BY <1>4, <1>5

\* The job of the older of two frames is queued.
LEMMA HandOverPushes ==
  ASSUME TypeOK, QueueShape, OnItsWay, ImagesApart, SubmitPushes
  PROVE  OnItsWay' /\ ImagesApart'
<1>0. QueuesTyped /\ WordsTyped
  BY TypeParts
<1>1. /\ submitter = "marked" /\ submitQueue # <<>> /\ app # "recreating" /\ submitter' = "idle"
      /\ UNCHANGED <<app, csQueue, frame, backbuffer, status, statusOf>>
  BY DEF SubmitPushes, Unlocked, QueueShape, appVars, statusVars
<1>2. PICK p \in Presents : p = submitQueue[1] /\ p = Head(submitQueue) /\ p \in Elements(submitQueue)
  BY <1>0, <1>1, ElementsTail DEF QueuesTyped
<1>3. /\ submitQueue' \in Seq(Presents) /\ Len(submitQueue') \in Nat /\ Len(submitQueue) = Len(submitQueue') + 1
      /\ Elements(submitQueue) = {p} \cup Elements(submitQueue')
      /\ \A i \in 1 .. Len(submitQueue') : submitQueue'[i] = submitQueue[i + 1]
  <2>1. submitQueue' = Tail(submitQueue)
    BY DEF SubmitPushes
  <2>2. /\ Tail(submitQueue) \in Seq(Presents) /\ Len(Tail(submitQueue)) = Len(submitQueue) - 1
        /\ Len(submitQueue) \in Nat /\ Len(submitQueue) > 0
        /\ Elements(submitQueue) = {p} \cup Elements(Tail(submitQueue))
        /\ \A i \in 1 .. Len(Tail(submitQueue)) : Tail(submitQueue)[i] = submitQueue[i + 1]
    BY <1>0, <1>1, <1>2, ElementsTail DEF QueuesTyped
  <2> QED BY <2>1, <2>2
<1>4. /\ jobs' \in Seq(Presents) /\ Elements(jobs') = Elements(jobs) \cup {p}
      /\ Len(jobs) \in Nat /\ Len(jobs') = Len(jobs) + 1 /\ jobs'[Len(jobs) + 1] = p
      /\ \A i \in 1 .. Len(jobs) : jobs'[i] = jobs[i] /\ jobs[i] \in Elements(jobs)
  <2>1. jobs' = Append(jobs, p) /\ jobs \in Seq(Presents)
    BY <1>0, <1>2 DEF SubmitPushes, QueuesTyped
  <2>2. /\ Append(jobs, p) \in Seq(Presents) /\ Elements(Append(jobs, p)) = Elements(jobs) \cup {p}
        /\ Len(Append(jobs, p)) = Len(jobs) + 1 /\ Append(jobs, p)[Len(jobs) + 1] = p
        /\ \A i \in 1 .. Len(jobs) : Append(jobs, p)[i] = jobs[i]
    BY <2>1, ElementsAppend
  <2>3. Len(jobs) \in Nat /\ \A i \in 1 .. Len(jobs) : jobs[i] \in Elements(jobs)
    BY <2>1, ShortQueues
  <2> QED BY <2>1, <2>2, <2>3
<1>5. inFlight' = inFlight \cup {p.image} /\ p.image \notin inFlight
  BY <1>2 DEF SubmitPushes, ImagesApart
<1>6. (Len(submitQueue') = 0 /\ Len(submitQueue) = 1) \/ (Len(submitQueue') = 1 /\ Len(submitQueue) = 2)
  <2>1. \A n \in Nat : n + 1 <= 2 => n = 0 \/ n = 1
    OBVIOUS
  <2>2. Len(submitQueue') + 1 <= 2
    BY <1>3 DEF OnItsWay
  <2>3. Len(submitQueue') = 0 \/ Len(submitQueue') = 1
    BY <1>3, <2>1, <2>2
  <2> QED BY <1>3, <2>3
<1>7. /\ ~\E j \in Elements(jobs) : j.frame = frame
      /\ Len(submitQueue) = 2 \/ csQueue # <<>> => p.frame # frame
  <2>1. ~\E j \in Elements(jobs) : j.frame = frame
    BY <1>1 DEF OnItsWay
  <2>2. p.frame \in Nat /\ frame \in Nat
    BY <1>0, PresentFields DEF WordsTyped
  <2>3. Len(submitQueue) = 2 \/ csQueue # <<>> => p.frame < frame
    BY <1>1, <1>2 DEF OnItsWay
  <2> QED BY <2>1, <2>2, <2>3
<1>8. ImagesApart'
  <2>1. inFlight' = {q.image : q \in Elements(jobs')}
    BY <1>4, <1>5 DEF ImagesApart
  <2>2. \A i, j \in 1 .. Len(jobs') : jobs'[i].image = jobs'[j].image => i = j
    <3> SUFFICES ASSUME NEW i \in 1 .. Len(jobs'), NEW j \in 1 .. Len(jobs'), jobs'[i].image = jobs'[j].image
                 PROVE  i = j
      OBVIOUS
    <3>1. \A k \in 1 .. Len(jobs') : k \in 1 .. Len(jobs) \/ k = Len(jobs) + 1
      BY <1>4
    <3>2. \A k \in 1 .. Len(jobs) : jobs'[k].image # p.image
      BY <1>4, <1>5 DEF ImagesApart
    <3>3. CASE i \in 1 .. Len(jobs) /\ j \in 1 .. Len(jobs)
      BY <1>4, <3>3 DEF ImagesApart
    <3>4. CASE i = Len(jobs) + 1 \/ j = Len(jobs) + 1
      BY <1>4, <3>1, <3>2, <3>4
    <3> QED BY <3>1, <3>3, <3>4
  <2>3. \A q \in Elements(submitQueue') \cup Elements(csQueue) : q.image \notin inFlight'
    <3>1. Len(submitQueue) = 1 => Elements(submitQueue') = {}
      BY <1>3, <1>6, ShortQueues
    <3>2. Len(submitQueue) = 2 => csQueue = <<>> /\ Elements(csQueue) = {} /\ Elements(submitQueue') = {submitQueue[2]}
      <4>1. Len(submitQueue) = 2 => Len(submitQueue') = 1 /\ submitQueue'[1] = submitQueue[2]
        <5>1. Len(submitQueue) = 2 => Len(submitQueue') = 1
          BY <1>6
        <5>2. Len(submitQueue') = 1 => submitQueue'[1] = submitQueue[2]
          BY <1>3
        <5> QED BY <5>1, <5>2
      <4>2. Len(submitQueue) = 2 => csQueue = <<>>
        BY DEF OnItsWay
      <4> QED BY <1>0, <1>3, <4>1, <4>2, ShortQueues DEF QueuesTyped
    <3>3. csQueue # <<>> => Elements(csQueue) = {csQueue[1]}
      <4>1. Len(csQueue) \in Nat /\ Len(csQueue) <= 1 /\ (csQueue # <<>> => Len(csQueue) # 0)
        BY <1>0, ShortQueues DEF OnItsWay, QueuesTyped
      <4>2. csQueue # <<>> => Len(csQueue) = 1
        BY <4>1, OneLeft
      <4> QED BY <1>0, <4>2, ShortQueues DEF QueuesTyped
    <3>4. csQueue = <<>> => Elements(csQueue) = {}
      BY <1>0, ShortQueues DEF QueuesTyped
    <3>5. /\ Len(submitQueue) = 2 => p.image # submitQueue[2].image
          /\ csQueue # <<>> => p.image # csQueue[1].image
      BY <1>1, <1>2 DEF ImagesApart
    <3>6. \A q \in Elements(submitQueue') \cup Elements(csQueue) : q.image # p.image
      BY <1>6, <3>1, <3>2, <3>3, <3>4, <3>5
    <3>7. \A q \in Elements(submitQueue') \cup Elements(csQueue) : q.image \notin inFlight
      BY <1>3 DEF ImagesApart
    <3> QED BY <1>5, <3>6, <3>7
  <2>4. /\ Len(submitQueue') # 2
        /\ submitQueue' # <<>> => csQueue = <<>> /\ submitQueue'[Len(submitQueue')] = submitQueue[Len(submitQueue)]
    <3>1. Len(submitQueue') = 0 => submitQueue' = <<>>
      BY <1>3
    <3>2. Len(submitQueue) = 2 => csQueue = <<>>
      BY DEF OnItsWay
    <3>3. Len(submitQueue') = 1 => submitQueue'[1] = submitQueue[2]
      BY <1>3
    <3> QED BY <1>6, <3>1, <3>2, <3>3
  <2>5. ~Between => \A q \in Elements(submitQueue') \cup {p} : q.image # backbuffer
    BY <1>2, <1>3 DEF ImagesApart
  <2>6. app = "acquired" => backbuffer \notin inFlight'
    BY <1>5, <2>5 DEF ImagesApart, Between
  <2>7. (Between' <=> Between) /\ (Elements(csQueue))' = Elements(csQueue)
    BY <1>1 DEF Between
  <2> QED BY <1>1, <2>1, <2>2, <2>3, <2>4, <2>5, <2>6, <2>7 DEF ImagesApart
<1>9. OnItsWay'
  <2>1. CASE Len(submitQueue) = 1
    <3>1. Len(submitQueue') = 0 /\ submitQueue' = <<>>
      BY <1>3, <1>6, <2>1, ShortQueues
    <3>2. Settled' /\ Settled
      BY <1>1, <2>1, <3>1 DEF Settled
    <3> QED BY <1>1, <1>4, <1>7, <2>1, <3>1, <3>2 DEF OnItsWay
  <2>2. CASE Len(submitQueue) = 2
    <3>1. Len(submitQueue') = 1 /\ submitQueue'[1] = submitQueue[2] /\ csQueue = <<>> /\ submitQueue[2].frame = frame
      BY <1>3, <1>6, <2>2 DEF OnItsWay
    <3>2. ~Settled
      BY <1>1, <2>2 DEF Settled
    <3>3. ~\E j \in Elements(jobs') : j.frame = frame
      BY <1>4, <1>7, <2>2
    <3> QED BY <1>1, <2>2, <3>1, <3>2, <3>3 DEF OnItsWay
  <2> QED BY <1>6, <2>1, <2>2
<1> QED BY <1>8, <1>9
\* A job ends: if it was the last frame's, nothing is on its way.
LEMMA HandOverFinishes ==
  ASSUME TypeOK, JobShape, OnItsWay, ImagesApart, JobFinishes
  PROVE  OnItsWay' /\ ImagesApart'
<1>0. QueuesTyped
  BY TypeParts
<1>1. /\ jobs # <<>> /\ UNCHANGED <<app, csQueue, submitQueue, submitter, refused, frame, backbuffer>>
  BY DEF JobFinishes, JobShape, appVars, pipeVars
<1>2. PICK p \in Presents : p = Head(jobs) /\ p = jobs[1] /\ p \in Elements(jobs)
  BY <1>0, <1>1, ElementsTail DEF QueuesTyped
<1>3. /\ jobs' \in Seq(Presents) /\ Len(jobs') \in Nat /\ Len(jobs) = Len(jobs') + 1
      /\ Elements(jobs) = {p} \cup Elements(jobs')
      /\ \A i \in 1 .. Len(jobs') : jobs'[i] = jobs[i + 1]
  <2>1. jobs' = Tail(jobs)
    BY DEF JobFinishes
  <2>2. /\ Tail(jobs) \in Seq(Presents) /\ Len(Tail(jobs)) = Len(jobs) - 1
        /\ Len(jobs) \in Nat /\ Len(jobs) > 0
        /\ Elements(jobs) = {p} \cup Elements(Tail(jobs))
        /\ \A i \in 1 .. Len(Tail(jobs)) : Tail(jobs)[i] = jobs[i + 1]
    BY <1>0, <1>1, <1>2, ElementsTail DEF QueuesTyped
  <2> QED BY <2>1, <2>2
<1>4. statusOf' = p.frame /\ inFlight' = inFlight \ {p.image}
  BY <1>2 DEF JobFinishes
<1>5. \A i \in 1 .. Len(jobs') : i \in 1 .. Len(jobs) /\ i + 1 \in 1 .. Len(jobs) /\ i + 1 # 1
  BY <1>3
<1>6. 1 \in 1 .. Len(jobs)
  BY <1>3
<1>7. Settled' <=> Settled
  BY <1>1 DEF Settled
<1>8. OnItsWay'
  <2>1. app # "recreating"
    BY <1>1 DEF OnItsWay
  <2>2. p.frame = frame => csQueue = <<>> /\ Settled
    BY <1>2 DEF OnItsWay, Settled
  <2>3. (\E q \in Elements(jobs') : q.frame = frame) => csQueue = <<>> /\ submitQueue = <<>>
    BY <1>3 DEF OnItsWay
  <2> QED BY <1>1, <1>4, <1>7, <2>1, <2>2, <2>3 DEF OnItsWay
<1>9. ImagesApart'
  <2>1. \A i \in 1 .. Len(jobs') : jobs'[i].image # p.image
    BY <1>2, <1>3, <1>5, <1>6 DEF ImagesApart
  <2>2. \A q \in Elements(jobs') : q.image # p.image
    BY <2>1 DEF Elements
  <2>3. inFlight' = {q.image : q \in Elements(jobs')}
    BY <1>3, <1>4, <2>2 DEF ImagesApart
  <2>4. \A i, j \in 1 .. Len(jobs') : jobs'[i].image = jobs'[j].image => i = j
    <3> SUFFICES ASSUME NEW i \in 1 .. Len(jobs'), NEW j \in 1 .. Len(jobs'), jobs'[i].image = jobs'[j].image
                 PROVE  i = j
      OBVIOUS
    <3>1. jobs[i + 1].image = jobs[j + 1].image
      BY <1>3
    <3>2. i + 1 = j + 1
      BY <1>5, <3>1 DEF ImagesApart
    <3> QED BY <3>2
  <2>5. /\ Between' <=> Between
        /\ (Elements(csQueue))' = Elements(csQueue) /\ (Elements(submitQueue))' = Elements(submitQueue)
    BY <1>1 DEF Between
  <2>6. inFlight' \subseteq inFlight
    BY <1>4
  <2> QED BY <1>1, <2>3, <2>4, <2>5, <2>6 DEF ImagesApart
<1> QED BY <1>8, <1>9

\* The next image is another one than the last frame's.
LEMMA HandOverAcquires ==
  ASSUME TypeOK, OnItsWay, ImagesApart, AcquireNextImage
  PROVE  OnItsWay' /\ ImagesApart'
<1>0. QueuesTyped /\ backbuffer \in Indices
  BY TypeParts DEF WordsTyped
<1>1. /\ app = "acquire" /\ app' = "available"
      /\ UNCHANGED <<csQueue, submitQueue, submitter, refused, jobs, inFlight, frame, status, statusOf>>
  BY DEF AcquireNextImage, statusVars, pipeVars
<1>2. csQueue = <<>> /\ Settled /\ (Settled' <=> Settled) /\ Between /\ ~Between'
  BY <1>1 DEF OnItsWay, Settled, Between
<1>3. backbuffer' # backbuffer
  BY <1>0, NextIndex DEF AcquireNextImage
<1>4. \A p \in Elements(submitQueue) : p.image # backbuffer'
  <2>1. CASE submitQueue = <<>>
    BY <1>0, <2>1, ShortQueues DEF QueuesTyped
  <2>2. CASE submitQueue # <<>>
    <3>1. Len(submitQueue) = 1
      BY <1>2, <2>2 DEF Settled
    <3>2. Elements(submitQueue) = {submitQueue[1]}
      BY <1>0, <3>1, ShortQueues DEF QueuesTyped
    <3>3. submitQueue[1].image = backbuffer
      BY <1>2, <2>2, <3>1 DEF ImagesApart
    <3> QED BY <1>3, <3>2, <3>3
  <2> QED BY <2>1, <2>2
<1>5. OnItsWay'
  BY <1>1, <1>2 DEF OnItsWay
<1>6. ImagesApart'
  <2>1. /\ (Elements(jobs))' = Elements(jobs) /\ (Elements(csQueue))' = Elements(csQueue)
        /\ (Elements(submitQueue))' = Elements(submitQueue)
    BY <1>1
  <2> QED BY <1>1, <1>2, <1>4, <2>1 DEF ImagesApart
<1> QED BY <1>5, <1>6

\* What the swap chain does between two of its frames.
LEMMA HandOverRecreates ==
  ASSUME TypeOK, OnItsWay, ImagesApart, SynchronizeAgain \/ RecreateEnd
  PROVE  OnItsWay' /\ ImagesApart'
<1>0. QueuesTyped
  BY TypeParts
<1>1. /\ csQueue = <<>> /\ Settled /\ (Settled' <=> Settled) /\ Between /\ Between'
      /\ app' # "acquired" /\ app' # "recreating"
  BY DEF OnItsWay, Settled, Between, SynchronizeAgain, RecreateEnd, Synchronized, pipeVars
<1>2. UNCHANGED <<csQueue, submitQueue, submitter, refused, jobs, frame>>
  BY DEF SynchronizeAgain, RecreateEnd, pipeVars
<1>3. OnItsWay'
  BY <1>1, <1>2 DEF OnItsWay
<1>4. CASE SynchronizeAgain
  <2>1. UNCHANGED <<backbuffer, inFlight>>
    BY <1>4 DEF SynchronizeAgain
  <2> QED BY <1>1, <1>2, <1>3, <2>1 DEF ImagesApart
<1>5. CASE RecreateEnd
  <2>1. submitQueue = <<>> /\ jobs = <<>> /\ inFlight' = {} /\ Len(submitQueue) = 0 /\ Len(jobs) = 0
        /\ Elements(submitQueue) = {} /\ Elements(jobs) = {} /\ Elements(csQueue) = {}
    BY <1>0, <1>1, <1>5, ShortQueues DEF RecreateEnd, OnItsWay, QueuesTyped
  <2> QED BY <1>1, <1>2, <1>3, <2>1 DEF ImagesApart
<1> QED BY <1>4, <1>5

LEMMA HandOverNext ==
  ASSUME TypeOK, JobShape, QueueShape, RecreateIsIdle, HandOver, [Next]_vars
  PROVE  HandOver'
<1> USE DEF appVars, statusVars, pipeVars, jobVars, pacerVars, semaphoreVars
<1> SUFFICES ASSUME ~hasty' PROVE OnItsWay' /\ ImagesApart'
  BY DEF HandOver
<1>0. ~hasty
  <2>1. CASE SynchronizePresent
    BY <2>1 DEF SynchronizePresent
  <2>2. CASE RecreateSwapChain
    BY <2>2 DEF RecreateSwapChain
  <2>3. CASE RecreateBegin
    BY <2>3 DEF RecreateBegin
  <2>4. CASE UNCHANGED hasty
    BY <2>4
  <2> QED BY <2>1, <2>2, <2>3, <2>4
     DEF Next, AppStep, SubmitStep, PresentStep, PacerStep, PresentImage, AcquireFails, AcquireNextImage,
       AcquireReturns, SubmitPresent, SynchronizeJobs, SynchronizeGap, SynchronizeSleeps, SynchronizeAgain,
       RecreateEnd, RecreateFails, Synchronized, CsPresent, SubmitRefused, SubmitStores, SubmitMarks,
       SubmitPushes, JobDropped, JobBegins,
       JobInterpolates, JobPresentsFirst, JobPaces, JobPresentsNext, JobAcquires, JobPresents, JobFinishes,
       PacerSignals, PacerPops, vars
<1>1. OnItsWay /\ ImagesApart
  BY <1>0 DEF HandOver
<1>2. CASE SubmitPresent
  BY <1>1, <1>2, HandOverSubmits
<1>3. CASE CsPresent
  BY <1>1, <1>3, HandOverStreams
<1>4. CASE SubmitRefused \/ SubmitMarks
  BY <1>1, <1>4, HandOverRefused
<1>5. CASE SubmitPushes
  BY <1>1, <1>5, HandOverPushes
<1>6. CASE JobFinishes
  BY <1>1, <1>6, HandOverFinishes
<1>7. CASE AcquireNextImage
  BY <1>1, <1>7, HandOverAcquires
<1>8. CASE SynchronizeAgain \/ RecreateEnd
  BY <1>1, <1>8, HandOverRecreates
<1> DEFINE Kept ==
      /\ UNCHANGED Hands
      /\ app' \notin {"run", "submission"} => csQueue = <<>> /\ Settled
      /\ app' = "recreating" => submitQueue = <<>> /\ jobs = <<>>
      /\ app' = "acquired" => backbuffer \notin inFlight
      /\ Between' <=> Between
<1>9. CASE SynchronizePresent
  <2>1. status # "notready" /\ statusOf = frame
    BY <1>9 DEF SynchronizePresent
  <2>2. Kept
    BY <1>1, <1>9, <2>1 DEF SynchronizePresent, Hands, Between, OnItsWay
  <2> QED BY <1>1, <2>2, HandOverKept
<1>10. CASE RecreateBegin
  <2>1. csQueue = <<>> /\ submitQueue = <<>> /\ jobs = <<>>
    BY <1>10 DEF RecreateBegin
  <2>2. Kept
    BY <1>1, <1>10, <2>1 DEF RecreateBegin, Synchronized, Hands, Between, Settled
  <2> QED BY <1>1, <2>2, HandOverKept
<1>11. CASE AcquireFails \/ AcquireReturns \/ RecreateSwapChain \/ SynchronizeJobs \/ SynchronizeGap
            \/ SynchronizeSleeps \/ PacerPops \/ PresentImage \/ RecreateFails
  <2>1. app \notin {"run", "submission"} => csQueue = <<>> /\ Settled
    BY <1>1 DEF OnItsWay
  <2>2. app = "recreating" => submitQueue = <<>> /\ jobs = <<>>
    BY <1>1 DEF OnItsWay
  <2>3. app = "acquired" => backbuffer \notin inFlight
    BY <1>1 DEF ImagesApart
  <2>4. Kept
    BY <1>11, <2>1, <2>2, <2>3 DEF AcquireFails, AcquireReturns, RecreateSwapChain, SynchronizeJobs, SynchronizeGap,
       SynchronizeSleeps, PacerPops, PresentImage, RecreateFails, Hands, Between
  <2> QED BY <1>1, <2>4, HandOverKept
<1>13. CASE SubmitStores
  BY <1>1, <1>13, HandOverStores
<1>12. CASE UNCHANGED <<app, Hands>>
  <2>1. Kept
    BY <1>1, <1>12 DEF Between, OnItsWay, ImagesApart
  <2> QED BY <1>1, <2>1, HandOverKept
<1> QED BY <1>2, <1>3, <1>4, <1>5, <1>6, <1>7, <1>8, <1>9, <1>10, <1>11, <1>12, <1>13
   DEF Next, AppStep, SubmitStep, PresentStep, PacerStep, JobDropped, JobBegins, JobInterpolates, JobPresentsFirst,
       JobPaces, JobPresentsNext, JobAcquires, JobPresents, PacerSignals, Hands, vars

\* What HandOver says of the frames on their way is what BuffersAreOwned promises.
LEMMA OwnedByHandOver ==
  ASSUME TypeOK, HandOver
  PROVE  BuffersAreOwned
<1> SUFFICES ASSUME ~hasty, OnItsWay, ImagesApart
             PROVE  /\ inFlight = {j.image : j \in Elements(jobs)}
                    /\ \A p, q \in Pending : p.image = q.image => p = q
                    /\ app = "acquired" => \A p \in Pending : p.image # backbuffer
  BY DEF BuffersAreOwned, HandOver
<1>0. QueuesTyped
  BY TypeParts
<1>1. inFlight = {j.image : j \in Elements(jobs)}
  BY DEF ImagesApart
<1>2. \A p, q \in Elements(jobs) : p.image = q.image => p = q
  <2>1. \A i, j \in 1 .. Len(jobs) : jobs[i].image = jobs[j].image => i = j
    BY DEF ImagesApart
  <2> QED BY <2>1 DEF Elements
<1>3. /\ csQueue = <<>> => Elements(csQueue) = {}
      /\ csQueue # <<>> => Elements(csQueue) = {csQueue[1]}
  <2>1. Len(csQueue) \in Nat /\ Len(csQueue) <= 1 /\ (csQueue # <<>> => Len(csQueue) # 0)
    BY <1>0, ShortQueues DEF OnItsWay, QueuesTyped
  <2>2. csQueue # <<>> => Len(csQueue) = 1
    BY <2>1, OneLeft
  <2> QED BY <1>0, <2>2, ShortQueues DEF QueuesTyped
<1>4. \/ submitQueue = <<>> /\ Elements(submitQueue) = {}
      \/ submitQueue # <<>> /\ Elements(submitQueue) = {submitQueue[1]}
      \/ Len(submitQueue) = 2 /\ csQueue = <<>> /\ Elements(submitQueue) = {submitQueue[1], submitQueue[2]}
  <2>1. Len(submitQueue) \in Nat /\ Len(submitQueue) <= 2 /\ (submitQueue # <<>> => Len(submitQueue) # 0)
    BY <1>0, ShortQueues DEF OnItsWay, QueuesTyped
  <2>2. \A n \in Nat : n <= 2 => n = 0 \/ n = 1 \/ n = 2
    OBVIOUS
  <2>3. Len(submitQueue) = 0 \/ Len(submitQueue) = 1 \/ Len(submitQueue) = 2
    BY <2>1, <2>2
  <2>4. Len(submitQueue) = 2 => csQueue = <<>>
    BY DEF OnItsWay
  <2>5. Len(submitQueue) = 0 => submitQueue = <<>>
    BY <1>0, ShortQueues DEF QueuesTyped
  <2>6. Len(submitQueue) = 1 => submitQueue # <<>>
    BY <1>0, ShortQueues DEF QueuesTyped
  <2> QED BY <1>0, <2>3, <2>4, <2>5, <2>6, ShortQueues DEF QueuesTyped
<1> DEFINE Ahead == Elements(submitQueue) \cup Elements(csQueue)
<1>5. \A p, q \in Ahead : p.image = q.image => p = q
  <2>1. /\ Len(submitQueue) = 2 => submitQueue[1].image # submitQueue[2].image
        /\ submitQueue # <<>> /\ csQueue # <<>> => submitQueue[1].image # csQueue[1].image
    BY DEF ImagesApart
  <2> QED BY <1>3, <1>4, <2>1
<1>6. \A p \in Ahead, q \in Elements(jobs) : p.image # q.image
  BY <1>1 DEF ImagesApart
<1>7. app = "acquired" => \A p \in Pending : p.image # backbuffer
  <2> SUFFICES ASSUME app = "acquired" PROVE \A p \in Pending : p.image # backbuffer
    OBVIOUS
  <2>1. csQueue = <<>> /\ \A p \in Elements(submitQueue) : p.image # backbuffer
    BY DEF OnItsWay, ImagesApart, Between
  <2>2. \A p \in Elements(jobs) : p.image # backbuffer
    BY <1>1 DEF ImagesApart
  <2> QED BY <1>3, <2>1, <2>2 DEF Pending
<1>8. Pending = Ahead \cup Elements(jobs)
  BY DEF Pending
<1> HIDE DEF Ahead
<1>9. \A p, q \in Pending : p.image = q.image => p = q
  BY <1>2, <1>5, <1>6, <1>8
<1> QED BY <1>1, <1>7, <1>9

----------------------------------------------------------------------------
(* The theorems. *)

LEMMA Inductive == Spec => []IInv
<1>1. Init => IInv
  <2>1. Init => PacerInv
    <3> SUFFICES ASSUME Init PROVE PacerInv
      OBVIOUS
    <3>1. Covered(0)
      BY DEF Init, Covered
    <3> QED BY <3>1 DEF Init, PacerInv
  <2> QED BY <2>1, ShapeInit, HandOverInit DEF IInv
<1>2. IInv /\ [Next]_vars => IInv'
  <2> SUFFICES ASSUME IInv, [Next]_vars PROVE IInv'
    OBVIOUS
  <2>1. TypeOK /\ JobShape /\ QueueShape /\ RecreateIsIdle /\ PacerInv /\ HandOver
    BY DEF IInv
  <2> QED BY <2>1, TypeNext, JobShapeNext, QueueShapeNext, IdleNext, PacerInvNext, HandOverNext DEF IInv
<1> QED BY <1>1, <1>2, PTL DEF Spec

\* Types, for any number of back buffers, interpolated images and frames.
THEOREM TypeCorrect == Spec => []TypeOK
<1>1. IInv => TypeOK
  BY DEF IInv
<1> QED BY <1>1, Inductive, PTL

\* recreateSwapChain never runs beside a job of the present thread or of the pacer.
THEOREM PresenterIsIdle == Spec => []RecreateIsIdle
<1>1. IInv => RecreateIsIdle
  BY DEF IInv
<1> QED BY <1>1, Inductive, PTL

\* Every value of the pacer's semaphore that a present waits for is signalled or will be, whatever
\* fails half-way in a frame.
THEOREM ValuesAreSignalled == Spec => []WaitsAreSignalled
<1>1. IInv => WaitsAreSignalled
  BY DEF IInv, PacerInv, Covered, WaitsAreSignalled
<1> QED BY <1>1, Inductive, PTL

\* A back buffer has one frame on its way to the presenter and is in flight exactly while a job
\* presents it, until the swap chain goes on by another frame's status.
THEOREM BuffersOwned == Spec => []BuffersAreOwned
<1>1. IInv => BuffersAreOwned
  BY OwnedByHandOver DEF IInv
<1> QED BY <1>1, Inductive, PTL
==============================================================================

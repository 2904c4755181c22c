----------------------------- MODULE PresentSync -----------------------------
(***************************************************************************)
(* How Present paces the client (Direct3DSwapChain9_LSS::Present and       *)
(* syncOnPresent): every frame is pushed into the device command queue,    *)
(* and the client waits for the named semaphore that the server releases   *)
(* after each frame that it has presented.  The push waits while the queue *)
(* is full; with timeouts disabled, which is the default, nothing but room *)
(* ends that wait.  A wait for the semaphore always has a timeout, and the *)
(* retries run out unless the game's window is out of focus.               *)
(*                                                                         *)
(* Neither Present takes the device's lock: several threads may present    *)
(* swap chains of their own.  One at a time holds the queue's mutex, from  *)
(* the constructor of its command to the end of the destructor.            *)
(***************************************************************************)
EXTENDS Naturals, FiniteSets

CONSTANTS
  Threads,     \* the threads that present
  MaxFrames,   \* presentSemaphoreMaxFrames
  MaxRetries,  \* commandRetries
  QueueSlots,  \* commands the device command queue holds: its size less one
  MaxPresents, \* bound on the calls
  MaxOthers,   \* bound on the commands that are not presents
  MaxFocus     \* bound on the changes of the window's focus

ASSUME PresentAssumption ==
  /\ IsFiniteSet(Threads)
  /\ MaxFrames \in Nat \ {0}
  /\ MaxRetries \in Nat
  /\ QueueSlots \in Nat \ {0}
  /\ MaxPresents \in Nat /\ MaxOthers \in Nat /\ MaxFocus \in Nat

VARIABLES
  pc,           \* where each thread is; "pushing" holds the mutex of the queue
  numRetries,   \* numRetries in syncOnPresent
  patient,      \* whether maxRetries in syncOnPresent is INFINITE
  sent,         \* whether the thread's frame went into the queue
  acquired,     \* whether its wait was released
  result,       \* what syncOnPresent returned last
  running,      \* gbBridgeRunning
  timeoutsDisabled, \* GlobalOptions::disableTimeouts
  infiniteRetries,  \* GlobalOptions::infiniteRetries: the window is out of focus
  presents,     \* calls of Present so far
  otherCalls,   \* other commands so far
  focusChanges, \* changes of the focus so far
  outstanding,  \* frames in the device command queue
  others,       \* other commands in it; their order among the frames is left open
  server,       \* "up", "presented" (and about to release), "down"
  count,        \* the semaphore
  dropped,      \* releases that found the count at its maximum
  missed        \* frames whose call returned without a release

callVars == <<pc, numRetries, patient, sent, acquired, result>>
optionVars == <<timeoutsDisabled, infiniteRetries, focusChanges>>
clientVars == <<optionVars, presents, otherCalls>>
serverVars == <<outstanding, others, server, count, dropped>>
vars == <<callVars, running, clientVars, serverVars, missed>>

Full == outstanding + others = QueueSlots

Starts(initialCount) ==
  /\ pc = [t \in Threads |-> "idle"]
  /\ numRetries = [t \in Threads |-> 0]
  /\ patient = [t \in Threads |-> FALSE]
  /\ sent = [t \in Threads |-> FALSE]
  /\ acquired = [t \in Threads |-> TRUE]
  /\ result = [t \in Threads |-> "ok"]
  /\ running = TRUE
  /\ timeoutsDisabled \in BOOLEAN /\ infiniteRetries = FALSE
  /\ presents = 0 /\ otherCalls = 0 /\ focusChanges = 0
  /\ outstanding = 0 /\ others = 0 /\ dropped = 0 /\ missed = 0
  /\ server = "up"
  /\ count = initialCount

\* Mutant of Init: the server's constructor is the first to create the semaphore.
Init_ServerFirst == Starts(MaxFrames)

\* The client creates the semaphore before it starts the server, so that the client's
\* initial count is the one that counts.
Init == Starts(0)

----------------------------------------------------------------------------
(* The client. *)

\* Present does nothing at all once the bridge is off.
Present(t) ==
  /\ pc[t] = "idle"
  /\ running
  /\ presents < MaxPresents
  /\ presents' = presents + 1
  /\ pc' = [pc EXCEPT ![t] = "sending"]
  /\ numRetries' = [numRetries EXCEPT ![t] = 0]
  /\ sent' = [sent EXCEPT ![t] = FALSE]
  /\ acquired' = [acquired EXCEPT ![t] = FALSE]
  /\ UNCHANGED <<patient, result, running, optionVars, otherCalls, serverVars, missed>>

MutexIsFree == \A t \in Threads : pc[t] # "pushing"

\* The command takes the mutex, and is pushed if the bridge is still on.
Lock(t) ==
  /\ pc[t] = "sending"
  /\ MutexIsFree
  /\ running
  /\ pc' = [pc EXCEPT ![t] = "pushing"]
  /\ UNCHANGED <<numRetries, patient, sent, acquired, result, running, clientVars, serverVars, missed>>

\* On to syncOnPresent, which reads the number of retries once.
StartWait(t) ==
  /\ pc' = [pc EXCEPT ![t] = "waiting"]
  /\ patient' = [patient EXCEPT ![t] = infiniteRetries]
  /\ UNCHANGED <<numRetries, acquired, result, clientVars, missed>>

SendNothing(t) ==
  /\ pc[t] = "sending"
  /\ MutexIsFree
  /\ ~running
  /\ StartWait(t)
  /\ UNCHANGED <<sent, running, serverVars>>

\* Room is all the push asks for, even when the bridge was turned off meanwhile.
Send(t) ==
  /\ pc[t] = "pushing"
  /\ ~Full
  /\ outstanding' = outstanding + 1
  /\ sent' = [sent EXCEPT ![t] = TRUE]
  /\ StartWait(t)
  /\ UNCHANGED <<running, others, server, count, dropped>>

\* A full queue ends the wait only when timeouts are enabled, and after the last retry.
PushGivesUp == Full /\ ~timeoutsDisabled /\ (infiniteRetries => ~running)

SendFails(t) ==
  /\ pc[t] = "pushing"
  /\ PushGivesUp
  /\ running' = FALSE
  /\ StartWait(t)
  /\ UNCHANGED <<sent, serverVars>>

\* Any other command, from any thread, on its way through the same queue.
OtherCommand ==
  /\ running
  /\ MutexIsFree
  /\ ~Full
  /\ otherCalls < MaxOthers
  /\ otherCalls' = otherCalls + 1
  /\ others' = others + 1
  /\ UNCHANGED <<callVars, running, optionVars, presents, outstanding, server, count, dropped, missed>>

\* One that finds the queue full holds the mutex no better than a Present does.
OtherFails ==
  /\ running
  /\ MutexIsFree
  /\ PushGivesUp
  /\ running' = FALSE
  /\ UNCHANGED <<callVars, clientVars, serverVars, missed>>

\* WM_KILLFOCUS and WM_SETFOCUS.
FocusChanges ==
  /\ focusChanges < MaxFocus
  /\ focusChanges' = focusChanges + 1
  /\ infiniteRetries' = ~infiniteRetries
  /\ UNCHANGED <<callVars, running, timeoutsDisabled, presents, otherCalls, serverVars, missed>>

WaitSucceeds(t) ==
  /\ pc[t] = "waiting"
  /\ running
  /\ count > 0
  /\ count' = count - 1
  /\ acquired' = [acquired EXCEPT ![t] = TRUE]
  /\ pc' = [pc EXCEPT ![t] = "deciding"]
  /\ UNCHANGED <<numRetries, patient, sent, result, running, clientVars, outstanding, others, server, dropped, missed>>

\* Mutant of WaitTimesOut: the retry is not counted.
WaitTimesOut_NotCounted(t) ==
  /\ pc[t] = "waiting"
  /\ ~patient[t]
  /\ running
  /\ count = 0
  /\ pc' = [pc EXCEPT ![t] = IF numRetries[t] < MaxRetries THEN "waiting" ELSE "deciding"]
  /\ UNCHANGED <<numRetries, patient, sent, acquired, result, running, clientVars, serverVars, missed>>

\* Mutant of WaitTimesOut: one wait more than there are retries for.
WaitTimesOut_OneMore(t) ==
  /\ pc[t] = "waiting"
  /\ ~patient[t]
  /\ running
  /\ count = 0
  /\ numRetries' = [numRetries EXCEPT ![t] = numRetries[t] + 1]
  /\ pc' = [pc EXCEPT ![t] = IF numRetries[t] <= MaxRetries THEN "waiting" ELSE "deciding"]
  /\ UNCHANGED <<patient, sent, acquired, result, running, clientVars, serverVars, missed>>

\* A wait ends after a second, also when timeouts are disabled.  The retry is counted also
\* when it is the last; the last of INFINITE retries is never seen.
WaitTimesOut(t) ==
  /\ pc[t] = "waiting"
  /\ ~patient[t]
  /\ running
  /\ count = 0
  /\ numRetries' = [numRetries EXCEPT ![t] = numRetries[t] + 1]
  /\ pc' = [pc EXCEPT ![t] = IF numRetries[t] < MaxRetries THEN "waiting" ELSE "deciding"]
  /\ UNCHANGED <<patient, sent, acquired, result, running, clientVars, serverVars, missed>>

BridgeIsOff(t) ==
  /\ pc[t] = "waiting"
  /\ ~running
  /\ pc' = [pc EXCEPT ![t] = "deciding"]
  /\ UNCHANGED <<numRetries, patient, sent, acquired, result, running, clientVars, serverVars, missed>>

\* The retries are looked at first, whatever the last wait returned.
Outcome(t) ==
  IF ~patient[t] /\ numRetries[t] >= MaxRetries THEN "timeout" ELSE IF ~running THEN "aborted" ELSE "ok"

Return(t) ==
  /\ pc[t] = "deciding"
  /\ result' = [result EXCEPT ![t] = Outcome(t)]
  /\ missed' = IF sent[t] /\ ~acquired[t] THEN missed + 1 ELSE missed
  /\ pc' = [pc EXCEPT ![t] = "idle"]
  /\ UNCHANGED <<numRetries, patient, sent, acquired, running, clientVars, serverVars>>

----------------------------------------------------------------------------
(* The server. *)

ServerPresent ==
  /\ server = "up"
  /\ outstanding > 0
  /\ outstanding' = outstanding - 1
  /\ server' = "presented"
  /\ UNCHANGED <<callVars, running, clientVars, others, count, dropped, missed>>

\* Any other command the server takes.
ServerTakes ==
  /\ server = "up"
  /\ others > 0
  /\ others' = others - 1
  /\ UNCHANGED <<callVars, running, clientVars, outstanding, server, count, dropped, missed>>

\* Mutant of ServerRelease: a batch of two.
ServerRelease_Two ==
  /\ server = "presented"
  /\ server' = "up"
  /\ count' = IF count + 2 <= MaxFrames THEN count + 2 ELSE MaxFrames
  /\ UNCHANGED <<callVars, running, clientVars, outstanding, others, dropped, missed>>

\* A release that finds the semaphore full is ignored (ERROR_TOO_MANY_POSTS).
ServerRelease ==
  /\ server = "presented"
  /\ server' = "up"
  /\ IF count < MaxFrames THEN count' = count + 1 /\ UNCHANGED dropped
                          ELSE dropped' = dropped + 1 /\ UNCHANGED count
  /\ UNCHANGED <<callVars, running, clientVars, outstanding, others, missed>>

\* The process ends, wherever it is; what it was about to release is lost.
ServerDies ==
  /\ server # "down"
  /\ server' = "down"
  /\ dropped' = IF server = "presented" THEN dropped + 1 ELSE dropped
  /\ UNCHANGED <<callVars, running, clientVars, outstanding, others, count, missed>>

OnServerExited ==
  /\ server = "down"
  /\ running
  /\ running' = FALSE
  /\ UNCHANGED <<callVars, clientVars, serverVars, missed>>

----------------------------------------------------------------------------

Returning(t) ==
  \/ Lock(t) \/ Send(t) \/ SendNothing(t) \/ SendFails(t)
  \/ WaitSucceeds(t) \/ WaitTimesOut(t) \/ BridgeIsOff(t) \/ Return(t)

Next ==
  \/ \E t \in Threads : Present(t) \/ Returning(t)
  \/ OtherCommand \/ OtherFails \/ FocusChanges
  \/ ServerPresent \/ ServerTakes \/ ServerRelease \/ ServerDies \/ OnServerExited

Spec == Init /\ [][Next]_vars

\* Threads that present go on; the server may hang.
FairSpec == Spec /\ \A t \in Threads : WF_vars(Returning(t))

----------------------------------------------------------------------------

TypeOK ==
  /\ pc \in [Threads -> {"idle", "sending", "pushing", "waiting", "deciding"}]
  /\ numRetries \in [Threads -> 0 .. MaxRetries + 1]
  /\ patient \in [Threads -> BOOLEAN] /\ sent \in [Threads -> BOOLEAN] /\ acquired \in [Threads -> BOOLEAN]
  /\ result \in [Threads -> {"ok", "timeout", "aborted"}]
  /\ running \in BOOLEAN /\ timeoutsDisabled \in BOOLEAN /\ infiniteRetries \in BOOLEAN
  /\ presents \in 0 .. MaxPresents /\ otherCalls \in 0 .. MaxOthers /\ focusChanges \in 0 .. MaxFocus
  /\ outstanding \in Nat /\ others \in Nat /\ outstanding + others <= QueueSlots
  /\ dropped \in Nat /\ missed \in Nat
  /\ server \in {"up", "presented", "down"}
  /\ count \in 0 .. MaxFrames

\* The threads whose frame was sent and whose release is yet to come.
Awaiting == {t \in Threads : pc[t] \in {"waiting", "deciding"} /\ sent[t] /\ ~acquired[t]}

\* Frames that the server has not released: in the queue, and the one it is busy with.
Ahead == outstanding + (IF server = "presented" THEN 1 ELSE 0)

\* The client is ahead of the server only by frames its threads wait for at this moment and
\* by those whose wait was given up, each of which also has to account for a release that
\* nobody has taken; neither threads that present at once nor frames that were given up and
\* came late change that.  MaxFrames has no part in it: the semaphore starts at 0, so that
\* while no wait is given up a thread blocks in each Present until its own frame is
\* through, and is at no time more than that frame ahead.  This is not what
\* global_options.h:381-383 says of the option, "the maximum latency in number of frames
\* the client can be ahead of the server before it blocks".
LeadIsAwaited == Ahead + count <= Cardinality(Awaiting) + missed

\* While the server is up and no call was given up, a release is only ever lost when
\* more threads present at once than the semaphore counts.
ReleasesArrive ==
  (missed = 0 /\ server # "down" /\ dropped > 0) => Cardinality(Threads) > MaxFrames

\* syncOnPresent reports success only to a thread that was released, though another
\* thread or the server's end may turn the bridge off at any point.
OkIsReleased == \A t \in Threads : pc[t] = "idle" /\ result[t] = "ok" => acquired[t]

\* What Present may wait for without an end: room in the queue, when timeouts are disabled
\* (or retried because the window is out of focus), and the release of a frame, for a call
\* that was made out of focus.  The end of the server does not free a thread from the first.
WaitsForRoom == Full /\ ~PushGivesUp /\ ~MutexIsFree

MayHang(t) ==
  \/ pc[t] \in {"sending", "pushing"} /\ WaitsForRoom
  \/ pc[t] = "waiting" /\ patient[t] /\ running /\ count = 0

\* Present returns whatever the server does, hang or die, unless it waits for ever in one
\* of those two places.
PresentReturns == \A t \in Threads : pc[t] # "idle" ~> (pc[t] = "idle" \/ []MayHang(t))
==============================================================================

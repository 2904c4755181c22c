-------------------------- MODULE PresentSyncProofs --------------------------
(***************************************************************************)
(* Proofs about PresentSync, for any number of threads, any maximum of the *)
(* semaphore and any number of retries.                                    *)
(*                                                                         *)
(* The argument: every frame that was sent is a token, which is in the     *)
(* queue, at the server, in the semaphore's count or dropped, and is there *)
(* for a thread that awaits it or for a call that was given up             *)
(* (Conservation).                                                         *)
(***************************************************************************)
EXTENDS PresentSync, FiniteSetTheorems, TLAPS

USE PresentAssumption DEF PresentAssumption

----------------------------------------------------------------------------
(* Types. *)

Place == {"idle", "sending", "pushing", "waiting", "deciding"}

\* A thread that waits has not used up its retries.
RetriesLeft == \A t \in Threads : pc[t] \in {"sending", "pushing", "waiting"} => numRetries[t] <= MaxRetries

TypeInv == TypeOK /\ RetriesLeft

LEMMA TypeInit == Init => TypeInv
<1> SUFFICES ASSUME Init PROVE TypeInv
  OBVIOUS
<1>1. /\ pc \in [Threads -> Place] /\ numRetries \in [Threads -> 0 .. MaxRetries + 1]
      /\ patient \in [Threads -> BOOLEAN] /\ sent \in [Threads -> BOOLEAN] /\ acquired \in [Threads -> BOOLEAN]
      /\ result \in [Threads -> {"ok", "timeout", "aborted"}] /\ RetriesLeft
  BY DEF Init, Starts, Place, RetriesLeft
<1>2. running \in BOOLEAN /\ timeoutsDisabled \in BOOLEAN /\ infiniteRetries \in BOOLEAN
  BY Zenon DEF Init, Starts
<1>4. presents \in 0 .. MaxPresents /\ otherCalls \in 0 .. MaxOthers /\ focusChanges \in 0 .. MaxFocus
  BY DEF Init, Starts
<1>3. /\ outstanding \in Nat /\ others \in Nat /\ outstanding + others <= QueueSlots
      /\ dropped \in Nat /\ missed \in Nat
      /\ server \in {"up", "presented", "down"} /\ count \in 0 .. MaxFrames
  BY DEF Init, Starts
<1> QED BY <1>1, <1>2, <1>3, <1>4 DEF TypeInv, TypeOK, Place

(* What one step does to the variables of a thread.                        *)
LEMMA CallTypes ==
  ASSUME TypeInv, NEW t \in Threads, Present(t) \/ Returning(t)
  PROVE  /\ pc' \in [Threads -> Place]
         /\ numRetries' \in [Threads -> 0 .. MaxRetries + 1]
         /\ patient' \in [Threads -> BOOLEAN]
         /\ sent' \in [Threads -> BOOLEAN] /\ acquired' \in [Threads -> BOOLEAN]
         /\ result' \in [Threads -> {"ok", "timeout", "aborted"}]
         /\ RetriesLeft'
<1> USE DEF TypeInv, TypeOK, Place, RetriesLeft
<1>1. CASE Present(t)
  BY <1>1 DEF Present
<1>2. CASE Send(t)
  BY <1>2 DEF Send, StartWait
<1>3. CASE SendNothing(t)
  BY <1>3 DEF SendNothing, StartWait
<1>8. CASE SendFails(t)
  BY <1>8 DEF SendFails, StartWait
<1>9. CASE Lock(t)
  BY <1>9 DEF Lock
<1>4. CASE WaitSucceeds(t)
  BY <1>4 DEF WaitSucceeds
<1>5. CASE BridgeIsOff(t)
  BY <1>5 DEF BridgeIsOff
<1>6. CASE WaitTimesOut(t)
  <2>1. /\ pc[t] = "waiting" /\ numRetries[t] \in 0 .. MaxRetries
        /\ numRetries' = [numRetries EXCEPT ![t] = numRetries[t] + 1]
        /\ UNCHANGED <<patient, sent, acquired, result>>
    BY <1>6 DEF WaitTimesOut
  <2>2. CASE numRetries[t] < MaxRetries
    <3>1. pc' = [pc EXCEPT ![t] = "waiting"]
      BY <1>6, <2>2 DEF WaitTimesOut
    <3>2. numRetries' \in [Threads -> 0 .. MaxRetries + 1] /\ numRetries'[t] <= MaxRetries
      BY <2>1, <2>2
    <3>3. \A u \in Threads \ {t} : pc'[u] = pc[u] /\ numRetries'[u] = numRetries[u]
      BY <2>1, <3>1
    <3> QED BY <2>1, <3>1, <3>2, <3>3
  <2>3. CASE numRetries[t] = MaxRetries
    <3>1. pc' = [pc EXCEPT ![t] = "deciding"]
      <4>1. ~(numRetries[t] < MaxRetries)
        BY <2>3
      <4> QED BY <1>6, <4>1 DEF WaitTimesOut
    <3>2. numRetries' \in [Threads -> 0 .. MaxRetries + 1]
      BY <2>1, <2>3
    <3>3. \A u \in Threads \ {t} : pc'[u] = pc[u] /\ numRetries'[u] = numRetries[u]
      BY <2>1, <3>1
    <3> QED BY <2>1, <3>1, <3>2, <3>3
  <2> QED BY <2>1, <2>2, <2>3
<1>7. CASE Return(t)
  <2>1. Outcome(t) \in {"ok", "timeout", "aborted"}
    BY DEF Outcome
  <2> QED BY <1>7, <2>1 DEF Return
<1> QED BY <1>1, <1>2, <1>3, <1>4, <1>5, <1>6, <1>7, <1>8, <1>9 DEF Returning

(* What it does to the client's options and counters.                      *)
ClientTyped ==
  /\ running \in BOOLEAN /\ timeoutsDisabled \in BOOLEAN /\ infiniteRetries \in BOOLEAN
  /\ presents \in 0 .. MaxPresents /\ otherCalls \in 0 .. MaxOthers /\ focusChanges \in 0 .. MaxFocus

LEMMA ClientTypes == TypeInv /\ [Next]_vars => ClientTyped'
<1> SUFFICES ASSUME TypeInv, [Next]_vars PROVE ClientTyped'
  OBVIOUS
<1> USE DEF TypeInv, TypeOK, ClientTyped, clientVars, optionVars
<1>1. ASSUME NEW t \in Threads, Present(t) PROVE ClientTyped'
  BY <1>1 DEF Present
<1>2. ASSUME NEW t \in Threads, Lock(t) \/ Send(t) \/ SendNothing(t) \/ SendFails(t) PROVE ClientTyped'
  BY <1>2 DEF Lock, Send, SendNothing, SendFails, StartWait
<1>3. ASSUME NEW t \in Threads, WaitSucceeds(t) \/ WaitTimesOut(t) \/ BridgeIsOff(t) \/ Return(t) PROVE ClientTyped'
  BY <1>3 DEF WaitSucceeds, WaitTimesOut, BridgeIsOff, Return
<1>4. CASE OtherCommand
  BY <1>4 DEF OtherCommand
<1>5. CASE OtherFails
  BY <1>5 DEF OtherFails
<1>6. CASE FocusChanges
  BY <1>6 DEF FocusChanges
<1>7. CASE ServerPresent \/ ServerTakes \/ ServerRelease \/ ServerDies
  BY <1>7 DEF ServerPresent, ServerTakes, ServerRelease, ServerDies
<1>8. CASE OnServerExited \/ UNCHANGED vars
  BY <1>8 DEF OnServerExited, vars
<1> QED BY <1>1, <1>2, <1>3, <1>4, <1>5, <1>6, <1>7, <1>8 DEF Next, Returning

(* And to the queue, the server, the semaphore and the frames given up.    *)
ServerTyped ==
  /\ outstanding \in Nat /\ others \in Nat /\ outstanding + others <= QueueSlots
  /\ dropped \in Nat /\ missed \in Nat
  /\ server \in {"up", "presented", "down"} /\ count \in 0 .. MaxFrames

LEMMA CountTypes == TypeInv /\ [Next]_vars => ServerTyped'
<1> SUFFICES ASSUME TypeInv, [Next]_vars PROVE ServerTyped'
  OBVIOUS
<1> USE DEF TypeInv, TypeOK, ServerTyped, serverVars
<1>1. ASSUME NEW t \in Threads, Present(t) \/ Lock(t) \/ SendNothing(t) \/ SendFails(t) PROVE ServerTyped'
  BY <1>1 DEF Present, Lock, SendNothing, SendFails, StartWait
<1>2. ASSUME NEW t \in Threads, Send(t) PROVE ServerTyped'
  BY <1>2 DEF Send, StartWait, Full
<1>4. ASSUME NEW t \in Threads, WaitSucceeds(t) PROVE ServerTyped'
  BY <1>4 DEF WaitSucceeds
<1>5. ASSUME NEW t \in Threads, WaitTimesOut(t) \/ BridgeIsOff(t) PROVE ServerTyped'
  BY <1>5 DEF WaitTimesOut, BridgeIsOff
<1>6. ASSUME NEW t \in Threads, Return(t) PROVE ServerTyped'
  BY <1>6 DEF Return
<1>11. CASE OtherCommand
  BY <1>11 DEF OtherCommand, Full
<1>12. CASE OtherFails \/ FocusChanges
  BY <1>12 DEF OtherFails, FocusChanges
<1>7. CASE ServerPresent
  BY <1>7 DEF ServerPresent
<1>13. CASE ServerTakes
  BY <1>13 DEF ServerTakes
<1>8. CASE ServerRelease
  <2>1. server' = "up" /\ UNCHANGED <<outstanding, others, missed>>
    BY <1>8 DEF ServerRelease
  <2>2. CASE count < MaxFrames
    BY <1>8, <2>1, <2>2 DEF ServerRelease
  <2>3. CASE ~(count < MaxFrames)
    BY <1>8, <2>1, <2>3 DEF ServerRelease
  <2> QED BY <2>2, <2>3
<1>9. CASE ServerDies
  <2>1. server' = "down" /\ UNCHANGED <<outstanding, others, count, missed>>
    BY <1>9 DEF ServerDies
  <2>2. dropped' \in Nat
    BY <1>9 DEF ServerDies
  <2> QED BY <2>1, <2>2
<1>10. CASE OnServerExited \/ UNCHANGED vars
  BY <1>10 DEF OnServerExited, vars
<1> QED BY <1>1, <1>2, <1>4, <1>5, <1>6, <1>7, <1>8, <1>9, <1>10, <1>11, <1>12, <1>13 DEF Next, Returning

(* The steps that are not of a call of Present.                            *)
Elsewhere ==
  \/ OtherCommand \/ OtherFails \/ FocusChanges
  \/ ServerPresent \/ ServerTakes \/ ServerRelease \/ ServerDies \/ OnServerExited
  \/ UNCHANGED vars

LEMMA CallsUnchanged == Elsewhere => UNCHANGED callVars
BY DEF Elsewhere, OtherCommand, OtherFails, FocusChanges, ServerPresent, ServerTakes, ServerRelease,
       ServerDies, OnServerExited, vars

LEMMA TypeNext == TypeInv /\ [Next]_vars => TypeInv'
<1> SUFFICES ASSUME TypeInv, [Next]_vars PROVE TypeInv'
  OBVIOUS
<1>0. ClientTyped' /\ ServerTyped'
  BY ClientTypes, CountTypes
<1>1. ASSUME NEW t \in Threads, Present(t) \/ Returning(t) PROVE TypeInv'
  BY <1>0, <1>1, CallTypes DEF TypeInv, TypeOK, Place, ClientTyped, ServerTyped
<1>2. CASE UNCHANGED callVars
  BY <1>0, <1>2 DEF TypeInv, TypeOK, RetriesLeft, callVars, ClientTyped, ServerTyped
<1>3. Elsewhere => UNCHANGED callVars
  BY CallsUnchanged
<1>4. Elsewhere \/ \E t \in Threads : Present(t) \/ Returning(t)
  BY DEF Next, Elsewhere
<1> QED BY <1>1, <1>2, <1>3, <1>4

(* Every variable keeps its type: the count never exceeds its maximum, and *)
(* the retries of syncOnPresent end.                                       *)
THEOREM TypeCorrect == Spec => []TypeOK
<1>1. TypeInv => TypeOK
  BY DEF TypeInv
<1> QED BY <1>1, TypeInit, TypeNext, PTL DEF Spec

----------------------------------------------------------------------------
(* Frames are not lost track of. *)

AtServer == IF server = "presented" THEN 1 ELSE 0

\* What the variables of a call say of each other.
CallsConsistent ==
  \A t \in Threads :
    /\ pc[t] \in {"sending", "pushing"} => ~sent[t] /\ ~acquired[t]
    /\ pc[t] = "waiting" => ~acquired[t]
    /\ pc[t] \in {"waiting", "deciding"} /\ ~sent[t] => ~running
    /\ pc[t] = "deciding" /\ ~acquired[t] => (~patient[t] /\ numRetries[t] >= MaxRetries) \/ ~running

\* Every frame that was sent is somewhere, for a thread or for a call that was given up.
Conservation == outstanding + AtServer + count + dropped = Cardinality(Awaiting) + missed

FrameInv == TypeInv /\ CallsConsistent /\ OkIsReleased /\ Conservation

LEMMA AwaitingFinite ==
  /\ IsFiniteSet(Awaiting) /\ Cardinality(Awaiting) \in Nat
  /\ Cardinality(Awaiting) <= Cardinality(Threads) /\ Cardinality(Threads) \in Nat
<1>1. Awaiting \subseteq Threads
  BY DEF Awaiting
<1> QED BY <1>1, FS_Subset, FS_CardinalityType

LEMMA FrameInit == Init => FrameInv
<1> SUFFICES ASSUME Init PROVE FrameInv
  OBVIOUS
<1>1. Awaiting = {}
  BY DEF Init, Starts, Awaiting
<1>2. Conservation
  BY <1>1, FS_EmptySet DEF Init, Starts, Conservation, AtServer
<1> QED BY <1>2, TypeInit DEF Init, Starts, FrameInv, CallsConsistent, OkIsReleased

(* Calls that are under way agree with the bridge, which once off stays    *)
(* off, and success is only reported after a release.                      *)
LEMMA CallsNext ==
  ASSUME TypeInv, CallsConsistent, OkIsReleased, [Next]_vars
  PROVE  CallsConsistent' /\ OkIsReleased'
<1> USE DEF TypeInv, TypeOK, CallsConsistent, OkIsReleased
<1>1. ASSUME NEW t \in Threads, Present(t) PROVE CallsConsistent' /\ OkIsReleased'
  BY <1>1 DEF Present
<1>2. ASSUME NEW t \in Threads, Send(t) PROVE CallsConsistent' /\ OkIsReleased'
  BY <1>2 DEF Send, StartWait
<1>3. ASSUME NEW t \in Threads, SendNothing(t) \/ SendFails(t) PROVE CallsConsistent' /\ OkIsReleased'
  BY <1>3 DEF SendNothing, SendFails, StartWait
<1>10. ASSUME NEW t \in Threads, Lock(t) PROVE CallsConsistent' /\ OkIsReleased'
  BY <1>10 DEF Lock
<1>4. ASSUME NEW t \in Threads, WaitSucceeds(t) PROVE CallsConsistent' /\ OkIsReleased'
  BY <1>4 DEF WaitSucceeds
<1>5. ASSUME NEW t \in Threads, WaitTimesOut(t) PROVE CallsConsistent' /\ OkIsReleased'
  BY <1>5 DEF WaitTimesOut
<1>6. ASSUME NEW t \in Threads, BridgeIsOff(t) PROVE CallsConsistent' /\ OkIsReleased'
  BY <1>6 DEF BridgeIsOff
<1>7. ASSUME NEW t \in Threads, Return(t) PROVE CallsConsistent' /\ OkIsReleased'
  BY <1>7 DEF Return, Outcome
<1>8. ASSUME \/ OtherCommand \/ FocusChanges \/ ServerPresent \/ ServerTakes \/ ServerRelease
             \/ ServerDies \/ UNCHANGED vars
      PROVE  UNCHANGED <<callVars, running>>
  BY <1>8 DEF OtherCommand, FocusChanges, ServerPresent, ServerTakes, ServerRelease, ServerDies, vars
<1>9. ASSUME OtherFails \/ OnServerExited PROVE UNCHANGED callVars /\ ~running'
  BY <1>9 DEF OtherFails, OnServerExited
<1> QED BY <1>1, <1>2, <1>3, <1>4, <1>5, <1>6, <1>7, <1>8, <1>9, <1>10 DEF Next, Returning, callVars

(* Steps of a call that neither send a frame nor take a release.           *)
Unsent(t) == Present(t) \/ Lock(t) \/ SendNothing(t) \/ SendFails(t) \/ WaitTimesOut(t) \/ BridgeIsOff(t)

(* One more frame is awaited when it is sent, one less when a thread is    *)
(* released or gives up.                                                   *)
LEMMA AwaitingNext ==
  ASSUME TypeInv, CallsConsistent, NEW t \in Threads
  PROVE  /\ Send(t) => t \notin Awaiting /\ Awaiting' = Awaiting \cup {t}
         /\ WaitSucceeds(t) => t \in Awaiting /\ Awaiting' = Awaiting \ {t}
         /\ Return(t) /\ sent[t] /\ ~acquired[t] => t \in Awaiting /\ Awaiting' = Awaiting \ {t}
         /\ Return(t) /\ ~(sent[t] /\ ~acquired[t]) => Awaiting' = Awaiting
         /\ Unsent(t) => Awaiting' = Awaiting
<1> USE DEF TypeInv, TypeOK, CallsConsistent, Awaiting
<1>1. ASSUME Send(t) PROVE t \notin Awaiting /\ Awaiting' = Awaiting \cup {t}
  BY <1>1 DEF Send, StartWait
<1>2. ASSUME WaitSucceeds(t) PROVE t \in Awaiting /\ Awaiting' = Awaiting \ {t}
  BY <1>2 DEF WaitSucceeds
<1>3. ASSUME Return(t), sent[t] /\ ~acquired[t] PROVE t \in Awaiting /\ Awaiting' = Awaiting \ {t}
  BY <1>3 DEF Return
<1>4. ASSUME Return(t), ~(sent[t] /\ ~acquired[t]) PROVE Awaiting' = Awaiting
  BY <1>4 DEF Return
<1>5. ASSUME Present(t) PROVE Awaiting' = Awaiting
  BY <1>5 DEF Present
<1>6. ASSUME SendNothing(t) \/ SendFails(t) PROVE Awaiting' = Awaiting
  BY <1>6 DEF SendNothing, SendFails, StartWait
<1>9. ASSUME Lock(t) PROVE Awaiting' = Awaiting
  BY <1>9 DEF Lock
<1>7. ASSUME WaitTimesOut(t) PROVE Awaiting' = Awaiting
  BY <1>7 DEF WaitTimesOut
<1>8. ASSUME BridgeIsOff(t) PROVE Awaiting' = Awaiting
  BY <1>8 DEF BridgeIsOff
<1> QED BY <1>1, <1>2, <1>3, <1>4, <1>5, <1>6, <1>7, <1>8, <1>9 DEF Unsent

LEMMA ConservationNext ==
  ASSUME FrameInv, [Next]_vars
  PROVE  Conservation'
<1> DEFINE awaited == Cardinality(Awaiting)
<1> USE DEF FrameInv, TypeInv, TypeOK, Conservation, AtServer
<1>0. IsFiniteSet(Awaiting) /\ awaited \in Nat
  BY AwaitingFinite
<1>1. ASSUME NEW t \in Threads, Send(t) PROVE Conservation'
  <2>1. awaited' = awaited + 1
    BY <1>0, <1>1, AwaitingNext, FS_AddElement
  <2> QED BY <1>0, <1>1, <2>1 DEF Send, StartWait
<1>2. ASSUME NEW t \in Threads, WaitSucceeds(t) PROVE Conservation'
  <2>1. awaited' = awaited - 1
    BY <1>0, <1>2, AwaitingNext, FS_RemoveElement
  <2> QED BY <1>0, <1>2, <2>1 DEF WaitSucceeds
<1>3. ASSUME NEW t \in Threads, Return(t), sent[t] /\ ~acquired[t] PROVE Conservation'
  <2>1. awaited' = awaited - 1
    BY <1>0, <1>3, AwaitingNext, FS_RemoveElement
  <2>2. missed' = missed + 1 /\ UNCHANGED serverVars
    BY <1>3 DEF Return
  <2> QED BY <1>0, <2>1, <2>2 DEF serverVars
<1>4. ASSUME NEW t \in Threads, Return(t), ~(sent[t] /\ ~acquired[t]) PROVE Conservation'
  <2>1. awaited' = awaited
    BY <1>4, AwaitingNext
  <2>2. missed' = missed /\ UNCHANGED serverVars
    BY <1>4 DEF Return
  <2> QED BY <1>0, <2>1, <2>2 DEF serverVars
<1>5. ASSUME NEW t \in Threads, Unsent(t) PROVE Conservation'
  <2>1. awaited' = awaited
    BY <1>5, AwaitingNext
  <2>2. UNCHANGED <<serverVars, missed>>
    BY <1>5 DEF Unsent, Present, Lock, SendNothing, SendFails, StartWait, WaitTimesOut, BridgeIsOff
  <2> QED BY <1>0, <2>1, <2>2 DEF serverVars
<1>6. Elsewhere => awaited' = awaited /\ missed' = missed
  BY CallsUnchanged DEF Elsewhere, OtherCommand, OtherFails, FocusChanges, ServerPresent, ServerTakes,
     ServerRelease, ServerDies, OnServerExited, vars, callVars, Awaiting
<1>11. /\ outstanding + AtServer + count + dropped = awaited + missed
       /\ outstanding \in Nat /\ count \in Nat /\ dropped \in Nat /\ missed \in Nat /\ awaited \in Nat
       /\ Conservation' <=> outstanding' + AtServer' + count' + dropped' = awaited' + missed'
  BY <1>0
<1> HIDE DEF awaited, FrameInv, TypeInv, TypeOK, Conservation
<1>7. CASE ServerPresent
  <2>1. awaited' = awaited /\ missed' = missed
    BY <1>6, <1>7 DEF Elsewhere
  <2>2. /\ outstanding' = outstanding - 1 /\ count' = count /\ dropped' = dropped
        /\ AtServer = 0 /\ AtServer' = 1
    BY <1>7 DEF ServerPresent
  <2> QED BY <1>11, <2>1, <2>2
<1>8. CASE ServerRelease
  <2>1. awaited' = awaited /\ missed' = missed
    BY <1>6, <1>8 DEF Elsewhere
  <2>2. outstanding' = outstanding /\ AtServer = 1 /\ AtServer' = 0
    BY <1>8 DEF ServerRelease
  <2>3. \/ count' = count + 1 /\ dropped' = dropped
        \/ count' = count /\ dropped' = dropped + 1
    BY <1>8 DEF ServerRelease
  <2> QED BY <1>11, <2>1, <2>2, <2>3
<1>9. CASE ServerDies
  <2>1. awaited' = awaited /\ missed' = missed
    BY <1>6, <1>9 DEF Elsewhere
  <2>2. outstanding' = outstanding /\ count' = count /\ AtServer' = 0
    BY <1>9 DEF ServerDies
  <2>3. \/ AtServer = 1 /\ dropped' = dropped + 1
        \/ AtServer = 0 /\ dropped' = dropped
    BY <1>9 DEF ServerDies
  <2> QED BY <1>11, <2>1, <2>2, <2>3
<1>10. CASE OtherCommand \/ OtherFails \/ FocusChanges \/ ServerTakes \/ OnServerExited \/ UNCHANGED vars
  <2>1. awaited' = awaited /\ missed' = missed
    BY <1>6, <1>10 DEF Elsewhere
  <2>2. UNCHANGED <<outstanding, server, count, dropped>>
    BY <1>10 DEF OtherCommand, OtherFails, FocusChanges, ServerTakes, OnServerExited, vars, serverVars
  <2>3. AtServer' = AtServer
    BY <2>2
  <2> QED BY <1>11, <2>1, <2>2, <2>3
<1> QED BY <1>1, <1>2, <1>3, <1>4, <1>5, <1>7, <1>8, <1>9, <1>10 DEF Next, Returning, Unsent

LEMMA FrameNext == FrameInv /\ [Next]_vars => FrameInv'
<1> SUFFICES ASSUME FrameInv, [Next]_vars PROVE FrameInv'
  OBVIOUS
<1>1. TypeInv'
  BY TypeNext DEF FrameInv
<1>2. CallsConsistent' /\ OkIsReleased'
  BY CallsNext DEF FrameInv
<1> QED BY <1>1, <1>2, ConservationNext DEF FrameInv

(* The client is never further ahead of the server than the frames it      *)
(* waits for and those it gave up waiting for, with any number of threads, *)
(* a queue of any size and whatever the maximum of the semaphore: the      *)
(* maximum does not let it run ahead.                                      *)
THEOREM LeadAwaited == Spec => []LeadIsAwaited
<1>1. FrameInv => LeadIsAwaited
  BY AwaitingFinite DEF FrameInv, TypeInv, TypeOK, Conservation, AtServer, Ahead, LeadIsAwaited
<1> QED BY <1>1, FrameInit, FrameNext, PTL DEF Spec

(* Success means that the thread was released.                             *)
THEOREM SuccessIsReleased == Spec => []OkIsReleased
<1>1. FrameInv => OkIsReleased
  BY DEF FrameInv
<1> QED BY <1>1, FrameInit, FrameNext, PTL DEF Spec

(* A release finds room, unless more threads present than it counts: while *)
(* nothing was given up, there is a thread that awaits each one.           *)
THEOREM ReleasesFindRoom == Spec => []ReleasesArrive
<1>1. Init => ReleasesArrive
  BY DEF Init, Starts, ReleasesArrive
<1>2. FrameInv /\ ReleasesArrive /\ [Next]_vars => ReleasesArrive'
  <2> SUFFICES ASSUME FrameInv, ReleasesArrive, [Next]_vars,
                      missed' = 0, server' # "down", dropped' > 0
               PROVE  Cardinality(Threads) > MaxFrames
    BY DEF ReleasesArrive
  <2> USE DEF FrameInv, TypeInv, TypeOK
  <2>1. CASE ServerRelease /\ ~(count < MaxFrames)
    <3>1. missed = 0 /\ count = MaxFrames /\ AtServer = 1
      BY <2>1 DEF ServerRelease, AtServer
    <3>2. Cardinality(Awaiting) > MaxFrames
      BY <3>1, AwaitingFinite DEF Conservation
    <3> QED BY <3>2, AwaitingFinite
  <2>2. CASE ~(ServerRelease /\ ~(count < MaxFrames))
    <3>1. missed = 0 /\ server # "down" /\ dropped' = dropped
      <4>1. ASSUME NEW t \in Threads, Present(t) \/ Returning(t)
            PROVE  missed = 0 /\ UNCHANGED <<server, dropped>>
        <5>1. CASE Return(t)
          <6>1. missed' = missed + 1 \/ missed' = missed
            BY <5>1 DEF Return
          <6>2. missed \in Nat /\ UNCHANGED serverVars
            BY <5>1 DEF Return
          <6>3. missed' # missed + 1
            BY <6>2
          <6> QED BY <6>1, <6>2, <6>3 DEF serverVars
        <5>2. CASE ~Return(t)
          BY <4>1, <5>2 DEF Returning, Present, Lock, Send, SendNothing, SendFails, StartWait, WaitSucceeds, WaitTimesOut, BridgeIsOff, serverVars
        <5> QED BY <5>1, <5>2
      <4>2. CASE \/ OtherCommand \/ OtherFails \/ FocusChanges \/ ServerPresent \/ ServerTakes
                 \/ OnServerExited \/ UNCHANGED vars
        BY <4>2 DEF OtherCommand, OtherFails, FocusChanges, ServerPresent, ServerTakes, OnServerExited,
                    serverVars, vars
      <4>3. CASE ServerRelease
        BY <2>2, <4>3 DEF ServerRelease
      <4>4. CASE ServerDies
        BY <4>4 DEF ServerDies
      <4> QED BY <4>1, <4>2, <4>3, <4>4 DEF Next
    <3> QED BY <3>1 DEF ReleasesArrive
  <2> QED BY <2>1, <2>2
<1> QED BY <1>1, <1>2, FrameInit, FrameNext, PTL DEF Spec
==============================================================================

------------------------- MODULE RenderPipelineProofs -------------------------
(***************************************************************************)
(* Proofs about RenderPipeline, for any number of commands, limit of       *)
(* queued command buffers and size of the recycler, with and without       *)
(* failures.                                                               *)
(*                                                                         *)
(* ListInv says where command lists are: each is in one place, and what    *)
(* executes is in the finish queue or is just being submitted.  TokenInv   *)
(* follows the blit and the present of a frame through the command stream: *)
(* there is one of each at most, so that a blit finds its list.  DrainInv  *)
(* is what each step of CreatePresenter has reached.  UseInv relates the   *)
(* uses of the resource to the numbers of the chunks they are in and to    *)
(* what the lists hold.                                                    *)
(***************************************************************************)
EXTENDS RenderPipeline, SequenceTheorems, FiniteSetTheorems, TLAPS

USE QueueAssumption, PipelineAssumption DEF QueueAssumption, PipelineAssumption, Lists

----------------------------------------------------------------------------
(* The strengthening. *)

Distinct(s) == \A i, j \in 1 .. Len(s) : s[i] = s[j] => i = j

\* The lists that are submitted and not yet let go.
Counted == (Elements(submitQueue) \ {Present}) \cup Elements(finishQueue)

\* The lists outside of the queues.
Spare == {recording, blitList} \cup Elements(recycled)

Placed ==
  /\ Distinct(finishQueue) /\ Distinct(recycled)
  /\ \A i, j \in 1 .. Len(submitQueue) : submitQueue[i] = submitQueue[j] /\ submitQueue[i] # Present => i = j
  /\ Elements(submitQueue) \cap Elements(finishQueue) = {}
  /\ Spare \cap Counted = {}
  /\ recording # blitList /\ recording \notin Elements(recycled) /\ blitList \notin Elements(recycled)
  /\ finisher = "recycle" => finishList \notin Spare \cup Counted
  /\ \A l \in Spare \cup Counted \cup {finishList} : l <= created

\* The list that the submit thread has handed to the GPU and not yet to the finish thread.
HandedOver == IF submitter = "executed" /\ submitStatus = "success" THEN {submitQueue[1]} ELSE {}

Threads ==
  /\ submitter # "idle" => submitQueue # <<>>
  /\ submitStatus = "outofdate" => submitter = "executed" /\ submitQueue[1] = Present
  /\ finisher \in {"fence", "idling", "notify", "pop"} => finishQueue # <<>> /\ finishList = finishQueue[1]
  /\ finisher \in {"notify", "pop"} => finishList \notin gpu
  /\ gpu \subseteq Elements(finishQueue) \cup HandedOver

Counting == IsFiniteSet(Counted) /\ pending = Cardinality(Counted)

ListInv == Placed /\ Threads /\ Counting

\* A chunk's blit and present.
HasToken(s) == \E i \in 1 .. Len(s) : s[i] \in {"blit", "present"}
HasBlit(s) == \E i \in 1 .. Len(s) : s[i] = "blit"

InOrder(s) ==
  \A i, j \in 1 .. Len(s) :
    /\ s[i] = "blit" /\ s[j] = "blit" => i = j
    /\ s[i] = "present" /\ s[j] \in {"blit", "present"} => j <= i

NoTokens == ~HasToken(csRest) /\ \A i \in 1 .. Len(csQueue) : ~HasToken(csQueue[i])

\* The presents in the submission queue that are yet to be executed.
Presenting == {i \in 1 .. Len(submitQueue) : submitQueue[i] = Present /\ (i > 1 \/ submitter \in {"idle", "taken"})}

StreamTokens ==
  /\ InOrder(csRest) /\ \A i \in 1 .. Len(csQueue) : InOrder(csQueue[i])
  /\ \A i, j \in 1 .. Len(csQueue) : HasToken(csQueue[i]) /\ HasToken(csQueue[j]) => i = j
  /\ HasToken(csRest) => \A i \in 1 .. Len(csQueue) : ~HasToken(csQueue[i])
  /\ HasBlit(csRest) => blitList # 0
  /\ \A i \in 1 .. Len(csQueue) : HasBlit(csQueue[i]) => blitList # 0

PresentTokens ==
  /\ presentStatus # "notready" => NoTokens /\ Presenting = {}
  /\ Presenting # {} => NoTokens
  /\ \A i, j \in Presenting : i = j

TokenInv == chunk \in Seq(Accesses) /\ StreamTokens /\ PresentTokens

DrainInv ==
  /\ ~csBusy => csRest = <<>>
  /\ dispatched = executed + Len(csQueue) + (IF csBusy THEN 1 ELSE 0)
  /\ app \in {"drainstream", "drainqueue", "drainlock", "draingpu", "drained"} => chunk = <<>>
  /\ app = "drainstream" => target = dispatched
  /\ app \in {"drainqueue", "drainlock", "draingpu", "drained"} => csQueue = <<>> /\ ~csBusy
  /\ app \in {"drainlock", "draingpu", "drained"} => submitQueue = <<>>
  /\ app = "drained" => gpu = {}

Busy == IF csBusy THEN 1 ELSE 0
Uses(s) == AheadOf(s) # {}

\* Lists that track the resource are recorded, counted or being recycled, and those the GPU is
\* yet to execute also hold it.
Trackers ==
  /\ \A h \in tracked : h[1] \in {recording} \cup Counted \/ (finisher = "recycle" /\ h[1] = finishList)
  /\ \A h \in tracked : h[1] \in Unfinished => h \in holds

\* The use in a chunk is no later than the last.
Numbered ==
  /\ Uses(chunk) => lastUse = dispatched + 1
  /\ \A i \in 1 .. Len(csQueue) : Uses(csQueue[i]) => executed + Busy + i <= lastUse
  /\ Uses(csRest) => executed + 1 <= lastUse

\* What a map that looks once has reached.
Waited ==
  /\ app \in {"synced", "flushed"} => target = lastUse
  /\ app \in {"recheck", "wait", "waiting", "mapped"} => lastUse <= executed
  /\ app \in {"synced", "flushed", "recheck", "wait", "waiting", "mapped"} => ~Uses(chunk)
  /\ app = "mapped" => ~IsInUse(access)

UseInv == Trackers /\ Numbered /\ (Rereads \/ Waited)

IInv == TypeOK /\ ListInv /\ TokenInv /\ DrainInv /\ UseInv
----------------------------------------------------------------------------
(* Sequences. *)

LEMMA Lengths ==
  ASSUME NEW S, NEW s \in Seq(S)
  PROVE  /\ Len(s) \in Nat /\ (s = <<>> <=> Len(s) = 0) /\ (s # <<>> => Len(s) > 0 /\ Head(s) = s[1])
         /\ \A i \in 1 .. Len(s) : s[i] \in S /\ s[i] \in Elements(s)
         /\ Elements(s) \subseteq S /\ (s = <<>> <=> Elements(s) = {})
<1>1. Len(s) \in Nat /\ (s = <<>> <=> Len(s) = 0) /\ (s # <<>> => Len(s) > 0 /\ Head(s) = s[1])
  OBVIOUS
<1>2. \A i \in 1 .. Len(s) : s[i] \in S
  OBVIOUS
<1>3. \A i \in 1 .. Len(s) : s[i] \in Elements(s)
  BY DEF Elements
<1>4. Elements(s) \subseteq S
  BY <1>2 DEF Elements
<1>5. Elements(s) = {} => s = <<>>
  <2>1. s # <<>> => 1 \in 1 .. Len(s)
    BY <1>1
  <2> QED BY <1>3, <2>1
<1>6. s = <<>> => Elements(s) = {}
  BY <1>1 DEF Elements
<1> QED BY <1>1, <1>2, <1>3, <1>4, <1>5, <1>6

LEMMA ElementsAppend ==
  ASSUME NEW S, NEW s \in Seq(S), NEW x \in S
  PROVE  /\ Append(s, x) \in Seq(S)
         /\ Elements(Append(s, x)) = Elements(s) \cup {x}
         /\ Len(Append(s, x)) = Len(s) + 1
         /\ \A i \in 1 .. Len(s) : Append(s, x)[i] = s[i]
         /\ Append(s, x)[Len(s) + 1] = x
<1>1. /\ Append(s, x) \in Seq(S)
      /\ Len(Append(s, x)) = Len(s) + 1
      /\ \A i \in 1 .. Len(s) : Append(s, x)[i] = s[i]
      /\ Append(s, x)[Len(s) + 1] = x
  BY AppendProperties
<1>2. Len(s) \in Nat
  OBVIOUS
<1>3. ASSUME NEW y \in Elements(Append(s, x)) PROVE y \in Elements(s) \cup {x}
  BY <1>1, <1>2, <1>3 DEF Elements
<1>4. ASSUME NEW y \in Elements(s) \cup {x} PROVE y \in Elements(Append(s, x))
  BY <1>1, <1>2, <1>4 DEF Elements
<1> QED BY <1>1, <1>3, <1>4

LEMMA ElementsTail ==
  ASSUME NEW S, NEW s \in Seq(S), s # <<>>
  PROVE  /\ Tail(s) \in Seq(S) /\ Head(s) \in S
         /\ Elements(s) = {Head(s)} \cup Elements(Tail(s))
         /\ Len(s) \in Nat /\ Len(s) > 0 /\ Len(Tail(s)) = Len(s) - 1 /\ Head(s) = s[1]
         /\ \A i \in 1 .. Len(Tail(s)) : i + 1 \in 1 .. Len(s) /\ Tail(s)[i] = s[i + 1]
<1>1. /\ Tail(s) \in Seq(S) /\ Head(s) \in S /\ Len(Tail(s)) = Len(s) - 1
      /\ \A i \in 1 .. Len(Tail(s)) : Tail(s)[i] = s[i + 1]
  BY HeadTailProperties
<1>2. Len(s) \in Nat /\ Len(s) > 0 /\ Head(s) = s[1]
  OBVIOUS
<1>3. ASSUME NEW y \in Elements(s) PROVE y \in {Head(s)} \cup Elements(Tail(s))
  <2>1. PICK i \in 1 .. Len(s) : y = s[i]
    BY <1>3 DEF Elements
  <2>2. i = 1 \/ (i - 1 \in 1 .. Len(Tail(s)) /\ Tail(s)[i - 1] = s[i])
    BY <1>1, <1>2
  <2> QED BY <1>2, <2>1, <2>2 DEF Elements
<1>4. ASSUME NEW y \in {Head(s)} \cup Elements(Tail(s)) PROVE y \in Elements(s)
  BY <1>1, <1>2, <1>4 DEF Elements
<1>5. \A i \in 1 .. Len(Tail(s)) : i + 1 \in 1 .. Len(s)
  BY <1>1, <1>2
<1> QED BY <1>1, <1>2, <1>3, <1>4, <1>5

LEMMA DistinctAppend ==
  ASSUME NEW S, NEW s \in Seq(S), NEW x \in S, Distinct(s), x \notin Elements(s)
  PROVE  Distinct(Append(s, x))
<1>1. /\ Len(s) \in Nat /\ Len(Append(s, x)) = Len(s) + 1
      /\ \A i \in 1 .. Len(s) : Append(s, x)[i] = s[i] /\ s[i] # x
      /\ Append(s, x)[Len(s) + 1] = x
  BY ElementsAppend, Lengths
<1>2. \A i \in 1 .. Len(s) + 1 : i \in 1 .. Len(s) \/ i = Len(s) + 1
  BY <1>1
<1> QED BY <1>1, <1>2 DEF Distinct

LEMMA DistinctTail ==
  ASSUME NEW S, NEW s \in Seq(S), s # <<>>, Distinct(s)
  PROVE  Distinct(Tail(s)) /\ Head(s) \notin Elements(Tail(s))
<1>1. /\ Len(s) \in Nat /\ Len(s) > 0 /\ Head(s) = s[1] /\ 1 \in 1 .. Len(s)
      /\ \A i \in 1 .. Len(Tail(s)) : i + 1 \in 1 .. Len(s) /\ i + 1 # 1 /\ Tail(s)[i] = s[i + 1]
  BY ElementsTail
<1>2. \A i, j \in 1 .. Len(Tail(s)) : i + 1 = j + 1 => i = j
  OBVIOUS
<1> QED BY <1>1, <1>2 DEF Distinct, Elements

\* The list recycled last is taken off.
LEMMA LastOff ==
  ASSUME NEW S, NEW s \in Seq(S), s # <<>>
  PROVE  /\ s[Len(s)] \in S /\ s[Len(s)] \in Elements(s)
         /\ SubSeq(s, 1, Len(s) - 1) \in Seq(S)
         /\ Elements(SubSeq(s, 1, Len(s) - 1)) \subseteq Elements(s)
         /\ Distinct(s) => /\ Distinct(SubSeq(s, 1, Len(s) - 1))
                           /\ s[Len(s)] \notin Elements(SubSeq(s, 1, Len(s) - 1))
<1> DEFINE n == Len(s) - 1
           t == SubSeq(s, 1, n)
<1>1. Len(s) \in Nat /\ Len(s) > 0 /\ n \in Nat /\ n < Len(s) /\ Len(s) \in 1 .. Len(s)
  BY Lengths
<1>2. \A i \in 1 .. n : i \in 1 .. Len(s) /\ i # Len(s) /\ s[i] \in S
  BY <1>1
<1>3. t \in Seq(S) /\ Len(t) = n /\ \A i \in 1 .. n : t[i] = s[i]
  <2> HIDE DEF n
  <2>1. 1 \in Int /\ n \in Int /\ \A i \in 1 .. n : s[i] \in S
    BY <1>1, <1>2
  <2>2. /\ SubSeq(s, 1, n) \in Seq(S)
        /\ Len(SubSeq(s, 1, n)) = IF 1 <= n THEN n - 1 + 1 ELSE 0
        /\ \A i \in 1 .. n - 1 + 1 : SubSeq(s, 1, n)[i] = s[1 + i - 1]
    BY <2>1, SubSeqProperties
  <2>3. n - 1 + 1 = n /\ \A i \in 1 .. n : 1 + i - 1 = i
    BY <1>1
  <2> QED BY <1>1, <2>2, <2>3
<1> HIDE DEF t
<1>4. Elements(t) \subseteq Elements(s)
  BY <1>2, <1>3 DEF Elements
<1>5. Distinct(s) => Distinct(t) /\ s[Len(s)] \notin Elements(t)
  BY <1>1, <1>2, <1>3 DEF Distinct, Elements
<1>6. s[Len(s)] \in S /\ s[Len(s)] \in Elements(s)
  BY <1>1 DEF Elements
<1> QED BY <1>3, <1>4, <1>5, <1>6 DEF t

----------------------------------------------------------------------------
(* Types. *)

SeqsTyped ==
  /\ recycled \in Seq(Lists) /\ submitQueue \in Seq(Entries) /\ finishQueue \in Seq(Lists)
  /\ chunk \in Seq(Commands) /\ csQueue \in Seq(Seq(Commands)) /\ csRest \in Seq(Commands)

WordsTyped ==
  /\ tracked \subseteq Lists \X Accesses /\ holds \subseteq Lists \X Accesses
  /\ created \in Lists /\ pending \in Nat
  /\ lastError \in {"success", "lost", "error"}
  /\ submitter \in {"idle", "taken", "executed", "selflocked"}
  /\ submitStatus \in {"success", "lost", "error", "outofdate"}
  /\ presentStatus \in {"success", "lost", "outofdate", "notready"}
  /\ finisher \in {"idle", "fence", "idling", "notify", "pop", "recycle"} /\ finishList \in Lists
  /\ queueLocked \in BOOLEAN /\ sleeping \subseteq {"app", "cs"}
  /\ gpu \subseteq Lists /\ lost \in BOOLEAN
  /\ recorded \in 0 .. MaxCommands
  /\ dispatched \in Nat /\ executed \in Nat /\ lastUse \in Nat /\ target \in Nat
  /\ csBusy \in BOOLEAN /\ recording \in Lists /\ blitList \in Lists \cup {0}
  /\ app \in AppStates /\ access \in Accesses

LEMMA TypeParts == TypeOK <=> SeqsTyped /\ WordsTyped
  BY DEF TypeOK, QueueTypeOK, SeqsTyped, WordsTyped

LEMMA DispatchTyped ==
  ASSUME TypeOK, NEW cs \in Seq(Commands), Dispatch(cs)
  PROVE  /\ chunk' \in Seq(Commands) /\ csQueue' \in Seq(Seq(Commands)) /\ dispatched' \in Nat
         /\ chunk' = <<>>
         /\ \/ chunk \o cs = <<>> /\ csQueue' = csQueue /\ dispatched' = dispatched
            \/ chunk \o cs # <<>> /\ csQueue' = Append(csQueue, chunk \o cs) /\ dispatched' = dispatched + 1
<1>0. SeqsTyped /\ dispatched \in Nat
  BY TypeParts DEF WordsTyped
<1>1. chunk \o cs \in Seq(Commands)
  BY <1>0, ConcatProperties DEF SeqsTyped
<1>2. chunk' = <<>> /\ <<>> \in Seq(Commands)
  BY DEF Dispatch
<1>3. CASE chunk \o cs = <<>>
  BY <1>0, <1>2, <1>3 DEF Dispatch, SeqsTyped
<1>4. CASE chunk \o cs # <<>>
  <2>1. csQueue' = Append(csQueue, chunk \o cs) /\ dispatched' = dispatched + 1
    BY <1>4 DEF Dispatch
  <2>2. Append(csQueue, chunk \o cs) \in Seq(Seq(Commands))
    BY <1>0, <1>1, ElementsAppend DEF SeqsTyped
  <2> QED BY <1>0, <1>2, <1>4, <2>1, <2>2
<1> QED BY <1>3, <1>4

LEMMA CommandSeqs ==
  /\ <<>> \in Seq(Commands) /\ <<"flush">> \in Seq(Commands) /\ <<"blit", "present">> \in Seq(Commands)
  /\ \A a \in Accesses : a \in Commands
  BY DEF Commands

LEMMA NextListTyped ==
  ASSUME TypeOK
  PROVE  /\ NextList \in Lists
         /\ CreateCommandList => recycled' \in Seq(Lists) /\ created' \in Lists
<1>0. SeqsTyped /\ created \in Nat /\ created # 0
  BY TypeParts DEF WordsTyped
<1>1. CASE recycled = <<>>
  <2>1. created + 1 \in Nat /\ created + 1 # 0
    BY <1>0
  <2>2. NextList = created + 1 /\ (CreateCommandList => created' = created + 1 /\ recycled' = recycled)
    BY <1>1 DEF NextList, CreateCommandList
  <2> QED BY <1>0, <2>1, <2>2 DEF SeqsTyped
<1>2. CASE recycled # <<>>
  <2>1. recycled[Len(recycled)] \in Lists /\ SubSeq(recycled, 1, Len(recycled) - 1) \in Seq(Lists)
    BY <1>0, <1>2, LastOff DEF SeqsTyped
  <2> QED BY <1>0, <1>2, <2>1 DEF NextList, CreateCommandList
<1> QED BY <1>1, <1>2

LEMMA BlitFound ==
  ASSUME TypeOK, TokenInv, csRest # <<>>, Head(csRest) = "blit"
  PROVE  blitList # 0
<1>1. 1 \in 1 .. Len(csRest) /\ csRest[1] = "blit"
  BY TypeParts, Lengths DEF SeqsTyped
<1>2. HasBlit(csRest)
  BY <1>1 DEF HasBlit
<1> QED BY <1>2 DEF TokenInv, StreamTokens

LEMMA SeqsNext ==
  ASSUME TypeOK, ListInv, TokenInv, [Next]_vars
  PROVE  SeqsTyped'
<1> USE DEF SeqsTyped, allQueueVars, listVars, queueVars, submitVars, finishVars, gpuVars, streamVars,
csVars, appVars
<1>0. SeqsTyped /\ WordsTyped
  BY TypeParts
<1>1. ASSUME NEW a \in Accesses, Draw(a) PROVE SeqsTyped'
  <2>1. Append(chunk, a) \in Seq(Commands)
    BY <1>0, CommandSeqs, ElementsAppend
  <2> QED BY <1>0, <1>1, <2>1 DEF Draw, CanRecord
<1>2. CASE FlushCsChunk
  BY <1>0, <1>2, DispatchTyped, CommandSeqs DEF FlushCsChunk
<1>3. CASE Flush
  BY <1>0, <1>3, DispatchTyped, CommandSeqs DEF Flush, CanRecord
<1>4. CASE BeginPresent
  BY <1>0, <1>4, DispatchTyped, CommandSeqs DEF BeginPresent, CanRecord
<1>5. CASE SubmitPresent
  BY <1>0, <1>5, DispatchTyped, NextListTyped, CommandSeqs DEF SubmitPresent
<1>6. CASE MapSync
  BY <1>0, <1>6, DispatchTyped, CommandSeqs DEF MapSync
<1>7. CASE MapFlush
  BY <1>0, <1>7, DispatchTyped, CommandSeqs DEF MapFlush
<1>8. CASE DrainStream
  BY <1>0, <1>8, DispatchTyped, CommandSeqs DEF DrainStream
<1>9. CASE CsNext
  <2>1. csQueue # <<>> => Head(csQueue) \in Seq(Commands) /\ Tail(csQueue) \in Seq(Seq(Commands))
    BY <1>0, ElementsTail
  <2> QED BY <1>0, <1>9, <2>1 DEF CsNext
<1>10. CASE CsUse
  <2>1. csRest # <<>> => Tail(csRest) \in Seq(Commands)
    BY <1>0, ElementsTail
  <2> QED BY <1>0, <1>10, <2>1 DEF CsUse
<1>11. CASE CsFlush
  <2>1. Tail(csRest) \in Seq(Commands) /\ recording \in Entries
    BY <1>0, <1>11, ElementsTail DEF CsFlush, WordsTyped, Entries
  <2>2. Append(submitQueue, recording) \in Seq(Entries)
    BY <1>0, <2>1, ElementsAppend
  <2>3. recycled' \in Seq(Lists)
    BY <1>11, NextListTyped DEF CsFlush
  <2> QED BY <1>0, <1>11, <2>1, <2>2, <2>3 DEF CsFlush, Submit
<1>12. CASE CsBlit
  <2>1. csRest # <<>> /\ Head(csRest) = "blit"
    BY <1>12 DEF CsBlit
  <2>2. blitList # 0
    BY <1>0, <2>1, BlitFound
  <2>3. Tail(csRest) \in Seq(Commands) /\ blitList \in Entries
    BY <1>0, <2>1, <2>2, ElementsTail DEF WordsTyped, Entries
  <2>4. Append(submitQueue, blitList) \in Seq(Entries)
    BY <1>0, <2>3, ElementsAppend
  <2> QED BY <1>0, <1>12, <2>3, <2>4 DEF CsBlit, Submit
<1>13. CASE CsPresent
  <2>1. Tail(csRest) \in Seq(Commands) /\ Present \in Entries
    BY <1>0, <1>13, ElementsTail DEF CsPresent, Entries
  <2>2. Append(submitQueue, Present) \in Seq(Entries)
    BY <1>0, <2>1, ElementsAppend
  <2> QED BY <1>0, <1>13, <2>1, <2>2 DEF CsPresent, QueuePresent
<1>14. CASE QueueStep(SubmitRetires)
  <2>1. submitQueue # <<>>
    BY <1>14 DEF QueueStep, SubmitRetires, ListInv, Threads
  <2>2. Tail(submitQueue) \in Seq(Entries) /\ Head(submitQueue) \in Entries
    BY <1>0, <2>1, ElementsTail
  <2>3. Head(submitQueue) # Present => Append(finishQueue, Head(submitQueue)) \in Seq(Lists)
    BY <1>0, <2>2, ElementsAppend DEF Entries
  <2> QED BY <1>0, <1>14, <2>2, <2>3 DEF QueueStep, SubmitRetires
<1>15. CASE QueueStep(FinishPop)
  <2>1. finishQueue # <<>>
    BY <1>15 DEF QueueStep, FinishPop, ListInv, Threads
  <2>2. Tail(finishQueue) \in Seq(Lists)
    BY <1>0, <2>1, ElementsTail
  <2> QED BY <1>0, <1>15, <2>2 DEF QueueStep, FinishPop
<1>16. CASE QueueStep(FinishRecycle)
  <2>1. Append(recycled, finishList) \in Seq(Lists)
    BY <1>0, ElementsAppend DEF WordsTyped
  <2> QED BY <1>0, <1>16, <2>1 DEF QueueStep, FinishRecycle
<1>17. CASE UNCHANGED <<recycled, submitQueue, finishQueue, chunk, csQueue, csRest>>
  BY <1>0, <1>17
<1> QED
  BY <1>1, <1>2, <1>3, <1>4, <1>5, <1>6, <1>7, <1>8, <1>9, <1>10, <1>11, <1>12, <1>13, <1>14, <1>15,
     <1>16, <1>17
   DEF Next, AppStep, CsStep, QueueStep, SubmitStep, FinishStep, Map, CreatePresenter, MapRecheck,
       MapRefused, MapReturns, MapWaits, MapSleeps, Unmap, Synchronized, DrainQueue, DrainLock, DrainGpu,
       PresenterCreated, RecreateSwapChain, CsSleeps, SubmitTake, SubmitExecute, SubmitFails, FinishTake,
       FinishFence,
       FinishFenceFails, FinishIdle, FinishNotify, DeviceLost, GpuCompletes, CanRecord, SubmitSleeps,
       ResourceSleeps, vars

LEMMA WordsNext ==
  ASSUME TypeOK, ListInv, TokenInv, [Next]_vars
  PROVE  WordsTyped'
<1> USE DEF allQueueVars, listVars, queueVars, submitVars, finishVars, gpuVars, streamVars, csVars, appVars
<1>0. SeqsTyped /\ WordsTyped
  BY TypeParts
<1>1. ASSUME CreateCommandList PROVE NextList \in Lists /\ created' \in Lists
  BY <1>1, NextListTyped
<1>2. created' \in Lists /\ recording' \in Lists /\ blitList' \in Lists \cup {0}
  <2> USE <1>0 DEF WordsTyped
  <2>1. CASE SubmitPresent
    BY <1>1, <2>1 DEF SubmitPresent
  <2>2. CASE CsFlush
    BY <1>1, <2>2 DEF CsFlush
  <2>3. CASE CsBlit
    BY <2>3 DEF CsBlit
  <2>4. CASE UNCHANGED <<created, recording, blitList>>
    BY <2>4
  <2> QED
    BY <2>1, <2>2, <2>3, <2>4
   DEF Next, AppStep, CsStep, QueueStep, SubmitStep, FinishStep, Draw, Map, FlushCsChunk, Flush,
       BeginPresent, CreatePresenter, MapSync, MapRecheck, MapRefused, MapFlush, MapReturns, MapWaits,
       MapSleeps, Unmap, Synchronized, DrainStream, DrainQueue, DrainLock, DrainGpu, PresenterCreated,
       RecreateSwapChain,
       CsNext, CsUse, CsSleeps, CsPresent, SubmitTake, SubmitExecute, SubmitRetires, SubmitFails,
       FinishTake, FinishFence, FinishFenceFails, FinishIdle, FinishNotify, FinishPop, FinishRecycle,
       DeviceLost, GpuCompletes, CanRecord, Submit, SubmitSleeps, QueuePresent, ResourceSleeps, vars
<1>3. dispatched' \in Nat /\ executed' \in Nat /\ lastUse' \in Nat /\ target' \in Nat
  <2>1. dispatched' = dispatched \/ dispatched' = dispatched + 1
    BY DEF Next, AppStep, CsStep, QueueStep, SubmitStep, FinishStep, Draw, Map, FlushCsChunk, Flush,
       BeginPresent, CreatePresenter, SubmitPresent, MapSync, MapRecheck, MapRefused, MapFlush, MapReturns,
       MapWaits, MapSleeps, Unmap, Synchronized, DrainStream, DrainQueue, DrainLock, DrainGpu,
       PresenterCreated, RecreateSwapChain, CsNext, CsUse, CsFlush, CsBlit, CsSleeps, CsPresent,
       SubmitTake, SubmitExecute,
       SubmitRetires, SubmitFails, FinishTake, FinishFence, FinishFenceFails, FinishIdle, FinishNotify,
       FinishPop, FinishRecycle, DeviceLost, GpuCompletes, CanRecord, Submit, SubmitSleeps, QueuePresent,
       ResourceSleeps, Dispatch, vars
  <2>2. executed' = executed \/ executed' = executed + 1
    BY DEF Next, AppStep, CsStep, QueueStep, SubmitStep, FinishStep, Draw, Map, FlushCsChunk, Flush,
       BeginPresent, CreatePresenter, SubmitPresent, MapSync, MapRecheck, MapRefused, MapFlush, MapReturns,
       MapWaits, MapSleeps, Unmap, Synchronized, DrainStream, DrainQueue, DrainLock, DrainGpu,
       PresenterCreated, RecreateSwapChain, CsNext, CsUse, CsFlush, CsBlit, CsSleeps, CsPresent,
       SubmitTake, SubmitExecute,
       SubmitRetires, SubmitFails, FinishTake, FinishFence, FinishFenceFails, FinishIdle, FinishNotify,
       FinishPop, FinishRecycle, DeviceLost, GpuCompletes, CanRecord, Submit, SubmitSleeps, QueuePresent,
       ResourceSleeps, vars
  <2>3. lastUse' = lastUse \/ lastUse' = dispatched + 1
    BY DEF Next, AppStep, CsStep, QueueStep, SubmitStep, FinishStep, Draw, Map, FlushCsChunk, Flush,
       BeginPresent, CreatePresenter, SubmitPresent, MapSync, MapRecheck, MapRefused, MapFlush, MapReturns,
       MapWaits, MapSleeps, Unmap, Synchronized, DrainStream, DrainQueue, DrainLock, DrainGpu,
       PresenterCreated, RecreateSwapChain, CsNext, CsUse, CsFlush, CsBlit, CsSleeps, CsPresent,
       SubmitTake, SubmitExecute,
       SubmitRetires, SubmitFails, FinishTake, FinishFence, FinishFenceFails, FinishIdle, FinishNotify,
       FinishPop, FinishRecycle, DeviceLost, GpuCompletes, CanRecord, Submit, SubmitSleeps, QueuePresent,
       ResourceSleeps, vars
  <2>4. target' \in {target, 0, lastUse, dispatched'}
    BY DEF Next, AppStep, CsStep, QueueStep, SubmitStep, FinishStep, Draw, Map, FlushCsChunk, Flush,
       BeginPresent, CreatePresenter, SubmitPresent, MapSync, MapRecheck, MapRefused, MapFlush, MapReturns,
       MapWaits, MapSleeps, Unmap, Synchronized, DrainStream, DrainQueue, DrainLock, DrainGpu,
       PresenterCreated, RecreateSwapChain, CsNext, CsUse, CsFlush, CsBlit, CsSleeps, CsPresent,
       SubmitTake, SubmitExecute,
       SubmitRetires, SubmitFails, FinishTake, FinishFence, FinishFenceFails, FinishIdle, FinishNotify,
       FinishPop, FinishRecycle, DeviceLost, GpuCompletes, CanRecord, Submit, SubmitSleeps, QueuePresent,
       ResourceSleeps, vars
  <2> QED BY <1>0, <2>1, <2>2, <2>3, <2>4 DEF WordsTyped
<1>4. recorded' \in 0 .. MaxCommands
  <2>1. recorded' = recorded \/ \E n \in {1, 3} : recorded' = recorded + n /\ recorded + n <= MaxCommands
    BY DEF Next, AppStep, CsStep, QueueStep, SubmitStep, FinishStep, Draw, Map, FlushCsChunk, Flush,
       BeginPresent, CreatePresenter, SubmitPresent, MapSync, MapRecheck, MapRefused, MapFlush, MapReturns,
       MapWaits, MapSleeps, Unmap, Synchronized, DrainStream, DrainQueue, DrainLock, DrainGpu,
       PresenterCreated, RecreateSwapChain, CsNext, CsUse, CsFlush, CsBlit, CsSleeps, CsPresent,
       SubmitTake, SubmitExecute,
       SubmitRetires, SubmitFails, FinishTake, FinishFence, FinishFenceFails, FinishIdle, FinishNotify,
       FinishPop, FinishRecycle, DeviceLost, GpuCompletes, CanRecord, Submit, SubmitSleeps, QueuePresent,
       ResourceSleeps, vars
  <2> QED BY <1>0, <2>1 DEF WordsTyped
<1>5. pending' \in Nat
  <2>1. pending' \in {pending, pending + 1} \/ QueueStep(FinishPop)
    BY DEF Next, AppStep, CsStep, QueueStep, SubmitStep, FinishStep, Draw, Map, FlushCsChunk, Flush,
       BeginPresent, CreatePresenter, SubmitPresent, MapSync, MapRecheck, MapRefused, MapFlush, MapReturns,
       MapWaits, MapSleeps, Unmap, Synchronized, DrainStream, DrainQueue, DrainLock, DrainGpu,
       PresenterCreated, RecreateSwapChain, CsNext, CsUse, CsFlush, CsBlit, CsSleeps, CsPresent,
       SubmitTake, SubmitExecute,
       SubmitRetires, SubmitFails, FinishTake, FinishFence, FinishFenceFails, FinishIdle, FinishNotify,
       FinishRecycle, DeviceLost, GpuCompletes, CanRecord, Submit, SubmitSleeps, QueuePresent,
       ResourceSleeps, vars
  <2>2. ASSUME QueueStep(FinishPop) PROVE pending' \in Nat
    <3>1. pending' = pending - 1 /\ finishQueue # <<>> /\ finishList = finishQueue[1]
      BY <2>2 DEF QueueStep, FinishPop, ListInv, Threads
    <3>2. finishQueue[1] \in Elements(finishQueue)
      BY <1>0, <3>1, Lengths DEF SeqsTyped
    <3>3. IsFiniteSet(Counted) /\ pending = Cardinality(Counted) /\ Counted # {}
      BY <3>2 DEF ListInv, Counting, Counted
    <3>4. pending \in Nat /\ pending # 0
      BY <1>0, <3>3, FS_EmptySet DEF WordsTyped
    <3> QED BY <3>1, <3>4
  <2> QED BY <1>0, <2>1, <2>2 DEF WordsTyped
<1>6. tracked' \subseteq Lists \X Accesses /\ holds' \subseteq Lists \X Accesses
  <2> USE <1>0 DEF WordsTyped
  <2>1. CASE CsUse
    <3>1. <<recording, Head(csRest)>> \in Lists \X Accesses
      BY <2>1 DEF CsUse
    <3> QED BY <2>1, <3>1 DEF CsUse
  <2>2. tracked' \subseteq tracked \/ CsUse
    BY DEF Next, AppStep, CsStep, QueueStep, SubmitStep, FinishStep, Draw, Map, FlushCsChunk, Flush,
       BeginPresent, CreatePresenter, SubmitPresent, MapSync, MapRecheck, MapRefused, MapFlush, MapReturns,
       MapWaits, MapSleeps, Unmap, Synchronized, DrainStream, DrainQueue, DrainLock, DrainGpu,
       PresenterCreated, RecreateSwapChain, CsNext, CsFlush, CsBlit, CsSleeps, CsPresent, SubmitTake,
       SubmitExecute,
       SubmitRetires, SubmitFails, FinishTake, FinishFence, FinishFenceFails, FinishIdle, FinishNotify,
       FinishPop, FinishRecycle, DeviceLost, GpuCompletes, CanRecord, Submit, SubmitSleeps, QueuePresent,
       ResourceSleeps, CreateCommandList, vars
  <2>3. holds' \subseteq holds \/ CsUse
    BY DEF Next, AppStep, CsStep, QueueStep, SubmitStep, FinishStep, Draw, Map, FlushCsChunk, Flush,
       BeginPresent, CreatePresenter, SubmitPresent, MapSync, MapRecheck, MapRefused, MapFlush, MapReturns,
       MapWaits, MapSleeps, Unmap, Synchronized, DrainStream, DrainQueue, DrainLock, DrainGpu,
       PresenterCreated, RecreateSwapChain, CsNext, CsFlush, CsBlit, CsSleeps, CsPresent, SubmitTake,
       SubmitExecute,
       SubmitRetires, SubmitFails, FinishTake, FinishFence, FinishFenceFails, FinishIdle, FinishNotify,
       FinishPop, FinishRecycle, DeviceLost, GpuCompletes, CanRecord, Submit, SubmitSleeps, QueuePresent,
       ResourceSleeps, CreateCommandList, vars
  <2> QED BY <2>1, <2>2, <2>3
<1>7. gpu' \subseteq Lists /\ finishList' \in Lists
  <2>1. CASE QueueStep(SubmitExecute)
    <3>1. submitQueue # <<>>
      BY <2>1 DEF QueueStep, SubmitExecute, ListInv, Threads
    <3>2. Head(submitQueue) \in Entries
      BY <1>0, <3>1, ElementsTail DEF SeqsTyped
    <3> QED BY <1>0, <2>1, <3>2 DEF QueueStep, SubmitExecute, WordsTyped, Entries
  <2>2. CASE QueueStep(FinishTake)
    <3>1. finishQueue # <<>>
      BY <2>2 DEF QueueStep, FinishTake
    <3>2. Head(finishQueue) \in Lists
      BY <1>0, <3>1, ElementsTail DEF SeqsTyped
    <3> QED BY <1>0, <2>2, <3>2 DEF QueueStep, FinishTake, WordsTyped
  <2>3. gpu' \subseteq gpu \/ QueueStep(SubmitExecute)
    BY DEF Next, AppStep, CsStep, QueueStep, SubmitStep, FinishStep, Draw, Map, FlushCsChunk, Flush,
       BeginPresent, CreatePresenter, SubmitPresent, MapSync, MapRecheck, MapRefused, MapFlush, MapReturns,
       MapWaits, MapSleeps, Unmap, Synchronized, DrainStream, DrainQueue, DrainLock, DrainGpu,
       PresenterCreated, RecreateSwapChain, CsNext, CsUse, CsFlush, CsBlit, CsSleeps, CsPresent,
       SubmitTake, SubmitRetires,
       SubmitFails, FinishTake, FinishFence, FinishFenceFails, FinishIdle, FinishNotify, FinishPop,
       FinishRecycle, DeviceLost, GpuCompletes, CanRecord, Submit, SubmitSleeps, QueuePresent,
       ResourceSleeps, vars
  <2>4. finishList' \in {finishList, 1} \/ QueueStep(FinishTake)
    BY DEF Next, AppStep, CsStep, QueueStep, SubmitStep, FinishStep, Draw, Map, FlushCsChunk, Flush,
       BeginPresent, CreatePresenter, SubmitPresent, MapSync, MapRecheck, MapRefused, MapFlush, MapReturns,
       MapWaits, MapSleeps, Unmap, Synchronized, DrainStream, DrainQueue, DrainLock, DrainGpu,
       PresenterCreated, RecreateSwapChain, CsNext, CsUse, CsFlush, CsBlit, CsSleeps, CsPresent,
       SubmitTake, SubmitExecute,
       SubmitRetires, SubmitFails, FinishFence, FinishFenceFails, FinishIdle, FinishNotify, FinishPop,
       FinishRecycle, DeviceLost, GpuCompletes, CanRecord, Submit, SubmitSleeps, QueuePresent,
       ResourceSleeps, vars
  <2>5. (\E x \in {1} : gpu' \subseteq gpu \/ gpu' \subseteq Lists) => gpu' \subseteq Lists
    BY <1>0 DEF WordsTyped
  <2>6. gpu' \subseteq Lists
    BY <2>1, <2>3, <2>5
  <2>7. finishList' \in Lists
    BY <1>0, <2>2, <2>4 DEF WordsTyped
  <2> QED BY <2>6, <2>7
<1>8. app' \in AppStates /\ access' \in Accesses
  <2>1. app' \in AppStates
    BY <1>0 DEF WordsTyped, AppStates, Next, AppStep, CsStep, QueueStep, SubmitStep, FinishStep, Draw, Map,
       FlushCsChunk, Flush,
       BeginPresent, CreatePresenter, SubmitPresent, MapSync, MapRecheck, MapRefused, MapFlush, MapReturns,
       MapWaits, MapSleeps, Unmap, Synchronized, DrainStream, DrainQueue, DrainLock, DrainGpu,
       PresenterCreated, RecreateSwapChain, CsNext, CsUse, CsFlush, CsBlit, CsSleeps, CsPresent,
       SubmitTake, SubmitExecute,
       SubmitRetires, SubmitFails, FinishTake, FinishFence, FinishFenceFails, FinishIdle, FinishNotify,
       FinishPop, FinishRecycle, DeviceLost, GpuCompletes, CanRecord, Submit, SubmitSleeps, QueuePresent,
       ResourceSleeps, vars
  <2>2. access' \in Accesses
    BY <1>0 DEF WordsTyped, Accesses, Next, AppStep, CsStep, QueueStep, SubmitStep, FinishStep, Draw, Map,
       FlushCsChunk, Flush,
       BeginPresent, CreatePresenter, SubmitPresent, MapSync, MapRecheck, MapRefused, MapFlush, MapReturns,
       MapWaits, MapSleeps, Unmap, Synchronized, DrainStream, DrainQueue, DrainLock, DrainGpu,
       PresenterCreated, RecreateSwapChain, CsNext, CsUse, CsFlush, CsBlit, CsSleeps, CsPresent,
       SubmitTake, SubmitExecute,
       SubmitRetires, SubmitFails, FinishTake, FinishFence, FinishFenceFails, FinishIdle, FinishNotify,
       FinishPop, FinishRecycle, DeviceLost, GpuCompletes, CanRecord, Submit, SubmitSleeps, QueuePresent,
       ResourceSleeps, vars
  <2> QED BY <2>1, <2>2
<1>9. /\ lastError' \in {"success", "lost", "error"}
      /\ submitter' \in {"idle", "taken", "executed", "selflocked"}
      /\ submitStatus' \in {"success", "lost", "error", "outofdate"}
      /\ presentStatus' \in {"success", "lost", "outofdate", "notready"}
  <2> USE <1>0 DEF WordsTyped
  <2>1. CASE QueueStep(SubmitExecute)
    BY <2>1 DEF QueueStep, SubmitExecute, Outcomes
  <2>2. CASE QueueStep(SubmitFails)
    <3>1. submitStatus \in {"lost", "error"}
      <4>1. submitQueue # <<>> /\ (submitStatus = "outofdate" => Head(submitQueue) = Present)
        BY <1>0, <2>2, Lengths DEF QueueStep, SubmitFails, ListInv, Threads, SeqsTyped
      <4> QED BY <2>2, <4>1 DEF QueueStep, SubmitFails
    <3> QED BY <2>2, <3>1 DEF QueueStep, SubmitFails
  <2>3. lastError' \in {lastError, "lost", "error"} \/ QueueStep(SubmitFails)
    BY DEF Next, AppStep, CsStep, QueueStep, SubmitStep, FinishStep, Draw, Map, FlushCsChunk, Flush,
       BeginPresent, CreatePresenter, SubmitPresent, MapSync, MapRecheck, MapRefused, MapFlush, MapReturns,
       MapWaits, MapSleeps, Unmap, Synchronized, DrainStream, DrainQueue, DrainLock, DrainGpu,
       PresenterCreated, RecreateSwapChain, CsNext, CsUse, CsFlush, CsBlit, CsSleeps, CsPresent,
       SubmitTake, SubmitExecute,
       SubmitRetires, FinishTake, FinishFence, FinishFenceFails, FinishIdle, FinishNotify, FinishPop,
       FinishRecycle, DeviceLost, GpuCompletes, CanRecord, Submit, SubmitSleeps, QueuePresent,
       ResourceSleeps, vars
  <2>4. submitter' \in {submitter, "taken", "executed", "idle", "selflocked"}
    BY DEF Next, AppStep, CsStep, QueueStep, SubmitStep, FinishStep, Draw, Map, FlushCsChunk, Flush,
       BeginPresent, CreatePresenter, SubmitPresent, MapSync, MapRecheck, MapRefused, MapFlush, MapReturns,
       MapWaits, MapSleeps, Unmap, Synchronized, DrainStream, DrainQueue, DrainLock, DrainGpu,
       PresenterCreated, RecreateSwapChain, CsNext, CsUse, CsFlush, CsBlit, CsSleeps, CsPresent,
       SubmitTake, SubmitExecute,
       SubmitRetires, SubmitFails, FinishTake, FinishFence, FinishFenceFails, FinishIdle, FinishNotify,
       FinishPop, FinishRecycle, DeviceLost, GpuCompletes, CanRecord, Submit, SubmitSleeps, QueuePresent,
       ResourceSleeps, vars
  <2>5. submitStatus' \in {submitStatus, "success"} \/ QueueStep(SubmitExecute)
    BY DEF Next, AppStep, CsStep, QueueStep, SubmitStep, FinishStep, Draw, Map, FlushCsChunk, Flush,
       BeginPresent, CreatePresenter, SubmitPresent, MapSync, MapRecheck, MapRefused, MapFlush, MapReturns,
       MapWaits, MapSleeps, Unmap, Synchronized, DrainStream, DrainQueue, DrainLock, DrainGpu,
       PresenterCreated, RecreateSwapChain, CsNext, CsUse, CsFlush, CsBlit, CsSleeps, CsPresent,
       SubmitTake, SubmitRetires,
       SubmitFails, FinishTake, FinishFence, FinishFenceFails, FinishIdle, FinishNotify, FinishPop,
       FinishRecycle, DeviceLost, GpuCompletes, CanRecord, Submit, SubmitSleeps, QueuePresent,
       ResourceSleeps, vars
  <2>6. presentStatus' \in {presentStatus, "success", "notready"} \/ QueueStep(SubmitExecute)
    BY DEF Next, AppStep, CsStep, QueueStep, SubmitStep, FinishStep, Draw, Map, FlushCsChunk, Flush,
       BeginPresent, CreatePresenter, SubmitPresent, MapSync, MapRecheck, MapRefused, MapFlush, MapReturns,
       MapWaits, MapSleeps, Unmap, Synchronized, DrainStream, DrainQueue, DrainLock, DrainGpu,
       PresenterCreated, RecreateSwapChain, CsNext, CsUse, CsFlush, CsBlit, CsSleeps, CsPresent,
       SubmitTake, SubmitRetires,
       SubmitFails, FinishTake, FinishFence, FinishFenceFails, FinishIdle, FinishNotify, FinishPop,
       FinishRecycle, DeviceLost, GpuCompletes, CanRecord, Submit, SubmitSleeps, QueuePresent,
       ResourceSleeps, vars
  <2> QED BY <2>1, <2>2, <2>3, <2>4, <2>5, <2>6
<1>10. finisher' \in {"idle", "fence", "idling", "notify", "pop", "recycle"}
  BY <1>0 DEF WordsTyped, Next, AppStep, CsStep, QueueStep, SubmitStep, FinishStep, Draw, Map,
     FlushCsChunk, Flush,
       BeginPresent, CreatePresenter, SubmitPresent, MapSync, MapRecheck, MapRefused, MapFlush, MapReturns,
       MapWaits, MapSleeps, Unmap, Synchronized, DrainStream, DrainQueue, DrainLock, DrainGpu,
       PresenterCreated, RecreateSwapChain, CsNext, CsUse, CsFlush, CsBlit, CsSleeps, CsPresent,
       SubmitTake, SubmitExecute,
       SubmitRetires, SubmitFails, FinishTake, FinishFence, FinishFenceFails, FinishIdle, FinishNotify,
       FinishPop, FinishRecycle, DeviceLost, GpuCompletes, CanRecord, Submit, SubmitSleeps, QueuePresent,
       ResourceSleeps, vars
<1>11. sleeping' \subseteq {"app", "cs"}
  <2>1. sleeping' \in {sleeping, {}, sleeping \cup {"app"}, sleeping \cup {"cs"}}
    BY DEF Next, AppStep, CsStep, QueueStep, SubmitStep, FinishStep, Draw, Map, FlushCsChunk, Flush,
       BeginPresent, CreatePresenter, SubmitPresent, MapSync, MapRecheck, MapRefused, MapFlush, MapReturns,
       MapWaits, MapSleeps, Unmap, Synchronized, DrainStream, DrainQueue, DrainLock, DrainGpu,
       PresenterCreated, RecreateSwapChain, CsNext, CsUse, CsFlush, CsBlit, CsSleeps, CsPresent,
       SubmitTake, SubmitExecute,
       SubmitRetires, SubmitFails, FinishTake, FinishFence, FinishFenceFails, FinishIdle, FinishNotify,
       FinishPop, FinishRecycle, DeviceLost, GpuCompletes, CanRecord, Submit, SubmitSleeps, QueuePresent,
       ResourceSleeps, vars
  <2> QED BY <1>0, <2>1 DEF WordsTyped
<1>12. queueLocked' \in BOOLEAN /\ lost' \in BOOLEAN /\ csBusy' \in BOOLEAN
  <2> USE <1>0 DEF WordsTyped
  <2>1. queueLocked' = queueLocked \/ queueLocked' = TRUE \/ queueLocked' = FALSE
    BY DEF Next, AppStep, CsStep, QueueStep, SubmitStep, FinishStep, Draw, Map, FlushCsChunk, Flush,
       BeginPresent, CreatePresenter, SubmitPresent, MapSync, MapRecheck, MapRefused, MapFlush, MapReturns,
       MapWaits, MapSleeps, Unmap, Synchronized, DrainStream, DrainQueue, DrainLock, DrainGpu,
       PresenterCreated, RecreateSwapChain, CsNext, CsUse, CsFlush, CsBlit, CsSleeps, CsPresent,
       SubmitTake, SubmitExecute,
       SubmitRetires, SubmitFails, FinishTake, FinishFence, FinishFenceFails, FinishIdle, FinishNotify,
       FinishPop, FinishRecycle, DeviceLost, GpuCompletes, CanRecord, Submit, SubmitSleeps, QueuePresent,
       ResourceSleeps, vars
  <2>2. lost' = lost \/ lost' = TRUE
    BY DEF Next, AppStep, CsStep, QueueStep, SubmitStep, FinishStep, Draw, Map, FlushCsChunk, Flush,
       BeginPresent, CreatePresenter, SubmitPresent, MapSync, MapRecheck, MapRefused, MapFlush, MapReturns,
       MapWaits, MapSleeps, Unmap, Synchronized, DrainStream, DrainQueue, DrainLock, DrainGpu,
       PresenterCreated, RecreateSwapChain, CsNext, CsUse, CsFlush, CsBlit, CsSleeps, CsPresent,
       SubmitTake, SubmitExecute,
       SubmitRetires, SubmitFails, FinishTake, FinishFence, FinishFenceFails, FinishIdle, FinishNotify,
       FinishPop, FinishRecycle, DeviceLost, GpuCompletes, CanRecord, Submit, SubmitSleeps, QueuePresent,
       ResourceSleeps, vars
  <2>3. csBusy' = csBusy \/ csBusy' = TRUE \/ csBusy' = FALSE
    BY DEF Next, AppStep, CsStep, QueueStep, SubmitStep, FinishStep, Draw, Map, FlushCsChunk, Flush,
       BeginPresent, CreatePresenter, SubmitPresent, MapSync, MapRecheck, MapRefused, MapFlush, MapReturns,
       MapWaits, MapSleeps, Unmap, Synchronized, DrainStream, DrainQueue, DrainLock, DrainGpu,
       PresenterCreated, RecreateSwapChain, CsNext, CsUse, CsFlush, CsBlit, CsSleeps, CsPresent,
       SubmitTake, SubmitExecute,
       SubmitRetires, SubmitFails, FinishTake, FinishFence, FinishFenceFails, FinishIdle, FinishNotify,
       FinishPop, FinishRecycle, DeviceLost, GpuCompletes, CanRecord, Submit, SubmitSleeps, QueuePresent,
       ResourceSleeps, vars
  <2> QED BY <2>1, <2>2, <2>3
<1> QED BY <1>2, <1>3, <1>4, <1>5, <1>6, <1>7, <1>8, <1>9, <1>10, <1>11, <1>12 DEF WordsTyped

LEMMA TypeNext ==
  ASSUME TypeOK, ListInv, TokenInv, [Next]_vars
  PROVE  TypeOK'
<1>1. (TypeOK <=> SeqsTyped /\ WordsTyped)'
  BY DEF TypeOK, QueueTypeOK, SeqsTyped, WordsTyped
<1> QED BY <1>1, SeqsNext, WordsNext

----------------------------------------------------------------------------
(* The device is made idle. *)

Draining == {"drainstream", "drainqueue", "drainlock", "draingpu", "drained"}

LEMMA Dispatches ==
  ASSUME TypeOK, NEW cs \in Seq(Commands), Dispatch(cs),
         dispatched = executed + Len(csQueue) + (IF csBusy THEN 1 ELSE 0),
         csBusy' = csBusy, executed' = executed
  PROVE  chunk' = <<>> /\ dispatched' = executed' + Len(csQueue') + (IF csBusy' THEN 1 ELSE 0)
<1>0. SeqsTyped /\ dispatched \in Nat /\ executed \in Nat /\ Len(csQueue) \in Nat /\ csBusy \in BOOLEAN
  BY TypeParts, Lengths DEF WordsTyped, SeqsTyped
<1>1. \/ chunk \o cs = <<>> /\ csQueue' = csQueue /\ dispatched' = dispatched
      \/ csQueue' = Append(csQueue, chunk \o cs) /\ dispatched' = dispatched + 1
  BY DispatchTyped
<1>2. chunk' = <<>>
  BY DispatchTyped
<1>3. CASE csQueue' = csQueue /\ dispatched' = dispatched
  BY <1>2, <1>3
<1>4. CASE csQueue' = Append(csQueue, chunk \o cs) /\ dispatched' = dispatched + 1
  <2>1. chunk \o cs \in Seq(Commands)
    BY <1>0, ConcatProperties DEF SeqsTyped
  <2>2. Len(csQueue') = Len(csQueue) + 1
    BY <1>0, <1>4, <2>1, ElementsAppend DEF SeqsTyped
  <2>3. csBusy' = csBusy
    OBVIOUS
  <2>4. (IF csBusy THEN 1 ELSE 0) \in Nat
    BY <1>0
  <2> QED BY <1>0, <1>2, <1>4, <2>2, <2>3, <2>4
<1> QED BY <1>1, <1>2, <1>3, <1>4

LEMMA DrainNext ==
  ASSUME TypeOK, ListInv, TokenInv, DrainInv, [Next]_vars
  PROVE  DrainInv'
<1> USE DEF allQueueVars, listVars, queueVars, submitVars, finishVars, gpuVars, streamVars, csVars, appVars
<1>0. SeqsTyped /\ WordsTyped /\ csBusy \in BOOLEAN
  BY TypeParts DEF WordsTyped
<1>1. ASSUME NEW a \in Accesses, Draw(a) PROVE DrainInv'
  BY <1>1 DEF Draw, CanRecord, DrainInv
<1>2. ASSUME NEW cs \in Seq(Commands), Dispatch(cs),
             app' \notin Draining \/ (app' = "drainstream" /\ target' = dispatched'),
             UNCHANGED csVars
      PROVE  DrainInv'
  <2>1. csBusy' = csBusy /\ executed' = executed /\ csRest' = csRest
    BY <1>2
  <2>2. chunk' = <<>> /\ dispatched' = executed' + Len(csQueue') + (IF csBusy' THEN 1 ELSE 0)
    BY <1>2, <2>1, Dispatches DEF DrainInv
  <2>3. ~csBusy' => csRest' = <<>>
    BY <2>1 DEF DrainInv
  <2>4. CASE app' \notin Draining
    BY <2>2, <2>3, <2>4 DEF DrainInv, Draining
  <2>5. CASE app' = "drainstream" /\ target' = dispatched'
    BY <2>2, <2>3, <2>5 DEF DrainInv
  <2> QED BY <1>2, <2>4, <2>5
<1>3. CASE \/ FlushCsChunk \/ Flush \/ BeginPresent \/ SubmitPresent \/ MapFlush \/ DrainStream
  BY <1>2, <1>3, CommandSeqs DEF FlushCsChunk, Flush, BeginPresent, SubmitPresent, MapFlush, DrainStream,
     CanRecord, Draining
<1>4. CASE MapSync
  <2>1. CASE Dispatch(<<>>)
    BY <1>2, <1>4, <2>1, CommandSeqs DEF MapSync, Draining
  <2>2. CASE UNCHANGED streamVars
    BY <1>4, <2>2 DEF MapSync, DrainInv
  <2> QED BY <1>4, <2>1, <2>2 DEF MapSync
<1>5. CASE Synchronized("drainstream", "drainqueue")
  <2>1. csQueue = <<>> /\ ~csBusy
    <3>1. dispatched = executed + Len(csQueue) + (IF csBusy THEN 1 ELSE 0) /\ executed >= dispatched
      BY <1>5 DEF Synchronized, DrainInv
    <3>2. Len(csQueue) \in Nat /\ (csQueue = <<>> <=> Len(csQueue) = 0)
      BY <1>0, Lengths DEF SeqsTyped
    <3> QED BY <1>0, <3>1, <3>2 DEF WordsTyped
  <2> QED BY <1>5, <2>1 DEF Synchronized, DrainInv
<1>6. CASE CsNext
  <2>1. app \notin {"drainqueue", "drainlock", "draingpu", "drained"}
    BY <1>6 DEF CsNext, DrainInv
  <2>2. Len(csQueue) \in Nat /\ (csQueue = <<>> => Len(csQueue) = 0)
    BY <1>0, Lengths DEF SeqsTyped
  <2>3. csQueue # <<>> => Len(Tail(csQueue)) = Len(csQueue) - 1 /\ Len(csQueue) > 0
    BY <1>0, ElementsTail DEF SeqsTyped
  <2>4. executed \in Nat /\ dispatched \in Nat
    BY <1>0 DEF WordsTyped
  <2>5. dispatched' = executed' + Len(csQueue') + (IF csBusy' THEN 1 ELSE 0)
    <3>1. executed' = executed + (IF csBusy THEN 1 ELSE 0)
      BY <1>0, <1>6, <2>4 DEF CsNext
    <3>2. CASE csQueue = <<>>
      BY <1>0, <1>6, <2>2, <2>4, <3>1, <3>2 DEF CsNext, DrainInv
    <3>3. CASE csQueue # <<>>
      BY <1>0, <1>6, <2>2, <2>3, <2>4, <3>1, <3>3 DEF CsNext, DrainInv
    <3> QED BY <3>2, <3>3
  <2>6. ~csBusy' => csRest' = <<>>
    BY <1>6 DEF CsNext
  <2> QED BY <1>6, <2>1, <2>5, <2>6 DEF CsNext, DrainInv
<1>7. CASE CsUse \/ CsFlush \/ CsBlit \/ CsPresent
  <2>1. /\ csRest # <<>>
        /\ csBusy' = csBusy
        /\ UNCHANGED <<dispatched, executed, csQueue, app, chunk, target>>
        /\ gpu' = gpu
    BY <1>7 DEF CsUse, CsFlush, CsBlit, CsPresent, Submit, QueuePresent
  <2>2. csBusy /\ app \notin {"drainqueue", "drainlock", "draingpu", "drained"}
    BY <2>1 DEF DrainInv
  <2> QED BY <2>1, <2>2 DEF DrainInv
<1>8. CASE QueueStep(SubmitExecute) \/ QueueStep(SubmitRetires)
  <2>1. submitQueue # <<>>
    BY <1>8 DEF QueueStep, SubmitExecute, SubmitRetires, ListInv, Threads
  <2>2. app \notin {"drainlock", "draingpu", "drained"}
    BY <2>1 DEF DrainInv
  <2>3. UNCHANGED <<csBusy, csRest, dispatched, executed, csQueue, app, chunk, target>>
    BY <1>8 DEF QueueStep
  <2> QED BY <2>2, <2>3 DEF DrainInv
<1>9. CASE /\ UNCHANGED <<csBusy, csRest, dispatched, executed, csQueue, chunk, submitQueue>>
           /\ gpu' = gpu \/ (app' = app /\ gpu' \subseteq gpu)
           /\ \/ app' \notin Draining
              \/ app' = app /\ target' = target
              \/ app = "drainqueue" /\ app' = "drainlock" /\ submitQueue = <<>>
              \/ app = "drainlock" /\ app' = "draingpu"
              \/ app = "draingpu" /\ app' = "drained" /\ gpu = {}
  BY <1>9 DEF DrainInv, Draining
<1> QED
  BY <1>1, <1>3, <1>4, <1>5, <1>6, <1>7, <1>8, <1>9
   DEF Draining, Next, AppStep, CsStep, QueueStep, SubmitStep, FinishStep, Map, CreatePresenter, MapRecheck,
       MapRefused, MapReturns, MapWaits, MapSleeps, Unmap, Synchronized, DrainQueue, DrainLock, DrainGpu,
       PresenterCreated, RecreateSwapChain, CsSleeps, SubmitTake, SubmitFails, FinishTake, FinishFence,
       FinishFenceFails,
       FinishIdle, FinishNotify, FinishPop, FinishRecycle, DeviceLost, GpuCompletes, CanRecord, Submit,
       SubmitSleeps, QueuePresent, ResourceSleeps, vars

----------------------------------------------------------------------------
(* The blit and the present of a frame. *)

LEMMA TokensTail ==
  ASSUME NEW s \in Seq(Commands), s # <<>>
  PROVE  /\ InOrder(s) => InOrder(Tail(s))
         /\ HasToken(Tail(s)) => HasToken(s)
         /\ HasBlit(Tail(s)) => HasBlit(s)
         /\ Head(s) \in {"blit", "present"} => HasToken(s)
         /\ InOrder(s) /\ Head(s) = "blit" => ~HasBlit(Tail(s))
         /\ InOrder(s) /\ Head(s) = "present" => ~HasToken(Tail(s))
<1>1. /\ Len(s) \in Nat /\ 1 \in 1 .. Len(s) /\ Head(s) = s[1]
      /\ \A i \in 1 .. Len(Tail(s)) : i + 1 \in 1 .. Len(s) /\ i + 1 # 1 /\ ~(i + 1 <= 1) /\ Tail(s)[i] = s[i + 1]
  BY ElementsTail
<1>2. \A i, j \in 1 .. Len(Tail(s)) : (i + 1 = j + 1 => i = j) /\ (j + 1 <= i + 1 => j <= i)
  OBVIOUS
<1>3. InOrder(s) => InOrder(Tail(s))
  BY <1>1, <1>2 DEF InOrder
<1>4. (HasToken(Tail(s)) => HasToken(s)) /\ (HasBlit(Tail(s)) => HasBlit(s))
  BY <1>1 DEF HasToken, HasBlit
<1>5. Head(s) \in {"blit", "present"} => HasToken(s)
  BY <1>1 DEF HasToken
<1>6. InOrder(s) /\ Head(s) = "blit" => ~HasBlit(Tail(s))
  BY <1>1 DEF InOrder, HasBlit
<1>7. InOrder(s) /\ Head(s) = "present" => ~HasToken(Tail(s))
  BY <1>1 DEF InOrder, HasToken
<1> QED BY <1>3, <1>4, <1>5, <1>6, <1>7

LEMMA NoTokenInOrder ==
  ASSUME NEW s \in Seq(Commands), ~HasToken(s)
  PROVE  InOrder(s) /\ ~HasBlit(s)
  BY DEF HasToken, HasBlit, InOrder

\* What is dispatched holds a token only when a frame is presented.
LEMMA DispatchedTokens ==
  ASSUME NEW c \in Seq(Accesses)
  PROVE  /\ ~HasToken(c \o <<>>) /\ ~HasToken(c \o <<"flush">>)
         /\ c \o <<"blit", "present">> # <<>> /\ InOrder(c \o <<"blit", "present">>)
<1>1. Len(c) \in Nat /\ \A i \in 1 .. Len(c) : c[i] \in {"read", "write"}
  BY DEF Accesses
<1>2. c \o <<>> = c
  BY DEF Accesses
<1>3. ~HasToken(c \o <<>>)
  BY <1>1, <1>2 DEF HasToken
<1>4. /\ Len(c \o <<"flush">>) = Len(c) + 1
      /\ \A i \in 1 .. Len(c) : (c \o <<"flush">>)[i] = c[i]
      /\ (c \o <<"flush">>)[Len(c) + 1] = "flush"
  BY <1>1 DEF Accesses
<1>5. ~HasToken(c \o <<"flush">>)
  <2>1. \A i \in 1 .. Len(c) + 1 : i \in 1 .. Len(c) \/ i = Len(c) + 1
    BY <1>1
  <2> QED BY <1>1, <1>4, <2>1 DEF HasToken
<1> DEFINE d == c \o <<"blit", "present">>
<1>6. /\ Len(d) = Len(c) + 2
      /\ \A i \in 1 .. Len(c) : d[i] = c[i]
      /\ d[Len(c) + 1] = "blit" /\ d[Len(c) + 2] = "present"
  BY <1>1 DEF Accesses
<1>7. \A i \in 1 .. Len(c) + 2 : i \in 1 .. Len(c) \/ i = Len(c) + 1 \/ i = Len(c) + 2
  BY <1>1
<1>8. d # <<>>
  BY <1>1, <1>6
<1> HIDE DEF d
<1>9. \A i \in 1 .. Len(d) : (d[i] = "blit" => i = Len(c) + 1) /\ (d[i] = "present" => i = Len(c) + 2)
  BY <1>1, <1>6, <1>7
<1>10. InOrder(d)
  BY <1>1, <1>9 DEF InOrder
<1> QED BY <1>3, <1>5, <1>8, <1>10 DEF d

LEMMA StreamAppends ==
  ASSUME TypeOK, StreamTokens, NEW c \in Seq(Commands), ~HasToken(c),
         csQueue' = Append(csQueue, c) \/ csQueue' = csQueue, csRest' = csRest, blitList' = blitList
  PROVE  StreamTokens' /\ (NoTokens => NoTokens')
<1>1. CASE csQueue' = csQueue
  <2>1. StreamTokens'
    BY <1>1 DEF StreamTokens
  <2>2. NoTokens => NoTokens'
    BY <1>1 DEF NoTokens
  <2> QED BY <2>1, <2>2
<1>2. CASE csQueue' = Append(csQueue, c)
  <2>1. /\ Len(csQueue) \in Nat /\ Len(csQueue') = Len(csQueue) + 1
        /\ \A i \in 1 .. Len(csQueue) : csQueue'[i] = csQueue[i]
        /\ csQueue'[Len(csQueue) + 1] = c
    BY <1>2, TypeParts, Lengths, ElementsAppend DEF SeqsTyped
  <2>2. InOrder(c) /\ ~HasBlit(c)
    BY NoTokenInOrder
  <2>3. \A i \in 1 .. Len(csQueue') : \/ i \in 1 .. Len(csQueue) /\ csQueue'[i] = csQueue[i]
                                     \/ csQueue'[i] = c
    <3>1. \A i \in 1 .. Len(csQueue) + 1 : i \in 1 .. Len(csQueue) \/ i = Len(csQueue) + 1
      BY <2>1
    <3> QED BY <2>1, <3>1
  <2>4. StreamTokens'
    BY <2>2, <2>3 DEF StreamTokens
  <2>5. NoTokens => NoTokens'
    BY <2>3 DEF NoTokens
  <2> QED BY <2>4, <2>5
<1> QED BY <1>1, <1>2

LEMMA StreamPresents ==
  ASSUME TypeOK, StreamTokens, NoTokens, NEW c \in Seq(Commands), InOrder(c),
         csQueue' = Append(csQueue, c), csRest' = csRest, blitList' # 0
  PROVE  StreamTokens'
<1>1. /\ Len(csQueue) \in Nat /\ Len(csQueue') = Len(csQueue) + 1
      /\ \A i \in 1 .. Len(csQueue) : csQueue'[i] = csQueue[i]
      /\ csQueue'[Len(csQueue) + 1] = c
  BY TypeParts, Lengths, ElementsAppend DEF SeqsTyped
<1>2. ASSUME NEW i \in 1 .. Len(csQueue')
      PROVE  \/ i \in 1 .. Len(csQueue) /\ csQueue'[i] = csQueue[i]
             \/ i = Len(csQueue) + 1 /\ csQueue'[i] = c
  <2>1. i \in 1 .. Len(csQueue) \/ i = Len(csQueue) + 1
    BY <1>1
  <2>2. CASE i \in 1 .. Len(csQueue)
    BY <1>1, <2>2
  <2>3. CASE i = Len(csQueue) + 1
    BY <1>1, <2>3
  <2> QED BY <2>1, <2>2, <2>3
<1>3. ~HasToken(csRest) /\ \A i \in 1 .. Len(csQueue) : ~HasToken(csQueue[i])
  BY DEF NoTokens
<1> QED BY <1>2, <1>3 DEF StreamTokens

LEMMA StreamTakes ==
  ASSUME TypeOK, StreamTokens, csQueue # <<>>, csRest' = Head(csQueue), csQueue' = Tail(csQueue),
         blitList' = blitList
  PROVE  StreamTokens' /\ (NoTokens => NoTokens')
<1>1. /\ 1 \in 1 .. Len(csQueue) /\ csRest' = csQueue[1]
      /\ \A i \in 1 .. Len(csQueue') : i + 1 \in 1 .. Len(csQueue) /\ i + 1 # 1 /\ csQueue'[i] = csQueue[i + 1]
  BY TypeParts, ElementsTail DEF SeqsTyped
<1>2. \A i, j \in 1 .. Len(csQueue') : i + 1 = j + 1 => i = j
  OBVIOUS
<1>3. StreamTokens'
  BY <1>1, <1>2 DEF StreamTokens
<1>4. NoTokens => NoTokens'
  BY <1>1 DEF NoTokens
<1> QED BY <1>3, <1>4

\* A command is executed.
LEMMA StreamExecutes ==
  ASSUME TypeOK, StreamTokens, csRest # <<>>, csRest' = Tail(csRest), csQueue' = csQueue,
         blitList' = IF Head(csRest) = "blit" THEN 0 ELSE blitList
  PROVE  /\ StreamTokens'
         /\ NoTokens => NoTokens'
         /\ Head(csRest) \in {"blit", "present"} => ~NoTokens
         /\ Head(csRest) = "present" => NoTokens'
<1>1. csRest \in Seq(Commands)
  BY TypeParts DEF SeqsTyped
<1>2. /\ InOrder(csRest')
      /\ HasToken(csRest') => HasToken(csRest)
      /\ HasBlit(csRest') => HasBlit(csRest)
      /\ Head(csRest) \in {"blit", "present"} => HasToken(csRest)
      /\ Head(csRest) = "blit" => ~HasBlit(csRest')
      /\ Head(csRest) = "present" => ~HasToken(csRest')
  BY <1>1, TokensTail DEF StreamTokens
<1>3. \A i \in 1 .. Len(csQueue) : HasBlit(csQueue[i]) => HasToken(csQueue[i])
  BY DEF HasBlit, HasToken
<1>4. Head(csRest) \in {"blit", "present"} => \A i \in 1 .. Len(csQueue) : ~HasToken(csQueue[i])
  BY <1>2 DEF StreamTokens
<1>5. HasBlit(csRest') => blitList' # 0
  BY <1>2 DEF StreamTokens
<1>6. \A i \in 1 .. Len(csQueue) : HasBlit(csQueue[i]) => blitList' # 0
  BY <1>3, <1>4 DEF StreamTokens
<1>7. StreamTokens'
  BY <1>2, <1>5, <1>6 DEF StreamTokens
<1>8. NoTokens => NoTokens'
  BY <1>2 DEF NoTokens
<1>9. Head(csRest) = "present" => NoTokens'
  BY <1>2, <1>4 DEF NoTokens
<1>10. Head(csRest) \in {"blit", "present"} => ~NoTokens
  BY <1>2 DEF NoTokens
<1> QED BY <1>7, <1>8, <1>9, <1>10

LEMMA PresentsKept ==
  ASSUME PresentTokens, NoTokens => NoTokens', presentStatus' \in {presentStatus, "notready"}, Presenting' = Presenting
  PROVE  PresentTokens'
  BY DEF PresentTokens

\* A list is submitted, or a present queued.
LEMMA PresentingAppend ==
  ASSUME TypeOK, ListInv, NEW e \in Entries, submitQueue' = Append(submitQueue, e), submitter' = submitter
  PROVE  /\ e # Present => Presenting' = Presenting
         /\ Presenting = {} => \A i, j \in Presenting' : i = j
<1>1. /\ Len(submitQueue) \in Nat /\ Len(submitQueue') = Len(submitQueue) + 1
      /\ \A i \in 1 .. Len(submitQueue) : submitQueue'[i] = submitQueue[i]
      /\ submitQueue'[Len(submitQueue) + 1] = e
  BY TypeParts, Lengths, ElementsAppend DEF SeqsTyped
<1>2. \A i \in 1 .. Len(submitQueue') : i \in 1 .. Len(submitQueue) \/ i = Len(submitQueue) + 1
  BY <1>1
<1>3. \A i \in 1 .. Len(submitQueue) : i \in 1 .. Len(submitQueue')
  BY <1>1
<1>4. e # Present => Presenting' = Presenting
  BY <1>1, <1>2, <1>3 DEF Presenting
<1>5. Presenting = {} => \A i \in Presenting' : i = Len(submitQueue) + 1
  BY <1>1, <1>2 DEF Presenting
<1> QED BY <1>4, <1>5

LEMMA TokenNext ==
  ASSUME TypeOK, ListInv, TokenInv, DrainInv, [Next]_vars
  PROVE  TokenInv'
<1> USE DEF allQueueVars, listVars, queueVars, submitVars, finishVars, gpuVars, streamVars, csVars, appVars
<1>0. SeqsTyped /\ WordsTyped /\ chunk \in Seq(Accesses) /\ StreamTokens /\ PresentTokens
  BY TypeParts DEF TokenInv
<1>1. ASSUME NEW a \in Accesses, Draw(a) PROVE TokenInv'
  <2>1. chunk' \in Seq(Accesses)
    BY <1>0, <1>1, ElementsAppend DEF Draw
  <2>2. StreamTokens'
    BY <1>0, <1>1 DEF Draw, StreamTokens
  <2>3. UNCHANGED <<csRest, csQueue, submitQueue, submitter, presentStatus>>
    BY <1>1 DEF Draw
  <2>4. PresentTokens'
    BY <1>0, <2>3 DEF PresentTokens, NoTokens, Presenting
  <2> QED BY <2>1, <2>2, <2>4 DEF TokenInv
<1>2. ASSUME NEW cs \in {<<>>, <<"flush">>}, Dispatch(cs), UNCHANGED <<allQueueVars, csVars, blitList>>
      PROVE  TokenInv'
  <2>1. cs \in Seq(Commands) /\ chunk \o cs \in Seq(Commands) /\ ~HasToken(chunk \o cs)
    BY <1>0, CommandSeqs, ConcatProperties, DispatchedTokens DEF SeqsTyped
  <2>2. csQueue' = Append(csQueue, chunk \o cs) \/ csQueue' = csQueue
    BY <1>2 DEF Dispatch
  <2>3. csRest' = csRest /\ blitList' = blitList
    BY <1>2
  <2>4. StreamTokens' /\ (NoTokens => NoTokens')
    BY <1>0, <2>1, <2>2, <2>3, StreamAppends
  <2>5. presentStatus' = presentStatus /\ Presenting' = Presenting
    BY <1>2 DEF Presenting
  <2>6. PresentTokens'
    BY <1>0, <2>4, <2>5, PresentsKept
  <2>7. chunk' \in Seq(Accesses)
    BY <1>2 DEF Dispatch
  <2> QED BY <2>4, <2>6, <2>7 DEF TokenInv
<1>3. CASE FlushCsChunk \/ Flush \/ BeginPresent \/ MapFlush \/ DrainStream
  <2>1. UNCHANGED <<allQueueVars, csVars, blitList>>
    BY <1>3 DEF FlushCsChunk, Flush, BeginPresent, MapFlush, DrainStream
  <2>2. Dispatch(<<>>) \/ Dispatch(<<"flush">>)
    BY <1>3 DEF FlushCsChunk, Flush, BeginPresent, MapFlush, DrainStream
  <2> QED BY <1>2, <2>1, <2>2
<1>4. CASE MapSync
  <2>1. UNCHANGED <<allQueueVars, csVars, blitList>> /\ (Dispatch(<<>>) \/ UNCHANGED streamVars)
    BY <1>4 DEF MapSync
  <2>2. CASE UNCHANGED streamVars
    BY <1>0, <2>1, <2>2 DEF TokenInv, StreamTokens, PresentTokens, NoTokens, Presenting
  <2> QED BY <1>2, <2>1, <2>2
<1>5. CASE SubmitPresent
  <2> DEFINE c == chunk \o <<"blit", "present">>
  <2>1. c \in Seq(Commands) /\ c # <<>> /\ InOrder(c)
    BY <1>0, CommandSeqs, ConcatProperties, DispatchedTokens DEF SeqsTyped
  <2>2. csQueue' = Append(csQueue, c) /\ chunk' = <<>>
    BY <1>5, <2>1 DEF SubmitPresent, Dispatch
  <2>3. csRest' = csRest /\ blitList' # 0
    <3>1. NextList \in Lists
      BY NextListTyped
    <3> QED BY <1>5, <3>1 DEF SubmitPresent
  <2> HIDE DEF c
  <2>4. NoTokens /\ Presenting = {} /\ presentStatus' = "notready"
    BY <1>0, <1>5 DEF SubmitPresent, PresentTokens
  <2>5. StreamTokens'
    BY <1>0, <2>1, <2>2, <2>3, <2>4, StreamPresents
  <2>6. submitQueue' = submitQueue /\ submitter' = submitter
    BY <1>5 DEF SubmitPresent
  <2>7. Presenting' = Presenting
    BY <2>6 DEF Presenting
  <2>8. PresentTokens'
    BY <2>4, <2>7 DEF PresentTokens
  <2> QED BY <2>2, <2>5, <2>8 DEF TokenInv
<1>6. CASE PresenterCreated
  <2>1. csQueue = <<>> /\ csRest = <<>> /\ submitQueue = <<>>
    BY <1>6 DEF PresenterCreated, DrainInv
  <2>2. UNCHANGED <<csQueue, csRest, submitQueue, submitter, chunk, blitList>>
    BY <1>6 DEF PresenterCreated
  <2>3. Len(csQueue) = 0 /\ Len(csRest) = 0 /\ Len(submitQueue) = 0
    BY <2>1
  <2>4. NoTokens' /\ Presenting' = {}
    BY <2>2, <2>3 DEF NoTokens, Presenting, HasToken
  <2>5. StreamTokens'
    BY <1>0, <2>2 DEF StreamTokens
  <2> QED BY <1>0, <2>2, <2>4, <2>5 DEF TokenInv, PresentTokens
<1>15. CASE RecreateSwapChain
  <2>1. /\ presentStatus # "notready"
        /\ UNCHANGED <<csQueue, csRest, submitQueue, submitter, chunk, blitList>>
    BY <1>15 DEF RecreateSwapChain
  <2>2. NoTokens' /\ Presenting' = {}
    BY <1>0, <2>1 DEF NoTokens, Presenting, PresentTokens
  <2>3. StreamTokens'
    BY <1>0, <2>1 DEF StreamTokens
  <2> QED BY <1>0, <2>1, <2>2, <2>3 DEF TokenInv, PresentTokens
<1>7. CASE CsNext
  <2>1. UNCHANGED <<blitList, chunk, presentStatus, submitQueue, submitter>>
    BY <1>7 DEF CsNext
  <2>2. StreamTokens' /\ (NoTokens => NoTokens')
    <3>1. CASE csQueue = <<>>
      <4>1. UNCHANGED <<csQueue, csRest>>
        BY <1>7, <3>1 DEF CsNext
      <4> QED BY <1>0, <2>1, <4>1 DEF StreamTokens, NoTokens
    <3>2. CASE csQueue # <<>>
      <4>1. csRest' = Head(csQueue) /\ csQueue' = Tail(csQueue)
        BY <1>7, <3>2 DEF CsNext
      <4> QED BY <1>0, <2>1, <3>2, <4>1, StreamTakes
    <3> QED BY <3>1, <3>2
  <2>3. Presenting' = Presenting
    BY <2>1 DEF Presenting
  <2>4. PresentTokens'
    BY <1>0, <2>1, <2>2, <2>3, PresentsKept
  <2> QED BY <1>0, <2>1, <2>2, <2>4 DEF TokenInv
<1>8. CASE CsUse \/ CsFlush \/ CsBlit \/ CsPresent
  <2>1. /\ csRest # <<>> /\ csRest' = Tail(csRest) /\ UNCHANGED <<csQueue, chunk, submitter>>
        /\ blitList' = IF Head(csRest) = "blit" THEN 0 ELSE blitList
    BY <1>8 DEF CsUse, CsFlush, CsBlit, CsPresent, Submit, QueuePresent, Accesses
  <2>2. /\ StreamTokens'
        /\ NoTokens => NoTokens'
        /\ Head(csRest) \in {"blit", "present"} => ~NoTokens
        /\ Head(csRest) = "present" => NoTokens'
    BY <1>0, <2>1, StreamExecutes
  <2>3. CASE CsUse
    <3>1. presentStatus' = presentStatus /\ submitQueue' = submitQueue
      BY <2>3 DEF CsUse
    <3> QED BY <1>0, <2>1, <2>2, <3>1, PresentsKept DEF TokenInv, Presenting
  <2>4. CASE CsFlush \/ CsBlit
    <3>1. PICK e \in Lists : submitQueue' = Append(submitQueue, e)
      <4>1. CASE CsFlush
        BY <1>0, <4>1 DEF CsFlush, Submit, WordsTyped
      <4>2. CASE CsBlit
        <5>1. blitList \in Lists
          BY <1>0, <4>2, BlitFound DEF CsBlit, WordsTyped
        <5> QED BY <4>2, <5>1 DEF CsBlit, Submit
      <4> QED BY <2>4, <4>1, <4>2
    <3>2. presentStatus' = presentStatus
      BY <2>4 DEF CsFlush, CsBlit, Submit
    <3>3. e \in Entries /\ e # Present
      BY DEF Entries
    <3>4. Presenting' = Presenting
      BY <2>1, <3>1, <3>3, PresentingAppend
    <3>5. PresentTokens'
      BY <1>0, <2>2, <3>2, <3>4, PresentsKept
    <3> QED BY <1>0, <2>1, <2>2, <3>5 DEF TokenInv
  <2>5. CASE CsPresent
    <3>1. submitQueue' = Append(submitQueue, Present) /\ presentStatus' = "notready" /\ Head(csRest) = "present"
      BY <2>5 DEF CsPresent, QueuePresent
    <3>2. Presenting = {} /\ NoTokens'
      BY <1>0, <2>2, <3>1 DEF PresentTokens
    <3>3. \A i, j \in Presenting' : i = j
      BY <2>1, <3>1, <3>2, PresentingAppend DEF Entries
    <3>4. PresentTokens'
      BY <3>1, <3>2, <3>3 DEF PresentTokens
    <3> QED BY <1>0, <2>1, <2>2, <3>4 DEF TokenInv
  <2> QED BY <1>8, <2>3, <2>4, <2>5
<1>9. ASSUME NoTokens => NoTokens', presentStatus' = presentStatus, Presenting' = Presenting,
             UNCHANGED <<csRest, csQueue, chunk, blitList>>
      PROVE  TokenInv'
  <2>1. PresentTokens'
    BY <1>0, <1>9, PresentsKept
  <2>2. StreamTokens'
    BY <1>0, <1>9 DEF StreamTokens
  <2> QED BY <1>0, <1>9, <2>1, <2>2 DEF TokenInv
<1>10. ASSUME UNCHANGED <<csRest, csQueue>> PROVE NoTokens => NoTokens'
  BY <1>10 DEF NoTokens
<1>11. CASE QueueStep(SubmitTake) \/ QueueStep(SubmitFails)
  <2>1. /\ UNCHANGED <<csRest, csQueue, chunk, blitList>> /\ presentStatus' = presentStatus
        /\ submitQueue' = submitQueue
        /\ submitter \in {"idle", "taken"} <=> submitter' \in {"idle", "taken"}
    BY <1>11 DEF QueueStep, SubmitTake, SubmitFails
  <2>2. Presenting' = Presenting
    BY <2>1 DEF Presenting
  <2> QED BY <1>9, <1>10, <2>1, <2>2
<1>12. CASE QueueStep(SubmitExecute)
  <2>1. /\ UNCHANGED <<csRest, csQueue, chunk, blitList, submitQueue>>
        /\ submitter = "taken"
        /\ submitter' = "executed"
    BY <1>12 DEF QueueStep, SubmitExecute
  <2>2. submitQueue # <<>>
    BY <2>1 DEF ListInv, Threads
  <2>3. 1 \in 1 .. Len(submitQueue) /\ Head(submitQueue) = submitQueue[1] /\ Len(submitQueue) \in Nat
    BY <1>0, <2>2, Lengths DEF SeqsTyped
  <2>4. CASE Head(submitQueue) = Present
    <3>1. 1 \in Presenting
      BY <2>1, <2>3, <2>4 DEF Presenting
    <3>2. NoTokens /\ \A i \in Presenting : i = 1
      BY <1>0, <3>1 DEF PresentTokens
    <3>3. Presenting' \subseteq Presenting /\ 1 \notin Presenting'
      BY <2>1 DEF Presenting
    <3>4. NoTokens' /\ Presenting' = {}
      BY <1>10, <2>1, <3>2, <3>3
    <3> QED BY <1>0, <2>1, <3>4 DEF TokenInv, StreamTokens, PresentTokens
  <2>5. CASE Head(submitQueue) # Present
    <3>1. presentStatus' = presentStatus
      BY <1>12, <2>5 DEF QueueStep, SubmitExecute
    <3>2. Presenting' = Presenting
      BY <2>1, <2>3, <2>5 DEF Presenting
    <3> QED BY <1>9, <1>10, <2>1, <3>1, <3>2
  <2> QED BY <2>4, <2>5
<1>13. CASE QueueStep(SubmitRetires)
  <2>1. /\ UNCHANGED <<csRest, csQueue, chunk, blitList, presentStatus>>
        /\ submitter = "executed" /\ submitter' = "idle" /\ submitQueue' = Tail(submitQueue)
    BY <1>13 DEF QueueStep, SubmitRetires
  <2>2. submitQueue # <<>>
    BY <2>1 DEF ListInv, Threads
  <2>3. \A i \in 1 .. Len(submitQueue') : i + 1 \in 1 .. Len(submitQueue) /\ i + 1 > 1
                                         /\ submitQueue'[i] = submitQueue[i + 1]
    BY <1>0, <2>1, <2>2, ElementsTail DEF SeqsTyped
  <2>4. \A i \in Presenting' : i + 1 \in Presenting
    BY <2>3 DEF Presenting
  <2>5. \A i, j \in Presenting' : i + 1 = j + 1 => i = j
    BY DEF Presenting
  <2>6. \A i, j \in Presenting' : i = j
    BY <1>0, <2>4, <2>5 DEF PresentTokens
  <2>7. Presenting # {} \/ Presenting' = {}
    BY <2>4
  <2>8. PresentTokens'
    BY <1>0, <1>10, <2>1, <2>6, <2>7 DEF PresentTokens
  <2> QED BY <1>0, <2>1, <2>8 DEF TokenInv, StreamTokens
<1>14. CASE UNCHANGED <<csRest, csQueue, chunk, blitList, presentStatus, submitQueue, submitter>>
  BY <1>9, <1>10, <1>14 DEF Presenting
<1> QED
  BY <1>1, <1>3, <1>4, <1>5, <1>6, <1>7, <1>8, <1>11, <1>12, <1>13, <1>14, <1>15
   DEF Next, AppStep, CsStep, QueueStep, SubmitStep, FinishStep, Map, CreatePresenter, MapRecheck,
       MapRefused, MapReturns, MapWaits, MapSleeps, Unmap, Synchronized, DrainQueue, DrainLock, DrainGpu,
       CsSleeps, FinishTake, FinishFence, FinishFenceFails, FinishIdle, FinishNotify, FinishPop,
       FinishRecycle, DeviceLost, GpuCompletes, CanRecord, Submit, SubmitSleeps, QueuePresent,
       ResourceSleeps, vars

----------------------------------------------------------------------------
(* The command lists. *)

LEMMA CountedLists ==
  ASSUME TypeOK
  PROVE  /\ Counted \subseteq Lists /\ Elements(finishQueue) \subseteq Lists /\ Elements(recycled) \subseteq Lists
         /\ created \in Nat /\ created > 0 /\ 1 \in Lists
<1>1. /\ Elements(submitQueue) \subseteq Entries
      /\ Elements(finishQueue) \subseteq Lists
      /\ Elements(recycled) \subseteq Lists
  BY TypeParts, Lengths DEF SeqsTyped
<1>2. Counted \subseteq Lists
  BY <1>1 DEF Counted, Entries
<1> QED BY <1>1, <1>2, TypeParts DEF WordsTyped

\* The list that recording goes on in is no other list's.
LEMMA NextListFresh ==
  ASSUME TypeOK, Placed, CreateCommandList
  PROVE  /\ NextList \in Lists /\ NextList \notin Counted /\ NextList # recording /\ NextList # blitList
         /\ Distinct(recycled') /\ Elements(recycled') \subseteq Elements(recycled) /\ NextList \notin Elements(recycled')
         /\ finisher = "recycle" => NextList # finishList
         /\ created' \in Nat /\ created <= created' /\ NextList <= created'
<1>0. recycled \in Seq(Lists) /\ created \in Nat /\ NextList \in Lists
  BY TypeParts, CountedLists, NextListTyped DEF SeqsTyped
<1>1. CASE recycled = <<>>
  <2>1. NextList = created + 1 /\ created' = created + 1 /\ recycled' = recycled
    BY <1>1 DEF NextList, CreateCommandList
  <2>2. \A l \in Spare \cup Counted \cup {finishList} : l # created + 1
    <3>1. \A l \in Spare \cup Counted \cup {finishList} : l \in Nat /\ l <= created
      BY CountedLists, TypeParts DEF Placed, Spare, WordsTyped
    <3> QED BY <1>0, <3>1
  <2>3. recording \in Spare /\ blitList \in Spare /\ Elements(recycled) \subseteq Spare
    BY DEF Spare
  <2>4. created + 1 \in Nat /\ created <= created + 1
    BY <1>0
  <2>5. Distinct(recycled') /\ Elements(recycled') = Elements(recycled)
    BY <2>1 DEF Placed
  <2>6. NextList \notin Spare \cup Counted \cup {finishList} 
    BY <2>1, <2>2
  <2> QED BY <1>0, <2>1, <2>3, <2>4, <2>5, <2>6
<1>2. CASE recycled # <<>>
  <2>1. /\ NextList = recycled[Len(recycled)]
        /\ recycled' = SubSeq(recycled, 1, Len(recycled) - 1)
        /\ created' = created
    BY <1>2 DEF NextList, CreateCommandList
  <2>2. /\ NextList \in Elements(recycled) /\ Elements(recycled') \subseteq Elements(recycled)
        /\ Distinct(recycled') /\ NextList \notin Elements(recycled')
    BY <1>0, <1>2, <2>1, LastOff DEF Placed
  <2>3. NextList \in Spare
    BY <2>2 DEF Spare
  <2>4. created <= created
    BY <1>0
  <2> QED BY <1>0, <2>1, <2>2, <2>3, <2>4 DEF Placed
<1> QED BY <1>1, <1>2

\* What a submission does to the queues.
LEMMA ListSubmitted ==
  ASSUME TypeOK, ListInv, NEW l \in Lists, l \notin Counted,
         submitQueue' = Append(submitQueue, l), finishQueue' = finishQueue, pending' = pending + 1,
         UNCHANGED <<submitter, submitStatus, finisher, finishList, gpu>>
  PROVE  /\ Counted' = Counted \cup {l} /\ Threads' /\ Counting'
         /\ \A i, j \in 1 .. Len(submitQueue') :
              submitQueue'[i] = submitQueue'[j] /\ submitQueue'[i] # Present => i = j
         /\ Elements(submitQueue') \cap Elements(finishQueue') = {}
<1>0. submitQueue \in Seq(Entries) /\ l \in Entries /\ l # Present
  BY TypeParts DEF SeqsTyped, Entries
<1>1. /\ Len(submitQueue) \in Nat /\ Len(submitQueue') = Len(submitQueue) + 1
      /\ \A i \in 1 .. Len(submitQueue) : submitQueue'[i] = submitQueue[i] /\ submitQueue[i] \in Elements(submitQueue)
      /\ submitQueue'[Len(submitQueue) + 1] = l
      /\ Elements(submitQueue') = Elements(submitQueue) \cup {l}
      /\ submitQueue' \in Seq(Entries) /\ submitQueue' # <<>>
      /\ submitQueue # <<>> => 1 \in 1 .. Len(submitQueue)
  BY <1>0, Lengths, ElementsAppend
<1>2. Elements(finishQueue') = Elements(finishQueue)
  OBVIOUS
<1>3. Counted' = Counted \cup {l}
  BY <1>0, <1>1, <1>2 DEF Counted
<1>4. l \notin Elements(submitQueue) /\ l \notin Elements(finishQueue)
  BY <1>0 DEF Counted
<1>5. ASSUME NEW i \in 1 .. Len(submitQueue'), NEW j \in 1 .. Len(submitQueue'),
             submitQueue'[i] = submitQueue'[j], submitQueue'[i] # Present
      PROVE  i = j
  <2>1. i \in 1 .. Len(submitQueue) \/ i = Len(submitQueue) + 1
    BY <1>1
  <2>2. j \in 1 .. Len(submitQueue) \/ j = Len(submitQueue) + 1
    BY <1>1
  <2> QED BY <1>1, <1>4, <1>5, <2>1, <2>2 DEF ListInv, Placed
<1>6. Elements(submitQueue') \cap Elements(finishQueue') = {}
  BY <1>1, <1>2, <1>4 DEF ListInv, Placed
<1>7. submitter # "idle" => submitQueue'[1] = submitQueue[1]
  BY <1>1 DEF ListInv, Threads
<1>8. HandedOver' = HandedOver
  BY <1>7 DEF HandedOver
<1>9. submitStatus = "outofdate" => submitter = "executed" /\ submitQueue'[1] = Present
  BY <1>7 DEF ListInv, Threads
<1>10. Threads'
  BY <1>1, <1>2, <1>8, <1>9 DEF ListInv, Threads
<1>11. Counting'
  <2>1. IsFiniteSet(Counted) /\ pending = Cardinality(Counted)
    BY DEF ListInv, Counting
  <2>2. IsFiniteSet(Counted \cup {l}) /\ Cardinality(Counted \cup {l}) = Cardinality(Counted) + 1
    BY <2>1, FS_AddElement
  <2>3. IsFiniteSet(Counted') /\ Cardinality(Counted') = pending + 1
    BY <1>3, <2>1, <2>2
  <2> QED BY <2>3 DEF Counting
<1> QED BY <1>3, <1>5, <1>6, <1>10, <1>11

LEMMA ListNext ==
  ASSUME TypeOK, ListInv, TokenInv, [Next]_vars
  PROVE  ListInv'
<1> USE DEF allQueueVars, listVars, queueVars, submitVars, finishVars, gpuVars, streamVars, csVars, appVars
<1>0. SeqsTyped /\ WordsTyped /\ Placed /\ Threads /\ Counting
  BY TypeParts DEF ListInv
<1>1. ASSUME UNCHANGED <<submitQueue, finishQueue, pending>> PROVE Counted' = Counted /\ Counting'
  <2>1. Counted' = Counted
    BY <1>1 DEF Counted
  <2> QED BY <1>0, <1>1, <2>1 DEF Counting
<1>2. ASSUME UNCHANGED <<submitQueue, finishQueue, recycled, recording, blitList, created, finishList>>,
             finisher' # "recycle" \/ finisher' = finisher
      PROVE  Placed'
  <2>1. Counted' = Counted /\ Spare' = Spare
    BY <1>2 DEF Counted, Spare
  <2> QED BY <1>0, <1>2, <2>1 DEF Placed
<1>3. CASE SubmitPresent
  <2>1. /\ UNCHANGED <<submitQueue, finishQueue, pending, submitter, submitStatus, finisher, finishList, gpu, recording>>
        /\ blitList' = NextList /\ CreateCommandList
    BY <1>3 DEF SubmitPresent
  <2>2. Counted' = Counted /\ Counting'
    BY <1>1, <2>1
  <2>3. Threads'
    BY <1>0, <2>1 DEF Threads, HandedOver
  <2>4. /\ NextList \notin Counted /\ NextList # recording
        /\ Distinct(recycled') /\ Elements(recycled') \subseteq Elements(recycled) /\ NextList \notin Elements(recycled')
        /\ finisher = "recycle" => NextList # finishList
        /\ created' \in Nat /\ created <= created' /\ NextList <= created'
    BY <1>0, <2>1, NextListFresh
  <2>5. Spare' \subseteq Spare \cup {NextList}
    BY <2>1, <2>4 DEF Spare
  <2>6. \A l \in Spare' \cup Counted' \cup {finishList'} : l <= created'
    <3>1. \A l \in Spare \cup Counted \cup {finishList} : l \in Nat /\ l <= created
      BY <1>0, CountedLists DEF Placed, Spare, WordsTyped
    <3>2. \A l \in Spare \cup Counted \cup {finishList} : l <= created'
      BY <2>4, <3>1, CountedLists
    <3> QED BY <2>1, <2>2, <2>4, <2>5, <3>2
  <2>7. Spare' \cap Counted' = {} /\ (finisher' = "recycle" => finishList' \notin Spare' \cup Counted')
    BY <1>0, <2>1, <2>2, <2>4, <2>5 DEF Placed
  <2>8. Placed'
    BY <1>0, <2>1, <2>4, <2>6, <2>7 DEF Placed
  <2> QED BY <2>2, <2>3, <2>8 DEF ListInv
<1>4. CASE CsFlush
  <2>1. /\ UNCHANGED <<finishQueue, submitter, submitStatus, finisher, finishList, gpu, blitList>>
        /\ pending' = pending + 1 /\ submitQueue' = Append(submitQueue, recording)
        /\ recording' = NextList /\ CreateCommandList
    BY <1>4 DEF CsFlush, Submit
  <2>2. recording \in Lists /\ recording \notin Counted /\ recording \in Spare
    BY <1>0 DEF WordsTyped, Placed, Spare
  <2>3. /\ Counted' = Counted \cup {recording} /\ Threads' /\ Counting'
        /\ \A i, j \in 1 .. Len(submitQueue') :
             submitQueue'[i] = submitQueue'[j] /\ submitQueue'[i] # Present => i = j
        /\ Elements(submitQueue') \cap Elements(finishQueue') = {}
    BY <2>1, <2>2, ListSubmitted
  <2>4. /\ NextList \notin Counted /\ NextList # recording /\ NextList # blitList
        /\ Distinct(recycled') /\ Elements(recycled') \subseteq Elements(recycled) /\ NextList \notin Elements(recycled')
        /\ finisher = "recycle" => NextList # finishList
        /\ created' \in Nat /\ created <= created' /\ NextList <= created'
    BY <1>0, <2>1, NextListFresh
  <2>5. Spare' \subseteq (Spare \ {recording}) \cup {NextList} /\ Spare \subseteq Spare
    BY <1>0, <2>1, <2>4 DEF Spare, Placed
  <2>6. \A l \in Spare' \cup Counted' \cup {finishList'} : l <= created'
    <3>1. \A l \in Spare \cup Counted \cup {finishList} : l \in Nat /\ l <= created
      BY <1>0, CountedLists DEF Placed, Spare, WordsTyped
    <3>2. \A l \in Spare \cup Counted \cup {finishList} : l <= created'
      BY <2>4, <3>1, CountedLists
    <3> QED BY <2>1, <2>2, <2>3, <2>4, <2>5, <3>2
  <2>7. Spare' \cap Counted' = {} /\ (finisher' = "recycle" => finishList' \notin Spare' \cup Counted')
    BY <1>0, <2>1, <2>2, <2>3, <2>4, <2>5 DEF Placed
  <2>8. Placed'
    BY <1>0, <2>1, <2>3, <2>4, <2>6, <2>7 DEF Placed
  <2> QED BY <2>3, <2>8 DEF ListInv
<1>5. CASE CsBlit
  <2>1. /\ UNCHANGED <<finishQueue, submitter, submitStatus, finisher, finishList, gpu, recording, recycled, created>>
        /\ pending' = pending + 1 /\ submitQueue' = Append(submitQueue, blitList) /\ blitList' = 0
        /\ csRest # <<>> /\ Head(csRest) = "blit"
    BY <1>5 DEF CsBlit, Submit
  <2>2. blitList \in Lists /\ blitList \notin Counted /\ blitList \in Spare
    BY <1>0, <2>1, BlitFound DEF WordsTyped, Placed, Spare
  <2>3. /\ Counted' = Counted \cup {blitList} /\ Threads' /\ Counting'
        /\ \A i, j \in 1 .. Len(submitQueue') :
             submitQueue'[i] = submitQueue'[j] /\ submitQueue'[i] # Present => i = j
        /\ Elements(submitQueue') \cap Elements(finishQueue') = {}
    BY <2>1, <2>2, ListSubmitted
  <2>4. Spare' = (Spare \ {blitList}) \cup {0}
    BY <1>0, <2>1 DEF Spare, Placed
  <2>5. 0 \notin Counted' /\ finishList # 0 /\ recording # 0 /\ 0 \notin Elements(recycled) /\ 0 <= created
    BY <1>0, <2>2, <2>3, CountedLists DEF WordsTyped
  <2>6. Spare' \cap Counted' = {} /\ (finisher' = "recycle" => finishList' \notin Spare' \cup Counted')
    BY <1>0, <2>1, <2>2, <2>3, <2>4, <2>5 DEF Placed
  <2>7. \A l \in Spare' \cup Counted' \cup {finishList'} : l <= created'
    BY <1>0, <2>1, <2>2, <2>3, <2>4, <2>5 DEF Placed
  <2>8. Placed'
    BY <1>0, <2>1, <2>3, <2>5, <2>6, <2>7 DEF Placed
  <2> QED BY <2>3, <2>8 DEF ListInv
<1>6. CASE CsPresent
  <2>1. /\ UNCHANGED <<finishQueue, submitter, submitStatus, finisher, finishList, gpu, recording, recycled, created,
                       blitList, pending>>
        /\ submitQueue' = Append(submitQueue, Present)
    BY <1>6 DEF CsPresent, QueuePresent
  <2>2. /\ Len(submitQueue) \in Nat /\ Len(submitQueue') = Len(submitQueue) + 1
        /\ \A i \in 1 .. Len(submitQueue) : submitQueue'[i] = submitQueue[i]
        /\ submitQueue'[Len(submitQueue) + 1] = Present
        /\ Elements(submitQueue') = Elements(submitQueue) \cup {Present}
        /\ submitQueue' # <<>>
        /\ submitQueue # <<>> => 1 \in 1 .. Len(submitQueue)
    <3>1. submitQueue \in Seq(Entries) /\ Present \in Entries
      BY <1>0 DEF SeqsTyped, Entries
    <3>2. submitQueue' \in Seq(Entries)
      BY <2>1, <3>1, ElementsAppend
    <3>3. /\ Len(Append(submitQueue, Present)) = Len(submitQueue) + 1
          /\ \A i \in 1 .. Len(submitQueue) : Append(submitQueue, Present)[i] = submitQueue[i]
          /\ Append(submitQueue, Present)[Len(submitQueue) + 1] = Present
          /\ Elements(Append(submitQueue, Present)) = Elements(submitQueue) \cup {Present}
      BY <3>1, ElementsAppend
    <3>4. Elements(submitQueue') = Elements(submitQueue) \cup {Present}
      BY <2>1, <3>3 DEF Elements
    <3> QED BY <2>1, <3>1, <3>2, <3>3, <3>4, Lengths
  <2>3. Elements(finishQueue') = Elements(finishQueue) /\ Present \notin Elements(finishQueue)
    BY <2>1, CountedLists
  <2>4. Counted' = Counted
    BY <2>2, <2>3 DEF Counted
  <2>5. ASSUME NEW i \in 1 .. Len(submitQueue'), NEW j \in 1 .. Len(submitQueue'),
               submitQueue'[i] = submitQueue'[j], submitQueue'[i] # Present
        PROVE  i = j
    <3>1. i \in 1 .. Len(submitQueue) \/ i = Len(submitQueue) + 1
      BY <2>2
    <3>2. j \in 1 .. Len(submitQueue) \/ j = Len(submitQueue) + 1
      BY <2>2
    <3> QED BY <1>0, <2>2, <2>5, <3>1, <3>2 DEF Placed
  <2>6. Spare' = Spare
    BY <2>1 DEF Spare
  <2>7. Placed'
    BY <1>0, <2>1, <2>2, <2>3, <2>4, <2>5, <2>6 DEF Placed
  <2>8. submitter # "idle" => submitQueue'[1] = submitQueue[1]
    BY <1>0, <2>2 DEF Threads
  <2>9. HandedOver' = HandedOver
    BY <2>1, <2>8 DEF HandedOver
  <2>10. submitStatus = "outofdate" => submitter = "executed" /\ submitQueue'[1] = Present
    BY <1>0, <2>8 DEF Threads
  <2>11. Threads'
    BY <1>0, <2>1, <2>2, <2>3, <2>9, <2>10 DEF Threads
  <2>12. Counting'
    BY <1>0, <2>1, <2>4 DEF Counting
  <2> QED BY <2>7, <2>11, <2>12 DEF ListInv
<1>7. ASSUME UNCHANGED <<submitQueue, finishQueue, recycled, recording, blitList, created, pending, finishList>>,
             finisher' # "recycle" \/ finisher' = finisher, Threads'
      PROVE  ListInv'
  BY <1>1, <1>2, <1>7 DEF ListInv
<1>8. CASE QueueStep(SubmitTake)
  <2>1. /\ UNCHANGED <<submitQueue, finishQueue, recycled, recording, blitList, created, pending, finishList, finisher,
                       gpu, submitStatus>>
        /\ submitter = "idle" /\ submitter' = "taken" /\ submitQueue # <<>>
    BY <1>8 DEF QueueStep, SubmitTake
  <2>2. HandedOver = {}
    BY <2>1 DEF HandedOver
  <2>3. Threads'
    BY <1>0, <2>1, <2>2 DEF Threads
  <2> QED BY <1>7, <2>1, <2>3
<1>9. CASE QueueStep(SubmitExecute)
  <2>1. /\ UNCHANGED <<submitQueue, finishQueue, recycled, recording, blitList, created, pending, finishList, finisher>>
        /\ submitter = "taken" /\ submitter' = "executed"
    BY <1>9 DEF QueueStep, SubmitExecute
  <2>2. HandedOver = {} /\ submitQueue # <<>>
    BY <1>0, <2>1 DEF HandedOver, Threads
  <2>3. /\ 1 \in 1 .. Len(submitQueue)
        /\ Head(submitQueue) = submitQueue[1]
        /\ submitQueue[1] \in Elements(submitQueue)
    BY <1>0, <2>2, Lengths DEF SeqsTyped
  <2>4. \/ gpu' = gpu
        \/ gpu' = gpu \cup {submitQueue[1]} /\ submitQueue[1] # Present /\ submitStatus' = "success"
    BY <1>9, <2>3 DEF QueueStep, SubmitExecute
  <2>5. submitStatus' = "outofdate" => submitQueue[1] = Present
    BY <1>9, <2>3 DEF QueueStep, SubmitExecute, Outcomes
  <2>6. gpu' \subseteq Elements(finishQueue) \cup HandedOver'
    BY <1>0, <2>1, <2>2, <2>4 DEF Threads, HandedOver
  <2>7. finisher \in {"notify", "pop"} => finishList \notin gpu'
    <3>1. finisher \in {"notify", "pop"} => finishList \in Elements(finishQueue)
      BY <1>0, Lengths DEF Threads, SeqsTyped
    <3>2. submitQueue[1] \notin Elements(finishQueue)
      BY <1>0, <2>3 DEF Placed
    <3> QED BY <1>0, <2>4, <3>1, <3>2 DEF Threads
  <2>8. Threads'
    BY <1>0, <2>1, <2>2, <2>5, <2>6, <2>7 DEF Threads
  <2> QED BY <1>7, <2>1, <2>8
<1>10. CASE QueueStep(SubmitFails)
  <2>1. /\ UNCHANGED <<submitQueue, finishQueue, recycled, recording, blitList, created, pending, finishList, finisher,
                       gpu, submitStatus>>
        /\ submitter = "executed" /\ submitter' = "selflocked" /\ submitStatus # "success"
        /\ submitStatus = "lost" \/ Head(submitQueue) # Present
    BY <1>10 DEF QueueStep, SubmitFails
  <2>2. HandedOver = {} /\ submitQueue # <<>>
    BY <1>0, <2>1 DEF HandedOver, Threads
  <2>3. Head(submitQueue) = submitQueue[1]
    BY <1>0, <2>2, Lengths DEF SeqsTyped
  <2>4. submitStatus # "outofdate"
    BY <1>0, <2>1, <2>3 DEF Threads
  <2>5. Threads'
    BY <1>0, <2>1, <2>2, <2>4 DEF Threads
  <2> QED BY <1>7, <2>1, <2>5
<1>11. CASE QueueStep(SubmitRetires)
  <2> DEFINE e == Head(submitQueue)
  <2>1. /\ UNCHANGED <<recycled, recording, blitList, created, pending, finishList, finisher, gpu>>
        /\ submitter = "executed" /\ submitter' = "idle" /\ submitStatus' = "success"
        /\ submitStatus = "success" \/ e = Present
        /\ submitQueue' = Tail(submitQueue)
        /\ finishQueue' = IF e = Present THEN finishQueue ELSE Append(finishQueue, e)
    BY <1>11 DEF QueueStep, SubmitRetires
  <2>2. submitQueue # <<>>
    BY <1>0, <2>1 DEF Threads
  <2>3. /\ e \in Entries /\ 1 \in 1 .. Len(submitQueue) /\ e = submitQueue[1]
        /\ Elements(submitQueue) = {e} \cup Elements(submitQueue')
        /\ \A i \in 1 .. Len(submitQueue') : i + 1 \in 1 .. Len(submitQueue) /\ submitQueue'[i] = submitQueue[i + 1]
    <3>1. Elements(submitQueue') = Elements(Tail(submitQueue))
      BY <2>1
    <3> QED BY <1>0, <2>1, <2>2, <3>1, ElementsTail DEF SeqsTyped
  <2> HIDE DEF e
  <2>4. e # Present => e \notin Elements(submitQueue')
    <3>1. ASSUME e # Present, NEW i \in 1 .. Len(submitQueue'), submitQueue'[i] = e PROVE FALSE
      <4>1. i + 1 = 1
        BY <1>0, <2>3, <3>1 DEF Placed
      <4> QED BY <4>1
    <3> QED BY <3>1 DEF Elements
  <2>5. e # Present => e \in Lists /\ e \notin Elements(finishQueue) /\ e \in Counted
    BY <1>0, <2>3 DEF Entries, Placed, Counted
  <2>6. \A i, j \in 1 .. Len(submitQueue') :
          submitQueue'[i] = submitQueue'[j] /\ submitQueue'[i] # Present => i = j
    <3>1. \A i, j \in 1 .. Len(submitQueue') : i + 1 = j + 1 => i = j
      OBVIOUS
    <3> QED BY <1>0, <2>3, <3>1 DEF Placed
  <2>7. /\ Elements(finishQueue') = Elements(finishQueue) \cup ({e} \ {Present})
        /\ Distinct(finishQueue')
        /\ finishQueue # <<>> => finishQueue' # <<>> /\ finishQueue'[1] = finishQueue[1]
    <3>1. CASE e = Present
      <4>1. finishQueue' = finishQueue
        BY <2>1, <3>1
      <4> QED BY <1>0, <3>1, <4>1 DEF Placed
    <3>2. CASE e # Present
      <4>1. finishQueue' = Append(finishQueue, e) /\ finishQueue \in Seq(Lists) /\ e \in Lists
        BY <1>0, <2>1, <2>5, <3>2 DEF SeqsTyped
      <4>2. /\ Elements(Append(finishQueue, e)) = Elements(finishQueue) \cup {e}
            /\ Distinct(Append(finishQueue, e))
            /\ Append(finishQueue, e) # <<>>
            /\ \A i \in 1 .. Len(finishQueue) : Append(finishQueue, e)[i] = finishQueue[i]
        BY <1>0, <2>5, <3>2, <4>1, ElementsAppend, DistinctAppend DEF Placed
      <4>3. finishQueue # <<>> => 1 \in 1 .. Len(finishQueue)
        BY <4>1, Lengths
      <4>4. /\ Elements(finishQueue') = Elements(Append(finishQueue, e))
            /\ (Distinct(finishQueue') <=> Distinct(Append(finishQueue, e)))
        BY <4>1
      <4> QED BY <3>2, <4>1, <4>2, <4>3, <4>4
    <3> QED BY <3>1, <3>2
  <2>8. Elements(submitQueue') \cap Elements(finishQueue') = {}
    BY <1>0, <2>3, <2>4, <2>7 DEF Placed
  <2>9. Counted' = Counted
    BY <2>3, <2>7 DEF Counted
  <2>10. Spare' = Spare
    BY <2>1 DEF Spare
  <2>11. Placed'
    BY <1>0, <2>1, <2>6, <2>7, <2>8, <2>9, <2>10 DEF Placed
  <2>12. gpu \subseteq Elements(finishQueue')
    BY <1>0, <2>1, <2>3, <2>7 DEF Threads, HandedOver, WordsTyped
  <2>13. Threads'
    BY <1>0, <2>1, <2>7, <2>12 DEF Threads, HandedOver
  <2>14. Counting'
    BY <1>0, <2>1, <2>9 DEF Counting
  <2> QED BY <2>11, <2>13, <2>14 DEF ListInv
<1>12. CASE QueueStep(FinishTake)
  <2>1. /\ UNCHANGED <<submitQueue, finishQueue, recycled, recording, blitList, created, pending,
                       submitter, submitStatus, gpu>>
        /\ finishQueue # <<>> /\ finisher' = "fence" /\ finishList' = Head(finishQueue)
    BY <1>12 DEF QueueStep, FinishTake
  <2>2. Head(finishQueue) = finishQueue[1] /\ finishQueue[1] \in Elements(finishQueue)
    BY <1>0, <2>1, Lengths DEF SeqsTyped
  <2>3. Counted' = Counted /\ Counting'
    BY <1>1, <2>1
  <2>4. Spare' = Spare
    BY <2>1 DEF Spare
  <2>5. finishList' \in Counted
    BY <2>1, <2>2 DEF Counted
  <2>6. Placed'
    BY <1>0, <2>1, <2>3, <2>4, <2>5 DEF Placed
  <2>7. Threads'
    BY <1>0, <2>1, <2>2 DEF Threads, HandedOver
  <2> QED BY <2>3, <2>6, <2>7 DEF ListInv
<1>13. CASE \/ QueueStep(FinishFence) \/ QueueStep(FinishFenceFails) \/ QueueStep(FinishIdle) \/ QueueStep(FinishNotify)
  <2>1. /\ UNCHANGED <<submitQueue, finishQueue, recycled, recording, blitList, created, pending, finishList, submitter,
                       submitStatus, gpu>>
        /\ finisher \in {"fence", "idling", "notify", "pop"}
        /\ finisher' \in {"fence", "idling", "notify", "pop"}
        /\ finisher' \in {"notify", "pop"} => finishList \notin gpu
    BY <1>0, <1>13 DEF QueueStep, FinishFence, FinishFenceFails, FinishIdle, FinishNotify, Threads
  <2>2. Threads'
    BY <1>0, <2>1 DEF Threads, HandedOver
  <2> QED BY <1>7, <2>1, <2>2
<1>14. CASE QueueStep(FinishPop)
  <2>1. /\ UNCHANGED <<submitQueue, recycled, recording, blitList, created, finishList, submitter, submitStatus, gpu>>
        /\ finisher = "pop" /\ finisher' = "recycle" /\ pending' = pending - 1 /\ finishQueue' = Tail(finishQueue)
    BY <1>14 DEF QueueStep, FinishPop
  <2>2. finishQueue # <<>> /\ finishList = finishQueue[1] /\ finishList \notin gpu
    BY <1>0, <2>1 DEF Threads
  <2>3. /\ Elements(finishQueue) = {finishList} \cup Elements(finishQueue')
        /\ Distinct(finishQueue') /\ finishList \notin Elements(finishQueue')
    <3>1. /\ Elements(finishQueue) = {Head(finishQueue)} \cup Elements(Tail(finishQueue))
          /\ Distinct(Tail(finishQueue)) /\ Head(finishQueue) \notin Elements(Tail(finishQueue))
          /\ Head(finishQueue) = finishQueue[1]
      BY <1>0, <2>2, ElementsTail, DistinctTail DEF SeqsTyped, Placed
    <3>2. /\ Elements(finishQueue') = Elements(Tail(finishQueue))
          /\ (Distinct(finishQueue') <=> Distinct(Tail(finishQueue)))
      BY <2>1
    <3> QED BY <2>2, <3>1, <3>2
  <2>4. finishList \notin Elements(submitQueue) /\ finishList \in Counted /\ finishList # Present
    BY <1>0, <2>3 DEF Placed, Counted, WordsTyped
  <2>5. Counted' = Counted \ {finishList}
    BY <2>1, <2>3, <2>4 DEF Counted
  <2>6. Spare' = Spare
    BY <2>1 DEF Spare
  <2>7. Placed'
    BY <1>0, <2>1, <2>3, <2>4, <2>5, <2>6 DEF Placed
  <2>8. Threads'
    BY <1>0, <2>1, <2>2, <2>3 DEF Threads, HandedOver
  <2>9. Counting'
    <3>1. IsFiniteSet(Counted) /\ pending = Cardinality(Counted)
      BY <1>0 DEF Counting
    <3>2. IsFiniteSet(Counted \ {finishList}) /\ Cardinality(Counted \ {finishList}) = Cardinality(Counted) - 1
      BY <2>4, <3>1, FS_RemoveElement
    <3> QED BY <2>1, <2>5, <3>1, <3>2 DEF Counting
  <2> QED BY <2>7, <2>8, <2>9 DEF ListInv
<1>15. CASE QueueStep(FinishRecycle)
  <2>1. /\ UNCHANGED <<submitQueue, finishQueue, recording, blitList, created, pending, submitter, submitStatus, gpu>>
        /\ finisher = "recycle" /\ finisher' = "idle" /\ finishList' = 1
        /\ recycled' = Append(recycled, finishList) \/ recycled' = recycled
    BY <1>15 DEF QueueStep, FinishRecycle
  <2>2. Counted' = Counted /\ Counting'
    BY <1>1, <2>1
  <2>3. finishList \notin Spare /\ finishList \notin Counted /\ finishList <= created /\ 1 <= created
    BY <1>0, <2>1, CountedLists DEF Placed
  <2>4. finishList \notin Elements(recycled) /\ finishList # recording /\ finishList # blitList
    BY <2>3 DEF Spare
  <2>5. Distinct(recycled') /\ Elements(recycled') \subseteq Elements(recycled) \cup {finishList}
    <3>1. CASE recycled' = recycled
      BY <1>0, <3>1 DEF Placed
    <3>2. CASE recycled' = Append(recycled, finishList)
      <4>1. /\ Elements(Append(recycled, finishList)) = Elements(recycled) \cup {finishList}
            /\ Distinct(Append(recycled, finishList))
        <5>1. recycled \in Seq(Lists) /\ finishList \in Lists /\ Distinct(recycled)
          BY <1>0 DEF SeqsTyped, WordsTyped, Placed
        <5> QED BY <2>4, <5>1, ElementsAppend, DistinctAppend
      <4>2. /\ Elements(recycled') = Elements(Append(recycled, finishList))
            /\ (Distinct(recycled') <=> Distinct(Append(recycled, finishList)))
        BY <3>2
      <4> QED BY <4>1, <4>2
    <3> QED BY <2>1, <3>1, <3>2
  <2>6. Spare' \subseteq Spare \cup {finishList}
    BY <2>1, <2>5 DEF Spare
  <2>7. Placed'
    BY <1>0, <2>1, <2>2, <2>3, <2>4, <2>5, <2>6 DEF Placed
  <2>8. Threads'
    BY <1>0, <2>1 DEF Threads, HandedOver
  <2> QED BY <2>2, <2>7, <2>8 DEF ListInv
<1>16. CASE /\ UNCHANGED <<submitQueue, finishQueue, recycled, recording, blitList, created, pending,
                           finishList, finisher,
                          submitter, submitStatus>>
            /\ gpu' \subseteq gpu
  <2>1. Threads'
    BY <1>0, <1>16 DEF Threads, HandedOver
  <2> QED BY <1>7, <1>16, <2>1
<1> QED
  BY <1>3, <1>4, <1>5, <1>6, <1>8, <1>9, <1>10, <1>11, <1>12, <1>13, <1>14, <1>15, <1>16
   DEF Next, AppStep, CsStep, QueueStep, SubmitStep, FinishStep, Draw, Map, FlushCsChunk, Flush,
       BeginPresent, CreatePresenter, MapSync, MapRecheck, MapRefused, MapFlush, MapReturns, MapWaits,
       MapSleeps, Unmap, Synchronized, DrainStream, DrainQueue, DrainLock, DrainGpu, PresenterCreated,
       RecreateSwapChain,
       CsNext, CsUse, CsSleeps, DeviceLost, GpuCompletes, CanRecord, SubmitSleeps, ResourceSleeps, vars

----------------------------------------------------------------------------
(* The uses of the resource. *)

LEMMA UsesConcat ==
  ASSUME NEW c \in Seq(Commands), NEW cs \in {<<>>, <<"flush">>, <<"blit", "present">>}, Uses(c \o cs)
  PROVE  Uses(c)
<1>1. /\ Len(c) \in Nat /\ Len(c \o cs) = Len(c) + Len(cs) /\ Len(cs) \in Nat
      /\ \A i \in 1 .. Len(c) : (c \o cs)[i] = c[i]
      /\ \A i \in Len(c) + 1 .. Len(c) + Len(cs) : (c \o cs)[i] = cs[i - Len(c)]
  BY DEF Commands, Accesses
<1>2. PICK a \in Accesses, i \in 1 .. Len(c \o cs) : (c \o cs)[i] = a
  BY DEF Uses, AheadOf
<1>3. CASE i \in 1 .. Len(c)
  BY <1>1, <1>2, <1>3 DEF Uses, AheadOf
<1>4. CASE i \in Len(c) + 1 .. Len(c) + Len(cs)
  <2>1. i - Len(c) \in 1 .. Len(cs) /\ cs[i - Len(c)] = a
    BY <1>1, <1>2, <1>4
  <2>2. \A k \in 1 .. Len(cs) : cs[k] \notin Accesses
    BY DEF Accesses
  <2> QED BY <2>1, <2>2
<1> QED BY <1>1, <1>3, <1>4

LEMMA UsesTail ==
  ASSUME NEW s \in Seq(Commands), s # <<>>
  PROVE  (Uses(Tail(s)) => Uses(s)) /\ (Head(s) \in Accesses => Uses(s))
<1>1. /\ 1 \in 1 .. Len(s) /\ Head(s) = s[1]
      /\ \A i \in 1 .. Len(Tail(s)) : i + 1 \in 1 .. Len(s) /\ Tail(s)[i] = s[i + 1]
  BY ElementsTail
<1> QED BY <1>1 DEF Uses, AheadOf

LEMMA Retired ==
  ASSUME TypeOK, ListInv, QueueStep(SubmitRetires)
  PROVE  Elements(submitQueue') \subseteq Elements(submitQueue) /\ Counted \subseteq Counted'
<1> DEFINE e == Head(submitQueue)
<1>1. /\ submitQueue' = Tail(submitQueue) /\ submitQueue # <<>>
      /\ finishQueue' = IF e = Present THEN finishQueue ELSE Append(finishQueue, e)
  BY DEF QueueStep, SubmitRetires, ListInv, Threads
<1>2. submitQueue \in Seq(Entries) /\ finishQueue \in Seq(Lists)
  BY TypeParts DEF SeqsTyped
<1>3. Elements(submitQueue) = {e} \cup Elements(submitQueue') /\ e \in Entries
  <2>1. Elements(submitQueue') = Elements(Tail(submitQueue))
    BY <1>1
  <2> QED BY <1>1, <1>2, <2>1, ElementsTail
<1> HIDE DEF e
<1>4. Elements(finishQueue) \cup ({e} \ {Present}) \subseteq Elements(finishQueue')
  <2>1. CASE e = Present
    BY <1>1, <2>1
  <2>2. CASE e # Present
    <3>1. Elements(Append(finishQueue, e)) = Elements(finishQueue) \cup {e}
      BY <1>2, <1>3, <2>2, ElementsAppend DEF Entries
    <3>2. Elements(finishQueue') = Elements(Append(finishQueue, e))
      BY <1>1, <2>2
    <3> QED BY <3>1, <3>2
  <2> QED BY <2>1, <2>2
<1> QED BY <1>3, <1>4 DEF Counted

LEMMA TrackersNext ==
  ASSUME TypeOK, ListInv, TokenInv, Trackers, [Next]_vars
  PROVE  Trackers'
<1> USE DEF allQueueVars, listVars, queueVars, submitVars, finishVars, gpuVars, streamVars, csVars, appVars
<1>0. SeqsTyped /\ WordsTyped /\ Placed /\ Threads
  BY TypeParts DEF ListInv
<1>1. \A h \in tracked : h[1] \in Lists
  BY <1>0 DEF WordsTyped
<1>2. ASSUME tracked' \subseteq tracked, holds' = holds, Counted \subseteq Counted', recording' = recording,
             Unfinished' \subseteq Unfinished,
             (finisher = "recycle" /\ tracked' = tracked) => finisher' = "recycle" /\ finishList' = finishList,
             tracked' = tracked \/ \A h \in tracked' : h[1] # finishList
      PROVE  Trackers'
  BY <1>2 DEF Trackers
<1>3. CASE CsUse
  <2>1. /\ UNCHANGED <<submitQueue, finishQueue, recording, finisher, finishList, gpu>>
        /\ tracked' = tracked \cup {<<recording, Head(csRest)>>} /\ holds' = holds \cup {<<recording, Head(csRest)>>}
    BY <1>3 DEF CsUse
  <2>2. Counted' = Counted /\ Unfinished' = Unfinished
    BY <2>1 DEF Counted, Unfinished, Elements
  <2> QED BY <2>1, <2>2 DEF Trackers
<1>4. CASE CsFlush
  <2>1. /\ UNCHANGED <<tracked, holds, finishQueue, submitter, submitStatus, finisher, finishList, gpu>>
        /\ pending' = pending + 1 /\ submitQueue' = Append(submitQueue, recording)
        /\ recording' = NextList /\ CreateCommandList
    BY <1>4 DEF CsFlush, Submit
  <2>2. recording \in Lists /\ recording \notin Counted /\ recording \in Entries
    BY <1>0 DEF WordsTyped, Placed, Spare, Entries
  <2>3. Counted' = Counted \cup {recording}
    BY <2>1, <2>2, ListSubmitted
  <2>4. NextList \notin Counted /\ NextList # recording /\ (finisher = "recycle" => NextList # finishList)
    BY <1>0, <2>1, NextListFresh
  <2>5. Elements(submitQueue') = Elements(submitQueue) \cup {recording}
    <3>1. Elements(Append(submitQueue, recording)) = Elements(submitQueue) \cup {recording}
      BY <1>0, <2>2, ElementsAppend DEF SeqsTyped
    <3>2. Elements(submitQueue') = Elements(Append(submitQueue, recording))
      BY <2>1
    <3> QED BY <3>1, <3>2
  <2>6. Unfinished' = Unfinished \cup {NextList}
    BY <2>1, <2>5 DEF Unfinished
  <2>7. \A h \in tracked : h[1] # NextList
    BY <2>4 DEF Trackers
  <2> QED BY <2>1, <2>3, <2>6, <2>7 DEF Trackers
<1>5. CASE CsBlit
  <2>1. /\ UNCHANGED <<tracked, holds, finishQueue, submitter, submitStatus, finisher, finishList, gpu, recording>>
        /\ pending' = pending + 1 /\ submitQueue' = Append(submitQueue, blitList)
        /\ csRest # <<>> /\ Head(csRest) = "blit"
    BY <1>5 DEF CsBlit, Submit
  <2>2. /\ blitList \in Lists /\ blitList \notin Counted /\ blitList \in Entries /\ blitList # recording
        /\ finisher = "recycle" => blitList # finishList
    BY <1>0, <2>1, BlitFound DEF WordsTyped, Placed, Spare, Entries
  <2>3. Counted' = Counted \cup {blitList}
    BY <2>1, <2>2, ListSubmitted
  <2>4. Elements(submitQueue') = Elements(submitQueue) \cup {blitList}
    <3>1. Elements(Append(submitQueue, blitList)) = Elements(submitQueue) \cup {blitList}
      BY <1>0, <2>2, ElementsAppend DEF SeqsTyped
    <3>2. Elements(submitQueue') = Elements(Append(submitQueue, blitList))
      BY <2>1
    <3> QED BY <3>1, <3>2
  <2>5. Unfinished' = Unfinished \cup {blitList}
    BY <2>1, <2>4 DEF Unfinished
  <2>6. \A h \in tracked : h[1] # blitList
    BY <2>2 DEF Trackers
  <2> QED BY <2>1, <2>3, <2>5, <2>6 DEF Trackers
<1>6. CASE CsPresent
  <2>1. /\ UNCHANGED <<tracked, holds, finishQueue, finisher, finishList, gpu, recording>>
        /\ submitQueue' = Append(submitQueue, Present)
    BY <1>6 DEF CsPresent, QueuePresent
  <2>2. Elements(submitQueue') = Elements(submitQueue) \cup {Present}
    <3>1. Elements(Append(submitQueue, Present)) = Elements(submitQueue) \cup {Present}
      <4>1. submitQueue \in Seq(Entries) /\ Present \in Entries
        BY <1>0 DEF SeqsTyped, Entries
      <4> QED BY <4>1, ElementsAppend
    <3>2. Elements(submitQueue') = Elements(Append(submitQueue, Present))
      BY <2>1
    <3> QED BY <3>1, <3>2
  <2>3. Counted \subseteq Counted' /\ Unfinished' = Unfinished \cup {Present}
    BY <2>1, <2>2 DEF Counted, Unfinished
  <2>4. \A h \in tracked : h[1] # Present
    BY <1>1
  <2> QED BY <2>1, <2>3, <2>4 DEF Trackers
<1>7. CASE QueueStep(SubmitExecute)
  <2>1. /\ UNCHANGED <<tracked, holds, submitQueue, finishQueue, finisher, finishList, recording>>
        /\ submitter = "taken" /\ gpu' \subseteq gpu \cup {Head(submitQueue)}
    BY <1>7 DEF QueueStep, SubmitExecute
  <2>2. Head(submitQueue) \in Elements(submitQueue)
    BY <1>0, <2>1, ElementsTail DEF Threads, SeqsTyped
  <2>3. Counted' = Counted /\ Unfinished' \subseteq Unfinished
    BY <2>1, <2>2 DEF Counted, Unfinished, Elements
  <2> QED BY <1>2, <2>1, <2>3
<1>8. CASE QueueStep(SubmitRetires)
  <2>1. UNCHANGED <<tracked, holds, finisher, finishList, recording, gpu>>
    BY <1>8 DEF QueueStep, SubmitRetires
  <2>2. Counted \subseteq Counted' /\ Unfinished' \subseteq Unfinished
    BY <1>8, <2>1, Retired DEF Unfinished
  <2> QED BY <1>2, <2>1, <2>2
<1>9. CASE QueueStep(FinishNotify)
  <2>1. /\ UNCHANGED <<tracked, submitQueue, finishQueue, finishList, recording, gpu>>
        /\ finisher = "notify" /\ finisher' = "pop" /\ holds' = {h \in holds : h[1] # finishList}
    BY <1>9 DEF QueueStep, FinishNotify
  <2>2. finishList \in Elements(finishQueue) /\ finishList \notin gpu
    BY <1>0, <2>1, Lengths DEF Threads, SeqsTyped
  <2>3. finishList \notin Unfinished
    BY <1>0, <2>2 DEF Placed, Spare, Counted, Unfinished
  <2>4. Counted' = Counted /\ Unfinished' = Unfinished
    BY <2>1 DEF Counted, Unfinished, Elements
  <2> QED BY <2>1, <2>3, <2>4 DEF Trackers
<1>10. CASE QueueStep(FinishPop)
  <2>1. /\ UNCHANGED <<tracked, holds, submitQueue, finishList, recording, gpu>>
        /\ finisher = "pop" /\ finisher' = "recycle" /\ finishQueue' = Tail(finishQueue)
    BY <1>10 DEF QueueStep, FinishPop
  <2>2. finishQueue # <<>> /\ finishList = finishQueue[1]
    BY <1>0, <2>1 DEF Threads
  <2>3. Elements(finishQueue) = {finishList} \cup Elements(finishQueue')
    <3>1. /\ Elements(finishQueue) = {Head(finishQueue)} \cup Elements(Tail(finishQueue))
          /\ Head(finishQueue) = finishQueue[1]
      BY <1>0, <2>2, ElementsTail DEF SeqsTyped
    <3>2. Elements(finishQueue') = Elements(Tail(finishQueue))
      BY <2>1
    <3> QED BY <2>2, <3>1, <3>2
  <2>4. Counted \subseteq Counted' \cup {finishList} /\ Unfinished' = Unfinished
    BY <2>1, <2>3 DEF Counted, Unfinished, Elements
  <2> QED BY <2>1, <2>4 DEF Trackers
<1>11. CASE QueueStep(FinishRecycle)
  <2>1. /\ UNCHANGED <<holds, submitQueue, finishQueue, recording, gpu>>
        /\ tracked' = {h \in tracked : h[1] # finishList}
    BY <1>11 DEF QueueStep, FinishRecycle
  <2>2. Counted' = Counted /\ Unfinished' = Unfinished
    BY <2>1 DEF Counted, Unfinished, Elements
  <2> QED BY <2>1, <2>2 DEF Trackers
<1>12. CASE /\ UNCHANGED <<tracked, holds, submitQueue, finishQueue, recording>> /\ gpu' \subseteq gpu
            /\ finisher = "recycle" => finisher' = "recycle" /\ finishList' = finishList
  <2>1. Counted' = Counted /\ Unfinished' \subseteq Unfinished
    BY <1>12 DEF Counted, Unfinished, Elements
  <2> QED BY <1>2, <1>12, <2>1
<1> QED
  BY <1>3, <1>4, <1>5, <1>6, <1>7, <1>8, <1>9, <1>10, <1>11, <1>12
   DEF Next, AppStep, CsStep, QueueStep, SubmitStep, FinishStep, Draw, Map, FlushCsChunk, Flush,
       BeginPresent, CreatePresenter, SubmitPresent, MapSync, MapRecheck, MapRefused, MapFlush, MapReturns,
       MapWaits, MapSleeps, Unmap, Synchronized, DrainStream, DrainQueue, DrainLock, DrainGpu,
       PresenterCreated, RecreateSwapChain, CsNext, CsSleeps, SubmitTake, SubmitFails, FinishTake, FinishFence,
       FinishFenceFails, FinishIdle, DeviceLost, GpuCompletes, CanRecord, SubmitSleeps, ResourceSleeps,
       vars

LEMMA NumberedNext ==
  ASSUME TypeOK, DrainInv, Numbered, [Next]_vars
  PROVE  Numbered'
<1> USE DEF allQueueVars, listVars, queueVars, submitVars, finishVars, gpuVars, streamVars, csVars, appVars
<1>0. /\ SeqsTyped /\ WordsTyped
      /\ dispatched \in Nat /\ executed \in Nat /\ lastUse \in Nat /\ csBusy \in BOOLEAN /\ Busy \in {0, 1}
      /\ Len(csQueue) \in Nat /\ dispatched = executed + Len(csQueue) + Busy
  BY TypeParts, Lengths DEF WordsTyped, SeqsTyped, Busy, DrainInv
<1>1. ASSUME NEW a \in Accesses, Draw(a) PROVE Numbered'
  <2>1. /\ UNCHANGED <<dispatched, csQueue, csBusy, csRest, executed>> /\ lastUse' = dispatched + 1
    BY <1>1 DEF Draw
  <2>2. \A i \in 1 .. Len(csQueue) : executed + Busy + i <= dispatched + 1
    BY <1>0
  <2>3. executed + 1 <= dispatched + 1 /\ Busy' = Busy
    BY <1>0, <2>1 DEF Busy
  <2> QED BY <2>1, <2>2, <2>3 DEF Numbered
<1>2. ASSUME NEW cs \in {<<>>, <<"flush">>, <<"blit", "present">>}, Dispatch(cs),
             UNCHANGED <<csBusy, csRest, executed, lastUse>>
      PROVE  Numbered'
  <2>1. Busy' = Busy /\ chunk' = <<>> /\ ~Uses(<<>>)
    BY <1>2 DEF Busy, Dispatch, Uses, AheadOf
  <2>2. CASE csQueue' = csQueue /\ dispatched' = dispatched
    BY <1>2, <2>1, <2>2 DEF Numbered
  <2>3. CASE csQueue' = Append(csQueue, chunk \o cs)
    <3>1. chunk \in Seq(Commands) /\ cs \in Seq(Commands) /\ chunk \o cs \in Seq(Commands)
      BY <1>0, CommandSeqs, ConcatProperties DEF SeqsTyped
    <3>2. /\ Len(csQueue') = Len(csQueue) + 1
          /\ \A i \in 1 .. Len(csQueue) : csQueue'[i] = csQueue[i]
          /\ csQueue'[Len(csQueue) + 1] = chunk \o cs
      BY <1>0, <2>3, <3>1, ElementsAppend DEF SeqsTyped
    <3>3. Uses(chunk \o cs) => executed + Busy + (Len(csQueue) + 1) <= lastUse
      <4>1. Uses(chunk \o cs) => lastUse = dispatched + 1
        BY <1>2, <3>1, UsesConcat DEF Numbered
      <4>2. executed + Busy + (Len(csQueue) + 1) = dispatched + 1
        BY <1>0
      <4>3. dispatched + 1 <= dispatched + 1
        BY <1>0
      <4> QED BY <4>1, <4>2, <4>3
    <3>4. ASSUME NEW i \in 1 .. Len(csQueue'), Uses(csQueue'[i])
          PROVE  executed + Busy + i <= lastUse
      <4>1. CASE i \in 1 .. Len(csQueue)
        BY <3>2, <3>4, <4>1 DEF Numbered
      <4>2. CASE i = Len(csQueue) + 1
        BY <3>2, <3>3, <3>4, <4>2
      <4> QED BY <1>0, <3>2, <4>1, <4>2
    <3> QED BY <1>2, <2>1, <3>4 DEF Numbered
  <2> QED BY <1>2, <2>2, <2>3 DEF Dispatch
<1>3. CASE FlushCsChunk \/ Flush \/ BeginPresent \/ SubmitPresent \/ MapFlush \/ DrainStream
  <2>1. UNCHANGED <<csBusy, csRest, executed, lastUse>>
    BY <1>3 DEF FlushCsChunk, Flush, BeginPresent, SubmitPresent, MapFlush, DrainStream
  <2>2. Dispatch(<<>>) \/ Dispatch(<<"flush">>) \/ Dispatch(<<"blit", "present">>)
    BY <1>3 DEF FlushCsChunk, Flush, BeginPresent, SubmitPresent, MapFlush, DrainStream
  <2> QED BY <1>2, <2>1, <2>2
<1>4. CASE MapSync
  <2>1. UNCHANGED <<csBusy, csRest, executed, lastUse>> /\ (Dispatch(<<>>) \/ UNCHANGED streamVars)
    BY <1>4 DEF MapSync
  <2>2. CASE UNCHANGED streamVars
    BY <2>1, <2>2 DEF Numbered, Busy
  <2> QED BY <1>2, <2>1, <2>2
<1>5. CASE CsNext
  <2>1. csRest = <<>> /\ executed' = executed + Busy /\ UNCHANGED <<chunk, dispatched, lastUse>>
    BY <1>0, <1>5 DEF CsNext, Busy
  <2>2. CASE csQueue = <<>>
    <3>1. csQueue' = <<>> /\ csRest' = <<>> /\ ~Uses(<<>>) /\ Len(<<>>) = 0
      BY <1>5, <2>1, <2>2 DEF CsNext, Uses, AheadOf
    <3> QED BY <2>1, <3>1 DEF Numbered
  <2>3. CASE csQueue # <<>>
    <3>1. csQueue' = Tail(csQueue) /\ csRest' = Head(csQueue) /\ Busy' = 1
      BY <1>5, <2>3 DEF CsNext, Busy
    <3>2. /\ 1 \in 1 .. Len(csQueue) /\ csRest' = csQueue[1]
          /\ \A i \in 1 .. Len(csQueue') : i + 1 \in 1 .. Len(csQueue) /\ csQueue'[i] = csQueue[i + 1]
      BY <1>0, <2>3, <3>1, ElementsTail DEF SeqsTyped
    <3>3. Uses(csRest') => executed' + 1 <= lastUse
      BY <2>1, <3>2 DEF Numbered
    <3>4. ASSUME NEW i \in 1 .. Len(csQueue'), Uses(csQueue'[i])
          PROVE  executed' + Busy' + i <= lastUse
      <4>1. executed + Busy + (i + 1) <= lastUse
        BY <3>2, <3>4 DEF Numbered
      <4>2. executed + Busy + (i + 1) = executed + Busy + 1 + i
        BY <1>0
      <4> QED BY <2>1, <3>1, <4>1, <4>2
    <3> QED BY <2>1, <3>3, <3>4 DEF Numbered
  <2> QED BY <2>2, <2>3
<1>6. CASE CsUse \/ CsFlush \/ CsBlit \/ CsPresent
  <2>1. /\ csRest # <<>> /\ csRest' = Tail(csRest)
        /\ UNCHANGED <<chunk, dispatched, csQueue, csBusy, executed, lastUse>>
    BY <1>6 DEF CsUse, CsFlush, CsBlit, CsPresent, Submit, QueuePresent
  <2>2. Uses(csRest') => Uses(csRest)
    BY <1>0, <2>1, UsesTail DEF SeqsTyped
  <2> QED BY <2>1, <2>2 DEF Numbered, Busy
<1>7. CASE UNCHANGED <<chunk, dispatched, csQueue, csBusy, csRest, executed, lastUse>>
  BY <1>7 DEF Numbered, Busy
<1> QED
  BY <1>1, <1>3, <1>4, <1>5, <1>6, <1>7
   DEF Next, AppStep, CsStep, QueueStep, SubmitStep, FinishStep, Map, CreatePresenter, MapRecheck,
       MapRefused, MapReturns, MapWaits, MapSleeps, Unmap, Synchronized, DrainQueue, DrainLock, DrainGpu,
       PresenterCreated, RecreateSwapChain, CsSleeps, SubmitTake, SubmitExecute, SubmitRetires,
       SubmitFails, FinishTake,
       FinishFence, FinishFenceFails, FinishIdle, FinishNotify, FinishPop, FinishRecycle, DeviceLost,
       GpuCompletes, CanRecord, Submit, QueuePresent, SubmitSleeps, ResourceSleeps, vars

\* The uses that are not executed come later than a chunk that is.
LEMMA NoUseAhead ==
  ASSUME TypeOK, Numbered, lastUse <= executed
  PROVE  ~Uses(csRest) /\ \A i \in 1 .. Len(csQueue) : ~Uses(csQueue[i])
<1>1. executed \in Nat /\ lastUse \in Nat /\ Busy \in {0, 1} /\ Len(csQueue) \in Nat
  BY TypeParts, Lengths DEF WordsTyped, SeqsTyped, Busy
<1>2. ~(executed + 1 <= lastUse)
  BY <1>1
<1>3. \A i \in 1 .. Len(csQueue) : ~(executed + Busy + i <= lastUse)
  BY <1>1
<1> QED BY <1>2, <1>3 DEF Numbered

LEMMA WaitedNext ==
  ASSUME TypeOK, DrainInv, Numbered, Waited, ~Rereads, [Next]_vars
  PROVE  Waited'
<1> USE DEF allQueueVars, listVars, queueVars, submitVars, finishVars, gpuVars, streamVars, csVars, appVars
<1>0. /\ SeqsTyped /\ WordsTyped
      /\ dispatched \in Nat /\ executed \in Nat /\ lastUse \in Nat /\ ~Uses(<<>>)
  BY TypeParts DEF WordsTyped, Uses, AheadOf
<1>1. ASSUME app' \notin {"synced", "flushed", "recheck", "wait", "waiting", "mapped"} PROVE Waited'
  BY <1>1 DEF Waited
<1>2. CASE MapSync
  <2>1. /\ app' = "synced" /\ target' = lastUse /\ lastUse' = lastUse
        /\ IF lastUse > dispatched THEN Dispatch(<<>>) ELSE UNCHANGED streamVars
    BY <1>2 DEF MapSync
  <2>2. CASE lastUse > dispatched
    BY <1>0, <2>1, <2>2 DEF Waited, Dispatch
  <2>3. CASE ~(lastUse > dispatched)
    <3>1. ~Uses(chunk) /\ chunk' = chunk
      BY <1>0, <2>1, <2>3 DEF Numbered
    <3> QED BY <2>1, <3>1 DEF Waited
  <2> QED BY <2>2, <2>3
<1>3. CASE MapFlush
  BY <1>0, <1>3 DEF MapFlush, Dispatch, Waited
<1>4. CASE Synchronized("synced", "recheck") \/ Synchronized("flushed", "wait")
  <2>1. /\ app \in {"synced", "flushed"} /\ app' \in {"recheck", "wait"} /\ executed >= target
        /\ UNCHANGED <<executed, lastUse, chunk>>
    BY <1>4 DEF Synchronized
  <2>2. target = lastUse
    BY <2>1 DEF Waited
  <2>3. lastUse <= executed
    BY <1>0, <2>1, <2>2
  <2> QED BY <2>1, <2>3 DEF Waited
<1>5. CASE MapRecheck
  <2>1. /\ app = "recheck" /\ UNCHANGED <<executed, lastUse, chunk, holds, access, target>>
        /\ app' = IF IsInUse(access) THEN "flush" ELSE "mapped"
    BY <1>5 DEF MapRecheck
  <2>2. IsInUse(access)' <=> IsInUse(access)
    BY <2>1 DEF IsInUse
  <2> QED BY <2>1, <2>2 DEF Waited
<1>6. CASE MapReturns
  <2>1. /\ app \in {"wait", "waiting"} /\ UNCHANGED <<executed, lastUse, chunk, holds, access, target>>
        /\ app' = "mapped" /\ ~IsInUse(access)
    BY <1>6 DEF MapReturns
  <2>2. IsInUse(access)' <=> IsInUse(access)
    BY <2>1 DEF IsInUse
  <2> QED BY <2>1, <2>2 DEF Waited
<1>7. CASE MapWaits
  BY <1>7 DEF MapWaits, Waited
<1>8. CASE CsNext
  <2>1. UNCHANGED <<app, target, lastUse, chunk, holds, access>> /\ executed' \in {executed, executed + 1}
    BY <1>8 DEF CsNext
  <2>2. lastUse <= executed => lastUse <= executed'
    BY <1>0, <2>1
  <2>3. IsInUse(access)' <=> IsInUse(access)
    BY <2>1 DEF IsInUse
  <2> QED BY <2>1, <2>2, <2>3 DEF Waited
<1>9. CASE CsUse
  <2>1. /\ UNCHANGED <<app, target, lastUse, chunk, access, executed>>
        /\ csRest # <<>>
        /\ Head(csRest) \in Accesses
    BY <1>9 DEF CsUse
  <2>2. Uses(csRest)
    BY <1>0, <2>1, UsesTail DEF SeqsTyped
  <2>3. ~(lastUse <= executed)
    BY <2>2, NoUseAhead
  <2>4. app # "mapped"
    BY <2>3 DEF Waited
  <2> QED BY <2>1, <2>4 DEF Waited
<1>10. CASE UNCHANGED <<app, target, lastUse, chunk, access, executed>> /\ holds' \subseteq holds
  <2>1. IsInUse(access)' => IsInUse(access)
    BY <1>10 DEF IsInUse
  <2> QED BY <1>10, <2>1 DEF Waited
<1>11. app' \notin {"synced", "flushed", "recheck", "wait", "waiting", "mapped"} \/ app' = app
       \/ MapSync \/ MapFlush \/ Synchronized("synced", "recheck") \/ Synchronized("flushed", "wait") \/ MapRecheck
       \/ MapReturns \/ MapWaits
  BY DEF Next, AppStep, CsStep, QueueStep, SubmitStep, FinishStep, Draw, Map, FlushCsChunk, Flush,
       BeginPresent, CreatePresenter, SubmitPresent, MapRefused, MapSleeps, Unmap, DrainStream, DrainQueue,
       DrainLock, DrainGpu, PresenterCreated, RecreateSwapChain, CsNext, CsUse, CsFlush, CsBlit, CsSleeps,
       CsPresent,
       SubmitTake, SubmitExecute, SubmitRetires, SubmitFails, FinishTake, FinishFence, FinishFenceFails,
       FinishIdle, FinishNotify, FinishPop, FinishRecycle, DeviceLost, GpuCompletes, CanRecord, Submit,
       QueuePresent, SubmitSleeps, ResourceSleeps, Synchronized, vars
<1>12. ASSUME app \in {"synced", "flushed", "recheck", "wait", "waiting", "mapped"}, app' = app
       PROVE  Waited'
  <2>1. \/ CsNext \/ CsUse
        \/ UNCHANGED <<app, target, lastUse, chunk, access, executed>> /\ holds' \subseteq holds
    BY <1>12 DEF Next, AppStep, CsStep, QueueStep, SubmitStep, FinishStep, Draw, Map, FlushCsChunk, Flush,
       BeginPresent, CreatePresenter, SubmitPresent, MapSync, MapRecheck, MapRefused, MapFlush, MapReturns,
       MapWaits, MapSleeps, Unmap, Synchronized, DrainStream, DrainQueue, DrainLock, DrainGpu,
       PresenterCreated, RecreateSwapChain, CsFlush, CsBlit, CsSleeps, CsPresent, SubmitTake,
       SubmitExecute, SubmitRetires,
       SubmitFails, FinishTake, FinishFence, FinishFenceFails, FinishIdle, FinishNotify, FinishPop,
       FinishRecycle, DeviceLost, GpuCompletes, CanRecord, Submit, QueuePresent, SubmitSleeps,
       ResourceSleeps, CreateCommandList, vars
  <2> QED BY <1>8, <1>9, <1>10, <2>1
<1> QED
  BY <1>1, <1>2, <1>3, <1>4, <1>5, <1>6, <1>7, <1>11, <1>12

LEMMA UseNext ==
  ASSUME TypeOK, ListInv, TokenInv, DrainInv, UseInv, [Next]_vars
  PROVE  UseInv'
<1>1. Trackers' /\ Numbered'
  BY TrackersNext, NumberedNext DEF UseInv
<1>2. Rereads \/ Waited'
  BY WaitedNext DEF UseInv
<1> QED BY <1>1, <1>2 DEF UseInv

----------------------------------------------------------------------------
(* The theorems. *)

LEMMA InitHolds ==
  Init => IInv
<1> SUFFICES ASSUME Init PROVE IInv
  OBVIOUS
<1> USE DEF Init, QueueInit
<1>1. Len(csQueue) = 0 /\ Len(csRest) = 0 /\ Len(submitQueue) = 0 /\ Len(finishQueue) = 0 /\ Len(recycled) = 0
  OBVIOUS
<1>2. TypeOK
  <2>1. SeqsTyped
    BY DEF SeqsTyped
  <2>2. /\ gpu \subseteq Lists
        /\ tracked \subseteq Lists \X Accesses
        /\ holds \subseteq Lists \X Accesses
        /\ sleeping \subseteq {"app", "cs"}
    OBVIOUS
  <2>3. /\ recorded \in 0 .. MaxCommands
        /\ created \in Lists
        /\ finishList \in Lists
        /\ recording \in Lists
        /\ access \in Accesses
    BY DEF Accesses
  <2>4. WordsTyped
    BY <2>2, <2>3 DEF WordsTyped, AppStates
  <2> QED BY <2>1, <2>4, TypeParts
<1>3. Elements(submitQueue) = {} /\ Elements(finishQueue) = {} /\ Elements(recycled) = {}
  BY <1>1 DEF Elements
<1>4. Counted = {} /\ Spare = {1, 0}
  BY <1>3 DEF Counted, Spare
<1>5. Placed
  BY <1>1, <1>3, <1>4 DEF Placed, Distinct
<1>6. Threads
  BY DEF Threads, HandedOver
<1>7. Counting
  BY <1>4, FS_EmptySet DEF Counting
<1>8. NoTokens /\ Presenting = {} /\ StreamTokens
  BY <1>1 DEF NoTokens, Presenting, StreamTokens, HasToken, HasBlit, InOrder
<1>9. TokenInv
  BY <1>8 DEF TokenInv, PresentTokens
<1>10. DrainInv
  BY <1>1 DEF DrainInv
<1>11. UseInv
  <2>1. ~Uses(chunk) /\ ~Uses(csRest)
    BY DEF Uses, AheadOf
  <2> QED BY <1>1, <2>1 DEF UseInv, Trackers, Numbered, Waited
<1> QED BY <1>2, <1>5, <1>6, <1>7, <1>9, <1>10, <1>11 DEF IInv, ListInv

LEMMA NextHolds ==
  IInv /\ [Next]_vars => IInv'
  BY TypeNext, ListNext, TokenNext, DrainNext, UseNext DEF IInv

THEOREM Invariance == Spec => []IInv
  BY InitHolds, NextHolds, PTL DEF Spec

\* Every variable keeps its type; in particular m_pending never drops below zero and a blit
\* always finds the list it was recorded in.
THEOREM TypeCorrect == Spec => []TypeOK
<1>1. IInv => TypeOK
  BY DEF IInv
<1> QED BY <1>1, Invariance, PTL

\* beginRecording never resets the pools of a list that is queued or executing: neither of
\* the one that is recorded, nor of the swap chain's, nor of one that was recycled.
THEOREM ListsAreIdle == Spec => []RecordedListIsIdle
<1>1. ASSUME IInv PROVE RecordedListIsIdle
  <2> SUFFICES ASSUME NEW l \in {recording, blitList} \cup Elements(recycled)
               PROVE  l \notin gpu \cup Elements(submitQueue) \cup Elements(finishQueue)
    BY DEF RecordedListIsIdle
  <2>1. TypeOK /\ SeqsTyped /\ WordsTyped /\ Placed /\ Threads
    BY <1>1, TypeParts DEF IInv, ListInv
  <2>2. l \in Spare /\ l \notin Counted /\ l # Present
    BY <2>1, CountedLists DEF Spare, Placed, WordsTyped
  <2>3. l \notin Elements(submitQueue) /\ l \notin Elements(finishQueue)
    BY <2>2 DEF Counted
  <2>4. submitter = "executed" => submitQueue[1] \in Elements(submitQueue)
    BY <2>1, Lengths DEF Threads, SeqsTyped
  <2>5. gpu \subseteq Elements(submitQueue) \cup Elements(finishQueue)
    BY <2>1, <2>4 DEF Threads, HandedOver
  <2> QED BY <2>3, <2>5
<1> QED BY <1>1, Invariance, PTL

\* CreatePresenter drops the old presenter, and whoever reads a pending count of 0 goes on,
\* only when the GPU executes nothing.
THEOREM DeviceIsIdle == Spec => []IdleIsIdle
<1>1. ASSUME IInv PROVE IdleIsIdle
  <2>1. TypeOK /\ SeqsTyped /\ WordsTyped /\ Threads /\ Counting /\ DrainInv
    BY <1>1, TypeParts DEF IInv, ListInv
  <2>2. DrainedIsIdle
    BY <2>1 DEF DrainedIsIdle, DrainInv
  <2>3. pending = 0 => Counted = {}
    BY <2>1, FS_EmptySet DEF Counting
  <2>4. submitter = "executed" => submitQueue[1] \in Elements(submitQueue)
    BY <2>1, Lengths DEF Threads, SeqsTyped
  <2>5. gpu \subseteq Counted
    BY <2>1, <2>4 DEF Threads, HandedOver, Counted, WordsTyped
  <2> QED BY <2>2, <2>3, <2>5 DEF IdleIsIdle, ZeroPendingIsIdle
<1> QED BY <1>1, Invariance, PTL

\* A map that goes by one look at the counters, as the D3D11 device's, returns only when no
\* chunk and no list that is recorded, queued or executing can still touch the resource.
THEOREM MapsAreSafe == Spec => [](~Rereads => MappedIsUntouched)
<1>1. ASSUME IInv, ~Rereads PROVE MappedIsUntouched
  <2> SUFFICES ASSUME app = "mapped" PROVE "write" \notin Ahead /\ (access = "read" => Ahead = {})
    BY DEF MappedIsUntouched
  <2>1. TypeOK /\ Numbered /\ Trackers /\ Waited
    BY <1>1 DEF IInv, UseInv
  <2>2. ~Uses(chunk) /\ ~Uses(csRest) /\ (\A i \in 1 .. Len(csQueue) : ~Uses(csQueue[i])) /\ ~IsInUse(access)
    BY <2>1, NoUseAhead DEF Waited
  <2>3. \A a \in Ahead : \E t \in tracked : t[1] \in Unfinished /\ t[2] = a
    <3>1. AheadOf(chunk) = {} /\ AheadOf(csRest) = {} /\ \A i \in 1 .. Len(csQueue) : AheadOf(csQueue[i]) = {}
      BY <2>2 DEF Uses
    <3> QED BY <3>1 DEF Ahead
  <2>4. \A a \in Ahead : \E h \in holds : h[2] = a
    BY <2>1, <2>3 DEF Trackers
  <2> QED BY <2>2, <2>4 DEF IsInUse
<1>2. IInv => (~Rereads => MappedIsUntouched)
  BY <1>1
<1> QED BY <1>2, Invariance, PTL
==============================================================================

--------------------------- MODULE BridgeCallProofs ---------------------------
(***************************************************************************)
(* Proofs about BridgeCall, for any number of threads, calls and retries:  *)
(* the types, and that no call takes the answer to another one, with or     *)
(* without the device's lock and however many answers were given up, until *)
(* a Reset has gone on without its answer.                                 *)
(*                                                                         *)
(* The argument: ids are unique (UniqueUids), so that only one thread can  *)
(* find its id at the head, and it stays there until that thread pops it   *)
(* (OwnAtHead); words and headers are in step but for the word that this *)
(* thread has already pulled (InStep).                                     *)
(***************************************************************************)
EXTENDS BridgeCall, SequenceTheorems, TLAPS

USE CallAssumption DEF CallAssumption

----------------------------------------------------------------------------
(* Types. *)

LEMMA TypeInit == Init => TypeOK
<1> SUFFICES ASSUME Init PROVE TypeOK
  OBVIOUS
<1>1. 0 \in Uid /\ 0 \in 0 .. Retries + 1 /\ 0 \in 0 .. Stale /\ 1 \in 1 .. MaxCalls + 1
  BY DEF Uid, Stale
<1>2. <<>> \in Seq(Uid) /\ Len(<<>>) <= ResponseSlots
  OBVIOUS
<1> QED BY <1>1, <1>2 DEF Init, TypeOK

(* What one step of a thread does to the variables of the threads.         *)
LEMMA CallTypes ==
  ASSUME TypeOK, [Next]_vars
  PROVE  /\ pc' \in [Threads -> {"idle", "waiting", "reading", "popping"}]
         /\ kind' \in [Threads -> Kinds]
         /\ uid' \in [Threads -> Uid]
         /\ attempts' \in [Threads -> 0 .. Retries + 1]
         /\ failed' \subseteq Kinds
         /\ cmdUID' \in 1 .. MaxCalls + 1
<1> USE DEF TypeOK
<1>1. ASSUME NEW t \in Threads, NEW k \in Kinds, Call(t, k)
      PROVE  /\ uid' \in [Threads -> Uid] /\ cmdUID' \in 1 .. MaxCalls + 1
             /\ attempts' \in [Threads -> 0 .. Retries + 1]
  <2>1. cmdUID \in Uid /\ cmdUID + 1 \in 1 .. MaxCalls + 1 /\ 0 \in 0 .. Retries + 1
    BY <1>1 DEF Call, Uid
  <2> QED BY <1>1, <2>1 DEF Call
<1>2. ASSUME NEW t \in Threads, NEW k \in Kinds, Call(t, k)
      PROVE  /\ pc' \in [Threads -> {"idle", "waiting", "reading", "popping"}]
             /\ kind' \in [Threads -> Kinds] /\ UNCHANGED failed
  BY <1>2 DEF Call
<1>3. ASSUME NEW t \in Threads, TryAgain(t)
      PROVE  attempts' \in [Threads -> 0 .. Retries + 1] /\ UNCHANGED <<pc, kind, uid, failed, cmdUID>>
  <2>1. attempts[t] + 1 \in 0 .. Retries + 1
    BY <1>3 DEF TryAgain
  <2> QED BY <1>3, <2>1 DEF TryAgain, queueVars
<1>4. ASSUME NEW t \in Threads,
             Peek(t) \/ GiveUp(t) \/ ResetGoesOn(t) \/ GetData(t) \/ PopFront(t) \/ PopNothing(t)
      PROVE  /\ pc' \in [Threads -> {"idle", "waiting", "reading", "popping"}]
             /\ failed' \subseteq Kinds
             /\ UNCHANGED <<kind, uid, attempts, cmdUID>>
  BY <1>4 DEF Peek, GiveUp, ResetGoesOn, GetData, PopFront, PopNothing, queueVars
<1>5. CASE ServerAnswer \/ UNCHANGED vars
  BY <1>5 DEF ServerAnswer, callVars, queueVars, vars
<1> QED BY <1>1, <1>2, <1>3, <1>4, <1>5 DEF Next, Waits

(* What it does to the queues.                                             *)
LEMMA QueueTypes ==
  ASSUME TypeOK, [Next]_vars
  PROVE  /\ value' \in [Threads -> 0 .. Stale]
         /\ requests' \in Seq(Uid) /\ responses' \in Seq(Uid) /\ words' \in Seq(Uid)
         /\ Len(responses') <= ResponseSlots
         /\ readPos' \in Nat
<1> USE DEF TypeOK
<1>1. ASSUME NEW t \in Threads, NEW k \in Kinds, Call(t, k)
      PROVE  requests' \in Seq(Uid) /\ UNCHANGED <<value, responses, words, readPos>>
  <2>1. cmdUID \in Uid
    BY <1>1 DEF Call, Uid
  <2> QED BY <1>1, <2>1, AppendProperties DEF Call
<1>2. ASSUME NEW t \in Threads, GetData(t)
      PROVE  /\ value' \in [Threads -> 0 .. Stale] /\ readPos' \in Nat
             /\ UNCHANGED <<requests, responses, words>>
  <2>1. Stale \in 0 .. Stale
    BY DEF Stale
  <2>2. ASSUME readPos < Len(words) PROVE words[readPos + 1] \in 0 .. Stale
    <3>1. readPos + 1 \in 1 .. Len(words)
      BY <2>2, LenProperties
    <3>2. words[readPos + 1] \in Uid
      BY <3>1, ElementOfSeq
    <3> QED BY <3>2 DEF Uid, Stale
  <2> QED BY <1>2, <2>1, <2>2 DEF GetData
<1>3. ASSUME NEW t \in Threads, PopFront(t)
      PROVE  /\ responses' \in Seq(Uid) /\ Len(responses') <= ResponseSlots
             /\ UNCHANGED <<value, requests, words, readPos>>
  BY <1>3, HeadTailProperties, LenProperties DEF PopFront
<1>4. ASSUME NEW t \in Threads,
             Peek(t) \/ TryAgain(t) \/ GiveUp(t) \/ ResetGoesOn(t) \/ PopNothing(t)
      PROVE  UNCHANGED <<value, queueVars>>
  BY <1>4 DEF Peek, TryAgain, GiveUp, ResetGoesOn, PopNothing
<1>5. ASSUME ServerAnswer
      PROVE  /\ requests' \in Seq(Uid) /\ responses' \in Seq(Uid) /\ words' \in Seq(Uid)
             /\ Len(responses') <= ResponseSlots /\ UNCHANGED <<value, readPos>>
  <2>1. Head(requests) \in Uid /\ Tail(requests) \in Seq(Uid)
    BY <1>5, HeadTailProperties DEF ServerAnswer
  <2>2. Len(responses) + 1 <= ResponseSlots
    BY <1>5, LenProperties DEF ServerAnswer
  <2> QED BY <1>5, <2>1, <2>2, AppendProperties DEF ServerAnswer, callVars
<1>6. CASE UNCHANGED vars
  BY <1>6 DEF vars, callVars, queueVars
<1> QED BY <1>1, <1>2, <1>3, <1>4, <1>5, <1>6 DEF Next, Waits, queueVars

LEMMA TypeNext == TypeOK /\ [Next]_vars => TypeOK'
<1> SUFFICES ASSUME TypeOK, [Next]_vars PROVE TypeOK'
  OBVIOUS
<1>1. timeoutsDisabled' \in Settings
  BY DEF TypeOK, Next, Waits, Call, Peek, TryAgain, GiveUp, ResetGoesOn, GetData, PopFront, PopNothing,
         ServerAnswer, vars
<1> QED BY <1>1, CallTypes, QueueTypes DEF TypeOK

(* Every variable keeps its type, and the response queue never overflows.  *)
THEOREM TypeCorrect == Spec => []TypeOK
BY TypeInit, TypeNext, PTL DEF Spec

----------------------------------------------------------------------------
(* The right answers. *)

\* Every call under way has an id of its own, and no later command will have it.
UniqueUids ==
  \A t \in Threads :
    pc[t] # "idle" =>
      /\ uid[t] < cmdUID
      /\ \A other \in Threads \ {t} : pc[other] # "idle" => uid[t] # uid[other]

\* How many words are ahead of their headers: the one between get_data and pop_front.
Between == IF \E t \in Threads : pc[t] = "popping" THEN 1 ELSE 0

\* Header i from the end answers the same command as word i from the end.
InStep ==
  /\ Len(responses) <= Len(words)
  /\ readPos = Len(words) - Len(responses) + Between
  /\ \A i \in 1 .. Len(responses) : responses[i] = words[Len(words) - Len(responses) + i]

\* A thread that saw its answer at the head still finds it there.
OwnAtHead == \A t \in Threads : pc[t] \in {"reading", "popping"} => Expected(t)

AnswerInv == TypeOK /\ UniqueUids /\ OwnAtHead /\ InStep /\ TakesOwn

LEMMA AnswerInit == Init => AnswerInv
<1> SUFFICES ASSUME Init PROVE AnswerInv
  OBVIOUS
<1>1. TypeOK
  BY TypeInit
<1>2. UniqueUids /\ OwnAtHead /\ TakesOwn
  BY DEF Init, UniqueUids, OwnAtHead, TakesOwn
<1>3. InStep
  BY DEF Init, InStep, Between
<1> QED BY <1>1, <1>2, <1>3 DEF AnswerInv

\* Two threads never have an answer at the same time.
LEMMA OneReader ==
  ASSUME AnswerInv, NEW t \in Threads, NEW u \in Threads,
         pc[t] \in {"reading", "popping"}, pc[u] \in {"reading", "popping"}
  PROVE  t = u
BY DEF AnswerInv, UniqueUids, OwnAtHead, Expected

(* A new command's id is larger than those of all the calls under way.     *)
LEMMA CallAnswers ==
  ASSUME AnswerInv, NEW t \in Threads, NEW k \in Kinds, Call(t, k)
  PROVE  UniqueUids' /\ OwnAtHead' /\ InStep' /\ TakesOwn'
<1>1. /\ pc[t] = "idle" /\ pc' = [pc EXCEPT ![t] = "waiting"]
      /\ uid' = [uid EXCEPT ![t] = cmdUID] /\ cmdUID' = cmdUID + 1
      /\ UNCHANGED <<value, failed, responses, words, readPos>>
      /\ pc \in [Threads -> {"idle", "waiting", "reading", "popping"}]
      /\ uid \in [Threads -> Uid] /\ cmdUID \in Nat
  BY DEF Call, AnswerInv, TypeOK
<1>2. \A u \in Threads \ {t} : pc'[u] = pc[u] /\ uid'[u] = uid[u] /\ uid[u] \in Nat
  BY <1>1 DEF Uid
<1>3. pc'[t] = "waiting" /\ uid'[t] = cmdUID
  BY <1>1
<1>4. UniqueUids'
  BY <1>1, <1>2, <1>3 DEF AnswerInv, UniqueUids
<1>5. OwnAtHead' /\ TakesOwn'
  BY <1>1, <1>2, <1>3 DEF AnswerInv, OwnAtHead, TakesOwn, Expected
<1>6. InStep'
  BY <1>1, <1>2, <1>3 DEF AnswerInv, InStep, Between
<1> QED BY <1>4, <1>5, <1>6

(* The thread that pops is the only one that had its answer at the head,   *)
(* and takes the header of the word that it had pulled.                    *)
LEMMA PopFrontAnswers ==
  ASSUME AnswerInv, NEW t \in Threads, PopFront(t)
  PROVE  UniqueUids' /\ OwnAtHead' /\ InStep' /\ TakesOwn'
<1>1. /\ pc[t] = "popping" /\ pc' = [pc EXCEPT ![t] = "idle"]
      /\ responses # <<>> /\ responses' = Tail(responses)
      /\ UNCHANGED <<kind, uid, attempts, value, failed, cmdUID, requests, words, readPos>>
      /\ pc \in [Threads -> {"idle", "waiting", "reading", "popping"}]
      /\ responses \in Seq(Uid) /\ words \in Seq(Uid) /\ readPos \in Nat
  BY DEF PopFront, AnswerInv, TypeOK
<1>2. /\ pc'[t] = "idle"
      /\ \A u \in Threads \ {t} : pc'[u] = pc[u] /\ pc[u] \in {"idle", "waiting"}
  BY <1>1, OneReader
<1>3. UniqueUids' /\ OwnAtHead' /\ TakesOwn'
  BY <1>1, <1>2 DEF AnswerInv, UniqueUids, OwnAtHead, TakesOwn
<1>4. Between = 1 /\ Between' = 0
  BY <1>1, <1>2 DEF Between
<1> DEFINE n == Len(responses)
           m == Len(words)
<1>5. /\ n \in Nat /\ n > 0 /\ m \in Nat /\ n <= m /\ readPos = m - n + 1
      /\ Len(responses') = n - 1 /\ Len(words') = m
      /\ \A i \in 1 .. n - 1 : responses'[i] = responses[i + 1]
      /\ \A i \in 1 .. n : responses[i] = words[m - n + i]
  <2>1. n > 0
    BY <1>1, EmptySeq, LenProperties
  <2>2. Len(Tail(responses)) = n - 1 /\ \A i \in 1 .. n - 1 : Tail(responses)[i] = responses[i + 1]
    BY <1>1, HeadTailProperties
  <2> QED BY <1>1, <1>4, <2>1, <2>2, LenProperties DEF AnswerInv, InStep
<1> HIDE DEF n, m
<1>6. \A i \in 1 .. n - 1 : responses'[i] = words[m - (n - 1) + i]
  <2> TAKE i \in 1 .. n - 1
  <2>1. i + 1 \in 1 .. n /\ m - n + (i + 1) = m - (n - 1) + i
    BY <1>5
  <2> QED BY <1>5, <2>1
<1>7. InStep'
  <2>0. Len(responses') = n - 1 /\ Len(words') = m /\ n \in Nat /\ m \in Nat /\ n <= m
    BY <1>5
  <2>a. readPos' = m - n + 1 /\ Between' = 0
    BY <1>1, <1>4, <1>5
  <2>1. Len(responses') <= Len(words') /\ readPos' = Len(words') - Len(responses') + Between'
    BY <2>0, <2>a
  <2>2. \A i \in 1 .. Len(responses') : responses'[i] = words'[Len(words') - Len(responses') + i]
    BY <1>1, <1>5, <1>6
  <2> QED BY <2>1, <2>2 DEF InStep
<1> QED BY <1>3, <1>7

(* The word a thread pulls is the one of the header it saw.                *)
LEMMA GetDataAnswers ==
  ASSUME AnswerInv, NEW t \in Threads, GetData(t)
  PROVE  UniqueUids' /\ OwnAtHead' /\ InStep' /\ TakesOwn'
<1>1. /\ pc[t] = "reading" /\ pc' = [pc EXCEPT ![t] = "popping"]
      /\ value' = [value EXCEPT ![t] = IF readPos < Len(words) THEN words[readPos + 1] ELSE Stale]
      /\ readPos' = readPos + 1
      /\ UNCHANGED <<kind, uid, attempts, failed, cmdUID, requests, responses, words>>
      /\ pc \in [Threads -> {"idle", "waiting", "reading", "popping"}]
      /\ value \in [Threads -> 0 .. Stale]
      /\ responses \in Seq(Uid) /\ words \in Seq(Uid) /\ readPos \in Nat
  BY DEF GetData, AnswerInv, TypeOK
<1>2. /\ pc'[t] = "popping"
      /\ \A u \in Threads \ {t} : pc'[u] = pc[u] /\ pc[u] \in {"idle", "waiting"}
  BY <1>1, OneReader
<1>3. UniqueUids' /\ OwnAtHead'
  BY <1>1, <1>2 DEF AnswerInv, UniqueUids, OwnAtHead, Expected
<1>4. Between = 0 /\ Between' = 1
  BY <1>1, <1>2 DEF Between
<1>5. InStep'
  BY <1>1, <1>4, LenProperties DEF AnswerInv, InStep
<1>6. value'[t] = uid[t]
  <2>1. responses # <<>> /\ Head(responses) = uid[t]
    BY <1>1 DEF AnswerInv, OwnAtHead, Expected
  <2>2. 1 \in 1 .. Len(responses) /\ responses[1] = uid[t]
    BY <1>1, <2>1, EmptySeq, LenProperties, HeadTailProperties
  <2>3. readPos < Len(words) /\ words[readPos + 1] = responses[1]
    <3>1. /\ Len(responses) \in Nat /\ Len(words) \in Nat /\ Len(responses) >= 1
          /\ readPos = Len(words) - Len(responses) /\ Len(responses) <= Len(words)
      BY <1>1, <1>4, <2>2, LenProperties DEF AnswerInv, InStep
    <3>2. responses[1] = words[Len(words) - Len(responses) + 1]
      BY <2>2 DEF AnswerInv, InStep
    <3> QED BY <3>1, <3>2
  <2> QED BY <1>1, <2>2, <2>3
<1>7. TakesOwn'
  BY <1>1, <1>2, <1>6 DEF AnswerInv, TakesOwn
<1> QED BY <1>3, <1>5, <1>7

(* The server appends a word and its header: the head stays, if there is   *)
(* one.                                                                    *)
LEMMA ServerAnswers ==
  ASSUME AnswerInv, ServerAnswer
  PROVE  UniqueUids' /\ OwnAtHead' /\ InStep' /\ TakesOwn'
<1> DEFINE new == Head(requests)
<1>1. /\ responses' = Append(responses, new) /\ words' = Append(words, new)
      /\ UNCHANGED <<pc, kind, uid, attempts, value, failed, cmdUID, readPos>>
      /\ requests # <<>> /\ requests \in Seq(Uid)
      /\ responses \in Seq(Uid) /\ words \in Seq(Uid) /\ readPos \in Nat
  BY DEF ServerAnswer, callVars, AnswerInv, TypeOK
<1>2. new \in Uid
  BY <1>1, HeadTailProperties
<1> HIDE DEF new
<1>3. UniqueUids' /\ TakesOwn'
  BY <1>1 DEF AnswerInv, UniqueUids, TakesOwn
<1>4. OwnAtHead'
  <2>1. ASSUME responses # <<>> PROVE responses' # <<>> /\ Head(responses') = Head(responses)
    <3>1. /\ Len(responses) > 0 /\ responses' \in Seq(Uid)
          /\ Len(responses') = Len(responses) + 1 /\ responses'[1] = responses[1]
      BY <1>1, <1>2, <2>1, EmptySeq, LenProperties, AppendProperties
    <3> QED BY <1>1, <2>1, <3>1, EmptySeq, LenProperties, HeadTailProperties
  <2> QED BY <1>1, <2>1 DEF AnswerInv, OwnAtHead, Expected
<1> DEFINE n == Len(responses)
           m == Len(words)
<1>5. /\ n \in Nat /\ m \in Nat /\ n <= m /\ readPos = m - n + Between
      /\ Len(responses') = n + 1 /\ Len(words') = m + 1
      /\ responses'[n + 1] = new /\ words'[m + 1] = new
      /\ \A i \in 1 .. n : responses'[i] = responses[i]
      /\ \A i \in 1 .. m : words'[i] = words[i]
      /\ \A i \in 1 .. n : responses[i] = words[m - n + i]
      /\ Between' = Between /\ Between \in Nat
  BY <1>1, <1>2, LenProperties, AppendProperties DEF AnswerInv, InStep, Between
<1> HIDE DEF n, m
<1>6. \A i \in 1 .. n + 1 : responses'[i] = words'[(m + 1) - (n + 1) + i]
  <2> TAKE i \in 1 .. n + 1
  <2>1. CASE i = n + 1
    <3>1. (m + 1) - (n + 1) + i = m + 1
      BY <1>5, <2>1
    <3> QED BY <1>5, <2>1, <3>1
  <2>2. CASE i \in 1 .. n
    <3>1. m - n + i \in 1 .. m /\ (m + 1) - (n + 1) + i = m - n + i
      BY <1>5, <2>2
    <3> QED BY <1>5, <2>2, <3>1
  <2> QED BY <1>5, <2>1, <2>2
<1>7. InStep'
  <2>1. Len(responses') <= Len(words') /\ readPos' = Len(words') - Len(responses') + Between'
    BY <1>1, <1>5
  <2>2. \A i \in 1 .. Len(responses') : responses'[i] = words'[Len(words') - Len(responses') + i]
    BY <1>5, <1>6
  <2> QED BY <2>1, <2>2 DEF InStep
<1> QED BY <1>3, <1>4, <1>7

(* The rest of the steps change neither ids nor queues, and a thread only  *)
(* gets to "reading" with its id at the head.                              *)
LEMMA WaitingAnswers ==
  ASSUME AnswerInv, NEW t \in Threads, Peek(t) \/ TryAgain(t) \/ GiveUp(t)
  PROVE  UniqueUids' /\ OwnAtHead' /\ InStep' /\ TakesOwn'
<1>1. /\ pc[t] = "waiting"
      /\ UNCHANGED <<uid, value, cmdUID, responses, words, readPos>>
      /\ pc' = pc \/ pc' = [pc EXCEPT ![t] = "idle"] \/ pc' = [pc EXCEPT ![t] = "reading"]
      /\ pc \in [Threads -> {"idle", "waiting", "reading", "popping"}]
  BY DEF Peek, TryAgain, GiveUp, Unanswered, queueVars, AnswerInv, TypeOK
<1>2. /\ \A u \in Threads \ {t} : pc'[u] = pc[u]
      /\ pc'[t] = "idle" \/ pc'[t] = "waiting" \/ pc'[t] = "reading"
  BY <1>1
<1>3. pc'[t] = "reading" => Expected(t)
  <2>1. CASE Peek(t)
    BY <2>1 DEF Peek
  <2>2. CASE TryAgain(t)
    BY <1>1, <2>2 DEF TryAgain
  <2>3. CASE GiveUp(t)
    BY <1>1, <2>3 DEF GiveUp
  <2> QED BY <2>1, <2>2, <2>3
<1>4. UniqueUids' /\ TakesOwn'
  BY <1>1, <1>2 DEF AnswerInv, UniqueUids, TakesOwn
<1>5. OwnAtHead'
  BY <1>1, <1>2, <1>3 DEF AnswerInv, OwnAtHead, Expected
<1>6. InStep'
  BY <1>1, <1>2 DEF AnswerInv, InStep, Between
<1> QED BY <1>4, <1>5, <1>6

\* AnswerInv holds until a Reset goes on without its answer.
AnswerInvUntilReset == TypeOK /\ ("reset" \notin failed => AnswerInv)

LEMMA AnswerInvHolds == Spec => []AnswerInvUntilReset
<1>1. Init => AnswerInvUntilReset
  BY AnswerInit, TypeInit DEF AnswerInvUntilReset
<1>2. AnswerInvUntilReset /\ [Next]_vars => AnswerInvUntilReset'
  <2> SUFFICES ASSUME AnswerInvUntilReset, [Next]_vars, "reset" \notin failed'
               PROVE  UniqueUids' /\ OwnAtHead' /\ InStep' /\ TakesOwn'
    BY TypeNext DEF AnswerInvUntilReset, AnswerInv
  <2>1. AnswerInv
    <3>1. failed \subseteq failed'
      BY DEF Next, Waits, Call, Peek, TryAgain, GiveUp, ResetGoesOn, GetData, PopFront, PopNothing,
             ServerAnswer, vars
    <3> QED BY <3>1 DEF AnswerInvUntilReset
  <2>2. ASSUME NEW t \in Threads, PopNothing(t) PROVE FALSE
    BY <2>1, <2>2 DEF PopNothing, AnswerInv, OwnAtHead, Expected
  <2>3. ASSUME NEW t \in Threads, ResetGoesOn(t) PROVE FALSE
    BY <2>3 DEF ResetGoesOn
  <2>4. CASE UNCHANGED vars
    BY <2>1, <2>4 DEF vars, callVars, queueVars, AnswerInv, UniqueUids, OwnAtHead, Expected,
                      InStep, Between, TakesOwn
  <2> QED BY <2>1, <2>2, <2>3, <2>4, CallAnswers, PopFrontAnswers, GetDataAnswers, ServerAnswers,
             WaitingAnswers DEF Next, Waits
<1> QED BY <1>1, <1>2, PTL DEF Spec

(* No call takes the answer to another one's command: as many threads as   *)
(* there may be, with or without the lock, and after any number of calls   *)
(* that were given up (verifyUID in waitForCommand), until a Reset has     *)
(* gone on without its answer.                                             *)
THEOREM AnswersAreOwn == Spec => []OwnAnswer
<1>1. AnswerInvUntilReset => OwnAnswer
  BY DEF AnswerInvUntilReset, AnswerInv, OwnAnswer
<1> QED BY <1>1, AnswerInvHolds, PTL

(* Whenever no thread is between get_data and pop_front, the headers that  *)
(* are left answer the same commands as the words that are left, one by    *)
(* one, until a Reset has gone on without its answer.                      *)
THEOREM HeadersFollowData == Spec => []HeadersMatchData
<1>1. ASSUME AnswerInvUntilReset, "reset" \notin failed, \A t \in Threads : pc[t] # "popping"
      PROVE  /\ Len(words) - Len(responses) = readPos
             /\ responses = SubSeq(words, readPos + 1, Len(words))
  <2> DEFINE left == SubSeq(words, readPos + 1, Len(words))
  <2>1. /\ responses \in Seq(Uid) /\ words \in Seq(Uid) /\ readPos \in Nat
        /\ Len(responses) <= Len(words) /\ Between = 0
        /\ readPos = Len(words) - Len(responses) + Between
        /\ \A i \in 1 .. Len(responses) : responses[i] = words[Len(words) - Len(responses) + i]
    BY <1>1 DEF AnswerInvUntilReset, AnswerInv, TypeOK, InStep, Between
  <2>2. Len(responses) \in Nat /\ Len(words) \in Nat /\ readPos = Len(words) - Len(responses)
    BY <2>1
  <2>3. /\ left \in Seq(Uid) /\ Len(left) = Len(responses)
        /\ \A i \in 1 .. Len(left) : left[i] = words[readPos + i]
    BY <2>1, <2>2
  <2>4. \A i \in 1 .. Len(responses) : responses[i] = left[i]
    BY <2>1, <2>2, <2>3
  <2>5. responses = left
    <3> HIDE DEF left
    <3> QED BY <2>1, <2>3, <2>4, SeqEqual
  <2> QED BY <2>2, <2>5
<1>2. AnswerInvUntilReset => HeadersMatchData
  BY <1>1 DEF HeadersMatchData
<1> QED BY <1>2, AnswerInvHolds, PTL
==============================================================================

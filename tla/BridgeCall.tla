------------------------------ MODULE BridgeCall ------------------------------
(***************************************************************************)
(* Device calls that wait for an answer (WAIT_FOR_SERVER_RESPONSE in       *)
(* util_bridgecommand.h and waitForCommand in util_bridgecommand.cpp):     *)
(* several threads of the application send commands with unique ids, and   *)
(* the server answers them in order through one queue, whose head the      *)
(* threads look at until it has their id.  Some calls hold the device's    *)
(* lock while they wait, others do not.                                    *)
(*                                                                         *)
(* An answer is a header in the response queue and a word in the data      *)
(* queue, and the two are taken from their queues separately.  Here the    *)
(* word is the id it answers.                                              *)
(***************************************************************************)
EXTENDS Naturals, Sequences

CONSTANTS
  Threads,           \* the threads of the application
  Kinds,             \* the calls: "locked", "unlocked", "reset"
  Settings,          \* the values disableTimeouts may have
  Retries,           \* commandRetries
  MaxCalls,          \* bound on the calls
  ResponseSlots      \* answers the response queue holds

ASSUME CallAssumption ==
  /\ Kinds \subseteq {"locked", "unlocked", "reset"}
  /\ Settings \subseteq BOOLEAN
  /\ Retries \in Nat
  /\ MaxCalls \in Nat
  /\ ResponseSlots \in Nat \ {0}

VARIABLES
  pc,         \* where each thread is
  kind,       \* the call it makes
  uid,        \* the id of its command (currentUID)
  attempts,   \* attemptNum in waitForCommand
  value,      \* the word it took for its answer
  failed,     \* the kinds of calls that went on without an answer
  timeoutsDisabled,  \* disableTimeouts, which does not change
  cmdUID,     \* s_cmdUID
  requests,   \* the device command queue
  responses,  \* the response queue: ids of commands
  words,      \* all the words written to the data queue of answers
  readPos     \* how many of them were pulled

callVars == <<pc, kind, uid, attempts, value>>
queueVars == <<cmdUID, requests, responses, words, readPos>>
vars == <<callVars, failed, timeoutsDisabled, queueVars>>

Uid == 0 .. MaxCalls

\* What get_data pulls where nothing new was written.
Stale == MaxCalls + 1

Init ==
  /\ pc = [t \in Threads |-> "idle"]
  /\ \E k \in Kinds : kind = [t \in Threads |-> k]
  /\ uid = [t \in Threads |-> 0]
  /\ attempts = [t \in Threads |-> 0]
  /\ value = [t \in Threads |-> 0]
  /\ failed = {}
  /\ timeoutsDisabled \in Settings
  /\ cmdUID = 1
  /\ requests = <<>>
  /\ responses = <<>>
  /\ words = <<>>
  /\ readPos = 0

----------------------------------------------------------------------------
(* The calling thread. *)

HoldsLock(t) == pc[t] # "idle" /\ kind[t] # "unlocked"

\* The device's lock, for the calls that take it.
MayEnter(k) == k = "unlocked" \/ \A t \in Threads : ~HoldsLock(t)

\* The command's destructor counts the id on before it lets go of the channel.
Call(t, k) ==
  /\ pc[t] = "idle"
  /\ cmdUID <= MaxCalls
  /\ MayEnter(k)
  /\ kind' = [kind EXCEPT ![t] = k]
  /\ pc' = [pc EXCEPT ![t] = "waiting"]
  /\ uid' = [uid EXCEPT ![t] = cmdUID]
  /\ attempts' = [attempts EXCEPT ![t] = 0]
  /\ requests' = Append(requests, cmdUID)
  /\ cmdUID' = cmdUID + 1
  /\ UNCHANGED <<timeoutsDisabled, value, failed, responses, words, readPos>>

\* Mutant of Expected: any answer will do.
Expected_Any(t) == responses # <<>>

\* waitForCommand finds the answer with the thread's id at the head.
Expected(t) == responses # <<>> /\ Head(responses) = uid[t]

Peek(t) ==
  /\ pc[t] = "waiting"
  /\ Expected(t)
  /\ pc' = [pc EXCEPT ![t] = "reading"]
  /\ UNCHANGED <<timeoutsDisabled, kind, uid, attempts, value, failed, queueVars>>

\* The head has another id, or nothing came within the timeout, if there is one.
Unanswered(t) ==
  /\ pc[t] = "waiting"
  /\ ~Expected(t)
  /\ responses = <<>> => ~timeoutsDisabled

\* Mutant of TryAgain: one attempt more than there are retries for.
TryAgain_OneMore(t) ==
  /\ Unanswered(t)
  /\ attempts[t] <= Retries + 1
  /\ attempts' = [attempts EXCEPT ![t] = attempts[t] + 1]
  /\ UNCHANGED <<timeoutsDisabled, pc, kind, uid, value, failed, queueVars>>

TryAgain(t) ==
  /\ Unanswered(t)
  /\ attempts[t] <= Retries
  /\ attempts' = [attempts EXCEPT ![t] = attempts[t] + 1]
  /\ UNCHANGED <<timeoutsDisabled, pc, kind, uid, value, failed, queueVars>>

\* The call returns an error, and its answer stays in the queue or is yet to come.
GiveUp(t) ==
  /\ Unanswered(t)
  /\ attempts[t] > Retries
  /\ kind[t] # "reset"
  /\ pc' = [pc EXCEPT ![t] = "idle"]
  /\ failed' = failed \cup {kind[t]}
  /\ UNCHANGED <<timeoutsDisabled, kind, uid, attempts, value, queueVars>>

\* Reset logs the error and takes an answer all the same.
ResetGoesOn(t) ==
  /\ Unanswered(t)
  /\ attempts[t] > Retries
  /\ kind[t] = "reset"
  /\ pc' = [pc EXCEPT ![t] = "reading"]
  /\ failed' = failed \cup {kind[t]}
  /\ UNCHANGED <<timeoutsDisabled, kind, uid, attempts, value, queueVars>>

\* get_data moves the position whether or not something was written.
GetData(t) ==
  /\ pc[t] = "reading"
  /\ value' = [value EXCEPT ![t] = IF readPos < Len(words) THEN words[readPos + 1] ELSE Stale]
  /\ readPos' = readPos + 1
  /\ pc' = [pc EXCEPT ![t] = "popping"]
  /\ UNCHANGED <<timeoutsDisabled, kind, uid, attempts, failed, cmdUID, requests,
                 responses, words>>

\* Mutant of PopFront: the header is left in the queue.
PopFront_NotPopped(t) ==
  /\ pc[t] = "popping"
  /\ responses # <<>>
  /\ pc' = [pc EXCEPT ![t] = "idle"]
  /\ UNCHANGED <<timeoutsDisabled, kind, uid, attempts, value, failed, queueVars>>

PopFront(t) ==
  /\ pc[t] = "popping"
  /\ responses # <<>>
  /\ responses' = Tail(responses)
  /\ pc' = [pc EXCEPT ![t] = "idle"]
  /\ UNCHANGED <<timeoutsDisabled, kind, uid, attempts, value, failed, cmdUID,
                 requests, words, readPos>>

\* The pull of the header runs into its timeout, which is only logged.
PopNothing(t) ==
  /\ pc[t] = "popping"
  /\ responses = <<>>
  /\ ~timeoutsDisabled
  /\ pc' = [pc EXCEPT ![t] = "idle"]
  /\ UNCHANGED <<timeoutsDisabled, kind, uid, attempts, value, failed, queueVars>>

----------------------------------------------------------------------------

\* Mutant of ServerAnswer: the command goes unanswered if another one follows.
ServerAnswer_OnlyLast ==
  /\ requests # <<>>
  /\ Len(responses) < ResponseSlots
  /\ requests' = Tail(requests)
  /\ IF Len(requests) > 1 THEN UNCHANGED <<responses, words>>
     ELSE /\ responses' = Append(responses, Head(requests))
          /\ words' = Append(words, Head(requests))
  /\ UNCHANGED <<timeoutsDisabled, callVars, failed, cmdUID, readPos>>

\* The server takes a command and answers it: data first, the header when the message
\* is complete.
ServerAnswer ==
  /\ requests # <<>>
  /\ Len(responses) < ResponseSlots
  /\ requests' = Tail(requests)
  /\ responses' = Append(responses, Head(requests))
  /\ words' = Append(words, Head(requests))
  /\ UNCHANGED <<timeoutsDisabled, callVars, failed, cmdUID, readPos>>

Waits(t) ==
  Peek(t) \/ TryAgain(t) \/ GiveUp(t) \/ ResetGoesOn(t) \/ GetData(t) \/ PopFront(t) \/ PopNothing(t)

Next ==
  \/ \E t \in Threads, k \in Kinds : Call(t, k)
  \/ \E t \in Threads : Waits(t)
  \/ ServerAnswer

Spec == Init /\ [][Next]_vars

\* Every thread that waits keeps looking, and the server keeps working.
FairSpec == Spec /\ WF_vars(ServerAnswer) /\ \A t \in Threads : WF_vars(Waits(t))

----------------------------------------------------------------------------

TypeOK ==
  /\ pc \in [Threads -> {"idle", "waiting", "reading", "popping"}]
  /\ kind \in [Threads -> Kinds]
  /\ uid \in [Threads -> Uid]
  /\ attempts \in [Threads -> 0 .. Retries + 1]
  /\ value \in [Threads -> 0 .. Stale]
  /\ failed \subseteq Kinds
  /\ timeoutsDisabled \in Settings
  /\ cmdUID \in 1 .. MaxCalls + 1
  /\ requests \in Seq(Uid) /\ responses \in Seq(Uid) /\ words \in Seq(Uid)
  /\ Len(responses) <= ResponseSlots
  /\ readPos \in Nat

\* What a call takes for its answer is the answer to its own command.
TakesOwn == \A t \in Threads : pc[t] = "popping" => value[t] = uid[t]

\* However many threads wait and whatever was given up before, what a call takes for its
\* answer is its own (verifyUID in waitForCommand), until a Reset has gone on without.
OwnAnswer == "reset" \notin failed => TakesOwn

\* Headers and data are taken in step: the next word belongs to the first header,
\* unless a thread is between the two, or a Reset went on without its answer.
HeadersMatchData ==
  ("reset" \notin failed /\ \A t \in Threads : pc[t] # "popping") =>
    /\ Len(words) - Len(responses) = readPos
    /\ responses = SubSeq(words, readPos + 1, Len(words))

\* Every call returns, whether its answer comes, comes too late or is behind another,
\* with timeouts and without.
CallsReturn == \A t \in Threads : pc[t] # "idle" ~> pc[t] = "idle"
===============================================================================

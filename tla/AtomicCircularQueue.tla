------------------------ MODULE AtomicCircularQueue ------------------------
(***************************************************************************)
(* The command queue of a bridge channel                                   *)
(* (bridge/src/util/util_atomiccircularqueue.h): a ring of slots in shared *)
(* memory with one producer and one consumer in different processes and no *)
(* lock, only two atomic indices.  As in the code, m_read is the           *)
(* producer's index (the next slot to fill) and m_write the consumer's     *)
(* (the next slot to empty).                                               *)
(*                                                                         *)
(* A slot is several words, so the copy of an object into it takes two     *)
(* steps and the slot is Torn in between.  peek and pull return a          *)
(* reference into the ring, not a copy: the caller reads the slot after    *)
(* the call, when pull has already given the slot back to the producer.    *)
(*                                                                         *)
(* The indices are read with relaxed and acquire loads and written with    *)
(* release stores, with a full fence between the copy and the store: each  *)
(* side reads its own index, which only it writes, and the other's, whose  *)
(* latest published value is what the model reads.                         *)
(***************************************************************************)
EXTENDS Integers, Sequences

CONSTANTS
  QueueSize,      \* slots in the ring (m_queueSize)
  Object,         \* the objects a producer pushes
  Default,        \* m_default, also what the slots are constructed with
  Torn,           \* a slot in the middle of a copy
  PushMayTimeOut, \* getCommandTimeout() # 0, so that a push on a full ring fails
  MaxPushed       \* bound on the objects pushed (the history, below)

ASSUME QueueSizeAssumption == QueueSize \in Nat \ {0}

ASSUME ObjectAssumption ==
  /\ Default \notin Object
  /\ Torn \notin Object
  /\ Torn # Default

ASSUME OptionAssumption ==
  /\ PushMayTimeOut \in BOOLEAN
  /\ MaxPushed \in Nat

Slot == 0 .. QueueSize - 1

NoSlot == -1

\* Mutant: the index runs off the end of the ring.
queueIdxInc_NoWrap(idx) == idx + 1

queueIdxInc(idx) == IF idx + 1 < QueueSize THEN idx + 1 ELSE 0

VARIABLES
  m_write,   \* the consumer's index
  m_read,    \* the producer's index
  m_data,    \* the slots
  pusher,    \* where the producer is in push
  pushObj,   \* the argument of the push in progress
  puller,    \* where the consumer is: outside a call, in pull, or using a reference
  ref,       \* the slot the consumer's reference is to, or NoSlot
  shown,     \* history: what that slot held when the reference was returned
  pushed     \* history: every object published, in order

ringVars == <<m_write, m_read, m_data>>
pushVars == <<pusher, pushObj>>
pullVars == <<puller, ref, shown>>

vars == <<m_write, m_read, m_data, pusher, pushObj, puller, ref, shown, pushed>>

\* How many objects the ring holds.
Count == IF m_read >= m_write THEN m_read - m_write
                              ELSE m_read + QueueSize - m_write

----------------------------------------------------------------------------
(* The Writer's constructor builds the slots and both indices. *)

Init ==
  /\ m_write = 0
  /\ m_read = 0
  /\ m_data = [s \in Slot |-> Default]
  /\ pusher = "idle"
  /\ pushObj = Default
  /\ puller = "idle"
  /\ ref = NoSlot
  /\ shown = Default
  /\ pushed = <<>>

----------------------------------------------------------------------------
(* The producer: push(obj). *)

PushCall(obj) ==
  /\ pusher = "idle"
  /\ Len(pushed) < MaxPushed
  /\ pusher' = "trying"
  /\ pushObj' = obj
  /\ UNCHANGED <<ringVars, pullVars, pushed>>

\* Mutant: only a ring with no slot left counts as full, so that the slot being
\* read through a reference is filled again.
PushAdmit_NoEmptySlot ==
  /\ pusher = "trying"
  /\ Count < QueueSize
  /\ pusher' = "admitted"
  /\ UNCHANGED <<ringVars, pushObj, pullVars, pushed>>

\* The ring has room: the producer will copy into the slot at m_read, without
\* looking at m_write again.
PushAdmit ==
  /\ pusher = "trying"
  /\ queueIdxInc(m_read) # m_write
  /\ pusher' = "admitted"
  /\ UNCHANGED <<ringVars, pushObj, pullVars, pushed>>

\* The ring is full and stays so until the time is out.
PushTimeOut ==
  /\ pusher = "trying"
  /\ queueIdxInc(m_read) = m_write
  /\ PushMayTimeOut
  /\ pusher' = "idle"
  /\ pushObj' = Default
  /\ UNCHANGED <<ringVars, pullVars, pushed>>

PushCopyBegin ==
  /\ pusher = "admitted"
  /\ m_data' = [m_data EXCEPT ![m_read] = Torn]
  /\ pusher' = "copying"
  /\ UNCHANGED <<m_write, m_read, pushObj, pullVars, pushed>>

PushCopyEnd ==
  /\ pusher = "copying"
  /\ m_data' = [m_data EXCEPT ![m_read] = pushObj]
  /\ pusher' = "copied"
  /\ UNCHANGED <<m_write, m_read, pushObj, pullVars, pushed>>

\* The fence is past: the new index tells the consumer of the object.
PushPublish ==
  /\ pusher = "copied"
  /\ m_read' = queueIdxInc(m_read)
  /\ pushed' = Append(pushed, pushObj)
  /\ pusher' = "idle"
  /\ pushObj' = Default
  /\ UNCHANGED <<m_write, m_data, pullVars>>

----------------------------------------------------------------------------
(* The consumer: peek and pull.  A call on an empty ring that times out or *)
(* is signalled to stop returns m_default and changes nothing.             *)

isEmpty == m_write = m_read

Peek ==
  /\ puller = "idle"
  /\ ~isEmpty
  /\ puller' = "using"
  /\ ref' = m_write
  /\ shown' = m_data[m_write]
  /\ UNCHANGED <<ringVars, pushVars, pushed>>

\* pull has seen the ring is not empty.
PullFound ==
  /\ puller = "idle"
  /\ ~isEmpty
  /\ puller' = "pulling"
  /\ UNCHANGED <<ringVars, pushVars, ref, shown, pushed>>

\* Mutant: pull returns the slot the index moved to.
PullAdvance_RefAfter ==
  /\ puller = "pulling"
  /\ m_write' = queueIdxInc(m_write)
  /\ puller' = "using"
  /\ ref' = queueIdxInc(m_write)
  /\ shown' = m_data[queueIdxInc(m_write)]
  /\ UNCHANGED <<m_read, m_data, pushVars, pushed>>

\* Mutant: pull forgets to store the index.
PullAdvance_NoStore ==
  /\ puller = "pulling"
  /\ puller' = "using"
  /\ ref' = m_write
  /\ shown' = m_data[m_write]
  /\ UNCHANGED <<ringVars, pushVars, pushed>>

\* pull advances the index first and returns the reference afterwards.
PullAdvance ==
  /\ puller = "pulling"
  /\ m_write' = queueIdxInc(m_write)
  /\ puller' = "using"
  /\ ref' = m_write
  /\ shown' = m_data[m_write]
  /\ UNCHANGED <<m_read, m_data, pushVars, pushed>>

\* The caller has read the object it was given a reference to.
UseEnd ==
  /\ puller = "using"
  /\ puller' = "idle"
  /\ ref' = NoSlot
  /\ shown' = Default
  /\ UNCHANGED <<ringVars, pushVars, pushed>>

----------------------------------------------------------------------------

PushStep == PushAdmit \/ PushCopyBegin \/ PushCopyEnd \/ PushPublish

Pull == PullFound \/ PullAdvance \/ UseEnd

Next ==
  \/ \E obj \in Object : PushCall(obj)
  \/ PushStep
  \/ PushTimeOut
  \/ Peek
  \/ Pull

Spec == Init /\ [][Next]_vars

\* Both processes go on running; the consumer goes on pulling.  A peek empties
\* nothing, so that the pull itself, not either of the two, has to be fair.
Fairness ==
  /\ WF_vars(PushStep)
  /\ SF_vars(PullFound)
  /\ WF_vars(PullAdvance)
  /\ WF_vars(UseEnd)

FairSpec == Spec /\ Fairness

----------------------------------------------------------------------------
(* What the ring holds: Count slots, from m_write on. *)

\* The slot i places after the oldest object.
At(i) == IF m_write + i < QueueSize THEN m_write + i
                                    ELSE m_write + i - QueueSize

Pending == [i \in 1 .. Count |-> m_data[At(i - 1)]]

----------------------------------------------------------------------------
(* Properties. *)

TypeOK ==
  /\ m_write \in Slot
  /\ m_read \in Slot
  /\ m_data \in [Slot -> Object \cup {Default, Torn}]
  /\ pusher \in {"idle", "trying", "admitted", "copying", "copied"}
  /\ pushObj \in Object \cup {Default}
  /\ (pusher # "idle") => (pushObj \in Object)
  /\ puller \in {"idle", "pulling", "using"}
  /\ ref \in Slot \cup {NoSlot}
  /\ (ref # NoSlot) <=> (puller = "using")
  /\ shown \in Object \cup {Default, Torn}

\* The object a consumer reads through the reference peek or pull gave it is
\* whole and is the one the call found there, for as long as it uses it: though
\* pull frees the slot before the object is read, the producer, which keeps one
\* slot of the ring empty, cannot fill that slot again before the next pull.
ReferenceStable ==
  (ref # NoSlot) => /\ m_data[ref] = shown
                    /\ shown \in Object

\* A push that has no timeout returns: whatever the consumer was doing, it
\* empties the ring again.
PushReturns == (pusher = "trying") ~> (pusher = "idle")

\* The ring behaves as a bounded first-in first-out queue: objects come out in
\* the order they went in, none is lost, repeated or invented, and the object
\* handed to the caller stays what it was while the caller reads it.
Fifo == INSTANCE BoundedFifo WITH
  Capacity <- QueueSize - 1,
  NoObject <- Default,
  queue    <- Pending,
  handed   <- IF ref = NoSlot THEN Default ELSE m_data[ref]

FifoSpec == Fifo!Spec
==============================================================================

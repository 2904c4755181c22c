--------------------- MODULE AtomicCircularQueueProofs ---------------------
(***************************************************************************)
(* The command queue is right for every ring size and every set of         *)
(* objects: its inductive invariant, and from it the type invariant, the   *)
(* stability of the references the consumer is given, and the refinement   *)
(* of the bounded first-in first-out queue.                                *)
(***************************************************************************)
EXTENDS AtomicCircularQueue, SequenceTheorems, TLAPS

----------------------------------------------------------------------------
(* The strengthening. *)

\* The slot lies between the consumer's index and the producer's.
InPending(s) == IF m_write <= m_read THEN m_write <= s /\ s < m_read
                                     ELSE m_write <= s \/ s < m_read

\* A producer that saw room still has room: only it moves m_read, and the
\* consumer can only make the ring emptier.
RoomKept ==
  (pusher \in {"admitted", "copying", "copied"}) => queueIdxInc(m_read) # m_write

\* What is ready to publish is in the producer's slot.
CopyWhole == (pusher = "copied") => m_data[m_read] = pushObj

\* A consumer that found an object still has one.
ObjectKept == (puller = "pulling") => m_write # m_read

\* The slot before a slot of the ring.
queueIdxDec(idx) == IF idx = 0 THEN QueueSize - 1 ELSE idx - 1

\* The reference is either to the oldest object (peek) or to the slot just
\* given back (pull).
ReferencePlace ==
  (puller = "using") => \/ ref = m_write /\ m_write # m_read
                        \/ ref = queueIdxDec(m_write)

SlotsWhole == \A s \in Slot : InPending(s) => m_data[s] \in Object

IInv ==
  /\ TypeOK
  /\ RoomKept
  /\ CopyWhole
  /\ ObjectKept
  /\ ReferencePlace
  /\ SlotsWhole
  /\ ReferenceStable

USE QueueSizeAssumption, ObjectAssumption

\* The indices never leave the ring, and one step on from a slot and back
\* again is that slot.
LEMMA IndexFacts ==
  ASSUME NEW s \in Slot
  PROVE  /\ queueIdxInc(s) \in Slot
         /\ queueIdxDec(s) \in Slot
         /\ queueIdxDec(queueIdxInc(s)) = s
         /\ queueIdxInc(queueIdxDec(s)) = s
  BY DEF Slot, queueIdxInc, queueIdxDec

LEMMA InitIInv == Init => IInv
  BY DEF Init, IInv, TypeOK, RoomKept, CopyWhole, ObjectKept, ReferencePlace,
         SlotsWhole, InPending, ReferenceStable, Slot, NoSlot

\* Every step of the producer and of the consumer keeps the invariant.
LEMMA NextIInv == IInv /\ [Next]_vars => IInv'
<1> SUFFICES ASSUME IInv, [Next]_vars
             PROVE  IInv'
  OBVIOUS
<1> USE DEF IInv, TypeOK, RoomKept, CopyWhole, ObjectKept, ReferencePlace,
            ReferenceStable, ringVars, pushVars, pullVars
<1> DEFINE Same == UNCHANGED <<m_write, m_read, m_data>>
<1>0. Same => SlotsWhole'
  BY DEF SlotsWhole, InPending
<1>1. ASSUME NEW obj \in Object, PushCall(obj)
      PROVE  IInv'
  BY <1>0, <1>1 DEF PushCall
<1>2. CASE PushAdmit
  BY <1>0, <1>2 DEF PushAdmit
<1>3. CASE PushTimeOut
  BY <1>0, <1>3 DEF PushTimeOut
<1>4. CASE PushCopyBegin
  <2>1. ref # m_read \/ ref = NoSlot
    BY <1>4 DEF PushCopyBegin, Slot, NoSlot, queueIdxInc, queueIdxDec
  <2>2. ~InPending(m_read)
    BY DEF InPending, Slot
  <2>3. SlotsWhole'
    BY <1>4, <2>2 DEF PushCopyBegin, SlotsWhole, InPending
  <2>4. QED
    BY <1>4, <2>1, <2>3 DEF PushCopyBegin
<1>5. CASE PushCopyEnd
  <2>1. ref # m_read \/ ref = NoSlot
    BY <1>5 DEF PushCopyEnd, Slot, NoSlot, queueIdxInc, queueIdxDec
  <2>2. ~InPending(m_read)
    BY DEF InPending, Slot
  <2>3. SlotsWhole'
    BY <1>5, <2>2 DEF PushCopyEnd, SlotsWhole, InPending
  <2>4. QED
    BY <1>5, <2>1, <2>3 DEF PushCopyEnd
<1>6. CASE PushPublish
  <2>1. /\ m_read' = queueIdxInc(m_read)
        /\ m_read' \in Slot
        /\ m_write' = m_write
        /\ m_read' # m_write
    BY <1>6, IndexFacts DEF PushPublish
  <2>2. ASSUME NEW s \in Slot, InPending(s)'
        PROVE  InPending(s) \/ s = m_read
    BY <2>1, <2>2 DEF InPending, Slot, queueIdxInc
  <2>3. SlotsWhole'
    BY <1>6, <2>2 DEF PushPublish, SlotsWhole
  <2>4. QED
    BY <1>6, <2>1, <2>3 DEF PushPublish
<1>7. CASE Peek
  <2>1. InPending(m_write)
    BY <1>7 DEF Peek, isEmpty, InPending, Slot
  <2>2. m_data[m_write] \in Object
    BY <2>1 DEF SlotsWhole
  <2>3. QED
    BY <1>0, <1>7, <2>2 DEF Peek, isEmpty, Slot, NoSlot
<1>8. CASE PullFound
  BY <1>0, <1>8 DEF PullFound, isEmpty
<1>9. CASE PullAdvance
  <2>1. InPending(m_write)
    BY <1>9 DEF PullAdvance, InPending, Slot
  <2>2. m_data[m_write] \in Object
    BY <2>1 DEF SlotsWhole
  <2>3. /\ m_write' = queueIdxInc(m_write)
        /\ m_write' \in Slot
        /\ ref' = queueIdxDec(m_write')
        /\ ref' # NoSlot
    BY <1>9, IndexFacts DEF PullAdvance, Slot, NoSlot
  <2>4. ASSUME NEW s \in Slot, InPending(s)'
        PROVE  InPending(s)
    BY <1>9, <2>4 DEF PullAdvance, InPending, Slot, queueIdxInc
  <2>5. SlotsWhole'
    BY <1>9, <2>4 DEF PullAdvance, SlotsWhole
  <2>6. RoomKept'
    BY <1>9 DEF PullAdvance, Slot, queueIdxInc
  <2>7. QED
    BY <1>9, <2>2, <2>3, <2>5, <2>6 DEF PullAdvance
<1>10. CASE UseEnd
  BY <1>0, <1>10 DEF UseEnd
<1>11. CASE UNCHANGED vars
  BY <1>0, <1>11 DEF vars
<1>12. QED
  BY <1>1, <1>2, <1>3, <1>4, <1>5, <1>6, <1>7, <1>8, <1>9, <1>10, <1>11
     DEF Next, PushStep, Pull

LEMMA SpecIInv == Spec => []IInv
  BY InitIInv, NextIInv, PTL DEF Spec

\* The indices stay in the ring and every variable has its type.
THEOREM TypeCorrect == Spec => []TypeOK
  BY SpecIInv, PTL DEF IInv

\* For every ring size, the object a consumer is reading through a reference
\* from peek or pull is whole and is not replaced under it.
THEOREM ReferencesAreStable == Spec => []ReferenceStable
  BY SpecIInv, PTL DEF IInv

----------------------------------------------------------------------------
(* The refinement of the bounded first-in first-out queue. *)

\* The oldest object is in the consumer's slot, the producer's slot comes
\* after the newest, and the slots in between are the pending ones.
LEMMA CountFacts ==
  ASSUME m_write \in Slot, m_read \in Slot
  PROVE  /\ Count \in 0 .. QueueSize - 1
         /\ Count = 0 <=> m_write = m_read
         /\ At(0) = m_write
         /\ At(Count) = m_read
         /\ \A i \in 0 .. Count - 1 : At(i) \in Slot /\ At(i) # m_read
  BY DEF Slot, Count, At

LEMMA PendingFacts ==
  ASSUME IInv
  PROVE  /\ Pending \in Seq(Object)
         /\ Len(Pending) = Count
         /\ \A i \in 1 .. Count : Pending[i] = m_data[At(i - 1)]
<1>1. Count \in Nat
  BY CountFacts DEF IInv, TypeOK
<1>2. \A i \in 0 .. Count - 1 : At(i) \in Slot /\ InPending(At(i))
  BY DEF IInv, TypeOK, Slot, Count, At, InPending
<1>3. \A i \in 1 .. Count : m_data[At(i - 1)] \in Object
  BY <1>1, <1>2 DEF IInv, SlotsWhole
<1>4. QED
  BY <1>1, <1>3 DEF Pending

\* The refinement mapping of the consumer's reference.
Handed == IF ref = NoSlot THEN Default ELSE m_data[ref]

\* A published object is appended to the pending ones.
LEMMA PublishEnqueues == IInv /\ PushPublish => Fifo!Enqueue(pushObj)
<1> SUFFICES ASSUME IInv, PushPublish
             PROVE  Fifo!Enqueue(pushObj)
  OBVIOUS
<1> USE DEF IInv, TypeOK, pullVars
<1>1. /\ m_write' = m_write /\ m_data' = m_data /\ ref' = ref
      /\ m_read' = queueIdxInc(m_read)
      /\ m_read' \in Slot
      /\ m_read' # m_write
  BY IndexFacts DEF PushPublish, RoomKept
<1>2. Count < QueueSize - 1 /\ Count' = Count + 1
  BY <1>1 DEF Count, Slot, queueIdxInc
<1>3. \A i : At(i)' = At(i)
  BY <1>1 DEF At
<1>4. Count \in Nat /\ Len(Pending) = Count
  BY CountFacts, PendingFacts
<1>5. m_data[At(Count)] = pushObj
  BY CountFacts DEF PushPublish, CopyWhole
<1>6. Pending' = [i \in 1 .. Count + 1 |-> m_data[At(i - 1)]]
  BY <1>1, <1>2, <1>3 DEF Pending
<1>7. Pending' = Append(Pending, pushObj)
  <2>1. pushObj \in Object
    BY DEF PushPublish
  <2>2. /\ Append(Pending, pushObj) \in Seq(Object)
        /\ Len(Append(Pending, pushObj)) = Count + 1
        /\ \A i \in 1 .. Count + 1 :
              Append(Pending, pushObj)[i] = IF i = Count + 1 THEN pushObj ELSE Pending[i]
    BY <1>4, <2>1, PendingFacts, AppendProperties
  <2>3. \A i \in 1 .. Count + 1 : Append(Pending, pushObj)[i] = m_data[At(i - 1)]
    BY <1>4, <1>5, <2>2, PendingFacts
  <2>4. Append(Pending, pushObj) = [i \in 1 .. Count + 1 |-> Append(Pending, pushObj)[i]]
    BY <2>2, LenProperties
  <2>5. QED
    BY <1>6, <2>3, <2>4
<1>8. QED
  BY <1>1, <1>2, <1>4, <1>7 DEF Fifo!Enqueue

\* A pull takes the first of the pending objects and hands it to the caller.
LEMMA AdvanceDequeues == IInv /\ PullAdvance => Fifo!Dequeue
<1> SUFFICES ASSUME IInv, PullAdvance
             PROVE  Fifo!Dequeue
  OBVIOUS
<1> USE DEF IInv, TypeOK
<1>1. /\ m_write' = queueIdxInc(m_write) /\ m_write' \in Slot
      /\ m_data' = m_data /\ m_read' = m_read
      /\ ref' = m_write
      /\ m_write # m_read
  BY IndexFacts DEF PullAdvance, ObjectKept
<1>2. Count \in Nat \ {0} /\ Count' = Count - 1
  BY <1>1 DEF Count, Slot, queueIdxInc
<1>3. \A i \in 0 .. Count - 2 : At(i)' = At(i + 1)
  BY <1>1, <1>2 DEF At, Count, Slot, queueIdxInc
<1>4. Len(Pending) = Count
  BY PendingFacts
<1>5. Pending # <<>>
  BY <1>2, <1>4
<1>6. Head(Pending) = m_data[m_write]
  BY <1>2, CountFacts, PendingFacts
<1>7. Pending' = Tail(Pending)
  <2>1. /\ Tail(Pending) \in Seq(Object)
        /\ Len(Tail(Pending)) = Count - 1
        /\ \A i \in 1 .. Count - 1 : Tail(Pending)[i] = Pending[i + 1]
    BY <1>4, <1>5, PendingFacts, HeadTailProperties
  <2>2. Pending' = [i \in 1 .. Count - 1 |-> m_data[At(i - 1)']]
    BY <1>1, <1>2 DEF Pending
  <2>3. ASSUME NEW i \in 1 .. Count - 1
        PROVE  m_data[At(i - 1)'] = Pending[i + 1]
    <3>1. At(i - 1)' = At(i)
      BY <1>2, <1>3
    <3>2. Pending[i + 1] = m_data[At(i)]
      BY <1>2, PendingFacts
    <3>3. QED
      BY <3>1, <3>2
  <2>4. Tail(Pending) = [i \in 1 .. Count - 1 |-> Tail(Pending)[i]]
    BY <2>1, LenProperties
  <2>5. QED
    BY <2>1, <2>2, <2>3, <2>4
<1>8. Handed' = m_data[m_write]
  BY <1>1 DEF Handed, Slot, NoSlot
<1>9. QED
  BY <1>5, <1>6, <1>7, <1>8 DEF Fifo!Dequeue, Handed

\* The slot the producer copies into is outside of the pending slots and is
\* not the one the consumer is reading.
LEMMA CopyInvisible ==
  ASSUME IInv, pusher \in {"admitted", "copying"}, NEW v,
         m_data' = [m_data EXCEPT ![m_read] = v],
         UNCHANGED <<m_write, m_read, ref>>
  PROVE  Pending' = Pending /\ Handed' = Handed
<1> USE DEF IInv, TypeOK
<1>1. ref = NoSlot \/ ref # m_read
  BY DEF RoomKept, ReferencePlace, Slot, NoSlot, queueIdxInc, queueIdxDec
<1>2. Handed' = Handed
  BY <1>1 DEF Handed
<1>3. Count' = Count /\ \A i : At(i)' = At(i)
  BY DEF Count, At
<1>4. \A i \in 1 .. Count : m_data'[At(i - 1)] = m_data[At(i - 1)]
  BY CountFacts
<1>5. QED
  BY <1>2, <1>3, <1>4 DEF Pending

\* Every step of the ring is a step of the bounded queue or changes nothing
\* that the bounded queue has.
LEMMA NextRefines == IInv /\ [Next]_vars => [Fifo!Next]_(Fifo!vars)
<1> SUFFICES ASSUME IInv, [Next]_vars
             PROVE  Fifo!Next \/ (Pending' = Pending /\ Handed' = Handed)
  BY DEF Fifo!vars, Handed
<1> USE DEF ringVars, pushVars, pullVars
<1>a. UNCHANGED <<m_write, m_read, m_data>> => Pending' = Pending
  BY DEF Pending, Count, At
<1>b. UNCHANGED <<m_data, ref>> => Handed' = Handed
  BY DEF Handed
<1>1. ASSUME NEW obj \in Object, PushCall(obj)
      PROVE  Pending' = Pending /\ Handed' = Handed
  BY <1>a, <1>b, <1>1 DEF PushCall
<1>2. CASE PushAdmit
  BY <1>a, <1>b, <1>2 DEF PushAdmit
<1>3. CASE PushTimeOut
  BY <1>a, <1>b, <1>3 DEF PushTimeOut
<1>4. CASE PushCopyBegin
  BY <1>4, CopyInvisible DEF PushCopyBegin
<1>5. CASE PushCopyEnd
  BY <1>5, CopyInvisible DEF PushCopyEnd
<1>6. CASE PushPublish
  <2>1. pushObj \in Object
    BY <1>6 DEF PushPublish, IInv, TypeOK
  <2>2. QED
    BY <1>6, <2>1, PublishEnqueues DEF Fifo!Next
<1>7. CASE Peek
  <2>1. m_write \in Slot /\ m_read \in Slot /\ m_write # m_read
    BY <1>7 DEF Peek, isEmpty, IInv, TypeOK
  <2>2. Pending # <<>> /\ Head(Pending) = m_data[m_write]
    BY <2>1, CountFacts, PendingFacts
  <2>3. Handed' = m_data[m_write]
    BY <1>7, <2>1 DEF Peek, Handed, Slot, NoSlot
  <2>4. QED
    BY <1>7, <1>a, <2>2, <2>3 DEF Peek, Fifo!Next, Fifo!Inspect, Handed
<1>8. CASE PullFound
  BY <1>a, <1>b, <1>8 DEF PullFound
<1>9. CASE PullAdvance
  BY <1>9, AdvanceDequeues DEF Fifo!Next
<1>10. CASE UseEnd
  <2>1. Handed' = Default
    BY <1>10 DEF UseEnd, Handed
  <2>2. QED
    BY <1>10, <1>a, <2>1 DEF UseEnd, Fifo!Next, Fifo!Finish, Handed
<1>11. CASE UNCHANGED vars
  BY <1>a, <1>b, <1>11 DEF vars
<1>12. QED
  BY <1>1, <1>2, <1>3, <1>4, <1>5, <1>6, <1>7, <1>8, <1>9, <1>10, <1>11
     DEF Next, PushStep, Pull

LEMMA InitRefines == Init => Fifo!Init
  BY DEF Init, Fifo!Init, Pending, Count

\* For every ring size, the lock-free ring with its split copies and its
\* references into freed slots is a bounded first-in first-out queue.
THEOREM RingIsFifo == Spec => FifoSpec
  BY InitRefines, SpecIInv, NextRefines, PTL DEF Spec, FifoSpec, Fifo!Spec
=============================================================================

----------------------------- MODULE BoundedFifo -----------------------------
(***************************************************************************)
(* What the command queue of the bridge promises its two users, whatever   *)
(* its slots and indices: a first-in first-out queue that holds at most    *)
(* Capacity objects.  A push that cannot be accepted has no effect; a pull *)
(* hands the oldest object to the caller and leaves it there, unchanged,   *)
(* until the caller is done with it.                                       *)
(***************************************************************************)
EXTENDS Integers, Sequences

CONSTANTS
  Capacity,   \* the most objects the queue holds at once
  Object,     \* what is pushed
  NoObject    \* the caller holds nothing

VARIABLES
  queue,      \* the accepted objects, oldest first
  handed      \* the object the reader was handed and has not finished with

vars == <<queue, handed>>

Init ==
  /\ queue = <<>>
  /\ handed = NoObject

\* The writer's object is accepted.
Enqueue(obj) ==
  /\ Len(queue) < Capacity
  /\ queue' = Append(queue, obj)
  /\ UNCHANGED handed

\* The reader is handed the oldest object, which leaves the queue.
Dequeue ==
  /\ queue # <<>>
  /\ handed' = Head(queue)
  /\ queue' = Tail(queue)

\* The reader is shown the oldest object, which stays in the queue.
Inspect ==
  /\ queue # <<>>
  /\ handed' = Head(queue)
  /\ UNCHANGED queue

\* The reader is done with the object.
Finish ==
  /\ handed' = NoObject
  /\ UNCHANGED queue

Next ==
  \/ \E obj \in Object : Enqueue(obj)
  \/ Dequeue
  \/ Inspect
  \/ Finish

Spec == Init /\ [][Next]_vars
==============================================================================

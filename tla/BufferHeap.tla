------------------------------ MODULE BufferHeap ------------------------------
(***************************************************************************)
(* What the shared heap promises to those who allocate in it: a buffer has *)
(* a place of its own until its owner has released it, the server has let  *)
(* go of it, and the heap has taken it back, in this order.                *)
(***************************************************************************)
EXTENDS Naturals

CONSTANTS
  BufferIds,   \* the ids the heap gives out, each once
  Places       \* what a place is made of

VARIABLES
  lease,       \* how far each buffer's life has come
  place        \* the chunks each buffer takes

heapVars == <<lease, place>>

HeapType ==
  /\ lease \in [BufferIds -> {"unused", "held", "released", "done", "reclaimed"}]
  /\ place \in [BufferIds -> SUBSET Places]

HeapInit ==
  /\ lease = [id \in BufferIds |-> "unused"]
  /\ place = [id \in BufferIds |-> {}]

Taken == UNION {place[id] : id \in BufferIds}

HeapAllocate(id, chunks) ==
  /\ lease[id] = "unused"
  /\ chunks # {} /\ chunks \cap Taken = {}
  /\ lease' = [lease EXCEPT ![id] = "held"]
  /\ place' = [place EXCEPT ![id] = chunks]

HeapRelease(id) ==
  /\ lease[id] = "held"
  /\ lease' = [lease EXCEPT ![id] = "released"]
  /\ UNCHANGED place

ServerLetsGo(id) ==
  /\ lease[id] = "released"
  /\ lease' = [lease EXCEPT ![id] = "done"]
  /\ UNCHANGED place

HeapReclaim(id) ==
  /\ lease[id] = "done"
  /\ lease' = [lease EXCEPT ![id] = "reclaimed"]
  /\ place' = [place EXCEPT ![id] = {}]

HeapNext ==
  \E id \in BufferIds :
    \/ \E chunks \in SUBSET Places : HeapAllocate(id, chunks)
    \/ HeapRelease(id) \/ ServerLetsGo(id) \/ HeapReclaim(id)

HeapSpec == HeapInit /\ [][HeapNext]_heapVars
===============================================================================

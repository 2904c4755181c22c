------------------------------ MODULE SharedHeap ------------------------------
(***************************************************************************)
(* The shared heap (bridge/src/util/util_sharedheap.{h,cpp}): segments of  *)
(* shared memory, cut into chunks, in which the client allocates buffers   *)
(* that the server reads in place.                                         *)
(*                                                                         *)
(* The client alone decides where a buffer lies.  It tells the server      *)
(* through the command queue, and one byte per buffer, at its first chunk, *)
(* is shared: the server sets it when it has processed a deallocation, and *)
(* the client looks at it when it runs out of room.  Sizes and positions   *)
(* are counted in chunks.                                                  *)
(***************************************************************************)
EXTENDS Integers, Sequences

CONSTANTS
  MaxChunks,       \* the heap's limit (kMax32BitHeapSize / m_chunkSize)
  SegmentChunks,   \* the configured segment size (m_defaultSegmentSize)
  Sizes,           \* the sizes asked for
  MaxIds,          \* bound on the allocations
  QueueSlots       \* commands the command queue holds

ASSUME HeapAssumption ==
  /\ MaxChunks \in Nat
  /\ SegmentChunks \in 1 .. MaxChunks
  /\ Sizes \subseteq Nat \ {0}
  /\ MaxIds \in Nat
  /\ QueueSlots \in Nat \ {0}

VARIABLES
  cache,            \* the client's m_cache: from ids to first chunks
  allocations,      \* m_allocations: from first to final chunks
  segments,         \* m_segments
  defaultSegment,   \* m_defaultSegmentSize
  nextUid,          \* m_nextUid
  call,             \* the client's allocation in progress
  held,             \* ids the callers of the heap hold
  chunkState,       \* the shared bytes (m_metaShMem)
  messages,         \* the device command queue
  serverCache,      \* the server's m_cache
  serverSegments    \* the server's m_segments

clientVars == <<cache, allocations, segments, defaultSegment, nextUid>>
serverVars == <<serverCache, serverSegments>>
vars == <<clientVars, call, held, chunkState, messages, serverVars>>

Chunk == 0 .. MaxChunks - 1
Id    == 0 .. MaxIds - 1

Segment == [base : Chunk, chunks : 1 .. MaxChunks]

AddSeg(seg)      == [cmd |-> "AddSeg", segment |-> seg]
Alloc(id, first) == [cmd |-> "Alloc", id |-> id, chunk |-> first]
Dealloc(id)      == [cmd |-> "Dealloc", id |-> id]

----------------------------------------------------------------------------
(* Where a buffer may lie. *)

\* m_nChunks: the segments follow one another.
NChunks(segs) ==
  IF segs = <<>> THEN 0 ELSE segs[Len(segs)].base + segs[Len(segs)].chunks

Lies(first, n, seg) == seg.base <= first /\ first + n <= seg.base + seg.chunks

\* Mutant of Valid: the final chunk may be the one past the end.
Valid_PastEnd(first, n) ==
  \E i \in DOMAIN segments : Lies(first, n - 1, segments[i])

\* isValidAllocation: the chunks exist and do not cross the bound of a segment.
Valid(first, n) == \E i \in DOMAIN segments : Lies(first, n, segments[i])

\* The chunks from g up to the allocation at f are free, and no chunk before g is.
Gap(g, f) ==
  /\ f \in DOMAIN allocations
  /\ g = 0 \/ \E a \in DOMAIN allocations : g = allocations[a] + 1
  /\ g < f
  /\ \A a \in DOMAIN allocations : a < g \/ f <= a

\* Mutant of FreeInMiddle: one chunk too few is enough.
FreeInMiddle_OneShort(n) ==
  LET fits == {g \in Chunk : \E f \in Chunk : Gap(g, f) /\ f - g >= n - 1}
  IN  {g \in fits : \A other \in fits : g <= other}

\* findFreeInMiddle: the first gap that is large enough, as a set of at most one.
FreeInMiddle(n) ==
  LET fits == {g \in Chunk : \E f \in Chunk : Gap(g, f) /\ f - g >= n}
  IN  {g \in fits : \A other \in fits : g <= other}

\* findFreeOnEnd: after the last allocation.
FreeOnEnd ==
  {allocations[a] + 1 : a \in {a \in DOMAIN allocations : \A b \in DOMAIN allocations : b <= a}}

\* The client looks at the end only if the middle has no valid place.
Found(n) ==
  LET middle == {g \in FreeInMiddle(n) : Valid(g, n)}
  IN  IF middle # {} THEN middle ELSE {g \in FreeOnEnd : Valid(g, n)}

\* The segment size grows in powers of two to the size asked for: a set of one.
Grown(size, n) ==
  IF n <= size THEN {size}
  ELSE {s \in n .. 2 * n - 1 : \E k \in 1 .. n : s = size * 2^k}

----------------------------------------------------------------------------
(* The client's constructor, with the first segment announced, and the     *)
(* server's.                                                               *)

FirstSegment == [base |-> 0, chunks |-> SegmentChunks]

NoCall == [at |-> "idle", chunks |-> 0, first |-> 0, failed |-> 0, pending |-> {}]

Empty == [x \in {} |-> x]

Init ==
  /\ cache = Empty
  /\ allocations = Empty
  /\ segments = <<FirstSegment>>
  /\ defaultSegment = SegmentChunks
  /\ nextUid = 0
  /\ call = NoCall
  /\ held = {}
  /\ chunkState = [c \in Chunk |-> "Unallocated"]
  /\ messages = <<AddSeg(FirstSegment)>>
  /\ serverCache = Empty
  /\ serverSegments = <<>>

Push(message) ==
  /\ Len(messages) < QueueSlots
  /\ messages' = Append(messages, message)

----------------------------------------------------------------------------
(* allocate, in the client. *)

\* The first allocation of an empty heap goes to its first chunk unseen.
AllocateCall(n) ==
  /\ call.at = "idle"
  /\ nextUid < MaxIds
  /\ defaultSegment' \in Grown(defaultSegment, n)
  /\ call' = [NoCall EXCEPT !.at = IF allocations = Empty THEN "validate" ELSE "find",
                            !.chunks = n]
  /\ UNCHANGED <<cache, allocations, segments, nextUid, held, chunkState, messages, serverVars>>

FindRoom(first) ==
  /\ call.at = "find"
  /\ allocations # Empty
  /\ first \in Found(call.chunks)
  /\ call' = [call EXCEPT !.at = "validate", !.first = first]
  /\ UNCHANGED <<clientVars, held, chunkState, messages, serverVars>>

FindNone ==
  /\ call.at = "find"
  /\ allocations # Empty
  /\ Found(call.chunks) = {}
  /\ call' = [call EXCEPT !.at = "free", !.pending = DOMAIN cache]
  /\ UNCHANGED <<clientVars, held, chunkState, messages, serverVars>>

\* The search takes it that there is a last allocation.  Without one it stops at an
\* assertion, or reads a final chunk out of thin air, which may be a valid place.
FindUndefined ==
  /\ call.at = "find"
  /\ allocations = Empty
  /\ \/ call' = [call EXCEPT !.at = "exited"]
     \/ call' = [call EXCEPT !.at = "free", !.pending = DOMAIN cache]
     \/ \E first \in Chunk : /\ Valid(first, call.chunks)
                             /\ call' = [call EXCEPT !.at = "validate", !.first = first]
  /\ UNCHANGED <<clientVars, held, chunkState, messages, serverVars>>

\* f without x.
Without(f, x) == [y \in DOMAIN f \ {x} |-> f[y]]

\* Mutant of FreeOne: a buffer is freed whether or not the server is done with it.
FreeOne_Unasked(id) ==
  /\ call.at = "free"
  /\ id \in call.pending
  /\ call' = [call EXCEPT !.pending = call.pending \ {id}]
  /\ cache' = Without(cache, id)
  /\ allocations' = Without(allocations, cache[id])
  /\ chunkState' = [chunkState EXCEPT ![cache[id]] = "Unallocated"]
  /\ UNCHANGED <<segments, defaultSegment, nextUid, held, messages, serverVars>>

\* freeDeallocations looks at the buffers one by one, in the order of a hash table,
\* and takes back those the server has let go of.
FreeOne(id) ==
  /\ call.at = "free"
  /\ id \in call.pending
  /\ call' = [call EXCEPT !.pending = call.pending \ {id}]
  /\ IF chunkState[cache[id]] = "Deallocated"
     THEN /\ cache' = Without(cache, id)
          /\ allocations' = Without(allocations, cache[id])
          /\ chunkState' = [chunkState EXCEPT ![cache[id]] = "Unallocated"]
     ELSE UNCHANGED <<cache, allocations, chunkState>>
  /\ UNCHANGED <<segments, defaultSegment, nextUid, held, messages, serverVars>>

\* The third failure adds a segment; all the later ones are alike.
TryAgain ==
  \/ call' = [call EXCEPT !.at = "find", !.failed = IF call.failed < 3 THEN call.failed + 1 ELSE 3]
  \/ call' = [call EXCEPT !.at = "failed"]

FreeEnd ==
  /\ call.at = "free"
  /\ call.pending = {}
  /\ IF call.failed = 2 THEN call' = [call EXCEPT !.at = "grow"] ELSE TryAgain
  /\ UNCHANGED <<clientVars, held, chunkState, messages, serverVars>>

\* addNewHeapSegment: no more than the heap's limit, and more than a chunk.
NewSegment ==
  LET room == MaxChunks - NChunks(segments)
  IN  [base   |-> NChunks(segments),
       chunks |-> IF room < defaultSegment THEN room ELSE defaultSegment]

\* The allocation goes to the new segment's first chunk, whether or not it fits.
Grow ==
  /\ call.at = "grow"
  /\ NewSegment.chunks > 1
  /\ segments' = Append(segments, NewSegment)
  /\ Push(AddSeg(NewSegment))
  /\ call' = [call EXCEPT !.at = "validate", !.first = NewSegment.base]
  /\ UNCHANGED <<cache, allocations, defaultSegment, nextUid, held, chunkState, serverVars>>

\* The system has no memory for the segment: SharedMemory's constructor rethrows
\* where there is no exception, which ends the process.
GrowDies ==
  /\ call.at = "grow"
  /\ NewSegment.chunks > 1
  /\ call' = [call EXCEPT !.at = "exited"]
  /\ UNCHANGED <<clientVars, held, chunkState, messages, serverVars>>

GrowFull ==
  /\ call.at = "grow"
  /\ NewSegment.chunks <= 1
  /\ TryAgain
  /\ UNCHANGED <<clientVars, held, chunkState, messages, serverVars>>

Validate ==
  /\ call.at = "validate"
  /\ call' = [call EXCEPT !.at = IF Valid(call.first, call.chunks) THEN "send" ELSE "failed"]
  /\ UNCHANGED <<clientVars, held, chunkState, messages, serverVars>>

\* The new buffer has the next id: the server is told, then the state is set.
AllocateSend ==
  /\ call.at = "send"
  /\ Push(Alloc(nextUid, call.first))
  /\ cache' = [id \in DOMAIN cache \cup {nextUid} |-> IF id = nextUid THEN call.first ELSE cache[id]]
  /\ allocations' = [c \in DOMAIN allocations \cup {call.first} |->
                      IF c = call.first THEN call.first + call.chunks - 1 ELSE allocations[c]]
  /\ nextUid' = nextUid + 1
  /\ call' = [call EXCEPT !.at = "mark"]
  /\ UNCHANGED <<segments, defaultSegment, held, chunkState, serverVars>>

AllocateMark ==
  /\ call.at = "mark"
  /\ chunkState' = [chunkState EXCEPT ![call.first] = "Allocated"]
  /\ call' = [call EXCEPT !.at = "allocated"]
  /\ UNCHANGED <<clientVars, held, messages, serverVars>>

\* The caller has the new id, or kInvalidId.
NewId == nextUid - 1

AllocateReturn ==
  /\ call.at = "allocated"
  /\ held' = held \cup {NewId}
  /\ call' = NoCall
  /\ UNCHANGED <<clientVars, chunkState, messages, serverVars>>

AllocateFail ==
  /\ call.at = "failed"
  /\ call' = NoCall
  /\ UNCHANGED <<clientVars, held, chunkState, messages, serverVars>>

\* deallocate, in the client: the caller gives up the id; the chunks stay taken.
Deallocate(id) ==
  /\ call.at = "idle"
  /\ id \in held
  /\ held' = held \ {id}
  /\ Push(Dealloc(id))
  /\ UNCHANGED <<clientVars, call, chunkState, serverVars>>

----------------------------------------------------------------------------
(* The server, one command at a time. *)

ServerAddSeg ==
  /\ messages # <<>>
  /\ Head(messages).cmd = "AddSeg"
  /\ messages' = Tail(messages)
  /\ serverSegments' = Append(serverSegments, Head(messages).segment)
  /\ UNCHANGED <<clientVars, call, held, chunkState, serverCache>>

ServerAlloc ==
  /\ messages # <<>>
  /\ Head(messages).cmd = "Alloc"
  /\ messages' = Tail(messages)
  /\ LET m == Head(messages)
     IN  serverCache' = [id \in DOMAIN serverCache \cup {m.id} |->
                          IF id = m.id THEN m.chunk ELSE serverCache[id]]
  /\ UNCHANGED <<clientVars, call, held, chunkState, serverSegments>>

\* Mutant of ServerDealloc: the server's cache keeps the id.
ServerDealloc_Keep ==
  /\ messages # <<>>
  /\ Head(messages).cmd = "Dealloc"
  /\ messages' = Tail(messages)
  /\ chunkState' = [chunkState EXCEPT ![serverCache[Head(messages).id]] = "Deallocated"]
  /\ UNCHANGED <<clientVars, call, held, serverVars>>

ServerDealloc ==
  /\ messages # <<>>
  /\ Head(messages).cmd = "Dealloc"
  /\ messages' = Tail(messages)
  /\ LET id == Head(messages).id
     IN  /\ chunkState' = [chunkState EXCEPT ![serverCache[id]] = "Deallocated"]
         /\ serverCache' = Without(serverCache, id)
  /\ UNCHANGED <<clientVars, call, held, serverSegments>>

----------------------------------------------------------------------------

\* The part of allocate that the callers do not see.
Allocating ==
  \/ \E first \in Chunk : FindRoom(first)
  \/ FindNone \/ FindUndefined
  \/ \E id \in Id : FreeOne(id)
  \/ FreeEnd \/ Grow \/ GrowDies \/ GrowFull
  \/ Validate \/ AllocateSend \/ AllocateMark

Server == ServerAddSeg \/ ServerAlloc \/ ServerDealloc

Next ==
  \/ \E n \in Sizes : AllocateCall(n)
  \/ Allocating
  \/ AllocateReturn \/ AllocateFail
  \/ \E id \in Id : Deallocate(id)
  \/ Server

Spec == Init /\ [][Next]_vars

----------------------------------------------------------------------------
(* Properties. *)

IsMap(f, S, T) == DOMAIN f \subseteq S /\ \A x \in DOMAIN f : f[x] \in T

Message ==
  [cmd : {"AddSeg"}, segment : Segment] \cup [cmd : {"Alloc"}, id : Id, chunk : Chunk]
    \cup [cmd : {"Dealloc"}, id : Id]

CallType ==
  [at : {"idle", "find", "free", "grow", "validate", "send", "mark", "allocated", "failed", "exited"},
   chunks : Nat, first : Chunk, failed : 0 .. 3, pending : SUBSET Id]

TypeOK ==
  /\ IsMap(cache, Id, Chunk)
  /\ IsMap(allocations, Chunk, Chunk)
  /\ segments \in Seq(Segment)
  /\ defaultSegment \in Nat
  /\ nextUid \in 0 .. MaxIds
  /\ call \in CallType
  /\ held \subseteq Id
  /\ chunkState \in [Chunk -> {"Unallocated", "Allocated", "Deallocated"}]
  /\ messages \in Seq(Message)
  /\ Len(messages) <= QueueSlots
  /\ IsMap(serverCache, Id, Chunk)
  /\ serverSegments \in Seq(Segment)

\* Two buffers never share a chunk, and a buffer never crosses from one segment to
\* another, which is another mapping: isValidAllocation and the search for a gap.
AllocationsApart ==
  \A a \in DOMAIN allocations :
    /\ a <= allocations[a]
    /\ \E i \in DOMAIN segments : Lies(a, allocations[a] - a + 1, segments[i])
    /\ \A b \in DOMAIN allocations : a < b => allocations[a] < b

\* What the server takes for a buffer still is that buffer for the client.
ServerViewAgrees ==
  \A id \in DOMAIN serverCache :
    /\ id \in DOMAIN cache
    /\ cache[id] = serverCache[id]
    /\ cache[id] \in DOMAIN allocations

\* The assertions of deallocate in the server: it knows the buffer, and nobody has
\* deallocated it.
DeallocAsserts ==
  \A id \in Id :
    (messages # <<>> /\ Head(messages) = Dealloc(id)) =>
      /\ id \in DOMAIN serverCache
      /\ chunkState[serverCache[id]] = "Allocated"

\* The server finds the segment of every buffer it knows, and it is the client's
\* (chunkIdToSegId in getBuf).
ServerFindsSegment ==
  /\ \A i \in DOMAIN serverSegments : serverSegments[i] = segments[i]
  /\ \A id \in DOMAIN serverCache :
       \E i \in DOMAIN serverSegments :
         Lies(serverCache[id], allocations[serverCache[id]] - serverCache[id] + 1, serverSegments[i])

\* However far the server is behind, its view of the heap is the client's: a buffer it knows
\* keeps its chunks until the server has let go of it, in a segment the server was told of,
\* and each deallocation finds a live buffer (allocate, deallocate, freeDeallocations).
ServerAgrees == ServerViewAgrees /\ DeallocAsserts /\ ServerFindsSegment

----------------------------------------------------------------------------
(* What the heap promises. *)

\* The call that gives out an id holds it until it returns.
InCall(id) == call.at \in {"mark", "allocated"} /\ id = NewId

\* How far the life of a buffer has come, from what the client keeps of it and from the
\* state at its first chunk.
Lease(id) ==
  IF id \notin DOMAIN cache THEN IF id < nextUid THEN "reclaimed" ELSE "unused"
  ELSE IF id \in held \/ InCall(id) THEN "held"
  ELSE IF chunkState[cache[id]] = "Deallocated" THEN "done" ELSE "released"

Promise == INSTANCE BufferHeap WITH
  BufferIds <- Id,
  Places    <- Chunk,
  lease     <- [id \in Id |-> Lease(id)],
  place     <- [id \in Id |-> IF id \in DOMAIN cache
                              THEN cache[id] .. allocations[cache[id]] ELSE {}]

\* The heap keeps its promise: no place is given out before its last owner, the server
\* and the heap have all let go of it, in this order (allocate, deallocate,
\* freeDeallocations).
KeepsPromise == Promise!HeapSpec

==============================================================================

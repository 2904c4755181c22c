--------------------------- MODULE SharedHeapProofs ---------------------------
(***************************************************************************)
(* Proofs about SharedHeap, for every heap, segment and buffer size and    *)
(* every number of buffers: the types, that no two buffers overlap and     *)
(* none crosses the bound of a segment, that the server's view of the heap *)
(* agrees with the client's, and that the heap implements BufferHeap.      *)
(*                                                                         *)
(* That buffers are apart is inductive only with what the search has found *)
(* out before the buffer is entered (PlaceIsFree) and with the extent of   *)
(* the segments (SegmentsFit): a new segment starts after every buffer.    *)
(* The other two rest on what the messages under way say (OnTheWay, Told)  *)
(* and on who may still use a buffer whose first chunk has a state         *)
(* (States).                                                               *)
(*                                                                         *)
(* The last part is about the users of the promise, LockableBuffer: what   *)
(* the server reads in the heap, and that no buffer is lost (LockInv).     *)
(***************************************************************************)
EXTENDS SharedHeap, LockableBuffer, SequenceTheorems, TLAPS

USE HeapAssumption DEF HeapAssumption

\* A call has an id to give, asks for something, and has a place it was shown valid.
CallReady ==
  /\ call.at \in {"find", "free", "grow", "validate", "send"} => nextUid < MaxIds
  /\ call.at \in {"mark", "allocated"} => nextUid > 0
  /\ call.at # "idle" => call.chunks > 0
  /\ call.at = "send" => Valid(call.first, call.chunks)

\* No buffer lies where the call is about to enter one.
PlaceIsFree ==
  call.at \in {"validate", "send"} =>
    \A a \in DOMAIN allocations :
      allocations[a] < call.first \/ call.first + call.chunks <= a

\* The segments end with the last one, within the heap.
SegmentsFit ==
  /\ NChunks(segments) <= MaxChunks
  /\ \A i \in DOMAIN segments : segments[i].base + segments[i].chunks <= NChunks(segments)

IInv == TypeOK /\ CallReady /\ PlaceIsFree /\ SegmentsFit /\ AllocationsApart

----------------------------------------------------------------------------

(* The number of chunks of a sequence of segments is a number, and adding  *)
(* a segment adds its chunks (m_nChunks in addNewHeapSegment).             *)
LEMMA NChunksNat ==
  ASSUME NEW segs \in Seq(Segment)
  PROVE  NChunks(segs) \in Nat
<1>1. CASE segs = <<>>
  BY <1>1 DEF NChunks
<1>2. CASE segs # <<>>
  <2>1. Len(segs) \in 1 .. Len(segs)
    BY <1>2, EmptySeq, LenProperties
  <2>2. segs[Len(segs)] \in Segment
    BY <2>1, ElementOfSeq
  <2> QED BY <1>2, <2>2 DEF NChunks, Segment, Chunk
<1> QED BY <1>1, <1>2

\* Adding a segment adds its chunks.
LEMMA NChunksAppend ==
  ASSUME NEW segs \in Seq(Segment), NEW seg \in Segment
  PROVE  NChunks(Append(segs, seg)) = seg.base + seg.chunks
<1>1. /\ Append(segs, seg) \in Seq(Segment)
      /\ Len(Append(segs, seg)) = Len(segs) + 1
      /\ Append(segs, seg)[Len(segs) + 1] = seg
  BY AppendProperties
<1>2. Append(segs, seg) # <<>>
  BY <1>1, LenProperties, EmptySeq
<1> QED BY <1>1, <1>2 DEF NChunks

(* A segment the client adds starts where the others end and stays within  *)
(* the heap (addNewHeapSegment).                                           *)
LEMMA NewSegmentType ==
  ASSUME IInv, NewSegment.chunks > 1
  PROVE  /\ NewSegment \in Segment
         /\ NewSegment.base = NChunks(segments)
         /\ NewSegment.base + NewSegment.chunks <= MaxChunks
<1>1. /\ NChunks(segments) \in Nat
      /\ NChunks(segments) <= MaxChunks
      /\ defaultSegment \in Nat
  BY NChunksNat DEF IInv, TypeOK, SegmentsFit
<1> QED BY <1>1 DEF NewSegment, Segment, Chunk

(* A place in a gap, or after the last allocation, is free.                *)
LEMMA FoundIsFree ==
  ASSUME IInv, NEW n \in Nat, NEW g \in Found(n), NEW a \in DOMAIN allocations
  PROVE  allocations[a] < g \/ g + n <= a
<1>1. \A b \in DOMAIN allocations : b \in Nat /\ allocations[b] \in Nat /\ b <= allocations[b]
  BY DEF IInv, TypeOK, IsMap, Chunk, AllocationsApart
<1>2. \A b, c \in DOMAIN allocations : b < c => allocations[b] < c
  BY DEF IInv, AllocationsApart
<1>3. CASE g \in FreeInMiddle(n)
  <2>1. PICK f \in Chunk : Gap(g, f) /\ f - g >= n /\ g \in Chunk
    BY <1>3 DEF FreeInMiddle
  <2>2. CASE f <= a
    BY <2>1, <2>2, <1>1 DEF Chunk
  <2>3. CASE a < g
    <3>1. PICK b \in DOMAIN allocations : g = allocations[b] + 1
      BY <2>1, <2>3, <1>1 DEF Gap, Chunk
    <3> QED BY <2>3, <3>1, <1>1, <1>2
  <2> QED BY <2>1, <2>2, <2>3 DEF Gap
<1>4. CASE g \in FreeOnEnd
  <2>1. PICK b \in DOMAIN allocations :
          /\ g = allocations[b] + 1
          /\ \A c \in DOMAIN allocations : c <= b
    BY <1>4 DEF FreeOnEnd
  <2>2. a <= b
    BY <2>1
  <2> QED BY <2>1, <2>2, <1>1, <1>2
<1> QED BY <1>3, <1>4 DEF Found

(* A place that was found is in a segment.                                 *)
LEMMA FoundIsChunk ==
  ASSUME NEW n, NEW g \in Found(n)
  PROVE  Valid(g, n)
BY DEF Found

(* Taking a mapping out of a finite map, or entering one, leaves a map.    *)
LEMMA WithoutIsMap ==
  ASSUME NEW f, NEW S, NEW T, IsMap(f, S, T), NEW x
  PROVE  /\ IsMap(Without(f, x), S, T)
         /\ DOMAIN Without(f, x) = DOMAIN f \ {x}
         /\ \A y \in DOMAIN f \ {x} : Without(f, x)[y] = f[y]
BY DEF IsMap, Without

(* A valid place ends in the heap.                                         *)
LEMMA ValidIsInHeap ==
  ASSUME IInv, NEW first \in Chunk, NEW n \in Nat \ {0}, Valid(first, n)
  PROVE  /\ first + n - 1 \in Chunk
         /\ first + n <= NChunks(segments)
<1>1. PICK i \in DOMAIN segments : Lies(first, n, segments[i])
  BY DEF Valid
<1>2. segments[i] \in Segment /\ segments[i].base + segments[i].chunks <= NChunks(segments)
  BY ElementOfSeq, LenProperties DEF IInv, TypeOK, SegmentsFit
<1>3. NChunks(segments) \in Nat /\ NChunks(segments) <= MaxChunks
  BY NChunksNat DEF IInv, TypeOK, SegmentsFit
<1> QED BY <1>1, <1>2, <1>3 DEF Lies, Segment, Chunk

----------------------------------------------------------------------------

\* The heap starts with its first segment and no buffer.
THEOREM InitInv == Init => IInv
<1> SUFFICES ASSUME Init PROVE IInv
  OBVIOUS
<1>1. /\ FirstSegment \in Segment
      /\ segments \in Seq(Segment)
      /\ Len(segments) = 1
      /\ segments[1] = FirstSegment
      /\ DOMAIN segments = {1}
  BY DEF Init, FirstSegment, Segment, Chunk
<1>2. AddSeg(FirstSegment) \in Message
  BY <1>1 DEF AddSeg, Message
<1>3. call \in CallType
  BY DEF Init, NoCall, CallType, Chunk
<1>4. Len(messages) <= QueueSlots /\ messages \in Seq(Message)
  BY <1>2 DEF Init
<1>5. TypeOK
  BY <1>1, <1>3, <1>4 DEF Init, TypeOK, IsMap, Empty
<1>6. CallReady /\ PlaceIsFree
  BY DEF Init, CallReady, PlaceIsFree, NoCall
<1>7. SegmentsFit
  <2>1. segments # <<>>
    BY <1>1, EmptySeq
  <2> QED BY <1>1, <2>1 DEF SegmentsFit, NChunks, FirstSegment
<1>8. AllocationsApart
  BY DEF Init, AllocationsApart, Empty
<1> QED BY <1>5, <1>6, <1>7, <1>8 DEF IInv

----------------------------------------------------------------------------

(* A step of the search changes the call and leaves the heap alone: then   *)
(* only what is known of the call must be shown again.                     *)
LEMMA SearchStep ==
  ASSUME IInv,
         UNCHANGED <<cache, allocations, segments, nextUid, chunkState, messages, serverVars>>,
         defaultSegment' \in Nat, held' \subseteq Id, call' \in CallType,
         CallReady', PlaceIsFree'
  PROVE  IInv'
<1>1. TypeOK'
  BY DEF IInv, TypeOK, IsMap, serverVars
<1>2. SegmentsFit'
  BY DEF IInv, SegmentsFit, NChunks
<1>3. AllocationsApart'
  BY DEF IInv, AllocationsApart, Lies
<1> QED BY <1>1, <1>2, <1>3 DEF IInv

(* A step that leaves the call and the client's heap alone, as all of the  *)
(* server's do, keeps the invariant if it keeps the types.                 *)
LEMMA OutsideStep ==
  ASSUME IInv, UNCHANGED <<allocations, segments, nextUid, call>>, TypeOK'
  PROVE  IInv'
<1>1. CallReady' /\ PlaceIsFree'
  BY DEF IInv, CallReady, PlaceIsFree, Valid, Lies
<1>2. SegmentsFit' /\ AllocationsApart'
  BY DEF IInv, SegmentsFit, NChunks, AllocationsApart, Lies
<1> QED BY <1>1, <1>2 DEF IInv

(* The steps that begin, carry on and end the search for a place.          *)
LEMMA SearchKeeps ==
  ASSUME IInv
  PROVE  (\/ \E n \in Sizes : AllocateCall(n)
          \/ \E first \in Chunk : FindRoom(first)
          \/ FindNone \/ FindUndefined \/ FreeEnd \/ GrowDies \/ GrowFull
          \/ Validate \/ AllocateReturn \/ AllocateFail) => IInv'
<1>0. /\ call \in CallType /\ defaultSegment \in Nat /\ nextUid \in 0 .. MaxIds
      /\ held \subseteq Id /\ CallReady /\ PlaceIsFree
      /\ DOMAIN cache \subseteq Id
  BY DEF IInv, TypeOK, IsMap
<1>1. ASSUME NEW n \in Sizes, AllocateCall(n) PROVE IInv'
  <2>1. n \in Nat /\ n > 0 /\ Sizes \subseteq Nat
    OBVIOUS
  <2>2. defaultSegment' \in Nat
    <3>1. defaultSegment' \in Grown(defaultSegment, n)
      BY <1>1 DEF AllocateCall
    <3> QED BY <1>0, <2>1, <3>1 DEF Grown
  <2>3. call' \in CallType /\ call'.at \in {"validate", "find"} /\ call'.chunks = n
    <3>1. call' = [NoCall EXCEPT !.at = IF allocations = Empty THEN "validate" ELSE "find",
                                 !.chunks = n]
      BY <1>1 DEF AllocateCall
    <3>2. NoCall \in CallType
      BY DEF NoCall, CallType, Chunk
    <3>3. call' \in CallType
      BY <2>1, <3>1, <3>2 DEF CallType
    <3>4. DOMAIN NoCall = {"at", "chunks", "first", "failed", "pending"}
      BY DEF NoCall
    <3> QED BY <3>1, <3>3, <3>4
  <2>4. PlaceIsFree'
    BY <1>1 DEF AllocateCall, PlaceIsFree, NoCall, Empty
  <2>5. CallReady'
    BY <1>0, <1>1, <2>1, <2>3 DEF AllocateCall, CallReady
  <2>6. UNCHANGED <<cache, allocations, segments, nextUid, held, chunkState, messages, serverVars>>
    BY <1>1 DEF AllocateCall
  <2> QED BY <1>0, <2>2, <2>3, <2>4, <2>5, <2>6, SearchStep DEF IInv
<1>2. ASSUME NEW first \in Chunk, FindRoom(first) PROVE IInv'
  <2>1. /\ UNCHANGED <<clientVars, held, chunkState, messages, serverVars>>
        /\ call' = [call EXCEPT !.at = "validate", !.first = first]
        /\ first \in Found(call.chunks)
        /\ call.at = "find"
    BY <1>2 DEF FindRoom
  <2>2. /\ call' \in CallType /\ call'.at = "validate" /\ call'.first = first
        /\ call'.chunks = call.chunks /\ call.chunks \in Nat
    BY <1>0, <2>1 DEF CallType
  <2>3. \A a \in DOMAIN allocations : allocations[a] < first \/ first + call.chunks <= a
    BY <2>1, <2>2, FoundIsFree
  <2>4. PlaceIsFree'
    BY <2>1, <2>2, <2>3 DEF PlaceIsFree, clientVars
  <2>5. CallReady'
    BY <1>0, <2>1, <2>2 DEF CallReady, clientVars
  <2> QED BY <1>0, <2>1, <2>2, <2>4, <2>5, SearchStep DEF clientVars
<1>3. ASSUME FindNone PROVE IInv'
  <2>1. /\ UNCHANGED <<clientVars, held, chunkState, messages, serverVars>>
        /\ call' = [call EXCEPT !.at = "free", !.pending = DOMAIN cache]
        /\ call.at = "find"
    BY <1>3 DEF FindNone
  <2>2. call' \in CallType /\ call'.at = "free" /\ call'.chunks = call.chunks
    BY <1>0, <2>1 DEF CallType
  <2>3. PlaceIsFree' /\ CallReady'
    BY <1>0, <2>1, <2>2 DEF PlaceIsFree, CallReady, clientVars
  <2> QED BY <1>0, <2>1, <2>2, <2>3, SearchStep DEF clientVars
<1>4. ASSUME FindUndefined PROVE IInv'
  <2>1. /\ UNCHANGED <<clientVars, held, chunkState, messages, serverVars>>
        /\ allocations = Empty
        /\ call.at = "find"
    BY <1>4 DEF FindUndefined
  <2>2. /\ call' \in CallType /\ call'.chunks = call.chunks
        /\ call'.at \in {"exited", "free", "validate"}
    BY <1>0, <1>4 DEF FindUndefined, CallType
  <2>3. PlaceIsFree' /\ CallReady'
    BY <1>0, <2>1, <2>2 DEF PlaceIsFree, CallReady, clientVars, Empty
  <2> QED BY <1>0, <2>1, <2>2, <2>3, SearchStep DEF clientVars
<1>5. ASSUME FreeEnd \/ GrowFull PROVE IInv'
  <2>1. /\ UNCHANGED <<clientVars, held, chunkState, messages, serverVars>>
        /\ call.at \in {"free", "grow"}
    BY <1>5 DEF FreeEnd, GrowFull
  <2>2. /\ call' \in CallType /\ call'.chunks = call.chunks
        /\ call'.at \in {"grow", "find", "failed"}
    <3>1. \/ call' = [call EXCEPT !.at = "grow"]
          \/ call' = [call EXCEPT !.at = "find",
                                  !.failed = IF call.failed < 3 THEN call.failed + 1 ELSE 3]
          \/ call' = [call EXCEPT !.at = "failed"]
      BY <1>5 DEF FreeEnd, GrowFull, TryAgain
    <3>2. (IF call.failed < 3 THEN call.failed + 1 ELSE 3) \in 0 .. 3
      BY <1>0 DEF CallType
    <3> QED BY <1>0, <3>1, <3>2 DEF CallType
  <2>3. PlaceIsFree' /\ CallReady'
    BY <1>0, <2>1, <2>2 DEF PlaceIsFree, CallReady, clientVars
  <2> QED BY <1>0, <2>1, <2>2, <2>3, SearchStep DEF clientVars
<1>6. ASSUME GrowDies PROVE IInv'
  <2>1. /\ UNCHANGED <<clientVars, held, chunkState, messages, serverVars>>
        /\ call' \in CallType /\ call'.at = "exited"
        /\ call'.chunks = call.chunks /\ call.at = "grow"
    BY <1>0, <1>6 DEF GrowDies, CallType
  <2>2. PlaceIsFree' /\ CallReady'
    BY <1>0, <2>1 DEF PlaceIsFree, CallReady
  <2> QED BY <1>0, <2>1, <2>2, SearchStep DEF clientVars
<1>7. ASSUME Validate PROVE IInv'
  <2>1. /\ UNCHANGED <<clientVars, held, chunkState, messages, serverVars>>
        /\ call.at = "validate"
        /\ call'.at = IF Valid(call.first, call.chunks) THEN "send" ELSE "failed"
        /\ call' \in CallType /\ call'.chunks = call.chunks /\ call'.first = call.first
    BY <1>0, <1>7 DEF Validate, CallType
  <2>2. PlaceIsFree'
    BY <1>0, <2>1 DEF PlaceIsFree, clientVars
  <2>3. CallReady'
    BY <1>0, <2>1 DEF CallReady, clientVars, Valid, Lies
  <2> QED BY <1>0, <2>1, <2>2, <2>3, SearchStep DEF clientVars
<1>8. ASSUME AllocateReturn \/ AllocateFail PROVE IInv'
  <2>1. /\ UNCHANGED <<clientVars, chunkState, messages, serverVars>>
        /\ call' = NoCall
    BY <1>8 DEF AllocateReturn, AllocateFail
  <2>2. call' \in CallType /\ call'.at = "idle"
    BY <2>1 DEF NoCall, CallType, Chunk
  <2>3. PlaceIsFree' /\ CallReady'
    BY <2>2 DEF PlaceIsFree, CallReady
  <2>4. held' \subseteq Id
    <3>1. CASE AllocateReturn
      BY <1>0, <3>1 DEF AllocateReturn, CallReady, NewId, Id
    <3>2. CASE AllocateFail
      BY <1>0, <3>2 DEF AllocateFail
    <3> QED BY <1>8, <3>1, <3>2
  <2> QED BY <1>0, <2>1, <2>2, <2>3, <2>4, SearchStep DEF clientVars
<1> QED BY <1>1, <1>2, <1>3, <1>4, <1>5, <1>6, <1>7, <1>8

(* Taking a buffer back leaves the others where they are.                  *)
LEMMA FreeOneKeeps ==
  ASSUME IInv, NEW id \in Id, FreeOne(id)
  PROVE  IInv'
<1>1. /\ call.at = "free"
      /\ call' = [call EXCEPT !.pending = call.pending \ {id}]
      /\ UNCHANGED <<segments, defaultSegment, nextUid, held, messages, serverVars>>
  BY DEF FreeOne
<1>2. /\ call' \in CallType /\ call'.at = "free" /\ call'.chunks = call.chunks
  BY <1>1 DEF IInv, TypeOK, CallType
<1>3. CASE UNCHANGED <<cache, allocations, chunkState>>
  <2>1. PlaceIsFree' /\ CallReady'
    BY <1>1, <1>2 DEF IInv, PlaceIsFree, CallReady
  <2> QED BY <1>1, <1>2, <1>3, <2>1, SearchStep DEF IInv, TypeOK
<1>4. CASE /\ cache' = Without(cache, id)
           /\ allocations' = Without(allocations, cache[id])
           /\ chunkState' = [chunkState EXCEPT ![cache[id]] = "Unallocated"]
  <2>1. IsMap(cache', Id, Chunk)
    BY <1>4, WithoutIsMap DEF IInv, TypeOK
  <2>2. /\ IsMap(allocations', Chunk, Chunk)
        /\ DOMAIN allocations' \subseteq DOMAIN allocations
        /\ \A y \in DOMAIN allocations' : allocations'[y] = allocations[y]
    <3> PICK gone, before : gone = cache[id] /\ before = allocations
      OBVIOUS
    <3>1. IsMap(before, Chunk, Chunk)
      BY DEF IInv, TypeOK
    <3>2. /\ IsMap(Without(before, gone), Chunk, Chunk)
          /\ DOMAIN Without(before, gone) = DOMAIN before \ {gone}
          /\ \A y \in DOMAIN before \ {gone} : Without(before, gone)[y] = before[y]
      BY ONLY <3>1, WithoutIsMap
    <3>3. allocations' = Without(before, gone)
      BY <1>4
    <3> QED
      BY <3>2, <3>3
  <2>3. TypeOK'
    BY <1>1, <1>2, <1>4, <2>1, <2>2 DEF IInv, TypeOK, IsMap, serverVars
  <2>4. PlaceIsFree' /\ CallReady'
    BY <1>1, <1>2 DEF IInv, PlaceIsFree, CallReady
  <2>5. SegmentsFit'
    BY <1>1 DEF IInv, SegmentsFit, NChunks
  <2>6. AllocationsApart'
    BY <1>1, <2>2 DEF IInv, AllocationsApart, Lies
  <2> QED BY <2>3, <2>4, <2>5, <2>6 DEF IInv
<1> QED BY <1>3, <1>4 DEF FreeOne

(* The new segment's first chunk is free: every buffer lies in an older    *)
(* segment.                                                                *)
LEMMA GrowKeeps ==
  ASSUME IInv, Grow
  PROVE  IInv'
<1> DEFINE new == NewSegment
<1>1. /\ call.at = "grow"
      /\ segments' = Append(segments, new)
      /\ messages' = Append(messages, AddSeg(new))
      /\ Len(messages) < QueueSlots
      /\ call' = [call EXCEPT !.at = "validate", !.first = new.base]
      /\ UNCHANGED <<cache, allocations, defaultSegment, nextUid, held, chunkState, serverVars>>
  BY DEF Grow, Push
<1>2. /\ new \in Segment /\ new.base = NChunks(segments)
      /\ new.base + new.chunks <= MaxChunks
  BY NewSegmentType DEF Grow
<1>3. segments \in Seq(Segment) /\ messages \in Seq(Message) /\ call \in CallType
  BY DEF IInv, TypeOK
<1> HIDE DEF new
<1>4. /\ segments' \in Seq(Segment)
      /\ DOMAIN segments' = DOMAIN segments \cup {Len(segments) + 1}
      /\ \A i \in DOMAIN segments : segments'[i] = segments[i]
      /\ segments'[Len(segments) + 1] = new
  BY <1>1, <1>2, <1>3, AppendProperties, LenProperties
<1>5. messages' \in Seq(Message) /\ Len(messages') <= QueueSlots
  <2>1. AddSeg(new) \in Message
    BY <1>2 DEF AddSeg, Message
  <2>2. messages' \in Seq(Message) /\ Len(messages') = Len(messages) + 1
    BY <1>1, <1>3, <2>1, AppendProperties
  <2> QED BY <1>1, <1>3, <2>2, LenProperties
<1>6. /\ call' \in CallType /\ call'.at = "validate" /\ call'.first = new.base
      /\ call'.chunks = call.chunks
  BY <1>1, <1>2, <1>3 DEF CallType, Segment
<1>7. TypeOK'
  BY <1>1, <1>4, <1>5, <1>6 DEF IInv, TypeOK, IsMap, serverVars
<1>8. CallReady'
  BY <1>1, <1>6 DEF IInv, CallReady
<1>9. PlaceIsFree'
  <2>1. ASSUME NEW a \in DOMAIN allocations PROVE allocations[a] < new.base
    <3>1. PICK i \in DOMAIN segments : Lies(a, allocations[a] - a + 1, segments[i])
      BY DEF IInv, AllocationsApart
    <3>2. /\ segments[i] \in Segment
          /\ segments[i].base + segments[i].chunks <= NChunks(segments)
      BY <1>3, ElementOfSeq, LenProperties DEF IInv, SegmentsFit
    <3>3. a \in Nat /\ allocations[a] \in Nat
      BY DEF IInv, TypeOK, IsMap, Chunk
    <3>4. NChunks(segments) \in Nat
      BY <1>3, NChunksNat
    <3> QED BY <1>2, <3>1, <3>2, <3>3, <3>4 DEF Lies, Segment, Chunk
  <2> QED BY <1>1, <1>6, <2>1 DEF PlaceIsFree
<1>10. SegmentsFit'
  <2>1. NChunks(segments') = new.base + new.chunks
    BY <1>1, <1>2, <1>3, NChunksAppend
  <2>2. ASSUME NEW i \in DOMAIN segments
        PROVE  segments'[i].base + segments'[i].chunks <= NChunks(segments')
    <3>1. segments[i].base + segments[i].chunks <= NChunks(segments)
      BY DEF IInv, SegmentsFit
    <3>2. segments[i] \in Segment
      BY <1>3, ElementOfSeq, LenProperties
    <3>3. NChunks(segments) \in Nat
      BY <1>3, NChunksNat
    <3> QED BY <1>2, <1>4, <2>1, <3>1, <3>2, <3>3 DEF Segment, Chunk
  <2>3. segments'[Len(segments) + 1].base + segments'[Len(segments) + 1].chunks <= NChunks(segments')
    BY <1>2, <1>4, <2>1 DEF Segment, Chunk
  <2>4. NChunks(segments)' = NChunks(segments')
    BY DEF NChunks
  <2> QED BY <1>2, <1>4, <2>1, <2>2, <2>3, <2>4 DEF SegmentsFit
<1>11. AllocationsApart'
  BY <1>1, <1>4 DEF IInv, AllocationsApart, Lies
<1> QED BY <1>7, <1>8, <1>9, <1>10, <1>11 DEF IInv

(* A message goes to the end of the queue.                                 *)
LEMMA PushType ==
  ASSUME IInv, NEW m \in Message, Push(m)
  PROVE  messages' \in Seq(Message) /\ Len(messages') <= QueueSlots
<1>1. messages \in Seq(Message)
  BY DEF IInv, TypeOK
<1>2. messages' \in Seq(Message) /\ Len(messages') = Len(messages) + 1
  BY <1>1, AppendProperties DEF Push
<1> QED BY <1>1, <1>2, LenProperties DEF Push

(* The buffer that is entered overlaps none, because its place was free,   *)
(* and crosses no bound, because its place was valid.                      *)
LEMMA AllocateSendKeeps ==
  ASSUME IInv, AllocateSend
  PROVE  IInv'
<1> DEFINE first == call.first
           n     == call.chunks
           final == first + n - 1
<1>1. /\ call.at = "send"
      /\ Push(Alloc(nextUid, first))
      /\ cache' = [id \in DOMAIN cache \cup {nextUid} |-> IF id = nextUid THEN first ELSE cache[id]]
      /\ allocations' = [c \in DOMAIN allocations \cup {first} |->
                          IF c = first THEN final ELSE allocations[c]]
      /\ nextUid' = nextUid + 1
      /\ call' = [call EXCEPT !.at = "mark"]
      /\ UNCHANGED <<segments, defaultSegment, held, chunkState, serverVars>>
  BY DEF AllocateSend
<1>2. /\ call \in CallType /\ nextUid \in 0 .. MaxIds /\ nextUid < MaxIds
      /\ n > 0 /\ Valid(first, n)
      /\ \A a \in DOMAIN allocations : allocations[a] < first \/ first + n <= a
  BY <1>1 DEF IInv, TypeOK, CallReady, PlaceIsFree
<1>3. first \in Chunk /\ n \in Nat /\ n > 0
  BY <1>2 DEF CallType
<1> HIDE DEF n, first
<1>4. final \in Chunk
  BY <1>2, <1>3, ValidIsInHeap
<1>5. nextUid \in Id /\ nextUid' \in 0 .. MaxIds /\ nextUid' > 0
  BY <1>1, <1>2 DEF Id
<1>6. /\ DOMAIN allocations' = DOMAIN allocations \cup {first}
      /\ allocations'[first] = final
      /\ \A a \in DOMAIN allocations : a # first => allocations'[a] = allocations[a]
  BY <1>1
<1>7. \A a \in DOMAIN allocations :
        a \in Nat /\ allocations[a] \in Nat /\ a <= allocations[a] /\ a # first
  <2>1. \A a \in DOMAIN allocations : a \in Nat /\ allocations[a] \in Nat /\ a <= allocations[a]
    BY DEF IInv, TypeOK, IsMap, Chunk, AllocationsApart
  <2>2. first \in Nat
    BY <1>3 DEF Chunk
  <2> QED BY <1>2, <1>3, <2>1, <2>2
<1>8. TypeOK'
  <2>1. IsMap(cache', Id, Chunk)
    BY <1>1, <1>3, <1>5 DEF IInv, TypeOK, IsMap
  <2>2. IsMap(allocations', Chunk, Chunk)
    BY <1>3, <1>4, <1>6 DEF IInv, TypeOK, IsMap
  <2>3. call' \in CallType
    BY <1>1, <1>2 DEF CallType
  <2>4. Alloc(nextUid, first) \in Message
    BY <1>3, <1>5 DEF Alloc, Message
  <2>5. messages' \in Seq(Message) /\ Len(messages') <= QueueSlots
    BY <1>1, <2>4, PushType
  <2> QED BY <1>1, <1>5, <2>1, <2>2, <2>3, <2>5 DEF IInv, TypeOK, IsMap, serverVars
<1>9. CallReady' /\ PlaceIsFree'
  <2>1. call'.at = "mark" /\ call'.chunks = n
    BY <1>1, <1>2 DEF CallType, n
  <2> QED BY <1>3, <1>5, <2>1 DEF CallReady, PlaceIsFree
<1>10. SegmentsFit'
  BY <1>1 DEF IInv, SegmentsFit, NChunks
<1>11. AllocationsApart'
  <2>1. final - first + 1 = n /\ first <= final
    BY <1>3 DEF Chunk
  <2>2. \E i \in DOMAIN segments' : Lies(first, allocations'[first] - first + 1, segments'[i])
    BY <1>1, <1>2, <1>6, <2>1 DEF Valid
  <2>3. ASSUME NEW a \in DOMAIN allocations
        PROVE  /\ a <= allocations'[a]
               /\ \E i \in DOMAIN segments' : Lies(a, allocations'[a] - a + 1, segments'[i])
    BY <1>1, <1>6, <1>7 DEF IInv, AllocationsApart
  <2>4. ASSUME NEW a \in DOMAIN allocations', NEW b \in DOMAIN allocations', a < b
        PROVE  allocations'[a] < b
    <3>1. CASE a \in DOMAIN allocations /\ b \in DOMAIN allocations
      BY <1>6, <1>7, <2>4, <3>1 DEF IInv, AllocationsApart
    <3>2. CASE a = first /\ b \in DOMAIN allocations
      BY <1>2, <1>3, <1>6, <1>7, <2>4, <3>2 DEF Chunk
    <3>3. CASE a \in DOMAIN allocations /\ b = first
      BY <1>2, <1>3, <1>6, <1>7, <2>4, <3>3 DEF Chunk
    <3>4. CASE a = first /\ b = first
      BY <1>3, <2>4, <3>4 DEF Chunk
    <3> QED BY <1>6, <3>1, <3>2, <3>3, <3>4
  <2>5. \A a \in DOMAIN allocations' :
          /\ a <= allocations'[a]
          /\ \E i \in DOMAIN segments' : Lies(a, allocations'[a] - a + 1, segments'[i])
    BY <1>6, <2>1, <2>2, <2>3
  <2> QED BY <2>4, <2>5 DEF AllocationsApart, Lies
<1> QED BY <1>8, <1>9, <1>10, <1>11 DEF IInv

\* Setting a buffer's state moves no buffer.
LEMMA AllocateMarkKeeps ==
  ASSUME IInv, AllocateMark
  PROVE  IInv'
<1>1. /\ call.at = "mark" /\ call \in CallType
      /\ call' = [call EXCEPT !.at = "allocated"]
      /\ chunkState' = [chunkState EXCEPT ![call.first] = "Allocated"]
      /\ UNCHANGED <<clientVars, held, messages, serverVars>>
  BY DEF AllocateMark, IInv, TypeOK
<1>2. call' \in CallType /\ call'.at = "allocated" /\ call'.chunks = call.chunks
  BY <1>1 DEF CallType
<1>3. TypeOK'
  BY <1>1, <1>2 DEF IInv, TypeOK, IsMap, clientVars, serverVars
<1>4. CallReady' /\ PlaceIsFree'
  BY <1>1, <1>2 DEF IInv, CallReady, PlaceIsFree, clientVars
<1>5. SegmentsFit' /\ AllocationsApart'
  BY <1>1 DEF IInv, SegmentsFit, NChunks, AllocationsApart, Lies, clientVars
<1> QED BY <1>3, <1>4, <1>5 DEF IInv

\* Giving a buffer up moves no buffer.
LEMMA DeallocateKeeps ==
  ASSUME IInv, NEW id \in Id, Deallocate(id)
  PROVE  IInv'
<1>1. /\ Push(Dealloc(id)) /\ held' \subseteq Id
      /\ UNCHANGED <<clientVars, call, chunkState, serverVars>>
  BY DEF Deallocate, IInv, TypeOK
<1>2. Dealloc(id) \in Message
  BY DEF Dealloc, Message
<1>3. messages' \in Seq(Message) /\ Len(messages') <= QueueSlots
  BY <1>1, <1>2, PushType
<1>4. TypeOK'
  BY <1>1, <1>3 DEF IInv, TypeOK, IsMap, clientVars, serverVars
<1> QED BY <1>1, <1>4, OutsideStep DEF clientVars

(* The server does not touch what the client keeps of the heap.            *)
LEMMA ServerKeeps ==
  ASSUME IInv, Server
  PROVE  IInv'
<1>1. /\ messages \in Seq(Message) /\ messages # <<>> /\ messages' = Tail(messages)
      /\ UNCHANGED <<clientVars, call, held>>
  BY DEF Server, ServerAddSeg, ServerAlloc, ServerDealloc, IInv, TypeOK
<1>2. /\ Head(messages) \in Message /\ messages' \in Seq(Message)
      /\ Len(messages') <= QueueSlots
  <2>1. /\ Head(messages) \in Message /\ Tail(messages) \in Seq(Message)
        /\ Len(Tail(messages)) = Len(messages) - 1
    BY <1>1, HeadTailProperties
  <2> QED BY <1>1, <2>1, LenProperties DEF IInv, TypeOK
<1>3. /\ IsMap(serverCache', Id, Chunk)
      /\ serverSegments' \in Seq(Segment)
      /\ chunkState' \in [Chunk -> {"Unallocated", "Allocated", "Deallocated"}]
  <2>0. /\ IsMap(serverCache, Id, Chunk) /\ serverSegments \in Seq(Segment)
        /\ chunkState \in [Chunk -> {"Unallocated", "Allocated", "Deallocated"}]
    BY DEF IInv, TypeOK
  <2>1. CASE ServerAddSeg
    <3>1. Head(messages).segment \in Segment
      BY <1>2, <2>1 DEF ServerAddSeg, Message
    <3> QED BY <2>0, <2>1, <3>1, AppendProperties DEF ServerAddSeg
  <2>2. CASE ServerAlloc
    <3>1. Head(messages).id \in Id /\ Head(messages).chunk \in Chunk
      BY <1>2, <2>2 DEF ServerAlloc, Message
    <3> QED BY <2>0, <2>2, <3>1 DEF ServerAlloc, IsMap
  <2>3. CASE ServerDealloc
    BY <2>0, <2>3, WithoutIsMap DEF ServerDealloc
  <2> QED BY <2>1, <2>2, <2>3 DEF Server
<1>4. TypeOK'
  BY <1>1, <1>2, <1>3 DEF IInv, TypeOK, IsMap, clientVars
<1> QED BY <1>1, <1>4, OutsideStep DEF clientVars

----------------------------------------------------------------------------

\* Every step keeps the buffers apart.
THEOREM NextInv == IInv /\ [Next]_vars => IInv'
<1> SUFFICES ASSUME IInv, [Next]_vars PROVE IInv'
  OBVIOUS
<1>1. CASE \E n \in Sizes : AllocateCall(n)
  BY <1>1, SearchKeeps
<1>2. CASE Allocating
  <2>1. CASE \/ \E first \in Chunk : FindRoom(first)
             \/ FindNone \/ FindUndefined \/ FreeEnd \/ GrowDies \/ GrowFull \/ Validate
    BY <2>1, SearchKeeps
  <2>2. CASE \E id \in Id : FreeOne(id)
    BY <2>2, FreeOneKeeps
  <2>3. CASE Grow
    BY <2>3, GrowKeeps
  <2>4. CASE AllocateSend
    BY <2>4, AllocateSendKeeps
  <2>5. CASE AllocateMark
    BY <2>5, AllocateMarkKeeps
  <2> QED BY <1>2, <2>1, <2>2, <2>3, <2>4, <2>5 DEF Allocating
<1>3. CASE AllocateReturn \/ AllocateFail
  BY <1>3, SearchKeeps
<1>4. CASE \E id \in Id : Deallocate(id)
  BY <1>4, DeallocateKeeps
<1>5. CASE Server
  BY <1>5, ServerKeeps
<1>6. CASE UNCHANGED vars
  <2>1. TypeOK'
    BY <1>6 DEF IInv, TypeOK, IsMap, vars, clientVars, serverVars
  <2> QED BY <1>6, <2>1, OutsideStep DEF vars, clientVars
<1> QED BY <1>1, <1>2, <1>3, <1>4, <1>5, <1>6 DEF Next

(* Every variable of the heap keeps its type: in particular no buffer,     *)
(* segment or message ever names a chunk outside the heap.                 *)
THEOREM TypeCorrect == Spec => []TypeOK
<1>1. Init => IInv
  BY InitInv
<1>2. IInv /\ [Next]_vars => IInv'
  BY NextInv
<1>3. IInv => TypeOK
  BY DEF IInv
<1> QED BY <1>1, <1>2, <1>3, PTL DEF Spec

(* No two buffers ever share a chunk and none crosses from one segment to  *)
(* another (findAllocation, isValidAllocation), even where the search runs *)
(* into an empty heap.                                                     *)
THEOREM BuffersApart == Spec => []AllocationsApart
<1>1. Init => IInv
  BY InitInv
<1>2. IInv /\ [Next]_vars => IInv'
  BY NextInv
<1>3. IInv => AllocationsApart
  BY DEF IInv
<1> QED BY <1>1, <1>2, <1>3, PTL DEF Spec

----------------------------------------------------------------------------
(* The strengthening for the server's view and the promise. *)

\* A buffer the client knows has an id that was given out and a place of its own; the call that
\* enters one knows it, and takes back no other.
Living ==
  /\ \A id \in DOMAIN cache : id < nextUid /\ cache[id] \in DOMAIN allocations
  /\ \A a, b \in DOMAIN cache : cache[a] = cache[b] => a = b
  /\ held \subseteq DOMAIN cache
  /\ call.at \in {"mark", "allocated"} => NewId \in DOMAIN cache \ held /\ cache[NewId] = call.first
  /\ call.at = "free" => call.pending \subseteq DOMAIN cache

AtServer == \A id \in DOMAIN serverCache : id \in DOMAIN cache /\ serverCache[id] = cache[id]

Says(p, c, id) == messages[p].cmd = c /\ messages[p].id = id

\* What the server is told of a buffer comes once, the allocation before the deallocation.
OnTheWay ==
  \A p \in 1 .. Len(messages), id \in Id :
    /\ Says(p, "Alloc", id) =>
         /\ id \in DOMAIN cache /\ id \notin DOMAIN serverCache /\ messages[p].chunk = cache[id]
         /\ \A q \in 1 .. Len(messages) : Says(q, "Alloc", id) => q = p
    /\ Says(p, "Dealloc", id) =>
         /\ id \in DOMAIN cache /\ id \notin held /\ ~InCall(id) /\ chunkState[cache[id]] = "Allocated"
         /\ id \in DOMAIN serverCache \/ \E q \in 1 .. p - 1 : Says(q, "Alloc", id)
         /\ \A q \in 1 .. Len(messages) : Says(q, "Dealloc", id) => q = p

\* Only the first chunk of a buffer has a state; it says Deallocated only when nobody is left
\* to use the buffer.
States ==
  /\ \A c \in Chunk : chunkState[c] # "Unallocated" => \E id \in DOMAIN cache : cache[id] = c
  /\ \A id \in DOMAIN cache :
       /\ (call.at = "mark" /\ id = NewId) \/ chunkState[cache[id]] # "Unallocated"
       /\ \/ chunkState[cache[id]] = "Deallocated" \/ id \in DOMAIN serverCache
          \/ \E p \in 1 .. Len(messages) : Says(p, "Alloc", id)
       /\ chunkState[cache[id]] = "Deallocated" =>
            /\ id \notin held /\ ~InCall(id) /\ id \notin DOMAIN serverCache
            /\ \A p \in 1 .. Len(messages) : ~Says(p, "Alloc", id) /\ ~Says(p, "Dealloc", id)

\* The chunks of the buffer at c are in one of the first n segments.
Within(c, n) == \E i \in 1 .. n : Lies(c, allocations[c] - c + 1, segments[i])

\* n[p] is the number of segments the server knows when it gets to message p.
Counts(n) ==
  /\ n[1] = Len(serverSegments) /\ n[Len(messages) + 1] = Len(segments)
  /\ \A p \in 1 .. Len(messages) :
       /\ n[p + 1] = IF messages[p].cmd = "AddSeg" THEN n[p] + 1 ELSE n[p]
       /\ messages[p].cmd = "AddSeg" => messages[p].segment = segments[n[p] + 1]
       /\ messages[p].cmd = "Alloc" => Within(messages[p].chunk, n[p])

Told ==
  /\ \E n \in [1 .. Len(messages) + 1 -> 0 .. Len(segments)] : Counts(n)
  /\ Len(serverSegments) <= Len(segments)
  /\ \A i \in 1 .. Len(serverSegments) : serverSegments[i] = segments[i]
  /\ \A id \in DOMAIN serverCache : Within(serverCache[id], Len(serverSegments))

JInv == Living /\ AtServer /\ OnTheWay /\ States /\ Told

----------------------------------------------------------------------------
(* Messages. *)

\* A message at the end of the queue leaves the others where they are.
LEMMA Appended ==
  ASSUME TypeOK, NEW m \in Message, messages' = Append(messages, m)
  PROVE  /\ Len(messages) \in Nat /\ Len(messages') = Len(messages) + 1
         /\ \A p \in 1 .. Len(messages) : messages'[p] = messages[p] /\ p \in 1 .. Len(messages')
         /\ messages'[Len(messages) + 1] = m /\ Len(messages) + 1 \in 1 .. Len(messages')
         /\ \A p \in 1 .. Len(messages') : p \in 1 .. Len(messages) \/ p = Len(messages) + 1
<1>1. messages \in Seq(Message)
  BY DEF TypeOK
<1>2. /\ Len(messages') = Len(messages) + 1
      /\ \A p \in 1 .. Len(messages) : messages'[p] = messages[p]
      /\ messages'[Len(messages) + 1] = m
  BY <1>1, AppendProperties
<1>3. Len(messages) \in Nat
  BY <1>1, LenProperties
<1> QED BY <1>2, <1>3

\* Without the first message, every other one moves up by one.
LEMMA Shifted ==
  ASSUME TypeOK, messages # <<>>, messages' = Tail(messages)
  PROVE  /\ Len(messages) \in Nat /\ Len(messages') = Len(messages) - 1
         /\ 1 \in 1 .. Len(messages) /\ Head(messages) = messages[1] /\ messages[1] \in Message
         /\ \A p \in 1 .. Len(messages') : p + 1 \in 1 .. Len(messages) /\ p + 1 # 1 /\ messages'[p] = messages[p + 1]
         /\ \A q \in 1 .. Len(messages) : q = 1 \/ (q - 1 \in 1 .. Len(messages') /\ messages'[q - 1] = messages[q])
<1>1. messages \in Seq(Message)
  BY DEF TypeOK
<1>2. /\ Len(messages') = Len(messages) - 1 /\ Head(messages) = messages[1] /\ Head(messages) \in Message
      /\ \A p \in 1 .. Len(messages') : messages'[p] = messages[p + 1]
  BY <1>1, HeadTailProperties
<1>3. Len(messages) \in Nat /\ Len(messages) > 0
  BY <1>1, LenProperties, EmptySeq
<1>4. \A q \in 1 .. Len(messages) : q = 1 \/ (q - 1 \in 1 .. Len(messages') /\ messages'[q - 1] = messages[q])
  <2>1. ASSUME NEW q \in 1 .. Len(messages), q # 1
        PROVE  q - 1 \in 1 .. Len(messages') /\ (q - 1) + 1 = q
    BY <1>2, <1>3, <2>1
  <2> QED BY <1>2, <2>1
<1> QED BY <1>2, <1>3, <1>4

----------------------------------------------------------------------------
(* The segments the server is told of. *)

\* A new message goes on from the number of segments announced before it.
LEMMA CountsAppend ==
  ASSUME TypeOK, NEW m \in Message, messages' = Append(messages, m), serverSegments' = serverSegments,
         \E n \in [1 .. Len(messages) + 1 -> 0 .. Len(segments)] : Counts(n),
         \A i \in 1 .. Len(segments) : segments'[i] = segments[i],
         Len(segments') = IF m.cmd = "AddSeg" THEN Len(segments) + 1 ELSE Len(segments),
         m.cmd = "AddSeg" => m.segment = segments'[Len(segments) + 1],
         m.cmd = "Alloc" => Within(m.chunk, Len(segments))',
         \A p \in 1 .. Len(messages) :
           messages[p].cmd = "Alloc" => allocations'[messages[p].chunk] = allocations[messages[p].chunk]
  PROVE  (\E n \in [1 .. Len(messages) + 1 -> 0 .. Len(segments)] : Counts(n))'
<1>1. PICK n \in [1 .. Len(messages) + 1 -> 0 .. Len(segments)] : Counts(n)
  OBVIOUS
<1>2. Len(segments) \in Nat /\ Len(messages) \in Nat
  BY LenProperties DEF TypeOK
<1>3. PICK L \in Nat : L = Len(messages)
  BY <1>2
<1>4. PICK S \in Nat : S = Len(segments)
  BY <1>2
<1>5. PICK T \in Nat : T = Len(segments')
  BY <1>2
<1>6. S <= T
  BY <1>2, <1>4, <1>5
<1>7. PICK k : k = [p \in 1 .. L + 2 |-> IF p <= L + 1 THEN n[p] ELSE T]
  OBVIOUS
<1>8. /\ Len(messages') = L + 1 /\ messages'[L + 1] = m
      /\ \A p \in 1 .. L : messages'[p] = messages[p]
  BY <1>3, Appended
<1>9. n \in [1 .. L + 1 -> 0 .. S]
  BY <1>1, <1>3, <1>4
<1>10. \A p \in 1 .. L + 1 : k[p] = n[p] /\ n[p] \in 0 .. S
  <2>1. \A p \in 1 .. L + 1 : p \in 1 .. L + 2 /\ p <= L + 1
    OBVIOUS
  <2> QED BY <1>7, <1>9, <2>1
<1>11. k[L + 2] = T
  <2>1. L + 2 \in 1 .. L + 2 /\ ~(L + 2 <= L + 1)
    OBVIOUS
  <2> QED BY <1>7, <2>1
<1>12. k \in [1 .. L + 2 -> 0 .. T]
  <2>1. \A p \in 1 .. L + 2 : p \in 1 .. L + 1 \/ p = L + 2
    OBVIOUS
  <2>2. \A p \in 1 .. L + 1 : n[p] \in 0 .. T
    BY <1>6, <1>9
  <2>3. \A p \in 1 .. L + 2 : k[p] \in 0 .. T
    BY <1>10, <1>11, <2>1, <2>2
  <2> QED BY <1>7, <2>3
<1>13. /\ n[1] = Len(serverSegments) /\ n[L + 1] = S
       /\ \A p \in 1 .. L :
            /\ n[p + 1] = IF messages[p].cmd = "AddSeg" THEN n[p] + 1 ELSE n[p]
            /\ messages[p].cmd = "AddSeg" => messages[p].segment = segments[n[p] + 1]
            /\ messages[p].cmd = "Alloc" => Within(messages[p].chunk, n[p])
  BY <1>1, <1>3, <1>4 DEF Counts
<1>14. ASSUME NEW p \in 1 .. L
      PROVE  /\ k[p + 1] = IF messages'[p].cmd = "AddSeg" THEN k[p] + 1 ELSE k[p]
             /\ messages'[p].cmd = "AddSeg" => messages'[p].segment = segments'[k[p] + 1]
             /\ messages'[p].cmd = "Alloc" => Within(messages[p].chunk, k[p])'
  <2>1. /\ n[p + 1] = IF messages[p].cmd = "AddSeg" THEN n[p] + 1 ELSE n[p]
        /\ messages[p].cmd = "AddSeg" => messages[p].segment = segments[n[p] + 1]
        /\ messages[p].cmd = "Alloc" => Within(messages[p].chunk, n[p])
    BY <1>13
  <2>2. p \in 1 .. L + 1 /\ p + 1 \in 1 .. L + 1
    OBVIOUS
  <2>3. /\ k[p] = n[p] /\ k[p + 1] = n[p + 1] /\ n[p] \in 0 .. S /\ n[p + 1] \in 0 .. S
        /\ messages'[p] = messages[p]
    BY <1>8, <1>10, <2>2
  <2>4. messages[p].cmd = "AddSeg" => segments'[n[p] + 1] = segments[n[p] + 1]
    <3>1. messages[p].cmd = "AddSeg" => n[p] + 1 \in 1 .. S
      BY <2>1, <2>3
    <3> QED BY <1>4, <3>1
  <2>5. ASSUME messages[p].cmd = "Alloc" PROVE Within(messages[p].chunk, k[p])'
    <3>1. \A i \in 1 .. n[p] : i \in 1 .. S
      BY <2>3
    <3>2. PICK i \in 1 .. n[p] : Lies(messages[p].chunk, allocations[messages[p].chunk] - messages[p].chunk + 1, segments[i])
      BY <2>1, <2>5 DEF Within
    <3>3. segments'[i] = segments[i]
      BY <1>4, <3>1
    <3>4. allocations'[messages[p].chunk] = allocations[messages[p].chunk]
      BY <1>3, <2>5
    <3> QED BY <2>3, <3>2, <3>3, <3>4 DEF Within, Lies
  <2> QED BY <2>1, <2>3, <2>4, <2>5
<1>15. /\ k[L + 1 + 1] = IF m.cmd = "AddSeg" THEN k[L + 1] + 1 ELSE k[L + 1]
       /\ m.cmd = "AddSeg" => m.segment = segments'[k[L + 1] + 1]
       /\ m.cmd = "Alloc" => Within(m.chunk, k[L + 1])'
  <2>1. L + 1 \in 1 .. L + 1 /\ L + 1 + 1 = L + 2
    OBVIOUS
  <2>2. k[L + 1] = S /\ k[L + 1 + 1] = T
    BY <1>10, <1>11, <1>13, <2>1
  <2>3. T = IF m.cmd = "AddSeg" THEN S + 1 ELSE S
    BY <1>4, <1>5
  <2>4. m.cmd = "AddSeg" => m.segment = segments'[S + 1]
    BY <1>4
  <2>5. m.cmd = "Alloc" => Within(m.chunk, k[L + 1])'
    BY <1>4, <2>2 DEF Within
  <2> QED BY <2>2, <2>3, <2>4, <2>5
<1>16. \A p \in 1 .. L + 1 :
         /\ k[p + 1] = IF messages'[p].cmd = "AddSeg" THEN k[p] + 1 ELSE k[p]
         /\ messages'[p].cmd = "AddSeg" => messages'[p].segment = segments'[k[p] + 1]
         /\ messages'[p].cmd = "Alloc" => Within(messages[p].chunk, k[p])'
  <2> SUFFICES ASSUME NEW p \in 1 .. L + 1
      PROVE  /\ k[p + 1] = IF messages'[p].cmd = "AddSeg" THEN k[p] + 1 ELSE k[p]
             /\ messages'[p].cmd = "AddSeg" => messages'[p].segment = segments'[k[p] + 1]
             /\ messages'[p].cmd = "Alloc" => Within(messages[p].chunk, k[p])'
    OBVIOUS
  <2>1. CASE p \in 1 .. L
    BY <1>14, <2>1
  <2>2. CASE p = L + 1
    <3>1. messages'[p] = m
      BY <1>8, <2>2
    <3>2. m.cmd = "Alloc" => Within(messages[p].chunk, k[p])'
      BY <1>15, <2>2, <3>1 DEF Within
    <3>3. /\ k[p + 1] = IF m.cmd = "AddSeg" THEN k[p] + 1 ELSE k[p]
          /\ m.cmd = "AddSeg" => m.segment = segments'[k[p] + 1]
      BY <1>15, <2>2
    <3> QED BY <3>1, <3>2, <3>3
  <2>3. p \in 1 .. L \/ p = L + 1
    OBVIOUS
  <2> QED BY <2>1, <2>2, <2>3, Zenon
<1>17. k[1] = Len(serverSegments)' /\ k[L + 1 + 1] = Len(segments')
  <2>1. 1 \in 1 .. L + 1 /\ L + 1 + 1 = L + 2
    OBVIOUS
  <2> QED BY <1>5, <1>10, <1>11, <1>13, <2>1
<1>18. Counts(k)'
  BY <1>8, <1>16, <1>17 DEF Counts
<1>19. k \in [1 .. Len(messages') + 1 -> 0 .. Len(segments')]
  <2>1. L + 1 + 1 = L + 2
    OBVIOUS
  <2> QED BY <1>5, <1>8, <1>12, <2>1
<1> QED BY <1>18, <1>19

\* Without the first message, the numbers are those of the messages that are left.
LEMMA CountsTail ==
  ASSUME TypeOK, messages # <<>>, messages' = Tail(messages),
         NEW n \in [1 .. Len(messages) + 1 -> 0 .. Len(segments)], Counts(n),
         segments' = segments, allocations' = allocations, Len(serverSegments') = n[2]
  PROVE  (\E k \in [1 .. Len(messages) + 1 -> 0 .. Len(segments)] : Counts(k))'
<1>1. PICK L \in Nat : L = Len(messages)
  BY LenProperties DEF TypeOK
<1>2. /\ 1 \in 1 .. L /\ Len(messages') = L - 1
      /\ \A p \in 1 .. L - 1 : p + 1 \in 1 .. L /\ messages'[p] = messages[p + 1]
  BY <1>1, Shifted
<1>3. PICK k : k = [p \in 1 .. L |-> n[p + 1]]
  OBVIOUS
<1>4. \A p \in 1 .. L : k[p] = n[p + 1] /\ p + 1 \in 1 .. L + 1
  BY <1>3
<1>5. k \in [1 .. L -> 0 .. Len(segments)]
  BY <1>1, <1>3, <1>4
<1>6. k[1] = n[2] /\ k[L] = n[L + 1] /\ n[L + 1] = Len(segments)
  <2>1. L \in 1 .. L /\ 1 + 1 = 2
    BY <1>2
  <2> QED BY <1>1, <1>2, <1>4, <2>1 DEF Counts
<1>7. ASSUME NEW p \in 1 .. L - 1
      PROVE  /\ k[p + 1] = IF messages'[p].cmd = "AddSeg" THEN k[p] + 1 ELSE k[p]
             /\ messages'[p].cmd = "AddSeg" => messages'[p].segment = segments'[k[p] + 1]
             /\ messages'[p].cmd = "Alloc" => Within(messages[p].chunk, k[p])'
  <2>1. p \in 1 .. L /\ p + 1 \in 1 .. L /\ messages'[p] = messages[p + 1]
    BY <1>2
  <2>2. /\ n[(p + 1) + 1] = IF messages[p + 1].cmd = "AddSeg" THEN n[p + 1] + 1 ELSE n[p + 1]
        /\ messages[p + 1].cmd = "AddSeg" => messages[p + 1].segment = segments[n[p + 1] + 1]
        /\ messages[p + 1].cmd = "Alloc" => Within(messages[p + 1].chunk, n[p + 1])
    BY <1>1, <2>1 DEF Counts
  <2>3. k[p] = n[p + 1] /\ k[p + 1] = n[(p + 1) + 1]
    BY <1>4, <2>1
  <2>4. messages'[p].cmd = "Alloc" => Within(messages[p].chunk, k[p])'
    BY <2>1, <2>2, <2>3 DEF Within
  <2> QED BY <2>1, <2>2, <2>3, <2>4
<1>8. L - 1 + 1 = L
  BY <1>1
<1>9. Counts(k)'
  BY <1>2, <1>6, <1>7, <1>8 DEF Counts
<1> QED BY <1>2, <1>5, <1>8, <1>9

\* What the server was told stays true while the buffers it is about keep their final chunks.
LEMMA ToldSame ==
  ASSUME Told, UNCHANGED <<segments, messages, serverVars>>,
         \A p \in 1 .. Len(messages) :
           messages[p].cmd = "Alloc" => allocations'[messages[p].chunk] = allocations[messages[p].chunk],
         \A id \in DOMAIN serverCache : allocations'[serverCache[id]] = allocations[serverCache[id]]
  PROVE  Told'
<1>1. PICK n \in [1 .. Len(messages) + 1 -> 0 .. Len(segments)] : Counts(n)
  BY DEF Told
<1>2. \A p \in 1 .. Len(messages) : messages[p].cmd = "Alloc" => Within(messages[p].chunk, n[p])'
  <2> SUFFICES ASSUME NEW p \in 1 .. Len(messages), messages[p].cmd = "Alloc"
               PROVE  Within(messages[p].chunk, n[p])'
    OBVIOUS
  <2>1. Within(messages[p].chunk, n[p])
    BY <1>1 DEF Counts
  <2> QED
    BY <2>1 DEF Within, Lies
<1>3. Counts(n)'
  BY <1>1, <1>2 DEF Counts, serverVars
<1>4. \A id \in DOMAIN serverCache : Within(serverCache[id], Len(serverSegments))'
  BY DEF Told, Within, Lies, serverVars
<1> QED BY <1>1, <1>3, <1>4 DEF Told, serverVars

----------------------------------------------------------------------------
(* The client. *)

\* A step of the search: no id is being given out.
LEMMA Quiet ==
  ASSUME JInv, UNCHANGED <<cache, allocations, segments, nextUid, held, chunkState, messages, serverVars>>,
         call.at \notin {"mark", "allocated"}, call'.at \notin {"mark", "allocated"},
         call'.at = "free" => call'.pending \subseteq DOMAIN cache
  PROVE  JInv'
<1>1. Living' /\ AtServer'
  BY DEF JInv, Living, AtServer, serverVars
<1>2. OnTheWay'
  BY DEF JInv, OnTheWay, Says, InCall, serverVars
<1>3. States'
  BY DEF JInv, States, Says, InCall, serverVars
<1>4. Told'
  BY ToldSame DEF JInv
<1> QED BY <1>1, <1>2, <1>3, <1>4 DEF JInv

\* The search for a place takes no step of another kind.
LEMMA SearchQuiet ==
  ASSUME IInv, JInv,
         \/ \E n \in Sizes : AllocateCall(n)
         \/ \E first \in Chunk : FindRoom(first)
         \/ FindNone \/ FindUndefined \/ FreeEnd \/ GrowDies \/ GrowFull
         \/ Validate \/ AllocateFail
  PROVE  JInv'
<1>0. call \in CallType
  BY DEF IInv, TypeOK
<1>1. CASE \E n \in Sizes : AllocateCall(n)
  BY <1>1, Quiet DEF AllocateCall, NoCall
<1>2. CASE \E first \in Chunk : FindRoom(first)
  BY <1>0, <1>2, Quiet DEF FindRoom, clientVars, CallType
<1>3. CASE FindNone
  BY <1>0, <1>3, Quiet DEF FindNone, clientVars, CallType
<1>4. CASE FindUndefined
  BY <1>0, <1>4, Quiet DEF FindUndefined, clientVars, CallType
<1>5. CASE FreeEnd \/ GrowFull
  BY <1>0, <1>5, Quiet DEF FreeEnd, GrowFull, TryAgain, clientVars, CallType
<1>6. CASE GrowDies \/ Validate
  BY <1>0, <1>6, Quiet DEF GrowDies, Validate, clientVars, CallType
<1>7. CASE AllocateFail
  BY <1>7, Quiet DEF AllocateFail, NoCall, clientVars
<1> QED BY <1>1, <1>2, <1>3, <1>4, <1>5, <1>6, <1>7

\* The id that was in the call is now in its caller's hands.
LEMMA ReturnQuiet ==
  ASSUME IInv, JInv, AllocateReturn
  PROVE  JInv'
<1>1. /\ call.at = "allocated" /\ held' = held \cup {NewId} /\ call' = NoCall /\ call'.at = "idle"
      /\ UNCHANGED <<cache, allocations, segments, nextUid, chunkState, messages, serverVars>>
  BY DEF AllocateReturn, clientVars, NoCall
<1>2. Living' /\ AtServer'
  BY <1>1 DEF JInv, Living, AtServer, serverVars
<1>3. \A id : id \in held' \/ InCall(id)' <=> id \in held \/ InCall(id)
  BY <1>1 DEF InCall
<1>4. OnTheWay'
  BY <1>1, <1>3 DEF JInv, OnTheWay, Says, serverVars
<1>5. States'
  BY <1>1, <1>3 DEF JInv, States, Says, serverVars
<1>6. Told'
  BY <1>1, ToldSame DEF JInv
<1> QED BY <1>2, <1>4, <1>5, <1>6 DEF JInv

\* Every other buffer has another first chunk, and keeps what is known of it.
LEMMA FreeOneQuiet ==
  ASSUME IInv, JInv, NEW x \in Id, FreeOne(x)
  PROVE  JInv'
<1>1. /\ call.at = "free" /\ x \in call.pending
      /\ call' = [call EXCEPT !.pending = call.pending \ {x}]
      /\ UNCHANGED <<segments, nextUid, held, messages, serverVars>>
  BY DEF FreeOne
<1>2. call'.at = "free" /\ call'.pending = call.pending \ {x}
  BY <1>1 DEF IInv, TypeOK, CallType
<1>3. CASE UNCHANGED <<cache, allocations, chunkState>>
  BY <1>1, <1>2, <1>3, Quiet DEF JInv, Living
<1>4. CASE /\ chunkState[cache[x]] = "Deallocated"
           /\ cache' = Without(cache, x)
           /\ allocations' = Without(allocations, cache[x])
           /\ chunkState' = [chunkState EXCEPT ![cache[x]] = "Unallocated"]
  <2>1. x \in DOMAIN cache /\ cache[x] \in DOMAIN allocations /\ cache[x] \in Chunk
    BY <1>1 DEF JInv, Living, IInv, TypeOK, IsMap
  <2>2. /\ x \notin held /\ x \notin DOMAIN serverCache
        /\ \A p \in 1 .. Len(messages) : ~Says(p, "Alloc", x) /\ ~Says(p, "Dealloc", x)
    BY <1>4, <2>1 DEF JInv, States
  <2>3. DOMAIN cache' = DOMAIN cache \ {x} /\ \A id \in DOMAIN cache' : cache'[id] = cache[id] /\ cache[id] # cache[x]
    BY <1>4, <2>1 DEF Without, JInv, Living
  <2>4. /\ DOMAIN allocations' = DOMAIN allocations \ {cache[x]}
        /\ \A id \in DOMAIN cache' : allocations'[cache[id]] = allocations[cache[id]]
    BY <1>4, <2>3 DEF Without, JInv, Living
  <2>5. \A id \in DOMAIN cache' : chunkState'[cache[id]] = chunkState[cache[id]]
    BY <1>4, <2>3 DEF IInv, TypeOK, IsMap
  <2>6. Living' /\ AtServer'
    BY <1>1, <1>2, <2>2, <2>3, <2>4 DEF JInv, Living, AtServer, serverVars
  <2>7. OnTheWay'
    BY <1>1, <1>2, <2>2, <2>3, <2>5 DEF JInv, OnTheWay, Says, InCall, serverVars
  <2>8. States'
    <3>1. ASSUME NEW c \in Chunk, chunkState'[c] # "Unallocated"
          PROVE  \E id \in DOMAIN cache' : cache'[id] = c
      <4>1. chunkState[c] # "Unallocated" /\ c # cache[x]
        BY <1>4, <2>1, <3>1 DEF IInv, TypeOK
      <4> QED BY <2>3, <4>1 DEF JInv, States
    <3> QED BY <1>1, <1>2, <2>3, <2>5, <3>1 DEF JInv, States, Says, InCall, serverVars
  <2>9. Told'
    <3>1. \A p \in 1 .. Len(messages) :
            messages[p].cmd = "Alloc" => \E id \in DOMAIN cache' : messages[p].chunk = cache[id]
      <4>1. ASSUME NEW p \in 1 .. Len(messages), messages[p].cmd = "Alloc"
            PROVE  messages[p].id \in Id
        BY <4>1, ElementOfSeq DEF IInv, TypeOK, Message
      <4> QED BY <2>2, <2>3, <4>1 DEF JInv, OnTheWay, Says
    <3>2. \A id \in DOMAIN serverCache : id \in DOMAIN cache' /\ serverCache[id] = cache[id]
      BY <2>2, <2>3 DEF JInv, AtServer
    <3> QED BY <1>1, <2>4, <3>1, <3>2, ToldSame DEF JInv
  <2> QED BY <2>6, <2>7, <2>8, <2>9 DEF JInv
<1> QED BY <1>3, <1>4 DEF FreeOne

\* A new message that is not about any buffer leaves what is under way.
LEMMA GrowQuiet ==
  ASSUME IInv, JInv, Grow
  PROVE  JInv'
<1> DEFINE new == NewSegment
<1>1. /\ call.at = "grow" /\ call'.at = "validate"
      /\ segments' = Append(segments, new)
      /\ messages' = Append(messages, AddSeg(new))
      /\ UNCHANGED <<cache, allocations, nextUid, held, chunkState, serverVars>>
  BY DEF Grow, Push, IInv, TypeOK, CallType
<1>2. new \in Segment
  BY NewSegmentType DEF Grow
<1> HIDE DEF new
<1>3. AddSeg(new) \in Message /\ AddSeg(new).cmd = "AddSeg" /\ AddSeg(new).segment = new
  BY <1>2 DEF AddSeg, Message
<1>4. PICK m \in Message : m = AddSeg(new)
  BY <1>3
<1>5. /\ Len(messages) \in Nat /\ Len(messages') = Len(messages) + 1
      /\ \A p \in 1 .. Len(messages) : messages'[p] = messages[p] /\ p \in 1 .. Len(messages')
      /\ messages'[Len(messages) + 1] = m
      /\ \A p \in 1 .. Len(messages') : p \in 1 .. Len(messages) \/ p = Len(messages) + 1
  BY <1>1, <1>4, Appended DEF IInv
<1>6. /\ Len(segments) \in Nat /\ Len(segments') = Len(segments) + 1
      /\ \A i \in 1 .. Len(segments) : segments'[i] = segments[i]
      /\ segments'[Len(segments) + 1] = new
  BY <1>1, <1>2, AppendProperties, LenProperties DEF IInv, TypeOK
<1>7. \A c, id, p \in 1 .. Len(messages') :
        messages'[p].cmd # "AddSeg" => p \in 1 .. Len(messages) /\ messages'[p] = messages[p]
  BY <1>3, <1>4, <1>5
<1>8. Living' /\ AtServer'
  BY <1>1 DEF JInv, Living, AtServer, serverVars
<1>9. OnTheWay'
  BY <1>1, <1>5, <1>7 DEF JInv, OnTheWay, Says, InCall, serverVars
<1>10. States'
  BY <1>1, <1>5, <1>7 DEF JInv, States, Says, InCall, serverVars
<1>11. Told'
  <2>1. (\E n \in [1 .. Len(messages) + 1 -> 0 .. Len(segments)] : Counts(n))'
    <3>1. \E n \in [1 .. Len(messages) + 1 -> 0 .. Len(segments)] : Counts(n)
      BY DEF JInv, Told
    <3>2. m.cmd = "AddSeg" /\ m.segment = new
      BY <1>3, <1>4
    <3> QED BY <1>1, <1>4, <1>6, <3>1, <3>2, CountsAppend DEF IInv, serverVars
  <2>2. /\ Len(serverSegments) \in Nat /\ Len(serverSegments) <= Len(segments)
        /\ \A i \in 1 .. Len(serverSegments) : i \in 1 .. Len(segments)
    BY <1>6, LenProperties DEF IInv, TypeOK, JInv, Told
  <2>3. \A i \in 1 .. Len(serverSegments) : segments'[i] = segments[i] /\ serverSegments[i] = segments[i]
    BY <1>6, <2>2 DEF JInv, Told
  <2>4. \A id \in DOMAIN serverCache : Within(serverCache[id], Len(serverSegments))'
    BY <1>1, <2>3 DEF JInv, Told, Within, serverVars
  <2> QED BY <1>1, <1>6, <2>1, <2>2, <2>3, <2>4 DEF Told, serverVars
<1> QED BY <1>8, <1>9, <1>10, <1>11 DEF JInv

\* A new buffer: the id and the place are new to everybody.
LEMMA SendQuiet ==
  ASSUME IInv, JInv, AllocateSend
  PROVE  JInv'
<1> DEFINE first == call.first
<1>1. /\ call.at = "send" /\ call' = [call EXCEPT !.at = "mark"]
      /\ messages' = Append(messages, Alloc(nextUid, first))
      /\ cache' = [id \in DOMAIN cache \cup {nextUid} |-> IF id = nextUid THEN first ELSE cache[id]]
      /\ allocations' = [c \in DOMAIN allocations \cup {first} |->
                          IF c = first THEN first + call.chunks - 1 ELSE allocations[c]]
      /\ nextUid' = nextUid + 1
      /\ UNCHANGED <<segments, held, chunkState, serverVars>>
  BY DEF AllocateSend, Push
<1>2. /\ call \in CallType /\ nextUid \in 0 .. MaxIds /\ nextUid < MaxIds
      /\ call.chunks > 0 /\ Valid(first, call.chunks)
      /\ \A a \in DOMAIN allocations : allocations[a] < first \/ first + call.chunks <= a
  BY <1>1 DEF IInv, TypeOK, CallReady, PlaceIsFree
<1>3. /\ first \in Chunk /\ call.chunks \in Nat /\ nextUid \in Id /\ nextUid \in Nat
      /\ call'.at = "mark" /\ call'.first = first /\ NewId' = nextUid
  <2>1. first \in Chunk /\ call.chunks \in Nat /\ call'.at = "mark" /\ call'.first = first
    BY <1>1, <1>2 DEF CallType
  <2>2. nextUid \in Id /\ nextUid \in Nat
    BY <1>2 DEF Id
  <2>3. NewId' = nextUid
    BY <1>1, <2>2 DEF NewId
  <2> QED BY <2>1, <2>2, <2>3
<1>4. first \notin DOMAIN allocations
  <2>1. \A a \in DOMAIN allocations : a \in Nat /\ allocations[a] \in Nat /\ a <= allocations[a]
    BY DEF IInv, TypeOK, IsMap, Chunk, AllocationsApart
  <2> QED BY <1>2, <1>3, <2>1 DEF Chunk
<1>5. nextUid \notin DOMAIN cache /\ DOMAIN cache \subseteq Id /\ \A id \in DOMAIN cache : id < nextUid /\ id # nextUid /\ cache[id] # first
  BY <1>3, <1>4 DEF JInv, Living, IInv, TypeOK, IsMap, Id
<1> HIDE DEF first
<1>6. /\ DOMAIN cache' = DOMAIN cache \cup {nextUid} /\ cache'[nextUid] = first
      /\ \A id \in DOMAIN cache : cache'[id] = cache[id]
  BY <1>1, <1>5
<1>7. /\ DOMAIN allocations' = DOMAIN allocations \cup {first}
      /\ allocations'[first] = first + call.chunks - 1
      /\ \A a \in DOMAIN allocations : allocations'[a] = allocations[a]
  BY <1>1, <1>4
<1>8. /\ Alloc(nextUid, first) \in Message /\ Alloc(nextUid, first).cmd = "Alloc"
      /\ Alloc(nextUid, first).id = nextUid /\ Alloc(nextUid, first).chunk = first
  BY <1>3 DEF Alloc, Message
<1>9. PICK m \in Message : m = Alloc(nextUid, first)
  BY <1>8
<1>10. m.cmd = "Alloc" /\ m.id = nextUid /\ m.chunk = first
  BY <1>8, <1>9
<1>11. /\ Len(messages) \in Nat /\ Len(messages') = Len(messages) + 1
       /\ \A p \in 1 .. Len(messages) : messages'[p] = messages[p] /\ p \in 1 .. Len(messages')
       /\ messages'[Len(messages) + 1] = m /\ Len(messages) + 1 \in 1 .. Len(messages')
       /\ \A p \in 1 .. Len(messages') : p \in 1 .. Len(messages) \/ p = Len(messages) + 1
  BY <1>1, <1>9, Appended DEF IInv
<1>12. \A p \in 1 .. Len(messages), id \in Id :
         Says(p, "Alloc", id) \/ Says(p, "Dealloc", id) => id \in DOMAIN cache /\ id # nextUid
  BY <1>5 DEF JInv, OnTheWay
<1>13. Living'
  <2>1. held' \subseteq DOMAIN cache'
    BY <1>1, <1>6 DEF JInv, Living
  <2>2. nextUid \notin held
    BY <1>5 DEF JInv, Living
  <2>3. \A id \in DOMAIN cache' : id < nextUid' /\ cache'[id] \in DOMAIN allocations'
    BY <1>1, <1>3, <1>5, <1>6, <1>7 DEF JInv, Living, Id
  <2>4. \A a, b \in DOMAIN cache' : cache'[a] = cache'[b] => a = b
    BY <1>5, <1>6 DEF JInv, Living
  <2> QED BY <1>1, <1>3, <1>6, <2>1, <2>2, <2>3, <2>4 DEF Living
<1>14. AtServer' /\ nextUid \notin DOMAIN serverCache
  BY <1>1, <1>5, <1>6 DEF JInv, AtServer, serverVars
<1>15. \A id : id \in DOMAIN cache => (InCall(id)' <=> FALSE) /\ ~InCall(id)
  BY <1>1, <1>3, <1>5 DEF InCall
<1>16. OnTheWay'
  <2>1. ASSUME NEW p \in 1 .. Len(messages'), NEW id \in Id, Says(p, "Alloc", id)'
        PROVE  /\ id \in DOMAIN cache' /\ id \notin DOMAIN serverCache /\ messages'[p].chunk = cache'[id]
               /\ \A q \in 1 .. Len(messages') : Says(q, "Alloc", id)' => q = p
    <3>1. CASE p \in 1 .. Len(messages)
      BY <1>5, <1>6, <1>10, <1>11, <1>12, <2>1, <3>1 DEF JInv, OnTheWay, Says
    <3>2. CASE p = Len(messages) + 1
      BY <1>6, <1>10, <1>11, <1>12, <1>14, <2>1, <3>2 DEF Says
    <3> QED BY <1>11, <3>1, <3>2
  <2>2. ASSUME NEW p \in 1 .. Len(messages'), NEW id \in Id, Says(p, "Dealloc", id)'
        PROVE  /\ p \in 1 .. Len(messages) /\ Says(p, "Dealloc", id)
               /\ id \in DOMAIN cache' /\ id \notin held /\ ~InCall(id)' /\ chunkState[cache'[id]] = "Allocated"
               /\ id \in DOMAIN serverCache \/ \E q \in 1 .. p - 1 : Says(q, "Alloc", id)'
               /\ \A q \in 1 .. Len(messages') : Says(q, "Dealloc", id)' => q = p
    <3>1. p \in 1 .. Len(messages) /\ Says(p, "Dealloc", id)
      BY <1>10, <1>11, <2>2 DEF Says
    <3>2. /\ id \in DOMAIN cache /\ id \notin held /\ chunkState[cache[id]] = "Allocated"
          /\ id \in DOMAIN serverCache \/ \E q \in 1 .. p - 1 : Says(q, "Alloc", id)
          /\ \A q \in 1 .. Len(messages) : Says(q, "Dealloc", id) => q = p
      BY <3>1 DEF JInv, OnTheWay
    <3>3. \A q \in 1 .. p - 1 : q \in 1 .. Len(messages)
      BY <1>11, <3>1
    <3>4. \A q \in 1 .. Len(messages') : Says(q, "Dealloc", id)' => q \in 1 .. Len(messages) /\ Says(q, "Dealloc", id)
      BY <1>10, <1>11 DEF Says
    <3> QED BY <1>6, <1>11, <1>15, <3>1, <3>2, <3>3, <3>4 DEF Says
  <2> QED BY <1>1, <2>1, <2>2 DEF OnTheWay, serverVars
<1>17. States'
  <2>1. ASSUME NEW c \in Chunk, chunkState'[c] # "Unallocated" PROVE \E id \in DOMAIN cache' : cache'[id] = c
    BY <1>1, <1>6, <2>1 DEF JInv, States
  <2>2. chunkState[first] = "Unallocated"
    <3>1. first \in Chunk
      BY <1>3
    <3> QED BY <1>5, <3>1 DEF JInv, States
  <2>3. ASSUME NEW id \in DOMAIN cache
        PROVE  /\ chunkState[cache[id]] # "Unallocated"
               /\ \/ chunkState[cache[id]] = "Deallocated" \/ id \in DOMAIN serverCache
                  \/ \E p \in 1 .. Len(messages') : Says(p, "Alloc", id)'
               /\ chunkState[cache[id]] = "Deallocated" =>
                    /\ id \notin held /\ ~InCall(id)' /\ id \notin DOMAIN serverCache
                    /\ \A p \in 1 .. Len(messages') : ~Says(p, "Alloc", id)' /\ ~Says(p, "Dealloc", id)'
    BY <1>1, <1>5, <1>10, <1>11, <1>15 DEF JInv, States, Says
  <2>4. \A id : id = nextUid => \E p \in 1 .. Len(messages') : Says(p, "Alloc", id)'
    <3>1. messages'[Len(messages) + 1].cmd = "Alloc" /\ messages'[Len(messages) + 1].id = nextUid
      BY <1>10, <1>11
    <3> QED BY <1>11, <3>1 DEF Says
  <2> QED BY <1>1, <1>3, <1>6, <2>1, <2>2, <2>3, <2>4 DEF States, serverVars
<1>18. Told'
  <2>1. \A p \in 1 .. Len(messages) :
          messages[p].cmd = "Alloc" => allocations'[messages[p].chunk] = allocations[messages[p].chunk]
    <3>1. ASSUME NEW p \in 1 .. Len(messages), messages[p].cmd = "Alloc"
          PROVE  messages[p].id \in Id
      BY <3>1, ElementOfSeq DEF IInv, TypeOK, Message
    <3>2. ASSUME NEW p \in 1 .. Len(messages), messages[p].cmd = "Alloc"
          PROVE  messages[p].chunk \in DOMAIN allocations
      BY <3>1, <3>2 DEF JInv, OnTheWay, Says, Living
    <3> QED BY <1>7, <3>2
  <2>2. Within(m.chunk, Len(segments))'
    <3>1. first + call.chunks - 1 - first + 1 = call.chunks
      BY <1>3 DEF Chunk
    <3>2. PICK i \in DOMAIN segments : Lies(first, call.chunks, segments[i])
      BY <1>2 DEF Valid, first
    <3>3. i \in 1 .. Len(segments)
      BY LenProperties DEF IInv, TypeOK
    <3>4. allocations'[m.chunk] - m.chunk + 1 = call.chunks
      <4>1. allocations'[first] - first + 1 = call.chunks
        BY <1>3, <1>7 DEF Chunk
      <4>2. m.chunk = first
        BY <1>10
      <4> QED BY <4>1, <4>2
    <3>5. i \in 1 .. Len(segments) /\ Lies(m.chunk, allocations'[m.chunk] - m.chunk + 1, segments'[i])
      BY <1>1, <1>10, <3>2, <3>3, <3>4
    <3> QED BY <1>1, <3>5 DEF Within, Lies
  <2>3. (\E n \in [1 .. Len(messages) + 1 -> 0 .. Len(segments)] : Counts(n))'
    <3>1. \E n \in [1 .. Len(messages) + 1 -> 0 .. Len(segments)] : Counts(n)
      BY DEF JInv, Told
    <3> QED BY <1>1, <1>9, <1>10, <2>1, <2>2, <3>1, CountsAppend DEF IInv, serverVars
  <2>4. \A id \in DOMAIN serverCache : Within(serverCache[id], Len(serverSegments))'
    BY <1>1, <1>7 DEF JInv, Told, AtServer, Living, Within, serverVars
  <2> QED BY <1>1, <2>3, <2>4 DEF JInv, Told, serverVars
<1> QED BY <1>13, <1>14, <1>16, <1>17, <1>18 DEF JInv

\* The new buffer has its state: its deallocation cannot be under way, for nobody has its id.
LEMMA MarkQuiet ==
  ASSUME IInv, JInv, AllocateMark
  PROVE  JInv'
<1>1. /\ call.at = "mark" /\ call' = [call EXCEPT !.at = "allocated"]
      /\ chunkState' = [chunkState EXCEPT ![call.first] = "Allocated"]
      /\ UNCHANGED <<cache, allocations, segments, nextUid, held, messages, serverVars>>
  BY DEF AllocateMark, clientVars
<1>2. call'.at = "allocated" /\ call'.first = call.first /\ NewId' = NewId
  BY <1>1 DEF IInv, TypeOK, CallType, NewId
<1>3. NewId \in DOMAIN cache \ held /\ cache[NewId] = call.first
  BY <1>1 DEF JInv, Living
<1>4. /\ chunkState'[call.first] = "Allocated"
      /\ \A c \in Chunk : c # call.first => chunkState'[c] = chunkState[c]
      /\ call.first \in Chunk
  BY <1>1 DEF IInv, TypeOK, CallType
<1>5. \A id : InCall(id)' <=> InCall(id)
  BY <1>1, <1>2 DEF InCall
<1>6. \A id \in DOMAIN cache : cache[id] \in Chunk /\ (id # NewId => cache[id] # call.first)
  BY <1>3 DEF JInv, Living, IInv, TypeOK, IsMap
<1>7. Living' /\ AtServer'
  BY <1>1, <1>2 DEF JInv, Living, AtServer, serverVars
<1>8. OnTheWay'
  <2>1. \A id \in DOMAIN cache : chunkState[cache[id]] = "Allocated" => chunkState'[cache[id]] = "Allocated"
    BY <1>4, <1>6
  <2> QED BY <1>1, <1>5, <2>1 DEF JInv, OnTheWay, Says, serverVars
<1>9. States'
  <2>1. ASSUME NEW c \in Chunk, chunkState'[c] # "Unallocated" PROVE \E id \in DOMAIN cache : cache[id] = c
    BY <1>3, <1>4, <2>1 DEF JInv, States
  <2>2. ASSUME NEW id \in DOMAIN cache, id # NewId
        PROVE  chunkState'[cache[id]] = chunkState[cache[id]] /\ chunkState[cache[id]] # "Unallocated"
    BY <1>4, <1>6, <2>2 DEF JInv, States
  <2>3. \/ NewId \in DOMAIN serverCache
        \/ \E p \in 1 .. Len(messages) : messages[p].cmd = "Alloc" /\ messages[p].id = NewId
    <3>1. InCall(NewId)
      BY <1>1 DEF InCall
    <3> QED BY <1>3, <3>1 DEF JInv, States, Says
  <2>4. ASSUME NEW id \in DOMAIN cache
        PROVE  /\ chunkState'[cache[id]] # "Unallocated"
               /\ \/ chunkState'[cache[id]] = "Deallocated" \/ id \in DOMAIN serverCache
                  \/ \E p \in 1 .. Len(messages) : Says(p, "Alloc", id)
               /\ chunkState'[cache[id]] = "Deallocated" =>
                    /\ id \notin held /\ ~InCall(id) /\ id \notin DOMAIN serverCache
                    /\ \A p \in 1 .. Len(messages) : ~Says(p, "Alloc", id) /\ ~Says(p, "Dealloc", id)
    <3>1. CASE id = NewId
      BY <1>3, <1>4, <2>3, <3>1 DEF Says
    <3>2. CASE id # NewId
      BY <2>2, <3>2 DEF JInv, States
    <3> QED BY <3>1, <3>2
  <2> QED BY <1>1, <1>5, <2>1, <2>4 DEF States, Says, serverVars
<1>10. Told'
  BY <1>1, ToldSame DEF JInv
<1> QED BY <1>7, <1>8, <1>9, <1>10 DEF JInv

\* The caller has the id, so nobody has deallocated the buffer before.
LEMMA DeallocateQuiet ==
  ASSUME IInv, JInv, NEW x \in Id, Deallocate(x)
  PROVE  JInv'
<1>1. /\ call.at = "idle" /\ x \in held /\ held' = held \ {x}
      /\ messages' = Append(messages, Dealloc(x))
      /\ UNCHANGED <<cache, allocations, segments, nextUid, call, chunkState, serverVars>>
  BY DEF Deallocate, Push, clientVars
<1>2. Dealloc(x) \in Message /\ Dealloc(x).cmd = "Dealloc" /\ Dealloc(x).id = x
  BY DEF Dealloc, Message
<1>3. PICK m \in Message : m = Dealloc(x)
  BY <1>2
<1>4. m.cmd = "Dealloc" /\ m.id = x
  BY <1>2, <1>3
<1>5. /\ Len(messages) \in Nat /\ Len(messages') = Len(messages) + 1
      /\ \A p \in 1 .. Len(messages) : messages'[p] = messages[p] /\ p \in 1 .. Len(messages')
      /\ messages'[Len(messages) + 1] = m /\ Len(messages) + 1 \in 1 .. Len(messages')
      /\ \A p \in 1 .. Len(messages') : p \in 1 .. Len(messages) \/ p = Len(messages) + 1
  BY <1>1, <1>3, Appended DEF IInv
<1>6. /\ x \in DOMAIN cache /\ chunkState[cache[x]] = "Allocated"
      /\ x \in DOMAIN serverCache \/ \E p \in 1 .. Len(messages) : Says(p, "Alloc", x)
  <2>1. x \in DOMAIN cache
    BY <1>1 DEF JInv, Living
  <2>2. chunkState[cache[x]] \in {"Unallocated", "Allocated", "Deallocated"}
    BY <2>1 DEF IInv, TypeOK, IsMap
  <2>3. chunkState[cache[x]] # "Unallocated" /\ chunkState[cache[x]] # "Deallocated"
    BY <1>1, <2>1 DEF JInv, States
  <2> QED BY <2>1, <2>2, <2>3 DEF JInv, States
<1>7. \A p \in 1 .. Len(messages) : ~Says(p, "Dealloc", x)
  BY <1>1 DEF JInv, OnTheWay
<1>8. \A id : ~InCall(id) /\ ~InCall(id)'
  BY <1>1 DEF InCall
<1>9. Living' /\ AtServer'
  BY <1>1 DEF JInv, Living, AtServer, serverVars
<1>10. \A p \in 1 .. Len(messages'), id \in Id :
         Says(p, "Alloc", id)' => p \in 1 .. Len(messages) /\ Says(p, "Alloc", id) /\ messages'[p] = messages[p]
  BY <1>4, <1>5 DEF Says
<1>11. OnTheWay'
  <2>1. ASSUME NEW p \in 1 .. Len(messages'), NEW id \in Id, Says(p, "Alloc", id)'
        PROVE  /\ id \in DOMAIN cache /\ id \notin DOMAIN serverCache /\ messages'[p].chunk = cache[id]
               /\ \A q \in 1 .. Len(messages') : Says(q, "Alloc", id)' => q = p
    BY <1>10, <2>1 DEF JInv, OnTheWay
  <2>2. ASSUME NEW p \in 1 .. Len(messages'), NEW id \in Id, Says(p, "Dealloc", id)'
        PROVE  /\ id \in DOMAIN cache /\ id \notin held' /\ chunkState[cache[id]] = "Allocated"
               /\ id \in DOMAIN serverCache \/ \E q \in 1 .. p - 1 : Says(q, "Alloc", id)'
               /\ \A q \in 1 .. Len(messages') : Says(q, "Dealloc", id)' => q = p
    <3>1. CASE p \in 1 .. Len(messages)
      <4>1. Says(p, "Dealloc", id)
        BY <1>5, <2>2, <3>1 DEF Says
      <4>2. id # x
        BY <1>7, <3>1, <4>1
      <4>3. \A q \in 1 .. Len(messages') : Says(q, "Dealloc", id)' => q \in 1 .. Len(messages) /\ Says(q, "Dealloc", id)
        BY <1>4, <1>5, <4>2 DEF Says
      <4>4. \A q \in 1 .. p - 1 : q \in 1 .. Len(messages) /\ (Says(q, "Alloc", id) => Says(q, "Alloc", id)')
        BY <1>5, <3>1 DEF Says
      <4> QED BY <1>1, <3>1, <4>1, <4>3, <4>4 DEF JInv, OnTheWay
    <3>2. CASE p = Len(messages) + 1
      <4>1. id = x
        BY <1>4, <1>5, <2>2, <3>2 DEF Says
      <4>2. \A q \in 1 .. Len(messages') : Says(q, "Dealloc", x)' => q = p
        BY <1>5, <1>7, <3>2 DEF Says
      <4>3. x \in DOMAIN serverCache \/ \E q \in 1 .. p - 1 : Says(q, "Alloc", x)'
        <5>1. \A q \in 1 .. Len(messages) : q \in 1 .. p - 1 /\ (Says(q, "Alloc", x) => Says(q, "Alloc", x)')
          BY <1>5, <3>2 DEF Says
        <5> QED BY <1>6, <5>1
      <4> QED BY <1>1, <1>6, <4>1, <4>2, <4>3
    <3> QED BY <1>5, <3>1, <3>2
  <2> QED BY <1>1, <1>8, <2>1, <2>2 DEF OnTheWay, serverVars
<1>12. States'
  <2>1. \A id \in Id : (\E p \in 1 .. Len(messages) : Says(p, "Alloc", id)) =>
                       (\E p \in 1 .. Len(messages') : Says(p, "Alloc", id)')
    BY <1>5 DEF Says
  <2>2. ASSUME NEW id \in DOMAIN cache, chunkState[cache[id]] = "Deallocated"
        PROVE  \A p \in 1 .. Len(messages') : ~Says(p, "Alloc", id)' /\ ~Says(p, "Dealloc", id)'
    <3>1. id # x
      BY <1>6, <2>2
    <3> QED BY <1>4, <1>5, <2>2, <3>1 DEF JInv, States, Says
  <2>3. DOMAIN cache \subseteq Id
    BY DEF IInv, TypeOK, IsMap
  <2> QED BY <1>1, <1>8, <2>1, <2>2, <2>3 DEF JInv, States, serverVars
<1>13. Told'
  <2>1. (\E n \in [1 .. Len(messages) + 1 -> 0 .. Len(segments)] : Counts(n))'
    <3>1. \E n \in [1 .. Len(messages) + 1 -> 0 .. Len(segments)] : Counts(n)
      BY DEF JInv, Told
    <3> QED BY <1>1, <1>3, <1>4, <3>1, CountsAppend DEF IInv, serverVars
  <2>2. \A id \in DOMAIN serverCache : Within(serverCache[id], Len(serverSegments))'
    BY <1>1 DEF JInv, Told, Within, serverVars
  <2> QED BY <1>1, <2>1, <2>2 DEF JInv, Told, serverVars
<1> QED BY <1>9, <1>11, <1>12, <1>13 DEF JInv

----------------------------------------------------------------------------
(* The server. *)

\* What the messages say after the first one is gone.
LEMMA OnTheWayShifted ==
  ASSUME IInv, messages # <<>>, messages' = Tail(messages),
         NEW p \in 1 .. Len(messages'), NEW c, NEW id
  PROVE  /\ p + 1 \in 1 .. Len(messages) /\ p + 1 # 1 /\ messages'[p] = messages[p + 1]
         /\ Says(p, c, id)' <=> Says(p + 1, c, id)
<1>1. p + 1 \in 1 .. Len(messages) /\ p + 1 # 1 /\ messages'[p] = messages[p + 1]
  BY Shifted DEF IInv
<1> QED BY <1>1 DEF Says

\* A message that is not the first one is still there when the first one is gone.
LEMMA StillOnTheWay ==
  ASSUME IInv, messages # <<>>, messages' = Tail(messages),
         NEW q \in 1 .. Len(messages), q # 1, NEW c, NEW id, Says(q, c, id)
  PROVE  q - 1 \in 1 .. Len(messages') /\ Says(q - 1, c, id)'
<1>1. q - 1 \in 1 .. Len(messages') /\ messages'[q - 1] = messages[q]
  BY Shifted DEF IInv
<1> QED BY <1>1 DEF Says

\* The segment the server takes in is the client's next one.
LEMMA ServerAddSegQuiet ==
  ASSUME IInv, JInv, ServerAddSeg
  PROVE  JInv'
<1>1. /\ messages # <<>> /\ messages' = Tail(messages) /\ Head(messages).cmd = "AddSeg"
      /\ serverSegments' = Append(serverSegments, Head(messages).segment)
      /\ UNCHANGED <<cache, allocations, segments, nextUid, call, held, chunkState, serverCache>>
  BY DEF ServerAddSeg, clientVars
<1>2. /\ Len(messages) \in Nat /\ 1 \in 1 .. Len(messages)
      /\ Head(messages) = messages[1] /\ messages[1] \in Message /\ messages[1].cmd = "AddSeg"
  BY <1>1, Shifted DEF IInv
<1>3. \A id : ~Says(1, "Alloc", id) /\ ~Says(1, "Dealloc", id)
  BY <1>2 DEF Says
<1>4. Living' /\ AtServer'
  BY <1>1 DEF JInv, Living, AtServer, InCall, NewId
<1>5. OnTheWay'
  <2>1. ASSUME NEW p \in 1 .. Len(messages'), NEW id \in Id, Says(p, "Alloc", id)'
        PROVE  /\ id \in DOMAIN cache /\ id \notin DOMAIN serverCache /\ messages'[p].chunk = cache[id]
               /\ \A q \in 1 .. Len(messages') : Says(q, "Alloc", id)' => q = p
    <3>1. p + 1 \in 1 .. Len(messages) /\ messages'[p] = messages[p + 1] /\ Says(p + 1, "Alloc", id)
      BY <1>1, <2>1, OnTheWayShifted
    <3>2. \A q \in 1 .. Len(messages') : Says(q, "Alloc", id)' => q + 1 \in 1 .. Len(messages) /\ Says(q + 1, "Alloc", id)
      BY <1>1, OnTheWayShifted
    <3>3. \A q \in 1 .. Len(messages') : Says(q, "Alloc", id)' => q + 1 = p + 1
      BY <3>1, <3>2 DEF JInv, OnTheWay
    <3> QED BY <3>1, <3>3 DEF JInv, OnTheWay
  <2>2. ASSUME NEW p \in 1 .. Len(messages'), NEW id \in Id, Says(p, "Dealloc", id)'
        PROVE  /\ id \in DOMAIN cache /\ id \notin held /\ ~InCall(id) /\ chunkState[cache[id]] = "Allocated"
               /\ id \in DOMAIN serverCache \/ \E q \in 1 .. p - 1 : Says(q, "Alloc", id)'
               /\ \A q \in 1 .. Len(messages') : Says(q, "Dealloc", id)' => q = p
    <3>1. p + 1 \in 1 .. Len(messages) /\ messages'[p] = messages[p + 1] /\ Says(p + 1, "Dealloc", id)
      BY <1>1, <2>2, OnTheWayShifted
    <3>2. \A q \in 1 .. Len(messages') : Says(q, "Dealloc", id)' => q + 1 \in 1 .. Len(messages) /\ Says(q + 1, "Dealloc", id)
      BY <1>1, OnTheWayShifted
    <3>3. \A q \in 1 .. Len(messages') : Says(q, "Dealloc", id)' => q + 1 = p + 1
      BY <3>1, <3>2 DEF JInv, OnTheWay
    <3>4. ASSUME NEW q \in 1 .. (p + 1) - 1, Says(q, "Alloc", id)
          PROVE  q - 1 \in 1 .. p - 1 /\ Says(q - 1, "Alloc", id)'
      <4>1. q \in 1 .. Len(messages) /\ q # 1
        BY <1>2, <1>3, <3>1, <3>4
      <4>2. q - 1 \in 1 .. Len(messages') /\ Says(q - 1, "Alloc", id)'
        BY <1>1, <3>4, <4>1, StillOnTheWay
      <4> QED BY <4>1, <4>2
    <3>5. id \in DOMAIN serverCache \/ \E q \in 1 .. (p + 1) - 1 : Says(q, "Alloc", id)
      BY <3>1 DEF JInv, OnTheWay
    <3>6. /\ id \in DOMAIN cache /\ id \notin held /\ ~InCall(id) /\ chunkState[cache[id]] = "Allocated"
      BY <3>1 DEF JInv, OnTheWay
    <3> QED BY <3>3, <3>4, <3>5, <3>6
  <2> QED BY <1>1, <2>1, <2>2 DEF OnTheWay, InCall, NewId
<1>6. States'
  <2>1. ASSUME NEW id, \E p \in 1 .. Len(messages) : Says(p, "Alloc", id)
        PROVE  \E p \in 1 .. Len(messages') : Says(p, "Alloc", id)'
    <3>1. PICK p \in 1 .. Len(messages) : Says(p, "Alloc", id)
      BY <2>1
    <3> QED BY <1>1, <1>3, <3>1, StillOnTheWay
  <2>2. ASSUME NEW id, \A p \in 1 .. Len(messages) : ~Says(p, "Alloc", id) /\ ~Says(p, "Dealloc", id)
        PROVE  \A p \in 1 .. Len(messages') : ~Says(p, "Alloc", id)' /\ ~Says(p, "Dealloc", id)'
    BY <1>1, <2>2, OnTheWayShifted
  <2> QED BY <1>1, <2>1, <2>2 DEF JInv, States, InCall, NewId
<1>7. Told'
  <2>1. PICK n \in [1 .. Len(messages) + 1 -> 0 .. Len(segments)] : Counts(n)
    BY DEF JInv, Told
  <2>2. PICK S \in Nat : S = Len(serverSegments)
    BY LenProperties DEF IInv, TypeOK
  <2>3. n[1] = S /\ n[2] = S + 1 /\ n[2] \in 0 .. Len(segments) /\ Head(messages).segment = segments[S + 1]
    <3>1. 1 + 1 = 2 /\ 2 \in 1 .. Len(messages) + 1
      BY <1>2
    <3> QED BY <1>2, <2>1, <2>2, <3>1 DEF Counts
  <2>4. Head(messages).segment \in Segment
    BY <1>2 DEF Message
  <2>5. /\ Len(serverSegments') = S + 1 /\ serverSegments'[S + 1] = segments[S + 1]
        /\ \A i \in 1 .. S : serverSegments'[i] = serverSegments[i]
    BY <1>1, <2>2, <2>3, <2>4, AppendProperties DEF IInv, TypeOK
  <2>6. (\E k \in [1 .. Len(messages) + 1 -> 0 .. Len(segments)] : Counts(k))'
    BY <1>1, <2>1, <2>3, <2>5, CountsTail DEF IInv
  <2>7. \A i \in 1 .. Len(serverSegments') : serverSegments'[i] = segments[i]
    BY <2>2, <2>5 DEF JInv, Told
  <2>8. \A id \in DOMAIN serverCache : Within(serverCache[id], S + 1)
    <3>1. \A i \in 1 .. S : i \in 1 .. S + 1
      OBVIOUS
    <3> QED BY <2>2, <3>1 DEF JInv, Told, Within
  <2>9. \A id \in DOMAIN serverCache : Within(serverCache[id], Len(serverSegments))'
    BY <1>1, <2>5, <2>8 DEF Within
  <2>10. Len(serverSegments') <= Len(segments)
    BY <2>3, <2>5
  <2> QED BY <1>1, <2>6, <2>7, <2>9, <2>10 DEF Told
<1> QED BY <1>4, <1>5, <1>6, <1>7 DEF JInv

\* The buffer the server hears of is the client's.
LEMMA ServerAllocQuiet ==
  ASSUME IInv, JInv, ServerAlloc
  PROVE  JInv'
<1>1. /\ messages # <<>> /\ messages' = Tail(messages) /\ Head(messages).cmd = "Alloc"
      /\ serverCache' = [id \in DOMAIN serverCache \cup {Head(messages).id} |->
                          IF id = Head(messages).id THEN Head(messages).chunk ELSE serverCache[id]]
      /\ UNCHANGED <<cache, allocations, segments, nextUid, call, held, chunkState, serverSegments>>
  BY DEF ServerAlloc, clientVars
<1>2. /\ Len(messages) \in Nat /\ 1 \in 1 .. Len(messages)
      /\ Head(messages) = messages[1] /\ messages[1] \in Message /\ messages[1].cmd = "Alloc"
  BY <1>1, Shifted DEF IInv
<1>3. PICK x \in Id : x = messages[1].id
  BY <1>2 DEF Message
<1>4. Says(1, "Alloc", x)
  BY <1>2, <1>3 DEF Says
<1>5. /\ x \in DOMAIN cache /\ x \notin DOMAIN serverCache /\ messages[1].chunk = cache[x]
      /\ \A q \in 1 .. Len(messages) : Says(q, "Alloc", x) => q = 1
  BY <1>2, <1>4 DEF JInv, OnTheWay
<1>6. /\ DOMAIN serverCache' = DOMAIN serverCache \cup {x} /\ serverCache'[x] = cache[x]
      /\ \A id \in DOMAIN serverCache : serverCache'[id] = serverCache[id]
  BY <1>1, <1>2, <1>3, <1>5
<1>7. \A id : (Says(1, "Alloc", id) => id = x) /\ ~Says(1, "Dealloc", id)
  BY <1>2, <1>3 DEF Says
<1>8. Living' /\ AtServer'
  BY <1>1, <1>5, <1>6 DEF JInv, Living, AtServer, InCall, NewId
<1>9. OnTheWay'
  <2>1. ASSUME NEW p \in 1 .. Len(messages'), NEW id \in Id, Says(p, "Alloc", id)'
        PROVE  /\ id \in DOMAIN cache /\ id \notin DOMAIN serverCache' /\ messages'[p].chunk = cache[id]
               /\ \A q \in 1 .. Len(messages') : Says(q, "Alloc", id)' => q = p
    <3>1. p + 1 \in 1 .. Len(messages) /\ p + 1 # 1 /\ messages'[p] = messages[p + 1] /\ Says(p + 1, "Alloc", id)
      BY <1>1, <2>1, OnTheWayShifted
    <3>2. \A q \in 1 .. Len(messages') : Says(q, "Alloc", id)' => q + 1 \in 1 .. Len(messages) /\ Says(q + 1, "Alloc", id)
      BY <1>1, OnTheWayShifted
    <3>3. \A q \in 1 .. Len(messages') : Says(q, "Alloc", id)' => q + 1 = p + 1
      BY <3>1, <3>2 DEF JInv, OnTheWay
    <3>4. id # x
      BY <1>5, <3>1
    <3> QED BY <1>6, <3>1, <3>3, <3>4 DEF JInv, OnTheWay
  <2>2. ASSUME NEW p \in 1 .. Len(messages'), NEW id \in Id, Says(p, "Dealloc", id)'
        PROVE  /\ id \in DOMAIN cache /\ id \notin held /\ ~InCall(id) /\ chunkState[cache[id]] = "Allocated"
               /\ id \in DOMAIN serverCache' \/ \E q \in 1 .. p - 1 : Says(q, "Alloc", id)'
               /\ \A q \in 1 .. Len(messages') : Says(q, "Dealloc", id)' => q = p
    <3>1. p + 1 \in 1 .. Len(messages) /\ messages'[p] = messages[p + 1] /\ Says(p + 1, "Dealloc", id)
      BY <1>1, <2>2, OnTheWayShifted
    <3>2. \A q \in 1 .. Len(messages') : Says(q, "Dealloc", id)' => q + 1 \in 1 .. Len(messages) /\ Says(q + 1, "Dealloc", id)
      BY <1>1, OnTheWayShifted
    <3>3. \A q \in 1 .. Len(messages') : Says(q, "Dealloc", id)' => q + 1 = p + 1
      BY <3>1, <3>2 DEF JInv, OnTheWay
    <3>4. ASSUME NEW q \in 1 .. (p + 1) - 1, Says(q, "Alloc", id), id # x
          PROVE  q - 1 \in 1 .. p - 1 /\ Says(q - 1, "Alloc", id)'
      <4>1. q \in 1 .. Len(messages) /\ q # 1
        BY <1>2, <1>7, <3>1, <3>4
      <4>2. q - 1 \in 1 .. Len(messages') /\ Says(q - 1, "Alloc", id)'
        BY <1>1, <3>4, <4>1, StillOnTheWay
      <4> QED BY <4>1, <4>2
    <3>5. id \in DOMAIN serverCache \/ \E q \in 1 .. (p + 1) - 1 : Says(q, "Alloc", id)
      BY <3>1 DEF JInv, OnTheWay
    <3>6. /\ id \in DOMAIN cache /\ id \notin held /\ ~InCall(id) /\ chunkState[cache[id]] = "Allocated"
      BY <3>1 DEF JInv, OnTheWay
    <3> QED BY <1>6, <3>3, <3>4, <3>5, <3>6
  <2> QED BY <1>1, <2>1, <2>2 DEF OnTheWay, InCall, NewId
<1>10. States'
  <2>1. ASSUME NEW id, id # x, \E p \in 1 .. Len(messages) : Says(p, "Alloc", id)
        PROVE  \E p \in 1 .. Len(messages') : Says(p, "Alloc", id)'
    <3>1. PICK p \in 1 .. Len(messages) : Says(p, "Alloc", id)
      BY <2>1
    <3> QED BY <1>1, <1>7, <2>1, <3>1, StillOnTheWay
  <2>2. ASSUME NEW id, \A p \in 1 .. Len(messages) : ~Says(p, "Alloc", id) /\ ~Says(p, "Dealloc", id)
        PROVE  id # x /\ \A p \in 1 .. Len(messages') : ~Says(p, "Alloc", id)' /\ ~Says(p, "Dealloc", id)'
    BY <1>1, <1>2, <1>4, <2>2, OnTheWayShifted
  <2> QED BY <1>1, <1>6, <2>1, <2>2 DEF JInv, States, InCall, NewId
<1>11. Told'
  <2>1. PICK n \in [1 .. Len(messages) + 1 -> 0 .. Len(segments)] : Counts(n)
    BY DEF JInv, Told
  <2>2. n[1] = Len(serverSegments) /\ n[2] = n[1] /\ Within(cache[x], n[1])
    <3>1. 1 + 1 = 2
      OBVIOUS
    <3> QED BY <1>2, <1>5, <2>1, <3>1 DEF Counts
  <2>3. (\E k \in [1 .. Len(messages) + 1 -> 0 .. Len(segments)] : Counts(k))'
    BY <1>1, <2>1, <2>2, CountsTail DEF IInv
  <2>4. \A id \in DOMAIN serverCache' : Within(serverCache'[id], Len(serverSegments))
    BY <1>6, <2>2 DEF JInv, Told
  <2>5. \A id \in DOMAIN serverCache' : Within(serverCache[id], Len(serverSegments))'
    BY <1>1, <2>4 DEF Within
  <2> QED BY <1>1, <2>3, <2>5 DEF JInv, Told
<1> QED BY <1>8, <1>9, <1>10, <1>11 DEF JInv

\* Nobody else uses the buffer the server lets go of, and no message is left about it.
LEMMA ServerDeallocQuiet ==
  ASSUME IInv, JInv, ServerDealloc
  PROVE  JInv'
<1>1. /\ messages # <<>> /\ messages' = Tail(messages) /\ Head(messages).cmd = "Dealloc"
      /\ chunkState' = [chunkState EXCEPT ![serverCache[Head(messages).id]] = "Deallocated"]
      /\ serverCache' = Without(serverCache, Head(messages).id)
      /\ UNCHANGED <<cache, allocations, segments, nextUid, call, held, serverSegments>>
  BY DEF ServerDealloc, clientVars
<1>2. /\ Len(messages) \in Nat /\ 1 \in 1 .. Len(messages)
      /\ Head(messages) = messages[1] /\ messages[1] \in Message /\ messages[1].cmd = "Dealloc"
  BY <1>1, Shifted DEF IInv
<1>3. PICK x \in Id : x = messages[1].id
  BY <1>2 DEF Message
<1>4. Says(1, "Dealloc", x)
  BY <1>2, <1>3 DEF Says
<1>5. /\ x \in DOMAIN cache /\ x \in DOMAIN serverCache /\ x \notin held /\ ~InCall(x)
      /\ chunkState[cache[x]] = "Allocated"
      /\ \A q \in 1 .. Len(messages) : Says(q, "Dealloc", x) => q = 1
      /\ \A q \in 1 .. Len(messages) : ~Says(q, "Alloc", x)
  <2>1. ~\E q \in 1 .. 1 - 1 : Says(q, "Alloc", x)
    OBVIOUS
  <2> QED BY <1>2, <1>4, <2>1 DEF JInv, OnTheWay
<1>6. /\ serverCache[x] = cache[x] /\ cache[x] \in Chunk
      /\ DOMAIN serverCache' = DOMAIN serverCache \ {x}
      /\ \A id \in DOMAIN serverCache' : serverCache'[id] = serverCache[id]
  BY <1>1, <1>2, <1>3, <1>5 DEF Without, JInv, AtServer, IInv, TypeOK, IsMap
<1>7. /\ chunkState'[cache[x]] = "Deallocated"
      /\ \A c \in Chunk : c # cache[x] => chunkState'[c] = chunkState[c]
      /\ \A id \in DOMAIN cache : id # x => chunkState'[cache[id]] = chunkState[cache[id]]
  <2>1. chunkState' = [chunkState EXCEPT ![cache[x]] = "Deallocated"]
    BY <1>1, <1>2, <1>3, <1>6
  <2>2. \A id \in DOMAIN cache : cache[id] \in Chunk /\ (id # x => cache[id] # cache[x])
    BY <1>5 DEF JInv, Living, IInv, TypeOK, IsMap
  <2> QED BY <1>6, <2>1, <2>2 DEF IInv, TypeOK
<1>8. \A id : (Says(1, "Dealloc", id) => id = x) /\ ~Says(1, "Alloc", id)
  BY <1>2, <1>3 DEF Says
<1>9. Living' /\ AtServer'
  BY <1>1, <1>6 DEF JInv, Living, AtServer, InCall, NewId
<1>10. \A q \in 1 .. Len(messages') : ~Says(q, "Dealloc", x)' /\ ~Says(q, "Alloc", x)'
  BY <1>1, <1>5, OnTheWayShifted
<1>11. OnTheWay'
  <2>1. ASSUME NEW p \in 1 .. Len(messages'), NEW id \in Id, Says(p, "Alloc", id)'
        PROVE  /\ id \in DOMAIN cache /\ id \notin DOMAIN serverCache' /\ messages'[p].chunk = cache[id]
               /\ \A q \in 1 .. Len(messages') : Says(q, "Alloc", id)' => q = p
    <3>1. p + 1 \in 1 .. Len(messages) /\ messages'[p] = messages[p + 1] /\ Says(p + 1, "Alloc", id)
      BY <1>1, <2>1, OnTheWayShifted
    <3>2. \A q \in 1 .. Len(messages') : Says(q, "Alloc", id)' => q + 1 \in 1 .. Len(messages) /\ Says(q + 1, "Alloc", id)
      BY <1>1, OnTheWayShifted
    <3>3. \A q \in 1 .. Len(messages') : Says(q, "Alloc", id)' => q + 1 = p + 1
      BY <3>1, <3>2 DEF JInv, OnTheWay
    <3> QED BY <1>6, <3>1, <3>3 DEF JInv, OnTheWay
  <2>2. ASSUME NEW p \in 1 .. Len(messages'), NEW id \in Id, Says(p, "Dealloc", id)'
        PROVE  /\ id \in DOMAIN cache /\ id \notin held /\ ~InCall(id) /\ chunkState'[cache[id]] = "Allocated"
               /\ id \in DOMAIN serverCache' \/ \E q \in 1 .. p - 1 : Says(q, "Alloc", id)'
               /\ \A q \in 1 .. Len(messages') : Says(q, "Dealloc", id)' => q = p
    <3>0. id # x
      BY <1>10, <2>2
    <3>1. p + 1 \in 1 .. Len(messages) /\ messages'[p] = messages[p + 1] /\ Says(p + 1, "Dealloc", id)
      BY <1>1, <2>2, OnTheWayShifted
    <3>2. \A q \in 1 .. Len(messages') : Says(q, "Dealloc", id)' => q + 1 \in 1 .. Len(messages) /\ Says(q + 1, "Dealloc", id)
      BY <1>1, OnTheWayShifted
    <3>3. \A q \in 1 .. Len(messages') : Says(q, "Dealloc", id)' => q + 1 = p + 1
      BY <3>1, <3>2 DEF JInv, OnTheWay
    <3>4. ASSUME NEW q \in 1 .. (p + 1) - 1, Says(q, "Alloc", id)
          PROVE  q - 1 \in 1 .. p - 1 /\ Says(q - 1, "Alloc", id)'
      <4>1. q \in 1 .. Len(messages) /\ q # 1
        BY <1>2, <1>8, <3>1, <3>4
      <4>2. q - 1 \in 1 .. Len(messages') /\ Says(q - 1, "Alloc", id)'
        BY <1>1, <3>4, <4>1, StillOnTheWay
      <4> QED BY <4>1, <4>2
    <3>5. id \in DOMAIN serverCache \/ \E q \in 1 .. (p + 1) - 1 : Says(q, "Alloc", id)
      BY <3>1 DEF JInv, OnTheWay
    <3>6. /\ id \in DOMAIN cache /\ id \notin held /\ ~InCall(id) /\ chunkState[cache[id]] = "Allocated"
      BY <3>1 DEF JInv, OnTheWay
    <3> QED BY <1>6, <1>7, <3>0, <3>3, <3>4, <3>5, <3>6
  <2> QED BY <1>1, <2>1, <2>2 DEF OnTheWay, InCall, NewId
<1>12. States'
  <2>1. ASSUME NEW id, \E p \in 1 .. Len(messages) : Says(p, "Alloc", id)
        PROVE  \E p \in 1 .. Len(messages') : Says(p, "Alloc", id)'
    <3>1. PICK p \in 1 .. Len(messages) : Says(p, "Alloc", id)
      BY <2>1
    <3> QED BY <1>1, <1>8, <3>1, StillOnTheWay
  <2>2. ASSUME NEW id, \A p \in 1 .. Len(messages) : ~Says(p, "Alloc", id) /\ ~Says(p, "Dealloc", id)
        PROVE  \A p \in 1 .. Len(messages') : ~Says(p, "Alloc", id)' /\ ~Says(p, "Dealloc", id)'
    BY <1>1, <2>2, OnTheWayShifted
  <2>3. ASSUME NEW c \in Chunk, chunkState'[c] # "Unallocated" PROVE \E id \in DOMAIN cache : cache[id] = c
    BY <1>5, <1>7, <2>3 DEF JInv, States
  <2>4. ASSUME NEW id \in DOMAIN cache
        PROVE  /\ (call.at = "mark" /\ id = NewId) \/ chunkState'[cache[id]] # "Unallocated"
               /\ \/ chunkState'[cache[id]] = "Deallocated" \/ id \in DOMAIN serverCache'
                  \/ \E p \in 1 .. Len(messages') : Says(p, "Alloc", id)'
               /\ chunkState'[cache[id]] = "Deallocated" =>
                    /\ id \notin held /\ ~InCall(id) /\ id \notin DOMAIN serverCache'
                    /\ \A p \in 1 .. Len(messages') : ~Says(p, "Alloc", id)' /\ ~Says(p, "Dealloc", id)'
    <3>1. CASE id = x
      BY <1>5, <1>6, <1>7, <1>10, <3>1
    <3>2. CASE id # x
      BY <1>6, <1>7, <2>1, <2>2, <3>2 DEF JInv, States
    <3> QED BY <3>1, <3>2
  <2> QED BY <1>1, <2>3, <2>4 DEF States, InCall, NewId
<1>13. Told'
  <2>1. PICK n \in [1 .. Len(messages) + 1 -> 0 .. Len(segments)] : Counts(n)
    BY DEF JInv, Told
  <2>2. n[1] = Len(serverSegments) /\ n[2] = n[1]
    <3>1. 1 + 1 = 2
      OBVIOUS
    <3> QED BY <1>2, <2>1, <3>1 DEF Counts
  <2>3. (\E k \in [1 .. Len(messages) + 1 -> 0 .. Len(segments)] : Counts(k))'
    BY <1>1, <2>1, <2>2, CountsTail DEF IInv
  <2>4. \A id \in DOMAIN serverCache' : Within(serverCache'[id], Len(serverSegments))
    BY <1>6 DEF JInv, Told
  <2>5. \A id \in DOMAIN serverCache' : Within(serverCache[id], Len(serverSegments))'
    BY <1>1, <2>4 DEF Within
  <2> QED BY <1>1, <2>3, <2>5 DEF JInv, Told
<1> QED BY <1>9, <1>11, <1>12, <1>13 DEF JInv

----------------------------------------------------------------------------

\* The first segment is announced before anything else.
LEMMA JInit == Init => JInv
<1> SUFFICES ASSUME Init PROVE JInv
  OBVIOUS
<1>1. /\ Len(messages) = 1 /\ messages[1] = AddSeg(FirstSegment) /\ messages[1].cmd = "AddSeg"
      /\ messages[1].segment = FirstSegment
      /\ Len(segments) = 1 /\ segments[1] = FirstSegment /\ Len(serverSegments) = 0
  BY DEF Init, AddSeg
<1>2. cache = Empty /\ serverCache = Empty /\ DOMAIN Empty = {} /\ held = {} /\ call.at = "idle"
  BY DEF Init, Empty, NoCall
<1>3. Living /\ AtServer
  BY <1>2 DEF Living, AtServer
<1>4. OnTheWay
  BY <1>1 DEF OnTheWay, Says
<1>5. States
  BY <1>2 DEF Init, States
<1>6. Told
  <2>1. PICK n : n = [p \in 1 .. 2 |-> p - 1]
    OBVIOUS
  <2>2. n \in [1 .. 2 -> 0 .. 1] /\ n[1] = 0 /\ n[2] = 1
    BY <2>1
  <2>3. \A p \in 1 .. 1 : p = 1 /\ p + 1 = 2
    OBVIOUS
  <2>4. Counts(n)
    <3>1. 1 + 1 = 2 /\ 0 + 1 = 1
      OBVIOUS
    <3> QED BY <1>1, <2>2, <2>3, <3>1 DEF Counts
  <2>5. n \in [1 .. Len(messages) + 1 -> 0 .. Len(segments)]
    <3>1. 1 + 1 = 2
      OBVIOUS
    <3> QED BY <1>1, <2>2, <3>1
  <2> QED BY <1>1, <1>2, <2>4, <2>5 DEF Told
<1> QED BY <1>3, <1>4, <1>5, <1>6 DEF JInv

\* Every step keeps what the client and the server know of each other.
LEMMA JStep == IInv /\ JInv /\ [Next]_vars => JInv'
<1> SUFFICES ASSUME IInv, JInv, [Next]_vars PROVE JInv'
  OBVIOUS
<1>1. CASE Next
  BY <1>1, SearchQuiet, FreeOneQuiet, GrowQuiet, SendQuiet, MarkQuiet, ReturnQuiet, DeallocateQuiet,
     ServerAddSegQuiet, ServerAllocQuiet, ServerDeallocQuiet DEF Next, Allocating, Server
<1>2. CASE UNCHANGED vars
  <2>1. Living' /\ AtServer'
    BY <1>2 DEF JInv, Living, AtServer, vars, clientVars, serverVars, InCall, NewId
  <2>2. OnTheWay' /\ States'
    BY <1>2 DEF JInv, OnTheWay, States, Says, InCall, NewId, vars, clientVars, serverVars
  <2>3. Told'
    BY <1>2, ToldSame DEF JInv, vars, clientVars
  <2> QED BY <2>1, <2>2, <2>3 DEF JInv
<1> QED BY <1>1, <1>2

\* The two invariants hold together; the second needs the first.
LEMMA Both == Spec => [](IInv /\ JInv)
<1>1. Init => IInv /\ JInv
  BY InitInv, JInit
<1>2. (IInv /\ JInv) /\ [Next]_vars => (IInv /\ JInv)'
  BY NextInv, JStep
<1> QED BY <1>1, <1>2, PTL DEF Spec

(* However far the server is behind, its view of the heap is the client's: *)
(* a buffer it knows keeps its chunks, in a segment the server was told    *)
(* of, and each deallocation finds a live buffer (allocate, deallocate,    *)
(* freeDeallocations, and the server's commands).                          *)
THEOREM ServerKeepsUp == Spec => []ServerAgrees
<1>1. ASSUME IInv, JInv PROVE ServerAgrees
  <2>1. ServerViewAgrees
    BY <1>1 DEF ServerViewAgrees, JInv, AtServer, Living
  <2>2. DeallocAsserts
    <3> SUFFICES ASSUME NEW id \in Id, messages # <<>>, Head(messages) = Dealloc(id)
        PROVE  id \in DOMAIN serverCache /\ chunkState[serverCache[id]] = "Allocated"
      BY DEF DeallocAsserts
    <3>1. 1 \in 1 .. Len(messages) /\ messages[1] = Dealloc(id)
      <4>1. messages \in Seq(Message)
        BY <1>1 DEF IInv, TypeOK
      <4> QED BY <4>1, HeadTailProperties, LenProperties, EmptySeq
    <3>2. Says(1, "Dealloc", id)
      BY <3>1 DEF Says, Dealloc
    <3>3. ~\E q \in 1 .. 1 - 1 : Says(q, "Alloc", id)
      OBVIOUS
    <3> QED BY <1>1, <3>1, <3>2, <3>3 DEF JInv, OnTheWay, AtServer
  <2>3. ServerFindsSegment
    <3>1. DOMAIN serverSegments = 1 .. Len(serverSegments)
      BY <1>1, LenProperties DEF IInv, TypeOK
    <3> QED BY <1>1, <3>1 DEF ServerFindsSegment, JInv, Told, Within, Lies
  <2> QED BY <2>1, <2>2, <2>3 DEF ServerAgrees
<1>2. IInv /\ JInv => ServerAgrees
  BY <1>1
<1> QED BY <1>2, Both, PTL

----------------------------------------------------------------------------
(* The promise. *)

Leases == [id \in Id |-> Lease(id)]

PlaceMap == [id \in Id |-> IF id \in DOMAIN cache THEN cache[id] .. allocations[cache[id]] ELSE {}]

\* What a buffer's lease is, case by case.
LEMMA LeaseIs ==
  ASSUME NEW id
  PROVE  /\ id \notin DOMAIN cache /\ ~(id < nextUid) => Lease(id) = "unused"
         /\ id \notin DOMAIN cache /\ id < nextUid => Lease(id) = "reclaimed"
         /\ id \in DOMAIN cache /\ (id \in held \/ InCall(id)) => Lease(id) = "held"
         /\ id \in DOMAIN cache /\ id \notin held /\ ~InCall(id) =>
              Lease(id) = IF chunkState[cache[id]] = "Deallocated" THEN "done" ELSE "released"
<1>1. CASE id \notin DOMAIN cache
  BY <1>1 DEF Lease
<1>2. CASE id \in DOMAIN cache /\ (id \in held \/ InCall(id))
  BY <1>2 DEF Lease
<1>3. CASE id \in DOMAIN cache /\ id \notin held /\ ~InCall(id)
  BY <1>3 DEF Lease
<1> QED BY <1>1, <1>2, <1>3

\* A step that changes nothing a lease is made of, or that is made of for one buffer alone.
LEMMA SameLease ==
  ASSUME NEW id, IInv, nextUid' = nextUid, id \in DOMAIN cache <=> id \in DOMAIN cache',
         id \in DOMAIN cache => /\ cache'[id] = cache[id]
                                /\ chunkState'[cache[id]] = chunkState[cache[id]] \/ InCall(id)
                                /\ allocations'[cache[id]] = allocations[cache[id]],
         (id \in held \/ InCall(id)) <=> (id \in held \/ InCall(id))'
  PROVE  /\ Lease(id)' = Lease(id)
         /\ (id \in DOMAIN cache)' => /\ id \in DOMAIN cache /\ cache'[id] = cache[id]
                                      /\ allocations'[cache'[id]] = allocations[cache[id]]
BY DEF Lease

\* A step that changes no lease and no place is none of the promise.
LEMMA Stutter ==
  ASSUME IInv, JInv, UNCHANGED <<cache, allocations, nextUid>>,
         \A id \in DOMAIN cache : chunkState'[cache[id]] = chunkState[cache[id]] \/ InCall(id),
         \A id \in Id : (id \in held \/ InCall(id)) <=> (id \in held \/ InCall(id))'
  PROVE  UNCHANGED Promise!heapVars
<1>1. ASSUME NEW id \in Id PROVE Lease(id)' = Lease(id)
  BY SameLease
<1>2. Leases' = Leases
  BY <1>1 DEF Leases
<1>3. PlaceMap' = PlaceMap
  BY DEF PlaceMap
<1> QED BY <1>2, <1>3 DEF Promise!heapVars, Leases, PlaceMap

\* A step of the search is none of the promise.
LEMMA SearchStutters ==
  ASSUME IInv, JInv,
         UNCHANGED <<cache, allocations, nextUid, held, chunkState>>,
         call.at \notin {"mark", "allocated"}, call'.at \notin {"mark", "allocated"}
  PROVE  UNCHANGED Promise!heapVars
<1>1. \A id : ~InCall(id) /\ ~InCall(id)'
  BY DEF InCall
<1> QED BY <1>1, Stutter

\* The only buffer whose lease changes, and how.
LEMMA LeaseMoves ==
  ASSUME NEW x \in Id, NEW old, NEW new, Lease(x) = old, Lease(x)' = new,
         \A id \in Id : id # x => Lease(id)' = Lease(id)
  PROVE  Leases[x] = old /\ Leases' = [Leases EXCEPT ![x] = new]
BY DEF Leases

\* The only buffer whose place changes, and how.
LEMMA PlaceMoves ==
  ASSUME NEW x \in Id, NEW new,
         (IF x \in DOMAIN cache THEN cache[x] .. allocations[cache[x]] ELSE {})' = new,
         \A id \in Id : id # x =>
           /\ id \in DOMAIN cache <=> id \in DOMAIN cache'
           /\ id \in DOMAIN cache => cache'[id] .. allocations'[cache'[id]] = cache[id] .. allocations[cache[id]]
  PROVE  PlaceMap' = [PlaceMap EXCEPT ![x] = new]
<1>1. PlaceMap'[x] = new
  BY DEF PlaceMap
<1>2. ASSUME NEW id \in Id, id # x PROVE PlaceMap'[id] = PlaceMap[id]
  BY <1>2 DEF PlaceMap
<1>3. PlaceMap = [id \in Id |-> PlaceMap[id]] /\ PlaceMap' = [id \in Id |-> PlaceMap'[id]]
  BY DEF PlaceMap
<1> HIDE DEF PlaceMap
<1> QED BY <1>1, <1>2, <1>3

\* A buffer is taken back only when the server is done with it.
LEMMA ReclaimStep ==
  ASSUME IInv, JInv, NEW x \in Id, FreeOne(x)
  PROVE  [Promise!HeapNext]_(Promise!heapVars)
<1>1. /\ call.at = "free" /\ call' = [call EXCEPT !.pending = call.pending \ {x}]
      /\ x \in call.pending
      /\ UNCHANGED <<nextUid, held>>
  BY DEF FreeOne
<1>2. call'.at = "free"
  BY <1>1 DEF IInv, TypeOK, CallType
<1>3. \A id : ~InCall(id) /\ ~InCall(id)'
  BY <1>1, <1>2 DEF InCall
<1>4. CASE UNCHANGED <<cache, allocations, chunkState>>
  BY <1>1, <1>2, <1>4, SearchStutters
<1>5. CASE /\ chunkState[cache[x]] = "Deallocated"
           /\ cache' = Without(cache, x)
           /\ allocations' = Without(allocations, cache[x])
           /\ chunkState' = [chunkState EXCEPT ![cache[x]] = "Unallocated"]
  <2>1. x \in DOMAIN cache /\ x < nextUid /\ x \notin held
    BY <1>1, <1>5 DEF JInv, Living, States
  <2>2. DOMAIN cache' = DOMAIN cache \ {x}
        /\ \A id \in DOMAIN cache' : /\ cache'[id] = cache[id] /\ cache[id] # cache[x]
                                     /\ cache[id] \in DOMAIN allocations /\ cache[id] \in Chunk
    BY <1>5, <2>1 DEF Without, JInv, Living, IInv, TypeOK, IsMap
  <2>3. \A id \in DOMAIN cache' : allocations'[cache[id]] = allocations[cache[id]]
    BY <1>5, <2>2 DEF Without
  <2>4. \A id \in DOMAIN cache' : chunkState'[cache[id]] = chunkState[cache[id]]
    BY <1>5, <2>2 DEF IInv, TypeOK
  <2>5. Lease(x) = "done"
    BY <1>3, <1>5, <2>1, LeaseIs
  <2>6. Lease(x)' = "reclaimed"
    BY <1>1, <2>1, <2>2 DEF Lease
  <2>7. ASSUME NEW id \in Id, id # x PROVE Lease(id)' = Lease(id)
    BY <1>1, <1>3, <2>2, <2>4, <2>7 DEF Lease
  <2>8. Leases[x] = "done" /\ Leases' = [Leases EXCEPT ![x] = "reclaimed"]
    BY <2>5, <2>6, <2>7, LeaseMoves
  <2>9. PlaceMap' = [PlaceMap EXCEPT ![x] = {}]
    <3>1. (IF x \in DOMAIN cache THEN cache[x] .. allocations[cache[x]] ELSE {})' = {}
      BY <2>2
    <3>2. ASSUME NEW id \in Id, id # x
          PROVE  /\ id \in DOMAIN cache <=> id \in DOMAIN cache'
                 /\ id \in DOMAIN cache =>
                      cache'[id] .. allocations'[cache'[id]] = cache[id] .. allocations[cache[id]]
      BY <2>2, <2>3, <3>2
    <3> QED BY <3>1, <3>2, PlaceMoves
  <2>10. Promise!HeapReclaim(x)
    BY <2>8, <2>9 DEF Promise!HeapReclaim, Leases, PlaceMap
  <2> QED BY <2>10 DEF Promise!HeapNext
<1> QED BY <1>4, <1>5 DEF FreeOne

\* The new buffer's id was never used, and its chunks are nobody's.
LEMMA AllocateStep ==
  ASSUME IInv, JInv, AllocateSend
  PROVE  [Promise!HeapNext]_(Promise!heapVars)
<1> DEFINE first == call.first
           final == first + call.chunks - 1
<1>1. /\ call.at = "send" /\ call' = [call EXCEPT !.at = "mark"]
      /\ cache' = [id \in DOMAIN cache \cup {nextUid} |-> IF id = nextUid THEN first ELSE cache[id]]
      /\ allocations' = [c \in DOMAIN allocations \cup {first} |->
                          IF c = first THEN final ELSE allocations[c]]
      /\ nextUid' = nextUid + 1
      /\ UNCHANGED <<held, chunkState>>
  BY DEF AllocateSend, Push
<1>2. /\ call \in CallType /\ nextUid \in 0 .. MaxIds /\ nextUid < MaxIds
      /\ call.chunks > 0 /\ Valid(first, call.chunks)
      /\ \A a \in DOMAIN allocations : allocations[a] < first \/ first + call.chunks <= a
  BY <1>1 DEF IInv, TypeOK, CallReady, PlaceIsFree
<1>3. /\ first \in Chunk /\ call.chunks \in Nat \ {0} /\ call'.at = "mark"
  BY <1>1, <1>2 DEF CallType
<1>4. \A a \in DOMAIN allocations : a \in Chunk /\ allocations[a] \in Chunk /\ a <= allocations[a]
  BY DEF IInv, TypeOK, IsMap, AllocationsApart
<1>5. PICK uid \in Id : uid = nextUid
  BY <1>2 DEF Id
<1>6. /\ \A id \in DOMAIN cache : id \in Id /\ id # uid /\ id < nextUid /\ cache[id] \in DOMAIN allocations
      /\ \A a \in DOMAIN allocations : a # first
  <2>1. \A a \in DOMAIN allocations : a # first
    BY <1>2, <1>3, <1>4 DEF Chunk
  <2> QED BY <1>5, <2>1 DEF JInv, Living, IInv, TypeOK, IsMap, Id
<1> HIDE DEF first, final
<1>7. /\ DOMAIN cache' = DOMAIN cache \cup {uid} /\ cache'[uid] = first
      /\ \A id \in DOMAIN cache : cache'[id] = cache[id]
      /\ allocations'[first] = final
      /\ \A a \in DOMAIN allocations : allocations'[a] = allocations[a]
  BY <1>1, <1>5, <1>6
<1>8. \A id \in Id : ~InCall(id) /\ (InCall(id)' <=> id = uid)
  BY <1>1, <1>3, <1>5 DEF InCall, NewId, Id
<1>9. Lease(uid) = "unused"
  BY <1>5, <1>6 DEF Lease, Id
<1>10. Lease(uid)' = "held"
  BY <1>7, <1>8 DEF Lease
<1>11. ASSUME NEW id \in Id, id # uid PROVE Lease(id)' = Lease(id)
  <2>1. CASE id \in DOMAIN cache
    BY <1>1, <1>7, <1>8, <1>11, <2>1 DEF Lease
  <2>2. CASE id \notin DOMAIN cache
    <3>1. id < nextUid <=> id < nextUid'
      BY <1>1, <1>5, <1>11 DEF Id
    <3> QED BY <1>7, <1>11, <2>2, <3>1 DEF Lease
  <2> QED BY <2>1, <2>2
<1>12. Leases[uid] = "unused" /\ Leases' = [Leases EXCEPT ![uid] = "held"]
  BY <1>9, <1>10, <1>11, LeaseMoves
<1>13. PICK chunks : chunks = first .. final
  OBVIOUS
<1>14. chunks # {} /\ chunks \in SUBSET Chunk
  <2>1. final \in Chunk
    BY <1>2, <1>3, ValidIsInHeap DEF first, final
  <2>2. first <= final
    BY <1>3 DEF final, Chunk
  <2>3. first \in Int /\ final \in Int /\ first \in chunks
    BY <1>3, <1>13, <2>1, <2>2 DEF Chunk
  <2>4. ASSUME NEW c \in chunks PROVE c \in Chunk
    <3>1. c \in Int /\ first <= c /\ c <= final
      BY <1>13, <2>3
    <3>2. 0 <= first /\ final <= MaxChunks - 1
      BY <1>3, <2>1 DEF Chunk
    <3> QED BY <2>3, <3>1, <3>2 DEF Chunk
  <2> QED BY <2>3, <2>4
<1>15. ASSUME NEW id \in Id PROVE chunks \cap PlaceMap[id] = {}
  <2>1. CASE id \in DOMAIN cache
    <3>1. allocations[cache[id]] < first \/ first + call.chunks <= cache[id]
      BY <1>2, <1>6, <2>1 DEF first
    <3>2. cache[id] \in Nat /\ allocations[cache[id]] \in Nat
      BY <1>4, <1>6, <2>1 DEF Chunk
    <3>3. first .. final \cap (cache[id] .. allocations[cache[id]]) = {}
      BY <1>3, <3>1, <3>2 DEF Chunk, final
    <3> QED BY <1>13, <2>1, <3>3 DEF PlaceMap
  <2>2. CASE id \notin DOMAIN cache
    BY <2>2 DEF PlaceMap
  <2> QED BY <2>1, <2>2
<1>16. PlaceMap' = [PlaceMap EXCEPT ![uid] = chunks]
  <2>1. \A id \in DOMAIN cache : allocations'[cache[id]] = allocations[cache[id]]
    BY <1>6, <1>7
  <2>2. cache'[uid] .. allocations'[cache'[uid]] = chunks
    BY <1>7, <1>13
  <2>3. ASSUME NEW id \in Id, id # uid
        PROVE  (IF id \in DOMAIN cache' THEN cache'[id] .. allocations'[cache'[id]] ELSE {})
                 = IF id \in DOMAIN cache THEN cache[id] .. allocations[cache[id]] ELSE {}
    BY <1>7, <2>1, <2>3
  <2> QED BY <1>7, <2>2, <2>3, PlaceMoves
<1>17. chunks \cap Promise!Taken = {}
  BY <1>15 DEF Promise!Taken, PlaceMap
<1>18. Promise!HeapAllocate(uid, chunks)
  BY <1>12, <1>14, <1>16, <1>17 DEF Promise!HeapAllocate, Leases, PlaceMap
<1> QED BY <1>14, <1>18 DEF Promise!HeapNext

\* The state is set while the call still holds the buffer.
LEMMA MarkStutters ==
  ASSUME IInv, JInv, AllocateMark
  PROVE  UNCHANGED Promise!heapVars
<1>1. /\ call.at = "mark" /\ call' = [call EXCEPT !.at = "allocated"]
      /\ chunkState' = [chunkState EXCEPT ![call.first] = "Allocated"]
      /\ UNCHANGED <<cache, allocations, nextUid, held>>
  BY DEF AllocateMark, clientVars
<1>2. call'.at = "allocated"
  BY <1>1 DEF IInv, TypeOK, CallType
<1>3. \A id \in Id : InCall(id)' <=> InCall(id)
  BY <1>1, <1>2 DEF InCall, NewId
<1>4. NewId \in DOMAIN cache /\ cache[NewId] = call.first
  BY <1>1 DEF JInv, Living
<1>5. ASSUME NEW id \in DOMAIN cache
      PROVE  chunkState'[cache[id]] = chunkState[cache[id]] \/ InCall(id)
  <2>1. CASE id = NewId
    BY <1>1, <2>1 DEF InCall
  <2>2. CASE id # NewId
    <3>1. cache[id] # call.first /\ cache[id] \in Chunk
      BY <1>4, <2>2 DEF JInv, Living, IInv, TypeOK, IsMap
    <3> QED BY <1>1, <3>1 DEF IInv, TypeOK
  <2> QED BY <2>1, <2>2
<1> QED BY <1>1, <1>3, <1>5, Stutter

\* The id passes from the call to its caller.
LEMMA ReturnStutters ==
  ASSUME IInv, JInv, AllocateReturn
  PROVE  UNCHANGED Promise!heapVars
<1>1. /\ call.at = "allocated" /\ held' = held \cup {NewId} /\ call'.at = "idle"
      /\ UNCHANGED <<cache, allocations, nextUid, chunkState>>
  BY DEF AllocateReturn, NoCall, clientVars
<1>2. \A id : (id \in held \/ InCall(id)) <=> (id \in held \/ InCall(id))'
  BY <1>1 DEF InCall
<1> QED BY <1>1, <1>2, Stutter

\* The caller gives the buffer up; the server does not know yet.
LEMMA ReleaseStep ==
  ASSUME IInv, JInv, NEW x \in Id, Deallocate(x)
  PROVE  [Promise!HeapNext]_(Promise!heapVars)
<1>1. /\ call.at = "idle" /\ x \in held /\ held' = held \ {x}
      /\ UNCHANGED <<cache, allocations, nextUid, call, chunkState>>
  BY DEF Deallocate, clientVars
<1>2. \A id : ~InCall(id) /\ ~InCall(id)'
  BY <1>1 DEF InCall
<1>3. x \in DOMAIN cache /\ chunkState[cache[x]] # "Deallocated"
  BY <1>1 DEF JInv, Living, States
<1>4. Lease(x) = "held" /\ Lease(x)' = "released"
  BY <1>1, <1>2, <1>3 DEF Lease
<1>5. \A id \in Id : id # x => Lease(id)' = Lease(id)
  BY <1>1, <1>2 DEF Lease
<1>6. Leases[x] = "held" /\ Leases' = [Leases EXCEPT ![x] = "released"]
  BY <1>4, <1>5, LeaseMoves
<1>7. PlaceMap' = PlaceMap
  BY <1>1 DEF PlaceMap
<1>8. Promise!HeapRelease(x)
  BY <1>6, <1>7 DEF Promise!HeapRelease, Leases, PlaceMap
<1> QED BY <1>8 DEF Promise!HeapNext

\* The server lets go of a buffer that was given up before.
LEMMA LetGoStep ==
  ASSUME IInv, JInv, ServerDealloc
  PROVE  [Promise!HeapNext]_(Promise!heapVars)
<1>1. /\ messages # <<>> /\ messages' = Tail(messages) /\ Head(messages).cmd = "Dealloc"
      /\ chunkState' = [chunkState EXCEPT ![serverCache[Head(messages).id]] = "Deallocated"]
      /\ UNCHANGED <<cache, allocations, nextUid, call, held>>
  BY DEF ServerDealloc, clientVars
<1>2. /\ 1 \in 1 .. Len(messages) /\ Head(messages) = messages[1] /\ messages[1] \in Message
  BY <1>1, Shifted DEF IInv
<1>3. PICK x \in Id : x = messages[1].id
  BY <1>1, <1>2 DEF Message
<1>4. Says(1, "Dealloc", x)
  BY <1>1, <1>2, <1>3 DEF Says
<1>5. /\ x \in DOMAIN cache /\ x \in DOMAIN serverCache /\ x \notin held /\ ~InCall(x)
      /\ chunkState[cache[x]] = "Allocated" /\ serverCache[x] = cache[x]
  <2>1. ~\E q \in 1 .. 1 - 1 : Says(q, "Alloc", x)
    OBVIOUS
  <2> QED BY <1>2, <1>4, <2>1 DEF JInv, OnTheWay, AtServer
<1>6. chunkState' = [chunkState EXCEPT ![cache[x]] = "Deallocated"]
  BY <1>1, <1>2, <1>3, <1>5
<1>7. \A id \in DOMAIN cache : cache[id] \in Chunk /\ (id # x => cache[id] # cache[x])
  BY <1>5 DEF JInv, Living, IInv, TypeOK, IsMap
<1>8. /\ chunkState'[cache[x]] = "Deallocated"
      /\ \A id \in DOMAIN cache : id # x => chunkState'[cache[id]] = chunkState[cache[id]]
  BY <1>5, <1>6, <1>7 DEF IInv, TypeOK
<1>9. \A id : InCall(id)' <=> InCall(id)
  BY <1>1 DEF InCall, NewId
<1>10. Lease(x) = "released" /\ Lease(x)' = "done"
  BY <1>1, <1>5, <1>8, <1>9 DEF Lease
<1>11. \A id \in Id : id # x => Lease(id)' = Lease(id)
  BY <1>1, <1>8, <1>9 DEF Lease
<1>12. Leases[x] = "released" /\ Leases' = [Leases EXCEPT ![x] = "done"]
  BY <1>10, <1>11, LeaseMoves
<1>13. PlaceMap' = PlaceMap
  BY <1>1 DEF PlaceMap
<1>14. Promise!ServerLetsGo(x)
  BY <1>12, <1>13 DEF Promise!ServerLetsGo, Leases, PlaceMap
<1> QED BY <1>14 DEF Promise!HeapNext

\* No id is used at the start.
LEMMA PromiseInit == Init => Promise!HeapInit
<1> SUFFICES ASSUME Init PROVE Promise!HeapInit
  OBVIOUS
<1>1. cache = Empty /\ DOMAIN cache = {} /\ nextUid = 0
  BY DEF Init, Empty
<1>2. \A id \in Id : Lease(id) = "unused"
  BY <1>1 DEF Lease, Id
<1> QED BY <1>1, <1>2 DEF Promise!HeapInit

\* Every step of the heap is one of the promise, or none.
LEMMA PromiseStep == IInv /\ JInv /\ [Next]_vars => [Promise!HeapNext]_(Promise!heapVars)
<1> SUFFICES ASSUME IInv, JInv, [Next]_vars PROVE [Promise!HeapNext]_(Promise!heapVars)
  OBVIOUS
<1>0. call \in CallType
  BY DEF IInv, TypeOK
<1>1. CASE \E n \in Sizes : AllocateCall(n)
  BY <1>1, SearchStutters DEF AllocateCall, NoCall
<1>2. CASE \E first \in Chunk : FindRoom(first)
  BY <1>0, <1>2, SearchStutters DEF FindRoom, clientVars, CallType
<1>3. CASE FindNone \/ FindUndefined
  BY <1>0, <1>3, SearchStutters DEF FindNone, FindUndefined, clientVars, CallType
<1>4. CASE FreeEnd \/ GrowFull
  BY <1>0, <1>4, SearchStutters DEF FreeEnd, GrowFull, TryAgain, clientVars, CallType
<1>5. CASE GrowDies \/ Validate
  BY <1>0, <1>5, SearchStutters DEF GrowDies, Validate, clientVars, CallType
<1>6. CASE Grow
  BY <1>0, <1>6, SearchStutters DEF Grow, CallType
<1>7. CASE AllocateFail
  BY <1>7, SearchStutters DEF AllocateFail, NoCall, clientVars
<1>8. CASE ServerAddSeg \/ ServerAlloc \/ UNCHANGED vars
  <2>1. UNCHANGED <<cache, allocations, nextUid, call, held, chunkState>>
    BY <1>8 DEF ServerAddSeg, ServerAlloc, vars, clientVars
  <2>2. \A id : InCall(id)' <=> InCall(id)
    BY <2>1 DEF InCall, NewId
  <2> QED BY <2>1, <2>2, Stutter
<1>9. CASE AllocateMark \/ AllocateReturn
  BY <1>9, MarkStutters, ReturnStutters
<1>10. CASE AllocateSend \/ ServerDealloc \/ \E id \in Id : FreeOne(id) \/ Deallocate(id)
  BY <1>10, AllocateStep, LetGoStep, ReclaimStep, ReleaseStep
<1> QED BY <1>1, <1>2, <1>3, <1>4, <1>5, <1>6, <1>7, <1>8, <1>9, <1>10 DEF Next, Allocating, Server

(* No place is given out before its last owner, the server and the heap    *)
(* have all let go of it, in this order (allocate, deallocate,             *)
(* freeDeallocations, and the server's deallocate): the shared heap        *)
(* implements BufferHeap.                                                  *)
THEOREM HeapKeepsPromise == Spec => KeepsPromise
<1>1. Init => Promise!HeapInit
  BY PromiseInit
<1>2. (IInv /\ JInv) /\ [Next]_vars => [Promise!HeapNext]_(Promise!heapVars)
  BY PromiseStep
<1> QED BY <1>1, <1>2, Both, PTL DEF Spec, KeepsPromise, Promise!HeapSpec

----------------------------------------------------------------------------
(* The users of the heap: what LockableBuffer's locks, its queue and the    *)
(* server's copies say of each other.                                       *)

\* The locks the application may write through.
Writing(r) == {i \in DOMAIN locks[r] : "readonly" \notin locks[r][i].flags}

\* The resource will give the buffer up: it is its own, or one a lock still names.
Uses(r, id) ==
  \/ bufferId[r] = id
  \/ \E i \in DOMAIN locks[r] : locks[r][i].bufferId = id \/ locks[r][i].discarded = id

\* A buffer has one place until the heap takes it back, and no other has it.
PlacesInv ==
  /\ \A id \in BufferIds :
       lease[id] \in {"held", "released", "done"} => \E p \in Places : place[id] = {p}
  /\ \A x, y \in BufferIds : x # y => place[x] \cap place[y] = {}

\* A buffer in use is held, by one resource.
OwnersInv ==
  /\ \A r \in Resources : \A id \in BufferIds : Uses(r, id) => lease[id] = "held"
  /\ \A r, s \in Resources : \A id \in BufferIds : Uses(r, id) /\ Uses(s, id) => r = s

\* What a lock discards no later lock and no resource uses, and no other lock discards.  While
\* a resource has a buffer that was not only read, its last lock for writing is one of that
\* buffer; and where every lock for writing discards, each has a buffer of its own.
LocksRight(r) ==
  /\ \A i, j \in DOMAIN locks[r] :
       i <= j => locks[r][i].discarded # locks[r][j].bufferId
  /\ \A i, j \in DOMAIN locks[r] :
       i < j /\ locks[r][i].discarded # None => locks[r][i].discarded # locks[r][j].discarded
  /\ \A i \in DOMAIN locks[r] :
       locks[r][i].discarded # None => locks[r][i].discarded # bufferId[r]
  /\ bufferId[r] # None /\ r \notin blank =>
       \A i \in Writing(r) : \E j \in Writing(r) : i <= j /\ locks[r][j].bufferId = bufferId[r]
  /\ {} \notin Flags[r] =>
       \A i, j \in Writing(r) : i # j => locks[r][i].bufferId # locks[r][j].bufferId

LocksInv == \A r \in Resources : LocksRight(r)

\* What an unlock under way says is right: the server still has the buffer, no other resource
\* uses it, and where every lock for writing discards nobody writes to it any more.
CopyRight(r, id, wrote) ==
  /\ lease[id] \in {"held", "released"}
  /\ \A s \in Resources : Uses(s, id) => s = r
  /\ {} \notin Flags[r] =>
       Data(id) = wrote /\ \A i \in Writing(r) : locks[r][i].bufferId # id

CopyCmd(r, id, wrote) == [cmd |-> "Unlock", resource |-> r, id |-> id, wrote |-> wrote]

CopiesInv ==
  \A k \in DOMAIN commands : \A r \in Resources, id \in BufferIds, wrote \in 0 .. MaxWrites :
    commands[k] = CopyCmd(r, id, wrote) => CopyRight(r, id, wrote)

\* A deallocation under way is of a released buffer, and the last command about it.
DeallocsInv ==
  \A k \in DOMAIN commands : \A id \in BufferIds :
    commands[k] = DeallocCmd(id) =>
      lease[id] = "released" /\ \A l \in DOMAIN commands : k < l => commands[l].id # id

CopiesFor(r) == {k \in DOMAIN commands : commands[k].cmd = "Unlock" /\ commands[k].resource = r}

\* The last copy under way for the resource is of this buffer, or there is none and the server
\* has the buffer's data.
Current(r, id) ==
  \/ CopiesFor(r) = {} /\ serverCopy[r] = Data(id)
  \/ \E k \in CopiesFor(r) : commands[k].id = id /\ \A l \in CopiesFor(r) : l <= k

\* That is so of the buffer of a resource that nobody writes to, if somebody has.
CurrentInv ==
  \A r \in Resources, id \in BufferIds :
    bufferId[r] = id /\ r \notin blank /\ Writing(r) = {} => Current(r, id)

LockInv ==
  /\ LockTypeOK /\ PlacesInv /\ OwnersInv /\ LocksInv /\ CopiesInv /\ DeallocsInv /\ CurrentInv
  /\ LostInThreeWays

HIDE HeapAssumption DEF HeapAssumption
USE LockAssumption

\* A buffer that has one place has its data there.
LEMMA PlaceChosen ==
  ASSUME NEW p \in Places
  PROVE  (CHOOSE q \in Places : {p} \subseteq {q}) = p
<1>1. \E q \in Places : {p} \subseteq {q}
  OBVIOUS
<1> QED
  BY <1>1

\* The locks and the commands, one by one.
LEMMA LocksTyped ==
  ASSUME LockTypeOK, NEW r \in Resources
  PROVE  /\ locks[r] \in Seq(LockType) /\ Len(locks[r]) \in Nat
         /\ DOMAIN locks[r] = 1 .. Len(locks[r])
         /\ \A i \in DOMAIN locks[r] :
              /\ locks[r][i] \in LockType /\ locks[r][i].flags \in Flags[r]
              /\ locks[r][i].bufferId \in BufferIds
              /\ locks[r][i].discarded \in BufferIds \cup {None}
<1>1. locks[r] \in Seq(LockType)
  BY DEF LockTypeOK
<1>2. Len(locks[r]) \in Nat /\ DOMAIN locks[r] = 1 .. Len(locks[r])
  BY <1>1, LenProperties
<1>3. \A i \in DOMAIN locks[r] : locks[r][i] \in LockType
  BY <1>1, <1>2, ElementOfSeq
<1> QED
  BY <1>1, <1>2, <1>3 DEF LockTypeOK, LockType

LEMMA CommandsTyped ==
  ASSUME LockTypeOK
  PROVE  /\ commands \in Seq(CommandType) /\ Len(commands) \in Nat
         /\ DOMAIN commands = 1 .. Len(commands)
         /\ \A k \in DOMAIN commands :
              /\ commands[k] \in CommandType
              /\ commands[k].id \in BufferIds
              /\ commands[k].cmd \in {"Unlock", "Dealloc"}
              /\ commands[k].cmd = "Unlock" =>
                   commands[k].resource \in Resources /\ commands[k].wrote \in 0 .. MaxWrites
<1>1. commands \in Seq(CommandType)
  BY DEF LockTypeOK
<1>2. Len(commands) \in Nat /\ DOMAIN commands = 1 .. Len(commands)
  BY <1>1, LenProperties
<1>3. \A k \in DOMAIN commands : commands[k] \in CommandType
  BY <1>1, <1>2, ElementOfSeq
<1> QED
  BY <1>1, <1>2, <1>3 DEF CommandType

\* A step of the heap's, or one that leaves it alone.
HeapStep ==
  \/ \E id \in BufferIds :
       \/ \E p \in Places : HeapAllocate(id, {p})
       \/ HeapRelease(id) \/ ServerLetsGo(id) \/ HeapReclaim(id)
  \/ UNCHANGED heapVars

LEMMA HeapKeepsPlaces ==
  ASSUME HeapType, PlacesInv, HeapStep
  PROVE  /\ HeapType' /\ PlacesInv'
         /\ \A x \in BufferIds : lease[x] \in {"held", "released"} => place'[x] = place[x]
<1>1. CASE UNCHANGED heapVars
  BY <1>1 DEF heapVars, HeapType, PlacesInv
<1>2. ASSUME NEW id \in BufferIds, NEW p \in Places, HeapAllocate(id, {p})
      PROVE  /\ HeapType' /\ PlacesInv'
             /\ \A x \in BufferIds : lease[x] \in {"held", "released"} => place'[x] = place[x]
  <2>1. /\ lease[id] = "unused" /\ p \notin Taken
        /\ lease' = [lease EXCEPT ![id] = "held"] /\ place' = [place EXCEPT ![id] = {p}]
    BY <1>2 DEF HeapAllocate
  <2>2. \A x \in BufferIds : p \notin place[x]
    BY <2>1 DEF Taken
  <2>3. HeapType'
    BY <2>1 DEF HeapType
  <2>4. \A x \in BufferIds : /\ lease'[x] = IF x = id THEN "held" ELSE lease[x]
                             /\ place'[x] = IF x = id THEN {p} ELSE place[x]
    BY <2>1 DEF HeapType
  <2>5. PlacesInv'
    BY <2>2, <2>4 DEF PlacesInv
  <2> QED
    BY <2>1, <2>3, <2>4, <2>5
<1>3. ASSUME NEW id \in BufferIds, HeapRelease(id) \/ ServerLetsGo(id)
      PROVE  /\ HeapType' /\ PlacesInv'
             /\ \A x \in BufferIds : lease[x] \in {"held", "released"} => place'[x] = place[x]
  <2>1. /\ lease[id] \in {"held", "released"} /\ place' = place
        /\ \E l \in {"released", "done"} : lease' = [lease EXCEPT ![id] = l]
    BY <1>3 DEF HeapRelease, ServerLetsGo
  <2> QED
    BY <2>1 DEF HeapType, PlacesInv
<1>4. ASSUME NEW id \in BufferIds, HeapReclaim(id)
      PROVE  /\ HeapType' /\ PlacesInv'
             /\ \A x \in BufferIds : lease[x] \in {"held", "released"} => place'[x] = place[x]
  <2>1. /\ lease[id] = "done" /\ place' = [place EXCEPT ![id] = {}]
        /\ lease' = [lease EXCEPT ![id] = "reclaimed"]
    BY <1>4 DEF HeapReclaim
  <2> QED
    BY <2>1 DEF HeapType, PlacesInv
<1> QED
  BY <1>1, <1>2, <1>3, <1>4 DEF HeapStep

\* As long as nobody writes, the data of a buffer that is held or released stays.
LEMMA DataStays ==
  ASSUME HeapType, PlacesInv, HeapStep, UNCHANGED content,
         NEW x \in BufferIds, lease[x] \in {"held", "released"}
  PROVE  Data(x)' = Data(x)
<1>1. PICK p \in Places : place[x] = {p}
  BY DEF PlacesInv
<1>2. place'[x] = {p}
  BY <1>1, HeapKeepsPlaces
<1>3. Data(x) = content[p]
  BY <1>1, PlaceChosen DEF Data
<1>4. Data(x)' = content'[p]
  BY <1>2, PlaceChosen DEF Data
<1> QED
  BY <1>3, <1>4

LEMMA DataTyped ==
  ASSUME LockTypeOK, PlacesInv, NEW x \in BufferIds, lease[x] \in {"held", "released"}
  PROVE  Data(x) \in 0 .. MaxWrites
<1>1. PICK p \in Places : place[x] = {p}
  BY DEF PlacesInv
<1>2. Data(x) = content[p]
  BY <1>1, PlaceChosen DEF Data
<1> QED
  BY <1>2 DEF LockTypeOK

\* What an unlock under way says stays right if its buffer is not let go, and no buffer is used
\* or written to that was not before, but for a new one.
LEMMA CopyStaysRight ==
  ASSUME HeapType, PlacesInv, HeapStep, UNCHANGED content,
         NEW r \in Resources, NEW id \in BufferIds, NEW wrote,
         lease'[id] \in {"held", "released"},
         \A s \in Resources : Uses(s, id)' => Uses(s, id),
         {} \notin Flags[r] =>
           \A i \in Writing(r)' :
             \/ \E j \in Writing(r) : locks'[r][i].bufferId = locks[r][j].bufferId
             \/ lease[locks'[r][i].bufferId] = "unused",
         CopyRight(r, id, wrote)
  PROVE  CopyRight(r, id, wrote)'
<1>1. /\ lease[id] \in {"held", "released"}
      /\ \A s \in Resources : Uses(s, id) => s = r
      /\ {} \notin Flags[r] =>
           Data(id) = wrote /\ \A i \in Writing(r) : locks[r][i].bufferId # id
  BY DEF CopyRight
<1>2. Data(id)' = Data(id)
  BY <1>1, DataStays
<1>3. ASSUME {} \notin Flags[r], NEW i \in Writing(r)'
      PROVE  locks'[r][i].bufferId # id
  BY <1>1, <1>3
<1>4. \A s \in Resources : Uses(s, id)' => s = r
  BY <1>1
<1> QED
  BY <1>1, <1>2, <1>3, <1>4 DEF CopyRight

\* Steps that send nothing, and are none of the server's.
LEMMA QueueStays ==
  ASSUME LockTypeOK, PlacesInv, CopiesInv, DeallocsInv, HeapStep, UNCHANGED <<commands, content>>,
         \A x \in BufferIds : lease[x] \in {"held", "released"} => lease'[x] = lease[x],
         \A s \in Resources : \A x \in BufferIds : Uses(s, x)' => Uses(s, x) \/ lease[x] = "unused",
         \A s \in Resources : {} \notin Flags[s] =>
           \A i \in Writing(s)' :
             \/ \E j \in Writing(s) : locks'[s][i].bufferId = locks[s][j].bufferId
             \/ lease[locks'[s][i].bufferId] = "unused"
  PROVE  CopiesInv' /\ DeallocsInv'
<1>1. ASSUME NEW k \in DOMAIN commands, NEW r \in Resources, NEW id \in BufferIds,
             NEW wrote \in 0 .. MaxWrites, commands[k] = CopyCmd(r, id, wrote)
      PROVE  CopyRight(r, id, wrote)'
  <2>1. CopyRight(r, id, wrote)
    BY <1>1 DEF CopiesInv
  <2>2. lease[id] \in {"held", "released"} /\ lease'[id] \in {"held", "released"}
    BY <2>1 DEF CopyRight
  <2> QED
    BY <2>1, <2>2, CopyStaysRight DEF LockTypeOK
<1>2. CopiesInv'
  BY <1>1 DEF CopiesInv, CopyCmd
<1>3. DeallocsInv'
  BY DEF DeallocsInv, DeallocCmd
<1> QED
  BY <1>2, <1>3

\* The same of the copies: a resource nobody writes to still has the buffer it had.
LEMMA CurrentStays ==
  ASSUME CurrentInv, UNCHANGED <<commands, serverCopy>>,
         \A s \in Resources, x \in BufferIds : bufferId'[s] = x /\ s \notin blank' /\ Writing(s)' = {} =>
           bufferId[s] = x /\ s \notin blank /\ Writing(s) = {} /\ Data(x)' = Data(x)
  PROVE  CurrentInv'
<1> SUFFICES ASSUME NEW s \in Resources, NEW x \in BufferIds,
                    bufferId'[s] = x, s \notin blank', Writing(s)' = {}
             PROVE  Current(s, x)'
  BY DEF CurrentInv
<1>1. bufferId[s] = x /\ s \notin blank /\ Writing(s) = {} /\ Data(x)' = Data(x)
  OBVIOUS
<1>2. CopiesFor(s)' = CopiesFor(s)
  BY DEF CopiesFor
<1>3. Current(s, x)
  BY <1>1 DEF CurrentInv
<1> QED
  BY <1>1, <1>2, <1>3 DEF Current

\* Of resources that a step does not lock, unlock or give a buffer, nothing changes.
LEMMA LocksStayRight ==
  ASSUME NEW s \in Resources, locks'[s] = locks[s], bufferId'[s] = bufferId[s],
         s \in blank' <=> s \in blank
  PROVE  /\ Writing(s)' = Writing(s)
         /\ \A x : Uses(s, x)' <=> Uses(s, x)
         /\ LocksRight(s) => LocksRight(s)'
<1>1. Writing(s)' = Writing(s)
  BY DEF Writing
<1>2. \A x : Uses(s, x)' <=> Uses(s, x)
  BY DEF Uses
<1>3. LocksRight(s) => LocksRight(s)'
  BY <1>1 DEF LocksRight
<1> QED
  BY <1>1, <1>2, <1>3

\* The resource, or a lock on it, will release the buffer.
Owns(r, id) == bufferId[r] = id \/ \E i \in DOMAIN locks[r] : locks[r][i].discarded = id

\* What has been lost, buffer by buffer.
LEMMA LostIs ==
  /\ LostInThreeWays <=>
       /\ lost \subseteq BufferIds
       /\ \A id \in BufferIds :
            id \in lost <=> lease[id] = "held" /\ \A s \in Resources : ~Owns(s, id)
  /\ LostInThreeWays' <=>
       /\ lost' \subseteq BufferIds
       /\ \A id \in BufferIds :
            id \in lost' <=> lease'[id] = "held" /\ \A s \in Resources : ~Owns(s, id)'
<1>1. ASSUME NEW id \in BufferIds
      PROVE  /\ HasOwner(id) <=> \E s \in Resources : Owns(s, id)
             /\ HasOwner(id)' <=> \E s \in Resources : Owns(s, id)'
  <2>1. id # None
    OBVIOUS
  <2> QED
    BY <2>1 DEF HasOwner, StillDiscarded, Owns
<1> QED
  BY <1>1 DEF LostInThreeWays

\* Nothing is lost where nobody gives up a buffer that stays held.
LEMMA LostStays ==
  ASSUME LostInThreeWays, UNCHANGED lost,
         \A x \in BufferIds :
           /\ lease'[x] = "held" <=> lease[x] = "held"
           /\ \A s \in Resources : Owns(s, x)' <=> Owns(s, x)
  PROVE  LostInThreeWays'
BY LostIs

LEMMA OwnersSame ==
  ASSUME NEW s \in Resources, locks'[s] = locks[s], bufferId'[s] = bufferId[s]
  PROVE  \A x : Owns(s, x)' <=> Owns(s, x)
BY DEF Owns

LEMMA OwnedIsUsed ==
  ASSUME NEW s, NEW x
  PROVE  (Owns(s, x) => Uses(s, x)) /\ (Owns(s, x)' => Uses(s, x)')
BY DEF Owns, Uses

\* A resource is locked once more.
AddLock(r, lock) == locks' = [locks EXCEPT ![r] = Append(@, lock)]

LEMMA LockAdded ==
  ASSUME LockTypeOK, NEW r \in Resources, NEW lock \in LockType,
         AddLock(r, lock),
         NEW n, n = Len(locks[r])
  PROVE  /\ n \in Nat /\ DOMAIN locks[r] = 1 .. n
         /\ locks' \in [Resources -> Seq(LockType)]
         /\ \A s \in Resources : s # r => locks'[s] = locks[s]
         /\ DOMAIN locks'[r] = 1 .. n + 1
         /\ \A i \in 1 .. n : locks'[r][i] = locks[r][i]
         /\ locks'[r][n + 1] = lock
<1>1. locks \in [Resources -> Seq(LockType)] /\ locks[r] \in Seq(LockType)
  BY DEF LockTypeOK
<1>2. n \in Nat /\ DOMAIN locks[r] = 1 .. n
  BY <1>1, LenProperties
<1>3. locks'[r] = Append(locks[r], lock)
  BY <1>1 DEF AddLock
<1>4. /\ Append(locks[r], lock) \in Seq(LockType)
      /\ Len(Append(locks[r], lock)) = n + 1
      /\ \A i \in 1 .. n : Append(locks[r], lock)[i] = locks[r][i]
      /\ Append(locks[r], lock)[n + 1] = lock
  BY <1>1, AppendProperties
<1>5. DOMAIN locks'[r] = 1 .. n + 1
  BY <1>3, <1>4, LenProperties
<1>6. locks' \in [Resources -> Seq(LockType)]
  BY <1>1, <1>4 DEF AddLock
<1>7. \A s \in Resources : s # r => locks'[s] = locks[s]
  BY <1>1 DEF AddLock
<1> QED
  BY <1>2, <1>3, <1>4, <1>5, <1>6, <1>7

\* The locks are right with it if it is of the resource's buffer, no lock discards that or what
\* it discards, and it is of a new buffer where every lock for writing discards.
LEMMA LockAddedRight ==
  ASSUME LockTypeOK, LocksInv, NEW r \in Resources,
         NEW flags \in Flags[r], NEW b \in BufferIds, NEW d \in BufferIds \cup {None},
         AddLock(r, Lock(flags, b, d)),
         \A s \in Resources : s # r =>
           bufferId'[s] = bufferId[s] /\ (s \in blank' <=> s \in blank),
         bufferId'[r] = b,
         d # b,
         \A i \in DOMAIN locks[r] : locks[r][i].discarded # b,
         d # None => \A i \in DOMAIN locks[r] : locks[r][i].discarded # d,
         "readonly" \in flags /\ r \notin blank' => b = bufferId[r] /\ r \notin blank,
         {} \notin Flags[r] /\ "readonly" \notin flags =>
           \A i \in DOMAIN locks[r] : locks[r][i].bufferId # b
  PROVE  LocksInv'
<1> PICK n : n = Len(locks[r])
  OBVIOUS
<1> PICK lock : lock = Lock(flags, b, d)
  OBVIOUS
<1>1. lock \in LockType /\ lock.flags = flags /\ lock.bufferId = b /\ lock.discarded = d
  BY DEF Lock, LockType
<1>2. /\ n \in Nat /\ DOMAIN locks[r] = 1 .. n
      /\ locks' \in [Resources -> Seq(LockType)]
      /\ \A s \in Resources : s # r => locks'[s] = locks[s]
      /\ DOMAIN locks'[r] = 1 .. n + 1
      /\ \A i \in 1 .. n : locks'[r][i] = locks[r][i]
      /\ locks'[r][n + 1] = lock
  <2>1. AddLock(r, lock)
    OBVIOUS
  <2> QED
    BY <1>1, <2>1, LockAdded
<1>3. ASSUME NEW s \in Resources, s # r
      PROVE  LocksRight(s)'
  BY <1>2, <1>3, LocksStayRight DEF LocksInv
<1>4. \A i \in 1 .. n + 1 : i \in 1 .. n \/ i = n + 1
  BY <1>2, SMT
<1>5. /\ \A i, j \in 1 .. n : i <= j => locks[r][i].discarded # locks[r][j].bufferId
      /\ \A i, j \in 1 .. n :
           i < j /\ locks[r][i].discarded # None => locks[r][i].discarded # locks[r][j].discarded
      /\ bufferId[r] # None /\ r \notin blank =>
           \A i \in Writing(r) : \E j \in Writing(r) : i <= j /\ locks[r][j].bufferId = bufferId[r]
      /\ {} \notin Flags[r] =>
           \A i, j \in Writing(r) : i # j => locks[r][i].bufferId # locks[r][j].bufferId
  BY <1>2 DEF LocksInv, LocksRight
<1>6. \A i \in 1 .. n : locks[r][i].bufferId \in BufferIds
  BY <1>2, LocksTyped
<1>7. ASSUME NEW i \in 1 .. n + 1, NEW j \in 1 .. n + 1, i <= j
      PROVE  locks'[r][i].discarded # locks'[r][j].bufferId
  <2>1. CASE i \in 1 .. n /\ j \in 1 .. n
    BY <1>2, <1>5, <1>7, <2>1
  <2>2. CASE i \in 1 .. n /\ j = n + 1
    BY <1>1, <1>2, <2>2
  <2>3. CASE i = n + 1
    <3>1. j = n + 1
      BY <1>2, <1>7, <2>3, SMT
    <3> QED
      BY <1>1, <1>2, <2>3, <3>1
  <2> QED
    BY <1>4, <2>1, <2>2, <2>3
<1>8. ASSUME NEW i \in 1 .. n + 1, NEW j \in 1 .. n + 1, i < j, locks'[r][i].discarded # None
      PROVE  locks'[r][i].discarded # locks'[r][j].discarded
  <2>1. CASE i \in 1 .. n /\ j \in 1 .. n
    BY <1>2, <1>5, <1>8, <2>1
  <2>2. CASE i \in 1 .. n /\ j = n + 1
    BY <1>1, <1>2, <1>8, <2>2
  <2>3. CASE i = n + 1
    BY <1>2, <1>8, <2>3, SMT
  <2> QED
    BY <1>4, <2>1, <2>2, <2>3
<1>9. ASSUME NEW i \in 1 .. n + 1, locks'[r][i].discarded # None
      PROVE  locks'[r][i].discarded # bufferId'[r]
  <2>1. CASE i \in 1 .. n
    BY <1>2, <1>9, <2>1
  <2>2. CASE i = n + 1
    BY <1>1, <1>2, <1>9, <2>2
  <2> QED
    BY <1>4, <2>1, <2>2
<1>10. Writing(r) \subseteq Writing(r)' /\ \A i \in Writing(r)' : i \in Writing(r) \/ (i = n + 1 /\ "readonly" \notin flags)
  <2>1. ASSUME NEW i \in Writing(r)
        PROVE  i \in Writing(r)'
    <3>1. i \in 1 .. n /\ "readonly" \notin locks[r][i].flags
      BY <1>2 DEF Writing
    <3>2. i \in 1 .. n + 1
      BY <1>2, <3>1, SMT
    <3> QED
      BY <1>2, <3>1, <3>2 DEF Writing
  <2>2. ASSUME NEW i \in Writing(r)'
        PROVE  i \in Writing(r) \/ (i = n + 1 /\ "readonly" \notin flags)
    <3>1. i \in 1 .. n + 1 /\ "readonly" \notin locks'[r][i].flags
      BY <1>2 DEF Writing
    <3>2. CASE i \in 1 .. n
      <4>1. i \in DOMAIN locks[r]
        BY <1>2, <3>2
      <4>2. locks'[r][i] = locks[r][i]
        BY <1>2, <3>2
      <4> QED
        BY <3>1, <4>1, <4>2 DEF Writing
    <3>3. CASE i = n + 1
      BY <1>1, <1>2, <3>1, <3>3
    <3> QED
      BY <1>4, <3>1, <3>2, <3>3
  <2> QED
    BY <2>1, <2>2
<1>11. ASSUME NEW i \in Writing(r)', r \notin blank'
       PROVE  \E j \in Writing(r)' : i <= j /\ locks'[r][j].bufferId = bufferId'[r]
  <2>0. i \in 1 .. n + 1
    BY <1>2 DEF Writing
  <2>1. CASE "readonly" \notin flags
    <3>1. n + 1 \in Writing(r)'
      <4>1. n + 1 \in 1 .. n + 1
        BY <1>2, SMT
      <4> QED
        BY <1>1, <1>2, <2>1, <4>1 DEF Writing
    <3>2. i <= n + 1
      BY <1>2, <2>0, SMT
    <3> QED
      BY <1>1, <1>2, <3>1, <3>2
  <2>2. CASE "readonly" \in flags
    <3>1. i \in Writing(r) /\ bufferId[r] = b /\ b # None /\ r \notin blank
      BY <1>10, <1>11, <2>2
    <3>2. PICK j \in Writing(r) : i <= j /\ locks[r][j].bufferId = b
      BY <1>5, <3>1
    <3>3. j \in 1 .. n
      BY <1>2, <3>2 DEF Writing
    <3> QED
      BY <1>2, <1>10, <3>2, <3>3
  <2> QED
    BY <2>1, <2>2
<1>12. ASSUME {} \notin Flags[r], NEW i \in Writing(r)', NEW j \in Writing(r)', i # j
       PROVE  locks'[r][i].bufferId # locks'[r][j].bufferId
  <2>1. Writing(r) \subseteq 1 .. n
    BY <1>2 DEF Writing
  <2>2. CASE i \in Writing(r) /\ j \in Writing(r)
    BY <1>2, <1>5, <1>12, <2>1, <2>2
  <2>3. CASE i \in Writing(r) /\ j = n + 1 /\ "readonly" \notin flags
    BY <1>1, <1>2, <1>12, <2>1, <2>3
  <2>4. CASE j \in Writing(r) /\ i = n + 1 /\ "readonly" \notin flags
    BY <1>1, <1>2, <1>12, <2>1, <2>4
  <2> QED
    BY <1>10, <1>12, <2>2, <2>3, <2>4
<1>13. LocksRight(r)'
  <2>1. \A i, j \in DOMAIN locks'[r] : i <= j => locks'[r][i].discarded # locks'[r][j].bufferId
    BY <1>2, <1>7
  <2>2. \A i, j \in DOMAIN locks'[r] :
          i < j /\ locks'[r][i].discarded # None => locks'[r][i].discarded # locks'[r][j].discarded
    BY <1>2, <1>8
  <2>3. \A i \in DOMAIN locks'[r] :
          locks'[r][i].discarded # None => locks'[r][i].discarded # bufferId'[r]
    BY <1>2, <1>9
  <2>4. r \notin blank' =>
          \A i \in Writing(r)' : \E j \in Writing(r)' : i <= j /\ locks'[r][j].bufferId = bufferId'[r]
    BY <1>11
  <2>5. {} \notin Flags[r] =>
          \A i, j \in Writing(r)' : i # j => locks'[r][i].bufferId # locks'[r][j].bufferId
    BY <1>12
  <2> QED
    BY <2>1, <2>2, <2>3, <2>4, <2>5 DEF LocksRight
<1> QED
  BY <1>3, <1>13 DEF LocksInv

\* A lock keeps what a resource uses, but for a new buffer.
UsesAfterLock(r, flags, b, d) ==
  /\ \A s \in Resources, x \in BufferIds : Uses(s, x)' => Uses(s, x) \/ (s = r /\ x = b)
  /\ \A s \in Resources : s # r => Writing(s)' = Writing(s)
  /\ Writing(r)' = {} => "readonly" \in flags /\ Writing(r) = {}
  /\ \A i \in Writing(r)' :
       \/ i \in Writing(r) /\ locks'[r][i] = locks[r][i]
       \/ locks'[r][i].bufferId = b /\ "readonly" \notin flags
  /\ \A s \in Resources : \A i \in DOMAIN locks[s] :
       i \in DOMAIN locks'[s] /\ locks'[s][i] = locks[s][i]
  /\ \A s \in Resources, x \in BufferIds :
       /\ Owns(s, x)' => Owns(s, x) \/ (s = r /\ x \in {b, d})
       /\ s # r /\ Owns(s, x) => Owns(s, x)'
       /\ Owns(r, x) => Owns(r, x)' \/ x = bufferId[r]
  /\ d \in BufferIds => Owns(r, d)'
  /\ Owns(r, b)'
  /\ locks' \in [Resources -> Seq(LockType)]
  /\ \A s \in Resources : \A i \in DOMAIN locks'[s] : locks'[s][i].flags \in Flags[s]

LEMMA IndexesGrow ==
  ASSUME NEW n \in Nat
  PROVE  /\ \A i \in 1 .. n + 1 : i \in 1 .. n \/ i = n + 1
         /\ \A i \in 1 .. n : i \in 1 .. n + 1
         /\ n + 1 \in 1 .. n + 1
OBVIOUS

LEMMA LockAddedUses ==
  ASSUME LockTypeOK, NEW r \in Resources,
         NEW flags \in Flags[r], NEW b \in BufferIds, NEW d \in BufferIds \cup {None},
         AddLock(r, Lock(flags, b, d)),
         \A s \in Resources : s # r =>
           bufferId'[s] = bufferId[s] /\ (s \in blank' <=> s \in blank),
         bufferId'[r] = b,
         d \in {bufferId[r], None}
  PROVE  UsesAfterLock(r, flags, b, d)
<1> PICK n : n = Len(locks[r])
  OBVIOUS
<1> PICK lock : lock = Lock(flags, b, d)
  OBVIOUS
<1>1. lock \in LockType /\ lock.flags = flags /\ lock.bufferId = b /\ lock.discarded = d
  BY DEF Lock, LockType
<1>2. /\ n \in Nat /\ DOMAIN locks[r] = 1 .. n
      /\ locks' \in [Resources -> Seq(LockType)]
      /\ \A s \in Resources : s # r => locks'[s] = locks[s]
      /\ DOMAIN locks'[r] = 1 .. n + 1
      /\ \A i \in 1 .. n : locks'[r][i] = locks[r][i]
      /\ locks'[r][n + 1] = lock
  <2>1. AddLock(r, lock)
    OBVIOUS
  <2> QED
    BY <1>1, <2>1, LockAdded
<1>3. /\ \A i \in 1 .. n + 1 : i \in 1 .. n \/ i = n + 1
      /\ \A i \in 1 .. n : i \in 1 .. n + 1
      /\ n + 1 \in 1 .. n + 1
  BY <1>2, IndexesGrow
<1>4. ASSUME NEW s \in Resources, s # r
      PROVE  Writing(s)' = Writing(s) /\ \A x : Uses(s, x)' <=> Uses(s, x)
  BY <1>2, <1>4, LocksStayRight
<1>5. ASSUME NEW x \in BufferIds, Uses(r, x)', x # b
      PROVE  Uses(r, x)
  <2>1. PICK i \in 1 .. n + 1 : locks'[r][i].bufferId = x \/ locks'[r][i].discarded = x
    BY <1>2, <1>5 DEF Uses
  <2>2. CASE i \in 1 .. n
    BY <1>2, <2>1, <2>2 DEF Uses
  <2>3. CASE i = n + 1
    BY <1>1, <1>2, <1>5, <2>1, <2>3 DEF Uses
  <2> QED
    BY <1>3, <2>2, <2>3
<1>6. ASSUME NEW i \in Writing(r)
      PROVE  i \in Writing(r)'
  BY <1>2, <1>3 DEF Writing
<1>7. ASSUME "readonly" \notin flags
      PROVE  n + 1 \in Writing(r)'
  BY <1>1, <1>2, <1>3, <1>7 DEF Writing
<1>8. ASSUME NEW i \in Writing(r)'
      PROVE  \/ i \in Writing(r) /\ locks'[r][i] = locks[r][i]
             \/ locks'[r][i].bufferId = b /\ "readonly" \notin flags
  <2>1. i \in 1 .. n + 1 /\ "readonly" \notin locks'[r][i].flags
    BY <1>2 DEF Writing
  <2>2. CASE i \in 1 .. n
    BY <1>2, <2>1, <2>2 DEF Writing
  <2>3. CASE i = n + 1
    BY <1>1, <1>2, <2>1, <2>3
  <2> QED
    BY <1>3, <2>1, <2>2, <2>3
<1>9. ASSUME NEW s \in Resources, NEW i \in DOMAIN locks[s]
      PROVE  i \in DOMAIN locks'[s] /\ locks'[s][i] = locks[s][i]
  <2>1. CASE s = r
    BY <1>2, <1>3, <1>9, <2>1
  <2>2. CASE s # r
    BY <1>2, <1>9, <2>2
  <2> QED
    BY <2>1, <2>2
<1>10. ASSUME NEW s \in Resources, NEW i \in DOMAIN locks'[s]
       PROVE  locks'[s][i].flags \in Flags[s]
  <2>1. CASE s = r
    <3>1. CASE i \in 1 .. n
      BY <1>2, <1>10, <2>1, <3>1, LocksTyped
    <3>2. CASE i = n + 1
      BY <1>1, <1>2, <2>1, <3>2
    <3> QED
      BY <1>2, <1>3, <1>10, <2>1, <3>1, <3>2
  <2>2. CASE s # r
    BY <1>2, <1>10, <2>2 DEF LockTypeOK
  <2> QED
    BY <2>1, <2>2
<1>11. \E i \in DOMAIN locks'[r] : locks'[r][i].discarded = d
  BY <1>1, <1>2, <1>3
<1>12. Writing(r)' = {} => "readonly" \in flags /\ Writing(r) = {}
  BY <1>6, <1>7
<1>13. ASSUME NEW s \in Resources, NEW x \in BufferIds, Uses(s, x)'
       PROVE  Uses(s, x) \/ (s = r /\ x = b)
  <2>1. CASE s = r
    BY <1>5, <1>13, <2>1
  <2>2. CASE s # r
    BY <1>4, <1>13, <2>2
  <2> QED
    BY <2>1, <2>2
<1>14. ASSUME NEW s \in Resources, NEW x \in BufferIds
       PROVE  /\ Owns(s, x)' => Owns(s, x) \/ (s = r /\ x \in {b, d})
              /\ s # r /\ Owns(s, x) => Owns(s, x)'
              /\ Owns(r, x) => Owns(r, x)' \/ x = bufferId[r]
  <2>1. s # r => (Owns(s, x)' <=> Owns(s, x))
    BY <1>2, OwnersSame
  <2>2. ASSUME NEW i \in 1 .. n + 1, locks'[r][i].discarded = x
        PROVE  Owns(r, x) \/ x = d
    <3>1. CASE i \in 1 .. n
      BY <1>2, <2>2, <3>1 DEF Owns
    <3>2. CASE i = n + 1
      BY <1>1, <1>2, <2>2, <3>2
    <3> QED
      BY <1>3, <3>1, <3>2
  <2>3. Owns(r, x)' => Owns(r, x) \/ x \in {b, d}
    BY <1>2, <2>2 DEF Owns
  <2>4. Owns(r, x) => Owns(r, x)' \/ x = bufferId[r]
    BY <1>9 DEF Owns
  <2> QED
    BY <2>1, <2>3, <2>4
<1>15. (d \in BufferIds => Owns(r, d)') /\ Owns(r, b)'
  BY <1>11 DEF Owns
<1> QED
  BY <1>2, <1>4, <1>8, <1>9, <1>10, <1>12, <1>13, <1>14, <1>15 DEF UsesAfterLock

\* lock, of the buffer the resource has.
LEMMA LockBufferKeeps ==
  ASSUME LockInv, NEW r \in Resources, NEW flags \in Flags[r], LockBuffer(r, flags)
  PROVE  LockInv'
<1>0. /\ LockTypeOK /\ PlacesInv /\ OwnersInv /\ LocksInv /\ CopiesInv /\ DeallocsInv
      /\ CurrentInv /\ LostInThreeWays
  BY DEF LockInv
<1>1. /\ "discard" \notin flags /\ bufferId[r] \in BufferIds
      /\ flags \subseteq {"discard", "readonly"}
      /\ locks' = [locks EXCEPT ![r] = Append(@, Lock(flags, bufferId[r], None))]
      /\ blank' = IF "readonly" \in flags THEN blank ELSE blank \ {r}
      /\ UNCHANGED <<heapVars, bufferId, content, writes, commands, serverCopy, lost>>
  BY <1>0 DEF LockBuffer, NeedsBuffer, LockTypeOK
<1> PICK b \in BufferIds : b = bufferId[r]
  BY <1>1
<1>2. /\ AddLock(r, Lock(flags, b, None)) /\ bufferId'[r] = b
      /\ \A s \in Resources : s # r =>
           bufferId'[s] = bufferId[s] /\ (s \in blank' <=> s \in blank)
  BY <1>1 DEF AddLock
<1>3. /\ \A s \in Resources, x \in BufferIds : Uses(s, x)' => Uses(s, x) \/ (s = r /\ x = b)
      /\ \A s \in Resources : s # r => Writing(s)' = Writing(s)
      /\ Writing(r)' = {} => "readonly" \in flags /\ Writing(r) = {}
      /\ \A i \in Writing(r)' :
           \/ i \in Writing(r) /\ locks'[r][i] = locks[r][i]
           \/ locks'[r][i].bufferId = b /\ "readonly" \notin flags
      /\ \A s \in Resources : \A i \in DOMAIN locks[s] :
           i \in DOMAIN locks'[s] /\ locks'[s][i] = locks[s][i]
      /\ \A s \in Resources, x \in BufferIds :
           /\ Owns(s, x)' => Owns(s, x) \/ (s = r /\ x \in {b, None})
           /\ s # r /\ Owns(s, x) => Owns(s, x)'
           /\ Owns(r, x) => Owns(r, x)' \/ x = bufferId[r]
      /\ Owns(r, b)'
      /\ locks' \in [Resources -> Seq(LockType)]
      /\ \A s \in Resources : \A i \in DOMAIN locks'[s] : locks'[s][i].flags \in Flags[s]
  <2>1. UsesAfterLock(r, flags, b, None)
    BY <1>0, <1>2, LockAddedUses
  <2> QED
    BY <2>1 DEF UsesAfterLock
<1>4. \A s \in Resources, x \in BufferIds : Uses(s, x)' => Uses(s, x)
  BY <1>3 DEF Uses
<1>5. HeapStep /\ HeapType /\ UNCHANGED <<lease, place>>
  BY <1>0, <1>1 DEF HeapStep, heapVars, LockTypeOK
<1>6. LockTypeOK'
  BY <1>0, <1>1, <1>3, <1>5 DEF LockTypeOK, HeapType
<1>7. PlacesInv'
  BY <1>0, <1>5, HeapKeepsPlaces
<1>8. OwnersInv'
  BY <1>0, <1>4, <1>5 DEF OwnersInv
<1>9. LocksInv'
  <2>1. \A i \in DOMAIN locks[r] : locks[r][i].discarded # b
    BY <1>0 DEF LocksInv, LocksRight
  <2>2. {} \notin Flags[r] => "readonly" \in flags
    BY <1>1
  <2> QED
    BY <1>0, <1>1, <1>2, <2>1, <2>2, LockAddedRight
<1>10. CopiesInv' /\ DeallocsInv'
  <2>1. ASSUME NEW s \in Resources, {} \notin Flags[s], NEW i \in Writing(s)'
        PROVE  \E j \in Writing(s) : locks'[s][i].bufferId = locks[s][j].bufferId
    <3>1. CASE s = r
      <4>1. "readonly" \in flags
        BY <1>1, <2>1, <3>1
      <4> QED
        BY <1>3, <2>1, <3>1, <4>1
    <3>2. CASE s # r
      <4>1. i \in Writing(s)
        BY <1>3, <2>1, <3>2
      <4>2. locks'[s][i] = locks[s][i]
        BY <1>3, <4>1 DEF Writing
      <4> QED
        BY <4>1, <4>2
    <3> QED
      BY <3>1, <3>2
  <2> QED
    BY <1>0, <1>1, <1>4, <1>5, <2>1, QueueStays
<1>11. CurrentInv'
  <2>1. ASSUME NEW s \in Resources, NEW x \in BufferIds, bufferId'[s] = x, s \notin blank',
               Writing(s)' = {}
        PROVE  bufferId[s] = x /\ s \notin blank /\ Writing(s) = {} /\ Data(x)' = Data(x)
    <3>1. bufferId[s] = x /\ s \notin blank /\ Writing(s) = {}
      BY <1>1, <1>2, <1>3, <2>1
    <3>2. Data(x)' = Data(x)
      BY <1>1, <1>5 DEF Data
    <3> QED
      BY <3>1, <3>2
  <2> QED
    BY <1>0, <1>1, <2>1, CurrentStays
<1>12. LostInThreeWays'
  <2>1. ASSUME NEW s \in Resources, NEW x \in BufferIds
        PROVE  Owns(s, x)' <=> Owns(s, x)
    <3>1. Owns(r, b) /\ x # None
      BY DEF Owns
    <3> QED
      BY <1>3, <3>1
  <2> QED
    BY <1>0, <1>1, <1>5, <2>1, LostStays
<1> QED
  BY <1>6, <1>7, <1>8, <1>9, <1>10, <1>11, <1>12 DEF LockInv

\* lock, with a new buffer: the one the resource had is left to the lock to give up.
LEMMA LockNewBufferKeeps ==
  ASSUME LockInv, NEW r \in Resources, NEW flags \in Flags[r], NEW new \in BufferIds,
         NEW p \in Places, LockNewBuffer(r, flags, new, p)
  PROVE  LockInv'
<1>0. /\ LockTypeOK /\ PlacesInv /\ OwnersInv /\ LocksInv /\ CopiesInv /\ DeallocsInv
      /\ CurrentInv /\ LostInThreeWays
  BY DEF LockInv
<1>1. /\ "discard" \in flags \/ bufferId[r] = None
      /\ bufferId' = [bufferId EXCEPT ![r] = new]
      /\ blank' = IF "readonly" \in flags THEN blank \cup {r} ELSE blank \ {r}
      /\ UNCHANGED <<content, writes, commands, serverCopy, lost>>
      /\ HeapAllocate(new, {p})
      /\ bufferId \in [Resources -> BufferIds \cup {None}]
  BY <1>0 DEF LockNewBuffer, MayLock, NeedsBuffer, LockTypeOK
<1> PICK d : d = Discarded(r, flags)
  OBVIOUS
<1>2. /\ d \in BufferIds \cup {None} /\ d \in {bufferId[r], None}
      /\ bufferId[r] # None => d = bufferId[r]
  BY <1>1 DEF Discarded
<1>3. AddLock(r, Lock(flags, new, d)) /\ bufferId'[r] = new
      /\ \A s \in Resources : s # r =>
           bufferId'[s] = bufferId[s] /\ (s \in blank' <=> s \in blank)
  BY <1>1 DEF AddLock, LockNewBuffer
<1>4. /\ HeapStep /\ HeapType /\ lease[new] = "unused"
      /\ lease' = [lease EXCEPT ![new] = "held"]
      /\ \A x \in BufferIds : x # new => lease'[x] = lease[x]
      /\ lease'[new] = "held"
  BY <1>0, <1>1 DEF HeapStep, HeapAllocate, LockTypeOK, HeapType
<1>5. /\ \A s \in Resources, x \in BufferIds : Uses(s, x)' => Uses(s, x) \/ (s = r /\ x = new)
      /\ \A s \in Resources : s # r => Writing(s)' = Writing(s)
      /\ r \notin blank' => Writing(r)' # {}
      /\ \A i \in Writing(r)' :
           \/ i \in Writing(r) /\ locks'[r][i] = locks[r][i]
           \/ locks'[r][i].bufferId = new
      /\ \A s \in Resources : \A i \in DOMAIN locks[s] :
           i \in DOMAIN locks'[s] /\ locks'[s][i] = locks[s][i]
      /\ \A s \in Resources, x \in BufferIds :
           /\ Owns(s, x)' => Owns(s, x) \/ (s = r /\ x \in {new, d})
           /\ s # r /\ Owns(s, x) => Owns(s, x)'
           /\ Owns(r, x) => Owns(r, x)' \/ x = bufferId[r]
      /\ d \in BufferIds => Owns(r, d)'
      /\ Owns(r, new)'
      /\ locks' \in [Resources -> Seq(LockType)]
      /\ \A s \in Resources : \A i \in DOMAIN locks'[s] : locks'[s][i].flags \in Flags[s]
  <2>1. UsesAfterLock(r, flags, new, d)
    BY <1>0, <1>2, <1>3, LockAddedUses
  <2>2. r \notin blank' => "readonly" \notin flags
    BY <1>1
  <2> QED
    BY <2>1, <2>2 DEF UsesAfterLock
<1>6. \A s \in Resources : ~Uses(s, new)
  BY <1>0, <1>4 DEF OwnersInv
<1>7. PlacesInv' /\ HeapType'
  BY <1>0, <1>4, HeapKeepsPlaces
<1>8. LockTypeOK'
  BY <1>0, <1>1, <1>5, <1>7 DEF LockTypeOK
<1>9. OwnersInv'
  <2>1. ASSUME NEW s \in Resources, NEW x \in BufferIds, Uses(s, x)'
        PROVE  lease'[x] = "held"
    BY <1>0, <1>4, <1>5, <2>1 DEF OwnersInv
  <2>2. ASSUME NEW s \in Resources, NEW t \in Resources, NEW x \in BufferIds, Uses(s, x)', Uses(t, x)'
        PROVE  s = t
    <3>1. CASE x = new
      BY <1>5, <1>6, <2>2, <3>1
    <3>2. CASE x # new
      BY <1>0, <1>5, <2>2, <3>2 DEF OwnersInv
    <3> QED
      BY <3>1, <3>2
  <2> QED
    BY <2>1, <2>2 DEF OwnersInv
<1>10. LocksInv'
  <2>1. \A i \in DOMAIN locks[r] : locks[r][i].discarded # new /\ locks[r][i].bufferId # new
    BY <1>6 DEF Uses
  <2>2. d # new
    <3>1. bufferId[r] # new
      BY <1>6 DEF Uses
    <3> QED
      BY <1>2, <3>1
  <2>3. \A i \in DOMAIN locks[r] : d # None => locks[r][i].discarded # d
    BY <1>0, <1>2 DEF LocksInv, LocksRight
  <2>4. "readonly" \in flags => r \in blank'
    BY <1>1
  <2> QED
    BY <1>0, <1>2, <1>3, <2>1, <2>2, <2>3, <2>4, LockAddedRight
<1>11. CopiesInv' /\ DeallocsInv'
  <2>1. ASSUME NEW s \in Resources, NEW i \in Writing(s)'
        PROVE  \/ \E j \in Writing(s) : locks'[s][i].bufferId = locks[s][j].bufferId
               \/ lease[locks'[s][i].bufferId] = "unused"
    <3>1. CASE s = r
      BY <1>4, <1>5, <2>1, <3>1
    <3>2. CASE s # r
      <4>1. i \in Writing(s)
        BY <1>5, <2>1, <3>2
      <4>2. locks'[s][i] = locks[s][i]
        BY <1>5, <4>1 DEF Writing
      <4> QED
        BY <4>1, <4>2
    <3> QED
      BY <3>1, <3>2
  <2>2. \A s \in Resources : \A x \in BufferIds : Uses(s, x)' => Uses(s, x) \/ lease[x] = "unused"
    BY <1>4, <1>5
  <2>3. \A x \in BufferIds : lease[x] \in {"held", "released"} => lease'[x] = lease[x]
    BY <1>4
  <2> QED
    BY <1>0, <1>1, <1>4, <2>1, <2>2, <2>3, QueueStays
<1>12. CurrentInv'
  <2>1. ASSUME NEW s \in Resources, NEW x \in BufferIds, bufferId'[s] = x, s \notin blank',
               Writing(s)' = {}
        PROVE  bufferId[s] = x /\ s \notin blank /\ Writing(s) = {} /\ Data(x)' = Data(x)
    <3>1. s # r /\ bufferId[s] = x /\ s \notin blank /\ Writing(s) = {}
      BY <1>3, <1>5, <2>1
    <3>2. lease[x] = "held"
      BY <1>0, <3>1 DEF OwnersInv, Uses
    <3>3. Data(x)' = Data(x)
      BY <1>0, <1>1, <1>4, <3>2, DataStays
    <3> QED
      BY <3>1, <3>3
  <2> QED
    BY <1>0, <1>1, <2>1, CurrentStays
<1>13. LostInThreeWays'
  <2> SUFFICES ASSUME NEW x \in BufferIds
               PROVE  x \in lost' <=> lease'[x] = "held" /\ \A s \in Resources : ~Owns(s, x)'
    BY <1>0, <1>1, LostIs
  <2>1. x \in lost <=> lease[x] = "held" /\ \A s \in Resources : ~Owns(s, x)
    BY <1>0, LostIs
  <2>2. CASE x = new
    BY <1>1, <1>4, <1>5, <2>1, <2>2
  <2>3. CASE x # new
    <3>1. lease'[x] = lease[x]
      BY <1>4, <2>3
    <3>2. x = bufferId[r] => Owns(r, x) /\ x = d
      BY <1>2 DEF Owns
    <3>3. x = d => x = bufferId[r]
      BY <1>2
    <3>4. ASSUME NEW s \in Resources
          PROVE  Owns(s, x)' <=> Owns(s, x)
      BY <1>5, <2>3, <3>2, <3>3
    <3> QED
      BY <1>1, <2>1, <3>1, <3>4
  <2> QED
    BY <2>2, <2>3
<1> QED
  BY <1>7, <1>8, <1>9, <1>10, <1>11, <1>12, <1>13 DEF LockInv

\* lock, without room in the heap.
LEMMA LockFailsKeeps ==
  ASSUME LockInv, NEW r \in Resources, NEW flags \in Flags[r], LockFails(r, flags)
  PROVE  LockInv'
<1>0. /\ LockTypeOK /\ PlacesInv /\ OwnersInv /\ LocksInv /\ CopiesInv /\ DeallocsInv
      /\ CurrentInv /\ LostInThreeWays
  BY DEF LockInv
<1>1. /\ bufferId' = [bufferId EXCEPT ![r] = None]
      /\ lost' = lost \cup ({bufferId[r]} \ {None})
      /\ UNCHANGED <<heapVars, locks, content, writes, commands, serverCopy, blank>>
      /\ bufferId \in [Resources -> BufferIds \cup {None}]
  BY <1>0 DEF LockFails, LockTypeOK
<1>2. /\ HeapStep /\ HeapType /\ UNCHANGED <<lease, place>>
      /\ \A s \in Resources : bufferId'[s] = IF s = r THEN None ELSE bufferId[s]
  BY <1>0, <1>1 DEF HeapStep, heapVars, LockTypeOK
<1>3. \A s \in Resources, x \in BufferIds : Uses(s, x)' => Uses(s, x)
  BY <1>1, <1>2 DEF Uses
<1>4. \A s \in Resources : Writing(s)' = Writing(s)
  BY <1>1 DEF Writing
<1>5. LockTypeOK'
  BY <1>0, <1>1, <1>2 DEF LockTypeOK, HeapType
<1>6. PlacesInv'
  BY <1>0, <1>2, HeapKeepsPlaces
<1>7. OwnersInv'
  BY <1>0, <1>2, <1>3 DEF OwnersInv
<1>8. LocksInv'
  <2>1. ASSUME NEW s \in Resources, s # r
        PROVE  LocksRight(s)'
    BY <1>0, <1>1, <1>2, <2>1, LocksStayRight DEF LocksInv
  <2>2. LocksRight(r)'
    <3>1. bufferId'[r] = None
      BY <1>2
    <3> QED
      BY <1>0, <1>1, <1>4, <3>1 DEF LocksInv, LocksRight
  <2> QED
    BY <2>1, <2>2 DEF LocksInv
<1>9. CopiesInv' /\ DeallocsInv'
  <2>1. \A s \in Resources : {} \notin Flags[s] =>
          \A i \in Writing(s)' : \E j \in Writing(s) : locks'[s][i].bufferId = locks[s][j].bufferId
    BY <1>1, <1>4
  <2> QED
    BY <1>0, <1>1, <1>2, <1>3, <2>1, QueueStays
<1>10. CurrentInv'
  <2>1. ASSUME NEW s \in Resources, NEW x \in BufferIds, bufferId'[s] = x, s \notin blank',
               Writing(s)' = {}
        PROVE  bufferId[s] = x /\ s \notin blank /\ Writing(s) = {} /\ Data(x)' = Data(x)
    <3>1. bufferId[s] = x /\ s \notin blank /\ Writing(s) = {}
      BY <1>1, <1>2, <1>4, <2>1
    <3>2. Data(x)' = Data(x)
      BY <1>1, <1>2 DEF Data
    <3> QED
      BY <3>1, <3>2
  <2> QED
    BY <1>0, <1>1, <2>1, CurrentStays
<1>11. LostInThreeWays'
  <2>0. lost' \subseteq BufferIds
    BY <1>0, <1>1, LostIs
  <2> SUFFICES ASSUME NEW x \in BufferIds
               PROVE  x \in lost' <=> lease'[x] = "held" /\ \A s \in Resources : ~Owns(s, x)'
    BY <2>0, LostIs
  <2>1. x \in lost <=> lease[x] = "held" /\ \A s \in Resources : ~Owns(s, x)
    BY <1>0, LostIs
  <2>2. \A s \in Resources : Owns(s, x)' <=> Owns(s, x) /\ ~(s = r /\ x = bufferId[r])
    <3>1. ASSUME NEW s \in Resources, s # r
          PROVE  Owns(s, x)' <=> Owns(s, x)
      BY <1>1, <1>2, <3>1, OwnersSame
    <3>2. bufferId'[r] # x
      BY <1>2
    <3>3. x = bufferId[r] => \A i \in DOMAIN locks[r] : locks[r][i].discarded # x
      BY <1>0 DEF LocksInv, LocksRight
    <3>4. Owns(r, x)' <=> Owns(r, x) /\ x # bufferId[r]
      BY <1>1, <3>2, <3>3 DEF Owns
    <3> QED
      BY <3>1, <3>4
  <2>3. CASE x = bufferId[r]
    <3>1. Owns(r, x) /\ Uses(r, x)
      BY <2>3 DEF Owns, Uses
    <3>2. lease[x] = "held" /\ \A s \in Resources : Owns(s, x) => s = r
      BY <1>0, <3>1, OwnedIsUsed DEF OwnersInv
    <3> QED
      BY <1>1, <1>2, <2>2, <2>3, <3>2
  <2>4. CASE x # bufferId[r]
    BY <1>1, <1>2, <2>1, <2>2, <2>4
  <2> QED
    BY <2>3, <2>4
<1> QED
  BY <1>5, <1>6, <1>7, <1>8, <1>9, <1>10, <1>11 DEF LockInv

\* A write changes the data of one buffer: of no copy that has to find what was written
\* before, and of no resource that nobody writes to.
LEMMA WriteKeeps ==
  ASSUME LockInv, NEW r \in Resources, Write(r)
  PROVE  LockInv'
<1>0. /\ LockTypeOK /\ PlacesInv /\ OwnersInv /\ LocksInv /\ CopiesInv /\ DeallocsInv
      /\ CurrentInv /\ LostInThreeWays
  BY DEF LockInv
<1>1. PICK i \in DOMAIN locks[r] :
        /\ "readonly" \notin locks[r][i].flags
        /\ content' = [p \in Places |-> IF p \in place[locks[r][i].bufferId] THEN writes'
                                        ELSE content[p]]
  BY DEF Write
<1>2. /\ UNCHANGED <<heapVars, bufferId, locks, commands, serverCopy, blank, lost>>
      /\ writes' = writes + 1 /\ writes < MaxWrites
  BY DEF Write
<1> PICK b : b = locks[r][i].bufferId
  OBVIOUS
<1>3. b \in BufferIds /\ Uses(r, b) /\ i \in Writing(r)
  BY <1>0, <1>1, LocksTyped DEF Uses, Writing
<1>4. /\ HeapStep /\ HeapType /\ UNCHANGED <<lease, place>>
      /\ \A s \in Resources : Writing(s)' = Writing(s)
      /\ \A s \in Resources, x \in BufferIds : Uses(s, x)' <=> Uses(s, x)
  BY <1>0, <1>2 DEF HeapStep, heapVars, LockTypeOK, Writing, Uses
<1>5. ASSUME NEW x \in BufferIds, x # b, lease[x] \in {"held", "released"}
      PROVE  Data(x)' = Data(x)
  <2>1. PICK p \in Places : place[x] = {p}
    BY <1>0, <1>5 DEF PlacesInv
  <2>2. p \notin place[b]
    BY <1>0, <1>3, <1>5, <2>1 DEF PlacesInv
  <2>3. Data(x) = content[p] /\ Data(x)' = content'[p]
    BY <1>4, <2>1, PlaceChosen DEF Data
  <2> QED
    BY <1>1, <2>2, <2>3
<1>6. LockTypeOK'
  <2>1. writes' \in 0 .. MaxWrites
    BY <1>0, <1>2, SMT DEF LockTypeOK
  <2>2. content' \in [Places -> 0 .. MaxWrites]
    BY <1>0, <1>1, <2>1 DEF LockTypeOK
  <2> QED
    BY <1>0, <1>2, <1>4, <2>1, <2>2 DEF LockTypeOK, HeapType
<1>7. PlacesInv' /\ OwnersInv' /\ LostInThreeWays'
  <2>1. PlacesInv'
    BY <1>0, <1>4, HeapKeepsPlaces
  <2>2. OwnersInv'
    BY <1>0, <1>4 DEF OwnersInv
  <2>3. LostInThreeWays'
    BY <1>0, <1>2, <1>4, OwnersSame, LostStays
  <2> QED
    BY <2>1, <2>2, <2>3
<1>8. LocksInv'
  BY <1>0, <1>2, LocksStayRight DEF LocksInv
<1>9. ASSUME NEW s \in Resources, NEW x \in BufferIds, NEW wrote, CopyRight(s, x, wrote)
      PROVE  CopyRight(s, x, wrote)'
  <2>1. /\ lease[x] \in {"held", "released"}
        /\ \A t \in Resources : Uses(t, x) => t = s
        /\ {} \notin Flags[s] =>
             Data(x) = wrote /\ \A j \in Writing(s) : locks[s][j].bufferId # x
    BY <1>9 DEF CopyRight
  <2>2. ASSUME {} \notin Flags[s]
        PROVE  Data(x)' = wrote /\ \A j \in Writing(s)' : locks'[s][j].bufferId # x
    <3>1. x # b
      BY <1>3, <2>1, <2>2
    <3>2. Data(x)' = Data(x)
      BY <1>5, <2>1, <3>1
    <3> QED
      BY <1>2, <1>4, <2>1, <2>2, <3>2
  <2> QED
    BY <1>4, <2>1, <2>2 DEF CopyRight
<1>10. CopiesInv' /\ DeallocsInv'
  <2>1. CopiesInv'
    BY <1>0, <1>2, <1>9 DEF CopiesInv, CopyCmd
  <2>2. DeallocsInv'
    BY <1>0, <1>2, <1>4 DEF DeallocsInv, DeallocCmd
  <2> QED
    BY <2>1, <2>2
<1>11. CurrentInv'
  <2>1. ASSUME NEW s \in Resources, NEW x \in BufferIds, bufferId'[s] = x, s \notin blank',
               Writing(s)' = {}
        PROVE  bufferId[s] = x /\ s \notin blank /\ Writing(s) = {} /\ Data(x)' = Data(x)
    <3>1. bufferId[s] = x /\ s \notin blank /\ Writing(s) = {}
      BY <1>2, <1>4, <2>1
    <3>2. s # r /\ Uses(s, x)
      BY <1>3, <3>1 DEF Uses
    <3>3. x # b /\ lease[x] = "held"
      BY <1>0, <1>3, <3>2 DEF OwnersInv
    <3> QED
      BY <1>5, <3>1, <3>3
  <2> QED
    BY <1>0, <1>2, <2>1, CurrentStays
<1> QED
  BY <1>6, <1>7, <1>8, <1>10, <1>11 DEF LockInv

\* The heap takes a buffer back that everybody has let go.
LEMMA ReclaimKeeps ==
  ASSUME LockInv, NEW id \in BufferIds, Reclaim(id)
  PROVE  LockInv'
<1>0. /\ LockTypeOK /\ PlacesInv /\ OwnersInv /\ LocksInv /\ CopiesInv /\ DeallocsInv
      /\ CurrentInv /\ LostInThreeWays
  BY DEF LockInv
<1>1. /\ UNCHANGED <<bufferId, locks, content, writes, commands, serverCopy, blank, lost>>
      /\ lease[id] = "done" /\ lease' = [lease EXCEPT ![id] = "reclaimed"]
      /\ HeapStep /\ HeapType
  BY <1>0 DEF Reclaim, lockVars, HeapReclaim, HeapStep, LockTypeOK
<1>2. \A x \in BufferIds : x # id => lease'[x] = lease[x]
  BY <1>1 DEF HeapType
<1>3. /\ lease'[id] = "reclaimed"
      /\ \A s \in Resources : Writing(s)' = Writing(s)
      /\ \A s \in Resources, x \in BufferIds : Uses(s, x)' <=> Uses(s, x)
  BY <1>1 DEF HeapType, Writing, Uses
<1>4. PlacesInv' /\ HeapType'
  BY <1>0, <1>1, HeapKeepsPlaces
<1>5. LockTypeOK'
  BY <1>0, <1>1, <1>4 DEF LockTypeOK
<1>6. OwnersInv'
  BY <1>0, <1>1, <1>2, <1>3 DEF OwnersInv
<1>7. LocksInv'
  BY <1>0, <1>1, LocksStayRight DEF LocksInv
<1>8. CopiesInv' /\ DeallocsInv'
  <2>1. \A s \in Resources : \A i \in Writing(s)' :
          \E j \in Writing(s) : locks'[s][i].bufferId = locks[s][j].bufferId
    BY <1>1, <1>3
  <2>2. \A x \in BufferIds : lease[x] \in {"held", "released"} => lease'[x] = lease[x]
    BY <1>1, <1>2
  <2> QED
    BY <1>0, <1>1, <1>3, <2>1, <2>2, QueueStays
<1>9. CurrentInv'
  <2>1. ASSUME NEW s \in Resources, NEW x \in BufferIds, bufferId'[s] = x, s \notin blank',
               Writing(s)' = {}
        PROVE  bufferId[s] = x /\ s \notin blank /\ Writing(s) = {} /\ Data(x)' = Data(x)
    <3>1. bufferId[s] = x /\ s \notin blank /\ Writing(s) = {}
      BY <1>1, <1>3, <2>1
    <3>2. lease[x] = "held"
      BY <1>0, <3>1 DEF OwnersInv, Uses
    <3> QED
      BY <1>0, <1>1, <3>1, <3>2, DataStays
  <2> QED
    BY <1>0, <1>1, <2>1, CurrentStays
<1>10. LostInThreeWays'
  BY <1>0, <1>1, <1>2, <1>3, OwnersSame, LostStays
<1> QED
  BY <1>4, <1>5, <1>6, <1>7, <1>8, <1>9, <1>10 DEF LockInv

\* The server takes the first command: the others move up.
LEMMA CommandTaken ==
  ASSUME LockTypeOK, commands # <<>>, commands' = Tail(commands), NEW n, n = Len(commands)
  PROVE  /\ n \in Nat \ {0} /\ DOMAIN commands = 1 .. n
         /\ Head(commands) = commands[1] /\ 1 \in 1 .. n
         /\ commands' \in Seq(CommandType) /\ DOMAIN commands' = 1 .. n - 1
         /\ \A k \in 1 .. n - 1 : k + 1 \in 1 .. n /\ commands'[k] = commands[k + 1]
         /\ \A s : \A k \in CopiesFor(s)' : k + 1 \in CopiesFor(s)
         /\ \A s : \A k \in CopiesFor(s) : k # 1 => k - 1 \in CopiesFor(s)' /\ commands'[k - 1] = commands[k]
<1>1. /\ commands \in Seq(CommandType) /\ n \in Nat \ {0} /\ DOMAIN commands = 1 .. n
  BY EmptySeq, LenProperties DEF LockTypeOK
<1>2. /\ commands' \in Seq(CommandType) /\ Len(commands') = n - 1
      /\ \A k \in 1 .. n - 1 : commands'[k] = commands[k + 1]
      /\ Head(commands) = commands[1]
  BY <1>1, HeadTailProperties
<1>3. DOMAIN commands' = 1 .. n - 1
  BY <1>2, LenProperties
<1>4. 1 \in 1 .. n /\ \A k \in 1 .. n - 1 : k + 1 \in 1 .. n
  BY <1>1, SMT
<1>5. ASSUME NEW s, NEW k \in CopiesFor(s)'
      PROVE  k + 1 \in CopiesFor(s)
  BY <1>1, <1>2, <1>3, <1>4 DEF CopiesFor
<1>6. ASSUME NEW s, NEW k \in CopiesFor(s), k # 1
      PROVE  k - 1 \in CopiesFor(s)' /\ commands'[k - 1] = commands[k]
  <2>1. k \in 1 .. n /\ commands[k].cmd = "Unlock" /\ commands[k].resource = s
    BY <1>1 DEF CopiesFor
  <2>2. k - 1 \in 1 .. n - 1 /\ (k - 1) + 1 = k
    BY <1>1, <1>6, <2>1, SMT
  <2>3. commands'[k - 1] = commands[k]
    BY <1>2, <2>2
  <2> QED
    BY <1>3, <2>1, <2>2, <2>3 DEF CopiesFor
<1> QED
  BY <1>1, <1>2, <1>3, <1>4, <1>5, <1>6

\* A resource none of whose copies was taken is as current as it was.
LEMMA CurrentAfterTaking ==
  ASSUME LockTypeOK, commands # <<>>, commands' = Tail(commands),
         NEW s \in Resources, NEW x \in BufferIds, Current(s, x),
         1 \notin CopiesFor(s), serverCopy'[s] = serverCopy[s], Data(x)' = Data(x)
  PROVE  Current(s, x)'
<1> PICK n : n = Len(commands)
  OBVIOUS
<1>1. /\ \A k \in CopiesFor(s)' : k + 1 \in CopiesFor(s)
      /\ \A k \in CopiesFor(s) : k # 1 => k - 1 \in CopiesFor(s)' /\ commands'[k - 1] = commands[k]
      /\ DOMAIN commands' = 1 .. n - 1 /\ DOMAIN commands = 1 .. n /\ n \in Nat
  BY CommandTaken
<1>2. CASE CopiesFor(s) = {}
  BY <1>1, <1>2 DEF Current
<1>3. ASSUME NEW k \in CopiesFor(s), commands[k].id = x, \A l \in CopiesFor(s) : l <= k
      PROVE  Current(s, x)'
  <2>1. k - 1 \in CopiesFor(s)' /\ commands'[k - 1].id = x
    BY <1>1, <1>3
  <2>2. ASSUME NEW l \in CopiesFor(s)'
        PROVE  l <= k - 1
    <3>1. l + 1 <= k
      BY <1>1, <1>3
    <3>2. l \in 1 .. n - 1 /\ k \in 1 .. n
      BY <1>1, <1>3 DEF CopiesFor
    <3> QED
      BY <1>1, <3>1, <3>2, SMT
  <2> QED
    BY <2>1, <2>2 DEF Current
<1> QED
  BY <1>2, <1>3 DEF Current

\* The server copies a buffer.
LEMMA ServerUnlockKeeps ==
  ASSUME LockInv, ServerUnlock
  PROVE  LockInv'
<1>0. /\ LockTypeOK /\ PlacesInv /\ OwnersInv /\ LocksInv /\ CopiesInv /\ DeallocsInv
      /\ CurrentInv /\ LostInThreeWays
  BY DEF LockInv
<1>1. /\ commands # <<>> /\ commands' = Tail(commands) /\ Head(commands).cmd = "Unlock"
      /\ serverCopy' = [serverCopy EXCEPT ![Head(commands).resource] = Data(Head(commands).id)]
      /\ UNCHANGED <<heapVars, bufferId, locks, content, writes, blank, lost>>
  BY DEF ServerUnlock
<1> PICK n : n = Len(commands)
  OBVIOUS
<1>2. /\ n \in Nat \ {0} /\ DOMAIN commands = 1 .. n
      /\ Head(commands) = commands[1] /\ 1 \in 1 .. n
      /\ commands' \in Seq(CommandType) /\ DOMAIN commands' = 1 .. n - 1
      /\ \A k \in 1 .. n - 1 : k + 1 \in 1 .. n /\ commands'[k] = commands[k + 1]
  BY <1>0, <1>1, CommandTaken
<1> PICK r, b, wrote : r = commands[1].resource /\ b = commands[1].id /\ wrote = commands[1].wrote
  OBVIOUS
<1>3. r \in Resources /\ b \in BufferIds /\ wrote \in 0 .. MaxWrites /\ commands[1] = CopyCmd(r, b, wrote)
  BY <1>0, <1>1, <1>2, CommandsTyped DEF CopyCmd, CommandType
<1>4. lease[b] \in {"held", "released"}
  BY <1>0, <1>2, <1>3 DEF CopiesInv, CopyRight
<1>5. /\ serverCopy' = [serverCopy EXCEPT ![r] = Data(b)]
      /\ serverCopy \in [Resources -> 0 .. MaxWrites]
      /\ serverCopy'[r] = Data(b)
      /\ \A s \in Resources : s # r => serverCopy'[s] = serverCopy[s]
      /\ serverCopy' \in [Resources -> 0 .. MaxWrites]
  BY <1>0, <1>1, <1>2, <1>3, <1>4, DataTyped DEF LockTypeOK
<1>6. /\ HeapStep /\ HeapType /\ UNCHANGED <<lease, place>>
      /\ \A s \in Resources : Writing(s)' = Writing(s)
      /\ \A s \in Resources, x \in BufferIds : Uses(s, x)' <=> Uses(s, x)
      /\ \A x \in BufferIds : Data(x)' = Data(x)
  BY <1>0, <1>1 DEF HeapStep, heapVars, LockTypeOK, Writing, Uses, Data
<1>7. LockTypeOK'
  BY <1>0, <1>1, <1>2, <1>5, <1>6 DEF LockTypeOK, HeapType
<1>8. PlacesInv' /\ OwnersInv' /\ LostInThreeWays' /\ LocksInv'
  <2>1. PlacesInv'
    BY <1>0, <1>6, HeapKeepsPlaces
  <2>2. OwnersInv'
    BY <1>0, <1>6 DEF OwnersInv
  <2>3. LostInThreeWays'
    BY <1>0, <1>1, <1>6, OwnersSame, LostStays
  <2>4. LocksInv'
    BY <1>0, <1>1, LocksStayRight DEF LocksInv
  <2> QED
    BY <2>1, <2>2, <2>3, <2>4
<1>9. CopiesInv'
  <2>1. ASSUME NEW s \in Resources, NEW x \in BufferIds, NEW w, CopyRight(s, x, w)
        PROVE  CopyRight(s, x, w)'
    <3>1. \A i \in Writing(s) : locks'[s][i] = locks[s][i]
      BY <1>1
    <3> QED
      BY <1>6, <2>1, <3>1 DEF CopyRight
  <2> QED
    BY <1>0, <1>2, <2>1 DEF CopiesInv, CopyCmd
<1>10. DeallocsInv'
  <2> SUFFICES ASSUME NEW k \in 1 .. n - 1, NEW x \in BufferIds, commands'[k] = DeallocCmd(x)
               PROVE  /\ lease'[x] = "released"
                      /\ \A l \in 1 .. n - 1 : k < l => commands'[l].id # x
    BY <1>2 DEF DeallocsInv, DeallocCmd
  <2>1. /\ lease[x] = "released"
        /\ \A l \in 1 .. n : k + 1 < l => commands[l].id # x
    BY <1>0, <1>2 DEF DeallocsInv
  <2>2. \A l \in 1 .. n - 1 : k < l => k + 1 < l + 1
    BY <1>2, SMT
  <2>3. ASSUME NEW l \in 1 .. n - 1, k < l
        PROVE  commands'[l].id # x
    <3>1. l + 1 \in 1 .. n /\ k + 1 < l + 1 /\ commands'[l] = commands[l + 1]
      BY <1>2, <2>2, <2>3
    <3> QED
      BY <2>1, <3>1
  <2> QED
    BY <1>6, <2>1, <2>3
<1>11. CurrentInv'
  <2> SUFFICES ASSUME NEW s \in Resources, NEW x \in BufferIds,
                      bufferId[s] = x, s \notin blank, Writing(s) = {}
               PROVE  Current(s, x)'
    BY <1>1, <1>6 DEF CurrentInv
  <2>1. Current(s, x)
    BY <1>0 DEF CurrentInv
  <2>2. CASE s # r
    <3>1. 1 \notin CopiesFor(s)
      BY <2>2 DEF CopiesFor
    <3> QED
      BY <1>0, <1>1, <1>5, <1>6, <2>1, <2>2, <3>1, CurrentAfterTaking
  <2>3. CASE s = r
    <3>1. 1 \in CopiesFor(s)
      BY <1>1, <1>2, <2>3 DEF CopiesFor
    <3>2. PICK k \in CopiesFor(s) : commands[k].id = x /\ \A l \in CopiesFor(s) : l <= k
      BY <2>1, <3>1 DEF Current
    <3>3. /\ \A l \in CopiesFor(s)' : l + 1 \in CopiesFor(s)
          /\ \A l \in CopiesFor(s) : l # 1 => l - 1 \in CopiesFor(s)' /\ commands'[l - 1] = commands[l]
      BY <1>0, <1>1, CommandTaken
    <3>4. /\ \A l \in CopiesFor(s) : l \in 1 .. n
          /\ \A l \in CopiesFor(s)' : l \in 1 .. n - 1
      BY <1>2 DEF CopiesFor
    <3>5. CASE k = 1
      <4>1. CopiesFor(s)' = {}
        <5> SUFFICES ASSUME NEW l \in CopiesFor(s)' PROVE FALSE
          OBVIOUS
        <5>1. l + 1 <= 1 /\ l \in 1 .. n - 1
          BY <3>2, <3>3, <3>4, <3>5
        <5> QED
          BY <1>2, <5>1, SMT
      <4>2. serverCopy'[s] = Data(x)'
        BY <1>5, <1>6, <2>3, <3>2, <3>5
      <4> QED
        BY <4>1, <4>2 DEF Current
    <3>6. CASE k # 1
      <4>1. k - 1 \in CopiesFor(s)' /\ commands'[k - 1].id = x
        BY <3>2, <3>3, <3>6
      <4>2. ASSUME NEW l \in CopiesFor(s)'
            PROVE  l <= k - 1
        <5>1. l + 1 <= k /\ l \in 1 .. n - 1 /\ k \in 1 .. n
          BY <3>2, <3>3, <3>4
        <5> QED
          BY <1>2, <5>1, SMT
      <4> QED
        BY <4>1, <4>2 DEF Current
    <3> QED
      BY <3>5, <3>6
  <2> QED
    BY <2>2, <2>3
<1> QED
  BY <1>7, <1>8, <1>9, <1>10, <1>11 DEF LockInv

\* The server lets a buffer go.
LEMMA ServerHeapDeallocKeeps ==
  ASSUME LockInv, ServerHeapDealloc
  PROVE  LockInv'
<1>0. /\ LockTypeOK /\ PlacesInv /\ OwnersInv /\ LocksInv /\ CopiesInv /\ DeallocsInv
      /\ CurrentInv /\ LostInThreeWays
  BY DEF LockInv
<1>1. /\ commands # <<>> /\ commands' = Tail(commands) /\ Head(commands).cmd = "Dealloc"
      /\ ServerLetsGo(Head(commands).id)
      /\ UNCHANGED <<bufferId, locks, content, writes, serverCopy, blank, lost>>
  BY DEF ServerHeapDealloc
<1> PICK n : n = Len(commands)
  OBVIOUS
<1>2. /\ n \in Nat \ {0} /\ DOMAIN commands = 1 .. n
      /\ Head(commands) = commands[1] /\ 1 \in 1 .. n
      /\ commands' \in Seq(CommandType) /\ DOMAIN commands' = 1 .. n - 1
      /\ \A k \in 1 .. n - 1 : k + 1 \in 1 .. n /\ commands'[k] = commands[k + 1]
  BY <1>0, <1>1, CommandTaken
<1> PICK b : b = commands[1].id
  OBVIOUS
<1>3. b \in BufferIds /\ commands[1] = DeallocCmd(b)
  BY <1>0, <1>1, <1>2, CommandsTyped DEF DeallocCmd, CommandType
<1>4. /\ lease[b] = "released" /\ lease' = [lease EXCEPT ![b] = "done"]
      /\ HeapStep /\ HeapType
  BY <1>0, <1>1, <1>2, <1>3 DEF ServerLetsGo, HeapStep, LockTypeOK
<1>5. \A x \in BufferIds : x # b => lease'[x] = lease[x]
  BY <1>4 DEF HeapType
<1>6. /\ \A s \in Resources : Writing(s)' = Writing(s)
      /\ \A s \in Resources, x \in BufferIds : Uses(s, x)' <=> Uses(s, x)
  BY <1>1 DEF Writing, Uses
<1>7. \A l \in 1 .. n : 1 < l => commands[l].id # b
  BY <1>0, <1>2, <1>3 DEF DeallocsInv
<1>8. \A k \in 1 .. n - 1 : commands'[k].id # b
  <2>1. \A k \in 1 .. n - 1 : 1 < k + 1
    BY SMT
  <2> QED
    BY <1>2, <1>7, <2>1
<1>9. PlacesInv' /\ HeapType'
  BY <1>0, <1>4, HeapKeepsPlaces
<1>10. LockTypeOK'
  BY <1>0, <1>1, <1>2, <1>9 DEF LockTypeOK
<1>11. OwnersInv' /\ LocksInv' /\ LostInThreeWays'
  <2>1. OwnersInv'
    BY <1>0, <1>4, <1>5, <1>6 DEF OwnersInv
  <2>2. LocksInv'
    BY <1>0, <1>1, LocksStayRight DEF LocksInv
  <2>3. LostInThreeWays'
    <3>1. lease'[b] = "done"
      BY <1>3, <1>4 DEF HeapType
    <3>2. lease[b] = "released" /\ b \in BufferIds
      BY <1>3, <1>4
    <3>4. \A x \in BufferIds : lease'[x] = "held" <=> lease[x] = "held"
      BY <1>5, <3>1, <3>2
    <3> QED
      BY <1>0, <1>1, <3>4, OwnersSame, LostStays
  <2> QED
    BY <2>1, <2>2, <2>3
<1>12. CopiesInv'
  <2> SUFFICES ASSUME NEW k \in 1 .. n - 1, NEW s \in Resources, NEW x \in BufferIds,
                      NEW w \in 0 .. MaxWrites, commands'[k] = CopyCmd(s, x, w)
               PROVE  CopyRight(s, x, w)'
    BY <1>2 DEF CopiesInv, CopyCmd
  <2>1. CopyRight(s, x, w)
    BY <1>0, <1>2 DEF CopiesInv
  <2>2. x # b
    BY <1>8 DEF CopyCmd
  <2>3. lease'[x] \in {"held", "released"}
    BY <1>5, <2>1, <2>2 DEF CopyRight
  <2>4. \A i \in Writing(s)' : \E j \in Writing(s) : locks'[s][i].bufferId = locks[s][j].bufferId
    BY <1>1, <1>6
  <2> QED
    BY <1>0, <1>1, <1>4, <1>6, <2>1, <2>3, <2>4, CopyStaysRight
<1>13. DeallocsInv'
  <2> SUFFICES ASSUME NEW k \in 1 .. n - 1, NEW x \in BufferIds, commands'[k] = DeallocCmd(x)
               PROVE  /\ lease'[x] = "released"
                      /\ \A l \in 1 .. n - 1 : k < l => commands'[l].id # x
    BY <1>2 DEF DeallocsInv, DeallocCmd
  <2>1. /\ lease[x] = "released"
        /\ \A l \in 1 .. n : k + 1 < l => commands[l].id # x
    BY <1>0, <1>2 DEF DeallocsInv
  <2>2. \A l \in 1 .. n - 1 : k < l => k + 1 < l + 1
    BY <1>2, SMT
  <2>3. x # b
    BY <1>8 DEF DeallocCmd
  <2>4. lease'[x] = "released"
    BY <1>5, <2>1, <2>3
  <2>5. ASSUME NEW l \in 1 .. n - 1, k < l
        PROVE  commands'[l].id # x
    <3>1. l + 1 \in 1 .. n /\ k + 1 < l + 1 /\ commands'[l] = commands[l + 1]
      BY <1>2, <2>2, <2>5
    <3> QED
      BY <2>1, <3>1
  <2> QED
    BY <2>4, <2>5
<1>14. CurrentInv'
  <2> SUFFICES ASSUME NEW s \in Resources, NEW x \in BufferIds,
                      bufferId[s] = x, s \notin blank, Writing(s) = {}
               PROVE  Current(s, x)'
    BY <1>1, <1>6 DEF CurrentInv
  <2>1. Current(s, x)
    BY <1>0 DEF CurrentInv
  <2>2. 1 \notin CopiesFor(s)
    BY <1>1, <1>2 DEF CopiesFor
  <2>3. lease[x] = "held"
    BY <1>0 DEF OwnersInv, Uses
  <2>4. Data(x)' = Data(x)
    BY <1>0, <1>1, <1>4, <2>3, DataStays
  <2> QED
    BY <1>0, <1>1, <2>1, <2>2, <2>4, CurrentAfterTaking
<1> QED
  BY <1>9, <1>10, <1>11, <1>12, <1>13, <1>14 DEF LockInv

\* One more command is sent: the others stay where they are.
LEMMA CommandSent ==
  ASSUME LockTypeOK, NEW cmd \in CommandType, commands' = Append(commands, cmd),
         NEW n, n = Len(commands)
  PROVE  /\ n \in Nat /\ DOMAIN commands = 1 .. n /\ commands' \in Seq(CommandType)
         /\ DOMAIN commands' = 1 .. n + 1 /\ commands'[n + 1] = cmd
         /\ \A k \in 1 .. n : commands'[k] = commands[k]
<1>1. commands \in Seq(CommandType) /\ n \in Nat /\ DOMAIN commands = 1 .. n
  BY LenProperties DEF LockTypeOK
<1>2. /\ commands' \in Seq(CommandType) /\ Len(commands') = n + 1
      /\ \A k \in 1 .. n : commands'[k] = commands[k]
      /\ commands'[n + 1] = cmd
  BY <1>1, AppendProperties
<1> QED
  BY <1>1, <1>2, LenProperties

\* What the destructor sends, and what it does to the lease of the resource's buffer.
LEMMA DestroySends ==
  ASSUME LockTypeOK, OwnersInv, NEW r \in Resources, Destroy(r), NEW n, n = Len(commands)
  PROVE  /\ n \in Nat /\ DOMAIN commands = 1 .. n /\ commands' \in Seq(CommandType)
         /\ \A k \in 1 .. n : k \in DOMAIN commands' /\ commands'[k] = commands[k]
         /\ \A k \in DOMAIN commands' :
              \/ k \in 1 .. n
              \/ k = n + 1 /\ bufferId[r] \in BufferIds /\ commands'[k] = DeallocCmd(bufferId[r])
         /\ bufferId[r] \in BufferIds =>
              lease[bufferId[r]] = "held" /\ lease'[bufferId[r]] = "released"
         /\ \A x \in BufferIds : x # bufferId[r] => lease'[x] = lease[x]
         /\ HeapStep /\ HeapType
<1>1. /\ commands \in Seq(CommandType) /\ n \in Nat /\ DOMAIN commands = 1 .. n
      /\ bufferId[r] \in BufferIds \cup {None} /\ HeapType
  BY LenProperties DEF LockTypeOK
<1>2. CASE bufferId[r] = None
  <2>1. UNCHANGED <<heapVars, commands>> /\ HeapStep
    BY <1>2 DEF Destroy, HeapStep
  <2> QED
    BY <1>1, <1>2, <2>1 DEF heapVars
<1>3. CASE bufferId[r] # None
  <2> PICK b \in BufferIds : b = bufferId[r]
    BY <1>1, <1>3
  <2>1. HeapRelease(b) /\ commands' = commands \o <<DeallocCmd(b)>>
    BY <1>3 DEF Destroy, Send
  <2>2. DeallocCmd(b) \in CommandType
    BY DEF DeallocCmd, CommandType
  <2>3. commands' = Append(commands, DeallocCmd(b))
    BY <1>1, <2>1, <2>2, SMT
  <2>4. /\ commands' \in Seq(CommandType) /\ DOMAIN commands' = 1 .. n + 1
        /\ commands'[n + 1] = DeallocCmd(b) /\ \A k \in 1 .. n : commands'[k] = commands[k]
    BY <2>2, <2>3, CommandSent
  <2>5. /\ \A k \in 1 .. n + 1 : k \in 1 .. n \/ k = n + 1
        /\ \A k \in 1 .. n : k \in 1 .. n + 1
    BY <1>1, SMT
  <2>6. /\ lease[b] = "held" /\ lease' = [lease EXCEPT ![b] = "released"] /\ HeapStep
    BY <2>1 DEF HeapRelease, HeapStep
  <2>7. lease'[b] = "released" /\ \A x \in BufferIds : x # b => lease'[x] = lease[x]
    BY <1>1, <2>6 DEF HeapType
  <2> QED
    BY <1>1, <2>4, <2>5, <2>6, <2>7
<1> QED
  BY <1>2, <1>3

\* The destructor of a resource, locked or not.
LEMMA DestroyKeeps ==
  ASSUME LockInv, NEW r \in Resources, Destroy(r)
  PROVE  LockInv'
<1>0. /\ LockTypeOK /\ PlacesInv /\ OwnersInv /\ LocksInv /\ CopiesInv /\ DeallocsInv
      /\ CurrentInv /\ LostInThreeWays
  BY DEF LockInv
<1>1. /\ bufferId' = [bufferId EXCEPT ![r] = None] /\ locks' = [locks EXCEPT ![r] = <<>>]
      /\ lost' = lost \cup StillDiscarded(r)
      /\ UNCHANGED <<content, writes, serverCopy, blank>>
      /\ bufferId \in [Resources -> BufferIds \cup {None}]
      /\ locks \in [Resources -> Seq(LockType)]
  BY <1>0 DEF Destroy, LockTypeOK
<1> PICK b \in BufferIds \cup {None} : b = bufferId[r]
  BY <1>1
<1> PICK n : n = Len(commands)
  OBVIOUS
<1>2. DeallocCmd(b).id = b /\ DeallocCmd(b).cmd = "Dealloc"
  BY DEF DeallocCmd
<1>3. /\ n \in Nat /\ DOMAIN commands = 1 .. n /\ commands' \in Seq(CommandType)
      /\ \A k \in 1 .. n : k \in DOMAIN commands' /\ commands'[k] = commands[k]
      /\ \A k \in DOMAIN commands' :
           \/ k \in 1 .. n
           \/ k = n + 1 /\ b \in BufferIds /\ commands'[k] = DeallocCmd(b)
      /\ b \in BufferIds => lease[b] = "held" /\ lease'[b] = "released"
      /\ \A x \in BufferIds : x # b => lease'[x] = lease[x]
      /\ HeapStep /\ HeapType
  BY <1>0, DestroySends
<1>7. \A s \in Resources : bufferId'[s] = IF s = r THEN None ELSE bufferId[s]
  BY <1>1
<1>8. /\ \A s \in Resources : s # r => locks'[s] = locks[s]
      /\ locks'[r] = <<>> /\ DOMAIN locks'[r] = {}
  <2>1. locks'[r] = <<>> /\ \A s \in Resources : s # r => locks'[s] = locks[s]
    BY <1>1
  <2>2. DOMAIN locks'[r] = {}
    BY <2>1, SMT
  <2> QED
    BY <2>1, <2>2
<1>9. /\ Writing(r)' = {} /\ \A x \in BufferIds : ~Uses(r, x)'
      /\ \A s \in Resources : s # r => Writing(s)' = Writing(s) /\ \A x : Uses(s, x)' <=> Uses(s, x)
      /\ b \in BufferIds => Uses(r, b)
  <2>1. bufferId'[r] = None
    BY <1>7
  <2>2. Writing(r)' = {} /\ \A x \in BufferIds : ~Uses(r, x)'
    BY <1>8, <2>1 DEF Writing, Uses
  <2>3. Uses(r, b)
    BY DEF Uses
  <2>4. \A s \in Resources : s # r => Writing(s)' = Writing(s) /\ \A x : Uses(s, x)' <=> Uses(s, x)
    BY <1>1, <1>7, <1>8, LocksStayRight
  <2> QED
    BY <2>2, <2>3, <2>4
<1>10. ASSUME NEW s \in Resources, NEW x \in BufferIds, Uses(s, x)'
       PROVE  Uses(s, x) /\ x # b /\ s # r
  <2>1. s # r
    BY <1>9, <1>10
  <2>2. Uses(s, x)
    BY <1>9, <1>10, <2>1
  <2> QED
    BY <1>0, <1>9, <2>1, <2>2 DEF OwnersInv
<1>11. PlacesInv' /\ HeapType'
  BY <1>0, <1>3, HeapKeepsPlaces
<1>12. LockTypeOK'
  <2>1. locks' \in [Resources -> Seq(LockType)]
    BY <1>1, EmptySeq
  <2>2. \A s \in Resources : \A i \in DOMAIN locks'[s] : locks'[s][i].flags \in Flags[s]
    BY <1>0, <1>8 DEF LockTypeOK
  <2>3. lost' \subseteq BufferIds
    <3>1. \A i \in DOMAIN locks[r] : locks[r][i].discarded \in BufferIds \cup {None}
      BY <1>0, LocksTyped
    <3> QED
      BY <1>0, <1>1, <3>1 DEF LockTypeOK, StillDiscarded
  <2>4. bufferId' \in [Resources -> BufferIds \cup {None}]
    BY <1>1
  <2> QED
    BY <1>0, <1>1, <1>3, <1>11, <2>1, <2>2, <2>3, <2>4 DEF LockTypeOK
<1>13. OwnersInv'
  BY <1>0, <1>3, <1>10 DEF OwnersInv
<1>14. LocksInv'
  <2>1. ASSUME NEW s \in Resources, s # r
        PROVE  LocksRight(s)'
    BY <1>0, <1>1, <1>7, <1>8, <2>1, LocksStayRight DEF LocksInv
  <2>2. LocksRight(r)'
    <3>1. bufferId'[r] = None
      BY <1>7
    <3> QED
      BY <1>8, <1>9, <3>1 DEF LocksRight
  <2> QED
    BY <2>1, <2>2 DEF LocksInv
<1>15. CopiesInv'
  <2> SUFFICES ASSUME NEW k \in DOMAIN commands', NEW s \in Resources, NEW x \in BufferIds,
                      NEW w \in 0 .. MaxWrites, commands'[k] = CopyCmd(s, x, w)
               PROVE  CopyRight(s, x, w)'
    BY DEF CopiesInv, CopyCmd
  <2>1. k \in 1 .. n
    BY <1>2, <1>3 DEF CopyCmd
  <2>2. CopyRight(s, x, w)
    BY <1>0, <1>3, <2>1 DEF CopiesInv
  <2>3. lease'[x] \in {"held", "released"}
    BY <1>3, <2>2 DEF CopyRight
  <2>4. \A i \in Writing(s)' : \E j \in Writing(s) : locks'[s][i].bufferId = locks[s][j].bufferId
    BY <1>8, <1>9
  <2>5. \A t \in Resources : Uses(t, x)' => Uses(t, x)
    BY <1>10
  <2> QED
    BY <1>0, <1>1, <1>3, <2>2, <2>3, <2>4, <2>5, CopyStaysRight
<1>16. DeallocsInv'
  <2> SUFFICES ASSUME NEW k \in DOMAIN commands', NEW x \in BufferIds, commands'[k] = DeallocCmd(x)
               PROVE  /\ lease'[x] = "released"
                      /\ \A l \in DOMAIN commands' : k < l => commands'[l].id # x
    BY DEF DeallocsInv, DeallocCmd
  <2>1. CASE k \in 1 .. n
    <3>1. /\ lease[x] = "released"
          /\ \A l \in 1 .. n : k < l => commands[l].id # x
      BY <1>0, <1>3, <2>1 DEF DeallocsInv
    <3>2. x # b
      BY <1>3, <3>1
    <3> QED
      BY <1>2, <1>3, <3>1, <3>2
  <2>2. CASE k = n + 1 /\ b \in BufferIds /\ commands'[k] = DeallocCmd(b)
    <3>1. x = b
      BY <2>2 DEF DeallocCmd
    <3>2. /\ \A l \in 1 .. n : ~(k < l)
          /\ ~(k < n + 1)
      BY <1>3, <2>2, SMT
    <3> QED
      BY <1>3, <2>2, <3>1, <3>2
  <2> QED
    BY <1>3, <2>1, <2>2
<1>17. CurrentInv'
  <2> SUFFICES ASSUME NEW s \in Resources, NEW x \in BufferIds,
                      bufferId'[s] = x, s \notin blank, Writing(s)' = {}
               PROVE  Current(s, x)'
    BY <1>1 DEF CurrentInv
  <2>1. s # r /\ bufferId[s] = x /\ Writing(s) = {}
    BY <1>7, <1>9
  <2>2. Current(s, x)
    BY <1>0, <2>1 DEF CurrentInv
  <2>3. lease[x] = "held"
    BY <1>0, <2>1 DEF OwnersInv, Uses
  <2>4. Data(x)' = Data(x)
    BY <1>0, <1>1, <1>3, <2>3, DataStays
  <2>5. CopiesFor(s)' = CopiesFor(s)
    <3>1. \A k : k \in CopiesFor(s)' <=> k \in CopiesFor(s)
      BY <1>2, <1>3 DEF CopiesFor
    <3> QED
      BY <3>1
  <2>6. \A k \in CopiesFor(s) : commands'[k] = commands[k]
    BY <1>3 DEF CopiesFor
  <2> QED
    BY <1>1, <2>2, <2>4, <2>5, <2>6 DEF Current
<1>18. LostInThreeWays'
  <2> SUFFICES ASSUME NEW x \in BufferIds
               PROVE  x \in lost' <=> lease'[x] = "held" /\ \A s \in Resources : ~Owns(s, x)'
    BY <1>12, LostIs DEF LockTypeOK
  <2>1. x \in lost <=> lease[x] = "held" /\ \A s \in Resources : ~Owns(s, x)
    BY <1>0, LostIs
  <2>2. ~Owns(r, x)' /\ \A s \in Resources : s # r => (Owns(s, x)' <=> Owns(s, x))
    BY <1>7, <1>8, <1>9, OwnersSame, OwnedIsUsed
  <2>3. /\ Owns(r, x) <=> x = b \/ x \in StillDiscarded(r)
        /\ x = b => x \notin StillDiscarded(r)
    <3>1. b # None => \A i \in DOMAIN locks[r] : locks[r][i].discarded # b
      BY <1>0 DEF LocksInv, LocksRight
    <3> QED
      BY <3>1 DEF Owns, StillDiscarded
  <2>4. CASE x = b
    BY <1>1, <1>3, <2>1, <2>3, <2>4
  <2>5. CASE x # b /\ x \in StillDiscarded(r)
    <3>1. Uses(r, x)
      BY <2>3, <2>5, OwnedIsUsed
    <3>2. lease'[x] = "held" /\ \A s \in Resources : Owns(s, x) => s = r
      BY <1>0, <1>3, <2>5, <3>1, OwnedIsUsed DEF OwnersInv
    <3> QED
      BY <1>1, <2>2, <2>5, <3>2
  <2>6. CASE ~Owns(r, x)
    BY <1>1, <1>3, <2>1, <2>2, <2>3, <2>6
  <2> QED
    BY <2>3, <2>4, <2>5, <2>6
<1> QED
  BY <1>11, <1>12, <1>13, <1>14, <1>15, <1>16, <1>17, <1>18 DEF LockInv

\* The first lock is undone: the others move up.
UndoLock(r) == locks' = [locks EXCEPT ![r] = Tail(@)]

LEMMA LockUndone ==
  ASSUME LockTypeOK, NEW r \in Resources, locks[r] # <<>>, UndoLock(r),
         NEW m, m = Len(locks[r])
  PROVE  /\ m \in Nat \ {0} /\ DOMAIN locks[r] = 1 .. m /\ 1 \in 1 .. m
         /\ Head(locks[r]) = locks[r][1]
         /\ locks' \in [Resources -> Seq(LockType)]
         /\ \A s \in Resources : s # r => locks'[s] = locks[s]
         /\ DOMAIN locks'[r] = 1 .. m - 1
         /\ \A i \in 1 .. m - 1 : i + 1 \in 1 .. m /\ locks'[r][i] = locks[r][i + 1]
         /\ \A s \in Resources : \A i \in DOMAIN locks'[s] : locks'[s][i].flags \in Flags[s]
         /\ \A i \in Writing(r)' : i + 1 \in Writing(r)
         /\ \A i \in Writing(r) : i # 1 => i - 1 \in Writing(r)' /\ locks'[r][i - 1] = locks[r][i]
<1>1. locks \in [Resources -> Seq(LockType)] /\ locks[r] \in Seq(LockType)
  BY DEF LockTypeOK
<1>2. m \in Nat \ {0} /\ DOMAIN locks[r] = 1 .. m
  BY <1>1, EmptySeq, LenProperties
<1>3. /\ Tail(locks[r]) \in Seq(LockType) /\ Len(Tail(locks[r])) = m - 1
      /\ \A i \in 1 .. m - 1 : Tail(locks[r])[i] = locks[r][i + 1]
      /\ Head(locks[r]) = locks[r][1]
  BY <1>1, HeadTailProperties
<1>4. /\ locks'[r] = Tail(locks[r])
      /\ \A s \in Resources : s # r => locks'[s] = locks[s]
      /\ locks' \in [Resources -> Seq(LockType)]
  BY <1>1, <1>3 DEF UndoLock
<1>5. DOMAIN locks'[r] = 1 .. m - 1
  BY <1>3, <1>4, LenProperties
<1>6. 1 \in 1 .. m /\ \A i \in 1 .. m - 1 : i + 1 \in 1 .. m
  BY <1>2, SMT
<1>7. \A i \in 1 .. m - 1 : locks'[r][i] = locks[r][i + 1]
  BY <1>3, <1>4
<1>8. ASSUME NEW s \in Resources, NEW i \in DOMAIN locks'[s]
      PROVE  locks'[s][i].flags \in Flags[s]
  <2>1. CASE s = r
    BY <1>2, <1>5, <1>6, <1>7, <1>8, <2>1 DEF LockTypeOK
  <2>2. CASE s # r
    BY <1>4, <1>8, <2>2 DEF LockTypeOK
  <2> QED
    BY <2>1, <2>2
<1>9. \A i \in Writing(r)' : i + 1 \in Writing(r)
  BY <1>2, <1>5, <1>6, <1>7 DEF Writing
<1>10. ASSUME NEW i \in Writing(r), i # 1
       PROVE  i - 1 \in Writing(r)' /\ locks'[r][i - 1] = locks[r][i]
  <2>1. i \in 1 .. m /\ "readonly" \notin locks[r][i].flags
    BY <1>2 DEF Writing
  <2>2. i - 1 \in 1 .. m - 1 /\ (i - 1) + 1 = i
    BY <1>2, <1>10, <2>1, SMT
  <2>3. locks'[r][i - 1] = locks[r][i]
    BY <1>7, <2>2
  <2> QED
    BY <1>5, <2>1, <2>2, <2>3 DEF Writing
<1> QED
  BY <1>2, <1>3, <1>4, <1>5, <1>6, <1>7, <1>8, <1>9, <1>10

LEMMA PairOf ==
  ASSUME NEW S, NEW x \in S, NEW y \in S, NEW pair, pair = <<x>> \o <<y>>
  PROVE  pair \in Seq(S) /\ Len(pair) = 2 /\ pair[1] = x /\ pair[2] = y
<1>1. /\ <<x>> \in Seq(S) /\ Len(<<x>>) = 1 /\ <<x>>[1] = x
      /\ <<y>> \in Seq(S) /\ Len(<<y>>) = 1 /\ <<y>>[1] = y
  OBVIOUS
<1>2. /\ pair \in Seq(S) /\ Len(pair) = 1 + 1
      /\ \A i \in 1 .. 1 + 1 : pair[i] = IF i <= 1 THEN <<x>>[i] ELSE <<y>>[i - 1]
  BY <1>1, ConcatProperties
<1> QED
  BY <1>1, <1>2

\* What undoing the first lock sends, and what it does to the lease of a discarded buffer.
LEMMA UnlockSends ==
  ASSUME LockTypeOK, PlacesInv, OwnersInv, LocksInv, NEW r \in Resources, Unlock(r),
         NEW b \in BufferIds, b = locks[r][1].bufferId,
         NEW d \in BufferIds \cup {None}, d = locks[r][1].discarded,
         NEW n, n = Len(commands)
  PROVE  /\ n \in Nat /\ DOMAIN commands = 1 .. n
         /\ commands' \in Seq(CommandType)
         /\ \A k \in 1 .. n : k \in DOMAIN commands' /\ commands'[k] = commands[k]
         /\ \A k \in DOMAIN commands' :
              \/ k \in 1 .. n
              \/ k = n + 1 /\ 1 \in Writing(r) /\ commands'[k] = CopyCmd(r, b, Data(b))
              \/ k = n + 2 /\ 1 \in Writing(r) /\ d # None /\ commands'[k] = DeallocCmd(d)
         /\ 1 \in Writing(r) => n + 1 \in DOMAIN commands' /\ commands'[n + 1] = CopyCmd(r, b, Data(b))
         /\ 1 \in DOMAIN locks[r]
         /\ lease[b] = "held" /\ Data(b) \in 0 .. MaxWrites
         /\ d # None => lease[d] = "held" /\ (1 \in Writing(r) => lease'[d] = "released")
         /\ \A x \in BufferIds : x # d \/ 1 \notin Writing(r) => lease'[x] = lease[x]
         /\ 1 \in Writing(r) <=> "readonly" \notin locks[r][1].flags
         /\ HeapStep /\ HeapType
<1>1. /\ locks[r] # <<>> /\ ReleaseDiscarded(Head(locks[r]))
      /\ commands' = commands \o UnlockCommands(r, Head(locks[r]))
      /\ UndoLock(r)
  BY DEF Unlock, Send, UndoLock
<1>2. /\ 1 \in DOMAIN locks[r] /\ Head(locks[r]) = locks[r][1]
      /\ \A i \in DOMAIN locks[r] : locks[r][i] \in LockType
  BY <1>1, LockUndone, LocksTyped
<1>3. 1 \in Writing(r) <=> "readonly" \notin locks[r][1].flags
  BY <1>2 DEF Writing
<1>5. lease[b] = "held" /\ (d # None => lease[d] = "held")
  BY <1>2 DEF OwnersInv, Uses
<1>6. Data(b) \in 0 .. MaxWrites
  BY <1>5, DataTyped
<1>7. /\ commands \in Seq(CommandType) /\ n \in Nat /\ DOMAIN commands = 1 .. n
      /\ HeapType
  BY LenProperties DEF LockTypeOK
<1> PICK copy : copy = CopyCmd(r, b, Data(b))
  OBVIOUS
<1>8. copy \in CommandType /\ UnlockCmd(r, b) = copy
  BY <1>6 DEF CopyCmd, UnlockCmd, CommandType
<1>9. CASE "readonly" \in locks[r][1].flags
  <2>1. 1 \notin Writing(r)
    BY <1>3, <1>9
  <2>2. commands' = commands \o <<>> /\ UNCHANGED heapVars
    BY <1>1, <1>2, <1>9 DEF UnlockCommands, ReleaseDiscarded
  <2>3. commands' = commands /\ UNCHANGED lease /\ HeapStep
    BY <1>7, <2>2, ConcatEmptySeq DEF heapVars, HeapStep
  <2> QED
    BY <1>2, <1>3, <1>5, <1>6, <1>7, <2>1, <2>3
<1>10. CASE "readonly" \notin locks[r][1].flags /\ d = None
  <2>1. 1 \in Writing(r)
    BY <1>3, <1>10
  <2>2. commands' = commands \o (<<copy>> \o <<>>) /\ UNCHANGED heapVars
    BY <1>1, <1>2, <1>8, <1>10 DEF UnlockCommands, ReleaseDiscarded
  <2>3. commands' = Append(commands, copy)
    BY <1>7, <1>8, <2>2, SMT
  <2>4. /\ commands' \in Seq(CommandType) /\ DOMAIN commands' = 1 .. n + 1
        /\ commands'[n + 1] = copy /\ \A k \in 1 .. n : commands'[k] = commands[k]
    BY <1>8, <2>3, CommandSent
  <2>5. /\ \A k \in 1 .. n + 1 : k \in 1 .. n \/ k = n + 1
        /\ \A k \in 1 .. n : k \in 1 .. n + 1
        /\ n + 1 \in 1 .. n + 1
    BY <1>7, SMT
  <2>6. UNCHANGED lease /\ HeapStep
    BY <2>2 DEF heapVars, HeapStep
  <2> QED
    BY <1>2, <1>3, <1>5, <1>6, <1>7, <1>10, <2>1, <2>4, <2>5, <2>6
<1>11. CASE "readonly" \notin locks[r][1].flags /\ d # None
  <2>1. 1 \in Writing(r) /\ d \in BufferIds
    BY <1>3, <1>11
  <2> PICK gone : gone = DeallocCmd(d)
    OBVIOUS
  <2>2. gone \in CommandType
    BY <2>1 DEF DeallocCmd, CommandType
  <2> PICK sent : sent = UnlockCommands(r, locks[r][1])
    OBVIOUS
  <2>3. commands' = commands \o sent
    BY <1>1, <1>2
  <2>4. sent = <<copy>> \o <<gone>>
    <3>1. sent = <<UnlockCmd(r, b)>> \o <<DeallocCmd(d)>>
      BY <1>11 DEF UnlockCommands
    <3> QED
      BY <1>8, <3>1
  <2>5. /\ sent \in Seq(CommandType) /\ Len(sent) = 2
        /\ sent[1] = copy /\ sent[2] = gone
    BY <1>8, <2>2, <2>4, PairOf
  <2>6. /\ commands' \in Seq(CommandType) /\ Len(commands') = n + 2
        /\ \A k \in 1 .. n + 2 : commands'[k] = IF k <= n THEN commands[k] ELSE sent[k - n]
    <3>0. commands \in Seq(CommandType) /\ sent \in Seq(CommandType)
      BY <1>7, <2>5
    <3>1. /\ commands \o sent \in Seq(CommandType)
          /\ Len(commands \o sent) = Len(commands) + Len(sent)
          /\ \A k \in 1 .. Len(commands) + Len(sent) :
               (commands \o sent)[k] = IF k <= Len(commands) THEN commands[k] ELSE sent[k - Len(commands)]
      BY <3>0, ConcatProperties
    <3>2. Len(commands) + Len(sent) = n + 2
      BY <2>5
    <3> QED
      BY <2>3, <3>1, <3>2
  <2>7. DOMAIN commands' = 1 .. n + 2
    BY <2>6, LenProperties
  <2>8. /\ \A k \in 1 .. n + 2 : k \in 1 .. n \/ k = n + 1 \/ k = n + 2
        /\ \A k \in 1 .. n : k \in 1 .. n + 2 /\ k <= n
        /\ n + 1 \in 1 .. n + 2 /\ n + 2 \in 1 .. n + 2
        /\ ~(n + 1 <= n) /\ ~(n + 2 <= n) /\ (n + 1) - n = 1 /\ (n + 2) - n = 2
    BY <1>7, SMT
  <2>9. commands'[n + 1] = copy /\ commands'[n + 2] = gone
    BY <2>5, <2>6, <2>8
  <2>10. \A k \in 1 .. n : commands'[k] = commands[k]
    BY <2>6, <2>8
  <2>11. lease' = [lease EXCEPT ![d] = "released"] /\ HeapStep
    <3>1. ReleaseDiscarded(locks[r][1])
      BY <1>1, <1>2
    <3>2. HeapRelease(d)
      BY <1>11, <3>1 DEF ReleaseDiscarded, HeapRelease
    <3> QED
      BY <2>1, <3>2 DEF HeapRelease, HeapStep
  <2>12. lease'[d] = "released" /\ \A x \in BufferIds : x # d => lease'[x] = lease[x]
    BY <1>7, <2>1, <2>11 DEF HeapType
  <2> QED
    BY <1>2, <1>3, <1>5, <1>6, <1>7, <2>1, <2>6, <2>7, <2>8, <2>9, <2>10, <2>11, <2>12
<1> QED
  BY <1>9, <1>10, <1>11

\* unlock.
LEMMA UnlockKeeps ==
  ASSUME LockInv, NEW r \in Resources, Unlock(r)
  PROVE  LockInv'
<1>0. /\ LockTypeOK /\ PlacesInv /\ OwnersInv /\ LocksInv /\ CopiesInv /\ DeallocsInv
      /\ CurrentInv /\ LostInThreeWays
  BY DEF LockInv
<1>1. /\ locks[r] # <<>> /\ UndoLock(r)
      /\ lost' = lost \cup LostByUnlock(Head(locks[r]))
      /\ UNCHANGED <<bufferId, content, writes, serverCopy, blank>>
  BY DEF Unlock, UndoLock
<1> PICK m : m = Len(locks[r])
  OBVIOUS
<1>2. /\ m \in Nat \ {0} /\ DOMAIN locks[r] = 1 .. m /\ 1 \in 1 .. m
      /\ locks' \in [Resources -> Seq(LockType)]
      /\ \A s \in Resources : s # r => locks'[s] = locks[s]
      /\ DOMAIN locks'[r] = 1 .. m - 1
      /\ Head(locks[r]) = locks[r][1]
      /\ \A i \in 1 .. m - 1 : i + 1 \in 1 .. m /\ locks'[r][i] = locks[r][i + 1]
      /\ \A s \in Resources : \A i \in DOMAIN locks'[s] : locks'[s][i].flags \in Flags[s]
      /\ \A i \in Writing(r)' : i + 1 \in Writing(r)
      /\ \A i \in Writing(r) : i # 1 => i - 1 \in Writing(r)' /\ locks'[r][i - 1] = locks[r][i]
  BY <1>0, <1>1, LockUndone
<1> PICK b, d : b = locks[r][1].bufferId /\ d = locks[r][1].discarded
  OBVIOUS
<1> PICK n : n = Len(commands)
  OBVIOUS
<1>3. b \in BufferIds /\ d \in BufferIds \cup {None}
  BY <1>0, <1>2, LocksTyped
<1>4. /\ n \in Nat /\ DOMAIN commands = 1 .. n
      /\ commands' \in Seq(CommandType)
      /\ \A k \in 1 .. n : k \in DOMAIN commands' /\ commands'[k] = commands[k]
      /\ \A k \in DOMAIN commands' :
           \/ k \in 1 .. n
           \/ k = n + 1 /\ 1 \in Writing(r) /\ commands'[k] = CopyCmd(r, b, Data(b))
           \/ k = n + 2 /\ 1 \in Writing(r) /\ d # None /\ commands'[k] = DeallocCmd(d)
      /\ 1 \in Writing(r) => n + 1 \in DOMAIN commands' /\ commands'[n + 1] = CopyCmd(r, b, Data(b))
      /\ lease[b] = "held" /\ Data(b) \in 0 .. MaxWrites
      /\ d # None => lease[d] = "held" /\ (1 \in Writing(r) => lease'[d] = "released")
      /\ \A x \in BufferIds : x # d \/ 1 \notin Writing(r) => lease'[x] = lease[x]
      /\ 1 \in Writing(r) <=> "readonly" \notin locks[r][1].flags
      /\ HeapStep /\ HeapType
  BY <1>0, <1>3, UnlockSends
<1>5. LocksRight(r)
  BY <1>0 DEF LocksInv
<1>22. /\ \A i, j \in 1 .. m : i <= j => locks[r][i].discarded # locks[r][j].bufferId
       /\ \A i, j \in 1 .. m :
            i < j /\ locks[r][i].discarded # None => locks[r][i].discarded # locks[r][j].discarded
  <2> PICK all : all = DOMAIN locks[r]
    OBVIOUS
  <2>1. /\ \A i, j \in all : i <= j => locks[r][i].discarded # locks[r][j].bufferId
        /\ \A i, j \in all :
             i < j /\ locks[r][i].discarded # None => locks[r][i].discarded # locks[r][j].discarded
    BY <1>5 DEF LocksRight
  <2>2. all = 1 .. m
    BY <1>2
  <2> QED
    BY <2>1, <2>2
<1>6. \A s \in Resources : s # r =>
        Writing(s)' = Writing(s) /\ \A x : Uses(s, x)' <=> Uses(s, x)
  BY <1>1, <1>2, LocksStayRight
<1>7. Uses(r, b) /\ (d # None => Uses(r, d))
  BY <1>2 DEF Uses
\* What is given up is used no more.
<1>8. ASSUME NEW s \in Resources, NEW x \in BufferIds, Uses(s, x)'
      PROVE  Uses(s, x) /\ x # d
  <2>1. CASE s # r
    <3>1. Uses(s, x)
      BY <1>6, <1>8, <2>1
    <3> QED
      BY <1>0, <1>3, <1>7, <2>1, <3>1 DEF OwnersInv
  <2>2. CASE s = r
    <3>1. CASE bufferId[r] = x
      BY <1>2, <1>5, <2>2, <3>1 DEF LocksRight, Uses
    <3>2. CASE bufferId[r] # x
      <4>1. Uses(r, x)'
        BY <1>8, <2>2
      <4>2. PICK i \in 1 .. m - 1 : locks'[r][i].bufferId = x \/ locks'[r][i].discarded = x
        BY <1>1, <1>2, <3>2, <4>1 DEF Uses
      <4>3. i + 1 \in 1 .. m /\ locks'[r][i] = locks[r][i + 1]
        BY <1>2
      <4>4. 1 <= i + 1 /\ 1 < i + 1
        BY <1>2, SMT
      <4>5. Uses(r, x)
        BY <1>2, <4>2, <4>3 DEF Uses
      <4>6. x # d
        <5>1. CASE locks'[r][i].bufferId = x
          <6>1. locks[r][i + 1].bufferId = x
            BY <4>3, <5>1
          <6> QED
            BY <1>2, <1>22, <4>3, <4>4, <6>1
        <5>2. CASE locks'[r][i].discarded = x
          <6>1. locks[r][i + 1].discarded = x
            BY <4>3, <5>2
          <6>2. x # None
            OBVIOUS
          <6> QED
            BY <1>2, <1>22, <4>3, <4>4, <6>1, <6>2
        <5> QED
          BY <4>2, <5>1, <5>2
      <4> QED
        BY <2>2, <4>5, <4>6
    <3> QED
      BY <3>1, <3>2
  <2> QED
    BY <2>1, <2>2
<1>9. PlacesInv' /\ HeapType'
  BY <1>0, <1>4, HeapKeepsPlaces
<1>10. LockTypeOK'
  <2>1. lost' \subseteq BufferIds
    BY <1>0, <1>1, <1>2, <1>3 DEF LockTypeOK, LostByUnlock
  <2> QED
    BY <1>0, <1>1, <1>2, <1>4, <1>9, <2>1 DEF LockTypeOK
<1>11. OwnersInv'
  BY <1>0, <1>4, <1>8 DEF OwnersInv
<1>12. LocksInv'
  <2>1. ASSUME NEW s \in Resources, s # r
        PROVE  LocksRight(s)'
    BY <1>0, <1>1, <1>2, <2>1, LocksStayRight DEF LocksInv
  <2>2. ASSUME NEW i \in 1 .. m - 1, NEW j \in 1 .. m - 1, i <= j
        PROVE  locks'[r][i].discarded # locks'[r][j].bufferId
    <3>1. i + 1 <= j + 1
      BY <2>2, SMT
    <3>2. i + 1 \in 1 .. m /\ j + 1 \in 1 .. m
      BY <1>2
    <3>3. locks[r][i + 1].discarded # locks[r][j + 1].bufferId
      BY <1>22, <3>1, <3>2
    <3> QED
      BY <1>2, <3>3
  <2>3. ASSUME NEW i \in 1 .. m - 1, NEW j \in 1 .. m - 1, i < j, locks'[r][i].discarded # None
        PROVE  locks'[r][i].discarded # locks'[r][j].discarded
    <3>1. i + 1 < j + 1
      BY <2>3, SMT
    <3>2. i + 1 \in 1 .. m /\ j + 1 \in 1 .. m
      BY <1>2
    <3>3. locks[r][i + 1].discarded # None
      BY <1>2, <2>3
    <3>4. locks[r][i + 1].discarded # locks[r][j + 1].discarded
      BY <1>22, <3>1, <3>2, <3>3
    <3> QED
      BY <1>2, <3>4
  <2>4. ASSUME NEW i \in 1 .. m - 1, locks'[r][i].discarded # None
        PROVE  locks'[r][i].discarded # bufferId'[r]
    <3>1. i + 1 \in DOMAIN locks[r] /\ locks'[r][i] = locks[r][i + 1]
      BY <1>2
    <3>2. locks[r][i + 1].discarded # bufferId[r]
      BY <1>5, <2>4, <3>1 DEF LocksRight
    <3> QED
      BY <1>1, <3>1, <3>2
  <2>5. ASSUME bufferId'[r] # None, r \notin blank', NEW i \in Writing(r)'
        PROVE  \E j \in Writing(r)' : i <= j /\ locks'[r][j].bufferId = bufferId'[r]
    <3>1. i \in 1 .. m - 1 /\ i + 1 \in Writing(r)
      BY <1>2, <2>5 DEF Writing
    <3>2. PICK j \in Writing(r) : i + 1 <= j /\ locks[r][j].bufferId = bufferId[r]
      BY <1>1, <1>5, <2>5, <3>1 DEF LocksRight
    <3>3. j \in 1 .. m
      BY <1>2 DEF Writing
    <3>4. j # 1 /\ i <= j - 1
      BY <1>2, <3>1, <3>2, <3>3, SMT
    <3>5. j - 1 \in Writing(r)' /\ locks'[r][j - 1] = locks[r][j]
      BY <1>2, <3>4
    <3>6. locks'[r][j - 1].bufferId = bufferId'[r]
      BY <1>1, <3>2, <3>5
    <3> QED
      BY <3>4, <3>5, <3>6
  <2>6. ASSUME {} \notin Flags[r], NEW i \in Writing(r)', NEW j \in Writing(r)', i # j
        PROVE  locks'[r][i].bufferId # locks'[r][j].bufferId
    <3>1. i \in 1 .. m - 1 /\ j \in 1 .. m - 1 /\ i + 1 \in Writing(r) /\ j + 1 \in Writing(r)
      BY <1>2, <2>6 DEF Writing
    <3>2. i + 1 # j + 1
      BY <2>6, <3>1, SMT
    <3>3. locks[r][i + 1].bufferId # locks[r][j + 1].bufferId
      BY <1>5, <2>6, <3>1, <3>2 DEF LocksRight
    <3> QED
      BY <1>2, <3>1, <3>3
  <2>7. LocksRight(r)'
    <3>1. \A i, j \in DOMAIN locks'[r] : i <= j => locks'[r][i].discarded # locks'[r][j].bufferId
      BY <1>2, <2>2
    <3>2. \A i, j \in DOMAIN locks'[r] :
            i < j /\ locks'[r][i].discarded # None => locks'[r][i].discarded # locks'[r][j].discarded
      BY <1>2, <2>3
    <3>3. \A i \in DOMAIN locks'[r] :
            locks'[r][i].discarded # None => locks'[r][i].discarded # bufferId'[r]
      BY <1>2, <2>4
    <3>4. bufferId'[r] # None /\ r \notin blank' => \A i \in Writing(r)' :
            \E j \in Writing(r)' : i <= j /\ locks'[r][j].bufferId = bufferId'[r]
      BY <2>5
    <3>5. {} \notin Flags[r] =>
            \A i, j \in Writing(r)' : i # j => locks'[r][i].bufferId # locks'[r][j].bufferId
      BY <2>6
    <3> QED
      BY <3>1, <3>2, <3>3, <3>4, <3>5 DEF LocksRight
  <2> QED
    BY <2>1, <2>7 DEF LocksInv
<1>13. ASSUME NEW s \in Resources, NEW i \in Writing(s)'
       PROVE  \E j \in Writing(s) : locks'[s][i].bufferId = locks[s][j].bufferId
  <2>1. CASE s = r
    <3>1. i \in Writing(r)'
      BY <1>13, <2>1
    <3>2. i \in 1 .. m - 1 /\ i + 1 \in Writing(r)
      BY <1>2, <3>1 DEF Writing
    <3> QED
      BY <1>2, <2>1, <3>2
  <2>2. CASE s # r
    BY <1>2, <1>6, <1>13, <2>2
  <2> QED
    BY <2>1, <2>2
<1>14. ASSUME NEW x \in BufferIds, lease[x] \in {"held", "released"}
       PROVE  lease'[x] \in {"held", "released"}
  BY <1>4, <1>14
\* The copy that is sent is of a buffer that nobody will write to where all discard.
<1>15. ASSUME 1 \in Writing(r)
       PROVE  CopyRight(r, b, Data(b))'
  <2>1. lease'[b] \in {"held", "released"}
    BY <1>3, <1>4, <1>14
  <2>2. \A s \in Resources : Uses(s, b)' => s = r
    BY <1>0, <1>3, <1>7, <1>8 DEF OwnersInv
  <2>3. Data(b)' = Data(b)
    BY <1>0, <1>1, <1>3, <1>4, DataStays
  <2>4. ASSUME {} \notin Flags[r], NEW i \in Writing(r)'
        PROVE  locks'[r][i].bufferId # b
    <3>1. i \in 1 .. m - 1 /\ i + 1 \in Writing(r)
      BY <1>2, <2>4 DEF Writing
    <3>2. i + 1 # 1
      BY <3>1, SMT
    <3>3. locks[r][i + 1].bufferId # b
      BY <1>5, <1>15, <2>4, <3>1, <3>2 DEF LocksRight
    <3> QED
      BY <1>2, <3>1, <3>3
  <2> QED
    BY <2>1, <2>2, <2>3, <2>4 DEF CopyRight
<1>16. CopiesInv'
  <2> SUFFICES ASSUME NEW k \in DOMAIN commands', NEW s \in Resources, NEW x \in BufferIds,
                      NEW w \in 0 .. MaxWrites, commands'[k] = CopyCmd(s, x, w)
               PROVE  CopyRight(s, x, w)'
    BY DEF CopiesInv, CopyCmd
  <2>1. CASE k \in 1 .. n
    <3>1. CopyRight(s, x, w)
      BY <1>0, <1>4, <2>1 DEF CopiesInv
    <3>2. lease'[x] \in {"held", "released"}
      BY <1>14, <3>1 DEF CopyRight
    <3>3. \A t \in Resources : Uses(t, x)' => Uses(t, x)
      BY <1>8
    <3> QED
      <4>1. {} \notin Flags[s] =>
              \A i \in Writing(s)' :
                \/ \E j \in Writing(s) : locks'[s][i].bufferId = locks[s][j].bufferId
                \/ lease[locks'[s][i].bufferId] = "unused"
        BY <1>13
      <4>2. HeapType /\ PlacesInv /\ HeapStep /\ UNCHANGED content
        BY <1>0, <1>1, <1>4
      <4> QED
        BY <3>1, <3>2, <3>3, <4>1, <4>2, CopyStaysRight
  <2>2. CASE 1 \in Writing(r) /\ commands'[k] = CopyCmd(r, b, Data(b))
    <3>1. s = r /\ x = b /\ w = Data(b)
      BY <2>2 DEF CopyCmd
    <3>2. PICK v : v = Data(b)
      OBVIOUS
    <3>3. Data(b)' = Data(b)
      BY <1>0, <1>1, <1>3, <1>4, DataStays
    <3> QED
      BY <1>15, <2>2, <3>1, <3>3 DEF CopyRight
  <2>3. commands'[k] # DeallocCmd(d)
    BY DEF CopyCmd, DeallocCmd
  <2> QED
    BY <1>4, <2>1, <2>2, <2>3
<1>17. DeallocsInv'
  <2> SUFFICES ASSUME NEW k \in DOMAIN commands', NEW x \in BufferIds, commands'[k] = DeallocCmd(x)
               PROVE  /\ lease'[x] = "released"
                      /\ \A l \in DOMAIN commands' : k < l => commands'[l].id # x
    BY DEF DeallocsInv, DeallocCmd
  <2>1. CASE k \in 1 .. n
    <3>1. /\ lease[x] = "released"
          /\ \A l \in 1 .. n : k < l => commands[l].id # x
      BY <1>0, <1>4, <2>1 DEF DeallocsInv
    <3>2. x # b /\ x # d
      BY <1>4, <3>1
    <3>3. CopyCmd(r, b, Data(b)).id = b /\ DeallocCmd(d).id = d
      BY DEF CopyCmd, DeallocCmd
    <3>4. lease'[x] = "released"
      BY <1>4, <3>1, <3>2
    <3> QED
      BY <1>4, <3>1, <3>2, <3>3, <3>4
  <2>2. CASE k = n + 2 /\ d # None /\ commands'[k] = DeallocCmd(d)
    <3>1. x = d
      BY <2>2 DEF DeallocCmd
    <3>2. \A l \in DOMAIN commands' : ~(k < l)
      <4>1. \A l \in 1 .. n : ~(k < l)
        BY <1>4, <2>2, SMT
      <4>2. ~(k < n + 1) /\ ~(k < n + 2)
        BY <1>4, <2>2, SMT
      <4> QED
        BY <1>4, <4>1, <4>2
    <3> QED
      BY <1>4, <2>2, <3>1, <3>2
  <2>3. commands'[k] # CopyCmd(r, b, Data(b))
    BY DEF CopyCmd, DeallocCmd
  <2> QED
    BY <1>4, <2>1, <2>2, <2>3
<1>18. \A s \in Resources : \A k \in CopiesFor(s) : k \in CopiesFor(s)' /\ commands'[k] = commands[k]
  BY <1>4 DEF CopiesFor
<1>19. \A s \in Resources : \A k \in CopiesFor(s)' :
         k \in CopiesFor(s) \/ (s = r /\ 1 \in Writing(r) /\ k = n + 1)
  <2> SUFFICES ASSUME NEW s \in Resources, NEW k \in CopiesFor(s)'
               PROVE  k \in CopiesFor(s) \/ (s = r /\ 1 \in Writing(r) /\ k = n + 1)
    OBVIOUS
  <2>1. k \in DOMAIN commands' /\ commands'[k].cmd = "Unlock" /\ commands'[k].resource = s
    BY DEF CopiesFor
  <2>2. CASE k \in 1 .. n
    BY <1>4, <2>1, <2>2 DEF CopiesFor
  <2>3. CASE k = n + 1 /\ 1 \in Writing(r) /\ commands'[k] = CopyCmd(r, b, Data(b))
    BY <2>1, <2>3 DEF CopyCmd
  <2>4. commands'[k] # DeallocCmd(d)
    BY <2>1 DEF DeallocCmd
  <2> QED
    BY <1>4, <2>1, <2>2, <2>3, <2>4
<1>20. CurrentInv'
  <2> SUFFICES ASSUME NEW s \in Resources, NEW x \in BufferIds,
                      bufferId'[s] = x, s \notin blank, Writing(s)' = {}
               PROVE  Current(s, x)'
    BY <1>1 DEF CurrentInv
  <2>1. bufferId[s] = x /\ lease[x] = "held"
    BY <1>0, <1>1 DEF OwnersInv, Uses
  <2>2. Data(x)' = Data(x)
    BY <1>0, <1>1, <1>4, <2>1, DataStays
  <2>3. CASE s = r /\ 1 \in Writing(r)
    <3>1. PICK j \in Writing(r) : 1 <= j /\ locks[r][j].bufferId = x
      BY <1>5, <2>1, <2>3 DEF LocksRight
    <3>2. j = 1
      BY <1>2, <2>3, <3>1
    <3>3. b = x
      BY <3>1, <3>2
    <3>4. n + 1 \in CopiesFor(r)' /\ commands'[n + 1].id = x
      BY <1>4, <2>3, <3>3 DEF CopiesFor, CopyCmd
    <3>5. ASSUME NEW l \in CopiesFor(r)'
          PROVE  l <= n + 1
      <4>1. CASE l \in CopiesFor(r)
        <5>1. l \in 1 .. n
          BY <1>4, <4>1 DEF CopiesFor
        <5> QED
          BY <1>4, <5>1, SMT
      <4>2. CASE l = n + 1
        BY <1>4, <4>2, SMT
      <4> QED
        BY <1>19, <3>5, <4>1, <4>2
    <3>6. Current(r, x)'
      BY <3>4, <3>5 DEF Current
    <3> QED
      BY <2>3, <3>6
  <2>4. CASE ~(s = r /\ 1 \in Writing(r))
    <3>1. Writing(s) = {}
      <4>1. CASE s = r
        <5>1. Writing(r)' = {}
          BY <4>1
        <5> QED
          BY <1>2, <2>4, <4>1, <5>1
      <4>2. CASE s # r
        BY <1>6, <4>2
      <4> QED
        BY <4>1, <4>2
    <3>2. Current(s, x)
      BY <1>0, <2>1, <3>1 DEF CurrentInv
    <3>3. \A k : k \in CopiesFor(s)' <=> k \in CopiesFor(s)
      BY <1>18, <1>19, <2>4
    <3>4. CopiesFor(s)' = CopiesFor(s)
      BY <3>3
    <3> QED
      BY <1>1, <1>18, <2>2, <3>2, <3>4 DEF Current
  <2> QED
    BY <2>3, <2>4
\* What a lock for reading has discarded nobody owns when it is undone; what another lock has
\* discarded is released.
<1>21. LostInThreeWays'
  <2> SUFFICES ASSUME NEW x \in BufferIds
               PROVE  x \in lost' <=> lease'[x] = "held" /\ \A s \in Resources : ~Owns(s, x)'
    BY <1>10, LostIs DEF LockTypeOK
  <2>1. x \in lost <=> lease[x] = "held" /\ \A s \in Resources : ~Owns(s, x)
    BY <1>0, LostIs
  <2>2. x \in lost' <=> x \in lost \/ (1 \notin Writing(r) /\ x = d)
    BY <1>1, <1>2, <1>4 DEF LostByUnlock
  <2>3. CASE x = d
    <3>1. Owns(r, x) /\ \A s \in Resources : ~Owns(s, x)'
      BY <1>2, <1>8, <2>3, OwnedIsUsed DEF Owns
    <3> QED
      BY <1>4, <2>1, <2>2, <2>3, <3>1
  <2>4. CASE x # d
    <3>1. lease'[x] = lease[x]
      BY <1>4, <2>4
    <3>2. \A s \in Resources : s # r => (Owns(s, x)' <=> Owns(s, x))
      BY <1>1, <1>2, OwnersSame
    <3>3. ASSUME NEW i \in 1 .. m, locks[r][i].discarded = x
          PROVE  \E j \in 1 .. m - 1 : locks'[r][j].discarded = x
      <4>1. i # 1
        BY <2>4, <3>3
      <4>2. i - 1 \in 1 .. m - 1 /\ (i - 1) + 1 = i
        BY <1>2, <4>1, SMT
      <4> QED
        BY <1>2, <3>3, <4>2
    <3>4. Owns(r, x)' <=> Owns(r, x)
      <4>1. Owns(r, x) => Owns(r, x)'
        BY <1>1, <1>2, <3>3 DEF Owns
      <4>2. ASSUME NEW j \in 1 .. m - 1, locks'[r][j].discarded = x
            PROVE  Owns(r, x)
        BY <1>2, <4>2 DEF Owns
      <4>3. Owns(r, x)' => Owns(r, x)
        BY <1>1, <1>2, <4>2 DEF Owns
      <4> QED
        BY <4>1, <4>3
    <3> QED
      BY <2>1, <2>2, <2>4, <3>1, <3>2, <3>4
  <2> QED
    BY <2>3, <2>4
<1> QED
  BY <1>9, <1>10, <1>11, <1>12, <1>16, <1>17, <1>20, <1>21 DEF LockInv

LEMMA LockInvInit ==
  LockInit => LockInv
<1> SUFFICES ASSUME LockInit PROVE LockInv
  OBVIOUS
<1>1. /\ lease = [id \in BufferIds |-> "unused"] /\ place = [id \in BufferIds |-> {}]
      /\ bufferId = [r \in Resources |-> None] /\ locks = [r \in Resources |-> <<>>]
      /\ content = [p \in Places |-> 0] /\ writes = 0 /\ commands = <<>>
      /\ serverCopy = [r \in Resources |-> 0] /\ blank = {} /\ lost = {}
  BY DEF LockInit, HeapInit
<1>2. \A r \in Resources : bufferId[r] = None /\ locks[r] = <<>> /\ DOMAIN locks[r] = {}
  BY <1>1, SMT
<1>3. DOMAIN commands = {}
  BY <1>1, SMT
<1>4. \A r \in Resources : Writing(r) = {} /\ \A id \in BufferIds : ~Uses(r, id)
  BY <1>2 DEF Writing, Uses
<1>5. HeapType
  BY <1>1 DEF HeapType
<1>6. LockTypeOK
  <2>1. <<>> \in Seq(LockType) /\ <<>> \in Seq(CommandType)
    BY EmptySeq
  <2>2. 0 \in 0 .. MaxWrites
    OBVIOUS
  <2>3. locks \in [Resources -> Seq(LockType)]
    BY <1>1, <2>1
  <2>4. commands \in Seq(CommandType)
    BY <1>1, <2>1
  <2>5. /\ bufferId \in [Resources -> BufferIds \cup {None}] /\ content \in [Places -> 0 .. MaxWrites]
        /\ writes \in 0 .. MaxWrites /\ serverCopy \in [Resources -> 0 .. MaxWrites]
        /\ blank \subseteq Resources /\ lost \subseteq BufferIds
    BY <1>1, <2>2
  <2> QED
    BY <1>2, <1>5, <2>3, <2>4, <2>5 DEF LockTypeOK
<1>7. PlacesInv
  BY <1>1 DEF PlacesInv
<1>8. OwnersInv
  BY <1>4 DEF OwnersInv
<1>9. LocksInv
  BY <1>2, <1>4 DEF LocksInv, LocksRight
<1>10. CopiesInv /\ DeallocsInv
  BY <1>3 DEF CopiesInv, DeallocsInv
<1>11. CurrentInv
  BY <1>2 DEF CurrentInv
<1>12. LostInThreeWays
  BY <1>1, LostIs
<1> QED
  BY <1>6, <1>7, <1>8, <1>9, <1>10, <1>11, <1>12 DEF LockInv

\* A step that changes nothing.
LEMMA LockStutterKeeps ==
  ASSUME LockInv, UNCHANGED allVars
  PROVE  LockInv'
<1>0. /\ LockTypeOK /\ PlacesInv /\ OwnersInv /\ LocksInv /\ CopiesInv /\ DeallocsInv
      /\ CurrentInv /\ LostInThreeWays
  BY DEF LockInv
<1>1. /\ UNCHANGED <<lease, place, bufferId, locks, content, writes, commands, serverCopy, blank, lost>>
      /\ HeapStep /\ HeapType
  BY <1>0 DEF allVars, heapVars, lockVars, HeapStep, LockTypeOK
<1>2. /\ \A s \in Resources : Writing(s)' = Writing(s)
      /\ \A s \in Resources, x \in BufferIds : Uses(s, x)' <=> Uses(s, x)
      /\ \A x \in BufferIds : Data(x)' = Data(x)
  BY <1>1 DEF Writing, Uses, Data
<1>3. LockTypeOK' /\ PlacesInv' /\ LostInThreeWays'
  BY <1>0, <1>1, OwnersSame, LostStays DEF LockTypeOK, HeapType, PlacesInv
<1>4. OwnersInv'
  BY <1>0, <1>1, <1>2 DEF OwnersInv
<1>5. LocksInv'
  BY <1>0, <1>1, LocksStayRight DEF LocksInv
<1>6. CopiesInv' /\ DeallocsInv'
  <2>1. \A s \in Resources : \A i \in Writing(s)' :
          \E j \in Writing(s) : locks'[s][i].bufferId = locks[s][j].bufferId
    BY <1>1, <1>2
  <2> QED
    BY <1>0, <1>1, <1>2, <2>1, QueueStays
<1>7. CurrentInv'
  BY <1>0, <1>1, <1>2, CurrentStays
<1> QED
  BY <1>3, <1>4, <1>5, <1>6, <1>7 DEF LockInv

LEMMA LockInvStep ==
  LockInv /\ [LockNext]_allVars => LockInv'
<1> SUFFICES ASSUME LockInv, [LockNext]_allVars PROVE LockInv'
  OBVIOUS
<1>1. CASE UNCHANGED allVars
  BY <1>1, LockStutterKeeps
<1>2. ASSUME NEW r \in Resources, NEW flags \in Flags[r], LockBuffer(r, flags)
      PROVE  LockInv'
  BY <1>2, LockBufferKeeps
<1>3. ASSUME NEW r \in Resources, NEW flags \in Flags[r], IdsLeft, NEW p \in Places,
             LockNewBuffer(r, flags, NextId, p)
      PROVE  LockInv'
  <2>1. NextId \in BufferIds
    BY <1>3 DEF IdsLeft, NextId
  <2> PICK new : new = NextId
    OBVIOUS
  <2>2. new \in BufferIds /\ LockNewBuffer(r, flags, new, p)
    BY <1>3, <2>1
  <2> QED
    BY <2>2, LockNewBufferKeeps
<1>4. ASSUME NEW r \in Resources, NEW flags \in Flags[r], LockFails(r, flags)
      PROVE  LockInv'
  BY <1>4, LockFailsKeeps
<1>5. ASSUME NEW r \in Resources, Write(r)
      PROVE  LockInv'
  BY <1>5, WriteKeeps
<1>6. ASSUME NEW r \in Resources, Unlock(r)
      PROVE  LockInv'
  BY <1>6, UnlockKeeps
<1>7. ASSUME NEW r \in Resources, Destroy(r)
      PROVE  LockInv'
  BY <1>7, DestroyKeeps
<1>8. CASE ServerUnlock
  BY <1>8, ServerUnlockKeeps
<1>9. CASE ServerHeapDealloc
  BY <1>9, ServerHeapDeallocKeeps
<1>10. ASSUME NEW id \in BufferIds, Reclaim(id)
       PROVE  LockInv'
  BY <1>10, ReclaimKeeps
<1> QED
  BY <1>1, <1>2, <1>3, <1>4, <1>5, <1>6, <1>7, <1>8, <1>9, <1>10 DEF LockNext

LEMMA LockInvHolds ==
  LockSpec => []LockInv
BY LockInvInit, LockInvStep, PTL DEF LockSpec

LEMMA LockInvReads ==
  LockInv => ServerReadsItsData
<1> SUFFICES ASSUME LockInv PROVE ServerReadsItsData
  OBVIOUS
<1>0. LockTypeOK /\ CopiesInv /\ CurrentInv
  BY DEF LockInv
\* The first command under way, if it is an unlock.
<1>1. ASSUME commands # <<>>, Head(commands).cmd = "Unlock"
      PROVE  /\ lease[Head(commands).id] \in {"held", "released"}
             /\ {} \notin Flags[Head(commands).resource] => Data(Head(commands).id) = Head(commands).wrote
  <2>1. commands \in Seq(CommandType) /\ DOMAIN commands = 1 .. Len(commands) /\ Len(commands) \in Nat
    BY <1>0, CommandsTyped
  <2>2. Head(commands) = commands[1]
    BY <1>1, <2>1, HeadTailProperties
  <2>3. 1 \in DOMAIN commands
    BY <1>1, <2>1, EmptySeq
  <2> PICK r, b, wrote : r = commands[1].resource /\ b = commands[1].id /\ wrote = commands[1].wrote
    OBVIOUS
  <2>4. /\ r \in Resources /\ b \in BufferIds /\ wrote \in 0 .. MaxWrites
        /\ commands[1] = CopyCmd(r, b, wrote)
    BY <1>0, <1>1, <2>2, <2>3, CommandsTyped DEF CopyCmd, CommandType
  <2>5. CopyRight(r, b, wrote)
    BY <1>0, <2>3, <2>4 DEF CopiesInv
  <2> QED
    BY <2>2, <2>5 DEF CopyRight
<1>2. ASSUME NEW r \in Resources, commands = <<>>, locks[r] = <<>>, bufferId[r] # None, r \notin blank
      PROVE  serverCopy[r] = Data(bufferId[r])
  <2>1. bufferId[r] \in BufferIds
    BY <1>0, <1>2 DEF LockTypeOK
  <2>2. DOMAIN locks[r] = {} /\ DOMAIN commands = {}
    BY <1>2, SMT
  <2>3. Writing(r) = {} /\ CopiesFor(r) = {}
    BY <2>2 DEF Writing, CopiesFor
  <2>4. Current(r, bufferId[r])
    BY <1>0, <1>2, <2>1, <2>3 DEF CurrentInv
  <2> QED
    BY <2>3, <2>4 DEF Current
<1> QED
  BY <1>1, <1>2 DEF ServerReadsItsData, ServerKnowsBuffer, CopiesWhatWasDiscarded, ServerIsCurrent

\* The locks, the device queue and the server's copies keep their types.
THEOREM LocksTypeCorrect == LockSpec => []LockTypeOK
<1>1. LockInv => LockTypeOK
  BY DEF LockInv
<1> QED
  BY <1>1, LockInvHolds, PTL

\* What the server reads in the shared heap, without any lock and behind the application
\* (getBuf, copySurface), is what it is meant to read: it knows the buffer, finds in it what
\* was written where every lock discards, and has caught up when nothing is under way.
THEOREM ServerReads == LockSpec => []ServerReadsItsData
BY LockInvHolds, LockInvReads, PTL

\* A buffer is lost in the heap, held by nobody who will release it, exactly if a discarding
\* lock found no room, a discarding lock for reading was undone, or the resource was destroyed
\* while a discarding lock was not undone (lock, unlock and ~LockableBuffer).
THEOREM LostOnlySo == LockSpec => []LostInThreeWays
<1>1. LockInv => LostInThreeWays
  BY DEF LockInv
<1> QED
  BY <1>1, LockInvHolds, PTL
===============================================================================

------------------------- MODULE DataQueueSyncProofs -------------------------
(***************************************************************************)
(* What holds of the data queue for rings of every size and commands of    *)
(* every shape: its positions stay in the ring, several words pushed at    *)
(* once go where the reader's single pulls go, every command ends for the  *)
(* server where its header says, and, while waits last, the semaphore is   *)
(* only ever released for a client that waits.  Outside the blind spots of *)
(* syncDataQueue no word of an unfinished command is overwritten.          *)
(***************************************************************************)
EXTENDS DataQueueSync, SequenceTheorems, TLAPS

----------------------------------------------------------------------------
(* The position arithmetic. *)

\* Where a bulk push of n words ends is n words further round the ring, however
\* the words are copied (CircularQueue::push_many).
LEMMA PushManyAdvances ==
  ASSUME NEW pos \in Pos, NEW n \in 1 .. TotalSize
  PROVE  PushMany(pos, n) = (pos + n) % TotalSize
BY TotalSizeAssumption, SMT DEF PushMany, Pos

\* One more word in a bulk push is one more pull of the reader: by as many pulls
\* as words, writer and reader come to the same position.
THEOREM PushManyIsPops ==
  ASSUME NEW pos \in Pos
  PROVE  /\ PushMany(pos, 1) = Pop(pos)
         /\ \A n \in 1 .. TotalSize - 1 : PushMany(pos, n + 1) = Pop(PushMany(pos, n))
<1>1. PushMany(pos, 1) = Pop(pos)
  BY TotalSizeAssumption, SMT DEF PushMany, Pop, Pos
<1>2. ASSUME NEW n \in 1 .. TotalSize - 1
      PROVE  PushMany(pos, n + 1) = Pop(PushMany(pos, n))
  BY TotalSizeAssumption, SMT DEF PushMany, Pop, Pos
<1> QED
  BY <1>1, <1>2

\* A blob lies in one piece inside the ring and is pulled from where it was pushed
\* (CircularBuffer::push and pull).
THEOREM BlobInOnePiece ==
  ASSUME NEW pos \in Pos, NEW n \in 1 .. TotalSize - 1
  PROVE  /\ EnsureSpace(Pop(pos), n) \in Pos
         /\ EnsureSpace(Pop(pos), n) + n \in Pos
         /\ PushItem(pos, Blob(n)) = PullItem(pos, Blob(n))
BY TotalSizeAssumption, SMT
   DEF EnsureSpace, Pop, Pos, PushItem, PullItem, PushBlob, Blob

\* No item leaves a position outside the ring.
LEMMA ItemsStayInRing ==
  ASSUME NEW pos \in Pos, NEW it \in Item
  PROVE  /\ Pop(pos) \in Pos
         /\ PushItem(pos, it) \in Pos
         /\ PullItem(pos, it) \in Pos
         /\ MemUsage(it) \in 1 .. TotalSize
<1>1. CASE \E n \in 1 .. TotalSize : it = Many(n)
  BY <1>1, TotalSizeAssumption, SMT
     DEF Many, Pop, Pos, PushItem, PullItem, PushMany, MemUsage
<1>2. CASE \E n \in 1 .. TotalSize - 1 : it = Blob(n)
  BY <1>2, TotalSizeAssumption, SMT
     DEF Blob, Pop, Pos, PushItem, PullItem, PushBlob, EnsureSpace, MemUsage
<1> QED
  BY <1>1, <1>2 DEF Item

\* What is left of an item after one pull is an item or nothing.
LEMMA LeftOfIsItems ==
  ASSUME NEW it \in Item
  PROVE  LeftOf(it) \in Seq(Item)
<1>1. CASE it.kind = "many" /\ it.words > 1
  <2>1. PICK n \in 1 .. TotalSize : it = Many(n)
    BY <1>1 DEF Item, Many, Blob
  <2>2. it.words - 1 \in 1 .. TotalSize
    BY <1>1, <2>1, TotalSizeAssumption, SMT DEF Many
  <2>3. Many(it.words - 1) \in Item
    BY <2>2 DEF Item
  <2> QED
    BY <1>1, <2>3 DEF LeftOf
<1>2. CASE ~(it.kind = "many" /\ it.words > 1)
  BY <1>2 DEF LeftOf
<1> QED
  BY <1>1, <1>2

----------------------------------------------------------------------------
(* Type correctness. *)

\* While a command is being sent there is an item to send, from a known start.
Sending ==
  /\ client.at \in {"sync", "wrap", "check", "announce", "fits", "wait", "resolved",
                    "resetFlag", "write"} => client.left # <<>>
  /\ client.at \in {"sync", "wrap", "check", "announce", "fits", "wait", "resolved",
                    "resetFlag", "write", "send"} => client.start \in Pos

TypeInv == TypeOK /\ Sending

\* The items of a command, with its identifier, are items of the ring.
LEMMA ShapeItems ==
  ASSUME NEW shape \in [items : Seq(Item), answered : BOOLEAN]
  PROVE  <<Word>> \o shape.items \in Seq(Item) /\ <<Word>> \o shape.items # <<>>
<1>1. Word \in Item
  <2>1. 1 \in 1 .. TotalSize
    BY TotalSizeAssumption, SMT
  <2> QED
    BY <2>1 DEF Item, Word
<1>2. <<Word>> \in Seq(Item)
  BY <1>1
<1>3. <<Word>> \o shape.items \in Seq(Item) /\ Len(<<Word>> \o shape.items) = 1 + Len(shape.items)
  BY <1>2, ConcatProperties
<1>4. Len(shape.items) \in Nat
  BY LenProperties
<1>5. Len(<<Word>> \o shape.items) # 0
  BY <1>3, <1>4, SMT
<1> QED
  BY <1>3, <1>5, EmptySeq

LEMMA TypeInvInit == Init => TypeInv
<1> SUFFICES ASSUME Init PROVE TypeInv
  OBVIOUS
<1> USE TotalSizeAssumption, SyncAssumption
<1>1. 0 \in Pos /\ 0 \in 0 .. MaxCommands /\ 0 \in 0 .. 2 * TotalSize
  BY SMT DEF Pos
<1>2. client \in ClientType
  BY <1>1 DEF Init, ClientType
<1>3. server \in ServerType
  BY <1>1 DEF Init, ServerType
<1>4. Len(commands) <= CmdSlots
  BY SMT DEF Init
<1>5. Sending
  BY DEF Init, Sending
<1>6. commands \in Seq([uid : 0 .. MaxCommands, offset : Pos,
                         shape : [items : Seq(Item), answered : BOOLEAN]])
  BY DEF Init
<1>7. data \in [Pos -> 0 .. MaxCommands]
  BY <1>1 DEF Init
<1>8. /\ serverDataPos \in Pos \cup {None} /\ clientDataExpectedPos \in Pos \cup {None}
      /\ serverResetPosRequired \in BOOLEAN /\ dataSemaphore \in {0, 1}
  BY DEF Init
<1> QED
  BY <1>2, <1>3, <1>4, <1>5, <1>6, <1>7, <1>8 DEF TypeInv, TypeOK

\* An action of the client's that changes none of the queues.
LEMMA TypeInvSync == TypeInv /\ Sync => TypeInv'
<1> SUFFICES ASSUME TypeInv, Sync PROVE TypeInv'
  OBVIOUS
<1> USE TotalSizeAssumption, SyncAssumption
<1>0. client.at \in {"sync", "wrap"} => MemUsage(item) \in 1 .. TotalSize
  <2> SUFFICES ASSUME client.at \in {"sync", "wrap"} PROVE MemUsage(item) \in 1 .. TotalSize
    OBVIOUS
  <2>1. client.left \in Seq(Item) /\ client.left # <<>>
    BY DEF TypeInv, TypeOK, Sending, ClientType
  <2>2. item \in Item
    BY <2>1, HeadTailProperties DEF item
  <2>3. 0 \in Pos
    BY SMT DEF Pos
  <2> QED
    BY <2>2, <2>3, ItemsStayInRing
<1>1. CASE SyncBegin
  <2>1. client.pos + MemUsage(item) - 1 \in 0 .. 2 * TotalSize
    <3>1. MemUsage(item) \in 1 .. TotalSize /\ client.pos \in Pos
      BY <1>0, <1>1 DEF SyncBegin, TypeInv, TypeOK, ClientType
    <3> QED
      BY <3>1, SMT DEF Pos
  <2>2. client' \in ClientType
    BY <1>1, <2>1 DEF SyncBegin, TypeInv, TypeOK, ClientType
  <2>3. Sending'
    BY <1>1 DEF SyncBegin, TypeInv, TypeOK, ClientType, Sending
  <2> QED
    BY <1>1, <2>2, <2>3 DEF SyncBegin, TypeInv, TypeOK, shared
<1>2. CASE SyncDoubleOverflow
  <2>1. client' \in ClientType
    BY <1>2 DEF SyncDoubleOverflow, TypeInv, TypeOK, ClientType
  <2>2. Sending'
    BY <1>2 DEF SyncDoubleOverflow, TypeInv, TypeOK, ClientType, Sending
  <2> QED
    BY <1>2, <2>1, <2>2 DEF SyncDoubleOverflow, TypeInv, TypeOK, shared
<1>3. CASE SyncWrap
  <2>1. MemUsage(item) - 1 \in 0 .. 2 * TotalSize
    <3>1. MemUsage(item) \in 1 .. TotalSize
      BY <1>0, <1>3 DEF SyncWrap
    <3> QED
      BY <3>1, SMT
  <2>2. client.expected - TotalSize \in 0 .. 2 * TotalSize
    <3>1. client.expected \in 0 .. 2 * TotalSize /\ client.expected >= TotalSize
      BY <1>3 DEF SyncWrap, TypeInv, TypeOK, ClientType
    <3> QED
      BY <3>1, SMT
  <2>3. client' \in ClientType
    BY <1>3, <2>1, <2>2 DEF SyncWrap, TypeInv, TypeOK, ClientType
  <2>4. Sending'
    BY <1>3 DEF SyncWrap, TypeInv, TypeOK, ClientType, Sending
  <2> QED
    BY <1>3, <2>3, <2>4 DEF SyncWrap, TypeInv, TypeOK
<1>4. CASE SyncNoWrap
  <2>1. client' \in ClientType
    BY <1>4 DEF SyncNoWrap, TypeInv, TypeOK, ClientType
  <2>2. Sending'
    BY <1>4 DEF SyncNoWrap, TypeInv, TypeOK, ClientType, Sending
  <2> QED
    BY <1>4, <2>1, <2>2 DEF SyncNoWrap, TypeInv, TypeOK, shared
<1>5. CASE SyncCheck
  <2> PICK blind \in BOOLEAN : blind = (client.blind \/ BlindSpot)
    OBVIOUS
  <2>3. client \in ClientType
    BY DEF TypeInv, TypeOK
  <2>1. client' \in ClientType
    <3>1. CASE Overwrites
      <4>1. client' = [client EXCEPT !.at = "announce", !.twice = FALSE, !.blind = blind]
        BY <1>5, <3>1 DEF SyncCheck
      <4> QED
        BY <2>3, <4>1 DEF ClientType
    <3>2. CASE ~Overwrites
      <4>1. client' = [client EXCEPT !.at = "write", !.twice = FALSE, !.blind = blind]
        BY <1>5, <3>2 DEF SyncCheck
      <4> QED
        BY <2>3, <4>1 DEF ClientType
    <3> QED
      BY <3>1, <3>2
  <2>2. Sending'
    BY <1>5 DEF SyncCheck, TypeInv, TypeOK, ClientType, Sending
  <2> QED
    BY <1>5, <2>1, <2>2 DEF SyncCheck, TypeInv, TypeOK, shared
<1>6. CASE Announce
  <2>1. client.start - 1 \in Pos \cup {None}
    <3>1. client.start \in Pos
      BY <1>6 DEF Announce, TypeInv, Sending
    <3> QED
      BY <3>1, SMT DEF Pos, None
  <2>2. client' \in ClientType
    BY <1>6 DEF Announce, TypeInv, TypeOK, ClientType
  <2>3. Sending'
    BY <1>6 DEF Announce, TypeInv, TypeOK, ClientType, Sending
  <2> QED
    BY <1>6, <2>1, <2>2, <2>3 DEF Announce, TypeInv, TypeOK
<1>7. CASE Fits \/ FitsNot
  <2>0. /\ client.at = "fits" /\ UNCHANGED <<data, shared, commands, server>>
        /\ \E at \in {"wait", "exited"} : client' = [client EXCEPT !.at = at]
    BY <1>7 DEF Fits, FitsNot
  <2> PICK at \in {"wait", "exited"} : client' = [client EXCEPT !.at = at]
    BY <2>0
  <2>1. client' \in ClientType
    BY DEF TypeInv, TypeOK, ClientType
  <2>2. client'.left = client.left /\ client'.start = client.start
    BY DEF TypeInv, TypeOK, ClientType
  <2>3. Sending'
    BY <2>0, <2>2 DEF TypeInv, Sending
  <2> QED
    BY <2>0, <2>1, <2>3 DEF TypeInv, TypeOK, shared
<1>8. CASE WaitSuccess
  <2>1. dataSemaphore' \in {0, 1}
    <3>1. dataSemaphore \in {0, 1} /\ dataSemaphore > 0 /\ dataSemaphore' = dataSemaphore - 1
      BY <1>8 DEF WaitSuccess, TypeInv, TypeOK
    <3> QED
      BY <3>1, SMT
  <2>2. client' \in ClientType
    BY <1>8 DEF WaitSuccess, TypeInv, TypeOK, ClientType
  <2>3. Sending'
    BY <1>8 DEF WaitSuccess, TypeInv, TypeOK, ClientType, Sending
  <2> QED
    BY <1>8, <2>1, <2>2, <2>3 DEF WaitSuccess, TypeInv, TypeOK
<1>9. CASE WaitFailure
  <2>1. client' \in ClientType
    BY <1>9 DEF WaitFailure, TypeInv, TypeOK, ClientType
  <2>2. Sending'
    BY <1>9 DEF WaitFailure, TypeInv, TypeOK, ClientType, Sending
  <2> QED
    BY <1>9, <2>1, <2>2 DEF WaitFailure, TypeInv, TypeOK, shared
<1>10. CASE Resolved
  <2>1. client' \in ClientType
    BY <1>10 DEF Resolved, TypeInv, TypeOK, ClientType
  <2>2. Sending'
    BY <1>10 DEF Resolved, TypeInv, TypeOK, ClientType, Sending
  <2> QED
    BY <1>10, <2>1, <2>2 DEF Resolved, TypeInv, TypeOK
<1>11. CASE ResolvedReset
  <2>1. client' \in ClientType
    BY <1>11 DEF ResolvedReset, TypeInv, TypeOK, ClientType
  <2>2. Sending'
    BY <1>11 DEF ResolvedReset, TypeInv, TypeOK, ClientType, Sending
  <2> QED
    BY <1>11, <2>1, <2>2 DEF ResolvedReset, TypeInv, TypeOK
<1> QED
  BY <1>1, <1>2, <1>3, <1>4, <1>5, <1>6, <1>7, <1>8, <1>9, <1>10, <1>11 DEF Sync

LEMMA TailOfLonger ==
  ASSUME NEW s \in Seq(Item), s # <<>>, Len(s) > 1
  PROVE  Tail(s) # <<>>
<1> DEFINE n == Len(s)
           m == Len(Tail(s))
<1>1. Tail(s) \in Seq(Item) /\ m = n - 1 /\ n \in Nat /\ n > 1
  BY HeadTailProperties, LenProperties
<1> HIDE DEF n, m
<1>2. m # 0
  BY <1>1, SMT
<1> QED
  BY <1>1, <1>2, EmptySeq DEF m

LEMMA TypeInvClient == TypeInv /\ ClientStep => TypeInv'
<1> SUFFICES ASSUME TypeInv, ClientStep PROVE TypeInv'
  OBVIOUS
<1>1. CASE Sync
  BY <1>1, TypeInvSync
<1>2. CASE WriteItem
  <2>1. client.left \in Seq(Item) /\ client.left # <<>> /\ client.pos \in Pos
    BY <1>2 DEF WriteItem, TypeInv, TypeOK, Sending, ClientType
  <2>2. item \in Item /\ Tail(client.left) \in Seq(Item)
    BY <2>1, HeadTailProperties DEF item
  <2>3. PushItem(client.pos, item) \in Pos
    BY <2>1, <2>2, ItemsStayInRing
  <2>4. Len(client.left) > 1 => Tail(client.left) # <<>>
    BY <2>1, TailOfLonger
  <2>5. data' \in [Pos -> 0 .. MaxCommands]
    BY <1>2 DEF WriteItem, TypeInv, TypeOK, ClientType
  <2>6. client' \in ClientType
    BY <1>2, <2>2, <2>3 DEF WriteItem, TypeInv, TypeOK, ClientType
  <2>7. Sending'
    BY <1>2, <2>4 DEF WriteItem, TypeInv, TypeOK, ClientType, Sending
  <2> QED
    BY <1>2, <2>5, <2>6, <2>7 DEF WriteItem, TypeInv, TypeOK, shared
<1>3. CASE CommandEnd
  <2> DEFINE cmd == [uid |-> client.uid, offset |-> client.pos, shape |-> client.shape]
             Header == [uid : 0 .. MaxCommands, offset : Pos,
                        shape : [items : Seq(Item), answered : BOOLEAN]]
  <2>1. cmd \in Header
    BY DEF TypeInv, TypeOK, ClientType
  <2>2. commands \in Seq(Header) /\ Len(commands) \in Nat
    BY LenProperties DEF TypeInv, TypeOK
  <2>3. commands' = Append(commands, cmd) /\ Len(commands) < CmdSlots
    BY <1>3 DEF CommandEnd
  <2>4. commands' \in Seq(Header) /\ Len(commands') = Len(commands) + 1
    BY <2>1, <2>2, <2>3, AppendProperties
  <2>5. Len(commands') <= CmdSlots
    BY <2>2, <2>3, <2>4, SyncAssumption, SMT
  <2>6. client' \in ClientType
    BY <1>3 DEF CommandEnd, TypeInv, TypeOK, ClientType, None
  <2>7. Sending'
    BY <1>3 DEF CommandEnd, TypeInv, TypeOK, ClientType, Sending
  <2>8. UNCHANGED <<data, shared, server>>
    BY <1>3 DEF CommandEnd
  <2> QED
    BY <2>4, <2>5, <2>6, <2>7, <2>8 DEF TypeInv, TypeOK, shared
<1>4. CASE Answered
  <2>1. client' \in ClientType
    BY <1>4 DEF Answered, TypeInv, TypeOK, ClientType
  <2>2. Sending'
    BY <1>4 DEF Answered, TypeInv, TypeOK, ClientType, Sending
  <2> QED
    BY <1>4, <2>1, <2>2 DEF Answered, TypeInv, TypeOK, shared
<1>5. CASE CommandLost
  <2>1. client' \in ClientType
    BY <1>5 DEF CommandLost, TypeInv, TypeOK, ClientType, None
  <2>2. Sending'
    BY <1>5 DEF CommandLost, TypeInv, TypeOK, ClientType, Sending
  <2> QED
    BY <1>5, <2>1, <2>2 DEF CommandLost, TypeInv, TypeOK, shared
<1> QED
  BY <1>1, <1>2, <1>3, <1>4, <1>5 DEF ClientStep

LEMMA TypeInvServer == TypeInv /\ Server => TypeInv'
<1> SUFFICES ASSUME TypeInv, Server PROVE TypeInv'
  OBVIOUS
<1>1. CASE ServerTake
  <2> DEFINE Header == [uid : 0 .. MaxCommands, offset : Pos,
                        shape : [items : Seq(Item), answered : BOOLEAN]]
  <2>1. commands \in Seq(Header) /\ commands # <<>> /\ Len(commands) \in Nat
    BY <1>1, LenProperties DEF ServerTake, TypeInv, TypeOK
  <2>2. /\ Head(commands) \in Header
        /\ Tail(commands) \in Seq(Header)
        /\ Len(Tail(commands)) = Len(commands) - 1
    BY <2>1, HeadTailProperties
  <2>3. <<Word>> \o Head(commands).shape.items \in Seq(Item)
    BY <2>2, ShapeItems
  <2>4. Len(Tail(commands)) <= CmdSlots
    <3>1. Len(commands) <= CmdSlots
      BY DEF TypeInv, TypeOK
    <3> QED
      BY <2>1, <2>2, <3>1, SyncAssumption, SMT
  <2>5. server' \in ServerType
    BY <1>1, <2>2, <2>3 DEF ServerTake, TypeInv, TypeOK, ServerType
  <2>6. UNCHANGED <<data, shared, client>> /\ commands' = Tail(commands)
    BY <1>1 DEF ServerTake
  <2> QED
    BY <2>2, <2>4, <2>5, <2>6 DEF TypeInv, TypeOK, Sending, shared
<1>2. CASE ServerPull
  <2> DEFINE it == Head(server.left)
  <2>1. server.left \in Seq(Item) /\ server.left # <<>> /\ server.pos \in Pos
    BY <1>2 DEF ServerPull, TypeInv, TypeOK, ServerType
  <2>2. it \in Item /\ Tail(server.left) \in Seq(Item)
    BY <2>1, HeadTailProperties
  <2>3. PullItem(server.pos, it) \in Pos
    BY <2>1, <2>2, ItemsStayInRing
  <2>4. LeftOf(it) \o Tail(server.left) \in Seq(Item)
    BY <2>2, LeftOfIsItems, ConcatProperties
  <2>5. /\ server' = [server EXCEPT !.pos = PullItem(server.pos, it),
                                    !.left = LeftOf(it) \o Tail(server.left)]
        /\ serverResetPosRequired' \in BOOLEAN
        /\ UNCHANGED <<data, serverDataPos, clientDataExpectedPos, dataSemaphore, commands, client>>
    <3>1. serverResetPosRequired \in BOOLEAN
      BY DEF TypeInv, TypeOK
    <3> QED
      BY <1>2, <3>1 DEF ServerPull
  <2> HIDE DEF it
  <2>6. server' \in ServerType
    BY <2>3, <2>4, <2>5 DEF TypeInv, TypeOK, ServerType
  <2> QED
    BY <2>5, <2>6 DEF TypeInv, TypeOK, Sending
<1>3. CASE ServerAnswer
  <2>1. server' \in ServerType
    BY <1>3 DEF ServerAnswer, TypeInv, TypeOK, ServerType
  <2> QED
    BY <1>3, <2>1 DEF ServerAnswer, TypeInv, TypeOK, Sending, shared
<1>4. CASE ServerPublish
  <2>1. server' \in ServerType /\ serverDataPos' \in Pos
    BY <1>4 DEF ServerPublish, TypeInv, TypeOK, ServerType
  <2> QED
    BY <1>4, <2>1 DEF ServerPublish, TypeInv, TypeOK, Sending
<1>5. CASE ServerSeesWaiter \/ ServerPassed \/ ServerSameLap \/ ServerNotAwaited
  <2>1. server' \in ServerType
    BY <1>5 DEF ServerSeesWaiter, ServerPassed, ServerSameLap, ServerNotAwaited,
                TypeInv, TypeOK, ServerType
  <2> QED
    BY <1>5, <2>1 DEF ServerSeesWaiter, ServerPassed, ServerSameLap, ServerNotAwaited,
                      TypeInv, TypeOK, Sending, shared
<1>6. CASE ServerRelease
  <2>1. server' \in ServerType
    BY <1>6 DEF ServerRelease, TypeInv, TypeOK, ServerType
  <2> QED
    BY <1>6, <2>1 DEF ServerRelease, TypeInv, TypeOK, Sending
<1>7. CASE ServerClear
  <2>1. server' \in ServerType
    BY <1>7 DEF ServerClear, TypeInv, TypeOK, ServerType
  <2> QED
    BY <1>7, <2>1 DEF ServerClear, TypeInv, TypeOK, Sending
<1> QED
  BY <1>1, <1>2, <1>3, <1>4, <1>5, <1>6, <1>7 DEF Server

LEMMA TypeInvBegin ==
  ASSUME NEW shape \in Shape
  PROVE  TypeInv /\ CommandBegin(shape) => TypeInv'
<1> SUFFICES ASSUME TypeInv, CommandBegin(shape) PROVE TypeInv'
  OBVIOUS
<1>1. shape \in [items : Seq(Item), answered : BOOLEAN]
  BY SyncAssumption
<1>2. <<Word>> \o shape.items \in Seq(Item) /\ <<Word>> \o shape.items # <<>>
  BY <1>1, ShapeItems
<1>3. client.uid + 1 \in 0 .. MaxCommands
  <2>1. client.uid \in 0 .. MaxCommands /\ client.uid < MaxCommands
    BY DEF TypeInv, TypeOK, ClientType, CommandBegin
  <2> QED
    BY <2>1, SyncAssumption, SMT
<1>4. client' \in ClientType
  BY <1>1, <1>2, <1>3 DEF CommandBegin, TypeInv, TypeOK, ClientType
<1>5. Sending'
  BY <1>2 DEF CommandBegin, TypeInv, TypeOK, ClientType, Sending
<1> QED
  BY <1>4, <1>5 DEF CommandBegin, TypeInv, TypeOK, shared

LEMMA TypeInvStep == TypeInv /\ [Next]_vars => TypeInv'
<1> SUFFICES ASSUME TypeInv, [Next]_vars PROVE TypeInv'
  OBVIOUS
<1>1. CASE \E shape \in Shape : CommandBegin(shape)
  BY <1>1, TypeInvBegin
<1>2. CASE ClientStep
  BY <1>2, TypeInvClient
<1>3. CASE Server
  BY <1>3, TypeInvServer
<1>4. CASE UNCHANGED vars
  BY <1>4 DEF vars, TypeInv, TypeOK, Sending
<1> QED
  BY <1>1, <1>2, <1>3, <1>4 DEF Next

\* The positions of client and server stay in the ring, the shared words hold a
\* position or the sentinel, and the command queue is never overfull.
THEOREM TypeCorrect == Spec => []TypeOK
<1>1. TypeInv => TypeOK
  BY DEF TypeInv
<1> QED
  BY <1>1, TypeInvInit, TypeInvStep, PTL DEF Spec

----------------------------------------------------------------------------
(* The release and the announcement.  That a release finds its client       *)
(* waiting follows from where the announcement can be: only the client sets *)
(* it, just before it waits, and only a release lets the client go on.      *)

Waiting == {"fits", "wait", "exited"}

ReleaseInv ==
  /\ dataSemaphore = 1 => client.at \in Waiting
  /\ clientDataExpectedPos # None => client.at \in Waiting \cup {"resolved"}
  /\ server.at \in {"compare", "lap", "release"} => client.at \in Waiting /\ dataSemaphore = 0
  /\ client.at = "resolved" /\ clientDataExpectedPos # None => server.at = "clear"
  /\ dataSemaphore = 1 /\ clientDataExpectedPos # None => server.at = "clear"

LEMMA ReleaseInvInit == Init => ReleaseInv
BY DEF Init, ReleaseInv, Waiting

LEMMA ReleaseInvStep ==
  TypeInv /\ ReleaseInv /\ [Next]_vars => ReleaseInv' \/ client'.gaveUp
<1> SUFFICES ASSUME TypeInv, ReleaseInv, [Next]_vars, ~client'.gaveUp PROVE ReleaseInv'
  OBVIOUS
<1> USE DEF ReleaseInv, Waiting
<1>0. dataSemaphore \in {0, 1} /\ client \in ClientType /\ server \in ServerType
  BY DEF TypeInv, TypeOK
\* Steps of the client that leave the semaphore and the announcement alone, and do
\* not begin or end a wait.
<1>1. ASSUME UNCHANGED <<clientDataExpectedPos, dataSemaphore, server.at>>,
             client.at \notin Waiting \cup {"resolved"}
      PROVE  ReleaseInv'
  BY <1>0, <1>1
<1>2. CASE \E shape \in Shape : CommandBegin(shape)
  <2>1. UNCHANGED <<clientDataExpectedPos, dataSemaphore, server.at>> /\ client.at = "idle"
    BY <1>2 DEF CommandBegin, shared
  <2> QED
    BY <1>1, <2>1
<1>3. CASE SyncBegin \/ SyncDoubleOverflow \/ SyncWrap \/ SyncNoWrap \/ SyncCheck
           \/ ResolvedReset \/ WriteItem \/ CommandEnd \/ CommandLost \/ Answered
  <2>1. /\ UNCHANGED <<clientDataExpectedPos, dataSemaphore, server.at>>
        /\ client.at \in {"sync", "wrap", "check", "resetFlag", "write", "send", "answer"}
    BY <1>3 DEF SyncBegin, SyncDoubleOverflow, SyncWrap, SyncNoWrap, SyncCheck, ResolvedReset,
                WriteItem, CommandEnd, CommandLost, Answered, shared
  <2> QED
    BY <1>1, <2>1
<1>4. CASE Announce
  <2>1. client.at = "announce" /\ client'.at = "fits" /\ UNCHANGED <<dataSemaphore, server>>
    BY <1>0, <1>4 DEF Announce, ClientType
  <2> QED
    BY <1>0, <2>1
<1>5. CASE Fits \/ FitsNot
  <2>1. /\ client.at = "fits" /\ client'.at \in {"wait", "exited"}
        /\ UNCHANGED <<clientDataExpectedPos, dataSemaphore, server>>
    BY <1>0, <1>5 DEF Fits, FitsNot, ClientType, shared
  <2> QED
    BY <1>0, <2>1
<1>6. CASE WaitSuccess
  <2>1. /\ client.at = "wait" /\ client'.at = "resolved" /\ dataSemaphore = 1
        /\ dataSemaphore' = 0 /\ UNCHANGED <<clientDataExpectedPos, server>>
    <3>1. dataSemaphore > 0 /\ dataSemaphore' = dataSemaphore - 1
      BY <1>6 DEF WaitSuccess
    <3>2. dataSemaphore = 1 /\ dataSemaphore' = 0
      BY <1>0, <3>1, SMT
    <3> QED
      BY <1>0, <1>6, <3>2 DEF WaitSuccess, ClientType
  <2> QED
    BY <1>0, <2>1
<1>7. CASE WaitFailure
  <2>1. client'.gaveUp
    BY <1>0, <1>7 DEF WaitFailure, ClientType
  <2> QED
    BY <2>1
<1>8. CASE Resolved
  <2>1. /\ client.at = "resolved" /\ client'.at = "resetFlag"
        /\ clientDataExpectedPos' = None /\ UNCHANGED <<dataSemaphore, server>>
    BY <1>0, <1>8 DEF Resolved, ClientType
  <2> QED
    BY <1>0, <2>1
<1>9. CASE Server
  <2>1. CASE ServerTake \/ ServerPull \/ ServerAnswer \/ ServerPublish
    <3>1. /\ UNCHANGED <<clientDataExpectedPos, dataSemaphore, client>>
          /\ server.at \in {"idle", "reading"} /\ server'.at \in {"reading", "check"}
      BY <1>0, <2>1 DEF ServerTake, ServerPull, ServerAnswer, ServerPublish, ServerType, shared
    <3> QED
      BY <1>0, <3>1
  <2>2. CASE ServerSeesWaiter
    <3>1. /\ UNCHANGED <<clientDataExpectedPos, dataSemaphore, client>>
          /\ server.at = "check" /\ server'.at = "compare" /\ clientDataExpectedPos # None
      BY <1>0, <2>2 DEF ServerSeesWaiter, ServerType, shared
    <3> QED
      BY <1>0, <3>1
  <2>3. CASE ServerPassed \/ ServerSameLap
    <3>1. /\ UNCHANGED <<clientDataExpectedPos, dataSemaphore, client>>
          /\ server.at \in {"compare", "lap"} /\ server'.at \in {"lap", "release"}
      BY <1>0, <2>3 DEF ServerPassed, ServerSameLap, ServerType, shared
    <3> QED
      BY <1>0, <3>1
  <2>4. CASE ServerNotAwaited
    <3>1. /\ UNCHANGED <<clientDataExpectedPos, dataSemaphore, client>>
          /\ server.at \in {"check", "compare", "lap"} /\ server'.at = "idle"
      BY <1>0, <2>4 DEF ServerNotAwaited, ServerType, shared
    <3> QED
      BY <1>0, <3>1
  <2>5. CASE ServerRelease
    <3>1. /\ UNCHANGED <<clientDataExpectedPos, client>> /\ dataSemaphore' = 1
          /\ server.at = "release" /\ server'.at = "clear"
      BY <1>0, <2>5 DEF ServerRelease, ServerType
    <3> QED
      BY <1>0, <3>1
  <2>6. CASE ServerClear
    <3>1. /\ UNCHANGED <<dataSemaphore, client>> /\ clientDataExpectedPos' = None
          /\ server.at = "clear" /\ server'.at = "idle"
      BY <1>0, <2>6 DEF ServerClear, ServerType
    <3> QED
      BY <1>0, <3>1
  <2> QED
    BY <1>9, <2>1, <2>2, <2>3, <2>4, <2>5, <2>6 DEF Server
<1>10. CASE UNCHANGED vars
  BY <1>10 DEF vars
<1> QED
  BY <1>2, <1>3, <1>4, <1>5, <1>6, <1>7, <1>8, <1>9, <1>10 DEF Next, ClientStep, Sync

\* Once the retries of a wait have run out, that is known.
LEMMA GaveUpStays == TypeInv /\ [Next]_vars /\ client.gaveUp => client'.gaveUp
<1> SUFFICES ASSUME TypeInv, [Next]_vars, client.gaveUp PROVE client'.gaveUp
  OBVIOUS
<1>0. client \in ClientType
  BY DEF TypeInv, TypeOK
<1>1. CASE \E shape \in Shape : CommandBegin(shape)
  BY <1>0, <1>1 DEF CommandBegin, ClientType
<1>2. CASE SyncBegin \/ SyncDoubleOverflow \/ SyncWrap \/ SyncNoWrap \/ SyncCheck
  BY <1>0, <1>2 DEF SyncBegin, SyncDoubleOverflow, SyncWrap, SyncNoWrap, SyncCheck, ClientType
<1>3. CASE Announce \/ Fits \/ FitsNot \/ WaitSuccess \/ WaitFailure \/ Resolved \/ ResolvedReset
  BY <1>0, <1>3 DEF Announce, Fits, FitsNot, WaitSuccess, WaitFailure, Resolved, ResolvedReset, ClientType
<1>4. CASE WriteItem \/ CommandEnd \/ CommandLost \/ Answered
  BY <1>0, <1>4 DEF WriteItem, CommandEnd, CommandLost, Answered, ClientType
<1>5. CASE Server \/ UNCHANGED vars
  BY <1>5 DEF Server, ServerTake, ServerPull, ServerAnswer, ServerPublish, ServerSeesWaiter, ServerPassed,
              ServerSameLap, ServerNotAwaited, ServerRelease, ServerClear, vars
<1> QED
  BY <1>1, <1>2, <1>3, <1>4, <1>5 DEF Next, ClientStep, Sync

\* Until the retries of a wait run out, the server releases the semaphore only for a
\* client that waits or is about to, and never twice for one wait: no later wait is
\* let through by a release that was left over.
THEOREM ReleasesAreAwaited == Spec => []ReleaseForWaiter
<1> DEFINE Inv == ReleaseInv \/ client.gaveUp
<1>1. Inv => ReleaseForWaiter
  BY DEF ReleaseInv, ReleaseForWaiter, Waiting
<1>2. TypeInv /\ Inv /\ [Next]_vars => Inv'
  BY ReleaseInvStep, GaveUpStays
<1>3. Init => Inv
  BY ReleaseInvInit
<1> HIDE DEF Inv
<1> QED
  BY <1>1, <1>2, <1>3, TypeInvInit, TypeInvStep, PTL DEF Spec

----------------------------------------------------------------------------
(* Places.  A position says where in the ring something is, but not how far  *)
(* it is: a place is a lap and a position in it.  Nothing in the program      *)
(* keeps laps; the proofs below find them for every position that is kept.    *)

\* The lap after an item: it reaches the end of the ring, or not.
NextLap(lap, pos, it) == IF pos + MemUsage(it) >= TotalSize THEN lap + 1 ELSE lap

\* The same for a pull, of a blob or of one word.
PullLap(lap, pos, it) ==
  IF it.kind = "blob" THEN NextLap(lap, pos, it) ELSE NextLap(lap, pos, Word)

\* The first place is not after the second one; it is before it.
UpTo(l, p, m, q)   == l < m \/ (l = m /\ p <= q)
Before(l, p, m, q) == l < m \/ (l = m /\ p < q)

\* Where a push ends.
LEMMA Pushed ==
  ASSUME NEW pos \in Pos, NEW it \in Item
  PROVE  /\ MemUsage(it) \in 1 .. TotalSize
         /\ PushItem(pos, it) \in Pos
         /\ pos + MemUsage(it) < TotalSize => PushItem(pos, it) = pos + MemUsage(it)
         /\ pos + MemUsage(it) >= TotalSize
              => PushItem(pos, it) = IF it.kind = "blob" THEN MemUsage(it) - 1
                                                         ELSE pos + MemUsage(it) - TotalSize
<1>1. CASE \E n \in 1 .. TotalSize : it = Many(n)
  BY <1>1, TotalSizeAssumption, SMT
     DEF Many, Pop, Pos, PushItem, PushMany, MemUsage
<1>2. CASE \E n \in 1 .. TotalSize - 1 : it = Blob(n)
  BY <1>2, TotalSizeAssumption, SMT
     DEF Blob, Pop, Pos, PushItem, PushBlob, EnsureSpace, MemUsage
<1> QED
  BY <1>1, <1>2 DEF Item

\* What a push writes lies between the two ends of it.
LEMMA WrittenBetween ==
  ASSUME NEW pos \in Pos, NEW it \in Item, NEW p \in Written(pos, it)
  PROVE  /\ p \in Pos
         /\ pos + MemUsage(it) < TotalSize => pos <= p /\ p < PushItem(pos, it)
         /\ pos + MemUsage(it) >= TotalSize => pos <= p \/ p < PushItem(pos, it)
<1>1. CASE \E n \in 1 .. TotalSize : it = Many(n)
  <2>1. PICK n \in 1 .. TotalSize : it = Many(n)
    BY <1>1
  <2>2. PICK i \in 0 .. n - 1 : p = (pos + i) % TotalSize
    BY <2>1 DEF Written, Many
  <2>3. p = IF pos + i < TotalSize THEN pos + i ELSE pos + i - TotalSize
    BY <2>2, TotalSizeAssumption, SMT DEF Pos
  <2>4. MemUsage(it) = n /\ it.kind # "blob"
    BY <2>1 DEF MemUsage, Many
  <2>5. /\ pos + n < TotalSize => PushItem(pos, it) = pos + n
        /\ pos + n >= TotalSize => PushItem(pos, it) = pos + n - TotalSize
    BY <2>4, Pushed
  <2> QED
    BY <2>3, <2>4, <2>5, TotalSizeAssumption, SMT DEF Pos
<1>2. CASE \E n \in 1 .. TotalSize - 1 : it = Blob(n)
  BY <1>2, TotalSizeAssumption, SMT
     DEF Written, Blob, Pop, Pos, PushItem, PushBlob, EnsureSpace, MemUsage
<1> QED
  BY <1>1, <1>2 DEF Item

\* A push goes forward.
LEMMA PushForward ==
  ASSUME NEW lap \in Nat, NEW pos \in Pos, NEW it \in Item
  PROVE  /\ NextLap(lap, pos, it) \in {lap, lap + 1}
         /\ NextLap(lap, pos, it) \in Nat
         /\ Before(lap, pos, NextLap(lap, pos, it), PushItem(pos, it))
BY Pushed, TotalSizeAssumption, SMT DEF NextLap, Before, Pos

\* So does a pull; and a pull that ends at a smaller position has started over.
LEMMA PullForward ==
  ASSUME NEW lap \in Nat, NEW pos \in Pos, NEW it \in Item
  PROVE  /\ PullItem(pos, it) \in Pos
         /\ PullLap(lap, pos, it) \in {lap, lap + 1}
         /\ PullLap(lap, pos, it) \in Nat
         /\ Before(lap, pos, PullLap(lap, pos, it), PullItem(pos, it))
         /\ PullItem(pos, it) < pos => PullLap(lap, pos, it) = lap + 1
<1>1. Word \in Item /\ PullItem(pos, Word) = Pop(pos) /\ PushItem(pos, Word) = Pop(pos)
  <2>1. 1 \in 1 .. TotalSize
    BY TotalSizeAssumption, SMT
  <2> QED
    BY <2>1, PushManyIsPops DEF Item, Word, Many, PullItem, PushItem
<1>2. CASE it.kind = "blob"
  <2>1. PICK n \in 1 .. TotalSize - 1 : it = Blob(n)
    BY <1>2 DEF Item, Many
  <2>2. PullItem(pos, it) = PushItem(pos, it) /\ PullLap(lap, pos, it) = NextLap(lap, pos, it)
    BY <1>2, <2>1, BlobInOnePiece DEF PullLap
  <2>3. PushItem(pos, it) < pos => NextLap(lap, pos, it) = lap + 1
    BY Pushed, TotalSizeAssumption, SMT DEF NextLap, Pos
  <2> QED
    BY <2>2, <2>3, PushForward, Pushed
<1>3. CASE it.kind # "blob"
  <2>1. PullItem(pos, it) = PushItem(pos, Word) /\ PullLap(lap, pos, it) = NextLap(lap, pos, Word)
    BY <1>1, <1>3 DEF PullItem, PullLap
  <2>2. PushItem(pos, Word) < pos => NextLap(lap, pos, Word) = lap + 1
    BY <1>1, Pushed, TotalSizeAssumption, SMT DEF NextLap, Pos
  <2> QED
    BY <1>1, <2>1, <2>2, PushForward, Pushed
<1> QED
  BY <1>2, <1>3

----------------------------------------------------------------------------
(* Client and server go through the same places.  The two never compare      *)
(* them: the client adds up what it pushes, the server what it pulls, word   *)
(* by word.  What connects them is where a sequence of items leads.          *)

\* The items, pushed one after the other from the one place, end at the other, and
\* do not go beyond it on the way.
Leads(lap, from, items, endLap, to) ==
  \E q \in [1 .. Len(items) + 1 -> Pos], g \in [1 .. Len(items) + 1 -> Nat] :
    /\ q[1] = from /\ g[1] = lap
    /\ \A i \in 1 .. Len(items) : /\ q[i + 1] = PushItem(q[i], items[i])
                                  /\ g[i + 1] = NextLap(g[i], q[i], items[i])
    /\ q[Len(items) + 1] = to /\ g[Len(items) + 1] = endLap
    /\ \A i \in 1 .. Len(items) + 1 : UpTo(g[i], q[i], endLap, to)

LEMMA NothingLeadsNowhere ==
  ASSUME NEW from \in Pos, NEW to \in Pos, NEW lap \in Nat, NEW endLap \in Nat
  PROVE  Leads(lap, from, <<>>, endLap, to) <=> lap = endLap /\ from = to
<1>1. Len(<<>>) + 1 = 1 /\ 1 .. Len(<<>>) = {}
  BY EmptySeq, SMT
<1>2. ASSUME Leads(lap, from, <<>>, endLap, to)
      PROVE  lap = endLap /\ from = to
  BY <1>1, <1>2 DEF Leads
<1>3. ASSUME lap = endLap, from = to
      PROVE  Leads(lap, from, <<>>, endLap, to)
  <2>1. PICK q : q = [i \in 1 .. 1 |-> from]
    OBVIOUS
  <2>2. PICK g : g = [i \in 1 .. 1 |-> lap]
    OBVIOUS
  <2>3. /\ q \in [1 .. 1 -> Pos] /\ q[1] = from
        /\ g \in [1 .. 1 -> Nat] /\ g[1] = lap
    BY <2>1, <2>2, SMT
  <2>4. \A i \in 1 .. 1 : i = 1
    BY SMT
  <2>5. UpTo(lap, from, lap, from)
    BY SMT DEF UpTo, Pos
  <2> QED
    BY <1>1, <1>3, <2>3, <2>4, <2>5 DEF Leads
<1> QED
  BY <1>2, <1>3

LEMMA FirstItemFirst ==
  ASSUME NEW from \in Pos, NEW to \in Pos, NEW lap \in Nat, NEW endLap \in Nat,
         NEW items \in Seq(Item), items # <<>>
  PROVE  Leads(lap, from, items, endLap, to)
         <=> Leads(NextLap(lap, from, Head(items)), PushItem(from, Head(items)),
                   Tail(items), endLap, to)
<1> DEFINE n == Len(items)
           m == Len(Tail(items))
<1>1. /\ n \in Nat \ {0} /\ m = n - 1
      /\ Head(items) = items[1]
      /\ \A i \in 1 .. m : Tail(items)[i] = items[i + 1]
      /\ \A i \in 1 .. n : items[i] \in Item
  BY EmptySeq, HeadTailProperties, LenProperties, ElementOfSeq, SMT
<1> HIDE DEF n, m
<1>2. ASSUME Leads(lap, from, items, endLap, to)
      PROVE  Leads(NextLap(lap, from, Head(items)), PushItem(from, Head(items)),
                   Tail(items), endLap, to)
  <2>1. PICK q \in [1 .. n + 1 -> Pos], g \in [1 .. n + 1 -> Nat] :
          /\ q[1] = from /\ g[1] = lap
          /\ \A i \in 1 .. n : /\ q[i + 1] = PushItem(q[i], items[i])
                               /\ g[i + 1] = NextLap(g[i], q[i], items[i])
          /\ q[n + 1] = to /\ g[n + 1] = endLap
          /\ \A i \in 1 .. n + 1 : UpTo(g[i], q[i], endLap, to)
    BY <1>2 DEF Leads, n
  <2>2. PICK r : r = [i \in 1 .. m + 1 |-> q[i + 1]]
    OBVIOUS
  <2>3. PICK h : h = [i \in 1 .. m + 1 |-> g[i + 1]]
    OBVIOUS
  <2>4. \A i \in 1 .. m + 1 : i + 1 \in 1 .. n + 1
    BY <1>1, SMT
  <2>5. r \in [1 .. m + 1 -> Pos] /\ h \in [1 .. m + 1 -> Nat]
    BY <2>2, <2>3, <2>4
  <2>6. 1 \in 1 .. m + 1 /\ m + 1 \in 1 .. m + 1 /\ 1 \in 1 .. n /\ (m + 1) + 1 = n + 1
    BY <1>1, SMT
  <2>7. /\ r[1] = PushItem(from, Head(items))
        /\ h[1] = NextLap(lap, from, Head(items))
    <3>1. r[1] = q[1 + 1] /\ h[1] = g[1 + 1]
      BY <2>2, <2>3, <2>6
    <3> QED
      BY <1>1, <2>1, <2>6, <3>1
  <2>8. r[m + 1] = to /\ h[m + 1] = endLap
    <3>1. r[m + 1] = q[(m + 1) + 1] /\ h[m + 1] = g[(m + 1) + 1]
      BY <2>2, <2>3, <2>6
    <3> QED
      BY <2>1, <2>6, <3>1
  <2>9. ASSUME NEW i \in 1 .. m
        PROVE  /\ r[i + 1] = PushItem(r[i], Tail(items)[i])
               /\ h[i + 1] = NextLap(h[i], r[i], Tail(items)[i])
    <3>1. i + 1 \in 1 .. n /\ i + 1 \in 1 .. m + 1 /\ i \in 1 .. m + 1
      BY <1>1, SMT
    <3>2. /\ r[i + 1] = q[(i + 1) + 1] /\ r[i] = q[i + 1]
          /\ h[i + 1] = g[(i + 1) + 1] /\ h[i] = g[i + 1]
      BY <2>2, <2>3, <3>1
    <3>3. /\ q[(i + 1) + 1] = PushItem(q[i + 1], items[i + 1])
          /\ g[(i + 1) + 1] = NextLap(g[i + 1], q[i + 1], items[i + 1])
      BY <2>1, <3>1
    <3> QED
      BY <1>1, <3>2, <3>3
  <2>10. ASSUME NEW i \in 1 .. m + 1
         PROVE  UpTo(h[i], r[i], endLap, to)
    BY <2>1, <2>2, <2>3, <2>4
  <2> QED
    BY <2>5, <2>7, <2>8, <2>9, <2>10 DEF Leads, m
<1>3. ASSUME Leads(NextLap(lap, from, Head(items)), PushItem(from, Head(items)),
                   Tail(items), endLap, to)
      PROVE  Leads(lap, from, items, endLap, to)
  <2>1. PICK r \in [1 .. m + 1 -> Pos], h \in [1 .. m + 1 -> Nat] :
          /\ r[1] = PushItem(from, Head(items))
          /\ h[1] = NextLap(lap, from, Head(items))
          /\ \A i \in 1 .. m : /\ r[i + 1] = PushItem(r[i], Tail(items)[i])
                               /\ h[i + 1] = NextLap(h[i], r[i], Tail(items)[i])
          /\ r[m + 1] = to /\ h[m + 1] = endLap
          /\ \A i \in 1 .. m + 1 : UpTo(h[i], r[i], endLap, to)
    BY <1>3 DEF Leads, m
  <2>2. PICK q : q = [i \in 1 .. n + 1 |-> IF i = 1 THEN from ELSE r[i - 1]]
    OBVIOUS
  <2>3. PICK g : g = [i \in 1 .. n + 1 |-> IF i = 1 THEN lap ELSE h[i - 1]]
    OBVIOUS
  <2>4. \A i \in 1 .. n + 1 : i # 1 => i - 1 \in 1 .. m + 1
    BY <1>1, SMT
  <2>5. q \in [1 .. n + 1 -> Pos] /\ g \in [1 .. n + 1 -> Nat]
    BY <2>2, <2>3, <2>4
  <2>6. q[1] = from /\ g[1] = lap
    <3>1. 1 \in 1 .. n + 1
      BY <1>1, SMT
    <3> QED
      BY <2>2, <2>3, <3>1
  <2>7. \A i \in 1 .. n : q[i + 1] = r[i] /\ g[i + 1] = h[i]
    <3>1. \A i \in 1 .. n : i + 1 \in 1 .. n + 1 /\ i + 1 # 1 /\ (i + 1) - 1 = i
      BY <1>1, SMT
    <3> QED
      BY <2>2, <2>3, <3>1
  <2>8. q[n + 1] = to /\ g[n + 1] = endLap
    <3>1. n \in 1 .. n /\ n = m + 1
      BY <1>1, SMT
    <3> QED
      BY <2>1, <2>7, <3>1
  <2>9. \A i \in 1 .. n : i # 1 => \E j \in 1 .. m : i = j + 1 /\ j + 1 \in 1 .. n /\ j \in 1 .. n
    <3>1. \A i \in 1 .. n : i # 1 => /\ i - 1 \in 1 .. m /\ i = (i - 1) + 1
                                     /\ (i - 1) + 1 \in 1 .. n /\ i - 1 \in 1 .. n
      BY <1>1, SMT
    <3> QED
      BY <3>1
  <2>10. ASSUME NEW i \in 1 .. n
         PROVE  /\ q[i + 1] = PushItem(q[i], items[i])
                /\ g[i + 1] = NextLap(g[i], q[i], items[i])
    <3>1. CASE i = 1
      BY <1>1, <2>1, <2>6, <2>7, <3>1
    <3>2. CASE i # 1
      <4>1. PICK j \in 1 .. m : i = j + 1 /\ j + 1 \in 1 .. n /\ j \in 1 .. n
        BY <2>9, <3>2
      <4>2. q[i + 1] = r[j + 1] /\ q[i] = r[j] /\ g[i + 1] = h[j + 1] /\ g[i] = h[j]
        BY <2>7, <4>1
      <4> QED
        BY <1>1, <2>1, <4>1, <4>2
    <3> QED
      BY <3>1, <3>2
  <2>11. ASSUME NEW i \in 1 .. n + 1
         PROVE  UpTo(g[i], q[i], endLap, to)
    <3>1. CASE i = 1
      <4>1. 1 \in 1 .. m + 1 /\ Head(items) \in Item /\ 1 \in 1 .. n
        BY <1>1, SMT
      <4>2. UpTo(NextLap(lap, from, Head(items)), PushItem(from, Head(items)), endLap, to)
        BY <2>1, <4>1
      <4>3. /\ Before(lap, from, NextLap(lap, from, Head(items)), PushItem(from, Head(items)))
            /\ NextLap(lap, from, Head(items)) \in Nat
            /\ PushItem(from, Head(items)) \in Pos
        BY <4>1, PushForward, Pushed
      <4>4. UpTo(lap, from, endLap, to)
        BY <4>2, <4>3, SMT DEF UpTo, Before, Pos
      <4> QED
        BY <2>6, <3>1, <4>4
    <3>2. CASE i # 1
      <4>1. i - 1 \in 1 .. m + 1 /\ i - 1 \in 1 .. n /\ (i - 1) + 1 = i
        BY <1>1, <3>2, SMT
      <4>2. q[i] = r[i - 1] /\ g[i] = h[i - 1]
        BY <2>2, <2>3, <3>2
      <4> QED
        BY <2>1, <4>1, <4>2
    <3> QED
      BY <3>1, <3>2
  <2> QED
    BY <2>5, <2>6, <2>8, <2>10, <2>11 DEF Leads, n
<1> QED
  BY <1>2, <1>3

\* Nothing leads back.
LEMMA LeadsForward ==
  ASSUME NEW from \in Pos, NEW to \in Pos, NEW lap \in Nat, NEW endLap \in Nat,
         NEW items \in Seq(Item), Leads(lap, from, items, endLap, to)
  PROVE  UpTo(lap, from, endLap, to)
<1>1. Len(items) \in Nat
  BY LenProperties
<1>2. 1 \in 1 .. Len(items) + 1
  BY <1>1, SMT
<1> QED
  BY <1>2 DEF Leads

\* A pull takes the server as far along its items as they lead: a word of several
\* pushed at once is one step of the reader's to the rest of them.
LEMMA PullFollows ==
  ASSUME NEW from \in Pos, NEW to \in Pos, NEW lap \in Nat, NEW endLap \in Nat,
         NEW items \in Seq(Item), items # <<>>,
         Leads(lap, from, items, endLap, to)
  PROVE  Leads(PullLap(lap, from, Head(items)), PullItem(from, Head(items)),
               LeftOf(Head(items)) \o Tail(items), endLap, to)
<1> DEFINE it == Head(items)
           rest == Tail(items)
<1>1. it \in Item /\ rest \in Seq(Item) /\ PullItem(from, it) \in Pos
  BY HeadTailProperties, ItemsStayInRing
<1>2. Leads(NextLap(lap, from, it), PushItem(from, it), rest, endLap, to)
  BY FirstItemFirst
<1>3. PullLap(lap, from, it) \in Nat
  BY <1>1, PullForward
<1> HIDE DEF it, rest
<1>4. CASE it.kind = "many" /\ it.words > 1
  <2>1. PICK n \in 1 .. TotalSize : it = Many(n) /\ n > 1
    BY <1>1, <1>4 DEF Item, Many, Blob
  <2>2. n - 1 \in 1 .. TotalSize - 1 /\ n - 1 \in 1 .. TotalSize
    BY <2>1, TotalSizeAssumption, SMT
  <2>3. Many(n - 1) \in Item /\ LeftOf(it) = <<Many(n - 1)>>
    BY <1>4, <2>1, <2>2 DEF Item, LeftOf, Many
  <2>4. PushItem(Pop(from), Many(n - 1)) = PushItem(from, it)
    BY <2>1, TotalSizeAssumption, SMT DEF PushItem, PushMany, Pop, Pos, Many
  <2>5. PullItem(from, it) = Pop(from) /\ it.kind # "blob"
    BY <2>1 DEF PullItem, Many
  <2>6. NextLap(PullLap(lap, from, it), Pop(from), Many(n - 1)) = NextLap(lap, from, it)
    <3>1. PullLap(lap, from, it) = NextLap(lap, from, Word)
      BY <2>5 DEF PullLap
    <3>2. MemUsage(Word) = 1 /\ MemUsage(it) = n /\ MemUsage(Many(n - 1)) = n - 1
      BY <2>1 DEF MemUsage, Word, Many
    <3> QED
      BY <2>1, <3>1, <3>2, TotalSizeAssumption, SMT DEF NextLap, Pop, Pos
  <2>7. PICK more : more = <<Many(n - 1)>> \o rest
    OBVIOUS
  <2>8. more \in Seq(Item) /\ more # <<>> /\ Head(more) = Many(n - 1) /\ Tail(more) = rest
    <3>1. <<Many(n - 1)>> \in Seq(Item)
      BY <2>3
    <3> QED
      BY <1>1, <2>7, <3>1, SMT
  <2>9. Leads(PullLap(lap, from, it), Pop(from), more, endLap, to)
    <3>1. Leads(NextLap(PullLap(lap, from, it), Pop(from), Head(more)),
                PushItem(Pop(from), Head(more)), Tail(more), endLap, to)
      BY <1>2, <2>4, <2>6, <2>8
    <3>2. Pop(from) \in Pos
      BY <1>1, <2>5
    <3> QED
      BY <1>3, <2>8, <3>1, <3>2, FirstItemFirst
  <2> QED
    BY <2>3, <2>5, <2>7, <2>9 DEF it, rest
<1>5. CASE ~(it.kind = "many" /\ it.words > 1)
  <2>1. /\ PushItem(from, it) = PullItem(from, it)
        /\ NextLap(lap, from, it) = PullLap(lap, from, it)
    <3>1. CASE \E n \in 1 .. TotalSize : it = Many(n)
      <4>1. it = Word /\ it.kind # "blob"
        <5>1. it = Many(1)
          BY <1>5, <3>1, TotalSizeAssumption, SMT DEF Many
        <5> QED
          BY <5>1 DEF Word, Many
      <4>2. PushItem(from, it) = PullItem(from, it)
        BY <4>1, PushManyIsPops DEF PushItem, PullItem, Word, Many
      <4> QED
        BY <4>1, <4>2 DEF PullLap
    <3>2. CASE \E n \in 1 .. TotalSize - 1 : it = Blob(n)
      BY <3>2, BlobInOnePiece DEF PullLap, Blob
    <3> QED
      BY <1>1, <3>1, <3>2 DEF Item
  <2>2. LeftOf(it) \o rest = rest
    BY <1>1, <1>5, SMT DEF LeftOf
  <2> QED
    BY <1>2, <2>1, <2>2 DEF it, rest
<1> QED
  BY <1>4, <1>5

\* Where the client is between two commands.
Between == {"idle", "answer"}

\* How many commands are in the server's hands or have been.
Sent == IF client.at \in Between THEN client.uid ELSE client.uid - 1

\* Commands are numbered in the order in which they are sent, and the server takes
\* them in this order.
Numbered ==
  /\ server.uid = IF server.at = "reading" THEN server.done + 1 ELSE server.done
  /\ server.uid + Len(commands) = Sent
  /\ \A k \in 1 .. Len(commands) : commands[k].uid = server.uid + k

Header == [uid : 0 .. MaxCommands, offset : Pos,
           shape : [items : Seq(Item), answered : BOOLEAN]]

LEMMA NumberedInit == Init => Numbered
<1> SUFFICES ASSUME Init PROVE Numbered
  OBVIOUS
<1>1. /\ server.at = "idle" /\ server.uid = 0 /\ server.done = 0
      /\ client.at = "idle" /\ client.uid = 0 /\ commands = <<>>
  BY DEF Init
<1>2. Len(commands) = 0 /\ 1 .. Len(commands) = {}
  BY <1>1, EmptySeq, SMT
<1> QED
  BY <1>1, <1>2 DEF Numbered, Sent, Between

\* What the numbers are between.
LEMMA Counts ==
  ASSUME TypeInv, Numbered
  PROVE  /\ client.uid \in 0 .. MaxCommands /\ MaxCommands \in Nat
         /\ Sent \in 0 .. MaxCommands /\ Sent <= client.uid
         /\ client.at \notin Between => client.uid - 1 \in 0 .. MaxCommands /\ Sent = client.uid - 1
         /\ client.at \in Between => Sent = client.uid
         /\ server.done \in 0 .. Sent /\ server.uid \in 0 .. Sent
         /\ \A k \in 1 .. Len(commands) : /\ commands[k].uid \in 1 .. Sent
                                          /\ commands[k].uid - 1 \in 0 .. Sent
<1>1. /\ client.uid \in 0 .. MaxCommands /\ server.uid \in 0 .. MaxCommands
      /\ server.done \in 0 .. MaxCommands /\ commands \in Seq(Header)
  BY DEF TypeInv, TypeOK, ClientType, ServerType, Header
<1>2. PICK n \in Nat : n = Len(commands)
  BY <1>1, LenProperties
<1>3. server.uid + n = Sent /\ Sent \in {client.uid, client.uid - 1}
  BY <1>2 DEF Numbered, Sent
<1>4. server.uid \in {server.done, server.done + 1}
  BY DEF Numbered
<1>5. PICK cu \in Nat, su \in Nat, sd \in Nat :
        cu = client.uid /\ su = server.uid /\ sd = server.done /\ cu <= MaxCommands
  BY <1>1, SyncAssumption, SMT
<1>6. PICK m \in Nat : m = Sent /\ m = su + n
  <2>1. su + n \in Nat
    BY SMT
  <2> QED
    BY <1>3, <1>5, <2>1
<1>7. /\ Sent \in 0 .. MaxCommands /\ Sent <= client.uid
      /\ server.done \in 0 .. Sent /\ server.uid \in 0 .. Sent
  <2>1. m = cu \/ m = cu - 1
    BY <1>3, <1>5, <1>6
  <2>2. m <= cu /\ m <= MaxCommands
    BY <1>5, <2>1, SyncAssumption, SMT
  <2>3. su <= m /\ sd <= m
    BY <1>4, <1>5, <1>6, SMT
  <2> QED
    BY <1>5, <1>6, <2>2, <2>3, SyncAssumption, SMT
<1>8. ASSUME NEW k \in 1 .. n
      PROVE  commands[k].uid \in 1 .. Sent /\ commands[k].uid - 1 \in 0 .. Sent
  <2>1. commands[k].uid = su + k
    BY <1>2, <1>5 DEF Numbered
  <2>2. su + k \in 1 .. m /\ (su + k) - 1 \in 0 .. m
    BY <1>6, SMT
  <2> QED
    BY <1>6, <2>1, <2>2
<1>9. /\ client.at \notin Between => client.uid - 1 \in 0 .. MaxCommands /\ Sent = client.uid - 1
      /\ client.at \in Between => Sent = client.uid
  BY <1>7 DEF Sent
<1> QED
  BY <1>1, <1>2, <1>7, <1>8, <1>9, SyncAssumption

\* A client that stays where it is with regard to its commands.
SamePlace == /\ UNCHANGED <<client.pos, client.left, client.start, client.shape, client.uid>>
             /\ client'.at \in Between <=> client.at \in Between
             /\ client'.at = "send" <=> client.at = "send"
             /\ client'.at = "off" <=> client.at = "off"

\* The steps of the client that do not move it.
LEMMA SyncMovesNothing ==
  ASSUME TypeInv, Sync \/ Answered
  PROVE  SamePlace /\ UNCHANGED <<data, serverDataPos, commands, server>>
<1> DEFINE Stays == SamePlace /\ UNCHANGED <<data, serverDataPos, commands, server>>
<1>0. client \in ClientType
  BY DEF TypeInv, TypeOK
<1> USE DEF SamePlace, Between, shared
<1>1. CASE SyncBegin
  BY <1>0, <1>1 DEF SyncBegin, ClientType
<1>2. CASE SyncDoubleOverflow
  BY <1>0, <1>2 DEF SyncDoubleOverflow, ClientType
<1>3. CASE SyncWrap
  BY <1>0, <1>3 DEF SyncWrap, ClientType
<1>4. CASE SyncNoWrap
  BY <1>0, <1>4 DEF SyncNoWrap, ClientType
<1>5. CASE SyncCheck
  BY <1>0, <1>5 DEF SyncCheck, ClientType
<1>6. CASE Announce
  BY <1>0, <1>6 DEF Announce, ClientType
<1>7. CASE Fits
  BY <1>0, <1>7 DEF Fits, ClientType
<1>8. CASE FitsNot
  BY <1>0, <1>8 DEF FitsNot, ClientType
<1>9. CASE WaitSuccess
  BY <1>0, <1>9 DEF WaitSuccess, ClientType
<1>10. CASE WaitFailure
  BY <1>0, <1>10 DEF WaitFailure, ClientType
<1>11. CASE Resolved
  BY <1>0, <1>11 DEF Resolved, ClientType
<1>12. CASE ResolvedReset
  BY <1>0, <1>12 DEF ResolvedReset, ClientType
<1>13. CASE Answered
  BY <1>0, <1>13 DEF Answered, ClientType
<1> HIDE DEF Stays
<1> QED
  BY <1>1, <1>2, <1>3, <1>4, <1>5, <1>6, <1>7, <1>8, <1>9, <1>10, <1>11, <1>12, <1>13
  DEF Sync, Stays

\* The steps in which the server looks for a client that waits, after a command,
\* and the answer in the middle of one.
Looks == \/ ServerSeesWaiter \/ ServerPassed \/ ServerSameLap
         \/ ServerNotAwaited \/ ServerRelease \/ ServerClear

LEMMA LooksMoveNothing ==
  ASSUME TypeInv, Looks \/ ServerAnswer
  PROVE  /\ UNCHANGED <<data, serverDataPos, serverResetPosRequired, commands, client>>
         /\ UNCHANGED <<server.uid, server.pos, server.offset, server.left, server.done>>
         /\ server'.at = "reading" <=> server.at = "reading"
<1>1. server \in ServerType
  BY DEF TypeInv, TypeOK
<1> QED
  BY <1>1 DEF Looks, ServerAnswer, ServerSeesWaiter, ServerPassed, ServerSameLap,
              ServerNotAwaited, ServerRelease, ServerClear, ServerType, shared

\* A header that is queued is the next one.
LEMMA NumberedSend ==
  ASSUME TypeInv, Numbered, CommandEnd
  PROVE  /\ Numbered' /\ Sent' = client.uid /\ Sent = client.uid - 1
         /\ \A k \in 1 .. Len(commands)' :
              \/ commands'[k] = [uid |-> client.uid, offset |-> client.pos, shape |-> client.shape]
              \/ \E j \in 1 .. Len(commands) : commands'[k] = commands[j]
<1>1. /\ client \in ClientType /\ client.at = "send" /\ UNCHANGED server
      /\ commands \in Seq(Header) /\ client.at \notin Between
  BY DEF TypeInv, TypeOK, CommandEnd, Header, Between
<1>2. PICK cmd : cmd = [uid |-> client.uid, offset |-> client.pos, shape |-> client.shape]
  OBVIOUS
<1>3. cmd \in Header /\ cmd.uid = client.uid
  BY <1>1, <1>2 DEF ClientType, Header
<1>4. PICK n \in Nat : n = Len(commands)
  BY <1>1, LenProperties
<1>5. commands' = Append(commands, cmd)
  BY <1>2 DEF CommandEnd
<1>6. /\ Len(commands)' = n + 1
      /\ \A k \in 1 .. n : commands'[k] = commands[k]
      /\ commands'[n + 1] = cmd
  BY <1>1, <1>3, <1>4, <1>5, AppendProperties
<1>7. client'.at \in Between /\ client'.uid = client.uid
  BY <1>1 DEF CommandEnd, ClientType, Between
<1>8. Sent' = client.uid /\ Sent = client.uid - 1 /\ server.uid + n = Sent
  BY <1>1, <1>4, <1>7 DEF Sent, Numbered
<1>9. \A k \in 1 .. n + 1 : k = n + 1 \/ k \in 1 .. n
  BY SMT
<1>10. client.uid = server.uid + (n + 1)
  <2>1. client.uid \in 0 .. MaxCommands /\ server.uid \in 0 .. MaxCommands
    BY DEF TypeInv, TypeOK, ClientType, ServerType
  <2> QED
    BY <1>8, <2>1, SMT
<1>11. ASSUME NEW k \in 1 .. n + 1
       PROVE  commands'[k].uid = server.uid + k
  <2>1. CASE k = n + 1
    BY <1>3, <1>6, <1>10, <2>1
  <2>2. CASE k \in 1 .. n
    BY <1>4, <1>6, <2>2 DEF Numbered
  <2> QED
    BY <1>9, <2>1, <2>2
<1>12. Numbered'
  BY <1>1, <1>6, <1>8, <1>10, <1>11 DEF Numbered
<1>13. \A k \in 1 .. n + 1 : commands'[k] = cmd \/ \E j \in 1 .. n : commands'[k] = commands[j]
  BY <1>6, <1>9
<1> QED
  BY <1>2, <1>4, <1>6, <1>8, <1>12, <1>13

\* The header that is taken is the next one.
LEMMA NumberedTake ==
  ASSUME TypeInv, Numbered, ServerTake
  PROVE  /\ Numbered' /\ Sent' = Sent
         /\ server.done + 1 \in 1 .. Sent
         /\ 1 \in 1 .. Len(commands) /\ commands[1].uid = server.done + 1
         /\ server'.at = "reading" /\ server'.uid = server.done + 1
         /\ server'.pos = server.pos /\ server'.offset = commands[1].offset
         /\ server'.left = <<Word>> \o commands[1].shape.items
         /\ server'.done = server.done
         /\ \A k \in 1 .. Len(commands)' : \E j \in 1 .. Len(commands) : commands'[k] = commands[j]
<1>1. /\ server \in ServerType /\ server.at = "idle" /\ server.uid = server.done
      /\ commands \in Seq(Header) /\ commands # <<>> /\ UNCHANGED client
  BY DEF TypeInv, TypeOK, ServerTake, Header, Numbered
<1>2. PICK n \in Nat : n = Len(commands)
  BY <1>1, LenProperties
<1>3. /\ n # 0 /\ Head(commands) = commands[1]
      /\ Len(Tail(commands)) = n - 1
      /\ \A k \in 1 .. n - 1 : Tail(commands)[k] = commands[k + 1]
  BY <1>1, <1>2, EmptySeq, HeadTailProperties
<1>4. commands' = Tail(commands)
  BY DEF ServerTake
<1>5. 1 \in 1 .. n /\ \A k \in 1 .. n - 1 : k + 1 \in 1 .. n
  BY <1>3, SMT
<1>6. commands[1].uid = server.done + 1
  BY <1>1, <1>2, <1>5 DEF Numbered
<1>7. /\ server'.at = "reading" /\ server'.uid = server.done + 1
      /\ server'.pos = server.pos /\ server'.offset = commands[1].offset
      /\ server'.left = <<Word>> \o commands[1].shape.items
      /\ server'.done = server.done
  BY <1>1, <1>3, <1>6 DEF ServerTake, ServerType
<1>8. Sent' = Sent /\ server.done + n = Sent
  BY <1>1, <1>2 DEF Sent, Numbered
<1>9. (server.done + 1) + (n - 1) = Sent /\ server.done + 1 \in 1 .. Sent
  BY <1>1, <1>3, <1>8, SMT DEF ServerType
<1>10. ASSUME NEW k \in 1 .. n - 1
       PROVE  commands'[k].uid = (server.done + 1) + k /\ commands'[k] = commands[k + 1]
  <2>1. commands[k + 1].uid = server.done + (k + 1)
    BY <1>1, <1>2, <1>5 DEF Numbered
  <2>2. server.done + (k + 1) = (server.done + 1) + k
    BY <1>1, SMT DEF ServerType
  <2> QED
    BY <1>3, <1>4, <2>1, <2>2
<1>11. Numbered'
  BY <1>3, <1>4, <1>7, <1>8, <1>9, <1>10 DEF Numbered
<1> QED
  BY <1>2, <1>3, <1>4, <1>5, <1>6, <1>7, <1>8, <1>9, <1>10, <1>11

\* A command that is lost is not sent.
LEMMA LostMovesNothing ==
  ASSUME TypeInv, CommandLost
  PROVE  /\ client.at = "send" /\ client'.at = "off" /\ client'.pos = client.pos
         /\ client'.left = client.left /\ client'.shape = client.shape /\ client'.uid = client.uid
         /\ client'.at \notin Between /\ client.at \notin Between /\ Sent' = Sent
         /\ UNCHANGED <<data, shared, commands, server>>
<1>1. client \in ClientType
  BY DEF TypeInv, TypeOK
<1> QED
  BY <1>1 DEF CommandLost, ClientType, Between, Sent

LEMMA NumberedStep == TypeInv /\ Numbered /\ [Next]_vars => Numbered'
<1> SUFFICES ASSUME TypeInv, Numbered, [Next]_vars PROVE Numbered'
  OBVIOUS
<1>0. client \in ClientType /\ server \in ServerType
  BY DEF TypeInv, TypeOK
<1>1. CASE \E shape \in Shape : CommandBegin(shape)
  <2>1. /\ client.at = "idle" /\ client'.at = "sync" /\ client'.uid = client.uid + 1
        /\ UNCHANGED <<server, commands>>
    BY <1>0, <1>1 DEF CommandBegin, ClientType
  <2>2. Sent' = Sent
    BY <1>0, <2>1, SMT DEF Sent, Between, ClientType
  <2> QED
    BY <2>1, <2>2 DEF Numbered
<1>2. CASE WriteItem
  <2>1. /\ client.at \notin Between /\ client'.at \notin Between /\ client'.uid = client.uid
        /\ UNCHANGED <<server, commands>>
    BY <1>0, <1>2 DEF WriteItem, ClientType, Between
  <2> QED
    BY <2>1 DEF Numbered, Sent
<1>3. CASE CommandEnd
  BY <1>3, NumberedSend
<1>4. CASE ServerTake
  BY <1>4, NumberedTake
<1>5. CASE ServerPull
  <2>1. /\ server.at = "reading" /\ server'.at = "reading" /\ UNCHANGED <<client, commands>>
        /\ server'.uid = server.uid /\ server'.done = server.done
    BY <1>0, <1>5 DEF ServerPull, ServerType
  <2> QED
    BY <2>1 DEF Numbered, Sent
<1>6. CASE ServerPublish
  <2>1. /\ server.at = "reading" /\ server'.at = "check" /\ UNCHANGED <<client, commands>>
        /\ server'.uid = server.uid /\ server'.done = server.uid
    BY <1>0, <1>6 DEF ServerPublish, ServerType
  <2> QED
    BY <2>1 DEF Numbered, Sent
<1>7. CASE Sync \/ Answered
  BY <1>7, SyncMovesNothing DEF Numbered, Sent, SamePlace
<1>8. CASE Looks \/ ServerAnswer
  BY <1>8, LooksMoveNothing DEF Numbered, Sent
<1>9. CASE UNCHANGED vars
  BY <1>9 DEF vars, Numbered, Sent
<1>10. CASE CommandLost
  BY <1>10, LostMovesNothing DEF Numbered
<1> QED
  BY <1>1, <1>2, <1>3, <1>4, <1>5, <1>6, <1>7, <1>8, <1>9, <1>10
  DEF Next, ClientStep, Server, Looks

\* Where the commands end: E[n] is the position after command n, L[n] its lap.
\* A header tells the end of its command, and the command's items lead there from
\* the end of the one before.
HeaderOK(E, L, cmd) ==
  /\ cmd.offset = E[cmd.uid]
  /\ Leads(L[cmd.uid - 1], E[cmd.uid - 1], <<Word>> \o cmd.shape.items, L[cmd.uid], E[cmd.uid])

QueuePart(E, L) == \A k \in 1 .. Len(commands) : HeaderOK(E, L, commands[k])

\* The server is in lap sl.  What is left of its command leads it to the end of it.
ServerPart(E, L, sl) ==
  /\ server.at = "reading" =>
       /\ server.offset = E[server.uid]
       /\ Leads(sl, server.pos, server.left, L[server.uid], E[server.uid])
       /\ UpTo(L[server.done], E[server.done], sl, server.pos)
  /\ server.at # "reading" =>
       /\ server.left = <<>>
       /\ server.pos = E[server.done] /\ sl = L[server.done]
  /\ serverDataPos = IF server.done = 0 THEN None ELSE E[server.done]

\* The client is in lap cl.  It has come from the end of the command before along
\* what it has sent: wherever the rest leads, the whole command does.
ClientPart(E, L, cl) ==
  /\ client.at \in Between => client.pos = E[client.uid] /\ cl = L[client.uid]
  /\ client.at \notin Between =>
       /\ client.at # "off" => client.start = E[client.uid - 1]
       /\ UpTo(L[client.uid - 1], E[client.uid - 1], cl, client.pos)
       /\ \A m \in Nat, to \in Pos :
            Leads(cl, client.pos, client.left, m, to)
            => Leads(L[client.uid - 1], E[client.uid - 1], <<Word>> \o client.shape.items, m, to)
  /\ client.at = "send" =>
       /\ client.left = <<>>
       /\ Before(L[client.uid - 1], E[client.uid - 1], cl, client.pos)

\* Every command goes forward.
OrderPart(E, L) == \A a, b \in 0 .. Sent : a < b => Before(L[a], E[a], L[b], E[b])

Journey(E, L, cl, sl) ==
  QueuePart(E, L) /\ ServerPart(E, L, sl) /\ ClientPart(E, L, cl) /\ OrderPart(E, L)

Ends == [0 .. MaxCommands -> Pos]
Laps == [0 .. MaxCommands -> Nat]

\* What follows from the parts about the order of the places that are kept.
LEMMA JourneyOrder ==
  ASSUME TypeInv, Numbered, NEW E \in Ends, NEW L \in Laps, NEW cl \in Nat, NEW sl \in Nat,
         Journey(E, L, cl, sl)
  PROVE  /\ \A a \in 0 .. Sent : UpTo(L[a], E[a], cl, client.pos)
         /\ \A a, b \in 0 .. Sent : a <= b => UpTo(L[a], E[a], L[b], E[b])
         /\ sl <= L[server.uid]
<1>1. /\ Sent \in 0 .. MaxCommands /\ client.pos \in Pos
      /\ server.pos \in Pos /\ server.left \in Seq(Item) /\ server.uid \in 0 .. Sent
    BY Counts DEF TypeInv, TypeOK, ClientType, ServerType
<1>2. \A a \in 0 .. Sent : a \in 0 .. MaxCommands
  BY <1>1, SyncAssumption, SMT
<1>3. \A a \in 0 .. Sent : E[a] \in Pos /\ L[a] \in Nat
  BY <1>2 DEF Ends, Laps
<1>4. ASSUME NEW a \in 0 .. Sent, NEW b \in 0 .. Sent, a <= b
      PROVE  UpTo(L[a], E[a], L[b], E[b])
  <2>1. CASE a = b
    BY <1>3, <2>1, SMT DEF UpTo, Pos
  <2>2. CASE a < b
    <3>1. Before(L[a], E[a], L[b], E[b])
      BY <2>2 DEF Journey, OrderPart
    <3> QED
      BY <1>3, <3>1, SMT DEF UpTo, Before, Pos
  <2>3. a = b \/ a < b
    BY <1>1, <1>4, SMT
  <2> QED
    BY <2>1, <2>2, <2>3
<1>5. UpTo(L[Sent], E[Sent], cl, client.pos)
  <2>1. CASE client.at \in Between
    <3>1. client.pos = E[Sent] /\ cl = L[Sent]
      BY <2>1 DEF Journey, ClientPart, Sent
    <3> QED
      BY <1>1, <3>1, SMT DEF UpTo, Pos
  <2>2. CASE client.at \notin Between
    BY <2>2 DEF Journey, ClientPart, Sent
  <2> QED
    BY <2>1, <2>2
<1>6. Sent \in 0 .. Sent /\ \A a \in 0 .. Sent : a <= Sent
  BY <1>1, SMT
<1>7. ASSUME NEW a \in 0 .. Sent
      PROVE  UpTo(L[a], E[a], cl, client.pos)
  <2>1. UpTo(L[a], E[a], L[Sent], E[Sent])
    BY <1>4, <1>6
  <2>2. E[a] \in Pos /\ L[a] \in Nat /\ E[Sent] \in Pos /\ L[Sent] \in Nat
    BY <1>3, <1>6
  <2> QED
    BY <1>1, <1>5, <2>1, <2>2, SMT DEF UpTo, Pos
<1>8. sl <= L[server.uid]
  <2>1. L[server.uid] \in Nat /\ E[server.uid] \in Pos
    BY <1>1, <1>3
  <2>2. CASE server.at = "reading"
    <3>1. UpTo(sl, server.pos, L[server.uid], E[server.uid])
      BY <1>1, <2>1, <2>2, LeadsForward DEF Journey, ServerPart
    <3> QED
      BY <2>1, <3>1, SMT DEF UpTo
  <2>3. CASE server.at # "reading"
    <3>1. sl = L[server.uid]
      BY <2>3 DEF Journey, ServerPart, Numbered
    <3> QED
      BY <3>1, SMT
  <2> QED
    BY <2>2, <2>3
<1> QED
  BY <1>4, <1>7, <1>8

LEMMA JourneyInit ==
  Init => \E E \in Ends, L \in Laps : E[0] = 0 /\ L[0] = 0 /\ Journey(E, L, 0, 0)
<1> SUFFICES ASSUME Init
             PROVE  \E E \in Ends, L \in Laps : E[0] = 0 /\ L[0] = 0 /\ Journey(E, L, 0, 0)
  OBVIOUS
<1>1. /\ server.at = "idle" /\ server.pos = 0 /\ server.left = <<>> /\ server.done = 0
      /\ client.at = "idle" /\ client.pos = 0 /\ client.uid = 0 /\ commands = <<>>
      /\ serverDataPos = None
  BY DEF Init
<1>2. 0 \in Pos /\ 0 \in 0 .. MaxCommands /\ 0 \in Nat
  BY TotalSizeAssumption, SyncAssumption, SMT DEF Pos
<1>3. PICK E : E = [a \in 0 .. MaxCommands |-> 0]
  OBVIOUS
<1>4. E \in Ends /\ E \in Laps /\ E[0] = 0
  BY <1>2, <1>3 DEF Ends, Laps
<1>5. 1 .. Len(commands) = {}
  BY <1>1, EmptySeq, SMT
<1>6. QueuePart(E, E)
  BY <1>5 DEF QueuePart
<1>7. ServerPart(E, E, 0)
  BY <1>1, <1>4 DEF ServerPart
<1>8. ClientPart(E, E, 0)
  BY <1>1, <1>4 DEF ClientPart, Between
<1>9. OrderPart(E, E)
  <2>1. Sent = 0 /\ \A a, b \in 0 .. 0 : ~(a < b)
    BY <1>1, SMT DEF Sent, Between
  <2> QED
    BY <2>1 DEF OrderPart
<1> QED
  BY <1>4, <1>6, <1>7, <1>8, <1>9 DEF Journey

\* Steps that leave the places where they are.
LEMMA JourneyStays ==
  ASSUME NEW E \in Ends, NEW L \in Laps, NEW cl \in Nat, NEW sl \in Nat,
         Journey(E, L, cl, sl), SamePlace, UNCHANGED <<commands, serverDataPos>>,
         UNCHANGED <<server.uid, server.pos, server.offset, server.left, server.done>>,
         server'.at = "reading" <=> server.at = "reading"
  PROVE  Journey(E, L, cl, sl)'
<1>1. QueuePart(E, L)'
  BY DEF Journey, QueuePart
<1>2. ServerPart(E, L, sl)'
  BY DEF Journey, ServerPart
<1>3. Sent' = Sent
  BY DEF Sent, SamePlace
<1>4. OrderPart(E, L)'
  BY <1>3 DEF Journey, OrderPart
<1>5. ClientPart(E, L, cl)'
  <2>1. /\ client'.pos = client.pos /\ client'.left = client.left /\ client'.start = client.start
        /\ client'.shape = client.shape /\ client'.uid = client.uid
        /\ client'.at \in Between <=> client.at \in Between
        /\ client'.at = "send" <=> client.at = "send"
        /\ client'.at = "off" <=> client.at = "off"
    BY DEF SamePlace
  <2>2. ClientPart(E, L, cl)
    BY DEF Journey
  <2>3. (client.at \in Between => client.pos = E[client.uid] /\ cl = L[client.uid])'
    BY <2>1, <2>2 DEF ClientPart
  <2>4. ASSUME client'.at \notin Between
        PROVE  /\ client'.at # "off" => client'.start = E[client'.uid - 1]
               /\ UpTo(L[client'.uid - 1], E[client'.uid - 1], cl, client'.pos)
               /\ \A m \in Nat, to \in Pos :
                    Leads(cl, client'.pos, client'.left, m, to)
                    => Leads(L[client'.uid - 1], E[client'.uid - 1],
                             <<Word>> \o client'.shape.items, m, to)
    BY <2>1, <2>2, <2>4 DEF ClientPart
  <2>5. (client.at = "send" =>
           /\ client.left = <<>>
           /\ Before(L[client.uid - 1], E[client.uid - 1], cl, client.pos))'
    BY <2>1, <2>2 DEF ClientPart
  <2> QED
    BY <2>3, <2>4, <2>5 DEF ClientPart, Between
<1> QED
  BY <1>1, <1>2, <1>4, <1>5 DEF Journey

\* A lost command leaves its words where they are, after the last end.
LEMMA JourneyLost ==
  ASSUME TypeInv, CommandLost,
         NEW E \in Ends, NEW L \in Laps, NEW cl \in Nat, NEW sl \in Nat,
         Journey(E, L, cl, sl)
  PROVE  Journey(E, L, cl, sl)'
<1>1. /\ client.at = "send" /\ client'.at = "off" /\ client'.pos = client.pos
      /\ client'.left = client.left /\ client'.shape = client.shape /\ client'.uid = client.uid
      /\ client'.at \notin Between /\ client.at \notin Between /\ Sent' = Sent
      /\ UNCHANGED <<serverDataPos, commands, server>>
  BY LostMovesNothing DEF shared
<1>2. QueuePart(E, L)' /\ ServerPart(E, L, sl)' /\ OrderPart(E, L)'
  BY <1>1 DEF Journey, QueuePart, ServerPart, OrderPart
<1>3. ClientPart(E, L, cl)'
  <2>1. /\ UpTo(L[client.uid - 1], E[client.uid - 1], cl, client.pos)
        /\ \A m \in Nat, to \in Pos :
             Leads(cl, client.pos, client.left, m, to)
             => Leads(L[client.uid - 1], E[client.uid - 1], <<Word>> \o client.shape.items, m, to)
    BY <1>1 DEF Journey, ClientPart
  <2>2. /\ UpTo(L[client'.uid - 1], E[client'.uid - 1], cl, client'.pos)
        /\ \A m \in Nat, to \in Pos :
             Leads(cl, client'.pos, client'.left, m, to)
             => Leads(L[client'.uid - 1], E[client'.uid - 1], <<Word>> \o client'.shape.items, m, to)
    BY <1>1, <2>1
  <2> QED
    BY <1>1, <2>2 DEF ClientPart
<1> QED
  BY <1>2, <1>3 DEF Journey

LEMMA JourneyBegin ==
  ASSUME TypeInv, Numbered, NEW shape \in Shape, CommandBegin(shape),
         NEW E \in Ends, NEW L \in Laps, NEW cl \in Nat, NEW sl \in Nat,
         Journey(E, L, cl, sl)
  PROVE  Journey(E, L, cl, sl)'
<1>1. /\ client \in ClientType /\ client.at = "idle" /\ client.at \in Between
      /\ UNCHANGED <<server, commands, serverDataPos>>
  BY DEF TypeInv, TypeOK, CommandBegin, Between, shared
<1>2. /\ client'.at = "sync" /\ client'.pos = client.pos /\ client'.start = client.pos
      /\ client'.shape = shape /\ client'.left = <<Word>> \o shape.items
      /\ client'.uid = client.uid + 1 /\ client'.at \notin Between
  BY <1>1 DEF CommandBegin, ClientType, Between
<1>3. client'.uid - 1 = client.uid
  BY <1>1, <1>2, SMT DEF ClientType
<1>4. Sent' = Sent
  BY <1>1, <1>2, <1>3 DEF Sent
<1>5. client.pos = E[client.uid] /\ cl = L[client.uid] /\ client.pos \in Pos
  BY <1>1 DEF Journey, ClientPart, ClientType
<1>6. UpTo(L[client.uid], E[client.uid], cl, client.pos)
  BY <1>5, SMT DEF UpTo, Pos
<1>7. ClientPart(E, L, cl)'
  BY <1>2, <1>3, <1>5, <1>6 DEF ClientPart
<1>8. QueuePart(E, L)' /\ ServerPart(E, L, sl)' /\ OrderPart(E, L)'
  BY <1>1, <1>4 DEF Journey, QueuePart, ServerPart, OrderPart
<1> QED
  BY <1>7, <1>8 DEF Journey

LEMMA JourneyWrite ==
  ASSUME TypeInv, Numbered, WriteItem,
         NEW E \in Ends, NEW L \in Laps, NEW cl \in Nat, NEW sl \in Nat,
         Journey(E, L, cl, sl),
         NEW ncl \in Nat, ncl = NextLap(cl, client.pos, item)
  PROVE  Journey(E, L, ncl, sl)'
<1>1. /\ client \in ClientType /\ client.at = "write" /\ client.at \notin Between
      /\ UNCHANGED <<server, commands, serverDataPos>>
      /\ client.left \in Seq(Item) /\ client.left # <<>> /\ client.pos \in Pos
  BY DEF TypeInv, TypeOK, Sending, ClientType, WriteItem, Between, shared
<1>2. /\ client'.pos = PushItem(client.pos, item) /\ item = Head(client.left)
      /\ client'.left = Tail(client.left)
      /\ client'.start = client.start /\ client'.shape = client.shape
      /\ client'.uid = client.uid
      /\ client'.at = IF Len(client.left) > 1 THEN "sync" ELSE "send"
      /\ client'.at \notin Between
  BY <1>1 DEF WriteItem, ClientType, item, Between
<1>3. item \in Item
  BY <1>1, <1>2, HeadTailProperties
<1>4. ASSUME NEW m \in Nat, NEW to \in Pos, Leads(ncl, client'.pos, client'.left, m, to)
      PROVE  Leads(L[client.uid - 1], E[client.uid - 1], <<Word>> \o client.shape.items, m, to)
  <2>1. Leads(cl, client.pos, client.left, m, to)
    BY <1>1, <1>2, <1>4, FirstItemFirst
  <2> QED
    BY <1>1, <2>1 DEF Journey, ClientPart
<1>5. client'.at = "send" => client'.left = <<>>
  <2>1. ASSUME ~(Len(client.left) > 1)
        PROVE  Tail(client.left) = <<>>
    <3>1. PICK n \in Nat : n = Len(client.left)
      BY <1>1, LenProperties
    <3>2. n # 0 /\ ~(n > 1)
      BY <1>1, <2>1, <3>1, EmptySeq
    <3>3. n - 1 = 0
      BY <3>2, SMT
    <3>4. Tail(client.left) \in Seq(Item) /\ Len(Tail(client.left)) = n - 1
      BY <1>1, <3>1, HeadTailProperties
    <3> QED
      BY <3>3, <3>4, EmptySeq
  <2> QED
    BY <1>2, <2>1
<1>6. Before(L[client.uid - 1], E[client.uid - 1], ncl, client'.pos)
  <2>1. Before(cl, client.pos, ncl, client'.pos) /\ client'.pos \in Pos
    BY <1>1, <1>2, <1>3, PushForward, Pushed
  <2>2. UpTo(L[client.uid - 1], E[client.uid - 1], cl, client.pos)
    BY <1>1 DEF Journey, ClientPart
  <2>3. L[client.uid - 1] \in Nat /\ E[client.uid - 1] \in Pos
    BY <1>1, Counts DEF Ends, Laps
  <2> QED
    BY <1>1, <2>1, <2>2, <2>3, SMT DEF Before, UpTo, Pos
<1>7. UpTo(L[client.uid - 1], E[client.uid - 1], ncl, client'.pos)
  <2>1. client'.pos \in Pos /\ L[client.uid - 1] \in Nat /\ E[client.uid - 1] \in Pos
    BY <1>1, <1>2, <1>3, Counts, Pushed DEF Ends, Laps
  <2> QED
    BY <1>6, <2>1, SMT DEF Before, UpTo, Pos
<1>8. client'.start = E[client.uid - 1]
  BY <1>1, <1>2 DEF Journey, ClientPart
<1>9. ClientPart(E, L, ncl)'
  BY <1>2, <1>4, <1>5, <1>6, <1>7, <1>8 DEF ClientPart
<1>10. Sent' = Sent
  BY <1>1, <1>2 DEF Sent
<1>11. QueuePart(E, L)' /\ ServerPart(E, L, sl)' /\ OrderPart(E, L)'
  BY <1>1, <1>10 DEF Journey, QueuePart, ServerPart, OrderPart
<1> QED
  BY <1>9, <1>11 DEF Journey

\* The header's position is where the whole command has led: one more end.
LEMMA JourneySend ==
  ASSUME TypeInv, Numbered, CommandEnd,
         NEW E \in Ends, NEW L \in Laps, NEW cl \in Nat, NEW sl \in Nat,
         Journey(E, L, cl, sl),
         NEW F \in Ends, F[client.uid] = client.pos,
         NEW M \in Laps, M[client.uid] = cl,
         \A a \in 0 .. MaxCommands : a # client.uid => F[a] = E[a] /\ M[a] = L[a]
  PROVE  Journey(F, M, cl, sl)'
<1>1. /\ client \in ClientType /\ client.at = "send" /\ client.at \notin Between
      /\ client.pos \in Pos /\ client.uid \in 0 .. MaxCommands
      /\ UNCHANGED <<server, serverDataPos>>
  BY DEF TypeInv, TypeOK, ClientType, CommandEnd, Between, shared
<1>2. /\ client'.at \in Between /\ client'.at # "send"
      /\ client'.pos = client.pos /\ client'.uid = client.uid
  BY <1>1 DEF CommandEnd, ClientType, Between
<1>3. /\ Sent' = client.uid /\ Sent = client.uid - 1
      /\ Sent \in 0 .. MaxCommands /\ client.uid - 1 \in 0 .. MaxCommands
      /\ server.done \in 0 .. Sent /\ server.uid \in 0 .. Sent
  BY <1>1, Counts, NumberedSend
<1>4. \A a \in 0 .. Sent : F[a] = E[a] /\ M[a] = L[a]
  <2>1. \A a \in 0 .. Sent : a \in 0 .. MaxCommands /\ a # client.uid
    BY <1>1, <1>3, SyncAssumption, SMT
  <2> QED
    BY <2>1
<1>5. Sent \in 0 .. Sent
  BY <1>3, SMT
<1>6. ClientPart(F, M, cl)'
  BY <1>2 DEF ClientPart
<1>7. ServerPart(F, M, sl)'
  <2>1. /\ F[server.done] = E[server.done] /\ M[server.done] = L[server.done]
        /\ F[server.uid] = E[server.uid] /\ M[server.uid] = L[server.uid]
    BY <1>3, <1>4
  <2>2. ServerPart(E, L, sl)
    BY DEF Journey
  <2>3. ServerPart(F, M, sl)
    BY <2>1, <2>2 DEF ServerPart
  <2> QED
    BY <1>1, <2>3 DEF ServerPart
<1>8. OrderPart(F, M)'
  <2>1. ASSUME NEW a \in 0 .. client.uid, NEW b \in 0 .. client.uid, a < b
        PROVE  Before(M[a], F[a], M[b], F[b])
    <3>1. a \in 0 .. Sent /\ (b \in 0 .. Sent \/ b = client.uid)
      BY <1>1, <1>3, <2>1, SMT
    <3>2. CASE b \in 0 .. Sent
      <4>1. Before(L[a], E[a], L[b], E[b])
        BY <2>1, <3>1, <3>2 DEF Journey, OrderPart
      <4> QED
        BY <1>4, <3>1, <3>2, <4>1
    <3>3. CASE b = client.uid
      <4>1. UpTo(L[a], E[a], L[Sent], E[Sent])
        <5>1. a <= Sent
          BY <1>3, <3>1, SMT
        <5> QED
          BY <1>5, <3>1, <5>1, JourneyOrder
      <4>2. Before(L[Sent], E[Sent], cl, client.pos)
        BY <1>1, <1>3 DEF Journey, ClientPart
      <4>3. L[a] \in Nat /\ L[Sent] \in Nat /\ E[a] \in Pos /\ E[Sent] \in Pos
        <5>1. a \in 0 .. MaxCommands
          BY <1>3, <3>1, SyncAssumption, SMT
        <5> QED
          BY <1>3, <5>1 DEF Ends, Laps
      <4>4. Before(L[a], E[a], cl, client.pos)
        BY <1>1, <4>1, <4>2, <4>3, SMT DEF Before, UpTo, Pos
      <4> QED
        BY <1>4, <3>1, <3>3, <4>4
    <3> QED
      BY <3>1, <3>2, <3>3
  <2> QED
    BY <1>3, <2>1 DEF OrderPart
<1>9. QueuePart(F, M)'
  <2>1. ASSUME NEW k \in 1 .. Len(commands)'
        PROVE  HeaderOK(F, M, commands'[k])
    <3>1. CASE commands'[k] = [uid |-> client.uid, offset |-> client.pos, shape |-> client.shape]
      <4>1. /\ commands'[k].uid = client.uid /\ commands'[k].offset = client.pos
            /\ commands'[k].shape = client.shape
        BY <3>1
      <4>2. Leads(L[client.uid - 1], E[client.uid - 1], <<Word>> \o client.shape.items,
                  cl, client.pos)
        <5>1. Leads(cl, client.pos, client.left, cl, client.pos)
          BY <1>1, NothingLeadsNowhere DEF Journey, ClientPart
        <5> QED
          BY <1>1, <5>1 DEF Journey, ClientPart
      <4>3. F[client.uid - 1] = E[client.uid - 1] /\ M[client.uid - 1] = L[client.uid - 1]
        BY <1>3, <1>4, <1>5
      <4> QED
        BY <4>1, <4>2, <4>3 DEF HeaderOK
    <3>2. CASE \E j \in 1 .. Len(commands) : commands'[k] = commands[j]
      <4>1. PICK j \in 1 .. Len(commands) : commands'[k] = commands[j]
        BY <3>2
      <4>2. HeaderOK(E, L, commands[j])
        BY DEF Journey, QueuePart
      <4>3. commands[j].uid \in 0 .. Sent /\ commands[j].uid - 1 \in 0 .. Sent
        <5>1. commands[j].uid \in 1 .. Sent /\ commands[j].uid - 1 \in 0 .. Sent
          BY Counts
        <5> QED
          BY <5>1, SMT
      <4>4. HeaderOK(F, M, commands[j])
        BY <1>4, <4>2, <4>3 DEF HeaderOK
      <4> QED
        BY <4>1, <4>4
    <3> QED
      BY <3>1, <3>2, NumberedSend
  <2> QED
    BY <2>1 DEF QueuePart
<1> QED
  BY <1>6, <1>7, <1>8, <1>9 DEF Journey

\* The server takes a command where the last one ended.
LEMMA JourneyTake ==
  ASSUME TypeInv, Numbered, ServerTake,
         NEW E \in Ends, NEW L \in Laps, NEW cl \in Nat, NEW sl \in Nat,
         Journey(E, L, cl, sl)
  PROVE  Journey(E, L, cl, sl)'
<1>1. UNCHANGED <<client, serverDataPos>> /\ server.at # "reading" /\ Sent' = Sent
  BY NumberedTake DEF ServerTake, shared
<1>2. ClientPart(E, L, cl)' /\ OrderPart(E, L)'
  BY <1>1 DEF Journey, ClientPart, OrderPart
<1>3. QueuePart(E, L)'
  BY NumberedTake DEF Journey, QueuePart
<1>4. server.pos = E[server.done] /\ sl = L[server.done] /\ server.done \in 0 .. Sent
  BY <1>1, Counts DEF Journey, ServerPart
<1>5. HeaderOK(E, L, commands[1]) /\ (server.done + 1) - 1 = server.done
  <2>1. server.done \in 0 .. MaxCommands
    BY DEF TypeInv, TypeOK, ServerType
  <2>2. (server.done + 1) - 1 = server.done
    BY <2>1, SMT
  <2> QED
    BY <2>2, NumberedTake DEF Journey, QueuePart
<1>6. UpTo(L[server.done], E[server.done], sl, server.pos)
  <2>1. server.done \in 0 .. MaxCommands
    BY DEF TypeInv, TypeOK, ServerType
  <2>2. L[server.done] \in Nat /\ E[server.done] \in Pos
    BY <2>1 DEF Ends, Laps
  <2> QED
    BY <1>4, <2>2, SMT DEF UpTo, Pos
<1>7. /\ server'.offset = E[server'.uid]
      /\ Leads(sl, server'.pos, server'.left, L[server'.uid], E[server'.uid])
      /\ UpTo(L[server'.done], E[server'.done], sl, server'.pos)
  BY <1>4, <1>5, <1>6, NumberedTake DEF HeaderOK
<1>8. ServerPart(E, L, sl)'
  <2>1. serverDataPos' = IF server'.done = 0 THEN None ELSE E[server'.done]
    BY <1>1, NumberedTake DEF Journey, ServerPart
  <2> QED
    BY <1>7, <2>1, NumberedTake DEF ServerPart
<1> QED
  BY <1>2, <1>3, <1>8 DEF Journey

\* What is known of the server during a pull.
LEMMA JourneyPull ==
  ASSUME TypeInv, Numbered, ServerPull,
         NEW E \in Ends, NEW L \in Laps, NEW cl \in Nat, NEW sl \in Nat,
         Journey(E, L, cl, sl),
         NEW nsl \in Nat, nsl = PullLap(sl, server.pos, Head(server.left))
  PROVE  Journey(E, L, cl, nsl)'
<1>1. /\ server \in ServerType /\ server.at = "reading"
      /\ UNCHANGED <<client, commands, serverDataPos>>
      /\ server.left \in Seq(Item) /\ server.left # <<>>
      /\ server.pos \in Pos /\ server.uid \in 0 .. MaxCommands /\ server.done \in 0 .. MaxCommands
  BY DEF TypeInv, TypeOK, ServerType, ServerPull
<1>2. /\ server'.at = "reading" /\ server'.offset = server.offset
      /\ server'.pos = PullItem(server.pos, Head(server.left))
      /\ server'.left = LeftOf(Head(server.left)) \o Tail(server.left)
      /\ server'.uid = server.uid /\ server'.done = server.done
  BY <1>1 DEF ServerPull, ServerType
<1>3. /\ E[server.uid] \in Pos /\ L[server.uid] \in Nat
      /\ E[server.done] \in Pos /\ L[server.done] \in Nat
  BY <1>1 DEF Ends, Laps
<1>4. Leads(nsl, server'.pos, server'.left, L[server.uid], E[server.uid])
  <2>1. Leads(sl, server.pos, server.left, L[server.uid], E[server.uid])
    BY <1>1 DEF Journey, ServerPart
  <2> QED
    BY <1>1, <1>2, <1>3, <2>1, PullFollows
<1>5. UpTo(L[server.done], E[server.done], nsl, server'.pos)
  <2>1. UpTo(L[server.done], E[server.done], sl, server.pos)
    BY <1>1 DEF Journey, ServerPart
  <2>2. PICK it \in Item : it = Head(server.left)
    BY <1>1, HeadTailProperties
  <2>3. /\ PullItem(server.pos, it) \in Pos
        /\ Before(sl, server.pos, PullLap(sl, server.pos, it), PullItem(server.pos, it))
    BY <1>1, PullForward
  <2>4. Before(sl, server.pos, nsl, server'.pos) /\ server'.pos \in Pos
    BY <1>2, <2>2, <2>3
  <2> QED
    BY <1>1, <1>3, <2>1, <2>4, SMT DEF UpTo, Before, Pos
<1>6. ServerPart(E, L, nsl)'
  <2>1. server.offset = E[server.uid]
    BY <1>1 DEF Journey, ServerPart
  <2>2. serverDataPos = IF server.done = 0 THEN None ELSE E[server.done]
    BY DEF Journey, ServerPart
  <2> QED
    BY <1>1, <1>2, <1>4, <1>5, <2>1, <2>2 DEF ServerPart
<1>7. ClientPart(E, L, cl)' /\ QueuePart(E, L)' /\ OrderPart(E, L)'
  BY <1>1 DEF Journey, ClientPart, QueuePart, OrderPart, Sent
<1> QED
  BY <1>6, <1>7 DEF Journey

LEMMA JourneyPublish ==
  ASSUME TypeInv, Numbered, ServerPublish,
         NEW E \in Ends, NEW L \in Laps, NEW cl \in Nat, NEW sl \in Nat,
         Journey(E, L, cl, sl)
  PROVE  /\ Journey(E, L, cl, sl)'
         /\ server'.done = server.done + 1 /\ server'.at = "check"
<1>1. /\ server \in ServerType /\ server.at = "reading" /\ server.left = <<>>
      /\ UNCHANGED <<client, commands>> /\ serverDataPos' = server.pos
      /\ server.pos \in Pos /\ server.uid \in 0 .. MaxCommands /\ server.done \in 0 .. MaxCommands
  BY DEF TypeInv, TypeOK, ServerType, ServerPublish
<1>2. /\ server'.at = "check" /\ server'.pos = server.pos /\ server'.left = <<>>
      /\ server'.uid = server.uid /\ server'.done = server.uid
  BY <1>1 DEF ServerPublish, ServerType
<1>3. server.uid = server.done + 1
  BY <1>1 DEF Numbered
<1>4. server.uid # 0
  BY <1>1, <1>3, SMT
<1>5. sl = L[server.uid] /\ server.pos = E[server.uid]
  <2>1. Leads(sl, server.pos, <<>>, L[server.uid], E[server.uid])
    BY <1>1 DEF Journey, ServerPart
  <2>2. E[server.uid] \in Pos /\ L[server.uid] \in Nat
    BY <1>1 DEF Ends, Laps
  <2> QED
    BY <1>1, <2>1, <2>2, NothingLeadsNowhere
<1>6. ServerPart(E, L, sl)'
  BY <1>1, <1>2, <1>4, <1>5 DEF ServerPart
<1>7. ClientPart(E, L, cl)' /\ QueuePart(E, L)' /\ OrderPart(E, L)'
  BY <1>1 DEF Journey, ClientPart, QueuePart, OrderPart, Sent
<1> QED
  BY <1>2, <1>3, <1>6, <1>7 DEF Journey

----------------------------------------------------------------------------
(* Unfinished commands are not overwritten.  While no blind spot was met and *)
(* no wait given up, the client is less than a lap ahead of the command that *)
(* the server finished last, the words of unfinished commands lie between    *)
(* the two, and serverResetPosRequired is set while the server has a lap to  *)
(* complete, so that a release comes only when it has caught up.             *)

Open == ~client.blind /\ ~client.gaveUp

\* A client at place l, q has not lapped the place la, ea; nor, with laps of the
\* ring to come, what was there before the first command.
Ahead(la, ea, l, q) == l = la \/ (l = la + 1 /\ q <= ea)

Clear(E, L, a, l, q) == l = L[a] \/ (a # 0 /\ l = L[a] + 1 /\ q <= E[a])

\* The position p lies between the place la, ea and a client at l, q.
Inside(la, ea, l, q, p) == IF l = la THEN ea <= p /\ p < q ELSE ea <= p \/ p < q

WordsPart(E, L, cl) ==
  /\ Clear(E, L, server.done, cl, client.pos)
  /\ \A p \in Pos : data[p] <= client.uid
  /\ \A p \in Pos, a \in server.done .. Sent :
       data[p] > a => Inside(L[a], E[a], cl, client.pos, p)

Calling == {"announce", "fits", "wait", "resolved", "resetFlag"}

\* The conditions are still to be looked at; the item is to be written.
Looking   == client.at \in {"wrap", "check"} \/ (client.at \in Calling /\ client.twice)
Committed == client.at = "write" \/ (client.at \in Calling /\ ~client.twice)

\* syncDataQueue sees the item go past the end of the ring.
Seen == client.pos + MemUsage(item) > TotalSize

\* What syncDataQueue has read and worked out.
CountPart(E, L, cl) ==
  Looking =>
    /\ \E s \in 0 .. server.done :
         /\ client.serverCount = IF s = 0 THEN None ELSE E[s]
         /\ Clear(E, L, s, cl, client.pos)
    /\ client.expected = IF client.at = "check" /\ Seen
                         THEN IF item.kind = "blob" THEN MemUsage(item) - 1
                                                    ELSE client.pos + MemUsage(item) - 1 - TotalSize
                         ELSE client.pos + MemUsage(item) - 1

\* The item does not lap the server.
WritePart(E, L, cl) ==
  client.at = "write" =>
    Clear(E, L, server.done, NextLap(cl, client.pos, item), PushItem(client.pos, item))

FlagPart(cl, sl) ==
  /\ ~serverResetPosRequired => sl = cl
  /\ (client.at = "check" \/ Committed) /\ Seen => serverResetPosRequired /\ sl = cl
  /\ Committed => client.pos + MemUsage(item) # TotalSize
  /\ client.at = "wrap" /\ client.twice => ~serverResetPosRequired

RelPart ==
  /\ clientDataExpectedPos # None => clientDataExpectedPos = client.start - 1
  /\ server.at \in {"compare", "lap"} => clientDataExpectedPos # None
  /\ server.at \in {"check", "compare", "lap"} => server.done # 0
  /\ server.at = "lap" => serverDataPos >= client.start
  /\ (server.at = "release" \/ dataSemaphore = 1 \/ client.at \in {"resolved", "resetFlag"})
       => server.done = client.uid - 1 /\ ~serverResetPosRequired

Safe(E, L, cl, sl) ==
  /\ WordsPart(E, L, cl) /\ CountPart(E, L, cl) /\ WritePart(E, L, cl)
  /\ FlagPart(cl, sl) /\ RelPart

LapInv == \E E \in Ends, L \in Laps, cl \in Nat, sl \in Nat :
            Journey(E, L, cl, sl) /\ (Open => Safe(E, L, cl, sl))

\* What has not lapped a command has not lapped a later one.
LEMMA ClearLater ==
  ASSUME TypeInv, Numbered, NEW E \in Ends, NEW L \in Laps, NEW cl \in Nat, NEW sl \in Nat,
         Journey(E, L, cl, sl),
         NEW s \in 0 .. Sent, NEW a \in 0 .. Sent, s <= a, NEW l \in Nat, NEW q \in Pos,
         Clear(E, L, s, l, q), UpTo(L[a], E[a], l, q)
  PROVE  Clear(E, L, a, l, q)
<1>1. UpTo(L[s], E[s], L[a], E[a])
  BY JourneyOrder
<1>2. Sent \in 0 .. MaxCommands
  BY Counts
<1>3. s \in 0 .. MaxCommands /\ a \in 0 .. MaxCommands /\ s \in Nat /\ a \in Nat
  BY <1>2, SyncAssumption, SMT
<1>4. L[s] \in Nat /\ E[s] \in Pos /\ L[a] \in Nat /\ E[a] \in Pos
  BY <1>3 DEF Ends, Laps
<1>5. s # 0 => a # 0
  BY <1>3, SMT
<1> QED
  BY <1>1, <1>4, <1>5, SMT DEF Clear, UpTo, Pos

\* What an item adds to the words between a command and the client.
LEMMA InsideGrows ==
  ASSUME client.pos \in Pos, item \in Item, NEW p \in Pos,
         NEW la \in Nat, NEW ea \in Pos, NEW cl \in Nat, UpTo(la, ea, cl, client.pos),
         NEW ncl \in Nat, ncl = NextLap(cl, client.pos, item),
         NEW npos \in Pos, npos = PushItem(client.pos, item),
         Ahead(la, ea, ncl, npos)
  PROVE  /\ Inside(la, ea, cl, client.pos, p) => Inside(la, ea, ncl, npos, p)
         /\ p \in Written(client.pos, item) => Inside(la, ea, ncl, npos, p)
         /\ p \in Written(client.pos, item) => ~Inside(la, ea, cl, client.pos, p)
<1>1. PICK pos \in Pos, it \in Item : pos = client.pos /\ it = item
  OBVIOUS
<1>2. PICK mem \in 1 .. TotalSize : mem = MemUsage(it)
  BY Pushed
<1>3. /\ UpTo(la, ea, cl, pos)
      /\ ncl = IF pos + mem >= TotalSize THEN cl + 1 ELSE cl
      /\ pos + mem < TotalSize => npos = pos + mem
      /\ p \in Written(pos, it) =>
           IF pos + mem < TotalSize THEN pos <= p /\ p < npos ELSE pos <= p \/ p < npos
  <2>1. ncl = NextLap(cl, pos, it) /\ npos = PushItem(pos, it)
    BY <1>1
  <2>2. pos + mem < TotalSize \/ pos + mem >= TotalSize
    BY TotalSizeAssumption, SMT DEF Pos
  <2> QED
    BY <1>1, <1>2, <2>1, <2>2, Pushed, WrittenBetween DEF NextLap
<1>4. /\ Inside(la, ea, cl, pos, p) => Inside(la, ea, ncl, npos, p)
      /\ p \in Written(pos, it) => Inside(la, ea, ncl, npos, p)
      /\ p \in Written(pos, it) => ~Inside(la, ea, cl, pos, p)
  <2>1. PICK w \in BOOLEAN : w <=> p \in Written(pos, it)
    OBVIOUS
  <2>2. w => IF pos + mem < TotalSize THEN pos <= p /\ p < npos ELSE pos <= p \/ p < npos
    BY <1>3, <2>1
  <2>3. CASE pos + mem < TotalSize
    <3>1. ncl = cl /\ npos = pos + mem
      BY <1>3, <2>3, TotalSizeAssumption, SMT DEF Pos
    <3> QED
      BY <1>3, <2>1, <2>2, <2>3, <3>1, TotalSizeAssumption, SMT DEF Inside, Ahead, UpTo, Pos
  <2>4. CASE pos + mem >= TotalSize
    <3>1. ncl = cl + 1 /\ (w => pos <= p \/ p < npos)
      BY <1>3, <2>2, <2>4, TotalSizeAssumption, SMT DEF Pos
    <3> QED
      BY <1>3, <2>1, <3>1, TotalSizeAssumption, SMT DEF Inside, Ahead, UpTo, Pos
  <2> QED
    BY <2>3, <2>4, TotalSizeAssumption, SMT DEF Pos
<1> QED
  BY <1>1, <1>4

\* The client at lap cl lets its item pass, and is not blind.  Its command began in lap
\* lu, and the server was at count, in lap ls, when its position was read; idle says
\* that the server has finished every command before.
Passes(count, mem, npos, cl, lu, ls) ==
  LET start == client.start
      pos   == client.pos
      idle  == server.done = client.uid - 1
  IN  /\ UpTo(ls, count, lu, start) /\ UpTo(lu, start, cl, pos) /\ Ahead(ls, count, cl, pos)
      /\ client.expected = IF pos + mem > TotalSize
                           THEN IF item.kind = "blob" THEN mem - 1 ELSE pos + mem - 1 - TotalSize
                           ELSE pos + mem - 1
      /\ ~ /\ client.expected >= count
           /\ \/ start < count
              \/ start > count /\ client.expected < start
              \/ start <= count /\ serverResetPosRequired
      /\ pos + mem # TotalSize
      /\ start = count => idle
      /\ ~(pos + mem >= TotalSize /\ start < count)
      /\ ~(pos + mem >= TotalSize /\ item.kind = "blob" /\ npos >= start)
      /\ ~(mem + (IF pos >= start THEN pos - start ELSE pos + TotalSize - start) > TotalSize)
      /\ cl = lu + 1 /\ idle => serverResetPosRequired /\ ~(pos + mem > TotalSize)

\* It laps neither the server where it was nor, when the server has finished every
\* command before, the client's own.
LEMMA CheckProtects ==
  ASSUME client.pos \in Pos, client.start \in Pos, client.expected \in Int, item \in Item,
         serverResetPosRequired \in BOOLEAN,
         NEW mem \in 1 .. TotalSize, mem = MemUsage(item),
         NEW npos \in Pos, npos = PushItem(client.pos, item),
         NEW count \in Pos, NEW cl \in Nat, NEW lu \in Nat, NEW ls \in Nat,
         NEW ncl \in Nat, ncl = NextLap(cl, client.pos, item),
         Passes(count, mem, npos, cl, lu, ls)
  PROVE  \/ Ahead(ls, count, ncl, npos)
         \/ server.done = client.uid - 1 /\ Ahead(lu, client.start, ncl, npos)
<1>1. PICK pos \in Pos, start \in Pos, expected \in Int :
        pos = client.pos /\ start = client.start /\ expected = client.expected
  OBVIOUS
<1>2. PICK idle \in BOOLEAN : idle <=> server.done = client.uid - 1
  OBVIOUS
<1>3. PICK flag \in BOOLEAN : flag <=> serverResetPosRequired
  OBVIOUS
<1>4. PICK blob \in BOOLEAN : blob <=> item.kind = "blob"
  OBVIOUS
<1>5. /\ UpTo(ls, count, lu, start) /\ UpTo(lu, start, cl, pos) /\ Ahead(ls, count, cl, pos)
      /\ expected = IF pos + mem > TotalSize
                    THEN IF blob THEN mem - 1 ELSE pos + mem - 1 - TotalSize
                    ELSE pos + mem - 1
      /\ ~ /\ expected >= count
           /\ \/ start < count
              \/ start > count /\ expected < start
              \/ start <= count /\ flag
      /\ pos + mem # TotalSize
      /\ start = count => idle
      /\ ~(pos + mem >= TotalSize /\ start < count)
      /\ ~(pos + mem >= TotalSize /\ blob /\ npos >= start)
      /\ ~(mem + (IF pos >= start THEN pos - start ELSE pos + TotalSize - start) > TotalSize)
      /\ cl = lu + 1 /\ idle => flag /\ ~(pos + mem > TotalSize)
  BY <1>1, <1>2, <1>3, <1>4 DEF Passes
<1>6. /\ pos + mem < TotalSize => npos = pos + mem /\ ncl = cl
      /\ pos + mem > TotalSize =>
           ncl = cl + 1 /\ npos = IF blob THEN mem - 1 ELSE pos + mem - TotalSize
  <2>1. /\ pos + mem < TotalSize => npos = pos + mem
        /\ pos + mem >= TotalSize => npos = IF blob THEN mem - 1 ELSE pos + mem - TotalSize
    BY <1>1, <1>4, Pushed
  <2>2. ncl = IF pos + mem >= TotalSize THEN cl + 1 ELSE cl
    BY <1>1 DEF NextLap
  <2> QED
    BY <2>1, <2>2, TotalSizeAssumption, SMT DEF Pos
<1>7. Ahead(ls, count, ncl, npos) \/ (idle /\ Ahead(lu, start, ncl, npos))
  <2>1. CASE pos + mem < TotalSize
    BY <1>5, <1>6, <2>1, TotalSizeAssumption, SMT DEF Ahead, UpTo, Pos
  <2>2. CASE pos + mem > TotalSize
    BY <1>5, <1>6, <2>2, TotalSizeAssumption, SMT DEF Ahead, UpTo, Pos
  <2> QED
    BY <1>5, <2>1, <2>2, TotalSizeAssumption, SMT DEF Pos
<1> QED
  BY <1>1, <1>2, <1>7

\* An item that is not seen to go past the end of the ring, and does not end there,
\* does not reach it.
LEMMA NotSeen ==
  ASSUME client.pos \in Pos, item \in Item, ~Seen, client.pos + MemUsage(item) # TotalSize
  PROVE  ~StartsOver
<1>1. PICK mem \in 1 .. TotalSize : mem = MemUsage(item)
  BY Pushed
<1>2. ~(client.pos + mem > TotalSize) /\ client.pos + mem # TotalSize
  BY <1>1 DEF Seen
<1>3. ~(client.pos + mem >= TotalSize)
  BY <1>2, TotalSizeAssumption, SMT DEF Pos
<1> QED
  BY <1>1, <1>3 DEF StartsOver

LEMMA SafeInit ==
  ASSUME Init, NEW E \in Ends, NEW L \in Laps, E[0] = 0, L[0] = 0
  PROVE  Safe(E, L, 0, 0)
<1>1. /\ server.at = "idle" /\ server.done = 0 /\ client.at = "idle" /\ client.uid = 0
      /\ client.pos = 0 /\ data = [p \in Pos |-> 0] /\ clientDataExpectedPos = None
      /\ dataSemaphore = 0
  BY DEF Init
<1>2. \A p \in Pos : data[p] = 0
  BY <1>1
<1>3. WordsPart(E, L, 0)
  <2>1. \A a \in 0 .. 0 : ~(0 > a)
    BY SMT
  <2>2. Sent = 0
    BY <1>1 DEF Sent, Between
  <2>3. Clear(E, L, 0, 0, 0)
    BY DEF Clear
  <2>4. 0 <= client.uid
    BY <1>1, SMT
  <2> QED
    BY <1>1, <1>2, <2>1, <2>2, <2>3, <2>4 DEF WordsPart
<1>4. CountPart(E, L, 0) /\ WritePart(E, L, 0) /\ FlagPart(0, 0) /\ RelPart
  BY <1>1 DEF CountPart, WritePart, FlagPart, RelPart, Looking, Committed, Calling
<1> QED
  BY <1>3, <1>4 DEF Safe

LEMMA OpenStays == TypeInv /\ [Next]_vars /\ Open' => Open
<1> SUFFICES ASSUME TypeInv, [Next]_vars, Open' PROVE Open
  OBVIOUS
<1>0. client \in ClientType
  BY DEF TypeInv, TypeOK
<1>1. ~client.gaveUp
  BY GaveUpStays DEF Open
<1>2. ASSUME client.blind PROVE client'.blind
  <2>1. CASE \E shape \in Shape : CommandBegin(shape)
    BY <1>0, <1>2, <2>1 DEF CommandBegin, ClientType
  <2>2. CASE WriteItem \/ CommandEnd \/ CommandLost \/ Answered
    BY <1>0, <1>2, <2>2 DEF WriteItem, CommandEnd, CommandLost, Answered, ClientType
  <2>3. CASE SyncBegin \/ SyncDoubleOverflow \/ SyncWrap \/ SyncNoWrap
    BY <1>0, <1>2, <2>3 DEF SyncBegin, SyncDoubleOverflow, SyncWrap, SyncNoWrap, ClientType
  <2>4. CASE SyncCheck
    BY <1>0, <1>2, <2>4 DEF SyncCheck, ClientType
  <2>5. CASE Announce \/ Fits \/ FitsNot \/ WaitSuccess \/ WaitFailure \/ Resolved \/ ResolvedReset
    BY <1>0, <1>2, <2>5 DEF Announce, Fits, FitsNot, WaitSuccess, WaitFailure, Resolved,
                            ResolvedReset, ClientType
  <2>6. CASE Server
    BY <1>2, <2>6 DEF Server, ServerTake, ServerPull, ServerAnswer, ServerPublish,
                      ServerSeesWaiter, ServerPassed, ServerSameLap, ServerNotAwaited,
                      ServerRelease, ServerClear
  <2>7. CASE UNCHANGED vars
    BY <1>2, <2>7 DEF vars
  <2> QED
    BY <2>1, <2>2, <2>3, <2>4, <2>5, <2>6, <2>7 DEF Next, ClientStep, Sync
<1> QED
  BY <1>1, <1>2 DEF Open

\* The client begins or ends a command.
LEMMA SafeBegin ==
  ASSUME TypeInv, Numbered, ReleaseInv, NEW shape \in Shape, CommandBegin(shape),
         NEW E \in Ends, NEW L \in Laps, NEW cl \in Nat, NEW sl \in Nat,
         Safe(E, L, cl, sl)
  PROVE  Safe(E, L, cl, sl)'
<1>1. /\ client \in ClientType /\ client.at = "idle" /\ UNCHANGED <<data, server, shared>>
      /\ client.uid \in Nat /\ data \in [Pos -> 0 .. MaxCommands]
  <2>1. client.uid \in 0 .. MaxCommands
    BY DEF TypeInv, TypeOK, ClientType
  <2>2. client.uid \in Nat
    BY <2>1, SMT
  <2> QED
    BY <2>2 DEF TypeInv, TypeOK, CommandBegin
<1>2. /\ client'.at = "sync" /\ client'.pos = client.pos /\ client'.uid = client.uid + 1
  BY <1>1 DEF CommandBegin, ClientType
<1>3. Sent' = Sent
  BY <1>1, <1>2, SMT DEF Sent, Between
<1>4. WordsPart(E, L, cl)'
  <2>1. \A p \in Pos : data[p] <= client.uid + 1
    <3>1. \A p \in Pos : data[p] <= client.uid
      BY DEF Safe, WordsPart
    <3>2. \A p \in Pos : data[p] \in 0 .. MaxCommands
      BY <1>1
    <3> QED
      BY <1>1, <3>1, <3>2, SMT
  <2> QED
    BY <1>1, <1>2, <1>3, <2>1 DEF Safe, WordsPart
<1>5. CountPart(E, L, cl)' /\ WritePart(E, L, cl)'
  BY <1>2 DEF CountPart, WritePart, Looking, Calling
<1>6. FlagPart(cl, sl)'
  BY <1>1, <1>2 DEF Safe, FlagPart, Committed, Calling, shared
<1>7. RelPart'
  <2>1. clientDataExpectedPos = None /\ dataSemaphore # 1 /\ server.at \notin {"compare", "lap", "release"}
    BY <1>1 DEF ReleaseInv, Waiting
  <2> QED
    BY <1>1, <1>2, <2>1 DEF Safe, RelPart, shared
<1> QED
  BY <1>4, <1>5, <1>6, <1>7 DEF Safe

LEMMA SafeSend ==
  ASSUME TypeInv, Numbered, ReleaseInv, CommandEnd,
         NEW E \in Ends, NEW L \in Laps, NEW cl \in Nat, NEW sl \in Nat,
         Safe(E, L, cl, sl),
         NEW F \in Ends, NEW M \in Laps,
         \A a \in 0 .. MaxCommands : a # client.uid => F[a] = E[a] /\ M[a] = L[a]
  PROVE  Safe(F, M, cl, sl)'
<1>1. /\ client \in ClientType /\ client.at = "send" /\ UNCHANGED <<data, server, shared>>
      /\ client.uid \in 0 .. MaxCommands /\ data \in [Pos -> 0 .. MaxCommands]
  BY DEF TypeInv, TypeOK, CommandEnd, ClientType
<1>2. /\ client'.at \in {"idle", "answer"} /\ client'.pos = client.pos /\ client'.uid = client.uid
  BY <1>1 DEF CommandEnd, ClientType
<1>3. Sent' = client.uid /\ Sent = client.uid - 1 /\ Sent \in 0 .. MaxCommands
      /\ server.done \in 0 .. Sent
  BY Counts, NumberedSend
<1>4. WordsPart(F, M, cl)'
  <2>1. server.done \in 0 .. MaxCommands /\ server.done # client.uid
    BY <1>1, <1>3, SyncAssumption, SMT
  <2>2. Clear(F, M, server.done, cl, client.pos)
    BY <2>1 DEF Safe, WordsPart, Clear
  <2>3. ASSUME NEW p \in Pos, NEW a \in server.done .. client.uid, data[p] > a
        PROVE  Inside(M[a], F[a], cl, client.pos, p)
    <3>1. data[p] <= client.uid /\ data[p] \in 0 .. MaxCommands
      BY <1>1 DEF Safe, WordsPart
    <3>2. a # client.uid /\ a \in server.done .. Sent /\ a \in 0 .. MaxCommands
      BY <1>1, <1>3, <2>3, <3>1, SyncAssumption, SMT
    <3>3. Inside(L[a], E[a], cl, client.pos, p)
      BY <2>3, <3>2 DEF Safe, WordsPart
    <3> QED
      BY <3>2, <3>3
  <2>4. \A p \in Pos : data[p] <= client.uid
    BY DEF Safe, WordsPart
  <2> QED
    BY <1>1, <1>2, <1>3, <2>2, <2>3, <2>4 DEF WordsPart
<1>5. CountPart(F, M, cl)' /\ WritePart(F, M, cl)'
  BY <1>2 DEF CountPart, WritePart, Looking, Calling
<1>6. FlagPart(cl, sl)'
  BY <1>1, <1>2 DEF Safe, FlagPart, Committed, Calling, shared
<1>7. RelPart'
  <2>1. clientDataExpectedPos = None /\ dataSemaphore # 1 /\ server.at \notin {"compare", "lap", "release"}
    BY <1>1 DEF ReleaseInv, Waiting
  <2> QED
    BY <1>1, <1>2, <2>1 DEF Safe, RelPart, shared
<1> QED
  BY <1>4, <1>5, <1>6, <1>7 DEF Safe

LEMMA SafeLost ==
  ASSUME TypeInv, Numbered, ReleaseInv, CommandLost,
         NEW E \in Ends, NEW L \in Laps, NEW cl \in Nat, NEW sl \in Nat,
         Safe(E, L, cl, sl)
  PROVE  Safe(E, L, cl, sl)'
<1>1. /\ client.at = "send" /\ client'.at = "off" /\ client'.pos = client.pos
      /\ client'.uid = client.uid /\ Sent' = Sent /\ UNCHANGED <<data, shared, server>>
  BY LostMovesNothing
<1>2. WordsPart(E, L, cl)'
  BY <1>1 DEF Safe, WordsPart
<1>3. CountPart(E, L, cl)' /\ WritePart(E, L, cl)'
  BY <1>1 DEF CountPart, WritePart, Looking, Calling
<1>4. FlagPart(cl, sl)'
  BY <1>1 DEF Safe, FlagPart, Committed, Calling, shared
<1>5. RelPart'
  <2>1. clientDataExpectedPos = None /\ dataSemaphore # 1 /\ server.at \notin {"compare", "lap", "release"}
    BY <1>1 DEF ReleaseInv, Waiting
  <2> QED
    BY <1>1, <2>1 DEF Safe, RelPart, shared
<1> QED
  BY <1>2, <1>3, <1>4, <1>5 DEF Safe

LEMMA SafeWrite ==
  ASSUME TypeInv, Numbered, ReleaseInv, WriteItem,
         NEW E \in Ends, NEW L \in Laps, NEW cl \in Nat, NEW sl \in Nat,
         Journey(E, L, cl, sl), Safe(E, L, cl, sl),
         NEW ncl \in Nat, ncl = NextLap(cl, client.pos, item)
  PROVE  Safe(E, L, ncl, sl)'
<1>1. /\ client \in ClientType /\ client.at = "write" /\ UNCHANGED <<server, shared>>
      /\ client.pos \in Pos /\ client.uid \in 0 .. MaxCommands
      /\ data \in [Pos -> 0 .. MaxCommands]
      /\ client.left \in Seq(Item) /\ client.left # <<>>
  BY DEF TypeInv, TypeOK, Sending, WriteItem, ClientType
<1>2. PICK it \in Item : it = item
  BY <1>1, HeadTailProperties DEF item
<1>3. PICK npos \in Pos : npos = PushItem(client.pos, it)
  BY <1>1, Pushed
<1>4. /\ client'.at \in {"sync", "send"} /\ client'.pos = npos /\ client'.uid = client.uid
      /\ data' = [p \in Pos |-> IF p \in Written(client.pos, it) THEN client.uid ELSE data[p]]
  BY <1>1, <1>2, <1>3 DEF WriteItem, ClientType
<1>5. Sent' = Sent /\ Sent \in 0 .. MaxCommands /\ server.done \in 0 .. Sent /\ Sent <= client.uid
  BY <1>1, <1>4, Counts DEF Sent, Between
<1>6. Clear(E, L, server.done, ncl, npos)
  BY <1>1, <1>2, <1>3 DEF Safe, WritePart
<1>7. ASSUME NEW a \in server.done .. Sent
      PROVE  /\ L[a] \in Nat /\ E[a] \in Pos
             /\ UpTo(L[a], E[a], cl, client.pos) /\ Ahead(L[a], E[a], ncl, npos)
  <2>1. a \in 0 .. Sent /\ a \in 0 .. MaxCommands /\ server.done <= a
    BY <1>5, SyncAssumption, SMT
  <2>2. L[a] \in Nat /\ E[a] \in Pos
    BY <2>1 DEF Ends, Laps
  <2>3. UpTo(L[a], E[a], cl, client.pos)
    BY <2>1, JourneyOrder
  <2>4. UpTo(L[a], E[a], ncl, npos)
    <3>1. Before(cl, client.pos, ncl, npos)
      BY <1>1, <1>2, <1>3, PushForward
    <3> QED
      BY <1>1, <2>2, <2>3, <3>1, SMT DEF UpTo, Before, Pos
  <2>5. Clear(E, L, a, ncl, npos)
    BY <1>5, <1>6, <2>1, <2>4, ClearLater
  <2> QED
    BY <2>2, <2>3, <2>5 DEF Clear, Ahead
<1>8. ASSUME NEW p \in Pos, NEW a \in server.done .. Sent, data'[p] > a
      PROVE  Inside(L[a], E[a], ncl, npos, p)
  <2>1. PICK la \in Nat, ea \in Pos : la = L[a] /\ ea = E[a]
    BY <1>7
  <2>2. UpTo(la, ea, cl, client.pos) /\ Ahead(la, ea, ncl, npos)
    BY <1>7, <2>1
  <2>3. npos = PushItem(client.pos, item) /\ item \in Item
    BY <1>2, <1>3
  <2>4. /\ Inside(la, ea, cl, client.pos, p) => Inside(la, ea, ncl, npos, p)
        /\ p \in Written(client.pos, item) => Inside(la, ea, ncl, npos, p)
    BY <1>1, <2>2, <2>3, InsideGrows
  <2>5. p \notin Written(client.pos, item) => Inside(la, ea, cl, client.pos, p)
    BY <1>2, <1>4, <1>8, <2>1 DEF Safe, WordsPart
  <2> QED
    BY <2>1, <2>4, <2>5
<1>9. \A p \in Pos : data'[p] <= client.uid
  <2>1. \A p \in Pos : data[p] <= client.uid
    BY DEF Safe, WordsPart
  <2>2. client.uid <= client.uid
    BY <1>1, SMT
  <2> QED
    BY <1>4, <2>1, <2>2
<1>10. WordsPart(E, L, ncl)'
  BY <1>1, <1>4, <1>5, <1>6, <1>8, <1>9 DEF WordsPart
<1>11. CountPart(E, L, ncl)' /\ WritePart(E, L, ncl)'
  BY <1>4 DEF CountPart, WritePart, Looking, Calling
<1>12. FlagPart(ncl, sl)'
  <2>1. ASSUME ~serverResetPosRequired PROVE sl = ncl
    <3>1. sl = cl /\ ~Seen /\ client.pos + MemUsage(item) # TotalSize
      BY <1>1, <2>1 DEF Safe, FlagPart, Committed
    <3>2. ~StartsOver
      BY <1>1, <1>2, <3>1, NotSeen
    <3> QED
      BY <3>1, <3>2 DEF NextLap, StartsOver
  <2> QED
    BY <1>1, <1>4, <2>1 DEF FlagPart, Committed, Calling, shared
<1>13. RelPart'
  <2>1. clientDataExpectedPos = None /\ dataSemaphore # 1 /\ server.at \notin {"compare", "lap", "release"}
    BY <1>1 DEF ReleaseInv, Waiting
  <2> QED
    BY <1>1, <1>4, <2>1 DEF Safe, RelPart, shared
<1> QED
  BY <1>10, <1>11, <1>12, <1>13 DEF Safe

\* A server that has finished every command before the client's is where the client's
\* command begins.
LEMMA IdleServer ==
  ASSUME TypeInv, Numbered, client.at \notin Between, server.done = client.uid - 1,
         NEW E \in Ends, NEW L \in Laps, NEW cl \in Nat, NEW sl \in Nat,
         Journey(E, L, cl, sl)
  PROVE  server.at # "reading" /\ sl = L[client.uid - 1]
<1>1. server.uid \in 0 .. Sent /\ Sent = client.uid - 1 /\ Sent \in 0 .. MaxCommands
  BY Counts
<1>2. server.at # "reading"
  <2>1. server.uid # server.done + 1
    BY <1>1, SyncAssumption, SMT
  <2> QED
    BY <2>1 DEF Numbered
<1> QED
  BY <1>2 DEF Journey, ServerPart

\* What the steps of a call leave alone.
LEMMA SyncKeeps ==
  ASSUME TypeInv, Sync \/ Answered,
         NEW E \in Ends, NEW L \in Laps, NEW cl \in Nat, WordsPart(E, L, cl)
  PROVE  /\ WordsPart(E, L, cl)'
         /\ client'.pos = client.pos /\ client'.uid = client.uid /\ client'.start = client.start
         /\ client'.left = client.left /\ item' = item
         /\ UNCHANGED <<serverDataPos, server>>
<1>1. SamePlace /\ UNCHANGED <<data, serverDataPos, commands, server>>
  BY SyncMovesNothing
<1>2. Sent' = Sent
  BY <1>1 DEF Sent, SamePlace
<1>3. WordsPart(E, L, cl)'
  BY <1>1, <1>2 DEF WordsPart, SamePlace
<1> QED
  BY <1>1, <1>3 DEF SamePlace, item

LEMMA SafeSyncBegin ==
  ASSUME TypeInv, Numbered, ReleaseInv, SyncBegin,
         NEW E \in Ends, NEW L \in Laps, NEW cl \in Nat, NEW sl \in Nat,
         Journey(E, L, cl, sl), Safe(E, L, cl, sl)
  PROVE  Safe(E, L, cl, sl)'
<1>1. client \in ClientType /\ client.at = "sync" /\ UNCHANGED shared
  BY DEF TypeInv, TypeOK, SyncBegin
<1>2. /\ client'.at = "wrap" /\ client'.serverCount = serverDataPos /\ client'.twice = FALSE
      /\ client'.expected = client.pos + MemUsage(item) - 1
  BY <1>1 DEF SyncBegin, ClientType
<1>3. /\ WordsPart(E, L, cl)'
      /\ client'.pos = client.pos /\ client'.uid = client.uid /\ client'.start = client.start
      /\ item' = item /\ UNCHANGED <<serverDataPos, server>>
  BY SyncKeeps DEF Sync, Safe
<1>4. CountPart(E, L, cl)'
  <2>1. server.done \in 0 .. server.done
    BY Counts, SMT
  <2>2. serverDataPos = IF server.done = 0 THEN None ELSE E[server.done]
    BY DEF Journey, ServerPart
  <2>3. Clear(E, L, server.done, cl, client.pos)
    BY DEF Safe, WordsPart
  <2> QED
    BY <1>2, <1>3, <2>1, <2>2, <2>3 DEF CountPart
<1>5. WritePart(E, L, cl)' /\ FlagPart(cl, sl)'
  BY <1>1, <1>2 DEF Safe, WritePart, FlagPart, Committed, Calling, shared
<1>6. RelPart'
  BY <1>1, <1>2, <1>3 DEF Safe, RelPart, shared
<1> QED
  BY <1>3, <1>4, <1>5, <1>6 DEF Safe

LEMMA SafeWrap ==
  ASSUME TypeInv, Numbered, ReleaseInv, SyncDoubleOverflow \/ SyncWrap \/ SyncNoWrap,
         NEW E \in Ends, NEW L \in Laps, NEW cl \in Nat, NEW sl \in Nat,
         Journey(E, L, cl, sl), Safe(E, L, cl, sl)
  PROVE  Safe(E, L, cl, sl)'
<1>1. /\ client \in ClientType /\ client.at = "wrap"
      /\ UNCHANGED <<clientDataExpectedPos, dataSemaphore>>
      /\ client.pos \in Pos /\ client.left \in Seq(Item) /\ client.left # <<>>
  BY DEF TypeInv, TypeOK, ClientType, Sending, SyncDoubleOverflow, SyncWrap, SyncNoWrap, shared
<1>2. /\ WordsPart(E, L, cl)'
      /\ client'.pos = client.pos /\ client'.uid = client.uid /\ client'.start = client.start
      /\ item' = item /\ UNCHANGED <<serverDataPos, server>>
  BY SyncKeeps DEF Sync, Safe
<1>3. item \in Item
  BY <1>1, HeadTailProperties DEF item
<1>4. PICK mem \in 1 .. TotalSize : mem = MemUsage(item)
  BY <1>1, <1>3, Pushed
<1>5. PICK expected : expected = client.pos + mem - 1
  OBVIOUS
<1>6. /\ client.expected = expected
      /\ \E s \in 0 .. server.done : /\ client.serverCount = IF s = 0 THEN None ELSE E[s]
                                     /\ Clear(E, L, s, cl, client.pos)
  BY <1>1, <1>4, <1>5 DEF Safe, CountPart, Looking
<1>7. Seen <=> expected >= TotalSize
  BY <1>1, <1>4, <1>5, TotalSizeAssumption, SMT DEF Seen, Pos
<1>8. CASE SyncDoubleOverflow
  <2>1. /\ client'.at = "announce" /\ client'.twice = TRUE /\ UNCHANGED shared
        /\ client'.expected = expected /\ client'.serverCount = client.serverCount
    BY <1>1, <1>6, <1>8 DEF SyncDoubleOverflow, ClientType
  <2>2. CountPart(E, L, cl)'
    BY <1>2, <1>4, <1>5, <1>6, <2>1 DEF CountPart
  <2>3. WritePart(E, L, cl)' /\ FlagPart(cl, sl)'
    BY <2>1 DEF Safe, WritePart, FlagPart, Committed, Calling, shared
  <2>4. RelPart'
    BY <1>2, <2>1 DEF Safe, RelPart, shared
  <2> QED
    BY <1>2, <2>2, <2>3, <2>4 DEF Safe
<1>9. CASE SyncWrap
  <2>1. /\ client'.at = "check" /\ serverResetPosRequired' = TRUE
        /\ client'.expected = IF item.kind = "blob" THEN MemUsage(item) - 1
                                                    ELSE expected - TotalSize
        /\ client'.serverCount = client.serverCount
        /\ expected >= TotalSize /\ (client.twice \/ ~serverResetPosRequired)
    BY <1>1, <1>6, <1>9 DEF SyncWrap, ClientType
  <2>2. expected - TotalSize = client.pos + mem - 1 - TotalSize
    BY <1>1, <1>5, TotalSizeAssumption, SMT DEF Pos
  <2>3. Seen' /\ MemUsage(item)' = mem
    BY <1>2, <1>4, <1>7, <2>1 DEF Seen
  <2>4. CountPart(E, L, cl)'
    BY <1>2, <1>4, <1>6, <2>1, <2>2, <2>3 DEF CountPart
  <2>5. sl = cl
    BY <1>1, <2>1 DEF Safe, FlagPart
  <2>6. WritePart(E, L, cl)' /\ FlagPart(cl, sl)'
    BY <2>1, <2>5 DEF WritePart, FlagPart, Committed, Calling
  <2>7. RelPart'
    <3>1. ~ \/ server.at = "release" \/ dataSemaphore = 1
            \/ client'.at \in {"resolved", "resetFlag"}
      BY <1>1, <2>1 DEF ReleaseInv, Waiting
    <3> QED
      BY <1>1, <1>2, <2>1, <3>1 DEF Safe, RelPart
  <2> QED
    BY <1>2, <2>4, <2>6, <2>7 DEF Safe
<1>10. CASE SyncNoWrap
  <2>1. /\ client'.at = "check" /\ UNCHANGED shared
        /\ client'.expected = expected /\ client'.serverCount = client.serverCount
        /\ expected < TotalSize
    BY <1>1, <1>6, <1>10 DEF SyncNoWrap, ClientType
  <2>2. ~Seen
    BY <1>1, <1>4, <1>5, <1>7, <2>1, TotalSizeAssumption, SMT DEF Pos
  <2>3. ~Seen' /\ MemUsage(item)' = mem
    BY <1>2, <1>4, <2>2 DEF Seen
  <2>4. CountPart(E, L, cl)'
    BY <1>2, <1>4, <1>5, <1>6, <2>1, <2>3 DEF CountPart
  <2>5. WritePart(E, L, cl)' /\ FlagPart(cl, sl)'
    BY <2>1, <2>3 DEF Safe, WritePart, FlagPart, Committed, Calling, shared
  <2>6. RelPart'
    BY <1>2, <2>1 DEF Safe, RelPart, shared
  <2> QED
    BY <1>2, <2>4, <2>5, <2>6 DEF Safe
<1> QED
  BY <1>8, <1>9, <1>10

LEMMA SafeCheck ==
  ASSUME TypeInv, Numbered, ReleaseInv, SyncCheck, Open',
         NEW E \in Ends, NEW L \in Laps, NEW cl \in Nat, NEW sl \in Nat,
         Journey(E, L, cl, sl), Safe(E, L, cl, sl)
  PROVE  Safe(E, L, cl, sl)'
<1>1. /\ client \in ClientType /\ client.at = "check" /\ client.at \notin Between
      /\ UNCHANGED shared /\ client.start \in Pos /\ client.expected \in 0 .. 2 * TotalSize
      /\ client.pos \in Pos /\ client.left \in Seq(Item) /\ client.left # <<>>
      /\ client.uid \in 0 .. MaxCommands /\ serverResetPosRequired \in BOOLEAN
  BY DEF TypeInv, TypeOK, ClientType, Sending, SyncCheck, Between
<1>2. /\ WordsPart(E, L, cl)'
      /\ client'.pos = client.pos /\ client'.uid = client.uid /\ client'.start = client.start
      /\ item' = item /\ UNCHANGED <<serverDataPos, server>>
  BY SyncKeeps DEF Sync, Safe
<1>3. /\ client'.at = IF Overwrites THEN "announce" ELSE "write"
      /\ client'.twice = FALSE /\ ~BlindSpot
  BY <1>1 DEF SyncCheck, ClientType, Open
<1>4. item \in Item
  BY <1>1, HeadTailProperties DEF item
<1>5. PICK mem \in 1 .. TotalSize : mem = MemUsage(item)
  BY <1>1, <1>4, Pushed
<1>6. PICK npos \in Pos : npos = PushItem(client.pos, item)
  BY <1>1, <1>4, Pushed
<1>7. PICK ncl \in Nat : ncl = NextLap(cl, client.pos, item)
  BY <1>1, <1>4, PushForward
<1>8. PICK s \in 0 .. server.done : /\ client.serverCount = IF s = 0 THEN None ELSE E[s]
                                    /\ Clear(E, L, s, cl, client.pos)
  BY <1>1 DEF Safe, CountPart, Looking
<1>9. /\ Sent = client.uid - 1 /\ Sent \in 0 .. MaxCommands /\ server.done \in 0 .. Sent
      /\ Sent \in 0 .. Sent /\ s \in 0 .. Sent /\ s <= server.done /\ s <= Sent
      /\ (s # 0 => server.done # 0) /\ (server.done < client.uid - 1 \/ server.done = client.uid - 1)
  <2>1. Sent = client.uid - 1 /\ Sent \in 0 .. MaxCommands /\ server.done \in 0 .. Sent
    BY <1>1, Counts
  <2> QED
    BY <1>1, <2>1, SyncAssumption, SMT
<1>10. /\ E[s] \in Pos /\ L[s] \in Nat /\ E[Sent] \in Pos /\ L[Sent] \in Nat
       /\ E[server.done] \in Pos /\ L[server.done] \in Nat
  <2>1. \A a \in 0 .. Sent : a \in 0 .. MaxCommands
    BY <1>9, SyncAssumption, SMT
  <2> QED
    BY <1>9, <2>1 DEF Ends, Laps
<1>11. UpTo(L[server.done], E[server.done], ncl, npos)
  <2>1. UpTo(L[server.done], E[server.done], cl, client.pos)
    BY <1>9, JourneyOrder
  <2>2. Before(cl, client.pos, ncl, npos)
    BY <1>1, <1>4, <1>6, <1>7, PushForward
  <2> QED
    BY <1>1, <1>10, <2>1, <2>2, SMT DEF UpTo, Before, Pos
<1>12. client.start = E[Sent] /\ UpTo(L[Sent], E[Sent], cl, client.pos)
       /\ UpTo(L[s], E[s], L[Sent], E[Sent])
  <2>1. client.start = E[Sent]
    BY <1>1, <1>9 DEF Journey, ClientPart
  <2> QED
    BY <1>9, <2>1, JourneyOrder
<1>13. ASSUME ~Overwrites
       PROVE  Clear(E, L, server.done, ncl, npos)
  <2>1. CASE s = 0
    <3>1. client.serverCount = None /\ ~StartsOver
      BY <1>3, <1>8, <2>1 DEF BlindSpot
    <3>2. ncl = cl /\ cl = L[s]
      BY <1>7, <1>8, <2>1, <3>1 DEF NextLap, StartsOver, Clear
    <3>3. Clear(E, L, s, ncl, npos)
      BY <3>2 DEF Clear
    <3> QED
      BY <1>9, <1>11, <3>3, ClearLater
  <2>2. CASE s # 0
    <3>1. PICK count \in Pos : count = E[s]
      BY <1>10
    <3>2. PICK lu \in Nat, ls \in Nat : lu = L[Sent] /\ ls = L[s]
      BY <1>10
    <3>3. client.serverCount = count /\ client.serverCount # None
      <4>1. count # None
        BY TotalSizeAssumption, SMT DEF Pos, None
      <4> QED
        BY <1>8, <2>2, <3>1, <4>1
    <3>4. /\ UpTo(ls, count, lu, client.start) /\ UpTo(lu, client.start, cl, client.pos)
          /\ Ahead(ls, count, cl, client.pos)
      BY <1>8, <1>12, <3>1, <3>2 DEF Clear, Ahead
    <3>5. client.expected = IF client.pos + mem > TotalSize
                            THEN IF item.kind = "blob" THEN mem - 1
                                                       ELSE client.pos + mem - 1 - TotalSize
                            ELSE client.pos + mem - 1
      BY <1>1, <1>5 DEF Safe, CountPart, Looking, Seen
    <3>6. ~ /\ client.expected >= count
            /\ \/ client.start < count
               \/ client.start > count /\ client.expected < client.start
               \/ client.start <= count /\ serverResetPosRequired
      BY <1>13, <3>3 DEF Overwrites
    <3>7. client.start = count => server.done = client.uid - 1
      BY <1>3, <1>9, <3>3 DEF BlindSpot
    <3>8. /\ client.pos + mem # TotalSize
          /\ ~(client.pos + mem >= TotalSize /\ client.start < count)
          /\ ~(client.pos + mem >= TotalSize /\ item.kind = "blob" /\ npos >= client.start)
          /\ ~(mem + (IF client.pos >= client.start THEN client.pos - client.start
                       ELSE client.pos + TotalSize - client.start) > TotalSize)
      BY <1>3, <1>5, <1>6, <3>3 DEF BlindSpot, StartsOver, TooLong, Batch
    <3>9. cl = lu + 1 /\ server.done = client.uid - 1
            => serverResetPosRequired /\ ~(client.pos + mem > TotalSize)
      <4> SUFFICES ASSUME cl = lu + 1, server.done = client.uid - 1
                   PROVE  serverResetPosRequired /\ ~(client.pos + mem > TotalSize)
        OBVIOUS
      <4>1. sl = lu
        BY <1>1, <1>9, <3>2, IdleServer
      <4>2. sl # cl
        BY <4>1, SMT
      <4> QED
        BY <1>1, <1>5, <4>2 DEF Safe, FlagPart, Seen
    <3>10. Passes(count, mem, npos, cl, lu, ls)
      BY <3>4, <3>5, <3>6, <3>7, <3>8, <3>9 DEF Passes
    <3>11. \/ Ahead(ls, count, ncl, npos)
           \/ server.done = client.uid - 1 /\ Ahead(lu, client.start, ncl, npos)
      <4>1. client.expected \in Int
        BY <1>1, SMT
      <4> QED
        BY <1>1, <1>4, <1>5, <1>6, <1>7, <3>10, <4>1, CheckProtects
    <3>12. CASE Ahead(ls, count, ncl, npos)
      <4>1. Clear(E, L, s, ncl, npos)
        BY <2>2, <3>1, <3>2, <3>12 DEF Ahead, Clear
      <4> QED
        BY <1>9, <1>11, <4>1, ClearLater
    <3>13. CASE server.done = client.uid - 1 /\ Ahead(lu, client.start, ncl, npos)
      <4>1. server.done = Sent
        BY <1>9, <3>13
      <4> QED
        BY <1>9, <1>12, <2>2, <3>2, <3>13, <4>1 DEF Ahead, Clear
    <3> QED
      BY <3>11, <3>12, <3>13
  <2> QED
    BY <2>1, <2>2
<1>14. WritePart(E, L, cl)'
  BY <1>2, <1>3, <1>6, <1>7, <1>13 DEF WritePart
<1>15. CountPart(E, L, cl)'
  BY <1>3 DEF CountPart, Looking, Calling
<1>16. FlagPart(cl, sl)'
  <2>1. client.pos + MemUsage(item) # TotalSize
    BY <1>3 DEF BlindSpot
  <2>2. Seen' <=> Seen
    BY <1>2 DEF Seen
  <2> QED
    BY <1>1, <1>2, <1>3, <2>1, <2>2 DEF Safe, FlagPart, shared
<1>17. RelPart'
  BY <1>1, <1>2, <1>3 DEF Safe, RelPart, shared
<1> QED
  BY <1>2, <1>14, <1>15, <1>16, <1>17 DEF Safe

\* The steps of a wait.
LEMMA SafeWait ==
  ASSUME TypeInv, Numbered, ReleaseInv, Announce \/ Fits \/ FitsNot \/ WaitSuccess \/ Resolved,
         NEW E \in Ends, NEW L \in Laps, NEW cl \in Nat, NEW sl \in Nat,
         Journey(E, L, cl, sl), Safe(E, L, cl, sl)
  PROVE  Safe(E, L, cl, sl)'
<1>1. /\ client \in ClientType /\ client.at \in Calling
      /\ UNCHANGED serverResetPosRequired /\ dataSemaphore \in {0, 1}
  BY DEF TypeInv, TypeOK, Announce, Fits, FitsNot, WaitSuccess, Resolved, Calling, shared
<1>2. /\ WordsPart(E, L, cl)'
      /\ client'.pos = client.pos /\ client'.uid = client.uid /\ client'.start = client.start
      /\ item' = item /\ UNCHANGED <<serverDataPos, server>>
  BY SyncKeeps DEF Sync, Safe
<1>3. /\ client'.at \in Calling \cup {"exited"} /\ client'.twice = client.twice
      /\ client'.expected = client.expected /\ client'.serverCount = client.serverCount
  BY <1>1 DEF Announce, Fits, FitsNot, WaitSuccess, Resolved, Calling, ClientType
<1>4. (Looking' => Looking) /\ (Committed' => Committed)
  BY <1>1, <1>3 DEF Looking, Committed, Calling
<1>5. /\ client.at \notin {"wrap", "check", "write"}
      /\ client'.at \notin {"wrap", "check", "write"}
  BY <1>1, <1>3 DEF Calling
<1>6. CountPart(E, L, cl)'
  BY <1>2, <1>3, <1>4, <1>5 DEF Safe, CountPart
<1>7. WritePart(E, L, cl)'
  BY <1>5 DEF WritePart
<1>8. FlagPart(cl, sl)'
  <2>1. Seen' <=> Seen
    BY <1>2 DEF Seen
  <2> QED
    BY <1>1, <1>2, <1>4, <1>5, <2>1 DEF Safe, FlagPart
<1>9. RelPart'
  <2>1. CASE Announce
    <3>1. /\ client.at = "announce" /\ client'.at = "fits" /\ UNCHANGED dataSemaphore
          /\ clientDataExpectedPos' = client.start - 1
      BY <1>1, <2>1 DEF Announce, ClientType
    <3>2. server.at \notin {"compare", "lap"}
      BY <3>1 DEF ReleaseInv, Waiting
    <3> QED
      BY <1>1, <1>2, <3>1, <3>2 DEF Safe, RelPart
  <2>2. CASE Fits \/ FitsNot
    <3>1. UNCHANGED shared /\ client'.at \in {"wait", "exited"}
      BY <1>1, <2>2 DEF Fits, FitsNot, ClientType
    <3> QED
      BY <1>2, <3>1 DEF Safe, RelPart, shared
  <2>3. CASE WaitSuccess
    <3>1. dataSemaphore > 0 /\ UNCHANGED clientDataExpectedPos
      BY <2>3 DEF WaitSuccess
    <3>2. dataSemaphore = 1
      BY <1>1, <3>1, SMT
    <3> QED
      BY <1>1, <1>2, <3>1, <3>2 DEF Safe, RelPart
  <2>4. CASE Resolved
    <3>1. client.at = "resolved" /\ clientDataExpectedPos' = None /\ UNCHANGED dataSemaphore
      BY <2>4 DEF Resolved
    <3>2. server.at \notin {"compare", "lap"}
      BY <3>1 DEF ReleaseInv, Waiting
    <3> QED
      BY <1>1, <1>2, <3>1, <3>2 DEF Safe, RelPart
  <2> QED
    BY <2>1, <2>2, <2>3, <2>4
<1> QED
  BY <1>2, <1>6, <1>7, <1>8, <1>9 DEF Safe

\* The wait is over: the server has finished every command before, in the client's
\* lap, so that the item cannot lap it.
LEMMA SafeReset ==
  ASSUME TypeInv, Numbered, ReleaseInv, ResolvedReset,
         NEW E \in Ends, NEW L \in Laps, NEW cl \in Nat, NEW sl \in Nat,
         Journey(E, L, cl, sl), Safe(E, L, cl, sl)
  PROVE  Safe(E, L, cl, sl)'
<1>1. /\ client \in ClientType /\ client.at = "resetFlag" /\ client.at \notin Between
      /\ client.pos \in Pos /\ client.left \in Seq(Item) /\ client.left # <<>>
      /\ UNCHANGED <<clientDataExpectedPos, dataSemaphore>> /\ serverResetPosRequired' = FALSE
  BY DEF TypeInv, TypeOK, ClientType, Sending, ResolvedReset, Between
<1>2. /\ WordsPart(E, L, cl)'
      /\ client'.pos = client.pos /\ client'.uid = client.uid /\ client'.start = client.start
      /\ item' = item /\ UNCHANGED <<serverDataPos, server>>
  BY SyncKeeps DEF Sync, Safe
<1>3. /\ client'.at = IF client.twice THEN "wrap" ELSE "write"
      /\ client'.twice = client.twice /\ client.twice \in BOOLEAN
      /\ client'.expected = client.expected /\ client'.serverCount = client.serverCount
  BY <1>1 DEF ResolvedReset, ClientType
<1>4. server.done = client.uid - 1 /\ ~serverResetPosRequired /\ sl = cl
  BY <1>1 DEF Safe, RelPart, FlagPart
<1>5. CountPart(E, L, cl)'
  <2> SUFFICES ASSUME Looking' PROVE CountPart(E, L, cl)'
    BY DEF CountPart
  <2>1. client.twice /\ client'.at = "wrap" /\ Looking
    BY <1>1, <1>3 DEF Looking, Calling
  <2> QED
    BY <1>1, <1>2, <1>3, <2>1 DEF Safe, CountPart
<1>6. ASSUME ~client.twice
      PROVE  ~Seen /\ client.pos + MemUsage(item) # TotalSize
  BY <1>1, <1>4, <1>6 DEF Safe, FlagPart, Committed, Calling
<1>7. WritePart(E, L, cl)'
  <2> SUFFICES ASSUME ~client.twice
               PROVE  Clear(E, L, server.done, NextLap(cl, client.pos, item),
                            PushItem(client.pos, item))
    BY <1>2, <1>3 DEF WritePart
  <2>1. item \in Item
    BY <1>1, HeadTailProperties DEF item
  <2>2. NextLap(cl, client.pos, item) = cl
    BY <1>1, <1>6, <2>1, NotSeen DEF NextLap, StartsOver
  <2>3. cl = L[server.done]
    BY <1>1, <1>4, IdleServer
  <2> QED
    BY <2>2, <2>3 DEF Clear
<1>8. FlagPart(cl, sl)'
  <2>1. Seen' <=> Seen
    BY <1>2 DEF Seen
  <2>2. Committed' => ~client.twice
    BY <1>3 DEF Committed, Calling
  <2>3. client'.at # "check"
    BY <1>3
  <2> QED
    BY <1>1, <1>2, <1>3, <1>4, <1>6, <2>1, <2>2, <2>3 DEF FlagPart
<1>9. RelPart'
  BY <1>1, <1>2, <1>3, <1>4 DEF Safe, RelPart
<1> QED
  BY <1>2, <1>5, <1>7, <1>8, <1>9 DEF Safe

LEMMA SafeAnswered ==
  ASSUME TypeInv, Numbered, ReleaseInv, Answered,
         NEW E \in Ends, NEW L \in Laps, NEW cl \in Nat, NEW sl \in Nat,
         Safe(E, L, cl, sl)
  PROVE  Safe(E, L, cl, sl)'
<1>1. client \in ClientType /\ client.at = "answer" /\ UNCHANGED shared /\ client'.at = "idle"
  BY DEF TypeInv, TypeOK, Answered, ClientType
<1>2. /\ WordsPart(E, L, cl)'
      /\ client'.uid = client.uid /\ client'.start = client.start /\ UNCHANGED server
  BY SyncKeeps DEF Safe
<1>3. CountPart(E, L, cl)' /\ WritePart(E, L, cl)'
  BY <1>1 DEF CountPart, WritePart, Looking, Calling
<1>4. FlagPart(cl, sl)'
  BY <1>1 DEF Safe, FlagPart, Committed, Calling, shared
<1>5. RelPart'
  BY <1>1, <1>2 DEF Safe, RelPart, shared
<1> QED
  BY <1>2, <1>3, <1>4, <1>5 DEF Safe

----------------------------------------------------------------------------

\* Steps of the server that finish nothing and clear nothing.
LEMMA ServerKeeps ==
  ASSUME NEW E \in Ends, NEW L \in Laps, NEW cl \in Nat, NEW sl \in Nat,
         Safe(E, L, cl, sl),
         UNCHANGED <<client, data, serverResetPosRequired, server.done>>, Sent' = Sent, RelPart'
  PROVE  Safe(E, L, cl, sl)'
<1>1. WordsPart(E, L, cl)'
  BY DEF Safe, WordsPart
<1>2. CountPart(E, L, cl)' /\ WritePart(E, L, cl)'
  BY DEF Safe, CountPart, WritePart, Looking, Seen, item
<1>3. FlagPart(cl, sl)'
  BY DEF Safe, FlagPart, Committed, Seen, item
<1> QED
  BY <1>1, <1>2, <1>3 DEF Safe

LEMMA SafeTake ==
  ASSUME TypeInv, Numbered, ReleaseInv, ServerTake,
         NEW E \in Ends, NEW L \in Laps, NEW cl \in Nat, NEW sl \in Nat,
         Safe(E, L, cl, sl)
  PROVE  Safe(E, L, cl, sl)'
<1>1. /\ UNCHANGED <<client, data, shared>> /\ Sent' = Sent
      /\ server'.done = server.done /\ server'.at = "reading"
  BY NumberedTake DEF ServerTake
<1>2. RelPart'
  BY <1>1 DEF Safe, RelPart, shared
<1> QED
  BY <1>1, <1>2, ServerKeeps DEF shared

LEMMA SafePull ==
  ASSUME TypeInv, Numbered, ReleaseInv, ServerPull,
         NEW E \in Ends, NEW L \in Laps, NEW cl \in Nat, NEW sl \in Nat,
         Journey(E, L, cl, sl), Safe(E, L, cl, sl),
         NEW nsl \in Nat, nsl = PullLap(sl, server.pos, Head(server.left))
  PROVE  Safe(E, L, cl, nsl)'
<1>1. /\ server \in ServerType /\ server.at = "reading" /\ server.pos \in Pos
      /\ server.left \in Seq(Item) /\ server.left # <<>> /\ serverResetPosRequired \in BOOLEAN
      /\ UNCHANGED <<client, data, clientDataExpectedPos, dataSemaphore, commands>>
      /\ server.done \in 0 .. MaxCommands
  BY DEF TypeInv, TypeOK, ServerType, ServerPull
<1>2. PICK it \in Item : it = Head(server.left)
  BY <1>1, HeadTailProperties
<1>3. PICK npos \in Pos : npos = PullItem(server.pos, it)
  BY <1>1, PullForward
<1>4. /\ server'.at = "reading" /\ server'.done = server.done /\ server'.uid = server.uid
      /\ \/ serverResetPosRequired' = (serverResetPosRequired /\ ~(npos < server.pos))
         \/ serverResetPosRequired' = serverResetPosRequired
  BY <1>1, <1>2, <1>3 DEF ServerPull, ServerType
<1>5. nsl \in {sl, sl + 1} /\ (npos < server.pos => nsl = sl + 1)
  BY <1>1, <1>2, <1>3, PullForward
<1>6. nsl <= cl
  <2>1. PICK m \in Nat : m = L[server.uid]
    <3>1. server.uid \in 0 .. MaxCommands
      BY <1>1 DEF ServerType
    <3> QED
      BY <3>1 DEF Laps
  <2>2. nsl <= m
    <3>1. Journey(E, L, cl, nsl)' /\ TypeInv' /\ Numbered'
      <4>1. [Next]_vars
        BY DEF Next, Server
      <4> QED
        BY <4>1, JourneyPull, TypeInvStep, NumberedStep
    <3>2. Leads(nsl, server'.pos, server'.left, L[server'.uid], E[server'.uid])
      BY <1>4, <3>1 DEF Journey, ServerPart
    <3>3. /\ server'.pos \in Pos /\ server'.left \in Seq(Item)
          /\ E[server'.uid] \in Pos /\ L[server'.uid] \in Nat
      <4>1. server' \in ServerType
        BY <3>1 DEF TypeInv, TypeOK
      <4>2. server'.uid \in 0 .. MaxCommands
        BY <4>1 DEF ServerType
      <4> QED
        BY <4>1, <4>2 DEF ServerType, Ends, Laps
    <3>4. UpTo(nsl, server'.pos, L[server'.uid], E[server'.uid])
      BY <3>2, <3>3, LeadsForward
    <3>5. UpTo(nsl, server'.pos, m, E[server'.uid])
      BY <1>4, <2>1, <3>4
    <3> QED
      BY <3>5, SMT DEF UpTo
  <2>3. UpTo(m, E[server.uid], cl, client.pos)
    BY <2>1, Counts, JourneyOrder
  <2>4. m <= cl
    BY <2>3, SMT DEF UpTo
  <2> QED
    BY <2>2, <2>4, SMT
<1>7. cl <= sl + 1
  <2>1. PICK d \in Nat : d = L[server.done]
    BY <1>1 DEF Laps
  <2>2. UpTo(d, E[server.done], sl, server.pos)
    BY <1>1, <2>1 DEF Journey, ServerPart
  <2>3. cl = d \/ cl = d + 1
    BY <2>1 DEF Safe, WordsPart, Clear
  <2> QED
    BY <2>2, <2>3, SMT DEF UpTo
<1>8. FlagPart(cl, nsl)'
  <2>1. /\ sl = cl => nsl = cl /\ serverResetPosRequired' = serverResetPosRequired
        /\ sl # cl /\ ~serverResetPosRequired' /\ serverResetPosRequired => nsl = cl
    <3>1. sl = cl => nsl = cl /\ ~(npos < server.pos)
      BY <1>5, <1>6, SMT
    <3>2. npos < server.pos => nsl = cl
      BY <1>5, <1>6, <1>7, SMT
    <3> QED
      BY <1>1, <1>4, <3>1, <3>2
  <2>2. UNCHANGED <<client.at, client.twice>> /\ (Committed' <=> Committed) /\ (Seen' <=> Seen)
        /\ item' = item /\ client'.pos = client.pos
    BY <1>1 DEF Committed, Seen, item
  <2>3. ~serverResetPosRequired' => nsl = cl
    BY <2>1 DEF Safe, FlagPart
  <2>4. ((client.at = "check" \/ Committed) /\ Seen)' => serverResetPosRequired' /\ nsl = cl
    BY <2>1, <2>2 DEF Safe, FlagPart
  <2>5. (Committed => client.pos + MemUsage(item) # TotalSize)'
    BY <2>2 DEF Safe, FlagPart
  <2>6. (client.at = "wrap" /\ client.twice => ~serverResetPosRequired)'
    BY <1>4, <2>2 DEF Safe, FlagPart
  <2> QED
    BY <2>3, <2>4, <2>5, <2>6 DEF FlagPart
<1>9. WordsPart(E, L, cl)'
  BY <1>1, <1>4 DEF Safe, WordsPart, Sent
<1>10. CountPart(E, L, cl)' /\ WritePart(E, L, cl)'
  BY <1>1, <1>4 DEF Safe, CountPart, WritePart, Looking, Seen, item
<1>11. RelPart'
  BY <1>1, <1>4 DEF Safe, RelPart
<1> QED
  BY <1>8, <1>9, <1>10, <1>11 DEF Safe

LEMMA SafePublish ==
  ASSUME TypeInv, Numbered, ReleaseInv, ServerPublish,
         NEW E \in Ends, NEW L \in Laps, NEW cl \in Nat, NEW sl \in Nat,
         Journey(E, L, cl, sl), Safe(E, L, cl, sl)
  PROVE  Safe(E, L, cl, sl)'
<1>1. /\ client \in ClientType /\ server.at = "reading" /\ client.pos \in Pos
      /\ UNCHANGED <<data, clientDataExpectedPos, serverResetPosRequired, dataSemaphore,
                     commands, client>>
  BY DEF TypeInv, TypeOK, ClientType, ServerPublish
<1>2. server'.done = server.done + 1 /\ server'.at = "check"
  BY JourneyPublish
<1>3. /\ server.done + 1 \in 0 .. Sent /\ server.done \in 0 .. Sent /\ server.done <= server.done + 1
      /\ server.done + 1 # 0 /\ Sent \in 0 .. MaxCommands
      /\ \A a \in server.done + 1 .. Sent : a \in server.done .. Sent
      /\ \A s \in 0 .. server.done : s \in 0 .. server.done + 1
  <2>1. server.uid = server.done + 1
    BY <1>1 DEF Numbered
  <2>2. server.uid \in 0 .. Sent /\ server.done \in 0 .. Sent /\ Sent \in 0 .. MaxCommands
    BY Counts
  <2> QED
    BY <2>1, <2>2, SyncAssumption, SMT
<1>4. /\ E[server.done + 1] \in Pos /\ L[server.done + 1] \in Nat
      /\ UpTo(L[server.done + 1], E[server.done + 1], cl, client.pos)
  <2>1. server.done + 1 \in 0 .. MaxCommands
    BY <1>3, SyncAssumption, SMT
  <2> QED
    BY <1>3, <2>1, JourneyOrder DEF Ends, Laps
<1>5. WordsPart(E, L, cl)'
  <2>1. Clear(E, L, server.done + 1, cl, client.pos)
    <3>1. Clear(E, L, server.done, cl, client.pos)
      BY DEF Safe, WordsPart
    <3> QED
      BY <1>1, <1>3, <1>4, <3>1, ClearLater
  <2>2. Sent' = Sent
    BY <1>1 DEF Sent
  <2> QED
    BY <1>1, <1>2, <1>3, <2>1, <2>2 DEF Safe, WordsPart
<1>6. CountPart(E, L, cl)'
  BY <1>1, <1>2, <1>3 DEF Safe, CountPart, Looking, Seen, item
<1>7. WritePart(E, L, cl)'
  <2> SUFFICES ASSUME client.at = "write"
               PROVE  Clear(E, L, server.done + 1, NextLap(cl, client.pos, item),
                            PushItem(client.pos, item))
    BY <1>1, <1>2 DEF WritePart, item
  <2>1. client.left \in Seq(Item) /\ client.left # <<>>
    BY <1>1 DEF TypeInv, TypeOK, ClientType, Sending
  <2>2. item \in Item
    BY <2>1, HeadTailProperties DEF item
  <2>3. PICK npos \in Pos : npos = PushItem(client.pos, item)
    BY <1>1, <2>2, Pushed
  <2>4. PICK ncl \in Nat : ncl = NextLap(cl, client.pos, item)
    BY <1>1, <2>2, PushForward
  <2>5. UpTo(L[server.done + 1], E[server.done + 1], ncl, npos)
    <3>1. Before(cl, client.pos, ncl, npos)
      BY <1>1, <2>2, <2>3, <2>4, PushForward
    <3> QED
      BY <1>1, <1>4, <3>1, SMT DEF UpTo, Before, Pos
  <2>6. Clear(E, L, server.done, ncl, npos)
    BY <2>3, <2>4 DEF Safe, WritePart
  <2> QED
    BY <1>3, <2>3, <2>4, <2>5, <2>6, ClearLater
<1>8. FlagPart(cl, sl)'
  BY <1>1 DEF Safe, FlagPart, Committed, Seen, item
<1>9. RelPart'
  <2>1. ~(dataSemaphore = 1 \/ client.at \in {"resolved", "resetFlag"})
    <3> SUFFICES ASSUME dataSemaphore = 1 \/ client.at \in {"resolved", "resetFlag"} PROVE FALSE
      OBVIOUS
    <3>1. server.done = client.uid - 1
      BY DEF Safe, RelPart
    <3>2. client.at \notin Between
      BY DEF ReleaseInv, Waiting, Between
    <3> QED
      BY <1>1, <3>1, <3>2, IdleServer
  <2> QED
    BY <1>1, <1>2, <1>3, <2>1 DEF Safe, RelPart
<1> QED
  BY <1>5, <1>6, <1>7, <1>8, <1>9 DEF Safe

\* What the server sees when it looks whether the client waits: that it has passed the
\* position before the client's command, in the same lap, means that it has finished
\* every command before it.
LEMMA SafeLooks ==
  ASSUME TypeInv, Numbered, ReleaseInv, Looks \/ ServerAnswer,
         NEW E \in Ends, NEW L \in Laps, NEW cl \in Nat, NEW sl \in Nat,
         Journey(E, L, cl, sl), Safe(E, L, cl, sl)
  PROVE  Safe(E, L, cl, sl)'
<1>1. /\ UNCHANGED <<data, serverDataPos, serverResetPosRequired, commands, client>>
      /\ server'.done = server.done /\ Sent' = Sent
  BY LooksMoveNothing DEF Sent
<1>2. server \in ServerType /\ dataSemaphore \in {0, 1}
  BY DEF TypeInv, TypeOK
<1>3. RelPart'
  <2>1. CASE ServerSeesWaiter
    <3>1. /\ server.at = "check" /\ clientDataExpectedPos # None /\ server'.at = "compare"
          /\ UNCHANGED <<clientDataExpectedPos, dataSemaphore>>
      BY <1>2, <2>1 DEF ServerSeesWaiter, ServerType, shared
    <3> QED
      BY <1>1, <3>1 DEF Safe, RelPart
  <2>2. CASE ServerPassed
    <3>1. /\ server.at = "compare" /\ serverDataPos > clientDataExpectedPos
          /\ server'.at = "lap" /\ UNCHANGED <<clientDataExpectedPos, dataSemaphore>>
      BY <1>2, <2>2 DEF ServerPassed, ServerType, shared
    <3>2. clientDataExpectedPos = client.start - 1
      BY <3>1 DEF Safe, RelPart
    <3>3. client.start \in Pos /\ serverDataPos \in Pos \cup {None}
      <4>1. client.at \notin Between /\ client.at # "off"
        BY <3>1 DEF ReleaseInv, Waiting, Between
      <4>2. client.start = E[client.uid - 1] /\ client.uid - 1 \in 0 .. MaxCommands
        BY <4>1, Counts DEF Journey, ClientPart
      <4> QED
        BY <4>2 DEF TypeInv, TypeOK, Ends
    <3>4. serverDataPos >= client.start
      BY <3>1, <3>2, <3>3, TotalSizeAssumption, SMT DEF Pos, None
    <3> QED
      BY <1>1, <3>1, <3>4 DEF Safe, RelPart
  <2>3. CASE ServerSameLap
    <3>1. /\ server.at = "lap" /\ ~serverResetPosRequired
          /\ server'.at = "release" /\ UNCHANGED <<clientDataExpectedPos, dataSemaphore>>
      BY <1>2, <2>3 DEF ServerSameLap, ServerType, shared
    <3>2. client.at \notin Between /\ client.at # "off"
      BY <3>1 DEF ReleaseInv, Waiting, Between
    <3>3. sl = cl /\ sl = L[server.done] /\ server.done # 0 /\ serverDataPos = E[server.done]
          /\ E[server.done] >= client.start
      BY <3>1 DEF Safe, FlagPart, RelPart, Journey, ServerPart
    <3>4. PICK d \in Nat, e \in Pos, l \in Nat, a \in Pos :
            d = L[server.done] /\ e = E[server.done] /\ l = L[Sent] /\ a = E[Sent]
      <4>1. server.done \in 0 .. MaxCommands /\ Sent \in 0 .. MaxCommands
        BY <1>2, Counts DEF ServerType
      <4> QED
        BY <4>1 DEF Ends, Laps
    <3>5. server.done \in 0 .. Sent /\ Sent = client.uid - 1 /\ Sent \in 0 .. Sent
          /\ (server.done < Sent \/ server.done = Sent)
      <4>1. server.done \in 0 .. Sent /\ Sent = client.uid - 1 /\ Sent \in 0 .. MaxCommands
        BY <3>2, Counts
      <4> QED
        BY <4>1, SMT
    <3>6. client.start = a /\ UpTo(l, a, cl, client.pos)
      BY <3>2, <3>4, <3>5 DEF Journey, ClientPart
    <3>7. ~Before(d, e, l, a)
      <4>1. d = cl /\ e >= a
        BY <3>3, <3>4, <3>6
      <4> QED
        BY <3>4, <3>6, <4>1, TotalSizeAssumption, SMT DEF Before, UpTo, Pos
    <3>8. server.done = client.uid - 1
      BY <3>4, <3>5, <3>7 DEF Journey, OrderPart
    <3> QED
      BY <1>1, <3>1, <3>8 DEF Safe, RelPart
  <2>4. CASE ServerNotAwaited \/ ServerAnswer
    <3>1. /\ server'.at \in {"idle", "reading"} /\ UNCHANGED <<clientDataExpectedPos, dataSemaphore>>
      BY <1>2, <2>4 DEF ServerNotAwaited, ServerAnswer, ServerType, shared
    <3> QED
      BY <1>1, <3>1 DEF Safe, RelPart
  <2>5. CASE ServerRelease
    <3>1. server.at = "release" /\ server'.at = "clear" /\ UNCHANGED clientDataExpectedPos
      BY <1>2, <2>5 DEF ServerRelease, ServerType
    <3> QED
      BY <1>1, <3>1 DEF Safe, RelPart
  <2>6. CASE ServerClear
    <3>1. server'.at = "idle" /\ clientDataExpectedPos' = None /\ UNCHANGED dataSemaphore
      BY <1>2, <2>6 DEF ServerClear, ServerType
    <3> QED
      BY <1>1, <3>1 DEF Safe, RelPart
  <2> QED
    BY <2>1, <2>2, <2>3, <2>4, <2>5, <2>6 DEF Looks
<1> QED
  BY <1>1, <1>3, ServerKeeps

----------------------------------------------------------------------------

LEMMA LapInvInit == Init => LapInv
<1> SUFFICES ASSUME Init PROVE LapInv
  OBVIOUS
<1>1. PICK E \in Ends, L \in Laps :
        E[0] = 0 /\ L[0] = 0 /\ Journey(E, L, 0, 0)
  BY JourneyInit
<1>2. Safe(E, L, 0, 0)
  BY <1>1, SafeInit
<1>3. 0 \in Nat
  BY SMT
<1> QED
  BY <1>1, <1>2, <1>3 DEF LapInv

\* The steps that move neither the client nor the server.
LEMMA SafeStays ==
  ASSUME TypeInv, Numbered, ReleaseInv, Open', Sync \/ Answered \/ Looks \/ ServerAnswer,
         NEW E \in Ends, NEW L \in Laps, NEW cl \in Nat, NEW sl \in Nat,
         Journey(E, L, cl, sl), Safe(E, L, cl, sl)
  PROVE  Safe(E, L, cl, sl)'
<1>1. CASE SyncBegin
  BY <1>1, SafeSyncBegin
<1>2. CASE SyncDoubleOverflow \/ SyncWrap \/ SyncNoWrap
  BY <1>2, SafeWrap
<1>3. CASE SyncCheck
  BY <1>3, SafeCheck
<1>4. CASE Announce \/ Fits \/ FitsNot \/ WaitSuccess \/ Resolved
  BY <1>4, SafeWait
<1>5. CASE WaitFailure
  BY <1>5 DEF WaitFailure, Open, TypeInv, TypeOK, ClientType
<1>6. CASE ResolvedReset
  BY <1>6, SafeReset
<1>7. CASE Answered
  BY <1>7, SafeAnswered
<1>8. CASE Looks \/ ServerAnswer
  BY <1>8, SafeLooks
<1> QED
  BY <1>1, <1>2, <1>3, <1>4, <1>5, <1>6, <1>7, <1>8 DEF Sync

LEMMA LapInvStep ==
  TypeInv /\ Numbered /\ (ReleaseInv \/ client.gaveUp) /\ LapInv /\ [Next]_vars => LapInv'
<1> SUFFICES ASSUME TypeInv, Numbered, ReleaseInv \/ client.gaveUp, LapInv, [Next]_vars
             PROVE  LapInv'
  OBVIOUS
<1>0. client \in ClientType /\ server \in ServerType
  BY DEF TypeInv, TypeOK
<1>1. PICK E \in Ends, L \in Laps, cl \in Nat, sl \in Nat :
        Journey(E, L, cl, sl) /\ (Open => Safe(E, L, cl, sl))
  BY DEF LapInv
\* As long as the invariant is asked for, it holds and the announcement is in order.
<1>2. Open' => ReleaseInv /\ Safe(E, L, cl, sl)
  BY <1>1, OpenStays DEF Open
<1>3. CASE \E shape \in Shape : CommandBegin(shape)
  <2>1. Journey(E, L, cl, sl)' /\ (Open' => Safe(E, L, cl, sl)')
    BY <1>1, <1>2, <1>3, JourneyBegin, SafeBegin
  <2> QED
    BY <2>1 DEF LapInv
<1>4. CASE WriteItem
  <2>1. item \in Item /\ client.pos \in Pos
    <3>1. client.left \in Seq(Item) /\ client.left # <<>>
      BY <1>4 DEF TypeInv, TypeOK, ClientType, Sending, WriteItem
    <3> QED
      BY <1>0, <3>1, HeadTailProperties DEF item, ClientType
  <2>2. PICK ncl \in Nat : ncl = NextLap(cl, client.pos, item)
    BY <2>1, PushForward
  <2>3. Journey(E, L, ncl, sl)' /\ (Open' => Safe(E, L, ncl, sl)')
    BY <1>1, <1>2, <1>4, <2>2, JourneyWrite, SafeWrite
  <2> QED
    BY <2>3 DEF LapInv
<1>5. CASE CommandEnd
  <2>1. client.uid \in 0 .. MaxCommands /\ client.pos \in Pos
    BY <1>0 DEF ClientType
  <2>2. PICK F : F = [a \in 0 .. MaxCommands |-> IF a = client.uid THEN client.pos ELSE E[a]]
    OBVIOUS
  <2>3. PICK M : M = [a \in 0 .. MaxCommands |-> IF a = client.uid THEN cl ELSE L[a]]
    OBVIOUS
  <2>4. /\ F \in Ends /\ F[client.uid] = client.pos /\ M \in Laps /\ M[client.uid] = cl
        /\ \A a \in 0 .. MaxCommands : a # client.uid => F[a] = E[a] /\ M[a] = L[a]
    BY <2>1, <2>2, <2>3 DEF Ends, Laps
  <2>5. Journey(F, M, cl, sl)'
    BY <1>1, <1>5, <2>4, JourneySend
  <2>6. Open' => Safe(F, M, cl, sl)'
    BY <1>2, <1>5, <2>4, SafeSend
  <2> QED
    BY <2>4, <2>5, <2>6 DEF LapInv
<1>6. CASE ServerTake
  <2>1. Journey(E, L, cl, sl)' /\ (Open' => Safe(E, L, cl, sl)')
    BY <1>1, <1>2, <1>6, JourneyTake, SafeTake
  <2> QED
    BY <2>1 DEF LapInv
<1>7. CASE ServerPull
  <2>1. Head(server.left) \in Item /\ server.pos \in Pos
    <3>1. server.left \in Seq(Item) /\ server.left # <<>>
      BY <1>0, <1>7 DEF ServerType, ServerPull
    <3> QED
      BY <1>0, <3>1, HeadTailProperties DEF ServerType
  <2>2. PICK nsl \in Nat : nsl = PullLap(sl, server.pos, Head(server.left))
    BY <2>1, PullForward
  <2>3. Journey(E, L, cl, nsl)' /\ (Open' => Safe(E, L, cl, nsl)')
    BY <1>1, <1>2, <1>7, <2>2, JourneyPull, SafePull
  <2> QED
    BY <2>3 DEF LapInv
<1>8. CASE ServerPublish
  <2>1. Journey(E, L, cl, sl)' /\ (Open' => Safe(E, L, cl, sl)')
    BY <1>1, <1>2, <1>8, JourneyPublish, SafePublish
  <2> QED
    BY <2>1 DEF LapInv
<1>9. CASE Sync \/ Answered \/ Looks \/ ServerAnswer
  <2>1. /\ SamePlace /\ UNCHANGED <<commands, serverDataPos>>
        /\ UNCHANGED <<server.uid, server.pos, server.offset, server.left, server.done>>
        /\ server'.at = "reading" <=> server.at = "reading"
    <3>1. CASE Sync \/ Answered
      BY <3>1, SyncMovesNothing
    <3>2. CASE Looks \/ ServerAnswer
      BY <3>2, LooksMoveNothing DEF SamePlace
    <3> QED
      BY <1>9, <3>1, <3>2
  <2>2. Journey(E, L, cl, sl)'
    BY <1>1, <2>1, JourneyStays
  <2>3. Open' => Safe(E, L, cl, sl)'
    BY <1>1, <1>2, <1>9, SafeStays
  <2> QED
    BY <2>2, <2>3 DEF LapInv
<1>10. CASE UNCHANGED vars
  <2>1. /\ UNCHANGED <<client, server, data, commands, serverDataPos, clientDataExpectedPos,
                       serverResetPosRequired, dataSemaphore>>
        /\ SamePlace
    BY <1>10 DEF vars, SamePlace
  <2>2. Journey(E, L, cl, sl)'
    BY <1>1, <2>1, JourneyStays
  <2>3. Open' => Safe(E, L, cl, sl)'
    <3> SUFFICES ASSUME Open' PROVE Safe(E, L, cl, sl)'
      OBVIOUS
    <3>1. RelPart' /\ Sent' = Sent
      BY <1>2, <2>1 DEF Safe, RelPart, Sent
    <3> QED
      BY <1>2, <2>1, <3>1, ServerKeeps
  <2> QED
    BY <2>2, <2>3 DEF LapInv
<1>11. CASE CommandLost
  <2>1. Journey(E, L, cl, sl)' /\ (Open' => Safe(E, L, cl, sl)')
    BY <1>1, <1>2, <1>11, JourneyLost, SafeLost
  <2> QED
    BY <2>1 DEF LapInv
<1> QED
  BY <1>3, <1>4, <1>5, <1>6, <1>7, <1>8, <1>9, <1>10, <1>11 DEF Next, ClientStep, Server, Looks

\* Where nothing is left of its command, the server is at the end of it.
LEMMA JourneyAgrees == TypeInv /\ LapInv => OffsetsAgree
<1> SUFFICES ASSUME TypeInv, LapInv, server.at = "reading", server.left = <<>>
             PROVE  server.pos = server.offset
  BY DEF OffsetsAgree
<1>1. PICK E \in Ends, L \in Laps, cl \in Nat, sl \in Nat : Journey(E, L, cl, sl)
  BY DEF LapInv
<1>2. server.uid \in 0 .. MaxCommands /\ server.pos \in Pos
  BY DEF TypeInv, TypeOK, ServerType
<1>3. E[server.uid] \in Pos /\ L[server.uid] \in Nat
  BY <1>2 DEF Ends, Laps
<1>4. server.offset = E[server.uid] /\ Leads(sl, server.pos, <<>>, L[server.uid], E[server.uid])
  BY <1>1 DEF Journey, ServerPart
<1> QED
  BY <1>2, <1>3, <1>4, NothingLeadsNowhere

\* An item that does not lap the server covers no word between the server and the
\* client, and every word of an unfinished command is there.
LEMMA SafeProtects == TypeInv /\ Numbered /\ LapInv => ProtectedElsewhere
<1> SUFFICES ASSUME TypeInv, Numbered, LapInv, Open, client.at = "write",
                    NEW p \in Written(client.pos, item)
             PROVE  data[p] <= server.done
  BY DEF ProtectedElsewhere, NoOverwrite, Open
<1>1. PICK E \in Ends, L \in Laps, cl \in Nat, sl \in Nat :
        Journey(E, L, cl, sl) /\ Safe(E, L, cl, sl)
  BY DEF LapInv
<1>2. /\ client.pos \in Pos /\ client.left \in Seq(Item) /\ client.left # <<>>
      /\ data \in [Pos -> 0 .. MaxCommands] /\ server.done \in 0 .. MaxCommands
  BY DEF TypeInv, TypeOK, ClientType, ServerType, Sending
<1>3. item \in Item
  BY <1>2, HeadTailProperties DEF item
<1>4. p \in Pos
  BY <1>2, <1>3, WrittenBetween
<1>5. PICK npos \in Pos : npos = PushItem(client.pos, item)
  BY <1>2, <1>3, Pushed
<1>6. PICK ncl \in Nat : ncl = NextLap(cl, client.pos, item)
  BY <1>2, <1>3, PushForward
<1>7. PICK la \in Nat, ea \in Pos : la = L[server.done] /\ ea = E[server.done]
  BY <1>2 DEF Ends, Laps
<1>8. server.done \in 0 .. Sent /\ server.done \in server.done .. Sent
  <2>1. server.done \in 0 .. Sent /\ Sent \in 0 .. MaxCommands
    BY Counts
  <2> QED
    BY <2>1, SyncAssumption, SMT
<1>9. UpTo(la, ea, cl, client.pos)
  BY <1>1, <1>7, <1>8, JourneyOrder
<1>10. Ahead(la, ea, ncl, npos)
  BY <1>1, <1>5, <1>6, <1>7 DEF Safe, WritePart, Clear, Ahead
<1>11. ~Inside(la, ea, cl, client.pos, p)
  BY <1>2, <1>3, <1>4, <1>5, <1>6, <1>9, <1>10, InsideGrows
<1>12. ~(data[p] > server.done)
  BY <1>1, <1>4, <1>7, <1>8, <1>11 DEF Safe, WordsPart
<1>13. data[p] \in 0 .. MaxCommands
  BY <1>2, <1>4
<1> QED
  BY <1>2, <1>12, <1>13, SyncAssumption, SMT

\* The invariants of the data queue, together.
LEMMA QueueInvariant ==
  Spec => [](TypeInv /\ Numbered /\ (ReleaseInv \/ client.gaveUp) /\ LapInv)
<1> DEFINE Rel == ReleaseInv \/ client.gaveUp
           Inv == TypeInv /\ Numbered /\ Rel /\ LapInv
<1>1. Init => Inv
  BY TypeInvInit, NumberedInit, ReleaseInvInit, LapInvInit
<1>2. TypeInv /\ Rel /\ [Next]_vars => Rel'
  BY ReleaseInvStep, GaveUpStays
<1>3. Inv /\ [Next]_vars => Inv'
  <2> SUFFICES ASSUME Inv, [Next]_vars PROVE Inv'
    OBVIOUS
  <2>1. TypeInv' /\ Numbered' /\ LapInv'
    BY TypeInvStep, NumberedStep, LapInvStep
  <2> QED
    BY <1>2, <2>1
<1> HIDE DEF Inv
<1>4. Spec => []Inv
  BY <1>1, <1>3, PTL DEF Spec
<1> QED
  BY <1>4, PTL DEF Inv

\* The server finds its position where the header of the command says: reading the
\* items one word at a time has led it to where the client was after pushing them,
\* however many commands and laps lie between the two (CHECK_DATA_OFFSET holds).
THEOREM SamePositions == Spec => []OffsetsAgree
<1>1. TypeInv /\ LapInv => OffsetsAgree
  BY JourneyAgrees
<1> QED
  BY <1>1, QueueInvariant, PTL

\* syncDataQueue keeps the words of every unfinished command from being overwritten
\* until it has met one of its blind spots or a wait has run out of retries: they are
\* all there are, for every size of the ring and every shape of the commands.
THEOREM ProtectedOutsideBlindSpots == Spec => []ProtectedElsewhere
<1>1. TypeInv /\ Numbered /\ LapInv => ProtectedElsewhere
  BY SafeProtects
<1> QED
  BY <1>1, QueueInvariant, PTL
==============================================================================

---------------------------- MODULE LockableBuffer ----------------------------
(***************************************************************************)
(* Vertex buffers, index buffers and surfaces whose data lies in the       *)
(* shared heap (client/lockable_buffer.h, client/d3d9_surface.cpp): the    *)
(* application writes into a locked buffer of the heap, and the unlock     *)
(* only sends the buffer's id, which the server looks up when it comes to  *)
(* it.  The heap is as good as its promise, BufferHeap.  Data is a number  *)
(* that grows with every write, and every buffer fits in one place.        *)
(***************************************************************************)
EXTENDS BufferHeap, Sequences

CONSTANTS
  Resources,      \* the buffers of the application
  Flags,          \* for each, the sets of flags it locks with: {} is a lock to write
  MaxLocks,       \* bound on the locks it nests
  MaxWrites,      \* bound on its writes
  MaxCommands,    \* commands the device queue holds
  None            \* kInvalidId

ASSUME LockAssumption ==
  /\ Flags \in [Resources -> SUBSET SUBSET {"discard", "readonly"}]
  /\ MaxLocks \in Nat \ {0}
  /\ MaxWrites \in Nat
  /\ MaxCommands \in Nat \ {0}
  /\ None \notin BufferIds

VARIABLES
  bufferId,     \* m_bufferId of each resource
  locks,        \* m_lockInfos of each resource
  content,      \* the data in each place of the heap
  writes,       \* how often the application has written
  commands,     \* the device command queue
  serverCopy,   \* the data in the server's resource
  blank,        \* history: resources whose buffer has been locked for reading only
  lost          \* history: buffers that nobody will release any more

lockVars == <<bufferId, locks, content, writes, commands, serverCopy, blank, lost>>
allVars == <<heapVars, lockVars>>

Lock(flags, id, discarded) == [flags |-> flags, bufferId |-> id, discarded |-> discarded]

\* The data of the buffer with this id, wherever it lies.
Data(id) == content[CHOOSE p \in Places : place[id] \subseteq {p}]

UnlockCmd(r, id)  == [cmd |-> "Unlock", resource |-> r, id |-> id, wrote |-> Data(id)]
DeallocCmd(id) == [cmd |-> "Dealloc", id |-> id]

Send(some) ==
  /\ Len(commands) + Len(some) <= MaxCommands
  /\ commands' = commands \o some

LockInit ==
  /\ HeapInit
  /\ bufferId = [r \in Resources |-> None]
  /\ locks = [r \in Resources |-> <<>>]
  /\ content = [p \in Places |-> 0]
  /\ writes = 0
  /\ commands = <<>>
  /\ serverCopy = [r \in Resources |-> 0]
  /\ blank = {}
  /\ lost = {}

\* lock needs a new buffer the first time and to discard the data it has.
NeedsBuffer(r, flags) == "discard" \in flags \/ bufferId[r] = None

\* The buffer that is given up: none, if there is none yet.
Discarded(r, flags) == IF "discard" \in flags THEN bufferId[r] ELSE None

MayLock(r) == Len(locks[r]) < MaxLocks

LockBuffer(r, flags) ==
  /\ MayLock(r)
  /\ ~NeedsBuffer(r, flags)
  /\ locks' = [locks EXCEPT ![r] = Append(@, Lock(flags, bufferId[r], None))]
  /\ blank' = IF "readonly" \in flags THEN blank ELSE blank \ {r}
  /\ UNCHANGED <<heapVars, bufferId, content, writes, commands, serverCopy, lost>>

LockNewBuffer(r, flags, id, p) ==
  /\ MayLock(r)
  /\ NeedsBuffer(r, flags)
  /\ HeapAllocate(id, {p})
  /\ bufferId' = [bufferId EXCEPT ![r] = id]
  /\ locks' = [locks EXCEPT ![r] = Append(@, Lock(flags, id, Discarded(r, flags)))]
  /\ blank' = IF "readonly" \in flags THEN blank \cup {r} ELSE blank \ {r}
  /\ UNCHANGED <<content, writes, commands, serverCopy, lost>>

\* Mutant of LockFails: the failure goes unnoticed.
LockFails_Unchecked(r, flags) ==
  /\ MayLock(r)
  /\ NeedsBuffer(r, flags)
  /\ Taken = Places
  /\ bufferId' = [bufferId EXCEPT ![r] = None]
  /\ locks' = [locks EXCEPT ![r] = Append(@, Lock(flags, None, Discarded(r, flags)))]
  /\ UNCHANGED <<heapVars, content, writes, commands, serverCopy, blank, lost>>

\* The heap has no room for the new buffer: the resource has none any more, and the one
\* that was to be discarded is lost.
LockFails(r, flags) ==
  /\ MayLock(r)
  /\ NeedsBuffer(r, flags)
  /\ Taken = Places
  /\ bufferId' = [bufferId EXCEPT ![r] = None]
  /\ lost' = lost \cup ({bufferId[r]} \ {None})
  /\ UNCHANGED <<heapVars, locks, content, writes, commands, serverCopy, blank>>

\* The application writes through the pointer of a lock it has not undone.
Write(r) ==
  /\ writes < MaxWrites
  /\ writes' = writes + 1
  /\ \E i \in DOMAIN locks[r] :
       /\ "readonly" \notin locks[r][i].flags
       /\ content' = [p \in Places |-> IF p \in place[locks[r][i].bufferId] THEN writes'
                                       ELSE content[p]]
  /\ UNCHANGED <<heapVars, bufferId, locks, commands, serverCopy, blank, lost>>

\* A lock for reading sends nothing when it is undone, and releases nothing either.
UnlockCommands(r, lock) ==
  IF "readonly" \in lock.flags THEN <<>>
  ELSE <<UnlockCmd(r, lock.bufferId)>>
       \o (IF lock.discarded = None THEN <<>> ELSE <<DeallocCmd(lock.discarded)>>)

ReleaseDiscarded(lock) ==
  IF "readonly" \notin lock.flags /\ lock.discarded # None
  THEN HeapRelease(lock.discarded) ELSE UNCHANGED heapVars

\* What a lock for reading has discarded is lost when it is undone.
LostByUnlock(lock) == IF "readonly" \in lock.flags THEN {lock.discarded} \ {None} ELSE {}

\* Mutant of Unlock: the last lock is undone first.
Unlock_MostRecent(r) ==
  /\ locks[r] # <<>>
  /\ LET last == Len(locks[r])
     IN  /\ Send(UnlockCommands(r, locks[r][last]))
         /\ ReleaseDiscarded(locks[r][last])
         /\ lost' = lost \cup LostByUnlock(locks[r][last])
         /\ locks' = [locks EXCEPT ![r] = SubSeq(locks[r], 1, last - 1)]
  /\ UNCHANGED <<bufferId, content, writes, serverCopy, blank>>

Unlock(r) ==
  /\ locks[r] # <<>>
  /\ Send(UnlockCommands(r, Head(locks[r])))
  /\ ReleaseDiscarded(Head(locks[r]))
  /\ lost' = lost \cup LostByUnlock(Head(locks[r]))
  /\ locks' = [locks EXCEPT ![r] = Tail(locks[r])]
  /\ UNCHANGED <<bufferId, content, writes, serverCopy, blank>>

\* What the locks on the resource have discarded and nobody has undone.
StillDiscarded(r) == {locks[r][i].discarded : i \in DOMAIN locks[r]} \ {None}

\* Mutant of Destroy: the buffer of the heap is forgotten.
Destroy_Forgets(r) ==
  /\ bufferId[r] # None \/ locks[r] # <<>>
  /\ bufferId' = [bufferId EXCEPT ![r] = None]
  /\ locks' = [locks EXCEPT ![r] = <<>>]
  /\ lost' = lost \cup StillDiscarded(r)
  /\ UNCHANGED <<heapVars, commands, content, writes, serverCopy, blank>>

\* The last reference to a resource goes, locked or not: its buffer is released, and what
\* its locks have discarded is lost.  Its name is free for another.
Destroy(r) ==
  /\ bufferId[r] # None \/ locks[r] # <<>>
  /\ IF bufferId[r] = None THEN UNCHANGED <<heapVars, commands>>
     ELSE HeapRelease(bufferId[r]) /\ Send(<<DeallocCmd(bufferId[r])>>)
  /\ bufferId' = [bufferId EXCEPT ![r] = None]
  /\ locks' = [locks EXCEPT ![r] = <<>>]
  /\ lost' = lost \cup StillDiscarded(r)
  /\ UNCHANGED <<content, writes, serverCopy, blank>>

\* The server looks the buffer up and copies what it finds.
ServerUnlock ==
  /\ commands # <<>>
  /\ Head(commands).cmd = "Unlock"
  /\ commands' = Tail(commands)
  /\ serverCopy' = [serverCopy EXCEPT ![Head(commands).resource] = Data(Head(commands).id)]
  /\ UNCHANGED <<heapVars, bufferId, locks, content, writes, blank, lost>>

ServerHeapDealloc ==
  /\ commands # <<>>
  /\ Head(commands).cmd = "Dealloc"
  /\ commands' = Tail(commands)
  /\ ServerLetsGo(Head(commands).id)
  /\ UNCHANGED <<bufferId, locks, content, writes, serverCopy, blank, lost>>

Reclaim(id) == HeapReclaim(id) /\ UNCHANGED lockVars

\* Ids are given out in order: which one is next does not matter.
NextId == CHOOSE id \in BufferIds : lease[id] = "unused"
IdsLeft == \E id \in BufferIds : lease[id] = "unused"

LockNext ==
  \/ \E r \in Resources :
       \/ \E flags \in Flags[r] :
            \/ LockBuffer(r, flags)
            \/ IdsLeft /\ \E p \in Places : LockNewBuffer(r, flags, NextId, p)
            \/ LockFails(r, flags)
       \/ Write(r) \/ Unlock(r) \/ Destroy(r)
  \/ ServerUnlock \/ ServerHeapDealloc
  \/ \E id \in BufferIds : Reclaim(id)

LockSpec == LockInit /\ [][LockNext]_allVars

----------------------------------------------------------------------------

LockType == [flags : SUBSET {"discard", "readonly"}, bufferId : BufferIds,
             discarded : BufferIds \cup {None}]

CommandType == [cmd : {"Unlock"}, resource : Resources, id : BufferIds, wrote : 0 .. MaxWrites]
                 \cup [cmd : {"Dealloc"}, id : BufferIds]

LockTypeOK ==
  /\ HeapType
  /\ bufferId \in [Resources -> BufferIds \cup {None}]
  /\ locks \in [Resources -> Seq(LockType)]
  /\ \A r \in Resources : \A i \in DOMAIN locks[r] : locks[r][i].flags \in Flags[r]
  /\ content \in [Places -> 0 .. MaxWrites]
  /\ writes \in 0 .. MaxWrites
  /\ commands \in Seq(CommandType)
  /\ serverCopy \in [Resources -> 0 .. MaxWrites]
  /\ blank \subseteq Resources
  /\ lost \subseteq BufferIds

\* The server knows every buffer it is to copy from (the assertion of getBuf): discarded
\* buffers are released after the last unlock that names them, also where locks are nested.
ServerKnowsBuffer ==
  (commands # <<>> /\ Head(commands).cmd = "Unlock") =>
    lease[Head(commands).id] \in {"held", "released"}

\* For a resource whose every lock for writing discards, the server copies what the
\* application had written when it undid the lock: a discarded buffer is not written again,
\* although the server is behind.
CopiesWhatWasDiscarded ==
  (commands # <<>> /\ Head(commands).cmd = "Unlock" /\ {} \notin Flags[Head(commands).resource]) =>
    Data(Head(commands).id) = Head(commands).wrote

\* When all is undone and the server has caught up, it has the application's data, if the
\* application has written any to the buffer.
ServerIsCurrent ==
  \A r \in Resources :
    (commands = <<>> /\ locks[r] = <<>> /\ bufferId[r] # None /\ r \notin blank) =>
      serverCopy[r] = Data(bufferId[r])

\* What the server reads in the shared heap, without any lock and behind the application, is
\* the data it is meant to read, through nested locks, discards and destruction.
ServerReadsItsData == ServerKnowsBuffer /\ CopiesWhatWasDiscarded /\ ServerIsCurrent

\* Who will release the buffer: the resource, or a lock that has discarded it.
HasOwner(id) ==
  \E r \in Resources : bufferId[r] = id \/ id \in StillDiscarded(r)

\* A buffer of the heap that nobody has released and nobody will release has been lost in one
\* of three ways, and in no other: a discarding lock found no room (LockFails), a lock that
\* discarded was for reading (Unlock), or the resource went while a lock that discarded was
\* not undone (Destroy).  And what has been lost so is lost for good.  The code's comment has
\* a discarding lock "begin the process of dealloc'ing and freeing that buffer"
\* (lockable_buffer.h:120-121): in these three cases nobody ends it.
LostInThreeWays == lost = {id \in BufferIds : lease[id] = "held" /\ ~HasOwner(id)}
==============================================================================

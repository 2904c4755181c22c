---------------------------- MODULE DataQueueSync ----------------------------
(***************************************************************************)
(* Flow control of the data queue between the client and the server        *)
(* (bridge/src/util/util_bridgecommand.{h,cpp}, util_ipcchannel.h and the  *)
(* end of the server's command loop in bridge/src/server/main.cpp).        *)
(*                                                                         *)
(* The client fills the ring ahead of the server.  Before every item it    *)
(* calls syncDataQueue, which compares the position the item will reach    *)
(* with serverDataPos, the position the server had reached when it last    *)
(* finished a command.  If the item would overwrite words of commands the  *)
(* server has not finished, the client announces in clientDataExpectedPos  *)
(* the position it waits for and waits on dataSemaphore; the server        *)
(* releases the semaphore after the command that passes this position.     *)
(* serverResetPosRequired says the client is one lap ahead.  The three are *)
(* plain words of shared memory: each access is a step of its own.         *)
(*                                                                         *)
(* A word of the ring is the number of the command that wrote it.          *)
(***************************************************************************)
EXTENDS DataQueue

CONSTANTS
  Shape,        \* the commands: the items they send, and whether the client waits
                \* for the server's answer
  Prologue,     \* how many commands at the start are ones it waits for
  CmdSlots,     \* commands the command queue holds
  MaxCommands,  \* bound on the commands the client sends
  WaitGivesUp   \* the retries of a wait, on dataSemaphore or for room, can run out

ASSUME SyncAssumption ==
  /\ Shape \subseteq [items : Seq(Item), answered : BOOLEAN]
  /\ Prologue \in Nat
  /\ CmdSlots \in Nat \ {0}
  /\ MaxCommands \in Nat
  /\ WaitGivesUp \in BOOLEAN

None == -1     \* the sentinel of serverDataPos and clientDataExpectedPos

VARIABLES
  data,                     \* the ring
  serverDataPos,            \* where the server was after its last command
  clientDataExpectedPos,    \* what the client waits for, or None
  serverResetPosRequired,   \* the client is a lap ahead
  dataSemaphore,            \* counts 0 or 1
  commands,                 \* the command queue
  client,                   \* the client's place and what its call keeps
  server                    \* the server's place and what its loop keeps

shared == <<serverDataPos, clientDataExpectedPos, serverResetPosRequired, dataSemaphore>>

vars == <<data, serverDataPos, clientDataExpectedPos, serverResetPosRequired,
          dataSemaphore, commands, client, server>>

----------------------------------------------------------------------------
(* IpcChannel's constructor. *)

Init ==
  /\ data = [p \in Pos |-> 0]
  /\ serverDataPos = None
  /\ clientDataExpectedPos = None
  /\ serverResetPosRequired = FALSE
  /\ dataSemaphore = 0
  /\ commands = <<>>
  /\ client = [at |-> "idle", uid |-> 0, pos |-> 0, start |-> None,
               shape |-> [items |-> <<>>, answered |-> FALSE],
               left |-> <<>>, serverCount |-> None, expected |-> 0, twice |-> FALSE,
               blind |-> FALSE, gaveUp |-> FALSE]
  /\ server = [at |-> "idle", uid |-> 0, pos |-> 0, offset |-> 0, left |-> <<>>,
               answers |-> FALSE, answered |-> 0, done |-> 0]

----------------------------------------------------------------------------
(* The client.  A Command sends its identifier, then its items; each is    *)
(* preceded by syncDataQueue.  The destructor queues the header, with the  *)
(* position reached.                                                       *)

item == Head(client.left)

CommandBegin(shape) ==
  /\ client.at = "idle"
  /\ client.uid < MaxCommands
  /\ (client.uid < Prologue) => shape.answered
  /\ client' = [client EXCEPT !.at = "sync", !.uid = client.uid + 1,
                             !.start = client.pos, !.shape = shape,
                             !.left = <<Word>> \o shape.items]
  /\ UNCHANGED <<data, shared, commands, server>>

\* syncDataQueue reads serverDataPos once and works out the last position of
\* the item.
SyncBegin ==
  /\ client.at = "sync"
  /\ client' = [client EXCEPT !.at = "wrap", !.serverCount = serverDataPos,
                             !.expected = client.pos + MemUsage(item) - 1, !.twice = FALSE]
  /\ UNCHANGED <<data, shared, commands, server>>

\* The item goes past the end of the ring and the client is already a lap
\* ahead: it waits first.
SyncDoubleOverflow ==
  /\ client.at = "wrap"
  /\ client.expected >= TotalSize
  /\ serverResetPosRequired
  /\ ~client.twice
  /\ client' = [client EXCEPT !.at = "announce", !.twice = TRUE]
  /\ UNCHANGED <<data, shared, commands, server>>

\* The item goes past the end of the ring: a blob starts over at position 0.
SyncWrap ==
  /\ client.at = "wrap"
  /\ client.expected >= TotalSize
  /\ client.twice \/ ~serverResetPosRequired
  /\ client' = [client EXCEPT !.at = "check",
                             !.expected = IF item.kind = "blob" THEN MemUsage(item) - 1
                                                                ELSE client.expected - TotalSize]
  /\ serverResetPosRequired' = TRUE
  /\ UNCHANGED <<data, serverDataPos, clientDataExpectedPos, dataSemaphore, commands, server>>

SyncNoWrap ==
  /\ client.at = "wrap"
  /\ client.expected < TotalSize
  /\ client' = [client EXCEPT !.at = "check"]
  /\ UNCHANGED <<data, shared, commands, server>>

\* Mutant of Overwrites: the client behind the server is forgotten.
Overwrites_Ahead ==
  /\ client.serverCount # None
  /\ client.expected >= client.serverCount
  /\ \/ client.start > client.serverCount /\ client.expected < client.start
     \/ client.start <= client.serverCount /\ serverResetPosRequired

\* The overwrite conditions.  expectedClientDataPos is unsigned, so that it is
\* less than a serverCount of -1.
Overwrites ==
  /\ client.serverCount # None
  /\ client.expected >= client.serverCount
  /\ \/ client.start < client.serverCount
     \/ client.start > client.serverCount /\ client.expected < client.start
     \/ client.start <= client.serverCount /\ serverResetPosRequired

\* How many words of the command are in the ring already.
Batch == IF client.pos >= client.start THEN client.pos - client.start
                                       ELSE client.pos + TotalSize - client.start

\* The command alone is longer than the ring.
TooLong == MemUsage(item) + Batch > TotalSize

\* The item reaches the end of the ring, so that the next position, or the blob
\* itself, is at the start of it.
StartsOver == client.pos + MemUsage(item) >= TotalSize

\* Where the conditions are blind to an overwrite (a history, see
\* ProtectedElsewhere): the item ends the lap and syncDataQueue does not see it;
\* the client is a whole lap ahead, so that the positions are equal, and whether
\* that is seen depends on a flag the server clears in the middle of a command;
\* the item passes both the server and the end of the ring; the ring starts over
\* before the server has published where it is; a blob starts over, past the
\* server, and ends beyond the command's own start, which the second condition
\* excludes and TooLong does not count, as the words skipped at the end of the ring
\* are not in MemUsage; or the command laps itself, which is looked for only once
\* another overwrite has been seen.
BlindSpot ==
  \/ client.pos + MemUsage(item) = TotalSize
  \/ client.start = client.serverCount /\ server.done < client.uid - 1
  \/ StartsOver /\ client.start < client.serverCount
  \/ StartsOver /\ client.serverCount = None
  \/ StartsOver /\ item.kind = "blob" /\ PushItem(client.pos, item) >= client.start
  \/ TooLong

SyncCheck ==
  /\ client.at = "check"
  /\ client' = [client EXCEPT !.at = IF Overwrites THEN "announce" ELSE "write",
                             !.twice = FALSE,
                             !.blind = client.blind \/ BlindSpot]
  /\ UNCHANGED <<data, shared, commands, server>>

\* handleOverwriteCondition: tell the server what the client waits for.
Announce ==
  /\ client.at = "announce"
  /\ clientDataExpectedPos' = client.start - 1
  /\ client' = [client EXCEPT !.at = "fits"]
  /\ UNCHANGED <<data, serverDataPos, serverResetPosRequired, dataSemaphore, commands, server>>

\* A command that can never fit ends the process.
FitsNot ==
  /\ client.at = "fits"
  /\ TooLong
  /\ client' = [client EXCEPT !.at = "exited"]
  /\ UNCHANGED <<data, shared, commands, server>>

Fits ==
  /\ client.at = "fits"
  /\ ~TooLong
  /\ client' = [client EXCEPT !.at = "wait"]
  /\ UNCHANGED <<data, shared, commands, server>>

WaitSuccess ==
  /\ client.at = "wait"
  /\ dataSemaphore > 0
  /\ dataSemaphore' = dataSemaphore - 1
  /\ client' = [client EXCEPT !.at = "resolved"]
  /\ UNCHANGED <<data, serverDataPos, clientDataExpectedPos, serverResetPosRequired, commands, server>>

\* Mutant of WaitFailure: the retries are not counted.
WaitFailure_Forever ==
  /\ client.at = "wait"
  /\ WaitGivesUp
  /\ UNCHANGED vars

\* Every retry timed out: an error is logged and the client goes on (gaveUp is a history).
WaitFailure ==
  /\ client.at = "wait"
  /\ WaitGivesUp
  /\ client' = [client EXCEPT !.at = "resolved", !.gaveUp = TRUE]
  /\ UNCHANGED <<data, shared, commands, server>>

\* The end of handleOverwriteCondition, back to where it was called from.
Resolved ==
  /\ client.at = "resolved"
  /\ clientDataExpectedPos' = None
  /\ client' = [client EXCEPT !.at = "resetFlag"]
  /\ UNCHANGED <<data, serverDataPos, serverResetPosRequired, dataSemaphore, commands, server>>

ResolvedReset ==
  /\ client.at = "resetFlag"
  /\ serverResetPosRequired' = FALSE
  /\ client' = [client EXCEPT !.at = IF client.twice THEN "wrap" ELSE "write"]
  /\ UNCHANGED <<data, serverDataPos, clientDataExpectedPos, dataSemaphore, commands, server>>

\* The item goes into the ring.
WriteItem ==
  /\ client.at = "write"
  /\ data' = [p \in Pos |-> IF p \in Written(client.pos, item) THEN client.uid ELSE data[p]]
  /\ client' = [client EXCEPT !.at = IF Len(client.left) > 1 THEN "sync" ELSE "send",
                             !.pos = PushItem(client.pos, item),
                             !.left = Tail(client.left)]
  /\ UNCHANGED <<shared, commands, server>>

\* The destructor: the header is queued once the command queue has room.
CommandEnd ==
  /\ client.at = "send"
  /\ Len(commands) < CmdSlots
  /\ commands' = Append(commands, [uid |-> client.uid, offset |-> client.pos, shape |-> client.shape])
  /\ client' = [client EXCEPT !.at = IF client.shape.answered THEN "answer" ELSE "idle",
                             !.start = None]
  /\ UNCHANGED <<data, shared, server>>

\* With timeouts enabled the retries of the push can run out.  The command is lost and the
\* bridge is off: later commands are sent nothing of.
CommandLost ==
  /\ client.at = "send"
  /\ Len(commands) = CmdSlots
  /\ WaitGivesUp
  /\ client' = [client EXCEPT !.at = "off", !.start = None]
  /\ UNCHANGED <<data, shared, commands, server>>

\* The server's answer to the command has come.
Answered ==
  /\ client.at = "answer"
  /\ server.answered = client.uid
  /\ client' = [client EXCEPT !.at = "idle"]
  /\ UNCHANGED <<data, shared, commands, server>>

----------------------------------------------------------------------------
(* The server: ProcessDeviceCommandQueue. *)

ServerTake ==
  /\ server.at = "idle"
  /\ commands # <<>>
  /\ LET cmd == Head(commands)
     IN  server' = [server EXCEPT !.at = "reading", !.uid = cmd.uid, !.offset = cmd.offset,
                                 !.answers = cmd.shape.answered,
                                 !.left = <<Word>> \o cmd.shape.items]
  /\ commands' = Tail(commands)
  /\ UNCHANGED <<data, shared, client>>

\* get_data: one pull, then the check for a completed loop.  Two commands pull their texts
\* from the queue itself, which leaves serverResetPosRequired as it is.
ServerPull ==
  /\ server.at = "reading"
  /\ server.left # <<>>
  /\ LET it == Head(server.left)
         pos == PullItem(server.pos, it)
     IN  /\ server' = [server EXCEPT !.pos = pos, !.left = LeftOf(it) \o Tail(server.left)]
         /\ \/ serverResetPosRequired' = (serverResetPosRequired /\ ~(pos < server.pos))
            \/ it.kind = "blob" /\ UNCHANGED serverResetPosRequired
  /\ UNCHANGED <<data, serverDataPos, clientDataExpectedPos, dataSemaphore, commands, client>>

\* The answer is sent by the command's own code, before the position is published.
ServerAnswer ==
  /\ server.at = "reading"
  /\ server.left = <<>>
  /\ server.answers
  /\ server' = [server EXCEPT !.answers = FALSE, !.answered = server.uid]
  /\ UNCHANGED <<data, shared, commands, client>>

\* The command is done: where the server is now.
ServerPublish ==
  /\ server.at = "reading"
  /\ server.left = <<>>
  /\ ~server.answers
  /\ serverDataPos' = server.pos
  /\ server' = [server EXCEPT !.at = "check", !.done = server.uid]
  /\ UNCHANGED <<data, clientDataExpectedPos, serverResetPosRequired, dataSemaphore, commands, client>>

\* Is the client waiting, for a position that has been passed, in this lap?  The
\* three are read one after the other.
ServerSeesWaiter ==
  /\ server.at = "check"
  /\ clientDataExpectedPos # None
  /\ server' = [server EXCEPT !.at = "compare"]
  /\ UNCHANGED <<data, shared, commands, client>>

ServerPassed ==
  /\ server.at = "compare"
  /\ serverDataPos > clientDataExpectedPos
  /\ server' = [server EXCEPT !.at = "lap"]
  /\ UNCHANGED <<data, shared, commands, client>>

ServerSameLap ==
  /\ server.at = "lap"
  /\ ~serverResetPosRequired
  /\ server' = [server EXCEPT !.at = "release"]
  /\ UNCHANGED <<data, shared, commands, client>>

ServerNotAwaited ==
  /\ \/ server.at = "check" /\ clientDataExpectedPos = None
     \/ server.at = "compare" /\ serverDataPos <= clientDataExpectedPos
     \/ server.at = "lap" /\ serverResetPosRequired
  /\ server' = [server EXCEPT !.at = "idle"]
  /\ UNCHANGED <<data, shared, commands, client>>

\* Mutant of ServerRelease: the announcement is left for the client to clear.
ServerRelease_NoClear ==
  /\ server.at = "release"
  /\ dataSemaphore' = 1
  /\ server' = [server EXCEPT !.at = "idle"]
  /\ UNCHANGED <<data, serverDataPos, clientDataExpectedPos, serverResetPosRequired, commands, client>>

\* A release of the semaphore at its maximum fails, and is ignored.
ServerRelease ==
  /\ server.at = "release"
  /\ dataSemaphore' = 1
  /\ server' = [server EXCEPT !.at = "clear"]
  /\ UNCHANGED <<data, serverDataPos, clientDataExpectedPos, serverResetPosRequired, commands, client>>

ServerClear ==
  /\ server.at = "clear"
  /\ clientDataExpectedPos' = None
  /\ server' = [server EXCEPT !.at = "idle"]
  /\ UNCHANGED <<data, serverDataPos, serverResetPosRequired, dataSemaphore, commands, client>>

----------------------------------------------------------------------------

Sync ==
  \/ SyncBegin \/ SyncDoubleOverflow \/ SyncWrap \/ SyncNoWrap \/ SyncCheck
  \/ Announce \/ Fits \/ FitsNot \/ WaitSuccess \/ WaitFailure \/ Resolved \/ ResolvedReset

Server ==
  \/ ServerTake \/ ServerPull \/ ServerAnswer \/ ServerPublish
  \/ ServerSeesWaiter \/ ServerPassed \/ ServerSameLap \/ ServerNotAwaited
  \/ ServerRelease \/ ServerClear

ClientStep == Sync \/ WriteItem \/ CommandEnd \/ CommandLost \/ Answered

Next ==
  \/ \E shape \in Shape : CommandBegin(shape)
  \/ ClientStep
  \/ Server

Spec == Init /\ [][Next]_vars

FairSpec == Spec /\ WF_vars(ClientStep) /\ WF_vars(Server)

----------------------------------------------------------------------------
(* Properties. *)

ClientType ==
  [at : {"idle", "sync", "wrap", "check", "announce", "fits", "wait", "resolved",
         "resetFlag", "write", "send", "answer", "exited", "off"},
   uid : 0 .. MaxCommands, pos : Pos, start : Pos \cup {None},
   shape : [items : Seq(Item), answered : BOOLEAN], left : Seq(Item),
   serverCount : Pos \cup {None}, expected : 0 .. 2 * TotalSize,
   twice : BOOLEAN, blind : BOOLEAN, gaveUp : BOOLEAN]

ServerType ==
  [at : {"idle", "reading", "check", "compare", "lap", "release", "clear"},
   uid : 0 .. MaxCommands, pos : Pos, offset : Pos, left : Seq(Item),
   answers : BOOLEAN, answered : 0 .. MaxCommands, done : 0 .. MaxCommands]

TypeOK ==
  /\ data \in [Pos -> 0 .. MaxCommands]
  /\ serverDataPos \in Pos \cup {None}
  /\ clientDataExpectedPos \in Pos \cup {None}
  /\ serverResetPosRequired \in BOOLEAN
  /\ dataSemaphore \in {0, 1}
  /\ commands \in Seq([uid : 0 .. MaxCommands, offset : Pos,
                       shape : [items : Seq(Item), answered : BOOLEAN]])
  /\ Len(commands) <= CmdSlots
  /\ client \in ClientType
  /\ server \in ServerType

\* No word of a command that the server has not finished is overwritten: the
\* server reads every argument as the client sent it, even while it still uses
\* a pointer into the ring.
NoOverwrite ==
  (client.at = "write") => \A p \in Written(client.pos, item) : data[p] <= server.done

\* syncDataQueue keeps unfinished commands from being overwritten unless it has
\* met one of its blind spots or ran out of retries: there are no others.
ProtectedElsewhere == client.blind \/ client.gaveUp \/ NoOverwrite

\* Client and server go through the same positions, each by its own arithmetic:
\* a command's last argument ends where the header says (CHECK_DATA_OFFSET).
OffsetsAgree ==
  (server.at = "reading" /\ server.left = <<>>) => server.pos = server.offset

\* While waits last until they are released, a release is for a client that waits
\* or is about to: none is left over to let a later wait pass at once.
ReleaseForWaiter ==
  (dataSemaphore = 1 /\ ~client.gaveUp) => (client.at \in {"fits", "wait", "exited"})

\* A command that was begun is queued for the server, or the client exits or turns the
\* bridge off.
CommandSent == (client.at = "sync") ~> (client.at \in {"idle", "answer", "exited", "off"})
==============================================================================

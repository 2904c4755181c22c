--------------------------- MODULE BridgeLifecycle ---------------------------
(***************************************************************************)
(* How client and server come up, watch each other and go down: InitServer *)
(* and RemixDetach in the game's process (src/bridge/src/client/           *)
(* d3d9_lss.cpp), wWinMain in the server's (src/bridge/src/server/         *)
(* main.cpp), and the callback that each has for the other one's end.      *)
(*                                                                         *)
(* A wait for a command ends when the command is there.  With timeouts     *)
(* disabled, which is the default, it ends in no other way: peek spins     *)
(* until it sees an object and looks neither at gbBridgeRunning nor at the *)
(* time.  With timeouts the client's waits also run out (how often they    *)
(* are retried is not in the model, and the window keeps the focus, so its *)
(* retries are not infinite).  The server's never do: getInfiniteRetries   *)
(* is always true there, and a peek that timed out is repeated until       *)
(* gbBridgeRunning is off (TimesOut).                                      *)
(*                                                                         *)
(* Either process may end abnormally at any time.  Commands other than     *)
(* those of the protocol are all "Call"; the server may hang in one.       *)
(***************************************************************************)
EXTENDS Integers, Sequences

CONSTANTS
    MaxCalls,       \* bound: how many commands the application sends
    shutdownRetries \* how often OnClientExited sleeps before it forces the end

ASSUME LifecycleAssumption ==
    /\ MaxCalls \in Nat
    /\ shutdownRetries \in Nat

VARIABLES
    timeoutsDisabled, \* the option of that name
    client,           \* the game's process
    server,           \* the server's process
    commands,         \* the device bridge's commands to the server
    responses,        \* its commands to the client
    calls             \* how many commands the application has sent

vars == <<timeoutsDisabled, client, server, commands, responses, calls>>

(***************************************************************************)
(* client.state and client.server are BridgeState's two ProcessStates,     *)
(* which only the client keeps.  client.callback is OnServerExited:        *)
(* "armed", begun ("fired"), showing its message box, or no longer there.  *)
(* client.greeted and client.clean are history: InitServer took an Ack and *)
(* RemixDetach took one.                                                   *)
(***************************************************************************)
ClientRunning == client.pc # "gone"

ServerRunning == server.pc \notin {"none", "gone"}

ClientInit ==
    [pc |-> "attached", state |-> "Init", server |-> "NotInit", running |-> TRUE,
     gpServer |-> FALSE, callback |-> "none", byCallback |-> FALSE,
     greeted |-> FALSE, clean |-> FALSE]

Detaching == client.pc \in {"detach", "terminate", "waitEnd", "release"}

\* server.end says how the server ended and server.late that the client was detaching.
ServerInit ==
    [pc |-> "none", running |-> TRUE, ghModule |-> FALSE, callback |-> "none",
     retries |-> 0, moduleThread |-> "none", bSignalDone |-> FALSE,
     end |-> "no", late |-> FALSE]

Init ==
    /\ timeoutsDisabled \in BOOLEAN
    /\ client = ClientInit
    /\ server = ServerInit
    /\ commands = <<>>
    /\ responses = <<>>
    /\ calls = 0

Ended(how) == [server EXCEPT !.pc = "gone", !.end = how, !.late = Detaching]

\* ~Command on the client: nothing is queued once the bridge is off, and a server that
\* is known to be done turns it off.
IsDone(state) == state \in {"DoneProcessing", "Exited"}

ClientPush(command, next) ==
    /\ commands' = IF client.running THEN Append(commands, command) ELSE commands
    /\ client' = [next EXCEPT !.running = @ /\ ~ IsDone(client.server)]

ServerPush(response) ==
    responses' = IF server.running THEN Append(responses, response) ELSE responses

TakeFirst(command) ==
    /\ commands # <<>>
    /\ Head(commands) = command
    /\ commands' = Tail(commands)

-----------------------------------------------------------------------------
(***************************************************************************)
(* The game's thread: InitServer.                                          *)
(***************************************************************************)
\* new Process: the server starts and its end is watched from here on, though gpServer
\* is not assigned yet.
Launch ==
    /\ client.pc = "attached"
    /\ server' = [server EXCEPT !.pc = "waitSyn"]
    /\ client' = [client EXCEPT !.pc = "launched", !.callback = "armed"]
    /\ UNCHANGED <<timeoutsDisabled, commands, responses, calls>>

Launched ==
    /\ client.pc = "launched"
    /\ client' = [client EXCEPT !.pc = "syn", !.gpServer = TRUE, !.server = "Init"]
    /\ UNCHANGED <<timeoutsDisabled, server, commands, responses, calls>>

SendSyn ==
    /\ client.pc = "syn"
    /\ ClientPush("Syn", [client EXCEPT !.pc = "waitAck", !.state = "Handshaking"])
    /\ UNCHANGED <<timeoutsDisabled, server, responses, calls>>

TakeAck ==
    /\ client.pc = "waitAck"
    /\ responses # <<>>
    /\ responses' = Tail(responses)
    /\ client' = [client EXCEPT !.pc = "continue", !.server = "Handshaking", !.greeted = TRUE]
    /\ UNCHANGED <<timeoutsDisabled, server, commands, calls>>

AckTimesOut ==
    /\ client.pc = "waitAck"
    /\ ~ timeoutsDisabled
    /\ client' = [client EXCEPT !.pc = "running", !.server = "DoneProcessing",
                                !.running = FALSE]
    /\ UNCHANGED <<timeoutsDisabled, server, commands, responses, calls>>

SendContinue ==
    /\ client.pc = "continue"
    /\ ClientPush("Continue", [client EXCEPT !.pc = "running", !.state = "Running",
                                             !.server = "Running"])
    /\ UNCHANGED <<timeoutsDisabled, server, responses, calls>>

InitServer == Launched \/ SendSyn \/ TakeAck \/ AckTimesOut \/ SendContinue

Call ==
    /\ client.pc = "running"
    /\ calls < MaxCalls
    /\ calls' = calls + 1
    /\ ClientPush("Call", client)
    /\ UNCHANGED <<timeoutsDisabled, server, responses>>

-----------------------------------------------------------------------------
(***************************************************************************)
(* RemixDetach, on the game's thread or, when OnServerExited exits, on the *)
(* thread of the callback: exit ends all other threads first.              *)
(***************************************************************************)
DetachBegun ==
    [client EXCEPT !.state = "DoneProcessing",
                   !.pc = IF client.gpServer THEN "detach" ELSE "exit"]

Detach ==
    /\ client.pc \in {"attached", "running"}
    /\ client' = DetachBegun
    /\ UNCHANGED <<timeoutsDisabled, server, commands, responses, calls>>

\* Mutant of UnregisterExitCallback: UnregisterWait, which does not wait for callbacks.
UnregisterExitCallback_NoWait ==
    /\ client.pc = "detach"
    /\ client' = [client EXCEPT !.pc = "terminate",
                                !.callback = IF @ = "armed" THEN "none" ELSE @]
    /\ UNCHANGED <<timeoutsDisabled, server, commands, responses, calls>>

\* UnregisterWaitEx returns only when no callback runs.  In the callback's own thread the
\* process is being torn down, and the model lets it return.
UnregisterExitCallback ==
    /\ client.pc = "detach"
    /\ client.callback \in {"fired", "box"} => client.byCallback
    /\ client' = [client EXCEPT !.pc = "terminate", !.callback = "none"]
    /\ UNCHANGED <<timeoutsDisabled, server, commands, responses, calls>>

SendTerminate ==
    /\ client.pc = "terminate"
    /\ ClientPush("Terminate", [client EXCEPT !.pc = "waitEnd"])
    /\ UNCHANGED <<timeoutsDisabled, server, responses, calls>>

TakeLastAck ==
    /\ client.pc = "waitEnd"
    /\ responses # <<>>
    /\ responses' = Tail(responses)
    /\ client' = [client EXCEPT !.pc = "release", !.clean = TRUE]
    /\ UNCHANGED <<timeoutsDisabled, server, commands, calls>>

LastAckTimesOut ==
    /\ client.pc = "waitEnd"
    /\ ~ timeoutsDisabled
    /\ client' = [client EXCEPT !.pc = "release"]
    /\ UNCHANGED <<timeoutsDisabled, server, commands, responses, calls>>

\* delete gpServer: a server that does not end in time is killed.
ReleaseChildProcess ==
    /\ client.pc = "release"
    /\ server' = IF ServerRunning THEN Ended("killed") ELSE server
    /\ client' = [client EXCEPT !.pc = "exit"]
    /\ UNCHANGED <<timeoutsDisabled, commands, responses, calls>>

\* The detached game ends.
Exit ==
    /\ client.pc = "exit"
    /\ client' = [client EXCEPT !.pc = "gone", !.state = "Exited", !.callback = "none"]
    /\ UNCHANGED <<timeoutsDisabled, server, commands, responses, calls>>

RemixDetach ==
    \/ UnregisterExitCallback \/ SendTerminate \/ TakeLastAck
    \/ LastAckTimesOut \/ ReleaseChildProcess \/ Exit

ClientDies ==
    /\ ClientRunning
    /\ client' = [client EXCEPT !.pc = "gone", !.callback = "none"]
    /\ UNCHANGED <<timeoutsDisabled, server, commands, responses, calls>>

-----------------------------------------------------------------------------
(***************************************************************************)
(* OnServerExited, on a thread of its own.                                 *)
(***************************************************************************)
ServerExitSeen ==
    /\ client.callback = "armed"
    /\ server.pc = "gone"
    /\ client' = [client EXCEPT !.callback = "fired", !.server = "Exited", !.running = FALSE]
    /\ UNCHANGED <<timeoutsDisabled, server, commands, responses, calls>>

ServerExitExpected ==
    /\ client.callback = "fired"
    /\ client.state = "DoneProcessing"
    /\ client' = [client EXCEPT !.callback = "none"]
    /\ UNCHANGED <<timeoutsDisabled, server, commands, responses, calls>>

ServerExitUnexpected ==
    /\ client.callback = "fired"
    /\ client.state # "DoneProcessing"
    /\ client' = [client EXCEPT !.callback = "box"]
    /\ UNCHANGED <<timeoutsDisabled, server, commands, responses, calls>>

\* The user closes the message box and the callback exits.
BoxClosed ==
    /\ client.callback = "box"
    /\ ~ client.byCallback
    /\ client' = [DetachBegun EXCEPT !.byCallback = TRUE]
    /\ UNCHANGED <<timeoutsDisabled, server, commands, responses, calls>>

OnServerExited == ServerExitSeen \/ ServerExitExpected \/ ServerExitUnexpected

-----------------------------------------------------------------------------
(***************************************************************************)
(* The server's thread: wWinMain.                                          *)
(***************************************************************************)
\* Mutant of TakeSyn: the Ack is sent before d3d9.dll is loaded.
TakeSyn_AcksAtOnce ==
    /\ server.pc = "waitSyn"
    /\ TakeFirst("Syn")
    /\ ServerPush("Ack")
    /\ server' = [server EXCEPT !.pc = "initD3D", !.callback = "armed"]
    /\ UNCHANGED <<timeoutsDisabled, client, calls>>

TakeSyn ==
    /\ server.pc = "waitSyn"
    /\ TakeFirst("Syn")
    /\ server' = [server EXCEPT !.pc = "initD3D", !.callback = "armed"]
    /\ UNCHANGED <<timeoutsDisabled, client, responses, calls>>

\* A wait of the server that gives up: OnClientExited has turned the bridge off.
TimesOut == ~ timeoutsDisabled /\ ~ server.running

\* A handshake that is given up, or no d3d9.dll: wWinMain returns 1.
StartFails ==
    /\ \/ server.pc \in {"waitSyn", "waitContinue"} /\ TimesOut
       \/ server.pc = "initD3D"
    /\ server' = Ended("failed")
    /\ UNCHANGED <<timeoutsDisabled, client, commands, responses, calls>>

InitializeD3D ==
    /\ server.pc = "initD3D"
    /\ server' = [server EXCEPT !.pc = "ack", !.ghModule = TRUE]
    /\ UNCHANGED <<timeoutsDisabled, client, commands, responses, calls>>

SendAck ==
    /\ server.pc = "ack"
    /\ ServerPush("Ack")
    /\ server' = [server EXCEPT !.pc = "waitContinue"]
    /\ UNCHANGED <<timeoutsDisabled, client, commands, calls>>

TakeContinue ==
    /\ server.pc = "waitContinue"
    /\ TakeFirst("Continue")
    /\ server' = [server EXCEPT !.pc = "loop", !.moduleThread = "waiting"]
    /\ UNCHANGED <<timeoutsDisabled, client, responses, calls>>

\* The command may hang, waiting for a thread of the renderer.
TakeCall ==
    /\ server.pc = "loop"
    /\ TakeFirst("Call")
    /\ server' \in {server, [server EXCEPT !.pc = "stuck"]}
    /\ UNCHANGED <<timeoutsDisabled, client, responses, calls>>

\* Mutant of TakeTerminate: the module thread is not told to end.
TakeTerminate_NoSignal ==
    /\ server.pc = "loop"
    /\ TakeFirst("Terminate")
    /\ server' = [server EXCEPT !.pc = "join"]
    /\ UNCHANGED <<timeoutsDisabled, client, responses, calls>>

\* Mutant of TakeTerminate: the Ack is sent before the threads are joined.
TakeTerminate_AckFirst ==
    /\ server.pc = "loop"
    /\ TakeFirst("Terminate")
    /\ ServerPush("Ack")
    /\ server' = [server EXCEPT !.pc = "join", !.bSignalDone = TRUE]
    /\ UNCHANGED <<timeoutsDisabled, client, calls>>

TakeTerminate ==
    /\ server.pc = "loop"
    /\ TakeFirst("Terminate")
    /\ server' = [server EXCEPT !.pc = "join", !.bSignalDone = TRUE]
    /\ UNCHANGED <<timeoutsDisabled, client, responses, calls>>

LoopTimesOut ==
    /\ server.pc = "loop"
    /\ TimesOut
    /\ server' = [server EXCEPT !.pc = "join", !.bSignalDone = TRUE]
    /\ UNCHANGED <<timeoutsDisabled, client, commands, responses, calls>>

\* processModuleCommandQueue: only its wait is given a signal that ends it early.
ModuleThreadEnds ==
    /\ ServerRunning
    /\ server.moduleThread = "waiting"
    /\ server.bSignalDone \/ TimesOut
    /\ server' = [server EXCEPT !.moduleThread = "ended"]
    /\ UNCHANGED <<timeoutsDisabled, client, commands, responses, calls>>

Join ==
    /\ server.pc = "join"
    /\ server.moduleThread = "ended"
    /\ server' = [server EXCEPT !.pc = "unregister", !.ghModule = FALSE]
    /\ UNCHANGED <<timeoutsDisabled, client, commands, responses, calls>>

UnregisterWait ==
    /\ server.pc = "unregister"
    /\ server.callback # "sleeping"
    /\ server' = [server EXCEPT !.pc = "lastAck", !.callback = "none"]
    /\ UNCHANGED <<timeoutsDisabled, client, commands, responses, calls>>

SendLastAck ==
    /\ server.pc = "lastAck"
    /\ ServerPush("Ack")
    /\ server' = [server EXCEPT !.pc = "return"]
    /\ UNCHANGED <<timeoutsDisabled, client, commands, calls>>

Return ==
    /\ server.pc = "return"
    /\ server' = Ended("clean")
    /\ UNCHANGED <<timeoutsDisabled, client, commands, responses, calls>>

wWinMain ==
    \/ TakeSyn \/ StartFails \/ InitializeD3D \/ SendAck \/ TakeContinue
    \/ TakeCall \/ TakeTerminate \/ LoopTimesOut
    \/ Join \/ UnregisterWait \/ SendLastAck \/ Return

ServerDies ==
    /\ ServerRunning
    /\ server' = Ended("crashed")
    /\ UNCHANGED <<timeoutsDisabled, client, commands, responses, calls>>

-----------------------------------------------------------------------------
(***************************************************************************)
(* OnClientExited, on a thread of its own: it waits for the server's       *)
(* thread to let go of d3d9.dll and otherwise ends the process.            *)
(***************************************************************************)
ClientExitSeen ==
    /\ ServerRunning
    /\ server.callback = "armed"
    /\ client.pc = "gone"
    /\ server' = [server EXCEPT !.callback = "sleeping", !.running = FALSE]
    /\ UNCHANGED <<timeoutsDisabled, client, commands, responses, calls>>

Sleeping == ServerRunning /\ server.callback = "sleeping"

\* Mutant of SleepOn: one sleep too many.
SleepOn_OneMore ==
    /\ Sleeping
    /\ server.ghModule
    /\ server.retries <= shutdownRetries
    /\ server' = [server EXCEPT !.retries = @ + 1]
    /\ UNCHANGED <<timeoutsDisabled, client, commands, responses, calls>>

SleepOn ==
    /\ Sleeping
    /\ server.ghModule
    /\ server.retries < shutdownRetries
    /\ server' = [server EXCEPT !.retries = @ + 1]
    /\ UNCHANGED <<timeoutsDisabled, client, commands, responses, calls>>

ModuleUnloaded ==
    /\ Sleeping
    /\ ~ server.ghModule
    /\ server' = [server EXCEPT !.callback = "none"]
    /\ UNCHANGED <<timeoutsDisabled, client, commands, responses, calls>>

\* Mutant of TerminateProcess: it is only reached after one sleep more than there are.
TerminateProcess_OneMore ==
    /\ Sleeping
    /\ server.ghModule
    /\ server.retries > shutdownRetries
    /\ server' = Ended("forced")
    /\ UNCHANGED <<timeoutsDisabled, client, commands, responses, calls>>

TerminateProcess ==
    /\ Sleeping
    /\ server.ghModule
    /\ server.retries = shutdownRetries
    /\ server' = Ended("forced")
    /\ UNCHANGED <<timeoutsDisabled, client, commands, responses, calls>>

OnClientExited == ClientExitSeen \/ SleepOn \/ ModuleUnloaded \/ TerminateProcess

-----------------------------------------------------------------------------
Next ==
    \/ Launch \/ InitServer \/ Call
    \/ Detach \/ RemixDetach \/ ClientDies
    \/ OnServerExited \/ BoxClosed
    \/ wWinMain \/ ModuleThreadEnds \/ ServerDies
    \/ OnClientExited

Spec == Init /\ [][Next]_vars

(***************************************************************************)
(* Every thread of either process is scheduled.  Nobody is made to call,   *)
(* to detach or to close the message box, and nothing makes a process die. *)
(***************************************************************************)
FairSpec ==
    /\ Spec
    /\ WF_vars(InitServer) /\ WF_vars(RemixDetach) /\ WF_vars(OnServerExited)
    /\ WF_vars(wWinMain) /\ WF_vars(ModuleThreadEnds) /\ WF_vars(OnClientExited)

-----------------------------------------------------------------------------
(***************************************************************************)
(* Properties                                                              *)
(***************************************************************************)
States == {"NotInit", "Init", "Handshaking", "Running", "DoneProcessing", "Exited"}

Clients ==
    [pc : {"attached", "launched", "syn", "waitAck", "continue", "running",
           "detach", "terminate", "waitEnd", "release", "exit", "gone"},
     state : States, server : States, running : BOOLEAN, gpServer : BOOLEAN,
     callback : {"none", "armed", "fired", "box"}, byCallback : BOOLEAN,
     greeted : BOOLEAN, clean : BOOLEAN]

Servers ==
    [pc : {"none", "waitSyn", "initD3D", "ack", "waitContinue", "loop", "stuck",
           "join", "unregister", "lastAck", "return", "gone"},
     running : BOOLEAN, ghModule : BOOLEAN,
     callback : {"none", "armed", "sleeping"}, retries : 0 .. shutdownRetries,
     moduleThread : {"none", "waiting", "ended"}, bSignalDone : BOOLEAN,
     end : {"no", "failed", "clean", "killed", "forced", "crashed"}, late : BOOLEAN]

Commands == {"Syn", "Continue", "Call", "Terminate"}

TypeOK ==
    /\ timeoutsDisabled \in BOOLEAN
    /\ client \in Clients
    /\ server \in Servers
    /\ commands \in Seq(Commands)
    /\ responses \in Seq({"Ack"})
    /\ calls \in 0 .. MaxCalls

\* The application runs only against a server that has loaded d3d9.dll and waits for
\* commands: InitServer goes on after the Ack, which wWinMain sends after InitializeD3D.
RunsOnReadyServer ==
    client.state = "Running" /\ ServerRunning =>
        server.ghModule \/ server.pc \in {"unregister", "lastAck", "return"}

\* The message box about a lost server is not shown for a server that ended while the
\* client was already detaching, whenever OnServerExited comes to look.
BoxIsEarned == client.callback = "box" => ~ server.late

\* delete gpServer does not free the Process that OnServerExited is still using.
CallbackKeepsProcess ==
    client.callback \in {"fired", "box"} => client.pc \notin {"waitEnd", "release"}

\* When RemixDetach logs that the server has cleanly terminated, the server has joined
\* its threads and let go of d3d9.dll, unless the first Ack was still there to be taken.
CleanIsDone ==
    client.clean /\ client.greeted => ~ server.ghModule /\ server.moduleThread = "ended"

\* A client that has detached leaves no server behind, whatever became of it.
NoOrphan == client.state = "Exited" => ~ ServerRunning

\* The end of RemixDetach is the end of the server: an orderly one if it says so, and one
\* by force if need be (RemixDetach, Process::releaseChildProcess).
DetachIsThorough == CleanIsDone /\ NoOrphan

\* Whether the end of the client will end the server: OnClientExited is registered and has
\* not run.  It runs once; with timeouts disabled all it can do for a server that waits is
\* to force the end, for which d3d9.dll has to be loaded.
Watching == server.callback = "armed" /\ (timeoutsDisabled => server.ghModule)

\* A server that watches its client when the client goes ends too, also when its thread
\* hangs in a command.  Nothing is said of one that does not watch yet: it waits for a
\* command for ever, with or without timeouts.
ServerFollows == (client.pc = "gone" /\ ServerRunning /\ Watching) ~> ~ ServerRunning

\* RemixDetach ends, unless timeouts are disabled and the server owes its last Ack for
\* ever, or a message box is open.
NoLastAck ==
    \/ server.pc = "stuck"
    \/ server.pc = "gone" /\ server.end # "clean"

DetachEnds ==
    Detaching ~> (~ Detaching \/ client.callback = "box" \/ (timeoutsDisabled /\ NoLastAck))

==============================================================================

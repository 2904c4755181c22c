------------------------ MODULE BridgeLifecycleProofs ------------------------
(***************************************************************************)
(* The protocol of start and end, for any number of commands and retries.  *)
(***************************************************************************)
EXTENDS BridgeLifecycle, TLAPS

(***************************************************************************)
(* Type correctness                                                        *)
(***************************************************************************)
LEMMA TypeInit == Init => TypeOK
  BY LifecycleAssumption
  DEF Init, TypeOK, ClientInit, ServerInit, Clients, Servers, Commands, States

\* What a push changes besides the step it belongs to.
LEMMA PushIsTyped ==
    ASSUME TypeOK, NEW command \in Commands, NEW next \in Clients,
           ClientPush(command, next)
    PROVE  client' \in Clients /\ commands' \in Seq(Commands)
<1>1. commands' \in Seq(Commands)
  BY DEF ClientPush, TypeOK
<1>2. (next.running /\ ~ IsDone(client.server)) \in BOOLEAN
  OBVIOUS
<1>3. client' \in Clients
  BY <1>2 DEF ClientPush, Clients
<1>. QED
  BY <1>1, <1>3

LEMMA AnswerIsTyped ==
    ASSUME TypeOK, ServerPush("Ack") PROVE responses' \in Seq({"Ack"})
  BY DEF TypeOK, ServerPush

LEMMA TakenIsTyped ==
    ASSUME TypeOK, NEW command, TakeFirst(command) PROVE commands' \in Seq(Commands)
  BY DEF TypeOK, TakeFirst

LEMMA EndIsTyped ==
    ASSUME TypeOK, NEW how \in {"failed", "clean", "killed", "forced", "crashed"}
    PROVE  Ended(how) \in Servers
<1>1. Detaching \in BOOLEAN
  BY DEF Detaching
<1>. QED
  BY <1>1 DEF TypeOK, Ended, Servers

LEMMA DetachIsTyped == TypeOK => DetachBegun \in Clients
  BY DEF TypeOK, DetachBegun, Clients, States

LEMMA TypeNext == TypeOK /\ [Next]_vars => TypeOK'
<1> SUFFICES ASSUME TypeOK, [Next]_vars PROVE TypeOK'
  OBVIOUS
<1> USE DEF TypeOK
<1>1. CASE Launch
  BY <1>1 DEF Launch, Clients, States, Servers
<1>2. CASE Launched
  BY <1>2 DEF Launched, Clients, States
<1>3. CASE SendSyn
  <2>1. [client EXCEPT !.pc = "waitAck", !.state = "Handshaking"] \in Clients
    BY DEF Clients, States
  <2>2. client' \in Clients /\ commands' \in Seq(Commands)
    BY <1>3, <2>1, PushIsTyped DEF SendSyn, Commands
  <2>. QED
    BY <1>3, <2>2 DEF SendSyn
<1>4. CASE TakeAck
  <2>1. client' \in Clients
    BY <1>4 DEF TakeAck, Clients, States
  <2>2. responses' \in Seq({"Ack"})
    BY <1>4 DEF TakeAck
  <2>. QED
    BY <1>4, <2>1, <2>2 DEF TakeAck
<1>5. CASE AckTimesOut
  BY <1>5 DEF AckTimesOut, Clients, States
<1>6. CASE SendContinue
  <2>1. [client EXCEPT !.pc = "running", !.state = "Running", !.server = "Running"] \in Clients
    BY DEF Clients, States
  <2>2. client' \in Clients /\ commands' \in Seq(Commands)
    BY <1>6, <2>1, PushIsTyped DEF SendContinue, Commands
  <2>. QED
    BY <1>6, <2>2 DEF SendContinue
<1>7. CASE Call
  <2>1. client \in Clients
    OBVIOUS
  <2>2. client' \in Clients /\ commands' \in Seq(Commands)
    BY <1>7, <2>1, PushIsTyped DEF Call, Commands
  <2>. QED
    BY <1>7, <2>2, LifecycleAssumption DEF Call
<1>8. CASE Detach
  BY <1>8, DetachIsTyped DEF Detach
<1>9. CASE UnregisterExitCallback
  BY <1>9 DEF UnregisterExitCallback, Clients, States
<1>10. CASE SendTerminate
  <2>1. [client EXCEPT !.pc = "waitEnd"] \in Clients
    BY DEF Clients, States
  <2>2. client' \in Clients /\ commands' \in Seq(Commands)
    BY <1>10, <2>1, PushIsTyped DEF SendTerminate, Commands
  <2>. QED
    BY <1>10, <2>2 DEF SendTerminate
<1>11. CASE TakeLastAck
  <2>1. client' \in Clients
    BY <1>11 DEF TakeLastAck, Clients, States
  <2>2. responses' \in Seq({"Ack"})
    BY <1>11 DEF TakeLastAck
  <2>. QED
    BY <1>11, <2>1, <2>2 DEF TakeLastAck
<1>12. CASE LastAckTimesOut
  BY <1>12 DEF LastAckTimesOut, Clients, States
<1>13. CASE ReleaseChildProcess
  BY <1>13, EndIsTyped DEF ReleaseChildProcess, Clients, States
<1>14. CASE Exit
  BY <1>14 DEF Exit, Clients, States
<1>15. CASE ClientDies
  BY <1>15 DEF ClientDies, Clients, States
<1>16. CASE ServerExitSeen
  BY <1>16 DEF ServerExitSeen, Clients, States
<1>17. CASE ServerExitExpected
  BY <1>17 DEF ServerExitExpected, Clients, States
<1>18. CASE ServerExitUnexpected
  BY <1>18 DEF ServerExitUnexpected, Clients, States
<1>19. CASE BoxClosed
  <2>1. [DetachBegun EXCEPT !.byCallback = TRUE] \in Clients
    BY DetachIsTyped DEF Clients
  <2>. QED
    BY <1>19, <2>1 DEF BoxClosed
<1>20. CASE TakeSyn
  BY <1>20, TakenIsTyped DEF TakeSyn, Servers
<1>21. CASE StartFails
  BY <1>21, EndIsTyped DEF StartFails
<1>22. CASE InitializeD3D
  BY <1>22 DEF InitializeD3D, Servers
<1>23. CASE SendAck
  BY <1>23, AnswerIsTyped DEF SendAck, Servers
<1>24. CASE TakeContinue
  BY <1>24, TakenIsTyped DEF TakeContinue, Servers
<1>25. CASE TakeCall
  BY <1>25, TakenIsTyped DEF TakeCall, Servers
<1>26. CASE TakeTerminate
  BY <1>26, TakenIsTyped DEF TakeTerminate, Servers
<1>27. CASE LoopTimesOut
  BY <1>27 DEF LoopTimesOut, Servers
<1>28. CASE Join
  BY <1>28 DEF Join, Servers
<1>29. CASE UnregisterWait
  BY <1>29 DEF UnregisterWait, Servers
<1>30. CASE SendLastAck
  BY <1>30, AnswerIsTyped DEF SendLastAck, Servers
<1>31. CASE Return
  BY <1>31, EndIsTyped DEF Return
<1>32. CASE ModuleThreadEnds
  BY <1>32 DEF ModuleThreadEnds, Servers
<1>33. CASE ServerDies
  BY <1>33, EndIsTyped DEF ServerDies
<1>34. CASE ClientExitSeen
  BY <1>34 DEF ClientExitSeen, Servers
<1>35. CASE SleepOn
  <2>1. server.retries + 1 \in 0 .. shutdownRetries
    BY <1>35, LifecycleAssumption DEF SleepOn, Servers
  <2>2. server' = [server EXCEPT !.retries = server.retries + 1]
    BY <1>35 DEF SleepOn
  <2>3. server' \in Servers
    BY <2>1, <2>2 DEF Servers
  <2>. QED
    BY <1>35, <2>3 DEF SleepOn
<1>36. CASE ModuleUnloaded
  BY <1>36 DEF ModuleUnloaded, Servers
<1>37. CASE TerminateProcess
  BY <1>37, EndIsTyped DEF TerminateProcess
<1>38. CASE UNCHANGED vars
  BY <1>38 DEF vars
<1>39. QED
  BY <1>1, <1>2, <1>3, <1>4, <1>5, <1>6, <1>7, <1>8, <1>9, <1>10, <1>11, <1>12, <1>13, <1>14, <1>15, <1>16, <1>17, <1>18, <1>19, <1>20, <1>21, <1>22, <1>23, <1>24, <1>25, <1>26, <1>27, <1>28, <1>29, <1>30, <1>31, <1>32, <1>33, <1>34, <1>35, <1>36, <1>37, <1>38 DEF
    Next, InitServer, RemixDetach, OnServerExited, wWinMain, OnClientExited

\* Client, server and the queues between them keep their types, for any number of
\* commands and any number of retries in OnClientExited.
THEOREM TypeCorrect == Spec => []TypeOK
  BY TypeInit, TypeNext, PTL DEF Spec
(***************************************************************************)
(* The inductive invariant: where each process is in the protocol, and how *)
(* many Acks there have been.                                              *)
(***************************************************************************)
\* wWinMain has d3d9.dll loaded from before its first Ack until its threads are joined.
Done == ~ server.ghModule /\ server.moduleThread = "ended"

Ready == server.ghModule \/ server.pc \in {"unregister", "lastAck", "return", "gone"}

ServerStages ==
    /\ server.pc \in {"ack", "waitContinue", "loop", "stuck", "join"} => server.ghModule
    /\ server.pc \in {"unregister", "lastAck", "return"} => Done

\* A client that has not launched a server has none, and one that is through with
\* RemixDetach has none any more.
ClientStages ==
    /\ client.pc = "attached" => server.pc = "none"
    /\ client.gpServer \/ client.pc \in {"attached", "launched", "exit", "gone"}
    /\ client.pc = "exit" => ~ ServerRunning
    /\ client.state = "Exited" => client.pc = "gone" /\ ~ ServerRunning

DetachStages ==
    /\ Detaching \/ client.pc = "exit" => client.state = "DoneProcessing"
    /\ client.state = "DoneProcessing" => Detaching \/ client.pc \in {"exit", "gone"}

CallbackStages ==
    /\ client.callback \in {"fired", "box"} => server.pc = "gone"
    /\ client.pc \in {"terminate", "waitEnd", "release", "gone"} => client.callback = "none"

LateIsKnown ==
    /\ server.late => client.state \in {"DoneProcessing", "Exited"}
    /\ client.callback = "box" => ~ server.late

AckMeansReady ==
    Len(responses) > 0 \/ client.pc = "continue" \/ client.state = "Running" => Ready

\* Before the server is done it sends one Ack, of which both waits together take one.
OneAckBeforeDone ==
    /\ ~ Done => /\ Len(responses) <= 1
                 /\ Len(responses) = 1 => ~ client.greeted /\ ~ client.clean
                 /\ ~ (client.greeted /\ client.clean)
    /\ server.pc \in {"none", "waitSyn", "initD3D", "ack"} =>
         Len(responses) = 0 /\ ~ client.greeted /\ ~ client.clean

IInv ==
    /\ TypeOK
    /\ ServerStages
    /\ ClientStages
    /\ DetachStages
    /\ CallbackStages
    /\ LateIsKnown
    /\ AckMeansReady
    /\ OneAckBeforeDone

LEMMA InvInit == Init => IInv
  BY TypeInit
  DEF Init, ClientInit, ServerInit, IInv, ServerStages, ClientStages, DetachStages,
      CallbackStages, LateIsKnown, AckMeansReady, OneAckBeforeDone, Ready, Done,
      Detaching, ServerRunning

LEMMA InvNext == IInv /\ [Next]_vars => IInv'
<1> SUFFICES ASSUME IInv, [Next]_vars PROVE IInv'
  OBVIOUS
<1>0. TypeOK /\ TypeOK'
  BY TypeNext DEF IInv
<1> USE <1>0 DEF IInv, ServerStages, ClientStages, DetachStages, CallbackStages, LateIsKnown,
         AckMeansReady, OneAckBeforeDone, Ready, Done, Detaching, ServerRunning
<1>1. CASE Launch
  BY <1>1 DEF Launch, TypeOK, Clients, Servers
<1>2. CASE Launched
  BY <1>2 DEF Launched, TypeOK, Clients, Servers
<1>3. CASE SendSyn
  BY <1>3 DEF SendSyn, ClientPush, TypeOK, Clients, Servers
<1>4. CASE TakeAck
  <2>1. Len(responses) \in Nat /\ Len(responses) > 0 /\ Len(responses') = Len(responses) - 1
    BY <1>4 DEF TakeAck, TypeOK
  <2>2. /\ client.pc = "waitAck"
        /\ client' = [client EXCEPT !.pc = "continue", !.server = "Handshaking", !.greeted = TRUE]
        /\ server' = server
    BY <1>4 DEF TakeAck
  <2>3. Ready
    BY <2>1
  <2>4. OneAckBeforeDone'
    BY <2>1, <2>2 DEF TypeOK, Clients, Servers
  <2>5. /\ ServerStages' /\ ClientStages' /\ DetachStages'
        /\ CallbackStages' /\ LateIsKnown' /\ AckMeansReady'
    BY <2>2, <2>3 DEF TypeOK, Clients, Servers
  <2>. QED
    BY <2>4, <2>5
<1>5. CASE AckTimesOut
  BY <1>5 DEF AckTimesOut, TypeOK, Clients, Servers
<1>6. CASE SendContinue
  BY <1>6 DEF SendContinue, ClientPush, TypeOK, Clients, Servers
<1>7. CASE Call
  BY <1>7 DEF Call, ClientPush, TypeOK, Clients, Servers
<1>8. CASE Detach
  BY <1>8 DEF Detach, DetachBegun, TypeOK, Clients, Servers
<1>9. CASE UnregisterExitCallback
  BY <1>9 DEF UnregisterExitCallback, TypeOK, Clients, Servers
<1>10. CASE SendTerminate
  BY <1>10 DEF SendTerminate, ClientPush, TypeOK, Clients, Servers
<1>11. CASE TakeLastAck
  <2>1. Len(responses) \in Nat /\ Len(responses) > 0 /\ Len(responses') = Len(responses) - 1
    BY <1>11 DEF TakeLastAck, TypeOK
  <2>2. /\ client.pc = "waitEnd"
        /\ client' = [client EXCEPT !.pc = "release", !.clean = TRUE]
        /\ server' = server
    BY <1>11 DEF TakeLastAck
  <2>3. Ready
    BY <2>1
  <2>4. OneAckBeforeDone'
    <3>1. client'.greeted = client.greeted
      BY <2>2 DEF TypeOK, Clients
    <3>2. Done' <=> Done
      BY <2>2
    <3>3. ~ Done => Len(responses') = 0 /\ ~ client'.greeted
      BY <2>1, <3>1
    <3>4. server'.pc \notin {"none", "waitSyn", "initD3D", "ack"}
      BY <2>1, <2>2
    <3>. QED
      BY <3>2, <3>3, <3>4
  <2>5. /\ ServerStages' /\ ClientStages' /\ DetachStages'
        /\ CallbackStages' /\ LateIsKnown' /\ AckMeansReady'
    BY <2>2, <2>3 DEF TypeOK, Clients, Servers
  <2>. QED
    BY <2>4, <2>5
<1>12. CASE LastAckTimesOut
  BY <1>12 DEF LastAckTimesOut, TypeOK, Clients, Servers
<1>13. CASE ReleaseChildProcess
  BY <1>13 DEF ReleaseChildProcess, Ended, TypeOK, Clients, Servers
<1>14. CASE Exit
  BY <1>14 DEF Exit, TypeOK, Clients, Servers
<1>15. CASE ClientDies
  BY <1>15 DEF ClientDies, ClientRunning, TypeOK, Clients, Servers
<1>16. CASE ServerExitSeen
  BY <1>16 DEF ServerExitSeen, TypeOK, Clients, Servers
<1>17. CASE ServerExitExpected
  BY <1>17 DEF ServerExitExpected, TypeOK, Clients, Servers
<1>18. CASE ServerExitUnexpected
  BY <1>18 DEF ServerExitUnexpected, TypeOK, Clients, Servers
<1>19. CASE BoxClosed
  BY <1>19 DEF BoxClosed, DetachBegun, TypeOK, Clients, Servers
<1>20. CASE TakeSyn
  BY <1>20 DEF TakeSyn, TakeFirst, TypeOK, Clients, Servers
<1>21. CASE StartFails
  BY <1>21 DEF StartFails, Ended, TypeOK, Clients, Servers
<1>22. CASE InitializeD3D
  BY <1>22 DEF InitializeD3D, TypeOK, Clients, Servers
<1>23. CASE SendAck
  BY <1>23 DEF SendAck, ServerPush, TypeOK, Clients, Servers
<1>24. CASE TakeContinue
  BY <1>24 DEF TakeContinue, TakeFirst, TypeOK, Clients, Servers
<1>25. CASE TakeCall
  BY <1>25 DEF TakeCall, TakeFirst, TypeOK, Clients, Servers
<1>26. CASE TakeTerminate
  BY <1>26 DEF TakeTerminate, TakeFirst, TypeOK, Clients, Servers
<1>27. CASE LoopTimesOut
  BY <1>27 DEF LoopTimesOut, TypeOK, Clients, Servers
<1>28. CASE Join
  BY <1>28 DEF Join, TypeOK, Clients, Servers
<1>29. CASE UnregisterWait
  BY <1>29 DEF UnregisterWait, TypeOK, Clients, Servers
<1>30. CASE SendLastAck
  BY <1>30 DEF SendLastAck, ServerPush, TypeOK, Clients, Servers
<1>31. CASE Return
  BY <1>31 DEF Return, Ended, TypeOK, Clients, Servers
<1>32. CASE ModuleThreadEnds
  BY <1>32 DEF ModuleThreadEnds, TypeOK, Clients, Servers
<1>33. CASE ServerDies
  BY <1>33 DEF ServerDies, Ended, TypeOK, Clients, Servers
<1>34. CASE ClientExitSeen
  BY <1>34 DEF ClientExitSeen, TypeOK, Clients, Servers
<1>35. CASE SleepOn
  BY <1>35 DEF SleepOn, TypeOK, Clients, Servers
<1>36. CASE ModuleUnloaded
  BY <1>36 DEF ModuleUnloaded, TypeOK, Clients, Servers
<1>37. CASE TerminateProcess
  <2>1. server.pc \notin {"none", "gone"} /\ server.ghModule
    BY <1>37 DEF TerminateProcess, Sleeping
  <2>2. server' = Ended("forced") /\ UNCHANGED <<client, responses>>
    BY <1>37 DEF TerminateProcess
  <2>. QED
    BY <2>1, <2>2 DEF Ended, TypeOK, Clients, Servers
<1>38. CASE UNCHANGED vars
  BY <1>38 DEF vars
<1>39. QED
  BY <1>1, <1>2, <1>3, <1>4, <1>5, <1>6, <1>7, <1>8, <1>9, <1>10, <1>11, <1>12, <1>13, <1>14, <1>15, <1>16, <1>17, <1>18, <1>19, <1>20, <1>21, <1>22, <1>23, <1>24, <1>25, <1>26, <1>27, <1>28, <1>29, <1>30, <1>31, <1>32, <1>33, <1>34, <1>35, <1>36, <1>37, <1>38 DEF
    Next, InitServer, RemixDetach, OnServerExited, wWinMain, OnClientExited

LEMMA InvHolds == Spec => []IInv
  BY InvInit, InvNext, PTL DEF Spec

\* The application runs only against a server that has loaded d3d9.dll, for any number of
\* commands and whichever process ends when.
THEOREM ServerIsReady == Spec => []RunsOnReadyServer
<1>1. IInv => RunsOnReadyServer
  BY DEF IInv, AckMeansReady, Ready, RunsOnReadyServer, ServerRunning
<1>. QED
  BY <1>1, InvHolds, PTL

\* OnServerExited shows its message box only for a server that ended before RemixDetach.
THEOREM BoxesAreEarned == Spec => []BoxIsEarned
<1>1. IInv => BoxIsEarned
  BY DEF IInv, LateIsKnown, BoxIsEarned
<1>. QED
  BY <1>1, InvHolds, PTL

\* RemixDetach never frees the Process while OnServerExited runs.
THEOREM ProcessIsKept == Spec => []CallbackKeepsProcess
<1>1. IInv => CallbackKeepsProcess
  BY DEF IInv, CallbackStages, CallbackKeepsProcess
<1>. QED
  BY <1>1, InvHolds, PTL

\* The Ack that RemixDetach takes is the one the server sends when it is done, unless
\* InitServer never took its own, and a client that has detached leaves no server running.
THEOREM DetachEndsServer == Spec => []DetachIsThorough
<1>1. IInv => CleanIsDone
  BY DEF IInv, OneAckBeforeDone, Done, CleanIsDone
<1>2. IInv => NoOrphan
  BY DEF IInv, ClientStages, NoOrphan
<1>3. IInv => DetachIsThorough
  BY <1>1, <1>2 DEF DetachIsThorough
<1>. QED
  BY <1>3, InvHolds, PTL
==============================================================================

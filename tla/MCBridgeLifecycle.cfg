SPECIFICATION FairSpec
CONSTANTS
    MaxCalls = 2
    shutdownRetries = 2
INVARIANTS
    TypeOK
    RunsOnReadyServer
    CallbackKeepsProcess
    DetachIsThorough
PROPERTIES
    ServerFollows
    DetachEnds
CHECK_DEADLOCK FALSE

\* Two sessions and two calls over at most two processes.
SPECIFICATION FairSpec
CONSTANTS
    s1 = s1
    s2 = s2
    Sessions <- MCSessions
    MaxProcs = 2
    MaxCalls = 2
    PipeIn = 1
    PipeOut = 1
    MaxEdits = 1
    Nobody = Nobody
INVARIANTS
    OwnAnswer
    RequestsArriveWhole
    OneServer
PROPERTIES
    CallsReturn
CHECK_DEADLOCK FALSE

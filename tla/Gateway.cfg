\* Two agents of a connection and its successor; every frame is read before the
\* next one is sent.
SPECIFICATION FairSpec
CONSTANTS
    main = main
    sub = sub
    bash = bash
    read = read
    MaxConns = 2
    Agents <- MCAgents
    Tools <- MCTools
    Risk <- MCRisk
    Mode = "autoEdit"
    ShellTool = bash
    MaxAsks = 2
    MaxInbox = 1
    MaxLag = 0
    NoConn = NoConn
    NoTool = NoTool
INVARIANTS
    OneConnection
PROPERTIES
    DecidesWhatWasShown
    DeleteHitsOnlyNewcomers
    CancelUnparks
    ClosedFreesSession
CHECK_DEADLOCK FALSE

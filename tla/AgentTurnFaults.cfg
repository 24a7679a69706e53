\* Two turns of two-call batches over a batch limit of one, with a cancel and a
\* failed append at any step; the second turn replays what the first one left.
CONSTANTS
    FallbackMaxMessages = 0
    Threshold = 10
    TargetPct = 50
    MaxTurns = 2
    MaxToolCalls = 1
    MaxRetries = 0
    TokenReports <- NoUsage
    Desktop = FALSE
    MaxTexts = 2
    MaxBatch = 2
    MaxClears = 0
    MaxCancels = 1
    MaxCrashes = 0
    MaxFaults = 1
SPECIFICATION Spec
INVARIANTS
    ResultsInPlace
    WireWellFormed
    DispatchedAnswered
    CompletedIsHonest
PROPERTIES
    LedgerSpec

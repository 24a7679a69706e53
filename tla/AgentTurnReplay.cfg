\* Three turns over one log with a crash and a cancel at any step: what an
\* interrupted turn leaves is replayed by the turns after it, and no turn
\* keeps its slot.
CONSTANTS
    FallbackMaxMessages = 0
    Threshold = 10
    TargetPct = 50
    MaxTurns = 1
    MaxToolCalls = 1
    MaxRetries = 1
    TokenReports <- NoUsage
    Desktop = FALSE
    MaxTexts = 3
    MaxBatch = 1
    MaxClears = 0
    MaxCancels = 1
    MaxCrashes = 1
    MaxFaults = 0
SPECIFICATION FairSpec
PROPERTIES
    PrefixStable
    TurnEnds

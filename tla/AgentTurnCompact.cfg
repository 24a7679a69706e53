\* Checkpoints: count-based and token-based compaction, and /clear between
\* turns, over three prompts of one conversation.
CONSTANTS
    FallbackMaxMessages = 3
    Threshold = 10
    TargetPct = 50
    MaxTurns = 1
    MaxToolCalls = 1
    MaxRetries = 0
    TokenReports <- AllReports
    Desktop = FALSE
    MaxTexts = 3
    MaxBatch = 1
    MaxClears = 1
    MaxCancels = 0
    MaxCrashes = 0
    MaxFaults = 0
SPECIFICATION Spec
INVARIANTS
    CountMatchesView
    SendWhatYouPersist
    NothingTypedIsLost
PROPERTIES
    BillingMonotone

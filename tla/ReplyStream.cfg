\* Two calls of two deltas in every order and style, in every chunking.
SPECIFICATION FairStreamSpec
CONSTANTS
    Styles <- AllStyles
    ToolCalls = 2
    Pieces = 2
    Formats <- TwoFormats
    Omitted = {0, 1}
    Retries = 1
INVARIANTS
    ReplyAsSent
    ShownOnce
PROPERTIES
    CancelEndsCall

\* A body whose last blank line is omitted.
SPECIFICATION StreamSpec
CONSTANTS
    Styles <- AllStyles
    ToolCalls = 2
    Pieces = 2
    Formats <- TwoFormats
    Omitted = {1}
    Retries = 1
INVARIANT TrailingFrameCounts

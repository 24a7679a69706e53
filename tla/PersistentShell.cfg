SPECIFICATION FairSpec
CONSTANTS
    c1 = c1
    c2 = c2
    Calls <- TwoCalls
    LongCalls <- OneLong
    MaxShells = 3
    PipeLines = 1
    CollectCap = 1
    MaxUpsets = 2
    NoCall = NoCall
    NoShell = NoShell
INVARIANTS
    ExitHasItsOutput
    OutputIsOwn
PROPERTY
    QuietCallsReturn

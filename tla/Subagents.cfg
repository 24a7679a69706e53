\* Two sub-agents with a batch each; a panic, a tool timeout and a stop at any
\* step.
SPECIFICATION FairSpec
CONSTANTS
    NumTasks = 2
    read = read
    grep = grep
    ToolNames <- OneTool
    MaxBatch = 1
    MaxBatches = 1
    MaxPanics = 1
    ToolTimeout = TRUE
    MaxWire = 1
    MaxUpsets = 1
INVARIANTS
    VerdictIsLast
    
    PanelsTellTheVerdict
PROPERTIES
    FanoutSpec
    NoPanelSpins

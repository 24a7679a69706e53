\* One sub-agent that calls the same tool twice in a batch.
SPECIFICATION FairSpec
CONSTANTS
    NumTasks = 1
    read = read
    grep = grep
    ToolNames <- MCTools
    MaxBatch = 2
    MaxBatches = 1
    MaxPanics = 0
    ToolTimeout = FALSE
    MaxWire = 2
    MaxUpsets = 0
INVARIANTS
    OutputsPairUp

CONSTANTS
    MaxMessages = 2
    MaxCommands = 1
    MaxSteps = 2
    MaxBatch = 2
    MaxRetries = 2
    AutoCompact = TRUE
    MaxFaults = 1
SPECIFICATION FairSpec
INVARIANTS TypeOK    RunEndsBalanced
PROPERTIES  RunsEnd
CHECK_DEADLOCK FALSE

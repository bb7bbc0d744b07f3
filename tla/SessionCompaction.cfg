CONSTANTS
    MaxMessages = 3
    MaxCommands = 0
    MaxSteps = 3
    MaxBatch = 1
    MaxRetries = 0
    AutoCompact = TRUE
    MaxFaults = 0
SPECIFICATION Spec
INVARIANTS RequestLegal
CHECK_DEADLOCK FALSE

CONSTANTS
    MaxConns = 2
    MaxCommands = 3
    MaxAsks = 2
SPECIFICATION FairSpec
INVARIANTS TypeOK BusyHasCommand
PROPERTIES CommandsEnd RunsEnd
CHECK_DEADLOCK FALSE

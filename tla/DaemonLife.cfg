CONSTANTS
    MaxDaemons = 2
    MaxCommands = 3
    MaxClients = 2
SPECIFICATION Spec
INVARIANTS TypeOK PidNamesServing OldRunsEndFirst ClientsTold
PROPERTIES StopEnds
CHECK_DEADLOCK FALSE

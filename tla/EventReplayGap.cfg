CONSTANTS
    Runs = {"r1"}
    Clients = {"c1"}
    MaxEvents = 4
    Length <- FullLength
    Scope <- FirstRun
    ReplayRun <- FirstRun
    Stallers = {}
    MaxFaults = 0
SPECIFICATION Spec
INVARIANTS ReplayCatchesUp
CHECK_DEADLOCK FALSE

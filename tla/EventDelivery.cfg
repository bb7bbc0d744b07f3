CONSTANTS
    Runs = {"r1", "r2"}
    Clients = {"c1", "c2"}
    MaxEvents = 3
    Length <- MixedLength
    Scope <- MixedScope
    ReplayRun <- MixedReplay
    Stallers = {"c1"}
    MaxFaults = 1
SPECIFICATION FairSpec
INVARIANTS TypeOK LedgerComplete StreamInOrder LiveGapless
PROPERTIES RunsFinish
CHECK_DEADLOCK FALSE

CONSTANTS
    Calls = {c1, c2}
    Sessions = {"s1"}
    Flaky = {"s1"}
    Lines <- TwoTools
    Requests <- EveryKind
    Default <- AskByDefault
    TimeoutOn = TRUE
    CancelHook = FALSE
    MaxRestarts = 1
SPECIFICATION FairSpec
INVARIANTS TypeOK
PROPERTIES ImplementsGate NoCallHangs

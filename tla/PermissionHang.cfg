CONSTANTS
    Calls = {c1}
    Sessions = {"s1"}
    Flaky = {"s1"}
    Lines <- OneTool
    Requests <- OneRequest
    Default <- AskByDefault
    TimeoutOn = FALSE
    CancelHook = FALSE
    MaxRestarts = 0
SPECIFICATION FairSpec
PROPERTIES DesertedResolved

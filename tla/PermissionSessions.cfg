CONSTANTS
    Calls = {c1, c2, c3}
    Sessions = {"s1", "s2"}
    Flaky = {"s1"}
    Lines <- OneTool
    Requests <- Contention
    Default <- AskByDefault
    TimeoutOn = TRUE
    CancelHook = TRUE
    MaxRestarts = 0
SPECIFICATION Spec
SYMMETRY SymCalls
INVARIANTS NoLostWakeup LatestAnswerStands
PROPERTIES SessionAnswerPrevails

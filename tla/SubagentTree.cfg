CONSTANTS
    Runs = {r1}
    Children = {c1, c2, c3}
    None = None
    MaxSteps = 2
    MaxRetries = 1
SPECIFICATION FairSpec
INVARIANTS TypeOK ForegroundNested ForegroundTold
PROPERTIES AnswersStable ChildrenEnd
CHECK_DEADLOCK FALSE

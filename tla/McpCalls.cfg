CONSTANTS
    Calls = {c1, c2}
    MaxRetries = 1
    OwnIds = {1}
    MaxExtras = 1
SPECIFICATION FairSpec
INVARIANTS TypeOK AnswersOwn LockSound SentInOrder ExecutionsBounded
PROPERTIES CallsEnd
CHECK_DEADLOCK FALSE

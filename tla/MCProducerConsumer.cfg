SPECIFICATION Spec
CONSTANTS
    p1 = p1
    p2 = p2
    Producers = {p1, p2}
    MaxMsgs = 2
    MaxCrashes = 2
    MaxRuns = 2
INVARIANTS
    AckIsForThisMessage
    HandledInOrder
    AckedWasHandled
PROPERTY
    AnswerComes
CHECK_DEADLOCK FALSE

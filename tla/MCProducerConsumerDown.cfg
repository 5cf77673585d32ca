SPECIFICATION Spec
CONSTANTS
    p1 = p1
    p2 = p2
    Producers = {p1}
    MaxMsgs = 3
    MaxCrashes = 2
    MaxRuns = 3
PROPERTY
    ReconnectsWhenDown
CHECK_DEADLOCK FALSE

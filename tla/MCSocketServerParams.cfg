SPECIFICATION Spec
CONSTANTS
    N = 2
    MaxFds = 2
INVARIANT
    SeparateParams
CHECK_DEADLOCK FALSE

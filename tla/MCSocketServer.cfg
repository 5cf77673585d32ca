SPECIFICATION Spec
CONSTANTS
    N = 3
    MaxFds = 2
INVARIANTS
    NoRaceNoMixup
    AnsweredOnce
    QueryNotAbandoned
PROPERTY
    QueryEnds
CHECK_DEADLOCK FALSE

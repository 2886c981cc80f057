CONSTANTS
    r1 = r1
    r2 = r2
    r3 = r3
    r4 = r4
    r5 = r5
    Hit <- FiveHits
    Window = 4
    Limit = 2
    MaxDelay = 1
    MaxTime = 7
SPECIFICATION RLSpec
SYMMETRY Symmetry
INVARIANTS
    AdmittedSecondsBounded
    NothingForgotten
PROPERTY
    LimitedWithCause
CHECK_DEADLOCK FALSE

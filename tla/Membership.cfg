CONSTANTS
    u1 = u1
    u2 = u2
    u3 = u3
    a = a
    b = b
    c = c
    Unit <- Units
    User <- Users3
    Scenario <- Scenarios
SPECIFICATION FairSpec
INVARIANTS
    LastOwnerStays
    AnomaliesNeedOverlap
PROPERTIES
    OnlyTheUnseenUndone
    UnitsEnd
CHECK_DEADLOCK FALSE

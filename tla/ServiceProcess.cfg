CONSTANTS
    postgres = postgres
    redis = redis
    kafka = kafka
    p1 = p1
    p2 = p2
    Opens <- InitializeOrder
    Closes <- CloseOrder
    Checks <- CheckOrder
    Eager = {kafka}
    Cached = {kafka}
    Probes = {p1, p2}
    MaxTurns = 2
SPECIFICATION Spec
INVARIANTS
    ReadyWasTrue
    NotReadyHadCause
    UsedWhileOpen
    ClosedUnlessBroken
PROPERTY
    StopsWhenTold
CHECK_DEADLOCK FALSE

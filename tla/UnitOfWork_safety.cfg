CONSTANTS
    u1 = u1
    u2 = u2
    Uow <- TwoUnits
    NumHandlers = 1
    MaxChanges = 2
    MaxCopies = 2
    MaxFaults = 2
SPECIFICATION Spec
SYMMETRY UnitSymmetry
INVARIANTS
    DispatchAfterCommit
    PublishedInOrder
    ConfirmedMeansDispatched
CHECK_DEADLOCK FALSE

CONSTANTS
    r1 = r1
    r2 = r2
    t1 = t1
    t2 = t2
    Request <- TwoRequests
    Tenant <- TwoTenants
    Input <- Inputs
    Raisable <- SomeExceptions
    MaxCancels = 1
SPECIFICATION Spec
INVARIANT
    LimitedGets429
CHECK_DEADLOCK FALSE

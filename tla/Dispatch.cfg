CONSTANTS
    outer = outer
    inner = inner
    other = other
    write = write
    find = find
    w = w
    r = r
    p = p
    b = b
    None = None
    Request <- Requests
    Inner <- Nested
    Type <- Types
    TypeOf <- Asked
    Handler <- Handlers
    Accepts <- Made
    Kind <- Kinds
    Later = {write}
    Behavior = {b}
    PoolSize = 1
    MaxBehaviors = 1
    MaxRetries = 1
SPECIFICATION FairSpec
INVARIANTS
    RunsAsRegistered
    NoConnectionKept
    DurableAsAnswered
PROPERTIES
    SendsEnd
CHECK_DEADLOCK FALSE

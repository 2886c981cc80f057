CONSTANTS
    auth = auth
    slow = slow
    fast = fast
    Validator <- Validators
    Skew <- Skews
    AccessLifetime = 2
    RefreshLifetime = 3
    Names <- NamesGiven
    Required <- Protected
    MaxTokens = 1
    MaxTime = 8
SPECIFICATION Spec
INVARIANTS
    StaleBounded
    FreshAccepted
    RefreshOpensNothing
CHECK_DEADLOCK FALSE

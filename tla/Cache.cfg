CONSTANTS
    c1 = c1
    c2 = c2
    c3 = c3
    t = t
    Global = Global
    Client <- Clients
    Tenant = {t}
    ScopeOf <- Scopes
    Sweeper = {c3}
    Key <- Keys
    DefaultTTL = 1
    LockTTL = 2
    MaxTTL = 2
    PageSize = 2
SPECIFICATION FairSpec
INVARIANTS
    LocksExclude
    OnlyCountersStay
PROPERTIES
    LocksAreFreed
    PatternKeysGone
    TenantsApart

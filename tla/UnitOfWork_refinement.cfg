CONSTANTS
    u1 = u1
    u2 = u2
    Uow <- OneUnit
    NumHandlers = 2
    MaxChanges = 3
    MaxCopies = 2
    MaxFaults = 2
SPECIFICATION FairSpec
PROPERTIES
    AbandonedBatch
    ImplementsEventLog
    UnitsEnd
    CommittedEventsPublished
CHECK_DEADLOCK FALSE

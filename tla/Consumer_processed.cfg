CONSTANTS
    m1 = m1
    m2 = m2
    p1 = p1
    p2 = p2
    NoMember = NoMember
    Member <- TwoMembers
    Partition <- TwoPartitions
    LogLen <- TwoAndOne
    MaxFaults = 0
SPECIFICATION Spec
INVARIANT CommittedWasProcessed
CHECK_DEADLOCK FALSE

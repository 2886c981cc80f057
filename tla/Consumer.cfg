CONSTANTS
    m1 = m1
    m2 = m2
    p1 = p1
    p2 = p2
    NoMember = NoMember
    Member <- TwoMembers
    Partition <- TwoPartitions
    LogLen <- TwoAndOne
    MaxFaults = 2
SPECIFICATION FairSpec
INVARIANTS
    CommittedWasOffered
    OfferedInOrder
PROPERTIES
    CommittedMonotone
    EveryMessageOffered
CHECK_DEADLOCK FALSE

CONSTANTS
    path1 = path1
    path2 = path2
    Paths <- TwoPaths
    MaxSeq = 5
    MaxFaults = 1
SPECIFICATION FairSpec
INVARIANT TypeOK
INVARIANT AssertionsHold
INVARIANT InOrder
PROPERTY AllDelivered
PROPERTY ReroutingEnds
CHECK_DEADLOCK FALSE

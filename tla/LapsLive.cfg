CONSTANTS
    f1 = f1
    f2 = f2
    p1 = p1
    p2 = p2
    Flows <- MCFlows
    Paths <- MCPaths
    Size <- ShortSize
    PathsOf <- MCPathsOf
    Win = 2
    MaxLoss = 2
    MaxEarly = 0
SPECIFICATION FairSpec
PROPERTY TransferLive
\* The system stops once every flow has completed.
CHECK_DEADLOCK FALSE

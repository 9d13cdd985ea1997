CONSTANTS
    f1 = f1
    f2 = f2
    p1 = p1
    p2 = p2
    Flows <- MCFlows
    Paths <- MCPaths
    Size <- MCSize
    PathsOf <- MCPathsOf
    Win = 3
    MaxLoss = 2
    MaxEarly = 0
SPECIFICATION Spec
INVARIANT TypeOK
INVARIANT AccountedOnce
INVARIANT InFlightListed
INVARIANT NoFalseLoss
INVARIANT TimerArmed
INVARIANT OnTheFlyExact
INVARIANT QuiescentWhenDone
\* The system stops once every flow has completed.
CHECK_DEADLOCK FALSE

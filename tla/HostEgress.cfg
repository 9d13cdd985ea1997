SPECIFICATION FairSpec
CONSTANTS
    f1 = f1
    f2 = f2
    low = low
    high = high
    Flows <- MCFlows
    Group <- MCGroup
    AckGroup = low
    Size = 2
    Window <- MCWindow
    VarWin = FALSE
    Gaps <- MCGaps
    TxTime = 1
    MaxAcks = 1
    MaxPauses = 1
    MaxBacks = 1
INVARIANT TypeOK
INVARIANT NotForgotten
PROPERTY Completes
CHECK_DEADLOCK FALSE

CONSTANTS
    Size = 4
    Window = 3
    Capacity = 4
    MaxLoss = 2
SPECIFICATION FairSpec
INVARIANT TypeOK
INVARIANT Cumulative
INVARIANT NotStranded
PROPERTY TransferSafe
PROPERTY Completes
CHECK_DEADLOCK FALSE

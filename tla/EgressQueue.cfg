SPECIFICATION Spec
CONSTANTS
    QCnt = 4
    Sizes <- MCSizes
    MaxBytes = 7
INVARIANT TypeOK
INVARIANT WorkConserving
INVARIANT RoundRobin

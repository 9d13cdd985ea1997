CONSTANTS
    port1 = port1
    port2 = port2
    out = out
    In <- OneIn
    Out = out
    Queue = 3
    Sizes <- MCSizes
    BufferSize = 20
    Reserve = 1
    ResumeOffset = 1
    Headroom <- LongHeadroom
    Word = 256
    LinkPackets = 2
    RoundTrip = 2
    MaxExpire = 2
SPECIFICATION FairSpec
INVARIANT TypeOK
INVARIANT PfcAgreement
PROPERTY PauseEnds

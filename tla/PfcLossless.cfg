CONSTANTS
    port1 = port1
    port2 = port2
    out = out
    In <- MCIn
    Out = out
    Queue = 3
    Sizes <- MCSizes
    BufferSize = 17
    Reserve = 1
    ResumeOffset = 1
    Headroom <- ShortHeadroom
    Word = 256
    LinkPackets = 1
    RoundTrip = 1
    MaxExpire = 1
SPECIFICATION Spec
INVARIANT BytesHeld
INVARIANT Lossless

CONSTANTS
    port1 = port1
    port2 = port2
    Ports <- MCPorts
    Queues = {3}
    Sizes <- MCSizes
    BufferSize = 22
    Reserve = 2
    ResumeOffset = 2
    Headroom <- MCHeadroom
    Word = 256
SPECIFICATION Spec
INVARIANT TypeOK
INVARIANT HdrmExact
INVARIANT HdrmBound
INVARIANT CongestedIsPaused
INVARIANT PausedWillResume
INVARIANT OccupancyBounded

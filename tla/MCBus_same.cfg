SPECIFICATION Spec
CONSTANTS
    n1 = n1
    n2 = n2
    n3 = n3
    Nodes = {n1, n2}
    Frame <- SameFrame
    MaxCalls <- TwoOfFirst
    Randoms = {1, 2}
    HalfBit = 4
    SampleAt = 6
    TimeoutAt = 9
    TicksPerMs = 8
    ByteBits = 4
    MinBytes = 2
    MaxBytes = 2
INVARIANTS
    SendsQueued
    IdleIsQuiet
PROPERTIES
    CollisionStopsSender
    TxQueueAssumes
    Retried

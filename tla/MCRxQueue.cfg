SPECIFICATION Spec
CONSTANTS
    QueueSize = 3
    MaxBits = 3
    MinBits = 3
    MaxFrames = 6
    Noise <- MCNoise
INVARIANTS
    TypeOK
    NoOverlap
    QueuedIntact
PROPERTIES
    ImplementsInbox
    WaitingIsDelivered
CHECK_DEADLOCK FALSE

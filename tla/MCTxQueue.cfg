SPECIFICATION Spec
CONSTANTS
    QueueSize = 3
    MaxCalls = 5
    MaxCollisions = 2
    HalfBits <- MCHalfBits
INVARIANTS
    TypeOK
    TickFindsFrame
    NoTornRead
PROPERTIES
    ImplementsFifo
    QueuedIsSent

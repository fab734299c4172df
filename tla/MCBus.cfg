SPECIFICATION SafetySpec
CONSTANTS
    n1 = n1
    n2 = n2
    n3 = n3
    Nodes = {n1, n2, n3}
    Frame <- MCFrame
    MaxCalls <- TwoOfFirst
    Randoms = {1, 2}
    HalfBit = 4
    SampleAt = 6
    TimeoutAt = 9
    TicksPerMs = 8
    ByteBits = 4
    MinBytes = 2
    MaxBytes = 2
INVARIANTS
    TypeOK
    CollisionHasTwoParties
PROPERTIES
    CleanFrameHeard

SPECIFICATION Spec
CONSTANTS
    QueueSize = 3
    MaxBits = 3
    MinBits = 3
    MaxFrames = 6
    Noise <- MCNoise
PROPERTY
    PopSparesConstruction
CHECK_DEADLOCK FALSE

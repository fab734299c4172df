SPECIFICATION Spec
CONSTANTS
    Frames <- MCFrames
    MaxFaults <- MCMaxFaults
INVARIANTS
    TypeOK
    DeliveredWhole
    OverlapRejected
    CrcNotices
    WrongOnlyIfBlind
CHECK_DEADLOCK FALSE

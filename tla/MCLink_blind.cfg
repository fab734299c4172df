SPECIFICATION Spec
CONSTANTS
    Frames <- MCFrames
    MaxFaults <- MCMaxFaults
INVARIANT NothingBlind
CHECK_DEADLOCK FALSE

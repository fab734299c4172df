SPECIFICATION Spec
CONSTANTS
    Size = 4
    MaxLine = 3
    MaxTyped = 5
    MaxMessages = 1
PROPERTY LineSeen
CHECK_DEADLOCK FALSE

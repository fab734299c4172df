SPECIFICATION Spec
CONSTANTS
    Size = 4
    MaxLine = 3
    MaxTyped = 7
    MaxMessages = 1
INVARIANTS
    TypeOK
    NoneStranded
PROPERTIES
    InOrder
    WholeLines
    LineTaken
    ReprintWhole
CHECK_DEADLOCK FALSE

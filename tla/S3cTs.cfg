CONSTANTS
    XCoords <- MCXCoords
    YCoords <- MCYCoords
    ErrLimit = 10
SPECIFICATION Spec
INVARIANTS
    TypeOK
    NeverStuck
PROPERTIES
    LiftReported
    ReportsJustified
CHECK_DEADLOCK TRUE

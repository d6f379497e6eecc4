CONSTANTS
    Driver <- AllDrivers
    Disks = 2
    MaxFiles = 2
    Entries = {0, 1, 2}
    Colors = {5, 6}
    CLEAR = 99
SPECIFICATION Spec
INVARIANTS
    TypeOK
    NothingLeft
    PublishedReady
    OopsExplained
    NoColorForgotten
CHECK_DEADLOCK TRUE

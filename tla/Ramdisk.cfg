CONSTANTS
    Capacity = 3
    PageSectors = 2
    Procs = {p1, p2}
    Bios <- ThreeBios
    Values = {0, 1}
    CacheSectors = {0}
    MaxUsers = 2
SPECIFICATION Spec
INVARIANTS
    TypeOK
    CleanIsZero
    LockHeld
PROPERTY
    IsDisk
CHECK_DEADLOCK TRUE

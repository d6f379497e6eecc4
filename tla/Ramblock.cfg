CONSTANTS
    RAMBLOCK_SIZE = 4
    Heads = 2
    Cylinders = 2
    SectorsPerTrack = 1
    Procs = {p1, p2, p3}
    Bios <- FourBios
    Values = {0, 1, 2}
    MaxUsers = 2
SPECIFICATION Spec
PROPERTY
    IsDisk
CHECK_DEADLOCK TRUE

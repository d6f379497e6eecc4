CONSTANTS
    Mice = {m1, m2}
    MaxProbes = 3
SPECIFICATION Spec
INVARIANTS
    TypeOK
    KilledBeforeFreed
    KeysFollowButtons
PROPERTY
    DisconnectEnds
\* An oops in disconnect or rmmod stops the driver for good.
CHECK_DEADLOCK FALSE

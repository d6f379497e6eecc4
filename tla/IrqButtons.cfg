CONSTANTS
    f1 = f1
    f2 = f2
    t1 = t1
    t2 = t2
    Pins <- OnePin
    Files = {f1, f2}
    Threads = {t1, t2}
    Signals = TRUE
SPECIFICATION Spec
INVARIANTS
    TypeOK
    LinesWillBeFreed
    NoLostWakeup
PROPERTIES
    KeyWakes
    PollAnswered
CHECK_DEADLOCK TRUE

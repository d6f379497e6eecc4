CONSTANTS
    f1 = f1
    f2 = f2
    t1 = t1
    Pins <- TwoPins
    Files = {f1, f2}
    Threads = {t1}
    Delay = 2
    FirstExpiry <- EarlyOrLate
    Signals = TRUE
SPECIFICATION Spec
INVARIANTS
    TypeOK
    ExclusiveOpen
    Quiesced
    NoLostWakeup
    KeyCurrent
PROPERTIES
    Debounced
    KeyWakesReader
CHECK_DEADLOCK TRUE

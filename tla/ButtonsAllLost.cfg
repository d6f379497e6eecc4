CONSTANTS
    f1 = f1
    f2 = f2
    t1 = t1
    Pins <- OnePin
    Files = {f1}
    Threads = {t1}
    Delay = 2
    FirstExpiry <- EarlyOrLate
    Signals = FALSE
SPECIFICATION Spec
INVARIANT
    EventKept
CHECK_DEADLOCK TRUE

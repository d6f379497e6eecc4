CONSTANTS
    Pins <- TwoPins
    Delay = 2
    FirstExpiry <- EarlyOrLate
SPECIFICATION Spec
INVARIANTS
    TypeOK
    NoTimerOops
PROPERTIES
    Debounced
    EdgeReported
CHECK_DEADLOCK TRUE

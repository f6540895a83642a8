\* Commands sent again, their older copies executed late; one limit, or none.
CONSTANTS
    Call = {c1, c2, c3}
    Limits = {0, 1}
    MaxLimit = 1
    Window = 3
    Lag = 1
    Lead = 0
    MaxAttempts = 2
    MaxClock = 4
SPECIFICATION Spec
SYMMETRY Symmetry
INVARIANTS TypeOK DeniedHoldsNoSlot
PROPERTIES RetryAfterSuffices KeepsPromise
\* The clock is bounded and calls are answered once: behaviours end.
CHECK_DEADLOCK FALSE

\* Gateways whose clocks are exact or ahead, mixed limits; commands sent once, and a
\* Redis that may lose admissions at any moment.
CONSTANTS
    Call = {c1, c2, c3}
    Limits = {1, 2}
    MaxLimit = 2
    Window = 4
    Lag = 0
    Lead = 1
    MaxAttempts = 1
    MaxClock = 5
SPECIFICATION Spec
SYMMETRY Symmetry
INVARIANTS WithinQuota RecentHeld RetryAfterBounded
PROPERTIES DeniedOnlyWhenUsed
\* The clock is bounded and calls are answered once: behaviours end.
CHECK_DEADLOCK FALSE

\* One panel with a buffer of one, two snapshots of up to four requests of three consumers,
\* of which two are ranked.
CONSTANTS
    Client = {c1}
    Cap = 1
    MaxBroadcasts = 2
    Consumer = {k1, k2, k3}
    Status = {200, 503}
    TopN = 2
    MaxRecords = 4
SPECIFICATION SpecLive
SYMMETRY Symmetry
INVARIANTS PanelMissesNothing EveryRequestInOneWindow
PROPERTIES BusiestAreRanked
\* Requests and broadcasts are bounded.
CHECK_DEADLOCK FALSE

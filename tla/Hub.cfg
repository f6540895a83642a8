\* Two panels under fairness; a buffer of one overflows at once.
CONSTANTS
    Client = {c1, c2}
    Cap = 1
    MaxBroadcasts = 3
SPECIFICATION FairSpec
INVARIANTS TypeOK ChannelsSafe GaugeAgrees
PROPERTIES NoLeaks KeepsFeed
\* Broadcasts are bounded, and every panel may have gone.
CHECK_DEADLOCK FALSE

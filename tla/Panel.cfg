\* Three visits, and any four stops of the gateway or broken connections.
CONSTANTS
    Visit = {v1, v2, v3}
    MaxTrouble = 4
SPECIFICATION Spec
INVARIANT LeavesWhenWaiting
PROPERTY ReconnectsInTheEnd
\* Every page may have been left, and the troubles are bounded.
CHECK_DEADLOCK FALSE

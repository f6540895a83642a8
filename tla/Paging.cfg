\* Up to four rows, integers of four bits, pages of up to three rows.
CONSTANTS
    Half = 8
    DefaultSize = 2
    MaxSize = 3
    MaxRows = 4
    AskedSizes = {0, 1, 3, 4}
SPECIFICATION Spec
INVARIANTS EveryRowOnItsPage WalkMissesOnlyMoved
\* Rows are bounded, and the reader ends.
CHECK_DEADLOCK FALSE

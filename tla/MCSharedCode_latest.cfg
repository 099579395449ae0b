\* Two edits, one on each side, are enough.
SPECIFICATION CodeSpec
CONSTANTS
    a = a
    b = b
    i1 = i1
    i2 = i2
    Editors = {a, b}
    SaverOf <- MCSaverOf
    Throttle = 1
    Grace = 3
    Duration = 2
    SweepDelay = 4
    MaxEdits = 2
    MaxOutages = 0
    MaxTime = 5
INVARIANT LatestVersionLands
\* The session ends.
CHECK_DEADLOCK FALSE
SYMMETRY MCSwap

\* Two edits, on one side or on each; the sweep may come when the grace is over.
SPECIFICATION CodeSpec
CONSTANTS
    a = a
    b = b
    i1 = i1
    i2 = i2
    Editors = {a, b}
    SaverOf <- MCSaverOf
    Throttle = 1
    Grace = 1
    Duration = 1
    SweepDelay = 2
    MaxEdits = 2
    MaxOutages = 1
    MaxTime = 3
INVARIANT LastRelayedIsStored
\* The session ends.
CHECK_DEADLOCK FALSE
SYMMETRY MCSwap

\* A step of the clock is a second: CODE_SAVE_MS, saveCode's ten seconds, SWEEP_MS.
SPECIFICATION CodeSpec
CONSTANTS
    a = a
    b = b
    i1 = i1
    i2 = i2
    Editors = {a, b}
    SaverOf <- MCSaverOf
    Throttle = 2
    Grace = 10
    Duration = 2
    SweepDelay = 15
    MaxEdits = 1
    MaxOutages = 0
    MaxTime = 20
INVARIANT LastSaveLands
\* The session ends.
CHECK_DEADLOCK FALSE
SYMMETRY MCSwap

\* Two failing Submits of a problem that is not in the queue yet.
SPECIFICATION Spec
CONSTANTS
    Submits = {s1, s2}
    Users = {u1}
    Problems = {p1}
    Outcomes = {FALSE}
    NoItem = NoItem
    LastDay = 0
    MaxEdits = 0
    HintCount = 0
PROPERTY FailureCountsAsLapse
CHECK_DEADLOCK FALSE

\* A resume, uploaded, and replaced or deleted.
SPECIFICATION ResumeSpec
CONSTANTS
    Uploads = {u1, u2}
    Deletions = {d1}
    NoRow = NoRow
    NoCollection = NoCollection
PROPERTY AnsweredIsPurged
\* Every request is made once, so the system stops.
CHECK_DEADLOCK FALSE

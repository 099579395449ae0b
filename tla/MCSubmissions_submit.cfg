\* Three Submits: of two users and two problems within a day, for the locks and the rated
\* games; of one problem around a midnight, beside changes of the queue, for the reviews.
SPECIFICATION Spec
CONSTANTS
    Submits = {s1, s2, s3}
    Users = {u1, u2}
    Problems = {p1, p2}
    Outcomes = {TRUE, FALSE}
    NoItem = NoItem
    LastDay = 1
    MaxEdits = 1
    HintCount = 1
SYMMETRY Symmetry
CONSTRAINT ManyWithinOneDay
INVARIANTS
    TypeOK NeverDeadlocked RatedOnce RatingsKept PathsFollowSubmissions FailureGradedOnce
PROPERTIES GradingsKept PassGradedWhenDue
\* Every Submit is made once, so the system stops.
CHECK_DEADLOCK FALSE

\* One page each: both join at once.
SPECIFICATION PeerSpec
CONSTANTS
    Host = Host
    Guest = Guest
    h1 = h1
    h2 = h2
    g1 = g1
    i1 = i1
    i2 = i2
    Sockets = {h1, g1}
    OwnerOf <- MCTwoOwners
    Instances = {i1, i2}
    ServedBy <- MCTwoServed
    AnsweredBy <- MCAnsweredBy
    Enders = {Guest}
    MaxCrashes = 0
INVARIANT NotLeftWaiting
\* The session ends and the pages close, so the system stops.
CHECK_DEADLOCK FALSE

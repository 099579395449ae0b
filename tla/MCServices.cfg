SPECIFICATION ServicesSpec
CONSTANTS
    \* ReviewSchedule: every history of up to two lapses, intervals past a year
    MaxFailures = 3
    MaxInterval = 400
    MaxLapses = 2
    \* RunQueue: three requests, two instances, one sandbox
    Jobs = {j1, j2, j3}
    Workers = {w1, w2}
    Nobody = Nobody
    Concurrency = 1
    MaxDeaths = 1
    \* PeerSession: two pages of the host, one of the guest, on two instances, one of
    \* which may die
    Host = Host
    Guest = Guest
    h1 = h1
    h2 = h2
    g1 = g1
    i1 = i1
    i2 = i2
    Sockets = {h1, h2, g1}
    OwnerOf <- MCOwnerOf
    Instances = {i1, i2}
    ServedBy <- MCServedBy
    AnsweredBy <- MCAnsweredBy
    Enders = {Guest}
    MaxCrashes = 1
    \* PeerNegotiation
    Polite = polite
    Impolite = impolite
    MaxOffers = 5
    \* RetrievalCache: two threads of one process
    Processes = {r1}
    Lanes = {l1, l2}
    Missing = Missing
    MaxWrites = 2
    MaxBumps = 2
    \* VersionedCache
    Visitors = {v1, v2}
    NoPage = NoPage
    NoVersion = NoVersion
    MaxPosts = 2
    \* Assessment: two tabs, one problem
    Tabs = {t1, t2}
    Tasks = {p1}
    MaxTries = 2
    \* AnswerPage
    MaxDrafts = 2
    MaxSends = 2
    MaxTurns = 3
    \* LiveFetch: two fetches of one session and one of another, one slot
    f1 = f1
    f2 = f2
    f3 = f3
    Fetchers = {f1, f2, f3}
    Queries = {q1, q2}
    Quotas <- MCQuotas
    QuotasOf <- MCQuotasOf
    QuotaOf <- MCQuotaOf
    FetchSlots = 1
    MaxLeases = 3
    MaxDays = 1
    \* ResumeStore
    Uploads = {u1, u2}
    Deletions = {d1, d2}
    NoRow = NoRow
    NoCollection = NoCollection
    \* OutputDiff
    Outputs <- MCOutputs
    MaxItems = 2
INVARIANTS
    WithinChecks IntervalFitsRun
    SandboxesCapped BusyIsNotRun AnsweredIsRemoved
    ClockStartsOnce BothInTheRoomStart EndToldOnce
    PagesAgree
    InvalidatedUnreachable OwedBumpsHonoured BumpedPagesFresh
    LateWorkNotCounted OwnWorkCounted NoAnswerTwice
    FetchesCapped
    RowMatchesChunks DiffExplainsFailure
CONSTRAINTS HostReloads OneFarewell
PROPERTIES
    PassesSpreadReviews
\* Every component has a bound at which it stops.
CHECK_DEADLOCK FALSE

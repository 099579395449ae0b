----------------------------- MODULE LiveFetch ------------------------------
(***************************************************************************)
(* The limits on live fetches (ai-service/app/ingest/limits.py, the Redis  *)
(* limiter, and maybe_fetch in live.py): one script checks every limit and *)
(* reserves; the slot is a lease, released when the fetch is over, and     *)
(* expiring on its own if it is not.                                       *)
(***************************************************************************)
EXTENDS Naturals, FiniteSets

CONSTANTS
    Fetchers,       \* requests of the service's workers
    Queries,        \* query keys
    Quotas,         \* the day's counters: all fetches, a session's, a user's
    QuotasOf,       \* the counters each fetcher's request counts against
    QuotaOf,        \* the maximum of each counter
    FetchSlots,     \* CONCURRENCY_MAX
    MaxLeases,      \* bound: leases taken
    MaxDays         \* bound: days that pass

ASSUME FetchAssumption ==
    /\ FetchSlots \in Nat \ {0} /\ MaxLeases \in Nat /\ MaxDays \in Nat
    /\ QuotasOf \in [Fetchers -> SUBSET Quotas]
    /\ QuotaOf \in [Quotas -> Nat]

VARIABLES
    fetch,          \* each request: its query and lease; ghost: its cooldown is over
    leases,         \* lf:inflight
    expired,        \* leases that have outlived LEASE_SECONDS
    issued,         \* leases taken
    quota,          \* the day's counters
    cooling,        \* queries in their cooldown
    day             \* days that have passed

fetchVars == <<fetch, leases, expired, issued, quota, cooling, day>>

NotFetching == [lease |-> 0, query |-> "none", cooled |-> FALSE]

FetchInit ==
    /\ fetch = [f \in Fetchers |-> NotFetching]
    /\ leases = {} /\ expired = {} /\ issued = 0
    /\ quota = [q \in Quotas |-> 0]
    /\ cooling = {}
    /\ day = 0

IsFetching(f) == fetch[f].lease # 0

------------------------------------------------------------------------------
(* acquire *)

\* The script's checks: expired leases are gone before the slots are counted.
Allowed(f, q) ==
    /\ Cardinality(leases) < FetchSlots
    /\ \A c \in QuotasOf[f] : quota[c] < QuotaOf[c]
    /\ q \notin cooling

Reserve(f, q) ==
    /\ ~IsFetching(f) /\ Allowed(f, q) /\ issued < MaxLeases
    /\ issued' = issued + 1
    /\ leases' = leases \cup {issued'}
    /\ quota' = [c \in Quotas |-> IF c \in QuotasOf[f] THEN quota[c] + 1 ELSE quota[c]]
    /\ cooling' = cooling \cup {q}
    /\ UNCHANGED <<expired, day>>

Acquire(f, q) ==
    /\ Reserve(f, q)
    /\ fetch' = [fetch EXCEPT ![f] = [lease |-> issued', query |-> q, cooled |-> FALSE]]

\* Redis is too slow to answer: the fetch is denied, and what it reserved stays.
AcquireUnanswered(f, q) ==
    /\ Reserve(f, q)
    /\ UNCHANGED fetch

------------------------------------------------------------------------------
(* release *)

\* Mutant: a release frees a slot, whichever it is.
MutantReleased(token) == IF leases = {} THEN {} ELSE {CHOOSE t \in leases : TRUE}

\* ZREM of the fetch's own token
Released(token) == {token}

\* The fetch is over, whether it found anything, ingested it, or raised.
Release(f) ==
    /\ IsFetching(f)
    /\ leases' = leases \ Released(fetch[f].lease)
    /\ fetch' = [fetch EXCEPT ![f] = NotFetching]
    /\ UNCHANGED <<expired, issued, quota, cooling, day>>

\* Redis cannot be reached, or the worker has died: the lease is left to expire.
ReleaseFails(f) ==
    /\ IsFetching(f)
    /\ fetch' = [fetch EXCEPT ![f] = NotFetching]
    /\ UNCHANGED <<leases, expired, issued, quota, cooling, day>>

------------------------------------------------------------------------------
(* Time *)

\* A lease expires, whether or not its fetch is over.
ExpireLease(t) ==
    /\ t \in leases
    /\ leases' = leases \ {t}
    /\ expired' = expired \cup {t}
    /\ UNCHANGED <<fetch, issued, quota, cooling, day>>

EndCooldown(q) ==
    /\ q \in cooling
    /\ cooling' = cooling \ {q}
    /\ fetch' = [f \in Fetchers |-> IF fetch[f].query = q
                                    THEN [fetch[f] EXCEPT !.cooled = TRUE] ELSE fetch[f]]
    /\ UNCHANGED <<leases, expired, issued, quota, day>>

\* The counters are kept by day; cooldowns are not.
NewDay ==
    /\ day < MaxDays
    /\ day' = day + 1
    /\ quota' = [c \in Quotas |-> 0]
    /\ UNCHANGED <<fetch, leases, expired, issued, cooling>>

FetchNext ==
    \/ \E f \in Fetchers, q \in Queries : Acquire(f, q) \/ AcquireUnanswered(f, q)
    \/ \E f \in Fetchers : Release(f) \/ ReleaseFails(f)
    \/ \E t \in leases : ExpireLease(t)
    \/ \E q \in Queries : EndCooldown(q)
    \/ NewDay

FetchSpec == FetchInit /\ [][FetchNext]_fetchVars

------------------------------------------------------------------------------

\* Whichever answers of Redis are lost, whichever workers die and however long a fetch
\* runs, the fetches within their lease never exceed the slots, and no two of them fetch
\* one query within its cooldown (limits.py: "two requests can't both pass a limit with
\* one slot left").
FetchesCapped ==
    LET Held == {f \in Fetchers : IsFetching(f) /\ fetch[f].lease \notin expired}
    IN /\ Cardinality(Held) <= FetchSlots
       /\ \A f, g \in Held : f # g /\ fetch[f].query = fetch[g].query =>
             fetch[f].cooled \/ fetch[g].cooled
=============================================================================

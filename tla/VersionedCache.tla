--------------------------- MODULE VersionedCache ---------------------------
(***************************************************************************)
(* The read-through cache of backend/src/services/cache.ts as the          *)
(* leaderboard uses it: a page is kept under the version read before it    *)
(* was looked up, and a Submit bumps the version after its commit.         *)
(*                                                                         *)
(* A page is computed in two queries; each answer is the number of         *)
(* submissions it has seen.  Any Redis call may fail.                      *)
(***************************************************************************)
EXTENDS Naturals

CONSTANTS
    Visitors,       \* requests for the page, each made once
    NoPage,         \* not cached, or expired
    NoVersion,      \* Redis did not answer
    MaxPosts        \* bound: submissions

ASSUME VersionedAssumption == MaxPosts \in Nat

VARIABLES
    posts,          \* submissions committed
    unbumped,       \* commits whose bump has not been made
    version,        \* cache:leaderboard:v
    cachedPages,    \* the page cached under each version
    sees,           \* ghost: the submissions each version came after
    visit           \* each request

versionedVars == <<posts, unbumped, version, cachedPages, sees, visit>>

Versions == 0 .. MaxPosts
EmptyPage == [total |-> 0, rows |-> 0]
NoVisit == [at |-> "idle", version |-> NoVersion, page |-> EmptyPage, promised |-> 0]

VersionedInit ==
    /\ posts = 0 /\ unbumped = 0 /\ version = 0
    /\ cachedPages = [v \in Versions |-> NoPage]
    /\ sees = [v \in Versions |-> 0]
    /\ visit = [r \in Visitors |-> NoVisit]

Move(r, at) == visit' = [visit EXCEPT ![r].at = at]

------------------------------------------------------------------------------
(* Writing *)

PostSubmission ==
    /\ posts < MaxPosts
    /\ posts' = posts + 1
    /\ unbumped' = unbumped + 1
    /\ UNCHANGED <<version, cachedPages, sees, visit>>

\* bumpCacheVersion
BumpVersion ==
    /\ unbumped > 0
    /\ unbumped' = unbumped - 1
    /\ version' = version + 1
    /\ sees' = [sees EXCEPT ![version + 1] = posts]
    /\ UNCHANGED <<posts, cachedPages, visit>>

\* The write is lost; the page's TTL bounds what comes of it.
LoseBump ==
    /\ unbumped > 0
    /\ unbumped' = unbumped - 1
    /\ UNCHANGED <<posts, version, cachedPages, sees, visit>>

------------------------------------------------------------------------------
(* Reading: cached, with computeLeaderboardPage *)

ReadVersion(r) ==
    /\ visit[r].at = "idle"
    /\ visit' = [visit EXCEPT ![r] = [NoVisit EXCEPT !.at = "looking", !.version = version,
                                                     !.promised = sees[version]]]
    /\ UNCHANGED <<posts, unbumped, version, cachedPages, sees>>

\* Redis does not answer: the page is computed, and not kept.
ReadNoVersion(r) ==
    /\ visit[r].at = "idle"
    /\ visit' = [visit EXCEPT ![r] = [NoVisit EXCEPT !.at = "counting",
                                                     !.promised = sees[version]]]
    /\ UNCHANGED <<posts, unbumped, version, cachedPages, sees>>

FindPage(r) ==
    /\ visit[r].at = "looking" /\ cachedPages[visit[r].version] # NoPage
    /\ visit' = [visit EXCEPT ![r] = [@ EXCEPT !.at = "shown",
                                               !.page = cachedPages[visit[r].version]]]
    /\ UNCHANGED <<posts, unbumped, version, cachedPages, sees>>

FindNoPage(r) ==
    /\ visit[r].at = "looking" /\ cachedPages[visit[r].version] = NoPage
    /\ Move(r, "counting")
    /\ UNCHANGED <<posts, unbumped, version, cachedPages, sees>>

FindFails(r) ==
    /\ visit[r].at = "looking"
    /\ visit' = [visit EXCEPT ![r] = [@ EXCEPT !.at = "counting", !.version = NoVersion]]
    /\ UNCHANGED <<posts, unbumped, version, cachedPages, sees>>

CountUsers(r) ==
    /\ visit[r].at = "counting"
    /\ visit' = [visit EXCEPT ![r] = [@ EXCEPT !.at = "ranking", !.page.total = posts]]
    /\ UNCHANGED <<posts, unbumped, version, cachedPages, sees>>

RankUsers(r) ==
    /\ visit[r].at = "ranking"
    /\ visit' = [visit EXCEPT ![r] = [@ EXCEPT !.at = "keeping", !.page.rows = posts]]
    /\ UNCHANGED <<posts, unbumped, version, cachedPages, sees>>

\* Mutant: the version is read again when the page is kept.
MutantKeptUnder(r) == version

KeptUnder(r) == visit[r].version

KeepPage(r) ==
    /\ visit[r].at = "keeping" /\ visit[r].version # NoVersion
    /\ cachedPages' = [cachedPages EXCEPT ![KeptUnder(r)] = visit[r].page]
    /\ Move(r, "shown")
    /\ UNCHANGED <<posts, unbumped, version, sees>>

\* Nothing to keep it under, or the SET fails.
KeepNothing(r) ==
    /\ visit[r].at = "keeping"
    /\ Move(r, "shown")
    /\ UNCHANGED <<posts, unbumped, version, cachedPages, sees>>

ExpirePage(v) ==
    /\ cachedPages[v] # NoPage
    /\ cachedPages' = [cachedPages EXCEPT ![v] = NoPage]
    /\ UNCHANGED <<posts, unbumped, version, sees, visit>>

LookUp(r) == FindPage(r) \/ FindNoPage(r) \/ FindFails(r)
Compute(r) == CountUsers(r) \/ RankUsers(r)
Keep(r) == KeepPage(r) \/ KeepNothing(r)

VersionedNext ==
    \/ PostSubmission \/ BumpVersion \/ LoseBump
    \/ \E r \in Visitors :
          ReadVersion(r) \/ ReadNoVersion(r) \/ LookUp(r) \/ Compute(r) \/ Keep(r)
    \/ \E v \in Versions : ExpirePage(v)

VersionedSpec == VersionedInit /\ [][VersionedNext]_versionedVars

------------------------------------------------------------------------------

\* A request that begins after a Submit's bump is shown a page with that Submit in it,
\* however long whoever cached the page took to compute it and whichever Redis calls
\* failed (cache.ts: "every key built from the old version is simply never read again").
BumpedPagesFresh ==
    \A r \in Visitors : visit[r].at = "shown" =>
        visit[r].page.total >= visit[r].promised /\ visit[r].page.rows >= visit[r].promised
=============================================================================

--------------------------- MODULE ServiceProofs ---------------------------
(***************************************************************************)
(* Theorems about the services that work beside the interview, for any     *)
(* numbers of requests, workers, tabs and uploads: the run queue keeps to  *)
(* its cap and removes what it answered, live fetches keep to their slots, *)
(* an assessment counts no late work, a resume's row and chunks agree, a   *)
(* review schedule keeps its CHECKs and spreads what is recalled, and the  *)
(* interview page has no answer recorded twice.                            *)
(***************************************************************************)
EXTENDS ReviewSchedule, RunQueue, LiveFetch, Assessment, ResumeStore, AnswerPage,
        FiniteSetTheorems, TLAPS

------------------------------------------------------------------------------
(* The run queue *)

QueueTypes ==
    /\ waiter \in [Jobs -> {"none", "adding", "refused", "waiting", "read", "late",
                            "answered", "busy"}]
    /\ stored \in [Jobs -> {"none", "waiting", "active", "finished", "removed"}]
    /\ worker \in [Jobs -> Workers \cup {Nobody}]
    /\ sandboxes \in [Jobs -> Nat]
    /\ stalls \in [Jobs -> Nat]

\* A job's sandbox lives within the job's place in the queue.
SandboxInv(j) ==
    /\ sandboxes[j] <= 1
    /\ sandboxes[j] = 1 => stored[j] = "active"
    /\ worker[j] # Nobody => sandboxes[j] = 1

\* A job is not in Redis before it is added; one whose result was read is over; one that was
\* added is in Redis or was; one that was given up waits only after a stall.
WaiterInv(j) ==
    /\ waiter[j] \in {"none", "adding"} => stored[j] = "none"
    /\ waiter[j] = "read" => stored[j] \in {"finished", "removed"}
    /\ waiter[j] = "answered" => stored[j] = "removed"
    /\ waiter[j] = "busy" => stored[j] # "waiting" \/ stalls[j] > 0
    /\ waiter[j] \in {"waiting", "read", "late", "busy", "answered"} => stored[j] # "none"

CapInv == IsFiniteSet(Active) /\ Cardinality(Active) <= Concurrency

QueueInv ==
    /\ QueueTypes
    /\ \A j \in Jobs : SandboxInv(j) /\ WaiterInv(j)
    /\ CapInv
    /\ orphan = {}

LEMMA QueueStarts == QueueInit => QueueInv
<1> SUFFICES ASSUME QueueInit PROVE QueueInv
  OBVIOUS
<1>1. QueueTypes /\ orphan = {} /\ \A j \in Jobs : SandboxInv(j) /\ WaiterInv(j)
  BY DEF QueueInit, QueueTypes, SandboxInv, WaiterInv
<1>2. Active = {}
  BY DEF QueueInit, Active
<1>3. CapInv
  BY <1>2, FS_EmptySet, QueueAssumption DEF CapInv
<1> QED
  BY <1>1, <1>3 DEF QueueInv

\* Fewer active jobs, or one more while there is room, keep to the cap.
LEMMA CapKept ==
    ASSUME CapInv, NEW j,
           Active' \subseteq Active \/ (Free /\ Active' \subseteq Active \cup {j})
    PROVE  CapInv'
<1>1. Concurrency \in Nat /\ Cardinality(Active) \in Nat /\ IsFiniteSet(Active)
  BY FS_CardinalityType, QueueAssumption DEF CapInv
<1>2. ASSUME NEW S, IsFiniteSet(S), Cardinality(S) <= Concurrency, Active' \subseteq S
      PROVE  CapInv'
  <2>1. /\ IsFiniteSet(Active') /\ Cardinality(Active') <= Cardinality(S)
        /\ Cardinality(Active') \in Nat
    <3> DEFINE T == Active'
    <3>1. T \in SUBSET S
      BY <1>2
    <3> HIDE DEF T
    <3>2. IsFiniteSet(T) /\ Cardinality(T) <= Cardinality(S)
      BY <1>2, <3>1, FS_Subset
    <3>3. Cardinality(T) \in Nat
      BY <3>2, FS_CardinalityType
    <3> QED
      BY <3>2, <3>3 DEF T
  <2>2. Cardinality(S) \in Nat
    BY <1>2, FS_CardinalityType
  <2> QED
    BY <1>1, <1>2, <2>1, <2>2 DEF CapInv
<1>3. CASE Active' \subseteq Active
  BY <1>1, <1>2, <1>3 DEF CapInv
<1>4. CASE Free /\ Active' \subseteq Active \cup {j}
  <2>1. IsFiniteSet(Active \cup {j}) /\ Cardinality(Active \cup {j}) <= Cardinality(Active) + 1
    <3> DEFINE A == Active
    <3>1. IsFiniteSet(A) /\ Cardinality(A) \in Nat
      BY <1>1
    <3> HIDE DEF A
    <3>2. /\ IsFiniteSet(A \cup {j})
          /\ Cardinality(A \cup {j}) = IF j \in A THEN Cardinality(A) ELSE Cardinality(A) + 1
      BY <3>1, FS_AddElement
    <3>3. Cardinality(A \cup {j}) <= Cardinality(A) + 1
      BY <3>1, <3>2
    <3> QED
      BY <3>2, <3>3 DEF A
  <2>2. Cardinality(Active \cup {j}) \in Nat
    BY <2>1, FS_CardinalityType
  <2> QED
    BY <1>1, <1>2, <1>4, <2>1, <2>2 DEF Free
<1> QED
  BY <1>3, <1>4

LEMMA RequestStepInv ==
    ASSUME QueueInv, NEW j \in Jobs, RequestStep(j)
    PROVE  QueueInv'
<1>1. QueueTypes' /\ orphan' = {}
  <2>1. UNCHANGED <<worker, sandboxes, stalls, orphan>>
    BY DEF RequestStep, Request, Add, AddTimesOut, AddLands, ReadResult, WaitTimesOut, Remove
  <2>2. waiter' \in [Jobs -> {"none", "adding", "refused", "waiting", "read", "late",
                             "answered", "busy"}]
    BY DEF QueueInv, QueueTypes, RequestStep, Request, Add, AddTimesOut, AddLands,
       ReadResult, WaitTimesOut, Remove, Wait, Store
  <2>3. stored' \in [Jobs -> {"none", "waiting", "active", "finished", "removed"}]
    BY DEF QueueInv, QueueTypes, RequestStep, Request, Add, AddTimesOut, AddLands,
       ReadResult, WaitTimesOut, Remove, Removed, Wait, Store
  <2> QED
    BY <2>1, <2>2, <2>3 DEF QueueInv, QueueTypes
<1>2. /\ \A k \in Jobs : stored'[k] = "active" <=> stored[k] = "active"
      /\ UNCHANGED <<worker, sandboxes>>
  BY DEF QueueInv, QueueTypes, WaiterInv, RequestStep, Request, Add, AddTimesOut, AddLands,
     ReadResult, WaitTimesOut, Remove, Removed, Wait, Store
<1>3. \A k \in Jobs : WaiterInv(k)'
  BY DEF QueueInv, QueueTypes, WaiterInv, RequestStep, Request, Add, AddTimesOut, AddLands,
     ReadResult, WaitTimesOut, Remove, Removed, Wait, Store
<1>4. CapInv'
  <2>1. Active' \subseteq Active
    BY <1>2 DEF Active
  <2> QED
    BY <2>1, CapKept DEF QueueInv
<1>5. \A k \in Jobs : SandboxInv(k)'
  BY <1>2 DEF QueueInv, SandboxInv
<1> QED
  BY <1>1, <1>3, <1>4, <1>5 DEF QueueInv

LEMMA RunStepInv ==
    ASSUME QueueInv, NEW j \in Jobs, RunStep(j)
    PROVE  QueueInv'
<1>1. QueueTypes' /\ orphan' = {}
  BY DEF QueueInv, QueueTypes, SandboxInv, RunStep, Finish, SandboxEnds, Stall, Purge, Store
<1>2. /\ \A k \in Jobs : SandboxInv(k)'
      /\ \A k \in Jobs : stored'[k] = "active" => stored[k] = "active"
  BY DEF QueueInv, QueueTypes, SandboxInv, RunStep, Finish, SandboxEnds, Stall, LockExpired,
     Purge, Store
<1>3. \A k \in Jobs : WaiterInv(k)'
  BY DEF QueueInv, QueueTypes, WaiterInv, RunStep, Finish, SandboxEnds, Stall, Purge, Store
<1>4. CapInv'
  <2>1. Active' \subseteq Active
    BY <1>2 DEF Active
  <2> QED
    BY <2>1, CapKept DEF QueueInv
<1> QED
  BY <1>1, <1>2, <1>3, <1>4 DEF QueueInv

LEMMA StartInv ==
    ASSUME QueueInv, NEW j \in Jobs, NEW w \in Workers, Start(j, w)
    PROVE  QueueInv'
<1>1. stored[j] = "waiting" /\ sandboxes[j] = 0
  BY DEF QueueInv, QueueTypes, SandboxInv, Start
<1>2. ~(waiter[j] \in Gone /\ stalls[j] = 0)
  BY <1>1 DEF QueueInv, WaiterInv, Gone
<1>3. QueueTypes' /\ orphan' = {}
  BY <1>2 DEF QueueInv, QueueTypes, Start, Store
<1>4. \A k \in Jobs : SandboxInv(k)' /\ WaiterInv(k)'
  BY <1>1 DEF QueueInv, QueueTypes, SandboxInv, WaiterInv, Start, Store
<1>5. CapInv'
  <2>1. Free /\ Active' \subseteq Active \cup {j}
    BY DEF Active, Start, Store, QueueInv, QueueTypes
  <2> QED
    BY <2>1, CapKept DEF QueueInv
<1> QED
  BY <1>3, <1>4, <1>5 DEF QueueInv

LEMMA QueueStep == QueueInv /\ [QueueNext]_queueVars => QueueInv'
<1> SUFFICES ASSUME QueueInv, [QueueNext]_queueVars PROVE QueueInv'
  OBVIOUS
<1>1. ASSUME NEW w \in Workers, WorkerDies(w) PROVE QueueInv'
  <2>1. QueueTypes' /\ orphan' = {} /\ \A k \in Jobs : SandboxInv(k)' /\ WaiterInv(k)'
    BY <1>1 DEF QueueInv, QueueTypes, SandboxInv, WaiterInv, WorkerDies
  <2>2. Active' = Active
    BY <1>1 DEF WorkerDies, Active
  <2> QED
    BY <2>1, <2>2 DEF QueueInv, CapInv
<1>2. CASE UNCHANGED queueVars
  BY <1>2 DEF queueVars, QueueInv, QueueTypes, SandboxInv, WaiterInv, CapInv, Active
<1> QED
  BY <1>1, <1>2, RequestStepInv, RunStepInv, StartInv DEF QueueNext

\* However many instances take jobs and whichever of them die, no more sandboxes run than
\* the cap allows (run-queue.ts, setGlobalConcurrency and LOCK_DURATION_MS).
THEOREM NeverOverCap == QueueSpec => []SandboxesCapped
<1>1. QueueInv => SandboxesCapped
  <2> SUFFICES ASSUME QueueInv PROVE SandboxesCapped
    OBVIOUS
  <2> DEFINE Used == {j \in Jobs : sandboxes[j] > 0}
  <2>1. Used \subseteq Active
    BY DEF QueueInv, QueueTypes, SandboxInv, Active
  <2>2. Cardinality(Used) <= Cardinality(Active) /\ Cardinality(Used) \in Nat
        /\ Cardinality(Active) \in Nat
    BY <2>1, FS_Subset, FS_CardinalityType DEF QueueInv, CapInv
  <2>3. Cardinality(Used) <= Concurrency
    BY <2>2, QueueAssumption DEF QueueInv, CapInv
  <2> QED
    BY <2>3 DEF SandboxesCapped, QueueInv, SandboxInv
<1> QED
  BY <1>1, QueueStarts, QueueStep, PTL DEF QueueSpec

\* A request that was answered has left nothing in Redis, and one that was told the queue
\* is busy nothing that waits to run (run-queue.ts, job.remove in both exits).
THEOREM AnsweredAreRemoved == QueueSpec => []AnsweredIsRemoved
<1>1. QueueInv => AnsweredIsRemoved
  BY DEF QueueInv, WaiterInv, AnsweredIsRemoved
<1> QED
  BY <1>1, QueueStarts, QueueStep, PTL DEF QueueSpec

\* No job is started for a request that was told the queue is busy (run-queue.ts, the
\* removal after the wait timed out).
THEOREM BusyAreNotRun == QueueSpec => []BusyIsNotRun
<1>1. QueueInv => BusyIsNotRun
  BY DEF QueueInv, BusyIsNotRun
<1> QED
  BY <1>1, QueueStarts, QueueStep, PTL DEF QueueSpec

------------------------------------------------------------------------------
(* Live fetches *)

FetchTypes ==
    /\ issued \in Nat
    /\ DOMAIN fetch = Fetchers
    /\ \A f \in Fetchers : {"lease", "query", "cooled"} \subseteq DOMAIN fetch[f]
    /\ leases \subseteq 1 .. issued /\ expired \subseteq 1 .. issued

\* A fetch holds a lease of its own, that counts or has expired; its query is cooling
\* unless its cooldown has ended.
FetchInv1(f) ==
    IsFetching(f) =>
        /\ fetch[f].lease \in leases \cup expired
        /\ fetch[f].cooled \/ fetch[f].query \in cooling

FetchInv2(f, g) ==
    f # g /\ IsFetching(f) /\ IsFetching(g) =>
        /\ fetch[f].lease # fetch[g].lease
        /\ fetch[f].query = fetch[g].query => fetch[f].cooled \/ fetch[g].cooled

FetchInv ==
    /\ FetchTypes
    /\ IsFiniteSet(leases) /\ Cardinality(leases) <= FetchSlots
    /\ \A f \in Fetchers : FetchInv1(f)
    /\ \A f, g \in Fetchers : FetchInv2(f, g)

\* Leases taken back leave room.
LEMMA FewerLeases ==
    ASSUME IsFiniteSet(leases), Cardinality(leases) <= FetchSlots, leases' \subseteq leases
    PROVE  IsFiniteSet(leases') /\ Cardinality(leases') <= FetchSlots
<1> DEFINE T == leases'
<1>1. T \in SUBSET leases
  OBVIOUS
<1> HIDE DEF T
<1>2. IsFiniteSet(T) /\ Cardinality(T) <= Cardinality(leases)
  BY <1>1, FS_Subset
<1>3. Cardinality(T) \in Nat /\ Cardinality(leases) \in Nat
  BY <1>2, FS_CardinalityType
<1>4. Cardinality(T) <= FetchSlots
  BY <1>2, <1>3, FetchAssumption
<1> QED
  BY <1>2, <1>4 DEF T

LEMMA Reserves ==
    ASSUME FetchInv, NEW f \in Fetchers, NEW q, Reserve(f, q)
    PROVE  IsFiniteSet(leases') /\ Cardinality(leases') <= FetchSlots
<1>1. leases' = leases \cup {issued'} /\ Cardinality(leases) < FetchSlots
      /\ IsFiniteSet(leases) /\ Cardinality(leases) \in Nat
  BY FS_CardinalityType DEF Reserve, Allowed, FetchInv
<1>2. PICK n : n = issued'
  OBVIOUS
<1>3. /\ IsFiniteSet(leases \cup {n})
      /\ Cardinality(leases \cup {n}) =
            IF n \in leases THEN Cardinality(leases) ELSE Cardinality(leases) + 1
  BY <1>1, FS_AddElement
<1>4. Cardinality(leases \cup {n}) <= FetchSlots
  BY <1>1, <1>3, FetchAssumption
<1>5. leases' = leases \cup {n}
  BY <1>1, <1>2
<1> QED
  BY <1>3, <1>4, <1>5

LEMMA AcquireInv ==
    ASSUME FetchInv, NEW f \in Fetchers, NEW q, Acquire(f, q) \/ AcquireUnanswered(f, q)
    PROVE  FetchInv'
<1>1. Reserve(f, q)
  BY DEF Acquire, AcquireUnanswered
<1>2. /\ issued' = issued + 1 /\ leases' = leases \cup {issued'} /\ expired' = expired
      /\ cooling' = cooling \cup {q} /\ q \notin cooling /\ issued \in Nat
      /\ issued' \notin leases \cup expired /\ issued' # 0
  BY <1>1 DEF Reserve, Allowed, FetchInv, FetchTypes
<1>3. PICK new : /\ new = [lease |-> issued', query |-> q, cooled |-> FALSE]
                 /\ fetch' = fetch \/ fetch' = [fetch EXCEPT ![f] = new]
  BY DEF Acquire, AcquireUnanswered
<1>7. /\ DOMAIN fetch' = Fetchers
      /\ \A g \in Fetchers : fetch'[g] = fetch[g] \/ (g = f /\ fetch'[g] = new)
  <2>1. DOMAIN fetch = Fetchers
    BY DEF FetchInv, FetchTypes
  <2> QED
    BY <1>3, <2>1
<1>4. FetchTypes'
  <2>1. leases' \subseteq 1 .. issued' /\ expired' \subseteq 1 .. issued' /\ issued' \in Nat
    <3>1. leases \subseteq 1 .. issued /\ expired \subseteq 1 .. issued
      BY DEF FetchInv, FetchTypes
    <3>2. 1 .. issued \subseteq 1 .. (issued + 1) /\ issued + 1 \in 1 .. (issued + 1)
      BY <1>2
    <3> QED
      BY <1>2, <3>1, <3>2
  <2>2. \A g \in Fetchers : {"lease", "query", "cooled"} \subseteq DOMAIN fetch'[g]
    BY <1>3, <1>7 DEF FetchInv, FetchTypes
  <2> QED
    BY <1>3, <1>7, <2>1, <2>2 DEF FetchTypes
<1>5. ASSUME NEW g \in Fetchers PROVE FetchInv1(g)'
  <2>1. FetchInv1(g)
    BY DEF FetchInv
  <2> QED
    BY <1>2, <1>3, <1>7, <2>1 DEF FetchInv1, IsFetching
<1>6. ASSUME NEW g \in Fetchers, NEW h \in Fetchers PROVE FetchInv2(g, h)'
  <2>1. FetchInv2(g, h) /\ FetchInv1(g) /\ FetchInv1(h)
    BY DEF FetchInv
  <2> QED
    BY <1>2, <1>3, <1>7, <2>1 DEF FetchInv1, FetchInv2, IsFetching
<1> QED
  BY <1>1, <1>4, <1>5, <1>6, Reserves DEF FetchInv

LEMMA ReleaseInv ==
    ASSUME FetchInv, NEW f \in Fetchers, Release(f) \/ ReleaseFails(f)
    PROVE  FetchInv'
<1>1. UNCHANGED <<expired, issued, cooling>> /\ fetch' = [fetch EXCEPT ![f] = NotFetching]
  BY DEF Release, ReleaseFails
<1>2. /\ DOMAIN fetch' = Fetchers /\ ~IsFetching(f)'
      /\ \A g \in Fetchers \ {f} : fetch'[g] = fetch[g]
  BY <1>1 DEF FetchInv, FetchTypes, IsFetching, NotFetching
<1>3. leases' \subseteq leases
      /\ \A g \in Fetchers \ {f} : IsFetching(g) /\ fetch[g].lease \in leases
                                    => fetch[g].lease \in leases'
  BY DEF Release, ReleaseFails, Released, FetchInv, FetchInv2
<1>4. FetchTypes'
  <2>1. \A g \in Fetchers : {"lease", "query", "cooled"} \subseteq DOMAIN fetch'[g]
    BY <1>1 DEF FetchInv, FetchTypes, NotFetching
  <2> QED
    BY <1>1, <1>2, <1>3, <2>1 DEF FetchInv, FetchTypes
<1>5. ASSUME NEW g \in Fetchers PROVE FetchInv1(g)'
  <2>1. FetchInv1(g)
    BY DEF FetchInv
  <2> QED
    BY <1>1, <1>2, <1>3, <2>1 DEF FetchInv1, IsFetching
<1>6. ASSUME NEW g \in Fetchers, NEW h \in Fetchers PROVE FetchInv2(g, h)'
  <2>1. FetchInv2(g, h)
    BY DEF FetchInv
  <2> QED
    BY <1>2, <2>1 DEF FetchInv2, IsFetching
<1>7. IsFiniteSet(leases') /\ Cardinality(leases') <= FetchSlots
  BY <1>3, FewerLeases DEF FetchInv
<1> QED
  BY <1>4, <1>5, <1>6, <1>7 DEF FetchInv

LEMMA TimeInv ==
    ASSUME FetchInv, (\E t \in leases : ExpireLease(t)) \/ NewDay
    PROVE  FetchInv'
<1>1. UNCHANGED <<fetch, issued, cooling>>
      /\ leases' \subseteq leases /\ leases' \cup expired' = leases \cup expired
  BY DEF ExpireLease, NewDay
<1>2. FetchTypes'
  BY <1>1 DEF FetchInv, FetchTypes
<1>3. IsFiniteSet(leases') /\ Cardinality(leases') <= FetchSlots
  BY <1>1, FewerLeases DEF FetchInv
<1> QED
  BY <1>1, <1>2, <1>3 DEF FetchInv, FetchInv1, FetchInv2, IsFetching

\* When a query's cooldown ends, whoever fetches it is marked.
LEMMA CooldownInv ==
    ASSUME FetchInv, NEW q, EndCooldown(q)
    PROVE  FetchInv'
<1>1. UNCHANGED <<leases, expired, issued>> /\ cooling' = cooling \ {q}
      /\ DOMAIN fetch' = Fetchers
  BY DEF EndCooldown
<1>2. ASSUME NEW g \in Fetchers
      PROVE  /\ {"lease", "query", "cooled"} \subseteq DOMAIN fetch'[g]
             /\ fetch'[g].lease = fetch[g].lease /\ fetch'[g].query = fetch[g].query
             /\ fetch'[g].cooled = fetch[g].cooled \/ fetch'[g].cooled
             /\ fetch[g].query = q => fetch'[g].cooled
             /\ fetch[g].cooled => fetch'[g].cooled
  BY DEF EndCooldown, FetchInv, FetchTypes
<1>3. FetchTypes'
  BY <1>1, <1>2 DEF FetchInv, FetchTypes
<1>4. ASSUME NEW g \in Fetchers PROVE FetchInv1(g)'
  <2>1. FetchInv1(g)
    BY DEF FetchInv
  <2> QED
    BY <1>1, <1>2, <2>1 DEF FetchInv1, IsFetching
<1>5. ASSUME NEW g \in Fetchers, NEW h \in Fetchers PROVE FetchInv2(g, h)'
  <2>1. FetchInv2(g, h)
    BY DEF FetchInv
  <2> QED
    BY <1>2, <2>1 DEF FetchInv2, IsFetching
<1> QED
  BY <1>1, <1>3, <1>4, <1>5 DEF FetchInv

\* However long fetches run, whichever answers are lost and whichever workers die, no more
\* are within their lease than there are slots, and no two of one query within its
\* cooldown (limits.py, the one script that checks and reserves).
THEOREM NeverOverSlots == FetchSpec => []FetchesCapped
<1>1. FetchInit => FetchInv
  <2> SUFFICES ASSUME FetchInit PROVE FetchInv
    OBVIOUS
  <2>1. FetchTypes
    BY DEF FetchInit, FetchTypes, NotFetching
  <2>2. \A f \in Fetchers : ~IsFetching(f)
    BY DEF FetchInit, IsFetching, NotFetching
  <2>3. IsFiniteSet(leases) /\ Cardinality(leases) <= FetchSlots
    BY FS_EmptySet, FetchAssumption DEF FetchInit
  <2> QED
    BY <2>1, <2>2, <2>3 DEF FetchInv, FetchInv1, FetchInv2
<1>2. FetchInv /\ [FetchNext]_fetchVars => FetchInv'
  <2> SUFFICES ASSUME FetchInv, [FetchNext]_fetchVars PROVE FetchInv'
    OBVIOUS
  <2>1. CASE UNCHANGED fetchVars
    BY <2>1 DEF fetchVars, FetchInv, FetchTypes, FetchInv1, FetchInv2, IsFetching
  <2> QED
    BY <2>1, AcquireInv, ReleaseInv, TimeInv, CooldownInv DEF FetchNext
<1>3. FetchInv => FetchesCapped
  <2> SUFFICES ASSUME FetchInv PROVE FetchesCapped
    OBVIOUS
  <2> DEFINE Held == {f \in Fetchers : IsFetching(f) /\ fetch[f].lease \notin expired}
             own == [f \in Held |-> fetch[f].lease]
  <2>1. own \in [Held -> leases]
    BY DEF FetchInv, FetchInv1
  <2>2. \A f, g \in Held : own[f] = own[g] => f = g
    BY DEF FetchInv, FetchInv2
  <2>3. own \in Injection(Held, leases)
    BY <2>1, <2>2 DEF Injection, IsInjective
  <2> HIDE DEF Held, own
  <2>4. IsFiniteSet(Held) /\ Cardinality(Held) <= Cardinality(leases)
    BY <2>3, FS_Injection DEF FetchInv
  <2>5. Cardinality(Held) <= FetchSlots
    BY <2>4, FS_CardinalityType, FetchAssumption DEF FetchInv
  <2> QED
    BY <2>5 DEF FetchesCapped, FetchInv, FetchInv2, Held
<1> QED
  BY <1>1, <1>2, <1>3, PTL DEF FetchSpec

------------------------------------------------------------------------------
(* Assessments *)

Scores == SUBSET (Tasks \X {"passed"})

Pages ==
    [page : {"working", "timedOut", "finished"},
     task : {"none", "judged", "linking", "accepted"},
     solution : {"none", "failed", "passed", "passedLate"},
     problem : Tasks, early : BOOLEAN, done : SUBSET Tasks]

Submits == [at : {"none", "waiting", "active", "scored", "done", "failed"}, counted : Scores]

AssessmentTypes ==
    /\ clock \in {"open", "grace", "over"}
    /\ assessment \in [status : {"active", "completed"}, counted : Scores]
    /\ linked \in [Tasks -> {"none", "failed", "passed"}]
    /\ tab \in [Tabs -> Pages]
    /\ finish \in [Tabs -> Submits]
    /\ raced \in BOOLEAN

Has(score, tasks) == \A p \in tasks : <<p, "passed">> \in score

\* Work that is to be linked was stored in time, as long as it may be linked; work the
\* page answers for is linked.  A page that has asked for its score has nothing of before
\* under way, and its score has its work.
WorkInv(t) ==
    /\ tab[t].solution = "passedLate" => tab[t].task = "linking" /\ clock = "over"
    /\ tab[t].task \in {"none", "judged"} => tab[t].solution = "none"
    /\ \A p \in tab[t].done : linked[p] = "passed"
    /\ finish[t].at \in {"active", "scored", "done"} => Settled(t)
    /\ finish[t].at = "scored" => Has(finish[t].counted, tab[t].done)

\* While no two submits overlapped, one at a time computes a score, of an assessment that
\* is active; a page that finished has its work in the row.
ScoreInv ==
    /\ \A t \in Tabs : finish[t].at = "done" => assessment.status = "completed"
    /\ ~raced =>
         /\ \A t, u \in Scoring : t = u
         /\ Scoring # {} => assessment.status = "active"
         /\ \A t \in Tabs : finish[t].at = "done" => Has(assessment.counted, tab[t].done)

AssessmentInv ==
    /\ AssessmentTypes
    /\ \A t \in Tabs : WorkInv(t)
    /\ ScoreInv

LEMMA AssessmentStarts == AssessmentInit => AssessmentInv
<1> SUFFICES ASSUME AssessmentInit PROVE AssessmentInv
  OBVIOUS
<1>1. (CHOOSE p \in Tasks : TRUE) \in Tasks
  BY AssessmentAssumption
<1>2. AssessmentTypes
  BY <1>1 DEF AssessmentInit, AssessmentTypes, Scores, Pages, Submits
<1> QED
  BY <1>2 DEF AssessmentInit, AssessmentInv, WorkInv, ScoreInv, Scoring, Has

\* A step of one page's work, which asks for no score and takes nothing into what the page
\* answers for.
LEMMA PageWorks ==
    ASSUME AssessmentInv, NEW t \in Tabs, NEW page \in Pages,
           tab' = [tab EXCEPT ![t] = page],
           page.done = tab[t].done,
           page.solution = "passedLate" => page.task = "linking" /\ clock = "over",
           page.task \in {"none", "judged"} => page.solution = "none",
           page.task = "none" \/ (page.early => tab[t].early /\ tab[t].task # "none")
             \/ ~(finish[t].at \in {"active", "scored", "done"}),
           UNCHANGED <<clock, assessment, linked, finish, raced>>
    PROVE  AssessmentInv'
<1>1. AssessmentTypes'
  BY DEF AssessmentInv, AssessmentTypes
<1>2. tab'[t] = page /\ \A u \in Tabs \ {t} : tab'[u] = tab[u]
  BY DEF AssessmentInv, AssessmentTypes
<1>3. \A u \in Tabs : tab'[u].done = tab[u].done
  BY <1>2
<1>4. ASSUME NEW u \in Tabs PROVE WorkInv(u)'
  <2>1. WorkInv(u)
    BY DEF AssessmentInv
  <2>2. CASE u # t
    BY <1>2, <2>1, <2>2 DEF WorkInv, Settled, Has
  <2>3. CASE u = t
    BY <1>2, <2>1, <2>3 DEF WorkInv, Settled, Has, AssessmentInv, AssessmentTypes, Pages
  <2> QED
    BY <2>2, <2>3
<1>5. ScoreInv'
  BY <1>3 DEF AssessmentInv, ScoreInv, Scoring, Has
<1> QED
  BY <1>1, <1>4, <1>5 DEF AssessmentInv

LEMMA SubmitsProblem ==
    ASSUME AssessmentInv, NEW t \in Tabs, NEW p \in Tasks, SubmitProblem(t, p)
    PROVE  AssessmentInv'
<1>1. tab[t] \in Pages /\ tab[t].task = "none" /\ tab[t].solution = "none"
  BY DEF AssessmentInv, AssessmentTypes, WorkInv, SubmitProblem
<1>2. PICK early \in BOOLEAN : early = ~Finishing(t)
  OBVIOUS
<1> DEFINE page == [tab[t] EXCEPT !.task = "judged", !.problem = p, !.early = early]
<1>3. page \in Pages /\ page.done = tab[t].done /\ page.solution = "none"
      /\ page.task = "judged" /\ page.early = early
  BY <1>1 DEF Pages
<1>4. tab' = [tab EXCEPT ![t] = page]
  BY <1>2, Zenon DEF SubmitProblem
<1> HIDE DEF page
<1>5. page.early => ~(finish[t].at \in {"active", "scored", "done"})
  BY <1>2, <1>3 DEF Finishing
<1> QED
  BY <1>3, <1>4, <1>5, PageWorks DEF SubmitProblem

LEMMA JudgesProblem ==
    ASSUME AssessmentInv, NEW t \in Tabs, Judge(t) \/ CheckDeadline(t)
    PROVE  AssessmentInv'
<1>1. tab[t] \in Pages /\ WorkInv(t)
  BY DEF AssessmentInv, AssessmentTypes
<1>2. ASSUME NEW task \in {"none", "judged", "linking", "accepted"},
             NEW solution \in {"none", "failed", "passed", "passedLate"},
             tab' = [tab EXCEPT ![t].task = task, ![t].solution = solution],
             tab[t].task # "none",
             solution = "passedLate" => task = "linking" /\ clock = "over",
             task \in {"none", "judged"} => solution = "none",
             UNCHANGED <<clock, assessment, linked, finish, raced>>
      PROVE  AssessmentInv'
  <2> DEFINE page == [tab[t] EXCEPT !.task = task, !.solution = solution]
  <2>1. page \in Pages /\ page.done = tab[t].done /\ page.solution = solution
        /\ page.task = task /\ page.early = tab[t].early
    BY <1>1 DEF Pages
  <2>2. tab' = [tab EXCEPT ![t] = page]
    BY <1>2
  <2> HIDE DEF page
  <2> QED
    BY <1>2, <2>1, <2>2, PageWorks
<1>3. CASE Judge(t)
  <2>1. CASE tab' = [tab EXCEPT ![t].task = "none"]
    <3> DEFINE page == [tab[t] EXCEPT !.task = "none"]
    <3>1. page \in Pages /\ page.done = tab[t].done /\ page.task = "none"
          /\ page.solution = "none"
      BY <1>1, <1>3 DEF Pages, WorkInv, Judge
    <3>2. tab' = [tab EXCEPT ![t] = page]
      BY <2>1
    <3> HIDE DEF page
    <3> QED
      BY <1>3, <3>1, <3>2, PageWorks DEF Judge
  <2>2. ASSUME NEW solution \in {"failed", Verdict},
               tab' = [tab EXCEPT ![t].task = "linking", ![t].solution = solution]
        PROVE  AssessmentInv'
    <3>1. /\ solution \in {"none", "failed", "passed", "passedLate"}
          /\ solution = "passedLate" => clock = "over"
      BY <2>2 DEF Verdict
    <3> QED
      BY <1>2, <1>3, <2>2, <3>1 DEF Judge
  <2> QED
    BY <1>3, <2>1, <2>2 DEF Judge
<1>4. CASE CheckDeadline(t)
  <2>1. CASE Accepts
    <3>1. tab' = [tab EXCEPT ![t].task = "accepted", ![t].solution = tab[t].solution]
      BY <1>4, <2>1 DEF CheckDeadline
    <3>2. tab[t].solution # "passedLate"
      BY <1>1, <2>1 DEF WorkInv, Accepts
    <3>3. tab[t].solution \in {"none", "failed", "passed", "passedLate"}
      BY <1>1 DEF Pages
    <3> QED
      BY <1>2, <1>4, <3>1, <3>2, <3>3 DEF CheckDeadline
  <2>2. CASE ~Accepts
    <3>1. tab' = [tab EXCEPT ![t].task = "none", ![t].solution = "none"]
      BY <1>4, <2>2 DEF CheckDeadline
    <3> QED
      BY <1>2, <1>4, <3>1 DEF CheckDeadline
  <2> QED
    BY <2>1, <2>2
<1> QED
  BY <1>3, <1>4

\* A link takes from the other pages what it replaces, and gives its own page nothing once
\* that page's score is being computed.
LEMMA Links ==
    ASSUME AssessmentInv, NEW t \in Tabs, Link(t)
    PROVE  AssessmentInv'
<1> DEFINE p == tab[t].problem
           solution == tab[t].solution
<1>1. p \in Tasks /\ solution \in {"none", "failed", "passed"} /\ tab[t].task = "accepted"
  BY DEF AssessmentInv, AssessmentTypes, Pages, WorkInv, Link
<1>2. UNCHANGED <<clock, assessment, finish, raced>>
      /\ linked' = [linked EXCEPT ![p] = solution]
  BY DEF Link
<1>3. PICK answered \in BOOLEAN :
        tab' = [u \in Tabs |->
                  IF u # t THEN [tab[u] EXCEPT !.done = @ \ {p}]
                  ELSE [tab[t] EXCEPT !.task = "none", !.solution = "none",
                          !.done = IF answered /\ tab[t].early /\ Passes(solution)
                                   THEN @ \cup {p} ELSE @ \ {p}]]
  BY Zenon DEF Link
<1> DEFINE done == IF answered /\ tab[t].early /\ Passes(solution)
                   THEN tab[t].done \cup {p} ELSE tab[t].done \ {p}
<1>4. /\ done \in SUBSET Tasks
      /\ tab'[t] = [tab[t] EXCEPT !.task = "none", !.solution = "none", !.done = done]
  <2>1. tab[t].done \in SUBSET Tasks
    BY DEF AssessmentInv, AssessmentTypes, Pages
  <2>2. done \in SUBSET Tasks
    BY <1>1, <2>1
  <2>3. tab'[t] = [tab[t] EXCEPT !.task = "none", !.solution = "none", !.done = done]
    BY <1>3
  <2> QED
    BY <2>2, <2>3
<1>5. /\ tab'[t] \in Pages /\ tab'[t].task = "none" /\ tab'[t].solution = "none"
      /\ tab'[t].done = done
  <2>1. tab[t] \in Pages
    BY DEF AssessmentInv, AssessmentTypes
  <2> HIDE DEF done
  <2> QED
    BY <1>4, <2>1 DEF Pages
<1>6. ASSUME NEW u \in Tabs, u # t
      PROVE  /\ tab'[u] \in Pages /\ tab'[u].done = tab[u].done \ {p}
             /\ tab'[u].task = tab[u].task /\ tab'[u].solution = tab[u].solution
             /\ tab'[u].early = tab[u].early
  <2>1. tab[u] \in Pages
    BY DEF AssessmentInv, AssessmentTypes
  <2>2. tab'[u] = [tab[u] EXCEPT !.done = @ \ {p}]
    BY <1>3, <1>6
  <2> HIDE DEF p
  <2> QED
    BY <2>1, <2>2 DEF Pages
<1>7. AssessmentTypes'
  <2>1. DOMAIN tab' = Tabs /\ tab' = [u \in Tabs |-> tab'[u]]
    BY <1>3
  <2>2. tab' \in [Tabs -> Pages]
    BY <1>5, <1>6, <2>1
  <2> QED
    BY <1>1, <1>2, <2>2 DEF AssessmentInv, AssessmentTypes
<1>8. finish[t].at \in {"active", "scored", "done"} => tab'[t].done \subseteq tab[t].done
  BY <1>1, <1>4, <1>5 DEF AssessmentInv, WorkInv, Settled
<1>9. \A u \in Tabs : finish[u].at \in {"active", "scored", "done"}
                       => tab'[u].done \subseteq tab[u].done
  BY <1>6, <1>8
<1>10. ASSUME NEW u \in Tabs PROVE WorkInv(u)'
  <2>1. WorkInv(u)
    BY DEF AssessmentInv
  <2>2. \A q \in tab'[u].done : linked'[q] = "passed"
    <3>1. linked \in [Tasks -> {"none", "failed", "passed"}] /\ tab[u].done \subseteq Tasks
      BY DEF AssessmentInv, AssessmentTypes, Pages
    <3>2. CASE u # t
      BY <1>2, <1>6, <2>1, <3>1, <3>2 DEF WorkInv
    <3>3. CASE u = t
      <4>1. solution = "passed" \/ done = tab[t].done \ {p}
        BY <1>1 DEF Passes
      <4>2. \A q \in done \ {p} : q \in tab[t].done
        OBVIOUS
      <4>3. p \in done => solution = "passed"
        BY <4>1
      <4> HIDE DEF done, p, solution
      <4> QED
        BY <1>1, <1>2, <1>5, <2>1, <3>1, <3>3, <4>2, <4>3 DEF WorkInv
    <3> QED
      BY <3>2, <3>3
  <2>3. finish[u].at = "scored" => Has(finish[u].counted, tab'[u].done)
    BY <1>9, <2>1 DEF WorkInv, Has
  <2> QED
    BY <1>2, <1>5, <1>6, <2>1, <2>2, <2>3 DEF WorkInv, Settled, Has
<1>11. ScoreInv'
  BY <1>2, <1>9 DEF AssessmentInv, ScoreInv, Scoring, Has
<1> QED
  BY <1>7, <1>10, <1>11 DEF AssessmentInv

\* A step of one submit that neither begins to score nor ends.
LEMMA SubmitMoves ==
    ASSUME AssessmentInv, NEW t \in Tabs, NEW at, NEW counted \in Scores,
           at \in {"none", "waiting", "failed", "scored"},
           at = "scored" => /\ finish[t].at \in {"active", "scored"}
                            /\ Has(counted, tab[t].done),
           finish' = [finish EXCEPT ![t] = [at |-> at, counted |-> counted]],
           UNCHANGED <<clock, assessment, linked, tab, raced>>
    PROVE  AssessmentInv'
<1>1. AssessmentTypes'
  BY DEF AssessmentInv, AssessmentTypes, Submits
<1>2. /\ finish'[t].at = at /\ finish'[t].counted = counted
      /\ \A u \in Tabs \ {t} : finish'[u] = finish[u]
  BY DEF AssessmentInv, AssessmentTypes
<1>3. ASSUME NEW u \in Tabs PROVE WorkInv(u)'
  <2>1. WorkInv(u)
    BY DEF AssessmentInv
  <2>2. CASE u = t
    BY <1>2, <2>1, <2>2 DEF WorkInv, Settled, Has
  <2>3. CASE u # t
    BY <1>2, <2>1, <2>3 DEF WorkInv, Settled, Has
  <2> QED
    BY <2>2, <2>3
<1>4. Scoring' \subseteq Scoring
  BY <1>2 DEF Scoring
<1>5. ScoreInv'
  BY <1>2, <1>4 DEF AssessmentInv, ScoreInv, Has
<1> QED
  BY <1>1, <1>3, <1>5 DEF AssessmentInv

\* The page's timer, or a finish that begins and waits for what is being submitted.
LEMMA FinishBegins ==
    ASSUME AssessmentInv, NEW t \in Tabs,
           NEW page \in {"working", "timedOut", "finished"}, NEW early \in BOOLEAN, NEW at,
           /\ tab' = [tab EXCEPT ![t] = [tab[t] EXCEPT !.page = page, !.early = early]]
           /\ finish' = [finish EXCEPT ![t] = [finish[t] EXCEPT !.at = at]]
           /\ UNCHANGED <<clock, assessment, linked, raced>>,
           \/ at = finish[t].at /\ early = tab[t].early
           \/ at = "waiting" /\ finish[t].at \in {"none", "failed"}
    PROVE  AssessmentInv'
<1>1. tab[t] \in Pages /\ finish[t] \in Submits
  BY DEF AssessmentInv, AssessmentTypes
<1>2. /\ tab' = [tab EXCEPT ![t] = [tab[t] EXCEPT !.page = page, !.early = early]]
      /\ finish' = [finish EXCEPT ![t] = [finish[t] EXCEPT !.at = at]]
      /\ UNCHANGED <<clock, assessment, linked, raced>>
  OBVIOUS
<1>3. \/ at = finish[t].at /\ early = tab[t].early
      \/ at = "waiting" /\ finish[t].at \in {"none", "failed"}
  OBVIOUS
<1>4. AssessmentTypes'
  <2>1. [tab[t] EXCEPT !.page = page, !.early = early] \in Pages
    BY <1>1 DEF Pages
  <2>2. [finish[t] EXCEPT !.at = at] \in Submits
    BY <1>1, <1>3 DEF Submits
  <2> QED
    BY <1>2, <2>1, <2>2 DEF AssessmentInv, AssessmentTypes
<1>5. ASSUME NEW u \in Tabs
      PROVE  /\ tab'[u].task = tab[u].task /\ tab'[u].solution = tab[u].solution
             /\ tab'[u].done = tab[u].done
             /\ finish'[u].counted = finish[u].counted
             /\ \/ finish'[u].at = finish[u].at /\ tab'[u].early = tab[u].early
                \/ finish'[u].at = "waiting" /\ finish[u].at \in {"none", "failed"}
  <2>1. tab \in [Tabs -> Pages] /\ finish \in [Tabs -> Submits]
    BY DEF AssessmentInv, AssessmentTypes
  <2>2. CASE u = t
    BY <1>2, <1>3, <2>1, <2>2 DEF Pages, Submits
  <2>3. CASE u # t
    BY <1>2, <2>1, <2>3
  <2> QED
    BY <2>2, <2>3
<1>6. Scoring' = Scoring
  BY <1>5 DEF Scoring
<1>7. ScoreInv'
  BY <1>2, <1>5, <1>6 DEF AssessmentInv, ScoreInv, Has
<1>8. ASSUME NEW u \in Tabs PROVE WorkInv(u)'
  <2>1. WorkInv(u)
    BY DEF AssessmentInv
  <2> QED
    BY <1>2, <1>5, <2>1 DEF WorkInv, Settled, Has
<1> QED
  BY <1>4, <1>7, <1>8 DEF AssessmentInv

LEMMA Finishes ==
    ASSUME AssessmentInv, NEW t \in Tabs, FinishAssessment(t) \/ FinishFails(t)
    PROVE  AssessmentInv'
<1>1. tab[t] \in Pages /\ finish[t] \in Submits /\ {} \in Scores
  BY DEF AssessmentInv, AssessmentTypes, Scores
<1>2. CASE FinishAssessment(t)
  <2>1. tab' = [tab EXCEPT ![t] = [tab[t] EXCEPT !.page = tab[t].page, !.early = TRUE]]
    <3>1. [tab[t] EXCEPT !.page = tab[t].page, !.early = TRUE] = [tab[t] EXCEPT !.early = TRUE]
      BY <1>1 DEF Pages
    <3> QED
      BY <1>2, <3>1 DEF FinishAssessment
  <2>2. tab[t].page \in {"working", "timedOut", "finished"}
    BY <1>1 DEF Pages
  <2> QED
    BY <1>2, <2>1, <2>2, FinishBegins DEF FinishAssessment
<1>3. CASE FinishFails(t)
  BY <1>1, <1>3, SubmitMoves DEF FinishFails
<1> QED
  BY <1>2, <1>3

LEMMA TimesOut ==
    ASSUME AssessmentInv, NEW t \in Tabs, TimeOut(t)
    PROVE  AssessmentInv'
<1>1. tab[t] \in Pages
  BY DEF AssessmentInv, AssessmentTypes
<1>2. PICK early \in BOOLEAN : early = (tab[t].early \/ ~Finishing(t))
  BY <1>1 DEF Pages
<1>3. PICK at : at = IF Finishing(t) THEN finish[t].at ELSE "waiting"
  OBVIOUS
<1>4. /\ tab' = [tab EXCEPT ![t] = [tab[t] EXCEPT !.page = "timedOut", !.early = early]]
      /\ finish' = [finish EXCEPT ![t] = [finish[t] EXCEPT !.at = at]]
      /\ UNCHANGED <<clock, assessment, linked, raced>>
  BY <1>2, <1>3 DEF TimeOut
<1>5. CASE Finishing(t)
  BY <1>1, <1>2, <1>3, <1>4, <1>5, FinishBegins DEF Pages
<1>6. CASE ~Finishing(t)
  BY <1>2, <1>3, <1>4, <1>6, FinishBegins DEF Finishing
<1> QED
  BY <1>5, <1>6

\* The request goes on only with an active assessment; if another one is on its way, the
\* two overlap.
LEMMA AsksForScore ==
    ASSUME AssessmentInv, NEW t \in Tabs, SubmitAssessment(t)
    PROVE  AssessmentInv'
<1>1. finish[t] \in Submits /\ finish \in [Tabs -> Submits] /\ raced \in BOOLEAN
  BY DEF AssessmentInv, AssessmentTypes
<1>2. UNCHANGED <<clock, assessment, linked, tab>> /\ Settled(t) /\ finish[t].at = "waiting"
  BY DEF SubmitAssessment
<1>3. CASE assessment.status = "active"
  <2>1. finish' = [finish EXCEPT ![t].at = "active"] /\ raced' = (raced \/ Scoring # {})
    BY <1>3 DEF SubmitAssessment
  <2>2. raced' \in BOOLEAN
    BY <2>1
  <2>3. AssessmentTypes'
    BY <1>1, <1>2, <2>1, <2>2 DEF AssessmentInv, AssessmentTypes, Submits
  <2>4. /\ finish'[t].at = "active" /\ \A u \in Tabs \ {t} : finish'[u] = finish[u]
    BY <1>1, <2>1 DEF Submits
  <2>5. ASSUME NEW u \in Tabs PROVE WorkInv(u)'
    <3>1. WorkInv(u)
      BY DEF AssessmentInv
    <3>2. CASE u = t
      BY <1>2, <2>4, <3>1, <3>2 DEF WorkInv, Settled
    <3>3. CASE u # t
      BY <1>2, <2>4, <3>1, <3>3 DEF WorkInv, Settled, Has
    <3> QED
      BY <3>2, <3>3
  <2>6. ~raced' => ~raced /\ Scoring = {}
    BY <1>1, <2>1
  <2>7. Scoring' \subseteq Scoring \cup {t}
    BY <2>4 DEF Scoring
  <2>8. ScoreInv'
    BY <1>2, <1>3, <2>4, <2>6, <2>7 DEF AssessmentInv, ScoreInv, Has
  <2> QED
    BY <2>3, <2>5, <2>8 DEF AssessmentInv
<1>4. CASE assessment.status # "active"
  <2>1. finish' = [finish EXCEPT ![t] = [finish[t] EXCEPT !.at = "failed"]]
        /\ UNCHANGED raced
    BY <1>4 DEF SubmitAssessment
  <2>2. [finish[t] EXCEPT !.at = "failed"] = [at |-> "failed", counted |-> finish[t].counted]
        /\ finish[t].counted \in Scores
    BY <1>1 DEF Submits
  <2> QED
    BY <1>2, <2>1, <2>2, SubmitMoves
<1> QED
  BY <1>3, <1>4

LEMMA ReadsSolutions ==
    ASSUME AssessmentInv, NEW t \in Tabs, ReadSolutions(t)
    PROVE  AssessmentInv'
<1> DEFINE counted == {<<p, linked[p]>> : p \in {q \in Tasks : Passes(linked[q])}}
<1>1. \A q \in Tasks : Passes(linked[q]) <=> linked[q] = "passed"
  BY DEF AssessmentInv, AssessmentTypes, Passes
<1>2. counted \in Scores
  BY <1>1 DEF Scores
<1>3. Has(counted, tab[t].done)
  <2>1. tab[t].done \subseteq Tasks /\ \A p \in tab[t].done : linked[p] = "passed"
    BY DEF AssessmentInv, AssessmentTypes, Pages, WorkInv
  <2> QED
    BY <1>1, <2>1 DEF Has
<1>4. finish' = [finish EXCEPT ![t] = [at |-> "scored", counted |-> counted]]
  BY DEF ReadSolutions
<1> HIDE DEF counted
<1> QED
  BY <1>2, <1>3, <1>4, SubmitMoves DEF ReadSolutions

LEMMA Completes ==
    ASSUME AssessmentInv, NEW t \in Tabs, Complete(t)
    PROVE  AssessmentInv'
<1>1. tab[t] \in Pages /\ finish[t] \in Submits /\ WorkInv(t) /\ finish[t].at = "scored"
  BY DEF AssessmentInv, AssessmentTypes, Complete
<1>2. PICK page \in {"finished", tab[t].page} :
        /\ tab' = [tab EXCEPT ![t] = [tab[t] EXCEPT !.page = page]]
        /\ finish' = [finish EXCEPT ![t] =
              [at |-> IF page = "finished" THEN "done" ELSE "failed", counted |-> {}]]
  BY DEF Complete
<1>3. PICK at \in {"done", "failed"} : finish' = [finish EXCEPT ![t] = [at |-> at, counted |-> {}]]
  BY <1>2
<1>4. /\ UNCHANGED <<clock, linked, raced>>
      /\ assessment' = [status |-> "completed", counted |-> finish[t].counted]
  BY DEF Complete
<1>5. AssessmentTypes'
  <2>1. page \in {"working", "timedOut", "finished"} /\ {} \in Scores
    BY <1>1, <1>2 DEF Pages, Scores
  <2>2. tab' \in [Tabs -> Pages]
    BY <1>1, <1>2, <2>1 DEF AssessmentInv, AssessmentTypes, Pages
  <2>3. finish' \in [Tabs -> Submits]
    BY <1>3, <2>1 DEF AssessmentInv, AssessmentTypes, Submits
  <2>4. finish[t].counted \in Scores
    BY <1>1 DEF Submits
  <2> QED
    BY <1>4, <2>2, <2>3, <2>4 DEF AssessmentInv, AssessmentTypes
<1>6. ASSUME NEW u \in Tabs
      PROVE  /\ tab'[u].task = tab[u].task /\ tab'[u].solution = tab[u].solution
             /\ tab'[u].early = tab[u].early /\ tab'[u].done = tab[u].done
             /\ IF u = t THEN finish'[u].at = at ELSE finish'[u] = finish[u]
  <2>1. tab \in [Tabs -> Pages] /\ finish \in [Tabs -> Submits]
    BY DEF AssessmentInv, AssessmentTypes
  <2>2. CASE u = t
    BY <1>2, <1>3, <2>1, <2>2 DEF Pages
  <2>3. CASE u # t
    BY <1>2, <1>3, <2>1, <2>3
  <2> QED
    BY <2>2, <2>3
<1>7. ASSUME NEW u \in Tabs PROVE WorkInv(u)'
  <2>1. WorkInv(u)
    BY DEF AssessmentInv
  <2>2. CASE u = t
    BY <1>1, <1>3, <1>4, <1>6, <2>1, <2>2 DEF WorkInv, Settled
  <2>3. CASE u # t
    BY <1>4, <1>6, <2>1, <2>3 DEF WorkInv, Settled, Has
  <2> QED
    BY <2>2, <2>3
<1>8. ScoreInv'
  <2>1. t \in Scoring
    BY <1>1 DEF Scoring
  <2>2. Scoring' \subseteq Scoring \ {t}
    BY <1>3, <1>6 DEF Scoring
  <2>3. ASSUME ~raced
        PROVE  /\ Scoring' = {}
               /\ \A u \in Tabs : finish'[u].at = "done" => u = t
    <3>1. Scoring = {t} /\ assessment.status = "active"
      BY <2>1, <2>3 DEF AssessmentInv, ScoreInv, Scoring
    <3> QED
      BY <1>6, <2>2, <3>1 DEF AssessmentInv, ScoreInv
  <2>4. Has(assessment'.counted, tab'[t].done)
    BY <1>1, <1>4, <1>6 DEF WorkInv, Has
  <2>5. assessment'.status = "completed"
    BY <1>4
  <2> QED
    BY <1>4, <2>3, <2>4, <2>5 DEF ScoreInv
<1> QED
  BY <1>5, <1>7, <1>8 DEF AssessmentInv

LEMMA AssessmentStep == AssessmentInv /\ [AssessmentNext]_assessmentVars => AssessmentInv'
<1> SUFFICES ASSUME AssessmentInv, [AssessmentNext]_assessmentVars PROVE AssessmentInv'
  OBVIOUS
<1>1. CASE UNCHANGED assessmentVars
  BY <1>1 DEF assessmentVars, AssessmentInv, AssessmentTypes, WorkInv, ScoreInv, Settled,
     Scoring, Has
<1>2. CASE PassTime
  <2>1. UNCHANGED <<assessment, linked, tab, finish, raced>>
        /\ clock' \in {"open", "grace", "over"} /\ clock # "over"
    BY <1>2 DEF PassTime
  <2> QED
    BY <2>1 DEF AssessmentInv, AssessmentTypes, WorkInv, ScoreInv, Settled, Scoring, Has
<1>3. ASSUME NEW t \in Tabs, WorkStep(t) PROVE AssessmentInv'
  BY <1>3, SubmitsProblem, JudgesProblem, Links DEF WorkStep
<1>4. ASSUME NEW t \in Tabs, FinishStep(t) PROVE AssessmentInv'
  BY <1>4, Finishes, TimesOut, AsksForScore, ReadsSolutions, Completes DEF FinishStep
<1> QED
  BY <1>1, <1>2, <1>3, <1>4 DEF AssessmentNext

\* Whichever tabs submit, link and finish, and whatever their timers do: a score counts
\* only what was stored in time (linkSolution looks at the deadline again).
THEOREM NoLateWork == AssessmentSpec => []LateWorkNotCounted
<1>1. AssessmentInv => LateWorkNotCounted
  BY DEF AssessmentInv, AssessmentTypes, Scores, LateWorkNotCounted
<1> QED
  BY <1>1, AssessmentStarts, AssessmentStep, PTL DEF AssessmentSpec

\* A page that finished has what it had begun before in the score, unless two submits
\* overlapped (finishAssessment waits for the page's own submission).
THEOREM OwnWorkKept == AssessmentSpec => []OwnWorkCounted
<1>1. AssessmentInv => OwnWorkCounted
  <2> SUFFICES ASSUME AssessmentInv, NEW t \in Tabs, finish[t].at = "done", ~raced,
                      NEW p \in tab[t].done
               PROVE  p \in {c[1] : c \in assessment.counted}
    BY DEF OwnWorkCounted
  <2>1. <<p, "passed">> \in assessment.counted
    BY DEF AssessmentInv, ScoreInv, Has
  <2> QED
    BY <2>1
<1> QED
  BY <1>1, AssessmentStarts, AssessmentStep, PTL DEF AssessmentSpec

------------------------------------------------------------------------------
(* Resumes *)

IsCollection(c) == {"creator", "chunks"} \subseteq DOMAIN c /\ c.chunks \subseteq Uploads

UploadStages == {"idle", "sent", "embedded", "purged", "opened", "stored", "done", "failed"}
DeletionStages == {"idle", "asked", "purged", "checked", "done", "failed"}

ResumeTypes ==
    /\ resumeRow \in Uploads \cup {NoRow}
    /\ IsCollection(collection)
    /\ DOMAIN upload = Uploads
    /\ \A u \in Uploads : "at" \in DOMAIN upload[u] /\ upload[u].at \in UploadStages
    /\ deletion \in [Deletions -> DeletionStages]
    /\ amiss \in [overlapped : BOOLEAN, lost : BOOLEAN, stale : BOOLEAN, swallowed : BOOLEAN]

Uploading(u) == upload[u].at \notin Over
Deleting(d) == deletion[d] \notin Over

\* What RowMatchesChunks says of a user whose requests are over.
Agrees ==
    /\ resumeRow # NoRow /\ ~amiss.lost => resumeRow \in collection.chunks
    /\ ~amiss.stale /\ ~amiss.swallowed => collection.chunks \subseteq {resumeRow}

Emptied == ~amiss.stale /\ ~amiss.swallowed => collection.chunks = {}

\* What each stage of a request that is alone leaves of it.
UploadInv(u) ==
    /\ upload[u].at \in {"sent", "embedded"} => Agrees
    /\ upload[u].at \in {"purged", "opened"} => Emptied
    /\ upload[u].at = "stored" =>
         /\ u \in collection.chunks
         /\ ~amiss.stale /\ ~amiss.swallowed => collection.chunks \subseteq {u}

DeletionInv(d) ==
    /\ deletion[d] = "asked" => Agrees
    /\ deletion[d] = "purged" => Agrees \/ collection.chunks = {}
    /\ deletion[d] = "checked" => Emptied

Alone ==
    /\ \A u, v \in Uploads : Uploading(u) /\ Uploading(v) => u = v
    /\ \A d, e \in Deletions : Deleting(d) /\ Deleting(e) => d = e
    /\ \A u \in Uploads, d \in Deletions : ~(Uploading(u) /\ Deleting(d))

ResumeInv ==
    /\ ResumeTypes
    /\ ~amiss.overlapped =>
         /\ Alone
         /\ Resting => Agrees
         /\ \A u \in Uploads : UploadInv(u)
         /\ \A d \in Deletions : DeletionInv(d)

LEMMA ResumeStarts == ResumeInit => ResumeInv
<1> SUFFICES ASSUME ResumeInit PROVE ResumeInv
  OBVIOUS
<1>1. ResumeTypes
  BY DEF ResumeInit, ResumeTypes, IsCollection, Dropped, UploadStages, DeletionStages
<1>2. Alone /\ Agrees
  BY DEF ResumeInit, Alone, Uploading, Deleting, Over, Agrees, Dropped
<1> QED
  BY <1>1, <1>2 DEF ResumeInv, UploadInv, DeletionInv, ResumeInit

\* A step of an upload that is under way: what it must leave of it.
LEMMA UploadMoves ==
    ASSUME ResumeInv, NEW u \in Uploads, NEW at \in UploadStages, Uploading(u),
           upload'[u].at = at, "at" \in DOMAIN upload'[u], DOMAIN upload' = Uploads,
           \A v \in Uploads \ {u} : upload'[v] = upload[v],
           deletion' = deletion,
           resumeRow' \in Uploads \cup {NoRow}, IsCollection(collection'),
           amiss' \in [overlapped : BOOLEAN, lost : BOOLEAN, stale : BOOLEAN, swallowed : BOOLEAN],
           amiss'.overlapped = amiss.overlapped,
           ~amiss.overlapped => IF at \in Over THEN Agrees' ELSE UploadInv(u)'
    PROVE  ResumeInv'
<1>1. ResumeTypes'
  BY DEF ResumeInv, ResumeTypes
<1>2. ASSUME ~amiss.overlapped
      PROVE  /\ Alone' /\ (Resting' => Agrees')
             /\ \A v \in Uploads : UploadInv(v)'
             /\ \A d \in Deletions : DeletionInv(d)'
  <2>1. /\ \A v \in Uploads \ {u} : upload[v].at \in Over
        /\ \A d \in Deletions : deletion[d] \in Over
    BY <1>2 DEF ResumeInv, Alone, Uploading, Deleting
  <2>2. Alone'
    BY <2>1 DEF Alone, Uploading, Deleting
  <2>3. Resting' => Agrees'
    BY <1>2 DEF Resting
  <2>4. UploadInv(u)'
    BY <1>2 DEF UploadInv, Over
  <2>5. \A v \in Uploads \ {u} : UploadInv(v)'
    BY <2>1 DEF UploadInv, Over
  <2>6. \A d \in Deletions : DeletionInv(d)'
    BY <2>1 DEF DeletionInv, Over
  <2> QED
    BY <2>2, <2>3, <2>4, <2>5, <2>6
<1> QED
  BY <1>1, <1>2 DEF ResumeInv

LEMMA DeletionMoves ==
    ASSUME ResumeInv, NEW d \in Deletions, NEW at \in DeletionStages, Deleting(d),
           deletion' = [deletion EXCEPT ![d] = at],
           upload' = upload,
           resumeRow' \in Uploads \cup {NoRow}, IsCollection(collection'),
           amiss' \in [overlapped : BOOLEAN, lost : BOOLEAN, stale : BOOLEAN, swallowed : BOOLEAN],
           amiss'.overlapped = amiss.overlapped,
           ~amiss.overlapped => IF at \in Over THEN Agrees' ELSE DeletionInv(d)'
    PROVE  ResumeInv'
<1>1. ResumeTypes'
  BY DEF ResumeInv, ResumeTypes
<1>2. deletion'[d] = at /\ \A e \in Deletions \ {d} : deletion'[e] = deletion[e]
  BY DEF ResumeInv, ResumeTypes
<1>3. ASSUME ~amiss.overlapped
      PROVE  /\ Alone' /\ (Resting' => Agrees')
             /\ \A v \in Uploads : UploadInv(v)'
             /\ \A e \in Deletions : DeletionInv(e)'
  <2>1. /\ \A v \in Uploads : upload[v].at \in Over
        /\ \A e \in Deletions \ {d} : deletion[e] \in Over
    BY <1>3 DEF ResumeInv, Alone, Uploading, Deleting
  <2>2. Alone'
    BY <1>2, <2>1 DEF Alone, Uploading, Deleting
  <2>3. Resting' => Agrees'
    BY <1>2, <1>3 DEF Resting
  <2>4. DeletionInv(d)'
    BY <1>2, <1>3 DEF DeletionInv, Over
  <2>5. \A e \in Deletions \ {d} : DeletionInv(e)'
    BY <1>2, <2>1 DEF DeletionInv, Over
  <2>6. \A v \in Uploads : UploadInv(v)'
    BY <2>1 DEF UploadInv, Over
  <2> QED
    BY <2>2, <2>3, <2>4, <2>5, <2>6
<1> QED
  BY <1>1, <1>3 DEF ResumeInv

\* A request that begins while another is under way is not alone.
LEMMA RequestBegins ==
    ASSUME ResumeInv,
           \/ \E u \in Uploads : Submit(u)
           \/ \E d \in Deletions : Ask(d)
    PROVE  ResumeInv'
<1>1. UNCHANGED <<resumeRow, collection>> /\ Overlap
  BY DEF Submit, Ask
<1>2. PICK o \in BOOLEAN : o = (amiss.overlapped \/ ~Resting)
  BY Zenon
<1>3. amiss' = [amiss EXCEPT !.overlapped = o]
  BY <1>1, <1>2, Zenon DEF Overlap
<1>4. amiss \in [overlapped : BOOLEAN, lost : BOOLEAN, stale : BOOLEAN, swallowed : BOOLEAN]
  BY DEF ResumeInv, ResumeTypes
<1>5. /\ amiss' \in [overlapped : BOOLEAN, lost : BOOLEAN, stale : BOOLEAN, swallowed : BOOLEAN]
      /\ amiss'.lost = amiss.lost /\ amiss'.stale = amiss.stale /\ amiss'.overlapped = o
      /\ amiss'.swallowed = amiss.swallowed
  BY <1>3, <1>4
<1>6. ~amiss'.overlapped => ~amiss.overlapped /\ Resting
  BY <1>2, <1>4, <1>5
<1>7. Agrees' <=> Agrees
  BY <1>1, <1>5 DEF Agrees
<1>8. ASSUME NEW u \in Uploads, Submit(u) PROVE ResumeInv'
  <2>1. DOMAIN upload = Uploads /\ "at" \in DOMAIN upload[u]
    BY DEF ResumeInv, ResumeTypes
  <2>2. deletion' = deletion /\ upload' = [upload EXCEPT ![u] = [upload[u] EXCEPT !.at = "sent"]]
    BY <1>8 DEF Submit, UploadAt
  <2>3. /\ DOMAIN upload' = Uploads /\ upload'[u].at = "sent" /\ "at" \in DOMAIN upload'[u]
        /\ \A v \in Uploads \ {u} : upload'[v] = upload[v]
    BY <2>1, <2>2
  <2>4. ResumeTypes'
    BY <1>1, <1>5, <2>2, <2>3 DEF ResumeInv, ResumeTypes, UploadStages
  <2>5. ASSUME Resting
        PROVE  /\ Alone' /\ ~Resting'
               /\ \A v \in Uploads : upload'[v].at \in Over \/ v = u
               /\ \A d \in Deletions : deletion'[d] \in Over
    BY <2>2, <2>3, <2>5 DEF Resting, Alone, Uploading, Deleting, Over
  <2> QED
    BY <1>6, <1>7, <2>3, <2>4, <2>5 DEF ResumeInv, UploadInv, DeletionInv, Over
<1>9. ASSUME NEW d \in Deletions, Ask(d) PROVE ResumeInv'
  <2>1. deletion \in [Deletions -> DeletionStages]
    BY DEF ResumeInv, ResumeTypes
  <2>2. upload' = upload /\ deletion' = [deletion EXCEPT ![d] = "asked"]
    BY <1>9 DEF Ask, DeletionAt
  <2>3. deletion'[d] = "asked" /\ \A e \in Deletions \ {d} : deletion'[e] = deletion[e]
    BY <2>1, <2>2
  <2>4. ResumeTypes'
    BY <1>1, <1>5, <2>1, <2>2 DEF ResumeInv, ResumeTypes, DeletionStages
  <2>5. ASSUME Resting
        PROVE  /\ Alone' /\ ~Resting'
               /\ \A v \in Uploads : upload'[v].at \in Over
               /\ \A e \in Deletions : deletion'[e] \in Over \/ e = d
    BY <2>2, <2>3, <2>5 DEF Resting, Alone, Uploading, Deleting, Over
  <2> QED
    BY <1>6, <1>7, <2>3, <2>4, <2>5 DEF ResumeInv, UploadInv, DeletionInv, Over
<1> QED
  BY <1>8, <1>9

LEMMA UploadInvKept ==
    ASSUME ResumeInv, NEW u \in Uploads, UploadStep(u), ~Submit(u)
    PROVE  ResumeInv'
<1>1. /\ amiss \in [overlapped : BOOLEAN, lost : BOOLEAN, stale : BOOLEAN, swallowed : BOOLEAN]
      /\ resumeRow \in Uploads \cup {NoRow} /\ IsCollection(collection)
      /\ DOMAIN upload = Uploads /\ "at" \in DOMAIN upload[u] /\ NoRow \notin Uploads
  BY ResumeAssumption DEF ResumeInv, ResumeTypes
<1>2. ~amiss.overlapped => UploadInv(u)
  BY DEF ResumeInv
<1>3. ASSUME NEW at \in UploadStages, UploadAt(u, at)
      PROVE  /\ upload'[u].at = at /\ "at" \in DOMAIN upload'[u] /\ DOMAIN upload' = Uploads
             /\ \A v \in Uploads \ {u} : upload'[v] = upload[v]
  <2>1. upload' = [upload EXCEPT ![u] = [upload[u] EXCEPT !.at = at]]
    BY <1>3 DEF UploadAt
  <2> QED
    BY <1>1, <2>1
<1>4. CASE Refuse(u)
  <2>1. Uploading(u) /\ UploadAt(u, "failed") /\ UNCHANGED <<resumeRow, deletion, amiss>>
        /\ collection' = collection
    BY <1>4 DEF Refuse, AfterRefusal, Uploading, Over
  <2>2. ~amiss.overlapped => Agrees'
    BY <1>2, <1>4, <2>1 DEF Refuse, UploadInv, Agrees
  <2> QED
    BY <1>1, <1>3, <2>1, <2>2, UploadMoves DEF UploadStages, Over
<1>5. CASE Embed(u)
  <2>1. Uploading(u) /\ UploadAt(u, "embedded")
        /\ UNCHANGED <<resumeRow, collection, deletion, amiss>>
    BY <1>5 DEF Embed, Uploading, Over
  <2>2. upload'[u].at = "embedded"
    BY <1>3, <2>1 DEF UploadStages
  <2>3. ~amiss.overlapped => UploadInv(u)'
    BY <1>2, <1>5, <2>1, <2>2 DEF Embed, UploadInv, Agrees
  <2> QED
    BY <1>1, <1>3, <2>1, <2>3, UploadMoves DEF UploadStages, Over
<1>6. CASE PurgeOld(u)
  <2>1. Uploading(u) /\ UploadAt(u, "purged") /\ UNCHANGED <<resumeRow, deletion>>
        /\ collection' \in {Dropped, collection}
    BY <1>6 DEF PurgeOld, DropCollection, Uploading, Over
  <2>2. PICK c \in BOOLEAN : c = Left
    BY DEF Left
  <2>3. PICK b \in BOOLEAN : b = (amiss.stale /\ Left)
    BY Zenon
  <2>4. amiss' \in [overlapped : BOOLEAN, lost : BOOLEAN, stale : BOOLEAN, swallowed : BOOLEAN]
        /\ amiss'.overlapped = amiss.overlapped /\ amiss'.swallowed = c
    <3>1. amiss' = [amiss EXCEPT !.stale = b, !.swallowed = c]
      BY <1>6, <2>2, <2>3, Zenon DEF PurgeOld
    <3> QED
      BY <1>1, <3>1
  <2>5. IsCollection(collection')
    BY <1>1, <2>1 DEF Dropped, IsCollection
  <2>6. upload'[u].at = "purged"
    BY <1>3, <2>1 DEF UploadStages
  <2>7. UploadInv(u)'
    BY <2>2, <2>4, <2>6 DEF UploadInv, Emptied, Left
  <2> QED
    BY <1>1, <1>3, <2>1, <2>4, <2>5, <2>7, UploadMoves DEF UploadStages, Over
<1>7. CASE OpenCollection(u)
  <2>1. Uploading(u) /\ upload[u].at = "purged" /\ UNCHANGED <<resumeRow, deletion, amiss>>
        /\ collection' = IF collection.creator = NoCollection
                         THEN [collection EXCEPT !.creator = u] ELSE collection
    BY <1>7 DEF OpenCollection, Uploading, Over
  <2>2. collection'.chunks = collection.chunks /\ IsCollection(collection')
    BY <1>1, <2>1 DEF IsCollection
  <2>3. /\ upload'[u].at = "opened" /\ "at" \in DOMAIN upload'[u] /\ DOMAIN upload' = Uploads
        /\ \A v \in Uploads \ {u} : upload'[v] = upload[v]
    <3>1. PICK into : upload' = [upload EXCEPT ![u] = [at |-> "opened", into |-> into]]
      BY <1>7 DEF OpenCollection
    <3> QED
      BY <1>1, <3>1
  <2>4. ~amiss.overlapped => UploadInv(u)'
    BY <1>2, <2>1, <2>2, <2>3 DEF UploadInv, Emptied
  <2> QED
    BY <1>1, <2>1, <2>2, <2>3, <2>4, UploadMoves DEF UploadStages, Over
<1>8. CASE Upsert(u)
  <2>1. Uploading(u) /\ upload[u].at = "opened" /\ UploadAt(u, "stored")
        /\ UNCHANGED <<resumeRow, deletion, amiss>>
        /\ collection' = [collection EXCEPT !.chunks = @ \cup {u}]
    BY <1>8 DEF Upsert, Uploading, Over
  <2>2. collection'.chunks = collection.chunks \cup {u} /\ IsCollection(collection')
    BY <1>1, <2>1 DEF IsCollection
  <2>3. upload'[u].at = "stored"
    BY <1>3, <2>1 DEF UploadStages
  <2>4. ~amiss.overlapped => UploadInv(u)'
    BY <1>2, <2>1, <2>2, <2>3 DEF UploadInv, Emptied
  <2> QED
    BY <1>1, <1>3, <2>1, <2>2, <2>4, UploadMoves DEF UploadStages, Over
<1>9. CASE StoreFails(u)
  <2>1. Uploading(u) /\ UploadAt(u, "failed") /\ UNCHANGED <<resumeRow, deletion>>
        /\ upload[u].at \in {"purged", "opened"}
    BY <1>9 DEF StoreFails, Uploading, Over
  <2>2. IsCollection(collection')
    <3>1. \/ collection' = collection
          \/ collection' = [collection EXCEPT !.creator = u]
          \/ collection' = [collection EXCEPT !.chunks = @ \cup {u}]
      BY <1>9 DEF StoreFails
    <3> QED
      BY <1>1, <3>1 DEF IsCollection
  <2>3. PICK b \in BOOLEAN : b = (amiss.stale \/ u \in collection'.chunks)
    BY Zenon
  <2>4. amiss' = [amiss EXCEPT !.lost = TRUE, !.stale = b]
    BY <1>9, <2>3, Zenon DEF StoreFails
  <2>5. amiss' \in [overlapped : BOOLEAN, lost : BOOLEAN, stale : BOOLEAN, swallowed : BOOLEAN]
        /\ amiss'.overlapped = amiss.overlapped /\ amiss'.stale = b /\ amiss'.lost
        /\ amiss'.swallowed = amiss.swallowed
    BY <1>1, <2>4
  <2>6. collection'.chunks = collection.chunks \/ u \in collection'.chunks
    BY <1>1, <1>9 DEF StoreFails, IsCollection
  <2>7. ~amiss.overlapped => Agrees'
    <3>1. ~amiss.overlapped => Emptied
      BY <1>2, <2>1 DEF UploadInv
    <3> QED
      BY <1>1, <2>3, <2>5, <2>6, <3>1 DEF Agrees, Emptied
  <2> QED
    BY <1>1, <1>3, <2>1, <2>2, <2>5, <2>7, UploadMoves DEF UploadStages, Over
<1>10. CASE Record(u)
  <2>1. Uploading(u) /\ upload[u].at = "stored" /\ UploadAt(u, "done")
        /\ UNCHANGED <<collection, deletion>> /\ resumeRow' = u
        /\ amiss' = [amiss EXCEPT !.lost = FALSE]
    BY <1>10 DEF Record, Uploading, Over
  <2>2. amiss' \in [overlapped : BOOLEAN, lost : BOOLEAN, stale : BOOLEAN, swallowed : BOOLEAN]
        /\ amiss'.overlapped = amiss.overlapped /\ amiss'.stale = amiss.stale
    BY <1>1, <2>1
  <2>3. ~amiss.overlapped => Agrees'
    BY <1>2, <2>1, <2>2 DEF UploadInv, Agrees
  <2> QED
    BY <1>1, <1>3, <2>1, <2>2, <2>3, UploadMoves DEF UploadStages, Over
<1>11. CASE RecordFails(u)
  <2>1. Uploading(u) /\ UploadAt(u, "failed") /\ UNCHANGED <<collection, deletion>>
        /\ resumeRow' \in {resumeRow, u}
        /\ amiss' = [amiss EXCEPT !.lost = TRUE, !.stale = TRUE]
    BY <1>11 DEF RecordFails, Uploading, Over
  <2>2. amiss' \in [overlapped : BOOLEAN, lost : BOOLEAN, stale : BOOLEAN, swallowed : BOOLEAN]
        /\ amiss'.overlapped = amiss.overlapped /\ amiss'.stale /\ amiss'.lost
    BY <1>1, <2>1
  <2>3. Agrees'
    BY <2>2 DEF Agrees
  <2> QED
    BY <1>1, <1>3, <2>1, <2>2, <2>3, UploadMoves DEF UploadStages, Over
<1> QED
  BY <1>4, <1>5, <1>6, <1>7, <1>8, <1>9, <1>10, <1>11 DEF UploadStep, IngestStep

LEMMA DeletionInvKept ==
    ASSUME ResumeInv, NEW d \in Deletions, DeletionStep(d), ~Ask(d)
    PROVE  ResumeInv'
<1>1. /\ amiss \in [overlapped : BOOLEAN, lost : BOOLEAN, stale : BOOLEAN, swallowed : BOOLEAN]
      /\ resumeRow \in Uploads \cup {NoRow} /\ IsCollection(collection)
      /\ deletion \in [Deletions -> DeletionStages]
  BY DEF ResumeInv, ResumeTypes
<1>2. ~amiss.overlapped => DeletionInv(d)
  BY DEF ResumeInv
<1>3. CASE PurgeAll(d)
  <2>1. Deleting(d) /\ deletion[d] = "asked" /\ UNCHANGED <<resumeRow, upload>>
        /\ deletion' = [deletion EXCEPT ![d] = "purged"]
        /\ (collection' = Dropped \/ collection' = collection)
    BY <1>3 DEF PurgeAll, DropCollection, DeletionAt, Deleting, Over
  <2>2. PICK b \in BOOLEAN : b = (amiss.stale /\ Left)
    BY Zenon
  <2>2b. PICK c \in BOOLEAN : c = (amiss.swallowed /\ Left)
    BY Zenon
  <2>3. amiss' = [amiss EXCEPT !.stale = b, !.swallowed = c]
    BY <1>3, <2>2, <2>2b, Zenon DEF PurgeAll
  <2>4. amiss' \in [overlapped : BOOLEAN, lost : BOOLEAN, stale : BOOLEAN, swallowed : BOOLEAN]
        /\ amiss'.overlapped = amiss.overlapped /\ amiss'.lost = amiss.lost /\ amiss'.stale = b
        /\ amiss'.swallowed = c
    BY <1>1, <2>3
  <2>5. IsCollection(collection') /\ deletion'[d] = "purged"
    BY <1>1, <2>1 DEF Dropped, IsCollection
  <2>6. ~amiss.overlapped => DeletionInv(d)'
    <3>1. CASE collection'.chunks = {}
      BY <2>5, <3>1 DEF DeletionInv
    <3>2. CASE collection' = collection /\ collection.chunks # {}
      <4>1. b = amiss.stale /\ c = amiss.swallowed
        BY <1>1, <2>2, <2>2b, <3>2 DEF Left
      <4> QED
        BY <1>2, <2>1, <2>4, <2>5, <3>2, <4>1 DEF DeletionInv, Agrees
    <3> QED
      BY <2>1, <3>1, <3>2 DEF Dropped
  <2> QED
    BY <1>1, <2>1, <2>4, <2>5, <2>6, DeletionMoves DEF DeletionStages, Over
<1>4. CASE ReadBack(d)
  <2>1. Deleting(d) /\ deletion[d] = "purged"
        /\ UNCHANGED <<resumeRow, upload, collection, amiss>>
    BY <1>4 DEF ReadBack, Deleting, Over
  <2>2. CASE collection.chunks = {}
    <3>1. deletion' = [deletion EXCEPT ![d] = "checked"]
      BY <1>4, <2>2 DEF ReadBack, DeletionAt
    <3>2. deletion'[d] = "checked"
      BY <1>1, <3>1
    <3>3. DeletionInv(d)'
      BY <2>1, <2>2, <3>2 DEF DeletionInv, Emptied
    <3> QED
      BY <1>1, <2>1, <3>1, <3>3, DeletionMoves DEF DeletionStages, Over
  <2>3. CASE collection.chunks # {}
    <3>1. deletion' = [deletion EXCEPT ![d] = "failed"]
      BY <1>4, <2>3 DEF ReadBack, DeletionAt
    <3>2. ~amiss.overlapped => Agrees'
      BY <1>2, <2>1, <2>3 DEF DeletionInv, Agrees
    <3> QED
      BY <1>1, <2>1, <3>1, <3>2, DeletionMoves DEF DeletionStages, Over
  <2> QED
    BY <2>2, <2>3
<1>5. CASE ReadBackUnanswered(d)
  <2>1. Deleting(d) /\ deletion' = [deletion EXCEPT ![d] = "checked"]
        /\ UNCHANGED <<resumeRow, upload, collection>>
    BY <1>5 DEF ReadBackUnanswered, DeletionAt, Deleting, Over
  <2>2. PICK b \in BOOLEAN : b = (collection.chunks # {})
    OBVIOUS
  <2>3. amiss' = [amiss EXCEPT !.swallowed = b]
    BY <1>5, <2>2, Zenon DEF ReadBackUnanswered
  <2>4. amiss' \in [overlapped : BOOLEAN, lost : BOOLEAN, stale : BOOLEAN, swallowed : BOOLEAN]
        /\ amiss'.overlapped = amiss.overlapped /\ amiss'.swallowed = b
        /\ deletion'[d] = "checked"
    BY <1>1, <2>1, <2>3
  <2>5. DeletionInv(d)'
    BY <2>1, <2>2, <2>4 DEF DeletionInv, Emptied
  <2> QED
    BY <1>1, <2>1, <2>4, <2>5, DeletionMoves DEF DeletionStages, Over
<1>6. CASE DeleteRow(d)
  <2>1. Deleting(d) /\ deletion[d] = "checked" /\ UNCHANGED <<upload, collection>>
        /\ resumeRow' = NoRow /\ deletion' = [deletion EXCEPT ![d] = "done"]
        /\ amiss' = [amiss EXCEPT !.lost = FALSE]
    BY <1>6 DEF DeleteRow, DeletionAt, Deleting, Over
  <2>2. amiss' \in [overlapped : BOOLEAN, lost : BOOLEAN, stale : BOOLEAN, swallowed : BOOLEAN]
        /\ amiss'.overlapped = amiss.overlapped /\ amiss'.stale = amiss.stale
        /\ amiss'.swallowed = amiss.swallowed
    BY <1>1, <2>1
  <2>3. ~amiss.overlapped => Agrees'
    BY <1>2, <2>1, <2>2 DEF DeletionInv, Emptied, Agrees
  <2> QED
    BY <1>1, <2>1, <2>2, <2>3, DeletionMoves DEF DeletionStages, Over
<1>7. CASE DeleteFails(d)
  <2>1. Deleting(d) /\ deletion[d] \in {"asked", "checked"} /\ UNCHANGED <<upload, collection>>
        /\ deletion' = [deletion EXCEPT ![d] = "failed"]
        /\ resumeRow' \in {resumeRow, NoRow}
        /\ (deletion[d] = "asked" => resumeRow' = resumeRow)
    BY <1>7 DEF DeleteFails, DeletionAt, Deleting, Over
  <2>2. PICK b \in BOOLEAN : b = (amiss.lost \/ deletion[d] = "checked")
    BY Zenon
  <2>3. amiss' = [amiss EXCEPT !.lost = b]
    BY <1>7, <2>2, Zenon DEF DeleteFails
  <2>4. amiss' \in [overlapped : BOOLEAN, lost : BOOLEAN, stale : BOOLEAN, swallowed : BOOLEAN]
        /\ amiss'.overlapped = amiss.overlapped /\ amiss'.stale = amiss.stale /\ amiss'.lost = b
        /\ amiss'.swallowed = amiss.swallowed
    BY <1>1, <2>3
  <2>5. ~amiss.overlapped => Agrees'
    <3>1. CASE deletion[d] = "checked"
      <4>1. amiss'.lost
        BY <1>1, <2>2, <2>4, <3>1
      <4> QED
        BY <1>2, <2>1, <2>4, <3>1, <4>1 DEF DeletionInv, Emptied, Agrees
    <3>2. CASE deletion[d] = "asked"
      <4>1. amiss'.lost = amiss.lost
        BY <1>1, <2>2, <2>4, <3>2
      <4> QED
        BY <1>2, <2>1, <2>4, <3>2, <4>1 DEF DeletionInv, Agrees
    <3> QED
      BY <2>1, <3>1, <3>2
  <2> QED
    BY <1>1, <2>1, <2>4, <2>5, DeletionMoves DEF DeletionStages, Over
<1> QED
  BY <1>3, <1>4, <1>5, <1>6, <1>7 DEF DeletionStep

\* Requests made one after the other leave the row with its chunks and nothing beside them:
\* a refused upload changes nothing, and neither does a deletion that fails before it has
\* purged.  What is missing was answered as a failure past the purge; what is left over
\* was either, or was left by a purge or a count that Chroma refused without anyone
\* noticing, which an upload and a deletion that succeed may hide (resumes.service.ts,
\* store.py, chroma_client.py).
THEOREM RowKeepsChunks == ResumeSpec => []RowMatchesChunks
<1>1. ResumeInv /\ [ResumeNext]_resumeVars => ResumeInv'
  <2> SUFFICES ASSUME ResumeInv, [ResumeNext]_resumeVars PROVE ResumeInv'
    OBVIOUS
  <2>1. CASE UNCHANGED resumeVars
    BY <2>1 DEF resumeVars, ResumeInv, ResumeTypes, Alone, Uploading, Deleting, Resting,
       Agrees, Emptied, UploadInv, DeletionInv
  <2> QED
    BY <2>1, RequestBegins, UploadInvKept, DeletionInvKept DEF ResumeNext
<1>2. ResumeInv => RowMatchesChunks
  BY DEF ResumeInv, Agrees, RowMatchesChunks
<1> QED
  BY <1>1, <1>2, ResumeStarts, PTL DEF ResumeSpec

------------------------------------------------------------------------------
(* A problem's review schedule *)

ScheduleInv == WithinChecks /\ IntervalFitsRun

LEMMA NewEaseBounds ==
    ASSUME NEW ease \in Int, NEW quality \in 0 .. 5
    PROVE  NewEase(ease, quality) \in Int /\ NewEase(ease, quality) >= MinEase
<1> DEFINE miss == 5 - quality
           moved == ease + 100 - miss * (80 + 20 * miss)
<1>1. miss \in Int /\ miss * (80 + 20 * miss) \in Int
  OBVIOUS
<1>2. moved \in Int
  BY <1>1
<1>3. NewEase(ease, quality) = IF moved < MinEase THEN MinEase ELSE moved
  BY DEF NewEase
<1> HIDE DEF moved
<1> QED
  BY <1>2, <1>3 DEF MinEase

\* An interval of six days or more grows with any ease factor, however a half is
\* rounded.
LEMMA ProductGrows ==
    ASSUME NEW interval \in Int, interval >= 6,
           NEW ease \in Int, ease >= MinEase,
           NEW i \in Product(interval, ease)
    PROVE  i \in Int /\ i > interval
<1> DEFINE product == interval * ease
<1>1. product \in Int
  OBVIOUS
<1>2. product >= interval * 1300
  <2>1. ease - 1300 >= 0 /\ ease - 1300 \in Int
    BY DEF MinEase
  <2>2. interval * (ease - 1300) >= 0
    BY <2>1
  <2>3. interval * (ease - 1300) = product - interval * 1300
    OBVIOUS
  <2> QED
    BY <1>1, <2>2, <2>3
<1>3. i = (product + 499) \div 1000 \/ i = (product + 500) \div 1000
  BY DEF Product
<1> HIDE DEF product
<1> QED
  BY <1>1, <1>2, <1>3

LEMMA PassQualityBounds ==
    ASSUME NEW failures \in Nat, NEW hinted \in BOOLEAN
    PROVE  PassQuality(failures, hinted) \in 3 .. 5
BY DEF PassQuality

\* A recall keeps the invariant and the lapses, and does not shrink the interval.
LEMMA RecallStep ==
    ASSUME ScheduleInv, NEW quality \in 3 .. 5, state' \in AfterReview(state, quality)
    PROVE  /\ ScheduleInv'
           /\ state'.lapses = state.lapses
           /\ state'.interval >= state.interval
<1> DEFINE ease == NewEase(state.ease, quality)
<1>1. state \in States /\ state.ease \in Int /\ state.interval \in Int
        /\ state.repetitions \in Nat /\ state.lapses \in Nat /\ state.interval >= 0
  BY DEF ScheduleInv, WithinChecks, States
<1>2. ease \in Int /\ ease >= MinEase
  <2>1. quality \in 0 .. 5
    OBVIOUS
  <2> QED
    BY ONLY <1>1, <2>1, NewEaseBounds
<1>3. PICK i \in NewIntervals(state, ease) : state' = Recall(state, ease, i)
  BY DEF AfterReview
<1> HIDE DEF ease
<1>4. /\ state'.ease = ease
      /\ state'.interval = i
      /\ state'.repetitions = state.repetitions + 1
      /\ state'.lapses = state.lapses
  BY <1>3 DEF Recall
<1>5. i \in Int /\ i >= state.interval /\ i >= 0
        /\ (state.repetitions = 0 => i = 1)
        /\ (state.repetitions = 1 => i = 6)
        /\ (state.repetitions > 1 => i > 6)
  <2>1. CASE state.repetitions = 0
    BY <1>1, <2>1 DEF NewIntervals, ScheduleInv, IntervalFitsRun
  <2>2. CASE state.repetitions = 1
    BY <1>1, <2>2 DEF NewIntervals, ScheduleInv, IntervalFitsRun
  <2>3. CASE state.repetitions > 1
    <3>1. i \in Product(state.interval, ease)
      BY <1>1, <2>3 DEF NewIntervals
    <3>2. state.interval >= 6
      BY <1>1, <2>3 DEF ScheduleInv, IntervalFitsRun
    <3>3. i \in Int /\ i > state.interval
      BY <1>1, <1>2, <3>1, <3>2, ProductGrows
    <3> QED
      BY <1>1, <2>3, <3>2, <3>3
  <2> QED
    BY <1>1, <2>1, <2>2, <2>3
<1>6. state' \in States
  BY <1>1, <1>2, <1>3, <1>5 DEF States, Recall
<1>7. WithinChecks'
  BY <1>2, <1>4, <1>5, <1>6 DEF WithinChecks
<1>8. IntervalFitsRun'
  BY <1>1, <1>4, <1>5 DEF IntervalFitsRun
<1> QED
  BY <1>4, <1>5, <1>7, <1>8 DEF ScheduleInv

LEMMA LapseStep ==
    ASSUME ScheduleInv, state' \in AfterReview(state, FailedQuality)
    PROVE  ScheduleInv'
<1> DEFINE ease == NewEase(state.ease, FailedQuality)
<1>1. state \in States /\ state.ease \in Int /\ state.lapses \in Nat
  BY DEF ScheduleInv, WithinChecks, States
<1>2. ease \in Int /\ ease >= MinEase
  <2>1. FailedQuality \in 0 .. 5
    BY DEF FailedQuality
  <2> QED
    BY ONLY <1>1, <2>1, NewEaseBounds
<1>3. state' = Lapse(state, ease)
  BY DEF AfterReview, FailedQuality
<1> HIDE DEF ease
<1>4. WithinChecks'
  BY <1>1, <1>2, <1>3 DEF WithinChecks, States, Lapse
<1>5. IntervalFitsRun'
  BY <1>3 DEF IntervalFitsRun, Lapse
<1> QED
  BY <1>4, <1>5 DEF ScheduleInv

LEMMA PassStep ==
    ASSUME ScheduleInv, Pass
    PROVE  /\ ScheduleInv'
           /\ state'.lapses = state.lapses
           /\ state'.interval >= state.interval
<1>1. PICK failures \in 0 .. MaxFailures, hinted \in BOOLEAN :
        state' \in AfterReview(state, PassQuality(failures, hinted))
  BY DEF Pass
<1>2. failures \in Nat
  BY ScheduleAssumption
<1>3. PassQuality(failures, hinted) \in 3 .. 5
  BY <1>2, PassQualityBounds
<1> QED
  BY <1>1, <1>3, RecallStep

LEMMA ScheduleStarts == ScheduleInit => ScheduleInv
BY DEF ScheduleInit, ScheduleInv, WithinChecks, IntervalFitsRun, States, InitialState, MinEase

LEMMA ScheduleStep == ScheduleInv /\ [ScheduleNext]_scheduleVars => ScheduleInv'
<1> SUFFICES ASSUME ScheduleInv, [ScheduleNext]_scheduleVars PROVE ScheduleInv'
  OBVIOUS
<1>1. CASE Pass
  BY <1>1, PassStep
<1>2. CASE Fail
  BY <1>2, LapseStep DEF Fail
<1>3. CASE UNCHANGED scheduleVars
  BY <1>3 DEF scheduleVars, ScheduleInv, WithinChecks, IntervalFitsRun
<1> QED
  BY <1>1, <1>2, <1>3 DEF ScheduleNext

\* The stored ease factor and interval never violate their CHECKs (sm2 in sm2.ts),
\* after any number of lapses.
THEOREM KeepsChecks == ScheduleSpec => []WithinChecks
<1>1. ScheduleInv => WithinChecks
  BY DEF ScheduleInv
<1> QED
  BY <1>1, ScheduleStarts, ScheduleStep, PTL DEF ScheduleSpec

\* The interval is the one its run of recalls gives it.
THEOREM IntervalFits == ScheduleSpec => []IntervalFitsRun
<1>1. ScheduleInv => IntervalFitsRun
  BY DEF ScheduleInv
<1> QED
  BY <1>1, ScheduleStarts, ScheduleStep, PTL DEF ScheduleSpec

\* A pass is never a lapse and never brings the next review closer than the last
\* interval (passQuality and sm2).
THEOREM PassesSpread == ScheduleSpec => PassesSpreadReviews
<1>1. ScheduleInv /\ [ScheduleNext]_scheduleVars
        => [passed' /\ state' # state =>
              /\ state'.lapses = state.lapses
              /\ state'.interval >= state.interval]_scheduleVars
  <2> SUFFICES ASSUME ScheduleInv, ScheduleNext, passed'
               PROVE  state'.lapses = state.lapses /\ state'.interval >= state.interval
    BY DEF scheduleVars
  <2>1. Pass
    BY DEF ScheduleNext, Fail
  <2> QED
    BY <2>1, PassStep
<1> QED
  BY <1>1, ScheduleStarts, ScheduleStep, PTL DEF ScheduleSpec, PassesSpreadReviews

------------------------------------------------------------------------------
(* The answer box: what the page does is the only way an answer is sent *)

UnderWay(s) == posting[s].at \in {"sent", "evaluating", "recorded"}

\* The page may send this answer, or waits for one that it has sent.
Offers(d) == d \in {form.answer, form.retryAnswer} \/ (Waiting /\ form.expects = d)

\* What the page makes of a request that is under way or has recorded its answer.
InHand(s) ==
    \/ Awaited(s)
    \/ form.syncPending /\ form.accepted = posting[s].answer
    \/ ~Offers(posting[s].answer)

FormType ==
    form \in [at : {"idle", "sending", "refreshing", "read"}, answer : Nat, retryAnswer : Nat,
              accepted : Nat, syncPending : BOOLEAN, turn : Nat, expects : Nat, seen : Nat,
              drafts : Nat, sends : Nat]

PostingType ==
    posting \in [Sends -> [at : {"none", "sent", "evaluating", "recorded", "rejected",
                                 "retryable", "conflict", "gone"},
                           answer : Nat, turn : Nat]]

PageInv ==
    /\ form.drafts <= MaxDrafts /\ form.sends <= MaxSends
    /\ {form.answer, form.retryAnswer, form.accepted, form.expects} \subseteq 0 .. form.drafts
    /\ form.accepted # Blank => form.syncPending
    /\ Waiting => /\ form.sends # 0 /\ form.expects # Blank /\ form.retryAnswer = Blank
                  /\ posting[form.sends].answer = form.expects
                  /\ ~form.syncPending
    /\ form.at \in {"refreshing", "read"} => /\ form.expects = form.accepted
                                             /\ form.syncPending /\ form.retryAnswer = Blank
    /\ \A s \in Sends : IF s <= form.sends THEN posting[s].answer \in 1 .. form.drafts
                        ELSE posting[s].at = "none"

RequestInv(s) ==
    UnderWay(s) /\ posting[s].answer \notin excused =>
        /\ InHand(s)
        /\ \A u \in Sends : UnderWay(u) /\ posting[u].answer = posting[s].answer => u = s

RecordedInv ==
    /\ recorded \in Seq(Nat)
    /\ \A i \in DOMAIN recorded :
          \/ recorded[i] \in excused \cup {Other}
          \/ \E s \in Sends : posting[s].at = "recorded" /\ posting[s].answer = recorded[i]

AnswerInv ==
    /\ FormType /\ PostingType /\ PageInv
    /\ \A s \in Sends : RequestInv(s)
    /\ RecordedInv
    /\ NoAnswerTwice


LEMMA AnswerStarts == AnswerInit => AnswerInv
<1> SUFFICES ASSUME AnswerInit PROVE AnswerInv
  OBVIOUS
<1> USE AnswerAssumption
<1>1. FormType /\ PostingType
  BY DEF AnswerInit, FormType, PostingType, Blank
<1>2. PageInv
  BY DEF AnswerInit, PageInv, Waiting, Blank, Sends
<1>3. \A s \in Sends : RequestInv(s)
  BY DEF AnswerInit, RequestInv, UnderWay
<1>4. RecordedInv /\ NoAnswerTwice
  BY DEF AnswerInit, RecordedInv, NoAnswerTwice
<1> QED
  BY <1>1, <1>2, <1>3, <1>4 DEF AnswerInv

\* What the transcript keeps when no turn is answered.
LEMMA TranscriptKept ==
    ASSUME RecordedInv, NoAnswerTwice, recorded' = recorded, excused \subseteq excused',
           \A s \in Sends : posting[s].at = "recorded" =>
               posting'[s].at = "recorded" /\ posting'[s].answer = posting[s].answer
    PROVE  RecordedInv' /\ NoAnswerTwice'
BY DEF RecordedInv, NoAnswerTwice

------------------------------------------------------------------------------
(* The server's steps *)

\* A request goes on, or ends without having recorded its answer.
LEMMA RequestMoves ==
    ASSUME AnswerInv, NEW s \in Sends, UNCHANGED <<form, recorded, excused>>,
           PostingType', \A u \in Sends \ {s} : posting'[u] = posting[u],
           posting[s].at \in {"sent", "evaluating"}, posting'[s].answer = posting[s].answer,
           posting'[s].at # "recorded", posting'[s].at # "none"
    PROVE  AnswerInv'
<1>1. \A u \in Sends : /\ posting'[u].answer = posting[u].answer
                       /\ UnderWay(u)' => UnderWay(u)
                       /\ InHand(u) => InHand(u)'
  BY DEF UnderWay, InHand, Awaited, Offers, Waiting
<1>2. FormType' /\ PageInv'
  BY <1>1 DEF AnswerInv, FormType, PageInv, PostingType, Waiting, Sends
<1>3. ASSUME NEW u \in Sends PROVE RequestInv(u)'
  BY <1>1 DEF AnswerInv, RequestInv
<1>4. RecordedInv' /\ NoAnswerTwice'
  BY <1>1, TranscriptKept DEF AnswerInv
<1> QED
  BY <1>2, <1>3, <1>4 DEF AnswerInv

LEMMA Appended ==
    ASSUME recorded \in Seq(Nat), NEW a \in Nat, recorded' = Append(recorded, a)
    PROVE  /\ recorded' \in Seq(Nat)
           /\ DOMAIN recorded' = 1 .. Len(recorded) + 1
           /\ DOMAIN recorded = 1 .. Len(recorded)
           /\ \A i \in DOMAIN recorded : recorded'[i] = recorded[i]
           /\ recorded'[Len(recorded) + 1] = a
OBVIOUS

\* An answer is recorded once by the only request that still may.
LEMMA AnswerRecorded == AnswerInv /\ (\E s \in Sends : RecordAnswer(s)) => AnswerInv'
<1> SUFFICES ASSUME AnswerInv, NEW s \in Sends, RecordAnswer(s) PROVE AnswerInv'
  OBVIOUS
<1> DEFINE d == posting[s].answer
<1> USE AnswerAssumption
<1>0. FormType /\ PostingType /\ PageInv /\ RecordedInv /\ NoAnswerTwice
  BY DEF AnswerInv
<1>1. PICK at \in {"recorded", "retryable"} :
        /\ posting' = [posting EXCEPT ![s].at = at]
        /\ excused' = IF at = "retryable" THEN excused \cup {d} ELSE excused
  BY DEF RecordAnswer, Reach
<1>2. posting[s].at = "evaluating" /\ recorded' = Append(recorded, d) /\ form' = form
  BY DEF RecordAnswer
<1>3. PostingType' /\ FormType'
  BY <1>0, <1>1, <1>2 DEF PostingType, FormType
<1>4. /\ \A u \in Sends : posting'[u].answer = posting[u].answer
      /\ \A u \in Sends \ {s} : posting'[u] = posting[u]
      /\ posting'[s].at = at
  BY <1>0, <1>1 DEF PostingType
<1>5. \A u \in Sends : UnderWay(u)' => UnderWay(u)
  BY <1>2, <1>4 DEF UnderWay
<1>6. PageInv'
  <2>1. \A u \in Sends : IF u <= form'.sends THEN posting'[u].answer \in 1 .. form'.drafts
                         ELSE posting'[u].at = "none"
    BY <1>0, <1>2, <1>4 DEF PageInv
  <2>2. Waiting' => posting'[form'.sends].answer = form'.expects
    BY <1>0, <1>2, <1>4 DEF PageInv, Waiting, Sends, FormType
  <2> QED
    BY <1>0, <1>2, <2>1, <2>2 DEF PageInv, Waiting
<1>7. ASSUME NEW u \in Sends PROVE RequestInv(u)'
  BY <1>1, <1>2, <1>4, <1>5 DEF AnswerInv, RequestInv, InHand, Awaited, Offers, Waiting
<1>8. s <= form.sends /\ d \in 1 .. form.drafts /\ d # Other /\ d \in Nat
  BY <1>0, <1>2 DEF PageInv, FormType, PostingType, Other
<1>9. d \in excused' \/ \A i \in DOMAIN recorded : recorded[i] # d
  <2> SUFFICES ASSUME d \notin excused', NEW i \in DOMAIN recorded, recorded[i] = d PROVE FALSE
    OBVIOUS
  <2>1. d \notin excused
    BY <1>1
  <2>2. PICK u \in Sends : posting[u].at = "recorded" /\ posting[u].answer = d
    BY <1>0, <1>8, <2>1 DEF RecordedInv
  <2> QED
    BY <1>2, <2>1, <2>2 DEF AnswerInv, RequestInv, UnderWay
<1>10. excused \subseteq excused'
  BY <1>1
<1>11. RecordedInv'
  <2>1. recorded \in Seq(Nat)
    BY <1>0 DEF RecordedInv
  <2>2. d \in excused' \/ (posting'[s].at = "recorded" /\ posting'[s].answer = d)
    BY <1>1, <1>4
  <2>3. \A u \in Sends : posting[u].at = "recorded" => posting'[u] = posting[u]
    BY <1>2, <1>4
  <2>4. ASSUME NEW i \in DOMAIN recorded'
        PROVE  \/ recorded'[i] \in excused' \cup {Other}
               \/ \E u \in Sends : posting'[u].at = "recorded" /\ posting'[u].answer = recorded'[i]
    <3>1. CASE i \in DOMAIN recorded
      <4>1. recorded'[i] = recorded[i]
        BY <1>2, <1>8, <2>1, <3>1, Appended
      <4> QED
        BY <1>0, <1>10, <2>3, <3>1, <4>1 DEF RecordedInv
    <3>2. CASE i = Len(recorded) + 1
      <4>1. recorded'[i] = d
        BY <1>2, <1>8, <2>1, <3>2, Appended
      <4> QED
        BY <2>2, <4>1
    <3> QED
      BY <1>2, <1>8, <2>1, <3>1, <3>2, Appended
  <2>5. recorded' \in Seq(Nat)
    BY <1>2, <1>8, <2>1, Appended
  <2> QED
    BY <2>4, <2>5 DEF RecordedInv
<1>12. NoAnswerTwice'
  <2>1. recorded \in Seq(Nat)
    BY <1>0 DEF RecordedInv
  <2> SUFFICES ASSUME NEW i \in DOMAIN recorded', NEW j \in DOMAIN recorded',
                      i < j, recorded'[i] = recorded'[j]
               PROVE  recorded'[i] \in excused' \cup {Other}
    BY DEF NoAnswerTwice
  <2>2. i \in DOMAIN recorded
    BY <1>2, <1>8, <2>1, Appended
  <2>3. CASE j \in DOMAIN recorded
    BY <1>0, <1>2, <1>8, <1>10, <2>1, <2>2, <2>3, Appended DEF NoAnswerTwice
  <2>4. CASE j = Len(recorded) + 1
    BY <1>2, <1>8, <1>9, <2>1, <2>2, <2>4, Appended
  <2> QED
    BY <1>2, <1>8, <2>1, <2>3, <2>4, Appended
<1> QED
  BY <1>3, <1>6, <1>7, <1>11, <1>12 DEF AnswerInv

LEMMA OtherRecorded == AnswerInv /\ OtherTabAnswers => AnswerInv'
<1> SUFFICES ASSUME AnswerInv, OtherTabAnswers PROVE AnswerInv'
  OBVIOUS
<1> USE AnswerAssumption
<1>1. recorded' = Append(recorded, Other) /\ UNCHANGED <<form, posting, excused>>
  BY DEF OtherTabAnswers
<1>2. recorded \in Seq(Nat) /\ Other \in Nat
  BY DEF AnswerInv, RecordedInv, Other
<1>3. FormType' /\ PostingType' /\ PageInv' /\ \A s \in Sends : RequestInv(s)'
  BY <1>1 DEF AnswerInv, FormType, PostingType, PageInv, RequestInv, InHand, Awaited, Offers,
              UnderWay, Waiting
<1>4. RecordedInv'
  <2>1. ASSUME NEW i \in DOMAIN recorded'
        PROVE  \/ recorded'[i] \in excused' \cup {Other}
               \/ \E s \in Sends : posting'[s].at = "recorded" /\ posting'[s].answer = recorded'[i]
    <3>1. CASE i \in DOMAIN recorded
      <4>1. recorded'[i] = recorded[i]
        BY <1>1, <1>2, <3>1, Appended
      <4> QED
        BY <1>1, <3>1, <4>1 DEF AnswerInv, RecordedInv
    <3>2. CASE i = Len(recorded) + 1
      BY <1>1, <1>2, <3>2, Appended
    <3> QED
      BY <1>1, <1>2, <3>1, <3>2, Appended
  <2> QED
    BY <1>1, <1>2, <2>1, Appended DEF RecordedInv
<1>5. NoAnswerTwice'
  <2> SUFFICES ASSUME NEW i \in DOMAIN recorded', NEW j \in DOMAIN recorded',
                      i < j, recorded'[i] = recorded'[j]
               PROVE  recorded'[i] \in excused' \cup {Other}
    BY DEF NoAnswerTwice
  <2>1. i \in DOMAIN recorded
    BY <1>1, <1>2, Appended
  <2>2. CASE j \in DOMAIN recorded
    BY <1>1, <1>2, <2>1, <2>2, Appended DEF AnswerInv, NoAnswerTwice
  <2>3. CASE j = Len(recorded) + 1
    BY <1>1, <1>2, <2>3, Appended
  <2> QED
    BY <1>1, <1>2, <2>2, <2>3, Appended
<1> QED
  BY <1>3, <1>4, <1>5 DEF AnswerInv

LEMMA ServerSteps == ASSUME AnswerInv, NEW s \in Sends, ServerStep(s) PROVE AnswerInv'
<1>0. PostingType
  BY DEF AnswerInv
<1>1. CASE RecordAnswer(s)
  BY <1>1, AnswerRecorded
<1>2. CASE Reject(s) \/ LoseTurn(s) \/ AbandonTurn(s) \/ FailTurn(s)
  <2>1. PICK at \in {"rejected", "conflict", "gone", "retryable"} :
            posting' = [posting EXCEPT ![s].at = at]
    BY <1>2 DEF Reject, LoseTurn, AbandonTurn, FailTurn, Reach
  <2>2. posting[s].at \in {"sent", "evaluating"} /\ UNCHANGED <<form, recorded, excused>>
    BY <1>2 DEF Reject, LoseTurn, AbandonTurn, FailTurn
  <2>3. PostingType'
    BY <1>0, <2>1 DEF PostingType
  <2> QED
    BY <1>0, <2>1, <2>2, <2>3, RequestMoves DEF PostingType
<1>3. CASE BeginTurn(s)
  <2>1. recorded \in Seq(Nat)
    BY DEF AnswerInv, RecordedInv
  <2>2. Turn \in Nat
    BY <2>1 DEF Turn
  <2>3. PostingType'
    BY <1>0, <1>3, <2>2 DEF BeginTurn, PostingType
  <2> QED
    BY <1>0, <1>3, <2>3, RequestMoves DEF BeginTurn, PostingType
<1> QED
  BY <1>1, <1>2, <1>3 DEF ServerStep

------------------------------------------------------------------------------
(* The page's steps *)

\* A step of the page alone: it keeps what it makes of every request, and waits for none.
LEMMA PageMoves ==
    ASSUME AnswerInv, UNCHANGED <<posting, recorded>>, excused \subseteq excused',
           FormType', PageInv',
           \A s \in Sends :
              UnderWay(s) /\ posting[s].answer \notin excused' /\ InHand(s) => InHand(s)'
    PROVE  AnswerInv'
<1>1. \A s \in Sends : RequestInv(s)'
  BY DEF AnswerInv, RequestInv, UnderWay
<1>2. RecordedInv' /\ NoAnswerTwice'
  BY TranscriptKept DEF AnswerInv
<1>3. PostingType'
  BY DEF AnswerInv, PostingType
<1> QED
  BY <1>1, <1>2, <1>3 DEF AnswerInv

LEMMA WritesAnswer == AnswerInv /\ WriteAnswer => AnswerInv'
<1> SUFFICES ASSUME AnswerInv, WriteAnswer PROVE AnswerInv'
  OBVIOUS
<1> USE AnswerAssumption
<1>0. FormType /\ PostingType /\ PageInv
  BY DEF AnswerInv
<1>1. /\ form' = [form EXCEPT !.answer = form.drafts + 1, !.drafts = @ + 1]
      /\ UNCHANGED <<posting, recorded, excused>>
      /\ form.at = "idle" /\ ~form.syncPending /\ form.retryAnswer = Blank
      /\ form.drafts < MaxDrafts
  BY DEF WriteAnswer, Editable
<1>2. FormType'
  <2>1. form.drafts + 1 \in Nat
    BY <1>0 DEF FormType
  <2> QED
    BY <1>0, <1>1, <2>1 DEF FormType
<1>3. PageInv'
  BY <1>0, <1>1 DEF FormType, PageInv, Waiting, Blank
<1>4. \A s \in Sends : UnderWay(s) => posting[s].answer \in 1 .. form.drafts
  BY <1>0 DEF PageInv, UnderWay
<1>5. \A s \in Sends : UnderWay(s) /\ InHand(s) => InHand(s)'
  BY <1>0, <1>1, <1>4 DEF FormType, InHand, Awaited, Offers, Waiting, Blank
<1> QED
  BY <1>1, <1>2, <1>3, <1>5, PageMoves

LEMMA SubmitsAnswer == AnswerInv /\ SubmitAnswer => AnswerInv'
<1> SUFFICES ASSUME AnswerInv, SubmitAnswer PROVE AnswerInv'
  OBVIOUS
<1> USE AnswerAssumption
<1> DEFINE n == form.sends + 1
           d == Submitted
<1>0. FormType /\ PostingType /\ PageInv
  BY DEF AnswerInv
<1>1. /\ form.at = "idle" /\ ~form.syncPending /\ d # Blank /\ form.sends < MaxSends
      /\ form' = [form EXCEPT !.at = "sending", !.retryAnswer = Blank, !.sends = @ + 1,
                              !.expects = d]
      /\ posting' = [posting EXCEPT ![n] = [at |-> "sent", answer |-> d, turn |-> 0]]
      /\ UNCHANGED <<recorded, excused>>
  BY DEF SubmitAnswer
<1>2. d \in {form.answer, form.retryAnswer} /\ d \in 1 .. form.drafts /\ n \in Sends
  BY <1>0, <1>1 DEF Submitted, PageInv, FormType, Sends, Blank
<1>3. FormType' /\ PostingType'
  <2>1. d \in Nat /\ form.sends + 1 \in Nat /\ Blank \in Nat
    BY <1>0, <1>2 DEF FormType, Blank
  <2>2. FormType'
    BY <1>0, <1>1, <2>1 DEF FormType
  <2>3. PostingType'
    BY <1>0, <1>1, <2>1 DEF PostingType
  <2> QED
    BY <2>2, <2>3
<1>4. /\ posting'[n].at = "sent" /\ posting'[n].answer = d
      /\ \A s \in Sends \ {n} : posting'[s] = posting[s]
      /\ posting[n].at = "none"
  BY <1>0, <1>1, <1>2 DEF PostingType, PageInv, FormType, Sends
<1>5. form.accepted = Blank
  BY <1>0, <1>1 DEF PageInv
<1>6. PageInv'
  BY <1>0, <1>1, <1>2, <1>4, <1>5 DEF FormType, PageInv, Waiting, Blank, Sends
<1>7. \A s \in Sends : UnderWay(s) /\ posting[s].answer \notin excused => posting[s].answer # d
  <2> SUFFICES ASSUME NEW s \in Sends, UnderWay(s), posting[s].answer \notin excused
               PROVE  posting[s].answer # d
    OBVIOUS
  <2>1. InHand(s)
    BY DEF AnswerInv, RequestInv
  <2> QED
    BY <1>1, <1>2, <2>1 DEF InHand, Awaited, Offers
<1>8. ASSUME NEW s \in Sends, UnderWay(s)', posting'[s].answer \notin excused'
      PROVE  /\ InHand(s)'
             /\ \A u \in Sends : UnderWay(u)' /\ posting'[u].answer = posting'[s].answer => u = s
  <2>1. CASE s = n
    <3>1. InHand(s)'
      BY <1>0, <1>1, <2>1 DEF InHand, Awaited, FormType
    <3>2. ASSUME NEW u \in Sends, UnderWay(u)', posting'[u].answer = d, u # n PROVE FALSE
      BY <1>1, <1>4, <1>7, <1>8, <2>1, <3>2 DEF UnderWay
    <3> QED
      BY <1>4, <2>1, <3>1, <3>2
  <2>2. CASE s # n
    <3>1. UnderWay(s) /\ posting'[s] = posting[s] /\ posting[s].answer \notin excused
      BY <1>1, <1>4, <1>8, <2>2 DEF UnderWay
    <3>2. posting[s].answer # d /\ RequestInv(s)
      BY <1>7, <3>1 DEF AnswerInv
    <3>3. InHand(s)'
      <4>1. posting[s].answer # Blank
        BY <1>0, <3>1 DEF PageInv, UnderWay, FormType, Blank
      <4>2. InHand(s)
        BY <3>1, <3>2 DEF RequestInv
      <4>3. ~Offers(posting[s].answer)
        BY <1>1, <4>2 DEF InHand, Awaited
      <4> QED
        BY <1>0, <1>1, <3>1, <3>2, <4>1, <4>3 DEF InHand, Offers, Waiting, FormType
    <3>4. \A u \in Sends : UnderWay(u)' /\ posting'[u].answer = posting[s].answer => u = s
      BY <1>4, <3>1, <3>2 DEF RequestInv, UnderWay
    <3> QED
      BY <3>1, <3>3, <3>4
  <2> QED
    BY <2>1, <2>2
<1>9. RecordedInv' /\ NoAnswerTwice'
  BY <1>1, <1>4, TranscriptKept DEF AnswerInv
<1> QED
  BY <1>3, <1>6, <1>8, <1>9 DEF AnswerInv, RequestInv

LEMMA Outcomes ==
    AnswerInv /\ (Accepted \/ MayRetry \/ MustRefresh \/ Rejected \/ LoseAnswer) => AnswerInv'
<1> SUFFICES ASSUME AnswerInv, Accepted \/ MayRetry \/ MustRefresh \/ Rejected \/ LoseAnswer
             PROVE  AnswerInv'
  OBVIOUS
<1> DEFINE n == form.sends
           d == form.expects
<1>0. FormType /\ PostingType /\ PageInv /\ Waiting /\ UNCHANGED <<posting, recorded, excused>>
  BY DEF AnswerInv, Accepted, MayRetry, MustRefresh, Rejected, LoseAnswer
<1>1. /\ n \in Sends /\ posting[n].answer = d /\ d # Blank /\ form.retryAnswer = Blank
      /\ form.accepted = Blank /\ ~form.syncPending
  BY <1>0, AnswerAssumption DEF PageInv, FormType, Sends, Waiting
<1>2. CASE Accepted \/ LoseAnswer
  <2>1. form' = [form EXCEPT !.accepted = d, !.at = "refreshing", !.syncPending = TRUE,
                             !.expects = d]
    BY <1>0, <1>2 DEF Accepted, LoseAnswer, Reconcile, Refreshing, FormType
  <2>2. FormType'
    BY <1>0, <2>1 DEF FormType
  <2>3. PageInv'
    BY <1>0, <1>1, <2>1 DEF FormType, PageInv, Waiting
  <2>4. \A s \in Sends : InHand(s) => InHand(s)'
    BY <1>0, <1>1, <2>1 DEF FormType, InHand, Awaited, Offers, Waiting
  <2> QED
    BY <1>0, <2>2, <2>3, <2>4, PageMoves
<1>3. CASE MayRetry \/ Rejected
  <2>1. PICK r \in {Blank, d} :
            form' = [form EXCEPT !.at = "idle", !.retryAnswer = r, !.expects = Blank]
    <3>1. CASE MayRetry
      BY <3>1 DEF MayRetry
    <3>2. CASE Rejected
      <4>1. form' = [form EXCEPT !.at = "idle", !.expects = Blank]
        BY <3>2 DEF Rejected
      <4>2. form' = [form EXCEPT !.at = "idle", !.retryAnswer = Blank, !.expects = Blank]
        BY <1>0, <1>1, <4>1 DEF FormType
      <4> QED
        BY <4>2
    <3> QED
      BY <1>3, <3>1, <3>2
  <2>2. FormType'
    <3>1. r \in Nat /\ Blank \in Nat
      BY <1>0 DEF FormType, Blank
    <3> QED
      BY <1>0, <2>1, <3>1 DEF FormType
  <2>3. PageInv'
    BY <1>0, <1>1, <2>1 DEF FormType, PageInv, Waiting, Blank
  <2>4. ~UnderWay(n)
    BY <1>3 DEF MayRetry, Rejected, Told, UnderWay
  <2>5. \A s \in Sends : UnderWay(s) => posting[s].answer # Blank
    BY <1>0 DEF PageInv, UnderWay, FormType, Blank
  <2>6. \A s \in Sends : UnderWay(s) /\ InHand(s) => InHand(s)'
    BY <1>0, <1>1, <2>1, <2>4, <2>5 DEF FormType, InHand, Awaited, Offers, Waiting
  <2> QED
    BY <1>0, <2>2, <2>3, <2>6, PageMoves
<1>4. CASE MustRefresh
  <2>1. form' = [form EXCEPT !.at = "refreshing", !.syncPending = TRUE, !.expects = Blank]
    BY <1>4 DEF MustRefresh, Refreshing
  <2>2. FormType'
    BY <1>0, <2>1 DEF FormType, Blank
  <2>3. PageInv'
    BY <1>0, <1>1, <2>1 DEF FormType, PageInv, Waiting, Blank
  <2>4. ~UnderWay(n)
    BY <1>4 DEF MustRefresh, Told, UnderWay
  <2>5. \A s \in Sends : UnderWay(s) /\ InHand(s) => InHand(s)'
    BY <1>0, <1>1, <2>1, <2>4 DEF FormType, InHand, Awaited, Offers, Waiting
  <2> QED
    BY <1>0, <2>2, <2>3, <2>5, PageMoves
<1> QED
  BY <1>2, <1>3, <1>4

LEMMA RefreshSteps == AnswerInv /\ RefreshStep => AnswerInv'
<1> SUFFICES ASSUME AnswerInv, RefreshStep PROVE AnswerInv'
  OBVIOUS
<1>0. FormType /\ PostingType /\ PageInv
  BY DEF AnswerInv
<1>1. CASE Refresh
  <2>1. /\ form' = [form EXCEPT !.at = "refreshing", !.syncPending = TRUE,
                                !.expects = form.accepted]
        /\ form.at = "idle" /\ form.retryAnswer = Blank
        /\ UNCHANGED <<posting, recorded, excused>>
    BY <1>1 DEF Refresh, Refreshing
  <2>2. FormType'
    BY <1>0, <2>1 DEF FormType
  <2>3. PageInv'
    BY <1>0, <2>1 DEF FormType, PageInv, Waiting
  <2>4. \A s \in Sends : InHand(s) => InHand(s)'
    BY <1>0, <2>1 DEF FormType, InHand, Awaited, Offers, Waiting
  <2> QED
    BY <2>1, <2>2, <2>3, <2>4, PageMoves
<1>2. CASE ReadTranscript
  <2>1. /\ form' = [form EXCEPT !.at = "read", !.seen = Len(recorded)]
        /\ form.at = "refreshing" /\ UNCHANGED <<posting, recorded, excused>>
    BY <1>2 DEF ReadTranscript
  <2>2. Len(recorded) \in Nat
    BY DEF AnswerInv, RecordedInv
  <2>3. FormType'
    BY <1>0, <2>1, <2>2 DEF FormType
  <2>4. PageInv'
    BY <1>0, <2>1 DEF FormType, PageInv, Waiting
  <2>5. \A s \in Sends : InHand(s) => InHand(s)'
    BY <1>0, <2>1 DEF FormType, InHand, Awaited, Offers, Waiting
  <2> QED
    BY <2>1, <2>3, <2>4, <2>5, PageMoves
<1>3. CASE RefreshFails \/ Cancel \/ (ApplyTranscript /\ form' = Stop(form))
  <2>1. /\ form' = [form EXCEPT !.at = "idle", !.expects = Blank, !.seen = 0]
        /\ UNCHANGED <<posting, recorded>>
        /\ excused' = IF Waiting THEN excused \cup {form.expects} ELSE excused
    BY <1>3 DEF RefreshFails, Cancel, ApplyTranscript, Stop, Waiting
  <2>2. FormType'
    BY <1>0, <2>1 DEF FormType, Blank
  <2>3. PageInv'
    BY <1>0, <2>1 DEF FormType, PageInv, Waiting, Blank
  <2>4. \A s \in Sends : posting[s].answer \notin excused' /\ InHand(s) => InHand(s)'
    BY <1>0, <2>1 DEF FormType, InHand, Awaited, Offers, Waiting, PageInv
  <2> QED
    BY <2>1, <2>2, <2>3, <2>4, PageMoves
<1>4. CASE ApplyTranscript /\ form' # Stop(form)
  <2> DEFINE d == form.expects
  <2>1. /\ form' = [form EXCEPT !.at = "idle", !.expects = Blank, !.seen = 0,
                       !.answer = IF @ = d THEN Blank ELSE @,
                       !.accepted = Blank, !.retryAnswer = Blank, !.syncPending = FALSE,
                       !.turn = form.seen + 1]
        /\ form.at = "read" /\ UNCHANGED <<posting, recorded, excused>>
    BY <1>0, <1>4 DEF ApplyTranscript, Stop, FormType
  <2>2. FormType'
    <3>1. /\ (IF form.answer = d THEN Blank ELSE form.answer) \in Nat
          /\ Blank \in Nat /\ form.seen + 1 \in Nat
      BY <1>0 DEF FormType, Blank
    <3> QED
      BY <1>0, <2>1, <3>1 DEF FormType
  <2>3. PageInv'
    BY <1>0, <2>1 DEF FormType, PageInv, Waiting, Blank
  <2>4. d = form.accepted
    BY <1>0, <2>1 DEF PageInv
  <2>5. \A s \in Sends : UnderWay(s) => posting[s].answer # Blank
    BY <1>0 DEF PageInv, UnderWay, FormType, Blank
  <2>6. \A s \in Sends : UnderWay(s) /\ InHand(s) => InHand(s)'
    BY <1>0, <2>1, <2>4, <2>5 DEF FormType, InHand, Awaited, Offers, Waiting
  <2> QED
    BY <2>1, <2>2, <2>3, <2>6, PageMoves
<1> QED
  BY <1>1, <1>2, <1>3, <1>4 DEF RefreshStep

LEMMA AnswerStep == AnswerInv /\ [AnswerNext]_answerVars => AnswerInv'
<1> SUFFICES ASSUME AnswerInv, [AnswerNext]_answerVars PROVE AnswerInv'
  OBVIOUS
<1>1. CASE UNCHANGED answerVars
  BY <1>1 DEF answerVars, AnswerInv, FormType, PostingType, PageInv, RequestInv, RecordedInv,
              NoAnswerTwice, InHand, Awaited, Offers, UnderWay, Waiting
<1> QED
  BY <1>1, ServerSteps, OtherRecorded, WritesAnswer, SubmitsAnswer, Outcomes, RefreshSteps
     DEF AnswerNext, SubmitStep

\* Whatever is lost between the page and the server, an answer is recorded for one question
\* only (submitAnswer and refreshSession of use-interview.ts), unless its request was
\* cancelled or the COMMIT that recorded it was not answered.
THEOREM RecordedOnce == AnswerSpec => []NoAnswerTwice
<1>1. AnswerInv => NoAnswerTwice
  BY DEF AnswerInv
<1> QED
  BY <1>1, AnswerStarts, AnswerStep, PTL DEF AnswerSpec
=============================================================================

------------------------------ MODULE RunQueue ------------------------------
(***************************************************************************)
(* Running code through the queue of backend/src/services/run-queue.ts: a  *)
(* request adds a job, waits for its result and removes it; the workers of *)
(* every backend instance take jobs under one cap, and each job they run   *)
(* holds one sandbox of the code runner.                                   *)
(*                                                                         *)
(* The queue itself (BullMQ) is modelled from how it is used: adding,      *)
(* taking, finishing and removing a job are atomic in Redis, a job that is *)
(* being run cannot be removed, and one whose worker died is run again     *)
(* once its lock has expired, which is longer than any run takes.          *)
(***************************************************************************)
EXTENDS Naturals, FiniteSets

CONSTANTS
    Jobs,           \* requests, each with its job
    Workers,        \* backend instances
    Nobody,         \* no worker
    Concurrency,    \* RUN_CONCURRENCY
    MaxDeaths       \* bound: workers that die

ASSUME QueueAssumption ==
    /\ Nobody \notin Workers
    /\ Concurrency \in Nat \ {0}
    /\ MaxDeaths \in Nat

VARIABLES
    waiter,         \* the request: what it waits for, and its answer
    stored,         \* the job in Redis
    worker,         \* the instance that runs it
    sandboxes,      \* sandboxes that run it
    stalls,         \* times it was found stalled
    deaths,         \* workers that have died
    orphan          \* ghost: jobs that started although nobody waited any more

queueVars == <<waiter, stored, worker, sandboxes, stalls, deaths, orphan>>

QueueInit ==
    /\ waiter = [j \in Jobs |-> "none"]
    /\ stored = [j \in Jobs |-> "none"]
    /\ worker = [j \in Jobs |-> Nobody]
    /\ sandboxes = [j \in Jobs |-> 0]
    /\ stalls = [j \in Jobs |-> 0]
    /\ deaths = 0
    /\ orphan = {}

Wait(j, for) == waiter' = [waiter EXCEPT ![j] = for]
Store(j, as) == stored' = [stored EXCEPT ![j] = as]

------------------------------------------------------------------------------
(* enqueue *)

Request(j) ==
    /\ waiter[j] = "none"
    /\ Wait(j, "adding")
    /\ UNCHANGED <<stored, worker, sandboxes, stalls, deaths, orphan>>

Add(j) ==
    /\ waiter[j] = "adding"
    /\ Wait(j, "waiting") /\ Store(j, "waiting")
    /\ UNCHANGED <<worker, sandboxes, stalls, deaths, orphan>>

\* ENQUEUE_TIMEOUT_MS: the request is refused, and the command is still on its way.
AddTimesOut(j) ==
    /\ waiter[j] = "adding"
    /\ Wait(j, "refused")
    /\ UNCHANGED <<stored, worker, sandboxes, stalls, deaths, orphan>>

\* Redis is back: it takes the command that nobody waits for.
AddLands(j) ==
    /\ waiter[j] = "refused" /\ stored[j] = "none"
    /\ Store(j, "waiting")
    /\ UNCHANGED <<waiter, worker, sandboxes, stalls, deaths, orphan>>

\* waitUntilFinished has the result, or the error.
ReadResult(j) ==
    /\ waiter[j] = "waiting" /\ stored[j] = "finished"
    /\ Wait(j, "read")
    /\ UNCHANGED <<stored, worker, sandboxes, stalls, deaths, orphan>>

\* WAIT_TIMEOUT_MS
WaitTimesOut(j) ==
    /\ waiter[j] = "waiting"
    /\ Wait(j, "late")
    /\ UNCHANGED <<stored, worker, sandboxes, stalls, deaths, orphan>>

\* Mutant: only a job that is done is removed.
MutantRemoved(was) == IF was = "finished" THEN "removed" ELSE was

\* Mutant: a job that is done is left to the age purge.
MutantLeft(was) == IF was = "waiting" THEN "removed" ELSE was

\* job.remove: a job being run stays.
Removed(was) == IF was \in {"waiting", "finished"} THEN "removed" ELSE was

\* The request removes its job and is answered: with the result, or as busy.
Remove(j) ==
    /\ waiter[j] \in {"read", "late"}
    /\ Store(j, Removed(stored[j]))
    /\ Wait(j, IF waiter[j] = "read" THEN "answered" ELSE "busy")
    /\ UNCHANGED <<worker, sandboxes, stalls, deaths, orphan>>

------------------------------------------------------------------------------
(* The workers *)

Active == {j \in Jobs : stored[j] = "active"}

\* The global cap, counted in Redis.
Free == Cardinality(Active) < Concurrency

Gone == {"answered", "busy"}

Start(j, w) ==
    /\ stored[j] = "waiting" /\ Free
    /\ Store(j, "active")
    /\ worker' = [worker EXCEPT ![j] = w]
    /\ sandboxes' = [sandboxes EXCEPT ![j] = @ + 1]
    /\ orphan' = IF waiter[j] \in Gone /\ stalls[j] = 0 THEN orphan \cup {j} ELSE orphan
    /\ UNCHANGED <<waiter, stalls, deaths>>

\* The code runner answers, or fails: attempts is 1.
Finish(j) ==
    /\ stored[j] = "active" /\ worker[j] # Nobody
    /\ Store(j, "finished")
    /\ worker' = [worker EXCEPT ![j] = Nobody]
    /\ sandboxes' = [sandboxes EXCEPT ![j] = @ - 1]
    /\ UNCHANGED <<waiter, stalls, deaths, orphan>>

\* An instance dies: its requests are gone, its jobs stay active and their sandboxes run on.
WorkerDies(w) ==
    /\ deaths < MaxDeaths
    /\ deaths' = deaths + 1
    /\ worker' = [j \in Jobs |-> IF worker[j] = w THEN Nobody ELSE worker[j]]
    /\ UNCHANGED <<waiter, stored, sandboxes, stalls, orphan>>

SandboxEnds(j) ==
    /\ worker[j] = Nobody /\ sandboxes[j] > 0
    /\ sandboxes' = [sandboxes EXCEPT ![j] = @ - 1]
    /\ UNCHANGED <<waiter, stored, worker, stalls, deaths, orphan>>

\* Mutant: the lock is shorter than a run.
MutantLockExpired(j) == worker[j] = Nobody

\* LOCK_DURATION_MS: longer than any run the sandbox allows.
LockExpired(j) == worker[j] = Nobody /\ sandboxes[j] = 0

\* A stalled job waits again, once.
Stall(j) ==
    /\ stored[j] = "active" /\ LockExpired(j)
    /\ Store(j, IF stalls[j] = 0 THEN "waiting" ELSE "finished")
    /\ stalls' = [stalls EXCEPT ![j] = @ + 1]
    /\ UNCHANGED <<waiter, worker, sandboxes, deaths, orphan>>

\* The age purge, when another job finishes.
Purge(j) ==
    /\ stored[j] = "finished"
    /\ \E k \in Jobs \ {j} : stored[k] = "finished"
    /\ waiter[j] # "waiting"
    /\ Store(j, "removed")
    /\ UNCHANGED <<waiter, worker, sandboxes, stalls, deaths, orphan>>

RequestStep(j) ==
    \/ Request(j)
    \/ Add(j)
    \/ AddTimesOut(j)
    \/ AddLands(j)
    \/ ReadResult(j)
    \/ WaitTimesOut(j)
    \/ Remove(j)

RunStep(j) == Finish(j) \/ SandboxEnds(j) \/ Stall(j) \/ Purge(j)

QueueNext ==
    \/ \E j \in Jobs : RequestStep(j)
    \/ \E j \in Jobs : RunStep(j)
    \/ \E j \in Jobs, w \in Workers : Start(j, w)
    \/ \E w \in Workers : WorkerDies(w)

QueueSpec == QueueInit /\ [][QueueNext]_queueVars

------------------------------------------------------------------------------

\* However many instances take jobs, and whichever of them die while they run one, there
\* are never more sandboxes than the cap: a dead worker's sandbox keeps its place in the
\* queue until it has ended (run-queue.ts, the global cap and LOCK_DURATION_MS).
SandboxesCapped ==
    /\ \A j \in Jobs : sandboxes[j] <= 1
    /\ Cardinality({j \in Jobs : sandboxes[j] > 0}) <= Concurrency

\* A request that was told the queue is busy has no run of its code started after it:
\* "take it out so it doesn't run for a client that has gone" (run-queue.ts).  (A job whose
\* command was still on its way to Redis is another matter.)
BusyIsNotRun == orphan = {}

\* Once the answer is sent, the job and the hidden test cases in it are gone from Redis;
\* of a request that was told the queue is busy, only a job already running stays.
AnsweredIsRemoved ==
    \A j \in Jobs :
        /\ waiter[j] = "answered" => stored[j] = "removed"
        /\ waiter[j] = "busy" => stored[j] # "waiting" \/ stalls[j] > 0
=============================================================================

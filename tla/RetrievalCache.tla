--------------------------- MODULE RetrievalCache ---------------------------
(***************************************************************************)
(* The retrieval cache of ai-service/app/rag/cache.py, as                  *)
(* RAGService.retrieve and ingest_documents use it: the processes of the   *)
(* service share one Redis, which holds a generation counter and, per      *)
(* partition, the results retrieved under it.  Each process has threads    *)
(* that retrieve or ingest, a circuit breaker and a bump it still owes.    *)
(*                                                                         *)
(* Any Redis call may fail, with or without having done its work.  A       *)
(* result is the number of corpus writes it has seen.  One query under one *)
(* filter and route is looked at: other partitions share nothing but the   *)
(* generation.  The semantic tier is off, as it ships.                     *)
(***************************************************************************)
EXTENDS Integers

CONSTANTS
    Processes,      \* processes of the service
    Lanes,          \* each process's threads
    Missing,        \* no entry, or none any more
    MaxWrites,      \* bound: corpus writes
    MaxBumps        \* bound: increments of the generation

Threads == Processes \X Lanes
Writes == 0 .. MaxWrites
Generations == 0 .. MaxBumps

ASSUME RetrievalAssumption ==
    /\ MaxWrites \in Nat
    /\ MaxBumps \in Nat
    /\ Missing \notin Writes

VARIABLES
    corpus,         \* writes made to the corpus (Chroma)
    gen,            \* ragcache:gen
    entries,        \* the cached result of each generation's partition
    covers,         \* ghost: the writes each generation came after
    thread,         \* what each thread is doing
    pending,        \* _pending_bump of each process
    broken,         \* whether its breaker is open
    debt            \* ghost: the newest write whose invalidate() returned in a process,
                    \* whether it owes a bump, whether it forgot one it still owed

retrievalVars == <<corpus, gen, entries, covers, thread, pending, broken, debt>>

ProcessOf(t) == t[1]

NoRequest == [at |-> "idle", gen |-> 0, result |-> 0, promised |-> 0, here |-> 0]

NoDebt == [handled |-> 0, owes |-> FALSE, lost |-> FALSE]

RetrievalInit ==
    /\ corpus = 0
    /\ gen = 0
    /\ entries = [g \in Generations |-> Missing]
    /\ covers = [g \in Generations |-> 0]
    /\ thread = [t \in Threads |-> NoRequest]
    /\ pending = [p \in Processes |-> FALSE]
    /\ broken = [p \in Processes |-> FALSE]
    /\ debt = [p \in Processes |-> NoDebt]

GoTo(t, at) == thread' = [thread EXCEPT ![t].at = at]

\* INCR ragcache:gen
Bump ==
    /\ gen < MaxBumps
    /\ gen' = gen + 1
    /\ covers' = [covers EXCEPT ![gen + 1] = corpus]

\* A call that raised: Redis may have done it, and only the answer be lost.
BumpRaises == Bump \/ UNCHANGED <<gen, covers>>

OpenBreaker(p) == broken' = [broken EXCEPT ![p] = TRUE]

------------------------------------------------------------------------------
(* Writing: ingest_documents, delete_source *)

\* The collection is changed; invalidate() comes after.
WriteCorpus(t) ==
    /\ thread[t].at = "idle"
    /\ corpus < MaxWrites
    /\ corpus' = corpus + 1
    /\ thread' = [thread EXCEPT ![t] = [NoRequest EXCEPT !.at = "written", !.result = corpus']]
    /\ UNCHANGED <<gen, entries, covers, pending, broken, debt>>

\* The deletion of a source raises, with or without having done its work; the exception
\* is swallowed and nothing is invalidated.
DeletionRaises(t) ==
    /\ thread[t].at = "written"
    /\ thread' = [thread EXCEPT ![t] = NoRequest]
    /\ UNCHANGED <<corpus, gen, entries, covers, pending, broken, debt>>

\* invalidate() returns.
Handle(t) ==
    /\ thread' = [thread EXCEPT ![t] = NoRequest]
    /\ debt' = [debt EXCEPT ![ProcessOf(t)].handled =
                   IF @ < thread[t].result THEN thread[t].result ELSE @]

Invalidate(t) ==
    /\ thread[t].at = "written"
    /\ Bump
    /\ Handle(t)
    /\ UNCHANGED <<corpus, entries, pending, broken>>

InvalidateRaises(t) ==
    /\ thread[t].at = "written"
    /\ BumpRaises
    /\ GoTo(t, "unannounced")
    /\ UNCHANGED <<corpus, entries, pending, broken, debt>>

\* The bump is remembered, ...
Remember(t) ==
    /\ thread[t].at = "unannounced"
    /\ pending' = [pending EXCEPT ![ProcessOf(t)] = TRUE]
    /\ debt' = [debt EXCEPT ![ProcessOf(t)].owes = TRUE]
    /\ GoTo(t, "remembered")
    /\ UNCHANGED <<corpus, gen, entries, covers, broken>>

\* ... and the breaker stops this process's reads for a while.
GiveUp(t) ==
    /\ thread[t].at = "remembered"
    /\ OpenBreaker(ProcessOf(t))
    /\ Handle(t)
    /\ UNCHANGED <<corpus, gen, entries, covers, pending>>

------------------------------------------------------------------------------
(* Reading: retrieve *)

\* Mutant: a process that owes a bump reads the generation as it is.
MutantAfterPending(p) == "reading"

AfterPending(p) == IF pending[p] THEN "owing" ELSE "reading"

\* generation(): the breaker is closed.
StartRetrieve(t) ==
    /\ thread[t].at = "idle"
    /\ ~broken[ProcessOf(t)]
    /\ thread' = [thread EXCEPT ![t] =
                     [NoRequest EXCEPT !.at = AfterPending(ProcessOf(t)),
                                       !.promised = covers[gen],
                                       !.here = debt[ProcessOf(t)].handled]]
    /\ UNCHANGED <<corpus, gen, entries, covers, pending, broken, debt>>

\* The bump the process owes is made ...
RetryBump(t) ==
    /\ thread[t].at = "owing"
    /\ Bump
    /\ debt' = [debt EXCEPT ![ProcessOf(t)].owes = FALSE]
    /\ GoTo(t, "bumped")
    /\ UNCHANGED <<corpus, entries, pending, broken>>

\* ... and then forgotten.
ForgetPending(t) ==
    /\ thread[t].at = "bumped"
    /\ pending' = [pending EXCEPT ![ProcessOf(t)] = FALSE]
    /\ debt' = [debt EXCEPT ![ProcessOf(t)].lost = @ \/ debt[ProcessOf(t)].owes]
    /\ GoTo(t, "reading")
    /\ UNCHANGED <<corpus, gen, entries, covers, broken>>

RetryRaises(t) ==
    /\ thread[t].at = "owing"
    /\ BumpRaises
    /\ OpenBreaker(ProcessOf(t))
    /\ thread' = [thread EXCEPT ![t] = NoRequest]
    /\ UNCHANGED <<corpus, entries, pending, debt>>

\* The generation becomes part of the partition.
ReadGeneration(t) ==
    /\ thread[t].at = "reading"
    /\ thread' = [thread EXCEPT ![t] = [@ EXCEPT !.at = "looking", !.gen = gen]]
    /\ UNCHANGED <<corpus, gen, entries, covers, pending, broken, debt>>

IsHit(g) == entries[g] # Missing

\* lookup() finds the query in the partition.
Hit(t) ==
    /\ thread[t].at = "looking"
    /\ IsHit(thread[t].gen)
    /\ thread' = [thread EXCEPT ![t] = [@ EXCEPT !.at = "served",
                                                 !.result = entries[thread[t].gen]]]
    /\ UNCHANGED <<corpus, gen, entries, covers, pending, broken, debt>>

Miss(t) ==
    /\ thread[t].at = "looking"
    /\ ~IsHit(thread[t].gen)
    /\ GoTo(t, "querying")
    /\ UNCHANGED <<corpus, gen, entries, covers, pending, broken, debt>>

\* The collection is queried, and what follows (fusion, reranking) takes its time.
Query(t) ==
    /\ thread[t].at = "querying"
    /\ thread' = [thread EXCEPT ![t] = [@ EXCEPT !.at = "storing", !.result = corpus]]
    /\ UNCHANGED <<corpus, gen, entries, covers, pending, broken, debt>>

\* Mutant: the generation is read again when the result is stored.
MutantPartition(t) == gen

Partition(t) == thread[t].gen

\* store_result(), under the partition that was looked up.
StoreResult(t) ==
    /\ thread[t].at = "storing"
    /\ entries' = [entries EXCEPT ![Partition(t)] = thread[t].result]
    /\ thread' = [thread EXCEPT ![t] = NoRequest]
    /\ UNCHANGED <<corpus, gen, covers, pending, broken, debt>>

\* The result is larger than an entry may be.
TooLarge(t) ==
    /\ thread[t].at = "storing"
    /\ thread' = [thread EXCEPT ![t] = NoRequest]
    /\ UNCHANGED <<corpus, gen, entries, covers, pending, broken, debt>>

\* A call of the cache raises; the pipeline of put() may have been executed.
CacheRaises(t) ==
    /\ thread[t].at \in {"reading", "looking", "storing"}
    /\ OpenBreaker(ProcessOf(t))
    /\ \/ UNCHANGED entries
       \/ /\ thread[t].at = "storing"
          /\ entries' = [entries EXCEPT ![Partition(t)] = thread[t].result]
    /\ thread' = [thread EXCEPT ![t] = NoRequest]
    /\ UNCHANGED <<corpus, gen, covers, pending, debt>>

\* The response is sent.
Respond(t) ==
    /\ thread[t].at = "served"
    /\ thread' = [thread EXCEPT ![t] = NoRequest]
    /\ UNCHANGED <<corpus, gen, entries, covers, pending, broken, debt>>

------------------------------------------------------------------------------
(* Time and failures *)

\* BREAKER_SECONDS have passed.
CloseBreaker(p) ==
    /\ broken[p]
    /\ broken' = [broken EXCEPT ![p] = FALSE]
    /\ UNCHANGED <<corpus, gen, entries, covers, thread, pending, debt>>

\* An entry expires, or the cap on their number drops it.
DropEntry(g) ==
    /\ entries[g] # Missing
    /\ entries' = [entries EXCEPT ![g] = Missing]
    /\ UNCHANGED <<corpus, gen, covers, thread, pending, broken, debt>>

\* A process is restarted: what it owed is forgotten.
RestartProcess(p) ==
    /\ thread' = [t \in Threads |-> IF ProcessOf(t) = p THEN NoRequest ELSE thread[t]]
    /\ pending' = [pending EXCEPT ![p] = FALSE]
    /\ broken' = [broken EXCEPT ![p] = FALSE]
    /\ debt' = [debt EXCEPT ![p] = NoDebt]
    /\ UNCHANGED <<corpus, gen, entries, covers>>

WriteStep(t) ==
    \/ WriteCorpus(t)
    \/ DeletionRaises(t)
    \/ Invalidate(t)
    \/ InvalidateRaises(t)
    \/ Remember(t)
    \/ GiveUp(t)

GenerationStep(t) ==
    \/ StartRetrieve(t)
    \/ RetryBump(t)
    \/ ForgetPending(t)
    \/ RetryRaises(t)
    \/ ReadGeneration(t)

ResultStep(t) ==
    \/ Hit(t)
    \/ Miss(t)
    \/ Query(t)
    \/ StoreResult(t)
    \/ TooLarge(t)
    \/ CacheRaises(t)
    \/ Respond(t)

RetrievalNext ==
    \/ \E t \in Threads : WriteStep(t)
    \/ \E t \in Threads : GenerationStep(t)
    \/ \E t \in Threads : ResultStep(t)
    \/ \E p \in Processes : CloseBreaker(p)
    \/ \E p \in Processes : RestartProcess(p)
    \/ \E g \in Generations : DropEntry(g)

RetrievalSpec == RetrievalInit /\ [][RetrievalNext]_retrievalVars

------------------------------------------------------------------------------

\* A retrieval that begins after a bump is never served a result from before the
\* writes that bump came after, in any process, however long the retrieval that
\* cached it took and whatever failed meanwhile (cache.py: older entries become
\* unreachable at once).
InvalidatedUnreachable ==
    \A t \in Threads : thread[t].at = "served" => thread[t].result >= thread[t].promised

\* A process never serves a result from before a write it has itself invalidated, or
\* tried to: "the bump is retried before this process reads again, so the entries the
\* write made stale are never served from here" (cache.py, invalidate).  The exception
\* is a process that was making the bump it owed when another thread of its own came to
\* owe one: it forgets both.
OwedBumpsHonoured ==
    \A t \in Threads :
        thread[t].at = "served" =>
            thread[t].result >= thread[t].here \/ debt[ProcessOf(t)].lost
=============================================================================

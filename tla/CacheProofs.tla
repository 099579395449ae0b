---------------------------- MODULE CacheProofs ----------------------------
(***************************************************************************)
(* Theorems about the two caches, for any numbers of processes, threads,   *)
(* visitors, writes and bumps: a result from before a bump is not served   *)
(* to a request that begins after it.                                      *)
(***************************************************************************)
EXTENDS RetrievalCache, VersionedCache, TLAPS

------------------------------------------------------------------------------
(* RetrievalCache: types *)

Requests ==
    [at : {"idle", "written", "unannounced", "remembered", "owing", "bumped", "reading",
           "looking", "querying", "storing", "served"},
     gen : Generations, result : Writes, promised : Writes, here : Writes]

TypeInv ==
    /\ corpus \in Writes
    /\ gen \in Generations
    /\ entries \in [Generations -> Writes \cup {Missing}]
    /\ covers \in [Generations -> Writes]
    /\ thread \in [Threads -> Requests]
    /\ pending \in [Processes -> BOOLEAN]
    /\ broken \in [Processes -> BOOLEAN]
    /\ debt \in [Processes -> [handled : Writes, owes : BOOLEAN, lost : BOOLEAN]]

LEMMA ProcessOfThread == ASSUME NEW t \in Threads PROVE ProcessOf(t) \in Processes
BY DEF Threads, ProcessOf

LEMMA NoRequestType == NoRequest \in Requests
BY RetrievalAssumption DEF NoRequest, Requests, Generations, Writes

LEMMA TypeInit == RetrievalInit => TypeInv
<1> SUFFICES ASSUME RetrievalInit PROVE TypeInv
  OBVIOUS
<1>1. 0 \in Writes /\ 0 \in Generations
  BY RetrievalAssumption DEF Writes, Generations
<1>2. thread \in [Threads -> Requests]
  BY NoRequestType DEF RetrievalInit
<1> QED
  BY <1>1, <1>2 DEF RetrievalInit, TypeInv, NoDebt

\* What a bump does to the generations.
LEMMA BumpType ==
    ASSUME TypeInv, Bump
    PROVE  gen' \in Generations /\ covers' \in [Generations -> Writes]
BY RetrievalAssumption DEF TypeInv, Bump, Generations

LEMMA BumpRaisesType ==
    ASSUME TypeInv, BumpRaises
    PROVE  gen' \in Generations /\ covers' \in [Generations -> Writes]
BY BumpType DEF BumpRaises, TypeInv

LEMMA WriteTypes ==
    ASSUME TypeInv, NEW t \in Threads, WriteStep(t)
    PROVE  TypeInv'
<1> USE ProcessOfThread, NoRequestType
<1>0. ASSUME Handle(t) PROVE /\ thread' \in [Threads -> Requests]
                             /\ debt' \in [Processes -> [handled : Writes, owes : BOOLEAN, lost : BOOLEAN]]
  <2>1. thread[t].result \in Writes
    BY DEF TypeInv, Requests
  <2> QED
    BY <1>0, <2>1 DEF Handle, TypeInv
<1>1. CASE WriteCorpus(t)
  <2>1. corpus' \in Writes
    BY <1>1, RetrievalAssumption DEF WriteCorpus, TypeInv, Writes
  <2>2. [NoRequest EXCEPT !.at = "written", !.result = corpus'] \in Requests
    BY <2>1 DEF Requests
  <2> QED
    BY <1>1, <2>1, <2>2 DEF WriteCorpus, TypeInv
<1>2. CASE DeletionRaises(t)
  BY <1>2 DEF DeletionRaises, TypeInv
<1>3. CASE Invalidate(t)
  BY <1>3, <1>0, BumpType DEF Invalidate, TypeInv
<1>4. CASE InvalidateRaises(t)
  BY <1>4, BumpRaisesType DEF InvalidateRaises, GoTo, TypeInv, Requests
<1>5. CASE Remember(t)
  BY <1>5 DEF Remember, GoTo, TypeInv, Requests
<1>6. CASE GiveUp(t)
  BY <1>6, <1>0 DEF GiveUp, OpenBreaker, TypeInv
<1> QED
  BY <1>1, <1>2, <1>3, <1>4, <1>5, <1>6 DEF WriteStep

LEMMA GenerationTypes ==
    ASSUME TypeInv, NEW t \in Threads, GenerationStep(t)
    PROVE  TypeInv'
<1> USE ProcessOfThread, NoRequestType
<1>1. CASE StartRetrieve(t)
  <2>1. covers[gen] \in Writes /\ debt[ProcessOf(t)].handled \in Writes
    BY DEF TypeInv
  <2>2. [NoRequest EXCEPT !.at = AfterPending(ProcessOf(t)), !.promised = covers[gen],
                          !.here = debt[ProcessOf(t)].handled] \in Requests
    BY <2>1 DEF Requests, AfterPending
  <2> QED
    BY <1>1, <2>2 DEF StartRetrieve, TypeInv
<1>2. CASE RetryBump(t)
  <2>1. [thread[t] EXCEPT !.at = "bumped"] \in Requests
    BY DEF TypeInv, Requests
  <2>2. thread' \in [Threads -> Requests]
    BY <1>2, <2>1 DEF RetryBump, GoTo, TypeInv
  <2> QED
    BY <1>2, <2>2, BumpType DEF RetryBump, TypeInv
<1>3. CASE ForgetPending(t)
  BY <1>3 DEF ForgetPending, GoTo, TypeInv, Requests
<1>4. CASE RetryRaises(t)
  BY <1>4, BumpRaisesType DEF RetryRaises, OpenBreaker, TypeInv
<1>5. CASE ReadGeneration(t)
  BY <1>5 DEF ReadGeneration, TypeInv, Requests
<1> QED
  BY <1>1, <1>2, <1>3, <1>4, <1>5 DEF GenerationStep

LEMMA ResultTypes ==
    ASSUME TypeInv, NEW t \in Threads, ResultStep(t)
    PROVE  TypeInv'
<1> USE ProcessOfThread, NoRequestType
<1>0. thread[t] \in Requests /\ thread[t].gen \in Generations /\ thread[t].result \in Writes
  BY DEF TypeInv, Requests
<1>1. CASE Hit(t)
  <2>1. entries[thread[t].gen] \in Writes
    BY <1>0, <1>1 DEF Hit, IsHit, TypeInv
  <2> QED
    BY <1>0, <1>1, <2>1 DEF Hit, TypeInv, Requests
<1>2. CASE Miss(t)
  BY <1>2 DEF Miss, GoTo, TypeInv, Requests
<1>3. CASE Query(t)
  BY <1>3 DEF Query, TypeInv, Requests
<1>4. CASE StoreResult(t)
  BY <1>0, <1>4 DEF StoreResult, TypeInv
<1>5. CASE TooLarge(t)
  BY <1>5 DEF TooLarge, TypeInv
<1>6. CASE CacheRaises(t)
  BY <1>0, <1>6 DEF CacheRaises, OpenBreaker, TypeInv
<1>7. CASE Respond(t)
  BY <1>7 DEF Respond, TypeInv
<1> QED
  BY <1>1, <1>2, <1>3, <1>4, <1>5, <1>6, <1>7 DEF ResultStep

LEMMA TypeStep == TypeInv /\ [RetrievalNext]_retrievalVars => TypeInv'
<1> SUFFICES ASSUME TypeInv, [RetrievalNext]_retrievalVars PROVE TypeInv'
  OBVIOUS
<1>1. CASE UNCHANGED retrievalVars
  BY <1>1 DEF retrievalVars, TypeInv
<1>2. ASSUME NEW p \in Processes, CloseBreaker(p) PROVE TypeInv'
  BY <1>2 DEF CloseBreaker, TypeInv
<1>3. ASSUME NEW p \in Processes, RestartProcess(p) PROVE TypeInv'
  <2>1. NoDebt \in [handled : Writes, owes : BOOLEAN, lost : BOOLEAN]
    BY RetrievalAssumption DEF NoDebt, Writes
  <2> QED
    BY <1>3, <2>1, NoRequestType DEF RestartProcess, TypeInv
<1>4. ASSUME NEW g \in Generations, DropEntry(g) PROVE TypeInv'
  BY <1>4 DEF DropEntry, TypeInv
<1> QED
  BY <1>1, <1>2, <1>3, <1>4, WriteTypes, GenerationTypes, ResultTypes DEF RetrievalNext

------------------------------------------------------------------------------
(* RetrievalCache: what a thread holds is no older than it was promised *)

\* A generation covers no fewer writes than those before it, and what is cached under it
\* has seen what it covers.
CacheInv ==
    /\ \A g \in Generations : covers[g] <= corpus
    /\ \A g, h \in Generations : g <= h /\ h <= gen => covers[g] <= covers[h]
    /\ \A g \in Generations : entries[g] # Missing =>
          g <= gen /\ covers[g] <= entries[g] /\ entries[g] <= corpus

\* A write whose bump process p has made, owes, or has forgotten.
Accounted(p, write) == write <= covers[gen] \/ debt[p].owes \/ debt[p].lost

DebtInv ==
    \A p \in Processes :
        /\ debt[p].handled <= corpus
        /\ Accounted(p, debt[p].handled)
        /\ debt[p].owes => pending[p] \/ debt[p].lost

SeenBy(p, r, seen) == r.promised <= seen /\ (r.here <= seen \/ debt[p].lost)

\* What a request of process p may rely on at each of its steps.
Fresh(p, r) ==
    /\ r.promised <= covers[gen]
    /\ r.here <= corpus
    /\ r.result <= corpus
    /\ r.at = "remembered" => Accounted(p, r.result)
    /\ r.at \in {"bumped", "reading"} => SeenBy(p, r, covers[gen])
    /\ r.at \in {"looking", "querying", "storing"} =>
          r.gen <= gen /\ SeenBy(p, r, covers[r.gen])
    /\ r.at = "storing" => covers[r.gen] <= r.result
    /\ r.at = "served" => SeenBy(p, r, r.result)

ThreadInv == \A t \in Threads : Fresh(ProcessOf(t), thread[t])

RetrievalInv == TypeInv /\ CacheInv /\ DebtInv /\ ThreadInv

LEMMA RetrievalInit0 == RetrievalInit => RetrievalInv
<1> SUFFICES ASSUME RetrievalInit PROVE RetrievalInv
  OBVIOUS
<1>1. 0 \in Generations
  BY RetrievalAssumption DEF Generations
<1>2. CacheInv
  <2>1. \A g \in Generations : covers[g] = 0 /\ entries[g] = Missing
    BY DEF RetrievalInit
  <2> QED
    BY <1>1, <2>1 DEF RetrievalInit, CacheInv
<1>3. DebtInv
  <2>1. \A p \in Processes : debt[p].handled = 0 /\ debt[p].owes = FALSE
    BY DEF RetrievalInit, NoDebt
  <2>2. covers[gen] = 0 /\ corpus = 0
    BY <1>1 DEF RetrievalInit
  <2>3. 0 <= 0
    OBVIOUS
  <2> QED
    BY <2>1, <2>2, <2>3, Zenon DEF DebtInv, Accounted
<1>4. ThreadInv
  BY <1>1 DEF RetrievalInit, ThreadInv, Fresh, NoRequest, SeenBy, Accounted
<1> QED
  BY <1>2, <1>3, <1>4, TypeInit DEF RetrievalInv

\* What every step of the others may do to what a request relies on.
Advance ==
    /\ corpus <= corpus' /\ gen <= gen'
    /\ \A g \in Generations : g <= gen => covers'[g] = covers[g]
    /\ covers[gen] <= covers'[gen']

\* What they may do to what a process owes.
DebtMoves(p) ==
    /\ debt[p].lost => debt'[p].lost
    /\ debt[p].owes => debt'[p].owes \/ debt'[p].lost \/ corpus <= covers'[gen']

LEMMA BumpEffect ==
    ASSUME TypeInv, CacheInv, Bump, UNCHANGED <<corpus, entries>>
    PROVE  Advance /\ CacheInv' /\ covers'[gen'] = corpus
<1>1. gen \in Generations /\ gen' = gen + 1 /\ gen' \in Generations
  BY RetrievalAssumption DEF TypeInv, Bump, Generations
<1>2. covers'[gen'] = corpus /\ \A g \in Generations : g # gen' => covers'[g] = covers[g]
  BY <1>1 DEF TypeInv, Bump
<1>3. \A g \in Generations : g \in Int /\ covers[g] \in Int /\ covers'[g] \in Int
  <2>1. Generations \subseteq Int /\ Writes \subseteq Int
    BY RetrievalAssumption DEF Generations, Writes
  <2> QED
    BY <2>1, BumpType DEF TypeInv
<1>4. corpus \in Int
  BY DEF TypeInv, Writes
<1>5. Advance
  <2>1. \A g \in Generations : g <= gen => g # gen'
    BY <1>1, <1>3
  <2>2. covers[gen] <= corpus
    BY <1>1 DEF CacheInv
  <2> QED
    BY <1>1, <1>2, <1>3, <1>4, <2>1, <2>2 DEF Advance
<1>6. CacheInv'
  <2>1. \A g \in Generations : covers'[g] <= corpus'
    BY <1>1, <1>2, <1>3, <1>4 DEF CacheInv
  <2>2. ASSUME NEW g \in Generations, NEW h \in Generations, g <= h, h <= gen'
        PROVE  covers'[g] <= covers'[h]
    <3>1. CASE h = gen'
      BY <1>2, <2>1, <3>1
    <3>2. CASE h # gen'
      <4>1. h <= gen /\ g # gen'
        BY <1>1, <1>3, <2>2, <3>2
      <4> QED
        BY <1>2, <2>2, <3>2, <4>1 DEF CacheInv
    <3> QED
      BY <3>1, <3>2
  <2>3. ASSUME NEW g \in Generations, entries'[g] # Missing
        PROVE  g <= gen' /\ covers'[g] <= entries'[g] /\ entries'[g] <= corpus'
    <3>1. g <= gen /\ covers[g] <= entries[g] /\ entries[g] <= corpus
      BY <2>3 DEF CacheInv
    <3> QED
      BY <1>1, <1>2, <1>3, <3>1
  <2> QED
    BY <2>1, <2>2, <2>3 DEF CacheInv
<1> QED
  BY <1>2, <1>5, <1>6

LEMMA StillEffect ==
    ASSUME TypeInv, CacheInv, UNCHANGED <<corpus, gen, covers>>
    PROVE  Advance
BY DEF TypeInv, Advance, Generations, Writes

LEMMA RaisesEffect ==
    ASSUME TypeInv, CacheInv, BumpRaises, UNCHANGED <<corpus, entries>>
    PROVE  Advance /\ CacheInv'
<1>1. CASE Bump
  BY <1>1, BumpEffect
<1>2. CASE UNCHANGED <<gen, covers>>
  BY <1>2, StillEffect DEF CacheInv
<1> QED
  BY <1>1, <1>2 DEF BumpRaises

\* A write is accounted for until its process is restarted.
LEMMA AccountedKept ==
    ASSUME TypeInv, TypeInv', Advance, NEW p \in Processes, DebtMoves(p),
           NEW n \in Writes, n <= corpus, Accounted(p, n)
    PROVE  Accounted(p, n)'
<1>1. covers[gen] \in Int /\ covers'[gen'] \in Int /\ corpus \in Int /\ n \in Int
  BY DEF TypeInv, Writes
<1> QED
  BY <1>1 DEF Advance, DebtMoves, Accounted

\* A request that does nothing relies on what it relied on.
LEMMA FreshKept ==
    ASSUME TypeInv, TypeInv', Advance, NEW p \in Processes, DebtMoves(p),
           NEW r \in Requests, Fresh(p, r)
    PROVE  Fresh(p, r)'
<1>1. /\ covers[gen] \in Int /\ covers'[gen'] \in Int /\ corpus \in Int /\ corpus' \in Int
      /\ r.gen \in Generations /\ covers[r.gen] \in Int /\ gen \in Int /\ gen' \in Int
      /\ r.gen \in Int /\ r.promised \in Int /\ r.here \in Int /\ r.result \in Writes
  BY DEF TypeInv, Writes, Generations, Requests
<1>2. r.result <= corpus
  BY DEF Fresh
<1>3. r.at = "remembered" => Accounted(p, r.result)'
  BY <1>1, <1>2, AccountedKept DEF Fresh
<1>4. r.gen <= gen => covers'[r.gen] = covers[r.gen]
  BY <1>1 DEF Advance
<1>5. \A n : SeenBy(p, r, n) => SeenBy(p, r, n)'
  BY DEF SeenBy, DebtMoves
<1>6. SeenBy(p, r, covers[gen]) => SeenBy(p, r, covers[gen])'
  BY <1>1 DEF SeenBy, DebtMoves, Advance
<1>7. r.promised <= covers'[gen'] /\ r.here <= corpus' /\ r.result <= corpus'
  <2>1. r.promised <= covers[gen] /\ r.here <= corpus
    BY DEF Fresh
  <2>2. covers[gen] <= covers'[gen'] /\ corpus <= corpus'
    BY DEF Advance
  <2>3. r.result \in Int
    BY <1>1 DEF Writes
  <2> QED
    BY <1>1, <1>2, <2>1, <2>2, <2>3
<1>8. r.at \in {"bumped", "reading"} => SeenBy(p, r, covers[gen])'
  BY <1>6 DEF Fresh
<1>9. r.at \in {"looking", "querying", "storing"} =>
        (r.gen <= gen /\ SeenBy(p, r, covers[r.gen]))'
  BY <1>1, <1>4, <1>5 DEF Fresh, Advance, SeenBy, DebtMoves
<1>10. r.at = "storing" => (covers[r.gen] <= r.result)'
  BY <1>4 DEF Fresh
<1>11. r.at = "served" => SeenBy(p, r, r.result)'
  BY <1>5 DEF Fresh
<1> QED
  BY <1>3, <1>7, <1>8, <1>9, <1>10, <1>11 DEF Fresh

\* A step of one thread: what it must establish itself.
LEMMA OthersKept ==
    ASSUME RetrievalInv, TypeInv', CacheInv', DebtInv', Advance,
           \A p \in Processes : DebtMoves(p),
           NEW t \in Threads, \A u \in Threads : u # t => thread'[u] = thread[u],
           Fresh(ProcessOf(t), thread[t])'
    PROVE  RetrievalInv'
<1>1. ASSUME NEW u \in Threads, u # t PROVE Fresh(ProcessOf(u), thread[u])'
  <2>1. PICK r \in Requests : r = thread[u]
    BY DEF RetrievalInv, TypeInv
  <2>2. PICK p \in Processes : p = ProcessOf(u)
    BY ProcessOfThread
  <2>3. Fresh(p, r)
    BY <2>1, <2>2 DEF RetrievalInv, ThreadInv
  <2>4. Fresh(p, r)'
    BY <2>3, FreshKept DEF RetrievalInv
  <2>5. thread'[u] = r /\ ProcessOf(u)' = p
    BY <1>1, <2>1, <2>2 DEF ProcessOf
  <2> QED
    BY <2>4, <2>5
<1> QED
  BY <1>1 DEF RetrievalInv, ThreadInv

\* A step that leaves every debt alone keeps the accounts.
LEMMA DebtStays ==
    ASSUME TypeInv, TypeInv', DebtInv, Advance, UNCHANGED <<debt, pending>>
    PROVE  DebtInv' /\ \A p \in Processes : DebtMoves(p)
<1>1. \A p \in Processes : DebtMoves(p)
  BY DEF DebtMoves
<1>2. ASSUME NEW p \in Processes
      PROVE  /\ debt'[p].handled <= corpus'
             /\ Accounted(p, debt[p].handled)'
             /\ debt'[p].owes => pending'[p] \/ debt'[p].lost
  <2>1. PICK n \in Writes : n = debt[p].handled
    BY DEF TypeInv
  <2>2. n <= corpus /\ Accounted(p, n)
    BY <2>1 DEF DebtInv
  <2>3. Accounted(p, n)'
    BY <1>1, <2>2, AccountedKept
  <2>4. n <= corpus'
    BY <2>2 DEF Advance, TypeInv, Writes
  <2> QED
    BY <2>1, <2>3, <2>4 DEF DebtInv
<1> QED
  BY <1>1, <1>2 DEF DebtInv

\* A thread that is done relies on nothing.
LEMMA IdleFresh ==
    ASSUME TypeInv', NEW p \in Processes
    PROVE  Fresh(p, NoRequest)'
<1>1. 0 <= covers'[gen'] /\ 0 <= corpus'
  BY DEF TypeInv, Writes
<1> QED
  BY <1>1 DEF Fresh, NoRequest

\* The generation is not touched, and no entry is made.
LEMMA CacheStays ==
    ASSUME TypeInv, CacheInv, UNCHANGED <<corpus, gen, entries, covers>>
    PROVE  CacheInv' /\ Advance
BY StillEffect DEF CacheInv

------------------------------------------------------------------------------
(* RetrievalCache: the steps *)

LEMMA WriteCorpusFresh ==
    ASSUME RetrievalInv, TypeInv', NEW t \in Threads, WriteCorpus(t)
    PROVE  RetrievalInv'
<1>1. corpus \in Int /\ corpus' = corpus + 1
  BY DEF WriteCorpus, RetrievalInv, TypeInv, Writes
<1>2. Advance
  BY <1>1 DEF WriteCorpus, RetrievalInv, TypeInv, Advance, Generations, Writes
<1>3. CacheInv'
  <2>1. \A n \in Writes : n <= corpus => n <= corpus'
    BY <1>1 DEF Writes
  <2>2. \A g \in Generations : covers[g] <= corpus'
    BY <2>1 DEF RetrievalInv, CacheInv, TypeInv
  <2>3. \A g \in Generations : entries[g] # Missing => entries[g] <= corpus'
    BY <2>1 DEF RetrievalInv, CacheInv, TypeInv
  <2> QED
    BY <2>2, <2>3 DEF WriteCorpus, RetrievalInv, CacheInv
<1>4. DebtInv' /\ \A p \in Processes : DebtMoves(p)
  BY <1>2, DebtStays DEF WriteCorpus, RetrievalInv
<1>5. Fresh(ProcessOf(t), thread[t])'
  <2>1. 0 <= covers'[gen'] /\ 0 <= corpus' /\ corpus' <= corpus'
    BY DEF TypeInv, Writes
  <2>2. thread'[t].at = "written" /\ thread'[t].promised = 0 /\ thread'[t].here = 0
        /\ thread'[t].result = corpus'
    BY DEF WriteCorpus, RetrievalInv, TypeInv, NoRequest
  <2> QED
    BY <2>1, <2>2 DEF Fresh
<1> QED
  BY <1>2, <1>3, <1>4, <1>5, OthersKept DEF WriteCorpus, RetrievalInv, TypeInv

\* A thread that gives up or is done, and changes nothing shared but the breaker.
LEMMA DoneFresh ==
    ASSUME RetrievalInv, TypeInv', NEW t \in Threads, Advance, CacheInv',
           UNCHANGED <<pending, debt>>, thread' = [thread EXCEPT ![t] = NoRequest]
    PROVE  RetrievalInv'
<1>1. thread'[t] = NoRequest
  BY DEF RetrievalInv, TypeInv
<1>2. PICK p \in Processes : p = ProcessOf(t)
  BY ProcessOfThread
<1>3. Fresh(p, NoRequest)'
  BY IdleFresh
<1>4. ProcessOf(t)' = p
  BY <1>2 DEF ProcessOf
<1>5. Fresh(ProcessOf(t), thread[t])'
  BY <1>1, <1>3, <1>4 DEF Fresh, NoRequest
<1> QED
  BY <1>5, DebtStays, OthersKept DEF RetrievalInv, TypeInv

\* invalidate() returns: the write is accounted for.
LEMMA HandleFresh ==
    ASSUME RetrievalInv, TypeInv', NEW t \in Threads, Advance, CacheInv', Handle(t),
           UNCHANGED pending, corpus' = corpus, thread[t].result <= corpus,
           NEW n \in Writes, n = thread[t].result, Accounted(ProcessOf(t), n)'
    PROVE  RetrievalInv'
<1>1. PICK p \in Processes : p = ProcessOf(t)
  BY ProcessOfThread
<1>2. Accounted(p, n)'
  BY <1>1 DEF ProcessOf, Accounted
<1>3. /\ \A q \in Processes : q # p => debt'[q] = debt[q]
      /\ debt'[p].owes = debt[p].owes /\ debt'[p].lost = debt[p].lost
      /\ debt'[p].handled = n \/ debt'[p].handled = debt[p].handled
  BY <1>1 DEF Handle, RetrievalInv, TypeInv
<1>4. \A q \in Processes : DebtMoves(q)
  BY <1>3 DEF DebtMoves
<1>5. ASSUME NEW q \in Processes
      PROVE  /\ debt'[q].handled <= corpus'
             /\ Accounted(q, debt[q].handled)'
             /\ debt'[q].owes => pending'[q] \/ debt'[q].lost
  <2>1. PICK m \in Writes : m = debt[q].handled
    BY DEF RetrievalInv, TypeInv
  <2>2. m <= corpus /\ Accounted(q, m)
    BY <2>1 DEF RetrievalInv, DebtInv
  <2>3. Accounted(q, m)' /\ m <= corpus'
    BY <1>4, <2>2, AccountedKept DEF RetrievalInv
  <2>4. debt'[q].owes = debt[q].owes /\ debt'[q].lost = debt[q].lost
    BY <1>3
  <2>5. debt'[q].owes => pending'[q] \/ debt'[q].lost
    BY <2>4 DEF RetrievalInv, DebtInv
  <2>6. CASE debt'[q].handled = m
    BY <2>3, <2>5, <2>6 DEF Accounted
  <2>7. CASE debt'[q].handled # m
    <3>1. q = p /\ debt'[q].handled = n
      BY <1>3, <2>1, <2>7
    <3>2. n <= corpus'
      OBVIOUS
    <3> QED
      BY <1>2, <2>5, <3>1, <3>2 DEF Accounted
  <2> QED
    BY <2>6, <2>7
<1>6. Fresh(ProcessOf(t), thread[t])'
  <2>1. thread'[t] = NoRequest /\ ProcessOf(t)' = p
    BY <1>1 DEF Handle, RetrievalInv, TypeInv, ProcessOf
  <2>2. Fresh(p, NoRequest)'
    BY IdleFresh
  <2> QED
    BY <2>1, <2>2 DEF Fresh, NoRequest
<1> QED
  BY <1>4, <1>5, <1>6, OthersKept DEF Handle, RetrievalInv, TypeInv, DebtInv

LEMMA InvalidateFresh ==
    ASSUME RetrievalInv, TypeInv', NEW t \in Threads, Invalidate(t)
    PROVE  RetrievalInv'
<1>1. Advance /\ CacheInv' /\ covers'[gen'] = corpus
  BY BumpEffect DEF Invalidate, RetrievalInv
<1>2. PICK n \in Writes : n = thread[t].result
  BY DEF RetrievalInv, TypeInv, Requests
<1>3. n <= corpus
  BY <1>2 DEF RetrievalInv, ThreadInv, Fresh
<1>4. Accounted(ProcessOf(t), n)'
  BY <1>1, <1>3 DEF Accounted
<1> QED
  BY <1>1, <1>2, <1>3, <1>4, HandleFresh DEF Invalidate

LEMMA GiveUpFresh ==
    ASSUME RetrievalInv, TypeInv', NEW t \in Threads, GiveUp(t)
    PROVE  RetrievalInv'
<1>1. Advance /\ CacheInv'
  BY CacheStays DEF GiveUp, RetrievalInv
<1>2. PICK n \in Writes : n = thread[t].result
  BY DEF RetrievalInv, TypeInv, Requests
<1>3. PICK p \in Processes : p = ProcessOf(t)
  BY ProcessOfThread
<1>4. n <= corpus /\ Accounted(p, n)
  BY <1>2, <1>3 DEF GiveUp, RetrievalInv, ThreadInv, Fresh
<1>5. DebtMoves(p)
  BY <1>3 DEF GiveUp, Handle, DebtMoves, RetrievalInv, TypeInv
<1>6. Accounted(p, n)'
  BY <1>1, <1>4, <1>5, AccountedKept DEF RetrievalInv
<1>7. Accounted(ProcessOf(t), n)'
  BY <1>3, <1>6 DEF Accounted, ProcessOf
<1> QED
  BY <1>1, <1>2, <1>4, <1>7, HandleFresh DEF GiveUp

\* A step of one thread that owes, pays and forgets nothing.
LEMMA MoveFresh ==
    ASSUME RetrievalInv, TypeInv', NEW t \in Threads, Advance, CacheInv',
           UNCHANGED <<pending, debt>>,
           \A u \in Threads : u # t => thread'[u] = thread[u],
           Fresh(ProcessOf(t), thread[t])'
    PROVE  RetrievalInv'
BY DebtStays, OthersKept DEF RetrievalInv

LEMMA InvalidateRaisesFresh ==
    ASSUME RetrievalInv, TypeInv', NEW t \in Threads, InvalidateRaises(t)
    PROVE  RetrievalInv'
<1>1. Advance /\ CacheInv'
  BY RaisesEffect DEF InvalidateRaises, RetrievalInv
<1>2. PICK r \in Requests : r = thread[t]
  BY DEF RetrievalInv, TypeInv
<1>3. PICK p \in Processes : p = ProcessOf(t)
  BY ProcessOfThread
<1>4. Fresh(p, r) /\ DebtMoves(p)
  BY <1>2, <1>3 DEF RetrievalInv, ThreadInv, InvalidateRaises, DebtMoves
<1>5. Fresh(p, r)'
  BY <1>1, <1>4, FreshKept DEF RetrievalInv
<1>6. thread'[t] = [r EXCEPT !.at = "unannounced"]
  BY <1>2 DEF InvalidateRaises, GoTo, RetrievalInv, TypeInv
<1>7. Fresh(p, thread[t])'
  BY <1>5, <1>6 DEF Fresh, Requests
<1>8. Fresh(ProcessOf(t), thread[t])'
  BY <1>3, <1>7 DEF ProcessOf
<1> QED
  BY <1>1, <1>8, MoveFresh DEF InvalidateRaises, GoTo, RetrievalInv, TypeInv

LEMMA RememberFresh ==
    ASSUME RetrievalInv, TypeInv', NEW t \in Threads, Remember(t)
    PROVE  RetrievalInv'
<1>1. Advance /\ CacheInv'
  BY CacheStays DEF Remember, RetrievalInv
<1>2. PICK p \in Processes : p = ProcessOf(t)
  BY ProcessOfThread
<1>3. /\ \A q \in Processes : debt'[q].handled = debt[q].handled /\ debt'[q].lost = debt[q].lost
      /\ \A q \in Processes : q # p => debt'[q] = debt[q] /\ pending'[q] = pending[q]
      /\ debt'[p].owes = TRUE /\ pending'[p] = TRUE
  BY <1>2 DEF Remember, RetrievalInv, TypeInv
<1>4. \A q \in Processes : DebtMoves(q)
  BY <1>3 DEF DebtMoves
<1>5. DebtInv'
  BY <1>3, Zenon DEF Remember, RetrievalInv, DebtInv, Accounted
<1>6. Fresh(ProcessOf(t), thread[t])'
  <2>1. PICK r \in Requests : r = thread[t]
    BY DEF RetrievalInv, TypeInv
  <2>2. Fresh(p, r)
    BY <1>2, <2>1 DEF RetrievalInv, ThreadInv
  <2>3. Fresh(p, r)'
    BY <1>1, <1>4, <2>2, FreshKept DEF RetrievalInv
  <2>4. thread'[t] = [r EXCEPT !.at = "remembered"]
    BY <2>1 DEF Remember, GoTo, RetrievalInv, TypeInv
  <2>5. Accounted(p, r.result)'
    BY <1>3 DEF Accounted
  <2>6. Fresh(p, thread[t])'
    BY <2>3, <2>4, <2>5 DEF Fresh, Requests
  <2> QED
    BY <1>2, <2>6 DEF ProcessOf
<1> QED
  BY <1>1, <1>4, <1>5, <1>6, OthersKept DEF Remember, GoTo, RetrievalInv, TypeInv

LEMMA StartRetrieveFresh ==
    ASSUME RetrievalInv, TypeInv', NEW t \in Threads, StartRetrieve(t)
    PROVE  RetrievalInv'
<1>1. Advance /\ CacheInv'
  BY CacheStays DEF StartRetrieve, RetrievalInv
<1>2. PICK p \in Processes : p = ProcessOf(t)
  BY ProcessOfThread
<1>3. /\ thread'[t].at = AfterPending(p)
      /\ thread'[t].promised = covers[gen] /\ thread'[t].here = debt[p].handled
      /\ thread'[t].result = 0
  BY <1>2 DEF StartRetrieve, RetrievalInv, TypeInv, NoRequest
<1>4. /\ covers[gen] <= covers[gen]
      /\ debt[p].handled <= corpus
      /\ 0 <= corpus
  BY DEF RetrievalInv, TypeInv, DebtInv, Writes
<1>5. AfterPending(p) = "reading" => debt[p].handled <= covers[gen] \/ debt[p].lost
  BY DEF AfterPending, RetrievalInv, DebtInv, Accounted
<1>6. AfterPending(p) \in {"owing", "reading"}
  BY DEF AfterPending
<1>7. /\ thread'[t].at = "reading" => SeenBy(p, thread[t], covers[gen])'
      /\ thread'[t].at \in {"owing", "reading"}
      /\ thread'[t].promised <= covers'[gen']
      /\ thread'[t].here <= corpus' /\ thread'[t].result <= corpus'
  BY <1>3, <1>4, <1>5, <1>6 DEF StartRetrieve, SeenBy
<1>8. Fresh(p, thread[t])'
  BY <1>7 DEF Fresh
<1>9. Fresh(ProcessOf(t), thread[t])'
  BY <1>2, <1>8 DEF ProcessOf
<1> QED
  BY <1>1, <1>9, MoveFresh DEF StartRetrieve, RetrievalInv, TypeInv

\* The process has made the bump: all its writes are covered.
LEMMA RetryBumpFresh ==
    ASSUME RetrievalInv, TypeInv', NEW t \in Threads, RetryBump(t)
    PROVE  RetrievalInv'
<1>1. Advance /\ CacheInv' /\ covers'[gen'] = corpus
  BY BumpEffect DEF RetryBump, RetrievalInv
<1>2. PICK p \in Processes : p = ProcessOf(t)
  BY ProcessOfThread
<1>3. /\ \A q \in Processes : debt'[q].handled = debt[q].handled /\ debt'[q].lost = debt[q].lost
      /\ \A q \in Processes : q # p => debt'[q] = debt[q]
      /\ debt'[p].owes = FALSE
  BY <1>2 DEF RetryBump, RetrievalInv, TypeInv
<1>4. corpus <= covers'[gen'] /\ corpus' = corpus
  BY <1>1 DEF RetryBump, RetrievalInv, TypeInv, Writes
<1>5. \A q \in Processes : DebtMoves(q)
  BY <1>3, <1>4 DEF DebtMoves
<1>6. \A q \in Processes : debt[q].handled <= corpus
  BY DEF RetrievalInv, DebtInv
<1>7. \A q \in Processes : debt'[q].handled <= covers'[gen']
  BY <1>1, <1>3, <1>6
<1>8. ASSUME NEW q \in Processes PROVE debt'[q].owes => pending'[q] \/ debt'[q].lost
  <2>1. CASE q = p
    BY <1>3, <2>1
  <2>2. CASE q # p
    BY <1>3, <2>2 DEF RetryBump, RetrievalInv, DebtInv
  <2> QED
    BY <2>1, <2>2
<1>9. DebtInv'
  BY <1>3, <1>4, <1>6, <1>7, <1>8 DEF DebtInv, Accounted
<1>10. Fresh(ProcessOf(t), thread[t])'
  <2>1. /\ thread'[t].at = "bumped" /\ thread'[t].promised = thread[t].promised
        /\ thread'[t].here = thread[t].here /\ thread'[t].result = thread[t].result
    BY DEF RetryBump, GoTo, RetrievalInv, TypeInv, Requests
  <2>2. /\ thread[t].promised <= covers[gen] /\ covers[gen] <= corpus
        /\ thread[t].here <= corpus /\ thread[t].result <= corpus
    BY DEF RetrievalInv, ThreadInv, Fresh, CacheInv, TypeInv
  <2>3. thread[t].promised \in Int /\ covers[gen] \in Int /\ corpus \in Int
    BY DEF RetrievalInv, TypeInv, Requests, Writes
  <2> QED
    BY <1>1, <1>4, <2>1, <2>2, <2>3 DEF Fresh, SeenBy
<1> QED
  BY <1>1, <1>5, <1>9, <1>10, OthersKept DEF RetryBump, GoTo, RetrievalInv, TypeInv

\* What the process has come to owe since is lost.
LEMMA ForgetPendingFresh ==
    ASSUME RetrievalInv, TypeInv', NEW t \in Threads, ForgetPending(t)
    PROVE  RetrievalInv'
<1>1. Advance /\ CacheInv'
  BY CacheStays DEF ForgetPending, RetrievalInv
<1>2. PICK p \in Processes : p = ProcessOf(t)
  BY ProcessOfThread
<1>3. /\ \A q \in Processes : debt'[q].handled = debt[q].handled /\ debt'[q].owes = debt[q].owes
      /\ \A q \in Processes : q # p => debt'[q] = debt[q] /\ pending'[q] = pending[q]
      /\ debt'[p].lost = (debt[p].lost \/ debt[p].owes)
  BY <1>2 DEF ForgetPending, RetrievalInv, TypeInv
<1>4. \A q \in Processes : DebtMoves(q)
  BY <1>3, Zenon DEF DebtMoves
<1>5. ASSUME NEW q \in Processes
      PROVE  /\ debt'[q].handled <= corpus'
             /\ Accounted(q, debt[q].handled)'
             /\ debt'[q].owes => pending'[q] \/ debt'[q].lost
  <2>1. /\ debt[q].handled <= corpus /\ Accounted(q, debt[q].handled)
        /\ debt[q].owes => pending[q] \/ debt[q].lost
    BY DEF RetrievalInv, DebtInv
  <2>2. corpus' = corpus /\ covers' = covers /\ gen' = gen
    BY DEF ForgetPending
  <2>3. CASE q # p
    BY <1>3, <2>1, <2>2, <2>3, Zenon DEF Accounted
  <2>4. CASE q = p
    BY <1>3, <2>1, <2>2, <2>4, Zenon DEF Accounted
  <2> QED
    BY <2>3, <2>4
<1>6. Fresh(ProcessOf(t), thread[t])'
  <2>1. PICK r \in Requests : r = thread[t]
    BY DEF RetrievalInv, TypeInv
  <2>2. Fresh(p, r) /\ r.at = "bumped"
    BY <1>2, <2>1 DEF RetrievalInv, ThreadInv, ForgetPending
  <2>3. Fresh(p, r)'
    BY <1>1, <1>4, <2>2, FreshKept DEF RetrievalInv
  <2>4. thread'[t] = [r EXCEPT !.at = "reading"]
    BY <2>1 DEF ForgetPending, GoTo, RetrievalInv, TypeInv
  <2>5. Fresh(p, thread[t])'
    BY <2>2, <2>3, <2>4 DEF Fresh, SeenBy, Requests
  <2> QED
    BY <1>2, <2>5 DEF ProcessOf
<1> QED
  BY <1>1, <1>4, <1>5, <1>6, OthersKept DEF ForgetPending, GoTo, RetrievalInv, TypeInv, DebtInv

LEMMA RetryRaisesFresh ==
    ASSUME RetrievalInv, TypeInv', NEW t \in Threads, RetryRaises(t)
    PROVE  RetrievalInv'
<1>1. Advance /\ CacheInv'
  BY RaisesEffect DEF RetryRaises, RetrievalInv
<1> QED
  BY <1>1, DoneFresh DEF RetryRaises

\* The generation read is the current one, so what it covers is what was promised.
LEMMA ReadGenerationFresh ==
    ASSUME RetrievalInv, TypeInv', NEW t \in Threads, ReadGeneration(t)
    PROVE  RetrievalInv'
<1>1. Advance /\ CacheInv'
  BY CacheStays DEF ReadGeneration, RetrievalInv
<1>2. PICK r \in Requests : r = thread[t]
  BY DEF RetrievalInv, TypeInv
<1>3. thread'[t] = [r EXCEPT !.at = "looking", !.gen = gen]
  BY <1>2 DEF ReadGeneration, RetrievalInv, TypeInv
<1>4. Fresh(ProcessOf(t), r) /\ r.at = "reading"
  BY <1>2 DEF ReadGeneration, RetrievalInv, ThreadInv
<1>5. gen <= gen
  BY DEF RetrievalInv, TypeInv, Generations
<1>6. /\ thread'[t].at = "looking" /\ thread'[t].result = r.result /\ thread'[t].gen = gen
      /\ thread'[t].promised = r.promised /\ thread'[t].here = r.here
  BY <1>3 DEF Requests
<1>7. Fresh(ProcessOf(t), thread[t])'
  BY <1>4, <1>5, <1>6 DEF ReadGeneration, Fresh, SeenBy, ProcessOf
<1> QED
  BY <1>1, <1>7, MoveFresh DEF ReadGeneration, RetrievalInv, TypeInv

LEMMA HitFresh ==
    ASSUME RetrievalInv, TypeInv', NEW t \in Threads, Hit(t)
    PROVE  RetrievalInv'
<1>1. Advance /\ CacheInv'
  BY CacheStays DEF Hit, RetrievalInv
<1>2. PICK r \in Requests : r = thread[t]
  BY DEF RetrievalInv, TypeInv
<1>3. thread'[t] = [r EXCEPT !.at = "served", !.result = entries[r.gen]]
  BY <1>2 DEF Hit, RetrievalInv, TypeInv
<1>4. Fresh(ProcessOf(t), r) /\ r.at = "looking"
  BY <1>2 DEF Hit, RetrievalInv, ThreadInv
<1>5. PICK n \in Writes : n = entries[r.gen]
  BY <1>2 DEF Hit, IsHit, RetrievalInv, TypeInv, Requests
<1>6. covers[r.gen] <= n
  BY <1>2, <1>5 DEF Hit, IsHit, RetrievalInv, CacheInv, Requests
<1>7. /\ covers[r.gen] \in Int /\ n \in Int /\ r.promised \in Int /\ r.here \in Int
      /\ r.gen \in Generations
  BY DEF RetrievalInv, TypeInv, Writes, Requests
<1>8. n <= corpus
  BY <1>2, <1>5 DEF Hit, IsHit, RetrievalInv, CacheInv, Requests
<1>9. SeenBy(ProcessOf(t), r, n)
  BY <1>4, <1>6, <1>7 DEF Fresh, SeenBy
<1>10. /\ thread'[t].at = "served" /\ thread'[t].result = n
       /\ thread'[t].promised = r.promised /\ thread'[t].here = r.here
  BY <1>3, <1>5 DEF Requests
<1>11. r.promised <= covers'[gen'] /\ r.here <= corpus' /\ n <= corpus'
  BY <1>4, <1>8 DEF Hit, Fresh
<1>12. Fresh(ProcessOf(t), thread[t])'
  BY <1>9, <1>10, <1>11 DEF Hit, Fresh, SeenBy, ProcessOf
<1> QED
  BY <1>1, <1>12, MoveFresh DEF Hit, RetrievalInv, TypeInv

LEMMA MissFresh ==
    ASSUME RetrievalInv, TypeInv', NEW t \in Threads, Miss(t)
    PROVE  RetrievalInv'
<1>1. Advance /\ CacheInv'
  BY CacheStays DEF Miss, RetrievalInv
<1>2. PICK r \in Requests : r = thread[t]
  BY DEF RetrievalInv, TypeInv
<1>3. thread'[t] = [r EXCEPT !.at = "querying"]
  BY <1>2 DEF Miss, GoTo, RetrievalInv, TypeInv
<1>4. Fresh(ProcessOf(t), r) /\ r.at = "looking"
  BY <1>2 DEF Miss, RetrievalInv, ThreadInv
<1>5. /\ thread'[t].at = "querying" /\ thread'[t].result = r.result /\ thread'[t].gen = r.gen
      /\ thread'[t].promised = r.promised /\ thread'[t].here = r.here
  BY <1>3 DEF Requests
<1>6. Fresh(ProcessOf(t), thread[t])'
  BY <1>4, <1>5 DEF Miss, Fresh, SeenBy, ProcessOf
<1> QED
  BY <1>1, <1>6, MoveFresh DEF Miss, GoTo, RetrievalInv, TypeInv

\* The collection has all the writes the generation covers.
LEMMA QueryFresh ==
    ASSUME RetrievalInv, TypeInv', NEW t \in Threads, Query(t)
    PROVE  RetrievalInv'
<1>1. Advance /\ CacheInv'
  BY CacheStays DEF Query, RetrievalInv
<1>2. PICK r \in Requests : r = thread[t]
  BY DEF RetrievalInv, TypeInv
<1>3. thread'[t] = [r EXCEPT !.at = "storing", !.result = corpus]
  BY <1>2 DEF Query, RetrievalInv, TypeInv
<1>4. Fresh(ProcessOf(t), r) /\ r.at = "querying"
  BY <1>2 DEF Query, RetrievalInv, ThreadInv
<1>5. covers[r.gen] <= corpus /\ corpus <= corpus
  BY DEF RetrievalInv, CacheInv, Requests, TypeInv, Writes
<1>6. /\ thread'[t].at = "storing" /\ thread'[t].result = corpus /\ thread'[t].gen = r.gen
      /\ thread'[t].promised = r.promised /\ thread'[t].here = r.here
  BY <1>3 DEF Requests
<1>7. Fresh(ProcessOf(t), thread[t])'
  BY <1>4, <1>5, <1>6 DEF Query, Fresh, SeenBy, ProcessOf
<1> QED
  BY <1>1, <1>7, MoveFresh DEF Query, RetrievalInv, TypeInv

\* The result goes where it was looked for, which it is fresh enough for.
LEMMA StoreEffect ==
    ASSUME RetrievalInv, TypeInv', NEW t \in Threads, thread[t].at = "storing",
           entries' = [entries EXCEPT ![Partition(t)] = thread[t].result],
           UNCHANGED <<corpus, gen, covers>>
    PROVE  Advance /\ CacheInv'
<1>1. Advance
  BY StillEffect DEF RetrievalInv
<1>2. /\ thread[t].gen <= gen /\ covers[thread[t].gen] <= thread[t].result
      /\ thread[t].result <= corpus
  BY DEF RetrievalInv, ThreadInv, Fresh
<1>3. ASSUME NEW g \in Generations, entries'[g] # Missing
      PROVE  g <= gen /\ covers[g] <= entries'[g] /\ entries'[g] <= corpus
  <2>1. CASE g = thread[t].gen
    BY <1>2, <2>1 DEF RetrievalInv, TypeInv, Partition
  <2>2. CASE g # thread[t].gen
    BY <1>3, <2>2 DEF RetrievalInv, TypeInv, CacheInv, Partition
  <2> QED
    BY <2>1, <2>2
<1> QED
  BY <1>1, <1>3 DEF RetrievalInv, CacheInv

LEMMA StoreResultFresh ==
    ASSUME RetrievalInv, TypeInv', NEW t \in Threads, StoreResult(t)
    PROVE  RetrievalInv'
BY StoreEffect, DoneFresh DEF StoreResult

LEMMA CacheRaisesFresh ==
    ASSUME RetrievalInv, TypeInv', NEW t \in Threads, CacheRaises(t)
    PROVE  RetrievalInv'
<1>1. CASE UNCHANGED entries
  BY <1>1, CacheStays, DoneFresh DEF CacheRaises, RetrievalInv
<1>2. CASE /\ thread[t].at = "storing"
           /\ entries' = [entries EXCEPT ![Partition(t)] = thread[t].result]
  BY <1>2, StoreEffect, DoneFresh DEF CacheRaises
<1> QED
  BY <1>1, <1>2 DEF CacheRaises

LEMMA ThreadStep ==
    ASSUME RetrievalInv, TypeInv', NEW t \in Threads,
           WriteStep(t) \/ GenerationStep(t) \/ ResultStep(t)
    PROVE  RetrievalInv'
<1>1. CASE WriteStep(t)
  <2>1. CASE DeletionRaises(t)
    BY <2>1, CacheStays, DoneFresh DEF DeletionRaises, RetrievalInv
  <2> QED
    BY <1>1, <2>1, WriteCorpusFresh, InvalidateFresh, InvalidateRaisesFresh, RememberFresh,
       GiveUpFresh DEF WriteStep
<1>2. CASE GenerationStep(t)
  BY <1>2, StartRetrieveFresh, RetryBumpFresh, ForgetPendingFresh, RetryRaisesFresh,
     ReadGenerationFresh DEF GenerationStep
<1>3. CASE ResultStep(t)
  <2>1. CASE TooLarge(t)
    BY <2>1, CacheStays, DoneFresh DEF TooLarge, RetrievalInv
  <2>2. CASE Respond(t)
    BY <2>2, CacheStays, DoneFresh DEF Respond, RetrievalInv
  <2> QED
    BY <1>3, <2>1, <2>2, HitFresh, MissFresh, QueryFresh, StoreResultFresh, CacheRaisesFresh
       DEF ResultStep
<1> QED
  BY <1>1, <1>2, <1>3

\* A restarted process owes nothing, and none of its requests relies on anything.
LEMMA RestartFresh ==
    ASSUME RetrievalInv, TypeInv', NEW p \in Processes, RestartProcess(p)
    PROVE  RetrievalInv'
<1>1. Advance /\ CacheInv'
  BY CacheStays DEF RestartProcess, RetrievalInv
<1>2. debt'[p] = NoDebt
  BY DEF RestartProcess, RetrievalInv, TypeInv
<1>3. 0 <= covers'[gen'] /\ 0 <= corpus'
  BY DEF TypeInv, Writes
<1>4. \A q \in Processes : q # p => debt'[q] = debt[q] /\ pending'[q] = pending[q]
  BY DEF RestartProcess, RetrievalInv, TypeInv
<1>5. DebtInv'
  <2>1. ASSUME NEW q \in Processes
        PROVE  /\ debt'[q].handled <= corpus'
               /\ Accounted(q, debt[q].handled)'
               /\ debt'[q].owes => pending'[q] \/ debt'[q].lost
    <3>1. CASE q = p
      <4>1. debt'[q].handled = 0 /\ debt'[q].owes = FALSE
        BY <1>2, <3>1 DEF NoDebt
      <4> QED
        BY <1>3, <4>1, Zenon DEF Accounted
    <3>2. CASE q # p
      BY <1>4, <3>2 DEF RestartProcess, RetrievalInv, DebtInv, Accounted
    <3> QED
      BY <3>1, <3>2
  <2> QED
    BY <2>1 DEF DebtInv
<1>6. ASSUME NEW t \in Threads PROVE Fresh(ProcessOf(t), thread[t])'
  <2>1. PICK q \in Processes : q = ProcessOf(t)
    BY ProcessOfThread
  <2>2. CASE q = p
    <3>1. thread'[t] = NoRequest
      BY <2>1, <2>2 DEF RestartProcess
    <3>2. Fresh(q, NoRequest)'
      BY IdleFresh
    <3> QED
      BY <2>1, <3>1, <3>2 DEF Fresh, NoRequest, ProcessOf
  <2>3. CASE q # p
    <3>1. PICK r \in Requests : r = thread[t]
      BY DEF RetrievalInv, TypeInv
    <3>2. thread'[t] = r
      BY <2>1, <2>3, <3>1 DEF RestartProcess
    <3>3. DebtMoves(q)
      BY <1>4, <2>3 DEF DebtMoves
    <3>4. Fresh(q, r)
      BY <2>1, <3>1 DEF RetrievalInv, ThreadInv
    <3>5. Fresh(q, r)'
      BY <1>1, <3>3, <3>4, FreshKept DEF RetrievalInv
    <3> QED
      BY <2>1, <3>2, <3>5 DEF ProcessOf
  <2> QED
    BY <2>2, <2>3
<1> QED
  BY <1>1, <1>5, <1>6 DEF RetrievalInv, ThreadInv

\* What shared state a step of no thread leaves alone.
LEMMA AsideFresh ==
    ASSUME RetrievalInv, TypeInv', CacheInv', UNCHANGED <<corpus, gen, covers, thread, debt, pending>>
    PROVE  RetrievalInv'
<1>1. Advance
  BY StillEffect DEF RetrievalInv
<1>2. DebtInv'
  BY <1>1, DebtStays DEF RetrievalInv
<1>3. ThreadInv'
  BY DEF RetrievalInv, ThreadInv, Fresh, SeenBy, Accounted, ProcessOf
<1> QED
  BY <1>2, <1>3 DEF RetrievalInv

LEMMA RetrievalStep == RetrievalInv /\ [RetrievalNext]_retrievalVars => RetrievalInv'
<1> SUFFICES ASSUME RetrievalInv, [RetrievalNext]_retrievalVars PROVE RetrievalInv'
  OBVIOUS
<1>1. TypeInv'
  BY TypeStep DEF RetrievalInv
<1>2. CASE UNCHANGED retrievalVars
  <2>1. CacheInv'
    BY <1>2 DEF retrievalVars, RetrievalInv, CacheInv
  <2> QED
    BY <1>1, <1>2, <2>1, AsideFresh DEF retrievalVars
<1>3. ASSUME NEW p \in Processes, CloseBreaker(p) PROVE RetrievalInv'
  <2>1. CacheInv'
    BY <1>3, CacheStays DEF CloseBreaker, RetrievalInv
  <2> QED
    BY <1>1, <1>3, <2>1, AsideFresh DEF CloseBreaker
<1>4. ASSUME NEW g \in Generations, DropEntry(g) PROVE RetrievalInv'
  <2>1. \A h \in Generations : entries'[h] = Missing \/ entries'[h] = entries[h]
    BY <1>4 DEF DropEntry, RetrievalInv, TypeInv
  <2>2. CacheInv'
    BY <1>4, <2>1 DEF DropEntry, RetrievalInv, CacheInv
  <2> QED
    BY <1>1, <1>4, <2>2, AsideFresh DEF DropEntry
<1> QED
  BY <1>1, <1>2, <1>3, <1>4, ThreadStep, RestartFresh DEF RetrievalNext

\* A retrieval that begins after a bump is never served a result from before the writes
\* that bump came after, in any process, whatever failed meanwhile (cache.py).
THEOREM BumpsInvalidate == RetrievalSpec => []InvalidatedUnreachable
<1>1. RetrievalInv => InvalidatedUnreachable
  BY DEF RetrievalInv, ThreadInv, Fresh, SeenBy, InvalidatedUnreachable, TypeInv, Requests, Writes
<1> QED
  BY <1>1, RetrievalInit0, RetrievalStep, PTL DEF RetrievalSpec

\* A process never serves a result from before a write it has itself invalidated, or
\* tried to, unless it forgot a bump it owed while it made another (cache.py, invalidate).
THEOREM OwedBumpsMade == RetrievalSpec => []OwedBumpsHonoured
<1>1. RetrievalInv => OwedBumpsHonoured
  BY DEF RetrievalInv, ThreadInv, Fresh, SeenBy, OwedBumpsHonoured, TypeInv, Requests, Writes
<1> QED
  BY <1>1, RetrievalInit0, RetrievalStep, PTL DEF RetrievalSpec

------------------------------------------------------------------------------
(* VersionedCache *)

Pages == [total : Nat, rows : Nat]
AtLeast(page, n) == page.total >= n /\ page.rows >= n

Counts ==
    /\ posts \in 0 .. MaxPosts
    /\ unbumped \in Nat
    /\ version \in Nat
    /\ version + unbumped <= posts

\* A version comes after no fewer submissions than those before it.
SeesInv ==
    /\ sees \in [Versions -> 0 .. MaxPosts]
    /\ \A v \in Versions : sees[v] <= posts

\* A page is kept only under a version that has been read, with what that comes after.
PagesInv ==
    /\ cachedPages \in [Versions -> Pages \cup {NoPage}]
    /\ \A v \in Versions : cachedPages[v] # NoPage =>
          v <= version /\ AtLeast(cachedPages[v], sees[v])

Visits ==
    [at : {"idle", "looking", "counting", "ranking", "keeping", "shown"},
     version : Versions \cup {NoVersion}, page : Pages, promised : 0 .. MaxPosts]

\* Whether a number of submissions is enough for a request: what it was promised and
\* what the version it may keep its page under comes after.
Enough(r, n) ==
    /\ r.promised <= n
    /\ r.version # NoVersion => sees[r.version] <= n

VisitInv(r) ==
    /\ r.promised <= posts
    /\ r.at = "looking" =>
          r.version \in Versions /\ r.version <= version /\ r.promised <= sees[r.version]
    /\ r.at \in {"counting", "ranking", "keeping"} /\ r.version # NoVersion
          => r.version \in Versions /\ r.version <= version
    /\ r.at \in {"ranking", "keeping"} => Enough(r, r.page.total)
    /\ r.at = "keeping" => Enough(r, r.page.rows)
    /\ r.at = "shown" => AtLeast(r.page, r.promised)

VersionedInv ==
    /\ Counts /\ SeesInv /\ PagesInv
    /\ visit \in [Visitors -> Visits]
    /\ \A r \in Visitors : VisitInv(visit[r])

LEMMA VersionedInit0 == VersionedInit => VersionedInv
<1> SUFFICES ASSUME VersionedInit PROVE VersionedInv
  OBVIOUS
<1>1. NoVisit \in Visits
  BY VersionedAssumption DEF NoVisit, Visits, Pages, EmptyPage
<1>2. Counts
  BY VersionedAssumption DEF VersionedInit, Counts
<1>3. SeesInv
  BY VersionedAssumption DEF VersionedInit, SeesInv, Versions
<1>4. PagesInv
  BY DEF VersionedInit, PagesInv
<1>5. \A r \in Visitors : VisitInv(visit[r])
  BY DEF VersionedInit, VisitInv, NoVisit
<1> QED
  BY <1>1, <1>2, <1>3, <1>4, <1>5 DEF VersionedInit, VersionedInv

\* What a visit relies on survives while versions keep what they come after.
LEMMA VisitKept ==
    ASSUME VersionedInv, NEW r \in Visits, VisitInv(r), posts <= posts', posts' \in Nat,
           version <= version', version' \in Nat,
           \A v \in Versions : v <= version => sees'[v] = sees[v]
    PROVE  VisitInv(r)'
<1>1. /\ posts \in Int /\ posts' \in Int /\ version \in Int /\ version' \in Int
      /\ r.promised \in Int /\ \A v \in Versions : v \in Int
  BY DEF VersionedInv, Counts, Visits, Versions
<1>2. r.promised <= posts'
  BY <1>1 DEF VisitInv
<1>3. ASSUME r.version \in Versions, r.version <= version
      PROVE  r.version <= version' /\ sees'[r.version] = sees[r.version]
  BY <1>1, <1>3
<1>4. ASSUME NEW n, r.at \in {"ranking", "keeping"}, Enough(r, n) PROVE Enough(r, n)'
  BY <1>3, <1>4 DEF Enough, VisitInv
<1> QED
  BY <1>2, <1>3, <1>4 DEF VisitInv

\* A step of one request that writes nothing shared.
LEMMA ReadingKeeps ==
    ASSUME VersionedInv, UNCHANGED <<posts, unbumped, version, sees>>, PagesInv',
           NEW r \in Visitors, NEW q \in Visits, visit' = [visit EXCEPT ![r] = q],
           VisitInv(q)
    PROVE  VersionedInv'
<1>1. Counts' /\ SeesInv'
  BY DEF VersionedInv, Counts, SeesInv
<1>2. ASSUME NEW s \in Visitors PROVE VisitInv(visit[s])'
  <2>1. PICK w \in Visits : w = visit'[s] /\ VisitInv(w)
    BY DEF VersionedInv
  <2>2. VisitInv(w)'
    BY <2>1 DEF VisitInv, Enough
  <2> QED
    BY <2>1, <2>2
<1> QED
  BY <1>1, <1>2 DEF VersionedInv

LEMMA PostSubmissionFresh == VersionedInv /\ PostSubmission => VersionedInv'
<1> SUFFICES ASSUME VersionedInv, PostSubmission PROVE VersionedInv'
  OBVIOUS
<1>1. posts' = posts + 1 /\ Counts' /\ SeesInv' /\ PagesInv'
  BY VersionedAssumption DEF PostSubmission, VersionedInv, Counts, SeesInv, PagesInv, AtLeast
<1>2. ASSUME NEW s \in Visitors PROVE VisitInv(visit[s])'
  <2>1. PICK w \in Visits : w = visit[s] /\ VisitInv(w)
    BY DEF VersionedInv
  <2>2. VisitInv(w)'
    BY <1>1, <2>1, VisitKept DEF PostSubmission, VersionedInv, Counts
  <2> QED
    BY <2>1, <2>2 DEF PostSubmission
<1> QED
  BY <1>1, <1>2 DEF PostSubmission, VersionedInv

\* The next version has no page and no reader yet.
LEMMA BumpVersionFresh == VersionedInv /\ BumpVersion => VersionedInv'
<1> SUFFICES ASSUME VersionedInv, BumpVersion PROVE VersionedInv'
  OBVIOUS
<1>1. version' = version + 1 /\ version' \in Versions /\ Counts'
  BY VersionedAssumption DEF BumpVersion, VersionedInv, Counts, Versions
<1>2. sees'[version'] = posts /\ \A v \in Versions : v # version' => sees'[v] = sees[v]
  BY <1>1 DEF BumpVersion, VersionedInv, SeesInv
<1>3. \A v \in Versions : v <= version => v # version'
  BY <1>1 DEF VersionedInv, Counts, Versions
<1>4. SeesInv'
  BY <1>1, <1>2 DEF BumpVersion, VersionedInv, Counts, SeesInv
<1>5. PagesInv'
  <2>1. \A v \in Versions : v <= version => v <= version'
    BY <1>1 DEF VersionedInv, Counts, Versions
  <2> QED
    BY <1>2, <1>3, <2>1 DEF BumpVersion, VersionedInv, PagesInv, AtLeast
<1>6. ASSUME NEW s \in Visitors PROVE VisitInv(visit[s])'
  <2>1. PICK w \in Visits : w = visit[s] /\ VisitInv(w)
    BY DEF VersionedInv
  <2>2. VisitInv(w)'
    BY <1>1, <1>2, <1>3, <2>1, VisitKept DEF BumpVersion, VersionedInv, Counts
  <2> QED
    BY <2>1, <2>2 DEF BumpVersion
<1> QED
  BY <1>1, <1>4, <1>5, <1>6 DEF BumpVersion, VersionedInv

LEMMA LoseBumpFresh == VersionedInv /\ LoseBump => VersionedInv'
<1> SUFFICES ASSUME VersionedInv, LoseBump PROVE VersionedInv'
  OBVIOUS
<1>1. Counts' /\ SeesInv' /\ PagesInv'
  BY DEF LoseBump, VersionedInv, Counts, SeesInv, PagesInv, AtLeast
<1>2. \A s \in Visitors : VisitInv(visit[s])'
  BY DEF LoseBump, VersionedInv, VisitInv, Enough
<1> QED
  BY <1>1, <1>2 DEF LoseBump, VersionedInv

LEMMA ExpirePageFresh ==
    ASSUME VersionedInv, NEW v \in Versions, ExpirePage(v)
    PROVE  VersionedInv'
<1>1. \A w \in Versions : cachedPages'[w] = cachedPages[w] \/ cachedPages'[w] = NoPage
  BY DEF ExpirePage, VersionedInv, PagesInv
<1>2. Counts' /\ SeesInv' /\ PagesInv'
  BY <1>1 DEF ExpirePage, VersionedInv, Counts, SeesInv, PagesInv
<1>3. \A s \in Visitors : VisitInv(visit[s])'
  BY DEF ExpirePage, VersionedInv, VisitInv, Enough
<1> QED
  BY <1>2, <1>3 DEF ExpirePage, VersionedInv

LEMMA StartVisit ==
    ASSUME VersionedInv, NEW r \in Visitors, ReadVersion(r) \/ ReadNoVersion(r)
    PROVE  VersionedInv'
<1>1. version \in Versions /\ version <= version
  BY VersionedAssumption DEF VersionedInv, Counts, Versions
<1>2. sees[version] \in 0 .. MaxPosts /\ sees[version] <= posts /\ sees[version] <= sees[version]
  BY <1>1 DEF VersionedInv, SeesInv
<1>3. PagesInv'
  BY DEF ReadVersion, ReadNoVersion, VersionedInv, PagesInv
<1>4. CASE ReadVersion(r)
  <2> DEFINE q == [NoVisit EXCEPT !.at = "looking", !.version = version, !.promised = sees[version]]
  <2>1. q \in Visits
    BY <1>1, <1>2 DEF NoVisit, EmptyPage, Visits, Pages
  <2>2. VisitInv(q)
    BY <1>1, <1>2 DEF VisitInv, NoVisit
  <2> QED
    BY <1>3, <1>4, <2>1, <2>2, ReadingKeeps DEF ReadVersion
<1>5. CASE ReadNoVersion(r)
  <2> DEFINE q == [NoVisit EXCEPT !.at = "counting", !.promised = sees[version]]
  <2>1. q \in Visits
    BY <1>2 DEF NoVisit, EmptyPage, Visits, Pages
  <2>2. VisitInv(q)
    BY <1>2 DEF VisitInv, NoVisit
  <2> QED
    BY <1>3, <1>5, <2>1, <2>2, ReadingKeeps DEF ReadNoVersion
<1> QED
  BY <1>4, <1>5

LEMMA LookUpFresh ==
    ASSUME VersionedInv, NEW r \in Visitors, LookUp(r)
    PROVE  VersionedInv'
<1>1. PICK w \in Visits : w = visit[r] /\ VisitInv(w)
  BY DEF VersionedInv
<1>2. w.at = "looking" /\ w.version \in Versions
  BY <1>1 DEF LookUp, FindPage, FindNoPage, FindFails, VisitInv
<1>3. PagesInv'
  BY DEF LookUp, FindPage, FindNoPage, FindFails, Move, VersionedInv, PagesInv
<1>4. w.promised \in Nat /\ sees[w.version] \in Nat
  BY <1>2 DEF Visits, VersionedInv, SeesInv
<1>5. CASE FindPage(r)
  <2>1. PICK page \in Pages : page = cachedPages[w.version]
    BY <1>1, <1>2, <1>5 DEF FindPage, VersionedInv, PagesInv
  <2>2. AtLeast(page, sees[w.version])
    BY <1>1, <1>2, <1>5, <2>1 DEF FindPage, VersionedInv, PagesInv
  <2>3. AtLeast(page, w.promised)
    BY <1>1, <1>2, <1>4, <2>2 DEF AtLeast, VisitInv, Pages
  <2> DEFINE q == [w EXCEPT !.at = "shown", !.page = page]
  <2>4. q \in Visits /\ VisitInv(q)
    BY <1>1, <2>3 DEF Visits, VisitInv
  <2> QED
    BY <1>1, <1>3, <1>5, <2>1, <2>4, ReadingKeeps DEF FindPage
<1>6. CASE FindNoPage(r)
  <2> DEFINE q == [w EXCEPT !.at = "counting"]
  <2>1. q \in Visits /\ VisitInv(q)
    BY <1>1, <1>2 DEF Visits, VisitInv
  <2> QED
    BY <1>1, <1>3, <1>6, <2>1, ReadingKeeps DEF FindNoPage, Move, VersionedInv
<1>7. CASE FindFails(r)
  <2> DEFINE q == [w EXCEPT !.at = "counting", !.version = NoVersion]
  <2>1. q \in Visits /\ VisitInv(q)
    BY <1>1, <1>2 DEF Visits, VisitInv
  <2> QED
    BY <1>1, <1>3, <1>7, <2>1, ReadingKeeps DEF FindFails
<1> QED
  BY <1>5, <1>6, <1>7 DEF LookUp

\* Both queries see at least the submissions any version comes after.
LEMMA ComputeFresh ==
    ASSUME VersionedInv, NEW r \in Visitors, Compute(r)
    PROVE  VersionedInv'
<1>1. PICK w \in Visits : w = visit[r] /\ VisitInv(w)
  BY DEF VersionedInv
<1>2. PagesInv'
  BY DEF Compute, CountUsers, RankUsers, VersionedInv, PagesInv
<1>3. posts \in Nat
  BY DEF VersionedInv, Counts
<1>4. w.at \in {"counting", "ranking"} => Enough(w, posts)
  BY <1>1 DEF VisitInv, Enough, VersionedInv, SeesInv
<1>5. CASE CountUsers(r)
  <2> DEFINE q == [w EXCEPT !.at = "ranking", !.page.total = posts]
  <2>1. q \in Visits /\ q.page.total = posts
    BY <1>3 DEF Visits, Pages
  <2>2. VisitInv(q)
    BY <1>1, <1>4, <1>5, <2>1 DEF CountUsers, Visits, VisitInv, Enough
  <2> QED
    BY <1>1, <1>2, <1>5, <2>1, <2>2, ReadingKeeps DEF CountUsers
<1>6. CASE RankUsers(r)
  <2> DEFINE q == [w EXCEPT !.at = "keeping", !.page.rows = posts]
  <2>1. q \in Visits /\ q.page.rows = posts /\ q.page.total = w.page.total
    BY <1>3 DEF Visits, Pages
  <2>2. VisitInv(q)
    BY <1>1, <1>4, <1>6, <2>1 DEF RankUsers, Visits, VisitInv, Enough
  <2> QED
    BY <1>1, <1>2, <1>6, <2>1, <2>2, ReadingKeeps DEF RankUsers
<1> QED
  BY <1>5, <1>6 DEF Compute

LEMMA KeepFresh ==
    ASSUME VersionedInv, NEW r \in Visitors, Keep(r)
    PROVE  VersionedInv'
<1>1. PICK w \in Visits : w = visit[r] /\ VisitInv(w)
  BY DEF VersionedInv
<1>2. w.at = "keeping" /\ Enough(w, w.page.total) /\ Enough(w, w.page.rows)
  BY <1>1 DEF Keep, KeepPage, KeepNothing, VisitInv
<1> DEFINE q == [w EXCEPT !.at = "shown"]
<1>3. q \in Visits
  BY DEF Visits
<1>4. VisitInv(q)
  BY <1>1, <1>2 DEF Visits, Pages, VisitInv, Enough, AtLeast
<1>5. visit' = [visit EXCEPT ![r] = q]
  BY <1>1 DEF Keep, KeepPage, KeepNothing, Move, VersionedInv
<1>6. CASE KeepPage(r)
  <2>1. w.version \in Versions /\ w.version <= version /\ AtLeast(w.page, sees[w.version])
    BY <1>1, <1>2, <1>6 DEF KeepPage, VisitInv, Enough, AtLeast
  <2>2. w.page \in Pages
    BY DEF Visits
  <2>3. PagesInv'
    BY <1>1, <1>6, <2>1, <2>2 DEF KeepPage, KeptUnder, VersionedInv, PagesInv
  <2> QED
    BY <1>3, <1>4, <1>5, <1>6, <2>3, ReadingKeeps DEF KeepPage
<1>7. CASE KeepNothing(r)
  <2>1. PagesInv'
    BY <1>7 DEF KeepNothing, VersionedInv, PagesInv
  <2> QED
    BY <1>3, <1>4, <1>5, <1>7, <2>1, ReadingKeeps DEF KeepNothing
<1> QED
  BY <1>6, <1>7 DEF Keep

LEMMA VersionedStep == VersionedInv /\ [VersionedNext]_versionedVars => VersionedInv'
<1> SUFFICES ASSUME VersionedInv, [VersionedNext]_versionedVars PROVE VersionedInv'
  OBVIOUS
<1>1. CASE UNCHANGED versionedVars
  BY <1>1 DEF versionedVars, VersionedInv, Counts, SeesInv, PagesInv, VisitInv, Enough
<1> QED
  BY <1>1, PostSubmissionFresh, BumpVersionFresh, LoseBumpFresh, ExpirePageFresh, StartVisit,
     LookUpFresh, ComputeFresh, KeepFresh DEF VersionedNext

\* A request that begins after a Submit's bump is shown a page with that Submit in it
\* (cache.ts).
THEOREM BumpedVersionsFresh == VersionedSpec => []BumpedPagesFresh
<1>1. VersionedInv => BumpedPagesFresh
  BY DEF VersionedInv, VisitInv, AtLeast, BumpedPagesFresh
<1> QED
  BY <1>1, VersionedInit0, VersionedStep, PTL DEF VersionedSpec
=============================================================================

# InterviewForge: TLA+ models and proofs

InterviewForge is a practice platform: a web client, an Express backend over
PostgreSQL and Redis (`backend/src`), a Python service that talks to the language
models (`ai-service/app`) and a service that runs candidates' code in containers
(`code-runner/src`). This directory holds TLA+ models of the parts whose
correctness depends on the order in which things happen, the TLC runs that check
small instances of them, and the theorems TLAPS has checked about them.

Every definition is translated from the source; `PROJECT.json` gives, for each
one, the file and the lines it stands for ("map"), and for each property a
plausible bug of that code that breaks it ("mutants": the `Mutant...` operators,
each written just before the definition it replaces).

## The system

| Part | State it keeps | Operations | What makes it hard | What makes it correct |
|---|---|---|---|---|
| Interview loop (`services/interviews.service.ts`, `repositories/interviews.repository.ts`, `services/interview-state.service.ts`) | one `interview_sessions` row, its `interview_messages` and `interview_scores` | start, answer (whole or streamed), hint, report | a request reads in three queries, spends seconds in model calls with no lock, then writes in one transaction; several requests of one session run at once | an answer is recorded under the question it was graded for; hints are charged exactly once; limits of questions and hints hold; one report |
| Spend accounting, transactions (`services/llm-usage.ts`, `db.ts`) | `llm_cost_usd` of the session; a pooled connection | `withUsage`, `charge`, `withTransaction` | charged after the request, whatever became of it | every transaction ends; the cap sees what was spent |
| Submissions, review queue, ratings (`submissions.service.ts`, `review.service.ts`, `sm2.ts`, `elo.service.ts`) | `submissions`, `review_items`, `problem_hint_views`, `user_topic_ratings`, `problem_ratings`, `rated_games` | Submit, add, remove, view hints | one transaction takes locks on the item, the user and the problem after its foreign keys already share the user's row | no deadlock, one rated game per user and problem, no rating or grading lost |
| Interview page (`web/src/components/interview/use-interview.ts`) | the draft, the answer it retries, whether it must read the transcript first | submit, retry, refresh, cancel | the connection breaks wherever the answer has got to; another tab answers too | no answer recorded for two questions |
| Peer sessions (`peer.service.ts`, `realtime/peer.socket.ts`) | `peer_sessions`, socket rooms, the in-memory code saver | create, join, select, code edits, end, sweep | several server instances, sockets and REST at once, throttled saves that race the end of the session, a sweep that comes late, instances that die | the clock starts once and only when both are there, everyone told once when a session ends, the latest code stored |
| Peer room client (`web/src/lib/peer-room.ts`) | the RTC peer connection, the editor, what it shows of the session | offer, answer, rollback, debounce, rejoin | both browsers may offer at once; answers and broadcasts cross | both settle on one description; the page shows what the session is |
| Run queue (`run-queue.ts`) | a BullMQ queue and its workers | enqueue, wait with a timeout, remove | the timeout races the start of the job; workers die while a sandbox runs on | the cap on sandboxes holds; a request told to retry has no run starting after it |
| Code runner (`code-runner/src`) | one container per run | run, compare, explain | process and file I/O; verdict and explanation are two functions | a failure is explained by a difference, and only a failure |
| Assessments (`assessments.service.ts`, `assessments/[id]/page.tsx`) | `assessments` and their problems, each tab's timer and submission | start, link a solution, submit | the deadline passes between a read and a write; a timer fires during a submission | work done late does not count, work done in time does |
| Leaderboard cache (`cache.ts`) | pages in Redis under a version | read-through, bump | a reader computes across a bump; Redis fails | nothing stale is served under a new version |
| Retrieval cache (`ai-service/app/rag/cache.py`) | results in Redis under a generation, an owed bump and a breaker per process | lookup, store, invalidate | the same, with threads that share what their process owes | what a write made stale is never served by who knows of it |
| Live fetch limits (`ai-service/app/ingest/limits.py`) | leases, day counters, cooldowns in Redis | reserve, release | answers lost, workers dying, fetches outliving their lease | slots and cooldowns hold |
| Resumes (`resumes.service.ts`, `ai-service/app/resume/store.py`) | a row and the chunks of one collection | upload, delete | two stores and no transaction over them | the row and the chunks agree; deleted means gone |
| Accounts, share links, rate limits | users and `token_version`, `share_links`, counters | issue, revoke, open | check and write are separate queries | limits hold, revoked access is refused |
| Problems, paths, daily challenge, recommendations, complexity, retrieval and prompting, pages | rows read or written one at a time | reads, single upserts | little | - |

The browser calls the backend over REST and, for streamed answers, over
server-sent events; the backend calls the model service over HTTP and the code
runner through the run queue; peer rooms use sockets fanned out through Redis.
Everything that must survive is a PostgreSQL row, so most hazards are of one
shape: two requests interleave between the queries of a handler, or between a
read and the transaction that relies on it. `PROJECT.json` lists every hazard at
its line, with the properties that cover it or the reason none does.

## Modules

| Module | What it is |
|---|---|
| `InterviewTurns` | what the interview loop promises, one turn at a time: the abstract specification |
| `Interview` | the interview loop: the handlers over the session row and its messages |
| `MCInterview` | `Interview` on small instances (the five `MCInterview_*.cfg`) |
| `InterviewProofs` | theorems about the types, transcript and report of `Interview`, and that it implements `InterviewTurns` |
| `Sm2` | `sm2.ts` and the grading of `review.service.ts` as operators on whole numbers |
| `ReviewSchedule` | the schedule of one problem under any history of reviews, over `Sm2` |
| `Submissions` | a Submit's transaction: submission, path progress, review item, rated game; over `Sm2` |
| `MCSubmissions` | `Submissions` on small instances (the three `MCSubmissions_*.cfg`) |
| `SubmissionsProofs` | theorems about the types, locks, paths and ratings of `Submissions` |
| `ReviewProofs` | theorems about its review queue |
| `PeerSession` | a peer interview: the row, the socket handlers of every instance, the requests and the sweep that end it, what the pages show |
| `MCPeerSession` | `PeerSession` with two pages of the host and one of the guest, and its constraints |
| `PeerProofs` | theorems about `PeerSession` and `SharedCode` |
| `PeerNegotiation` | perfect negotiation between the two pages |
| `NegotiationProofs` | theorem about `PeerNegotiation` |
| `SharedCode`, `MCSharedCode` | the shared editor: pages, code savers, the row |
| `RunQueue` | the code run queue and its workers |
| `VersionedCache` | the leaderboard's read-through cache |
| `RetrievalCache` | the retrieval cache of the model service |
| `CacheProofs` | theorems about the two caches |
| `Assessment` | a timed assessment and its tabs |
| `AnswerPage` | the interview page's answer box |
| `LiveFetch` | the limits on live fetches |
| `ResumeStore` | a resume's row and chunks |
| `OutputDiff` | the judging of a case and its explanation: the verdict at once, `walk` call by call |
| `DiffProofs` | theorem about `OutputDiff` |
| `MCServices` | the components from `ReviewSchedule` on that share no state, side by side |
| `ServiceProofs` | theorems about `ReviewSchedule`, `RunQueue`, `LiveFetch`, `Assessment`, `ResumeStore` and `AnswerPage` |

`Submissions` composes what four services do in one transaction; `ReviewSchedule`
looks at one of its items alone, over histories far longer than a run of
`Submissions` can hold, and both use the same `AfterReview`. `AnswerPage` takes the
server as `InterviewTurns` has it: one answer per turn, the turn found open. The three
modules of a peer room share the two participants and nothing else: the session's status
decides who may send, the wire of `PeerNegotiation` and the relay of `SharedCode` are what
`peer.socket.ts` does between members of one room.

### Interview

State. `session` is the row (status, mode, stage, `stage_turn_count`, spend,
report); `log` the messages in `created_at` order; `scores` the reports whose
scores were inserted; `lock` the handler whose open transaction holds the row's
lock. Of each handler, `phase` says how far it is, `turn` what it has read and
decided (the locals of `runTurn` and `giveHint`), and `spent` the model calls it
has not charged yet. `served` is the set of reports viewers were shown.

Actions. One per query, model call or transaction boundary, so anything another
request does can fall in between:

| Code | Actions |
|---|---|
| `startInterview` | `Start` |
| `loadTurn` (three queries) | `LoadSession`, `FindQuestion`, `CountHints` |
| `runTurn`: evaluation and challenge check | `Evaluate` |
| `runTurn`: the move (challenge, fixed rule, agent) | `DecideChallenge`, `DecideByRule`, `ConsultAgent` |
| `runTurn`: the next question | `AskQuestion` |
| `commitTurn`: claim, then recount hints and write | `ClaimTurn`, `CommitTurn` |
| `giveHint` | `RefuseHint`, `WriteHint`, `LockTurn`, `RecordHint` |
| `buildReport` | `LoadReport`, `WriteReport`, `StoreReport`, `ServeWinner` |
| any failure before the transaction, a client that leaves a stream | `Fail` |
| a write that fails, a 409 inside the transaction | `Rollback` |
| `charge` | `Settle` |

What is abstracted. Message texts, the questions themselves, personas, retrieval
and difficulty are left out: a message keeps its kind, its stage and the metadata
that is read back. What a model returns is any value it may return (a score, a
wish to follow up, a challenge, an agent's move). Spend is counted in model calls (the
challenge check is one, whatever it finds)
and saturates at the cap, the only value it is compared with. `created_at` is the
order of insertion: inserts into one session happen under its row lock, and the
model assumes the database clock does not run backwards between two of them. The
`to` field of answers and evaluations is a ghost that names the question the
handler was answering. `StoreReport` is one step: its transaction makes the claim
first and nothing else locks a completed session's row except the charge.

Properties.

* `AnswersOpenQuestion`: an answer is recorded directly behind the question it was
  graded for, which was open, with its evaluation behind it.
* `HintsCharged`: an evaluation is charged for exactly the hints on its question,
  though the count it used was read before the model call.
* `HintLadder`: hints are given in order, on the open question, never beyond the last rung.
* `QuestionBudget`: no mix of challenges, follow-ups, probes, pivots and fallbacks
  exceeds the stage's limit, and `stage_turn_count` counts the questions answered.
* `AwaitsAnswer`, `StagesInOrder`: nothing is half recorded, no stage is skipped.
* `ProbesOnlyAfterImprovement`: an agent's probe follows a probe only if it helped.
* `OneReport`, `ClosedWhenCompleted`: one report is stored, scored and shown; a
  completed interview's transcript never changes.
* `ImplementsTurns`: the concurrent handlers implement `InterviewTurns`.
* `InterviewCompletes`: liveness, below.
* `AgentWithinCap`: what docs/DECISIONS.md says of the cost cap. It does not hold.

### Sm2, ReviewSchedule

An ease factor is kept in thousandths, which loses nothing: `sm2` rounds it to
three places. The interval is `Math.round` of a floating-point product, so at a
half the code may round either way (75 × 1.38 rounds down, other halves up);
`Product` is a set of one number or two, and `AfterReview` the set of states the
code can return. `ReviewSchedule` enrols a problem and grades it with any
failures and hints before each pass.

* `WithinChecks`: no history of reviews reaches a state the table's CHECKs refuse
  (that would roll every further Submit of the problem back).
* `IntervalFitsRun`: the interval belongs to the current run of recalls.
* `PassesSpreadReviews`: a pass never brings the next review closer.

### Submissions

State. The tables: `items` (`review_items`), `hints` (`problem_hint_views`),
`progress` (`user_path_progress`), `games` (`rated_games`), and the number of games
counted in each user's and problem's ratings (`userGames`, `problemGames`). `tx`
holds each Submit: how far its transaction is (`at`), what it has read (`today`,
`found`, `counted`, `before`) and what it will have written when it commits (`write`,
`rated`). `held` is PostgreSQL's table of row locks. `day` is the UTC day, `clock`
the last timestamp per user and problem; only stamps of one user and problem are
ever compared.

Actions. One per statement that may wait or whose result another transaction can
change:

| Code | Actions |
|---|---|
| `BEGIN`, `insertSubmission` (its foreign key takes KEY SHARE on the user) | `Begin` |
| `markCompletedInEveryPath` | `MarkCompleted`, `AlreadyCompleted` |
| `findItemForUpdate` | `FindNothing`, `FindItem`, `LeaveItem` |
| `failuresSince`, `hintedSince` | `Assess` |
| `updateItem`, `insertItem` | `UpdateItem`, `InsertItem`, `InsertNothing` |
| `countSubmissions` | `CountSubmissions` |
| `lockUserRatings`, `lockProblemRating` | `LockUser`, `LockProblem` |
| `claimRatedGame` and the two saves | `ClaimGame`, `LoseGame` |
| `COMMIT`, `ROLLBACK` | `Commit`, `Rollback` |
| `addToQueue`, `removeFromQueue`, `recordHintViews`, midnight | `AddToQueue`, `RemoveFromQueue`, `ViewHints`, `NextDay` |

PostgreSQL runs these at READ COMMITTED: a statement sees what is committed when it
runs (for a row it waited for: when it gets the lock) and locks are released at the
end. A row that an open transaction has inserted is invisible to reads and makes a
second insertion of its key wait, which the model writes as a lock on the key. A
waiting statement is an action that is not enabled yet, so a circle of waits is
stated directly (`WaitsFor`, `NeverDeadlocked`) rather than left to the deadlock
check, which a `Rollback` would hide.

What is abstracted. Code and the verdict (any outcome), Elo arithmetic (the number
of games counted stands for the ratings: a lost update loses a game), the creation
of a problem's rating row (merged with its lock), learning paths completed by
hand, and the leaderboard's version bump after the commit (module
`VersionedCache`). The two reads of `Assess` are one step: each reads one table once, and no
action that could fall between them writes both. Of a committed Submit, `counted`,
`write` and `told` are kept as ghosts for the properties. Each Submit is made once.

Properties.

* `NeverDeadlocked`: D-077's deadlock (two first Submits, each sharing the user's
  row and asking for all of it) does not come back, nor any other circle.
* `RatedOnce`, `RatingsKept`: one rated game per user and problem with a Submit,
  counted once on both sides, whichever racing Submits are rolled back.
* `PathsFollowSubmissions`: a completion and the pass it rests on land together.
* `GradingsKept`: a grading replaces the very item it was computed from.
* `PassGradedWhenDue`: two passes racing over a due item grade it once.
* `FailureGradedOnce`: a failure that was a lapse is not held against a later pass.
* `FailureCountsAsLapse`: what a comment and docs/DECISIONS.md say of failures. It
  does not hold.

### AnswerPage

State. `form` is the page (what it is doing, the draft, the answer it would retry, the
answer it must see in the transcript, whether it has to read the transcript before it
may send again); `posting` each request at the server; `recorded` the answers in the
transcript, one per turn.

| Code | Actions |
|---|---|
| the server's turn, seen from outside | `Reject`, `BeginTurn`, `RecordAnswer`, `LoseTurn`, `FailTurn`, `AbandonTurn` |
| typing, submitting | `WriteAnswer`, `SubmitAnswer` |
| what the page does with each outcome | `Accepted`, `MayRetry`, `MustRefresh`, `Rejected`, `LoseAnswer` |
| `refreshSession` | `Refresh`, `ReadTranscript`, `RefreshFails`, `ApplyTranscript` |
| cancel, hide the page; another tab | `Cancel`, `OtherTabAnswers` |

`NoAnswerTwice`: an answer written once is not recorded for two questions, whatever is
lost and whatever other tabs do. Two cases are excepted through the ghost `excused`, and
both are real: a request cancelled after its answer was committed leaves the text in the
box (`use-interview.ts:193`), and a COMMIT whose own answer was lost is called safe to
retry (`sse.ts:108-111`). A request that never arrived leaves the page waiting for its
answer to appear until it is reloaded.

### PeerSession

State. `row` is the `peer_sessions` row (its status and whether the guest has the seat).
A `socket` is one visit of a participant's page: where its join handler is, what it has
read, whether it is in the room, and what the page shows (clock, partner, presence).
`farewell` is the presence a leaving socket has counted and not told, `request` each
participant's request to end, `sweep` whether an instance has an ending to announce;
`ghost` counts starts, announcements and crashes.

| Code | Actions |
|---|---|
| `joinSession` (the invite) | `TakeSeat` |
| the page opens; `enterRoom` | `OpenPage`, `EnterRoom`, `EnterFails` |
| join, await by await | `JoinRoom`, `CountPresence`, `TellPresence`, `Activate`, `ActivateNot`, `TellStarted` |
| `getPeerSession` of a page that does not know its partner | `RefreshSession` |
| leave, disconnect | `Leave`, `Drop`, `CountFarewell`, `TellFarewell` |
| end, by socket or REST | `AskToEnd`, `EndSession`, `TellEnded`, `TellEndedFails` |
| the sweep | `Sweep`, `SweepTells` |
| an instance dies | `Crash` |

What a handler does between two awaits is one action, so two handlers, on one instance or
two, interleave at every await. Emits reach the browsers that are in the room at once;
codes, signals and messages are in the other two modules.

* `ClockStartsOnce`: however many joins find both there.
* `BothInTheRoomStart`: when both are in the room with their joins answered, the session is
  no longer waiting. Whoever counted last saw the other; no order leaves both waiting.
* `EndToldOnce`: the room is told once, only of a real end, and is not told only if the one
  that ended it failed in between.
* `NotLeftWaiting`: a page beside its partner in a running session shows the partner or the
  clock. docs/peer-interviews.md and a test promise both; not even one of them holds.

### PeerNegotiation

State. `page` holds the flags of each `PeerRoomConnection` (how far its join is, whether
it knows its partner to be there, making an offer, ignoring, candidates kept), `pc` its
`RTCPeerConnection` (signalling state, local and remote description, what is wanted and
what was negotiated), `wire` the signals on their way.
The connection itself is not in the repository; it is modelled from the calls made to it,
and those definitions are marked external.

`ReachRoom`, `LookAround` and `SpreadWord` are the server's join (the page is in the room,
the room is counted, the room is told and the join answered); `HearPresence` and
`Acknowledge` are what the page hears of it, and an answer with an old count overwrites a
presence heard before. A page left in that belief (`NotLeftWaiting`) makes no offer
and is not at rest, so `PagesAgree` says nothing of it but that no call fails.
`OpenChannel`, `AwaitOffer`, `EnableMedia`, `NegotiationNeeded`, `Offer`, `DropEarly`,
`Ignore`, `Take`, `TakeCandidate`, `SetOffer`, `Answer` and `SetAnswer` are the steps between two awaits of `presence`, `enableMedia`,
`offer` and `signal`.

`PagesAgree`: at rest, both are stable on one description which has all that either
wanted, and no call on the connection has failed. Ghosts except two more cases the page does
not handle: a signal that comes before the join's answer is dropped (`peer-room.ts:410`),
and media enabled before the partner is there uses up `negotiationneeded`
(`peer-room.ts:345`).

### SharedCode

State. `now` is the clock of the database and the instances; `record` the row with its
status, `ends_at`, `ended_at` and code, `editor` each page and its unsent edit, `inbox` the
code on its way to it, `saver` each instance's `CodeSaver` (the version its throttle holds
back, and until when), `saving` the UPDATEs under way, `sweeping` the instances whose sweep
has a flush to do, `ending` the end request that waits for its saver. A version is the
number of the edit that made it. The ghost `tally` follows the version relayed last and
what became of it: held, stored, failed (the UPDATE raised), slow (sent in time, executed
too late) or refused.

| Code | Actions |
|---|---|
| `sendCode`, `flushCode` and the server's `code` event, which looks at no status | `Edit`, `SendEdit` |
| the code event at the page | `ReceiveCode` |
| disconnect; join again, the clock, the join's answer | `LoseConnection`; `Reenter`, `StartClock`, `Rejoin` |
| the throttle's timer; `saveCode` | `SaveDue`; `Save`, `SaveFails` |
| end by socket, by POST | `AskEnd`, `EndRecord`; `RequestEnd` |
| the sweep: time up, nobody came, its flush | `TimeUp`, `Expire`, `SweepFlushes` |
| a page that hears of the end | `LeaveEnded` |
| time passes | `Tick` |

`saveCode` stores for a live session, and for a completed one until `Grace` after
`ended_at`; it refuses everything else without an error, so also whatever is relayed or
held of a cancelled session. `sweepExpired` sets `ended_at` to `ends_at` although it may come
up to `SweepDelay` later. Timers of the throttle fire when they are due (`Tick` waits for
them); an UPDATE may take any time, and two may overtake each other.

* `LastRelayedIsStored`: once nothing is left to save, the version relayed last has been
  stored, through the throttle, outages, both instances and every way the session ends.
  Excepted are exactly: its save failed or took too long; the session was cancelled; it was
  relayed so late that the throttle may outlast the time in which saves are stored.
* `LastSaveLands`: what the comment of `saveCode` says of that time: what was relayed while
  the session was open is stored. It does not hold.
* `LatestVersionLands`: that the latest version is what the row keeps. It does not hold.

An instance that dies takes what its saver holds with it, and one that is stopped saves it
first (`flushAll`); neither is modelled.

### RunQueue

State. Of each job, `waiter` is what its request waits for and was answered, `stored` the
job in Redis, `worker` who runs it, `sandboxes` how many sandboxes run it, `stalls` how
often it was found stalled; `orphan` is a ghost. BullMQ is modelled from its use: its
operations are atomic in Redis, an active job cannot be removed, and a job whose worker
died is run again, once, after its lock has expired.

`Request`, `Add`, `AddTimesOut`, `AddLands`, `ReadResult`, `WaitTimesOut` and `Remove` are
`enqueue`; `Start` and `Finish` the worker; `WorkerDies`, `SandboxEnds`, `Stall` what an
instance's death leaves; `Purge` the age limit on finished jobs.

* `SandboxesCapped`: never more sandboxes than the cap, over instances and deaths. The lock
  outlives every run, so a dead worker's sandbox keeps its place.
* `BusyIsNotRun`: a request told the queue is busy has no run started after it. (A job
  whose `add` was refused after five seconds and still reaches Redis does run, for nobody;
  the property leaves it out and the hazard says so.)
* `AnsweredIsRemoved`: an answered job, with the hidden cases in it, is gone from Redis.

The code runner itself does not die here: a run it was killed in would end as one that
failed, and its container is its own affair (see below).

### VersionedCache, RetrievalCache

Both keep what was computed under a counter that a write bumps, and both read the counter
before they compute. A result is the number of writes it has seen.

`VersionedCache` is `cacheVersion`, `cached` and `bumpCacheVersion` around the two queries
of a leaderboard page (`ReadVersion`, `FindPage`, `CountUsers`, `RankUsers`, `KeepPage`,
...), with any Redis call failing. `BumpedPagesFresh`: a request that begins after a bump
is shown what the bump followed.

`RetrievalCache` is `retrieve`, `ingest_documents` and `delete_source` over the generation,
with each process's breaker and the bump it owes (`pending`), in several threads of
several processes. `covers` and `debt` are ghosts. A raising call may or may not have been
executed.

* `InvalidatedUnreachable`: a retrieval that begins after a bump never gets what was
  computed before the writes the bump followed, from any process.
* `OwedBumpsHonoured`: a process never serves what is older than a write it invalidated
  itself or tried to. One exception is real (`cache.py:303`, `:319`): a thread that made
  the owed bump forgets it, and with it one another thread came to owe meanwhile.

### Assessment

State. `clock` (before the deadline, in the grace, over), the `assessment` row with the
solutions its score counts, `linked` solutions, each `tab` with its submission under way
and the answers it got, its `finish` request. `SubmitProblem`, `Judge`, `CheckDeadline`
and `Link` are a problem's submission; `FinishAssessment` and `TimeOut` the page;
`SubmitAssessment`, `ReadSolutions`, `Complete` the queries of `submitAssessment`.

* `LateWorkNotCounted`: no solution stored after the grace is in the score.
* `OwnWorkCounted`: what a page began to submit before it finished is in the score, also
  when its timer finished it in mid-submission, unless another tab linked over it or two
  submits overlapped (`complete` does not look at the status, so the slower one
  overwrites the score, `assessments.service.ts:145`). A finish, by hand, by the timer
  or again after it failed, waits for the submission under way when it begins; one begun
  while it is under way is not waited for (`page.tsx:200`).

### LiveFetch

State. Each request's lease and query (`fetch`), the `leases` in Redis, those that have
`expired`, the day's `quota` counters, the queries `cooling`. `Acquire` is the script;
`AcquireUnanswered` its lost answer; `Release`, `ReleaseFails`, `ExpireLease`,
`EndCooldown` and `NewDay` the rest. `FetchesCapped`: the fetches within their lease never
exceed the slots and no two fetch one query within its cooldown. The limiter in memory,
used without Redis, is not modelled; it checks and reserves under two acquisitions of its
lock (`limits.py:126`, `:129`). The quotas refuse here as they do in the code, but no
property is about them.

### ResumeStore

State. `resumeRow`, the Chroma `collection` (who created it, whose chunks it holds), where
each `upload` and `deletion` is; `amiss` is a ghost. Every call may raise, done or not.
`Submit`, `Refuse`, `Embed`, `PurgeOld`, `OpenCollection`, `Upsert`, `StoreFails`,
`Record`, `RecordFails` are an upload; `Ask`, `PurgeAll`, `ReadBack`,
`ReadBackUnanswered`, `DeleteRow`, `DeleteFails` a deletion.

* `RowMatchesChunks`: at rest, the row's resume is the one that is retrieved; a refused
  upload is a no-op. Three cases are excepted: a failure past the purge, which is answered
  as one (the old resume is lost then, or chunks have no row: `lost`, `stale`); a drop or a
  count that Chroma refused and nobody noticed (`swallowed`), whose chunks stay beside the
  row's or without it until a purge succeeds; and requests that overlapped.
* `AnsweredIsPurged`: what `store.py` says of an upload, that what it replaced is gone, and
  docs/DECISIONS.md of a deletion, that nothing remains. Neither holds: requests that all
  succeed reach the second exception.

### OutputDiff

Outputs are texts or JSON values. `JudgeCase` takes the verdict of `CompareOutputs` and
what `diffOutputs` finds without `walk` (`DiffAtOnce`). `walk` is recursive in the code;
here its calls are the stack `frames`: `WalkItem` is the call for the next item, `Return`
the end of a call, which ends all of them if it found a difference. The path a call is
given is where its callers are, so it is read off the stack (`Path`).
`DiffExplainsFailure`: a difference is shown exactly when the
case failed, and what it points at is different, with everything before it the same. The
runner asks for a difference only when a case failed; the model looks for one in every
case, or "exactly" would mean nothing. Numbers are counted in halves of the tolerance;
`Infinity` is left out, and so is the comparison of objects, which no problem returns.

## Runs

| Run | Instance | Shows |
|---|---|---|
| `interview_fixed` | two answers, one hint request, two stages, one rung | answers, hints and stages stay consistent; refinement of `InterviewTurns` |
| `interview_agent` | two answers, agent mode with challenges, three questions, scores 1 and 2, a cap of six calls | the question budget and the probe rule |
| `interview_report` | one answer, two hint requests, two viewers, two rungs, the lowest score, fair scheduling | the ladder, one report, a closed transcript; the interview completes |
| `interview_cap` | one answer, one hint request, a cap of three calls | finding: the agent is consulted above the cap |
| `submit` | three Submits: of two users and two problems within a day; of one problem around a midnight, with one change by hand or hint view | no circle of waits; one rated game; ratings and paths follow what is stored; gradings are serial, on time and not counted twice |
| `submit_lapse` | two failing Submits of a problem that is not queued | finding: the second failure is no lapse |
| `services` | eleven components side by side, below | their nineteen properties |
| `shared_code` | two pages on two instances, two edits, one outage, below | the last version relayed reaches the row |
| `code_timeup` | the code's own times, one edit, no outage | finding: a version relayed before the sweep is refused by it |
| `code_latest` | two pages on two instances, two edits | finding: an older version overwrites a later one |
| `peer_waiting` | one page each, joining at once | finding: a page of a running session shows neither its clock nor the partner who is in the room |
| `resume_purge` | two uploads, one deletion, Chroma refusing or not answering | finding: a "verified" deletion leaves the chunks |

Bounds. Every handler is a client that may send its request again and again, so
two answerers give every number of retries and every overlap of two answers; a
third adds only a third loser of the same claim, because the claim compares the
row and nothing else. Two stages cover an advance and the end, one rung of hints
covers a hint racing an answer, two cover two hints racing each other. Three
questions per agent stage allow a probe after a probe, and scores 1 and 2 an
improvement or a stall; score 1 alone is where a hint's penalty meets the floor. Progress
is checked with one answer, sent again until it is recorded, beside two hint requests: of
two racing answers the loser's refusal leaves a session the winner has moved on.
The interview runs have no other bounds: the log is finite because
the stages are. A run without viewers may stop when its interview is over, which
is why the deadlock check is off there.

Three Submits are the least for a circle of three and for a loser whose winner is
rolled back while another waits; two users and two problems let games share one side
and not the other. One problem is enough for reviews, since no statement of theirs
touches another problem's rows; one midnight makes an item due between two reads, and
one change by hand removes, adds or hints in between. `ManyWithinOneDay` keeps the two
apart: days pass and changes are made by hand only while everything has been about one
user and problem. The theorems need no such bound. Submits are made
once, so the run stops and its deadlock check is off.

`services` checks components that share no state in one run. Its behaviors choose a
component (`focus`) and follow it, while the variables of the others stay where they begin;
so every behavior of each component is among them, no others are, and the states are
the sum of the components' states and not their product. Each has a bound at which it
stops, so the deadlock check is off.

| Component | Instance | Why it is enough |
|---|---|---|
| `ReviewSchedule` | two lapses, three failures before a pass, intervals past a year | a lapse resets all but the ease factor, which three failures bring to its floor; every residue modulo the rounding occurs |
| `RunQueue` | three jobs, two workers, one sandbox, one death | a stalled job, one that waits and one that is refused compete for the slot |
| `PeerSession` | two pages of the host and one of the guest on two instances, one crash, the guest and the sweep end it | a reload races the guest's join; joins, leaves and ends meet on both instances |
| `PeerNegotiation` | five offers | offers cross more than once, with media enabled at any time |
| `RetrievalCache` | two threads of one process, two writes, two bumps | a retrieval runs across a write and its bump; processes meet only in the generation, and the proof holds for any number |
| `VersionedCache` | two requests, two Submits | the same |
| `Assessment` | two tabs, one problem, two solutions | a tab links over the other, times out and finishes beside it |
| `AnswerPage` | two drafts, two requests, three turns | a lost answer and its retry, with another tab's between them |
| `LiveFetch` | three fetches, two queries, one slot, three leases, one midnight | an expired lease is released after another took the slot |
| `ResumeStore` | two uploads, two deletions | every pair of requests, in turn or overlapping |
| `OutputDiff` | outputs of every type, arrays of up to two and of rows up to three, two items listed | near and equal numbers at both depths, repeated items |

`shared_code` has a run to itself, with two pages on two instances that change places by
symmetry, two edits and one outage: each saver has a version to save while the other's save
is under way. A step of the clock stands for the throttle, the grace and the session's
length (one step each), and the sweep may be two steps late, so that it comes before, at and
after the end of the grace; three steps reach past that. The proof needs no relation
between these lengths.

Two constraints keep `PeerSession` small. `HostReloads`: once the host's second page is
open, only behaviors are followed in which the session stays open, no instance has died and the
pages shown stay; the end is followed with one page each. `OneFarewell`: one socket at a
time tells the room that it has left, and nobody leaves after a crash. The theorems of
`PeerProofs` need neither, nor any other bound.

Fairness. Only the interview has a property about progress. `FairSpec` asks four things: a
candidate keeps sending an answer and its handler takes the steps it can take; a hint transaction that is open is written;
a rollback and a charge that can happen do; and model calls and queries fail only
finitely often. Node runs a ready continuation, the pool releases every
connection in a `finally` block, and PostgreSQL grants a free row lock; that
failures end is the environment's part. No fairness is asked of who asks for hints.
`PagesAgree`, `LastRelayedIsStored` and `RowMatchesChunks` speak of what holds once nothing
more is under way, so they need none.

Findings.

* `interview_cap`. `consultAgent` compares the cap with the spend loaded when the turn
  began plus the turn's own. A hint charged to the session while the answer is
  being graded is missed, so the agent is consulted with the recorded spend at or above
  the cap; docs/DECISIONS.md:871-873 says it is no longer consulted then.
* `submit_lapse`. Two first failing Submits of a problem that are open at once both find no
  review item. The second's insert meets the first's and does nothing (`ON CONFLICT DO
  NOTHING`), yet it answers "enrolled": one lapse is stored for two failures, where
  `review.service.ts:11` and docs/DECISIONS.md:607 say a failure always counts as one.
* `code_timeup`. The sweep comes up to 15 s after `ends_at` and counts the end from
  `ends_at`; saves are stored for 10 s after the end. What is relayed in the last seconds
  before a late sweep is refused, by the throttle's timer and by the sweep's own flush
  alike, and nobody is told: `saveCode` matches no row and raises nothing.
  `peer.repository.ts:144-145` says the last throttled save still lands when time runs out.
* `code_latest`. Saves are started without waiting for one another and the UPDATE carries
  no version, so a later version may be stored first and an earlier one over it;
  `peer.socket.ts:56` says "the latest version always lands".
* `peer_waiting`. The join that counted itself alone, and read the session as waiting, is
  told and answered last. By then its page has heard from the other's join that the partner
  is there and that the clock has started; the answer overwrites both: the
  page shows no clock until it joins again, and no partner (nor does it offer) until presence
  is told again. docs/peer-interviews.md:16 says the clock starts when both are in the room; `peer.socket.test.ts:141` expects presence as each arrives.
* `resume_purge`. The purge swallows every exception of Chroma, and the count that should
  verify it answers 0 when Chroma does not; the row is deleted and the chunks stay.
  docs/DECISIONS.md:2065-2066 says "deleted" is verified rather than claimed. TLC stops at
  this shortest trace. A re-upload breaks the property by the same purge: `ingest` does not
  look at its result (`store.py:187`), so when Chroma refuses the drop and then answers again
  the upload succeeds with the old chunks beside the new, where `store.py:136-137` says
  "replace, not append". In the model that is `PurgeOld` with a refused drop, then `Upsert`
  and `Record`; `RowMatchesChunks` excepts it as `swallowed`.

## Proofs

Every theorem holds for any values of the constants that its module's assumption
allows: any sets of handlers, sockets, instances, workers or tabs, and no bound but those
a guard of the model names.

`InterviewProofs` begins with `TypeCorrect`, `Spec => []TypeOK`. `TypeOK` is not
inductive: that a stage the handler writes is one of the interview's depends on
what the handler read, and on the phase it is in. The invariant `TypeInv` adds
that the session's stage lies in `1 .. NumStages` while the session is active,
and that a handler past each of its reads has filled in what the read gives
(`Filled`). Each action has one lemma for the handler's part of the state and one
for the rows. The score's type says a score is at least one, which rests on
`applyHintPenalty` never taking more than the score less one.

It goes on to every safety property of `Interview` that holds. None is inductive, and all
rest on what a handler may rely on while others write (`LockInv`):

* who holds a claim holds the row's lock, and its turn stays the current one (`ClaimHeld`);
* no handler has read a turn later than the interview is at (`NotAhead`), so a turn that
  was overtaken never becomes current again;
* while the turn a handler read is current, the question it found is the open one, with
  nothing but its hints behind it (`QuestionOpen`); the move it decided has room, and a
  probe has been earned (`MoveAllowed`).

An answer or a hint therefore finds at its claim what it read seconds before, which gives
`TranscriptInv`, the properties of the messages together with what each needs of the
others: `ChargedInv` (the hints of a question are those between it and its answer),
`StageInv` (no message is of a
later stage than the session's, which an evaluation of the one before has opened), `BudgetInv` (the questions of the
current stage are those answered and the open one), `Finished`. `ReportInv` is the report's
claim. `TurnsImplemented` then shows the refinement: a committed answer, a recorded hint, a
start and a stored report are each a step of `InterviewTurns`, and every other step
changes nothing it sees.

`SubmissionsProofs` proves `TypeCorrect` for any numbers of Submits, users and problems. The
invariant `TypeInv` adds that a Submit that has begun names its user and problem. With
`ReviewProofs`, which extends it, it proves every property of `Submissions` that holds,
none of which is inductive alone. Each first says once what every action does to the
Submit that takes it (the `...Effect` lemmas), so the inductive steps need not open the actions.

* `NoDeadlock` rests on `LockOrder`: a Submit takes its path key, item, user, rating
  and game in that order, and holds only what its position (`Reached`) has passed; the
  shares of user rows stand outside the order because nothing asked of a user row
  conflicts with them. Whoever is waited for is therefore further on, and the
  furthest of a finite circle waits for nobody.
* `OneRatedGame` and `NoLostRating` rest on `Exclusive`, that no two transactions hold
  conflicting locks, and `RatingInv`: the ratings a Submit has read under its locks are
  still the stored ones, a claimed game has no stored rival, a Submit that finished
  unrated has a stored one before it (all `Own`), and the stored Submits of a pair are
  one game or none exist (`OneGame`).
* `PathsFollow` needs only that commits alone store, and never take back, a pass.
* `SerialGradings` rests on `ItemInv`: a Submit that found an item, or inserts one, holds
  its lock, and the stored item is the one it found. No edit by hand changes a locked
  item (`OutsideItems`).
* `PassesOnTime` adds `DueInv`: the item a pass grades was due on the day it read.
* `FailuresCountOnce` adds `StampInv`: every attempt that graded an item began before
  the item's last review. A grading takes its stamp while it holds the item, so it
  is later than the beginning of all that graded before, and no other grading can land
  in between. `MutantReviewedAtBegin` breaks exactly this.

`PeerProofs` proves `OneStart`, `OneEnd` and `BothStart` for any pages, instances and
crashes. The first two rest on `EndInv`: the UPDATE that ends the session has one winner, who is
the only teller. The third rests on an order that no variable of the code holds: of two
sockets in the room whose joins have counted, the one who counted last saw the other,
and starts the clock unless it has been started or the session has ended (`RoomInv`).
`LastRelayedStored` is about the editor. The invariant `CodeInv` says that the version
relayed last is held by a saver or an UPDATE until it is stored, failed, slow or refused
(`FateKnown`); that what holds it back is due, and its UPDATE is sent, no later than the
throttle after it was relayed (`HeldInTime`); and therefore that it is refused only of a
cancelled session, or of a completed one whose grace was over by then. It needs no bound on
how late the sweep is, and it rests on timers that fire when they are due.

`NegotiationProofs` proves `PagesAlwaysAgree` for any number of offers, however they
cross. `NegotiationInv` says, while no page has dropped an offer, where each offer is:
made and not sent, on the wire, being answered, or answered with the answer on its way
(`StageInv`); that a wire carries answers before the offer that is still wanted, and
candidates behind the description they belong to (`WireInv`, `CandidateInv`); and what
happens when two offers meet (`GlareInv`): the impolite page's is never lost, the polite
page's may be overtaken, and then the other's, which rolls it back, is on its way or
being answered. A page at rest with empty wires is left with no offer in any of these
places, which leaves only agreement.

`CacheProofs` proves the three cache properties for any processes, threads and failures.
`RetrievalInv` says what a generation covers, that what is cached under it has seen that
(`CacheInv`), that a write a process has handled is covered, owed or forgotten (`DebtInv`),
and what a request may rely on at each step (`Fresh`). `VersionedInv` is its smaller
likeness for pages.

`ServiceProofs` has the rest, one invariant per component. `QueueInv`: a sandbox lives
within its job's place among the active ones, and a job is in Redis as its request
believes. `FetchInv`: a fetch holds a lease of its own, one that counts or has expired.
`AssessmentInv`: work a page answers for is linked, and while no two submits overlapped the
one that scores is alone and the row active. `ResumeInv`: what each stage of a request that
is alone leaves of the row and the chunks, and which ghost accounts for what it does not.
`ScheduleInv` is `WithinChecks` and `IntervalFitsRun` together: that a third recall lengthens the interval needs an ease factor
of at least 1.3 and an interval of at least six (`ProductGrows`, by arithmetic over both
roundings), and the six is what `IntervalFitsRun` says of the second recall. `AnswerInv`: an
answer that is not excused and is recorded, or may still be, is in the page's hand: it is awaited,
looked for in the transcript, or no longer offered for sending; and at most one request
of it is under way.

`DiffProofs` proves `FailuresExplained` for outputs of any size and depth. The invariant
`DiffInv` says of the calls of `walk` under way that each compares the items its caller is
at, that the items before those are the same (`CallInv`), and that all the calls compare
the same with the same if the two outputs are the same. A call that finds a difference
therefore finds a failed case, and the outermost call ends without one only if the outputs
are equal or near. `ValueAt` is a recursive function; that following a path leads to
the values a call compares needs its defining equation, which holds of the function the
calls themselves give, and of that one alone: two that differ would differ at a first place.
For arrays in any order the proof counts: going through an array, `Nth` takes each number up to
an item's occurrences once, so nothing is missing and nothing unexpected exactly when
every item occurs equally often in both, which is what `sortedArrayEqual` compares.

The proofs assume the modules' `...Assumption`s: whole-number bounds, boolean outcomes,
outputs that are JSON values or texts, disjoint kinds of handler, finitely many Submits. That the row locks conflict as
PostgreSQL's do, that a statement reads the latest committed rows, and that Redis, BullMQ
and Chroma do what the models say of them is part of the models, not proved.

Only model-checked: liveness and everything about ENABLED (out of the prover's reach). The
six findings are counterexamples, so they are TLC's.

## Not modelled

Most of the repository's lines have no behaviour of several steps: pages, generated
clients, the generators of harnesses, reference solutions, prompts, ranking and evaluation. What
has been left out otherwise:

* Limits that count and then insert in two queries (active share links, open invites,
  proctoring events): requests of one user at the same moment may pass one by a few, and
  nothing else depends on it. They are listed as a hazard without a property.
* Accounts: one row, one UPDATE per change, and a version checked on every request.
  Share links: opened and counted in one UPDATE. Rate limiting: counters in a library.
* The code runner's containers: one per run, shared with nobody, removed in a `finally`
  block. A failed removal is swallowed and leaves a container behind; nothing retries it.
* Problems, paths, the daily challenge, complexity: reads, numeric fits and upserts of one row.
* Of modelled components: stored preferences of an interview, streaming's framing, the Elo
  arithmetic, creating an assessment or an invite (one query or one transaction each), the
  semantic tier of the retrieval cache (off as shipped), the WebRTC media themselves.
* A Redis that restarts empty (`docker-compose.prod.yml:64` persists nothing) starts its
  generation again from zero; entries are lost with it, so nothing stale is found, but a
  result computed before the restart can be stored under a generation that is reached again.

What would come next: the limiter in memory beside the one in Redis as two implementations
of one specification, and several problems in an assessment.

----------------------------- MODULE Submissions ----------------------------
(***************************************************************************)
(* What a Submit writes: the transaction of executeCode in                 *)
(* backend/src/services/submissions.service.ts, with the review queue      *)
(* (review.service.ts) and the ratings (elo.service.ts) it updates, beside *)
(* the requests that add, remove and view hints outside it.                *)
(*                                                                         *)
(* Transactions run at PostgreSQL's READ COMMITTED: each statement sees    *)
(* the rows committed when it runs and the transaction's own writes, a     *)
(* statement waits for the rows another transaction has locked, and        *)
(* nothing is released before COMMIT or ROLLBACK.  Every statement that    *)
(* may wait, or whose result another transaction can change, is an action. *)
(*                                                                         *)
(* A Submit's problem is judged before its transaction begins: whether it  *)
(* passed is any value.  Code, languages and timings are left out, and of  *)
(* the ratings only the number of games each counts is kept.               *)
(***************************************************************************)
EXTENDS Sm2, FiniteSets

CONSTANTS
    Submits,        \* Submit requests
    Users,
    Problems,
    Outcomes,       \* verdicts the code runner may give: passed or not
    NoItem,         \* the problem is not in the user's review queue
    LastDay,        \* bound: the last day
    MaxEdits,       \* bound: hint views and changes of the queue by hand
    HintCount       \* hints each problem has

Pairs == Users \X Problems

ASSUME SubmissionsAssumption ==
    /\ Outcomes \subseteq BOOLEAN
    /\ LastDay \in Nat
    /\ MaxEdits \in Nat
    /\ HintCount \in Nat
    /\ IsFiniteSet(Submits)

VARIABLES
    day,            \* today's UTC day
    clock,          \* per pair, the last timestamp the database gave it
    items,          \* review_items
    hints,          \* problem_hint_views: hints shown, and when last
    progress,       \* user_path_progress: completed problems
    games,          \* rated_games
    userGames,      \* games counted in a user's ratings
    problemGames,   \* games counted in a problem's rating
    tx,             \* each Submit and its transaction
    held,           \* the locks each transaction holds
    edits           \* hint views and manual changes so far

vars == <<day, clock, items, hints, progress, games, userGames, problemGames, tx, held, edits>>

------------------------------------------------------------------------------
(* Row locks *)

UserRow(u) == <<"user", u>>
PathKey(pair) == <<"path", pair>>
ItemRow(pair) == <<"item", pair>>
ProblemRating(p) == <<"rating", p>>
GameKey(pair) == <<"game", pair>>

\* PostgreSQL's conflicts between the row locks the code takes.  A row inserted
\* by a transaction that is still open keeps others from inserting its key, like
\* an "update" lock on it.
Conflict(m, n) ==
    \/ m = "update"
    \/ n = "update"
    \/ m = "no_key_update" /\ n = "no_key_update"

\* The transactions that keep t from locking this row in this mode.
Blockers(t, row, mode) ==
    {s \in Submits \ {t} : \E lock \in held[s] : lock[1] = row /\ Conflict(mode, lock[2])}

Free(t, row, mode) == Blockers(t, row, mode) = {}

Take(t, row, mode) ==
    /\ Free(t, row, mode)
    /\ held' = [held EXCEPT ![t] = @ \cup {<<row, mode>>}]

\* A single statement outside any transaction waits for the row and is done.
RowUnlocked(row) == \A s \in Submits : <<row, "update">> \notin held[s]

------------------------------------------------------------------------------
(* The Submit's transaction *)

\* A Submit that has read and written nothing beyond its own row.
Fresh(at, pair, passed, begun, today) ==
    [at |-> at, pair |-> pair, passed |-> passed, begun |-> begun, today |-> today,
     found |-> NoItem, counted |-> {}, quality |-> FailedQuality, write |-> NoItem,
     told |-> "nothing", before |-> <<0, 0>>, rated |-> FALSE]

Idle == Fresh("idle", <<>>, FALSE, 0, 0)

Finished == {"idle", "committed", "rolled_back"}

Init ==
    /\ day = 0
    /\ clock = [pair \in Pairs |-> 0]
    /\ items = [pair \in Pairs |-> NoItem]
    /\ hints = [pair \in Pairs |-> [shown |-> 0, viewed |-> 0]]
    /\ progress = {}
    /\ games = {}
    /\ userGames = [u \in Users |-> 0]
    /\ problemGames = [p \in Problems |-> 0]
    /\ tx = [t \in Submits |-> Idle]
    /\ held = [t \in Submits |-> {}]
    /\ edits = 0

\* The committed submissions of a user and problem.
Submitted(pair) == {t \in Submits : tx[t].at = "committed" /\ tx[t].pair = pair}

Tick(pair) == clock' = [clock EXCEPT ![pair] = @ + 1]

\* BEGIN and insertSubmission, stamped with the transaction's start; the foreign
\* key takes a KEY SHARE lock on the user's row.  recordSubmission reads today's
\* date before it asks for the item.
Begin(t, pair, passed) ==
    /\ tx[t].at = "idle"
    /\ Take(t, UserRow(pair[1]), "key_share")
    /\ Tick(pair)
    /\ tx' = [tx EXCEPT ![t] = Fresh(IF passed THEN "inserted" ELSE "completed",
                                     pair, passed, clock'[pair], day)]
    /\ UNCHANGED <<day, items, hints, progress, games, userGames, problemGames, edits>>

\* Mutant: the completion is written on another connection, outside the transaction.
MutantMarkCompletedOutside(t) ==
    /\ tx[t].at = "inserted"
    /\ tx[t].pair \notin progress
    /\ progress' = progress \cup {tx[t].pair}
    /\ tx' = [tx EXCEPT ![t] = [@ EXCEPT !.at = "completed", !.today = day]]
    /\ UNCHANGED <<day, clock, items, hints, games, userGames, problemGames, held, edits>>

\* markCompletedInEveryPath, after a pass: it waits for another completion of the
\* problem that is not committed yet.
MarkCompleted(t) ==
    /\ tx[t].at = "inserted"
    /\ tx[t].pair \notin progress
    /\ Take(t, PathKey(tx[t].pair), "update")
    /\ tx' = [tx EXCEPT ![t] = [@ EXCEPT !.at = "completed", !.today = day]]
    /\ UNCHANGED <<day, clock, items, hints, progress, games, userGames, problemGames, edits>>

\* The problem was completed before: nothing is inserted.
AlreadyCompleted(t) ==
    /\ tx[t].at = "inserted"
    /\ tx[t].pair \in progress
    /\ tx' = [tx EXCEPT ![t] = [@ EXCEPT !.at = "completed", !.today = day]]
    /\ UNCHANGED <<day, clock, items, hints, progress, games, userGames, problemGames, held, edits>>

\* Mutant: the item is read without FOR UPDATE.
MutantReadItemUnlocked(t) == UNCHANGED held

LockItem(t) == Take(t, ItemRow(tx[t].pair), "update")

\* Mutant: a pass is graded whenever it comes.
MutantAlwaysDue(t, item) == TRUE

\* A failure is graded always, a pass once the item is due.
IsGraded(t, item) == ~tx[t].passed \/ item.due <= tx[t].today

Review(t) == IF tx[t].passed THEN "assessing" ELSE "grading"

\* findItemForUpdate finds nothing.  A row another transaction has inserted and not
\* committed is not seen and not waited for.
FindNothing(t) ==
    /\ tx[t].at = "completed"
    /\ items[tx[t].pair] = NoItem
    /\ tx' = [tx EXCEPT ![t].at = Review(t)]
    /\ UNCHANGED <<day, clock, items, hints, progress, games, userGames, problemGames, held, edits>>

\* findItemForUpdate finds the item, locks it, and it is to be graded.
FindItem(t) ==
    /\ tx[t].at = "completed"
    /\ items[tx[t].pair] # NoItem
    /\ IsGraded(t, items[tx[t].pair])
    /\ LockItem(t)
    /\ tx' = [tx EXCEPT ![t] = [@ EXCEPT !.at = Review(t), !.found = items[tx[t].pair]]]
    /\ UNCHANGED <<day, clock, items, hints, progress, games, userGames, problemGames, edits>>

\* It finds an item that is not due: solving it early is practice.
LeaveItem(t) ==
    /\ tx[t].at = "completed"
    /\ items[tx[t].pair] # NoItem
    /\ ~IsGraded(t, items[tx[t].pair])
    /\ LockItem(t)
    /\ tx' = [tx EXCEPT ![t] = [@ EXCEPT !.at = "reviewed", !.told = "unchanged",
                                         !.found = items[tx[t].pair]]]
    /\ UNCHANGED <<day, clock, items, hints, progress, games, userGames, problemGames, edits>>

\* The last review, or when the item was added; nothing before the first.
Since(item) ==
    IF item = NoItem THEN 0 ELSE IF item.reviewed = 0 THEN item.created ELSE item.reviewed

\* failuresSince: committed failed attempts begun after that.
FailuresSince(pair, since) == {s \in Submitted(pair) : ~tx[s].passed /\ tx[s].begun > since}

\* hintedSince
HintedSince(pair, since) == hints[pair].viewed > since

\* The two reads a pass is graded by.  A clean first pass is not enrolled.
Assess(t) ==
    /\ tx[t].at = "assessing"
    /\ LET since == Since(tx[t].found)
           failures == FailuresSince(tx[t].pair, since)
           hinted == HintedSince(tx[t].pair, since)
           clean == tx[t].found = NoItem /\ failures = {} /\ ~hinted
       IN  tx' = [tx EXCEPT ![t] = [@ EXCEPT
                     !.at = IF clean THEN "reviewed" ELSE "grading",
                     !.counted = failures,
                     !.quality = PassQuality(Cardinality(failures), hinted)]]
    /\ UNCHANGED <<day, clock, items, hints, progress, games, userGames, problemGames, held, edits>>

\* Mutant: last_reviewed_at is NOW(), when the transaction began.
MutantReviewedAtBegin(t) == tx[t].begun

\* last_reviewed_at: clock_timestamp(), when the row is written.
ReviewedAt(t) == clock'[tx[t].pair]

\* The graded item; an item just enrolled is created when its transaction began.
Graded(t, state, created) ==
    [sm2 |-> state, due |-> tx[t].today + state.interval, reviewed |-> ReviewedAt(t),
     created |-> created]

\* updateItem
UpdateItem(t) ==
    /\ tx[t].at = "grading"
    /\ tx[t].found # NoItem
    /\ Tick(tx[t].pair)
    /\ \E state \in AfterReview(tx[t].found.sm2, tx[t].quality) :
          tx' = [tx EXCEPT ![t] = [@ EXCEPT
                    !.at = "reviewed",
                    !.write = Graded(t, state, tx[t].found.created),
                    !.told = IF tx[t].passed THEN "reviewed" ELSE "lapsed"]]
    /\ UNCHANGED <<day, items, hints, progress, games, userGames, problemGames, held, edits>>

\* insertItem, ON CONFLICT DO NOTHING: it waits for an insertion of the item that
\* is not committed yet.
InsertItem(t) ==
    /\ tx[t].at = "grading"
    /\ tx[t].found = NoItem
    /\ items[tx[t].pair] = NoItem
    /\ Take(t, ItemRow(tx[t].pair), "update")
    /\ Tick(tx[t].pair)
    /\ \E state \in AfterReview(InitialState, tx[t].quality) :
          tx' = [tx EXCEPT ![t] = [@ EXCEPT !.at = "reviewed", !.told = "enrolled",
                                           !.write = Graded(t, state, tx[t].begun)]]
    /\ UNCHANGED <<day, items, hints, progress, games, userGames, problemGames, edits>>

\* The item has appeared meanwhile: nothing is inserted, and the answer says
\* "enrolled" all the same.
InsertNothing(t) ==
    /\ tx[t].at = "grading"
    /\ tx[t].found = NoItem
    /\ items[tx[t].pair] # NoItem
    /\ tx' = [tx EXCEPT ![t] = [@ EXCEPT !.at = "reviewed", !.told = "enrolled"]]
    /\ UNCHANGED <<day, clock, items, hints, progress, games, userGames, problemGames, held, edits>>

------------------------------------------------------------------------------
(* The rated game *)

\* countSubmissions: this Submit and the committed ones.
CountSubmissions(t) ==
    /\ tx[t].at = "reviewed"
    /\ tx' = [tx EXCEPT ![t].at = IF Submitted(tx[t].pair) = {} THEN "first" ELSE "done"]
    /\ UNCHANGED <<day, clock, items, hints, progress, games, userGames, problemGames, held, edits>>

\* Mutant: FOR UPDATE, which conflicts with the KEY SHARE of other Submits.
MutantUserForUpdate == "update"

UserLockMode == "no_key_update"

\* lockUserRatings: the user's row, then the ratings.
LockUser(t) ==
    /\ tx[t].at = "first"
    /\ Take(t, UserRow(tx[t].pair[1]), UserLockMode)
    /\ tx' = [tx EXCEPT ![t] = [@ EXCEPT !.at = "user_locked",
                                         !.before = <<userGames[tx[t].pair[1]], 0>>]]
    /\ UNCHANGED <<day, clock, items, hints, progress, games, userGames, problemGames, edits>>

\* Mutant: SELECT without FOR UPDATE.
MutantProblemUnlocked(t) == UNCHANGED held

TakeProblemRating(t) == Take(t, ProblemRating(tx[t].pair[2]), "update")

\* lockProblemRating: the row is created if need be, then locked and read.
LockProblem(t) ==
    /\ tx[t].at = "user_locked"
    /\ TakeProblemRating(t)
    /\ tx' = [tx EXCEPT ![t] = [@ EXCEPT !.at = "both_locked",
                                         !.before = <<tx[t].before[1], problemGames[tx[t].pair[2]]>>]]
    /\ UNCHANGED <<day, clock, items, hints, progress, games, userGames, problemGames, edits>>

GameOf(pair) == {g \in games : tx[g].pair = pair}

\* Mutant: the claim is not looked at (ON CONFLICT DO UPDATE).
MutantClaimIgnored(pair) == TRUE

Unclaimed(pair) == GameOf(pair) = {}

\* claimRatedGame: the winner saves both ratings, counting one game more than it
\* read.
ClaimGame(t) ==
    /\ tx[t].at = "both_locked"
    /\ Unclaimed(tx[t].pair)
    /\ Take(t, GameKey(tx[t].pair), "update")
    /\ tx' = [tx EXCEPT ![t] = [@ EXCEPT !.at = "done", !.rated = TRUE]]
    /\ UNCHANGED <<day, clock, items, hints, progress, games, userGames, problemGames, edits>>

\* ON CONFLICT DO NOTHING: the loser of the race saves nothing.
LoseGame(t) ==
    /\ tx[t].at = "both_locked"
    /\ ~Unclaimed(tx[t].pair)
    /\ tx' = [tx EXCEPT ![t].at = "done"]
    /\ UNCHANGED <<day, clock, items, hints, progress, games, userGames, problemGames, held, edits>>

------------------------------------------------------------------------------
(* The end of the transaction, and everything outside it *)

\* What is kept of a committed Submit: its row, and, as ghosts, what it graded.
Kept(my) ==
    [Fresh("committed", my.pair, my.passed, my.begun, 0) EXCEPT
        !.counted = my.counted, !.write = my.write, !.told = my.told]

\* COMMIT: all its writes appear, all its locks go.
Commit(t) ==
    LET my == tx[t]
        user == my.pair[1]
        problem == my.pair[2]
    IN  /\ my.at = "done"
        /\ items' = IF my.write = NoItem THEN items ELSE [items EXCEPT ![my.pair] = my.write]
        /\ progress' = IF my.passed THEN progress \cup {my.pair} ELSE progress
        /\ games' = IF my.rated THEN games \cup {t} ELSE games
        /\ userGames' = IF my.rated THEN [userGames EXCEPT ![user] = my.before[1] + 1]
                        ELSE userGames
        /\ problemGames' = IF my.rated THEN [problemGames EXCEPT ![problem] = my.before[2] + 1]
                           ELSE problemGames
        /\ tx' = [tx EXCEPT ![t] = Kept(my)]
        /\ held' = [held EXCEPT ![t] = {}]
        /\ UNCHANGED <<day, clock, hints, edits>>

\* A statement fails, or the server stops: ROLLBACK.
Rollback(t) ==
    /\ tx[t].at \notin Finished
    /\ tx' = [tx EXCEPT ![t] = [Idle EXCEPT !.at = "rolled_back"]]
    /\ held' = [held EXCEPT ![t] = {}]
    /\ UNCHANGED <<day, clock, items, hints, progress, games, userGames, problemGames, edits>>

Edit == edits < MaxEdits /\ edits' = edits + 1

\* addToQueue: due today, with SM-2's starting state; nothing if it is queued.
AddToQueue(pair) ==
    /\ Edit
    /\ items[pair] = NoItem
    /\ RowUnlocked(ItemRow(pair))
    /\ Tick(pair)
    /\ items' = [items EXCEPT ![pair] =
                    [sm2 |-> InitialState, due |-> day, reviewed |-> 0, created |-> clock'[pair]]]
    /\ UNCHANGED <<day, hints, progress, games, userGames, problemGames, tx, held>>

\* removeFromQueue
RemoveFromQueue(pair) ==
    /\ Edit
    /\ items[pair] # NoItem
    /\ RowUnlocked(ItemRow(pair))
    /\ items' = [items EXCEPT ![pair] = NoItem]
    /\ UNCHANGED <<day, clock, hints, progress, games, userGames, problemGames, tx, held>>

\* recordHintViews: the number shown never decreases, and only a new hint counts
\* as a view.
ViewHints(pair, shown) ==
    /\ Edit
    /\ shown > hints[pair].shown
    /\ Tick(pair)
    /\ hints' = [hints EXCEPT ![pair] = [shown |-> shown, viewed |-> clock'[pair]]]
    /\ UNCHANGED <<day, items, progress, games, userGames, problemGames, tx, held>>

NextDay ==
    /\ day < LastDay
    /\ day' = day + 1
    /\ UNCHANGED <<clock, items, hints, progress, games, userGames, problemGames, tx, held, edits>>

Complete(t) == MarkCompleted(t) \/ AlreadyCompleted(t)

RecordSubmission(t) ==
    \/ FindNothing(t)
    \/ FindItem(t)
    \/ LeaveItem(t)
    \/ Assess(t)
    \/ UpdateItem(t)
    \/ InsertItem(t)
    \/ InsertNothing(t)

RecordRatedGame(t) ==
    \/ CountSubmissions(t)
    \/ LockUser(t)
    \/ LockProblem(t)
    \/ ClaimGame(t)
    \/ LoseGame(t)

Next ==
    \/ \E t \in Submits, pair \in Pairs, passed \in Outcomes : Begin(t, pair, passed)
    \/ \E t \in Submits : Complete(t)
    \/ \E t \in Submits : RecordSubmission(t)
    \/ \E t \in Submits : RecordRatedGame(t)
    \/ \E t \in Submits : Commit(t)
    \/ \E t \in Submits : Rollback(t)
    \/ \E pair \in Pairs : AddToQueue(pair)
    \/ \E pair \in Pairs : RemoveFromQueue(pair)
    \/ \E pair \in Pairs, shown \in 1 .. HintCount : ViewHints(pair, shown)
    \/ NextDay

Spec == Init /\ [][Next]_vars

------------------------------------------------------------------------------
(* Types *)

States == {"idle", "inserted", "completed", "assessing", "grading", "reviewed", "first",
           "user_locked", "both_locked", "done", "committed", "rolled_back"}

Sm2States ==
    [ease : {e \in Nat : e >= MinEase}, interval : Nat, repetitions : Nat, lapses : Nat]

ReviewItems == [sm2 : Sm2States, due : Nat, reviewed : Nat, created : Nat]

Transactions ==
    [at : States, pair : Pairs \cup {<<>>}, passed : BOOLEAN, begun : Nat, today : 0 .. LastDay,
     found : ReviewItems \cup {NoItem}, counted : SUBSET Submits, quality : 1 .. 5,
     write : ReviewItems \cup {NoItem},
     told : {"nothing", "unchanged", "enrolled", "reviewed", "lapsed"},
     before : Nat \X Nat, rated : BOOLEAN]

Rows ==
    {UserRow(u) : u \in Users} \cup {PathKey(pair) : pair \in Pairs}
        \cup {ItemRow(pair) : pair \in Pairs} \cup {ProblemRating(p) : p \in Problems}
        \cup {GameKey(pair) : pair \in Pairs}

Locks == Rows \X {"key_share", "no_key_update", "update"}

\* Every variable has its type; in particular every stored item satisfies the
\* CHECKs of its table, an ease factor of at least 1.3 (017_learning_features.sql).
TypeOK ==
    /\ day \in 0 .. LastDay
    /\ clock \in [Pairs -> Nat]
    /\ items \in [Pairs -> ReviewItems \cup {NoItem}]
    /\ hints \in [Pairs -> [shown : 0 .. HintCount, viewed : Nat]]
    /\ progress \subseteq Pairs
    /\ games \subseteq Submits
    /\ userGames \in [Users -> Nat]
    /\ problemGames \in [Problems -> Nat]
    /\ tx \in [Submits -> Transactions]
    /\ held \in [Submits -> SUBSET Locks]
    /\ edits \in 0 .. MaxEdits

------------------------------------------------------------------------------
(* Safety *)

\* t's next statement waits for a lock of s.
WaitsFor(t, s) ==
    LET pair == tx[t].pair
    IN  \/ /\ tx[t].at = "inserted"
           /\ pair \notin progress
           /\ s \in Blockers(t, PathKey(pair), "update")
        \/ /\ tx[t].at = "completed"
           /\ items[pair] # NoItem
           /\ s \in Blockers(t, ItemRow(pair), "update")
        \/ /\ tx[t].at = "grading"
           /\ tx[t].found = NoItem
           /\ items[pair] = NoItem
           /\ s \in Blockers(t, ItemRow(pair), "update")
        \/ /\ tx[t].at = "first"
           /\ s \in Blockers(t, UserRow(pair[1]), UserLockMode)
        \/ /\ tx[t].at = "user_locked"
           /\ s \in Blockers(t, ProblemRating(pair[2]), "update")
        \/ /\ tx[t].at = "both_locked"
           /\ Unclaimed(pair)
           /\ s \in Blockers(t, GameKey(pair), "update")

\* No Submits ever wait for each other in a circle, although each takes a share of
\* the user's row before the item and the whole of it after (D-077: with FOR
\* UPDATE two racing first Submits deadlocked).
NeverDeadlocked ==
    ~ \E circle \in SUBSET Submits :
        /\ circle # {}
        /\ \A t \in circle : \E s \in circle : WaitsFor(t, s)

\* A user's Submits of a problem are one rated game, however many race to be the
\* first and whichever of them are rolled back: never two, and never none.
RatedOnce ==
    \A pair \in Pairs :
        Cardinality(GameOf(pair)) = IF Submitted(pair) = {} THEN 0 ELSE 1

\* Every rated game is counted in its user's ratings and in its problem's, once:
\* two games of one user, or on one problem, never start from the same ratings.
RatingsKept ==
    /\ \A u \in Users : userGames[u] = Cardinality({g \in games : tx[g].pair[1] = u})
    /\ \A p \in Problems : problemGames[p] = Cardinality({g \in games : tx[g].pair[2] = p})

\* Submits complete a problem in the user's paths exactly when a passing one of them
\* is stored, even if it was rolled back after it had marked it (D-057: the
\* submission and the progress land together).
PathsFollowSubmissions ==
    progress = {tx[t].pair : t \in {s \in Submits : tx[s].at = "committed" /\ tx[s].passed}}

\* A grading replaces exactly the item it was computed from: none that was
\* committed in between is overwritten (the FOR UPDATE of findItemForUpdate).
GradingsKept ==
    [][\A t \in Submits : Commit(t) /\ tx[t].write # NoItem =>
        items[tx[t].pair] = tx[t].found]_vars

\* Two passes racing over a due item grade it once: a pass changes a queued item
\* only if it is due, as it stands when the change lands.
PassGradedWhenDue ==
    [][\A t \in Submits : Commit(t) /\ tx[t].passed /\ items[tx[t].pair] # NoItem =>
        \/ items'[tx[t].pair] = items[tx[t].pair]
        \/ items[tx[t].pair].due <= day]_vars

\* A failed attempt that was graded as a lapse is not held against a later pass as
\* well, in whatever order the attempts began, waited and were written.
FailureGradedOnce ==
    \A t \in Submits : tx[t].at = "committed" /\ tx[t].told = "reviewed" =>
        \A s \in tx[t].counted : tx[s].write = NoItem

Lapses(item) == IF item = NoItem THEN 0 ELSE item.sm2.lapses

\* "A failure always counts as a lapse" (review.service.ts).
FailureCountsAsLapse ==
    [][\A t \in Submits : Commit(t) /\ ~tx[t].passed =>
        Lapses(items'[tx[t].pair]) = Lapses(items[tx[t].pair]) + 1]_vars
=============================================================================

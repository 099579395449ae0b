------------------------- MODULE SubmissionsProofs --------------------------
(***************************************************************************)
(* Theorems about Submissions, for any numbers of Submits, users and       *)
(* problems: its type, no circle of waits, paths that follow the stored    *)
(* submissions, one rated game for each user and problem, and ratings      *)
(* that count every one of them.                                           *)
(***************************************************************************)
EXTENDS Submissions, FiniteSetTheorems, TLAPS

------------------------------------------------------------------------------
(* Types *)

LEMMA ReviewType ==
    ASSUME NEW state \in Sm2States, NEW quality \in 1 .. 5,
           NEW next \in AfterReview(state, quality)
    PROVE  next \in Sm2States
<1> DEFINE ease == NewEase(state.ease, quality)
<1>1. state.ease \in Nat /\ state.interval \in Nat /\ state.repetitions \in Nat
      /\ state.lapses \in Nat
  BY DEF Sm2States
<1>2. ease \in {e \in Nat : e >= MinEase}
  <2> DEFINE miss == 5 - quality
             moved == state.ease + 100 - miss * (80 + 20 * miss)
  <2>1. moved \in Int
    BY <1>1
  <2>2. ease = IF moved < MinEase THEN MinEase ELSE moved
    BY DEF NewEase
  <2> HIDE DEF moved
  <2> QED
    BY <2>1, <2>2 DEF MinEase
<1> HIDE DEF ease
<1>3. Lapse(state, ease) \in Sm2States
  BY <1>1, <1>2 DEF Lapse, Sm2States
<1>4. ASSUME NEW i \in NewIntervals(state, ease)
      PROVE  Recall(state, ease, i) \in Sm2States
  <2>1. i \in Nat
    <3> DEFINE product == state.interval * ease
    <3>1. product \in Nat
      BY <1>1, <1>2
    <3>2. i = 1 \/ i = 6 \/ i = (product + 499) \div 1000 \/ i = (product + 500) \div 1000
      BY DEF NewIntervals, Product
    <3> HIDE DEF product
    <3> QED
      BY <3>1, <3>2
  <2> QED
    BY <1>1, <1>2, <2>1 DEF Recall, Sm2States
<1>5. next = Lapse(state, ease)
      \/ \E i \in NewIntervals(state, ease) : next = Recall(state, ease, i)
  BY DEF AfterReview, ease
<1> QED
  BY <1>3, <1>4, <1>5

LEMMA FreshType ==
    ASSUME NEW at \in States, NEW pair \in Pairs \cup {<<>>}, NEW passed \in BOOLEAN,
           NEW begun \in Nat, NEW today \in 0 .. LastDay
    PROVE  /\ Fresh(at, pair, passed, begun, today) \in Transactions
           /\ Fresh(at, pair, passed, begun, today).at = at
           /\ Fresh(at, pair, passed, begun, today).pair = pair
BY DEF Fresh, Transactions, FailedQuality

LEMMA IdleType == Idle \in Transactions /\ Idle.at = "idle"
BY SubmissionsAssumption DEF Idle, Fresh, Transactions, States, FailedQuality

LEMMA TypeInit == Init => TypeOK
<1> SUFFICES ASSUME Init PROVE TypeOK
  OBVIOUS
<1>1. tx \in [Submits -> Transactions]
  BY IdleType DEF Init
<1> QED
  BY <1>1, SubmissionsAssumption DEF Init, TypeOK

\* The transaction is still of its type after each of the changes an action makes.
LEMMA TxFields ==
    ASSUME NEW r \in Transactions
    PROVE  /\ r.at \in States
           /\ r.pair \in Pairs \cup {<<>>}
           /\ r.passed \in BOOLEAN
           /\ r.begun \in Nat
           /\ r.today \in 0 .. LastDay
           /\ r.found \in ReviewItems \cup {NoItem}
           /\ r.counted \in SUBSET Submits
           /\ r.quality \in 1 .. 5
           /\ r.write \in ReviewItems \cup {NoItem}
           /\ r.told \in {"nothing", "unchanged", "enrolled", "reviewed", "lapsed"}
           /\ r.before \in Nat \X Nat
           /\ r.rated \in BOOLEAN
BY DEF Transactions

LEMMA TxMove ==
    ASSUME NEW r \in Transactions, NEW at \in States
    PROVE  [r EXCEPT !.at = at] \in Transactions
BY DEF Transactions

LEMMA TxComplete ==
    ASSUME NEW r \in Transactions, NEW at \in States, NEW today \in 0 .. LastDay
    PROVE  [r EXCEPT !.at = at, !.today = today] \in Transactions
BY DEF Transactions

LEMMA TxFind ==
    ASSUME NEW r \in Transactions, NEW at \in States, NEW item \in ReviewItems \cup {NoItem}
    PROVE  [r EXCEPT !.at = at, !.found = item] \in Transactions
BY DEF Transactions

LEMMA TxAssess ==
    ASSUME NEW r \in Transactions, NEW at \in States, NEW c \in SUBSET Submits, NEW q \in 1 .. 5
    PROVE  [r EXCEPT !.at = at, !.counted = c, !.quality = q] \in Transactions
BY DEF Transactions

LEMMA TxGrade ==
    ASSUME NEW r \in Transactions, NEW item \in ReviewItems,
           NEW told \in {"enrolled", "reviewed", "lapsed"}
    PROVE  /\ [r EXCEPT !.at = "reviewed", !.write = item, !.told = told] \in Transactions
           /\ [r EXCEPT !.at = "reviewed", !.told = told, !.write = item] \in Transactions
           /\ [r EXCEPT !.at = "reviewed", !.told = told] \in Transactions
<1>1. "reviewed" \in States
  BY DEF States
<1>2. [r EXCEPT !.at = "reviewed", !.write = item, !.told = told] \in Transactions
  BY <1>1 DEF Transactions
<1>3. [r EXCEPT !.at = "reviewed", !.told = told, !.write = item] \in Transactions
  BY <1>1 DEF Transactions
<1>4. [r EXCEPT !.at = "reviewed", !.told = told] \in Transactions
  BY <1>1 DEF Transactions
<1> QED
  BY <1>2, <1>3, <1>4

LEMMA TxLeave ==
    ASSUME NEW r \in Transactions, NEW item \in ReviewItems \cup {NoItem}
    PROVE  [r EXCEPT !.at = "reviewed", !.told = "unchanged", !.found = item] \in Transactions
BY DEF Transactions, States

LEMMA TxLock ==
    ASSUME NEW r \in Transactions, NEW at \in States, NEW before \in Nat \X Nat
    PROVE  [r EXCEPT !.at = at, !.before = before] \in Transactions
BY DEF Transactions

LEMMA TxClaim ==
    ASSUME NEW r \in Transactions
    PROVE  [r EXCEPT !.at = "done", !.rated = TRUE] \in Transactions
BY DEF Transactions, States

LEMMA TxKept ==
    ASSUME NEW r \in Transactions
    PROVE  /\ Kept(r) \in Transactions
           /\ Kept(r).at = "committed"
           /\ Kept(r).pair = r.pair
           /\ Kept(r).passed = r.passed
<1> DEFINE fresh == Fresh("committed", r.pair, r.passed, r.begun, 0)
<1>1. fresh \in Transactions /\ fresh.at = "committed" /\ fresh.pair = r.pair
  <2>1. "committed" \in States /\ 0 \in 0 .. LastDay
    BY SubmissionsAssumption DEF States
  <2>2. r.pair \in Pairs \cup {<<>>} /\ r.passed \in BOOLEAN /\ r.begun \in Nat
    BY TxFields
  <2> QED
    BY ONLY <2>1, <2>2, FreshType
<1>2. fresh.passed = r.passed
  BY DEF Fresh
<1>3. Kept(r) = [fresh EXCEPT !.counted = r.counted, !.write = r.write, !.told = r.told]
  BY DEF Kept
<1>4. /\ r.counted \in SUBSET Submits
      /\ r.write \in ReviewItems \cup {NoItem}
      /\ r.told \in {"nothing", "unchanged", "enrolled", "reviewed", "lapsed"}
  BY TxFields
<1> HIDE DEF fresh
<1> QED
  BY <1>1, <1>2, <1>3, <1>4 DEF Transactions

\* A Submit that has begun names its user and problem.
PairKnown ==
    \A t \in Submits : tx[t].at \notin {"idle", "rolled_back"} => tx[t].pair \in Pairs

TypeInv == TypeOK /\ PairKnown

\* What an action leaves of the transactions' types: it gives t the record r.
LEMMA TxSet ==
    ASSUME TypeInv, NEW t \in Submits, NEW r \in Transactions,
           r.at \notin {"idle", "rolled_back"} => r.pair \in Pairs,
           tx' = [tx EXCEPT ![t] = r]
    PROVE  /\ tx' \in [Submits -> Transactions]
           /\ PairKnown'
           /\ tx'[t] = r
           /\ \A s \in Submits \ {t} : tx'[s] = tx[s]
<1>1. tx \in [Submits -> Transactions]
  BY DEF TypeInv, TypeOK
<1>2. tx'[t] = r /\ \A s \in Submits \ {t} : tx'[s] = tx[s]
  BY <1>1
<1>3. PairKnown'
  BY <1>2 DEF TypeInv, PairKnown
<1> QED
  BY <1>1, <1>2, <1>3

LEMMA RowTypes ==
    ASSUME NEW pair \in Pairs
    PROVE  /\ pair[1] \in Users
           /\ pair[2] \in Problems
           /\ UserRow(pair[1]) \in Rows
           /\ PathKey(pair) \in Rows
           /\ ItemRow(pair) \in Rows
           /\ ProblemRating(pair[2]) \in Rows
           /\ GameKey(pair) \in Rows
BY DEF Pairs, Rows

LEMMA TakeType ==
    ASSUME TypeInv, NEW t \in Submits, NEW row \in Rows,
           NEW mode \in {"key_share", "no_key_update", "update"}, Take(t, row, mode)
    PROVE  held' \in [Submits -> SUBSET Locks]
<1>1. held \in [Submits -> SUBSET Locks]
  BY DEF TypeInv, TypeOK
<1>2. <<row, mode>> \in Locks
  BY DEF Locks
<1>3. held' = [held EXCEPT ![t] = held[t] \cup {<<row, mode>>}]
  BY DEF Take
<1>4. held[t] \cup {<<row, mode>>} \in SUBSET Locks
  BY <1>1, <1>2
<1> QED
  BY <1>1, <1>3, <1>4

LEMMA TickType ==
    ASSUME TypeInv, NEW pair \in Pairs, Tick(pair)
    PROVE  /\ clock' \in [Pairs -> Nat]
           /\ clock'[pair] = clock[pair] + 1
           /\ \A other \in Pairs : clock'[other] >= clock[other]
BY DEF TypeInv, TypeOK, Tick

LEMMA BeginType ==
    ASSUME TypeInv, NEW t \in Submits, NEW pair \in Pairs, NEW passed \in Outcomes,
           Begin(t, pair, passed)
    PROVE  TypeInv'
<1> DEFINE r == Fresh(IF passed THEN "inserted" ELSE "completed",
                      pair, passed, clock'[pair], day)
<1>1. held' \in [Submits -> SUBSET Locks]
  BY TakeType, RowTypes DEF Begin
<1>2. clock' \in [Pairs -> Nat] /\ clock'[pair] \in Nat
  BY TickType DEF Begin
<1>3. r \in Transactions /\ r.pair = pair
  <2>1. passed \in BOOLEAN /\ day \in 0 .. LastDay
    BY SubmissionsAssumption DEF TypeInv, TypeOK
  <2>2. (IF passed THEN "inserted" ELSE "completed") \in States
    BY DEF States
  <2> QED
    BY <1>2, <2>1, <2>2, FreshType
<1>4. tx' = [tx EXCEPT ![t] = r]
  BY DEF Begin
<1> HIDE DEF r
<1>5. tx' \in [Submits -> Transactions] /\ PairKnown'
  BY <1>3, <1>4, TxSet
<1> QED
  BY <1>1, <1>2, <1>5 DEF Begin, TypeInv, TypeOK

LEMMA CompleteType ==
    ASSUME TypeInv, NEW t \in Submits, Complete(t)
    PROVE  TypeInv'
<1> DEFINE r == [tx[t] EXCEPT !.at = "completed", !.today = day]
<1>1. tx[t] \in Transactions /\ day \in 0 .. LastDay
  BY DEF TypeInv, TypeOK
<1>2. tx[t].at = "inserted" /\ tx' = [tx EXCEPT ![t] = r]
  BY DEF Complete, MarkCompleted, AlreadyCompleted
<1>3. tx[t].pair \in Pairs
  BY <1>2 DEF TypeInv, PairKnown
<1>4. r \in Transactions
  BY <1>1, TxComplete DEF States
<1>5. r.pair = tx[t].pair
  BY <1>1 DEF Transactions
<1>6. held' \in [Submits -> SUBSET Locks]
  <2>1. CASE MarkCompleted(t)
    BY <2>1, <1>3, RowTypes, TakeType DEF MarkCompleted
  <2>2. CASE AlreadyCompleted(t)
    BY <2>2 DEF AlreadyCompleted, TypeInv, TypeOK
  <2> QED
    BY <2>1, <2>2 DEF Complete
<1> HIDE DEF r
<1>7. tx' \in [Submits -> Transactions] /\ PairKnown'
  BY <1>2, <1>3, <1>4, <1>5, TxSet
<1>8. UNCHANGED <<day, clock, items, hints, progress, games, userGames, problemGames, edits>>
  BY DEF Complete, MarkCompleted, AlreadyCompleted
<1> QED
  BY <1>6, <1>7, <1>8 DEF TypeInv, TypeOK

\* The actions of a Submit that change its record and take locks or stamps, but
\* leave the tables alone.
LEMMA StepType ==
    ASSUME TypeInv, NEW t \in Submits, NEW r \in Transactions,
           tx[t].pair \in Pairs, r.pair = tx[t].pair,
           tx' = [tx EXCEPT ![t] = r],
           held' \in [Submits -> SUBSET Locks],
           clock' \in [Pairs -> Nat],
           UNCHANGED <<day, items, hints, progress, games, userGames, problemGames, edits>>
    PROVE  TypeInv'
<1>1. tx' \in [Submits -> Transactions] /\ PairKnown'
  BY TxSet
<1> QED
  BY <1>1 DEF TypeInv, TypeOK

LEMMA MoveType ==
    ASSUME TypeInv, NEW t \in Submits, NEW at \in States, tx[t].pair \in Pairs,
           tx' = [tx EXCEPT ![t].at = at],
           UNCHANGED <<day, clock, items, hints, progress, games, userGames, problemGames, held,
                       edits>>
    PROVE  TypeInv'
<1> DEFINE r == [tx[t] EXCEPT !.at = at]
<1>1. tx[t] \in Transactions /\ held \in [Submits -> SUBSET Locks] /\ clock \in [Pairs -> Nat]
  BY DEF TypeInv, TypeOK
<1>2. r \in Transactions /\ r.pair = tx[t].pair
  BY <1>1, TxMove DEF Transactions
<1>3. tx' = [tx EXCEPT ![t] = r]
  BY <1>1
<1> HIDE DEF r
<1> QED
  BY <1>1, <1>2, <1>3, StepType

LEMMA InitialStateType == InitialState \in Sm2States
BY DEF InitialState, Sm2States, MinEase

LEMMA GradedType ==
    ASSUME NEW t \in Submits, NEW state \in Sm2States, NEW created \in Nat,
           tx[t] \in Transactions, tx[t].pair \in Pairs, clock' \in [Pairs -> Nat]
    PROVE  Graded(t, state, created) \in ReviewItems
<1>1. tx[t].today \in Nat
  BY TxFields, SubmissionsAssumption
<1>2. state.interval \in Nat
  BY DEF Sm2States
<1> QED
  BY <1>1, <1>2 DEF Graded, ReviewedAt, ReviewItems

LEMMA RecordSubmissionType ==
    ASSUME TypeInv, NEW t \in Submits, RecordSubmission(t)
    PROVE  TypeInv'
<1>1. /\ tx[t] \in Transactions
      /\ held \in [Submits -> SUBSET Locks]
      /\ clock \in [Pairs -> Nat]
      /\ items \in [Pairs -> ReviewItems \cup {NoItem}]
  BY DEF TypeInv, TypeOK
<1>2. tx[t].at \in {"completed", "assessing", "grading"}
  BY DEF RecordSubmission, FindNothing, FindItem, LeaveItem, Assess, UpdateItem, InsertItem,
         InsertNothing
<1>3. tx[t].pair \in Pairs
  BY <1>2 DEF TypeInv, PairKnown
<1>4. Review(t) \in States
  BY DEF Review, States
<1>5. ASSUME FindNothing(t) PROVE TypeInv'
  BY <1>3, <1>4, <1>5, MoveType DEF FindNothing
<1>6. ASSUME FindItem(t) PROVE TypeInv'
  <2> DEFINE r == [tx[t] EXCEPT !.at = Review(t), !.found = items[tx[t].pair]]
  <2>1. r \in Transactions /\ r.pair = tx[t].pair
    BY <1>1, <1>3, <1>4, TxFind DEF Transactions
  <2>2. held' \in [Submits -> SUBSET Locks]
    BY <1>3, <1>6, RowTypes, TakeType DEF FindItem, LockItem
  <2>3. tx' = [tx EXCEPT ![t] = r]
    BY <1>6 DEF FindItem
  <2> HIDE DEF r
  <2> QED
    BY <1>1, <1>3, <1>6, <2>1, <2>2, <2>3, StepType DEF FindItem
<1>7. ASSUME LeaveItem(t) PROVE TypeInv'
  <2> DEFINE r == [tx[t] EXCEPT !.at = "reviewed", !.told = "unchanged",
                                !.found = items[tx[t].pair]]
  <2>1. r \in Transactions /\ r.pair = tx[t].pair
    BY <1>1, <1>3, TxLeave DEF Transactions
  <2>2. held' \in [Submits -> SUBSET Locks]
    BY <1>3, <1>7, RowTypes, TakeType DEF LeaveItem, LockItem
  <2>3. tx' = [tx EXCEPT ![t] = r]
    BY <1>7 DEF LeaveItem
  <2> HIDE DEF r
  <2> QED
    BY <1>1, <1>3, <1>7, <2>1, <2>2, <2>3, StepType DEF LeaveItem
<1>8. ASSUME Assess(t) PROVE TypeInv'
  <2>1. PICK at \in {"reviewed", "grading"}, counted \in SUBSET Submits, hinted \in BOOLEAN :
          tx' = [tx EXCEPT ![t] = [tx[t] EXCEPT
                    !.at = at, !.counted = counted,
                    !.quality = PassQuality(Cardinality(counted), hinted)]]
    <3> DEFINE since == Since(tx[t].found)
               counted == FailuresSince(tx[t].pair, since)
               hinted == HintedSince(tx[t].pair, since)
               clean == tx[t].found = NoItem /\ counted = {} /\ ~hinted
               at == IF clean THEN "reviewed" ELSE "grading"
    <3>1. counted \in SUBSET Submits
      BY DEF FailuresSince, Submitted
    <3>2. hinted \in BOOLEAN
      BY DEF HintedSince
    <3>3. at \in {"reviewed", "grading"}
      OBVIOUS
    <3>4. tx' = [tx EXCEPT ![t] = [tx[t] EXCEPT
                    !.at = at, !.counted = counted,
                    !.quality = PassQuality(Cardinality(counted), hinted)]]
      BY <1>8 DEF Assess
    <3> HIDE DEF at, counted, hinted
    <3> QED
      BY <3>1, <3>2, <3>3, <3>4
  <2> DEFINE quality == PassQuality(Cardinality(counted), hinted)
             r == [tx[t] EXCEPT !.at = at, !.counted = counted, !.quality = quality]
  <2>2. quality \in 1 .. 5
    <3>1. Cardinality(counted) \in Nat
      BY SubmissionsAssumption, FS_Subset, FS_CardinalityType DEF SubmissionsAssumption
    <3> QED
      BY <3>1 DEF PassQuality
  <2> HIDE DEF quality
  <2>3. r \in Transactions /\ r.pair = tx[t].pair
    <3>1. at \in States
      BY DEF States
    <3> QED
      BY <1>1, <2>2, <3>1, TxAssess DEF Transactions
  <2>4. tx' = [tx EXCEPT ![t] = r]
    BY <2>1 DEF quality
  <2> HIDE DEF r
  <2> QED
    BY <1>1, <1>3, <1>8, <2>3, <2>4, StepType DEF Assess
<1>9. ASSUME UpdateItem(t) PROVE TypeInv'
  <2>1. clock' \in [Pairs -> Nat]
    BY <1>3, <1>9, TickType DEF UpdateItem
  <2>2. PICK state \in AfterReview(tx[t].found.sm2, tx[t].quality) :
          tx' = [tx EXCEPT ![t] = [tx[t] EXCEPT
                    !.at = "reviewed",
                    !.write = Graded(t, state, tx[t].found.created),
                    !.told = IF tx[t].passed THEN "reviewed" ELSE "lapsed"]]
    BY <1>9 DEF UpdateItem
  <2> DEFINE item == Graded(t, state, tx[t].found.created)
             told == IF tx[t].passed THEN "reviewed" ELSE "lapsed"
             r == [tx[t] EXCEPT !.at = "reviewed", !.write = item, !.told = told]
  <2>3. item \in ReviewItems
    <3>1. tx[t].found \in ReviewItems /\ tx[t].quality \in 1 .. 5
      BY <1>1, <1>9, TxFields DEF UpdateItem
    <3>2. tx[t].found.sm2 \in Sm2States /\ tx[t].found.created \in Nat
      BY <3>1 DEF ReviewItems
    <3>3. state \in Sm2States
      BY <2>2, <3>1, <3>2, ReviewType
    <3> QED
      BY <1>1, <1>3, <2>1, <3>2, <3>3, GradedType
  <2>4. told \in {"enrolled", "reviewed", "lapsed"}
    OBVIOUS
  <2>5. tx' = [tx EXCEPT ![t] = r]
    BY <2>2
  <2> HIDE DEF item, told
  <2>6. r \in Transactions /\ r.pair = tx[t].pair
    <3>1. r \in Transactions
      BY <1>1, <2>3, <2>4, TxGrade
    <3> QED
      BY <1>1, <3>1 DEF Transactions
  <2> HIDE DEF r
  <2> QED
    BY <1>1, <1>3, <1>9, <2>1, <2>5, <2>6, StepType DEF UpdateItem
<1>10. ASSUME InsertItem(t) PROVE TypeInv'
  <2>1. clock' \in [Pairs -> Nat] /\ held' \in [Submits -> SUBSET Locks]
    BY <1>3, <1>10, TickType, RowTypes, TakeType DEF InsertItem
  <2>2. PICK state \in AfterReview(InitialState, tx[t].quality) :
          tx' = [tx EXCEPT ![t] = [tx[t] EXCEPT
                    !.at = "reviewed", !.told = "enrolled",
                    !.write = Graded(t, state, tx[t].begun)]]
    BY <1>10 DEF InsertItem
  <2> DEFINE item == Graded(t, state, tx[t].begun)
             r == [tx[t] EXCEPT !.at = "reviewed", !.told = "enrolled", !.write = item]
  <2>3. item \in ReviewItems
    <3>1. tx[t].begun \in Nat /\ tx[t].quality \in 1 .. 5
      BY <1>1, TxFields
    <3>2. state \in Sm2States
      BY <2>2, <3>1, InitialStateType, ReviewType
    <3> QED
      BY <1>1, <1>3, <2>1, <3>1, <3>2, GradedType
  <2>4. tx' = [tx EXCEPT ![t] = r]
    BY <2>2
  <2> HIDE DEF item
  <2>5. r \in Transactions /\ r.pair = tx[t].pair
    <3>1. r \in Transactions
      BY <1>1, <2>3, TxGrade
    <3> QED
      BY <1>1, <3>1 DEF Transactions
  <2> HIDE DEF r
  <2> QED
    BY <1>1, <1>3, <1>10, <2>1, <2>4, <2>5, StepType DEF InsertItem
<1>11. ASSUME InsertNothing(t) PROVE TypeInv'
  <2> DEFINE r == [tx[t] EXCEPT !.at = "reviewed", !.told = "enrolled"]
  <2>1. r \in Transactions /\ r.pair = tx[t].pair
    BY <1>1 DEF Transactions, States
  <2>2. tx' = [tx EXCEPT ![t] = r]
    BY <1>11 DEF InsertNothing
  <2> HIDE DEF r
  <2> QED
    BY <1>1, <1>3, <1>11, <2>1, <2>2, StepType DEF InsertNothing
<1> QED
  BY <1>5, <1>6, <1>7, <1>8, <1>9, <1>10, <1>11 DEF RecordSubmission

LEMMA RecordRatedGameType ==
    ASSUME TypeInv, NEW t \in Submits, RecordRatedGame(t)
    PROVE  TypeInv'
<1>1. /\ tx[t] \in Transactions
      /\ held \in [Submits -> SUBSET Locks]
      /\ clock \in [Pairs -> Nat]
      /\ userGames \in [Users -> Nat]
      /\ problemGames \in [Problems -> Nat]
  BY DEF TypeInv, TypeOK
<1>2. tx[t].at \in {"reviewed", "first", "user_locked", "both_locked"}
  BY DEF RecordRatedGame, CountSubmissions, LockUser, LockProblem, ClaimGame, LoseGame
<1>3. tx[t].pair \in Pairs
  BY <1>2 DEF TypeInv, PairKnown
<1>4. tx[t].before \in Nat \X Nat
  BY <1>1, TxFields
<1>5. ASSUME CountSubmissions(t) PROVE TypeInv'
  <2> DEFINE at == IF Submitted(tx[t].pair) = {} THEN "first" ELSE "done"
  <2>1. at \in States
    BY DEF States
  <2>2. tx' = [tx EXCEPT ![t].at = at]
    BY <1>5 DEF CountSubmissions
  <2> HIDE DEF at
  <2> QED
    BY <1>3, <1>5, <2>1, <2>2, MoveType DEF CountSubmissions
<1>6. ASSUME LockUser(t) PROVE TypeInv'
  <2> DEFINE before == <<userGames[tx[t].pair[1]], 0>>
             r == [tx[t] EXCEPT !.at = "user_locked", !.before = before]
  <2>1. before \in Nat \X Nat
    BY <1>1, <1>3, RowTypes
  <2>2. tx' = [tx EXCEPT ![t] = r]
    BY <1>6 DEF LockUser
  <2>3. held' \in [Submits -> SUBSET Locks]
    BY <1>3, <1>6, RowTypes, TakeType DEF LockUser, UserLockMode
  <2> HIDE DEF before
  <2>4. r \in Transactions /\ r.pair = tx[t].pair
    <3>1. "user_locked" \in States
      BY DEF States
    <3> QED
      BY <1>1, <2>1, <3>1, TxLock DEF Transactions
  <2> HIDE DEF r
  <2> QED
    BY <1>1, <1>3, <1>6, <2>2, <2>3, <2>4, StepType DEF LockUser
<1>7. ASSUME LockProblem(t) PROVE TypeInv'
  <2> DEFINE before == <<tx[t].before[1], problemGames[tx[t].pair[2]]>>
             r == [tx[t] EXCEPT !.at = "both_locked", !.before = before]
  <2>1. before \in Nat \X Nat
    BY <1>1, <1>3, <1>4, RowTypes
  <2>2. tx' = [tx EXCEPT ![t] = r]
    BY <1>7 DEF LockProblem
  <2>3. held' \in [Submits -> SUBSET Locks]
    BY <1>3, <1>7, RowTypes, TakeType DEF LockProblem, TakeProblemRating
  <2> HIDE DEF before
  <2>4. r \in Transactions /\ r.pair = tx[t].pair
    <3>1. "both_locked" \in States
      BY DEF States
    <3> QED
      BY <1>1, <2>1, <3>1, TxLock DEF Transactions
  <2> HIDE DEF r
  <2> QED
    BY <1>1, <1>3, <1>7, <2>2, <2>3, <2>4, StepType DEF LockProblem
<1>8. ASSUME ClaimGame(t) PROVE TypeInv'
  <2> DEFINE r == [tx[t] EXCEPT !.at = "done", !.rated = TRUE]
  <2>1. r \in Transactions /\ r.pair = tx[t].pair
    BY <1>1, TxClaim DEF Transactions
  <2>2. tx' = [tx EXCEPT ![t] = r]
    BY <1>8 DEF ClaimGame
  <2>3. held' \in [Submits -> SUBSET Locks]
    BY <1>3, <1>8, RowTypes, TakeType DEF ClaimGame
  <2> HIDE DEF r
  <2> QED
    BY <1>1, <1>3, <1>8, <2>1, <2>2, <2>3, StepType DEF ClaimGame
<1>9. ASSUME LoseGame(t) PROVE TypeInv'
  <2>1. "done" \in States
    BY DEF States
  <2> QED
    BY <1>3, <1>9, <2>1, MoveType DEF LoseGame
<1> QED
  BY <1>5, <1>6, <1>7, <1>8, <1>9 DEF RecordRatedGame

LEMMA CommitType ==
    ASSUME TypeInv, NEW t \in Submits, Commit(t)
    PROVE  TypeInv'
<1> DEFINE my == tx[t]
<1>1. /\ my \in Transactions
      /\ held \in [Submits -> SUBSET Locks]
      /\ items \in [Pairs -> ReviewItems \cup {NoItem}]
      /\ userGames \in [Users -> Nat]
      /\ problemGames \in [Problems -> Nat]
      /\ progress \subseteq Pairs
      /\ games \subseteq Submits
  BY DEF TypeInv, TypeOK
<1>2. my.pair \in Pairs /\ my.at = "done"
  BY DEF TypeInv, PairKnown, Commit
<1>3. /\ my.write \in ReviewItems \cup {NoItem}
      /\ my.before[1] \in Nat
      /\ my.before[2] \in Nat
  BY <1>1, TxFields
<1>4. tx' \in [Submits -> Transactions] /\ PairKnown'
  <2>1. tx' = [tx EXCEPT ![t] = Kept(my)]
    BY DEF Commit
  <2>2. Kept(my) \in Transactions /\ Kept(my).pair \in Pairs
    BY <1>1, <1>2, TxKept
  <2> QED
    BY <2>1, <2>2, TxSet
<1>5. items' \in [Pairs -> ReviewItems \cup {NoItem}]
  BY <1>1, <1>2, <1>3 DEF Commit
<1>6. progress' \subseteq Pairs /\ games' \subseteq Submits
  BY <1>1, <1>2 DEF Commit
<1>7. userGames' \in [Users -> Nat]
  BY <1>1, <1>2, <1>3, RowTypes DEF Commit
<1>8. problemGames' \in [Problems -> Nat]
  BY <1>1, <1>2, <1>3, RowTypes DEF Commit
<1>9. held' \in [Submits -> SUBSET Locks]
  BY <1>1 DEF Commit
<1> QED
  BY <1>4, <1>5, <1>6, <1>7, <1>8, <1>9 DEF Commit, TypeInv, TypeOK

LEMMA RollbackType ==
    ASSUME TypeInv, NEW t \in Submits, Rollback(t)
    PROVE  TypeInv'
<1> DEFINE r == [Idle EXCEPT !.at = "rolled_back"]
<1>1. r \in Transactions /\ r.at = "rolled_back"
  <2>1. "rolled_back" \in States
    BY DEF States
  <2> QED
    BY <2>1, IdleType, TxMove DEF Transactions
<1>2. tx' = [tx EXCEPT ![t] = r]
  BY DEF Rollback
<1> HIDE DEF r
<1>3. tx' \in [Submits -> Transactions] /\ PairKnown'
  BY <1>1, <1>2, TxSet
<1> QED
  BY <1>3 DEF Rollback, TypeInv, TypeOK

\* What happens outside the transactions.
LEMMA OutsideType ==
    ASSUME TypeInv,
           \/ \E pair \in Pairs : AddToQueue(pair) \/ RemoveFromQueue(pair)
           \/ \E pair \in Pairs, shown \in 1 .. HintCount : ViewHints(pair, shown)
           \/ NextDay
           \/ UNCHANGED vars
    PROVE  TypeInv'
<1> USE DEF TypeInv
<1>1. ASSUME UNCHANGED tx PROVE PairKnown'
  BY <1>1 DEF PairKnown
<1>2. ASSUME Edit PROVE edits' \in 0 .. MaxEdits
  BY <1>2, SubmissionsAssumption DEF Edit, TypeOK
<1>3. ASSUME NEW pair \in Pairs, AddToQueue(pair) PROVE TypeInv'
  <2>1. clock' \in [Pairs -> Nat] /\ clock'[pair] \in Nat
    BY <1>3, TickType DEF AddToQueue
  <2> DEFINE item == [sm2 |-> InitialState, due |-> day, reviewed |-> 0,
                      created |-> clock'[pair]]
  <2>2. item \in ReviewItems
    BY <2>1, InitialStateType, SubmissionsAssumption DEF ReviewItems, TypeOK
  <2>3. items' = [items EXCEPT ![pair] = item]
    BY <1>3 DEF AddToQueue
  <2> HIDE DEF item
  <2> QED
    BY <1>1, <1>2, <1>3, <2>1, <2>2, <2>3 DEF AddToQueue, TypeOK
<1>4. ASSUME NEW pair \in Pairs, RemoveFromQueue(pair) PROVE TypeInv'
  BY <1>1, <1>2, <1>4 DEF RemoveFromQueue, TypeOK
<1>5. ASSUME NEW pair \in Pairs, NEW shown \in 1 .. HintCount, ViewHints(pair, shown)
      PROVE  TypeInv'
  <2>1. clock' \in [Pairs -> Nat] /\ clock'[pair] \in Nat
    BY <1>5, TickType DEF ViewHints
  <2> DEFINE view == [shown |-> shown, viewed |-> clock'[pair]]
  <2>2. view \in [shown : 0 .. HintCount, viewed : Nat]
    BY <2>1, SubmissionsAssumption
  <2>3. hints' = [hints EXCEPT ![pair] = view]
    BY <1>5 DEF ViewHints
  <2> HIDE DEF view
  <2> QED
    BY <1>1, <1>2, <1>5, <2>1, <2>2, <2>3 DEF ViewHints, TypeOK
<1>6. ASSUME NextDay PROVE TypeInv'
  BY <1>1, <1>6, SubmissionsAssumption DEF NextDay, TypeOK
<1>7. ASSUME UNCHANGED vars PROVE TypeInv'
  BY <1>1, <1>7 DEF vars, TypeOK
<1> QED
  BY <1>3, <1>4, <1>5, <1>6, <1>7

LEMMA TypeStep == TypeInv /\ [Next]_vars => TypeInv'
<1> SUFFICES ASSUME TypeInv, [Next]_vars PROVE TypeInv'
  OBVIOUS
<1>1. ASSUME NEW t \in Submits,
             \/ \E pair \in Pairs, passed \in Outcomes : Begin(t, pair, passed)
             \/ Complete(t)
             \/ RecordSubmission(t)
             \/ RecordRatedGame(t)
             \/ Commit(t)
             \/ Rollback(t)
      PROVE  TypeInv'
  BY <1>1, BeginType, CompleteType, RecordSubmissionType, RecordRatedGameType, CommitType,
     RollbackType
<1> QED
  BY <1>1, OutsideType DEF Next

LEMMA InitTypeInv == Init => TypeInv
<1>1. Init => \A t \in Submits : tx[t] = Idle
  BY DEF Init
<1> QED
  BY <1>1, TypeInit, IdleType DEF TypeInv, PairKnown

\* Every variable has its type in every state, whatever the numbers of Submits,
\* users and problems; in particular no review writes an item that the CHECKs of
\* 017_learning_features.sql would refuse.
THEOREM TypeCorrect == Spec => []TypeOK
<1>1. Init => TypeInv
  BY InitTypeInv
<1>2. TypeInv => TypeOK
  BY DEF TypeInv
<1> QED
  BY <1>1, <1>2, TypeStep, PTL DEF Spec

------------------------------------------------------------------------------
(* What each action does to the Submit that takes it, and leaves of the others *)

Others(t) == \A s \in Submits \ {t} : tx'[s] = tx[s] /\ held'[s] = held[s]

\* t's locks after its step: the same, or one more.
Adds(t, row, mode) == held'[t] = held[t] \cup {<<row, mode>>}

\* What no step of the transaction changes between BEGIN and COMMIT.
Steady(t) ==
    /\ tx'[t].pair = tx[t].pair
    /\ tx'[t].passed = tx[t].passed
    /\ tx'[t].begun = tx[t].begun

Tables == <<items, hints, progress, games, userGames, problemGames>>

LEMMA TakeEffect ==
    ASSUME TypeInv, NEW t \in Submits, NEW row, NEW mode, Take(t, row, mode)
    PROVE  /\ Adds(t, row, mode)
           /\ \A s \in Submits \ {t} : held'[s] = held[s]
BY DEF TypeInv, TypeOK, Take, Adds

LEMMA SetEffect ==
    ASSUME TypeInv, NEW t \in Submits, NEW r, tx' = [tx EXCEPT ![t] = r]
    PROVE  /\ tx'[t] = r
           /\ \A s \in Submits \ {t} : tx'[s] = tx[s]
BY DEF TypeInv, TypeOK

LEMMA BeginEffect ==
    ASSUME TypeInv, NEW t \in Submits, NEW pair \in Pairs, NEW passed \in Outcomes,
           Begin(t, pair, passed)
    PROVE  /\ Others(t)
           /\ Adds(t, UserRow(pair[1]), "key_share")
           /\ tx[t].at = "idle"
           /\ tx'[t].at \in {"inserted", "completed"}
           /\ tx'[t].pair = pair
           /\ tx'[t].passed = passed
           /\ tx'[t].at = "completed" => ~tx'[t].passed
           /\ tx'[t].begun = clock'[pair]
           /\ tx'[t].today = day
           /\ tx'[t].found = NoItem
           /\ tx'[t].counted = {}
           /\ tx'[t].write = NoItem
           /\ tx'[t].told = "nothing"
           /\ tx'[t].rated = FALSE
           /\ UNCHANGED Tables
<1> DEFINE r == Fresh(IF passed THEN "inserted" ELSE "completed",
                      pair, passed, clock'[pair], day)
<1>1. passed \in BOOLEAN
  BY SubmissionsAssumption
<1>2. /\ tx[t].at = "idle"
      /\ Take(t, UserRow(pair[1]), "key_share")
      /\ tx' = [tx EXCEPT ![t] = r]
      /\ UNCHANGED Tables
  BY DEF Begin, Tables
<1>3. /\ r.at = IF passed THEN "inserted" ELSE "completed"
      /\ r.pair = pair
      /\ r.passed = passed
      /\ r.begun = clock'[pair]
      /\ r.today = day
      /\ r.found = NoItem
      /\ r.counted = {}
      /\ r.write = NoItem
      /\ r.told = "nothing"
      /\ r.rated = FALSE
  BY DEF Fresh
<1> HIDE DEF r
<1>4. Others(t) /\ tx'[t] = r /\ Adds(t, UserRow(pair[1]), "key_share")
  BY <1>2, TakeEffect, SetEffect DEF Others
<1> QED
  BY <1>1, <1>2, <1>3, <1>4

LEMMA CompleteEffect ==
    ASSUME TypeInv, NEW t \in Submits, Complete(t)
    PROVE  /\ Others(t)
           /\ held'[t] = held[t] \/ Adds(t, PathKey(tx[t].pair), "update")
           /\ Steady(t)
           /\ tx[t].at = "inserted"
           /\ tx'[t].at = "completed"
           /\ tx'[t].today = day
           /\ tx'[t].found = tx[t].found
           /\ tx'[t].counted = tx[t].counted
           /\ tx'[t].write = tx[t].write
           /\ tx'[t].told = tx[t].told
           /\ tx'[t].before = tx[t].before
           /\ tx'[t].rated = tx[t].rated
           /\ UNCHANGED <<clock, Tables>>
<1> DEFINE r == [tx[t] EXCEPT !.at = "completed", !.today = day]
<1>1. tx[t] \in Transactions
  BY DEF TypeInv, TypeOK
<1>2. tx[t].at = "inserted" /\ tx' = [tx EXCEPT ![t] = r] /\ UNCHANGED <<clock, Tables>>
  BY DEF Complete, MarkCompleted, AlreadyCompleted, Tables
<1>3. /\ r.at = "completed" /\ r.today = day
      /\ r.pair = tx[t].pair /\ r.passed = tx[t].passed /\ r.begun = tx[t].begun
      /\ r.found = tx[t].found /\ r.counted = tx[t].counted /\ r.write = tx[t].write
      /\ r.told = tx[t].told /\ r.before = tx[t].before /\ r.rated = tx[t].rated
  BY <1>1 DEF Transactions
<1> HIDE DEF r
<1>4. tx'[t] = r /\ \A s \in Submits \ {t} : tx'[s] = tx[s]
  BY <1>2, SetEffect
<1>5. \/ held' = held
      \/ Take(t, PathKey(tx[t].pair), "update")
  BY DEF Complete, MarkCompleted, AlreadyCompleted
<1>6. /\ held'[t] = held[t] \/ Adds(t, PathKey(tx[t].pair), "update")
      /\ \A s \in Submits \ {t} : held'[s] = held[s]
  BY <1>5, TakeEffect
<1> QED
  BY <1>2, <1>3, <1>4, <1>6 DEF Others, Steady

\* The steps of the review: what they have in common.
Reviews(t) ==
    /\ Others(t)
    /\ Steady(t)
    /\ tx'[t].today = tx[t].today
    /\ tx'[t].before = tx[t].before
    /\ tx'[t].rated = tx[t].rated
    /\ UNCHANGED Tables

LEMMA ReviewsEffect ==
    ASSUME TypeInv, NEW t \in Submits, NEW r,
           tx' = [tx EXCEPT ![t] = r],
           r.pair = tx[t].pair, r.passed = tx[t].passed, r.begun = tx[t].begun,
           r.today = tx[t].today, r.before = tx[t].before, r.rated = tx[t].rated,
           held' = held \/ Take(t, ItemRow(tx[t].pair), "update"),
           UNCHANGED Tables
    PROVE  Reviews(t) /\ tx'[t] = r
<1>1. tx'[t] = r /\ \A s \in Submits \ {t} : tx'[s] = tx[s]
  BY SetEffect
<1>2. \A s \in Submits \ {t} : held'[s] = held[s]
  BY TakeEffect
<1> QED
  BY <1>1, <1>2 DEF Reviews, Others, Steady

LEMMA FindNothingEffect ==
    ASSUME TypeInv, NEW t \in Submits, FindNothing(t)
    PROVE  /\ Reviews(t)
           /\ held' = held
           /\ tx[t].at = "completed" /\ tx'[t].at = Review(t)
           /\ items[tx[t].pair] = NoItem
           /\ tx'[t].found = tx[t].found
           /\ tx'[t].counted = tx[t].counted
           /\ tx'[t].write = tx[t].write
           /\ tx'[t].told = tx[t].told
           /\ UNCHANGED clock
<1> DEFINE r == [tx[t] EXCEPT !.at = Review(t)]
<1>1. tx[t] \in Transactions
  BY DEF TypeInv, TypeOK
<1>2. tx' = [tx EXCEPT ![t] = r] /\ UNCHANGED <<clock, held, Tables>>
  BY DEF FindNothing, Tables
<1>3. /\ r.at = Review(t) /\ r.today = tx[t].today
      /\ r.pair = tx[t].pair /\ r.passed = tx[t].passed /\ r.begun = tx[t].begun
      /\ r.found = tx[t].found /\ r.counted = tx[t].counted /\ r.write = tx[t].write
      /\ r.told = tx[t].told /\ r.before = tx[t].before /\ r.rated = tx[t].rated
  BY <1>1 DEF Transactions
<1> HIDE DEF r
<1>4. Reviews(t) /\ tx'[t] = r
  BY <1>2, <1>3, ReviewsEffect
<1> QED
  BY <1>2, <1>3, <1>4 DEF FindNothing

LEMMA FindItemEffect ==
    ASSUME TypeInv, NEW t \in Submits, FindItem(t)
    PROVE  /\ Reviews(t)
           /\ Take(t, ItemRow(tx[t].pair), "update")
           /\ tx[t].at = "completed" /\ tx'[t].at = Review(t)
           /\ items[tx[t].pair] # NoItem
           /\ IsGraded(t, items[tx[t].pair])
           /\ tx'[t].found = items[tx[t].pair]
           /\ tx'[t].counted = tx[t].counted
           /\ tx'[t].write = tx[t].write
           /\ tx'[t].told = tx[t].told
           /\ UNCHANGED clock
<1> DEFINE r == [tx[t] EXCEPT !.at = Review(t), !.found = items[tx[t].pair]]
<1>1. tx[t] \in Transactions
  BY DEF TypeInv, TypeOK
<1>2. /\ tx' = [tx EXCEPT ![t] = r] /\ UNCHANGED <<clock, Tables>>
      /\ Take(t, ItemRow(tx[t].pair), "update")
  BY DEF FindItem, LockItem, Tables
<1>3. /\ r.at = Review(t) /\ r.today = tx[t].today
      /\ r.pair = tx[t].pair /\ r.passed = tx[t].passed /\ r.begun = tx[t].begun
      /\ r.found = items[tx[t].pair] /\ r.counted = tx[t].counted /\ r.write = tx[t].write
      /\ r.told = tx[t].told /\ r.before = tx[t].before /\ r.rated = tx[t].rated
  BY <1>1 DEF Transactions
<1> HIDE DEF r
<1>4. Reviews(t) /\ tx'[t] = r
  BY <1>2, <1>3, ReviewsEffect
<1> QED
  BY <1>2, <1>3, <1>4 DEF FindItem

LEMMA LeaveItemEffect ==
    ASSUME TypeInv, NEW t \in Submits, LeaveItem(t)
    PROVE  /\ Reviews(t)
           /\ Take(t, ItemRow(tx[t].pair), "update")
           /\ tx[t].at = "completed" /\ tx'[t].at = "reviewed"
           /\ tx[t].passed
           /\ tx'[t].found = items[tx[t].pair]
           /\ tx'[t].counted = tx[t].counted
           /\ tx'[t].write = tx[t].write
           /\ tx'[t].told = "unchanged"
           /\ UNCHANGED clock
<1> DEFINE r == [tx[t] EXCEPT !.at = "reviewed", !.told = "unchanged",
                              !.found = items[tx[t].pair]]
<1>1. tx[t] \in Transactions
  BY DEF TypeInv, TypeOK
<1>2. /\ tx' = [tx EXCEPT ![t] = r] /\ UNCHANGED <<clock, Tables>>
      /\ Take(t, ItemRow(tx[t].pair), "update")
  BY DEF LeaveItem, LockItem, Tables
<1>3. /\ r.at = "reviewed" /\ r.today = tx[t].today
      /\ r.pair = tx[t].pair /\ r.passed = tx[t].passed /\ r.begun = tx[t].begun
      /\ r.found = items[tx[t].pair] /\ r.counted = tx[t].counted /\ r.write = tx[t].write
      /\ r.told = "unchanged" /\ r.before = tx[t].before /\ r.rated = tx[t].rated
  BY <1>1 DEF Transactions
<1> HIDE DEF r
<1>4. Reviews(t) /\ tx'[t] = r
  BY <1>2, <1>3, ReviewsEffect
<1>5. tx[t].passed
  BY DEF LeaveItem, IsGraded
<1> QED
  BY <1>2, <1>3, <1>4, <1>5 DEF LeaveItem

LEMMA AssessEffect ==
    ASSUME TypeInv, NEW t \in Submits, Assess(t)
    PROVE  /\ Reviews(t)
           /\ held' = held
           /\ tx[t].at = "assessing"
           /\ \/ tx'[t].at = "grading"
              \/ tx'[t].at = "reviewed" /\ tx[t].found = NoItem
           /\ tx'[t].found = tx[t].found
           /\ tx'[t].counted = FailuresSince(tx[t].pair, Since(tx[t].found))
           /\ tx'[t].write = tx[t].write
           /\ tx'[t].told = tx[t].told
           /\ UNCHANGED clock
<1> DEFINE failures == FailuresSince(tx[t].pair, Since(tx[t].found))
           hinted == HintedSince(tx[t].pair, Since(tx[t].found))
           clean == tx[t].found = NoItem /\ failures = {} /\ ~hinted
           at == IF clean THEN "reviewed" ELSE "grading"
           quality == PassQuality(Cardinality(failures), hinted)
           r == [tx[t] EXCEPT !.at = at, !.counted = failures, !.quality = quality]
<1>1. tx[t] \in Transactions
  BY DEF TypeInv, TypeOK
<1>2. /\ tx' = [tx EXCEPT ![t] = r]
      /\ UNCHANGED <<clock, held, Tables>>
  BY DEF Assess, Tables
<1>3. \/ at = "grading"
      \/ at = "reviewed" /\ tx[t].found = NoItem
  OBVIOUS
<1> HIDE DEF failures, hinted, clean, at, quality
<1>4. /\ r.at = at /\ r.today = tx[t].today
      /\ r.pair = tx[t].pair /\ r.passed = tx[t].passed /\ r.begun = tx[t].begun
      /\ r.found = tx[t].found /\ r.counted = failures /\ r.write = tx[t].write
      /\ r.told = tx[t].told /\ r.before = tx[t].before /\ r.rated = tx[t].rated
  BY <1>1 DEF Transactions
<1> HIDE DEF r
<1>5. Reviews(t) /\ tx'[t] = r
  BY <1>2, <1>4, ReviewsEffect
<1>6. failures = FailuresSince(tx[t].pair, Since(tx[t].found))
  BY DEF failures
<1> QED
  BY <1>2, <1>3, <1>4, <1>5, <1>6 DEF Assess

LEMMA UpdateItemEffect ==
    ASSUME TypeInv, NEW t \in Submits, UpdateItem(t)
    PROVE  /\ Reviews(t)
           /\ held' = held
           /\ tx[t].at = "grading" /\ tx'[t].at = "reviewed"
           /\ tx[t].found # NoItem
           /\ tx'[t].found = tx[t].found
           /\ tx'[t].counted = tx[t].counted
           /\ \E state \in AfterReview(tx[t].found.sm2, tx[t].quality) :
                 tx'[t].write = Graded(t, state, tx[t].found.created)
           /\ tx'[t].told = IF tx[t].passed THEN "reviewed" ELSE "lapsed"
           /\ Tick(tx[t].pair)
<1>1. PICK state \in AfterReview(tx[t].found.sm2, tx[t].quality) :
        tx' = [tx EXCEPT ![t] = [tx[t] EXCEPT
                  !.at = "reviewed",
                  !.write = Graded(t, state, tx[t].found.created),
                  !.told = IF tx[t].passed THEN "reviewed" ELSE "lapsed"]]
  BY DEF UpdateItem
<1> DEFINE item == Graded(t, state, tx[t].found.created)
           told == IF tx[t].passed THEN "reviewed" ELSE "lapsed"
           r == [tx[t] EXCEPT !.at = "reviewed", !.write = item, !.told = told]
<1>2. tx[t] \in Transactions
  BY DEF TypeInv, TypeOK
<1>3. /\ tx' = [tx EXCEPT ![t] = r]
      /\ UNCHANGED <<held, Tables>>
  BY <1>1 DEF UpdateItem, Tables
<1> HIDE DEF item, told
<1>4. /\ r.at = "reviewed" /\ r.today = tx[t].today
      /\ r.pair = tx[t].pair /\ r.passed = tx[t].passed /\ r.begun = tx[t].begun
      /\ r.found = tx[t].found /\ r.counted = tx[t].counted /\ r.write = item
      /\ r.told = told /\ r.before = tx[t].before /\ r.rated = tx[t].rated
  BY <1>2 DEF Transactions
<1> HIDE DEF r
<1>5. Reviews(t) /\ tx'[t] = r
  BY <1>3, <1>4, ReviewsEffect
<1>6. /\ tx'[t].told = IF tx[t].passed THEN "reviewed" ELSE "lapsed"
      /\ tx'[t].write = Graded(t, state, tx[t].found.created)
  BY <1>4, <1>5 DEF item, told
<1> QED
  BY <1>3, <1>4, <1>5, <1>6 DEF UpdateItem

LEMMA InsertItemEffect ==
    ASSUME TypeInv, NEW t \in Submits, InsertItem(t)
    PROVE  /\ Reviews(t)
           /\ Take(t, ItemRow(tx[t].pair), "update")
           /\ tx[t].at = "grading" /\ tx'[t].at = "reviewed"
           /\ tx[t].found = NoItem
           /\ items[tx[t].pair] = NoItem
           /\ tx'[t].found = tx[t].found
           /\ tx'[t].counted = tx[t].counted
           /\ \E state \in AfterReview(InitialState, tx[t].quality) :
                 tx'[t].write = Graded(t, state, tx[t].begun)
           /\ tx'[t].told = "enrolled"
           /\ Tick(tx[t].pair)
<1>1. PICK state \in AfterReview(InitialState, tx[t].quality) :
        tx' = [tx EXCEPT ![t] = [tx[t] EXCEPT
                  !.at = "reviewed", !.told = "enrolled",
                  !.write = Graded(t, state, tx[t].begun)]]
  BY DEF InsertItem
<1> DEFINE item == Graded(t, state, tx[t].begun)
           r == [tx[t] EXCEPT !.at = "reviewed", !.told = "enrolled", !.write = item]
<1>2. tx[t] \in Transactions
  BY DEF TypeInv, TypeOK
<1>3. /\ tx' = [tx EXCEPT ![t] = r]
      /\ Take(t, ItemRow(tx[t].pair), "update")
      /\ UNCHANGED Tables
  BY <1>1 DEF InsertItem, Tables
<1> HIDE DEF item
<1>4. /\ r.at = "reviewed" /\ r.today = tx[t].today
      /\ r.pair = tx[t].pair /\ r.passed = tx[t].passed /\ r.begun = tx[t].begun
      /\ r.found = tx[t].found /\ r.counted = tx[t].counted /\ r.write = item
      /\ r.told = "enrolled" /\ r.before = tx[t].before /\ r.rated = tx[t].rated
  BY <1>2 DEF Transactions
<1> HIDE DEF r
<1>5. Reviews(t) /\ tx'[t] = r
  BY <1>3, <1>4, ReviewsEffect
<1>6. tx'[t].write = Graded(t, state, tx[t].begun)
  BY <1>4, <1>5 DEF item
<1> QED
  BY <1>3, <1>4, <1>5, <1>6 DEF InsertItem

LEMMA InsertNothingEffect ==
    ASSUME TypeInv, NEW t \in Submits, InsertNothing(t)
    PROVE  /\ Reviews(t)
           /\ held' = held
           /\ tx[t].at = "grading" /\ tx'[t].at = "reviewed"
           /\ tx[t].found = NoItem
           /\ tx'[t].found = tx[t].found
           /\ tx'[t].counted = tx[t].counted
           /\ tx'[t].write = tx[t].write
           /\ tx'[t].told = "enrolled"
           /\ UNCHANGED clock
<1> DEFINE r == [tx[t] EXCEPT !.at = "reviewed", !.told = "enrolled"]
<1>1. tx[t] \in Transactions
  BY DEF TypeInv, TypeOK
<1>2. tx' = [tx EXCEPT ![t] = r] /\ UNCHANGED <<clock, held, Tables>>
  BY DEF InsertNothing, Tables
<1>3. /\ r.at = "reviewed" /\ r.today = tx[t].today
      /\ r.pair = tx[t].pair /\ r.passed = tx[t].passed /\ r.begun = tx[t].begun
      /\ r.found = tx[t].found /\ r.counted = tx[t].counted /\ r.write = tx[t].write
      /\ r.told = "enrolled" /\ r.before = tx[t].before /\ r.rated = tx[t].rated
  BY <1>1 DEF Transactions
<1> HIDE DEF r
<1>4. Reviews(t) /\ tx'[t] = r
  BY <1>2, <1>3, ReviewsEffect
<1> QED
  BY <1>2, <1>3, <1>4 DEF InsertNothing

\* The steps of the rated game: what they have in common.
Rates(t) ==
    /\ Others(t)
    /\ Steady(t)
    /\ tx'[t].today = tx[t].today
    /\ tx'[t].found = tx[t].found
    /\ tx'[t].counted = tx[t].counted
    /\ tx'[t].write = tx[t].write
    /\ tx'[t].told = tx[t].told
    /\ UNCHANGED <<day, clock, Tables>>

LEMMA RatesEffect ==
    ASSUME TypeInv, NEW t \in Submits, NEW r, NEW row, NEW mode,
           tx' = [tx EXCEPT ![t] = r],
           r.pair = tx[t].pair, r.passed = tx[t].passed, r.begun = tx[t].begun,
           r.today = tx[t].today, r.found = tx[t].found, r.counted = tx[t].counted,
           r.write = tx[t].write, r.told = tx[t].told,
           held' = held \/ Take(t, row, mode),
           UNCHANGED <<day, clock, Tables>>
    PROVE  Rates(t) /\ tx'[t] = r
<1>1. tx'[t] = r /\ \A s \in Submits \ {t} : tx'[s] = tx[s]
  BY SetEffect
<1>2. \A s \in Submits \ {t} : held'[s] = held[s]
  BY TakeEffect
<1> QED
  BY <1>1, <1>2 DEF Rates, Others, Steady

LEMMA CountSubmissionsEffect ==
    ASSUME TypeInv, NEW t \in Submits, CountSubmissions(t)
    PROVE  /\ Rates(t)
           /\ held' = held
           /\ tx[t].at = "reviewed"
           /\ tx'[t].at = (IF Submitted(tx[t].pair) = {} THEN "first" ELSE "done")
           /\ tx'[t].before = tx[t].before
           /\ tx'[t].rated = tx[t].rated
<1> DEFINE r == [tx[t] EXCEPT !.at = IF Submitted(tx[t].pair) = {} THEN "first" ELSE "done"]
<1>1. tx[t] \in Transactions
  BY DEF TypeInv, TypeOK
<1>2. /\ tx' = [tx EXCEPT ![t] = r]
      /\ held' = held
      /\ UNCHANGED <<day, clock, Tables>>
  BY DEF CountSubmissions, Tables
<1>3. /\ r.at = (IF Submitted(tx[t].pair) = {} THEN "first" ELSE "done") /\ r.before = tx[t].before
      /\ r.rated = tx[t].rated /\ r.today = tx[t].today
      /\ r.pair = tx[t].pair /\ r.passed = tx[t].passed /\ r.begun = tx[t].begun
      /\ r.found = tx[t].found /\ r.counted = tx[t].counted /\ r.write = tx[t].write
      /\ r.told = tx[t].told
  BY <1>1 DEF Transactions
<1> HIDE DEF r
<1>4. Rates(t) /\ tx'[t] = r
  BY <1>2, <1>3, RatesEffect
<1> QED
  BY <1>2, <1>3, <1>4 DEF CountSubmissions

LEMMA LockUserEffect ==
    ASSUME TypeInv, NEW t \in Submits, LockUser(t)
    PROVE  /\ Rates(t)
           /\ Take(t, UserRow(tx[t].pair[1]), "no_key_update")
           /\ tx[t].at = "first"
           /\ tx'[t].at = "user_locked"
           /\ tx'[t].before = <<userGames[tx[t].pair[1]], 0>>
           /\ tx'[t].rated = tx[t].rated
<1> DEFINE r == [tx[t] EXCEPT !.at = "user_locked", !.before = <<userGames[tx[t].pair[1]], 0>>]
<1>1. tx[t] \in Transactions
  BY DEF TypeInv, TypeOK
<1>2. /\ tx' = [tx EXCEPT ![t] = r]
      /\ Take(t, UserRow(tx[t].pair[1]), "no_key_update")
      /\ UNCHANGED <<day, clock, Tables>>
  BY DEF LockUser, Tables, UserLockMode
<1>3. /\ r.at = "user_locked" /\ r.before = <<userGames[tx[t].pair[1]], 0>>
      /\ r.rated = tx[t].rated /\ r.today = tx[t].today
      /\ r.pair = tx[t].pair /\ r.passed = tx[t].passed /\ r.begun = tx[t].begun
      /\ r.found = tx[t].found /\ r.counted = tx[t].counted /\ r.write = tx[t].write
      /\ r.told = tx[t].told
  BY <1>1 DEF Transactions
<1> HIDE DEF r
<1>4. Rates(t) /\ tx'[t] = r
  BY <1>2, <1>3, RatesEffect
<1> QED
  BY <1>2, <1>3, <1>4 DEF LockUser

LEMMA LockProblemEffect ==
    ASSUME TypeInv, NEW t \in Submits, LockProblem(t)
    PROVE  /\ Rates(t)
           /\ Take(t, ProblemRating(tx[t].pair[2]), "update")
           /\ tx[t].at = "user_locked"
           /\ tx'[t].at = "both_locked"
           /\ tx'[t].before = <<tx[t].before[1], problemGames[tx[t].pair[2]]>>
           /\ tx'[t].rated = tx[t].rated
<1> DEFINE r == [tx[t] EXCEPT !.at = "both_locked",
                              !.before = <<tx[t].before[1], problemGames[tx[t].pair[2]]>>]
<1>1. tx[t] \in Transactions
  BY DEF TypeInv, TypeOK
<1>2. /\ tx' = [tx EXCEPT ![t] = r]
      /\ Take(t, ProblemRating(tx[t].pair[2]), "update")
      /\ UNCHANGED <<day, clock, Tables>>
  BY DEF LockProblem, Tables, TakeProblemRating
<1>3. /\ r.at = "both_locked" /\ r.before = <<tx[t].before[1], problemGames[tx[t].pair[2]]>>
      /\ r.rated = tx[t].rated /\ r.today = tx[t].today
      /\ r.pair = tx[t].pair /\ r.passed = tx[t].passed /\ r.begun = tx[t].begun
      /\ r.found = tx[t].found /\ r.counted = tx[t].counted /\ r.write = tx[t].write
      /\ r.told = tx[t].told
  BY <1>1 DEF Transactions
<1> HIDE DEF r
<1>4. Rates(t) /\ tx'[t] = r
  BY <1>2, <1>3, RatesEffect
<1> QED
  BY <1>2, <1>3, <1>4 DEF LockProblem

LEMMA ClaimGameEffect ==
    ASSUME TypeInv, NEW t \in Submits, ClaimGame(t)
    PROVE  /\ Rates(t)
           /\ Take(t, GameKey(tx[t].pair), "update")
           /\ tx[t].at = "both_locked"
           /\ tx'[t].at = "done"
           /\ tx'[t].before = tx[t].before
           /\ tx'[t].rated = TRUE
           /\ GameOf(tx[t].pair) = {}
<1> DEFINE r == [tx[t] EXCEPT !.at = "done", !.rated = TRUE]
<1>1. tx[t] \in Transactions
  BY DEF TypeInv, TypeOK
<1>2. /\ tx' = [tx EXCEPT ![t] = r]
      /\ Take(t, GameKey(tx[t].pair), "update")
      /\ UNCHANGED <<day, clock, Tables>>
  BY DEF ClaimGame, Tables, Unclaimed
<1>3. /\ r.at = "done" /\ r.before = tx[t].before
      /\ r.rated = TRUE /\ r.today = tx[t].today
      /\ r.pair = tx[t].pair /\ r.passed = tx[t].passed /\ r.begun = tx[t].begun
      /\ r.found = tx[t].found /\ r.counted = tx[t].counted /\ r.write = tx[t].write
      /\ r.told = tx[t].told
  BY <1>1 DEF Transactions
<1> HIDE DEF r
<1>4. Rates(t) /\ tx'[t] = r
  BY <1>2, <1>3, RatesEffect
<1> QED
  BY <1>2, <1>3, <1>4 DEF ClaimGame, Unclaimed

LEMMA LoseGameEffect ==
    ASSUME TypeInv, NEW t \in Submits, LoseGame(t)
    PROVE  /\ Rates(t)
           /\ held' = held
           /\ tx[t].at = "both_locked"
           /\ tx'[t].at = "done"
           /\ tx'[t].before = tx[t].before
           /\ tx'[t].rated = tx[t].rated
           /\ GameOf(tx[t].pair) # {}
<1> DEFINE r == [tx[t] EXCEPT !.at = "done"]
<1>1. tx[t] \in Transactions
  BY DEF TypeInv, TypeOK
<1>2. /\ tx' = [tx EXCEPT ![t] = r]
      /\ held' = held
      /\ UNCHANGED <<day, clock, Tables>>
  BY DEF LoseGame, Tables, Unclaimed
<1>3. /\ r.at = "done" /\ r.before = tx[t].before
      /\ r.rated = tx[t].rated /\ r.today = tx[t].today
      /\ r.pair = tx[t].pair /\ r.passed = tx[t].passed /\ r.begun = tx[t].begun
      /\ r.found = tx[t].found /\ r.counted = tx[t].counted /\ r.write = tx[t].write
      /\ r.told = tx[t].told
  BY <1>1 DEF Transactions
<1> HIDE DEF r
<1>4. Rates(t) /\ tx'[t] = r
  BY <1>2, <1>3, RatesEffect
<1> QED
  BY <1>2, <1>3, <1>4 DEF LoseGame, Unclaimed

LEMMA CommitEffect ==
    ASSUME TypeInv, NEW t \in Submits, Commit(t)
    PROVE  /\ Others(t)
           /\ Steady(t)
           /\ held'[t] = {}
           /\ held' = [held EXCEPT ![t] = {}]
           /\ tx[t].at = "done" /\ tx'[t].at = "committed"
           /\ tx'[t].counted = tx[t].counted
           /\ tx'[t].write = tx[t].write
           /\ tx'[t].told = tx[t].told
           /\ tx'[t].rated = FALSE
           /\ tx'[t].found = NoItem
           /\ UNCHANGED <<day, clock, hints>>
<1> DEFINE my == tx[t]
           fresh == Fresh("committed", my.pair, my.passed, my.begun, 0)
<1>1. my \in Transactions /\ held \in [Submits -> SUBSET Locks]
  BY DEF TypeInv, TypeOK
<1>2. fresh \in Transactions
  <2>1. "committed" \in States /\ 0 \in 0 .. LastDay
    BY SubmissionsAssumption DEF States
  <2>2. my.pair \in Pairs \cup {<<>>} /\ my.passed \in BOOLEAN /\ my.begun \in Nat
    BY <1>1, TxFields
  <2> QED
    BY ONLY <2>1, <2>2, FreshType
<1>3. /\ fresh.at = "committed" /\ fresh.pair = my.pair /\ fresh.passed = my.passed
      /\ fresh.begun = my.begun /\ fresh.rated = FALSE /\ fresh.found = NoItem
  BY DEF Fresh
<1>4. Kept(my) = [fresh EXCEPT !.counted = my.counted, !.write = my.write, !.told = my.told]
  BY DEF Kept
<1> HIDE DEF fresh
<1>5. /\ Kept(my).at = "committed" /\ Kept(my).pair = my.pair /\ Kept(my).passed = my.passed
      /\ Kept(my).begun = my.begun /\ Kept(my).rated = FALSE /\ Kept(my).found = NoItem
      /\ Kept(my).counted = my.counted /\ Kept(my).write = my.write /\ Kept(my).told = my.told
  BY <1>2, <1>3, <1>4 DEF Transactions
<1>6. tx'[t] = Kept(my) /\ \A s \in Submits \ {t} : tx'[s] = tx[s]
  <2>1. tx' = [tx EXCEPT ![t] = Kept(my)]
    BY DEF Commit
  <2> QED
    BY <2>1, SetEffect
<1>7. /\ held' = [held EXCEPT ![t] = {}]
      /\ held'[t] = {}
      /\ \A s \in Submits \ {t} : held'[s] = held[s]
  BY <1>1 DEF Commit
<1>8. tx[t].at = "done" /\ UNCHANGED <<day, clock, hints>>
  BY DEF Commit
<1> QED
  BY <1>5, <1>6, <1>7, <1>8 DEF Others, Steady

LEMMA RollbackEffect ==
    ASSUME TypeInv, NEW t \in Submits, Rollback(t)
    PROVE  /\ Others(t)
           /\ held'[t] = {}
           /\ held' = [held EXCEPT ![t] = {}]
           /\ tx[t].at \notin Finished /\ tx'[t].at = "rolled_back"
           /\ tx'[t].rated = FALSE
           /\ tx'[t].write = NoItem
           /\ tx'[t].found = NoItem
           /\ UNCHANGED <<day, clock, Tables>>
<1> DEFINE r == [Idle EXCEPT !.at = "rolled_back"]
<1>1. Idle.rated = FALSE /\ Idle.write = NoItem /\ Idle.found = NoItem
  BY DEF Idle, Fresh
<1>2. r.at = "rolled_back" /\ r.rated = FALSE /\ r.write = NoItem /\ r.found = NoItem
  BY <1>1, IdleType DEF Transactions
<1>3. tx' = [tx EXCEPT ![t] = r]
  BY DEF Rollback
<1> HIDE DEF r
<1>4. tx'[t] = r /\ \A s \in Submits \ {t} : tx'[s] = tx[s]
  BY <1>3, SetEffect
<1>5. /\ held' = [held EXCEPT ![t] = {}]
      /\ held'[t] = {}
      /\ \A s \in Submits \ {t} : held'[s] = held[s]
  BY DEF Rollback, TypeInv, TypeOK
<1>6. tx[t].at \notin Finished /\ UNCHANGED <<day, clock, Tables>>
  BY DEF Rollback, Tables
<1> QED
  BY <1>2, <1>4, <1>5, <1>6 DEF Others

LEMMA ReviewSteps ==
    ASSUME TypeInv, NEW t \in Submits, RecordSubmission(t)
    PROVE  /\ Reviews(t)
           /\ tx[t].at \in {"completed", "assessing", "grading"}
           /\ tx'[t].at \in {"assessing", "grading", "reviewed"}
           /\ held' = held \/ Take(t, ItemRow(tx[t].pair), "update")
<1>1. Review(t) \in {"assessing", "grading"}
  BY DEF Review
<1> QED
  BY <1>1, FindNothingEffect, FindItemEffect, LeaveItemEffect, AssessEffect, UpdateItemEffect,
     InsertItemEffect, InsertNothingEffect DEF RecordSubmission

LEMMA RateSteps ==
    ASSUME TypeInv, NEW t \in Submits, RecordRatedGame(t)
    PROVE  /\ Rates(t)
           /\ tx[t].at \in {"reviewed", "first", "user_locked", "both_locked"}
           /\ tx'[t].at \in {"first", "user_locked", "both_locked", "done"}
           /\ \/ held' = held
              \/ Take(t, UserRow(tx[t].pair[1]), "no_key_update")
              \/ Take(t, ProblemRating(tx[t].pair[2]), "update")
              \/ Take(t, GameKey(tx[t].pair), "update")
BY CountSubmissionsEffect, LockUserEffect, LockProblemEffect, ClaimGameEffect, LoseGameEffect
   DEF RecordRatedGame

Outside ==
    \/ \E pair \in Pairs : AddToQueue(pair) \/ RemoveFromQueue(pair)
    \/ \E pair \in Pairs, shown \in 1 .. HintCount : ViewHints(pair, shown)
    \/ NextDay
    \/ UNCHANGED vars

LEMMA OutsideEffect ==
    ASSUME Outside
    PROVE  UNCHANGED <<tx, held, progress, games, userGames, problemGames>>
BY DEF Outside, AddToQueue, RemoveFromQueue, ViewHints, NextDay, vars

\* Every step is one of these, which is how the inductive steps below are split.
LEMMA StepCases ==
    ASSUME [Next]_vars
    PROVE  \/ \E t \in Submits, pair \in Pairs, passed \in Outcomes : Begin(t, pair, passed)
           \/ \E t \in Submits : Complete(t)
           \/ \E t \in Submits : RecordSubmission(t)
           \/ \E t \in Submits : RecordRatedGame(t)
           \/ \E t \in Submits : Commit(t)
           \/ \E t \in Submits : Rollback(t)
           \/ Outside
BY DEF Next, Outside

------------------------------------------------------------------------------
(* Paths *)

Passes == {s \in Submits : tx[s].at = "committed" /\ tx[s].passed}

\* Only a commit stores a submission or a completion.
LEMMA PathsStep ==
    ASSUME TypeInv, PathsFollowSubmissions, [Next]_vars
    PROVE  PathsFollowSubmissions'
<1>1. ASSUME NEW t \in Submits, Others(t), tx[t].at # "committed", tx'[t].at # "committed",
             progress' = progress
      PROVE  PathsFollowSubmissions'
  <2>1. Passes' = Passes /\ \A s \in Passes : tx'[s].pair = tx[s].pair
    BY <1>1 DEF Others, Passes
  <2> QED
    BY <1>1, <2>1 DEF PathsFollowSubmissions, Passes
<1>2. ASSUME NEW t \in Submits, NEW pair \in Pairs, NEW passed \in Outcomes,
             Begin(t, pair, passed)
      PROVE  PathsFollowSubmissions'
  BY <1>1, <1>2, BeginEffect DEF Tables
<1>3. ASSUME NEW t \in Submits, Complete(t) PROVE PathsFollowSubmissions'
  BY <1>1, <1>3, CompleteEffect DEF Tables
<1>4. ASSUME NEW t \in Submits, RecordSubmission(t) PROVE PathsFollowSubmissions'
  <2>1. /\ Reviews(t)
        /\ tx[t].at \in {"completed", "assessing", "grading"}
        /\ tx'[t].at \in {"assessing", "grading", "reviewed"}
    BY <1>4, ReviewSteps
  <2> QED
    BY <1>1, <2>1 DEF Reviews, Tables
<1>5. ASSUME NEW t \in Submits, RecordRatedGame(t) PROVE PathsFollowSubmissions'
  <2>1. /\ Rates(t)
        /\ tx[t].at \in {"reviewed", "first", "user_locked", "both_locked"}
        /\ tx'[t].at \in {"first", "user_locked", "both_locked", "done"}
    BY <1>5, RateSteps
  <2> QED
    BY <1>1, <2>1 DEF Rates, Tables
<1>6. ASSUME NEW t \in Submits, Commit(t) PROVE PathsFollowSubmissions'
  <2>1. /\ Others(t) /\ Steady(t)
        /\ tx[t].at = "done" /\ tx'[t].at = "committed"
    BY <1>6, CommitEffect
  <2>2. \A s \in Passes : s # t /\ tx'[s] = tx[s]
    BY <2>1 DEF Passes, Others
  <2>3. Passes' = Passes \cup (IF tx[t].passed THEN {t} ELSE {})
    BY <2>1 DEF Passes, Others, Steady
  <2>4. progress' = progress \cup (IF tx[t].passed THEN {tx[t].pair} ELSE {})
    BY <1>6 DEF Commit
  <2>5. tx'[t].pair = tx[t].pair
    BY <2>1 DEF Steady
  <2> QED
    BY <2>2, <2>3, <2>4, <2>5 DEF PathsFollowSubmissions, Passes
<1>7. ASSUME NEW t \in Submits, Rollback(t) PROVE PathsFollowSubmissions'
  BY <1>1, <1>7, RollbackEffect DEF Tables, Finished
<1>8. ASSUME Outside PROVE PathsFollowSubmissions'
  BY <1>8, OutsideEffect DEF PathsFollowSubmissions
<1> QED
  BY <1>2, <1>3, <1>4, <1>5, <1>6, <1>7, <1>8, StepCases

\* Submits complete a problem in a user's paths exactly when a passing one of them is
\* stored, for any number of Submits and whichever of them are rolled back.
THEOREM PathsFollow == Spec => []PathsFollowSubmissions
<1>1. Init => TypeInv /\ PathsFollowSubmissions
  <2>1. Init => \A t \in Submits : tx[t].at = "idle"
    BY IdleType DEF Init
  <2>2. Init => PathsFollowSubmissions
    BY <2>1 DEF Init, PathsFollowSubmissions
  <2> QED
    BY <2>2, InitTypeInv
<1>2. TypeInv /\ PathsFollowSubmissions /\ [Next]_vars => (TypeInv /\ PathsFollowSubmissions)'
  BY PathsStep, TypeStep
<1> QED
  BY <1>1, <1>2, PTL DEF Spec

------------------------------------------------------------------------------
(* No circle of waits: locks are taken in one order *)

\* How far in that order a Submit with this record is.
Reached(r) ==
    IF r.at = "done" THEN 5
    ELSE IF r.at = "both_locked" THEN 4
    ELSE IF r.at = "user_locked" THEN 3
    ELSE IF r.at \in {"reviewed", "first"} THEN 2
    ELSE IF r.at \in {"assessing", "grading"} THEN (IF r.found = NoItem THEN 1 ELSE 2)
    ELSE IF r.at = "completed" THEN 1
    ELSE 0

\* A share of the user's row is outside the order: nobody waits for one.
Share(lock) == lock[1][1] = "user" /\ lock[2] = "key_share"

\* Whoever has reached this far may hold this lock.
InOrder(reached, lock) ==
    \/ Share(lock)
    \/ lock[1][1] = "path" /\ reached >= 1
    \/ lock[1][1] = "item" /\ reached >= 2
    \/ lock[1][1] = "user" /\ reached >= 3
    \/ lock[1][1] = "rating" /\ reached >= 4
    \/ lock[1][1] = "game" /\ reached >= 5

LockOrder == \A t \in Submits : \A lock \in held[t] : InOrder(Reached(tx[t]), lock)

LEMMA ReachedRange == ASSUME NEW r PROVE Reached(r) \in 0 .. 5
BY DEF Reached

LEMMA ReachedAt ==
    ASSUME NEW r
    PROVE  /\ r.at \in {"idle", "inserted"} => Reached(r) = 0
           /\ r.at = "completed" => Reached(r) = 1
           /\ r.at \in {"assessing", "grading"} =>
                Reached(r) = IF r.found = NoItem THEN 1 ELSE 2
           /\ r.at \in {"reviewed", "first"} => Reached(r) = 2
           /\ r.at = "user_locked" => Reached(r) = 3
           /\ r.at = "both_locked" => Reached(r) = 4
           /\ r.at = "done" => Reached(r) = 5
BY DEF Reached

LEMMA OrderGrows ==
    ASSUME NEW i \in 0 .. 5, NEW j \in 0 .. 5, i <= j, NEW lock, InOrder(i, lock)
    PROVE  InOrder(j, lock)
BY DEF InOrder

\* A step of t keeps the order if t does not go back and what it adds is in order.
LEMMA OrderKept ==
    ASSUME LockOrder, NEW t \in Submits, Others(t),
           Reached(tx[t]) <= Reached(tx'[t]),
           \A lock \in held'[t] \ held[t] : InOrder(Reached(tx'[t]), lock)
    PROVE  LockOrder'
<1>1. ASSUME NEW lock \in held'[t] PROVE InOrder(Reached(tx'[t]), lock)
  <2>1. CASE lock \in held[t]
    <3>1. InOrder(Reached(tx[t]), lock)
      BY <2>1 DEF LockOrder
    <3> QED
      BY <3>1, ReachedRange, OrderGrows
  <2>2. CASE lock \notin held[t]
    BY <2>2
  <2> QED
    BY <2>1, <2>2
<1>2. ASSUME NEW s \in Submits \ {t}, NEW lock \in held'[s]
      PROVE  InOrder(Reached(tx'[s]), lock)
  BY DEF LockOrder, Others
<1> QED
  BY <1>1, <1>2 DEF LockOrder

LEMMA RowKinds ==
    /\ \A u : UserRow(u)[1] = "user"
    /\ \A pair : PathKey(pair)[1] = "path"
    /\ \A pair : ItemRow(pair)[1] = "item"
    /\ \A p : ProblemRating(p)[1] = "rating"
    /\ \A pair : GameKey(pair)[1] = "game"
BY DEF UserRow, PathKey, ItemRow, ProblemRating, GameKey

\* The only lock a step may add.
LEMMA AddedLock ==
    ASSUME TypeInv, NEW t \in Submits, NEW row, NEW mode, Take(t, row, mode)
    PROVE  \A lock \in held'[t] \ held[t] : lock[1] = row /\ lock[2] = mode
BY TakeEffect DEF Adds

LEMMA OrderStep ==
    ASSUME TypeInv, LockOrder, [Next]_vars
    PROVE  LockOrder'
<1> DEFINE From(t) == Reached(tx[t])
           To(t) == Reached(tx'[t])
           Added(t) == held'[t] \ held[t]
<1>1. ASSUME NEW t \in Submits, NEW pair \in Pairs, NEW passed \in Outcomes,
             Begin(t, pair, passed)
      PROVE  LockOrder'
  <2> DEFINE row == UserRow(pair[1])
  <2>1. /\ Others(t)
        /\ tx[t].at = "idle"
        /\ tx'[t].at \in {"inserted", "completed"}
        /\ Adds(t, row, "key_share")
    BY <1>1, BeginEffect
  <2>2. row[1] = "user"
    BY RowKinds
  <2> HIDE DEF row
  <2>3. \A lock \in Added(t) : lock[1] = row /\ lock[2] = "key_share"
    BY <2>1 DEF Adds
  <2>4. \A lock \in Added(t) : InOrder(To(t), lock)
    BY ONLY <2>2, <2>3 DEF InOrder, Share
  <2>5. From(t) = 0
    BY ONLY <2>1, ReachedAt
  <2>6. From(t) <= To(t)
    BY ONLY <2>5, ReachedRange
  <2> QED
    BY ONLY <1>1, LockOrder, <2>1, <2>4, <2>6, OrderKept
<1>2. ASSUME NEW t \in Submits, Complete(t) PROVE LockOrder'
  <2> DEFINE row == PathKey(tx[t].pair)
  <2>1. /\ Others(t)
        /\ tx[t].at = "inserted"
        /\ tx'[t].at = "completed"
        /\ held'[t] = held[t] \/ Adds(t, row, "update")
    BY <1>2, CompleteEffect
  <2>2. row[1] = "path"
    BY RowKinds
  <2> HIDE DEF row
  <2>3. From(t) = 0 /\ To(t) = 1
    BY ONLY <2>1, ReachedAt
  <2>4. \A lock \in Added(t) : InOrder(To(t), lock)
    BY <2>1, <2>2, <2>3 DEF Adds, InOrder
  <2> QED
    BY <2>1, <2>3, <2>4, OrderKept
<1>3. ASSUME NEW t \in Submits, RecordSubmission(t) PROVE LockOrder'
  <2> DEFINE row == ItemRow(tx[t].pair)
  <2>1. Others(t)
    BY <1>3, ReviewSteps DEF Reviews
  <2>2. row[1] = "item"
    BY RowKinds
  <2>3. \/ /\ tx[t].at = "completed"
           /\ \/ tx'[t].at = "reviewed"
              \/ /\ tx'[t].at \in {"assessing", "grading"}
                 /\ \/ tx'[t].found # NoItem
                    \/ held' = held
        \/ /\ tx[t].at = "assessing"
           /\ \/ tx'[t].at = "grading" /\ tx'[t].found = tx[t].found
              \/ tx'[t].at = "reviewed"
           /\ held' = held
        \/ /\ tx[t].at = "grading"
           /\ tx'[t].at = "reviewed"
    <3>1. CASE FindNothing(t)
      BY <1>3, <3>1, FindNothingEffect DEF Review
    <3>2. CASE FindItem(t)
      BY <1>3, <3>2, FindItemEffect DEF Review
    <3>3. CASE LeaveItem(t)
      BY <1>3, <3>3, LeaveItemEffect
    <3>4. CASE Assess(t)
      BY <1>3, <3>4, AssessEffect
    <3>5. CASE UpdateItem(t)
      BY <1>3, <3>5, UpdateItemEffect
    <3>6. CASE InsertItem(t)
      BY <1>3, <3>6, InsertItemEffect
    <3>7. CASE InsertNothing(t)
      BY <1>3, <3>7, InsertNothingEffect
    <3> QED
      BY <1>3, <3>1, <3>2, <3>3, <3>4, <3>5, <3>6, <3>7 DEF RecordSubmission
  <2>4. held' = held \/ Adds(t, row, "update")
    BY <1>3, ReviewSteps, TakeEffect
  <2>5. /\ From(t) \in 0 .. 5 /\ To(t) \in 0 .. 5
        /\ From(t) <= To(t)
        /\ held' = held \/ To(t) = 2
    <3>1. CASE tx[t].at = "completed"
      <4>1. From(t) = 1
        BY ONLY <3>1, ReachedAt
      <4>2. To(t) \in {1, 2} /\ (held' = held \/ To(t) = 2)
        BY ONLY <2>3, <3>1, ReachedAt
      <4> QED
        BY ONLY <4>1, <4>2
    <3>2. CASE tx[t].at = "assessing"
      <4>1. From(t) = IF tx[t].found = NoItem THEN 1 ELSE 2
        BY ONLY <3>2, ReachedAt
      <4>2. held' = held /\ (To(t) = From(t) \/ To(t) = 2)
        BY ONLY <2>3, <3>2, <4>1, ReachedAt
      <4> QED
        BY ONLY <4>1, <4>2
    <3>3. CASE tx[t].at = "grading"
      <4>1. From(t) = IF tx[t].found = NoItem THEN 1 ELSE 2
        BY ONLY <3>3, ReachedAt
      <4>2. To(t) = 2
        BY ONLY <2>3, <3>3, ReachedAt
      <4> QED
        BY ONLY <4>1, <4>2
    <3> QED
      BY ONLY <2>3, <3>1, <3>2, <3>3
  <2> HIDE DEF row
  <2>6. \A lock \in Added(t) : InOrder(To(t), lock)
    BY <2>2, <2>4, <2>5 DEF Adds, InOrder
  <2> QED
    BY <1>3, <2>1, <2>5, <2>6, OrderKept
<1>4. ASSUME NEW t \in Submits, RecordRatedGame(t) PROVE LockOrder'
  <2>1. Others(t)
    BY <1>4, RateSteps DEF Rates
  <2>2. CASE CountSubmissions(t)
    <3>1. tx[t].at = "reviewed" /\ tx'[t].at \in {"first", "done"} /\ held' = held
      BY <1>4, <2>2, CountSubmissionsEffect
    <3>2. From(t) = 2 /\ To(t) \in {2, 5}
      BY ONLY <3>1, ReachedAt
    <3>3. From(t) <= To(t) /\ Added(t) = {}
      BY ONLY <3>1, <3>2
    <3> QED
      BY ONLY <1>4, LockOrder, <2>1, <3>3, OrderKept
  <2>3. CASE LockUser(t)
    <3> DEFINE row == UserRow(tx[t].pair[1])
    <3>1. /\ tx[t].at = "first" /\ tx'[t].at = "user_locked"
          /\ Take(t, row, "no_key_update")
      BY <1>4, <2>3, LockUserEffect
    <3>2. row[1] = "user"
      BY RowKinds
    <3> HIDE DEF row
    <3>3. From(t) = 2 /\ To(t) = 3
      BY ONLY <3>1, ReachedAt
    <3>4. Adds(t, row, "no_key_update")
      BY <1>4, <3>1, TakeEffect
    <3>5. \A lock \in Added(t) : lock[1] = row
      BY <3>4 DEF Adds
    <3>6. From(t) <= To(t) /\ \A lock \in Added(t) : InOrder(To(t), lock)
      BY ONLY <3>2, <3>3, <3>5 DEF InOrder
    <3> QED
      BY ONLY <1>4, LockOrder, <2>1, <3>6, OrderKept
  <2>4. CASE LockProblem(t)
    <3> DEFINE row == ProblemRating(tx[t].pair[2])
    <3>1. /\ tx[t].at = "user_locked" /\ tx'[t].at = "both_locked"
          /\ Take(t, row, "update")
      BY <1>4, <2>4, LockProblemEffect
    <3>2. row[1] = "rating"
      BY RowKinds
    <3> HIDE DEF row
    <3>3. From(t) = 3 /\ To(t) = 4
      BY ONLY <3>1, ReachedAt
    <3>4. Adds(t, row, "update")
      BY <1>4, <3>1, TakeEffect
    <3>5. \A lock \in Added(t) : lock[1] = row
      BY <3>4 DEF Adds
    <3>6. From(t) <= To(t) /\ \A lock \in Added(t) : InOrder(To(t), lock)
      BY ONLY <3>2, <3>3, <3>5 DEF InOrder
    <3> QED
      BY ONLY <1>4, LockOrder, <2>1, <3>6, OrderKept
  <2>5. CASE ClaimGame(t)
    <3> DEFINE row == GameKey(tx[t].pair)
    <3>1. /\ tx[t].at = "both_locked" /\ tx'[t].at = "done"
          /\ Take(t, row, "update")
      BY <1>4, <2>5, ClaimGameEffect
    <3>2. row[1] = "game"
      BY RowKinds
    <3> HIDE DEF row
    <3>3. From(t) = 4 /\ To(t) = 5
      BY ONLY <3>1, ReachedAt
    <3>4. Adds(t, row, "update")
      BY <1>4, <3>1, TakeEffect
    <3>5. \A lock \in Added(t) : lock[1] = row
      BY <3>4 DEF Adds
    <3>6. From(t) <= To(t) /\ \A lock \in Added(t) : InOrder(To(t), lock)
      BY ONLY <3>2, <3>3, <3>5 DEF InOrder
    <3> QED
      BY ONLY <1>4, LockOrder, <2>1, <3>6, OrderKept
  <2>6. CASE LoseGame(t)
    <3>1. tx[t].at = "both_locked" /\ tx'[t].at = "done" /\ held' = held
      BY <1>4, <2>6, LoseGameEffect
    <3>2. From(t) = 4 /\ To(t) = 5
      BY ONLY <3>1, ReachedAt
    <3>3. From(t) <= To(t) /\ Added(t) = {}
      BY ONLY <3>1, <3>2
    <3> QED
      BY ONLY <1>4, LockOrder, <2>1, <3>3, OrderKept
  <2> QED
    BY <1>4, <2>2, <2>3, <2>4, <2>5, <2>6 DEF RecordRatedGame
<1>5. ASSUME NEW t \in Submits, Commit(t) \/ Rollback(t) PROVE LockOrder'
  <2>1. Others(t) /\ held'[t] = {}
    BY <1>5, CommitEffect, RollbackEffect
  <2> QED
    BY <1>5, <2>1 DEF LockOrder, Others
<1>6. ASSUME Outside PROVE LockOrder'
  BY <1>6, OutsideEffect DEF LockOrder
<1> QED
  BY <1>1, <1>2, <1>3, <1>4, <1>5, <1>6, StepCases

\* Whoever is waited for is further on: the next statement of t wants a lock of a
\* place it has not reached.
LEMMA WaitsForward ==
    ASSUME TypeInv, LockOrder, NEW t \in Submits, NEW s \in Submits, WaitsFor(t, s)
    PROVE  Reached(tx[t]) < Reached(tx[s])
<1> DEFINE pair == tx[t].pair
           far == Reached(tx[s])
<1>1. far \in 0 .. 5
  BY ReachedRange
<1>2. ASSUME NEW row, NEW mode, s \in Blockers(t, row, mode)
      PROVE  \E lock \in held[s] :
                lock[1] = row /\ Conflict(mode, lock[2]) /\ InOrder(far, lock)
  BY <1>2 DEF Blockers, LockOrder
<1> HIDE DEF far
<1>3. CASE tx[t].at = "inserted" /\ s \in Blockers(t, PathKey(pair), "update")
  <2> DEFINE row == PathKey(pair)
  <2>1. PICK lock \in held[s] : lock[1] = row /\ InOrder(far, lock)
    BY <1>2, <1>3
  <2>2. row[1] = "path"
    BY RowKinds
  <2> HIDE DEF row
  <2>3. far >= 1
    BY ONLY <2>1, <2>2 DEF InOrder, Share
  <2>4. Reached(tx[t]) = 0
    BY ONLY <1>3, ReachedAt
  <2> QED
    BY ONLY <1>1, <2>3, <2>4 DEF far
<1>4. CASE /\ \/ tx[t].at = "completed"
              \/ tx[t].at = "grading" /\ tx[t].found = NoItem
           /\ s \in Blockers(t, ItemRow(pair), "update")
  <2> DEFINE row == ItemRow(pair)
  <2>1. PICK lock \in held[s] : lock[1] = row /\ InOrder(far, lock)
    BY <1>2, <1>4
  <2>2. row[1] = "item"
    BY RowKinds
  <2> HIDE DEF row
  <2>3. far >= 2
    BY ONLY <2>1, <2>2 DEF InOrder, Share
  <2>4. Reached(tx[t]) = 1
    BY ONLY <1>4, ReachedAt
  <2> QED
    BY ONLY <1>1, <2>3, <2>4 DEF far
<1>5. CASE tx[t].at = "first" /\ s \in Blockers(t, UserRow(pair[1]), UserLockMode)
  <2> DEFINE row == UserRow(pair[1])
  <2>1. PICK lock \in held[s] :
          lock[1] = row /\ Conflict(UserLockMode, lock[2]) /\ InOrder(far, lock)
    BY <1>2, <1>5
  <2>2. row[1] = "user"
    BY RowKinds
  <2>3. lock[2] # "key_share"
    BY ONLY <2>1 DEF Conflict, UserLockMode
  <2> HIDE DEF row
  <2>4. far >= 3
    BY ONLY <2>1, <2>2, <2>3 DEF InOrder, Share
  <2>5. Reached(tx[t]) = 2
    BY ONLY <1>5, ReachedAt
  <2> QED
    BY ONLY <1>1, <2>4, <2>5 DEF far
<1>6. CASE tx[t].at = "user_locked" /\ s \in Blockers(t, ProblemRating(pair[2]), "update")
  <2> DEFINE row == ProblemRating(pair[2])
  <2>1. PICK lock \in held[s] : lock[1] = row /\ InOrder(far, lock)
    BY <1>2, <1>6
  <2>2. row[1] = "rating"
    BY RowKinds
  <2> HIDE DEF row
  <2>3. far >= 4
    BY ONLY <2>1, <2>2 DEF InOrder, Share
  <2>4. Reached(tx[t]) = 3
    BY ONLY <1>6, ReachedAt
  <2> QED
    BY ONLY <1>1, <2>3, <2>4 DEF far
<1>7. CASE tx[t].at = "both_locked" /\ s \in Blockers(t, GameKey(pair), "update")
  <2> DEFINE row == GameKey(pair)
  <2>1. PICK lock \in held[s] : lock[1] = row /\ InOrder(far, lock)
    BY <1>2, <1>7
  <2>2. row[1] = "game"
    BY RowKinds
  <2> HIDE DEF row
  <2>3. far >= 5
    BY ONLY <2>1, <2>2 DEF InOrder, Share
  <2>4. Reached(tx[t]) = 4
    BY ONLY <1>7, ReachedAt
  <2> QED
    BY ONLY <1>1, <2>3, <2>4 DEF far
<1> QED
  BY <1>3, <1>4, <1>5, <1>6, <1>7 DEF WaitsFor

\* In a circle there would be no one furthest on.
LEMMA NoCircle == ASSUME TypeInv, LockOrder PROVE NeverDeadlocked
<1> SUFFICES ASSUME NEW circle \in SUBSET Submits, NEW c \in circle,
                    \A t \in circle : \E s \in circle : WaitsFor(t, s)
             PROVE  FALSE
  BY DEF NeverDeadlocked
<1> DEFINE far == [t \in circle |-> Reached(tx[t])]
<1>1. \A t \in circle : far[t] \in 0 .. 5
  BY ReachedRange
<1>2. \A t \in circle : \E s \in circle : far[t] < far[s]
  BY WaitsForward
<1> HIDE DEF far
<1>3. \E t \in circle : far[t] >= 1
  BY <1>1, <1>2
<1>4. \E t \in circle : far[t] >= 2
  BY ONLY <1>1, <1>2, <1>3
<1>5. \E t \in circle : far[t] >= 3
  BY ONLY <1>1, <1>2, <1>4
<1>6. \E t \in circle : far[t] >= 4
  BY ONLY <1>1, <1>2, <1>5
<1>7. \E t \in circle : far[t] >= 5
  BY ONLY <1>1, <1>2, <1>6
<1> QED
  BY ONLY <1>1, <1>2, <1>7

\* No Submits ever wait for each other in a circle, however many run at once: this
\* is what taking FOR NO KEY UPDATE on the user, and the locks in one order, is for.
THEOREM NoDeadlock == Spec => []NeverDeadlocked
<1>1. Init => TypeInv /\ LockOrder
  BY InitTypeInv DEF Init, LockOrder
<1>2. TypeInv /\ LockOrder /\ [Next]_vars => (TypeInv /\ LockOrder)'
  BY OrderStep, TypeStep
<1>3. TypeInv /\ LockOrder => NeverDeadlocked
  BY NoCircle
<1> QED
  BY <1>1, <1>2, <1>3, PTL DEF Spec

------------------------------------------------------------------------------
(* One rated game: the locks exclude each other *)

Exclusive ==
    \A s, t \in Submits : s # t =>
        \A a \in held[s], b \in held[t] : a[1] = b[1] => ~Conflict(a[2], b[2])

\* What locks a step takes or gives back.
LEMMA LockMoves ==
    ASSUME TypeInv, [Next]_vars
    PROVE  \/ held' = held
           \/ \E t \in Submits, row \in Rows :
                 \E mode \in {"key_share", "no_key_update", "update"} : Take(t, row, mode)
           \/ \E t \in Submits : held' = [held EXCEPT ![t] = {}]
<1>1. \A t \in Submits : tx[t].at \notin {"idle", "rolled_back"} => tx[t].pair \in Pairs
  BY DEF TypeInv, PairKnown
<1>2. ASSUME NEW t \in Submits, NEW pair \in Pairs, NEW passed \in Outcomes,
             Begin(t, pair, passed)
      PROVE  \E row \in Rows : Take(t, row, "key_share")
  BY <1>2, RowTypes DEF Begin
<1>3. ASSUME NEW t \in Submits, Complete(t)
      PROVE  held' = held \/ \E row \in Rows : Take(t, row, "update")
  <2>1. tx[t].pair \in Pairs
    BY <1>1, <1>3, CompleteEffect
  <2> QED
    BY <1>3, <2>1, RowTypes DEF Complete, MarkCompleted, AlreadyCompleted
<1>4. ASSUME NEW t \in Submits, RecordSubmission(t)
      PROVE  held' = held \/ \E row \in Rows : Take(t, row, "update")
  <2>1. tx[t].pair \in Pairs
    BY <1>1, <1>4, ReviewSteps
  <2> QED
    BY <1>4, <2>1, RowTypes, ReviewSteps
<1>5. ASSUME NEW t \in Submits, RecordRatedGame(t)
      PROVE  held' = held \/ \E row \in Rows, mode \in {"no_key_update", "update"} :
                Take(t, row, mode)
  <2>1. tx[t].pair \in Pairs
    BY <1>1, <1>5, RateSteps
  <2> QED
    BY <1>5, <2>1, RowTypes, RateSteps
<1>6. ASSUME NEW t \in Submits, Commit(t) \/ Rollback(t)
      PROVE  held' = [held EXCEPT ![t] = {}]
  BY <1>6 DEF Commit, Rollback
<1>7. ASSUME Outside PROVE held' = held
  BY <1>7, OutsideEffect
<1> QED
  BY <1>2, <1>3, <1>4, <1>5, <1>6, <1>7, StepCases

LEMMA ExclusiveStep == ASSUME TypeInv, Exclusive, [Next]_vars PROVE Exclusive'
<1>1. held \in [Submits -> SUBSET Locks]
  BY DEF TypeInv, TypeOK
<1>2. CASE held' = held
  BY <1>2 DEF Exclusive
<1>3. ASSUME NEW t \in Submits, NEW row, NEW mode, Take(t, row, mode) PROVE Exclusive'
  <2>1. Adds(t, row, mode) /\ \A s \in Submits \ {t} : held'[s] = held[s]
    BY <1>3, TakeEffect
  <2>2. \A s \in Submits \ {t} : \A b \in held[s] : b[1] = row => ~Conflict(mode, b[2])
    BY <1>3 DEF Take, Free, Blockers
  <2>3. \A a \in held'[t] : a \in held[t] \/ (a[1] = row /\ a[2] = mode)
    BY <2>1 DEF Adds
  <2>4. ASSUME NEW s \in Submits \ {t}, NEW a \in held'[t], NEW b \in held'[s], a[1] = b[1]
        PROVE  ~Conflict(a[2], b[2])
    <3>1. b \in held[s]
      BY <2>1
    <3>2. CASE a \in held[t]
      BY <2>4, <3>1, <3>2 DEF Exclusive
    <3>3. CASE a[1] = row /\ a[2] = mode
      BY <2>2, <2>4, <3>1, <3>3
    <3> QED
      BY <2>3, <3>2, <3>3
  <2>5. \A m, n : Conflict(m, n) => Conflict(n, m)
    BY DEF Conflict
  <2>6. ASSUME NEW r \in Submits, NEW s \in Submits, r # s,
               NEW a \in held'[r], NEW b \in held'[s], a[1] = b[1]
        PROVE  ~Conflict(a[2], b[2])
    <3>1. CASE r = t
      BY <2>4, <2>6, <3>1
    <3>2. CASE s = t
      BY <2>4, <2>5, <2>6, <3>2
    <3>3. CASE r # t /\ s # t
      BY <2>1, <2>6, <3>3 DEF Exclusive
    <3> QED
      BY <3>1, <3>2, <3>3
  <2> QED
    BY <2>6 DEF Exclusive
<1>4. ASSUME NEW t \in Submits, held' = [held EXCEPT ![t] = {}] PROVE Exclusive'
  BY <1>1, <1>4 DEF Exclusive
<1> QED
  BY <1>2, <1>3, <1>4, LockMoves

\* A Submit that has claimed the rated game.
Claims(r) == r.at = "done" /\ r.rated

HasUser(r) == r.at \in {"user_locked", "both_locked"} \/ Claims(r)

HasProblem(r) == r.at = "both_locked" \/ Claims(r)

\* What a Submit knows of the ratings holds, by the locks it has on them.
Own(t) ==
    /\ tx[t].rated => tx[t].at = "done"
    /\ HasUser(tx[t]) =>
          /\ <<UserRow(tx[t].pair[1]), "no_key_update">> \in held[t]
          /\ tx[t].before[1] = userGames[tx[t].pair[1]]
    /\ HasProblem(tx[t]) =>
          /\ <<ProblemRating(tx[t].pair[2]), "update">> \in held[t]
          /\ tx[t].before[2] = problemGames[tx[t].pair[2]]
    /\ Claims(tx[t]) =>
          /\ <<GameKey(tx[t].pair), "update">> \in held[t]
          /\ GameOf(tx[t].pair) = {}
    /\ tx[t].at = "done" /\ ~tx[t].rated => Submitted(tx[t].pair) # {}

GamesStored == \A g \in games : g \in Submits /\ tx[g].at = "committed"

\* RatedOnce, without counting.
OneGame ==
    \A pair \in Pairs :
        IF Submitted(pair) = {} THEN GameOf(pair) = {} ELSE \E g : GameOf(pair) = {g}

RatingInv == (\A t \in Submits : Own(t)) /\ GamesStored /\ OneGame /\ RatingsKept

\* A Submit that is not stored, before or after its step, is no part of the games.
LEMMA GamesSame ==
    ASSUME GamesStored, NEW t \in Submits, Others(t),
           tx[t].at # "committed", tx'[t].at # "committed", games' = games
    PROVE  /\ GamesStored'
           /\ \A g \in games : tx'[g] = tx[g]
           /\ \A pair : GameOf(pair)' = GameOf(pair) /\ Submitted(pair)' = Submitted(pair)
<1>1. \A g \in games : g \in Submits \ {t} /\ tx'[g] = tx[g]
  BY DEF GamesStored, Others
<1>2. GamesStored'
  BY <1>1 DEF GamesStored
<1>3. \A pair : GameOf(pair)' = GameOf(pair)
  BY <1>1 DEF GameOf
<1>4. \A pair : Submitted(pair)' = Submitted(pair)
  BY DEF Submitted, Others
<1> QED
  BY <1>1, <1>2, <1>3, <1>4

LEMMA RatingKept ==
    ASSUME TypeInv, RatingInv, NEW t \in Submits, Others(t),
           tx[t].at # "committed", tx'[t].at # "committed",
           UNCHANGED <<games, userGames, problemGames>>, Own(t)'
    PROVE  RatingInv'
<1>1. /\ GamesStored'
      /\ \A g \in games : tx'[g] = tx[g]
      /\ \A pair : GameOf(pair)' = GameOf(pair) /\ Submitted(pair)' = Submitted(pair)
  BY GamesSame DEF RatingInv
<1>2. ASSUME NEW s \in Submits \ {t} PROVE Own(s)'
  <2>1. Own(s) /\ tx'[s] = tx[s] /\ held'[s] = held[s]
    BY DEF RatingInv, Others
  <2> QED
    BY <1>1, <2>1 DEF Own, HasUser, HasProblem, Claims
<1>3. OneGame'
  BY <1>1 DEF RatingInv, OneGame
<1>4. RatingsKept'
  <2>1. \A u : {g \in games' : tx'[g].pair[1] = u} = {g \in games : tx[g].pair[1] = u}
    BY <1>1
  <2>2. \A p : {g \in games' : tx'[g].pair[2] = p} = {g \in games : tx[g].pair[2] = p}
    BY <1>1
  <2> QED
    BY <2>1, <2>2 DEF RatingInv, RatingsKept
<1> QED
  BY <1>1, <1>2, <1>3, <1>4 DEF RatingInv

\* Before the rated game a Submit knows nothing of it.
LEMMA OwnNothing ==
    ASSUME NEW t \in Submits, tx'[t].rated = FALSE,
           tx'[t].at \notin {"user_locked", "both_locked", "done"}
    PROVE  Own(t)'
BY DEF Own, HasUser, HasProblem, Claims

LEMMA RecordRatedGameOwn ==
    ASSUME TypeInv, RatingInv, NEW t \in Submits, RecordRatedGame(t)
    PROVE  Own(t)'
<1> DEFINE pair == tx[t].pair
<1>1. Own(t) /\ GamesStored /\ tx[t] \in Transactions
  BY DEF RatingInv, TypeInv, TypeOK
<1>2. Rates(t) /\ tx'[t].pair = pair
  BY RateSteps DEF Rates, Steady
<1>3. games' = games /\ userGames' = userGames /\ problemGames' = problemGames
  BY <1>2 DEF Rates, Tables
<1>4. tx[t].at # "committed" /\ tx'[t].at # "committed" /\ tx[t].rated \in BOOLEAN
        /\ (tx[t].at # "done" => tx[t].rated = FALSE)
  BY <1>1, RateSteps, TxFields DEF Own
<1>5. GameOf(pair)' = GameOf(pair) /\ Submitted(pair)' = Submitted(pair)
  BY <1>1, <1>2, <1>3, <1>4, GamesSame DEF Rates
<1>6. CASE CountSubmissions(t)
  <2>1. /\ tx[t].at = "reviewed"
        /\ tx'[t].at = (IF Submitted(pair) = {} THEN "first" ELSE "done")
        /\ tx'[t].rated = tx[t].rated
    BY <1>6, CountSubmissionsEffect
  <2> QED
    BY <1>2, <1>4, <1>5, <2>1 DEF Own, HasUser, HasProblem, Claims
<1>7. CASE LockUser(t)
  <2> DEFINE row == UserRow(pair[1])
  <2>1. /\ tx'[t].at = "user_locked"
        /\ tx[t].at = "first"
        /\ tx'[t].before = <<userGames[pair[1]], 0>>
        /\ tx'[t].rated = tx[t].rated
        /\ Take(t, row, "no_key_update")
    BY <1>7, LockUserEffect
  <2> HIDE DEF row
  <2>2. <<row, "no_key_update">> \in held'[t]
    BY <2>1, TakeEffect DEF Adds
  <2>3. tx'[t].rated = FALSE /\ tx'[t].before[1] = userGames[pair[1]]
    BY <1>4, <2>1
  <2> QED
    BY <1>2, <1>3, <2>1, <2>2, <2>3 DEF Own, HasUser, HasProblem, Claims, row
<1>8. CASE LockProblem(t)
  <2> DEFINE row == ProblemRating(pair[2])
  <2>1. /\ tx[t].at = "user_locked"
        /\ tx'[t].at = "both_locked"
        /\ tx'[t].before = <<tx[t].before[1], problemGames[pair[2]]>>
        /\ tx'[t].rated = tx[t].rated
        /\ Take(t, row, "update")
    BY <1>8, LockProblemEffect
  <2> HIDE DEF row
  <2>2. held[t] \subseteq held'[t] /\ <<row, "update">> \in held'[t]
    BY <2>1, TakeEffect DEF Adds
  <2>3. /\ <<UserRow(pair[1]), "no_key_update">> \in held[t]
        /\ tx[t].before[1] = userGames[pair[1]]
    BY <1>1, <2>1 DEF Own, HasUser
  <2>4. /\ tx'[t].rated = FALSE
        /\ tx'[t].before[1] = userGames[pair[1]]
        /\ tx'[t].before[2] = problemGames[pair[2]]
    BY <1>4, <2>1, <2>3
  <2> QED
    BY <1>2, <1>3, <2>1, <2>2, <2>3, <2>4 DEF Own, HasUser, HasProblem, Claims, row
<1>9. CASE ClaimGame(t)
  <2> DEFINE row == GameKey(pair)
  <2>1. /\ tx[t].at = "both_locked"
        /\ tx'[t].at = "done"
        /\ tx'[t].before = tx[t].before
        /\ tx'[t].rated = TRUE
        /\ Take(t, row, "update")
        /\ GameOf(pair) = {}
    BY <1>9, ClaimGameEffect
  <2> HIDE DEF row
  <2>2. held[t] \subseteq held'[t] /\ <<row, "update">> \in held'[t]
    BY <2>1, TakeEffect DEF Adds
  <2>3. /\ <<UserRow(pair[1]), "no_key_update">> \in held[t]
        /\ tx[t].before[1] = userGames[pair[1]]
        /\ <<ProblemRating(pair[2]), "update">> \in held[t]
        /\ tx[t].before[2] = problemGames[pair[2]]
    BY <1>1, <2>1 DEF Own, HasUser, HasProblem
  <2> QED
    BY <1>2, <1>3, <1>5, <2>1, <2>2, <2>3 DEF Own, HasUser, HasProblem, Claims, row
<1>10. CASE LoseGame(t)
  <2>1. /\ tx[t].at = "both_locked"
        /\ tx'[t].at = "done"
        /\ tx'[t].rated = tx[t].rated
        /\ GameOf(pair) # {}
    BY <1>10, LoseGameEffect
  <2>2. Submitted(pair) # {}
    BY <1>1, <2>1 DEF GamesStored, GameOf, Submitted
  <2> QED
    BY <1>2, <1>4, <1>5, <2>1, <2>2 DEF Own, HasUser, HasProblem, Claims
<1> QED
  BY <1>6, <1>7, <1>8, <1>9, <1>10 DEF RecordRatedGame

LEMMA GamesFinite ==
    ASSUME TypeInv, NEW S \in SUBSET games
    PROVE  IsFiniteSet(S)
<1>1. S \in SUBSET Submits
  BY DEF TypeInv, TypeOK
<1> QED
  BY <1>1, FS_Subset, SubmissionsAssumption DEF SubmissionsAssumption

\* What a commit does to the games of each user and problem.
LEMMA CommitGames ==
    ASSUME TypeInv, RatingInv, NEW t \in Submits, Commit(t)
    PROVE  /\ t \notin games
           /\ games' = IF tx[t].rated THEN games \cup {t} ELSE games
           /\ \A g \in games : g \in Submits \ {t} /\ tx'[g] = tx[g]
           /\ tx'[t].pair = tx[t].pair
           /\ GamesStored'
           /\ \A pair : Submitted(pair)' =
                 IF pair = tx[t].pair THEN Submitted(pair) \cup {t} ELSE Submitted(pair)
           /\ \A pair : GameOf(pair)' =
                 IF pair = tx[t].pair /\ tx[t].rated THEN GameOf(pair) \cup {t} ELSE GameOf(pair)
<1>1. /\ Others(t) /\ tx'[t].pair = tx[t].pair
      /\ tx[t].at = "done" /\ tx'[t].at = "committed"
  BY CommitEffect DEF Steady
<1>2. games' = IF tx[t].rated THEN games \cup {t} ELSE games
  BY DEF Commit
<1>3. \A g \in games : g \in Submits \ {t} /\ tx'[g] = tx[g]
  BY <1>1 DEF RatingInv, GamesStored, Others
<1>4. GamesStored'
  BY <1>1, <1>2, <1>3 DEF RatingInv, GamesStored
<1>5. \A pair : Submitted(pair)' =
         IF pair = tx[t].pair THEN Submitted(pair) \cup {t} ELSE Submitted(pair)
  BY <1>1 DEF Submitted, Others
<1>6. \A pair : GameOf(pair)' =
         IF pair = tx[t].pair /\ tx[t].rated THEN GameOf(pair) \cup {t} ELSE GameOf(pair)
  BY <1>1, <1>2, <1>3 DEF GameOf
<1> QED
  BY <1>1, <1>2, <1>3, <1>4, <1>5, <1>6

\* A Submit that is stored knows nothing of the rated game any more.
LEMMA CommitUnrated ==
    ASSUME TypeInv, RatingInv, NEW t \in Submits, Commit(t), ~tx[t].rated
    PROVE  RatingInv'
<1>1. Own(t) /\ tx[t].at = "done" /\ Others(t)
  BY CommitEffect DEF RatingInv
<1>2. Submitted(tx[t].pair) # {}
  BY <1>1 DEF Own
<1>3. games' = games /\ userGames' = userGames /\ problemGames' = problemGames
  BY DEF Commit
<1>4. /\ GamesStored'
      /\ \A g \in games : tx'[g] = tx[g]
      /\ \A pair : GameOf(pair)' = GameOf(pair)
      /\ \A pair : (Submitted(pair) = {})' <=> (Submitted(pair) = {})
  BY <1>2, CommitGames
<1>5. Own(t)'
  BY CommitEffect, OwnNothing
<1>6. ASSUME NEW s \in Submits \ {t} PROVE Own(s)'
  <2>1. Own(s) /\ tx'[s] = tx[s] /\ held'[s] = held[s]
    BY <1>1 DEF RatingInv, Others
  <2> QED
    BY <1>3, <1>4, <2>1 DEF Own, HasUser, HasProblem, Claims
<1>7. OneGame'
  BY <1>4 DEF RatingInv, OneGame
<1>8. RatingsKept'
  <2>1. \A u : {g \in games' : tx'[g].pair[1] = u} = {g \in games : tx[g].pair[1] = u}
    BY <1>3, <1>4
  <2>2. \A p : {g \in games' : tx'[g].pair[2] = p} = {g \in games : tx[g].pair[2] = p}
    BY <1>3, <1>4
  <2> QED
    BY <1>3, <2>1, <2>2 DEF RatingInv, RatingsKept
<1> QED
  BY <1>4, <1>5, <1>6, <1>7, <1>8 DEF RatingInv

\* The winner of the claim: its ratings are those it read, by its locks, and no other
\* Submit can have read them since.
LEMMA CommitRated ==
    ASSUME TypeInv, Exclusive, RatingInv, NEW t \in Submits, Commit(t), tx[t].rated
    PROVE  RatingInv'
<1>1. Own(t) /\ tx[t].at = "done" /\ Others(t) /\ Claims(tx[t])
  BY CommitEffect DEF RatingInv, Claims
<1>pair. PICK pair \in Pairs : tx[t].pair = pair
  BY <1>1 DEF TypeInv, PairKnown
<1> DEFINE user == pair[1]
           problem == pair[2]
<1>2. user \in Users /\ problem \in Problems
  BY RowTypes
<1>3. /\ <<UserRow(user), "no_key_update">> \in held[t]
      /\ <<ProblemRating(problem), "update">> \in held[t]
      /\ <<GameKey(pair), "update">> \in held[t]
      /\ tx[t].before[1] = userGames[user]
      /\ tx[t].before[2] = problemGames[problem]
      /\ GameOf(pair) = {}
  BY <1>1, <1>pair DEF Own, HasUser, HasProblem
<1>4. /\ t \notin games
      /\ games' = games \cup {t}
      /\ \A g \in games : tx'[g] = tx[g]
      /\ tx'[t].pair = pair
      /\ GamesStored'
      /\ \A p : Submitted(p)' = IF p = pair THEN Submitted(p) \cup {t} ELSE Submitted(p)
      /\ \A p : GameOf(p)' = IF p = pair THEN GameOf(p) \cup {t} ELSE GameOf(p)
  BY <1>pair, CommitGames
<1>5. /\ userGames' = [userGames EXCEPT ![user] = userGames[user] + 1]
      /\ problemGames' = [problemGames EXCEPT ![problem] = problemGames[problem] + 1]
  BY <1>3, <1>pair DEF Commit
<1>6. userGames \in [Users -> Nat] /\ problemGames \in [Problems -> Nat]
  BY DEF TypeInv, TypeOK
<1> HIDE DEF user, problem
<1>7. OneGame'
  <2>1. GameOf(pair)' = {t} /\ Submitted(pair)' # {}
    BY <1>3, <1>4
  <2>2. \A p : p # pair => GameOf(p)' = GameOf(p) /\ Submitted(p)' = Submitted(p)
    BY <1>4
  <2> QED
    BY <2>1, <2>2 DEF RatingInv, OneGame
<1>8. RatingsKept'
  <2> DEFINE ByUser(u) == {g \in games : tx[g].pair[1] = u}
             OnProblem(p) == {g \in games : tx[g].pair[2] = p}
  <2>1. \A u : {g \in games' : tx'[g].pair[1] = u} =
                 IF u = user THEN ByUser(u) \cup {t} ELSE ByUser(u)
    BY <1>4, <1>pair DEF user
  <2>2. \A p : {g \in games' : tx'[g].pair[2] = p} =
                 IF p = problem THEN OnProblem(p) \cup {t} ELSE OnProblem(p)
    BY <1>4, <1>pair DEF problem
  <2>3. Cardinality(ByUser(user) \cup {t}) = Cardinality(ByUser(user)) + 1
    <3>1. IsFiniteSet(ByUser(user)) /\ t \notin ByUser(user)
      BY <1>4, GamesFinite
    <3> QED
      BY <3>1, FS_AddElement
  <2>4. Cardinality(OnProblem(problem) \cup {t}) = Cardinality(OnProblem(problem)) + 1
    <3>1. IsFiniteSet(OnProblem(problem)) /\ t \notin OnProblem(problem)
      BY <1>4, GamesFinite
    <3> QED
      BY <3>1, FS_AddElement
  <2>5. /\ \A u \in Users : userGames[u] = Cardinality(ByUser(u))
        /\ \A p \in Problems : problemGames[p] = Cardinality(OnProblem(p))
    BY DEF RatingInv, RatingsKept
  <2> HIDE DEF ByUser, OnProblem
  <2>6. ASSUME NEW u \in Users
        PROVE  userGames'[u] = Cardinality({g \in games' : tx'[g].pair[1] = u})
    BY <1>2, <1>5, <1>6, <2>1, <2>3, <2>5
  <2>7. ASSUME NEW p \in Problems
        PROVE  problemGames'[p] = Cardinality({g \in games' : tx'[g].pair[2] = p})
    BY <1>2, <1>5, <1>6, <2>2, <2>4, <2>5
  <2> QED
    BY <2>6, <2>7 DEF RatingsKept
<1>9. Own(t)'
  BY CommitEffect, OwnNothing
<1>10. ASSUME NEW s \in Submits \ {t} PROVE Own(s)'
  <2>1. Own(s) /\ tx'[s] = tx[s] /\ held'[s] = held[s]
    BY <1>1 DEF RatingInv, Others
  <2>2. PICK other : tx[s].pair = other
    OBVIOUS
  <2>3. /\ HasUser(tx[s]) =>
              <<UserRow(other[1]), "no_key_update">> \in held[s]
        /\ HasProblem(tx[s]) =>
              <<ProblemRating(other[2]), "update">> \in held[s]
        /\ Claims(tx[s]) =>
              <<GameKey(other), "update">> \in held[s]
    BY <2>1, <2>2 DEF Own
  <2>4. \A row, m : m \in {"no_key_update", "update"} /\ <<row, m>> \in held[t] =>
          <<row, m>> \notin held[s]
    <3>1. \A a \in held[t], b \in held[s] : a[1] = b[1] => ~Conflict(a[2], b[2])
      BY DEF Exclusive
    <3>2. Conflict("no_key_update", "no_key_update") /\ Conflict("update", "update")
      BY DEF Conflict
    <3> QED
      BY <3>1, <3>2
  <2>5. HasUser(tx[s]) => other[1] # user
    BY <1>3, <2>3, <2>4
  <2>6. HasProblem(tx[s]) => other[2] # problem
    BY <1>3, <2>3, <2>4
  <2>7. Claims(tx[s]) => other # pair
    BY <1>3, <2>3, <2>4
  <2>8. /\ HasUser(tx[s]) => userGames'[other[1]] = userGames[other[1]]
        /\ HasProblem(tx[s]) => problemGames'[other[2]] = problemGames[other[2]]
        /\ Claims(tx[s]) => GameOf(other)' = GameOf(other)
        /\ Submitted(other) # {} => Submitted(other)' # {}
    <3>1. HasUser(tx[s]) => userGames'[other[1]] = userGames[other[1]]
      BY <1>5, <1>6, <2>5
    <3>2. HasProblem(tx[s]) => problemGames'[other[2]] = problemGames[other[2]]
      BY <1>5, <1>6, <2>6
    <3>3. Claims(tx[s]) => GameOf(other)' = GameOf(other)
      BY <1>4, <2>7
    <3>4. Submitted(other) # {} => Submitted(other)' # {}
      BY <1>4
    <3> QED
      BY <3>1, <3>2, <3>3, <3>4
  <2> QED
    BY <2>1, <2>2, <2>8 DEF Own, HasUser, HasProblem, Claims
<1> QED
  BY <1>4, <1>7, <1>8, <1>9, <1>10 DEF RatingInv

LEMMA RatingStep ==
    ASSUME TypeInv, Exclusive, RatingInv, [Next]_vars
    PROVE  RatingInv'
<1>1. \A t \in Submits : tx[t].rated \in BOOLEAN /\ (tx[t].at # "done" => tx[t].rated = FALSE)
  BY TxFields DEF TypeInv, TypeOK, RatingInv, Own
<1>2. ASSUME NEW t \in Submits, NEW pair \in Pairs, NEW passed \in Outcomes,
             Begin(t, pair, passed)
      PROVE  RatingInv'
  <2>1. /\ Others(t) /\ tx[t].at = "idle"
        /\ tx'[t].at \in {"inserted", "completed"} /\ tx'[t].rated = FALSE
        /\ UNCHANGED <<games, userGames, problemGames>>
    BY <1>2, BeginEffect DEF Tables
  <2> QED
    BY <1>2, <2>1, OwnNothing, RatingKept
<1>3. ASSUME NEW t \in Submits, Complete(t) PROVE RatingInv'
  <2>1. /\ Others(t) /\ tx[t].at = "inserted" /\ tx'[t].at = "completed"
        /\ tx'[t].rated = FALSE
        /\ UNCHANGED <<games, userGames, problemGames>>
    BY <1>1, <1>3, CompleteEffect DEF Tables
  <2> QED
    BY <1>3, <2>1, OwnNothing, RatingKept
<1>4. ASSUME NEW t \in Submits, RecordSubmission(t) PROVE RatingInv'
  <2>1. /\ Others(t) /\ tx[t].at \in {"completed", "assessing", "grading"}
        /\ tx'[t].at \in {"assessing", "grading", "reviewed"}
        /\ tx'[t].rated = FALSE
        /\ UNCHANGED <<games, userGames, problemGames>>
    BY <1>1, <1>4, ReviewSteps DEF Reviews, Tables
  <2> QED
    BY <1>4, <2>1, OwnNothing, RatingKept
<1>5. ASSUME NEW t \in Submits, RecordRatedGame(t) PROVE RatingInv'
  <2>1. /\ Others(t)
        /\ tx[t].at \in {"reviewed", "first", "user_locked", "both_locked"}
        /\ tx'[t].at \in {"first", "user_locked", "both_locked", "done"}
        /\ UNCHANGED <<games, userGames, problemGames>>
    BY <1>5, RateSteps DEF Rates, Tables
  <2> QED
    BY <1>5, <2>1, RecordRatedGameOwn, RatingKept
<1>6. ASSUME NEW t \in Submits, Commit(t) PROVE RatingInv'
  BY <1>6, CommitRated, CommitUnrated
<1>7. ASSUME NEW t \in Submits, Rollback(t) PROVE RatingInv'
  <2>1. /\ Others(t) /\ tx[t].at # "committed"
        /\ tx'[t].at = "rolled_back" /\ tx'[t].rated = FALSE
        /\ UNCHANGED <<games, userGames, problemGames>>
    BY <1>7, RollbackEffect DEF Tables, Finished
  <2> QED
    BY <1>7, <2>1, OwnNothing, RatingKept
<1>8. ASSUME Outside PROVE RatingInv'
  <2>1. UNCHANGED <<tx, held, games, userGames, problemGames>>
    BY <1>8, OutsideEffect
  <2>2. \A pair : GameOf(pair)' = GameOf(pair) /\ Submitted(pair)' = Submitted(pair)
    BY <2>1 DEF GameOf, Submitted
  <2>3. \A t \in Submits : Own(t)'
    BY <2>1, <2>2 DEF RatingInv, Own, HasUser, HasProblem, Claims
  <2>4. GamesStored' /\ OneGame' /\ RatingsKept'
    BY <2>1, <2>2 DEF RatingInv, GamesStored, OneGame, RatingsKept
  <2> QED
    BY <2>3, <2>4 DEF RatingInv
<1> QED
  BY <1>2, <1>3, <1>4, <1>5, <1>6, <1>7, <1>8, StepCases

LEMMA RatingInit == Init => Exclusive /\ RatingInv
<1> SUFFICES ASSUME Init PROVE Exclusive /\ RatingInv
  OBVIOUS
<1>1. \A t \in Submits : tx[t].at = "idle" /\ tx[t].rated = FALSE /\ held[t] = {}
  BY IdleType DEF Init, Idle, Fresh
<1>2. games = {} /\ userGames = [u \in Users |-> 0] /\ problemGames = [p \in Problems |-> 0]
  BY DEF Init
<1>3. Exclusive
  BY <1>1 DEF Exclusive
<1>4. \A t \in Submits : Own(t)
  BY <1>1 DEF Own, HasUser, HasProblem, Claims
<1>5. GamesStored
  BY <1>2 DEF GamesStored
<1>6. OneGame
  BY <1>1, <1>2 DEF OneGame, GameOf, Submitted
<1>7. RatingsKept
  <2>1. \A u : {g \in games : tx[g].pair[1] = u} = {}
    BY <1>2
  <2>2. \A p : {g \in games : tx[g].pair[2] = p} = {}
    BY <1>2
  <2> QED
    BY <1>2, <2>1, <2>2, FS_EmptySet DEF RatingsKept
<1> QED
  BY <1>3, <1>4, <1>5, <1>6, <1>7 DEF RatingInv

RatingIInv == TypeInv /\ Exclusive /\ RatingInv

LEMMA RatingInvariant == Spec => []RatingIInv
<1>1. Init => RatingIInv
  BY InitTypeInv, RatingInit DEF RatingIInv
<1>2. RatingIInv /\ [Next]_vars => RatingIInv'
  BY TypeStep, ExclusiveStep, RatingStep DEF RatingIInv
<1> QED
  BY <1>1, <1>2, PTL DEF Spec

\* A user's Submits of a problem are one rated game, however many run at once and
\* whichever are rolled back.
THEOREM OneRatedGame == Spec => []RatedOnce
<1>1. RatingIInv => RatedOnce
  BY FS_EmptySet, FS_Singleton DEF RatingIInv, RatingInv, OneGame, RatedOnce
<1> QED
  BY <1>1, RatingInvariant, PTL

\* No rated game is lost from a user's or a problem's ratings: those a Submit read are
\* still the stored ones when it writes them back.
THEOREM NoLostRating == Spec => []RatingsKept
<1>1. RatingIInv => RatingsKept
  BY DEF RatingIInv, RatingInv
<1> QED
  BY <1>1, RatingInvariant, PTL
=============================================================================

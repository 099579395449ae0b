---------------------------- MODULE ReviewProofs ----------------------------
(***************************************************************************)
(* Theorems about the review queue in Submissions, for any numbers of      *)
(* Submits, users and problems: gradings of an item are serial, passes are *)
(* graded on time, and a failed attempt is graded once.                    *)
(***************************************************************************)
EXTENDS SubmissionsProofs

------------------------------------------------------------------------------
(* The item a Submit grades is its own until it commits *)

Open(r) == r.at \notin Finished

\* A Submit that has found the item, or is inserting it, has it locked, and the
\* stored item is the one it found.
ItemHeld(t) ==
    Open(tx[t]) /\ (tx[t].found # NoItem \/ tx[t].write # NoItem) =>
        /\ <<ItemRow(tx[t].pair), "update">> \in held[t]
        /\ items[tx[t].pair] = tx[t].found

ItemInv == \A t \in Submits : ItemHeld(t)

LEMMA ItemKept ==
    ASSUME ItemInv, NEW t \in Submits, Others(t), items' = items, ItemHeld(t)'
    PROVE  ItemInv'
BY DEF ItemInv, ItemHeld, Others

\* Locks only grow before the end, so what was held still is.
LEMMA ItemGrows ==
    ASSUME ItemInv, NEW t \in Submits, Others(t), items' = items, Open(tx[t]),
           tx'[t].pair = tx[t].pair, tx'[t].found = tx[t].found,
           tx'[t].write = tx[t].write \/ tx[t].found # NoItem,
           held[t] \subseteq held'[t]
    PROVE  ItemInv'
<1>1. ItemHeld(t)'
  BY DEF ItemInv, ItemHeld
<1> QED
  BY <1>1, ItemKept

\* A Submit that has just locked the item it found, or found missing.
LEMMA ItemTaken ==
    ASSUME TypeInv, ItemInv, NEW t \in Submits, Others(t), items' = items,
           tx'[t].pair = tx[t].pair, tx'[t].found = items[tx[t].pair],
           Take(t, ItemRow(tx[t].pair), "update")
    PROVE  ItemInv'
<1> DEFINE row == ItemRow(tx[t].pair)
<1>1. Take(t, row, "update")
  OBVIOUS
<1> HIDE DEF row
<1>2. <<row, "update">> \in held'[t]
  BY <1>1, TakeEffect DEF Adds
<1>3. ItemHeld(t)'
  BY <1>2 DEF ItemHeld, row
<1> QED
  BY <1>3, ItemKept

LEMMA HeldGrows ==
    ASSUME TypeInv, NEW t \in Submits,
           Complete(t) \/ RecordSubmission(t) \/ RecordRatedGame(t)
    PROVE  held[t] \subseteq held'[t]
<1>1. ASSUME NEW row, NEW mode, Take(t, row, mode) PROVE held[t] \subseteq held'[t]
  BY <1>1, TakeEffect DEF Adds
<1>2. CASE Complete(t)
  BY <1>2, CompleteEffect DEF Adds
<1>3. CASE RecordSubmission(t)
  BY <1>1, <1>3, ReviewSteps
<1>4. CASE RecordRatedGame(t)
  BY <1>1, <1>4, RateSteps
<1> QED
  BY <1>2, <1>3, <1>4

\* Two open Submits never both have the item of one user and problem.
LEMMA ItemExclusive ==
    ASSUME Exclusive, NEW s \in Submits, NEW t \in Submits, s # t, NEW pair,
           <<ItemRow(pair), "update">> \in held[s]
    PROVE  <<ItemRow(pair), "update">> \notin held[t]
<1>1. \A a \in held[s], b \in held[t] : a[1] = b[1] => ~Conflict(a[2], b[2])
  BY DEF Exclusive
<1>2. Conflict("update", "update")
  BY DEF Conflict
<1> QED
  BY <1>1, <1>2

\* Nothing outside the transactions changes an item that one of them has locked.
LEMMA OutsideItems ==
    ASSUME TypeInv, Outside, NEW s \in Submits, NEW pair,
           <<ItemRow(pair), "update">> \in held[s]
    PROVE  items'[pair] = items[pair]
<1>1. items \in [Pairs -> ReviewItems \cup {NoItem}]
  BY DEF TypeInv, TypeOK
<1>2. ASSUME NEW q \in Pairs, NEW item, RowUnlocked(ItemRow(q)),
             items' = [items EXCEPT ![q] = item]
      PROVE  items'[pair] = items[pair]
  <2>1. q # pair
    BY <1>2 DEF RowUnlocked
  <2> QED
    BY <1>1, <1>2, <2>1
<1>3. ASSUME NEW q \in Pairs, AddToQueue(q) PROVE items'[pair] = items[pair]
  BY <1>2, <1>3 DEF AddToQueue
<1>4. ASSUME NEW q \in Pairs, RemoveFromQueue(q) PROVE items'[pair] = items[pair]
  BY <1>2, <1>4 DEF RemoveFromQueue
<1>5. ASSUME NEW q \in Pairs, NEW shown \in 1 .. HintCount, ViewHints(q, shown)
      PROVE  items'[pair] = items[pair]
  BY <1>5 DEF ViewHints
<1>6. CASE NextDay \/ UNCHANGED vars
  BY <1>6 DEF NextDay, vars
<1> QED
  BY <1>3, <1>4, <1>5, <1>6 DEF Outside

LEMMA ItemStep ==
    ASSUME TypeInv, Exclusive, ItemInv, [Next]_vars
    PROVE  ItemInv'
<1>1. ASSUME NEW t \in Submits, NEW pair \in Pairs, NEW passed \in Outcomes,
             Begin(t, pair, passed)
      PROVE  ItemInv'
  <2>1. Others(t) /\ items' = items /\ tx'[t].found = NoItem /\ tx'[t].write = NoItem
    BY <1>1, BeginEffect DEF Tables
  <2>2. ItemHeld(t)'
    BY <2>1 DEF ItemHeld
  <2> QED
    BY <1>1, <2>1, <2>2, ItemKept
<1>2. ASSUME NEW t \in Submits, Complete(t) PROVE ItemInv'
  <2>1. /\ Others(t) /\ items' = items
        /\ tx[t].at = "inserted" /\ tx'[t].pair = tx[t].pair
        /\ tx'[t].found = tx[t].found /\ tx'[t].write = tx[t].write
    BY <1>2, CompleteEffect DEF Tables, Steady
  <2>2. Open(tx[t])
    BY <2>1 DEF Open, Finished
  <2> QED
    BY <1>2, <2>1, <2>2, HeldGrows, ItemGrows
<1>3. ASSUME NEW t \in Submits, RecordSubmission(t) PROVE ItemInv'
  <2>1. /\ Others(t) /\ items' = items /\ tx'[t].pair = tx[t].pair
        /\ Open(tx[t]) /\ held[t] \subseteq held'[t]
    BY <1>3, ReviewSteps, HeldGrows DEF Reviews, Tables, Steady, Open, Finished
  <2>2. ASSUME tx'[t].found = tx[t].found,
               tx'[t].write = tx[t].write \/ tx[t].found # NoItem
        PROVE  ItemInv'
    BY <1>3, <2>1, <2>2, ItemGrows
  <2>3. ASSUME tx'[t].found = items[tx[t].pair], Take(t, ItemRow(tx[t].pair), "update")
        PROVE  ItemInv'
    BY <1>3, <2>1, <2>3, ItemTaken
  <2>4. CASE FindNothing(t)
    BY <1>3, <2>2, <2>4, FindNothingEffect
  <2>5. CASE FindItem(t)
    BY <1>3, <2>3, <2>5, FindItemEffect
  <2>6. CASE LeaveItem(t)
    BY <1>3, <2>3, <2>6, LeaveItemEffect
  <2>7. CASE Assess(t)
    BY <1>3, <2>2, <2>7, AssessEffect
  <2>8. CASE UpdateItem(t)
    BY <1>3, <2>2, <2>8, UpdateItemEffect
  <2>9. CASE InsertItem(t)
    BY <1>3, <2>3, <2>9, InsertItemEffect
  <2>10. CASE InsertNothing(t)
    BY <1>3, <2>2, <2>10, InsertNothingEffect
  <2> QED
    BY <1>3, <2>4, <2>5, <2>6, <2>7, <2>8, <2>9, <2>10 DEF RecordSubmission
<1>4. ASSUME NEW t \in Submits, RecordRatedGame(t) PROVE ItemInv'
  <2>1. /\ Others(t) /\ items' = items /\ tx'[t].pair = tx[t].pair
        /\ Open(tx[t]) /\ held[t] \subseteq held'[t]
        /\ tx'[t].found = tx[t].found /\ tx'[t].write = tx[t].write
    BY <1>4, RateSteps, HeldGrows DEF Rates, Tables, Steady, Open, Finished
  <2> QED
    BY <1>4, <2>1, ItemGrows
<1>5. ASSUME NEW t \in Submits, Commit(t) PROVE ItemInv'
  <2>1. Others(t) /\ tx[t].at = "done" /\ tx'[t].at = "committed"
    BY <1>5, CommitEffect
  <2>2. ItemHeld(t)'
    BY <2>1 DEF ItemHeld, Open, Finished
  <2>3. ASSUME NEW s \in Submits \ {t} PROVE ItemHeld(s)'
    <3>1. ItemHeld(s) /\ tx'[s] = tx[s] /\ held'[s] = held[s]
      BY <1>5, <2>1 DEF ItemInv, Others
    <3>2. PICK pair : tx[s].pair = pair
      OBVIOUS
    <3>3. tx[t].write # NoItem => <<ItemRow(tx[t].pair), "update">> \in held[t]
      BY <1>5, <2>1 DEF ItemInv, ItemHeld, Open, Finished
    <3>4. <<ItemRow(pair), "update">> \in held[s] => items'[pair] = items[pair]
      <4>1. CASE tx[t].write = NoItem
        BY <1>5, <4>1 DEF Commit
      <4>2. CASE tx[t].write # NoItem
        <5>1. <<ItemRow(pair), "update">> \in held[s] => pair # tx[t].pair
          BY <1>5, <3>3, <4>2, ItemExclusive
        <5>2. items' = [items EXCEPT ![tx[t].pair] = tx[t].write]
          BY <1>5, <4>2 DEF Commit
        <5>3. items \in [Pairs -> ReviewItems \cup {NoItem}]
          BY DEF TypeInv, TypeOK
        <5> QED
          BY <5>1, <5>2, <5>3
      <4> QED
        BY <4>1, <4>2
    <3> QED
      BY <3>1, <3>2, <3>4 DEF ItemHeld
  <2> QED
    BY <1>5, <2>2, <2>3 DEF ItemInv
<1>6. ASSUME NEW t \in Submits, Rollback(t) PROVE ItemInv'
  <2>1. Others(t) /\ items' = items /\ tx'[t].at = "rolled_back"
    BY <1>6, RollbackEffect DEF Tables
  <2>2. ItemHeld(t)'
    BY <2>1 DEF ItemHeld, Open, Finished
  <2> QED
    BY <1>6, <2>1, <2>2, ItemKept
<1>7. ASSUME Outside PROVE ItemInv'
  <2>1. UNCHANGED <<tx, held>>
    BY <1>7, OutsideEffect
  <2>2. ASSUME NEW s \in Submits, NEW pair, <<ItemRow(pair), "update">> \in held[s]
        PROVE  items'[pair] = items[pair]
    BY <1>7, <2>2, OutsideItems
  <2> QED
    BY <2>1, <2>2 DEF ItemInv, ItemHeld
<1> QED
  BY <1>1, <1>2, <1>3, <1>4, <1>5, <1>6, <1>7, StepCases

LEMMA ItemInit == Init => ItemInv
BY IdleType DEF Init, ItemInv, ItemHeld, Open, Finished

GradingIInv == TypeInv /\ Exclusive /\ ItemInv

LEMMA GradingInvariant == Spec => []GradingIInv
<1>1. Init => GradingIInv
  BY InitTypeInv, RatingInit, ItemInit DEF GradingIInv
<1>2. GradingIInv /\ [Next]_vars => GradingIInv'
  BY TypeStep, ExclusiveStep, ItemStep DEF GradingIInv
<1> QED
  BY <1>1, <1>2, PTL DEF Spec

LEMMA CommitFound ==
    ASSUME ItemInv, NEW t \in Submits, Commit(t), tx[t].write # NoItem
    PROVE  items[tx[t].pair] = tx[t].found
<1>1. Open(tx[t])
  BY DEF Commit, Open, Finished
<1> QED
  BY <1>1 DEF ItemInv, ItemHeld

\* Gradings of one item are serial: each replaces exactly the item it was computed
\* from, whatever else committed since the Submit read it.
THEOREM SerialGradings == Spec => GradingsKept
<1> DEFINE A == \A t \in Submits :
                    Commit(t) /\ tx[t].write # NoItem => items[tx[t].pair] = tx[t].found
<1>1. GradingIInv => A
  BY CommitFound DEF GradingIInv
<1>2. GradingIInv /\ [Next]_vars => [A]_vars
  BY <1>1
<1>3. Spec => [][A]_vars
  BY <1>2, GradingInvariant, PTL DEF Spec
<1> QED
  BY <1>3 DEF GradingsKept

------------------------------------------------------------------------------
(* Passes are graded when the item is due *)

LEMMA DayGrows == ASSUME TypeInv, [Next]_vars PROVE day \in Nat /\ day' \in Nat /\ day' >= day
<1>1. day \in Nat /\ day' \in Nat
  BY TypeStep, SubmissionsAssumption DEF TypeInv, TypeOK
<1>2. ASSUME NEW t \in Submits, NEW pair \in Pairs, NEW passed \in Outcomes,
             Begin(t, pair, passed)
      PROVE  day' = day
  BY <1>2 DEF Begin
<1>3. ASSUME NEW t \in Submits, Complete(t) PROVE day' = day
  BY <1>3 DEF Complete, MarkCompleted, AlreadyCompleted
<1>4. ASSUME NEW t \in Submits, RecordSubmission(t) PROVE day' = day
  BY <1>4 DEF RecordSubmission, FindNothing, FindItem, LeaveItem, Assess, UpdateItem, InsertItem,
              InsertNothing
<1>5. ASSUME NEW t \in Submits, RecordRatedGame(t) PROVE day' = day
  BY <1>5, RateSteps DEF Rates
<1>6. ASSUME NEW t \in Submits, Commit(t) \/ Rollback(t) PROVE day' = day
  BY <1>6, CommitEffect, RollbackEffect
<1>7. ASSUME Outside PROVE day' >= day
  BY <1>1, <1>7 DEF Outside, AddToQueue, RemoveFromQueue, ViewHints, NextDay, vars
<1> QED
  BY <1>1, <1>2, <1>3, <1>4, <1>5, <1>6, <1>7, StepCases

\* What a Submit has found and written before its review: nothing.
Blank(r) == r.found = NoItem /\ r.write = NoItem /\ r.counted = {}

\* A pass grades an item that was due on the day the Submit read.
Due(t) ==
    /\ Open(tx[t]) => tx[t].today <= day
    /\ tx[t].at \in {"inserted", "completed"} => Blank(tx[t])
    /\ /\ Open(tx[t]) /\ tx[t].passed /\ tx[t].found # NoItem
       /\ tx[t].at \in {"assessing", "grading"} \/ tx[t].write # NoItem
       => tx[t].found.due <= tx[t].today

DueInv == \A t \in Submits : Due(t)

LEMMA DueKept ==
    ASSUME TypeInv, DueInv, [Next]_vars, NEW t \in Submits, Others(t), Due(t)'
    PROVE  DueInv'
<1>1. day \in Nat /\ day' \in Nat /\ day' >= day
  BY DayGrows
<1>2. ASSUME NEW s \in Submits \ {t} PROVE Due(s)'
  <2>1. Due(s) /\ tx'[s] = tx[s] /\ tx[s].today \in Nat
    BY TxFields, SubmissionsAssumption DEF DueInv, Others, TypeInv, TypeOK
  <2>2. Open(tx[s]) => tx[s].today <= day'
    BY <1>1, <2>1 DEF Due
  <2> QED
    BY <2>1, <2>2 DEF Due
<1> QED
  BY <1>2 DEF DueInv

\* A step of the review, or of the game, after which the item found is as it was.
LEMMA DueSame ==
    ASSUME TypeInv, DueInv, NEW t \in Submits, Open(tx[t]), day' = day,
           tx'[t].passed = tx[t].passed, tx'[t].today = tx[t].today,
           tx'[t].at \notin {"inserted", "completed"},
           \/ tx'[t].found = NoItem
           \/ /\ tx'[t].found = tx[t].found
              /\ tx'[t].at \in {"assessing", "grading"} \/ tx'[t].write # NoItem
                 => tx[t].at \in {"assessing", "grading"} \/ tx[t].write # NoItem
           \/ tx'[t].passed => tx'[t].found.due <= tx'[t].today
           \/ tx'[t].at \notin {"assessing", "grading"} /\ tx'[t].write = NoItem
    PROVE  Due(t)'
BY DEF DueInv, Due, Open

LEMMA DueStep ==
    ASSUME TypeInv, DueInv, [Next]_vars
    PROVE  DueInv'
<1>1. \A t \in Submits : Due(t)
  BY DEF DueInv
<1>2. ASSUME NEW t \in Submits, NEW pair \in Pairs, NEW passed \in Outcomes,
             Begin(t, pair, passed)
      PROVE  DueInv'
  <2>1. /\ Others(t) /\ day' = day /\ tx'[t].today = day
        /\ tx'[t].found = NoItem /\ tx'[t].write = NoItem /\ tx'[t].counted = {}
    BY <1>2, BeginEffect DEF Begin
  <2>2. Due(t)'
    BY <2>1, DayGrows DEF Due, Blank
  <2> QED
    BY <1>2, <2>1, <2>2, DueKept
<1>3. ASSUME NEW t \in Submits, Complete(t) PROVE DueInv'
  <2>1. /\ Others(t) /\ tx'[t].today = day /\ tx[t].at = "inserted"
        /\ tx'[t].found = tx[t].found /\ tx'[t].write = tx[t].write
        /\ tx'[t].counted = tx[t].counted
    BY <1>3, CompleteEffect
  <2>2. Blank(tx[t])
    BY <1>1, <1>3, <2>1 DEF Due
  <2>3. Due(t)'
    BY <2>1, <2>2, DayGrows DEF Due, Blank
  <2> QED
    BY <1>3, <2>1, <2>3, DueKept
<1>4. ASSUME NEW t \in Submits, RecordSubmission(t) PROVE DueInv'
  <2>1. /\ Others(t) /\ Open(tx[t]) /\ day' = day
        /\ tx'[t].passed = tx[t].passed /\ tx'[t].today = tx[t].today
        /\ tx'[t].at \in {"assessing", "grading", "reviewed"}
        /\ tx[t].at = "completed" => Blank(tx[t])
    <3>1. day' = day
      BY <1>4 DEF RecordSubmission, FindNothing, FindItem, LeaveItem, Assess, UpdateItem,
                  InsertItem, InsertNothing
    <3> QED
      BY <1>1, <1>4, <3>1, ReviewSteps DEF Reviews, Steady, Open, Finished, Due
  <2>2. \/ tx'[t].found = NoItem
        \/ /\ tx'[t].found = tx[t].found
           /\ tx'[t].at \in {"assessing", "grading"} \/ tx'[t].write # NoItem
              => tx[t].at \in {"assessing", "grading"} \/ tx[t].write # NoItem
        \/ tx'[t].passed => tx'[t].found.due <= tx'[t].today
        \/ tx'[t].at \notin {"assessing", "grading"} /\ tx'[t].write = NoItem
    <3>1. CASE FindNothing(t)
      BY <1>4, <2>1, <3>1, FindNothingEffect DEF Blank
    <3>2. CASE FindItem(t)
      BY <1>4, <2>1, <3>2, FindItemEffect DEF IsGraded
    <3>3. CASE LeaveItem(t)
      BY <1>4, <2>1, <3>3, LeaveItemEffect DEF Blank
    <3>4. CASE Assess(t)
      BY <1>4, <3>4, AssessEffect
    <3>5. CASE UpdateItem(t)
      BY <1>4, <3>5, UpdateItemEffect
    <3>6. CASE InsertItem(t)
      BY <1>4, <3>6, InsertItemEffect
    <3>7. CASE InsertNothing(t)
      BY <1>4, <3>7, InsertNothingEffect
    <3> QED
      BY <1>4, <3>1, <3>2, <3>3, <3>4, <3>5, <3>6, <3>7 DEF RecordSubmission
  <2>3. Due(t)'
    BY <1>4, <2>1, <2>2, DueSame
  <2> QED
    BY <1>4, <2>1, <2>3, DueKept
<1>5. ASSUME NEW t \in Submits, RecordRatedGame(t) PROVE DueInv'
  <2>1. /\ Others(t) /\ Open(tx[t]) /\ day' = day
        /\ tx'[t].passed = tx[t].passed /\ tx'[t].today = tx[t].today
        /\ tx'[t].at \in {"first", "user_locked", "both_locked", "done"}
        /\ tx'[t].found = tx[t].found /\ tx'[t].write = tx[t].write
    BY <1>5, RateSteps DEF Rates, Steady, Open, Finished
  <2>2. Due(t)'
    BY <1>5, <2>1, DueSame
  <2> QED
    BY <1>5, <2>1, <2>2, DueKept
<1>6. ASSUME NEW t \in Submits, Commit(t) \/ Rollback(t) PROVE DueInv'
  <2>1. Others(t) /\ tx'[t].at \in {"committed", "rolled_back"}
    BY <1>6, CommitEffect, RollbackEffect
  <2>2. Due(t)'
    BY <2>1 DEF Due, Open, Finished
  <2> QED
    BY <1>6, <2>1, <2>2, DueKept
<1>7. ASSUME Outside PROVE DueInv'
  <2>1. UNCHANGED tx
    BY <1>7, OutsideEffect
  <2>2. ASSUME NEW t \in Submits PROVE Due(t)'
    <3>1. Due(t) /\ tx[t].today \in Nat
      BY <1>1, TxFields, SubmissionsAssumption DEF TypeInv, TypeOK
    <3> QED
      BY <2>1, <3>1, DayGrows DEF Due
  <2> QED
    BY <2>2 DEF DueInv
<1> QED
  BY <1>2, <1>3, <1>4, <1>5, <1>6, <1>7, StepCases

LEMMA DueInit == Init => DueInv
<1>1. Init => \A t \in Submits : tx[t].at = "idle"
  BY IdleType DEF Init
<1> QED
  BY <1>1 DEF DueInv, Due, Open, Finished

PassIInv == GradingIInv /\ DueInv

LEMMA PassInvariant == Spec => []PassIInv
<1>1. Init => PassIInv
  BY InitTypeInv, RatingInit, ItemInit, DueInit DEF GradingIInv, PassIInv
<1>2. PassIInv /\ [Next]_vars => PassIInv'
  BY TypeStep, ExclusiveStep, ItemStep, DueStep DEF GradingIInv, PassIInv
<1> QED
  BY <1>1, <1>2, PTL DEF Spec

\* However many passes race over an item, each changes it only if it is due as it
\* stands when the change lands.
THEOREM PassesOnTime == Spec => PassGradedWhenDue
<1> DEFINE A == \A t \in Submits : Commit(t) /\ tx[t].passed /\ items[tx[t].pair] # NoItem =>
                    \/ items'[tx[t].pair] = items[tx[t].pair]
                    \/ items[tx[t].pair].due <= day
<1>1. PassIInv => A
  <2> SUFFICES ASSUME PassIInv, NEW t \in Submits, Commit(t), tx[t].passed,
                      items[tx[t].pair] # NoItem, tx[t].write # NoItem
               PROVE  items[tx[t].pair].due <= day
    BY DEF Commit
  <2>1. TypeInv /\ ItemInv /\ Due(t)
    BY DEF PassIInv, GradingIInv, DueInv
  <2>2. Open(tx[t])
    BY DEF Commit, Open, Finished
  <2>3. items[tx[t].pair] = tx[t].found
    BY <2>1, CommitFound
  <2>4. tx[t].found.due <= tx[t].today /\ tx[t].today <= day
    BY <2>1, <2>2, <2>3 DEF Due
  <2>5. tx[t].found.due \in Nat /\ tx[t].today \in Nat /\ day \in Nat
    <3>1. tx[t].found \in ReviewItems
      BY <2>1, <2>3, TxFields DEF TypeInv, TypeOK
    <3>2. tx[t].found.due \in Nat
      BY <3>1 DEF ReviewItems
    <3> QED
      BY <2>1, <3>2, TxFields, SubmissionsAssumption DEF TypeInv, TypeOK
  <2> QED
    BY <2>3, <2>4, <2>5
<1>2. PassIInv /\ [Next]_vars => [A]_vars
  BY <1>1
<1>3. Spec => [][A]_vars
  BY <1>2, PassInvariant, PTL DEF Spec
<1> QED
  BY <1>3 DEF PassGradedWhenDue

------------------------------------------------------------------------------
(* A failed attempt is graded once *)

LEMMA ClockGrows ==
    ASSUME TypeInv, [Next]_vars
    PROVE  \A pair \in Pairs : /\ clock[pair] \in Nat
                               /\ clock'[pair] \in Nat
                               /\ clock'[pair] >= clock[pair]
<1>1. clock \in [Pairs -> Nat] /\ clock' \in [Pairs -> Nat]
  BY TypeStep DEF TypeInv, TypeOK
<1>2. ASSUME NEW q \in Pairs, Tick(q)
      PROVE  \A pair \in Pairs : clock'[pair] >= clock[pair]
  BY <1>2, TickType
<1>3. ASSUME UNCHANGED clock PROVE \A pair \in Pairs : clock'[pair] >= clock[pair]
  BY <1>1, <1>3
<1>4. ASSUME NEW t \in Submits, NEW pair \in Pairs, NEW passed \in Outcomes,
             Begin(t, pair, passed)
      PROVE  Tick(pair)
  BY <1>4 DEF Begin
<1>5. ASSUME NEW t \in Submits, RecordSubmission(t)
      PROVE  UNCHANGED clock \/ \E q \in Pairs : Tick(q)
  <2>1. tx[t].pair \in Pairs
    BY <1>5, ReviewSteps DEF TypeInv, PairKnown
  <2> QED
    BY <1>5, <2>1, FindNothingEffect, FindItemEffect, LeaveItemEffect, AssessEffect,
       UpdateItemEffect, InsertItemEffect, InsertNothingEffect DEF RecordSubmission
<1>6. ASSUME NEW t \in Submits,
             Complete(t) \/ RecordRatedGame(t) \/ Commit(t) \/ Rollback(t)
      PROVE  UNCHANGED clock
  BY <1>6, CompleteEffect, RateSteps, CommitEffect, RollbackEffect DEF Rates
<1>7. ASSUME Outside PROVE UNCHANGED clock \/ \E q \in Pairs : Tick(q)
  BY <1>7 DEF Outside, AddToQueue, RemoveFromQueue, ViewHints, NextDay, vars
<1>8. \A pair \in Pairs : clock'[pair] >= clock[pair]
  BY <1>2, <1>3, <1>4, <1>5, <1>6, <1>7, StepCases
<1> QED
  BY <1>1, <1>8

\* What the steps between BEGIN and COMMIT have in common.
LEMMA InnerStep ==
    ASSUME TypeInv, NEW t \in Submits,
           Complete(t) \/ RecordSubmission(t) \/ RecordRatedGame(t)
    PROVE  /\ Others(t) /\ Steady(t)
           /\ Open(tx[t]) /\ Open(tx'[t])
           /\ items' = items
<1>1. CASE Complete(t)
  BY <1>1, CompleteEffect DEF Tables, Open, Finished
<1>2. CASE RecordSubmission(t)
  BY <1>2, ReviewSteps DEF Reviews, Tables, Open, Finished
<1>3. CASE RecordRatedGame(t)
  BY <1>3, RateSteps DEF Rates, Tables, Open, Finished
<1> QED
  BY <1>1, <1>2, <1>3

\* A stored submission never changes.
LEMMA CommittedStays ==
    ASSUME TypeInv, [Next]_vars, NEW s \in Submits, tx[s].at = "committed"
    PROVE  tx'[s] = tx[s]
<1>1. ASSUME NEW t \in Submits, Others(t), tx[t].at # "committed" PROVE tx'[s] = tx[s]
  BY <1>1 DEF Others
<1>2. ASSUME NEW t \in Submits, NEW pair \in Pairs, NEW passed \in Outcomes,
             Begin(t, pair, passed)
      PROVE  tx'[s] = tx[s]
  BY <1>1, <1>2, BeginEffect
<1>3. ASSUME NEW t \in Submits, Complete(t) \/ RecordSubmission(t) \/ RecordRatedGame(t)
      PROVE  tx'[s] = tx[s]
  BY <1>1, <1>3, InnerStep DEF Open, Finished
<1>4. ASSUME NEW t \in Submits, Commit(t) \/ Rollback(t) PROVE tx'[s] = tx[s]
  BY <1>1, <1>4, CommitEffect, RollbackEffect DEF Finished
<1>5. ASSUME Outside PROVE tx'[s] = tx[s]
  BY <1>5, OutsideEffect
<1> QED
  BY <1>2, <1>3, <1>4, <1>5, StepCases

\* A Submit began no later than the last stamp of its user and problem.
Stamped(t) ==
    tx[t].at \notin {"idle", "rolled_back"} => tx[t].begun <= clock[tx[t].pair]

\* Everything that graded the item began before n.
GradedBefore(pair, n) ==
    \A s \in Submits :
        tx[s].at = "committed" /\ tx[s].write # NoItem /\ tx[s].pair = pair => tx[s].begun < n

ItemStamped(pair) == items[pair] # NoItem => GradedBefore(pair, Since(items[pair]))

WriteStamped(t) ==
    Open(tx[t]) /\ tx[t].write # NoItem =>
        /\ tx[t].begun < tx[t].write.reviewed
        /\ GradedBefore(tx[t].pair, tx[t].write.reviewed)

AllStamped == \A t \in Submits : Stamped(t)

StampInv ==
    /\ AllStamped
    /\ \A pair \in Pairs : ItemStamped(pair)
    /\ \A t \in Submits : WriteStamped(t)

LEMMA StampedStep ==
    ASSUME TypeInv, AllStamped, [Next]_vars
    PROVE  AllStamped'
<1>1. ASSUME NEW s \in Submits, tx'[s] = tx[s] \/ Steady(s),
             tx[s].at \in {"idle", "rolled_back"} => tx'[s].at \in {"idle", "rolled_back"}
      PROVE  Stamped(s)'
  <2> SUFFICES ASSUME tx'[s].at \notin {"idle", "rolled_back"}
               PROVE  tx'[s].begun <= clock'[tx'[s].pair]
    BY DEF Stamped
  <2>1. tx[s].pair \in Pairs /\ tx[s].begun \in Nat /\ tx[s].begun <= clock[tx[s].pair]
    BY <1>1, TxFields DEF TypeInv, TypeOK, PairKnown, AllStamped, Stamped
  <2>2. tx'[s].pair = tx[s].pair /\ tx'[s].begun = tx[s].begun
    BY <1>1 DEF Steady
  <2>3. \A n \in Nat : n <= clock[tx[s].pair] => n <= clock'[tx[s].pair]
    BY <2>1, ClockGrows
  <2> QED
    BY <2>1, <2>2, <2>3
<1>2. ASSUME NEW t \in Submits, Others(t), Stamped(t)' PROVE AllStamped'
  BY <1>1, <1>2 DEF Others, AllStamped
<1>3. ASSUME NEW t \in Submits, NEW pair \in Pairs, NEW passed \in Outcomes,
             Begin(t, pair, passed)
      PROVE  AllStamped'
  <2>1. Others(t) /\ tx'[t].pair = pair /\ tx'[t].begun = clock'[pair]
    BY <1>3, BeginEffect
  <2>2. Stamped(t)'
    BY <2>1, ClockGrows DEF Stamped
  <2> QED
    BY <1>2, <1>3, <2>1, <2>2
<1>4. ASSUME NEW t \in Submits, Complete(t) \/ RecordSubmission(t) \/ RecordRatedGame(t)
      PROVE  AllStamped'
  BY <1>1, <1>2, <1>4, InnerStep DEF Open, Finished
<1>5. ASSUME NEW t \in Submits, Commit(t) PROVE AllStamped'
  BY <1>1, <1>2, <1>5, CommitEffect
<1>6. ASSUME NEW t \in Submits, Rollback(t) PROVE AllStamped'
  <2>1. Others(t) /\ Stamped(t)'
    BY <1>6, RollbackEffect DEF Stamped
  <2> QED
    BY <1>2, <1>6, <2>1
<1>7. ASSUME Outside PROVE AllStamped'
  BY <1>1, <1>7, OutsideEffect DEF AllStamped
<1> QED
  BY <1>3, <1>4, <1>5, <1>6, <1>7, StepCases

\* What has graded an item grows only with a commit that writes it.
LEMMA GradedKept ==
    ASSUME NEW t \in Submits, Others(t), tx'[t].at # "committed" \/ tx'[t].write = NoItem
    PROVE  \A pair, n : GradedBefore(pair, n) => GradedBefore(pair, n)'
BY DEF GradedBefore, Others

\* A stamp taken now is later than the beginning of every Submit.
LEMMA TickLater ==
    ASSUME TypeInv, AllStamped, NEW pair \in Pairs, Tick(pair)
    PROVE  /\ GradedBefore(pair, clock'[pair])
           /\ \A t \in Submits : tx[t].at \notin {"idle", "rolled_back"} /\ tx[t].pair = pair =>
                                     tx[t].begun < clock'[pair]
<1>1. clock[pair] \in Nat /\ clock'[pair] = clock[pair] + 1
  BY TickType DEF TypeInv, TypeOK
<1>2. ASSUME NEW t \in Submits, tx[t].at \notin {"idle", "rolled_back"}, tx[t].pair = pair
      PROVE  tx[t].begun < clock'[pair]
  <2>1. tx[t].begun \in Nat /\ tx[t].begun <= clock[pair]
    BY <1>2, TxFields DEF TypeInv, TypeOK, AllStamped, Stamped
  <2> QED
    BY <1>1, <2>1
<1> QED
  BY <1>2 DEF GradedBefore

LEMMA ItemStampedKept ==
    ASSUME NEW pair, ItemStamped(pair), items'[pair] = items[pair],
           \A n : GradedBefore(pair, n) => GradedBefore(pair, n)'
    PROVE  ItemStamped(pair)'
<1>1. PICK n : n = Since(items[pair])
  OBVIOUS
<1>2. n = Since(items'[pair])
  BY <1>1
<1>3. items'[pair] # NoItem => GradedBefore(pair, n)'
  BY <1>1 DEF ItemStamped
<1>4. ASSUME GradedBefore(pair, n)' PROVE GradedBefore(pair, Since(items[pair]))'
  BY <1>2, <1>4 DEF GradedBefore
<1> QED
  BY <1>3, <1>4 DEF ItemStamped

LEMMA WriteStampedKept ==
    ASSUME NEW s \in Submits, WriteStamped(s), Open(tx'[s]) => Open(tx[s]),
           tx'[s].pair = tx[s].pair, tx'[s].begun = tx[s].begun, tx'[s].write = tx[s].write,
           tx[s].write # NoItem =>
               \A n : GradedBefore(tx[s].pair, n) => GradedBefore(tx[s].pair, n)'
    PROVE  WriteStamped(s)'
<1>1. PICK n : n = tx[s].write.reviewed
  OBVIOUS
<1>2. PICK pair : pair = tx[s].pair
  OBVIOUS
<1>3. n = tx'[s].write.reviewed /\ pair = tx'[s].pair
  BY <1>1, <1>2
<1>4. Open(tx'[s]) /\ tx'[s].write # NoItem => tx[s].begun < n /\ GradedBefore(pair, n)'
  <2>1. GradedBefore(tx[s].pair, n)' => GradedBefore(pair, n)'
    BY <1>3 DEF GradedBefore
  <2> QED
    BY <1>1, <1>2, <2>1 DEF WriteStamped, GradedBefore
<1>5. ASSUME GradedBefore(pair, n)' PROVE GradedBefore(tx[s].pair, tx[s].write.reviewed)'
  BY <1>3, <1>5 DEF GradedBefore
<1> QED
  BY <1>3, <1>4, <1>5 DEF WriteStamped

\* A step after which nothing more has graded an item, and t has written nothing.
LEMMA StampKept ==
    ASSUME StampInv, NEW t \in Submits, Others(t), items' = items,
           tx'[t].at # "committed" \/ tx'[t].write = NoItem,
           WriteStamped(t)', AllStamped'
    PROVE  StampInv'
<1>1. \A pair, n : GradedBefore(pair, n) => GradedBefore(pair, n)'
  BY GradedKept
<1>2. ASSUME NEW pair \in Pairs PROVE ItemStamped(pair)'
  BY <1>1, ItemStampedKept DEF StampInv
<1>3. ASSUME NEW s \in Submits \ {t} PROVE WriteStamped(s)'
  <2>1. PICK pair : pair = tx[s].pair
    OBVIOUS
  <2>2. tx'[s] = tx[s] /\ WriteStamped(s)
    BY DEF Others, StampInv
  <2>3. \A n : GradedBefore(tx[s].pair, n) => GradedBefore(tx[s].pair, n)'
    BY <1>1, <2>1, <2>2 DEF GradedBefore
  <2> QED
    BY <2>2, <2>3, WriteStampedKept
<1> QED
  BY <1>2, <1>3 DEF StampInv

LEMMA WroteNow ==
    ASSUME TypeInv, NEW t \in Submits, RecordSubmission(t)
    PROVE  \/ tx'[t].write = tx[t].write
           \/ Tick(tx[t].pair) /\ tx'[t].write.reviewed = clock'[tx[t].pair]
<1>1. \A state, created : Graded(t, state, created).reviewed = clock'[tx[t].pair]
  BY DEF Graded, ReviewedAt
<1> HIDE DEF Graded
<1> QED
  BY <1>1, FindNothingEffect, FindItemEffect, LeaveItemEffect, AssessEffect, UpdateItemEffect,
     InsertItemEffect, InsertNothingEffect DEF RecordSubmission

\* A transaction's step that does not write the item.
LEMMA StampSame ==
    ASSUME TypeInv, StampInv, NEW t \in Submits,
           Complete(t) \/ RecordSubmission(t) \/ RecordRatedGame(t),
           tx'[t].write = tx[t].write, AllStamped'
    PROVE  StampInv'
<1>1. Others(t) /\ Steady(t) /\ Open(tx[t]) /\ Open(tx'[t]) /\ items' = items
  BY InnerStep
<1>2. tx'[t].at # "committed"
  BY <1>1 DEF Open, Finished
<1>3. \A n : GradedBefore(tx[t].pair, n) => GradedBefore(tx[t].pair, n)'
  BY <1>1, <1>2 DEF GradedBefore, Others, Steady
<1>4. WriteStamped(t)'
  BY <1>1, <1>3, WriteStampedKept DEF StampInv, Steady
<1> QED
  BY <1>1, <1>2, <1>4, StampKept

\* A step that writes the item, with a stamp taken now.
LEMMA StampWrite ==
    ASSUME TypeInv, StampInv, NEW t \in Submits, RecordSubmission(t),
           Tick(tx[t].pair), tx'[t].write.reviewed = clock'[tx[t].pair], AllStamped'
    PROVE  StampInv'
<1>1. Others(t) /\ Steady(t) /\ Open(tx[t]) /\ Open(tx'[t]) /\ items' = items
  BY InnerStep
<1>2. tx'[t].at # "committed" /\ tx[t].at \notin {"idle", "rolled_back"}
  BY <1>1 DEF Open, Finished
<1>3. PICK pair : pair = tx[t].pair
  OBVIOUS
<1>4. PICK n : n = clock'[tx[t].pair]
  OBVIOUS
<1>5. pair \in Pairs
  BY <1>2, <1>3 DEF TypeInv, PairKnown
<1>6. GradedBefore(pair, n) /\ tx[t].begun < n
  BY <1>2, <1>3, <1>4, <1>5, TickLater DEF StampInv
<1>7. GradedBefore(pair, n)'
  BY <1>1, <1>2, <1>6, GradedKept
<1>8. pair = tx'[t].pair /\ n = tx'[t].write.reviewed /\ tx'[t].begun < n
  BY <1>1, <1>3, <1>4, <1>6 DEF Steady
<1>9. WriteStamped(t)'
  BY <1>7, <1>8 DEF WriteStamped, GradedBefore
<1> QED
  BY <1>1, <1>2, <1>9, StampKept

\* Two open Submits have not both written the item of one user and problem.
LEMMA OneWriter ==
    ASSUME Exclusive, ItemInv, NEW s \in Submits, NEW t \in Submits, s # t,
           Open(tx[s]), tx[s].write # NoItem, Open(tx[t]), tx[t].write # NoItem
    PROVE  tx[s].pair # tx[t].pair
BY ItemExclusive DEF ItemInv, ItemHeld

LEMMA StampCommit ==
    ASSUME TypeInv, Exclusive, ItemInv, StampInv, NEW t \in Submits, Commit(t),
           tx[t].write # NoItem, AllStamped'
    PROVE  StampInv'
<1>1. Others(t) /\ Steady(t) /\ tx[t].at = "done" /\ tx'[t].at = "committed"
  BY CommitEffect
<1>2. Open(tx[t]) /\ ~Open(tx'[t])
  BY <1>1 DEF Open, Finished
<1>3. tx[t].pair \in Pairs /\ items \in [Pairs -> ReviewItems \cup {NoItem}]
  BY <1>1 DEF TypeInv, TypeOK, PairKnown
<1>4. items' = [items EXCEPT ![tx[t].pair] = tx[t].write]
  BY DEF Commit
<1>5. WriteStamped(t)'
  BY <1>2 DEF WriteStamped
<1>6. PICK mine : mine = tx[t].pair
  OBVIOUS
<1>7. PICK n : n = tx[t].write.reviewed
  OBVIOUS
<1>8. \A pair, m : pair # mine /\ GradedBefore(pair, m) => GradedBefore(pair, m)'
  BY <1>1, <1>6 DEF GradedBefore, Others, Steady
<1>9. Since(items'[mine]) = n
  <2>1. tx[t].write \in ReviewItems /\ tx[t].begun \in Nat
    BY TxFields DEF TypeInv, TypeOK
  <2>2. tx[t].begun < n /\ n \in Nat
    BY <1>2, <1>7, <2>1 DEF StampInv, WriteStamped, ReviewItems
  <2>3. n # 0
    BY <2>1, <2>2
  <2> QED
    BY <1>3, <1>4, <1>6, <1>7, <2>3 DEF Since
<1>10. GradedBefore(mine, n)'
  <2>1. GradedBefore(mine, n) /\ tx[t].begun < n
    BY <1>2, <1>6, <1>7 DEF StampInv, WriteStamped
  <2>2. tx'[t].begun < n
    BY <1>1, <2>1 DEF Steady
  <2> QED
    BY <1>1, <2>1, <2>2 DEF GradedBefore, Others
<1>11. ASSUME NEW pair \in Pairs PROVE ItemStamped(pair)'
  <2>1. CASE pair = mine
    <3>1. GradedBefore(pair, Since(items[pair]))'
      BY <1>9, <1>10, <2>1 DEF GradedBefore
    <3> QED
      BY <3>1 DEF ItemStamped
  <2>2. CASE pair # mine
    <3>1. items'[pair] = items[pair]
      BY <1>3, <1>4, <1>6, <2>2
    <3> QED
      BY <1>8, <2>2, <3>1, ItemStampedKept DEF StampInv
  <2> QED
    BY <2>1, <2>2
<1>12. ASSUME NEW s \in Submits \ {t} PROVE WriteStamped(s)'
  <2>1. tx'[s] = tx[s] /\ WriteStamped(s)
    BY <1>1 DEF Others, StampInv
  <2>2. CASE Open(tx[s]) /\ tx[s].write # NoItem
    <3>1. tx[s].pair # mine
      BY <1>2, <1>6, <2>2, OneWriter
    <3>2. \A m : GradedBefore(tx[s].pair, m) => GradedBefore(tx[s].pair, m)'
      BY <1>1, <1>6, <2>1, <3>1 DEF GradedBefore, Others, Steady
    <3> QED
      BY <2>1, <3>2, WriteStampedKept
  <2>3. CASE ~(Open(tx[s]) /\ tx[s].write # NoItem)
    BY <2>1, <2>3 DEF WriteStamped
  <2> QED
    BY <2>2, <2>3
<1> QED
  BY <1>5, <1>11, <1>12 DEF StampInv

LEMMA StampOutside ==
    ASSUME TypeInv, StampInv, Outside, AllStamped'
    PROVE  StampInv'
<1>1. UNCHANGED tx
  BY OutsideEffect
<1>2. \A pair, n : GradedBefore(pair, n) => GradedBefore(pair, n)'
  BY <1>1 DEF GradedBefore
<1>3. items \in [Pairs -> ReviewItems \cup {NoItem}] /\ clock \in [Pairs -> Nat]
  BY DEF TypeInv, TypeOK
<1>4. \A s \in Submits : WriteStamped(s)'
  BY <1>1 DEF StampInv, WriteStamped, GradedBefore
<1>5. ASSUME NEW pair \in Pairs, AddToQueue(pair) PROVE ItemStamped(pair)'
  <2>1. PICK n : n = clock'[pair]
    OBVIOUS
  <2>2. GradedBefore(pair, n)
    BY <1>5, <2>1, TickLater DEF AddToQueue, StampInv
  <2> DEFINE item == [sm2 |-> InitialState, due |-> day, reviewed |-> 0, created |-> clock'[pair]]
  <2>3. items'[pair] = item
    BY <1>3, <1>5 DEF AddToQueue
  <2>4. items'[pair] # NoItem => Since(items'[pair]) = n
    BY <2>1, <2>3 DEF Since
  <2>5. items'[pair] # NoItem => GradedBefore(pair, Since(items[pair]))'
    BY <1>2, <2>2, <2>4 DEF GradedBefore
  <2> QED
    BY <2>5 DEF ItemStamped
<1>6. ASSUME NEW pair \in Pairs, items'[pair] = items[pair] \/ items'[pair] = NoItem
      PROVE  ItemStamped(pair)'
  <2>1. CASE items'[pair] = items[pair]
    BY <1>2, <2>1, ItemStampedKept DEF StampInv
  <2>2. CASE items'[pair] = NoItem
    BY <2>2 DEF ItemStamped
  <2> QED
    BY <1>6, <2>1, <2>2
<1>7. ASSUME NEW pair \in Pairs PROVE ItemStamped(pair)'
  <2>1. \/ items'[pair] = items[pair] \/ items'[pair] = NoItem
        \/ AddToQueue(pair)
    BY <1>3 DEF Outside, AddToQueue, RemoveFromQueue, ViewHints, NextDay, vars
  <2> QED
    BY <1>5, <1>6, <2>1
<1> QED
  BY <1>4, <1>7 DEF StampInv

LEMMA StampStep ==
    ASSUME TypeInv, Exclusive, ItemInv, StampInv, [Next]_vars
    PROVE  StampInv'
<1>1. AllStamped'
  BY StampedStep DEF StampInv
<1>2. ASSUME NEW t \in Submits, NEW pair \in Pairs, NEW passed \in Outcomes,
             Begin(t, pair, passed)
      PROVE  StampInv'
  <2>1. Others(t) /\ items' = items /\ tx'[t].write = NoItem
    BY <1>2, BeginEffect DEF Tables
  <2>2. WriteStamped(t)'
    BY <2>1 DEF WriteStamped
  <2> QED
    BY <1>1, <1>2, <2>1, <2>2, StampKept
<1>3. ASSUME NEW t \in Submits, Complete(t) \/ RecordRatedGame(t) PROVE StampInv'
  <2>1. tx'[t].write = tx[t].write
    BY <1>3, CompleteEffect, RateSteps DEF Rates
  <2> QED
    BY <1>1, <1>3, <2>1, StampSame
<1>4. ASSUME NEW t \in Submits, RecordSubmission(t) PROVE StampInv'
  BY <1>1, <1>4, WroteNow, StampSame, StampWrite
<1>5. ASSUME NEW t \in Submits, Commit(t) PROVE StampInv'
  <2>1. CASE tx[t].write = NoItem
    <3>1. Others(t) /\ tx'[t].at = "committed" /\ tx'[t].write = NoItem
      BY <1>5, <2>1, CommitEffect
    <3>2. items' = items
      BY <1>5, <2>1 DEF Commit
    <3>3. WriteStamped(t)'
      BY <3>1 DEF WriteStamped
    <3> QED
      BY <1>1, <1>5, <3>1, <3>2, <3>3, StampKept
  <2>2. CASE tx[t].write # NoItem
    BY <1>1, <1>5, <2>2, StampCommit
  <2> QED
    BY <2>1, <2>2
<1>6. ASSUME NEW t \in Submits, Rollback(t) PROVE StampInv'
  <2>1. Others(t) /\ items' = items /\ tx'[t].write = NoItem
    BY <1>6, RollbackEffect DEF Tables
  <2>2. WriteStamped(t)'
    BY <2>1 DEF WriteStamped
  <2> QED
    BY <1>1, <1>6, <2>1, <2>2, StampKept
<1>7. ASSUME Outside PROVE StampInv'
  BY <1>1, <1>7, StampOutside
<1> QED
  BY <1>2, <1>3, <1>4, <1>5, <1>6, <1>7, StepCases

\* The failed attempts counted for the grading of an item that was found.
Uncharged(t) == \A s \in tx[t].counted : tx[s].at = "committed" /\ tx[s].write = NoItem

Counted(t) ==
    /\ Open(tx[t]) /\ tx[t].told = "reviewed" => tx[t].found # NoItem
    /\ Open(tx[t]) /\ tx[t].found # NoItem => Uncharged(t)
    /\ tx[t].at = "committed" /\ tx[t].told = "reviewed" => Uncharged(t)

CountInv == \A t \in Submits : Counted(t)

\* Once nothing that t counts grades an item, it stays so.
LEMMA UnchargedKept ==
    ASSUME TypeInv, [Next]_vars, NEW t \in Submits, Uncharged(t),
           tx'[t].counted = tx[t].counted
    PROVE  Uncharged(t)'
<1>1. tx[t].counted \subseteq Submits
  BY TxFields DEF TypeInv, TypeOK
<1>2. \A s \in tx[t].counted : tx'[s] = tx[s]
  BY <1>1, CommittedStays DEF Uncharged
<1> QED
  BY <1>2 DEF Uncharged

LEMMA CountedKept ==
    ASSUME TypeInv, CountInv, [Next]_vars, NEW t \in Submits, Others(t), Counted(t)'
    PROVE  CountInv'
<1>1. ASSUME NEW s \in Submits \ {t} PROVE Counted(s)'
  <2>1. tx'[s] = tx[s] /\ Counted(s)
    BY DEF Others, CountInv
  <2>2. Uncharged(s) => Uncharged(s)'
    BY <2>1, UnchargedKept
  <2> QED
    BY <2>1, <2>2 DEF Counted
<1> QED
  BY <1>1 DEF CountInv

\* A step after which t has found and counted what it had.
LEMMA CountSame ==
    ASSUME TypeInv, CountInv, [Next]_vars, NEW t \in Submits, Others(t), Open(tx[t]),
           tx'[t].found = tx[t].found \/ ~Open(tx'[t]),
           tx'[t].counted = tx[t].counted,
           \/ tx'[t].told = tx[t].told
           \/ tx'[t].told # "reviewed"
           \/ tx[t].found # NoItem
    PROVE  CountInv'
<1>1. Counted(t)
  BY DEF CountInv
<1>2. Uncharged(t) => Uncharged(t)'
  BY UnchargedKept
<1>3. Counted(t)'
  BY <1>1, <1>2 DEF Counted
<1> QED
  BY <1>3, CountedKept

\* A step after which t counts nothing.
LEMMA CountNone ==
    ASSUME TypeInv, CountInv, [Next]_vars, NEW t \in Submits, Others(t),
           tx'[t].counted = {}, tx'[t].told = "reviewed" => tx'[t].found # NoItem
    PROVE  CountInv'
<1>1. Uncharged(t)'
  BY DEF Uncharged
<1>2. Counted(t)'
  BY <1>1 DEF Counted
<1> QED
  BY <1>2, CountedKept

\* The failures since the last review of the item have not graded it.
LEMMA CountAssess ==
    ASSUME TypeInv, ItemInv, StampInv, CountInv, [Next]_vars, NEW t \in Submits, Assess(t)
    PROVE  CountInv'
<1>1. /\ Others(t) /\ tx[t].at = "assessing"
      /\ tx'[t].found = tx[t].found /\ tx'[t].told = tx[t].told
      /\ tx'[t].counted = FailuresSince(tx[t].pair, Since(tx[t].found))
  BY AssessEffect DEF Reviews
<1>2. Open(tx[t])
  BY <1>1 DEF Open, Finished
<1>3. Counted(t)
  BY DEF CountInv
<1>4. ASSUME tx[t].found # NoItem PROVE Uncharged(t)'
  <2>1. items[tx[t].pair] = tx[t].found
    BY <1>2, <1>4 DEF ItemInv, ItemHeld
  <2>2. tx[t].pair \in Pairs
    BY <1>1 DEF TypeInv, PairKnown
  <2>3. GradedBefore(tx[t].pair, Since(tx[t].found))
    BY <1>4, <2>1, <2>2 DEF StampInv, ItemStamped
  <2>4. tx[t].found \in ReviewItems
    BY <1>4, TxFields DEF TypeInv, TypeOK
  <2>5. Since(tx[t].found) \in Nat
    BY <2>4 DEF Since, ReviewItems
  <2>6. ASSUME NEW s \in tx'[t].counted PROVE tx'[s].at = "committed" /\ tx'[s].write = NoItem
    <3>1. /\ s \in Submits /\ tx[s].at = "committed" /\ tx[s].pair = tx[t].pair
          /\ tx[s].begun > Since(tx[t].found)
      BY <1>1, <2>6 DEF FailuresSince, Submitted
    <3>2. tx[s].begun \in Nat
      BY <3>1, TxFields DEF TypeInv, TypeOK
    <3>3. tx[s].write = NoItem
      BY <2>3, <2>5, <3>1, <3>2 DEF GradedBefore
    <3> QED
      BY <3>1, <3>3, CommittedStays
  <2> QED
    BY <2>6 DEF Uncharged
<1>5. Counted(t)'
  <2>1. Open(tx'[t]) /\ tx'[t].told = "reviewed" => tx'[t].found # NoItem
    BY <1>1, <1>2, <1>3 DEF Counted
  <2>2. tx'[t].at # "committed"
    BY AssessEffect
  <2> QED
    BY <1>1, <1>4, <2>1, <2>2 DEF Counted
<1> QED
  BY <1>1, <1>5, CountedKept

LEMMA CountStep ==
    ASSUME TypeInv, ItemInv, DueInv, StampInv, CountInv, [Next]_vars
    PROVE  CountInv'
<1>1. ASSUME NEW t \in Submits, NEW pair \in Pairs, NEW passed \in Outcomes,
             Begin(t, pair, passed)
      PROVE  CountInv'
  BY <1>1, BeginEffect, CountNone
<1>2. ASSUME NEW t \in Submits, Complete(t) PROVE CountInv'
  BY <1>2, CompleteEffect, InnerStep, CountSame
<1>3. ASSUME NEW t \in Submits, RecordSubmission(t) PROVE CountInv'
  <2>1. Others(t) /\ Open(tx[t])
    BY <1>3, InnerStep
  <2>2. tx[t].at = "completed" => tx[t].counted = {} /\ tx[t].found = NoItem
    BY <1>3 DEF DueInv, Due, Blank
  <2>3. Counted(t)
    BY <1>3 DEF CountInv
  <2>4. CASE FindNothing(t)
    BY <1>3, <2>1, <2>4, FindNothingEffect, CountSame
  <2>5. CASE FindItem(t)
    BY <1>3, <2>1, <2>2, <2>5, FindItemEffect, CountNone
  <2>6. CASE LeaveItem(t)
    BY <1>3, <2>1, <2>2, <2>6, LeaveItemEffect, CountNone
  <2>7. CASE Assess(t)
    BY <1>3, <2>7, CountAssess
  <2>8. CASE UpdateItem(t)
    BY <1>3, <2>1, <2>8, UpdateItemEffect, CountSame
  <2>9. CASE InsertItem(t)
    BY <1>3, <2>1, <2>9, InsertItemEffect, CountSame
  <2>10. CASE InsertNothing(t)
    BY <1>3, <2>1, <2>10, InsertNothingEffect, CountSame
  <2> QED
    BY <1>3, <2>4, <2>5, <2>6, <2>7, <2>8, <2>9, <2>10 DEF RecordSubmission
<1>4. ASSUME NEW t \in Submits, RecordRatedGame(t) PROVE CountInv'
  <2>1. /\ tx'[t].found = tx[t].found /\ tx'[t].counted = tx[t].counted
        /\ tx'[t].told = tx[t].told
    BY <1>4, RateSteps DEF Rates
  <2> QED
    BY <1>4, <2>1, InnerStep, CountSame
<1>5. ASSUME NEW t \in Submits, Commit(t) PROVE CountInv'
  <2>1. /\ Others(t) /\ tx[t].at = "done" /\ tx'[t].at = "committed"
        /\ tx'[t].counted = tx[t].counted /\ tx'[t].told = tx[t].told
    BY <1>5, CommitEffect
  <2>2. Open(tx[t]) /\ ~Open(tx'[t])
    BY <2>1 DEF Open, Finished
  <2> QED
    BY <1>5, <2>1, <2>2, CountSame
<1>6. ASSUME NEW t \in Submits, Rollback(t) PROVE CountInv'
  <2>1. Others(t) /\ tx'[t].at = "rolled_back"
    BY <1>6, RollbackEffect
  <2>2. Counted(t)'
    BY <2>1 DEF Counted, Open, Finished
  <2> QED
    BY <1>6, <2>1, <2>2, CountedKept
<1>7. ASSUME Outside PROVE CountInv'
  <2>1. UNCHANGED tx
    BY <1>7, OutsideEffect
  <2> QED
    BY <2>1 DEF CountInv, Counted, Uncharged
<1> QED
  BY <1>1, <1>2, <1>3, <1>4, <1>5, <1>6, <1>7, StepCases

FailureIInv == PassIInv /\ StampInv /\ CountInv

LEMMA FailureInit == Init => StampInv /\ CountInv
<1> SUFFICES ASSUME Init PROVE StampInv /\ CountInv
  OBVIOUS
<1>1. \A t \in Submits : tx[t].at = "idle"
  BY IdleType DEF Init
<1>2. \A pair \in Pairs : items[pair] = NoItem
  BY DEF Init
<1>3. StampInv
  BY <1>1, <1>2 DEF StampInv, AllStamped, Stamped, ItemStamped, WriteStamped, Open, Finished
<1>4. CountInv
  BY <1>1 DEF CountInv, Counted, Open, Finished
<1> QED
  BY <1>3, <1>4

\* A failed attempt that lapsed an item, or enrolled one, is not counted against a later
\* pass, in whatever order the attempts began, waited and were written: every
\* grading leaves a stamp later than the beginning of every attempt that graded.
THEOREM FailuresCountOnce == Spec => []FailureGradedOnce
<1>1. Init => FailureIInv
  BY InitTypeInv, RatingInit, ItemInit, DueInit, FailureInit DEF FailureIInv, PassIInv, GradingIInv
<1>2. FailureIInv /\ [Next]_vars => FailureIInv'
  BY TypeStep, ExclusiveStep, ItemStep, DueStep, StampStep, CountStep
     DEF FailureIInv, PassIInv, GradingIInv
<1>3. FailureIInv => FailureGradedOnce
  BY DEF FailureIInv, CountInv, Counted, Uncharged, FailureGradedOnce
<1> QED
  BY <1>1, <1>2, <1>3, PTL DEF Spec
=============================================================================

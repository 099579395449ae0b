-------------------------------- MODULE Sm2 ---------------------------------
(***************************************************************************)
(* SM-2 as backend/src/services/sm2.ts computes it, on whole numbers: an   *)
(* ease factor is kept in thousandths, which is exactly what the code      *)
(* stores (it rounds to three places).  The product of an interval and an  *)
(* ease factor is a float, so a half may be rounded either way: sm2 gives  *)
(* the set of states the code can return.                                  *)
(***************************************************************************)
EXTENDS Integers

MinEase == 1300     \* MIN_EASE

InitialState == [ease |-> 2500, interval |-> 0, repetitions |-> 0, lapses |-> 0]

\* Mutant: the ease factor has no floor.
MutantEaseNoFloor(ease, quality) ==
    LET miss == 5 - quality
    IN  ease + 100 - miss * (80 + 20 * miss)

\* The ease factor after a review of this quality.
NewEase(ease, quality) ==
    LET miss == 5 - quality
        moved == ease + 100 - miss * (80 + 20 * miss)
    IN  IF moved < MinEase THEN MinEase ELSE moved

\* Math.round(interval * ease): one number, or two for a half.
Product(interval, ease) ==
    {(interval * ease + 499) \div 1000, (interval * ease + 500) \div 1000}

\* The days until the next review after a recall: 1, 6, then multiplied.
NewIntervals(state, ease) ==
    CASE state.repetitions = 0 -> {1}
      [] state.repetitions = 1 -> {6}
      [] OTHER -> Product(state.interval, ease)

Lapse(state, ease) ==
    [ease |-> ease, interval |-> 1, repetitions |-> 0, lapses |-> state.lapses + 1]

Recall(state, ease, interval) ==
    [ease |-> ease, interval |-> interval, repetitions |-> state.repetitions + 1,
     lapses |-> state.lapses]

\* Mutant: a lapse keeps the repetitions it had.
MutantLapseKeepsRepetitions(state, quality) ==
    LET ease == NewEase(state.ease, quality)
    IN  IF quality < 3
        THEN {[Lapse(state, ease) EXCEPT !.repetitions = state.repetitions]}
        ELSE {Recall(state, ease, interval) : interval \in NewIntervals(state, ease)}

\* sm2: the states a review of this quality may lead to.
AfterReview(state, quality) ==
    LET ease == NewEase(state.ease, quality)
    IN  IF quality < 3 THEN {Lapse(state, ease)}
        ELSE {Recall(state, ease, interval) : interval \in NewIntervals(state, ease)}

FailedQuality == 1

\* Mutant: the grade of a pass has no floor.
MutantPassQualityNoFloor(failures, hinted) ==
    5 - (IF failures < 2 THEN failures ELSE 2) - (IF hinted THEN 1 ELSE 0)

\* A pass: one off for each failed attempt, two at most, and one off for hints,
\* never below a recall.
PassQuality(failures, hinted) ==
    LET quality == 5 - (IF failures < 2 THEN failures ELSE 2) - (IF hinted THEN 1 ELSE 0)
    IN  IF quality < 3 THEN 3 ELSE quality
=============================================================================

--------------------------- MODULE ReviewSchedule ---------------------------
(***************************************************************************)
(* The schedule of one problem in a review queue: the reviews that          *)
(* recordSubmission in backend/src/services/review.service.ts grades with   *)
(* sm2.ts, in any order, with any number of failed attempts and hints       *)
(* before each pass.                                                        *)
(***************************************************************************)
EXTENDS Sm2

CONSTANTS
    MaxFailures,    \* failed attempts counted against one pass
    MaxInterval,    \* bound: no review once the interval has passed it
    MaxLapses       \* bound: no lapse beyond this many

ASSUME ScheduleAssumption ==
    MaxFailures \in Nat /\ MaxInterval \in Nat /\ MaxLapses \in Nat

VARIABLES
    state,          \* the item's Sm2State
    passed          \* whether its last review was a pass

scheduleVars == <<state, passed>>

\* The first review enrols the problem: it starts from INITIAL_STATE.
ScheduleInit == state = InitialState /\ passed = FALSE

Pass ==
    /\ state.interval <= MaxInterval
    /\ \E failures \in 0 .. MaxFailures, hinted \in BOOLEAN :
          state' \in AfterReview(state, PassQuality(failures, hinted))
    /\ passed' = TRUE

Fail ==
    /\ state.lapses < MaxLapses
    /\ state' \in AfterReview(state, FailedQuality)
    /\ passed' = FALSE

ScheduleNext == Pass \/ Fail

ScheduleSpec == ScheduleInit /\ [][ScheduleNext]_scheduleVars

------------------------------------------------------------------------------
States == [ease : Int, interval : Int, repetitions : Nat, lapses : Nat]

\* However often it is failed, a problem's ease factor stays at least 1.3: below
\* it the row violates its CHECK and the whole Submit is rolled back
\* (017_learning_features.sql).  The interval keeps its CHECK too.
WithinChecks ==
    /\ state \in States
    /\ state.ease >= MinEase
    /\ state.interval >= 0

\* The interval belongs to the run of recalls the item is on: one day after a
\* lapse or the first recall, six after the second, never fewer after that.
\* What a lapse leaves behind cannot leak into the next intervals.
IntervalFitsRun ==
    /\ state.repetitions = 0 => state.interval <= 1
    /\ state.repetitions = 1 => state.interval = 1
    /\ state.repetitions = 2 => state.interval = 6
    /\ state.repetitions > 2 => state.interval > 6

\* A pass never counts as a lapse, whatever failures and hints came before it,
\* and never brings the next review closer than the last interval: the ease floor
\* is what keeps a hard problem's intervals growing.
PassesSpreadReviews ==
    [][passed' /\ state' # state =>
        /\ state'.lapses = state.lapses
        /\ state'.interval >= state.interval]_scheduleVars
=============================================================================

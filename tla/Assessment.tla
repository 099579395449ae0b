----------------------------- MODULE Assessment -----------------------------
(***************************************************************************)
(* A timed assessment (backend/src/services/assessments.service.ts) worked *)
(* on from several tabs (web/src/app/assessments/[id]/page.tsx).  Linking  *)
(* a solution and finishing are several queries each, with no transaction  *)
(* around them; each tab runs its own timer and finishes by itself.        *)
(***************************************************************************)
EXTENDS Naturals

CONSTANTS
    Tabs,           \* the user's tabs
    Tasks,          \* the problems of the assessment
    MaxTries        \* bound: solutions submitted

ASSUME AssessmentAssumption == Tasks # {} /\ MaxTries \in Nat

VARIABLES
    clock,          \* before the deadline, within the grace, or after it
    assessment,     \* the row: status, and the solutions its score counts
    linked,         \* the solution linked to each problem
    tab,            \* each page: the problem it is submitting (ghost: begun before it
                    \* finished), and (ghost) its answered links of passed solutions
    finish,         \* its submit request
    tries,          \* solutions submitted
    raced           \* ghost: two submits have both read the assessment as active

assessmentVars == <<clock, assessment, linked, tab, finish, tries, raced>>

\* Whether a solution passed, and whether it was stored within the grace.
Verdict == IF clock = "over" THEN "passedLate" ELSE "passed"
Passes(solution) == solution \in {"passed", "passedLate"}

AssessmentInit ==
    /\ clock = "open"
    /\ assessment = [status |-> "active", counted |-> {}]
    /\ linked = [p \in Tasks |-> "none"]
    /\ tab = [t \in Tabs |-> [page |-> "working", task |-> "none", solution |-> "none",
                              problem |-> CHOOSE p \in Tasks : TRUE, early |-> FALSE,
                              done |-> {}]]
    /\ finish = [t \in Tabs |-> [at |-> "none", counted |-> {}]]
    /\ tries = 0 /\ raced = FALSE

PassTime ==
    /\ clock # "over"
    /\ clock' = IF clock = "open" THEN "grace" ELSE "over"
    /\ UNCHANGED <<assessment, linked, tab, finish, tries, raced>>

------------------------------------------------------------------------------
(* Submitting a problem *)

\* finishingRef
Finishing(t) == finish[t].at \notin {"none", "failed"}

\* handleSubmitProblem: one at a time, while the page's own timer runs.
SubmitProblem(t, p) ==
    /\ tab[t].page = "working" /\ tab[t].task = "none"
    /\ tries < MaxTries
    /\ tries' = tries + 1
    /\ tab' = [tab EXCEPT ![t].task = "judged", ![t].problem = p,
                          ![t].early = ~Finishing(t)]
    /\ UNCHANGED <<clock, assessment, linked, finish, raced>>

\* The submission is stored, with its verdict; or it fails.
Judge(t) ==
    /\ tab[t].task = "judged"
    /\ \/ tab' = [tab EXCEPT ![t].task = "none"]
       \/ \E solution \in {"failed", Verdict} :
             tab' = [tab EXCEPT ![t].task = "linking", ![t].solution = solution]
    /\ UNCHANGED <<clock, assessment, linked, finish, tries, raced>>

\* Mutant: only the page's timer stops late work.
MutantAccepts == assessment.status = "active"

\* findDeadlineState: active, and within the grace.
Accepts == assessment.status = "active" /\ clock # "over"

CheckDeadline(t) ==
    /\ tab[t].task = "linking"
    /\ tab' = [tab EXCEPT ![t].task = IF Accepts THEN "accepted" ELSE "none",
                          ![t].solution = IF Accepts THEN @ ELSE "none"]
    /\ UNCHANGED <<clock, assessment, linked, finish, tries, raced>>

\* linkSubmission replaces what was linked; the answer may be lost.
Link(t) ==
    /\ tab[t].task = "accepted"
    /\ linked' = [linked EXCEPT ![tab[t].problem] = tab[t].solution]
    /\ \E answered \in BOOLEAN :
          tab' = [u \in Tabs |->
                    IF u # t THEN [tab[u] EXCEPT !.done = @ \ {tab[t].problem}]
                    ELSE [tab[t] EXCEPT !.task = "none", !.solution = "none",
                            !.done = IF answered /\ tab[t].early /\ Passes(tab[t].solution)
                                     THEN @ \cup {tab[t].problem} ELSE @ \ {tab[t].problem}]]
    /\ UNCHANGED <<clock, assessment, finish, tries, raced>>

------------------------------------------------------------------------------
(* Finishing *)

\* finishAssessment: the button, while no problem is being submitted; after an error, at
\* any time.  What is being submitted then is waited for.
FinishAssessment(t) ==
    /\ \/ finish[t].at = "none" /\ tab[t].task = "none"
       \/ finish[t].at = "failed"
    /\ finish' = [finish EXCEPT ![t].at = "waiting"]
    /\ tab' = [tab EXCEPT ![t].early = TRUE]
    /\ UNCHANGED <<clock, assessment, linked, tries, raced>>

\* The page's timer: it stops the work and finishes.
TimeOut(t) ==
    /\ tab[t].page = "working" /\ clock # "open"
    /\ tab' = [tab EXCEPT ![t].page = "timedOut", ![t].early = @ \/ ~Finishing(t)]
    /\ finish' = [finish EXCEPT ![t].at = IF Finishing(t) THEN @ ELSE "waiting"]
    /\ UNCHANGED <<clock, assessment, linked, tries, raced>>

\* Mutant: the request does not wait for the page's own submission.
MutantSettled(t) == TRUE

\* submissionPromiseRef: what was being submitted when it finished is linked, or failed.
Settled(t) == tab[t].task = "none" \/ ~tab[t].early

Scoring == {t \in Tabs : finish[t].at \in {"active", "scored"}}

\* submitAssessment reads the status, ...
SubmitAssessment(t) ==
    /\ finish[t].at = "waiting" /\ Settled(t)
    /\ IF assessment.status = "active"
       THEN /\ finish' = [finish EXCEPT ![t].at = "active"]
            /\ raced' = (raced \/ Scoring # {})
       ELSE finish' = [finish EXCEPT ![t].at = "failed"] /\ UNCHANGED raced
    /\ UNCHANGED <<clock, assessment, linked, tab, tries>>

\* ... the linked solutions, ...
ReadSolutions(t) ==
    /\ finish[t].at = "active"
    /\ finish' = [finish EXCEPT ![t] =
          [at |-> "scored",
           counted |-> {<<p, linked[p]>> : p \in {q \in Tasks : Passes(linked[q])}}]]
    /\ UNCHANGED <<clock, assessment, linked, tab, tries, raced>>

\* ... and writes the score, whatever the status has become.  The page shows it, or does
\* not get the answer.
Complete(t) ==
    /\ finish[t].at = "scored"
    /\ assessment' = [status |-> "completed", counted |-> finish[t].counted]
    /\ \E page \in {"finished", tab[t].page} :
          /\ tab' = [tab EXCEPT ![t].page = page]
          /\ finish' = [finish EXCEPT ![t] =
                [at |-> IF page = "finished" THEN "done" ELSE "failed", counted |-> {}]]
    /\ UNCHANGED <<clock, linked, tries, raced>>

\* A query of the request fails.
FinishFails(t) ==
    /\ finish[t].at \in {"active", "scored"}
    /\ finish' = [finish EXCEPT ![t] = [at |-> "failed", counted |-> {}]]
    /\ UNCHANGED <<clock, assessment, linked, tab, tries, raced>>

WorkStep(t) ==
    \/ \E p \in Tasks : SubmitProblem(t, p)
    \/ Judge(t)
    \/ CheckDeadline(t)
    \/ Link(t)

FinishStep(t) ==
    \/ FinishAssessment(t)
    \/ TimeOut(t)
    \/ SubmitAssessment(t)
    \/ ReadSolutions(t)
    \/ Complete(t)
    \/ FinishFails(t)

AssessmentNext ==
    \/ PassTime
    \/ \E t \in Tabs : WorkStep(t)
    \/ \E t \in Tabs : FinishStep(t)

AssessmentSpec == AssessmentInit /\ [][AssessmentNext]_assessmentVars

------------------------------------------------------------------------------

\* Finishing "stays allowed afterwards; it just can't count work done late"
\* (assessments.service.ts), whatever the pages' timers do and whichever tab links or
\* finishes in between.
LateWorkNotCounted == \A c \in assessment.counted : c[2] = "passed"

\* What a page began to submit before it finished, and no other tab has linked over, is
\* in the score, also when its timer finished it in the middle of a submission.  (Two submits
\* that overlap are another matter: the slower one overwrites the score.)
OwnWorkCounted ==
    \A t \in Tabs : finish[t].at = "done" /\ ~raced =>
        tab[t].done \subseteq {c[1] : c \in assessment.counted}
=============================================================================

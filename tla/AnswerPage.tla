----------------------------- MODULE AnswerPage -----------------------------
(***************************************************************************)
(* The interview page's answer box (web/src/components/interview/          *)
(* use-interview.ts) over a connection that may fail: the page posts an    *)
(* answer, and when it does not learn what became of it, reads the         *)
(* transcript before it sends anything again.                              *)
(*                                                                         *)
(* A draft is a number; the server records one answer per turn, the turn   *)
(* its request found open (module InterviewTurns), and Other is another    *)
(* tab's answer.                                                           *)
(***************************************************************************)
EXTENDS Naturals, Sequences

CONSTANTS
    MaxDrafts,      \* bound: answers written
    MaxSends,       \* bound: requests sent
    MaxTurns        \* bound: turns answered

ASSUME AnswerAssumption ==
    MaxDrafts \in Nat /\ MaxSends \in Nat /\ MaxTurns \in Nat

Blank == 0
Other == MaxDrafts + 1
Sends == 1 .. MaxSends

VARIABLES
    form,           \* the page's state
    posting,        \* each request: where it is, its answer, and the turn it found open
    recorded,       \* the answers in the transcript, one per turn
    excused         \* ghost: answers that were cancelled, or whose COMMIT was not answered

answerVars == <<form, posting, recorded, excused>>

AnswerInit ==
    /\ form = [at |-> "idle", answer |-> Blank, retryAnswer |-> Blank, accepted |-> Blank,
               syncPending |-> FALSE, turn |-> 1, expects |-> Blank, seen |-> 0,
               drafts |-> 0, sends |-> 0]
    /\ posting = [s \in Sends |-> [at |-> "none", answer |-> Blank, turn |-> 0]]
    /\ recorded = <<>>
    /\ excused = {}

------------------------------------------------------------------------------
(* The server *)

Turn == Len(recorded) + 1
Reach(s, at) == posting' = [posting EXCEPT ![s].at = at]

\* Refused before it begins: a rate limit, an expired session.
Reject(s) ==
    /\ posting[s].at = "sent"
    /\ Reach(s, "rejected")
    /\ UNCHANGED <<form, recorded, excused>>

\* The request finds a turn open.
BeginTurn(s) ==
    /\ posting[s].at = "sent"
    /\ posting' = [posting EXCEPT ![s].at = "evaluating", ![s].turn = Turn]
    /\ UNCHANGED <<form, recorded, excused>>

\* The turn is still open: the answer is committed, or was when the connection to the
\* database broke, which the page is told it may retry.
RecordAnswer(s) ==
    /\ posting[s].at = "evaluating" /\ posting[s].turn = Turn /\ Turn <= MaxTurns
    /\ recorded' = Append(recorded, posting[s].answer)
    /\ \E at \in {"recorded", "retryable"} :
          /\ Reach(s, at)
          /\ excused' = IF at = "retryable" THEN excused \cup {posting[s].answer} ELSE excused
    /\ UNCHANGED form

\* 409: the turn was answered meanwhile.
LoseTurn(s) ==
    /\ posting[s].at = "evaluating" /\ posting[s].turn # Turn
    /\ Reach(s, "conflict")
    /\ UNCHANGED <<form, recorded, excused>>

\* The evaluation or the database fails before anything is written.
FailTurn(s) ==
    /\ posting[s].at = "evaluating"
    /\ \E at \in {"retryable", "conflict"} : Reach(s, at)
    /\ UNCHANGED <<form, recorded, excused>>

Awaited(s) == form.at = "sending" /\ s = form.sends

\* The page is gone: the request never arrives, or its turn is given up.
AbandonTurn(s) ==
    /\ posting[s].at \in {"sent", "evaluating"} /\ ~Awaited(s)
    /\ Reach(s, "gone")
    /\ UNCHANGED <<form, recorded, excused>>

OtherTabAnswers ==
    /\ Turn <= MaxTurns
    /\ recorded' = Append(recorded, Other)
    /\ UNCHANGED <<form, posting, excused>>

------------------------------------------------------------------------------
(* submitAnswer *)

Editable == form.at = "idle" /\ ~form.syncPending /\ form.retryAnswer = Blank

WriteAnswer ==
    /\ Editable /\ form.drafts < MaxDrafts
    /\ form' = [form EXCEPT !.answer = form.drafts + 1, !.drafts = @ + 1]
    /\ UNCHANGED <<posting, recorded, excused>>

Submitted == IF form.retryAnswer # Blank THEN form.retryAnswer ELSE form.answer

SubmitAnswer ==
    /\ form.at = "idle" /\ ~form.syncPending /\ Submitted # Blank
    /\ form.sends < MaxSends
    /\ form' = [form EXCEPT !.at = "sending", !.retryAnswer = Blank, !.sends = @ + 1,
                            !.expects = Submitted]
    /\ posting' = [posting EXCEPT ![form.sends + 1] =
                      [at |-> "sent", answer |-> Submitted, turn |-> 0]]
    /\ UNCHANGED <<recorded, excused>>

\* refreshSession begins: `expects' is the answer the transcript must have.
Refreshing(f, expects) ==
    [f EXCEPT !.at = "refreshing", !.syncPending = TRUE, !.expects = expects]

Told == posting[form.sends].at
Waiting == form.at = "sending"

Accepted ==
    /\ Waiting /\ Told = "recorded"
    /\ form' = Refreshing([form EXCEPT !.accepted = form.expects], form.expects)
    /\ UNCHANGED <<posting, recorded, excused>>

\* "Retry answer" sends the same answer.
MayRetry ==
    /\ Waiting /\ Told = "retryable"
    /\ form' = [form EXCEPT !.at = "idle", !.retryAnswer = form.expects, !.expects = Blank]
    /\ UNCHANGED <<posting, recorded, excused>>

MustRefresh ==
    /\ Waiting /\ Told = "conflict"
    /\ form' = Refreshing(form, Blank)
    /\ UNCHANGED <<posting, recorded, excused>>

Rejected ==
    /\ Waiting /\ Told = "rejected"
    /\ form' = [form EXCEPT !.at = "idle", !.expects = Blank]
    /\ UNCHANGED <<posting, recorded, excused>>

\* Mutant: a lost connection is an error like another, and may be retried.
MutantReconcile(f) == [f EXCEPT !.at = "idle", !.retryAnswer = f.expects]

\* "Transport loss has no terminal event: reconcile before issuing another POST."
Reconcile(f) == Refreshing([f EXCEPT !.accepted = f.expects], f.expects)

\* The connection breaks, wherever the request has got to.
LoseAnswer ==
    /\ Waiting
    /\ form' = Reconcile(form)
    /\ UNCHANGED <<posting, recorded, excused>>

------------------------------------------------------------------------------
(* refreshSession *)

Refresh ==
    /\ form.at = "idle" /\ form.retryAnswer = Blank
    /\ form' = Refreshing(form, form.accepted)
    /\ UNCHANGED <<posting, recorded, excused>>

ReadTranscript ==
    /\ form.at = "refreshing"
    /\ form' = [form EXCEPT !.at = "read", !.seen = Len(recorded)]
    /\ UNCHANGED <<posting, recorded, excused>>

Stop(f) == [f EXCEPT !.at = "idle", !.expects = Blank, !.seen = 0]

RefreshFails ==
    /\ form.at = "refreshing"
    /\ form' = Stop(form)
    /\ UNCHANGED <<posting, recorded, excused>>

\* Whether the answer has been recorded since the last question the page knows.
Appeared == \E i \in form.turn .. form.seen : recorded[i] = form.expects

ApplyTranscript ==
    /\ form.at = "read"
    /\ form' = IF form.expects # Blank /\ ~Appeared THEN Stop(form)
               ELSE [Stop(form) EXCEPT
                       !.answer = IF @ = form.expects THEN Blank ELSE @,
                       !.accepted = Blank, !.retryAnswer = Blank, !.syncPending = FALSE,
                       !.turn = form.seen + 1]
    /\ UNCHANGED <<posting, recorded, excused>>

\* Cancel, or the page is hidden: the request is aborted, and its answer stays in the box.
Cancel ==
    /\ form.at # "idle"
    /\ form' = Stop(form)
    /\ excused' = IF Waiting THEN excused \cup {form.expects} ELSE excused
    /\ UNCHANGED <<posting, recorded>>

ServerStep(s) ==
    \/ Reject(s)
    \/ BeginTurn(s)
    \/ RecordAnswer(s)
    \/ LoseTurn(s)
    \/ FailTurn(s)
    \/ AbandonTurn(s)

SubmitStep ==
    \/ WriteAnswer
    \/ SubmitAnswer
    \/ Accepted
    \/ MayRetry
    \/ MustRefresh
    \/ Rejected
    \/ LoseAnswer

RefreshStep ==
    \/ Refresh
    \/ ReadTranscript
    \/ RefreshFails
    \/ ApplyTranscript
    \/ Cancel

AnswerNext ==
    \/ \E s \in Sends : ServerStep(s)
    \/ OtherTabAnswers
    \/ SubmitStep
    \/ RefreshStep

AnswerSpec == AnswerInit /\ [][AnswerNext]_answerVars

------------------------------------------------------------------------------

\* Whatever is lost between the page and the server, and whatever other tabs answer
\* meanwhile, an answer written once is not recorded for two questions: "it will not be
\* sent twice" (use-interview.ts, refreshSession).  The exceptions: a request cancelled
\* after its answer was recorded, and a COMMIT whose own answer was lost.
NoAnswerTwice ==
    \A i, j \in DOMAIN recorded :
        i < j /\ recorded[i] = recorded[j] => recorded[i] \in excused \cup {Other}
=============================================================================

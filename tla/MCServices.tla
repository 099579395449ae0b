----------------------------- MODULE MCServices -----------------------------
(* The components that share no state, checked one beside the other: a behavior follows
   the one in focus and the others stay where they begin.  Every behavior of each
   component is among them, and nothing else is. *)
EXTENDS ReviewSchedule, RunQueue, MCPeerSession, PeerNegotiation, RetrievalCache,
        VersionedCache, Assessment, AnswerPage, LiveFetch, ResumeStore, OutputDiff

CONSTANTS f1, f2, f3

\* Two fetches of one session, one of another.
MCQuotas == {"all", "session"}
MCQuotasOf == f1 :> MCQuotas @@ f2 :> MCQuotas @@ f3 :> {"all"}
MCQuotaOf == "all" :> 3 @@ "session" :> 2

\* Outputs of every type; arrays of near numbers, of a string and of rows.
MCFlat == UNION {[1 .. n -> {Number(0), Number(1), String(<<"x">>)}] : n \in 0 .. 2}
MCRows == {Array(<<>>), Array(<<Number(0), Number(1)>>), Array(<<Number(1), Number(0)>>),
           Number(0)}
MCNested == UNION {[1 .. n -> MCRows] : n \in 1 .. 3}
MCOutputs ==
    {Text(<<"x">>), Text(<<"y">>), Nothing, Boolean(0), String(<<"x">>), String(<<"x", "y">>),
     Number(0), Number(1), Number(2)} \cup {Array(s) : s \in MCFlat \cup MCNested}

VARIABLE focus

servicesVars == <<focus, scheduleVars, queueVars, peerVars, negotiationVars,
                  retrievalVars, versionedVars, assessmentVars, answerVars, fetchVars,
                  resumeVars, diffVars>>

ServicesInit ==
    /\ focus \in {"schedule", "queue", "peer", "negotiation", "retrieval", "versioned",
                  "assessment", "answer", "fetch", "resume", "diff"}
    /\ ScheduleInit /\ QueueInit /\ PeerInit /\ NegotiationInit
    /\ RetrievalInit /\ VersionedInit /\ AssessmentInit /\ AnswerInit /\ FetchInit
    /\ ResumeInit /\ DiffInit

ServicesNext ==
    /\ UNCHANGED focus
    /\ IF focus = "schedule" THEN ScheduleNext ELSE UNCHANGED scheduleVars
    /\ IF focus = "queue" THEN QueueNext ELSE UNCHANGED queueVars
    /\ IF focus = "peer" THEN PeerNext ELSE UNCHANGED peerVars
    /\ IF focus = "negotiation" THEN NegotiationNext ELSE UNCHANGED negotiationVars
    /\ IF focus = "retrieval" THEN RetrievalNext ELSE UNCHANGED retrievalVars
    /\ IF focus = "versioned" THEN VersionedNext ELSE UNCHANGED versionedVars
    /\ IF focus = "assessment" THEN AssessmentNext ELSE UNCHANGED assessmentVars
    /\ IF focus = "answer" THEN AnswerNext ELSE UNCHANGED answerVars
    /\ IF focus = "fetch" THEN FetchNext ELSE UNCHANGED fetchVars
    /\ IF focus = "resume" THEN ResumeNext ELSE UNCHANGED resumeVars
    /\ IF focus = "diff" THEN DiffNext ELSE UNCHANGED diffVars

ServicesSpec == ServicesInit /\ [][ServicesNext]_servicesVars
=============================================================================

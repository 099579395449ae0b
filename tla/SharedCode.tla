----------------------------- MODULE SharedCode -----------------------------
(***************************************************************************)
(* The shared editor of a peer interview: the two pages' copies with the   *)
(* debounce of web/src/lib/peer-room.ts, the CodeSaver each backend        *)
(* instance keeps (backend/src/realtime/peer.socket.ts), and the row.      *)
(*                                                                         *)
(* A version of the code is the number of the edit that made it.  The      *)
(* pages cannot type faster than the server's limit on code messages.      *)
(* Timers fire when they are due; an UPDATE may take any time.  What an    *)
(* instance that dies holds is lost, and instances do not die here.        *)
(***************************************************************************)
EXTENDS Integers, Sequences

CONSTANTS
    Editors,        \* the two participants' pages
    SaverOf,        \* the instance each is connected to
    Throttle,       \* CODE_SAVE_MS
    Grace,          \* how long after ended_at saveCode still stores
    Duration,       \* how long the session lasts
    SweepDelay,     \* how long after ends_at the sweep may come
    MaxEdits,       \* bound: edits
    MaxOutages,     \* bound: connections lost
    MaxTime         \* bound: the clock

Savers == {SaverOf[p] : p \in Editors}

ASSUME CodeAssumption ==
    /\ Throttle \in Nat /\ Grace \in Nat /\ Duration \in Nat /\ SweepDelay \in Nat
    /\ MaxEdits \in Nat /\ MaxOutages \in Nat /\ MaxTime \in Nat

VARIABLES
    now,            \* the clock
    record,         \* the row: status, ends_at, ended_at and code
    editor,         \* each page: whether it is in the room, and its unsent edit
    inbox,          \* code messages on their way to each page
    saver,          \* each CodeSaver: the version it holds back, or 0, until when
    saving,         \* UPDATEs that have not been executed: the version, and when it was sent
    sweeping,       \* instances whose sweep has ended the session and flushes next
    ending,         \* whether a page's end is under way, and the version it waits for
    tally           \* ghost: edits, outages, the last one relayed, when, whether of a
                    \* session that was open, and what became of it

codeVars == <<now, record, editor, inbox, saver, saving, sweeping, ending, tally>>

CodeInit ==
    /\ now = 0
    /\ record = [status |-> "waiting", endsAt |-> 0, endedAt |-> 0, code |-> 0]
    /\ editor = [p \in Editors |-> [at |-> "away", unsent |-> 0]]
    /\ inbox = [p \in Editors |-> <<>>]
    /\ saver = [i \in Savers |-> [pending |-> 0, next |-> 0]]
    /\ saving = {} /\ sweeping = {}
    /\ ending = [asked |-> FALSE, waits |-> 0]
    /\ tally = [edits |-> 0, outages |-> 0, relayed |-> 0, relayedAt |-> 0, live |-> FALSE,
                fate |-> "none"]

Partner(p) == CHOOSE q \in Editors : q # p
InRoom(p) == editor[p].at \in {"entered", "joined"}
IsLive(r) == r.status \in {"waiting", "active"}

------------------------------------------------------------------------------
(* The page *)

\* sendCode: the edit waits for the debounce, or for the page to join.
Edit(p) ==
    /\ editor[p].at # "finished" /\ tally.edits < MaxEdits
    /\ tally' = [tally EXCEPT !.edits = @ + 1]
    /\ editor' = [editor EXCEPT ![p].unsent = tally.edits + 1]
    /\ UNCHANGED <<now, record, inbox, saver, saving, sweeping, ending>>

\* Mutant: the first of the versions that wait is the one saved.
MutantPush(waiting, v) == IF waiting = 0 THEN v ELSE waiting

\* CodeSaver.push: the version that is waiting is replaced.
Push(waiting, v) == v

\* flushCode, and the server's code event: it looks at no status.
Relay(p, v) ==
    /\ inbox' = IF InRoom(Partner(p)) THEN [inbox EXCEPT ![Partner(p)] = Append(@, v)]
                ELSE inbox
    /\ saver' = [saver EXCEPT ![SaverOf[p]].pending = Push(@, v)]
    /\ tally' = [tally EXCEPT !.relayed = v, !.relayedAt = now,
                              !.live = IsLive(record), !.fate = "held"]

SendEdit(p) ==
    /\ editor[p].at = "joined" /\ editor[p].unsent # 0
    /\ Relay(p, editor[p].unsent)
    /\ editor' = [editor EXCEPT ![p].unsent = 0]
    /\ UNCHANGED <<now, record, saving, sweeping, ending>>

\* A remote write wins over an edit that has not been sent.
ReceiveCode(p) ==
    /\ inbox[p] # <<>>
    /\ inbox' = [inbox EXCEPT ![p] = Tail(@)]
    /\ editor' = [editor EXCEPT ![p].unsent = 0]
    /\ UNCHANGED <<now, record, saver, saving, sweeping, ending, tally>>

\* CodeSaver.flush: the version that waits, if any, is on its way to the row.
FlushSaver(i) ==
    IF saver[i].pending = 0 THEN UNCHANGED <<saver, saving>>
    ELSE /\ saving' = saving \cup {[code |-> saver[i].pending, sent |-> now]}
         /\ saver' = [saver EXCEPT ![i] = [pending |-> 0, next |-> now + Throttle]]

\* disconnect: the page keeps its unsent edit, and the server flushes its saver.
LoseConnection(p) ==
    /\ InRoom(p) /\ tally.outages < MaxOutages
    /\ editor' = [editor EXCEPT ![p].at = "away"]
    /\ inbox' = [inbox EXCEPT ![p] = <<>>]
    /\ FlushSaver(SaverOf[p])
    /\ tally' = [tally EXCEPT !.outages = @ + 1]
    /\ UNCHANGED <<now, record, sweeping, ending>>

\* join: the page is in the room before its join is answered.
Reenter(p) ==
    /\ editor[p].at = "away" /\ IsLive(record)
    /\ editor' = [editor EXCEPT ![p].at = "entered"]
    /\ UNCHANGED <<now, record, inbox, saver, saving, sweeping, ending, tally>>

\* startIfReady, in the join of the one who finds both in the room.
StartClock(p) ==
    /\ editor[p].at = "entered" /\ InRoom(Partner(p)) /\ record.status = "waiting"
    /\ record' = [record EXCEPT !.status = "active", !.endsAt = now + Duration]
    /\ UNCHANGED <<now, editor, inbox, saver, saving, sweeping, ending, tally>>

\* The acknowledgement: an edit made meanwhile is sent.
Rejoin(p) ==
    /\ editor[p].at = "entered"
    /\ editor' = [editor EXCEPT ![p] = [at |-> "joined", unsent |-> 0]]
    /\ IF editor[p].unsent # 0 THEN Relay(p, editor[p].unsent)
       ELSE UNCHANGED <<inbox, saver, tally>>
    /\ UNCHANGED <<now, record, saving, sweeping, ending>>

\* ended: the page disconnects, and the server flushes its saver.
LeaveEnded(p) ==
    /\ InRoom(p) /\ ~IsLive(record)
    /\ editor' = [editor EXCEPT ![p] = [at |-> "finished", unsent |-> 0]]
    /\ inbox' = [inbox EXCEPT ![p] = <<>>]
    /\ FlushSaver(SaverOf[p])
    /\ UNCHANGED <<now, record, sweeping, ending, tally>>

------------------------------------------------------------------------------
(* Saving *)

\* The throttle's timer is due: at once, or Throttle after the last save.
IsDue(i) == saver[i].pending # 0 /\ saver[i].next <= now

SaveDue(i) ==
    /\ IsDue(i)
    /\ FlushSaver(i)
    /\ UNCHANGED <<now, record, editor, inbox, sweeping, ending, tally>>

\* saveCode: for an open session, and a while after ended_at for a completed one.
InGrace(time, r) == time < r.endedAt + Grace
Stores(r) == IsLive(r) \/ (r.status = "completed" /\ InGrace(now, r))

\* What becomes of a version, if it is the last one relayed.
Becomes(s, fate) == tally' = IF s.code = tally.relayed THEN [tally EXCEPT !.fate = fate]
                             ELSE tally

\* A version that is refused is not noticed; "slow" is one that was sent in time.
Save(s) ==
    /\ s \in saving
    /\ saving' = saving \ {s}
    /\ IF Stores(record)
       THEN /\ record' = [record EXCEPT !.code = s.code]
            /\ Becomes(s, "stored")
       ELSE /\ Becomes(s, IF InGrace(s.sent, record) THEN "slow" ELSE "refused")
            /\ UNCHANGED record
    /\ UNCHANGED <<now, editor, inbox, saver, sweeping, ending>>

\* The UPDATE raises; it is logged.
SaveFails(s) ==
    /\ s \in saving
    /\ saving' = saving \ {s}
    /\ Becomes(s, "failed")
    /\ UNCHANGED <<now, record, editor, inbox, saver, sweeping, ending>>

------------------------------------------------------------------------------
(* Ending *)

\* end: the page sends what it has, and the handler waits for its saver's save.
AskEnd(p) ==
    /\ editor[p].at = "joined" /\ editor[p].unsent = 0 /\ ~ending.asked
    /\ FlushSaver(SaverOf[p])
    /\ ending' = [asked |-> TRUE, waits |-> saver[SaverOf[p]].pending]
    /\ UNCHANGED <<now, record, editor, inbox, sweeping, tally>>

EndedAs(status) == IF status = "active" THEN "completed" ELSE "cancelled"

\* endSession: an open session is ended at once, whatever its savers still hold.  (That its
\* read and its UPDATE are two steps is for PeerSession.)
CloseRecord ==
    record' = IF IsLive(record)
              THEN [record EXCEPT !.status = EndedAs(@), !.endedAt = now] ELSE record

EndRecord ==
    /\ ending.asked /\ \A s \in saving : s.code # ending.waits
    /\ CloseRecord
    /\ ending' = [asked |-> FALSE, waits |-> 0]
    /\ UNCHANGED <<now, editor, inbox, saver, saving, sweeping, tally>>

\* POST /peer-sessions/{id}/end flushes nothing.
RequestEnd ==
    /\ IsLive(record)
    /\ CloseRecord
    /\ UNCHANGED <<now, editor, inbox, saver, saving, sweeping, ending, tally>>

\* sweepExpired: the session ended when its time was up, however late the sweep is.
TimeUp(i) ==
    /\ record.status = "active" /\ record.endsAt <= now
    /\ record' = [record EXCEPT !.status = "completed", !.endedAt = record.endsAt]
    /\ sweeping' = sweeping \cup {i}
    /\ UNCHANGED <<now, editor, inbox, saver, saving, ending, tally>>

\* ... or nobody came within a day.
Expire(i) ==
    /\ record.status = "waiting"
    /\ record' = [record EXCEPT !.status = "cancelled", !.endedAt = now]
    /\ sweeping' = sweeping \cup {i}
    /\ UNCHANGED <<now, editor, inbox, saver, saving, ending, tally>>

\* Then the instance flushes its own saver.
SweepFlushes(i) ==
    /\ i \in sweeping
    /\ sweeping' = sweeping \ {i}
    /\ FlushSaver(i)
    /\ UNCHANGED <<now, record, editor, inbox, ending, tally>>

Tick ==
    /\ now < MaxTime /\ \A i \in Savers : ~IsDue(i)
    /\ record.status = "active" => now < record.endsAt + SweepDelay
    /\ now' = now + 1
    /\ UNCHANGED <<record, editor, inbox, saver, saving, sweeping, ending, tally>>

EditorStep(p) ==
    \/ Edit(p) \/ SendEdit(p) \/ ReceiveCode(p)
    \/ LoseConnection(p) \/ Reenter(p) \/ StartClock(p) \/ Rejoin(p) \/ LeaveEnded(p)

ClosingStep ==
    \/ \E p \in Editors : AskEnd(p)
    \/ RequestEnd \/ EndRecord
    \/ \E i \in Savers : TimeUp(i) \/ Expire(i) \/ SweepFlushes(i)

CodeNext ==
    \/ \E p \in Editors : EditorStep(p)
    \/ \E i \in Savers : SaveDue(i)
    \/ \E s \in saving : Save(s) \/ SaveFails(s)
    \/ ClosingStep
    \/ Tick

CodeSpec == CodeInit /\ [][CodeNext]_codeVars

------------------------------------------------------------------------------

NothingToSave == saving = {} /\ \A i \in Savers : saver[i].pending = 0

\* Stored, unless its save failed, or was sent in time and took too long.
SavedOrFailed == tally.fate \in {"stored", "failed", "slow"}

\* The throttle holds no version back past this.
HeldUntil == tally.relayedAt + Throttle

\* The last version relayed always reaches the row, through the throttle, outages, both
\* instances and the end of the session, unless its own save failed or took too long, or
\* it was relayed so late after the end that the throttle may outlast the time in which a
\* save is stored (peer.socket.ts, CodeSaver).  A session cancelled before it started
\* keeps no code.  What the row keeps of an open one is another matter: see
\* LatestVersionLands.
LastRelayedIsStored ==
    /\ NothingToSave /\ tally.relayed # 0 /\ record.status # "cancelled"
    /\ record.status = "completed" => InGrace(HeldUntil, record)
    => SavedOrFailed

\* "the latest version always lands" (peer.socket.ts): of a session that is open.
LatestVersionLands ==
    NothingToSave /\ IsLive(record) /\ tally.fate = "stored" => record.code = tally.relayed

\* saveCode stores "for a few seconds after it ends, so the last throttled save still
\* lands when time runs out" (peer.repository.ts): what was relayed before the session
\* was completed is stored.
LastSaveLands ==
    NothingToSave /\ record.status = "completed" /\ tally.live => SavedOrFailed
=============================================================================

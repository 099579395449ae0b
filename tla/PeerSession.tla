---------------------------- MODULE PeerSession ----------------------------
(***************************************************************************)
(* One peer interview: its row (backend/src/repositories/                  *)
(* peer.repository.ts), the handlers of realtime/peer.socket.ts on every   *)
(* backend instance, the requests and the sweep that end it, and what each *)
(* page of web/src/lib/peer-room.ts shows of it.                           *)
(*                                                                         *)
(* A socket is one visit of a participant's page: it opens, joins, and     *)
(* leaves or drops once; a reload is another socket, and a participant has *)
(* one page open at a time.  What a handler does between two awaits is one *)
(* action.  An emit reaches the browsers in the room at once.  A page that *)
(* gave up waiting for its answer is not looked at.  The shared code is in *)
(* SharedCode, the signalling in PeerNegotiation.                          *)
(***************************************************************************)
EXTENDS Naturals

CONSTANTS
    Host, Guest,    \* the two participants
    Sockets,        \* visits of the room's page
    OwnerOf,        \* the participant each belongs to
    Instances,      \* backend processes
    ServedBy,       \* the instance each socket is connected to
    AnsweredBy,     \* the instance each participant's request to end reaches
    Enders,         \* the participants who ask to end it, once each
    MaxCrashes      \* bound: instances that die

People == {Host, Guest}

ASSUME PeerAssumption ==
    /\ Host # Guest
    /\ OwnerOf \in [Sockets -> People]
    /\ ServedBy \in [Sockets -> Instances]
    /\ AnsweredBy \in [People -> Instances]
    /\ Enders \subseteq People
    /\ MaxCrashes \in Nat

VARIABLES
    row,            \* the peer_sessions row: its status, and whether the guest is seated
    socket,         \* each socket's room, its data, its join handler and its page
    farewell,       \* the presence a socket's leave or disconnect still has to tell
    request,        \* each participant's request to end the session
    sweep,          \* whether each instance has an ending to announce
    ghost           \* activations, announcements, whether one was lost, crashes

peerVars == <<row, socket, farewell, request, sweep, ghost>>

NobodyHere == [p \in People |-> FALSE]
NoFarewell == [at |-> "none", present |-> NobodyHere]
Answered == [at |-> "answered", seen |-> "waiting"]
NotAsked == [at |-> "none", seen |-> "waiting"]

NoSession == [status |-> "waiting", seated |-> FALSE]

NewSocket ==
    [at |-> "closed", seen |-> NoSession, present |-> NobodyHere,
     inRoom |-> FALSE, inSession |-> FALSE,
     page |-> "closed", clock |-> FALSE, partner |-> FALSE, beside |-> FALSE,
     refreshing |-> FALSE]

PeerInit ==
    /\ row = NoSession
    /\ socket = [s \in Sockets |-> NewSocket]
    /\ farewell = [s \in Sockets |-> NoFarewell]
    /\ request = [p \in People |-> NotAsked]
    /\ sweep = [i \in Instances |-> FALSE]
    /\ ghost = [started |-> 0, told |-> 0, untold |-> FALSE, crashes |-> 0]

IsOpen(r) == r.status \in {"waiting", "active"}
Participant(p) == p = Host \/ row.seated
OtherRole(s) == IF OwnerOf[s] = Host THEN Guest ELSE Host

------------------------------------------------------------------------------
(* The page *)

Showing(c) == c.page \in {"joining", "joined"}

\* presence(): a partner who was not there before makes a page that does not know
\* them yet fetch the session again.
SeesPresence(c, other, present) ==
    IF ~Showing(c) THEN c
    ELSE [c EXCEPT !.beside = present[other],
                   !.refreshing = @ \/ (/\ c.page = "joined" /\ present[other]
                                        /\ ~c.beside /\ ~c.partner)]

SeesStarted(c) == IF Showing(c) THEN [c EXCEPT !.clock = TRUE] ELSE c

\* What a page that is no longer shown knew does not matter.
Hide(c, page) ==
    [c EXCEPT !.page = page, !.clock = FALSE, !.partner = FALSE, !.beside = FALSE,
              !.refreshing = FALSE]

\* finish(): the socket is disconnected, which the server will see.
SeesEnded(c) == IF Showing(c) THEN Hide(c, "finished") ELSE c

Handled(c) == [c EXCEPT !.at = "handled", !.seen = NoSession, !.present = NobodyHere]

\* The acknowledgement's session replaces the page's.
SeesSession(c, session) ==
    [c EXCEPT !.page = "joined", !.clock = session.status = "active",
              !.partner = session.seated]

\* The acknowledgement of a join, unless the page has given up waiting for it.
SeesAck(c, other, session, present) ==
    IF c.page # "joining" THEN c
    ELSE SeesPresence(SeesSession(c, session), other, present)

\* Emits to the session's room.
PresenceTold(sockets, present) ==
    [t \in Sockets |-> IF sockets[t].inRoom THEN SeesPresence(sockets[t], OtherRole(t), present)
                       ELSE sockets[t]]
StartedTold(sockets) ==
    [t \in Sockets |-> IF sockets[t].inRoom THEN SeesStarted(sockets[t]) ELSE sockets[t]]
EndedTold(sockets) ==
    [t \in Sockets |-> IF sockets[t].inRoom THEN SeesEnded(sockets[t]) ELSE sockets[t]]

\* fetchSockets: the roles in the room.
PresentNow == [p \in People |-> \E t \in Sockets : socket[t].inRoom /\ OwnerOf[t] = p]

------------------------------------------------------------------------------
(* Joining *)

\* joinSession: the invite's row is locked, so the seat is taken in one step.
TakeSeat ==
    /\ IsOpen(row) /\ ~row.seated
    /\ row' = [row EXCEPT !.seated = TRUE]
    /\ UNCHANGED <<socket, farewell, request, sweep, ghost>>

\* A participant opens the page on an open session; it connects and emits join.
OpenPage(s) ==
    /\ socket[s].page = "closed" /\ socket[s].at = "closed"
    /\ \A t \in Sockets : OwnerOf[t] = OwnerOf[s] => ~Showing(socket[t])
    /\ IsOpen(row) /\ Participant(OwnerOf[s])
    /\ socket' = [socket EXCEPT ![s] = [@ EXCEPT !.at = "entering", !.page = "joining",
                                                 !.clock = row.status = "active",
                                                 !.partner = row.seated]]
    /\ UNCHANGED <<row, farewell, request, sweep, ghost>>

\* enterRoom reads the session; an ended one is refused.
EnterRoom(s) ==
    /\ socket[s].at = "entering"
    /\ IF IsOpen(row)
       THEN socket' = [socket EXCEPT ![s] = [@ EXCEPT !.at = "entered", !.seen = row]]
       ELSE socket' = [socket EXCEPT ![s] = Handled(Hide(@, "gone"))]
    /\ UNCHANGED <<row, farewell, request, sweep, ghost>>

\* The read raised: the page is told to try again later.
EnterFails(s) ==
    /\ socket[s].at = "entering"
    /\ socket' = [socket EXCEPT ![s] = Handled(Hide(@, "gone"))]
    /\ UNCHANGED <<row, farewell, request, sweep, ghost>>

\* The page's socket has not dropped yet.
Connected(s) == socket[s].page \in {"joining", "joined", "leaving", "finished"}

\* Mutant: presence is counted before the socket is in the room.
MutantJoinRoom(s) ==
    /\ socket[s].at = "entered"
    /\ socket' = [socket EXCEPT ![s] = [@ EXCEPT !.at = "counted", !.present = PresentNow,
                                                 !.inSession = TRUE, !.inRoom = Connected(s)]]
    /\ UNCHANGED <<row, farewell, request, sweep, ghost>>

\* socket.join does nothing for a socket that has dropped.
JoinRoom(s) ==
    /\ socket[s].at = "entered"
    /\ socket' = [socket EXCEPT ![s] = [@ EXCEPT !.at = "joined", !.inSession = TRUE,
                                                 !.inRoom = Connected(s)]]
    /\ UNCHANGED <<row, farewell, request, sweep, ghost>>

\* fetchSockets
CountPresence(s) ==
    /\ socket[s].at = "joined"
    /\ socket' = [socket EXCEPT ![s] = [@ EXCEPT !.at = "counted", !.present = PresentNow]]
    /\ UNCHANGED <<row, farewell, request, sweep, ghost>>

Acked(sockets, s, session) ==
    [sockets EXCEPT ![s] = Handled(SeesAck(@, OtherRole(s), session, @.present))]

ToStart(s) ==
    /\ \A p \in People : socket[s].present[p]
    /\ socket[s].seen.status = "waiting"

\* The presence is told, to nobody if a leave was handled meanwhile; unless the clock
\* is to start, the join is answered with the session as it was read.
TellPresence(s) ==
    /\ socket[s].at = "counted"
    /\ LET told == IF socket[s].inSession THEN PresenceTold(socket, socket[s].present)
                   ELSE socket
       IN socket' = IF ToStart(s) THEN [told EXCEPT ![s].at = "starting"]
                    ELSE Acked(told, s, socket[s].seen)
    /\ UNCHANGED <<row, farewell, request, sweep, ghost>>

\* Mutant: the session need not be waiting any more.
MutantMayActivate(r) == IsOpen(r) /\ r.seated

MayActivate(r) == r.status = "waiting" /\ r.seated

\* activate: the clock starts.
Activate(s) ==
    /\ socket[s].at = "starting"
    /\ MayActivate(row)
    /\ row' = [row EXCEPT !.status = "active"]
    /\ ghost' = [ghost EXCEPT !.started = @ + 1]
    /\ socket' = [socket EXCEPT ![s].at = "started"]
    /\ UNCHANGED <<farewell, request, sweep>>

\* It was not waiting any more: the answer carries the session read before.
ActivateNot(s) ==
    /\ socket[s].at = "starting"
    /\ ~MayActivate(row)
    /\ socket' = Acked(socket, s, socket[s].seen)
    /\ UNCHANGED <<row, farewell, request, sweep, ghost>>

\* The session is read again, and its clock is told.
TellStarted(s) ==
    /\ socket[s].at = "started"
    /\ IsOpen(row)
    /\ LET told == IF socket[s].inSession THEN StartedTold(socket) ELSE socket
       IN socket' = Acked(told, s, row)
    /\ UNCHANGED <<row, farewell, request, sweep, ghost>>

\* getPeerSession for the partner's details; it never takes the clock back.
RefreshSession(s) ==
    /\ socket[s].refreshing
    /\ socket' = [socket EXCEPT ![s].refreshing = FALSE, ![s].partner = row.seated,
                                ![s].clock = @ \/ row.status = "active"]
    /\ UNCHANGED <<row, farewell, request, sweep, ghost>>

------------------------------------------------------------------------------
(* Leaving *)

\* dispose emits leave, and then disconnects: the socket forgets its session before it
\* is out of the room.
Leave(s) ==
    /\ Showing(socket[s])
    /\ socket' = [socket EXCEPT ![s] = [Hide(@, "leaving") EXCEPT !.inRoom = FALSE,
                                                                 !.inSession = FALSE]]
    /\ farewell' = IF socket[s].inSession THEN [farewell EXCEPT ![s].at = "due"] ELSE farewell
    /\ UNCHANGED <<row, request, sweep, ghost>>

\* disconnect: it is out of its rooms, but keeps its session.
Drop(s) ==
    /\ Connected(s)
    /\ socket' = [socket EXCEPT ![s] = [Hide(@, "gone") EXCEPT !.inRoom = FALSE]]
    /\ farewell' = IF socket[s].inSession THEN [farewell EXCEPT ![s].at = "due"] ELSE farewell
    /\ UNCHANGED <<row, request, sweep, ghost>>

CountFarewell(s) ==
    /\ farewell[s].at = "due"
    /\ farewell' = [farewell EXCEPT ![s] = [at |-> "counted", present |-> PresentNow]]
    /\ UNCHANGED <<row, socket, request, sweep, ghost>>

TellFarewell(s) ==
    /\ farewell[s].at = "counted"
    /\ socket' = PresenceTold(socket, farewell[s].present)
    /\ farewell' = [farewell EXCEPT ![s] = NoFarewell]
    /\ UNCHANGED <<row, request, sweep, ghost>>

------------------------------------------------------------------------------
(* Ending *)

Announce ==
    /\ socket' = EndedTold(socket)
    /\ ghost' = [ghost EXCEPT !.told = @ + 1]

\* The end event, or POST /peer-sessions/{id}/end: the session is read.
AskToEnd(p) ==
    /\ request[p].at = "none" /\ Participant(p)
    /\ request' = [request EXCEPT ![p] = IF IsOpen(row) THEN [at |-> "ending", seen |-> row.status]
                                        ELSE Answered]
    /\ UNCHANGED <<row, socket, farewell, sweep, ghost>>

Ended(status) == IF status = "active" THEN "completed" ELSE "cancelled"

\* Mutant: the UPDATE does not look at the status again.
MutantMayEnd(r, seen) == TRUE

MayEnd(r, seen) == r.status = seen

\* endSession: UPDATE ... WHERE status = the one that was read.
EndSession(p) ==
    /\ request[p].at = "ending"
    /\ IF MayEnd(row, request[p].seen)
       THEN /\ row' = [row EXCEPT !.status = Ended(request[p].seen)]
            /\ request' = [request EXCEPT ![p].at = "telling"]
       ELSE /\ request' = [request EXCEPT ![p] = Answered]
            /\ UNCHANGED row
    /\ UNCHANGED <<socket, farewell, sweep, ghost>>

\* The session is read for the answer, and the room is told.
TellEnded(p) ==
    /\ request[p].at = "telling"
    /\ request' = [request EXCEPT ![p] = Answered]
    /\ Announce
    /\ UNCHANGED <<row, farewell, sweep>>

\* That read raises: the session has ended and nobody will be told.
TellEndedFails(p) ==
    /\ request[p].at = "telling"
    /\ request' = [request EXCEPT ![p] = Answered]
    /\ ghost' = [ghost EXCEPT !.untold = TRUE]
    /\ UNCHANGED <<row, socket, farewell, sweep>>

\* sweepExpired: the time is up, or nobody came within a day.
Sweep(i) ==
    /\ ~sweep[i] /\ IsOpen(row)
    /\ row' = [row EXCEPT !.status = Ended(@)]
    /\ sweep' = [sweep EXCEPT ![i] = TRUE]
    /\ UNCHANGED <<socket, farewell, request, ghost>>

SweepTells(i) ==
    /\ sweep[i]
    /\ sweep' = [sweep EXCEPT ![i] = FALSE]
    /\ Announce
    /\ UNCHANGED <<row, farewell, request>>

------------------------------------------------------------------------------

\* An instance dies, by itself or of a call that raises in a join handler after the
\* first: nothing handles the rejection.  Its sockets drop untold.
Crash(i) ==
    /\ ghost.crashes < MaxCrashes
    /\ ghost' = [ghost EXCEPT !.crashes = @ + 1,
                     !.untold = @ \/ sweep[i]
                                  \/ \E p \in People : AnsweredBy[p] = i /\ request[p].at = "telling"]
    /\ sweep' = [sweep EXCEPT ![i] = FALSE]
    /\ request' = [p \in People |-> IF AnsweredBy[p] = i /\ request[p].at # "none"
                                    THEN Answered ELSE request[p]]
    /\ socket' = [s \in Sockets |-> IF ServedBy[s] = i /\ socket[s].page # "closed"
                                    THEN [NewSocket EXCEPT !.at = "handled", !.page = "gone"]
                                    ELSE socket[s]]
    /\ farewell' = [s \in Sockets |-> IF ServedBy[s] = i THEN NoFarewell ELSE farewell[s]]
    /\ UNCHANGED row

JoinStep(s) ==
    \/ EnterRoom(s)
    \/ JoinRoom(s)
    \/ CountPresence(s)
    \/ TellPresence(s)
    \/ Activate(s)
    \/ ActivateNot(s)
    \/ TellStarted(s)

LeaveStep(s) == CountFarewell(s) \/ TellFarewell(s)

PageStep(s) ==
    \/ OpenPage(s)
    \/ EnterFails(s)
    \/ RefreshSession(s)
    \/ Leave(s)
    \/ Drop(s)

EndStep(p) == AskToEnd(p) \/ EndSession(p) \/ TellEnded(p) \/ TellEndedFails(p)

PeerNext ==
    \/ TakeSeat
    \/ \E s \in Sockets : JoinStep(s) \/ LeaveStep(s) \/ PageStep(s)
    \/ \E p \in Enders : EndStep(p)
    \/ \E i \in Instances : Sweep(i) \/ SweepTells(i) \/ Crash(i)

PeerSpec == PeerInit /\ [][PeerNext]_peerVars

------------------------------------------------------------------------------

\* The clock starts once, however many joins find both participants in the room at
\* the same time (peer.repository.ts, activate: "once").
ClockStartsOnce == ghost.started <= 1

\* Once both participants' joins are answered and both are in the room, the session is
\* no longer waiting: whichever counted last saw the other.  No order of joins, leaves
\* and reloads on two instances leaves them waiting for each other.
BothInTheRoomStart ==
    \A s, t \in Sockets :
        /\ OwnerOf[s] = Host /\ OwnerOf[t] = Guest
        /\ socket[s].inRoom /\ socket[t].inRoom
        /\ socket[s].at = "handled" /\ socket[t].at = "handled"
        => row.status # "waiting"

Announcing ==
    \/ \E i \in Instances : sweep[i]
    \/ \E p \in People : request[p].at = "telling"

\* However many requests and sweeps end the session together, the room is told of its
\* end once, and only when it has ended; it is not told at all only if the one that
\* ended it failed before.
EndToldOnce ==
    /\ ghost.told <= 1
    /\ ghost.told = 1 => ~IsOpen(row)
    /\ ~IsOpen(row) => Announcing \/ ghost.told = 1 \/ ghost.untold

Quiet ==
    /\ \A s \in Sockets : /\ socket[s].at \in {"closed", "handled"}
                          /\ farewell[s].at = "none" /\ ~socket[s].refreshing
    /\ ~Announcing

\* "When both are in the room the clock starts (`started`)", after "presence as each
\* arrives" (docs/peer-interviews.md, peer.socket.test.ts): once nothing more is under way,
\* a page that has joined an active session beside its partner has not been left showing
\* neither, as it was before anything was told.
NotLeftWaiting ==
    Quiet /\ row.status = "active"
    => \A s \in Sockets :
          socket[s].page = "joined" /\ PresentNow[OtherRole(s)]
              => socket[s].clock \/ socket[s].beside
=============================================================================

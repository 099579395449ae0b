----------------------------- MODULE PeerProofs -----------------------------
(***************************************************************************)
(* Theorems about PeerSession, for any numbers of sockets and instances    *)
(* and any crashes: the clock starts once, the end is told once, and two   *)
(* participants in the room never wait for each other.  And one about      *)
(* SharedCode, for any pages and instances: no version that was relayed    *)
(* last is left unsaved.                                                   *)
(***************************************************************************)
EXTENDS PeerSession, SharedCode, TLAPS

------------------------------------------------------------------------------
(* The clock and the end *)

Statuses == {"waiting", "active", "completed", "cancelled"}

RowInv ==
    /\ row \in [status : Statuses, seated : BOOLEAN]
    /\ request \in [People -> [at : {"none", "ending", "telling", "answered"},
                              seen : {"waiting", "active"}]]
    /\ sweep \in [Instances -> BOOLEAN]
    /\ ghost \in [started : Nat, told : Nat, untold : BOOLEAN, crashes : Nat]

Telling(p) == request[p].at = "telling"

\* Whoever ended the session is the only one to tell of it.
OneTeller ==
    /\ \A i, j \in Instances : sweep[i] /\ sweep[j] => i = j
    /\ \A p, q \in People : Telling(p) /\ Telling(q) => p = q
    /\ \A i \in Instances, p \in People : sweep[i] => ~Telling(p)

EndInv ==
    /\ RowInv
    /\ ghost.started <= 1
    /\ row.status = "waiting" => ghost.started = 0
    /\ ghost.told <= 1
    /\ IsOpen(row) => ~Announcing /\ ghost.told = 0
    /\ Announcing => ghost.told = 0
    /\ OneTeller
    /\ ~IsOpen(row) => Announcing \/ ghost.told = 1 \/ ghost.untold

LEMMA EndInit == PeerInit => EndInv
<1> SUFFICES ASSUME PeerInit PROVE EndInv
  OBVIOUS
<1>1. RowInv
  BY DEF PeerInit, RowInv, NoSession, NotAsked, Statuses
<1>2. ~Announcing /\ OneTeller
  BY DEF PeerInit, NotAsked, Announcing, OneTeller, Telling
<1> QED
  BY <1>1, <1>2 DEF PeerInit, EndInv, NoSession, IsOpen

\* Most steps change none of this.
LEMMA ElsewhereEnds ==
    ASSUME EndInv, UNCHANGED <<row, request, sweep, ghost>>
    PROVE  EndInv'
BY DEF EndInv, RowInv, IsOpen, Announcing, OneTeller, Telling

LEMMA TakeSeatEnds == EndInv /\ TakeSeat => EndInv'
<1> SUFFICES ASSUME EndInv, TakeSeat PROVE EndInv'
  OBVIOUS
<1>1. RowInv' /\ row'.status = row.status
  BY DEF TakeSeat, EndInv, RowInv
<1> QED
  BY <1>1 DEF TakeSeat, EndInv, IsOpen, Announcing, OneTeller, Telling

LEMMA ActivateEnds ==
    ASSUME EndInv, NEW s \in Sockets, Activate(s)
    PROVE  EndInv'
<1>1. RowInv' /\ row.status = "waiting" /\ row'.status = "active" /\ ghost'.started = 1
      /\ ghost'.told = ghost.told /\ ghost'.untold = ghost.untold
  BY DEF Activate, MayActivate, EndInv, RowInv, Statuses
<1>2. ~Announcing' /\ OneTeller'
  BY <1>1 DEF Activate, EndInv, IsOpen, Announcing, OneTeller, Telling
<1> QED
  BY <1>1, <1>2 DEF EndInv, IsOpen

LEMMA AskToEndEnds ==
    ASSUME EndInv, NEW p \in People, AskToEnd(p)
    PROVE  EndInv'
<1>1. RowInv'
  BY DEF AskToEnd, EndInv, RowInv, IsOpen, Answered
<1>2. \A q \in People : Telling(q)' <=> Telling(q)
  BY DEF AskToEnd, EndInv, RowInv, Telling, Answered
<1> QED
  BY <1>1, <1>2 DEF AskToEnd, EndInv, IsOpen, Announcing, OneTeller, Telling

LEMMA EndSessionEnds ==
    ASSUME EndInv, NEW p \in People, EndSession(p)
    PROVE  EndInv'
<1>1. RowInv'
  BY DEF EndSession, EndInv, RowInv, Ended, Answered, Statuses
<1>2. CASE MayEnd(row, request[p].seen)
  <2>1. IsOpen(row) /\ ~IsOpen(row') /\ row'.status # "waiting"
    BY <1>2 DEF EndSession, MayEnd, EndInv, RowInv, Ended, IsOpen
  <2>2. \A q \in People : Telling(q)' <=> q = p
    BY <1>2, <2>1 DEF EndSession, EndInv, RowInv, Telling, Announcing
  <2>3. Announcing' /\ OneTeller'
    BY <2>1, <2>2 DEF EndSession, EndInv, Announcing, OneTeller, Telling
  <2> QED
    BY <1>1, <2>1, <2>3 DEF EndSession, EndInv
<1>3. CASE ~MayEnd(row, request[p].seen)
  <2>1. \A q \in People : Telling(q)' <=> Telling(q)
    BY <1>3 DEF EndSession, EndInv, RowInv, Telling, Answered
  <2> QED
    BY <1>1, <1>3, <2>1 DEF EndSession, EndInv, IsOpen, Announcing, OneTeller, Telling
<1> QED
  BY <1>2, <1>3

LEMMA TellEndedEnds ==
    ASSUME EndInv, NEW p \in People, TellEnded(p) \/ TellEndedFails(p)
    PROVE  EndInv'
<1>1. RowInv' /\ ghost'.started = ghost.started /\ row' = row /\ sweep' = sweep
  <2>1. row' = row /\ sweep' = sweep
    BY DEF TellEnded, TellEndedFails
  <2>2. request' \in [People -> [at : {"none", "ending", "telling", "answered"},
                                seen : {"waiting", "active"}]]
    BY DEF TellEnded, TellEndedFails, EndInv, RowInv, Answered
  <2>3. ghost'.started = ghost.started
        /\ ghost' \in [started : Nat, told : Nat, untold : BOOLEAN, crashes : Nat]
    <3>1. ghost \in [started : Nat, told : Nat, untold : BOOLEAN, crashes : Nat]
      BY DEF EndInv, RowInv
    <3>2. \/ ghost' = [ghost EXCEPT !.told = @ + 1]
          \/ ghost' = [ghost EXCEPT !.untold = TRUE]
      BY DEF TellEnded, TellEndedFails, Announce
    <3>3. ASSUME NEW n \in Nat, ghost' = [ghost EXCEPT !.told = n]
          PROVE  ghost'.started = ghost.started
                 /\ ghost' \in [started : Nat, told : Nat, untold : BOOLEAN, crashes : Nat]
      BY <3>1, <3>3
    <3>4. ghost.told + 1 \in Nat
      BY <3>1
    <3>5. CASE ghost' = [ghost EXCEPT !.untold = TRUE]
      BY <3>1, <3>5
    <3> QED
      BY <3>2, <3>3, <3>4, <3>5
  <2> QED
    BY <2>1, <2>2, <2>3 DEF EndInv, RowInv
<1>2. Telling(p) /\ ~IsOpen(row) /\ ghost.told = 0
  BY DEF TellEnded, TellEndedFails, Telling, EndInv, Announcing
<1>3. \A q \in People : ~Telling(q)'
  BY <1>2 DEF TellEnded, TellEndedFails, EndInv, OneTeller, RowInv, Telling, Answered
<1>4. \A i \in Instances : ~sweep'[i]
  BY <1>1, <1>2 DEF EndInv, OneTeller
<1>5. \/ ghost'.told = 1 /\ ghost'.untold = ghost.untold
      \/ ghost'.told = 0 /\ ghost'.untold = TRUE
  <2>1. ghost \in [started : Nat, told : Nat, untold : BOOLEAN, crashes : Nat]
    BY DEF EndInv, RowInv
  <2> QED
    BY <1>2, <2>1 DEF TellEnded, TellEndedFails, Announce
<1>6. ~Announcing' /\ OneTeller'
  BY <1>3, <1>4 DEF Announcing, OneTeller, Telling
<1> QED
  BY <1>1, <1>2, <1>5, <1>6 DEF EndInv, IsOpen

LEMMA SweepEnds ==
    ASSUME EndInv, NEW i \in Instances, Sweep(i)
    PROVE  EndInv'
<1>1. RowInv' /\ IsOpen(row) /\ ~IsOpen(row') /\ row'.status # "waiting" /\ ghost' = ghost
  BY DEF Sweep, EndInv, RowInv, Ended, IsOpen, Statuses
<1>2. \A j \in Instances : sweep'[j] <=> j = i
  BY <1>1 DEF Sweep, EndInv, RowInv, Announcing
<1>3. \A q \in People : ~Telling(q)'
  BY <1>1 DEF Sweep, EndInv, Announcing, Telling
<1>4. Announcing' /\ OneTeller'
  BY <1>2, <1>3 DEF Announcing, OneTeller, Telling
<1> QED
  BY <1>1, <1>4 DEF EndInv

LEMMA SweepTellsEnds ==
    ASSUME EndInv, NEW i \in Instances, SweepTells(i)
    PROVE  EndInv'
<1>1. RowInv' /\ row' = row /\ ghost'.started = ghost.started
  BY DEF SweepTells, Announce, EndInv, RowInv
<1>2. ~IsOpen(row) /\ ghost.told = 0
  BY DEF SweepTells, EndInv, Announcing
<1>3. ghost'.told = 1
  BY <1>2 DEF SweepTells, Announce, EndInv, RowInv
<1>4. \A j \in Instances : ~sweep'[j]
  BY DEF SweepTells, EndInv, OneTeller, RowInv
<1>5. \A q \in People : ~Telling(q)'
  BY DEF SweepTells, EndInv, OneTeller, Telling
<1>6. ~Announcing' /\ OneTeller'
  BY <1>4, <1>5 DEF Announcing, OneTeller, Telling
<1> QED
  BY <1>1, <1>2, <1>3, <1>6 DEF EndInv

\* An instance that dies while it has an ending to tell leaves it untold.
LEMMA CrashEnds ==
    ASSUME EndInv, NEW i \in Instances, Crash(i)
    PROVE  EndInv'
<1>1. /\ RowInv' /\ row' = row
      /\ ghost'.started = ghost.started /\ ghost'.told = ghost.told
  <2>1. row' = row /\ sweep' \in [Instances -> BOOLEAN]
    BY DEF Crash, EndInv, RowInv
  <2>2. request' \in [People -> [at : {"none", "ending", "telling", "answered"},
                                seen : {"waiting", "active"}]]
    BY DEF Crash, EndInv, RowInv, Answered
  <2> DEFINE untold == ghost.untold \/ sweep[i]
                       \/ \E p \in People : AnsweredBy[p] = i /\ request[p].at = "telling"
  <2>3. ghost' = [ghost EXCEPT !.crashes = @ + 1, !.untold = untold] /\ untold \in BOOLEAN
    BY Zenon DEF Crash
  <2>4. ghost \in [started : Nat, told : Nat, untold : BOOLEAN, crashes : Nat]
    BY DEF EndInv, RowInv
  <2> HIDE DEF untold
  <2>5. ghost'.started = ghost.started /\ ghost'.told = ghost.told
        /\ ghost' \in [started : Nat, told : Nat, untold : BOOLEAN, crashes : Nat]
    <3>1. PICK u \in BOOLEAN, n \in Nat : u = untold /\ n = ghost.crashes + 1
      BY <2>3, <2>4
    <3>2. ghost' = [ghost EXCEPT !.crashes = n, !.untold = u]
      BY <2>3, <3>1
    <3> QED
      BY <2>4, <3>2
  <2> QED
    BY <2>1, <2>2, <2>5 DEF EndInv, RowInv
<1>2. \A j \in Instances : sweep'[j] => sweep[j]
  BY DEF Crash, EndInv, RowInv
<1>3. \A q \in People : Telling(q)' => Telling(q)
  BY DEF Crash, EndInv, RowInv, Telling, Answered
<1>4. OneTeller'
  BY <1>2, <1>3 DEF EndInv, OneTeller
<1>5. Announcing' => Announcing
  BY <1>2, <1>3 DEF Announcing, Telling
<1>6. ASSUME Announcing, ~ghost'.untold PROVE Announcing'
  <2>1. ~sweep[i] /\ \A q \in People : ~(AnsweredBy[q] = i /\ Telling(q))
    BY <1>6 DEF Crash, EndInv, RowInv, Telling
  <2>2. \A j \in Instances : sweep[j] => sweep'[j]
    BY <2>1 DEF Crash, EndInv, RowInv
  <2>3. \A q \in People : Telling(q) => Telling(q)'
    BY <2>1 DEF Crash, EndInv, RowInv, Telling
  <2> QED
    BY <1>6, <2>2, <2>3 DEF Announcing, Telling
<1>7. ghost.untold => ghost'.untold
  <2>1. ghost \in [started : Nat, told : Nat, untold : BOOLEAN, crashes : Nat]
    BY DEF EndInv, RowInv
  <2> QED
    BY <2>1 DEF Crash
<1> QED
  BY <1>1, <1>4, <1>5, <1>6, <1>7 DEF EndInv

LEMMA EndStepInv == EndInv /\ [PeerNext]_peerVars => EndInv'
<1> SUFFICES ASSUME EndInv, [PeerNext]_peerVars PROVE EndInv'
  OBVIOUS
<1>1. CASE UNCHANGED peerVars
  BY <1>1, ElsewhereEnds DEF peerVars
<1>2. ASSUME NEW s \in Sockets, JoinStep(s) \/ LeaveStep(s) \/ PageStep(s) PROVE EndInv'
  <2>1. CASE Activate(s)
    BY <2>1, ActivateEnds
  <2>2. CASE ~Activate(s)
    <3>1. UNCHANGED <<row, request, sweep, ghost>>
      BY <1>2, <2>2 DEF JoinStep, LeaveStep, PageStep, EnterRoom, JoinRoom, CountPresence,
         TellPresence, ActivateNot, TellStarted, CountFarewell, TellFarewell, OpenPage,
         EnterFails, RefreshSession, Leave, Drop
    <3> QED
      BY <3>1, ElsewhereEnds
  <2> QED
    BY <2>1, <2>2
<1>3. ASSUME NEW p \in Enders, EndStep(p) PROVE EndInv'
  <2>1. p \in People
    BY PeerAssumption
  <2> QED
    BY <1>3, <2>1, AskToEndEnds, EndSessionEnds, TellEndedEnds DEF EndStep
<1> QED
  BY <1>1, <1>2, <1>3, TakeSeatEnds, SweepEnds, SweepTellsEnds, CrashEnds DEF PeerNext

\* The clock starts once, however many joins find both participants in the room
\* (peer.repository.ts, activate).
THEOREM OneStart == PeerSpec => []ClockStartsOnce
<1>1. EndInv => ClockStartsOnce
  BY DEF EndInv, ClockStartsOnce
<1> QED
  BY <1>1, EndInit, EndStepInv, PTL DEF PeerSpec

\* However many requests, sweeps and crashes, the room is told of the session's end once,
\* and not at all only if the one that ended it failed before (endSession, sweepExpired).
THEOREM OneEnd == PeerSpec => []EndToldOnce
<1>1. EndInv => EndToldOnce
  BY DEF EndInv, RowInv, EndToldOnce
<1> QED
  BY <1>1, EndInit, EndStepInv, PTL DEF PeerSpec

------------------------------------------------------------------------------
(* Both in the room *)

\* A socket has the fields the argument is about, whatever is in them.
Fields == {"at", "seen", "present", "inRoom"}
IsSocket(c) == Fields \subseteq DOMAIN c

\* A socket that has counted who is in the room, and one that will have the clock started.
Counted(c) == c.at \in {"counted", "starting", "started", "handled"}

Starts(c) ==
    \/ c.at = "starting"
    \/ c.at = "counted" /\ c.seen.status = "waiting" /\ \A p \in People : c.present[p]

Waiting == row.status = "waiting"

JoinInv(s) ==
    LET c == socket[s]
    IN /\ c.at \in {"closed", "entering", "entered"} => ~c.inRoom
       /\ Waiting /\ c.at \in {"entered", "joined", "counted"} => c.seen.status = "waiting"
       /\ c.at \notin {"closed", "handled"} \/ c.inRoom => Participant(OwnerOf[s])
       /\ c.at = "started" => ~Waiting

\* Of two participants in the room who have counted, the one who counted last starts it.
PairInv(s, t) ==
    /\ OwnerOf[s] = Host /\ OwnerOf[t] = Guest
    /\ socket[s].inRoom /\ socket[t].inRoom
    /\ Counted(socket[s]) /\ Counted(socket[t])
    => ~Waiting \/ Starts(socket[s]) \/ Starts(socket[t])

RoomInv ==
    /\ \A s \in Sockets : IsSocket(socket[s])
    /\ DOMAIN socket = Sockets
    /\ \A s \in Sockets : JoinInv(s)
    /\ \A s, t \in Sockets : PairInv(s, t)

\* What happens to a socket that is not in its own join handler.
Keeps(c, d) ==
    /\ IsSocket(d)
    /\ d.at = c.at /\ d.seen = c.seen /\ d.present = c.present
    /\ d.inRoom = c.inRoom \/ ~d.inRoom

LEMMA HideKeeps ==
    ASSUME NEW c, IsSocket(c), NEW page
    PROVE  /\ Keeps(c, Hide(c, page)) /\ Hide(c, page).inRoom = c.inRoom
           /\ Keeps(c, [Hide(c, page) EXCEPT !.inRoom = FALSE])
           /\ Keeps(c, [Hide(c, page) EXCEPT !.inRoom = FALSE, !.inSession = FALSE])
<1>1. Keeps(c, Hide(c, page)) /\ Hide(c, page).inRoom = c.inRoom
  BY DEF Hide, Keeps, IsSocket, Fields
<1>2. ASSUME NEW d, Keeps(c, d)
      PROVE  /\ Keeps(c, [d EXCEPT !.inRoom = FALSE])
             /\ Keeps(c, [d EXCEPT !.inRoom = FALSE, !.inSession = FALSE])
  BY <1>2 DEF Keeps, IsSocket, Fields
<1> QED
  BY <1>1, <1>2

LEMMA PresenceKeeps ==
    ASSUME NEW c, IsSocket(c), NEW other, NEW present
    PROVE  /\ Keeps(c, SeesPresence(c, other, present))
           /\ SeesPresence(c, other, present).inRoom = c.inRoom
<1>1. CASE Showing(c)
  BY <1>1 DEF SeesPresence, Keeps, IsSocket, Fields
<1>2. CASE ~Showing(c)
  BY <1>2 DEF SeesPresence, Keeps
<1> QED
  BY <1>1, <1>2

LEMMA StartedKeeps ==
    ASSUME NEW c, IsSocket(c)
    PROVE  Keeps(c, SeesStarted(c)) /\ Keeps(c, SeesEnded(c))
<1>1. Keeps(c, c) /\ Keeps(c, [c EXCEPT !.clock = TRUE])
  BY DEF Keeps, IsSocket, Fields
<1> QED
  BY <1>1, HideKeeps DEF SeesStarted, SeesEnded

Handles(c, d) == IsSocket(d) /\ d.at = "handled" /\ d.inRoom = c.inRoom

LEMMA HandledHandles ==
    ASSUME NEW c, IsSocket(c)
    PROVE  Handles(c, Handled(c))
BY DEF Handled, Handles, IsSocket, Fields

\* An answered join is handled, and its socket is in the room if it was.
LEMMA AckHandles ==
    ASSUME NEW c, IsSocket(c), NEW other, NEW session, NEW present
    PROVE  Handles(c, Handled(SeesAck(c, other, session, present)))
<1>1. IsSocket(SeesSession(c, session)) /\ SeesSession(c, session).inRoom = c.inRoom
  BY DEF SeesSession, IsSocket, Fields
<1>2. LET e == SeesAck(c, other, session, present)
      IN IsSocket(e) /\ e.inRoom = c.inRoom
  BY <1>1, PresenceKeeps DEF SeesAck, Keeps
<1> QED
  BY <1>2, HandledHandles DEF Handles

\* Of two steps of the row, what the argument needs: a session that is waiting was
\* waiting, and a participant stays one.
RowKeeps ==
    /\ row'.status = "waiting" => Waiting
    /\ \A p \in People : Participant(p) => Participant(p)'

\* A step that moves one socket at most, the others keeping what they have.
LEMMA OneMoves ==
    ASSUME RoomInv, RowKeeps, NEW s \in Sockets,
           DOMAIN socket' = Sockets,
           \A t \in Sockets \ {s} : Keeps(socket[t], socket'[t]),
           IsSocket(socket'[s]),
           JoinInv(s)',
           \A t \in Sockets : PairInv(s, t)' /\ PairInv(t, s)'
    PROVE  RoomInv'
<1>1. ASSUME NEW t \in Sockets PROVE JoinInv(t)'
  <2>1. CASE t = s
    BY <2>1
  <2>2. CASE t # s
    <3>1. Keeps(socket[t], socket'[t]) /\ JoinInv(t)
      BY <2>2 DEF RoomInv
    <3>2. OwnerOf[t] \in People
      BY PeerAssumption
    <3> QED
      BY <3>1, <3>2 DEF Keeps, JoinInv, RowKeeps, Waiting
  <2> QED
    BY <2>1, <2>2
<1>2. ASSUME NEW t \in Sockets, NEW u \in Sockets PROVE PairInv(t, u)'
  <2>1. CASE t = s \/ u = s
    BY <2>1
  <2>2. CASE t # s /\ u # s
    <3>1. Keeps(socket[t], socket'[t]) /\ Keeps(socket[u], socket'[u]) /\ PairInv(t, u)
      BY <2>2 DEF RoomInv
    <3> QED
      BY <3>1 DEF Keeps, PairInv, RowKeeps, Waiting, Counted, Starts
  <2> QED
    BY <2>1, <2>2
<1>3. \A t \in Sockets : IsSocket(socket'[t])
  BY DEF Keeps
<1> QED
  BY <1>1, <1>2, <1>3 DEF RoomInv

LEMMA NoneMoves ==
    ASSUME RoomInv, RowKeeps,
           DOMAIN socket' = Sockets,
           \A t \in Sockets : Keeps(socket[t], socket'[t])
    PROVE  RoomInv'
<1>1. ASSUME NEW t \in Sockets PROVE JoinInv(t)'
  <2>1. Keeps(socket[t], socket'[t]) /\ JoinInv(t) /\ OwnerOf[t] \in People
    BY PeerAssumption DEF RoomInv
  <2> QED
    BY <2>1 DEF Keeps, JoinInv, RowKeeps, Waiting
<1>2. ASSUME NEW t \in Sockets, NEW u \in Sockets PROVE PairInv(t, u)'
  <2>1. Keeps(socket[t], socket'[t]) /\ Keeps(socket[u], socket'[u]) /\ PairInv(t, u)
    BY DEF RoomInv
  <2> QED
    BY <2>1 DEF Keeps, PairInv, RowKeeps, Waiting, Counted, Starts
<1> QED
  BY <1>1, <1>2 DEF RoomInv, Keeps

\* No step takes the session back to waiting, or the guest's seat.
LEMMA RowStays == EndInv /\ [PeerNext]_peerVars => RowKeeps
<1> SUFFICES ASSUME EndInv, [PeerNext]_peerVars PROVE RowKeeps
  OBVIOUS
<1>1. \/ row' = row
      \/ row' = [row EXCEPT !.seated = TRUE]
      \/ row' = [row EXCEPT !.status = "active"]
      \/ \E seen : row' = [row EXCEPT !.status = Ended(seen)]
  BY DEF PeerNext, peerVars, JoinStep, LeaveStep, PageStep, EndStep, TakeSeat, EnterRoom,
     JoinRoom, CountPresence, TellPresence, Activate, ActivateNot, TellStarted,
     CountFarewell, TellFarewell, OpenPage, EnterFails, RefreshSession, Leave, Drop,
     AskToEnd, EndSession, TellEnded, TellEndedFails, Sweep, SweepTells, Crash
<1>2. row \in [status : Statuses, seated : BOOLEAN]
  BY DEF EndInv, RowInv
<1>3. \A seen : Ended(seen) # "waiting"
  BY DEF Ended
<1> QED
  BY <1>1, <1>2, <1>3 DEF RowKeeps, Waiting, Participant

\* A step that leaves a socket out of the room, or not yet counting, concerns no pair.
LEMMA ApartMoves ==
    ASSUME RoomInv, RowKeeps, NEW s \in Sockets, NEW d,
           socket' = [socket EXCEPT ![s] = d],
           IsSocket(d), JoinInv(s)', ~d.inRoom \/ ~Counted(d)
    PROVE  RoomInv'
<1>1. DOMAIN socket' = Sockets /\ socket'[s] = d
      /\ \A t \in Sockets \ {s} : socket'[t] = socket[t]
  BY DEF RoomInv
<1>2. \A t \in Sockets \ {s} : Keeps(socket[t], socket'[t])
  BY <1>1 DEF RoomInv, Keeps
<1>3. \A t \in Sockets : PairInv(s, t)' /\ PairInv(t, s)'
  BY <1>1 DEF PairInv
<1> QED
  BY <1>1, <1>2, <1>3, OneMoves

LEMMA EntersRoom ==
    ASSUME RoomInv, RowKeeps, NEW s \in Sockets, EnterRoom(s) \/ EnterFails(s)
    PROVE  RoomInv'
<1>1. socket[s].at = "entering" /\ ~socket[s].inRoom /\ Participant(OwnerOf[s])
      /\ IsSocket(socket[s]) /\ DOMAIN socket = Sockets /\ row' = row
  BY DEF RoomInv, JoinInv, EnterRoom, EnterFails
<1>2. CASE socket' = [socket EXCEPT ![s] = Handled(Hide(@, "gone"))]
  <2> DEFINE d == Handled(Hide(socket[s], "gone"))
  <2>1. IsSocket(d) /\ d.at = "handled" /\ ~d.inRoom
    <3> DEFINE h == Hide(socket[s], "gone")
    <3>1. Keeps(socket[s], h) /\ h.inRoom = socket[s].inRoom
      BY <1>1, HideKeeps
    <3>2. Handles(h, d)
      BY <3>1, HandledHandles DEF Keeps
    <3> HIDE DEF h, d
    <3> QED
      BY <1>1, <3>1, <3>2 DEF Handles
  <2> HIDE DEF d
  <2>2. socket' = [socket EXCEPT ![s] = d]
    BY <1>2 DEF d
  <2>3. JoinInv(s)'
    BY <1>1, <2>1, <2>2 DEF JoinInv, Participant
  <2> QED
    BY <2>1, <2>2, <2>3, ApartMoves
<1>3. CASE socket' = [socket EXCEPT ![s] = [@ EXCEPT !.at = "entered", !.seen = row]]
  <2> DEFINE d == [socket[s] EXCEPT !.at = "entered", !.seen = row]
  <2>1. IsSocket(d) /\ d.at = "entered" /\ d.seen = row /\ d.inRoom = socket[s].inRoom
    BY <1>1 DEF IsSocket, Fields
  <2> HIDE DEF d
  <2>2. socket' = [socket EXCEPT ![s] = d]
    BY <1>3 DEF d
  <2>3. JoinInv(s)'
    BY <1>1, <2>1, <2>2 DEF JoinInv, Participant, Waiting
  <2> QED
    BY <1>1, <2>1, <2>2, <2>3, ApartMoves DEF Counted
<1> QED
  BY <1>2, <1>3 DEF EnterRoom, EnterFails

LEMMA OpensPage ==
    ASSUME RoomInv, RowKeeps, NEW s \in Sockets, OpenPage(s)
    PROVE  RoomInv'
<1>1. socket[s].at = "closed" /\ ~socket[s].inRoom /\ Participant(OwnerOf[s])
      /\ IsSocket(socket[s]) /\ row' = row
  BY DEF RoomInv, JoinInv, OpenPage
<1> DEFINE d == [socket[s] EXCEPT !.at = "entering", !.page = "joining",
                                  !.clock = row.status = "active", !.partner = row.seated]
<1>2. IsSocket(d) /\ d.at = "entering" /\ d.inRoom = socket[s].inRoom
  <2>1. PICK u : u = (row.status = "active")
    OBVIOUS
  <2>2. d = [socket[s] EXCEPT !.at = "entering", !.page = "joining", !.clock = u,
                              !.partner = row.seated]
    BY <2>1, Zenon
  <2> HIDE DEF d
  <2> QED
    BY <1>1, <2>2 DEF IsSocket, Fields
<1>3. socket' = [socket EXCEPT ![s] = d]
  BY Zenon DEF OpenPage
<1> HIDE DEF d
<1>4. JoinInv(s)'
  BY <1>1, <1>2, <1>3 DEF JoinInv, Participant, RoomInv
<1> QED
  BY <1>1, <1>2, <1>3, <1>4, ApartMoves

LEMMA JoinsRoom ==
    ASSUME RoomInv, RowKeeps, NEW s \in Sockets, JoinRoom(s)
    PROVE  RoomInv'
<1>1. socket[s].at = "entered" /\ Participant(OwnerOf[s])
      /\ (Waiting => socket[s].seen.status = "waiting")
      /\ IsSocket(socket[s]) /\ row' = row
  BY DEF RoomInv, JoinInv, JoinRoom
<1>2. PICK u : u = Connected(s)
  OBVIOUS
<1> DEFINE d == [socket[s] EXCEPT !.at = "joined", !.inSession = TRUE, !.inRoom = u]
<1>3. IsSocket(d) /\ d.at = "joined" /\ d.seen = socket[s].seen
  BY <1>1 DEF IsSocket, Fields
<1>4. socket' = [socket EXCEPT ![s] = d]
  BY <1>2, Zenon DEF JoinRoom
<1> HIDE DEF d
<1>5. JoinInv(s)'
  BY <1>1, <1>3, <1>4 DEF JoinInv, Participant, Waiting, RoomInv
<1> QED
  BY <1>3, <1>4, <1>5, ApartMoves DEF Counted

\* The one that counts last sees the other.
LEMMA CountsPresence ==
    ASSUME RoomInv, RowKeeps, NEW s \in Sockets, CountPresence(s)
    PROVE  RoomInv'
<1>1. socket[s].at = "joined" /\ Participant(OwnerOf[s])
      /\ (Waiting => socket[s].seen.status = "waiting")
      /\ IsSocket(socket[s]) /\ DOMAIN socket = Sockets /\ row' = row
  BY DEF RoomInv, JoinInv, CountPresence
<1> DEFINE d == [socket[s] EXCEPT !.at = "counted", !.present = PresentNow]
<1>2. IsSocket(d) /\ d.at = "counted" /\ d.seen = socket[s].seen
      /\ d.present = PresentNow /\ d.inRoom = socket[s].inRoom
  BY <1>1 DEF IsSocket, Fields
<1>3. socket' = [socket EXCEPT ![s] = d]
  BY DEF CountPresence
<1> HIDE DEF d
<1>4. JoinInv(s)'
  BY <1>1, <1>2, <1>3 DEF JoinInv, Participant, Waiting, RoomInv
<1>5. DOMAIN socket' = Sockets /\ socket'[s] = d
      /\ \A t \in Sockets \ {s} : socket'[t] = socket[t]
  BY <1>1, <1>3
<1>6. \A t \in Sockets : socket'[t].inRoom = socket[t].inRoom
  BY <1>2, <1>5
<1>7. ASSUME NEW t \in Sockets, NEW u \in Sockets, s \in {t, u},
             OwnerOf[t] = Host, OwnerOf[u] = Guest,
             socket[t].inRoom, socket[u].inRoom, Waiting
      PROVE  Starts(d)
  <2>1. \A p \in People : PresentNow[p]
    BY <1>7 DEF PresentNow, People
  <2> QED
    BY <1>1, <1>2, <1>7, <2>1 DEF Starts
<1>8. \A t \in Sockets : PairInv(s, t)' /\ PairInv(t, s)'
  BY <1>1, <1>5, <1>6, <1>7 DEF PairInv, Waiting
<1>9. \A t \in Sockets \ {s} : Keeps(socket[t], socket'[t])
  BY <1>5 DEF RoomInv, Keeps
<1> QED
  BY <1>2, <1>4, <1>5, <1>8, <1>9, OneMoves

\* What the room is told does not move a join.
LEMMA ToldKeeps ==
    ASSUME RoomInv, NEW present
    PROVE  /\ DOMAIN PresenceTold(socket, present) = Sockets
           /\ DOMAIN StartedTold(socket) = Sockets
           /\ DOMAIN EndedTold(socket) = Sockets
           /\ \A t \in Sockets :
                 /\ Keeps(socket[t], PresenceTold(socket, present)[t])
                 /\ PresenceTold(socket, present)[t].inRoom = socket[t].inRoom
                 /\ Keeps(socket[t], StartedTold(socket)[t])
                 /\ Keeps(socket[t], EndedTold(socket)[t])
<1>1. \A t \in Sockets : IsSocket(socket[t]) /\ Keeps(socket[t], socket[t])
  BY DEF RoomInv, Keeps
<1> QED
  BY <1>1, PresenceKeeps, StartedKeeps DEF PresenceTold, StartedTold, EndedTold

\* A join whose socket is handled, everybody else keeping what they have: it may not be
\* the one that would have had the clock started.
LEMMA Handling ==
    ASSUME RoomInv, RowKeeps, NEW s \in Sockets, NEW told, NEW session,
           DOMAIN told = Sockets,
           \A t \in Sockets : Keeps(socket[t], told[t]),
           socket' = Acked(told, s, session),
           Counted(socket[s]), socket[s].at # "closed", row' = row,
           Starts(socket[s]) => ~Waiting \/ ~row.seated,
           Participant(OwnerOf[s])
    PROVE  RoomInv'
<1> DEFINE d == Handled(SeesAck(told[s], OtherRole(s), session, told[s].present))
<1>1. Keeps(socket[s], told[s])
  OBVIOUS
<1>2. Handles(told[s], d)
  BY <1>1, AckHandles DEF Keeps
<1>3. socket' = [told EXCEPT ![s] = d]
  BY DEF Acked
<1> HIDE DEF d
<1>4. DOMAIN socket' = Sockets /\ socket'[s] = d
      /\ \A t \in Sockets \ {s} : Keeps(socket[t], socket'[t])
  BY <1>3
<1>5. IsSocket(d) /\ d.at = "handled" /\ (d.inRoom => socket[s].inRoom)
  BY <1>1, <1>2 DEF Keeps, Handles
<1>6. JoinInv(s)'
  BY <1>4, <1>5 DEF JoinInv, Participant
<1>7. ASSUME NEW t \in Sockets, t # s PROVE PairInv(s, t)' /\ PairInv(t, s)'
  <2>1. Keeps(socket[t], socket'[t]) /\ socket'[s] = d
    BY <1>4, <1>7
  <2>2. PairInv(s, t) /\ PairInv(t, s)
    BY DEF RoomInv
  <2>3. (OwnerOf[t] = Guest /\ socket[t].inRoom) \/ OwnerOf[s] = Guest => row.seated
    <3>1. JoinInv(t) /\ Host # Guest
      BY PeerAssumption DEF RoomInv
    <3> QED
      BY <3>1 DEF JoinInv, Participant
  <2>4. ASSUME socket'[t].inRoom, Counted(socket'[t])
        PROVE  socket[t].inRoom /\ Counted(socket[t])
               /\ (Starts(socket[t]) => Starts(socket'[t]))
    BY <2>1, <2>4 DEF Keeps, Counted, Starts
  <2>5. d.inRoom => socket[s].inRoom
    BY <1>5
  <2> QED
    BY <2>1, <2>2, <2>3, <2>4, <2>5 DEF PairInv, Waiting
<1>8. PairInv(s, s)'
  BY PeerAssumption DEF PairInv
<1> QED
  BY <1>4, <1>5, <1>6, <1>7, <1>8, OneMoves

LEMMA TellsPresence ==
    ASSUME RoomInv, RowKeeps, NEW s \in Sockets, TellPresence(s)
    PROVE  RoomInv'
<1>1. socket[s].at = "counted" /\ Participant(OwnerOf[s]) /\ Counted(socket[s])
      /\ row' = row /\ JoinInv(s) /\ DOMAIN socket = Sockets
      /\ \A t \in Sockets : Keeps(socket[t], socket[t])
  BY DEF RoomInv, JoinInv, TellPresence, Counted, Keeps
<1> DEFINE told == IF socket[s].inSession THEN PresenceTold(socket, socket[s].present)
                   ELSE socket
<1>2. DOMAIN told = Sockets /\ \A t \in Sockets : Keeps(socket[t], told[t])
  BY <1>1, ToldKeeps
<1>3. CASE ~ToStart(s)
  <2>1. socket' = Acked(told, s, socket[s].seen)
    BY <1>3 DEF TellPresence
  <2>2. ~Starts(socket[s])
    BY <1>1, <1>3 DEF Starts, ToStart
  <2> HIDE DEF told
  <2> QED
    BY <1>1, <1>2, <2>1, <2>2, Handling
<1>4. CASE ToStart(s)
  <2>1. socket' = [told EXCEPT ![s].at = "starting"]
    BY <1>4 DEF TellPresence
  <2> HIDE DEF told
  <2> DEFINE d == [told[s] EXCEPT !.at = "starting"]
  <2>2. IsSocket(d) /\ d.at = "starting"
    BY <1>2 DEF Keeps, IsSocket, Fields
  <2>3. socket' = [told EXCEPT ![s] = d]
    BY <2>1
  <2> HIDE DEF d
  <2>4. DOMAIN socket' = Sockets /\ socket'[s] = d
        /\ \A t \in Sockets \ {s} : Keeps(socket[t], socket'[t])
    BY <1>2, <2>3
  <2>5. JoinInv(s)'
    BY <1>1, <2>2, <2>4 DEF JoinInv, Participant
  <2>6. \A t \in Sockets : PairInv(s, t)' /\ PairInv(t, s)'
    BY <2>2, <2>4 DEF PairInv, Starts
  <2> QED
    BY <2>2, <2>4, <2>5, <2>6, OneMoves
<1> QED
  BY <1>3, <1>4

LEMMA Activates ==
    ASSUME RoomInv, EndInv, RowKeeps, NEW s \in Sockets, Activate(s)
    PROVE  RoomInv'
<1>1. socket[s].at = "starting" /\ Participant(OwnerOf[s]) /\ DOMAIN socket = Sockets
      /\ IsSocket(socket[s])
  BY DEF RoomInv, JoinInv, Activate
<1>2. ~Waiting'
  BY DEF Activate, EndInv, RowInv, Waiting
<1> DEFINE d == [socket[s] EXCEPT !.at = "started"]
<1>3. IsSocket(d) /\ d.at = "started" /\ socket' = [socket EXCEPT ![s] = d]
  BY <1>1 DEF IsSocket, Fields, Activate
<1> HIDE DEF d
<1>4. DOMAIN socket' = Sockets /\ socket'[s] = d
      /\ \A t \in Sockets \ {s} : Keeps(socket[t], socket'[t])
  BY <1>1, <1>3 DEF RoomInv, Keeps
<1>5. OwnerOf[s] \in People
  BY PeerAssumption
<1>6. JoinInv(s)'
  BY <1>1, <1>2, <1>3, <1>4, <1>5 DEF JoinInv, RowKeeps
<1>7. \A t \in Sockets : PairInv(s, t)' /\ PairInv(t, s)'
  BY <1>2 DEF PairInv
<1> QED
  BY <1>3, <1>4, <1>6, <1>7, OneMoves

LEMMA AnswersJoin ==
    ASSUME RoomInv, EndInv, RowKeeps, NEW s \in Sockets, ActivateNot(s) \/ TellStarted(s)
    PROVE  RoomInv'
<1>1. socket[s].at \in {"starting", "started"} /\ Participant(OwnerOf[s])
      /\ Counted(socket[s]) /\ row' = row /\ JoinInv(s) /\ DOMAIN socket = Sockets
      /\ \A t \in Sockets : Keeps(socket[t], socket[t])
  BY DEF RoomInv, JoinInv, ActivateNot, TellStarted, Counted, Keeps
<1>2. CASE ActivateNot(s)
  <2>1. ~Waiting \/ ~row.seated
    BY <1>2 DEF ActivateNot, MayActivate, Waiting
  <2>2. socket' = Acked(socket, s, socket[s].seen)
    BY <1>2 DEF ActivateNot
  <2> QED
    BY <1>1, <2>1, <2>2, Handling
<1>3. CASE TellStarted(s)
  <2> DEFINE told == IF socket[s].inSession THEN StartedTold(socket) ELSE socket
  <2>1. DOMAIN told = Sockets /\ \A t \in Sockets : Keeps(socket[t], told[t])
    BY <1>1, ToldKeeps
  <2>2. ~Waiting
    BY <1>1, <1>3 DEF TellStarted, JoinInv
  <2>3. socket' = Acked(told, s, row)
    BY <1>3 DEF TellStarted
  <2> HIDE DEF told
  <2> QED
    BY <1>1, <2>1, <2>2, <2>3, Handling
<1> QED
  BY <1>2, <1>3

\* Pages that read, leave or drop, and what the room is told, move no join.
LEMMA PagesStay ==
    ASSUME RoomInv, RowKeeps, NEW s \in Sockets,
           RefreshSession(s) \/ Leave(s) \/ Drop(s)
    PROVE  RoomInv'
<1>1. DOMAIN socket = Sockets /\ \A t \in Sockets : IsSocket(socket[t])
  BY DEF RoomInv
<1>2. \E d : Keeps(socket[s], d) /\ socket' = [socket EXCEPT ![s] = d]
  <2>1. CASE RefreshSession(s)
    <3>1. PICK u : u = (socket[s].clock \/ row.status = "active")
      OBVIOUS
    <3> DEFINE d == [socket[s] EXCEPT !.refreshing = FALSE, !.partner = row.seated, !.clock = u]
    <3>2. Keeps(socket[s], d)
      BY <1>1 DEF Keeps, IsSocket, Fields
    <3>3. socket' = [socket EXCEPT ![s] = d]
      BY <1>1, <2>1, <3>1 DEF RefreshSession
    <3> QED
      BY <3>2, <3>3
  <2>2. CASE Leave(s)
    <3> DEFINE d == [Hide(socket[s], "leaving") EXCEPT !.inRoom = FALSE, !.inSession = FALSE]
    <3>1. Keeps(socket[s], d)
      BY <1>1, HideKeeps
    <3>2. socket' = [socket EXCEPT ![s] = d]
      BY <2>2 DEF Leave
    <3> QED
      BY <3>1, <3>2
  <2>3. CASE Drop(s)
    <3> DEFINE d == [Hide(socket[s], "gone") EXCEPT !.inRoom = FALSE]
    <3>1. Keeps(socket[s], d)
      BY <1>1, HideKeeps
    <3>2. socket' = [socket EXCEPT ![s] = d]
      BY <2>3 DEF Drop
    <3> QED
      BY <3>1, <3>2
  <2> QED
    BY <2>1, <2>2, <2>3
<1>3. PICK d : Keeps(socket[s], d) /\ socket' = [socket EXCEPT ![s] = d]
  BY <1>2
<1>4. DOMAIN socket' = Sockets /\ \A t \in Sockets : Keeps(socket[t], socket'[t])
  BY <1>1, <1>3 DEF Keeps
<1> QED
  BY <1>4, NoneMoves

LEMMA Tells ==
    ASSUME RoomInv, RowKeeps,
           \/ socket' = socket
           \/ socket' = EndedTold(socket)
           \/ \E present : socket' = PresenceTold(socket, present)
    PROVE  RoomInv'
<1>1. DOMAIN socket' = Sockets /\ \A t \in Sockets : Keeps(socket[t], socket'[t])
  <2>1. CASE socket' = socket
    BY <2>1 DEF RoomInv, Keeps
  <2>2. CASE socket' = EndedTold(socket)
    BY <2>2, ToldKeeps
  <2>3. ASSUME NEW present, socket' = PresenceTold(socket, present)
        PROVE  DOMAIN socket' = Sockets /\ \A t \in Sockets : Keeps(socket[t], socket'[t])
    BY <2>3, ToldKeeps
  <2> QED
    BY <2>1, <2>2, <2>3
<1> QED
  BY <1>1, NoneMoves

\* The sockets of an instance that dies are out of the room.
LEMMA Crashes ==
    ASSUME RoomInv, RowKeeps, NEW i \in Instances, Crash(i)
    PROVE  RoomInv'
<1> DEFINE gone == [NewSocket EXCEPT !.at = "handled", !.page = "gone"]
<1>1. IsSocket(gone) /\ gone.at = "handled" /\ ~gone.inRoom
  BY DEF NewSocket, IsSocket, Fields
<1>2. socket' = [s \in Sockets |-> IF ServedBy[s] = i /\ socket[s].page # "closed"
                                   THEN gone ELSE socket[s]]
  BY DEF Crash
<1> HIDE DEF gone
<1>3. \A t \in Sockets : IsSocket(socket'[t])
  BY <1>1, <1>2 DEF RoomInv
<1>4. ASSUME NEW t \in Sockets PROVE JoinInv(t)'
  <2>1. JoinInv(t) /\ OwnerOf[t] \in People
    BY PeerAssumption DEF RoomInv
  <2>2. CASE socket'[t] = gone
    BY <1>1, <2>2 DEF JoinInv
  <2>3. CASE socket'[t] = socket[t]
    BY <2>1, <2>3 DEF JoinInv, RowKeeps, Waiting
  <2> QED
    BY <1>2, <2>2, <2>3
<1>5. ASSUME NEW t \in Sockets, NEW u \in Sockets PROVE PairInv(t, u)'
  <2>1. PairInv(t, u)
    BY DEF RoomInv
  <2>2. CASE socket'[t] = gone \/ socket'[u] = gone
    BY <1>1, <2>2 DEF PairInv
  <2>3. CASE socket'[t] = socket[t] /\ socket'[u] = socket[u]
    BY <2>1, <2>3 DEF PairInv, RowKeeps, Waiting
  <2> QED
    BY <1>2, <2>2, <2>3
<1>6. DOMAIN socket' = Sockets
  BY <1>2
<1> QED
  BY <1>3, <1>4, <1>5, <1>6 DEF RoomInv

LEMMA RoomInit == PeerInit => RoomInv
<1> SUFFICES ASSUME PeerInit PROVE RoomInv
  OBVIOUS
<1>1. /\ DOMAIN socket = Sockets
      /\ \A s \in Sockets : /\ IsSocket(socket[s]) /\ socket[s].at = "closed"
                            /\ ~socket[s].inRoom
  BY DEF PeerInit, NewSocket, IsSocket, Fields
<1> QED
  BY <1>1 DEF RoomInv, JoinInv, PairInv

LEMMA RoomStep == RoomInv /\ EndInv /\ [PeerNext]_peerVars => RoomInv'
<1> SUFFICES ASSUME RoomInv, EndInv, [PeerNext]_peerVars PROVE RoomInv'
  OBVIOUS
<1>1. RowKeeps
  BY RowStays
<1>2. CASE UNCHANGED peerVars
  BY <1>1, <1>2, Tells DEF peerVars
<1>3. CASE TakeSeat
  BY <1>1, <1>3, Tells DEF TakeSeat
<1>4. ASSUME NEW s \in Sockets, JoinStep(s) PROVE RoomInv'
  BY <1>1, <1>4, EntersRoom, JoinsRoom, CountsPresence, TellsPresence, Activates, AnswersJoin
     DEF JoinStep
<1>5. ASSUME NEW s \in Sockets, LeaveStep(s) PROVE RoomInv'
  BY <1>1, <1>5, Tells DEF LeaveStep, CountFarewell, TellFarewell
<1>6. ASSUME NEW s \in Sockets, PageStep(s) PROVE RoomInv'
  BY <1>1, <1>6, OpensPage, EntersRoom, PagesStay DEF PageStep
<1>7. ASSUME NEW p \in Enders, EndStep(p) PROVE RoomInv'
  BY <1>1, <1>7, Tells DEF EndStep, AskToEnd, EndSession, TellEnded, TellEndedFails, Announce
<1>8. ASSUME NEW i \in Instances, Sweep(i) \/ SweepTells(i) \/ Crash(i) PROVE RoomInv'
  BY <1>1, <1>8, Tells, Crashes DEF Sweep, SweepTells, Announce
<1> QED
  BY <1>2, <1>3, <1>4, <1>5, <1>6, <1>7, <1>8 DEF PeerNext

\* However many times either participant joins, leaves, drops and comes back, on whatever
\* instances: once both are in the room and answered, the clock has started (enterRoom
\* joins the room before it counts who is in it).
THEOREM BothStart == PeerSpec => []BothInTheRoomStart
<1>1. RoomInv => BothInTheRoomStart
  BY DEF RoomInv, PairInv, Counted, Starts, Waiting, BothInTheRoomStart
<1>2. PeerInit => RoomInv /\ EndInv
  BY RoomInit, EndInit
<1>3. RoomInv /\ EndInv /\ [PeerNext]_peerVars => (RoomInv /\ EndInv)'
  BY RoomStep, EndStepInv
<1> QED
  BY <1>1, <1>2, <1>3, PTL DEF PeerSpec

------------------------------------------------------------------------------
(* The shared code *)

Fates == {"none", "held", "stored", "failed", "slow", "refused"}

CodeTypeInv ==
    /\ now \in Nat
    /\ record \in [status : Statuses, endsAt : Nat, endedAt : Nat, code : Nat]
    /\ editor \in [Editors -> [at : {"away", "entered", "joined", "finished"},
                               unsent : Nat]]
    /\ saver \in [Savers -> [pending : Nat, next : Nat]]
    /\ saving \in SUBSET [code : Nat, sent : Nat]
    /\ tally \in [edits : Nat, outages : Nat, relayed : Nat, relayedAt : Nat,
                  live : BOOLEAN, fate : Fates]

\* The throttle's timers fire before HeldUntil, and so is the UPDATE sent.
HeldInTime ==
    /\ tally.relayedAt <= now
    /\ \A i \in Savers : saver[i].next <= now + Throttle
    /\ \A i \in Savers : saver[i].pending # 0 /\ saver[i].pending = tally.relayed =>
        now <= HeldUntil /\ saver[i].next <= HeldUntil
    /\ \A s \in saving : s.sent <= now /\ (s.code = tally.relayed => s.sent <= HeldUntil)

\* The last version relayed waits for the throttle or for its UPDATE.
OnItsWay ==
    \/ \E i \in Savers : saver[i].pending = tally.relayed
    \/ \E s \in saving : s.code = tally.relayed

\* A version is held until it is stored or lost, and refused only where the property says.
FateKnown ==
    /\ tally.fate = "none" => tally.relayed = 0
    /\ tally.fate = "held" => tally.relayed # 0 /\ OnItsWay
    /\ tally.fate = "refused" => \/ record.status = "cancelled"
                                 \/ record.status = "completed" /\ ~InGrace(HeldUntil, record)

CodeInv == CodeTypeInv /\ HeldInTime /\ FateKnown

LEMMA CodeStarts == CodeInit => CodeInv
<1> SUFFICES ASSUME CodeInit PROVE CodeInv
  OBVIOUS
<1>1. CodeTypeInv
  BY DEF CodeInit, CodeTypeInv, Statuses, Fates
<1>2. HeldInTime
  BY CodeAssumption DEF CodeInit, HeldInTime
<1>3. FateKnown
  BY DEF CodeInit, FateKnown
<1> QED
  BY <1>1, <1>2, <1>3 DEF CodeInv

LEMMA SaverOfPage == ASSUME NEW p \in Editors PROVE SaverOf[p] \in Savers
BY DEF Savers

\* What the steps of the pages and of the end leave as it is.
SameRelayed == /\ tally'.relayed = tally.relayed /\ tally'.relayedAt = tally.relayedAt
               /\ tally'.fate = tally.fate

\* An ended session stays as it has ended.
StaysEnded == ~IsLive(record) => /\ record'.status = record.status
                                 /\ record'.endedAt = record.endedAt

LEMMA RefusedStays ==
    ASSUME CodeInv, SameRelayed, StaysEnded, tally'.fate = "refused"
    PROVE  \/ record'.status = "cancelled"
           \/ record'.status = "completed" /\ ~InGrace(HeldUntil, record)'
BY DEF CodeInv, FateKnown, SameRelayed, StaysEnded, IsLive, InGrace, HeldUntil

LEMMA ElsewhereCode ==
    ASSUME CodeInv, CodeTypeInv', UNCHANGED <<now, saver, saving>>, SameRelayed, StaysEnded
    PROVE  CodeInv'
<1>1. HeldInTime'
  BY DEF CodeInv, HeldInTime, SameRelayed, HeldUntil
<1>2. FateKnown'
  BY RefusedStays DEF CodeInv, FateKnown, SameRelayed, OnItsWay
<1> QED
  BY <1>1, <1>2 DEF CodeInv

\* Relaying a version leaves it with the saver of its page.
LEMMA RelayKeeps ==
    ASSUME CodeInv, NEW p \in Editors, NEW v \in Nat \ {0}, Relay(p, v),
           UNCHANGED <<now, record, saving>>,
           editor' \in [Editors -> [at : {"away", "entered", "joined", "finished"},
                                    unsent : Nat]]
    PROVE  CodeInv'
<1> DEFINE i == SaverOf[p]
<1>0. i \in Savers /\ CodeTypeInv /\ HeldInTime
  BY SaverOfPage DEF CodeInv
<1>1. saver' = [saver EXCEPT ![i].pending = v]
  BY DEF Relay, Push
<1>2. tally' = [tally EXCEPT !.relayed = v, !.relayedAt = now, !.live = IsLive(record),
                             !.fate = "held"]
  BY DEF Relay
<1>3. CodeTypeInv'
  <2>1. saver' \in [Savers -> [pending : Nat, next : Nat]]
    BY <1>0, <1>1 DEF CodeTypeInv
  <2>2. tally' \in [edits : Nat, outages : Nat, relayed : Nat, relayedAt : Nat,
                    live : BOOLEAN, fate : Fates]
    <3>1. IsLive(record) \in BOOLEAN
      BY DEF IsLive
    <3> QED
      BY <1>0, <1>2, <3>1 DEF CodeTypeInv, Fates
  <2> QED
    BY <1>0, <2>1, <2>2 DEF CodeTypeInv
<1>4. tally'.relayed = v /\ tally'.relayedAt = now /\ tally'.fate = "held"
  BY <1>0, <1>2 DEF CodeTypeInv
<1>5. \A j \in Savers : saver'[j].next = saver[j].next
  BY <1>0, <1>1 DEF CodeTypeInv
<1>6. HeldInTime'
  <2>1. now \in Nat /\ \A s \in saving : s.sent \in Nat
    BY <1>0 DEF CodeTypeInv
  <2>2. now <= now + Throttle /\ now' = now /\ saving' = saving
    BY <2>1, CodeAssumption
  <2>3. HeldUntil' = now + Throttle
    BY <1>4 DEF HeldUntil
  <2> QED
    BY <1>0, <1>4, <1>5, <2>1, <2>2, <2>3, CodeAssumption DEF HeldInTime
<1>7. OnItsWay'
  <2>1. saver'[i].pending = v
    BY <1>0, <1>1 DEF CodeTypeInv
  <2> QED
    BY <1>0, <1>4, <2>1 DEF OnItsWay
<1> QED
  BY <1>3, <1>4, <1>6, <1>7 DEF CodeInv, FateKnown

\* Flushing a saver puts the version it holds on its way to the row.
LEMMA FlushType ==
    ASSUME CodeTypeInv, NEW i \in Savers, FlushSaver(i)
    PROVE  /\ saver' \in [Savers -> [pending : Nat, next : Nat]]
           /\ saving' \in SUBSET [code : Nat, sent : Nat]
BY CodeAssumption DEF CodeTypeInv, FlushSaver

LEMMA FlushKeeps ==
    ASSUME CodeInv, NEW i \in Savers, FlushSaver(i), CodeTypeInv',
           now' = now, SameRelayed, StaysEnded
    PROVE  CodeInv'
<1>0. CodeTypeInv /\ HeldInTime /\ FateKnown
  BY DEF CodeInv
<1>1. CASE saver[i].pending = 0
  BY <1>1, ElsewhereCode DEF FlushSaver
<1>2. CASE saver[i].pending # 0
  <2> DEFINE sent == [code |-> saver[i].pending, sent |-> now]
  <2>1. saving' = saving \cup {sent}
    BY <1>2 DEF FlushSaver
  <2>2. /\ saver'[i] = [pending |-> 0, next |-> now + Throttle]
        /\ \A j \in Savers : j # i => saver'[j] = saver[j]
    BY <1>0, <1>2 DEF FlushSaver, CodeTypeInv
  <2>3. HeldUntil' = HeldUntil
    BY DEF SameRelayed, HeldUntil
  <2>4. HeldInTime'
    <3>1. now \in Nat
      BY <1>0 DEF CodeTypeInv
    <3>2. \A s \in saving' : /\ s.sent <= now
                             /\ s.code = tally.relayed => s.sent <= HeldUntil
      BY <1>0, <1>2, <2>1, <3>1 DEF HeldInTime
    <3>3. \A j \in Savers : /\ saver'[j].next <= now + Throttle
                            /\ saver'[j].pending # 0 /\ saver'[j].pending = tally.relayed =>
                                 now <= HeldUntil /\ saver'[j].next <= HeldUntil
      BY <1>0, <2>2, <3>1, CodeAssumption DEF HeldInTime
    <3> QED
      BY <1>0, <2>3, <3>2, <3>3 DEF HeldInTime, SameRelayed
  <2>5. tally.relayed # 0 /\ OnItsWay => OnItsWay'
    <3>1. ASSUME tally.relayed # 0, NEW j \in Savers, saver[j].pending = tally.relayed
          PROVE  OnItsWay'
      <4>1. CASE j = i
        <5>1. sent \in saving' /\ sent.code = tally'.relayed
          BY <2>1, <3>1, <4>1 DEF SameRelayed
        <5> QED
          BY <5>1 DEF OnItsWay
      <4>2. CASE j # i
        BY <2>2, <3>1, <4>2 DEF OnItsWay, SameRelayed
      <4> QED
        BY <4>1, <4>2
    <3>2. ASSUME NEW s \in saving, s.code = tally.relayed PROVE OnItsWay'
      BY <2>1, <3>2 DEF OnItsWay, SameRelayed
    <3> QED
      BY <3>1, <3>2 DEF OnItsWay
  <2>6. FateKnown'
    BY <1>0, <2>5, RefusedStays DEF FateKnown, SameRelayed
  <2> QED
    BY <2>4, <2>6 DEF CodeInv
<1> QED
  BY <1>1, <1>2

\* An UPDATE settles the version it carries and no other.
LEMMA SettleKeeps ==
    ASSUME CodeInv, NEW s \in saving, NEW fate \in Fates \ {"none", "held"},
           saving' = saving \ {s}, Becomes(s, fate), UNCHANGED <<now, editor, saver>>,
           StaysEnded, record' \in [status : Statuses, endsAt : Nat, endedAt : Nat, code : Nat],
           fate = "refused" /\ s.code = tally.relayed =>
              \/ record'.status = "cancelled"
              \/ record'.status = "completed" /\ ~InGrace(HeldUntil, record')
    PROVE  CodeInv'
<1>0. CodeTypeInv /\ HeldInTime /\ FateKnown
  BY DEF CodeInv
<1>1. /\ tally'.relayed = tally.relayed /\ tally'.relayedAt = tally.relayedAt
      /\ tally'.fate = IF s.code = tally.relayed THEN fate ELSE tally.fate
  BY <1>0 DEF Becomes, CodeTypeInv
<1>2. CodeTypeInv'
  BY <1>0 DEF Becomes, CodeTypeInv
<1>3. HeldUntil' = HeldUntil
  BY <1>1 DEF HeldUntil
<1>4. HeldInTime'
  BY <1>0, <1>1, <1>3 DEF HeldInTime
<1>5. FateKnown'
  <2>1. CASE s.code = tally.relayed
    BY <1>1, <1>3, <2>1 DEF FateKnown, InGrace
  <2>2. CASE s.code # tally.relayed
    <3>1. SameRelayed
      BY <1>1, <2>2 DEF SameRelayed
    <3>2. OnItsWay => OnItsWay'
      BY <1>1, <2>2 DEF OnItsWay
    <3> QED
      BY <1>0, <3>1, <3>2, RefusedStays DEF FateKnown, SameRelayed
  <2> QED
    BY <2>1, <2>2
<1> QED
  BY <1>2, <1>4, <1>5 DEF CodeInv

LEMMA SaveSettles == ASSUME CodeInv, NEW s \in saving, Save(s) PROVE CodeInv'
<1>0. CodeTypeInv /\ HeldInTime
  BY DEF CodeInv
<1>1. s \in [code : Nat, sent : Nat]
  BY <1>0 DEF CodeTypeInv
<1>2. saving' = saving \ {s} /\ UNCHANGED <<now, editor, saver>>
  BY DEF Save
<1>3. CASE Stores(record)
  <2>1. record' = [record EXCEPT !.code = s.code] /\ Becomes(s, "stored")
    BY <1>3 DEF Save
  <2>2. record' \in [status : Statuses, endsAt : Nat, endedAt : Nat, code : Nat]
        /\ StaysEnded
    BY <1>0, <1>1, <2>1 DEF CodeTypeInv, StaysEnded
  <2> QED
    BY <1>2, <2>1, <2>2, SettleKeeps DEF Fates
<1>4. CASE ~Stores(record)
  <2>1. record' = record /\ StaysEnded
    BY <1>4 DEF Save, StaysEnded
  <2>2. record' \in [status : Statuses, endsAt : Nat, endedAt : Nat, code : Nat]
    BY <1>0, <2>1 DEF CodeTypeInv
  <2>3. CASE InGrace(s.sent, record)
    <3>1. Becomes(s, "slow")
      BY <1>4, <2>3 DEF Save
    <3> QED
      BY <1>2, <2>1, <2>2, <3>1, SettleKeeps DEF Fates
  <2>4. CASE ~InGrace(s.sent, record)
    <3>1. Becomes(s, "refused")
      BY <1>4, <2>4 DEF Save
    <3>2. record.status \in {"completed", "cancelled"}
      BY <1>0, <1>4 DEF Stores, IsLive, CodeTypeInv, Statuses
    <3>3. s.code = tally.relayed => ~InGrace(HeldUntil, record)
      <4>1. HeldUntil \in Nat /\ s.sent \in Nat /\ record.endedAt \in Nat
        BY <1>0, <1>1, CodeAssumption DEF CodeTypeInv, HeldUntil
      <4> QED
        BY <1>0, <2>4, <4>1, CodeAssumption DEF InGrace, HeldInTime
    <3> QED
      BY <1>2, <2>1, <2>2, <3>1, <3>2, <3>3, SettleKeeps DEF Fates
  <2> QED
    BY <2>3, <2>4
<1> QED
  BY <1>3, <1>4

LEMMA SaveFailsSettles == ASSUME CodeInv, NEW s \in saving, SaveFails(s) PROVE CodeInv'
<1>1. record' = record /\ StaysEnded
  BY DEF SaveFails, StaysEnded
<1>2. record' \in [status : Statuses, endsAt : Nat, endedAt : Nat, code : Nat]
  BY <1>1 DEF CodeInv, CodeTypeInv
<1> QED
  BY <1>1, <1>2, SettleKeeps DEF SaveFails, Fates

\* No timer is due when the clock moves.
LEMMA TickKeeps == ASSUME CodeInv, Tick PROVE CodeInv'
<1>0. CodeTypeInv /\ HeldInTime /\ FateKnown
  BY DEF CodeInv
<1>1. now' = now + 1 /\ UNCHANGED <<record, editor, saver, saving, tally>>
  BY DEF Tick
<1>2. CodeTypeInv'
  BY <1>0, <1>1 DEF CodeTypeInv
<1>3. HeldInTime'
  <2>1. now \in Nat /\ tally.relayedAt \in Nat /\ HeldUntil \in Nat /\ HeldUntil' = HeldUntil
    BY <1>0, <1>1, CodeAssumption DEF CodeTypeInv, HeldUntil
  <2>2. \A i \in Savers : saver[i].next \in Nat
    BY <1>0 DEF CodeTypeInv
  <2>3. \A s \in saving : s.sent \in Nat
    BY <1>0 DEF CodeTypeInv
  <2>4. \A i \in Savers : saver[i].pending # 0 => now + 1 <= saver[i].next
    BY <2>1, <2>2 DEF Tick, IsDue
  <2> QED
    BY <1>0, <1>1, <2>1, <2>2, <2>3, <2>4, CodeAssumption DEF HeldInTime
<1>4. FateKnown'
  BY <1>0, <1>1 DEF FateKnown, OnItsWay, HeldUntil
<1> QED
  BY <1>2, <1>3, <1>4 DEF CodeInv

LEMMA EditorStepKeeps == ASSUME CodeInv, NEW p \in Editors, EditorStep(p) PROVE CodeInv'
<1>0. CodeTypeInv
  BY DEF CodeInv
<1>1. CASE Edit(p)
  BY <1>0, <1>1, ElsewhereCode DEF Edit, CodeTypeInv, SameRelayed, StaysEnded
<1>2. CASE ReceiveCode(p)
  BY <1>0, <1>2, ElsewhereCode DEF ReceiveCode, CodeTypeInv, SameRelayed, StaysEnded
<1>3. CASE Reenter(p)
  BY <1>0, <1>3, ElsewhereCode DEF Reenter, CodeTypeInv, SameRelayed, StaysEnded
<1>4. CASE StartClock(p)
  <2>1. record' \in [status : Statuses, endsAt : Nat, endedAt : Nat, code : Nat]
    <3>1. now + Duration \in Nat
      BY <1>0, CodeAssumption DEF CodeTypeInv
    <3>2. record' = [record EXCEPT !.status = "active", !.endsAt = now + Duration]
      BY <1>4 DEF StartClock
    <3> QED
      BY <1>0, <3>1, <3>2 DEF CodeTypeInv, Statuses
  <2>2. StaysEnded /\ SameRelayed /\ UNCHANGED <<now, editor, saver, saving, tally>>
    BY <1>4 DEF StartClock, StaysEnded, SameRelayed, IsLive
  <2>3. CodeTypeInv'
    BY <1>0, <2>1, <2>2 DEF CodeTypeInv
  <2> QED
    BY <2>2, <2>3, ElsewhereCode
<1>5. CASE SendEdit(p)
  <2>1. /\ editor[p].unsent \in Nat \ {0}
        /\ editor' \in [Editors -> [at : {"away", "entered", "joined", "finished"},
                                    unsent : Nat]]
    BY <1>0, <1>5 DEF SendEdit, CodeTypeInv
  <2> QED
    BY <1>5, <2>1, RelayKeeps DEF SendEdit
<1>6. CASE Rejoin(p)
  <2>1. editor' \in [Editors -> [at : {"away", "entered", "joined", "finished"},
                                 unsent : Nat]]
    BY <1>0, <1>6 DEF Rejoin, CodeTypeInv
  <2>2. CASE editor[p].unsent # 0
    <3>1. editor[p].unsent \in Nat \ {0}
      BY <1>0, <2>2 DEF CodeTypeInv
    <3> QED
      BY <1>6, <2>1, <2>2, <3>1, RelayKeeps DEF Rejoin
  <2>3. CASE editor[p].unsent = 0
    <3>1. UNCHANGED <<now, record, saver, saving, tally>>
      BY <1>6, <2>3 DEF Rejoin
    <3>2. CodeTypeInv'
      BY <1>0, <2>1, <3>1 DEF CodeTypeInv
    <3> QED
      BY <3>1, <3>2, ElsewhereCode DEF SameRelayed, StaysEnded
  <2> QED
    BY <2>2, <2>3
<1>7. CASE LoseConnection(p) \/ LeaveEnded(p)
  <2>1. FlushSaver(SaverOf[p]) /\ UNCHANGED <<now, record>>
    BY <1>7 DEF LoseConnection, LeaveEnded
  <2>2. SameRelayed
    BY <1>0, <1>7 DEF LoseConnection, LeaveEnded, CodeTypeInv, SameRelayed
  <2>3. editor' \in [Editors -> [at : {"away", "entered", "joined", "finished"},
                                 unsent : Nat]]
    <3>1. CASE LoseConnection(p)
      BY <1>0, <3>1 DEF LoseConnection, CodeTypeInv
    <3>2. CASE LeaveEnded(p)
      BY <1>0, <3>2 DEF LeaveEnded, CodeTypeInv
    <3> QED
      BY <1>7, <3>1, <3>2
  <2>4. tally' \in [edits : Nat, outages : Nat, relayed : Nat, relayedAt : Nat,
                    live : BOOLEAN, fate : Fates]
    <3>1. tally' = tally \/ tally' = [tally EXCEPT !.outages = @ + 1]
      BY <1>7 DEF LoseConnection, LeaveEnded
    <3> QED
      BY <1>0, <3>1 DEF CodeTypeInv
  <2>5. CodeTypeInv'
    BY <1>0, <2>1, <2>3, <2>4, FlushType, SaverOfPage DEF CodeTypeInv
  <2> QED
    BY <2>1, <2>2, <2>5, FlushKeeps, SaverOfPage DEF StaysEnded
<1> QED
  BY <1>1, <1>2, <1>3, <1>4, <1>5, <1>6, <1>7 DEF EditorStep

\* However a session ends, it leaves the savers and the last version relayed to themselves.
LEMMA EndsOnce ==
    ASSUME CodeInv, CloseRecord \/ (\E i \in Savers : TimeUp(i) \/ Expire(i)),
           UNCHANGED <<now, editor, saver, saving, tally>>
    PROVE  CodeInv'
<1>0. CodeTypeInv
  BY DEF CodeInv
<1>1. record' \in [status : Statuses, endsAt : Nat, endedAt : Nat, code : Nat]
      /\ StaysEnded
  BY <1>0 DEF CloseRecord, TimeUp, Expire, CodeTypeInv, Statuses, EndedAs, StaysEnded, IsLive
<1>2. CodeTypeInv' /\ SameRelayed
  BY <1>0, <1>1 DEF CodeTypeInv, SameRelayed
<1> QED
  BY <1>1, <1>2, ElsewhereCode

LEMMA ClosingStepKeeps == ASSUME CodeInv, ClosingStep PROVE CodeInv'
<1>0. CodeTypeInv
  BY DEF CodeInv
<1>1. CASE RequestEnd \/ EndRecord
  BY <1>1, EndsOnce DEF RequestEnd, EndRecord
<1>2. ASSUME NEW i \in Savers, TimeUp(i) \/ Expire(i) PROVE CodeInv'
  <2>1. UNCHANGED <<now, editor, saver, saving, tally>>
    BY <1>2 DEF TimeUp, Expire
  <2> QED
    BY <1>2, <2>1, EndsOnce
<1>3. ASSUME NEW i \in Savers, FlushSaver(i), UNCHANGED <<now, record, editor, tally>>
      PROVE  CodeInv'
  <2>1. CodeTypeInv' /\ SameRelayed /\ StaysEnded
    BY <1>0, <1>3, FlushType DEF CodeTypeInv, SameRelayed, StaysEnded
  <2> QED
    BY <1>3, <2>1, FlushKeeps
<1>4. ASSUME NEW p \in Editors, AskEnd(p) PROVE CodeInv'
  BY <1>3, <1>4, SaverOfPage DEF AskEnd
<1>5. ASSUME NEW i \in Savers, SweepFlushes(i) PROVE CodeInv'
  BY <1>3, <1>5 DEF SweepFlushes
<1> QED
  BY <1>1, <1>2, <1>4, <1>5 DEF ClosingStep

LEMMA CodeStep == CodeInv /\ [CodeNext]_codeVars => CodeInv'
<1> SUFFICES ASSUME CodeInv, [CodeNext]_codeVars PROVE CodeInv'
  OBVIOUS
<1>0. CodeTypeInv
  BY DEF CodeInv
<1>1. CASE UNCHANGED codeVars
  BY <1>0, <1>1, ElsewhereCode DEF codeVars, CodeTypeInv, SameRelayed, StaysEnded
<1>2. ASSUME NEW i \in Savers, SaveDue(i) PROVE CodeInv'
  <2>1. CodeTypeInv'
    BY <1>0, <1>2, FlushType DEF SaveDue, CodeTypeInv
  <2> QED
    BY <1>2, <2>1, FlushKeeps DEF SaveDue, SameRelayed, StaysEnded
<1> QED
  BY <1>1, <1>2, EditorStepKeeps, SaveSettles, SaveFailsSettles, ClosingStepKeeps, TickKeeps
     DEF CodeNext

\* Through the throttle, lost connections, two instances and every way a session ends, for
\* any lengths of the throttle, the session and the time in which a save is still stored:
\* unless the session was cancelled, the version relayed last is stored once there is no
\* more to save, except when its own save failed or took too long, or when it was relayed
\* less than the throttle before that time ran out, or later (CodeSaver, peer.socket.ts;
\* saveCode, peer.repository.ts).  It rests on the throttle's timers firing when due.
THEOREM LastRelayedStored == CodeSpec => []LastRelayedIsStored
<1>1. CodeInv => LastRelayedIsStored
  <2> SUFFICES ASSUME CodeInv, NothingToSave, tally.relayed # 0,
                      record.status # "cancelled",
                      record.status = "completed" => InGrace(HeldUntil, record)
               PROVE  SavedOrFailed
    BY DEF LastRelayedIsStored
  <2>1. ~OnItsWay
    BY DEF NothingToSave, OnItsWay
  <2> QED
    BY <2>1 DEF CodeInv, CodeTypeInv, FateKnown, Fates, SavedOrFailed
<1> QED
  BY <1>1, CodeStarts, CodeStep, PTL DEF CodeSpec
=============================================================================

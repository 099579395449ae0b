-------------------------- MODULE PeerNegotiation --------------------------
(***************************************************************************)
(* How two pages of web/src/lib/peer-room.ts agree on a WebRTC connection: *)
(* both may offer at once, the candidate's page is the polite one.  Each   *)
(* joins once, and its signals pass through the server in order.  Each     *)
(* join counts who is in the room, tells the room and answers the page, in *)
(* steps of its own: the server may run on two instances.                  *)
(*                                                                         *)
(* RTCPeerConnection is modelled from the calls made to it: its operations *)
(* run one after the other, an offer received over one's own rolls it      *)
(* back, and negotiationneeded fires once until the connection is stable   *)
(* again.  ICE credentials are fresh, so ensurePeer waits only when it     *)
(* makes the connection.                                                   *)
(***************************************************************************)
EXTENDS Naturals, Sequences

CONSTANTS
    Polite, Impolite,   \* the candidate's page and the interviewer's
    MaxOffers           \* bound: offers made

Pages == {Polite, Impolite}
Peer(p) == IF p = Polite THEN Impolite ELSE Polite

ASSUME NegotiationAssumption == Polite # Impolite /\ MaxOffers \in Nat

VARIABLES
    page,           \* the flags of each PeerRoomConnection
    pc,             \* its RTCPeerConnection
    wire,           \* the signals on their way to each page
    offers          \* offers made

negotiationVars == <<page, pc, wire, offers>>

None == [type |-> "none", id |-> 0]

NegotiationInit ==
    /\ page = [p \in Pages |->
         [at |-> "away", saw |-> FALSE, told |-> FALSE, beside |-> FALSE, media |-> FALSE,
          channel |-> FALSE, making |-> FALSE, ignore |-> FALSE, receiving |-> None,
          buffered |-> {}, failed |-> FALSE, deaf |-> FALSE, missed |-> FALSE]]
    /\ pc = [p \in Pages |->
         [made |-> FALSE, state |-> "stable", want |-> 0, got |-> 0, offered |-> 0,
          flagged |-> FALSE, own |-> 0, remote |-> 0]]
    /\ wire = [p \in Pages |-> <<>>]
    /\ offers = 0

\* A description is followed by a candidate of its own.
Send(p, type, id) ==
    wire' = [wire EXCEPT ![Peer(p)] =
                @ \o <<[type |-> type, id |-> id], [type |-> "candidate", id |-> id]>>]

------------------------------------------------------------------------------
(* Presence *)

Joined(p) == page[p].at = "joined"

\* The server's handler of p's join: p is in the room, whoever is there is counted, and
\* all of them are told of p, whose join is then answered with that count.
ReachRoom(p) ==
    /\ page[p].at = "away"
    /\ page' = [page EXCEPT ![p].at = "entered"]
    /\ UNCHANGED <<pc, wire, offers>>

LookAround(p) ==
    /\ page[p].at = "entered"
    /\ page' = [page EXCEPT ![p].at = "counted", ![p].saw = page[Peer(p)].at # "away"]
    /\ UNCHANGED <<pc, wire, offers>>

SpreadWord(p) ==
    /\ page[p].at = "counted"
    /\ page' = [page EXCEPT ![p].at = "answered",
                            ![Peer(p)].told = page[Peer(p)].at # "away"]
    /\ UNCHANGED <<pc, wire, offers>>

\* The partner's presence event; the answer to p's own join, which may come after it,
\* says what was counted.
HearPresence(p) ==
    /\ page[p].told
    /\ page' = [page EXCEPT ![p].told = FALSE, ![p].beside = TRUE]
    /\ UNCHANGED <<pc, wire, offers>>

Acknowledge(p) ==
    /\ page[p].at = "answered"
    /\ page' = [page EXCEPT ![p].at = "joined", ![p].beside = page[p].saw]
    /\ UNCHANGED <<pc, wire, offers>>

\* A page that has not had the answer to its join does nothing about its partner.
Beside(p) == Joined(p) /\ page[p].beside

\* ensurePeer
Make(c) == [c EXCEPT !.made = TRUE]
Want(c) == [c EXCEPT !.made = TRUE, !.want = @ + 1]

\* presence(): the interviewer opens a data channel, so that something is negotiated.
OpenChannel(p) ==
    /\ p = Impolite /\ Beside(p) /\ ~page[p].channel
    /\ pc[p].state = "stable"
    /\ page' = [page EXCEPT ![p].channel = TRUE]
    /\ pc' = [pc EXCEPT ![p] = Want(@)]
    /\ UNCHANGED <<wire, offers>>

\* The candidate makes its connection and waits to be offered one.
AwaitOffer(p) ==
    /\ p = Polite /\ Beside(p) /\ ~pc[p].made
    /\ pc' = [pc EXCEPT ![p] = Make(@)]
    /\ UNCHANGED <<page, wire, offers>>

\* enableMedia, at any time.
EnableMedia(p) ==
    /\ ~page[p].media
    /\ page' = [page EXCEPT ![p].media = TRUE]
    /\ pc' = [pc EXCEPT ![p] = Want(@)]
    /\ UNCHANGED <<wire, offers>>

------------------------------------------------------------------------------
(* Offering *)

Working(p) == page[p].making \/ page[p].receiving # None

Needed(p) ==
    /\ pc[p].made /\ pc[p].state = "stable" /\ ~Working(p)
    /\ pc[p].want > pc[p].got /\ ~pc[p].flagged

\* onnegotiationneeded; offer() does nothing while the partner is away.
NegotiationNeeded(p) ==
    /\ Needed(p) /\ offers < MaxOffers
    /\ pc' = [pc EXCEPT ![p].flagged = TRUE]
    /\ page' = IF Beside(p) THEN [page EXCEPT ![p].making = TRUE]
               ELSE [page EXCEPT ![p].missed = TRUE]
    /\ UNCHANGED <<wire, offers>>

\* setLocalDescription() has made an offer.
Offer(p) ==
    /\ page[p].making
    /\ offers' = offers + 1
    /\ pc' = [pc EXCEPT ![p].state = "offering", ![p].offered = pc[p].want,
                        ![p].own = offers']
    /\ page' = [page EXCEPT ![p].making = FALSE]
    /\ Send(p, "offer", offers')

------------------------------------------------------------------------------
(* Receiving: one signal after the other, all behind the partner's presence *)

Signal(p) == Head(wire[p])
Arrives(p) == wire[p] # <<>> /\ page[p].receiving = None /\ ~page[p].told
Deliver(p) == wire' = [wire EXCEPT ![p] = Tail(@)]

\* A signal that comes before the acknowledgement of the join is dropped.
DropEarly(p) ==
    /\ Arrives(p) /\ ~Joined(p)
    /\ Deliver(p)
    /\ page' = [page EXCEPT ![p].deaf = TRUE]
    /\ UNCHANGED <<pc, offers>>

Ready(p) == ~page[p].making /\ pc[p].state = "stable"

\* Mutant: nobody gives way.
MutantIgnores(p, type) == type = "offer" /\ ~Ready(p)

Ignores(p, type) == p = Impolite /\ type = "offer" /\ ~Ready(p)

Ignore(p) ==
    /\ Arrives(p) /\ Joined(p)
    /\ Signal(p).type # "candidate" /\ Ignores(p, Signal(p).type)
    /\ Deliver(p)
    /\ page' = [page EXCEPT ![p].ignore = TRUE, ![p].buffered = {}]
    /\ pc' = [pc EXCEPT ![p] = Make(@)]
    /\ UNCHANGED offers

Take(p) ==
    /\ Arrives(p) /\ Joined(p)
    /\ Signal(p).type # "candidate" /\ ~Ignores(p, Signal(p).type)
    /\ Deliver(p)
    /\ page' = [page EXCEPT ![p].ignore = FALSE, ![p].receiving = Signal(p)]
    /\ pc' = [pc EXCEPT ![p] = Make(@)]
    /\ UNCHANGED offers

\* A candidate of an offer that was ignored is dropped, one that comes before any
\* description is kept for it; addIceCandidate fails on a candidate of another one.
TakeCandidate(p) ==
    /\ Arrives(p) /\ Joined(p) /\ Signal(p).type = "candidate"
    /\ Deliver(p)
    /\ page' = [page EXCEPT
         ![p].buffered = IF ~page[p].ignore /\ pc[p].remote = 0 THEN @ \cup {Signal(p).id} ELSE @,
         ![p].failed = @ \/ (~page[p].ignore /\ pc[p].remote \notin {0, Signal(p).id})]
    /\ pc' = [pc EXCEPT ![p] = Make(@)]
    /\ UNCHANGED offers

Flush(p, id) ==
    [page[p] EXCEPT !.failed = @ \/ \E c \in page[p].buffered : c # id, !.buffered = {}]

\* setRemoteDescription(offer), after any operation of the connection's own; an offer
\* of its own is rolled back.
SetOffer(p) ==
    /\ page[p].receiving.type = "offer" /\ ~page[p].making /\ pc[p].state # "answering"
    /\ pc' = [pc EXCEPT ![p].state = "answering", ![p].offered = 0,
                        ![p].remote = page[p].receiving.id]
    /\ page' = [page EXCEPT ![p] = Flush(p, page[p].receiving.id)]
    /\ UNCHANGED <<wire, offers>>

\* The answer; it may or may not have room for what this page wants to add.
Answer(p) ==
    /\ page[p].receiving.type = "offer" /\ pc[p].state = "answering"
    /\ \E got \in {pc[p].got, pc[p].want} :
          pc' = [pc EXCEPT ![p].state = "stable", ![p].got = got, ![p].flagged = FALSE,
                           ![p].own = page[p].receiving.id]
    /\ page' = [page EXCEPT ![p].receiving = None]
    /\ Send(p, "answer", page[p].receiving.id)
    /\ UNCHANGED offers

SetAnswer(p) ==
    /\ page[p].receiving.type = "answer" /\ ~page[p].making
    /\ IF pc[p].state = "offering"
       THEN /\ pc' = [pc EXCEPT ![p].state = "stable", ![p].got = pc[p].offered,
                                ![p].flagged = FALSE, ![p].remote = page[p].receiving.id]
            /\ page' = [page EXCEPT ![p] = [Flush(p, page[p].receiving.id)
                                              EXCEPT !.receiving = None]]
       ELSE /\ page' = [page EXCEPT ![p].failed = TRUE, ![p].receiving = None]
            /\ UNCHANGED pc
    /\ UNCHANGED <<wire, offers>>

PresenceStep(p) ==
    \/ ReachRoom(p)
    \/ LookAround(p)
    \/ SpreadWord(p)
    \/ HearPresence(p)
    \/ Acknowledge(p)
    \/ OpenChannel(p)
    \/ AwaitOffer(p)
    \/ EnableMedia(p)

SignalStep(p) ==
    \/ NegotiationNeeded(p)
    \/ Offer(p)
    \/ DropEarly(p)
    \/ Ignore(p)
    \/ Take(p)
    \/ TakeCandidate(p)
    \/ SetOffer(p)
    \/ Answer(p)
    \/ SetAnswer(p)

NegotiationNext == \E p \in Pages : PresenceStep(p) \/ SignalStep(p)

NegotiationSpec == NegotiationInit /\ [][NegotiationNext]_negotiationVars

------------------------------------------------------------------------------

AtRest ==
    /\ \A p \in Pages : /\ Beside(p) /\ wire[p] = <<>> /\ ~Working(p) /\ ~Needed(p)
    /\ page[Impolite].channel
    /\ offers < MaxOffers

\* Both pages may offer at any moment and their signals may cross: they end on one
\* description, with everything either of them wanted in it, and no call to the
\* connection fails.  (Unless an offer was dropped, or never made; a page whose join was
\* answered with an old count may not know of its partner, and is not at rest.)
PagesAgree ==
    /\ \A p \in Pages : page[p].failed => \E q \in Pages : page[q].deaf
    /\ AtRest /\ (\A p \in Pages : ~page[p].deaf /\ ~page[p].missed) =>
        /\ pc[Polite].state = "stable" /\ pc[Impolite].state = "stable"
        /\ \A p \in Pages : pc[p].got = pc[p].want
        /\ pc[Polite].own = pc[Impolite].own /\ pc[Polite].remote = pc[Impolite].remote
=============================================================================

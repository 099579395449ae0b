-------------------------- MODULE NegotiationProofs -------------------------
(***************************************************************************)
(* The theorem about PeerNegotiation, for any number of offers: the pages  *)
(* of a call end on one description.  Its invariant follows every offer    *)
(* from the page that makes it to the answer that page sets.               *)
(***************************************************************************)
EXTENDS PeerNegotiation, TLAPS

------------------------------------------------------------------------------
(* Where a page's offer is: on its way, with its peer, answered, or heard. *)

State(p) == pc[p].state
Hears(p) == page[p].receiving

IsOffer(p, i) == wire[p][i].type = "offer"
IsAnswer(p, i) == wire[p][i].type = "answer"

\* The i-th signal on the way to p's peer is the offer p waits for.
LiveAt(p, i) ==
    State(p) = "offering" /\ IsOffer(Peer(p), i) /\ wire[Peer(p)][i].id = pc[p].own

Sent(p) == \E i \in DOMAIN wire[Peer(p)] : LiveAt(p, i)
Taken(p) == Hears(Peer(p)).type = "offer"
Answered(p) == \E i \in DOMAIN wire[p] : IsAnswer(p, i)
Heard(p) == Hears(p).type = "answer"

\* p's peer has made p's offer its remote description.
Accepted(p) == State(Peer(p)) = "answering" \/ Answered(p) \/ Heard(p)

\* The impolite page's offer will make the polite one take its own back.
RollbackComes == page[Impolite].making \/ Sent(Impolite) \/ Taken(Impolite)

Signals == [type : {"offer", "answer", "candidate"}, id : Nat]

Joining == {"away", "entered", "counted", "answered", "joined"}

PageType ==
    [at : Joining, saw : BOOLEAN, told : BOOLEAN, beside : BOOLEAN, media : BOOLEAN,
     channel : BOOLEAN, making : BOOLEAN, ignore : BOOLEAN,
     receiving : [type : {"offer", "answer", "none"}, id : Nat],
     buffered : SUBSET Nat, failed : BOOLEAN, deaf : BOOLEAN, missed : BOOLEAN]

ConnectionType ==
    [made : BOOLEAN, state : {"stable", "offering", "answering"}, want : Nat, got : Nat,
     offered : Nat, flagged : BOOLEAN, own : Nat, remote : Nat]

NegotiationType ==
    /\ offers \in Nat
    /\ page \in [Pages -> PageType]
    /\ pc \in [Pages -> ConnectionType]
    /\ wire \in [Pages -> Seq(Signals)]

\* Offers are numbered from one.
IdInv(p) ==
    /\ pc[p].own <= offers
    /\ \A i \in DOMAIN wire[p] : wire[p][i].id \in 1 .. offers
    /\ Hears(p) # None => Hears(p).type # "none" /\ Hears(p).id \in 1 .. offers

WantInv(p) ==
    /\ pc[p].got <= pc[p].want /\ pc[p].offered <= pc[p].want
    /\ pc[p].want > 0 => pc[p].made
    /\ pc[p].flagged => page[p].making \/ State(p) # "stable" \/ page[p].missed

\* A candidate on the wire follows its description, if that has not been received; at the
\* head of the wire it belongs to the description received last.
CandidateInv(p) ==
    /\ ~page[p].failed
    /\ page[p].buffered = {}
    /\ \A i \in DOMAIN wire[p] : wire[p][i].type = "candidate" =>
         IF i = 1 THEN IF Hears(p) # None THEN wire[p][i].id = Hears(p).id
                       ELSE page[p].ignore \/ wire[p][i].id = pc[p].remote
         ELSE wire[p][i - 1].type # "candidate" /\ wire[p][i - 1].id = wire[p][i].id

StateInv(p) ==
    /\ page[p].making => State(p) = "stable"
    /\ State(p) = "answering" => Hears(p).type = "offer" /\ pc[p].remote = Hears(p).id
    /\ State(p) = "stable" => pc[p].own = pc[p].remote

\* An offer is in one place, and its page waits for the answer.
StageInv(p) ==
    /\ Taken(p) \/ Answered(p) \/ Heard(p) => State(p) = "offering"
    /\ ~(Sent(p) /\ Taken(p)) /\ ~(Sent(p) /\ Answered(p)) /\ ~(Sent(p) /\ Heard(p))
    /\ ~(Taken(p) /\ Answered(p)) /\ ~(Taken(p) /\ Heard(p)) /\ ~(Answered(p) /\ Heard(p))
    /\ Taken(p) => Hears(Peer(p)).id = pc[p].own
    /\ Heard(p) => Hears(p).id = pc[p].own
    /\ Answered(p) \/ Heard(p) => pc[Peer(p)].remote = pc[p].own

\* On the way to p there is one answer to its offer at most and one live offer of its peer,
\* and the offer comes behind the answer.
WireInv(p) ==
    /\ \A i \in DOMAIN wire[p] : IsAnswer(p, i) => wire[p][i].id = pc[p].own
    /\ \A i, j \in DOMAIN wire[p] : IsAnswer(p, i) /\ IsAnswer(p, j) => i = j
    /\ \A i, j \in DOMAIN wire[p] : LiveAt(Peer(p), i) /\ LiveAt(Peer(p), j) => i = j
    /\ \A i, j \in DOMAIN wire[p] : LiveAt(Peer(p), i) /\ IsAnswer(p, j) => j < i

\* The impolite page's offer is never lost; the polite page's may be overtaken by it, and
\* then the impolite page will have its answer behind what is left of the other.
GlareInv ==
    /\ Taken(Polite) => ~page[Impolite].making /\ State(Impolite) # "offering"
    /\ ~(Taken(Impolite) /\ Answered(Polite))
    /\ ~((Answered(Polite) \/ Heard(Polite)) /\ (Answered(Impolite) \/ Heard(Impolite)))
    /\ State(Impolite) = "offering" =>
         Sent(Impolite) \/ Taken(Impolite) \/ Answered(Impolite) \/ Heard(Impolite)
    /\ State(Polite) = "offering" =>
         Sent(Polite) \/ Taken(Polite) \/ Answered(Polite) \/ Heard(Polite) \/ RollbackComes
    /\ pc[Polite].remote = pc[Impolite].remote \/ Accepted(Polite) \/ Accepted(Impolite)

Stale(i) ==
    /\ State(Impolite) = "offering"
    /\ \/ State(Polite) = "answering"
       \/ \E j \in DOMAIN wire[Impolite] : i < j /\ IsAnswer(Impolite, j)

OffersInv ==
    /\ \A i \in DOMAIN wire[Polite] : IsOffer(Polite, i) => LiveAt(Impolite, i)
    /\ \A i \in DOMAIN wire[Impolite] : IsOffer(Impolite, i) => LiveAt(Polite, i) \/ Stale(i)

\* Nothing has been dropped.
NoneDeaf == \A p \in Pages : ~page[p].deaf

AllInv ==
    /\ \A p \in Pages : CandidateInv(p) /\ StateInv(p) /\ StageInv(p) /\ WireInv(p)
    /\ GlareInv /\ OffersInv

NegotiationInv ==
    /\ NegotiationType
    /\ \A p \in Pages : IdInv(p) /\ WantInv(p)
    /\ NoneDeaf => AllInv

------------------------------------------------------------------------------
(* The wire *)

LEMMA TwoPages ==
    /\ Pages = {Polite, Impolite} /\ Polite # Impolite
    /\ Peer(Polite) = Impolite /\ Peer(Impolite) = Polite
    /\ \A p \in Pages : Peer(p) \in Pages /\ Peer(p) # p /\ Peer(Peer(p)) = p
    /\ \A p, r \in Pages : r = p \/ r = Peer(p)
BY NegotiationAssumption DEF Pages, Peer

LEMMA NoneType == None \in [type : {"offer", "answer", "none"}, id : Nat] /\ None.type = "none"
BY DEF None

\* Receiving a signal moves the others one place up.
LEMMA Delivered ==
    ASSUME NegotiationType, NEW p \in Pages, wire[p] # <<>>, Deliver(p)
    PROVE  /\ wire'[Peer(p)] = wire[Peer(p)]
           /\ Signal(p) = wire[p][1] /\ Signal(p) \in Signals
           /\ Len(wire[p]) \in Nat \ {0}
           /\ DOMAIN wire[p] = 1 .. Len(wire[p])
           /\ DOMAIN wire'[p] = 1 .. Len(wire[p]) - 1
           /\ \A i \in DOMAIN wire'[p] : wire'[p][i] = wire[p][i + 1]
           /\ wire' \in [Pages -> Seq(Signals)]
<1>1. wire[p] \in Seq(Signals) /\ wire'[p] = Tail(wire[p])
  BY DEF NegotiationType, Deliver
<1>2. wire'[Peer(p)] = wire[Peer(p)]
  BY TwoPages DEF NegotiationType, Deliver
<1>3. Tail(wire[p]) \in Seq(Signals)
  BY <1>1
<1>4. wire' \in [Pages -> Seq(Signals)]
  BY <1>3 DEF NegotiationType, Deliver
<1>5. Signal(p) = wire[p][1] /\ Signal(p) \in Signals /\ Len(wire[p]) \in Nat \ {0}
  BY <1>1 DEF Signal
<1>6. /\ DOMAIN wire[p] = 1 .. Len(wire[p]) /\ DOMAIN wire'[p] = 1 .. Len(wire[p]) - 1
      /\ \A i \in DOMAIN wire'[p] : wire'[p][i] = wire[p][i + 1]
  BY <1>1
<1> QED
  BY <1>2, <1>4, <1>5, <1>6

\* Sending a description puts it and its candidate behind the others.
LEMMA Posted ==
    ASSUME NegotiationType, NEW p \in Pages, NEW type \in {"offer", "answer"}, NEW id \in Nat,
           Send(p, type, id)
    PROVE  LET q == Peer(p)
               n == Len(wire[q])
           IN /\ wire'[p] = wire[p]
              /\ n \in Nat
              /\ DOMAIN wire[q] = 1 .. n /\ DOMAIN wire'[q] = 1 .. n + 2
              /\ \A i \in 1 .. n : wire'[q][i] = wire[q][i]
              /\ wire'[q][n + 1].type = type /\ wire'[q][n + 1].id = id
              /\ wire'[q][n + 2].type = "candidate" /\ wire'[q][n + 2].id = id
              /\ wire' \in [Pages -> Seq(Signals)]
<1> DEFINE q == Peer(p)
           n == Len(wire[q])
           more == <<[type |-> type, id |-> id], [type |-> "candidate", id |-> id]>>
<1>1. q \in Pages /\ q # p
  BY TwoPages
<1>2. wire[q] \in Seq(Signals) /\ wire'[q] = wire[q] \o more /\ wire'[p] = wire[p]
  BY <1>1 DEF NegotiationType, Send
<1>3. more \in Seq(Signals) /\ Len(more) = 2
  BY DEF Signals
<1>4. wire[q] \o more \in Seq(Signals)
  BY <1>2, <1>3
<1>5. wire' \in [Pages -> Seq(Signals)]
  BY <1>1, <1>4 DEF NegotiationType, Send
<1>6. /\ n \in Nat /\ DOMAIN wire[q] = 1 .. n /\ DOMAIN wire'[q] = 1 .. n + 2
      /\ \A i \in 1 .. n : wire'[q][i] = wire[q][i]
      /\ wire'[q][n + 1] = more[1] /\ wire'[q][n + 2] = more[2]
  BY <1>2, <1>3, <1>4
<1> QED
  BY <1>2, <1>5, <1>6

------------------------------------------------------------------------------
(* Types *)

LEMMA RecordTypes ==
    ASSUME NegotiationType, NEW p \in Pages
    PROVE  page[p] \in PageType /\ pc[p] \in ConnectionType
BY DEF NegotiationType

\* A step sets the fields of one page at a time.
LEMMA SetPage ==
    ASSUME NEW ps \in [Pages -> PageType], NEW p \in Pages, NEW r \in PageType
    PROVE  [ps EXCEPT ![p] = r] \in [Pages -> PageType]
OBVIOUS

LEMMA SetConnection ==
    ASSUME NegotiationType, NEW p \in Pages, NEW c \in ConnectionType
    PROVE  [pc EXCEPT ![p] = c] \in [Pages -> ConnectionType]
BY DEF NegotiationType

LEMMA PageFlags ==
    ASSUME NEW r \in PageType, NEW b \in BOOLEAN
    PROVE  /\ [r EXCEPT !.told = b] \in PageType
           /\ [r EXCEPT !.channel = b] \in PageType
BY DEF PageType

LEMMA MoreFlags ==
    ASSUME NEW r \in PageType, NEW b \in BOOLEAN
    PROVE  /\ [r EXCEPT !.media = b] \in PageType
           /\ [r EXCEPT !.making = b] \in PageType
           /\ [r EXCEPT !.missed = b] \in PageType
           /\ [r EXCEPT !.deaf = b] \in PageType
BY DEF PageType

LEMMA TwoFlags ==
    ASSUME NEW r \in PageType, NEW b \in BOOLEAN
    PROVE  [r EXCEPT !.ignore = b, !.buffered = {}] \in PageType
BY DEF PageType

LEMMA JoiningFields ==
    ASSUME NEW r \in PageType, NEW a \in Joining, NEW b \in BOOLEAN
    PROVE  /\ [r EXCEPT !.at = a] \in PageType
           /\ [r EXCEPT !.at = a, !.saw = b] \in PageType
           /\ [r EXCEPT !.at = a, !.beside = b] \in PageType
BY DEF PageType

LEMMA NothingHeard ==
    ASSUME NEW r \in PageType, NEW b \in BOOLEAN
    PROVE  /\ [r EXCEPT !.receiving = None] \in PageType
           /\ [r EXCEPT !.failed = b, !.receiving = None] \in PageType
BY NoneType DEF PageType

LEMMA MadeType ==
    ASSUME NEW c \in ConnectionType
    PROVE  Make(c) \in ConnectionType /\ Want(c) \in ConnectionType
<1>1. Make(c) \in ConnectionType
  BY DEF Make, ConnectionType
<1>2. c.want + 1 \in Nat
  BY DEF ConnectionType
<1>3. \A n \in Nat : [c EXCEPT !.made = TRUE, !.want = n] \in ConnectionType
  BY DEF ConnectionType
<1> QED
  BY <1>1, <1>2, <1>3 DEF Want

LEMMA PresenceTypes ==
    ASSUME NegotiationType, NEW p \in Pages, PresenceStep(p) PROVE NegotiationType'
<1>1. page[p] \in PageType /\ pc[p] \in ConnectionType /\ page \in [Pages -> PageType]
  BY DEF NegotiationType
<1>2. CASE ReachRoom(p)
  <2>1. page' = [page EXCEPT ![p] = [page[p] EXCEPT !.at = "entered"]]
    BY <1>2 DEF ReachRoom
  <2> QED
    BY <1>1, <1>2, <2>1, JoiningFields, SetPage DEF ReachRoom, NegotiationType, Joining
<1>3. CASE LookAround(p)
  <2>1. PICK b \in BOOLEAN : b = (page[Peer(p)].at # "away")
    OBVIOUS
  <2>2. page' = [page EXCEPT ![p] = [page[p] EXCEPT !.at = "counted", !.saw = b]]
    BY <1>3, <2>1 DEF LookAround
  <2>3. [page[p] EXCEPT !.at = "counted", !.saw = b] \in PageType
    BY <1>1, JoiningFields DEF Joining
  <2>4. page' \in [Pages -> PageType]
    BY <1>1, <2>2, <2>3, SetPage
  <2> QED
    BY <1>3, <2>4 DEF LookAround, NegotiationType
<1>4. CASE SpreadWord(p)
  <2> DEFINE q == Peer(p)
             r == [page[p] EXCEPT !.at = "answered"]
             ps == [page EXCEPT ![p] = r]
  <2>1. q \in Pages /\ q # p /\ page[q] \in PageType
    BY TwoPages, RecordTypes
  <2>2. PICK b \in BOOLEAN : b = (page[q].at # "away")
    OBVIOUS
  <2>3. r \in PageType /\ [page[q] EXCEPT !.told = b] \in PageType
    BY <1>1, <2>1, JoiningFields, PageFlags DEF Joining
  <2>4. [ps EXCEPT ![q] = [page[q] EXCEPT !.told = b]] \in [Pages -> PageType]
    BY <1>1, <2>1, <2>3, SetPage
  <2>5. page' = [ps EXCEPT ![q] = [page[q] EXCEPT !.told = b]]
    BY <1>1, <1>4, <2>1, <2>2 DEF SpreadWord
  <2> QED
    BY <1>4, <2>4, <2>5 DEF SpreadWord, NegotiationType
<1>5. CASE HearPresence(p)
  <2>1. page' = [page EXCEPT ![p] = [page[p] EXCEPT !.told = FALSE, !.beside = TRUE]]
    BY <1>5 DEF HearPresence
  <2>2. [page[p] EXCEPT !.told = FALSE, !.beside = TRUE] \in PageType
    BY <1>1 DEF PageType
  <2>3. page' \in [Pages -> PageType]
    BY <1>1, <2>1, <2>2, SetPage
  <2> QED
    BY <1>5, <2>3 DEF HearPresence, NegotiationType
<1>6. CASE Acknowledge(p)
  <2>1. page[p].saw \in BOOLEAN
    BY <1>1 DEF PageType
  <2>2. page' = [page EXCEPT ![p] = [page[p] EXCEPT !.at = "joined", !.beside = page[p].saw]]
    BY <1>6 DEF Acknowledge
  <2>3. [page[p] EXCEPT !.at = "joined", !.beside = page[p].saw] \in PageType
    BY <1>1, <2>1, JoiningFields DEF Joining
  <2> QED
    BY <1>1, <1>6, <2>2, <2>3, SetPage DEF Acknowledge, NegotiationType
<1>7. CASE OpenChannel(p)
  <2>1. page' = [page EXCEPT ![p] = [page[p] EXCEPT !.channel = TRUE]]
    BY <1>7 DEF OpenChannel
  <2>2. pc' = [pc EXCEPT ![p] = Want(pc[p])]
    BY <1>7 DEF OpenChannel
  <2>3. page' \in [Pages -> PageType]
    BY <1>1, <2>1, PageFlags, MoreFlags, TwoFlags, SetPage
  <2>4. pc' \in [Pages -> ConnectionType]
    BY <1>1, <2>2, MadeType, SetConnection
  <2> QED
    BY <1>7, <2>3, <2>4 DEF OpenChannel, NegotiationType
<1>8. CASE AwaitOffer(p)
  BY <1>1, <1>8, MadeType, SetConnection DEF AwaitOffer, NegotiationType
<1>9. CASE EnableMedia(p)
  <2>1. page' = [page EXCEPT ![p] = [page[p] EXCEPT !.media = TRUE]]
    BY <1>9 DEF EnableMedia
  <2>2. pc' = [pc EXCEPT ![p] = Want(pc[p])]
    BY <1>9 DEF EnableMedia
  <2>3. page' \in [Pages -> PageType]
    BY <1>1, <2>1, PageFlags, MoreFlags, TwoFlags, SetPage
  <2>4. pc' \in [Pages -> ConnectionType]
    BY <1>1, <2>2, MadeType, SetConnection
  <2> QED
    BY <1>9, <2>3, <2>4 DEF EnableMedia, NegotiationType
<1> QED
  BY <1>2, <1>3, <1>4, <1>5, <1>6, <1>7, <1>8, <1>9 DEF PresenceStep

LEMMA SignalTypes ==
    ASSUME NegotiationType, NEW p \in Pages, SignalStep(p) PROVE NegotiationType'
<1>1. page[p] \in PageType /\ pc[p] \in ConnectionType /\ page \in [Pages -> PageType]
  BY DEF NegotiationType
<1>2. CASE NegotiationNeeded(p)
  <2>1. page' \in [Pages -> PageType]
    <3>1. \/ page' = [page EXCEPT ![p] = [page[p] EXCEPT !.making = TRUE]]
          \/ page' = [page EXCEPT ![p] = [page[p] EXCEPT !.missed = TRUE]]
      BY <1>2 DEF NegotiationNeeded
    <3> QED
      BY <1>1, <3>1, MoreFlags, SetPage
  <2>2. pc' \in [Pages -> ConnectionType]
    <3>1. pc' = [pc EXCEPT ![p] = [pc[p] EXCEPT !.flagged = TRUE]]
      BY <1>2 DEF NegotiationNeeded
    <3>2. [pc[p] EXCEPT !.flagged = TRUE] \in ConnectionType
      BY <1>1 DEF ConnectionType
    <3> QED
      BY <3>1, <3>2, SetConnection
  <2> QED
    BY <1>2, <2>1, <2>2 DEF NegotiationNeeded, NegotiationType
<1>3. CASE Offer(p)
  <2>1. offers' = offers + 1 /\ offers' \in Nat
    BY <1>3 DEF Offer, NegotiationType
  <2>2. wire' \in [Pages -> Seq(Signals)]
    BY <1>3, <2>1, Posted DEF Offer
  <2>3. page' \in [Pages -> PageType]
    <3>1. page' = [page EXCEPT ![p] = [page[p] EXCEPT !.making = FALSE]]
      BY <1>3 DEF Offer
    <3> QED
      BY <1>1, <3>1, MoreFlags, SetPage
  <2>4. pc' \in [Pages -> ConnectionType]
    <3> DEFINE c == [pc[p] EXCEPT !.state = "offering", !.offered = pc[p].want, !.own = offers']
    <3>1. pc' = [pc EXCEPT ![p] = c]
      BY <1>3 DEF Offer
    <3>2. c \in ConnectionType
      BY <1>1, <2>1 DEF ConnectionType
    <3> QED
      BY <3>1, <3>2, SetConnection
  <2> QED
    BY <2>1, <2>2, <2>3, <2>4 DEF NegotiationType
<1>4. CASE DropEarly(p)
  <2>1. wire' \in [Pages -> Seq(Signals)]
    BY <1>4, Delivered DEF DropEarly, Arrives
  <2>2. page' \in [Pages -> PageType]
    <3>1. page' = [page EXCEPT ![p] = [page[p] EXCEPT !.deaf = TRUE]]
      BY <1>4 DEF DropEarly
    <3> QED
      BY <1>1, <3>1, MoreFlags, SetPage
  <2> QED
    BY <1>4, <2>1, <2>2 DEF DropEarly, NegotiationType
<1>5. CASE Ignore(p)
  <2>1. wire' \in [Pages -> Seq(Signals)]
    BY <1>5, Delivered DEF Ignore, Arrives
  <2>2. page' \in [Pages -> PageType]
    <3>1. page' = [page EXCEPT ![p] = [page[p] EXCEPT !.ignore = TRUE, !.buffered = {}]]
      BY <1>5 DEF Ignore
    <3> QED
      BY <1>1, <3>1, TwoFlags, SetPage
  <2>3. pc' \in [Pages -> ConnectionType]
    BY <1>1, <1>5, MadeType, SetConnection DEF Ignore
  <2> QED
    BY <1>5, <2>1, <2>2, <2>3 DEF Ignore, NegotiationType
<1>6. CASE Take(p)
  <2>1. wire' \in [Pages -> Seq(Signals)] /\ Signal(p) \in Signals
    BY <1>6, Delivered DEF Take, Arrives
  <2>2. Signal(p) \in [type : {"offer", "answer", "none"}, id : Nat]
    BY <1>6, <2>1 DEF Take, Signals
  <2>3. page' \in [Pages -> PageType]
    <3> DEFINE r == [page[p] EXCEPT !.ignore = FALSE, !.receiving = Signal(p)]
    <3>1. page' = [page EXCEPT ![p] = r]
      BY <1>6 DEF Take
    <3>2. r \in PageType
      BY <1>1, <2>2 DEF PageType
    <3> QED
      BY <1>1, <3>1, <3>2, SetPage
  <2>4. pc' \in [Pages -> ConnectionType]
    BY <1>1, <1>6, MadeType, SetConnection DEF Take
  <2> QED
    BY <1>6, <2>1, <2>3, <2>4 DEF Take, NegotiationType
<1>7. CASE TakeCandidate(p)
  <2>1. wire' \in [Pages -> Seq(Signals)] /\ Signal(p) \in Signals
    BY <1>7, Delivered DEF TakeCandidate, Arrives
  <2>2. page' \in [Pages -> PageType]
    <3> DEFINE b == IF ~page[p].ignore /\ pc[p].remote = 0
                    THEN page[p].buffered \cup {Signal(p).id} ELSE page[p].buffered
               f == page[p].failed \/ (~page[p].ignore /\ pc[p].remote \notin {0, Signal(p).id})
               r == [page[p] EXCEPT !.buffered = b, !.failed = f]
    <3>1. Signal(p).id \in Nat
      BY <2>1 DEF Signals
    <3>2. page[p].buffered \in SUBSET Nat /\ page[p].failed \in BOOLEAN
      BY <1>1 DEF PageType
    <3>3. b \in SUBSET Nat /\ f \in BOOLEAN
      BY <3>1, <3>2
    <3>4. \A x \in SUBSET Nat, y \in BOOLEAN :
            [page[p] EXCEPT !.buffered = x, !.failed = y] \in PageType
      BY <1>1 DEF PageType
    <3>5. r \in PageType
      BY <3>3, <3>4
    <3>6. page' = [page EXCEPT ![p] = r]
      BY <1>7 DEF TakeCandidate
    <3> QED
      BY <1>1, <3>5, <3>6, SetPage
  <2>3. pc' \in [Pages -> ConnectionType]
    BY <1>1, <1>7, MadeType, SetConnection DEF TakeCandidate
  <2> QED
    BY <1>7, <2>1, <2>2, <2>3 DEF TakeCandidate, NegotiationType
<1>8. \A id \in Nat : Flush(p, id) \in PageType
  <2> SUFFICES ASSUME NEW id \in Nat PROVE Flush(p, id) \in PageType
    OBVIOUS
  <2>1. (page[p].failed \/ \E c \in page[p].buffered : c # id) \in BOOLEAN
    BY <1>1 DEF PageType
  <2>2. \A y \in BOOLEAN : [page[p] EXCEPT !.failed = y, !.buffered = {}] \in PageType
    BY <1>1 DEF PageType
  <2> QED
    BY <2>1, <2>2 DEF Flush
<1>9. page[p].receiving.id \in Nat
  BY <1>1 DEF PageType
<1>10. CASE SetOffer(p)
  <2>1. page' \in [Pages -> PageType]
    BY <1>1, <1>8, <1>9, <1>10, SetPage DEF SetOffer
  <2>2. pc' \in [Pages -> ConnectionType]
    <3> DEFINE c == [pc[p] EXCEPT !.state = "answering", !.offered = 0,
                                  !.remote = page[p].receiving.id]
    <3>1. pc' = [pc EXCEPT ![p] = c]
      BY <1>10 DEF SetOffer
    <3>2. c \in ConnectionType
      BY <1>1, <1>9 DEF ConnectionType
    <3> QED
      BY <3>1, <3>2, SetConnection
  <2> QED
    BY <1>10, <2>1, <2>2 DEF SetOffer, NegotiationType
<1>11. CASE Answer(p)
  <2>1. wire' \in [Pages -> Seq(Signals)]
    BY <1>9, <1>11, Posted DEF Answer
  <2>2. page' \in [Pages -> PageType]
    <3>1. page' = [page EXCEPT ![p] = [page[p] EXCEPT !.receiving = None]]
      BY <1>11 DEF Answer
    <3> QED
      BY <1>1, <3>1, NothingHeard, SetPage
  <2>3. pc' \in [Pages -> ConnectionType]
    <3>1. PICK got \in {pc[p].got, pc[p].want} :
            pc' = [pc EXCEPT ![p] = [pc[p] EXCEPT !.state = "stable", !.got = got,
                                       !.flagged = FALSE, !.own = page[p].receiving.id]]
      BY <1>11 DEF Answer
    <3>2. got \in Nat
      BY <1>1 DEF ConnectionType
    <3>3. [pc[p] EXCEPT !.state = "stable", !.got = got, !.flagged = FALSE,
                        !.own = page[p].receiving.id] \in ConnectionType
      BY <1>1, <1>9, <3>2 DEF ConnectionType
    <3> QED
      BY <3>1, <3>3, SetConnection
  <2> QED
    BY <1>11, <2>1, <2>2, <2>3 DEF Answer, NegotiationType
<1>12. CASE SetAnswer(p) /\ State(p) = "offering"
  <2> DEFINE r == [Flush(p, page[p].receiving.id) EXCEPT !.receiving = None]
             c == [pc[p] EXCEPT !.state = "stable", !.got = pc[p].offered,
                                !.flagged = FALSE, !.remote = page[p].receiving.id]
  <2>1. r \in PageType
    BY <1>8, <1>9, NothingHeard
  <2>2. c \in ConnectionType
    BY <1>1, <1>9 DEF ConnectionType
  <2>3. page' = [page EXCEPT ![p] = r] /\ pc' = [pc EXCEPT ![p] = c] /\ UNCHANGED <<wire, offers>>
    BY <1>12 DEF SetAnswer, State
  <2>4. page' \in [Pages -> PageType] /\ pc' \in [Pages -> ConnectionType]
    BY <1>1, <2>1, <2>2, <2>3, SetPage, SetConnection
  <2> QED
    BY <2>3, <2>4 DEF NegotiationType
<1>13. CASE SetAnswer(p) /\ State(p) # "offering"
  <2>1. /\ page' = [page EXCEPT ![p] = [page[p] EXCEPT !.failed = TRUE, !.receiving = None]]
        /\ UNCHANGED <<pc, wire, offers>>
    BY <1>13 DEF SetAnswer, State
  <2>2. page' \in [Pages -> PageType]
    BY <1>1, <2>1, NothingHeard, SetPage
  <2> QED
    BY <2>1, <2>2 DEF NegotiationType
<1> QED
  BY <1>2, <1>3, <1>4, <1>5, <1>6, <1>7, <1>10, <1>11, <1>12, <1>13 DEF SignalStep

------------------------------------------------------------------------------
(* What each step changes *)

\* The peer's own state.
PeerStays(p) == page'[Peer(p)] = page[Peer(p)] /\ pc'[Peer(p)] = pc[Peer(p)]

\* What the negotiation of r rests on.
Kept(r) ==
    /\ page'[r].making = page[r].making /\ page'[r].ignore = page[r].ignore
    /\ page'[r].receiving = page[r].receiving /\ page'[r].buffered = page[r].buffered
    /\ page'[r].failed = page[r].failed /\ page'[r].deaf = page[r].deaf
    /\ pc'[r].state = pc[r].state /\ pc'[r].own = pc[r].own /\ pc'[r].remote = pc[r].remote

\* A connection that is only made, or wanted for more.
Wants(c, d) ==
    /\ d.state = c.state /\ d.own = c.own /\ d.remote = c.remote /\ d.got = c.got
    /\ d.offered = c.offered /\ d.flagged = c.flagged
    /\ d.want \in {c.want, c.want + 1} /\ d.made \in BOOLEAN
    /\ c.made \/ d.want # c.want => d.made

LEMMA MadeWants ==
    ASSUME NEW c \in ConnectionType
    PROVE  Wants(c, c) /\ Wants(c, Make(c)) /\ Wants(c, Want(c))
BY DEF ConnectionType, Wants, Make, Want

LEMMA PresenceEffect ==
    ASSUME NegotiationType, NEW p \in Pages, PresenceStep(p)
    PROVE  /\ UNCHANGED <<wire, offers>>
           /\ \A r \in Pages : /\ Kept(r) /\ Wants(pc[r], pc'[r])
                               /\ page'[r].missed = page[r].missed
<1>1. \A r \in Pages : page[r] \in PageType /\ pc[r] \in ConnectionType
  BY DEF NegotiationType
<1>2. UNCHANGED <<wire, offers>>
  BY DEF PresenceStep, ReachRoom, LookAround, SpreadWord, HearPresence, Acknowledge, OpenChannel,
         AwaitOffer, EnableMedia
<1>3. \/ pc' = pc
      \/ pc' = [pc EXCEPT ![p] = Want(pc[p])]
      \/ pc' = [pc EXCEPT ![p] = Make(pc[p])]
  BY DEF PresenceStep, ReachRoom, LookAround, SpreadWord, HearPresence, Acknowledge, OpenChannel,
         AwaitOffer, EnableMedia
<1>4. \A r \in Pages : Wants(pc[r], pc'[r])
  <2> TAKE r \in Pages
  <2>1. pc'[r] \in {pc[r], Want(pc[r]), Make(pc[r])}
    BY <1>3 DEF NegotiationType
  <2> QED
    BY <1>1, <2>1, MadeWants
<1>5. \A r \in Pages :
         /\ page'[r].making = page[r].making /\ page'[r].ignore = page[r].ignore
         /\ page'[r].receiving = page[r].receiving /\ page'[r].buffered = page[r].buffered
         /\ page'[r].failed = page[r].failed /\ page'[r].deaf = page[r].deaf
         /\ page'[r].missed = page[r].missed
  <2> TAKE r \in Pages
  <2>1. CASE ReachRoom(p)
    BY <1>1, <2>1 DEF ReachRoom, NegotiationType, PageType
  <2>2. CASE LookAround(p)
    BY <1>1, <2>2 DEF LookAround, NegotiationType, PageType
  <2>3. CASE SpreadWord(p)
    <3> DEFINE q == Peer(p)
               b == page[q].at # "away"
    <3>1. q \in Pages /\ q # p /\ r \in {p, q}
      BY TwoPages
    <3>2. page' = [page EXCEPT ![p] = [page[p] EXCEPT !.at = "answered"],
                               ![q] = [page[q] EXCEPT !.told = b]]
      BY <2>3, <3>1 DEF SpreadWord, NegotiationType
    <3>3. \/ page'[r] = [page[r] EXCEPT !.at = "answered"]
          \/ page'[r] = [page[r] EXCEPT !.told = b]
      BY <3>1, <3>2 DEF NegotiationType
    <3> QED
      BY <1>1, <3>3 DEF PageType
  <2>4. CASE HearPresence(p)
    BY <1>1, <2>4 DEF HearPresence, NegotiationType, PageType
  <2>5. CASE Acknowledge(p)
    BY <1>1, <2>5 DEF Acknowledge, NegotiationType, PageType
  <2>6. CASE OpenChannel(p)
    BY <1>1, <2>6 DEF OpenChannel, NegotiationType, PageType
  <2>7. CASE AwaitOffer(p)
    BY <2>7 DEF AwaitOffer
  <2>8. CASE EnableMedia(p)
    BY <1>1, <2>8 DEF EnableMedia, NegotiationType, PageType
  <2> QED
    BY <2>1, <2>2, <2>3, <2>4, <2>5, <2>6, <2>7, <2>8 DEF PresenceStep
<1> QED
  BY <1>2, <1>4, <1>5 DEF Kept, Wants

LEMMA NeededEffect ==
    ASSUME NegotiationType, NEW p \in Pages, NegotiationNeeded(p)
    PROVE  /\ UNCHANGED <<wire, offers>> /\ PeerStays(p)
           /\ State(p) = "stable" /\ ~page[p].making /\ Hears(p) = None
           /\ page'[p].ignore = page[p].ignore /\ page'[p].receiving = page[p].receiving
           /\ page'[p].buffered = page[p].buffered /\ page'[p].failed = page[p].failed
           /\ page'[p].deaf = page[p].deaf
           /\ page'[p].making \/ (page'[p].missed /\ page'[p].making = page[p].making)
           /\ pc'[p].state = pc[p].state /\ pc'[p].own = pc[p].own
           /\ pc'[p].remote = pc[p].remote /\ pc'[p].got = pc[p].got
           /\ pc'[p].want = pc[p].want /\ pc'[p].offered = pc[p].offered
           /\ pc'[p].made = pc[p].made
<1>1. page[p] \in PageType /\ pc[p] \in ConnectionType /\ Peer(p) \in Pages /\ Peer(p) # p
  BY TwoPages DEF NegotiationType
<1>2. UNCHANGED <<wire, offers>> /\ State(p) = "stable" /\ ~page[p].making /\ Hears(p) = None
  BY DEF NegotiationNeeded, Needed, Working, State, Hears
<1>3. pc' = [pc EXCEPT ![p] = [pc[p] EXCEPT !.flagged = TRUE]]
  BY DEF NegotiationNeeded
<1>4. \/ page' = [page EXCEPT ![p] = [page[p] EXCEPT !.making = TRUE]]
      \/ page' = [page EXCEPT ![p] = [page[p] EXCEPT !.missed = TRUE]]
  BY DEF NegotiationNeeded
<1>5. PeerStays(p)
  BY <1>1, <1>3, <1>4 DEF PeerStays, NegotiationType
<1>6. /\ pc'[p].state = pc[p].state /\ pc'[p].own = pc[p].own
      /\ pc'[p].remote = pc[p].remote /\ pc'[p].got = pc[p].got
      /\ pc'[p].want = pc[p].want /\ pc'[p].offered = pc[p].offered
      /\ pc'[p].made = pc[p].made
  BY <1>1, <1>3 DEF NegotiationType, ConnectionType
<1>7. page'[p] \in {[page[p] EXCEPT !.making = TRUE], [page[p] EXCEPT !.missed = TRUE]}
  BY <1>1, <1>4 DEF NegotiationType
<1>8. /\ page'[p].ignore = page[p].ignore /\ page'[p].receiving = page[p].receiving
      /\ page'[p].buffered = page[p].buffered /\ page'[p].failed = page[p].failed
      /\ page'[p].deaf = page[p].deaf
      /\ page'[p].making \/ (page'[p].missed /\ page'[p].making = page[p].making)
  BY <1>1, <1>7 DEF PageType
<1> QED
  BY <1>2, <1>5, <1>6, <1>8

LEMMA OfferEffect ==
    ASSUME NegotiationType, NEW p \in Pages, Offer(p)
    PROVE  /\ page[p].making /\ offers' = offers + 1 /\ Send(p, "offer", offers')
           /\ PeerStays(p)
           /\ ~page'[p].making /\ page'[p].ignore = page[p].ignore
           /\ page'[p].receiving = page[p].receiving /\ page'[p].buffered = page[p].buffered
           /\ page'[p].failed = page[p].failed /\ page'[p].deaf = page[p].deaf
           /\ pc'[p].state = "offering" /\ pc'[p].own = offers' /\ pc'[p].remote = pc[p].remote
           /\ pc'[p].got = pc[p].got /\ pc'[p].want = pc[p].want /\ pc'[p].offered = pc[p].want
           /\ pc'[p].made = pc[p].made
<1>1. page[p] \in PageType /\ pc[p] \in ConnectionType /\ Peer(p) \in Pages /\ Peer(p) # p
  BY TwoPages DEF NegotiationType
<1>2. page[p].making /\ offers' = offers + 1 /\ Send(p, "offer", offers')
  BY DEF Offer
<1>3. page' = [page EXCEPT ![p] = [page[p] EXCEPT !.making = FALSE]]
  BY DEF Offer
<1>4. pc' = [pc EXCEPT ![p] = [pc[p] EXCEPT !.state = "offering", !.offered = pc[p].want,
                                            !.own = offers']]
  BY DEF Offer
<1>5. PeerStays(p) /\ page'[p] = [page[p] EXCEPT !.making = FALSE]
      /\ pc'[p] = [pc[p] EXCEPT !.state = "offering", !.offered = pc[p].want, !.own = offers']
  BY <1>1, <1>3, <1>4 DEF PeerStays, NegotiationType
<1>6. /\ ~page'[p].making /\ page'[p].ignore = page[p].ignore
      /\ page'[p].receiving = page[p].receiving /\ page'[p].buffered = page[p].buffered
      /\ page'[p].failed = page[p].failed /\ page'[p].deaf = page[p].deaf
  BY <1>1, <1>5 DEF PageType
<1>7. /\ pc'[p].state = "offering" /\ pc'[p].own = offers' /\ pc'[p].remote = pc[p].remote
      /\ pc'[p].got = pc[p].got /\ pc'[p].want = pc[p].want /\ pc'[p].offered = pc[p].want
      /\ pc'[p].made = pc[p].made
  BY <1>1, <1>5 DEF ConnectionType
<1> QED
  BY <1>2, <1>5, <1>6, <1>7

\* A signal that is received, whatever is made of it.
Receives(p) ==
    /\ wire[p] # <<>> /\ Hears(p) = None /\ Deliver(p) /\ offers' = offers /\ PeerStays(p)
    /\ page'[p].making = page[p].making /\ page'[p].missed = page[p].missed
    /\ page'[p].deaf = page[p].deaf /\ Wants(pc[p], pc'[p])

LEMMA MakeEffect ==
    ASSUME NegotiationType, NEW p \in Pages, pc' = [pc EXCEPT ![p] = Make(@)],
           NEW r, page' = [page EXCEPT ![p] = r]
    PROVE  PeerStays(p) /\ page'[p] = r /\ Wants(pc[p], pc'[p])
<1>1. pc[p] \in ConnectionType /\ Peer(p) \in Pages /\ Peer(p) # p
  BY TwoPages DEF NegotiationType
<1>2. PeerStays(p) /\ page'[p] = r /\ pc'[p] = Make(pc[p])
  BY <1>1 DEF PeerStays, NegotiationType
<1> QED
  BY <1>1, <1>2, MadeWants

LEMMA IgnoreEffect ==
    ASSUME NegotiationType, NEW p \in Pages, Ignore(p)
    PROVE  /\ Receives(p) /\ p = Impolite /\ Signal(p).type = "offer" /\ ~Ready(p)
           /\ page'[p].ignore /\ page'[p].receiving = None /\ page'[p].buffered = {}
           /\ page'[p].failed = page[p].failed
<1> DEFINE r == [page[p] EXCEPT !.ignore = TRUE, !.buffered = {}]
<1>1. page' = [page EXCEPT ![p] = r] /\ pc' = [pc EXCEPT ![p] = Make(@)]
  BY DEF Ignore
<1>2. PeerStays(p) /\ page'[p] = r /\ Wants(pc[p], pc'[p])
  BY <1>1, MakeEffect
<1>3. /\ wire[p] # <<>> /\ Hears(p) = None /\ Deliver(p) /\ offers' = offers
      /\ p = Impolite /\ Signal(p).type = "offer" /\ ~Ready(p)
  BY DEF Ignore, Ignores, Arrives, Hears
<1>4. /\ page'[p].making = page[p].making /\ page'[p].missed = page[p].missed
      /\ page'[p].deaf = page[p].deaf
      /\ page'[p].ignore /\ page'[p].receiving = page[p].receiving /\ page'[p].buffered = {}
      /\ page'[p].failed = page[p].failed
  BY <1>2, RecordTypes DEF PageType
<1> QED
  BY <1>2, <1>3, <1>4 DEF Receives, Hears

LEMMA TakeEffect ==
    ASSUME NegotiationType, NEW p \in Pages, Take(p)
    PROVE  /\ Receives(p) /\ Signal(p).type \in {"offer", "answer"}
           /\ p = Impolite /\ Signal(p).type = "offer" => Ready(p)
           /\ ~page'[p].ignore /\ page'[p].receiving = Signal(p)
           /\ page'[p].buffered = page[p].buffered /\ page'[p].failed = page[p].failed
<1> DEFINE r == [page[p] EXCEPT !.ignore = FALSE, !.receiving = Signal(p)]
<1>1. page' = [page EXCEPT ![p] = r] /\ pc' = [pc EXCEPT ![p] = Make(@)]
  BY DEF Take
<1>2. PeerStays(p) /\ page'[p] = r /\ Wants(pc[p], pc'[p])
  BY <1>1, MakeEffect
<1>3. /\ wire[p] # <<>> /\ Hears(p) = None /\ Deliver(p) /\ offers' = offers
      /\ Signal(p).type # "candidate"
      /\ p = Impolite /\ Signal(p).type = "offer" => Ready(p)
  BY DEF Take, Ignores, Arrives, Hears
<1>4. Signal(p) \in Signals
  BY <1>3, Delivered
<1>5. /\ page'[p].making = page[p].making /\ page'[p].missed = page[p].missed
      /\ page'[p].deaf = page[p].deaf
      /\ ~page'[p].ignore /\ page'[p].receiving = Signal(p)
      /\ page'[p].buffered = page[p].buffered /\ page'[p].failed = page[p].failed
  BY <1>2, RecordTypes DEF PageType
<1> QED
  BY <1>2, <1>3, <1>4, <1>5 DEF Receives, Signals

LEMMA CandidateEffect ==
    ASSUME NegotiationType, NEW p \in Pages, TakeCandidate(p)
    PROVE  /\ Receives(p) /\ Signal(p).type = "candidate"
           /\ page'[p].ignore = page[p].ignore /\ page'[p].receiving = None
           /\ page[p].ignore \/ pc[p].remote \in {Signal(p).id} \ {0} =>
                page'[p].buffered = page[p].buffered /\ page'[p].failed = page[p].failed
<1> DEFINE b == IF ~page[p].ignore /\ pc[p].remote = 0
                THEN page[p].buffered \cup {Signal(p).id} ELSE page[p].buffered
           f == page[p].failed \/ (~page[p].ignore /\ pc[p].remote \notin {0, Signal(p).id})
           r == [page[p] EXCEPT !.buffered = b, !.failed = f]
<1>1. page' = [page EXCEPT ![p] = r] /\ pc' = [pc EXCEPT ![p] = Make(@)]
  BY DEF TakeCandidate
<1>2. PeerStays(p) /\ page'[p] = r /\ Wants(pc[p], pc'[p])
  BY <1>1, MakeEffect
<1>3. /\ wire[p] # <<>> /\ Hears(p) = None /\ Deliver(p) /\ offers' = offers
      /\ Signal(p).type = "candidate"
  BY DEF TakeCandidate, Arrives, Hears
<1>4. page[p] \in PageType /\ page[p].failed \in BOOLEAN
  BY RecordTypes DEF PageType
<1>5. /\ page'[p].making = page[p].making /\ page'[p].missed = page[p].missed
      /\ page'[p].deaf = page[p].deaf
      /\ page'[p].ignore = page[p].ignore /\ page'[p].receiving = page[p].receiving
      /\ page'[p].buffered = b /\ page'[p].failed = f
  BY <1>2, <1>4 DEF PageType
<1>6. page[p].ignore \/ pc[p].remote \in {Signal(p).id} \ {0} =>
         b = page[p].buffered /\ f = page[p].failed
  BY <1>4
<1> QED
  BY <1>2, <1>3, <1>5, <1>6 DEF Receives, Hears

\* setRemoteDescription fails on none of the candidates kept for it.
LEMMA FlushEffect ==
    ASSUME NegotiationType, NEW p \in Pages, NEW id, page[p].buffered = {}
    PROVE  /\ Flush(p, id).making = page[p].making /\ Flush(p, id).missed = page[p].missed
           /\ Flush(p, id).deaf = page[p].deaf /\ Flush(p, id).ignore = page[p].ignore
           /\ Flush(p, id).receiving = page[p].receiving
           /\ Flush(p, id).buffered = {} /\ Flush(p, id).failed = page[p].failed
<1>1. page[p] \in PageType /\ page[p].failed \in BOOLEAN
  BY RecordTypes DEF PageType
<1>2. (page[p].failed \/ \E c \in page[p].buffered : c # id) = page[p].failed
  BY <1>1
<1> QED
  BY <1>1, <1>2 DEF Flush, PageType

LEMMA DropEffect ==
    ASSUME NegotiationType, NEW p \in Pages, DropEarly(p)
    PROVE  /\ page'[p].deaf /\ wire[p] # <<>> /\ Deliver(p) /\ offers' = offers /\ pc' = pc
           /\ page'[Peer(p)] = page[Peer(p)]
           /\ page'[p].making = page[p].making /\ page'[p].missed = page[p].missed
           /\ page'[p].receiving = None
<1>1. page[p] \in PageType /\ Peer(p) \in Pages /\ Peer(p) # p
  BY TwoPages, RecordTypes
<1>2. page' = [page EXCEPT ![p] = [page[p] EXCEPT !.deaf = TRUE]]
  BY DEF DropEarly
<1>3. page'[p] = [page[p] EXCEPT !.deaf = TRUE] /\ page'[Peer(p)] = page[Peer(p)]
  BY <1>1, <1>2 DEF NegotiationType
<1>4. wire[p] # <<>> /\ Deliver(p) /\ offers' = offers /\ pc' = pc /\ page[p].receiving = None
  BY DEF DropEarly, Arrives
<1> QED
  BY <1>1, <1>3, <1>4 DEF PageType

LEMMA SetOfferEffect ==
    ASSUME NegotiationType, NEW p \in Pages, SetOffer(p)
    PROVE  /\ UNCHANGED <<wire, offers>> /\ PeerStays(p)
           /\ Hears(p).type = "offer" /\ ~page[p].making /\ State(p) # "answering"
           /\ page'[p].making = page[p].making /\ page'[p].missed = page[p].missed
           /\ page'[p].deaf = page[p].deaf /\ page'[p].ignore = page[p].ignore
           /\ page'[p].receiving = page[p].receiving
           /\ page[p].buffered = {} =>
                page'[p].buffered = {} /\ page'[p].failed = page[p].failed
           /\ pc'[p].state = "answering" /\ pc'[p].remote = Hears(p).id
           /\ pc'[p].own = pc[p].own /\ pc'[p].want = pc[p].want /\ pc'[p].got = pc[p].got
           /\ pc'[p].offered = 0 /\ pc'[p].flagged = pc[p].flagged /\ pc'[p].made = pc[p].made
<1>1. page[p] \in PageType /\ pc[p] \in ConnectionType /\ Peer(p) \in Pages /\ Peer(p) # p
  BY TwoPages, RecordTypes
<1>2. /\ UNCHANGED <<wire, offers>> /\ Hears(p).type = "offer" /\ ~page[p].making
      /\ State(p) # "answering"
  BY DEF SetOffer, Hears, State
<1>3. page' = [page EXCEPT ![p] = Flush(p, Hears(p).id)]
  BY DEF SetOffer, Hears
<1>4. pc' = [pc EXCEPT ![p] = [pc[p] EXCEPT !.state = "answering", !.offered = 0,
                                            !.remote = Hears(p).id]]
  BY DEF SetOffer, Hears
<1>5. PeerStays(p) /\ page'[p] = Flush(p, Hears(p).id)
      /\ pc'[p] = [pc[p] EXCEPT !.state = "answering", !.offered = 0, !.remote = Hears(p).id]
  BY <1>1, <1>3, <1>4 DEF PeerStays, NegotiationType
<1>6. /\ page'[p].making = page[p].making /\ page'[p].missed = page[p].missed
      /\ page'[p].deaf = page[p].deaf /\ page'[p].ignore = page[p].ignore
      /\ page'[p].receiving = page[p].receiving
  BY <1>1, <1>5 DEF Flush, PageType
<1>7. page[p].buffered = {} => page'[p].buffered = {} /\ page'[p].failed = page[p].failed
  BY <1>5, FlushEffect
<1>8. /\ pc'[p].state = "answering" /\ pc'[p].remote = Hears(p).id
      /\ pc'[p].own = pc[p].own /\ pc'[p].want = pc[p].want /\ pc'[p].got = pc[p].got
      /\ pc'[p].offered = 0 /\ pc'[p].flagged = pc[p].flagged /\ pc'[p].made = pc[p].made
  BY <1>1, <1>5 DEF ConnectionType
<1> QED
  BY <1>2, <1>5, <1>6, <1>7, <1>8

LEMMA AnswerEffect ==
    ASSUME NegotiationType, NEW p \in Pages, Answer(p)
    PROVE  /\ offers' = offers /\ PeerStays(p) /\ Send(p, "answer", Hears(p).id)
           /\ Hears(p).type = "offer" /\ State(p) = "answering"
           /\ page'[p].making = page[p].making /\ page'[p].missed = page[p].missed
           /\ page'[p].deaf = page[p].deaf /\ page'[p].ignore = page[p].ignore
           /\ page'[p].receiving = None
           /\ page'[p].buffered = page[p].buffered /\ page'[p].failed = page[p].failed
           /\ pc'[p].state = "stable" /\ pc'[p].remote = pc[p].remote
           /\ pc'[p].own = Hears(p).id /\ pc'[p].want = pc[p].want
           /\ pc'[p].got \in {pc[p].got, pc[p].want}
           /\ pc'[p].offered = pc[p].offered /\ ~pc'[p].flagged /\ pc'[p].made = pc[p].made
<1>1. page[p] \in PageType /\ pc[p] \in ConnectionType /\ Peer(p) \in Pages /\ Peer(p) # p
  BY TwoPages, RecordTypes
<1>2. /\ offers' = offers /\ Send(p, "answer", Hears(p).id)
      /\ Hears(p).type = "offer" /\ State(p) = "answering"
  BY DEF Answer, Hears, State
<1>3. page' = [page EXCEPT ![p] = [page[p] EXCEPT !.receiving = None]]
  BY DEF Answer
<1>4. PICK got \in {pc[p].got, pc[p].want} :
        pc' = [pc EXCEPT ![p] = [pc[p] EXCEPT !.state = "stable", !.got = got,
                                   !.flagged = FALSE, !.own = Hears(p).id]]
  BY DEF Answer, Hears
<1>5. PeerStays(p) /\ page'[p] = [page[p] EXCEPT !.receiving = None]
      /\ pc'[p] = [pc[p] EXCEPT !.state = "stable", !.got = got, !.flagged = FALSE,
                                !.own = Hears(p).id]
  BY <1>1, <1>3, <1>4 DEF PeerStays, NegotiationType
<1>6. /\ page'[p].making = page[p].making /\ page'[p].missed = page[p].missed
      /\ page'[p].deaf = page[p].deaf /\ page'[p].ignore = page[p].ignore
      /\ page'[p].receiving = None
      /\ page'[p].buffered = page[p].buffered /\ page'[p].failed = page[p].failed
  BY <1>1, <1>5 DEF PageType
<1>7. /\ pc'[p].state = "stable" /\ pc'[p].remote = pc[p].remote
      /\ pc'[p].own = Hears(p).id /\ pc'[p].want = pc[p].want /\ pc'[p].got = got
      /\ pc'[p].offered = pc[p].offered /\ ~pc'[p].flagged /\ pc'[p].made = pc[p].made
  BY <1>1, <1>5 DEF ConnectionType
<1> QED
  BY <1>2, <1>4, <1>5, <1>6, <1>7

\* A page that waits for an answer has it.
LEMMA AgreedEffect ==
    ASSUME NegotiationType, NEW p \in Pages, SetAnswer(p), State(p) = "offering"
    PROVE  /\ UNCHANGED <<wire, offers>> /\ PeerStays(p)
           /\ Hears(p).type = "answer" /\ ~page[p].making
           /\ page'[p].making = page[p].making /\ page'[p].missed = page[p].missed
           /\ page'[p].deaf = page[p].deaf /\ page'[p].ignore = page[p].ignore
           /\ page'[p].receiving = None
           /\ page[p].buffered = {} =>
                page'[p].buffered = {} /\ page'[p].failed = page[p].failed
           /\ pc'[p].state = "stable" /\ pc'[p].remote = Hears(p).id
           /\ pc'[p].own = pc[p].own /\ pc'[p].want = pc[p].want
           /\ pc'[p].got = pc[p].offered
           /\ pc'[p].offered = pc[p].offered /\ ~pc'[p].flagged /\ pc'[p].made = pc[p].made
<1> DEFINE f == Flush(p, Hears(p).id)
           r == [f EXCEPT !.receiving = None]
           c == [pc[p] EXCEPT !.state = "stable", !.got = pc[p].offered, !.flagged = FALSE,
                              !.remote = Hears(p).id]
<1>1. page[p] \in PageType /\ pc[p] \in ConnectionType /\ Peer(p) \in Pages /\ Peer(p) # p
  BY TwoPages, RecordTypes
<1>2. /\ UNCHANGED <<wire, offers>> /\ Hears(p).type = "answer" /\ ~page[p].making
      /\ page' = [page EXCEPT ![p] = r] /\ pc' = [pc EXCEPT ![p] = c]
  BY DEF SetAnswer, Hears, State
<1>3. PeerStays(p) /\ page'[p] = r /\ pc'[p] = c
  BY <1>1, <1>2 DEF PeerStays, NegotiationType
<1>4. /\ r.making = page[p].making /\ r.missed = page[p].missed
      /\ r.deaf = page[p].deaf /\ r.ignore = page[p].ignore
      /\ r.receiving = None /\ r.buffered = f.buffered /\ r.failed = f.failed
  BY <1>1 DEF Flush, PageType
<1>5. page[p].buffered = {} => f.buffered = {} /\ f.failed = page[p].failed
  BY FlushEffect
<1>6. /\ c.state = "stable" /\ c.remote = Hears(p).id /\ c.own = pc[p].own
      /\ c.want = pc[p].want /\ c.got = pc[p].offered /\ c.offered = pc[p].offered
      /\ ~c.flagged /\ c.made = pc[p].made
  BY <1>1 DEF ConnectionType
<1> QED
  BY <1>2, <1>3, <1>4, <1>5, <1>6

\* One that does not loses it.
LEMMA LateEffect ==
    ASSUME NegotiationType, NEW p \in Pages, SetAnswer(p), State(p) # "offering"
    PROVE  /\ UNCHANGED <<wire, offers, pc>> /\ PeerStays(p)
           /\ Hears(p).type = "answer"
           /\ page'[p].making = page[p].making /\ page'[p].missed = page[p].missed
           /\ page'[p].deaf = page[p].deaf /\ page'[p].receiving = None
<1>1. page[p] \in PageType /\ Peer(p) \in Pages /\ Peer(p) # p
  BY TwoPages, RecordTypes
<1>2. /\ UNCHANGED <<wire, offers, pc>> /\ Hears(p).type = "answer"
      /\ page' = [page EXCEPT ![p] = [page[p] EXCEPT !.failed = TRUE, !.receiving = None]]
  BY DEF SetAnswer, Hears, State
<1>3. page'[p] = [page[p] EXCEPT !.failed = TRUE, !.receiving = None]
      /\ page'[Peer(p)] = page[Peer(p)]
  BY <1>1, <1>2 DEF NegotiationType
<1>4. PeerStays(p)
  BY <1>2, <1>3 DEF PeerStays
<1>5. /\ page'[p].making = page[p].making /\ page'[p].missed = page[p].missed
      /\ page'[p].deaf = page[p].deaf /\ page'[p].receiving = None
  BY <1>1, <1>3 DEF PageType
<1> QED
  BY <1>2, <1>4, <1>5

------------------------------------------------------------------------------
(* Steps that leave the connections alone *)

\* The connection and the signal of every page are as they were.
Quiet ==
    /\ wire' = wire
    /\ \A r \in Pages : /\ page'[r].receiving = page[r].receiving
                        /\ page'[r].ignore = page[r].ignore
                        /\ page'[r].buffered = page[r].buffered
                        /\ page'[r].failed = page[r].failed
                        /\ pc'[r].state = pc[r].state /\ pc'[r].own = pc[r].own
                        /\ pc'[r].remote = pc[r].remote
                        /\ page[r].making => page'[r].making
                        /\ page'[r].making => \/ page[r].making
                                              \/ State(r) = "stable" /\ Hears(r) = None

LEMMA QuietSteps ==
    ASSUME NegotiationType, NEW p \in Pages, PresenceStep(p) \/ NegotiationNeeded(p)
    PROVE  Quiet
<1>1. CASE PresenceStep(p)
  BY <1>1, PresenceEffect DEF Quiet, Kept
<1>2. CASE NegotiationNeeded(p)
  <2> DEFINE q == Peer(p)
  <2>1. q \in Pages /\ \A r \in Pages : r = p \/ r = q
    BY TwoPages
  <2>2. page[p].making \in BOOLEAN /\ page'[p].making \in BOOLEAN
    <3>1. NegotiationType'
      BY <1>2, SignalTypes DEF SignalStep
    <3>2. page'[p] \in PageType
      BY <3>1 DEF NegotiationType
    <3> QED
      BY <3>2, RecordTypes DEF PageType
  <2> QED
    BY <1>2, <2>1, <2>2, NeededEffect DEF Quiet, PeerStays
<1> QED
  BY <1>1, <1>2

LEMMA QuietStages ==
    ASSUME Quiet
    PROVE  /\ \A r \in Pages :
                /\ State(r)' = State(r) /\ Hears(r)' = Hears(r)
                /\ Sent(r)' <=> Sent(r)
                /\ Taken(r)' <=> Taken(r)
                /\ Answered(r)' <=> Answered(r)
                /\ Heard(r)' <=> Heard(r)
                /\ Accepted(r)' <=> Accepted(r)
           /\ \A r \in Pages : \A i : /\ IsOffer(r, i)' <=> IsOffer(r, i)
                                      /\ IsAnswer(r, i)' <=> IsAnswer(r, i)
                                      /\ LiveAt(r, i)' <=> LiveAt(r, i)
           /\ \A i : Stale(i)' <=> Stale(i)
<1>1. \A r \in Pages : State(r)' = State(r) /\ Hears(r)' = Hears(r)
  BY DEF Quiet, State, Hears
<1>2. \A r \in Pages : \A i : /\ IsOffer(r, i)' <=> IsOffer(r, i)
                              /\ IsAnswer(r, i)' <=> IsAnswer(r, i)
  BY DEF Quiet, IsOffer, IsAnswer
<1>3. \A r \in Pages : \A i : LiveAt(r, i)' <=> LiveAt(r, i)
  BY <1>1, <1>2, TwoPages DEF Quiet, LiveAt
<1>4. \A r \in Pages : /\ Sent(r)' <=> Sent(r)
                       /\ Taken(r)' <=> Taken(r)
                       /\ Answered(r)' <=> Answered(r)
                       /\ Heard(r)' <=> Heard(r)
  <2> TAKE r \in Pages
  <2>1. Sent(r)' <=> Sent(r)
    BY <1>3 DEF Quiet, Sent
  <2>2. Answered(r)' <=> Answered(r)
    BY <1>2 DEF Quiet, Answered
  <2>3. (Taken(r)' <=> Taken(r)) /\ (Heard(r)' <=> Heard(r))
    BY <1>1, TwoPages DEF Taken, Heard
  <2> QED
    BY <2>1, <2>2, <2>3
<1>5. \A r \in Pages : Accepted(r)' <=> Accepted(r)
  BY <1>1, <1>4, TwoPages DEF Accepted
<1>6. \A i : Stale(i)' <=> Stale(i)
  BY <1>1, <1>2, TwoPages DEF Quiet, Stale
<1> QED
  BY <1>1, <1>2, <1>3, <1>4, <1>5, <1>6

LEMMA QuietKeeps ==
    ASSUME Quiet, AllInv PROVE AllInv'
<1>1. \A r \in Pages : /\ page'[r].receiving = page[r].receiving
                       /\ page'[r].ignore = page[r].ignore
                       /\ page'[r].buffered = page[r].buffered
                       /\ page'[r].failed = page[r].failed
                       /\ pc'[r].state = pc[r].state /\ pc'[r].own = pc[r].own
                       /\ pc'[r].remote = pc[r].remote
  BY DEF Quiet
<1>2. wire' = wire
  BY DEF Quiet
<1>3. \A r \in Pages : CandidateInv(r)'
  BY <1>1, <1>2 DEF AllInv, CandidateInv, Hears
<1>4. \A r \in Pages : StateInv(r)'
  BY <1>1, QuietStages DEF Quiet, AllInv, StateInv
<1>5. \A r \in Pages : StageInv(r)'
  BY <1>1, TwoPages, QuietStages DEF AllInv, StageInv
<1>6. \A r \in Pages : WireInv(r)'
  BY <1>1, <1>2, TwoPages, QuietStages DEF AllInv, WireInv
<1>7. GlareInv'
  <2>1. /\ RollbackComes => RollbackComes'
        /\ Taken(Polite) => Hears(Impolite) # None
    BY TwoPages, QuietStages, NoneType DEF Quiet, RollbackComes, Taken
  <2> QED
    BY <1>1, <2>1, TwoPages, QuietStages DEF Quiet, AllInv, GlareInv
<1>8. OffersInv'
  BY <1>2, TwoPages, QuietStages DEF AllInv, OffersInv
<1> QED
  BY <1>3, <1>4, <1>5, <1>6, <1>7, <1>8 DEF AllInv

------------------------------------------------------------------------------
(* Ids and wishes *)

BookInv == \A r \in Pages : IdInv(r) /\ WantInv(r)

LEMMA PresenceBooks ==
    ASSUME NegotiationType, BookInv, NEW p \in Pages, PresenceStep(p) PROVE BookInv'
<1>1. UNCHANGED <<wire, offers>> /\ \A r \in Pages : Kept(r) /\ Wants(pc[r], pc'[r])
                                                  /\ page'[r].missed = page[r].missed
  BY PresenceEffect
<1>2. \A r \in Pages : IdInv(r)'
  BY <1>1 DEF BookInv, IdInv, Kept, Hears
<1>3. \A r \in Pages : pc[r].want \in Nat /\ pc[r].got \in Nat /\ pc[r].offered \in Nat
  BY RecordTypes DEF ConnectionType
<1>4. \A r \in Pages : WantInv(r)'
  BY <1>1, <1>3 DEF BookInv, WantInv, Kept, Wants, State
<1> QED
  BY <1>2, <1>4 DEF BookInv

\* The ids on a wire that has lost its head.
LEMMA TailIds ==
    ASSUME NegotiationType, NEW p \in Pages, wire[p] # <<>>, Deliver(p), IdInv(p), offers' = offers
    PROVE  /\ \A i \in DOMAIN wire'[p] : wire'[p][i].id \in 1 .. offers'
           /\ Signal(p).id \in 1 .. offers'
<1>1. \A i \in DOMAIN wire[p] : wire[p][i].id \in 1 .. offers
  BY DEF IdInv
<1>2. \A i \in DOMAIN wire'[p] : i + 1 \in DOMAIN wire[p] /\ wire'[p][i] = wire[p][i + 1]
  BY Delivered
<1>3. Signal(p) = wire[p][1] /\ 1 \in DOMAIN wire[p]
  BY Delivered
<1> QED
  BY <1>1, <1>2, <1>3

LEMMA SignalBooks ==
    ASSUME NegotiationType, BookInv, NEW p \in Pages, SignalStep(p) PROVE BookInv'
<1> DEFINE q == Peer(p)
<1>1. q \in Pages /\ q # p /\ \A r \in Pages : r = p \/ r = q
  BY TwoPages
<1>2. IdInv(p) /\ IdInv(q) /\ WantInv(p) /\ WantInv(q)
  BY <1>1 DEF BookInv
<1>3. offers \in Nat /\ \A r \in Pages : pc[r].want \in Nat /\ pc[r].got \in Nat
      /\ pc[r].offered \in Nat
                                     /\ pc[r].own \in Nat
  BY RecordTypes DEF ConnectionType, NegotiationType
<1>4. SUFFICES IdInv(p)' /\ IdInv(q)' /\ WantInv(p)' /\ WantInv(q)'
  BY <1>1 DEF BookInv
<1>5. pc'[q] = pc[q] /\ page'[q] = page[q] => WantInv(q)'
  BY <1>2 DEF WantInv, State
<1>6. pc'[q].own = pc[q].own /\ wire'[q] = wire[q] /\ offers' = offers /\ page'[q] = page[q]
        => IdInv(q)'
  BY <1>2 DEF IdInv, Hears
<1>7. CASE NegotiationNeeded(p)
  <2>1. IdInv(p)'
    BY <1>2, <1>7, NeededEffect DEF IdInv, Hears
  <2>2. WantInv(p)'
    BY <1>2, <1>7, NeededEffect DEF WantInv
  <2> QED
    BY <1>5, <1>6, <1>7, <2>1, <2>2, NeededEffect DEF PeerStays
<1>8. CASE Offer(p)
  <2>1. WantInv(p)'
    BY <1>2, <1>3, <1>8, OfferEffect DEF WantInv, State
  <2>2. offers' = offers + 1 /\ offers' \in Nat /\ Send(p, "offer", offers') /\ PeerStays(p)
    BY <1>3, <1>8, OfferEffect
  <2>3. /\ wire'[p] = wire[p]
        /\ \A i \in DOMAIN wire'[q] : \/ i \in DOMAIN wire[q] /\ wire'[q][i] = wire[q][i]
                                      \/ wire'[q][i].id = offers'
    <3> DEFINE n == Len(wire[q])
    <3>1. /\ wire'[p] = wire[p] /\ n \in Nat
          /\ DOMAIN wire[q] = 1 .. n /\ DOMAIN wire'[q] = 1 .. n + 2
          /\ \A i \in 1 .. n : wire'[q][i] = wire[q][i]
          /\ wire'[q][n + 1].id = offers' /\ wire'[q][n + 2].id = offers'
      BY <2>2, Posted
    <3>2. \A i \in 1 .. n + 2 : i \in 1 .. n \/ i = n + 1 \/ i = n + 2
      BY <3>1
    <3> QED
      BY <3>1, <3>2
  <2>4. IdInv(p)'
    BY <1>2, <1>3, <1>8, <2>2, <2>3, OfferEffect DEF IdInv, Hears
  <2>5. IdInv(q)'
    BY <1>1, <1>2, <1>3, <2>2, <2>3 DEF IdInv, Hears, PeerStays
  <2> QED
    BY <1>5, <2>1, <2>2, <2>4, <2>5 DEF PeerStays
<1>9. CASE DropEarly(p)
  <2>1. /\ page'[p].deaf /\ wire[p] # <<>> /\ Deliver(p) /\ offers' = offers /\ pc' = pc
        /\ page'[q] = page[q]
        /\ page'[p].making = page[p].making /\ page'[p].missed = page[p].missed
        /\ page'[p].receiving = None
    BY <1>9, DropEffect
  <2>2. WantInv(p)'
    BY <1>2, <2>1 DEF WantInv, State
  <2>3. IdInv(p)'
    BY <1>2, <2>1, TailIds DEF IdInv, Hears
  <2>4. wire'[q] = wire[q]
    BY <2>1, Delivered
  <2> QED
    BY <1>5, <1>6, <2>1, <2>2, <2>3, <2>4
<1>10. ASSUME Receives(p), page'[p].receiving \in {None, Signal(p)},
              page'[p].receiving # None => Signal(p).type # "none"
       PROVE  IdInv(p)' /\ IdInv(q)' /\ WantInv(p)' /\ WantInv(q)'
  <2>1. wire[p] # <<>> /\ Deliver(p) /\ offers' = offers /\ PeerStays(p)
        /\ Wants(pc[p], pc'[p]) /\ page'[p].making = page[p].making
        /\ page'[p].missed = page[p].missed
    BY <1>10 DEF Receives
  <2>2. WantInv(p)'
    BY <1>2, <1>3, <2>1 DEF WantInv, State, Wants
  <2>3. IdInv(p)'
    BY <1>2, <1>10, <2>1, TailIds DEF IdInv, Hears, Wants
  <2>4. wire'[q] = wire[q]
    BY <2>1, Delivered
  <2> QED
    BY <1>5, <1>6, <2>1, <2>2, <2>3, <2>4 DEF PeerStays
<1>11. CASE Ignore(p)
  BY <1>10, <1>11, IgnoreEffect
<1>12. CASE Take(p)
  BY <1>10, <1>12, TakeEffect
<1>13. CASE TakeCandidate(p)
  BY <1>10, <1>13, CandidateEffect
<1>14. CASE SetOffer(p)
  <2>1. IdInv(p)'
    BY <1>2, <1>14, SetOfferEffect DEF IdInv, Hears
  <2>2. WantInv(p)'
    BY <1>2, <1>3, <1>14, SetOfferEffect DEF WantInv, State
  <2> QED
    BY <1>5, <1>6, <1>14, <2>1, <2>2, SetOfferEffect DEF PeerStays
<1>15. CASE Answer(p)
  <2>1. /\ offers' = offers /\ PeerStays(p) /\ Send(p, "answer", Hears(p).id)
        /\ Hears(p).type = "offer" /\ page'[p].receiving = None /\ pc'[p].own = Hears(p).id
    BY <1>15, AnswerEffect
  <2>2. Hears(p) # None /\ Hears(p).id \in 1 .. offers /\ Hears(p).id \in Nat
    BY <1>2, <1>3, <2>1, NoneType DEF IdInv
  <2>3. /\ wire'[p] = wire[p]
        /\ \A i \in DOMAIN wire'[q] : \/ i \in DOMAIN wire[q] /\ wire'[q][i] = wire[q][i]
                                      \/ wire'[q][i].id = Hears(p).id
    <3> DEFINE n == Len(wire[q])
    <3>1. /\ wire'[p] = wire[p] /\ n \in Nat
          /\ DOMAIN wire[q] = 1 .. n /\ DOMAIN wire'[q] = 1 .. n + 2
          /\ \A i \in 1 .. n : wire'[q][i] = wire[q][i]
          /\ wire'[q][n + 1].id = Hears(p).id /\ wire'[q][n + 2].id = Hears(p).id
      BY <2>1, <2>2, Posted
    <3>2. \A i \in 1 .. n + 2 : i \in 1 .. n \/ i = n + 1 \/ i = n + 2
      BY <3>1
    <3> QED
      BY <3>1, <3>2
  <2>4. IdInv(p)'
    BY <1>2, <1>3, <2>1, <2>2, <2>3 DEF IdInv, Hears
  <2>5. IdInv(q)'
    BY <1>1, <1>2, <1>3, <2>1, <2>2, <2>3 DEF IdInv, Hears, PeerStays
  <2>6. WantInv(p)'
    BY <1>2, <1>3, <1>15, AnswerEffect DEF WantInv, State
  <2> QED
    BY <1>5, <2>1, <2>4, <2>5, <2>6 DEF PeerStays
<1>16. CASE SetAnswer(p) /\ State(p) = "offering"
  <2>1. IdInv(p)'
    BY <1>2, <1>16, AgreedEffect DEF IdInv, Hears
  <2>2. WantInv(p)'
    BY <1>2, <1>3, <1>16, AgreedEffect DEF WantInv, State
  <2> QED
    BY <1>5, <1>6, <1>16, <2>1, <2>2, AgreedEffect DEF PeerStays
<1>17. CASE SetAnswer(p) /\ State(p) # "offering"
  <2>1. IdInv(p)'
    BY <1>2, <1>17, LateEffect DEF IdInv, Hears
  <2>2. WantInv(p)'
    BY <1>2, <1>17, LateEffect DEF WantInv, State
  <2> QED
    BY <1>5, <1>6, <1>17, <2>1, <2>2, LateEffect DEF PeerStays
<1> QED
  BY <1>7, <1>8, <1>9, <1>11, <1>12, <1>13, <1>14, <1>15, <1>16, <1>17 DEF SignalStep

------------------------------------------------------------------------------
(* A signal is received *)

\* The stages of both pages' offers when p receives a signal.
LEMMA ReceivedStages ==
    ASSUME NegotiationType, NEW p \in Pages, Receives(p), NEW q, q = Peer(p)
    PROVE  /\ Hears(p) = None /\ ~Taken(q) /\ ~Heard(p)
           /\ \A r \in Pages : /\ State(r)' = State(r) /\ pc'[r].own = pc[r].own
                               /\ pc'[r].remote = pc[r].remote
           /\ page'[q] = page[q] /\ wire'[q] = wire[q] /\ Hears(q)' = Hears(q)
           /\ page'[p].making = page[p].making
           /\ \A i : /\ IsOffer(q, i)' <=> IsOffer(q, i)
                     /\ IsAnswer(q, i)' <=> IsAnswer(q, i)
                     /\ LiveAt(p, i)' <=> LiveAt(p, i)
           /\ Sent(p)' <=> Sent(p)
           /\ Taken(p)' <=> Taken(p)
           /\ Answered(q)' <=> Answered(q)
           /\ Heard(q)' <=> Heard(q)
<1>1. /\ q \in Pages /\ Peer(q) = p /\ \A r \in Pages : r = p \/ r = q
  BY TwoPages
<1>2. wire[p] # <<>> /\ Hears(p) = None /\ Deliver(p) /\ PeerStays(p) /\ Wants(pc[p], pc'[p])
      /\ page'[p].making = page[p].making
  BY DEF Receives
<1>3. page'[q] = page[q] /\ pc'[q] = pc[q] /\ wire'[q] = wire[q]
  BY <1>2, Delivered DEF PeerStays
<1>4. \A r \in Pages : /\ State(r)' = State(r) /\ pc'[r].own = pc[r].own
                       /\ pc'[r].remote = pc[r].remote
  BY <1>1, <1>2, <1>3 DEF Wants, State
<1>5. \A i : /\ IsOffer(q, i)' <=> IsOffer(q, i)
             /\ IsAnswer(q, i)' <=> IsAnswer(q, i)
  BY <1>3 DEF IsOffer, IsAnswer
<1>6. \A i : LiveAt(p, i)' <=> LiveAt(p, i)
  BY <1>1, <1>3, <1>4, <1>5 DEF LiveAt
<1>7. Hears(q)' = Hears(q)
  BY <1>3 DEF Hears
<1>8. Sent(p)' <=> Sent(p)
  BY <1>3, <1>6 DEF Sent
<1>9. Answered(q)' <=> Answered(q)
  BY <1>3, <1>5 DEF Answered
<1>10. Taken(p)' <=> Taken(p)
  BY <1>7 DEF Taken
<1>11. Heard(q)' <=> Heard(q)
  BY <1>7 DEF Heard
<1>12. ~Taken(q) /\ ~Heard(p)
  BY <1>1, <1>2, NoneType DEF Taken, Heard
<1> QED
  BY <1>2, <1>3, <1>4, <1>5, <1>6, <1>7, <1>8, <1>9, <1>10, <1>11, <1>12

\* The wire it came from.
LEMMA ReceivedWire ==
    ASSUME NegotiationType, NEW p \in Pages, Receives(p), NEW q, q = Peer(p), WireInv(p)
    PROVE  /\ 1 \in DOMAIN wire[p] /\ Signal(p) = wire[p][1]
           /\ IsOffer(p, 1) <=> Signal(p).type = "offer"
           /\ IsAnswer(p, 1) <=> Signal(p).type = "answer"
           /\ DOMAIN wire'[p] \subseteq Nat \ {0}
           /\ \A i \in DOMAIN wire'[p] :
                 /\ i + 1 \in DOMAIN wire[p] /\ wire'[p][i] = wire[p][i + 1]
                 /\ IsOffer(p, i)' <=> IsOffer(p, i + 1)
                 /\ IsAnswer(p, i)' <=> IsAnswer(p, i + 1)
                 /\ LiveAt(q, i)' <=> LiveAt(q, i + 1)
           /\ \A i \in DOMAIN wire[p] : i = 1 \/ (i \in Nat /\ i > 1 /\ i - 1 \in DOMAIN wire'[p])
           /\ LiveAt(q, 1) => /\ Sent(q) /\ ~Answered(p) /\ State(q) = "offering"
                              /\ IsOffer(p, 1) /\ Signal(p).id = pc[q].own
           /\ Sent(q)' <=> Sent(q) /\ ~LiveAt(q, 1)
           /\ Answered(p)' <=> Answered(p) /\ ~IsAnswer(p, 1)
           /\ IsAnswer(p, 1) => Answered(p) /\ Signal(p).id = pc[p].own
<1>1. /\ q \in Pages /\ Peer(q) = p /\ \A r \in Pages : r = p \/ r = q
  BY TwoPages
<1>2. wire[p] # <<>> /\ Deliver(p)
  BY DEF Receives
<1> DEFINE n == Len(wire[p])
<1>3. /\ Signal(p) = wire[p][1] /\ n \in Nat \ {0}
      /\ DOMAIN wire[p] = 1 .. n /\ DOMAIN wire'[p] = 1 .. n - 1
      /\ \A i \in 1 .. n - 1 : wire'[p][i] = wire[p][i + 1]
  BY <1>2, Delivered
<1>4. /\ 1 \in 1 .. n /\ \A i \in 1 .. n - 1 : i \in Nat \ {0} /\ i + 1 \in 1 .. n
      /\ \A i \in 1 .. n : i = 1 \/ (i \in Nat /\ i > 1 /\ i - 1 \in 1 .. n - 1 /\ (i - 1) + 1 = i)
  BY <1>3
<1>5. \A i \in 1 .. n - 1 : /\ IsOffer(p, i)' <=> IsOffer(p, i + 1)
                            /\ IsAnswer(p, i)' <=> IsAnswer(p, i + 1)
  BY <1>3 DEF IsOffer, IsAnswer
<1>6. State(q)' = State(q) /\ pc'[q].own = pc[q].own
  BY <1>1, ReceivedStages
<1>7. \A i \in 1 .. n - 1 : LiveAt(q, i)' <=> LiveAt(q, i + 1)
  BY <1>1, <1>3, <1>5, <1>6 DEF LiveAt
<1>8. LiveAt(q, 1) => /\ Sent(q) /\ ~Answered(p) /\ State(q) = "offering"
                      /\ IsOffer(p, 1) /\ Signal(p).id = pc[q].own
  <2> SUFFICES ASSUME LiveAt(q, 1)
               PROVE  /\ Sent(q) /\ ~Answered(p) /\ State(q) = "offering"
                      /\ IsOffer(p, 1) /\ Signal(p).id = pc[q].own
    OBVIOUS
  <2>1. Sent(q)
    BY <1>1, <1>3, <1>4 DEF Sent
  <2>2. ~Answered(p)
    BY <1>3, <1>4 DEF Answered, WireInv
  <2> QED
    BY <1>1, <1>3, <2>1, <2>2 DEF LiveAt
<1>9. Sent(q)' <=> Sent(q) /\ ~LiveAt(q, 1)
  <2>1. ASSUME Sent(q)' PROVE Sent(q) /\ ~LiveAt(q, 1)
    <3>1. PICK i \in 1 .. n - 1 : LiveAt(q, i)'
      BY <1>1, <1>3, <2>1 DEF Sent
    <3>2. LiveAt(q, i + 1) /\ i + 1 \in 1 .. n /\ i + 1 # 1
      BY <1>4, <1>7, <3>1
    <3> QED
      BY <1>1, <1>3, <1>4, <3>2 DEF Sent, WireInv
  <2>2. ASSUME Sent(q), ~LiveAt(q, 1) PROVE Sent(q)'
    <3>1. PICK i \in 1 .. n : LiveAt(q, i)
      BY <1>1, <1>3, <2>2 DEF Sent
    <3>2. i - 1 \in 1 .. n - 1 /\ (i - 1) + 1 = i
      BY <1>4, <2>2, <3>1
    <3>3. LiveAt(q, i - 1)'
      BY <1>7, <3>1, <3>2
    <3> QED
      BY <1>1, <1>3, <3>2, <3>3 DEF Sent
  <2> QED
    BY <2>1, <2>2
<1>10. Answered(p)' <=> Answered(p) /\ ~IsAnswer(p, 1)
  <2>1. ASSUME Answered(p)' PROVE Answered(p) /\ ~IsAnswer(p, 1)
    <3>1. PICK i \in 1 .. n - 1 : IsAnswer(p, i)'
      BY <1>3, <2>1 DEF Answered
    <3>2. IsAnswer(p, i + 1) /\ i + 1 \in 1 .. n /\ i + 1 # 1
      BY <1>4, <1>5, <3>1
    <3> QED
      BY <1>3, <1>4, <3>2 DEF Answered, WireInv
  <2>2. ASSUME Answered(p), ~IsAnswer(p, 1) PROVE Answered(p)'
    <3>1. PICK i \in 1 .. n : IsAnswer(p, i)
      BY <1>3, <2>2 DEF Answered
    <3>2. i - 1 \in 1 .. n - 1 /\ (i - 1) + 1 = i
      BY <1>4, <2>2, <3>1
    <3>3. IsAnswer(p, i - 1)'
      BY <1>5, <3>1, <3>2
    <3> QED
      BY <1>3, <3>2, <3>3 DEF Answered
  <2> QED
    BY <2>1, <2>2
<1>11. IsAnswer(p, 1) => Answered(p) /\ Signal(p).id = pc[p].own
  BY <1>3, <1>4 DEF Answered, WireInv
<1>12. (IsOffer(p, 1) <=> Signal(p).type = "offer")
       /\ (IsAnswer(p, 1) <=> Signal(p).type = "answer")
  BY <1>3 DEF IsOffer, IsAnswer
<1> QED
  BY <1>3, <1>4, <1>5, <1>7, <1>8, <1>9, <1>10, <1>11, <1>12

\* What no reception disturbs: the order of the wires, the offers on them and the state of
\* the connections.
LEMMA ReceptionKeeps ==
    ASSUME NegotiationType, NEW p \in Pages, Receives(p), AllInv
    PROVE  /\ \A r \in Pages : WireInv(r)' /\ StateInv(r)'
           /\ OffersInv'
           /\ CandidateInv(Peer(p))'
<1> DEFINE q == Peer(p)
<1>1. q \in Pages /\ Peer(q) = p /\ \A r \in Pages : r = p \/ r = q
  BY TwoPages
<1>2. /\ WireInv(p) /\ WireInv(q) /\ StateInv(p) /\ StateInv(q) /\ CandidateInv(q) /\ OffersInv
  BY <1>1 DEF AllInv
<1>3. /\ Hears(p) = None
      /\ \A r \in Pages : /\ State(r)' = State(r) /\ pc'[r].own = pc[r].own
                          /\ pc'[r].remote = pc[r].remote
      /\ page'[q] = page[q] /\ wire'[q] = wire[q] /\ Hears(q)' = Hears(q)
      /\ page'[p].making = page[p].making
      /\ \A i : /\ IsOffer(q, i)' <=> IsOffer(q, i)
                /\ IsAnswer(q, i)' <=> IsAnswer(q, i)
                /\ LiveAt(p, i)' <=> LiveAt(p, i)
  BY <1>1, ReceivedStages
<1>4. /\ DOMAIN wire'[p] \subseteq Nat \ {0}
      /\ \A i \in DOMAIN wire'[p] :
            /\ i + 1 \in DOMAIN wire[p] /\ wire'[p][i] = wire[p][i + 1]
            /\ IsOffer(p, i)' <=> IsOffer(p, i + 1)
            /\ IsAnswer(p, i)' <=> IsAnswer(p, i + 1)
            /\ LiveAt(q, i)' <=> LiveAt(q, i + 1)
      /\ \A i \in DOMAIN wire[p] : i = 1 \/ (i \in Nat /\ i > 1 /\ i - 1 \in DOMAIN wire'[p])
  BY <1>1, <1>2, ReceivedWire
<1>5. WireInv(q)'
  BY <1>1, <1>2, <1>3 DEF WireInv
<1>6. WireInv(p)'
  <2>1. \A i \in DOMAIN wire'[p] : IsAnswer(p, i)' => wire'[p][i].id = pc'[p].own
    BY <1>2, <1>3, <1>4 DEF WireInv
  <2>2. \A i, j \in DOMAIN wire'[p] : IsAnswer(p, i)' /\ IsAnswer(p, j)' => i = j
    <3> TAKE i, j \in DOMAIN wire'[p]
    <3>1. IsAnswer(p, i)' /\ IsAnswer(p, j)' => i + 1 = j + 1
      BY <1>2, <1>4 DEF WireInv
    <3>2. i \in Nat /\ j \in Nat
      BY <1>4
    <3> QED
      BY <3>1, <3>2
  <2>3. \A i, j \in DOMAIN wire'[p] : LiveAt(q, i)' /\ LiveAt(q, j)' => i = j
    <3> TAKE i, j \in DOMAIN wire'[p]
    <3>1. LiveAt(q, i)' /\ LiveAt(q, j)' => i + 1 = j + 1
      BY <1>2, <1>4 DEF WireInv
    <3>2. i \in Nat /\ j \in Nat
      BY <1>4
    <3> QED
      BY <3>1, <3>2
  <2>4. \A i, j \in DOMAIN wire'[p] : LiveAt(q, i)' /\ IsAnswer(p, j)' => j < i
    <3> TAKE i, j \in DOMAIN wire'[p]
    <3>1. LiveAt(q, i)' /\ IsAnswer(p, j)' => j + 1 < i + 1
      BY <1>2, <1>4 DEF WireInv
    <3>2. i \in Nat /\ j \in Nat
      BY <1>4
    <3> QED
      BY <3>1, <3>2
  <2> QED
    BY <2>1, <2>2, <2>3, <2>4 DEF WireInv
<1>7. StateInv(p)'
  BY <1>2, <1>3, NoneType DEF StateInv
<1>8. StateInv(q)' /\ CandidateInv(q)'
  BY <1>1, <1>2, <1>3 DEF StateInv, CandidateInv
<1>9. OffersInv'
  <2>1. CASE p = Polite
    <3>1. q = Impolite
      BY <2>1, TwoPages
    <3>2. \A i : Stale(i)' <=> Stale(i)
      BY <1>1, <1>3, <2>1, <3>1 DEF Stale
    <3>3. \A i \in DOMAIN wire'[Polite] : IsOffer(Polite, i)' => LiveAt(Impolite, i)'
      BY <1>2, <1>4, <2>1, <3>1 DEF OffersInv
    <3>4. \A i \in DOMAIN wire'[Impolite] :
             IsOffer(Impolite, i)' => LiveAt(Polite, i)' \/ Stale(i)'
      BY <1>2, <1>3, <2>1, <3>1, <3>2 DEF OffersInv
    <3> QED
      BY <3>3, <3>4 DEF OffersInv
  <2>2. CASE p = Impolite
    <3>1. q = Polite
      BY <2>2, TwoPages
    <3>2. \A i \in DOMAIN wire'[Impolite] : Stale(i + 1) => Stale(i)'
      <4> TAKE i \in DOMAIN wire'[Impolite]
      <4>1. i \in Nat
        BY <1>4, <2>2
      <4>2. ASSUME NEW j \in DOMAIN wire[Impolite], i + 1 < j, IsAnswer(Impolite, j)
            PROVE  j - 1 \in DOMAIN wire'[Impolite] /\ i < j - 1 /\ IsAnswer(Impolite, j - 1)'
        <5>1. j \in Nat /\ j - 1 \in DOMAIN wire'[Impolite] /\ (j - 1) + 1 = j
          BY <1>4, <2>2, <4>1, <4>2
        <5>2. IsAnswer(Impolite, j - 1)'
          BY <1>4, <2>2, <4>2, <5>1
        <5> QED
          BY <4>1, <4>2, <5>1, <5>2
      <4> QED
        BY <1>1, <1>3, <2>2, <3>1, <4>2 DEF Stale
    <3>3. \A i \in DOMAIN wire'[Polite] : IsOffer(Polite, i)' => LiveAt(Impolite, i)'
      BY <1>2, <1>3, <2>2, <3>1 DEF OffersInv
    <3>4. \A i \in DOMAIN wire'[Impolite] :
             IsOffer(Impolite, i)' => LiveAt(Polite, i)' \/ Stale(i)'
      BY <1>2, <1>4, <2>2, <3>1, <3>2 DEF OffersInv
    <3> QED
      BY <3>3, <3>4 DEF OffersInv
  <2> QED
    BY <2>1, <2>2, TwoPages
<1> QED
  BY <1>1, <1>5, <1>6, <1>7, <1>8, <1>9

\* The candidate that comes to the head of the wire follows its description.
LEMMA NextCandidate ==
    ASSUME NegotiationType, NEW p \in Pages, Receives(p), AllInv,
           ~page'[p].failed, page'[p].buffered = {},
           Signal(p).type # "candidate" =>
             \/ page'[p].receiving = None /\ page'[p].ignore
             \/ page'[p].receiving # None /\ page'[p].receiving.id = Signal(p).id
    PROVE  CandidateInv(p)'
<1>1. CandidateInv(p) /\ WireInv(p)
  BY DEF AllInv
<1>2. /\ DOMAIN wire'[p] \subseteq Nat \ {0}
      /\ \A i \in DOMAIN wire'[p] : i + 1 \in DOMAIN wire[p] /\ wire'[p][i] = wire[p][i + 1]
      /\ Signal(p) = wire[p][1]
      /\ \A i \in DOMAIN wire[p] : i = 1 \/ (i \in Nat /\ i > 1 /\ i - 1 \in DOMAIN wire'[p])
  BY <1>1, ReceivedWire
<1>3. ASSUME NEW i \in DOMAIN wire'[p], wire'[p][i].type = "candidate"
      PROVE  IF i = 1 THEN IF Hears(p)' # None THEN wire'[p][i].id = Hears(p)'.id
                           ELSE page'[p].ignore \/ wire'[p][i].id = pc'[p].remote
             ELSE wire'[p][i - 1].type # "candidate" /\ wire'[p][i - 1].id = wire'[p][i].id
  <2>1. i \in Nat /\ i # 0 /\ i + 1 \in DOMAIN wire[p] /\ wire[p][i + 1].type = "candidate"
        /\ i + 1 # 1
        /\ (i + 1) - 1 = i
    BY <1>2, <1>3
  <2>2. wire[p][i].type # "candidate" /\ wire[p][i].id = wire[p][i + 1].id
    BY <1>1, <2>1 DEF CandidateInv
  <2>3. CASE i = 1
    <3>1. Signal(p).type # "candidate" /\ Signal(p).id = wire'[p][i].id
      BY <1>2, <1>3, <2>2, <2>3
    <3> QED
      BY <2>3, <3>1 DEF Hears
  <2>4. CASE i # 1
    <3>1. i \in DOMAIN wire[p] /\ i - 1 \in DOMAIN wire'[p] /\ (i - 1) + 1 = i
      <4>1. wire[p] \in Seq(Signals)
        BY DEF NegotiationType
      <4>2. i \in DOMAIN wire[p]
        BY <2>1, <4>1
      <4> QED
        BY <1>2, <2>1, <2>4, <4>2
    <3>2. wire'[p][i - 1] = wire[p][i]
      BY <1>2, <3>1
    <3> QED
      BY <1>2, <2>2, <2>4, <3>2
  <2> QED
    BY <2>3, <2>4
<1> QED
  BY <1>3 DEF CandidateInv

LEMMA TakeCandidateKeeps ==
    ASSUME NegotiationType, NEW p \in Pages, IdInv(p), AllInv, TakeCandidate(p) PROVE AllInv'
<1> DEFINE q == Peer(p)
<1>1. q \in Pages /\ Peer(q) = p /\ \A r \in Pages : r = p \/ r = q
  BY TwoPages
<1>2. /\ WireInv(p) /\ StageInv(p) /\ StageInv(q) /\ CandidateInv(p) /\ GlareInv
  BY <1>1 DEF AllInv
<1>3. Receives(p) /\ Signal(p).type = "candidate" /\ page'[p].receiving = None
  BY CandidateEffect
<1>4. /\ 1 \in DOMAIN wire[p] /\ Signal(p) = wire[p][1] /\ ~IsAnswer(p, 1) /\ ~LiveAt(q, 1)
  BY <1>1, <1>2, <1>3, ReceivedWire
<1>5. CandidateInv(p)'
  <2>1. page[p].ignore \/ pc[p].remote = Signal(p).id
    BY <1>2, <1>3, <1>4, ReceivedStages DEF CandidateInv
  <2>2. Signal(p).id # 0
    BY <1>4 DEF IdInv, NegotiationType
  <2>3. page'[p].buffered = page[p].buffered /\ page'[p].failed = page[p].failed
    BY <2>1, <2>2, CandidateEffect
  <2> QED
    BY <1>2, <1>3, <2>3, NextCandidate DEF CandidateInv
<1>6. \A r \in Pages : State(r)' = State(r) /\ pc'[r].own = pc[r].own
      /\ pc'[r].remote = pc[r].remote
      /\ page'[r].making = page[r].making /\ Hears(r)' = Hears(r)
  BY <1>1, <1>3, ReceivedStages DEF Hears
<1>7. \A r \in Pages : /\ Sent(r)' <=> Sent(r)
                       /\ Taken(r)' <=> Taken(r)
                       /\ Answered(r)' <=> Answered(r)
                       /\ Heard(r)' <=> Heard(r)
  <2>1. \A r \in Pages : (Taken(r)' <=> Taken(r)) /\ (Heard(r)' <=> Heard(r))
    BY <1>6, TwoPages DEF Taken, Heard
  <2> QED
    BY <1>1, <1>2, <1>3, <1>4, <2>1, ReceivedStages, ReceivedWire
<1>8. StageInv(p)' /\ StageInv(q)'
  BY <1>1, <1>2, <1>6, <1>7 DEF StageInv
<1>9. GlareInv'
  BY <1>2, <1>6, <1>7, TwoPages DEF GlareInv, Accepted, RollbackComes
<1> QED
  BY <1>1, <1>3, <1>5, <1>8, <1>9, ReceptionKeeps DEF AllInv

\* Only the impolite page does this, and only when its own offer will reach the other page.
LEMMA IgnoreKeeps ==
    ASSUME NegotiationType, NEW p \in Pages, AllInv, Ignore(p) PROVE AllInv'
<1> DEFINE q == Peer(p)
<1>1. /\ q \in Pages /\ Peer(q) = p /\ \A r \in Pages : r = p \/ r = q
      /\ p = Impolite /\ q = Polite
  BY TwoPages, IgnoreEffect
<1>2. /\ WireInv(p) /\ StageInv(p) /\ StageInv(q) /\ CandidateInv(p) /\ StateInv(p) /\ GlareInv
  BY <1>1 DEF AllInv
<1>3. /\ Receives(p) /\ Signal(p).type = "offer" /\ page'[p].receiving = None /\ ~Ready(p)
      /\ page'[p].ignore /\ page'[p].buffered = {} /\ page'[p].failed = page[p].failed
  BY IgnoreEffect
<1>4. ~IsAnswer(p, 1)
  BY <1>1, <1>2, <1>3, ReceivedWire
<1>5. CandidateInv(p)'
  BY <1>2, <1>3, NextCandidate DEF CandidateInv
<1>6. \A r \in Pages : State(r)' = State(r) /\ pc'[r].own = pc[r].own
      /\ pc'[r].remote = pc[r].remote
      /\ page'[r].making = page[r].making /\ Hears(r)' = Hears(r)
  BY <1>1, <1>3, ReceivedStages DEF Hears
<1>7. \A r \in Pages : /\ Taken(r)' <=> Taken(r)
                       /\ Answered(r)' <=> Answered(r)
                       /\ Heard(r)' <=> Heard(r)
  <2>1. \A r \in Pages : (Taken(r)' <=> Taken(r)) /\ (Heard(r)' <=> Heard(r))
    BY <1>6, TwoPages DEF Taken, Heard
  <2> QED
    BY <1>1, <1>2, <1>3, <1>4, <2>1, ReceivedStages, ReceivedWire
<1>8. (Sent(p)' <=> Sent(p)) /\ (Sent(q)' <=> Sent(q) /\ ~LiveAt(q, 1))
  BY <1>1, <1>2, <1>3, ReceivedStages, ReceivedWire
<1>9. StageInv(p)' /\ StageInv(q)'
  BY <1>1, <1>2, <1>6, <1>7, <1>8 DEF StageInv
<1>10. RollbackComes' <=> RollbackComes
  BY <1>1, <1>6, <1>7, <1>8, TwoPages DEF RollbackComes
<1>11. LiveAt(q, 1) => RollbackComes
  <2> SUFFICES ASSUME LiveAt(q, 1) PROVE RollbackComes
    OBVIOUS
  <2>1. ~Answered(p)
    BY <1>1, <1>2, <1>3, ReceivedWire
  <2>2. Hears(p) = None /\ ~Heard(p)
    BY <1>1, <1>3, ReceivedStages
  <2>3. page[p].making \/ State(p) # "stable"
    BY <1>3 DEF Ready, State
  <2>4. State(p) # "answering"
    BY <1>2, <2>2, NoneType DEF StateInv
  <2>5. State(p) \in {"stable", "offering", "answering"}
    BY RecordTypes DEF ConnectionType, State
  <2> QED
    BY <1>1, <1>2, <2>1, <2>2, <2>3, <2>4, <2>5 DEF GlareInv, RollbackComes
<1>12. GlareInv'
  BY <1>1, <1>2, <1>6, <1>7, <1>8, <1>10, <1>11, TwoPages DEF GlareInv, Accepted
<1> QED
  BY <1>1, <1>3, <1>5, <1>9, <1>12, ReceptionKeeps DEF AllInv

\* The answer a page waits for.
LEMMA TakeAnswerKeeps ==
    ASSUME NegotiationType, NEW p \in Pages, AllInv, Take(p), Signal(p).type = "answer"
    PROVE  AllInv'
<1> DEFINE q == Peer(p)
<1>1. q \in Pages /\ Peer(q) = p /\ \A r \in Pages : r = p \/ r = q
  BY TwoPages
<1>2. /\ WireInv(p) /\ StageInv(p) /\ StageInv(q) /\ CandidateInv(p) /\ GlareInv
  BY <1>1 DEF AllInv
<1>3. /\ Receives(p) /\ page'[p].receiving = Signal(p)
      /\ page'[p].buffered = page[p].buffered /\ page'[p].failed = page[p].failed
  BY TakeEffect
<1>4. IsAnswer(p, 1) /\ Answered(p) /\ Signal(p).id = pc[p].own /\ ~LiveAt(q, 1) /\ ~Answered(p)'
      /\ (Sent(q)' <=> Sent(q))
  BY <1>1, <1>2, <1>3, ReceivedWire
<1>5. CandidateInv(p)'
  <2>1. page'[p].receiving # None
    BY <1>3, NoneType
  <2> QED
    BY <1>2, <1>3, <2>1, NextCandidate DEF CandidateInv
<1>6. \A r \in Pages : State(r)' = State(r) /\ pc'[r].own = pc[r].own
      /\ pc'[r].remote = pc[r].remote
      /\ page'[r].making = page[r].making
  BY <1>1, <1>3, ReceivedStages
<1>7. /\ ~Taken(q) /\ ~Heard(p) /\ Hears(q)' = Hears(q)
      /\ Sent(p)' <=> Sent(p)
      /\ Taken(p)' <=> Taken(p)
      /\ Answered(q)' <=> Answered(q)
      /\ Heard(q)' <=> Heard(q)
  BY <1>1, <1>3, ReceivedStages
<1>8. ~Taken(q)' /\ Heard(p)' /\ Hears(p)'.id = pc[p].own
  BY <1>1, <1>3, <1>4 DEF Taken, Heard, Hears
<1>9. StageInv(p)' /\ StageInv(q)'
  BY <1>1, <1>2, <1>4, <1>6, <1>7, <1>8 DEF StageInv
<1>10. GlareInv'
  <2>1. CASE p = Polite /\ q = Impolite
    BY <1>1, <1>2, <1>4, <1>6, <1>7, <1>8, <2>1 DEF GlareInv, Accepted, RollbackComes
  <2>2. CASE p = Impolite /\ q = Polite
    BY <1>1, <1>2, <1>4, <1>6, <1>7, <1>8, <2>2 DEF GlareInv, Accepted, RollbackComes
  <2> QED
    BY <2>1, <2>2, TwoPages
<1> QED
  BY <1>1, <1>3, <1>5, <1>9, <1>10, ReceptionKeeps DEF AllInv

\* The offer a page takes is the one the other waits for.
LEMMA TakeOfferKeeps ==
    ASSUME NegotiationType, NEW p \in Pages, AllInv, Take(p), Signal(p).type = "offer"
    PROVE  AllInv'
<1> DEFINE q == Peer(p)
<1>1. q \in Pages /\ Peer(q) = p /\ \A r \in Pages : r = p \/ r = q
  BY TwoPages
<1>2. /\ WireInv(p) /\ StageInv(p) /\ StageInv(q) /\ CandidateInv(p) /\ GlareInv /\ OffersInv
  BY <1>1 DEF AllInv
<1>3. /\ Receives(p) /\ page'[p].receiving = Signal(p)
      /\ page'[p].buffered = page[p].buffered /\ page'[p].failed = page[p].failed
      /\ p = Impolite => ~page[p].making /\ State(p) = "stable"
  BY TakeEffect DEF Ready, State
<1>4. 1 \in DOMAIN wire[p] /\ IsOffer(p, 1) /\ ~IsAnswer(p, 1)
  BY <1>1, <1>2, <1>3, ReceivedWire
<1>5. LiveAt(q, 1)
  <2>1. CASE p = Polite /\ q = Impolite
    BY <1>2, <1>4, <2>1 DEF OffersInv
  <2>2. CASE p = Impolite /\ q = Polite
    BY <1>2, <1>3, <1>4, <2>2 DEF OffersInv, Stale
  <2> QED
    BY <2>1, <2>2, TwoPages
<1>6. /\ Sent(q) /\ ~Answered(p) /\ State(q) = "offering" /\ Signal(p).id = pc[q].own
      /\ ~Sent(q)' /\ ~Answered(p)'
  BY <1>1, <1>2, <1>3, <1>4, <1>5, ReceivedWire
<1>7. CandidateInv(p)'
  <2>1. page'[p].receiving # None
    BY <1>3, NoneType
  <2> QED
    BY <1>2, <1>3, <2>1, NextCandidate DEF CandidateInv
<1>8. \A r \in Pages : State(r)' = State(r) /\ pc'[r].own = pc[r].own
      /\ pc'[r].remote = pc[r].remote
      /\ page'[r].making = page[r].making
  BY <1>1, <1>3, ReceivedStages
<1>9. /\ ~Taken(q) /\ ~Heard(p) /\ Hears(q)' = Hears(q)
      /\ Sent(p)' <=> Sent(p)
      /\ Taken(p)' <=> Taken(p)
      /\ Answered(q)' <=> Answered(q)
      /\ Heard(q)' <=> Heard(q)
  BY <1>1, <1>3, ReceivedStages
<1>10. Taken(q)' /\ ~Heard(p)' /\ Hears(p)'.id = pc[q].own
  BY <1>1, <1>3, <1>6 DEF Taken, Heard, Hears
<1>11. StageInv(p)' /\ StageInv(q)'
  BY <1>1, <1>2, <1>6, <1>8, <1>9, <1>10 DEF StageInv
<1>12. GlareInv'
  <2>1. CASE p = Polite /\ q = Impolite
    BY <1>1, <1>2, <1>6, <1>8, <1>9, <1>10, <2>1 DEF GlareInv, Accepted, RollbackComes
  <2>2. CASE p = Impolite /\ q = Polite
    BY <1>1, <1>2, <1>3, <1>6, <1>8, <1>9, <1>10, <2>2 DEF GlareInv, Accepted, RollbackComes
  <2> QED
    BY <2>1, <2>2, TwoPages
<1> QED
  BY <1>1, <1>3, <1>7, <1>11, <1>12, ReceptionKeeps DEF AllInv

------------------------------------------------------------------------------
(* A description is sent or set *)

\* The stages after p has changed its own connection, and perhaps sent a description of
\* the given type.
Changes(p) ==
    /\ wire'[p] = wire[p] /\ PeerStays(p)
    /\ \A i \in DOMAIN wire[Peer(p)] :
         i \in DOMAIN wire'[Peer(p)] /\ wire'[Peer(p)][i] = wire[Peer(p)][i]

LEMMA ChangedStages ==
    ASSUME NegotiationType, NEW p \in Pages, Changes(p), NEW q, q = Peer(p)
    PROVE  /\ State(q)' = State(q) /\ pc'[q].own = pc[q].own /\ pc'[q].remote = pc[q].remote
           /\ page'[q] = page[q] /\ Hears(q)' = Hears(q)
           /\ \A i : /\ IsOffer(p, i)' <=> IsOffer(p, i)
                     /\ IsAnswer(p, i)' <=> IsAnswer(p, i)
                     /\ LiveAt(q, i)' <=> LiveAt(q, i)
           /\ \A i \in DOMAIN wire[q] : /\ IsOffer(q, i)' <=> IsOffer(q, i)
                                        /\ IsAnswer(q, i)' <=> IsAnswer(q, i)
           /\ Sent(q)' <=> Sent(q)
           /\ Answered(p)' <=> Answered(p)
           /\ Taken(p)' <=> Taken(p)
           /\ Heard(q)' <=> Heard(q)
<1>1. q \in Pages /\ Peer(q) = p
  BY TwoPages
<1>2. page'[q] = page[q] /\ pc'[q] = pc[q] /\ wire'[p] = wire[p]
  BY DEF Changes, PeerStays
<1>3. State(q)' = State(q) /\ Hears(q)' = Hears(q)
  BY <1>2 DEF State, Hears
<1>4. \A i : (IsOffer(p, i)' <=> IsOffer(p, i)) /\ (IsAnswer(p, i)' <=> IsAnswer(p, i))
  BY <1>2 DEF IsOffer, IsAnswer
<1>5. \A i : LiveAt(q, i)' <=> LiveAt(q, i)
  BY <1>1, <1>2, <1>3, <1>4 DEF LiveAt
<1>6. \A i \in DOMAIN wire[q] :
        (IsOffer(q, i)' <=> IsOffer(q, i)) /\ (IsAnswer(q, i)' <=> IsAnswer(q, i))
  BY DEF Changes, IsOffer, IsAnswer
<1>7. Sent(q)' <=> Sent(q)
  BY <1>1, <1>2, <1>5 DEF Sent
<1>8. Answered(p)' <=> Answered(p)
  BY <1>2, <1>4 DEF Answered
<1>9. (Taken(p)' <=> Taken(p)) /\ (Heard(q)' <=> Heard(q))
  BY <1>3 DEF Taken, Heard
<1> QED
  BY <1>2, <1>3, <1>4, <1>5, <1>6, <1>7, <1>8, <1>9

\* What is left where it was, whatever p does to its own connection.
LEMMA ChangeKeeps ==
    ASSUME NegotiationType, NEW p \in Pages, Changes(p), AllInv
    PROVE  /\ StateInv(Peer(p))'
           /\ (pc'[p].own = pc[p].own \/ ~Answered(p)) => WireInv(p)'
           /\ (wire'[Peer(p)] = wire[Peer(p)]) => CandidateInv(Peer(p))'
<1> DEFINE q == Peer(p)
<1>1. q \in Pages /\ Peer(q) = p /\ WireInv(p) /\ StateInv(q) /\ CandidateInv(q)
  BY TwoPages DEF AllInv
<1>2. /\ State(q)' = State(q) /\ pc'[q].own = pc[q].own /\ pc'[q].remote = pc[q].remote
      /\ page'[q] = page[q] /\ Hears(q)' = Hears(q)
      /\ \A i : /\ IsAnswer(p, i)' <=> IsAnswer(p, i)
                /\ LiveAt(q, i)' <=> LiveAt(q, i)
  BY ChangedStages
<1>3. wire'[p] = wire[p]
  BY DEF Changes
<1>4. StateInv(q)'
  BY <1>1, <1>2 DEF StateInv
<1>5. (pc'[p].own = pc[p].own \/ ~Answered(p)) => WireInv(p)'
  BY <1>1, <1>2, <1>3 DEF WireInv, Answered
<1>6. (wire'[q] = wire[q]) => CandidateInv(q)'
  BY <1>1, <1>2 DEF CandidateInv
<1> QED
  BY <1>4, <1>5, <1>6

\* The wire a description is put on.
LEMMA PostedStages ==
    ASSUME NegotiationType, NEW p \in Pages, NEW type \in {"offer", "answer"}, NEW id \in Nat,
           Send(p, type, id), PeerStays(p), NEW q, q = Peer(p), CandidateInv(q),
           NEW n, n = Len(wire[q])
    PROVE  /\ Changes(p) /\ n \in Nat
           /\ DOMAIN wire[q] = 1 .. n
           /\ \A i \in DOMAIN wire'[q] : i \in 1 .. n \/ i = n + 1 \/ i = n + 2
           /\ n + 1 \in DOMAIN wire'[q] /\ n + 2 \in DOMAIN wire'[q]
           /\ IsOffer(q, n + 1)' <=> type = "offer"
           /\ IsAnswer(q, n + 1)' <=> type = "answer"
           /\ wire'[q][n + 1].id = id
           /\ ~IsOffer(q, n + 2)' /\ ~IsAnswer(q, n + 2)'
           /\ Answered(q)' <=> Answered(q) \/ type = "answer"
           /\ CandidateInv(q)'
<1>1. q \in Pages /\ Peer(q) = p
  BY TwoPages
<1>2. /\ wire'[p] = wire[p] /\ n \in Nat
      /\ DOMAIN wire[q] = 1 .. n /\ DOMAIN wire'[q] = 1 .. n + 2
      /\ \A i \in 1 .. n : wire'[q][i] = wire[q][i]
      /\ wire'[q][n + 1].type = type /\ wire'[q][n + 1].id = id
      /\ wire'[q][n + 2].type = "candidate" /\ wire'[q][n + 2].id = id
  BY Posted
<1>3. /\ \A i \in 1 .. n + 2 : i \in 1 .. n \/ i = n + 1 \/ i = n + 2
      /\ 1 .. n \subseteq 1 .. n + 2 /\ n + 1 \in 1 .. n + 2 /\ n + 2 \in 1 .. n + 2
  BY <1>2
<1>4. Changes(p)
  BY <1>2, <1>3 DEF Changes
<1>5. /\ IsOffer(q, n + 1)' <=> type = "offer"
      /\ IsAnswer(q, n + 1)' <=> type = "answer"
      /\ ~IsOffer(q, n + 2)' /\ ~IsAnswer(q, n + 2)'
  BY <1>2 DEF IsOffer, IsAnswer
<1>6. \A i \in 1 .. n : IsAnswer(q, i)' <=> IsAnswer(q, i)
  BY <1>2 DEF IsAnswer
<1>7. Answered(q)' <=> Answered(q) \/ type = "answer"
  BY <1>2, <1>3, <1>5, <1>6 DEF Answered
<1>8. CandidateInv(q)'
  <2>1. page'[q] = page[q] /\ pc'[q] = pc[q]
    BY DEF PeerStays
  <2>2. \A i \in 1 .. n : i # 1 => i - 1 \in 1 .. n
    BY <1>2
  <2>3. n + 1 # 1 => n \in 1 .. n
    BY <1>2
  <2>4. n + 2 # 1 /\ (n + 2) - 1 = n + 1
    BY <1>2
  <2>5. ASSUME NEW i \in DOMAIN wire'[q], wire'[q][i].type = "candidate"
        PROVE  IF i = 1 THEN IF Hears(q)' # None THEN wire'[q][i].id = Hears(q)'.id
                             ELSE page'[q].ignore \/ wire'[q][i].id = pc'[q].remote
               ELSE wire'[q][i - 1].type # "candidate" /\ wire'[q][i - 1].id = wire'[q][i].id
    <3>1. CASE i \in 1 .. n
      <4>1. wire'[q][i] = wire[q][i] /\ wire[q][i].type = "candidate" /\ i \in DOMAIN wire[q]
        BY <1>2, <2>5, <3>1
      <4>2. i # 1 => wire'[q][i - 1] = wire[q][i - 1]
        BY <1>2, <2>2, <3>1
      <4> QED
        BY <2>1, <4>1, <4>2 DEF CandidateInv, Hears
    <3>2. CASE i = n + 2
      BY <1>2, <2>4, <3>2
    <3> QED
      BY <1>2, <1>3, <2>5, <3>1, <3>2
  <2> QED
    BY <2>1, <2>5 DEF CandidateInv
<1> QED
  BY <1>2, <1>3, <1>4, <1>5, <1>7, <1>8

\* The new offer goes behind everything on its way to the peer.
LEMMA OfferKeeps ==
    ASSUME NegotiationType, NEW p \in Pages, IdInv(Peer(p)), AllInv, Offer(p) PROVE AllInv'
<1> DEFINE q == Peer(p)
<1> PICK n : n = Len(wire[q])
  OBVIOUS
<1>1. q \in Pages /\ Peer(q) = p /\ q # p /\ \A r \in Pages : r = p \/ r = q
  BY TwoPages
<1>2. /\ WireInv(p) /\ WireInv(q) /\ StageInv(p) /\ StageInv(q) /\ CandidateInv(p)
      /\ CandidateInv(q)
      /\ StateInv(p) /\ StateInv(q) /\ GlareInv /\ OffersInv
  BY <1>1 DEF AllInv
<1>3. /\ page[p].making /\ offers' = offers + 1 /\ Send(p, "offer", offers')
      /\ PeerStays(p)
      /\ ~page'[p].making /\ page'[p].ignore = page[p].ignore
      /\ page'[p].receiving = page[p].receiving /\ page'[p].buffered = page[p].buffered
      /\ page'[p].failed = page[p].failed
      /\ State(p)' = "offering" /\ pc'[p].own = offers' /\ pc'[p].remote = pc[p].remote
  BY OfferEffect DEF State
<1>4. offers \in Nat /\ offers' \in Nat
  BY <1>3 DEF NegotiationType
<1>5. State(p) = "stable" /\ ~Sent(p) /\ ~Taken(p) /\ ~Answered(p) /\ ~Heard(p)
  BY <1>2, <1>3 DEF StateInv, StageInv, Sent, LiveAt
<1>6. /\ Changes(p) /\ n \in Nat
      /\ DOMAIN wire[q] = 1 .. n
      /\ \A i \in DOMAIN wire'[q] : i \in 1 .. n \/ i = n + 1 \/ i = n + 2
      /\ n + 1 \in DOMAIN wire'[q]
      /\ IsOffer(q, n + 1)' /\ ~IsAnswer(q, n + 1)' /\ wire'[q][n + 1].id = offers'
      /\ ~IsOffer(q, n + 2)' /\ ~IsAnswer(q, n + 2)'
      /\ Answered(q)' <=> Answered(q)
      /\ CandidateInv(q)'
  <2> PICK type : type = "offer"
    OBVIOUS
  <2>1. /\ type \in {"offer", "answer"} /\ type # "answer"
        /\ Send(p, type, offers') /\ PeerStays(p) /\ CandidateInv(q) /\ offers' \in Nat
    BY <1>1, <1>2, <1>3, <1>4
  <2>2. /\ Changes(p) /\ n \in Nat
        /\ DOMAIN wire[q] = 1 .. n
        /\ \A i \in DOMAIN wire'[q] : i \in 1 .. n \/ i = n + 1 \/ i = n + 2
        /\ n + 1 \in DOMAIN wire'[q]
        /\ IsOffer(q, n + 1)' <=> type = "offer"
        /\ IsAnswer(q, n + 1)' <=> type = "answer"
        /\ wire'[q][n + 1].id = offers'
        /\ ~IsOffer(q, n + 2)' /\ ~IsAnswer(q, n + 2)'
        /\ Answered(q)' <=> Answered(q) \/ type = "answer"
        /\ CandidateInv(q)'
    BY <2>1, PostedStages
  <2> QED
    BY <2>1, <2>2
<1>7. /\ State(q)' = State(q) /\ pc'[q].own = pc[q].own /\ pc'[q].remote = pc[q].remote
      /\ page'[q] = page[q] /\ Hears(q)' = Hears(q)
      /\ \A i : /\ IsOffer(p, i)' <=> IsOffer(p, i)
                /\ IsAnswer(p, i)' <=> IsAnswer(p, i)
                /\ LiveAt(q, i)' <=> LiveAt(q, i)
      /\ \A i \in DOMAIN wire[q] : /\ IsOffer(q, i)' <=> IsOffer(q, i)
                                   /\ IsAnswer(q, i)' <=> IsAnswer(q, i)
      /\ Sent(q)' <=> Sent(q)
      /\ Answered(p)' <=> Answered(p)
      /\ Taken(p)' <=> Taken(p)
      /\ Heard(q)' <=> Heard(q)
  BY <1>6, ChangedStages
<1>8. Hears(p)' = Hears(p) /\ (Taken(q)' <=> Taken(q)) /\ (Heard(p)' <=> Heard(p))
      /\ wire'[p] = wire[p]
      /\ \A i \in 1 .. n : wire'[q][i] = wire[q][i]
  BY <1>1, <1>3, <1>6 DEF Hears, Taken, Heard, Changes
<1>9. /\ \A i \in 1 .. n : ~LiveAt(p, i)'
      /\ LiveAt(p, n + 1)' /\ ~LiveAt(p, n + 2)'
  <2>1. \A i \in 1 .. n : wire'[q][i].id # offers'
    BY <1>3, <1>4, <1>6, <1>8 DEF IdInv
  <2> QED
    BY <1>3, <1>6, <2>1 DEF LiveAt
<1>10. Sent(p)'
  BY <1>6, <1>9 DEF Sent
<1>11. CandidateInv(p)'
  BY <1>2, <1>3, <1>8 DEF CandidateInv
<1>12. StateInv(p)' /\ StateInv(q)' /\ WireInv(p)'
  BY <1>3, <1>5, <1>6, ChangeKeeps DEF StateInv
<1>13. StageInv(p)' /\ StageInv(q)'
  BY <1>1, <1>2, <1>3, <1>5, <1>6, <1>7, <1>8, <1>10 DEF StageInv
<1>14. WireInv(q)'
  <2>1. \A i \in DOMAIN wire'[q] : IsAnswer(q, i)' => i \in 1 .. n /\ IsAnswer(q, i)
    BY <1>6, <1>7
  <2>2. \A i \in DOMAIN wire'[q] : LiveAt(p, i)' => i = n + 1
    BY <1>6, <1>9
  <2>3. \A j \in 1 .. n : j < n + 1
    BY <1>6
  <2> QED
    BY <1>1, <1>2, <1>6, <1>7, <1>8, <2>1, <2>2, <2>3 DEF WireInv
<1>15. GlareInv'
  <2>1. CASE p = Polite /\ q = Impolite
    BY <1>1, <1>2, <1>3, <1>5, <1>6, <1>7, <1>8, <1>10, <2>1 DEF GlareInv, Accepted, RollbackComes
  <2>2. CASE p = Impolite /\ q = Polite
    BY <1>1, <1>2, <1>3, <1>5, <1>6, <1>7, <1>8, <1>10, <2>2 DEF GlareInv, Accepted, RollbackComes
  <2> QED
    BY <2>1, <2>2, TwoPages
<1>16. OffersInv'
  <2>1. CASE p = Polite /\ q = Impolite
    <3>1. \A i \in DOMAIN wire'[Polite] : IsOffer(Polite, i)' => LiveAt(Impolite, i)'
      BY <1>2, <1>7, <1>8, <2>1 DEF OffersInv
    <3>2. \A i \in 1 .. n : IsOffer(Impolite, i) => Stale(i)'
      <4> SUFFICES ASSUME NEW i \in 1 .. n, IsOffer(Impolite, i) PROVE Stale(i)'
        OBVIOUS
      <4>1. ~LiveAt(Polite, i)
        BY <1>5, <2>1 DEF LiveAt
      <4>2. Stale(i)
        BY <1>2, <1>6, <2>1, <4>1 DEF OffersInv
      <4>3. State(Impolite) = "offering" /\ \E j \in 1 .. n : i < j /\ IsAnswer(Impolite, j)
        BY <1>5, <1>6, <2>1, <4>2 DEF Stale
      <4>4. \E j \in DOMAIN wire'[Impolite] : i < j /\ IsAnswer(Impolite, j)'
        BY <1>6, <1>7, <2>1, <4>3 DEF Changes
      <4> QED
        BY <1>7, <2>1, <4>3, <4>4 DEF Stale
    <3>3. \A i \in DOMAIN wire'[Impolite] :
             IsOffer(Impolite, i)' => LiveAt(Polite, i)' \/ Stale(i)'
      BY <1>6, <1>7, <1>9, <2>1, <3>2
    <3> QED
      BY <3>1, <3>3 DEF OffersInv
  <2>2. CASE p = Impolite /\ q = Polite
    <3>1. \A i \in 1 .. n : ~IsOffer(Polite, i)
      BY <1>2, <1>5, <1>6, <2>2 DEF OffersInv, LiveAt
    <3>2. \A i \in DOMAIN wire'[Polite] : IsOffer(Polite, i)' => LiveAt(Impolite, i)'
      BY <1>6, <1>7, <1>9, <2>2, <3>1
    <3>3. \A i \in DOMAIN wire'[Impolite] : IsOffer(Impolite, i)' => LiveAt(Polite, i)'
      BY <1>2, <1>5, <1>7, <1>8, <2>2 DEF OffersInv, Stale
    <3> QED
      BY <3>2, <3>3 DEF OffersInv
  <2> QED
    BY <2>1, <2>2, TwoPages
<1> QED
  BY <1>1, <1>6, <1>11, <1>12, <1>13, <1>14, <1>15, <1>16 DEF AllInv

\* The answer goes behind what the peer has not read of this page's own offer.
LEMMA AnswerKeeps ==
    ASSUME NegotiationType, NEW p \in Pages, AllInv, Answer(p) PROVE AllInv'
<1> DEFINE q == Peer(p)
<1> PICK n : n = Len(wire[q])
  OBVIOUS
<1>1. q \in Pages /\ Peer(q) = p /\ q # p /\ \A r \in Pages : r = p \/ r = q
  BY TwoPages
<1>2. /\ WireInv(p) /\ WireInv(q) /\ StageInv(p) /\ StageInv(q) /\ CandidateInv(p)
      /\ CandidateInv(q)
      /\ StateInv(p) /\ StateInv(q) /\ GlareInv /\ OffersInv
  BY <1>1 DEF AllInv
<1>3. /\ PeerStays(p) /\ Send(p, "answer", Hears(p).id)
      /\ Hears(p).type = "offer" /\ State(p) = "answering"
      /\ page'[p].making = page[p].making /\ page'[p].ignore = page[p].ignore
      /\ page'[p].receiving = None
      /\ page'[p].buffered = page[p].buffered /\ page'[p].failed = page[p].failed
      /\ State(p)' = "stable" /\ pc'[p].remote = pc[p].remote /\ pc'[p].own = Hears(p).id
  BY AnswerEffect DEF State
<1>4. Hears(p).id \in Nat
  BY RecordTypes DEF PageType, Hears
<1>5. /\ ~Sent(p) /\ ~Taken(p) /\ ~Answered(p) /\ ~Heard(p)
      /\ Taken(q) /\ State(q) = "offering" /\ Hears(p).id = pc[q].own
      /\ ~Sent(q) /\ ~Answered(q) /\ ~Heard(q)
      /\ pc[p].remote = Hears(p).id /\ ~page[p].making
  BY <1>1, <1>2, <1>3 DEF StateInv, StageInv, Sent, LiveAt, Taken
<1>6. /\ Changes(p) /\ n \in Nat
      /\ DOMAIN wire[q] = 1 .. n
      /\ \A i \in DOMAIN wire'[q] : i \in 1 .. n \/ i = n + 1 \/ i = n + 2
      /\ n + 1 \in DOMAIN wire'[q]
      /\ ~IsOffer(q, n + 1)' /\ IsAnswer(q, n + 1)' /\ wire'[q][n + 1].id = Hears(p).id
      /\ ~IsOffer(q, n + 2)' /\ ~IsAnswer(q, n + 2)'
      /\ Answered(q)'
      /\ CandidateInv(q)'
  <2> PICK type : type = "answer"
    OBVIOUS
  <2>1. /\ type \in {"offer", "answer"} /\ type # "offer"
        /\ Send(p, type, Hears(p).id) /\ PeerStays(p) /\ CandidateInv(q) /\ Hears(p).id \in Nat
    BY <1>1, <1>2, <1>3, <1>4
  <2>2. /\ Changes(p) /\ n \in Nat
        /\ DOMAIN wire[q] = 1 .. n
        /\ \A i \in DOMAIN wire'[q] : i \in 1 .. n \/ i = n + 1 \/ i = n + 2
        /\ n + 1 \in DOMAIN wire'[q]
        /\ IsOffer(q, n + 1)' <=> type = "offer"
        /\ IsAnswer(q, n + 1)' <=> type = "answer"
        /\ wire'[q][n + 1].id = Hears(p).id
        /\ ~IsOffer(q, n + 2)' /\ ~IsAnswer(q, n + 2)'
        /\ Answered(q)' <=> Answered(q) \/ type = "answer"
        /\ CandidateInv(q)'
    BY <2>1, PostedStages
  <2> QED
    BY <2>1, <2>2
<1>7. /\ State(q)' = State(q) /\ pc'[q].own = pc[q].own /\ pc'[q].remote = pc[q].remote
      /\ page'[q] = page[q] /\ Hears(q)' = Hears(q)
      /\ \A i : /\ IsOffer(p, i)' <=> IsOffer(p, i)
                /\ IsAnswer(p, i)' <=> IsAnswer(p, i)
                /\ LiveAt(q, i)' <=> LiveAt(q, i)
      /\ \A i \in DOMAIN wire[q] : /\ IsOffer(q, i)' <=> IsOffer(q, i)
                                   /\ IsAnswer(q, i)' <=> IsAnswer(q, i)
      /\ Sent(q)' <=> Sent(q)
      /\ Answered(p)' <=> Answered(p)
      /\ Taken(p)' <=> Taken(p)
      /\ Heard(q)' <=> Heard(q)
  BY <1>6, ChangedStages
<1>8. Hears(p)' = None /\ ~Taken(q)' /\ ~Heard(p)' /\ wire'[p] = wire[p]
  BY <1>1, <1>3, <1>6, NoneType DEF Hears, Taken, Heard, Changes
<1>9. ~Sent(p)' /\ \A i : ~LiveAt(p, i)'
  BY <1>3 DEF Sent, LiveAt
<1>10. CandidateInv(p)'
  <2>1. Hears(p) # None
    BY <1>3, NoneType
  <2> QED
    BY <1>2, <1>3, <1>5, <1>8, <2>1 DEF CandidateInv
<1>11. StateInv(p)' /\ StateInv(q)' /\ WireInv(p)'
  BY <1>3, <1>5, <1>6, ChangeKeeps DEF StateInv
<1>12. StageInv(p)' /\ StageInv(q)'
  BY <1>1, <1>2, <1>3, <1>5, <1>6, <1>7, <1>8, <1>9 DEF StageInv
<1>13. WireInv(q)'
  <2>1. \A i \in DOMAIN wire'[q] : IsAnswer(q, i)' => i = n + 1
    BY <1>5, <1>6, <1>7 DEF Answered
  <2> QED
    BY <1>1, <1>5, <1>6, <1>7, <1>9, <2>1 DEF WireInv
<1>14. GlareInv'
  <2>1. CASE p = Polite /\ q = Impolite
    BY <1>1, <1>2, <1>3, <1>5, <1>6, <1>7, <1>8, <1>9, <2>1 DEF GlareInv, Accepted, RollbackComes
  <2>2. CASE p = Impolite /\ q = Polite
    BY <1>1, <1>2, <1>3, <1>5, <1>6, <1>7, <1>8, <1>9, <2>2 DEF GlareInv, Accepted, RollbackComes
  <2> QED
    BY <2>1, <2>2, TwoPages
<1>15. OffersInv'
  <2>1. CASE p = Polite /\ q = Impolite
    <3>1. \A i \in DOMAIN wire'[Polite] : IsOffer(Polite, i)' => LiveAt(Impolite, i)'
      BY <1>2, <1>7, <1>8, <2>1 DEF OffersInv
    <3>2. \A i \in 1 .. n : Stale(i)'
      <4>1. \A i \in 1 .. n : i < n + 1
        BY <1>6
      <4> QED
        BY <1>5, <1>6, <1>7, <2>1, <4>1 DEF Stale
    <3> QED
      BY <1>6, <2>1, <3>1, <3>2 DEF OffersInv
  <2>2. CASE p = Impolite /\ q = Polite
    <3>1. \A i \in 1 .. n : ~IsOffer(Polite, i)
      BY <1>2, <1>3, <1>6, <2>2 DEF OffersInv, LiveAt
    <3>2. \A i \in DOMAIN wire'[Polite] : ~IsOffer(Polite, i)'
      BY <1>6, <1>7, <2>2, <3>1
    <3>3. \A i \in DOMAIN wire'[Impolite] : IsOffer(Impolite, i)' => LiveAt(Polite, i)'
      BY <1>2, <1>3, <1>7, <1>8, <2>2 DEF OffersInv, Stale
    <3> QED
      BY <3>2, <3>3 DEF OffersInv
  <2> QED
    BY <2>1, <2>2, TwoPages
<1> QED
  BY <1>1, <1>6, <1>10, <1>11, <1>12, <1>13, <1>14, <1>15 DEF AllInv

\* Only the polite page takes back an offer of its own.
LEMMA SetOfferKeeps ==
    ASSUME NegotiationType, NEW p \in Pages, AllInv, SetOffer(p) PROVE AllInv'
<1> DEFINE q == Peer(p)
<1>1. q \in Pages /\ Peer(q) = p /\ q # p /\ \A r \in Pages : r = p \/ r = q
  BY TwoPages
<1>2. /\ WireInv(p) /\ WireInv(q) /\ StageInv(p) /\ StageInv(q) /\ CandidateInv(p)
      /\ CandidateInv(q)
      /\ StateInv(p) /\ StateInv(q) /\ GlareInv /\ OffersInv
  BY <1>1 DEF AllInv
<1>3. /\ wire' = wire /\ PeerStays(p)
      /\ Hears(p).type = "offer" /\ ~page[p].making /\ State(p) # "answering"
      /\ page'[p].making = page[p].making /\ page'[p].ignore = page[p].ignore
      /\ page'[p].receiving = page[p].receiving
      /\ page'[p].buffered = {} /\ page'[p].failed = page[p].failed
      /\ State(p)' = "answering" /\ pc'[p].remote = Hears(p).id /\ pc'[p].own = pc[p].own
  BY <1>2, SetOfferEffect DEF State, CandidateInv
<1>4. Changes(p)
  BY <1>1, <1>3 DEF Changes
<1>5. /\ State(q)' = State(q) /\ pc'[q].own = pc[q].own /\ pc'[q].remote = pc[q].remote
      /\ page'[q] = page[q] /\ Hears(q)' = Hears(q)
      /\ \A i : /\ IsOffer(p, i)' <=> IsOffer(p, i)
                /\ IsAnswer(p, i)' <=> IsAnswer(p, i)
                /\ LiveAt(q, i)' <=> LiveAt(q, i)
      /\ Sent(q)' <=> Sent(q)
      /\ Answered(p)' <=> Answered(p)
      /\ Taken(p)' <=> Taken(p)
      /\ Heard(q)' <=> Heard(q)
  BY <1>4, ChangedStages
<1>6. /\ \A i : IsAnswer(q, i)' <=> IsAnswer(q, i)
      /\ \A i : IsOffer(q, i)' <=> IsOffer(q, i)
  BY <1>3 DEF IsOffer, IsAnswer
<1>7. Answered(q)' <=> Answered(q)
  BY <1>3, <1>6 DEF Answered
<1>8. Hears(p)' = Hears(p) /\ (Taken(q)' <=> Taken(q)) /\ (Heard(p)' <=> Heard(p))
  BY <1>1, <1>3 DEF Hears, Taken, Heard
<1>9. ~Sent(p)' /\ \A i : ~LiveAt(p, i)'
  BY <1>3 DEF Sent, LiveAt
<1>10. Taken(q) /\ State(q) = "offering" /\ ~Answered(q) /\ ~Heard(q)
  BY <1>1, <1>2, <1>3 DEF StageInv, Taken
<1>11. p = Impolite => State(p) = "stable"
  <2>1. State(p) \in {"stable", "offering", "answering"}
    BY RecordTypes DEF ConnectionType, State
  <2> QED
    BY <1>2, <1>3, <1>10, <2>1, TwoPages DEF GlareInv
<1>12. ~Taken(p) /\ ~Answered(p) /\ ~Heard(p)
  <2>1. ~Heard(p)
    BY <1>3 DEF Heard
  <2>2. CASE p = Impolite
    BY <1>2, <1>11, <2>2 DEF StageInv
  <2>3. CASE p = Polite
    BY <1>2, <1>10, <2>1, <2>3, TwoPages DEF GlareInv
  <2> QED
    BY <2>1, <2>2, <2>3, TwoPages
<1>13. CandidateInv(p)' /\ CandidateInv(q)'
  <2>1. Hears(p) # None
    BY <1>3, NoneType
  <2> QED
    BY <1>2, <1>3, <1>4, <1>8, <2>1, ChangeKeeps DEF CandidateInv
<1>14. StateInv(p)' /\ StateInv(q)' /\ WireInv(p)'
  BY <1>3, <1>4, <1>8, ChangeKeeps DEF StateInv
<1>15. StageInv(p)' /\ StageInv(q)'
  BY <1>1, <1>2, <1>3, <1>5, <1>7, <1>8, <1>9, <1>10, <1>12 DEF StageInv
<1>16. WireInv(q)'
  BY <1>1, <1>2, <1>3, <1>5, <1>6, <1>9 DEF WireInv
<1>17. GlareInv'
  <2>1. CASE p = Polite /\ q = Impolite
    BY <1>1, <1>2, <1>3, <1>5, <1>7, <1>8, <1>9, <1>10, <1>12, <2>1
       DEF GlareInv, Accepted, RollbackComes
  <2>2. CASE p = Impolite /\ q = Polite
    BY <1>1, <1>2, <1>3, <1>5, <1>7, <1>8, <1>9, <1>10, <1>12, <2>2
       DEF GlareInv, Accepted, RollbackComes
  <2> QED
    BY <2>1, <2>2, TwoPages
<1>18. OffersInv'
  <2>1. CASE p = Polite /\ q = Impolite
    <3>1. \A i : Stale(i)'
      BY <1>3, <1>5, <1>10, <2>1 DEF Stale
    <3> QED
      BY <1>2, <1>3, <1>5, <2>1, <3>1 DEF OffersInv
  <2>2. CASE p = Impolite /\ q = Polite
    <3>1. \A i \in DOMAIN wire[Polite] : ~IsOffer(Polite, i)
      BY <1>2, <1>11, <2>2 DEF OffersInv, LiveAt
    <3>2. \A i \in DOMAIN wire[Impolite] : IsOffer(Impolite, i) => LiveAt(Polite, i)
      BY <1>2, <1>11, <2>2 DEF OffersInv, Stale
    <3> QED
      BY <1>3, <1>5, <1>6, <2>2, <3>1, <3>2 DEF OffersInv
  <2> QED
    BY <2>1, <2>2, TwoPages
<1> QED
  BY <1>1, <1>13, <1>14, <1>15, <1>16, <1>17, <1>18 DEF AllInv

\* Both pages then hold the description of the answered offer.
LEMMA SetAnswerKeeps ==
    ASSUME NegotiationType, NEW p \in Pages, AllInv, SetAnswer(p) PROVE AllInv'
<1> DEFINE q == Peer(p)
<1>1. q \in Pages /\ Peer(q) = p /\ q # p /\ \A r \in Pages : r = p \/ r = q
  BY TwoPages
<1>2. /\ WireInv(p) /\ WireInv(q) /\ StageInv(p) /\ StageInv(q) /\ CandidateInv(p)
      /\ CandidateInv(q)
      /\ StateInv(p) /\ StateInv(q) /\ GlareInv /\ OffersInv
  BY <1>1 DEF AllInv
<1>3. Heard(p) /\ State(p) = "offering"
  BY <1>2 DEF SetAnswer, Heard, Hears, StageInv
<1>4. /\ wire' = wire /\ PeerStays(p)
      /\ Hears(p).type = "answer" /\ ~page[p].making
      /\ page'[p].making = page[p].making /\ page'[p].ignore = page[p].ignore
      /\ page'[p].receiving = None
      /\ page'[p].buffered = {} /\ page'[p].failed = page[p].failed
      /\ State(p)' = "stable" /\ pc'[p].remote = Hears(p).id /\ pc'[p].own = pc[p].own
  BY <1>2, <1>3, AgreedEffect DEF State, CandidateInv
<1>5. Changes(p)
  BY <1>1, <1>4 DEF Changes
<1>6. /\ State(q)' = State(q) /\ pc'[q].own = pc[q].own /\ pc'[q].remote = pc[q].remote
      /\ page'[q] = page[q] /\ Hears(q)' = Hears(q)
      /\ \A i : /\ IsOffer(p, i)' <=> IsOffer(p, i)
                /\ IsAnswer(p, i)' <=> IsAnswer(p, i)
                /\ LiveAt(q, i)' <=> LiveAt(q, i)
      /\ Sent(q)' <=> Sent(q)
      /\ Answered(p)' <=> Answered(p)
      /\ Taken(p)' <=> Taken(p)
      /\ Heard(q)' <=> Heard(q)
  BY <1>5, ChangedStages
<1>7. /\ \A i : IsAnswer(q, i)' <=> IsAnswer(q, i)
      /\ \A i : IsOffer(q, i)' <=> IsOffer(q, i)
  BY <1>4 DEF IsOffer, IsAnswer
<1>8. Answered(q)' <=> Answered(q)
  BY <1>4, <1>7 DEF Answered
<1>9. Hears(p)' = None /\ ~Taken(q)' /\ ~Taken(q) /\ ~Heard(p)'
  BY <1>1, <1>4, NoneType DEF Hears, Taken, Heard
<1>10. ~Sent(p)' /\ \A i : ~LiveAt(p, i)'
  BY <1>4 DEF Sent, LiveAt
<1>11. /\ ~Sent(p) /\ ~Taken(p) /\ ~Answered(p)
       /\ Hears(p).id = pc[p].own /\ pc[q].remote = pc[p].own
  BY <1>1, <1>2, <1>3 DEF StageInv
<1>12. ~Answered(q) /\ ~Heard(q)
  BY <1>1, <1>2, <1>3, TwoPages DEF GlareInv
<1>13. CandidateInv(p)' /\ CandidateInv(q)'
  <2>1. Hears(p) # None
    BY <1>4, NoneType
  <2> QED
    BY <1>2, <1>4, <1>5, <1>9, <2>1, ChangeKeeps DEF CandidateInv
<1>14. StateInv(p)' /\ StateInv(q)' /\ WireInv(p)'
  BY <1>4, <1>5, <1>11, ChangeKeeps DEF StateInv
<1>15. StageInv(p)' /\ StageInv(q)'
  BY <1>1, <1>2, <1>4, <1>6, <1>8, <1>9, <1>10, <1>11, <1>12 DEF StageInv
<1>16. WireInv(q)'
  BY <1>1, <1>2, <1>4, <1>6, <1>7, <1>10 DEF WireInv
<1>17. GlareInv'
  <2>1. CASE p = Polite /\ q = Impolite
    BY <1>1, <1>2, <1>4, <1>6, <1>8, <1>9, <1>10, <1>11, <1>12, <2>1
       DEF GlareInv, Accepted, RollbackComes
  <2>2. CASE p = Impolite /\ q = Polite
    BY <1>1, <1>2, <1>4, <1>6, <1>8, <1>9, <1>10, <1>11, <1>12, <2>2
       DEF GlareInv, Accepted, RollbackComes
  <2> QED
    BY <2>1, <2>2, TwoPages
<1>18. OffersInv'
  <2>1. CASE p = Polite /\ q = Impolite
    <3>1. \A i \in DOMAIN wire[Polite] : IsOffer(Polite, i) => LiveAt(Impolite, i)
      BY <1>2 DEF OffersInv
    <3>2. \A i \in DOMAIN wire[Impolite] : IsOffer(Impolite, i) => Stale(i)
      BY <1>1, <1>2, <1>11, <2>1 DEF OffersInv, Sent
    <3>3. \A i \in DOMAIN wire[Impolite] :
             IsOffer(Impolite, i) /\ ~Answered(Impolite) => State(Polite) = "answering"
      BY <3>2 DEF Stale, Answered
    <3>4. \A i \in DOMAIN wire[Impolite] : ~IsOffer(Impolite, i)
      BY <1>3, <1>12, <2>1, <3>3
    <3> QED
      BY <1>4, <1>6, <1>7, <2>1, <3>1, <3>4 DEF OffersInv
  <2>2. CASE p = Impolite /\ q = Polite
    <3>1. \A i \in DOMAIN wire[Polite] : ~IsOffer(Polite, i)
      BY <1>1, <1>2, <1>11, <2>2 DEF OffersInv, Sent
    <3>2. State(Polite) # "answering"
      BY <1>1, <1>2, <1>11, <2>2 DEF StateInv, Taken
    <3>3. \A i \in DOMAIN wire[Impolite] : IsOffer(Impolite, i) => LiveAt(Polite, i)
      BY <1>2, <1>11, <2>2, <3>2 DEF OffersInv, Stale, Answered
    <3> QED
      BY <1>4, <1>6, <1>7, <2>2, <3>1, <3>3 DEF OffersInv
  <2> QED
    BY <2>1, <2>2, TwoPages
<1> QED
  BY <1>1, <1>13, <1>14, <1>15, <1>16, <1>17, <1>18 DEF AllInv

------------------------------------------------------------------------------
(* The theorem *)

LEMMA NegotiationStarts == NegotiationInit => NegotiationInv
<1> SUFFICES ASSUME NegotiationInit PROVE NegotiationInv
  OBVIOUS
<1>1. NegotiationType
  <2>1. [at |-> "away", saw |-> FALSE, told |-> FALSE, beside |-> FALSE, media |-> FALSE,
         channel |-> FALSE, making |-> FALSE, ignore |-> FALSE, receiving |-> None,
         buffered |-> {}, failed |-> FALSE, deaf |-> FALSE, missed |-> FALSE] \in PageType
    BY NoneType DEF PageType, Joining
  <2>2. [made |-> FALSE, state |-> "stable", want |-> 0, got |-> 0, offered |-> 0,
         flagged |-> FALSE, own |-> 0, remote |-> 0] \in ConnectionType
    BY DEF ConnectionType
  <2>3. <<>> \in Seq(Signals)
    OBVIOUS
  <2> QED
    BY <2>1, <2>2, <2>3 DEF NegotiationInit, NegotiationType
<1>2. \A p \in Pages :
        /\ ~page[p].making /\ Hears(p) = None /\ page[p].buffered = {} /\ ~page[p].failed
        /\ State(p) = "stable" /\ pc[p].own = 0 /\ pc[p].remote = 0 /\ ~pc[p].flagged
        /\ pc[p].want = 0 /\ pc[p].got = 0 /\ pc[p].offered = 0
        /\ wire[p] = <<>>
  BY DEF NegotiationInit, Hears, State
<1>3. offers = 0 /\ \A p \in Pages : DOMAIN wire[p] = {}
  BY <1>2 DEF NegotiationInit
<1>4. \A p \in Pages : IdInv(p) /\ WantInv(p)
  BY <1>2, <1>3 DEF IdInv, WantInv
<1>5. \A p \in Pages : ~Sent(p) /\ ~Taken(p) /\ ~Answered(p) /\ ~Heard(p)
  BY <1>2, <1>3, TwoPages, NoneType DEF Sent, Taken, Answered, Heard
<1>6. \A p \in Pages : CandidateInv(p) /\ StateInv(p)
  BY <1>2, <1>3 DEF CandidateInv, StateInv
<1>7. \A p \in Pages : StageInv(p) /\ WireInv(p)
  BY <1>2, <1>3, <1>5 DEF StageInv, WireInv
<1>8. GlareInv
  BY <1>2, <1>5, TwoPages DEF GlareInv
<1>9. OffersInv
  BY <1>3, TwoPages DEF OffersInv
<1> QED
  BY <1>1, <1>4, <1>6, <1>7, <1>8, <1>9 DEF NegotiationInv, AllInv

\* What has been dropped stays dropped.
LEMMA DeafStays ==
    ASSUME NegotiationType, NEW p \in Pages, PresenceStep(p) \/ SignalStep(p), NoneDeaf'
    PROVE  NoneDeaf /\ ~DropEarly(p)
<1> DEFINE q == Peer(p)
<1>1. /\ q \in Pages /\ p \in Pages /\ \A r \in Pages : r = p \/ r = q
  BY TwoPages
<1>2. \A r \in Pages : ~page'[r].deaf
  BY DEF NoneDeaf
<1>3. ~DropEarly(p)
  BY <1>2, DropEffect
<1>4. page'[p].deaf = page[p].deaf /\ page'[q].deaf = page[q].deaf
  <2>1. CASE PresenceStep(p)
    BY <1>1, <2>1, PresenceEffect DEF Kept
  <2>2. CASE NegotiationNeeded(p)
    BY <2>2, NeededEffect DEF PeerStays
  <2>3. CASE Offer(p)
    BY <2>3, OfferEffect DEF PeerStays
  <2>4. CASE Ignore(p) \/ Take(p) \/ TakeCandidate(p)
    BY <2>4, IgnoreEffect, TakeEffect, CandidateEffect DEF Receives, PeerStays
  <2>5. CASE SetOffer(p)
    BY <2>5, SetOfferEffect DEF PeerStays
  <2>6. CASE Answer(p)
    BY <2>6, AnswerEffect DEF PeerStays
  <2>7. CASE SetAnswer(p)
    BY <2>7, AgreedEffect, LateEffect DEF PeerStays
  <2> QED
    BY <1>3, <2>1, <2>2, <2>3, <2>4, <2>5, <2>6, <2>7 DEF SignalStep
<1> QED
  BY <1>1, <1>2, <1>3, <1>4 DEF NoneDeaf

LEMMA NegotiationStep ==
    NegotiationInv /\ [NegotiationNext]_negotiationVars => NegotiationInv'
<1> SUFFICES ASSUME NegotiationInv, [NegotiationNext]_negotiationVars PROVE NegotiationInv'
  OBVIOUS
<1>1. CASE UNCHANGED negotiationVars
  <2>1. page' = page /\ pc' = pc /\ wire' = wire /\ offers' = offers
    BY <1>1 DEF negotiationVars
  <2>2. NegotiationType' /\ (NoneDeaf' <=> NoneDeaf)
    BY <2>1 DEF NegotiationInv, NegotiationType, NoneDeaf
  <2>3. \A r \in Pages : IdInv(r)' /\ WantInv(r)'
    BY <2>1 DEF NegotiationInv, IdInv, WantInv, Hears, State
  <2>4. Quiet
    BY <2>1 DEF Quiet
  <2> QED
    BY <2>2, <2>3, <2>4, QuietKeeps DEF NegotiationInv
<1>2. ASSUME NEW p \in Pages, PresenceStep(p) \/ SignalStep(p) PROVE NegotiationInv'
  <2>1. NegotiationType /\ BookInv
    BY DEF NegotiationInv, BookInv
  <2>2. NegotiationType' /\ BookInv'
    BY <1>2, <2>1, PresenceTypes, SignalTypes, PresenceBooks, SignalBooks
  <2>3. ASSUME NoneDeaf' PROVE AllInv'
    <3>1. AllInv /\ ~DropEarly(p)
      BY <1>2, <2>1, <2>3, DeafStays DEF NegotiationInv
    <3>2. IdInv(p) /\ IdInv(Peer(p))
      BY <2>1, TwoPages DEF BookInv
    <3>3. CASE PresenceStep(p) \/ NegotiationNeeded(p)
      BY <2>1, <3>1, <3>3, QuietSteps, QuietKeeps
    <3>4. CASE Offer(p)
      BY <2>1, <3>1, <3>2, <3>4, OfferKeeps
    <3>5. CASE Ignore(p)
      BY <2>1, <3>1, <3>5, IgnoreKeeps
    <3>6. CASE Take(p)
      <4>1. Signal(p).type \in {"offer", "answer"}
        BY <2>1, <3>6, TakeEffect
      <4> QED
        BY <2>1, <3>1, <3>6, <4>1, TakeOfferKeeps, TakeAnswerKeeps
    <3>7. CASE TakeCandidate(p)
      BY <2>1, <3>1, <3>2, <3>7, TakeCandidateKeeps
    <3>8. CASE SetOffer(p)
      BY <2>1, <3>1, <3>8, SetOfferKeeps
    <3>9. CASE Answer(p)
      BY <2>1, <3>1, <3>9, AnswerKeeps
    <3>10. CASE SetAnswer(p)
      BY <2>1, <3>1, <3>10, SetAnswerKeeps
    <3> QED
      BY <1>2, <3>1, <3>3, <3>4, <3>5, <3>6, <3>7, <3>8, <3>9, <3>10 DEF SignalStep
  <2> QED
    BY <2>2, <2>3 DEF NegotiationInv, BookInv
<1> QED
  BY <1>1, <1>2 DEF NegotiationNext

\* At rest nothing is on its way, so neither page waits and both took the last offer.
LEMMA RestAgrees == NegotiationInv => PagesAgree
<1> SUFFICES ASSUME NegotiationInv PROVE PagesAgree
  OBVIOUS
<1>1. NegotiationType /\ \A p \in Pages : WantInv(p)
  BY DEF NegotiationInv
<1>2. ASSUME NEW p \in Pages, page[p].failed PROVE \E q \in Pages : page[q].deaf
  BY <1>2 DEF NegotiationInv, NoneDeaf, AllInv, CandidateInv
<1>3. ASSUME AtRest, \A p \in Pages : ~page[p].deaf /\ ~page[p].missed
      PROVE  /\ pc[Polite].state = "stable" /\ pc[Impolite].state = "stable"
             /\ \A p \in Pages : pc[p].got = pc[p].want
             /\ pc[Polite].own = pc[Impolite].own /\ pc[Polite].remote = pc[Impolite].remote
  <2>1. AllInv
    BY <1>3 DEF NegotiationInv, NoneDeaf
  <2>2. \A p \in Pages : wire[p] = <<>> /\ ~page[p].making /\ Hears(p) = None /\ ~Needed(p)
    BY <1>3 DEF AtRest, Working, Hears
  <2>3. \A p \in Pages : ~Sent(p) /\ ~Taken(p) /\ ~Answered(p) /\ ~Heard(p)
    BY <2>2, TwoPages, NoneType DEF Sent, Taken, Answered, Heard
  <2>4. \A p \in Pages : State(p) \in {"stable", "offering", "answering"}
    BY <1>1, RecordTypes DEF ConnectionType, State
  <2>5. \A p \in Pages : State(p) = "stable"
    <3>1. \A p \in Pages : State(p) # "answering"
      BY <2>1, <2>2, NoneType DEF AllInv, StateInv
    <3>2. State(Polite) # "offering" /\ State(Impolite) # "offering"
      BY <2>1, <2>2, <2>3, TwoPages DEF AllInv, GlareInv, RollbackComes
    <3> QED
      BY <2>4, <3>1, <3>2, TwoPages
  <2>6. \A p \in Pages : pc[p].own = pc[p].remote
    BY <2>1, <2>5 DEF AllInv, StateInv
  <2>7. pc[Polite].remote = pc[Impolite].remote
    BY <2>1, <2>3, <2>5, TwoPages DEF AllInv, GlareInv, Accepted
  <2>8. ASSUME NEW p \in Pages PROVE pc[p].got = pc[p].want
    <3>1. pc[p].want \in Nat /\ pc[p].got \in Nat
      BY <1>1, RecordTypes DEF ConnectionType
    <3>2. ~pc[p].flagged
      BY <1>1, <1>3, <2>2, <2>5 DEF WantInv
    <3>3. ~pc[p].made \/ ~(pc[p].want > pc[p].got)
      BY <2>2, <2>5, <3>2 DEF Needed, Working, Hears, State
    <3> QED
      BY <1>1, <3>1, <3>3 DEF WantInv
  <2> QED
    BY <2>5, <2>6, <2>7, <2>8, TwoPages DEF State
<1> QED
  BY <1>2, <1>3 DEF PagesAgree

\* Whatever the two pages of a call want of their connection and whenever they offer it,
\* they end on one description with all of it, and no call to RTCPeerConnection fails.
THEOREM PagesAlwaysAgree == NegotiationSpec => []PagesAgree
<1>1. NegotiationInit => NegotiationInv
  BY NegotiationStarts
<1>2. NegotiationInv /\ [NegotiationNext]_negotiationVars => NegotiationInv'
  BY NegotiationStep
<1>3. NegotiationInv => PagesAgree
  BY RestAgrees
<1> QED
  BY <1>1, <1>2, <1>3, PTL DEF NegotiationSpec
=============================================================================

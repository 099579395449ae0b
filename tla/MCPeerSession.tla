--------------------------- MODULE MCPeerSession ---------------------------
(* PeerSession with a host who may open the page twice, and one guest page. *)
EXTENDS PeerSession, TLC

CONSTANTS h1, h2, g1, i1, i2

MCOwnerOf == h1 :> Host @@ h2 :> Host @@ g1 :> Guest
MCServedBy == h1 :> i1 @@ h2 :> i2 @@ g1 :> i2
MCAnsweredBy == Host :> i1 @@ Guest :> i2

\* The host's first page and the guest's.
MCTwoOwners == h1 :> Host @@ g1 :> Guest
MCTwoServed == h1 :> i1 @@ g1 :> i2

\* Bound: once the host's second page opens, only what a session that is still open and
\* pages that stay do is followed.
HostReloads ==
    h2 \in Sockets /\ socket[h2].at # "closed" =>
        /\ IsOpen(row) /\ Showing(socket[h2])
        /\ \A p \in People : request[p].at = "none"
        /\ ghost.crashes = 0
        /\ socket[g1].page = "closed" \/ Showing(socket[g1])

\* Bound: one socket at a time is telling the room that it has left, and nobody leaves
\* once an instance has died.
OneFarewell ==
    /\ \A s, t \in Sockets : farewell[s].at # "none" /\ farewell[t].at # "none" => s = t
    /\ ghost.crashes > 0 => \A s \in Sockets : farewell[s].at = "none"
=============================================================================

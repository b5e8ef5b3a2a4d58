----------------------------- MODULE MCTCPServer -----------------------------
(* TCPServer for TLC.  Connections and handles are model values; each .cfg   *)
(* says which clients send and which leave.  Handles are interchangeable;    *)
(* so are connections where all of them may do the same.                     *)
EXTENDS TCPServer, TLC

HandleSymmetry == Permutations(Sock)
Symmetry == Permutations(Conn) \union Permutations(Sock)
PeerSymmetry == Permutations(Conn \ Senders) \union Permutations(Sock)

Connected == {c \in Conn : peer[c] = "open"}
Came == {c \in Conn : peer[c] # "new"}

\* A bound on races: one client comes while another is on its way to be polled
\* only in the runs that are about that; here it comes while the server is idle
\* or while the first packet is under way.
ArriveStep == Came # {} /\ Came' # Came => Idle \/ sent = 1

\* A bound for liveness: each packet is sent to an idle server, and the second
\* client comes before the first packet, or just as a client is about to be cut
\* off, so that it can get that handle.  Clients leave at any moment.
LeaveStep ==
    /\ sent' # sent => Idle
    /\ Came # {} /\ Came' # Came => (Idle /\ sent = 0) \/ (sent = MaxSend /\ IsPacket /\ ~InOrder)

\* Three clients are connected at a time only when the server was idle before
\* the third came, and at most three come once one has sent or fallen silent: a
\* bound that keeps these instances in one: a server that is full and refuses
\* the fourth, one whose two silent clients time out together, one whose silent
\* client times out while others connect, and one whose newcomer gets the
\* handle of a client that timed out.
NoneSpoke == sent = 0 /\ \A n \in Node : client[n].timer # "expired"
FewStep ==
    /\ (Cardinality(Came) > 3 => NoneSpoke)'
    /\ Cardinality(Connected) = 2 /\ Cardinality(Connected') = 3 => Idle
=============================================================================

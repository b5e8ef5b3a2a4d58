------------------------------- MODULE Winsock -------------------------------
(* The part of the world MintServer talks to: the Windows sockets layer      *)
(* (listen backlog, handle table, recv/send, select) and the clients at the  *)
(* other end.  The sockets layer is external code, modelled from how         *)
(* TCPServer.cpp uses it; the clients' numbering of packets is that of       *)
(* MintClient/src/main.cpp.                                                  *)
(*                                                                           *)
(* A connection (Conn) is the TCP connection itself; a handle (Sock) is the  *)
(* number the operating system gives accept() for it.  Windows reuses the    *)
(* number of a closed handle, so a handle names different connections over   *)
(* time: `owner' says which one it names now.                                *)
EXTENDS Naturals, Sequences, FiniteSets, SequencesExt

CONSTANTS
    Conn,            \* connections the clients may open
    Sock,            \* handle numbers accept() may return
    NoConn,          \* "no connection": the owner of a handle that is closed
    ListenHandle,    \* the handle of the listening socket
    INVALID_SOCKET,
    WordSize,        \* PacketOrderNumber is a WORD: 2^16 values
    MaxSend,         \* bound: packets the clients send altogether
    Kinds,           \* the kinds of packet the clients of this instance send
    Senders,         \* the connections whose clients send packets
    Leavers,         \* the connections whose clients close at some time
    ClientMay        \* what else clients do here: "skip" an order number, keep
                     \* "silence" for 60 s

PacketType == {"ALIVE", "MESSAGE", "MESSAGE_2", "EXIT"}

ASSUME ConnAssumption ==
    /\ NoConn \notin Conn
    /\ ListenHandle \notin Sock
    /\ INVALID_SOCKET \notin Sock \union {ListenHandle}
ASSUME WordSizeAssumption == WordSize \in Nat /\ WordSize > 1
ASSUME MaxSendAssumption == MaxSend \in Nat
ASSUME ClientAssumption ==
    /\ Kinds \subseteq PacketType
    /\ Senders \subseteq Conn /\ Leavers \subseteq Conn
    /\ ClientMay \subseteq {"skip", "silence"}

VARIABLES
    backlog,        \* connections established and not yet accepted
    peer,           \* the client's end of each connection
    inbox,          \* packets of each connection the server has not received
    sent,           \* packets the clients have sent, counted for MaxSend
    C2S_Number,     \* Client.C2S_PacketOrderNumber of each client
    seen,           \* packets each client has received
    owner,          \* the handle table
    ListenSocket,   \* TCPServer::ListenSocket
    fds_read,       \* the read set of the main thread's select
    selecting,      \* a select is pending
    completed       \* the handles that complete the pending select

clientVars == <<backlog, peer, inbox, sent, C2S_Number, seen>>
selectVars == <<fds_read, selecting, completed>>
netVars == <<clientVars, owner, ListenSocket, selectVars>>

Handle == Sock \union {ListenHandle, INVALID_SOCKET}
Word == 0 .. WordSize - 1
Inc(w) == (w + 1) % WordSize

C2S_Packet == [type : PacketType, num : Word, from : Conn]
S2C_Packet == [type : PacketType, num : Word, from : Conn]

NetTypeOK ==
    /\ backlog \in Seq(Conn)
    /\ peer \in [Conn -> {"new", "open", "closed"}]
    /\ inbox \in [Conn -> Seq(C2S_Packet)]
    /\ sent \in 0 .. MaxSend
    /\ C2S_Number \in [Conn -> Word]
    /\ seen \in [Conn -> Seq(S2C_Packet)]
    /\ owner \in [Sock -> Conn \union {NoConn}]
    /\ ListenSocket \in {ListenHandle, INVALID_SOCKET}
    /\ fds_read \subseteq Handle
    /\ selecting \in BOOLEAN
    /\ completed \subseteq Handle

NetInit ==
    /\ backlog = <<>>
    /\ peer = [c \in Conn |-> "new"]
    /\ inbox = [c \in Conn |-> <<>>]
    /\ sent = 0
    /\ C2S_Number = [c \in Conn |-> 0]
    /\ seen = [c \in Conn |-> <<>>]
    /\ owner = [s \in Sock |-> NoConn]
    /\ ListenSocket = ListenHandle
    /\ fds_read = {}
    /\ selecting = FALSE
    /\ completed = {}

-----------------------------------------------------------------------------
(* Handles and readiness.                                                    *)

HandlesOf(c) == {s \in Sock : owner[s] = c}

Valid(h) ==
    \/ h = ListenHandle /\ ListenSocket = ListenHandle
    \/ h \in Sock /\ owner[h] # NoConn

\* accept() or recv() would not block on h.
Readable(h) ==
    IF h = ListenHandle
      THEN backlog # <<>>
      ELSE inbox[owner[h]] # <<>> \/ peer[owner[h]] = "closed"

\* Something arrives on the handles H: the first arrival completes a pending
\* select, and select reports the handles that completed it.
Arrive(H) ==
    completed' = IF selecting /\ completed = {} THEN H \intersect fds_read
                                               ELSE completed

\* The connections C are gone: so are the client processes, their counters
\* and whatever was still under way.
Disconnect(C) ==
    /\ peer' = [c \in Conn |-> IF c \in C THEN "closed" ELSE peer[c]]
    /\ inbox' = [c \in Conn |-> IF c \in C THEN <<>> ELSE inbox[c]]
    /\ C2S_Number' = [c \in Conn |-> IF c \in C THEN 0 ELSE C2S_Number[c]]
    /\ seen' = [c \in Conn |-> IF c \in C THEN <<>> ELSE seen[c]]

\* closesocket on the handles H: those that are open give up their connection
\* and become free numbers; closing a handle that is not open changes nothing.
\* A select pending on one of them returns, with that handle in the set or
\* with an error that leaves the set as it was passed.
CloseHandles(H) ==
    LET closing == {s \in H \intersect Sock : owner[s] # NoConn}
        hit == closing \intersect fds_read
    IN  /\ owner' = [s \in Sock |-> IF s \in H THEN NoConn ELSE owner[s]]
        /\ Disconnect({owner[s] : s \in closing})
        /\ IF selecting /\ completed = {} /\ hit # {}
             THEN completed' \in {hit, fds_read}
             ELSE UNCHANGED completed
        /\ UNCHANGED <<backlog, sent, ListenSocket, fds_read, selecting>>

\* closesocket(ListenSocket): connections still in the backlog are reset.
CloseListenSocket ==
    /\ ListenSocket' = INVALID_SOCKET
    /\ backlog' = <<>>
    /\ Disconnect(Range(backlog))
    /\ IF selecting /\ completed = {} /\ ListenHandle \in fds_read
         THEN completed' \in {{ListenHandle}, fds_read}
         ELSE UNCHANGED completed
    /\ UNCHANGED <<sent, owner, fds_read, selecting>>

\* send() of one S2C packet on handle h: lost when h names no connection.
Deliver(h, packet) ==
    seen' = [c \in Conn |-> IF h \in HandlesOf(c) /\ peer[c] = "open"
                              THEN Append(seen[c], packet) ELSE seen[c]]

-----------------------------------------------------------------------------
(* select() on the handles H.  With a closed or invalid handle among them it *)
(* fails at once and leaves the set as passed; with readable handles it      *)
(* returns those at once; otherwise it is pending until something arrives on *)
(* a handle of the set, a handle of the set is closed, or time runs out.     *)

SelectCall(H) ==
    /\ fds_read' = H
    /\ selecting' = TRUE
    /\ completed' = IF \E h \in H : ~Valid(h) THEN H ELSE {h \in H : Readable(h)}
    /\ UNCHANGED <<clientVars, owner, ListenSocket>>

SelectReturn(timeout) ==
    /\ selecting
    /\ completed # {} \/ timeout
    /\ fds_read' = completed
    /\ selecting' = FALSE
    /\ completed' = {}
    /\ UNCHANGED <<clientVars, owner, ListenSocket>>

-----------------------------------------------------------------------------
(* The clients.                                                              *)

\* TCPClient::Create's connect(): the connection waits in the backlog.
ClientConnect(c) ==
    /\ peer[c] = "new"
    /\ ListenSocket = ListenHandle
    /\ peer' = [peer EXCEPT ![c] = "open"]
    /\ backlog' = Append(backlog, c)
    /\ Arrive({ListenHandle})
    /\ UNCHANGED <<inbox, sent, C2S_Number, seen, owner, ListenSocket, fds_read, selecting>>

\* Send_C2S_*: the packet carries the client's next order number.  A client
\* that skips does what the Unity client's two threads can do, when the number
\* one of them took never reaches the socket.
ClientSend(c) ==
    /\ c \in Senders
    /\ peer[c] = "open"
    /\ sent < MaxSend
    /\ \E k \in Kinds, n \in {Inc(C2S_Number[c])} \union
                 {m \in {Inc(Inc(C2S_Number[c]))} : "skip" \in ClientMay} :
          /\ C2S_Number' = [C2S_Number EXCEPT ![c] = n]
          /\ inbox' = [inbox EXCEPT ![c] = Append(@, [type |-> k, num |-> n, from |-> c])]
    /\ sent' = sent + 1
    /\ Arrive(HandlesOf(c))
    /\ UNCHANGED <<backlog, peer, seen, owner, ListenSocket, fds_read, selecting>>

\* TCPClient::Release: shutdown and closesocket.  What was sent before can
\* still be received.
ClientClose(c) ==
    /\ c \in Leavers
    /\ peer[c] = "open"
    /\ peer' = [peer EXCEPT ![c] = "closed"]
    /\ C2S_Number' = [C2S_Number EXCEPT ![c] = 0]
    /\ seen' = [seen EXCEPT ![c] = <<>>]
    /\ Arrive(HandlesOf(c))
    /\ UNCHANGED <<backlog, inbox, sent, owner, ListenSocket, fds_read, selecting>>

ClientStep == \E c \in Conn : ClientConnect(c) \/ ClientSend(c) \/ ClientClose(c)
=============================================================================

---------------------------- MODULE Settled_proofs ----------------------------
(* What is left of a client that has gone: its send node, however the main   *)
(* thread and the gameplay thread meet in SocketSendList, and nothing at all *)
(* once all four threads sleep.                                              *)
EXTENDS Numbers_proofs, FunctionTheorems

-----------------------------------------------------------------------------
(* Only clients that have gone are dropped.                                  *)

\* A handle from which the main thread would receive something, be it that the
\* client has gone.
Ready(h) ==
    h \in Sock => /\ owner[h] # NoConn
                  /\ inbox[owner[h]] # <<>> \/ peer[owner[h]] = "closed"

\* select fails on none of its handles, and what it reports is ready until the
\* main thread comes to it.
SelectReadyOnly ==
    /\ ListenSocket = ListenHandle
    /\ mpc \in {"drain", "drainAwake", "select"} =>
           fds_read \subseteq {ListenHandle} \union Range(SocketRecvList)
    /\ mpc = "select" => completed \subseteq fds_read /\ \A h \in completed : Ready(h)
    /\ mpc \in {"awakeAccept", "scan", "awakeRecv", "notice", "awakeFree"} =>
           \A i \in cur .. Len(SocketRecvList) :
               SocketRecvList[i] \in fds_read => Ready(SocketRecvList[i])

\* So a client whose RELEASE notice is due has gone, and so has the one whose
\* handle was closed and whose send node is about to be unlinked.
Dropped(s) == mdel = s \/ Releases(Due, s)
DroppedGone ==
    /\ \A s \in Sock : Dropped(s) => owner[s] # NoConn /\ peer[owner[s]] = "closed"
    /\ gpc = "unlinkSend" =>
           \E c \in Conn : /\ peer[c] = "closed" /\ c \notin Range(backlog)
                           /\ \A s \in Sock : owner[s] # c

GoneOK == RunFlag => SelectReadyOnly /\ DroppedGone

-----------------------------------------------------------------------------
(* The clients and their players.                                            *)

Freeing(n) == gpc = "unlinkSend" /\ n = gclient

ClientsOK ==
    RunFlag =>
        /\ \A n \in Range(ClientList) : client[n].Socket \in Sock \/ Freeing(n)
        /\ PlayerInfoList = {n \in Range(ClientList) : ~Freeing(n)}
        /\ AllHere /\ apc \in {"clear", "outer", "wait", "reset"} => AcceptList = <<>>

-----------------------------------------------------------------------------
(* The send nodes, while no second connection has ended.                     *)

PointsTo(m, n) == m \in Range(SocketSendList) /\ sendNode[m].pS2C = n

\* Each send node points to the client with its handle, and no two to one.
PointersOK ==
    /\ \A m \in Range(SocketSendList) :
           /\ sendNode[m].pS2C \in Range(ClientList)
           /\ sendNode[m].Socket = client[sendNode[m].pS2C].Socket \/ Freeing(sendNode[m].pS2C)
    /\ \A m, n \in Range(SocketSendList) : sendNode[m].pS2C = sendNode[n].pS2C => m = n

\* Each client has a send node, unless its node is not linked yet or the main
\* thread has unlinked it.
Served(n) ==
    \/ \E m \in Node : PointsTo(m, n)
    \/ gpc = "linkSend" /\ n = gclient
    \/ Dropped(client[n].Socket)
    \/ Freeing(n)
ServedOnce == \A n \in Range(ClientList) : Served(n)

\* The search has passed over no send node of the client, and it finds the one
\* there is.
WalkOK ==
    /\ gpc = "linkSend" =>
           /\ gclient \in Range(ClientList) /\ client[gclient].Socket = node.Socket
           /\ \A m \in Node : ~PointsTo(m, gclient)
    /\ gpc = "scanSend" =>
           \E k \in 1 .. Len(SocketSendList) + 1 :
               /\ \A j \in 1 .. k - 1 : sendNode[SocketSendList[j]].Socket # node.Socket
               /\ gscan = IF k = Len(SocketSendList) + 1 THEN NoNode ELSE SocketSendList[k]
    /\ gpc \in {"free", "unlinkSend"} =>
           IF gdel = NoNode THEN \A m \in Node : ~PointsTo(m, gclient)
                            ELSE PointsTo(gdel, gclient)

SendListOK == RunFlag /\ OneEnded => PoolOK /\ PointersOK /\ ServedOnce /\ WalkOK

SettledOK == GoneOK /\ ClientsOK /\ SendListOK
-----------------------------------------------------------------------------
(* What the invariants of the other modules say of a server that runs.       *)

Basis == TypeOK /\ InHand /\ WorldOK /\ HandlesOK /\ Stopped /\ OrderOK

LEMMA Running ==
    ASSUME Basis, RunFlag
    PROVE  /\ StagesOK /\ ClientPoolOK
           /\ InTime /\ Named /\ OnePlace /\ ListedOnce /\ NumbersOK /\ mpc # "done"
           /\ Due \in Seq(SockInfo)
BY DueType DEF Basis, HandlesOK, OrderOK, NumbersOK

\* No client is silent for a minute.
LEMMA NoneTimedOut == ASSUME Basis, RunFlag PROVE ~CloseTimedOut
BY Running, CloseTimedOutDoes DEF Basis, InTime

\* Where a handle is, it is not elsewhere.
LEMMA PlacedOnce ==
    ASSUME Basis, RunFlag, NEW s \in Sock
    PROVE  /\ s \in Range(SocketRecvList) =>
                  owner[s] \in Conn /\ s # asock /\ ~Dropped(s) /\ s \notin Range(Accepted)
           /\ Dropped(s) => owner[s] \in Conn /\ s # asock
           /\ mdel = s => ~Releases(Due, s)
           /\ s \in Range(Accepted) => owner[s] \in Conn
<1>1. OnePlace /\ mpc # "done"
  BY Running
<1>2. PICK at : PlacedAt(at)
  BY <1>1 DEF OnePlace
<1>3. owner[s] \in Conn \union {NoConn}
  BY DEF Basis, TypeOK, NetTypeOK
<1> QED
  BY <1>2, <1>3 DEF PlacedAt, Dropped

\* While the gameplay thread frees a client, its RELEASE notice is due until
\* the handle is closed.
LEMMA HeadDropped ==
    ASSUME Basis, RunFlag, gpc \in {"scanSend", "free"}
    PROVE  /\ node.Socket \in Sock /\ Due # <<>> /\ Head(Due) = node
           /\ Says(node, "RELEASE", node.Socket) /\ Dropped(node.Socket)
           /\ gclient \in Range(ClientList) /\ gclient \in Node
           /\ client[gclient].Socket = node.Socket
<1>1. StagesOK /\ Due \in Seq(SockInfo)
  BY Running
<1>2. /\ node.ActionType = "RELEASE" /\ gclient \in Range(ClientList)
      /\ client[gclient].Socket = node.Socket
  BY <1>1 DEF StagesOK
<1>3. Due = PacketRecvList /\ PacketRecvList # <<>>
  BY DEF Due, Basis, InHand
<1>4. Head(Due) = node /\ Due[1] = node /\ 1 \in DOMAIN Due /\ node \in SockInfo
  BY <1>1, <1>3, TailParts DEF node
<1>5. Says(node, "RELEASE", node.Socket) /\ node.Socket \in Sock
  BY <1>2, <1>4 DEF Says, SockInfo
<1>6. gclient \in Node
  BY <1>2, RangeIn DEF Basis, TypeOK, ServerTypeOK
<1> QED
  BY <1>2, <1>3, <1>4, <1>5, <1>6 DEF Dropped, Releases

\* No two client nodes bear one handle.
LEMMA OneClient ==
    ASSUME Basis, RunFlag, NEW m \in Range(ClientList), NEW n \in Range(ClientList),
           client[m].Socket \in Sock, client[m].Socket = client[n].Socket
    PROVE  m = n
<1>1. Numbered(client[m].Socket)
  BY Running DEF NumbersOK
<1> QED
  BY <1>1 DEF Numbered, Known

\* The notices that follow the first one.
LEMMA LaterRelease ==
    ASSUME NEW S, NEW q \in Seq(S), q # <<>>, NEW s, Releases(q, s), ~Says(Head(q), "RELEASE", s)
    PROVE  Releases(Tail(q), s)
<1>1. PICK i \in DOMAIN q : Says(q[i], "RELEASE", s)
  BY DEF Releases
<1>2. /\ Len(q) \in Nat /\ i \in 1 .. Len(q) /\ i # 1
      /\ DOMAIN Tail(q) = 1 .. Len(q) - 1
      /\ \A j \in 1 .. Len(q) - 1 : Tail(q)[j] = q[j + 1]
  BY <1>1, TailParts
<1>3. i - 1 \in 1 .. Len(q) - 1 /\ Tail(q)[i - 1] = q[i]
  BY <1>2
<1> QED
  BY <1>1, <1>2, <1>3 DEF Releases

\* A step of the gameplay thread leaves the notices alone or takes the first.
LEMMA GameDue ==
    ASSUME Basis, RunFlag, GameStep
    PROVE  \/ Due' = Due
           \/ Due # <<>> /\ Due' = Tail(Due) /\ Head(Due) = node
<1>1. gpc \in {"awakeSend", "alive", "linkSend", "unlinkSend", "free"} => PacketRecvList # <<>>
  BY DEF Basis, InHand
<1>2. CASE CreateClientNode \/ FreePlayerAndClose \/ NoClientNode \/ PacketInOrder \/ ServerExit
           \/ PacketOutOfOrder
  <2>1. /\ PacketRecvList # <<>> /\ Due = PacketRecvList
        /\ \/ gpc' \in {"linkSend", "unlinkSend", "awakeSend", "alive"} /\ UNCHANGED PacketRecvList
           \/ /\ gpc' \notin {"linkSend", "unlinkSend", "awakeSend", "alive"}
              /\ PacketRecvList' = Tail(PacketRecvList)
    BY <1>1, <1>2 DEF CreateClientNode, FreePlayerAndClose, NoClientNode, PacketInOrder,
       ServerExit, PacketOutOfOrder, IsPacket, UnlinkHead, queueVars, Due
  <2> QED
    BY <2>1 DEF Due, node
<1>3. CASE ~(CreateClientNode \/ FreePlayerAndClose \/ NoClientNode \/ PacketInOrder
             \/ ServerExit \/ PacketOutOfOrder)
  BY <1>3 DEF GameStep, GameOuter, GameWait, GameReset, GameEmpty, LinkSendNode, FreeClientNode,
     ScanSendNode, UnlinkClient, AwakeSend, CloseTimedOut, CheckClientAlive, ExitCloseListen, ExitAwakeAccept,
     ExitAwake, UnlinkHead, queueVars, Due
<1> QED
  BY <1>2, <1>3

-----------------------------------------------------------------------------
(* Only clients that have gone are dropped.                                  *)

\* A client that has gone does not come back, and what a client has sent stays
\* until it is received or the client has gone.
GoneKept ==
    \A c \in Conn : /\ peer[c] = "closed" => peer'[c] = "closed"
                    /\ inbox[c] # <<>> => inbox'[c] # <<>> \/ peer'[c] = "closed"

LEMMA DisconnectGone == ASSUME NEW C, Disconnect(C) PROVE GoneKept
BY DEF Disconnect, GoneKept

LEMMA ReadyKept ==
    ASSUME TypeOK, GoneKept, NEW h, h \in Sock => owner'[h] = owner[h], Ready(h)
    PROVE  Ready(h)'
BY DEF Ready, GoneKept, TypeOK, NetTypeOK

\* Steps of the other threads and of the clients.
LEMMA SelectReadySame ==
    ASSUME Basis, RunFlag, SelectReadyOnly, GoneKept,
           \A s \in Sock : s \in Range(SocketRecvList) => owner'[s] = owner[s],
           UNCHANGED <<ListenSocket, fds_read, mpc, cur, SocketRecvList>>,
           mpc = "select" => \/ completed' = completed
                             \/ completed' \subseteq fds_read /\ \A h \in completed' : Ready(h)'
    PROVE  SelectReadyOnly'
<1>1. /\ SocketRecvList \in Seq(Sock) /\ ListenHandle \notin Sock
      /\ \A i \in 1 .. Len(SocketRecvList) :
             SocketRecvList[i] \in Sock /\ SocketRecvList[i] \in Range(SocketRecvList)
  BY ConnAssumption, ElementOfSeq DEF Basis, TypeOK, ServerTypeOK, Range
<1>2. \A h \in {ListenHandle} \union Range(SocketRecvList) : Ready(h) => Ready(h)'
  BY <1>1, ReadyKept DEF Basis
<1>3. CASE mpc \in {"drain", "drainAwake"}
  BY <1>3 DEF SelectReadyOnly
<1>4. CASE mpc = "select"
  BY <1>2, <1>4 DEF SelectReadyOnly
<1>5. CASE mpc \notin {"drain", "drainAwake", "select"}
  <2>1. cur \in Nat \ {0}
    BY DEF Basis, TypeOK, ServerTypeOK
  <2>2. \A i \in cur .. Len(SocketRecvList) : i \in 1 .. Len(SocketRecvList)
    BY <1>1, <2>1
  <2> QED
    BY <1>1, <1>2, <1>5, <2>2 DEF SelectReadyOnly
<1> QED
  BY <1>3, <1>4, <1>5

LEMMA DroppedSame ==
    ASSUME Basis, DroppedGone, GoneKept,
           \A s \in Sock : Dropped(s)' => Dropped(s) /\ owner'[s] = owner[s],
           gpc' = "unlinkSend" => gpc = "unlinkSend",
           \A s \in Sock : owner'[s] \in {owner[s], NoConn} \union Range(backlog),
           Range(backlog') \subseteq Range(backlog) \union {c \in Conn : peer[c] = "new"}
    PROVE  DroppedGone'
<1>1. ASSUME NEW s \in Sock, Dropped(s)' PROVE owner'[s] # NoConn /\ peer'[owner'[s]] = "closed"
  <2>1. owner'[s] = owner[s] /\ owner[s] # NoConn /\ peer[owner[s]] = "closed"
    BY <1>1 DEF DroppedGone
  <2>2. owner[s] \in Conn
    BY <2>1 DEF Basis, TypeOK, NetTypeOK
  <2> QED
    BY <2>1, <2>2 DEF GoneKept
<1>2. ASSUME gpc' = "unlinkSend"
      PROVE  \E c \in Conn : /\ peer'[c] = "closed" /\ c \notin Range(backlog')
                             /\ \A s \in Sock : owner'[s] # c
  <2>1. PICK c \in Conn : /\ peer[c] = "closed" /\ c \notin Range(backlog)
                          /\ \A s \in Sock : owner[s] # c
    BY <1>2 DEF DroppedGone
  <2> QED
    BY <2>1, ConnAssumption DEF GoneKept
<1> QED
  BY <1>1, <1>2 DEF DroppedGone

\* closesocket() on one handle that is not in the read set.
LEMMA CloseOne ==
    ASSUME TypeOK, NEW h \in Sock, CloseHandles({h})
    PROVE  /\ GoneKept
           /\ owner' = [owner EXCEPT ![h] = NoConn]
           /\ UNCHANGED <<backlog, ListenSocket, fds_read>>
           /\ h \notin fds_read => completed' = completed
<1>1. GoneKept
  BY DisconnectGone DEF CloseHandles
<1>2. owner' = [owner EXCEPT ![h] = NoConn]
  BY DEF CloseHandles, TypeOK, NetTypeOK
<1>3. ASSUME h \notin fds_read PROVE completed' = completed
  <2>1. {s \in {h} \intersect Sock : owner[s] # NoConn} \intersect fds_read = {}
    BY <1>3
  <2> QED
    BY <2>1 DEF CloseHandles
<1> QED
  BY <1>1, <1>2, <1>3 DEF CloseHandles

LEMMA ClientsGone ==
    ASSUME Basis, RunFlag, SelectReadyOnly, DroppedGone, Clients
    PROVE  SelectReadyOnly' /\ DroppedGone'
<1>1. UNCHANGED <<mpc, cur, mdel, SocketRecvList, PacketRecvList, gpc>>
  BY DEF Clients, serverVars, mainVars, recvListVars, queueVars, gameVars
<1>2. PICK c \in Conn : ClientConnect(c) \/ ClientSend(c) \/ ClientClose(c)
  BY DEF Clients, ClientStep
<1>3. UNCHANGED <<owner, ListenSocket, fds_read>>
  BY <1>2 DEF ClientConnect, ClientSend, ClientClose
<1>4. /\ inbox \in [Conn -> Seq(C2S_Packet)] /\ peer \in [Conn -> {"new", "open", "closed"}]
      /\ backlog \in Seq(Conn)
  BY DEF Basis, TypeOK, NetTypeOK
<1>5. GoneKept
  <2>1. CASE ClientConnect(c) \/ ClientClose(c)
    BY <1>4, <2>1 DEF ClientConnect, ClientClose, GoneKept
  <2>2. CASE ClientSend(c)
    <3>1. PICK p : inbox' = [inbox EXCEPT ![c] = Append(@, p)]
      BY <2>2 DEF ClientSend
    <3>2. inbox'[c] # <<>> /\ peer' = peer
      BY <1>4, <2>2, <3>1, AppendNotEmpty DEF ClientSend
    <3> QED
      BY <1>4, <3>1, <3>2 DEF GoneKept
  <2> QED
    BY <1>2, <2>1, <2>2
<1>6. \/ completed' = completed
      \/ completed' \subseteq fds_read /\ \A h \in completed' : Ready(h)'
  <2>1. CASE ClientConnect(c)
    BY <2>1, ConnAssumption DEF ClientConnect, Arrive, Ready
  <2>2. CASE ClientSend(c) \/ ClientClose(c)
    <3>1. completed' = completed \/ completed' = HandlesOf(c) \intersect fds_read
      BY <2>2 DEF ClientSend, ClientClose, Arrive
    <3>2. inbox'[c] # <<>> \/ peer'[c] = "closed"
      <4>1. CASE ClientSend(c)
        <5>1. PICK p : inbox' = [inbox EXCEPT ![c] = Append(@, p)]
          BY <4>1 DEF ClientSend
        <5> QED
          BY <1>4, <5>1, AppendNotEmpty
      <4>2. CASE ClientClose(c)
        BY <1>4, <4>2 DEF ClientClose
      <4> QED
        BY <2>2, <4>1, <4>2
    <3>3. \A h \in HandlesOf(c) : Ready(h)'
      BY <1>3, <3>2, ConnAssumption DEF HandlesOf, Ready
    <3> QED
      BY <3>1, <3>3
  <2> QED
    BY <1>2, <2>1, <2>2
<1>7. SelectReadyOnly'
  BY <1>1, <1>3, <1>5, <1>6, SelectReadySame
<1>8. Range(backlog') \subseteq Range(backlog) \union {d \in Conn : peer[d] = "new"}
  <2>1. CASE ClientConnect(c)
    <3>1. backlog' = Append(backlog, c) /\ peer[c] = "new"
      BY <2>1 DEF ClientConnect
    <3>2. /\ DOMAIN backlog' = 1 .. Len(backlog) + 1 /\ DOMAIN backlog = 1 .. Len(backlog)
          /\ Len(backlog) \in Nat
          /\ \A i \in 1 .. Len(backlog) : backlog'[i] = backlog[i]
          /\ backlog'[Len(backlog) + 1] = c
      BY <1>4, <3>1, AppendParts
    <3> QED
      BY <3>1, <3>2 DEF Range
  <2>2. CASE ClientSend(c) \/ ClientClose(c)
    BY <2>2 DEF ClientSend, ClientClose
  <2> QED
    BY <1>2, <2>1, <2>2
<1>9. \A s \in Sock : Dropped(s)' => Dropped(s)
  BY <1>1 DEF Dropped, Due
<1> QED
  BY <1>1, <1>3, <1>5, <1>7, <1>8, <1>9, DroppedSame

LEMMA AcceptStepGone ==
    ASSUME Basis, RunFlag, SelectReadyOnly, DroppedGone, AcceptStep
    PROVE  SelectReadyOnly' /\ DroppedGone'
<1>1. UNCHANGED <<mpc, cur, mdel, SocketRecvList, PacketRecvList, gpc>>
  BY DEF AcceptStep, AcceptOuter, AcceptWait, AcceptReset, PollNothing, PollStopped, PollAccept,
     PollError, AcceptFull, AcceptLink, AcceptCheck, AcceptClearFlag, acceptFrame, queueVars,
     mainVars, gameVars
<1>2. \A s \in Sock : Dropped(s)' <=> Dropped(s)
  BY <1>1 DEF Dropped, Due
<1>3. /\ owner \in [Sock -> Conn \union {NoConn}] /\ backlog \in Seq(Conn)
      /\ peer \in [Conn -> {"new", "open", "closed"}] /\ inbox \in [Conn -> Seq(C2S_Packet)]
  BY DEF Basis, TypeOK, NetTypeOK
<1>4. \A s \in Sock : s \in Range(SocketRecvList) \/ Dropped(s) => owner[s] # NoConn /\ s # asock
  BY PlacedOnce, ConnAssumption
<1>5. CASE PollAccept
  <2>1. PICK h \in Sock : owner[h] = NoConn /\ owner' = [owner EXCEPT ![h] = Head(backlog)]
    BY <1>5 DEF PollAccept
  <2>2. /\ backlog # <<>> /\ backlog' = Tail(backlog)
        /\ UNCHANGED <<peer, inbox, ListenSocket, fds_read, completed>>
    BY <1>5 DEF PollAccept, selectVars
  <2>3. Head(backlog) \in Range(backlog) /\ Range(Tail(backlog)) \subseteq Range(backlog)
    BY <1>3, <2>2, RangeTail
  <2>4. GoneKept
    BY <2>2 DEF GoneKept
  <2>5. \A s \in Sock : owner'[s] = IF s = h THEN Head(backlog) ELSE owner[s]
    BY <1>3, <2>1
  <2>6. SelectReadyOnly'
    BY <1>1, <1>4, <2>1, <2>2, <2>4, <2>5, SelectReadySame
  <2>7. DroppedGone'
    BY <1>1, <1>2, <1>4, <2>1, <2>2, <2>3, <2>4, <2>5, DroppedSame
  <2> QED
    BY <2>6, <2>7
<1>6. CASE PollError
  <2>1. /\ backlog # <<>> /\ backlog' = Tail(backlog) /\ peer[Head(backlog)] = "closed"
        /\ inbox' = [inbox EXCEPT ![Head(backlog)] = <<>>]
        /\ UNCHANGED <<peer, owner, ListenSocket, fds_read, completed>>
    BY <1>6 DEF PollError, selectVars
  <2>2. Range(Tail(backlog)) \subseteq Range(backlog)
    BY <1>3, <2>1, RangeTail
  <2>3. GoneKept
    BY <1>3, <2>1 DEF GoneKept
  <2> QED
    BY <1>1, <1>2, <2>1, <2>2, <2>3, SelectReadySame, DroppedSame
<1>7. CASE AcceptFull
  <2>1. asock \in Sock /\ CloseHandles({asock})
    BY <1>7 DEF AcceptFull, Basis, InHand
  <2>2. /\ GoneKept /\ owner' = [owner EXCEPT ![asock] = NoConn]
        /\ UNCHANGED <<backlog, ListenSocket, fds_read>>
        /\ asock \notin fds_read => completed' = completed
    BY <2>1, CloseOne DEF Basis
  <2>3. asock \notin Range(SocketRecvList)
    BY <1>4, <2>1
  <2>4. mpc = "select" => asock \notin fds_read
    BY <2>1, <2>3, ConnAssumption DEF SelectReadyOnly
  <2>5. \A s \in Sock : owner'[s] = IF s = asock THEN NoConn ELSE owner[s]
    BY <1>3, <2>1, <2>2
  <2>6. SelectReadyOnly'
    BY <1>1, <1>4, <2>2, <2>4, <2>5, SelectReadySame
  <2>7. DroppedGone'
    BY <1>1, <1>2, <1>4, <2>2, <2>5, DroppedSame
  <2> QED
    BY <2>6, <2>7
<1>8. CASE ~PollAccept /\ ~PollError /\ ~AcceptFull
  <2>1. UNCHANGED <<peer, inbox, owner, backlog, ListenSocket, fds_read, completed>>
    BY <1>8 DEF AcceptStep, AcceptOuter, AcceptWait, AcceptReset, PollNothing, PollStopped,
       AcceptLink, AcceptCheck, AcceptClearFlag, netVars, clientVars, selectVars
  <2>2. GoneKept
    BY <2>1 DEF GoneKept
  <2> QED
    BY <1>1, <1>2, <2>1, <2>2, SelectReadySame, DroppedSame
<1> QED
  BY <1>5, <1>6, <1>7, <1>8

LEMMA MainStepGone ==
    ASSUME Basis, RunFlag, SelectReadyOnly, DroppedGone, MainStep
    PROVE  SelectReadyOnly' /\ DroppedGone'
<1>1. /\ SocketRecvList \in Seq(Sock) /\ Len(SocketRecvList) \in Nat /\ ListenHandle \notin Sock
      /\ \A i \in 1 .. Len(SocketRecvList) :
             SocketRecvList[i] \in Sock /\ SocketRecvList[i] \in Range(SocketRecvList)
      /\ Range(SocketRecvList) \subseteq Sock
  BY ConnAssumption, ElementOfSeq DEF Basis, TypeOK, ServerTypeOK, Range
<1>2. /\ cur \in Nat \ {0} /\ owner \in [Sock -> Conn \union {NoConn}] /\ NoConn \notin Conn
      /\ inbox \in [Conn -> Seq(C2S_Packet)] /\ mdel \in Handle
  BY ConnAssumption DEF Basis, TypeOK, ServerTypeOK, NetTypeOK
<1>3. /\ \A s \in Range(SocketRecvList) : owner[s] \in Conn
      /\ IsInjective(SocketRecvList) /\ ListenSocket = ListenHandle
  BY <1>1, Running, PlacedOnce DEF SelectReadyOnly, ListedOnce
<1>4. ~Release /\ ~LeaveLoop
  BY Running DEF Release, LeaveLoop, StagesOK
<1>5. UNCHANGED <<backlog, peer, owner, ListenSocket, gpc>>
  BY <1>4 DEF MainStep, SelectBlocking, TimedMode, DrainAcceptList, DrainAwake, SelectTimed,
     SelectDone, AwakeAccept, RecvPacket, AwakeRecv, RecvFail, NoticeFree, AwakeFree, GameAwake,
     SelectCall, SelectReturn, netVars, clientVars, gameVars
<1>6. (\A s \in Sock : Dropped(s)' => Dropped(s)) => DroppedGone'
  BY <1>5 DEF DroppedGone
<1>7. UNCHANGED <<mdel, PacketRecvList>> => DroppedGone'
  BY <1>5, <1>6 DEF Dropped, Due
<1>8. \A H : ReadSet(H) => H \subseteq {ListenHandle} \union Range(SocketRecvList)
  BY <1>3, ReadSetIn
<1>9. ASSUME NEW H, H \subseteq {ListenHandle} \union Range(SocketRecvList), SelectCall(H),
             UNCHANGED SocketRecvList, mpc' = "select"
      PROVE  SelectReadyOnly'
  <2>1. \A h \in H : Valid(h)
    BY <1>1, <1>2, <1>3, <1>9 DEF Valid
  <2>2. /\ fds_read' = H /\ completed' = {h \in H : Readable(h)}
        /\ UNCHANGED <<inbox, peer, owner, ListenSocket>>
    BY <1>9, <2>1 DEF SelectCall, clientVars
  <2>3. \A h \in completed' : Ready(h)'
    BY <1>1, <1>2, <1>3, <1>9, <2>2 DEF Readable, Ready
  <2> QED
    BY <1>3, <1>9, <2>2, <2>3 DEF SelectReadyOnly
<1>10. CASE SelectBlocking
  <2>1. PICK H : ReadSet(H) /\ SelectCall(H)
    BY <1>10 DEF SelectBlocking
  <2>2. UNCHANGED <<mdel, PacketRecvList, SocketRecvList>> /\ mpc' = "select"
    BY <1>10 DEF SelectBlocking, recvListVars, queueVars
  <2> QED
    BY <1>7, <1>8, <1>9, <2>1, <2>2
<1>11. CASE SelectTimed
  BY <1>7, <1>9, <1>11 DEF SelectTimed, SelectReadyOnly, recvListVars, queueVars
<1>12. CASE TimedMode
  BY <1>3, <1>7, <1>8, <1>12 DEF TimedMode, SelectReadyOnly, recvListVars, queueVars
<1>13. CASE DrainAcceptList
  <2>1. /\ mpc = "drain" /\ mpc' = "drainAwake" /\ AcceptList # <<>>
        /\ SocketRecvList' = Append(SocketRecvList, Head(AcceptList))
        /\ UNCHANGED <<fds_read, ListenSocket, mdel, gpc>>
    BY <1>5, <1>13 DEF DrainAcceptList, netVars, selectVars
  <2>2. PICK m : /\ m.ActionType = "CREATE" /\ PacketRecvList' = Append(PacketRecvList, m)
    BY <1>13 DEF DrainAcceptList
  <2>3. /\ DOMAIN SocketRecvList = 1 .. Len(SocketRecvList)
        /\ DOMAIN SocketRecvList' = 1 .. Len(SocketRecvList) + 1
        /\ \A i \in 1 .. Len(SocketRecvList) : SocketRecvList'[i] = SocketRecvList[i]
    BY <1>1, <2>1, AppendParts
  <2>4. Range(SocketRecvList) \subseteq Range(SocketRecvList')
    BY <1>1, <2>3 DEF Range
  <2>5. SelectReadyOnly'
    BY <2>1, <2>4 DEF SelectReadyOnly
  <2>6. Due' = Append(Due, m) /\ Due \in Seq(SockInfo)
    BY <2>1, <2>2, DueLinked, Running DEF Basis
  <2>7. \A s \in Sock : Dropped(s)' => Dropped(s)
    BY <2>1, <2>2, <2>6, OnceAppend DEF Dropped, Says
  <2> QED
    BY <1>6, <2>5, <2>7
<1>14. CASE DrainAwake
  BY <1>7, <1>14 DEF DrainAwake, SelectReadyOnly, queueVars, netVars, selectVars
<1>15. CASE SelectDone
  <2>1. /\ mpc = "select" /\ mpc' \in {"awakeAccept", "scan"} /\ fds_read' = completed /\ cur' = 1
        /\ UNCHANGED <<inbox, peer, owner, ListenSocket, SocketRecvList, mdel, PacketRecvList>>
    BY <1>15 DEF SelectDone, SelectReturn, clientVars, recvListVars, queueVars
  <2>2. \A h : Ready(h)' <=> Ready(h)
    BY <2>1 DEF Ready
  <2>3. SelectReadyOnly'
    BY <2>1, <2>2 DEF SelectReadyOnly
  <2> QED
    BY <1>7, <2>1, <2>3
<1>16. CASE AwakeAccept \/ AwakeRecv \/ AwakeFree \/ NoticeFree
  <2>1. /\ mpc \in {"awakeAccept", "awakeRecv", "awakeFree", "notice"}
        /\ mpc' \in {"scan", "awakeFree"}
        /\ UNCHANGED <<inbox, peer, owner, ListenSocket, fds_read, SocketRecvList, cur, gpc>>
    BY <1>16 DEF AwakeAccept, AwakeRecv, AwakeFree, GameAwake, NoticeFree, recvListVars, netVars,
       clientVars, selectVars, gameVars
  <2>2. \A h : Ready(h)' <=> Ready(h)
    BY <2>1 DEF Ready
  <2>3. SelectReadyOnly'
    BY <2>1, <2>2 DEF SelectReadyOnly
  <2>4. CASE NoticeFree
    <3>1. PICK m : /\ m.Socket = mdel /\ PacketRecvList' = Append(PacketRecvList, m)
                   /\ mdel' = INVALID_SOCKET
      BY <2>4 DEF NoticeFree
    <3>2. Due' = Append(Due, m) /\ Due \in Seq(SockInfo)
      BY <2>1, <3>1, DueLinked, Running DEF Basis
    <3>3. \A s \in Sock : Dropped(s)' => Dropped(s)
      BY <3>1, <3>2, OnceAppend, ConnAssumption DEF Dropped, Says
    <3> QED
      BY <1>6, <2>3, <3>3
  <2>5. CASE ~NoticeFree
    BY <1>7, <1>16, <2>3, <2>5 DEF AwakeAccept, AwakeRecv, AwakeFree, GameAwake, queueVars
  <2> QED
    BY <2>4, <2>5
<1>17. CASE RecvPacket
  <2>1. PICK i \in 1 .. Len(SocketRecvList) :
            /\ IsNext(i) /\ cur' = i + 1
            /\ inbox' = [inbox EXCEPT ![owner[SocketRecvList[i]]] = Tail(@)]
            /\ PacketRecvList' = Append(PacketRecvList,
                   [ActionType |-> "PACKET", Socket |-> SocketRecvList[i],
                    packet |-> Head(inbox[owner[SocketRecvList[i]]])])
    BY <1>17 DEF RecvPacket
  <2>2. /\ mpc = "scan" /\ mpc' = "awakeRecv"
        /\ UNCHANGED <<fds_read, SocketRecvList, mdel>>
    BY <1>17 DEF RecvPacket, recvListVars, selectVars
  <2>3. i >= cur
    BY <1>1, <1>2, <2>1 DEF IsNext, Pending
  <2>4. ASSUME NEW j \in cur' .. Len(SocketRecvList), SocketRecvList[j] \in fds_read
        PROVE  Ready(SocketRecvList[j])'
    <3>1. j \in cur .. Len(SocketRecvList) /\ j \in 1 .. Len(SocketRecvList) /\ j # i
      BY <1>1, <1>2, <2>1, <2>3, <2>4
    <3>2. Ready(SocketRecvList[j])
      BY <2>2, <2>4, <3>1 DEF SelectReadyOnly
    <3>3. SocketRecvList[j] # SocketRecvList[i]
      BY <1>1, <1>3, <2>1, <3>1 DEF IsInjective
    <3>4. /\ owner[SocketRecvList[i]] \in Conn /\ owner[SocketRecvList[j]] \in Conn
          /\ SocketRecvList[i] \in Sock /\ SocketRecvList[j] \in Sock
      BY <1>1, <1>3, <2>1, <3>1
    <3>5. owner[SocketRecvList[j]] # owner[SocketRecvList[i]]
      BY <1>2, <3>3, <3>4 DEF Basis, WorldOK
    <3>6. inbox'[owner[SocketRecvList[j]]] = inbox[owner[SocketRecvList[j]]]
      BY <1>2, <2>1, <3>4, <3>5
    <3> QED
      BY <1>5, <2>2, <3>2, <3>6 DEF Ready
  <2>5. SelectReadyOnly'
    BY <1>3, <1>5, <2>2, <2>4 DEF SelectReadyOnly
  <2>6. PICK m : m.ActionType = "PACKET" /\ PacketRecvList' = Append(PacketRecvList, m)
    BY <2>1
  <2>7. Due' = Append(Due, m) /\ Due \in Seq(SockInfo)
    BY <1>5, <2>6, DueLinked, Running DEF Basis
  <2>8. \A s \in Sock : Dropped(s)' => Dropped(s)
    BY <2>2, <2>6, <2>7, OnceAppend DEF Dropped, Says
  <2> QED
    BY <1>6, <2>5, <2>8
<1>18. CASE RecvFail
  <2>1. PICK i \in 1 .. Len(SocketRecvList) :
            /\ IsNext(i) /\ cur' = i /\ mdel' = SocketRecvList[i]
            /\ owner[SocketRecvList[i]] # NoConn => inbox[owner[SocketRecvList[i]]] = <<>>
            /\ SocketRecvList' = RemoveAt(SocketRecvList, i)
    BY <1>18 DEF RecvFail
  <2>2. /\ mpc = "scan" /\ mpc' = "notice" /\ UNCHANGED <<fds_read, inbox, PacketRecvList>>
    BY <1>18 DEF RecvFail, netVars, clientVars, selectVars, queueVars
  <2>3. i \in cur .. Len(SocketRecvList) /\ SocketRecvList[i] \in fds_read
    BY <2>1 DEF IsNext, Pending
  <2>4. /\ Len(SocketRecvList') = Len(SocketRecvList) - 1
        /\ \A j \in 1 .. Len(SocketRecvList) - 1 :
               SocketRecvList'[j] = SocketRecvList[IF j < i THEN j ELSE j + 1]
    BY <1>1, <2>1, RemoveAtElements
  <2>5. \A h : Ready(h)' <=> Ready(h)
    BY <1>5, <2>2 DEF Ready
  <2>6. ASSUME NEW j \in cur' .. Len(SocketRecvList'), SocketRecvList'[j] \in fds_read
        PROVE  Ready(SocketRecvList'[j])
    <3>1. j \in Nat /\ j >= i /\ j <= Len(SocketRecvList) - 1
      BY <1>1, <1>2, <2>1, <2>4, <2>6
    <3>2. j + 1 \in cur .. Len(SocketRecvList)
      BY <1>1, <1>2, <2>3, <3>1
    <3>3. SocketRecvList'[j] = SocketRecvList[j + 1]
      BY <1>1, <2>1, <2>4, <3>1
    <3> QED
      BY <2>2, <2>6, <3>2, <3>3 DEF SelectReadyOnly
  <2>7. SelectReadyOnly'
    BY <1>3, <1>5, <2>2, <2>5, <2>6 DEF SelectReadyOnly
  <2>8. /\ SocketRecvList[i] \in Sock /\ owner[SocketRecvList[i]] # NoConn
        /\ peer[owner[SocketRecvList[i]]] = "closed"
    BY <1>1, <2>1, <2>2, <2>3 DEF SelectReadyOnly, Ready
  <2>9. Due' = Due
    BY <1>5, <2>2 DEF Due
  <2>10. \A s \in Sock : Dropped(s)' => Dropped(s) \/ s = SocketRecvList[i]
    BY <2>1, <2>9 DEF Dropped
  <2> QED
    BY <1>5, <2>7, <2>8, <2>10 DEF DroppedGone
<1> QED
  BY <1>4, <1>10, <1>11, <1>12, <1>13, <1>14, <1>15, <1>16, <1>17, <1>18 DEF MainStep

\* The gameplay thread closes the handle of a client that has been dropped, and
\* no other.
LEMMA FreePlayerGone ==
    ASSUME Basis, RunFlag, SelectReadyOnly, DroppedGone, FreePlayerAndClose
    PROVE  SelectReadyOnly' /\ DroppedGone'
<1> DEFINE h == node.Socket
<1>1. gpc = "free" /\ gpc' = "unlinkSend"
  BY DEF FreePlayerAndClose
<1>2. UNCHANGED <<mpc, cur, mdel, SocketRecvList, PacketRecvList>>
  BY DEF FreePlayerAndClose, mainVars, recvListVars, queueVars
<1>3. /\ h \in Sock /\ Due # <<>> /\ Says(Head(Due), "RELEASE", h) /\ Dropped(h)
      /\ gclient \in Node /\ client[gclient].Socket = h
  BY <1>1, HeadDropped
<1>4. Due \in Seq(SockInfo) /\ ReleasedOnce(Due) /\ ~client[gclient].AliveTimeoutFlag
  BY <1>3, Running DEF ListedOnce, InTime
<1>5. CloseHandles({h})
  BY <1>3, <1>4 DEF FreePlayerAndClose
<1>6. /\ GoneKept /\ owner' = [owner EXCEPT ![h] = NoConn]
      /\ UNCHANGED <<backlog, ListenSocket, fds_read>>
      /\ h \notin fds_read => completed' = completed
  BY <1>3, <1>5, CloseOne DEF Basis
<1>7. owner \in [Sock -> Conn \union {NoConn}] /\ NoConn \notin Conn /\ ListenHandle \notin Sock
  BY ConnAssumption DEF Basis, TypeOK, NetTypeOK
<1>8. \A s \in Sock : owner'[s] = IF s = h THEN NoConn ELSE owner[s]
  BY <1>3, <1>6, <1>7
<1>9. h \notin Range(SocketRecvList) /\ owner[h] \in Conn
  BY <1>3, PlacedOnce
<1>10. SelectReadyOnly'
  <2>1. mpc = "select" => h \notin fds_read
    BY <1>3, <1>7, <1>9 DEF SelectReadyOnly
  <2> QED
    BY <1>2, <1>6, <1>8, <1>9, <2>1, SelectReadySame
<1>11. Due' = Tail(Due)
  BY <1>1, <1>2 DEF Due
<1>12. Releases(Due, h)
  <2>1. 1 \in DOMAIN Due /\ Head(Due) = Due[1]
    BY <1>3, <1>4, TailParts
  <2> QED
    BY <1>3, <2>1 DEF Releases
<1>13. ASSUME NEW s \in Sock, Dropped(s)' PROVE s # h /\ Dropped(s)
  <2>1. ~Releases(Tail(Due), h) /\ (Releases(Tail(Due), s) => Releases(Due, s))
    BY <1>3, <1>4, OnceTail
  <2>2. mdel # h
    BY <1>3, <1>12, PlacedOnce
  <2> QED
    BY <1>2, <1>11, <1>13, <2>1, <2>2 DEF Dropped
<1>14. \A s \in Sock : Dropped(s)' => owner'[s] # NoConn /\ peer'[owner'[s]] = "closed"
  BY <1>6, <1>7, <1>8, <1>13 DEF DroppedGone, GoneKept
<1>15. /\ peer'[owner[h]] = "closed" /\ owner[h] \notin Range(backlog')
       /\ \A s \in Sock : owner'[s] # owner[h]
  BY <1>3, <1>6, <1>7, <1>8, <1>9 DEF DroppedGone, GoneKept, Basis, WorldOK
<1> QED
  BY <1>9, <1>10, <1>14, <1>15 DEF DroppedGone

LEMMA GameStepGone ==
    ASSUME Basis, RunFlag, RunFlag', SelectReadyOnly, DroppedGone, GameStep
    PROVE  SelectReadyOnly' /\ DroppedGone'
<1>1. UNCHANGED <<mpc, cur, mdel, SocketRecvList>>
  BY DEF GameStep, GameOuter, GameWait, GameReset, GameEmpty, CreateClientNode, LinkSendNode,
     FreeClientNode, ScanSendNode, FreePlayerAndClose, UnlinkClient, NoClientNode, PacketInOrder,
     PacketOutOfOrder, AwakeSend, CloseTimedOut, CheckClientAlive, ServerExit, ExitCloseListen, ExitAwakeAccept,
     ExitAwake, mainVars, recvListVars
<1>2. CASE FreePlayerAndClose
  BY <1>2, FreePlayerGone
<1>3. CASE ~FreePlayerAndClose
  <2>1. ~PacketOutOfOrder /\ ~ExitCloseListen
    BY HeadKnown DEF PacketOutOfOrder, ExitCloseListen, InOrder, IsPacket, Basis, InHand
  <2>2. /\ GoneKept /\ UNCHANGED <<owner, backlog, ListenSocket, fds_read, completed>>
    <3>1. UNCHANGED netVars
      BY SMTT(30), <1>3, <2>1, NoneTimedOut DEF GameStep, GameOuter, GameWait, GameReset,
         GameEmpty, CreateClientNode, LinkSendNode, FreeClientNode, ScanSendNode, UnlinkClient,
         NoClientNode, PacketInOrder, AwakeSend, CheckClientAlive, ServerExit, ExitAwakeAccept,
         ExitAwake
    <3> QED
      BY <3>1 DEF GoneKept, netVars, clientVars, selectVars
  <2>3. gpc' # "unlinkSend" \/ gpc = "unlinkSend"
    BY <1>3 DEF GameStep, GameOuter, GameWait, GameReset, GameEmpty,
       CreateClientNode, LinkSendNode, FreeClientNode, ScanSendNode, UnlinkClient, NoClientNode,
       PacketInOrder, PacketOutOfOrder, AwakeSend, CloseTimedOut, CheckClientAlive, ServerExit, ExitCloseListen,
       ExitAwakeAccept, ExitAwake, UnlinkHead
  <2>4. \A s \in Sock : Dropped(s)' => Dropped(s)
    <3>1. Due' = Due \/ (Due # <<>> /\ Due' = Tail(Due))
      BY GameDue
    <3>2. Due \in Seq(SockInfo)
      BY Running
    <3> QED
      BY <1>1, <3>1, <3>2, OnceTail DEF Dropped
  <2>5. SelectReadyOnly'
    BY <1>1, <2>2, SelectReadySame
  <2>6. DroppedGone'
    BY <2>2, <2>3, <2>4, DroppedSame
  <2> QED
    BY <2>5, <2>6
<1> QED
  BY SMTT(30), <1>2, <1>3

LEMMA SendStepGone ==
    ASSUME Basis, RunFlag, SelectReadyOnly, DroppedGone, SendStep
    PROVE  SelectReadyOnly' /\ DroppedGone'
<1>1. UNCHANGED <<mpc, cur, mdel, SocketRecvList, PacketRecvList, gpc, peer, inbox, owner, backlog,
                  ListenSocket, fds_read, completed>>
  BY DEF SendStep, SendOuter, SendWait, SendReset, SendGet, SendCopy, SendOne, SendDone,
     sendFrame, mainVars, recvListVars, gameVars, selectVars
<1>2. GoneKept
  BY <1>1 DEF GoneKept
<1>3. \A s \in Sock : Dropped(s)' => Dropped(s)
  BY SMTT(30), <1>1 DEF Dropped, Due
<1> QED
  BY <1>1, <1>2, <1>3, SelectReadySame, DroppedSame

\* RunFlag never goes up again.
LEMMA FlagFalls == ASSUME [Next]_vars, RunFlag' PROVE RunFlag
BY DEF Next, vars, Clients, MinutePasses, MainStep, AcceptStep, GameStep, SendStep,
   SelectBlocking, TimedMode, LeaveLoop, DrainAcceptList, DrainAwake, SelectTimed, SelectDone,
   AwakeAccept, RecvPacket, AwakeRecv, RecvFail, NoticeFree, AwakeFree, GameAwake, Release,
   AcceptOuter, AcceptWait, AcceptReset, PollNothing, PollStopped, PollAccept, PollError,
   AcceptFull, AcceptLink, AcceptCheck, AcceptClearFlag, acceptFrame, GameOuter, GameWait,
   GameReset, GameEmpty, CreateClientNode, LinkSendNode, FreeClientNode, ScanSendNode,
   FreePlayerAndClose, UnlinkClient, NoClientNode, PacketInOrder, PacketOutOfOrder, AwakeSend, CloseTimedOut,
   CheckClientAlive, ServerExit, ExitCloseListen, ExitAwakeAccept, ExitAwake, UnlinkHead,
   SendOuter, SendWait, SendReset, SendGet, SendCopy, SendOne, SendDone, sendFrame, flagVars,
   serverVars

LEMMA NextGone ==
    ASSUME ClientMay = {}, Basis, GoneOK, [Next]_vars
    PROVE  GoneOK'
<1> SUFFICES ASSUME RunFlag' PROVE SelectReadyOnly' /\ DroppedGone'
  BY DEF GoneOK
<1>1. RunFlag /\ SelectReadyOnly /\ DroppedGone
  BY FlagFalls DEF GoneOK
<1>2. CASE Clients
  BY <1>1, <1>2, ClientsGone
<1>3. CASE MinutePasses
  BY <1>3 DEF MinutePasses
<1>4. CASE MainStep
  BY <1>1, <1>4, MainStepGone
<1>5. CASE AcceptStep
  BY <1>1, <1>5, AcceptStepGone
<1>6. CASE GameStep
  BY <1>1, <1>6, GameStepGone
<1>7. CASE SendStep
  BY <1>1, <1>7, SendStepGone
<1>8. CASE UNCHANGED vars
  <2>1. UNCHANGED <<mpc, cur, mdel, SocketRecvList, PacketRecvList, gpc, peer, inbox, owner,
                    backlog, ListenSocket, fds_read, completed>>
    BY <1>8 DEF vars, netVars, serverVars, mainVars, recvListVars, queueVars, gameVars, clientVars,
       selectVars
  <2>2. GoneKept
    BY <2>1 DEF GoneKept
  <2>3. \A s \in Sock : Dropped(s)' => Dropped(s)
    BY <2>1 DEF Dropped, Due
  <2> QED
    BY <1>1, <2>1, <2>2, <2>3, SelectReadySame, DroppedSame
<1> QED
  BY <1>2, <1>3, <1>4, <1>5, <1>6, <1>7, <1>8 DEF Next

-----------------------------------------------------------------------------
(* The clients and their players.                                            *)

PlayersOK ==
    /\ \A n \in Range(ClientList) : client[n].Socket \in Sock \/ Freeing(n)
    /\ PlayerInfoList = {n \in Range(ClientList) : ~Freeing(n)}

LEMMA PlayersSame ==
    ASSUME TypeOK, PlayersOK, UNCHANGED <<ClientList, PlayerInfoList>>,
           \A n \in Node : client'[n].Socket = client[n].Socket,
           \A n \in Node : Freeing(n)' <=> Freeing(n)
    PROVE  PlayersOK'
<1>1. Range(ClientList) \subseteq Node
  BY RangeIn DEF TypeOK, ServerTypeOK
<1>2. \A n \in Range(ClientList) :
          client'[n].Socket = client[n].Socket /\ (Freeing(n)' <=> Freeing(n))
  BY <1>1
<1> QED
  BY <1>2 DEF PlayersOK

\* Steps of the others leave the clients and what is done to them alone.
LEMMA ElsewherePlayers ==
    ASSUME TypeOK, RunFlag, StagesOK, PlayersOK,
           \/ Clients \/ MainStep \/ AcceptStep \/ SendStep \/ UNCHANGED vars
    PROVE  PlayersOK'
<1>1. ~Release
  BY DEF Release, StagesOK
<1>2. UNCHANGED <<ClientList, PlayerInfoList, gpc, gclient>>
  BY <1>1 DEF Clients, MainStep, SelectBlocking, TimedMode, LeaveLoop, DrainAcceptList, DrainAwake,
     SelectTimed, SelectDone, AwakeAccept, RecvPacket, AwakeRecv, RecvFail, NoticeFree, AwakeFree,
     GameAwake, AcceptStep, AcceptOuter, AcceptWait, AcceptReset, PollNothing, PollStopped,
     PollAccept, PollError, AcceptFull, AcceptLink, AcceptCheck, AcceptClearFlag, acceptFrame,
     SendStep, SendOuter, SendWait, SendReset, SendGet, SendCopy, SendOne, SendDone, sendFrame,
     vars, serverVars, clientListVars, gameVars
<1>3. \A n \in Node : client'[n].Socket = client[n].Socket
  <2>1. CASE SendStep
    <3>1. CASE UNCHANGED client
      BY <3>1
    <3>2. CASE \E n \in Node : \E w : client' = [client EXCEPT ![n].S2C = w]
      BY <3>2 DEF TypeOK, ServerTypeOK, SocketClient
    <3> QED
      BY <2>1, <3>1, <3>2, SendStepCounts
  <2>2. CASE ~SendStep
    <3>1. UNCHANGED client
      BY <1>1, <2>2 DEF Clients, MainStep, SelectBlocking, TimedMode, LeaveLoop, DrainAcceptList,
         DrainAwake, SelectTimed, SelectDone, AwakeAccept, RecvPacket, AwakeRecv, RecvFail,
         NoticeFree, AwakeFree, GameAwake, AcceptStep, AcceptOuter, AcceptWait, AcceptReset,
         PollNothing, PollStopped, PollAccept, PollError, AcceptFull, AcceptLink, AcceptCheck,
         AcceptClearFlag, acceptFrame, vars, serverVars, clientListVars
    <3> QED
      BY <3>1
  <2> QED
    BY <2>1, <2>2
<1> QED
  BY <1>2, <1>3, PlayersSame DEF Freeing

LEMMA GameStepPlayers ==
    ASSUME Basis, RunFlag, PlayersOK, GameStep
    PROVE  PlayersOK'
<1>1. /\ client \in [Node -> SocketClient] /\ ClientList \in Seq(Node) /\ clientFree \in Seq(Node)
      /\ Range(ClientList) \subseteq Node
  BY RangeIn DEF Basis, TypeOK, ServerTypeOK
<1>2. TypeOK /\ StagesOK /\ ClientPoolOK /\ InTime
  BY Running DEF Basis
<1>3. CASE CreateClientNode
  <2> DEFINE new == Head(clientFree)
  <2>1. /\ gpc = "get" /\ gpc' = "linkSend" /\ clientFree # <<>> /\ PacketRecvList # <<>>
        /\ ClientList' = Append(ClientList, new)
        /\ client' = [client EXCEPT ![new] = [FreeClient EXCEPT !.Socket = node.Socket]]
        /\ PlayerInfoList' = PlayerInfoList \union {new}
    BY <1>3 DEF CreateClientNode
  <2>2. new \in Node /\ new \notin Range(ClientList) /\ node.Socket \in Sock
    BY <1>1, <1>2, <2>1, PopFresh, HeadKnown DEF ClientPoolOK, Basis
  <2>3. Range(ClientList') = Range(ClientList) \union {new}
    BY <1>1, <1>2, <2>1, <2>2, AppendFresh DEF ClientPoolOK
  <2>4. /\ client'[new].Socket \in Sock
        /\ \A n \in Range(ClientList) : client'[n].Socket = client[n].Socket
    BY <1>1, <2>1, <2>2 DEF FreeClient
  <2> QED
    BY <2>1, <2>3, <2>4 DEF PlayersOK, Freeing
<1>4. CASE FreePlayerAndClose
  <2>1. /\ gpc = "free" /\ gpc' = "unlinkSend" /\ UNCHANGED <<ClientList, gclient>>
        /\ PlayerInfoList' = PlayerInfoList \ {gclient}
    BY <1>4 DEF FreePlayerAndClose
  <2>2. \A n \in Range(ClientList) : n # gclient => client'[n].Socket = client[n].Socket
    BY <1>1, <1>4 DEF FreePlayerAndClose
  <2> QED
    BY <2>1, <2>2 DEF PlayersOK, Freeing
<1>5. CASE UnlinkClient
  <2>1. /\ gpc = "unlinkSend" /\ gpc' = "get" /\ UNCHANGED PlayerInfoList
        /\ ClientList' = Unlink(ClientList, gclient)
        /\ client' = [client EXCEPT ![gclient] = FreeClient]
    BY <1>5 DEF UnlinkClient, UnlinkHead
  <2>2. gclient \in Range(ClientList)
    BY <1>2, <2>1 DEF StagesOK
  <2>3. Range(ClientList') = Range(ClientList) \ {gclient}
    BY <1>1, <1>2, <2>1, <2>2, UnlinkLinked DEF ClientPoolOK
  <2>4. \A n \in Range(ClientList') : client'[n].Socket = client[n].Socket
    BY <1>1, <2>1, <2>3
  <2> QED
    BY <2>1, <2>3, <2>4 DEF PlayersOK, Freeing
<1>6. CASE ~CreateClientNode /\ ~FreePlayerAndClose /\ ~UnlinkClient
  <2>1. ~PacketOutOfOrder
    BY HeadKnown DEF PacketOutOfOrder, InOrder, IsPacket, Basis
  <2>2. /\ UNCHANGED <<ClientList, PlayerInfoList>>
        /\ gpc # "unlinkSend" /\ gpc' # "unlinkSend"
    BY <1>6, <2>1 DEF GameStep, GameOuter, GameWait, GameReset, GameEmpty, LinkSendNode,
       FreeClientNode, ScanSendNode, NoClientNode, PacketInOrder, AwakeSend, CloseTimedOut,
       CheckClientAlive, ServerExit, ExitCloseListen, ExitAwakeAccept, ExitAwake, UnlinkHead, clientListVars, IsPacket
  <2>3. \A n \in Node : client'[n].Socket = client[n].Socket
    <3>1. CASE PacketInOrder
      <4>1. client' = [client EXCEPT ![clientNode].C2S = Inc(@), ![clientNode].timer = "off"]
        BY <3>1 DEF PacketInOrder
      <4> QED
        BY <1>1, <4>1 DEF SocketClient
    <3>2. CASE CheckClientAlive
      BY <1>1, <3>2 DEF CheckClientAlive, SocketClient
    <3>3. CASE ~PacketInOrder /\ ~CheckClientAlive
      <4>1. UNCHANGED client
        BY <1>6, <2>1, <3>3, NoneTimedOut DEF GameStep, GameOuter, GameWait, GameReset, GameEmpty, LinkSendNode,
           FreeClientNode, ScanSendNode, NoClientNode, AwakeSend, ServerExit, ExitCloseListen,
           ExitAwakeAccept, ExitAwake, clientListVars
      <4> QED
        BY <4>1
    <3> QED
      BY <3>1, <3>2, <3>3
  <2> QED
    BY <1>2, <2>2, <2>3, PlayersSame DEF Freeing
<1> QED
  BY <1>3, <1>4, <1>5, <1>6

\* While all stay, the accept thread goes to sleep only when AcceptList is empty.
AcceptedTaken ==
    AllHere /\ apc \in {"clear", "outer", "wait", "reset"} => AcceptList = <<>>

LEMMA NextAcceptedTaken ==
    ASSUME Basis, RunFlag, SelectReadyOnly, AcceptedTaken, [Next]_vars
    PROVE  AcceptedTaken'
<1> SUFFICES ASSUME AllHere', apc' \in {"clear", "outer", "wait", "reset"}
             PROVE  AcceptList' = <<>>
  BY DEF AcceptedTaken
<1>1. AllHere
  BY ClosedStays DEF Basis
<1>2. CASE AcceptStep
  <2>1. ~PollError
    <3>1. ASSUME PollError PROVE FALSE
      <4>1. backlog # <<>> /\ peer[Head(backlog)] = "closed"
        BY <3>1 DEF PollError
      <4>2. Head(backlog) \in Conn
        BY <4>1 DEF Basis, TypeOK, NetTypeOK
      <4> QED
        BY <1>1, <4>1, <4>2 DEF AllHere
    <3> QED
      BY <3>1
  <2>2. apc \in {"clear", "outer", "wait", "reset"} \/ AcceptList = <<>>
    BY <1>2, <2>1 DEF AcceptStep, AcceptOuter, AcceptWait, AcceptReset, PollNothing, PollStopped,
       PollAccept, AcceptFull, AcceptLink, AcceptCheck, AcceptClearFlag, SelectReadyOnly
  <2>3. AcceptList' = AcceptList
    BY <1>2, <2>1 DEF AcceptStep, AcceptOuter, AcceptWait, AcceptReset, PollNothing, PollStopped,
       PollAccept, AcceptFull, AcceptLink, AcceptCheck, AcceptClearFlag
  <2> QED
    BY <1>1, <2>2, <2>3 DEF AcceptedTaken
<1>3. CASE MainStep
  <2>1. UNCHANGED apc
    BY <1>3 DEF MainStep, SelectBlocking, TimedMode, LeaveLoop, DrainAcceptList, DrainAwake,
       SelectTimed, SelectDone, AwakeAccept, RecvPacket, AwakeRecv, RecvFail, NoticeFree,
       AwakeFree, GameAwake, Release, acceptVars
  <2>2. AcceptList = <<>>
    BY <1>1, <2>1 DEF AcceptedTaken
  <2>3. ~DrainAwake
    BY <2>2 DEF DrainAwake, Basis, InHand
  <2> QED
    BY <1>3, <2>2, <2>3 DEF MainStep, SelectBlocking, TimedMode, LeaveLoop, DrainAcceptList,
       SelectTimed, SelectDone, AwakeAccept, RecvPacket, AwakeRecv, RecvFail, NoticeFree,
       AwakeFree, GameAwake, Release, recvListVars
<1>4. CASE ~AcceptStep /\ ~MainStep
  <2>1. UNCHANGED <<apc, AcceptList>>
    <3>1. CASE GameStep
      BY <3>1, GameStepFrame
    <3>2. CASE ~GameStep
      BY <1>4, <3>2 DEF Next, Clients, MinutePasses, SendStep, SendOuter, SendWait, SendReset,
         SendGet, SendCopy, SendOne, SendDone, sendFrame, vars, serverVars, recvListVars, acceptVars
    <3> QED
      BY <3>1, <3>2
  <2> QED
    BY <1>1, <2>1 DEF AcceptedTaken
<1> QED
  BY <1>2, <1>3, <1>4

LEMMA NextClients ==
    ASSUME ClientMay = {}, Basis, GoneOK, ClientsOK, [Next]_vars
    PROVE  ClientsOK'
<1> SUFFICES ASSUME RunFlag' PROVE PlayersOK' /\ AcceptedTaken'
  BY DEF ClientsOK, PlayersOK, AcceptedTaken
<1>1. RunFlag /\ SelectReadyOnly /\ PlayersOK /\ AcceptedTaken
  BY FlagFalls DEF GoneOK, ClientsOK, PlayersOK, AcceptedTaken
<1>2. AcceptedTaken'
  BY <1>1, NextAcceptedTaken
<1>3. PlayersOK'
  <2>1. CASE GameStep
    BY <1>1, <2>1, GameStepPlayers
  <2>2. CASE MinutePasses
    BY <2>2 DEF MinutePasses
  <2>3. CASE Clients \/ MainStep \/ AcceptStep \/ SendStep \/ UNCHANGED vars
    BY <1>1, <2>3, Running, ElsewherePlayers DEF Basis
  <2> QED
    BY <2>1, <2>2, <2>3 DEF Next
<1> QED
  BY <1>2, <1>3

-----------------------------------------------------------------------------
(* The send nodes.                                                           *)

\* Whose connection has ended once has ended for good.
LEMMA EndedStays ==
    ASSUME TypeOK, [Next]_vars, OneEnded'
    PROVE  OneEnded
<1>1. UNCHANGED peer \/ (\E C : Disconnect(C))
        \/ \E c \in Conn : \E p : peer[c] # "closed" /\ peer' = [peer EXCEPT ![c] = p]
  <2>1. CASE Clients
    BY <2>1 DEF Clients, ClientStep, ClientConnect, ClientSend, ClientClose
  <2>2. CASE MinutePasses \/ SendStep \/ UNCHANGED vars
    BY <2>2 DEF MinutePasses, SendStep, SendOuter, SendWait, SendReset, SendGet, SendCopy,
       SendOne, SendDone, sendFrame, vars, netVars, clientVars
  <2>3. CASE MainStep
    BY <2>3, SMTT(40) DEF MainStep, SelectBlocking, TimedMode, LeaveLoop, DrainAcceptList, DrainAwake,
       SelectTimed, SelectDone, AwakeAccept, RecvPacket, AwakeRecv, RecvFail, NoticeFree,
       AwakeFree, GameAwake, Release, SelectCall, SelectReturn, CloseHandles, netVars,
       clientVars
  <2>4. CASE AcceptStep
    BY <2>4, SMTT(40) DEF AcceptStep, AcceptOuter, AcceptWait, AcceptReset, PollNothing, PollStopped,
       PollAccept, PollError, AcceptFull, AcceptLink, AcceptCheck, AcceptClearFlag,
       CloseHandles, netVars, clientVars
  <2>5. CASE GameStep
    <3>1. UNCHANGED peer \/ \E C : Disconnect(C)
      BY <2>5 DEF GameStep, GameOuter, GameWait, GameReset, GameEmpty, CreateClientNode,
         LinkSendNode, FreeClientNode, ScanSendNode, FreePlayerAndClose, UnlinkClient,
         NoClientNode, PacketInOrder, PacketOutOfOrder, AwakeSend, CloseTimedOut, CheckClientAlive, ServerExit,
         ExitCloseListen, ExitAwakeAccept, ExitAwake, CloseHandles, CloseListenSocket, netVars,
         clientVars
    <3> QED
      BY SMTT(30), <3>1
  <2> QED
    BY <2>1, <2>2, <2>3, <2>4, <2>5 DEF Next
<1>2. peer \in [Conn -> {"new", "open", "closed"}]
  BY DEF TypeOK, NetTypeOK
<1>3. \A c \in Conn : peer[c] = "closed" => peer'[c] = "closed"
  <2>1. CASE UNCHANGED peer
    BY <2>1
  <2>2. CASE \E C : Disconnect(C)
    BY <2>2 DEF Disconnect
  <2>3. CASE \E c \in Conn : \E p : peer[c] # "closed" /\ peer' = [peer EXCEPT ![c] = p]
    BY <1>2, <2>3
  <2> QED
    BY <1>1, <2>1, <2>2, <2>3
<1> QED
  BY <1>3 DEF OneEnded

\* What has been dropped stays so.
DroppedKept == \A s \in Sock : Dropped(s) => Dropped(s)'

LEMMA AppendReleases ==
    ASSUME NEW S, NEW q \in Seq(S), NEW m, NEW s, Releases(q, s) \/ Says(m, "RELEASE", s)
    PROVE  Releases(Append(q, m), s)
<1>1. /\ Len(q) \in Nat /\ DOMAIN q = 1 .. Len(q)
      /\ DOMAIN Append(q, m) = 1 .. Len(q) + 1
      /\ \A i \in 1 .. Len(q) : Append(q, m)[i] = q[i]
      /\ Append(q, m)[Len(q) + 1] = m
  BY AppendParts
<1>2. CASE Releases(q, s)
  <2>1. PICK i \in DOMAIN q : Says(q[i], "RELEASE", s)
    BY <1>2 DEF Releases
  <2>2. i \in DOMAIN Append(q, m) /\ Append(q, m)[i] = q[i]
    BY <1>1, <2>1
  <2> QED
    BY <2>1, <2>2 DEF Releases
<1>3. CASE Says(m, "RELEASE", s)
  <2>1. Len(q) + 1 \in DOMAIN Append(q, m)
    BY <1>1
  <2> QED
    BY <1>1, <1>3, <2>1 DEF Releases
<1> QED
  BY <1>2, <1>3

LEMMA MainStepDropped ==
    ASSUME Basis, RunFlag, MainStep
    PROVE  DroppedKept /\ ~Release
<1>1. StagesOK /\ Due \in Seq(SockInfo) /\ ~Release
  BY Running DEF Release, StagesOK
<1>2. UNCHANGED gpc
  BY <1>1 DEF MainStep, SelectBlocking, TimedMode, LeaveLoop, DrainAcceptList, DrainAwake,
     SelectTimed, SelectDone, AwakeAccept, RecvPacket, AwakeRecv, RecvFail, NoticeFree,
     AwakeFree, GameAwake, gameVars
<1>3. ASSUME NEW m, PacketRecvList' = Append(PacketRecvList, m)
      PROVE  \A s \in Sock : Releases(Due, s) \/ Says(m, "RELEASE", s) => Releases(Due', s)
  <2>1. Due' = Append(Due, m)
    BY <1>2, <1>3, DueLinked DEF Basis
  <2> QED
    BY <1>1, <2>1, AppendReleases
<1>4. CASE NoticeFree
  <2>1. PICK m : /\ m.Socket = mdel /\ m.ActionType = "RELEASE"
                 /\ PacketRecvList' = Append(PacketRecvList, m)
    BY <1>4 DEF NoticeFree
  <2>2. \A s \in Sock : Releases(Due, s) \/ Says(m, "RELEASE", s) => Releases(Due', s)
    BY <1>3, <2>1
  <2> QED
    BY <1>1, <2>1, <2>2 DEF DroppedKept, Dropped, Says
<1>5. CASE DrainAcceptList \/ RecvPacket
  <2>1. mdel' = mdel /\ \E m : PacketRecvList' = Append(PacketRecvList, m)
    BY <1>5 DEF DrainAcceptList, RecvPacket
  <2> QED
    BY <1>1, <1>3, <2>1 DEF DroppedKept, Dropped
<1>6. CASE ~NoticeFree /\ ~DrainAcceptList /\ ~RecvPacket
  <2>1. UNCHANGED PacketRecvList /\ (mdel \in Sock => mdel' = mdel)
    <3>1. CASE RecvFail
      BY <1>1, <3>1, ConnAssumption DEF RecvFail, queueVars, StagesOK
    <3>2. CASE ~RecvFail
      BY <1>1, <1>6, <3>2 DEF MainStep, SelectBlocking, TimedMode, LeaveLoop, DrainAwake,
         SelectTimed, SelectDone, AwakeAccept, AwakeRecv, AwakeFree, GameAwake, queueVars
    <3> QED
      BY <3>1, <3>2
  <2> QED
    BY <1>1, <1>2, <2>1 DEF DroppedKept, Dropped, Due
<1> QED
  BY <1>1, <1>4, <1>5, <1>6

\* While the gameplay thread creates or frees a client.
Busy == {"linkSend", "scanSend", "free", "unlinkSend"}

\* Steps that touch neither list.
LEMMA SendListSame ==
    ASSUME TypeOK, PlayersOK, PointersOK, ServedOnce, WalkOK,
           UNCHANGED <<SocketSendList, sendNode, ClientList>>,
           \A n \in Node : client'[n].Socket = client[n].Socket,
           DroppedKept,
           \/ /\ UNCHANGED <<gpc, gclient, gscan, gdel>>
              /\ gpc \in {"linkSend", "scanSend"} => node' = node
           \/ gpc \notin Busy /\ gpc' \notin Busy
    PROVE  PointersOK' /\ ServedOnce' /\ WalkOK'
<1>1. /\ Range(ClientList) \subseteq Node
      /\ \A n \in Range(ClientList) : n \in Node /\ client'[n].Socket = client[n].Socket
  BY RangeIn DEF TypeOK, ServerTypeOK
<1>2. \A n : Freeing(n)' <=> Freeing(n)
  BY DEF Freeing, Busy
<1>3. \A m, n : PointsTo(m, n)' <=> PointsTo(m, n)
  BY DEF PointsTo
<1>4. PointersOK'
  BY <1>1, <1>2 DEF PointersOK
<1>5. ServedOnce'
  <2> SUFFICES ASSUME NEW n \in Range(ClientList) PROVE Served(n)'
    BY DEF ServedOnce
  <2>1. Served(n) /\ client'[n].Socket = client[n].Socket
    BY <1>1 DEF ServedOnce
  <2>2. CASE Dropped(client[n].Socket)
    <3>1. CASE client[n].Socket \in Sock
      <4>1. PICK s \in Sock : s = client[n].Socket
        BY <3>1
      <4>2. Dropped(s)'
        BY <2>2, <4>1 DEF DroppedKept
      <4> QED
        BY <2>1, <4>1, <4>2 DEF Served, Dropped
    <3>2. CASE Freeing(n)
      BY <1>2, <3>2 DEF Served
    <3> QED
      BY <3>1, <3>2 DEF PlayersOK
  <2>3. CASE ~Dropped(client[n].Socket)
    BY <1>2, <1>3, <2>1, <2>3 DEF Served, Busy
  <2> QED
    BY <2>2, <2>3
<1>6. WalkOK'
  <2>1. CASE gpc \notin Busy /\ gpc' \notin Busy
    BY <2>1 DEF WalkOK, Busy
  <2>2. CASE UNCHANGED <<gpc, gclient, gscan, gdel>>
             /\ (gpc \in {"linkSend", "scanSend"} => node' = node)
    <3>1. ASSUME gpc = "linkSend"
          PROVE  /\ gclient \in Range(ClientList) /\ client'[gclient].Socket = node'.Socket
                 /\ \A m \in Node : ~PointsTo(m, gclient)'
      BY <1>1, <1>3, <2>2, <3>1 DEF WalkOK
    <3>2. ASSUME gpc = "scanSend"
          PROVE  \E k \in 1 .. Len(SocketSendList) + 1 :
                     /\ \A j \in 1 .. k - 1 : sendNode[SocketSendList[j]].Socket # node'.Socket
                     /\ gscan = IF k = Len(SocketSendList) + 1 THEN NoNode ELSE SocketSendList[k]
      BY <2>2, <3>2 DEF WalkOK
    <3>3. ASSUME gpc \in {"free", "unlinkSend"}
          PROVE  IF gdel = NoNode THEN \A m \in Node : ~PointsTo(m, gclient)'
                                  ELSE PointsTo(gdel, gclient)
      BY <1>3, <2>2, <3>3 DEF WalkOK
    <3> QED
      BY <1>3, <2>2, <3>1, <3>2, <3>3 DEF WalkOK, PointsTo
  <2> QED
    BY <2>1, <2>2
<1> QED
  BY <1>4, <1>5, <1>6

\* RecvFreeClientNode unlinks the send node of a client that has gone.  As no
\* second one has, the gameplay thread is not freeing a client meanwhile.
LEMMA RecvFailSendList ==
    ASSUME Basis, RunFlag, DroppedGone, DroppedGone', OneEnded, PlayersOK,
           PoolOK, PointersOK, ServedOnce, WalkOK, RecvFail
    PROVE  PointersOK' /\ ServedOnce' /\ WalkOK'
<1>1. PICK i \in 1 .. Len(SocketRecvList) :
          /\ mdel' = SocketRecvList[i]
          /\ UnlinkFreeSendNode(FirstWith(SocketSendList, sendNode, SocketRecvList[i]))
  BY DEF RecvFail
<1>2. /\ SocketRecvList \in Seq(Sock) /\ SocketSendList \in Seq(Node)
      /\ Range(SocketSendList) \subseteq Node /\ sendNode \in [Node -> SocketSendInfo]
  BY RangeIn DEF Basis, TypeOK, ServerTypeOK
<1>3. PICK h \in Sock : h = SocketRecvList[i] /\ h \in Range(SocketRecvList)
  BY <1>2, ElementOfSeq DEF Range
<1>4. PICK m0 : m0 = FirstWith(SocketSendList, sendNode, h)
  OBVIOUS
<1>5. mdel' = h /\ UnlinkFreeSendNode(m0)
  BY <1>1, <1>3, <1>4
<1>6. /\ UNCHANGED <<peer, owner, backlog, PacketRecvList, ClientList, client, gpc, gclient, gscan, gdel>>
      /\ mpc = "scan"
  BY DEF RecvFail, netVars, clientVars, queueVars, clientListVars, gameVars
<1>7. DroppedKept
  BY MainStepDropped DEF MainStep
<1>8. owner[h] \in Conn /\ ~Dropped(h)
  BY <1>3, PlacedOnce
<1>9. peer[owner[h]] = "closed"
  <2>1. Dropped(h)'
    BY <1>5 DEF Dropped
  <2> QED
    BY <1>6, <2>1 DEF DroppedGone
<1>10. gpc \notin {"scanSend", "free"}
  <2> SUFFICES ASSUME gpc \in {"scanSend", "free"} PROVE FALSE
    OBVIOUS
  <2>1. PICK g \in Sock : g = node.Socket /\ Dropped(g)
    BY HeadDropped
  <2>2. owner[g] \in Conn /\ peer[owner[g]] = "closed" /\ g # h
    BY <1>8, <2>1, PlacedOnce DEF DroppedGone
  <2>3. owner[g] # owner[h]
    BY <1>8, <2>2, ConnAssumption DEF Basis, WorldOK
  <2> QED
    BY <1>8, <1>9, <2>2, <2>3 DEF OneEnded
<1>11. gpc # "unlinkSend"
  BY <1>8, <1>9 DEF DroppedGone, OneEnded
<1>12. \A n : ~Freeing(n) /\ ~Freeing(n)'
  BY <1>6, <1>11 DEF Freeing
<1>13. \/ /\ m0 = NoNode /\ m0 \notin Node
       \/ m0 \in Range(SocketSendList) /\ sendNode[m0].Socket = h
  <2>1. NoNode \notin Node
    BY NodeMaxAssumption DEF Node, NoNode
  <2> QED
    BY <1>2, <1>4, <2>1, FirstWithFound
<1>14. /\ Range(SocketSendList') = Range(SocketSendList) \ {m0}
       /\ \A m \in Node : m # m0 => sendNode'[m] = sendNode[m]
  <2>1. \A m \in Node : m # m0 => sendNode'[m] = sendNode[m]
    BY <1>5 DEF UnlinkFreeSendNode
  <2>2. CASE m0 \in Range(SocketSendList)
    BY <1>2, <1>5, <2>1, <2>2, UnlinkLinked DEF UnlinkFreeSendNode, PoolOK
  <2>3. CASE m0 \notin Range(SocketSendList)
    BY <1>5, <2>1, <2>3 DEF UnlinkFreeSendNode, Unlink
  <2> QED
    BY <2>2, <2>3
<1>15. /\ \A m, n : PointsTo(m, n)' => PointsTo(m, n) /\ m # m0
       /\ \A m, n : PointsTo(m, n) /\ m # m0 => PointsTo(m, n)'
  BY <1>2, <1>14 DEF PointsTo
<1>16. PointersOK'
  <2>1. \A m \in Range(SocketSendList') : m \in Range(SocketSendList) /\ sendNode'[m] = sendNode[m]
    BY <1>2, <1>14
  <2> QED
    BY <1>6, <1>12, <2>1 DEF PointersOK
<1>17. ServedOnce'
  <2> SUFFICES ASSUME NEW n \in Range(ClientList) PROVE Served(n)'
    BY <1>6 DEF ServedOnce
  <2>1. Served(n)
    BY DEF ServedOnce
  <2>2. CASE gpc = "linkSend" /\ n = gclient
    BY <1>6, <2>2 DEF Served
  <2>3. CASE Dropped(client[n].Socket)
    <3>1. PICK s \in Sock : s = client[n].Socket
      BY <1>12 DEF PlayersOK
    <3>2. Dropped(s)'
      BY <1>7, <2>3, <3>1 DEF DroppedKept
    <3> QED
      BY <1>6, <3>1, <3>2 DEF Served, Dropped
  <2>4. CASE \E m \in Node : PointsTo(m, n)
    <3>1. PICK m \in Node : PointsTo(m, n)
      BY <2>4
    <3>2. CASE m # m0
      BY <1>15, <3>1, <3>2 DEF Served
    <3>3. CASE m = m0
      <4>1. client[n].Socket = h
        BY <1>12, <1>13, <3>1, <3>3 DEF PointersOK, PointsTo
      <4> QED
        BY <1>5, <1>6, <4>1 DEF Served, Dropped
    <3> QED
      BY <3>2, <3>3
  <2> QED
    BY <1>12, <2>1, <2>2, <2>3, <2>4 DEF Served
<1>18. WalkOK'
  <2>1. gpc = "linkSend" => node' = node
    BY <1>6 DEF node
  <2> QED
    BY <1>6, <1>10, <1>11, <1>15, <2>1 DEF WalkOK
<1> QED
  BY <1>16, <1>17, <1>18

\* The other threads' steps.
LEMMA ElsewhereSendList ==
    ASSUME Basis, RunFlag, RunFlag', DroppedGone, DroppedGone', OneEnded, PlayersOK,
           PoolOK, PointersOK, ServedOnce, WalkOK,
           \/ Clients \/ MainStep \/ AcceptStep \/ SendStep \/ UNCHANGED vars
    PROVE  PointersOK' /\ ServedOnce' /\ WalkOK'
<1>1. CASE RecvFail
  BY <1>1, RecvFailSendList
<1>2. CASE ~RecvFail
  <2>1. ~Release
    BY Running DEF Release, StagesOK
  <2>2. UNCHANGED <<SocketSendList, sendNode, ClientList, gpc, gclient, gscan, gdel>>
    BY <1>2, <2>1 DEF Clients, MainStep, SelectBlocking, TimedMode, LeaveLoop, DrainAcceptList,
       DrainAwake, SelectTimed, SelectDone, AwakeAccept, RecvPacket, AwakeRecv, NoticeFree,
       AwakeFree, GameAwake, AcceptStep, AcceptOuter, AcceptWait, AcceptReset, PollNothing,
       PollStopped, PollAccept, PollError, AcceptFull, AcceptLink, AcceptCheck, AcceptClearFlag,
       acceptFrame, SendStep, SendOuter, SendWait, SendReset, SendGet, SendCopy, SendOne, SendDone,
       sendFrame, vars, serverVars, clientListVars, sendListVars, gameVars
  <2>3. \A n \in Node : client'[n].Socket = client[n].Socket
    <3>1. CASE SendStep
      <4>1. CASE UNCHANGED client
        BY <4>1
      <4>2. CASE \E n \in Node : \E w : client' = [client EXCEPT ![n].S2C = w]
        BY <4>2 DEF Basis, TypeOK, ServerTypeOK, SocketClient
      <4> QED
        BY <3>1, <4>1, <4>2, SendStepCounts DEF Basis
    <3>2. CASE ~SendStep
      <4>1. UNCHANGED client
        BY <1>2, <2>1, <3>2 DEF Clients, MainStep, SelectBlocking, TimedMode, LeaveLoop,
           DrainAcceptList, DrainAwake, SelectTimed, SelectDone, AwakeAccept, RecvPacket, AwakeRecv,
           NoticeFree, AwakeFree, GameAwake, AcceptStep, AcceptOuter, AcceptWait, AcceptReset,
           PollNothing, PollStopped, PollAccept, PollError, AcceptFull, AcceptLink, AcceptCheck,
           AcceptClearFlag, acceptFrame, vars, serverVars, clientListVars
      <4> QED
        BY <4>1
    <3> QED
      BY <3>1, <3>2
  <2>4. \/ UNCHANGED PacketRecvList
        \/ \E m : PacketRecvList' = Append(PacketRecvList, m)
    BY <1>2, <2>1 DEF Clients, MainStep, SelectBlocking, TimedMode, LeaveLoop, DrainAcceptList,
       DrainAwake, SelectTimed, SelectDone, AwakeAccept, RecvPacket, AwakeRecv, NoticeFree,
       AwakeFree, GameAwake, AcceptStep, AcceptOuter, AcceptWait, AcceptReset, PollNothing,
       PollStopped, PollAccept, PollError, AcceptFull, AcceptLink, AcceptCheck, AcceptClearFlag,
       acceptFrame, SendStep, SendOuter, SendWait, SendReset, SendGet, SendCopy, SendOne, SendDone,
       sendFrame, vars, serverVars, queueVars
  <2>5. gpc \in {"linkSend", "scanSend"} => node' = node
    <3>1. CASE UNCHANGED PacketRecvList
      BY <3>1 DEF node
    <3>2. CASE \E m : PacketRecvList' = Append(PacketRecvList, m)
      BY <2>2, <3>2, TodoLinked DEF Basis, InHand
    <3> QED
      BY <2>4, <3>1, <3>2
  <2>6. DroppedKept
    <3>1. CASE MainStep
      BY <3>1, MainStepDropped
    <3>2. CASE ~MainStep
      <4>1. UNCHANGED <<mdel, PacketRecvList, gpc>>
        BY <2>2, <3>2 DEF Clients, AcceptStep, AcceptOuter, AcceptWait, AcceptReset, PollNothing,
           PollStopped, PollAccept, PollError, AcceptFull, AcceptLink, AcceptCheck,
           AcceptClearFlag, acceptFrame, SendStep, SendOuter, SendWait, SendReset, SendGet,
           SendCopy, SendOne, SendDone, sendFrame, vars, serverVars, queueVars, mainVars
      <4> QED
        BY <4>1 DEF DroppedKept, Dropped, Due
    <3> QED
      BY <3>1, <3>2
  <2> QED
    BY <2>2, <2>3, <2>5, <2>6, SendListSame DEF Basis
<1> QED
  BY <1>1, <1>2

-----------------------------------------------------------------------------
(* The gameplay thread creates and frees clients and their send nodes.       *)

LEMMA CreateSendList ==
    ASSUME Basis, RunFlag, PlayersOK, PointersOK, ServedOnce, CreateClientNode
    PROVE  PointersOK' /\ ServedOnce' /\ WalkOK'
<1>1. PICK new : new = Head(clientFree)
  OBVIOUS
<1>2. /\ gpc = "get" /\ gpc' = "linkSend" /\ clientFree # <<>> /\ PacketRecvList # <<>>
      /\ node.ActionType = "CREATE"
      /\ ClientList' = Append(ClientList, new)
      /\ client' = [client EXCEPT ![new] = [FreeClient EXCEPT !.Socket = node.Socket]]
      /\ gclient' = new
      /\ UNCHANGED <<SocketSendList, sendNode, PacketRecvList, mdel>>
  BY <1>1 DEF CreateClientNode, sendListVars, queueVars, mainVars
<1>3. /\ client \in [Node -> SocketClient] /\ ClientList \in Seq(Node) /\ clientFree \in Seq(Node)
      /\ Range(ClientList) \subseteq Node
  BY RangeIn DEF Basis, TypeOK, ServerTypeOK
<1>4. ClientPoolOK /\ Due \in Seq(SockInfo)
  BY Running
<1>5. new \in Node /\ new \notin Range(ClientList)
  BY <1>1, <1>2, <1>3, <1>4, PopFresh DEF ClientPoolOK
<1>6. Range(ClientList') = Range(ClientList) \union {new}
  BY <1>2, <1>3, <1>4, <1>5, AppendFresh DEF ClientPoolOK
<1>7. /\ client'[new].Socket = node.Socket /\ node' = node
      /\ \A n \in Range(ClientList) : client'[n].Socket = client[n].Socket
  BY <1>2, <1>3, <1>5 DEF FreeClient, node
<1>8. \A n : ~Freeing(n) /\ ~Freeing(n)'
  BY <1>2 DEF Freeing
<1>9. \A m, n : PointsTo(m, n)' <=> PointsTo(m, n)
  BY <1>2 DEF PointsTo
<1>10. PointersOK'
  BY <1>2, <1>6, <1>7, <1>8 DEF PointersOK
<1>11. ServedOnce'
  <2> SUFFICES ASSUME NEW n \in Range(ClientList'), n # new PROVE Served(n)'
    BY <1>2 DEF ServedOnce, Served
  <2>1. Served(n) /\ n \in Range(ClientList)
    BY <1>6 DEF ServedOnce
  <2>2. CASE \E m \in Node : PointsTo(m, n)
    BY <1>9, <2>2 DEF Served
  <2>3. CASE Dropped(client[n].Socket)
    <3>1. Due = PacketRecvList /\ Due' = Tail(Due) /\ Due # <<>> /\ Head(Due) = node
      BY <1>2 DEF Due, node
    <3>2. ~Says(Head(Due), "RELEASE", client[n].Socket)
      BY <1>2, <3>1 DEF Says
    <3>3. Releases(Due, client[n].Socket) => Releases(Tail(Due), client[n].Socket)
      BY <1>4, <3>1, <3>2, LaterRelease
    <3> QED
      BY <1>2, <1>7, <2>1, <2>3, <3>1, <3>3 DEF Served, Dropped
  <2> QED
    BY <1>2, <1>8, <2>1, <2>2, <2>3 DEF Served
<1>12. WalkOK'
  <2>1. \A m \in Node : ~PointsTo(m, new)
    BY <1>5 DEF PointersOK, PointsTo
  <2> QED
    BY <1>2, <1>6, <1>7, <1>9, <2>1 DEF WalkOK
<1> QED
  BY <1>10, <1>11, <1>12

LEMMA LinkSendList ==
    ASSUME Basis, RunFlag, PoolOK, PointersOK, ServedOnce, WalkOK, LinkSendNode
    PROVE  PointersOK' /\ ServedOnce' /\ WalkOK'
<1>1. PICK new : new = Head(sendFree)
  OBVIOUS
<1>2. /\ gpc = "linkSend" /\ gpc' = "get" /\ sendFree # <<>>
      /\ SocketSendList' = Append(SocketSendList, new)
      /\ sendNode' = [sendNode EXCEPT ![new] = [Socket |-> node.Socket, pS2C |-> gclient]]
      /\ PacketRecvList' = Tail(PacketRecvList)
      /\ UNCHANGED <<ClientList, client, mdel>>
  BY <1>1 DEF LinkSendNode, UnlinkHead, clientListVars, mainVars
<1>3. /\ sendNode \in [Node -> SocketSendInfo] /\ SocketSendList \in Seq(Node)
      /\ sendFree \in Seq(Node) /\ Range(SocketSendList) \subseteq Node
  BY RangeIn DEF Basis, TypeOK, ServerTypeOK
<1>4. new \in Node /\ new \notin Range(SocketSendList)
  BY <1>1, <1>2, <1>3, PopFresh, RangeIn DEF PoolOK
<1>5. Range(SocketSendList') = Range(SocketSendList) \union {new}
  BY <1>2, <1>3, <1>4, AppendFresh DEF PoolOK
<1>6. /\ sendNode'[new].pS2C = gclient /\ sendNode'[new].Socket = node.Socket
      /\ \A m \in Range(SocketSendList) : sendNode'[m] = sendNode[m] /\ m # new
  BY <1>2, <1>3, <1>4
<1>7. /\ gclient \in Range(ClientList) /\ client[gclient].Socket = node.Socket
      /\ \A m \in Node : ~PointsTo(m, gclient)
  BY <1>2 DEF WalkOK
<1>8. \A n : ~Freeing(n) /\ ~Freeing(n)'
  BY <1>2 DEF Freeing
<1>9. \A m \in Range(SocketSendList) : sendNode[m].pS2C # gclient
  BY <1>3, <1>7 DEF PointsTo
<1>10. PointersOK'
  BY <1>2, <1>5, <1>6, <1>7, <1>8, <1>9 DEF PointersOK
<1>11. ServedOnce'
  <2> SUFFICES ASSUME NEW n \in Range(ClientList) PROVE Served(n)'
    BY <1>2 DEF ServedOnce
  <2>1. Served(n)
    BY DEF ServedOnce
  <2>2. CASE \E m \in Node : PointsTo(m, n)
    <3>1. PICK m \in Node : PointsTo(m, n)
      BY <2>2
    <3>2. PointsTo(m, n)'
      BY <1>5, <1>6, <3>1 DEF PointsTo
    <3> QED
      BY <3>2 DEF Served
  <2>3. CASE n = gclient
    <3>1. PointsTo(new, n)'
      BY <1>5, <1>6, <2>3 DEF PointsTo
    <3> QED
      BY <1>4, <3>1 DEF Served
  <2>4. CASE Dropped(client[n].Socket)
    <3>1. Due' = Due
      BY <1>2 DEF Due
    <3> QED
      BY <1>2, <2>4, <3>1 DEF Served, Dropped
  <2> QED
    BY <1>8, <2>1, <2>2, <2>3, <2>4 DEF Served
<1>12. WalkOK'
  BY <1>2 DEF WalkOK
<1> QED
  BY <1>10, <1>11, <1>12

\* Steps of the search change neither list nor what is due.
LEMMA SearchSame ==
    ASSUME PointersOK, ServedOnce, gpc \notin {"linkSend", "unlinkSend"}, gpc' # "unlinkSend",
           UNCHANGED <<SocketSendList, sendNode, ClientList, client, mdel>>, Due' = Due
    PROVE  PointersOK' /\ ServedOnce'
<1>1. \A n : ~Freeing(n) /\ ~Freeing(n)'
  BY DEF Freeing
<1>2. \A m, n : PointsTo(m, n)' <=> PointsTo(m, n)
  BY DEF PointsTo
<1>3. PointersOK'
  BY <1>1 DEF PointersOK
<1>4. ASSUME NEW n \in Range(ClientList) PROVE Served(n)'
  <2>1. Served(n)
    BY DEF ServedOnce
  <2>2. (\E m \in Node : PointsTo(m, n)) \/ Dropped(client[n].Socket)
    BY <1>1, <2>1 DEF Served
  <2> QED
    BY <1>2, <2>2 DEF Served, Dropped
<1> QED
  BY <1>3, <1>4 DEF ServedOnce

LEMMA FreeClientSendList ==
    ASSUME Basis, RunFlag, PointersOK, ServedOnce, FreeClientNode
    PROVE  PointersOK' /\ ServedOnce' /\ WalkOK'
<1>1. /\ gpc = "get" /\ gpc' = "scanSend" /\ gscan' = HeadSendNode
      /\ UNCHANGED <<SocketSendList, sendNode, ClientList, client, mdel, PacketRecvList>>
  BY DEF FreeClientNode, sendListVars, clientListVars, mainVars, queueVars
<1>2. SocketSendList \in Seq(Node) /\ Len(SocketSendList) \in Nat
  BY DEF Basis, TypeOK, ServerTypeOK
<1>3. gscan' = IF 1 = Len(SocketSendList) + 1 THEN NoNode ELSE SocketSendList[1]
  BY <1>1, <1>2 DEF HeadSendNode
<1>4. 1 \in 1 .. Len(SocketSendList) + 1 /\ \A j \in 1 .. 1 - 1 : FALSE
  BY <1>2
<1>5. WalkOK'
  BY <1>1, <1>3, <1>4 DEF WalkOK
<1>6. Due' = Due
  BY <1>1 DEF Due
<1> QED
  BY <1>1, <1>5, <1>6, SearchSame

\* pNext of the k-th send node.
LEMMA NextOfListed ==
    ASSUME TypeOK, IsInjective(SocketSendList), NEW k \in 1 .. Len(SocketSendList)
    PROVE  NextSendNode(SocketSendList[k]) =
               IF k + 1 = Len(SocketSendList) + 1 THEN NoNode ELSE SocketSendList[k + 1]
<1>1. SocketSendList \in Seq(Node) /\ Len(SocketSendList) \in Nat
  BY DEF TypeOK, ServerTypeOK
<1>2. \A i, j \in 1 .. Len(SocketSendList) : SocketSendList[i] = SocketSendList[j] => i = j
  BY <1>1 DEF IsInjective
<1>3. IndexOf(SocketSendList, SocketSendList[k]) = k
  BY <1>2 DEF IndexOf
<1>4. SocketSendList[k] \in Range(SocketSendList)
  BY <1>1 DEF Range
<1> QED
  BY <1>1, <1>3, <1>4 DEF NextSendNode

LEMMA ScanSendList ==
    ASSUME Basis, RunFlag, PoolOK, PointersOK, ServedOnce, WalkOK, ScanSendNode
    PROVE  PointersOK' /\ ServedOnce' /\ WalkOK'
<1>1. /\ gpc = "scanSend" /\ gpc' \in {"scanSend", "free"}
      /\ UNCHANGED <<SocketSendList, sendNode, ClientList, client, mdel, PacketRecvList, gclient>>
  BY DEF ScanSendNode, sendListVars, clientListVars, mainVars, queueVars
<1>2. SocketSendList \in Seq(Node) /\ Len(SocketSendList) \in Nat
  BY DEF Basis, TypeOK, ServerTypeOK
<1>3. PICK k \in 1 .. Len(SocketSendList) + 1 :
          /\ \A j \in 1 .. k - 1 : sendNode[SocketSendList[j]].Socket # node.Socket
          /\ gscan = IF k = Len(SocketSendList) + 1 THEN NoNode ELSE SocketSendList[k]
  BY <1>1 DEF WalkOK
<1>4. /\ node.Socket \in Sock /\ gclient \in Range(ClientList)
      /\ client[gclient].Socket = node.Socket
  BY <1>1, HeadDropped
<1>5. \A n : ~Freeing(n)
  BY <1>1 DEF Freeing
<1>6. Due' = Due /\ node' = node
  BY <1>1 DEF Due, node
<1>7. \A i \in 1 .. Len(SocketSendList) : SocketSendList[i] \in Node /\ SocketSendList[i] # NoNode
  BY <1>2, ElementOfSeq, NodeMaxAssumption DEF Node, NoNode
<1>8. CASE gscan = NoNode \/ sendNode[gscan].Socket = node.Socket
  <2>1. gpc' = "free" /\ gdel' = gscan
    BY <1>8 DEF ScanSendNode
  <2>2. CASE gscan = NoNode
    <3>1. k = Len(SocketSendList) + 1
      BY <1>2, <1>3, <1>7, <2>2
    <3>2. \A m \in Range(SocketSendList) : sendNode[m].Socket # node.Socket
      BY <1>2, <1>3, <3>1 DEF Range
    <3>3. \A m \in Node : ~PointsTo(m, gclient)
      BY <1>4, <1>5, <3>2 DEF PointersOK, PointsTo
    <3>4. \A m \in Node : ~PointsTo(m, gclient)'
      BY <1>1, <3>3 DEF PointsTo
    <3> QED
      BY <1>1, <1>6, <2>1, <2>2, <3>4, SearchSame DEF WalkOK
  <2>3. CASE gscan # NoNode
    <3>1. gscan \in Range(SocketSendList) /\ sendNode[gscan].Socket = node.Socket
      BY <1>2, <1>3, <1>8, <2>3 DEF Range
    <3>2. PICK n \in Range(ClientList) : sendNode[gscan].pS2C = n
      BY <3>1 DEF PointersOK
    <3>3. client[n].Socket = node.Socket
      BY <1>5, <3>1, <3>2 DEF PointersOK
    <3>4. n = gclient
      BY <1>4, <3>3, OneClient
    <3>5. PointsTo(gdel, gclient)'
      BY <1>1, <2>1, <3>1, <3>2, <3>4 DEF PointsTo
    <3> QED
      BY <1>1, <1>6, <2>1, <2>3, <3>5, SearchSame DEF WalkOK
  <2> QED
    BY <2>2, <2>3
<1>9. CASE ~(gscan = NoNode \/ sendNode[gscan].Socket = node.Socket)
  <2>1. gpc' = "scanSend" /\ gscan' = NextSendNode(gscan)
    BY <1>1, <1>9 DEF ScanSendNode
  <2>2. k \in 1 .. Len(SocketSendList) /\ gscan = SocketSendList[k]
    BY <1>2, <1>3, <1>9
  <2>3. gscan' = IF k + 1 = Len(SocketSendList) + 1 THEN NoNode ELSE SocketSendList[k + 1]
    BY <2>1, <2>2, NextOfListed DEF PoolOK, Basis
  <2>4. /\ k + 1 \in 1 .. Len(SocketSendList) + 1
        /\ \A j \in 1 .. (k + 1) - 1 : sendNode[SocketSendList[j]].Socket # node.Socket
    BY <1>2, <1>3, <1>9, <2>2
  <2>5. WalkOK'
    BY <1>1, <1>6, <2>1, <2>3, <2>4 DEF WalkOK
  <2> QED
    BY <1>1, <1>6, <2>1, <2>5, SearchSame
<1> QED
  BY <1>8, <1>9

LEMMA FreePlayerSendList ==
    ASSUME Basis, RunFlag, PlayersOK, PointersOK, ServedOnce, WalkOK, FreePlayerAndClose
    PROVE  PointersOK' /\ ServedOnce' /\ WalkOK'
<1>1. /\ gpc = "free" /\ gpc' = "unlinkSend"
      /\ UNCHANGED <<SocketSendList, sendNode, ClientList, mdel, PacketRecvList, gclient, gdel>>
  BY DEF FreePlayerAndClose, sendListVars, mainVars, queueVars
<1>2. /\ client \in [Node -> SocketClient] /\ Range(ClientList) \subseteq Node
  BY RangeIn DEF Basis, TypeOK, ServerTypeOK
<1>3. \A n \in Range(ClientList) : n # gclient => client'[n].Socket = client[n].Socket
  BY <1>2 DEF FreePlayerAndClose
<1>4. /\ node.Socket \in Sock /\ Due # <<>> /\ Says(Head(Due), "RELEASE", node.Socket)
      /\ gclient \in Range(ClientList) /\ client[gclient].Socket = node.Socket
  BY <1>1, HeadDropped
<1>5. Due' = Tail(Due) /\ Due \in Seq(SockInfo)
  BY <1>1, Running DEF Due
<1>6. \A n : ~Freeing(n) /\ (Freeing(n)' <=> n = gclient)
  BY <1>1 DEF Freeing
<1>7. \A m, n : PointsTo(m, n)' <=> PointsTo(m, n)
  BY <1>1 DEF PointsTo
<1>8. PointersOK'
  BY <1>1, <1>3, <1>6 DEF PointersOK
<1>9. ServedOnce'
  <2> SUFFICES ASSUME NEW n \in Range(ClientList), n # gclient PROVE Served(n)'
    BY <1>1, <1>6 DEF ServedOnce, Served
  <2>1. (\E m \in Node : PointsTo(m, n)) \/ Dropped(client[n].Socket)
    BY <1>1, <1>6 DEF ServedOnce, Served
  <2>2. CASE Dropped(client[n].Socket)
    <3>1. client[n].Socket # node.Socket
      BY <1>4, OneClient
    <3>2. ~Says(Head(Due), "RELEASE", client[n].Socket)
      BY <1>4, <3>1 DEF Says
    <3>3. Releases(Due, client[n].Socket) => Releases(Tail(Due), client[n].Socket)
      BY <1>4, <1>5, <3>2, LaterRelease
    <3> QED
      BY <1>1, <1>3, <1>5, <2>2, <3>3 DEF Served, Dropped
  <2>3. CASE \E m \in Node : PointsTo(m, n)
    BY <1>7, <2>3 DEF Served
  <2> QED
    BY <2>1, <2>2, <2>3
<1>10. WalkOK'
  BY <1>1, <1>7 DEF WalkOK, PointsTo
<1> QED
  BY <1>8, <1>9, <1>10

LEMMA UnlinkSendList ==
    ASSUME Basis, RunFlag, PoolOK, PointersOK, ServedOnce, WalkOK, UnlinkClient
    PROVE  PointersOK' /\ ServedOnce' /\ WalkOK'
<1>1. /\ gpc = "unlinkSend" /\ gpc' = "get" /\ PacketRecvList' = Tail(PacketRecvList)
      /\ UnlinkFreeSendNode(gdel)
      /\ ClientList' = Unlink(ClientList, gclient)
      /\ client' = [client EXCEPT ![gclient] = FreeClient]
      /\ UNCHANGED mdel
  BY DEF UnlinkClient, UnlinkHead, mainVars
<1>2. /\ client \in [Node -> SocketClient] /\ ClientList \in Seq(Node)
      /\ Range(ClientList) \subseteq Node
      /\ SocketSendList \in Seq(Node) /\ Range(SocketSendList) \subseteq Node
  BY RangeIn DEF Basis, TypeOK, ServerTypeOK
<1>3. gclient \in Range(ClientList) /\ ClientPoolOK
  BY <1>1, Running DEF StagesOK
<1>4. /\ Range(ClientList') = Range(ClientList) \ {gclient}
      /\ \A n \in Range(ClientList') : client'[n].Socket = client[n].Socket
  BY <1>1, <1>2, <1>3, UnlinkLinked DEF ClientPoolOK
<1>5. IF gdel = NoNode THEN \A m \in Node : ~PointsTo(m, gclient) ELSE PointsTo(gdel, gclient)
  BY <1>1 DEF WalkOK
<1>6. \A m \in Node : m # gdel => sendNode'[m] = sendNode[m]
  BY <1>1 DEF UnlinkFreeSendNode
<1>7. Range(SocketSendList') = Range(SocketSendList) \ {gdel}
  <2>1. CASE gdel \in Range(SocketSendList)
    BY <1>1, <1>2, <2>1, UnlinkLinked DEF UnlinkFreeSendNode, PoolOK
  <2>2. CASE gdel \notin Range(SocketSendList)
    BY <1>1, <2>2 DEF UnlinkFreeSendNode, Unlink
  <2> QED
    BY <2>1, <2>2
<1>8. \A m \in Range(SocketSendList') :
          /\ m \in Range(SocketSendList) /\ m # gdel /\ m \in Node
          /\ sendNode'[m] = sendNode[m] /\ sendNode[m].pS2C # gclient
  <2> SUFFICES ASSUME NEW m \in Range(SocketSendList'), sendNode[m].pS2C = gclient PROVE FALSE
    BY <1>2, <1>6, <1>7
  <2>1. m \in Range(SocketSendList) /\ m # gdel /\ PointsTo(m, gclient) /\ m \in Node
    BY <1>2, <1>7 DEF PointsTo
  <2> QED
    BY <1>5, <2>1 DEF PointersOK, PointsTo
<1>9. \A n : ~Freeing(n)' /\ (Freeing(n) <=> n = gclient)
  BY <1>1 DEF Freeing
<1>10. PointersOK'
  BY <1>4, <1>8, <1>9 DEF PointersOK
<1>11. ServedOnce'
  <2> SUFFICES ASSUME NEW n \in Range(ClientList') PROVE Served(n)'
    BY DEF ServedOnce
  <2>1. Served(n) /\ n # gclient
    BY <1>4 DEF ServedOnce
  <2>2. (\E m \in Node : PointsTo(m, n)) \/ Dropped(client[n].Socket)
    BY <1>1, <1>9, <2>1 DEF Served
  <2>3. CASE \E m \in Node : PointsTo(m, n)
    <3>1. PICK m \in Node : PointsTo(m, n)
      BY <2>3
    <3>2. m # gdel
      <4>1. m # NoNode
        BY NodeMaxAssumption DEF Node, NoNode
      <4> QED
        BY <1>5, <2>1, <3>1, <4>1 DEF PointsTo
    <3>3. PointsTo(m, n)'
      BY <1>6, <1>7, <3>1, <3>2 DEF PointsTo
    <3> QED
      BY <3>3 DEF Served
  <2>4. CASE Dropped(client[n].Socket)
    <3>1. Due' = Due
      BY <1>1 DEF Due
    <3> QED
      BY <1>1, <1>4, <2>4, <3>1 DEF Served, Dropped
  <2> QED
    BY <2>2, <2>3, <2>4
<1>12. WalkOK'
  BY <1>1 DEF WalkOK
<1> QED
  BY <1>10, <1>11, <1>12

\* The other steps of a server that runs on: a packet takes effect at most.
LEMMA QuietSendList ==
    ASSUME Basis, RunFlag, RunFlag', PlayersOK, PointersOK, ServedOnce, WalkOK, GameStep,
           ~CreateClientNode, ~LinkSendNode, ~FreeClientNode, ~ScanSendNode,
           ~FreePlayerAndClose, ~UnlinkClient
    PROVE  PointersOK' /\ ServedOnce' /\ WalkOK'
<1>1. ~PacketOutOfOrder /\ ~NoClientNode /\ ~ServerExit
  BY HeadKnown DEF PacketOutOfOrder, NoClientNode, InOrder, IsPacket, Basis, ServerExit
<1>2. /\ UNCHANGED <<SocketSendList, sendNode, ClientList, mdel>>
      /\ gpc \notin Busy /\ gpc' \notin Busy
  BY <1>1 DEF GameStep, GameOuter, GameWait, GameReset, GameEmpty, PacketInOrder, AwakeSend, CloseTimedOut,
     CheckClientAlive, ExitCloseListen, ExitAwakeAccept, ExitAwake, UnlinkHead, Busy, IsPacket,
     sendListVars, clientListVars, mainVars
<1>3. client \in [Node -> SocketClient]
  BY DEF Basis, TypeOK, ServerTypeOK
<1>4. \A n \in Node : client'[n].Socket = client[n].Socket
  <2>1. CASE PacketInOrder
    <3>1. client' = [client EXCEPT ![clientNode].C2S = Inc(@), ![clientNode].timer = "off"]
      BY <2>1 DEF PacketInOrder
    <3> QED
      BY <1>3, <3>1 DEF SocketClient
  <2>2. CASE CheckClientAlive
    BY <1>3, <2>2 DEF CheckClientAlive, SocketClient
  <2>3. CASE ~PacketInOrder /\ ~CheckClientAlive
    <3>1. UNCHANGED client
      BY <1>1, <2>3, NoneTimedOut DEF GameStep, GameOuter, GameWait, GameReset, GameEmpty, AwakeSend,
         ExitCloseListen, ExitAwakeAccept, ExitAwake, clientListVars
    <3> QED
      BY <3>1
  <2> QED
    BY <2>1, <2>2, <2>3
<1>5. DroppedKept
  <2>1. Due \in Seq(SockInfo)
    BY Running
  <2>2. CASE PacketInOrder
    <3>1. Due' = Tail(Due) /\ Due # <<>> /\ Head(Due) = node /\ node.ActionType = "PACKET"
      BY <2>2 DEF PacketInOrder, IsPacket, Due, node
    <3>2. \A s : ~Says(Head(Due), "RELEASE", s)
      BY <3>1 DEF Says
    <3> QED
      BY <1>2, <2>1, <3>1, <3>2, LaterRelease DEF DroppedKept, Dropped
  <2>3. CASE ~PacketInOrder
    <3>1. Due' = Due
      BY <1>1, <2>3 DEF GameStep, GameOuter, GameWait, GameReset, GameEmpty, AwakeSend, CloseTimedOut,
         CheckClientAlive, ExitCloseListen, ExitAwakeAccept, ExitAwake, UnlinkHead, queueVars, Due
    <3> QED
      BY <1>2, <3>1 DEF DroppedKept, Dropped
  <2> QED
    BY <2>2, <2>3
<1> QED
  BY <1>2, <1>4, <1>5, SendListSame DEF Basis

LEMMA NextSendList ==
    ASSUME ClientMay = {}, Basis, GoneOK, GoneOK', ClientsOK, SendListOK, [Next]_vars
    PROVE  SendListOK'
<1> SUFFICES ASSUME RunFlag', OneEnded'
             PROVE  PoolOK' /\ PointersOK' /\ ServedOnce' /\ WalkOK'
  BY DEF SendListOK
<1>1. /\ RunFlag /\ OneEnded /\ DroppedGone /\ DroppedGone' /\ PlayersOK
      /\ PoolOK /\ PointersOK /\ ServedOnce /\ WalkOK
  BY FlagFalls, EndedStays DEF Basis, GoneOK, ClientsOK, PlayersOK, SendListOK
<1>2. PoolOK'
  <2>1. FoundNodeStillLinked
    BY <1>1 DEF FoundNodeStillLinked, WalkOK, PointsTo
  <2> QED
    BY <1>1, <2>1, NextPool DEF Basis
<1>3. CASE GameStep
  <2>1. CASE CreateClientNode
    BY <1>1, <1>2, <2>1, CreateSendList
  <2>2. CASE LinkSendNode
    BY <1>1, <1>2, <2>2, LinkSendList
  <2>3. CASE FreeClientNode
    BY <1>1, <1>2, <2>3, FreeClientSendList
  <2>4. CASE ScanSendNode
    BY <1>1, <1>2, <2>4, ScanSendList
  <2>5. CASE FreePlayerAndClose
    BY <1>1, <1>2, <2>5, FreePlayerSendList
  <2>6. CASE UnlinkClient
    BY <1>1, <1>2, <2>6, UnlinkSendList
  <2>7. CASE /\ ~CreateClientNode /\ ~LinkSendNode /\ ~FreeClientNode /\ ~ScanSendNode
             /\ ~FreePlayerAndClose /\ ~UnlinkClient
    BY <1>1, <1>2, <1>3, <2>7, QuietSendList
  <2> QED
    BY <2>1, <2>2, <2>3, <2>4, <2>5, <2>6, <2>7
<1>4. CASE MinutePasses
  BY <1>4 DEF MinutePasses
<1>5. CASE Clients \/ MainStep \/ AcceptStep \/ SendStep \/ UNCHANGED vars
  BY <1>1, <1>2, <1>5, ElsewhereSendList
<1> QED
  BY <1>3, <1>4, <1>5 DEF Next

-----------------------------------------------------------------------------
(* All steps, and the beginning.                                             *)

LEMMA InitSettled == Init => SettledOK
<1> SUFFICES ASSUME Init PROVE GoneOK /\ ClientsOK /\ SendListOK
  BY DEF SettledOK
<1>1. GoneOK
  <2>1. SelectReadyOnly
    BY DEF Init, NetInit, ServerInit, SelectReadyOnly
  <2>2. \A s \in Sock : ~Dropped(s)
    BY ConnAssumption DEF Init, NetInit, ServerInit, Dropped, Due, Releases
  <2>3. gpc # "unlinkSend"
    BY DEF Init, ServerInit
  <2> QED
    BY <2>1, <2>2, <2>3 DEF GoneOK, DroppedGone
<1>2. Range(ClientList) = {} /\ Range(SocketSendList) = {}
  BY DEF Init, ServerInit, Range
<1>3. ClientsOK
  BY <1>2 DEF Init, ServerInit, ClientsOK
<1>4. SendListOK
  BY <1>2, InitPool DEF Init, ServerInit, SendListOK, PointersOK, ServedOnce, WalkOK
<1> QED
  BY <1>1, <1>3, <1>4

LEMMA NextBasis ==
    ASSUME ClientMay = {}, Basis, PacketsOK, [Next]_vars
    PROVE  Basis' /\ PacketsOK'
<1>1. TypeOK' /\ InHand'
  BY NextType, NextInHand DEF Basis
<1>2. SenderOK'
  BY <1>1, NextSender DEF Basis, SenderOK
<1>3. HandlesOK'
  BY <1>1, NextHandles DEF Basis
<1>4. Stopped'
  BY NextStopped DEF Basis
<1>5. OrderOK'
  BY <1>1, NextOrder DEF Basis
<1> QED
  BY <1>1, <1>2, <1>3, <1>4, <1>5 DEF Basis, SenderOK

LEMMA NextSettled ==
    ASSUME ClientMay = {}, Basis, SettledOK, [Next]_vars
    PROVE  SettledOK'
<1>1. GoneOK'
  BY NextGone DEF SettledOK
<1>2. ClientsOK'
  BY NextClients DEF SettledOK
<1>3. SendListOK'
  BY <1>1, NextSendList DEF SettledOK
<1> QED
  BY <1>1, <1>2, <1>3 DEF SettledOK

LEMMA SettledInvariant ==
    ASSUME ClientMay = {}
    PROVE  Spec => [](Basis /\ SettledOK /\ NoLostWakeup /\ SelectOK)
<1>1. Init => /\ Basis /\ PacketsOK /\ SettledOK /\ SelectOK
  <2>1. Init => SelectOK
    BY DEF Init, ServerInit, SelectOK
  <2> QED
    BY <2>1, InitType, InitInHand, InitSender, InitHandles, InitOrder, InitSettled
    DEF Basis, SenderOK
<1>2. Basis /\ PacketsOK /\ SettledOK /\ SelectOK /\ [Next]_vars
        => Basis' /\ PacketsOK' /\ SettledOK' /\ SelectOK'
  <2>1. Basis /\ SelectOK /\ [Next]_vars => SelectOK'
    BY NextSelect DEF Basis
  <2> QED
    BY <2>1, NextBasis, NextSettled
<1> QED
  BY <1>1, <1>2, WakeupCorrect, PTL DEF Spec

\* For any number of clients and handles, as long as no client breaks the
\* numbering or keeps silent for a minute, and in every order in which the main
\* thread and the gameplay thread unlink and free send nodes: when the gameplay
\* thread turns to its next notice or packet, each send node points into a
\* client node that is in use - until a second connection has ended.
THEOREM SendNodesStayGood ==
    ASSUME ClientMay = {}
    PROVE  Spec => []SendNodesPointToClients
<1>1. Basis /\ SettledOK => SendNodesPointToClients
  <2> SUFFICES ASSUME Basis, SettledOK, gpc = "get", OneEnded
               PROVE  \A i \in DOMAIN SocketSendList :
                          sendNode[SocketSendList[i]].pS2C \in Range(ClientList)
    BY DEF SendNodesPointToClients
  <2>1. RunFlag
    BY DEF Basis, InHand
  <2>2. PointersOK
    BY <2>1 DEF SettledOK, SendListOK
  <2> QED
    BY <2>2 DEF PointersOK, Range
<1> QED
  BY <1>1, SettledInvariant, PTL

\* Under the same condition, and until a second connection has ended, the send
\* node that FreeClientNode has found is still linked when it frees it, so none
\* is freed twice, and the send thread meets no NULL order-number pointer.
THEOREM NotFreedTwice ==
    ASSUME ClientMay = {}
    PROVE  Spec => [](RunFlag /\ OneEnded => FoundNodeStillLinked /\ NoNullCounter)
<1>1. SettledOK => (RunFlag /\ OneEnded => FoundNodeStillLinked /\ NoNullCounter)
  <2> SUFFICES ASSUME SettledOK, RunFlag, OneEnded
               PROVE  FoundNodeStillLinked /\ NoNullCounter
    OBVIOUS
  <2>1. PoolOK /\ WalkOK
    BY DEF SettledOK, SendListOK
  <2> QED
    BY <2>1 DEF PoolOK, FoundNodeStillLinked, WalkOK, PointsTo
<1> QED
  BY <1>1, SettledInvariant, PTL

\* Two lists without repetitions whose elements correspond are equally long.
LEMMA SameLength ==
    ASSUME NEW S, NEW T, NEW p \in Seq(S), NEW q \in Seq(T), IsInjective(p), IsInjective(q),
           NEW f,
           \A x, y \in Range(p) : f[x] = f[y] => x = y,
           \A x \in Range(p) : f[x] \in Range(q),
           \A z \in Range(q) : \E x \in Range(p) : f[x] = z
    PROVE  Len(p) = Len(q)
<1> DEFINE g == [i \in 1 .. Len(p) |-> CHOOSE j \in 1 .. Len(q) : q[j] = f[p[i]]]
<1>1. /\ Len(p) \in Nat /\ DOMAIN p = 1 .. Len(p) /\ Len(q) \in Nat /\ DOMAIN q = 1 .. Len(q)
      /\ \A i, j \in 1 .. Len(p) : p[i] = p[j] => i = j
      /\ \A i, j \in 1 .. Len(q) : q[i] = q[j] => i = j
  BY DEF IsInjective
<1>2. \A i \in 1 .. Len(p) : g[i] \in 1 .. Len(q) /\ q[g[i]] = f[p[i]]
  <2> SUFFICES ASSUME NEW i \in 1 .. Len(p) PROVE \E j \in 1 .. Len(q) : q[j] = f[p[i]]
    OBVIOUS
  <2>1. f[p[i]] \in Range(q)
    BY <1>1 DEF Range
  <2> QED
    BY <1>1, <2>1 DEF Range
<1> HIDE DEF g
<1>3. g \in [1 .. Len(p) -> 1 .. Len(q)]
  BY <1>2 DEF g
<1>4. \A i, j \in 1 .. Len(p) : g[i] = g[j] => i = j
  <2> SUFFICES ASSUME NEW i \in 1 .. Len(p), NEW j \in 1 .. Len(p), g[i] = g[j] PROVE i = j
    OBVIOUS
  <2>1. f[p[i]] = f[p[j]] /\ p[i] \in Range(p) /\ p[j] \in Range(p)
    BY <1>1, <1>2 DEF Range
  <2>2. p[i] = p[j]
    BY <2>1
  <2> QED
    BY <1>1, <2>2
<1>5. \A j \in 1 .. Len(q) : \E i \in 1 .. Len(p) : g[i] = j
  <2> SUFFICES ASSUME NEW j \in 1 .. Len(q) PROVE \E i \in 1 .. Len(p) : g[i] = j
    OBVIOUS
  <2>1. PICK x \in Range(p) : f[x] = q[j]
    BY <1>1 DEF Range
  <2>2. PICK i \in 1 .. Len(p) : p[i] = x
    BY <1>1, <2>1 DEF Range
  <2> QED
    BY <1>1, <1>2, <2>1, <2>2
<1>6. g \in Bijection(1 .. Len(p), 1 .. Len(q))
  BY <1>3, <1>4, <1>5, Fun_IsBij
<1>7. /\ IsFiniteSet(1 .. Len(p)) /\ Cardinality(1 .. Len(p)) = Len(p)
      /\ Cardinality(1 .. Len(q)) = Len(q)
  <2>1. ASSUME NEW n \in Nat PROVE IsFiniteSet(1 .. n) /\ Cardinality(1 .. n) = n
    <3>1. n \in Int /\ 1 \in Int
      OBVIOUS
    <3>2. /\ IsFiniteSet(1 .. n)
          /\ Cardinality(1 .. n) = IF 1 > n THEN 0 ELSE n - 1 + 1
      BY <3>1, FS_Interval
    <3> QED
      BY <3>2
  <2> QED
    BY <1>1, <2>1
<1>8. ExistsBijection(1 .. Len(p), 1 .. Len(q))
  BY <1>6 DEF ExistsBijection
<1> QED
  BY <1>7, <1>8, FS_Bijection

\* Nothing is due while all sleep.
LEMMA IdleEmpty ==
    ASSUME Basis, NoLostWakeup, RunFlag, Idle
    PROVE  /\ PacketRecvList = <<>> /\ PacketSendList = <<>> /\ Due = <<>> /\ Todo = <<>>
           /\ mdel = INVALID_SOCKET /\ asock = INVALID_SOCKET /\ Accepted = AcceptList
           /\ \A s \in Sock : ~Dropped(s)
<1>1. PacketRecvList = <<>> /\ PacketSendList = <<>>
  BY DEF NoLostWakeup, GameWakeup, SendWakeup, Idle
<1>2. Due = <<>> /\ Todo = <<>>
  BY <1>1 DEF Due, Todo, Idle
<1>3. mdel = INVALID_SOCKET /\ asock = INVALID_SOCKET /\ Accepted = AcceptList
  BY Running DEF StagesOK, Idle, Accepted
<1>4. \A s : ~Releases(Due, s)
  BY <1>2 DEF Releases
<1> QED
  BY <1>1, <1>2, <1>3, <1>4, ConnAssumption DEF Dropped

\* Then the main thread polls whoever has a client node, and no one else.
LEMMA IdlePolled ==
    ASSUME Basis, ClientsOK, NoLostWakeup, RunFlag, Idle
    PROVE  /\ \A n \in Range(ClientList) : client[n].Socket \in Range(SocketRecvList)
           /\ \A s \in Range(SocketRecvList) : \E n \in Range(ClientList) : client[n].Socket = s
<1>1. Due = <<>> /\ mdel = INVALID_SOCKET
  BY IdleEmpty
<1>2. Range(SocketRecvList) \subseteq Sock /\ Range(ClientList) \subseteq Node
  BY RangeIn DEF Basis, TypeOK, ServerTypeOK
<1>3. ASSUME NEW s \in Sock
      PROVE  \E a \in 0 .. WordSize : Known(s, a) /\ (a # Absent <=> s \in Range(SocketRecvList))
  <2>1. PICK a, b \in 0 .. WordSize : Told(Due, s, a, b) /\ Known(s, a) /\ Ends(s, b)
    BY Running DEF NumbersOK, Numbered
  <2>2. a = b
    BY <1>1, <2>1 DEF Told
  <2>3. mdel # s
    BY <1>1, ConnAssumption
  <2> QED
    BY <2>1, <2>2, <2>3 DEF Ends
<1>4. ASSUME NEW n \in Range(ClientList) PROVE client[n].Socket \in Range(SocketRecvList)
  <2>1. PICK s \in Sock : s = client[n].Socket
    BY DEF ClientsOK, Freeing, Idle
  <2>2. PICK a \in 0 .. WordSize : Known(s, a) /\ (a # Absent <=> s \in Range(SocketRecvList))
    BY <1>3
  <2>3. client[n].C2S = a /\ client[n].C2S \in Word
    BY <1>2, <2>1, <2>2 DEF Known, Basis, TypeOK, ServerTypeOK, SocketClient
  <2>4. a # Absent
    BY <2>3, WordSizeAssumption DEF Word, Absent
  <2> QED
    BY <2>1, <2>2, <2>4
<1>5. ASSUME NEW s \in Range(SocketRecvList)
      PROVE  \E n \in Range(ClientList) : client[n].Socket = s
  <2>1. PICK a \in 0 .. WordSize : Known(s, a) /\ (a # Absent <=> s \in Range(SocketRecvList))
    BY <1>2, <1>3
  <2> QED
    BY <2>1 DEF Known
<1> QED
  BY <1>4, <1>5

\* Under the same condition nothing is left over when all four threads sleep.
\* No connection waits in the backlog, both queues are empty, and ClientList,
\* SocketRecvList, the players and the open handles agree on who is connected;
\* so does SocketSendList until a second connection has ended.
THEOREM NothingLeftOver ==
    ASSUME ClientMay = {}
    PROVE  Spec => []Settled
<1>1. Basis /\ SettledOK /\ NoLostWakeup /\ SelectOK => Settled
  <2> SUFFICES ASSUME Basis, SettledOK, NoLostWakeup, SelectOK, Idle, RunFlag PROVE Settled
    BY DEF Settled
  <2>1. /\ ClientsOK /\ PlayerInfoList = Range(ClientList)
        /\ \A n \in Range(ClientList) : client[n].Socket \in Sock
        /\ \A n : ~Freeing(n)
    BY DEF SettledOK, ClientsOK, Freeing, Idle
  <2>2. /\ PacketRecvList = <<>> /\ PacketSendList = <<>> /\ Todo = <<>>
        /\ asock = INVALID_SOCKET /\ Accepted = AcceptList /\ \A s \in Sock : ~Dropped(s)
    BY IdleEmpty
  <2>3. backlog = <<>>
    BY DEF SelectOK, Idle
  <2>4. (\A c \in Conn : peer[c] # "closed") => AcceptList = <<>>
    BY <2>1 DEF ClientsOK, AllHere, Idle
  <2>5. /\ ClientList \in Seq(Node) /\ SocketRecvList \in Seq(Sock) /\ SocketSendList \in Seq(Node)
        /\ Range(SocketRecvList) \subseteq Sock /\ Range(AcceptList) \subseteq Sock
        /\ Range(SocketSendList) \subseteq Node
    BY RangeIn DEF Basis, TypeOK, ServerTypeOK
  <2>6. IsInjective(ClientList) /\ IsInjective(SocketRecvList)
    BY Running DEF ClientPoolOK, ListedOnce
  <2>7. /\ \A n \in Range(ClientList) : client[n].Socket \in Range(SocketRecvList)
        /\ \A s \in Range(SocketRecvList) : \E n \in Range(ClientList) : client[n].Socket = s
    BY <2>1, IdlePolled
  <2>8. {client[n].Socket : n \in Range(ClientList)} = Range(SocketRecvList)
    BY <2>7
  <2>9. Len(ClientList) = Len(SocketRecvList)
    <3> DEFINE f == [n \in Range(ClientList) |-> client[n].Socket]
    <3>1. \A x, y \in Range(ClientList) : f[x] = f[y] => x = y
      BY <2>1, OneClient
    <3>2. \A x \in Range(ClientList) : f[x] \in Range(SocketRecvList)
      BY <2>7
    <3>3. \A z \in Range(SocketRecvList) : \E x \in Range(ClientList) : f[x] = z
      BY <2>7
    <3> HIDE DEF f
    <3> QED
      BY SMTT(30), <2>5, <2>6, <3>1, <3>2, <3>3, SameLength
  <2>10. ASSUME OneEnded
         PROVE  /\ Len(SocketSendList) = Len(SocketRecvList)
                /\ {sendNode[n].Socket : n \in Range(SocketSendList)} = Range(SocketRecvList)
    <3> DEFINE f == [m \in Range(SocketSendList) |-> sendNode[m].Socket]
    <3>1. IsInjective(SocketSendList) /\ PointersOK /\ ServedOnce
      BY <2>10 DEF SettledOK, SendListOK, PoolOK
    <3>2. \A m \in Range(SocketSendList) :
              /\ sendNode[m].pS2C \in Range(ClientList)
              /\ sendNode[m].Socket = client[sendNode[m].pS2C].Socket
      BY <2>1, <3>1 DEF PointersOK
    <3>3. \A x, y \in Range(SocketSendList) : f[x] = f[y] => x = y
      <4> SUFFICES ASSUME NEW x \in Range(SocketSendList), NEW y \in Range(SocketSendList),
                          sendNode[x].Socket = sendNode[y].Socket
                   PROVE  x = y
        OBVIOUS
      <4>1. sendNode[x].pS2C = sendNode[y].pS2C
        BY <2>1, <3>2, OneClient
      <4> QED
        BY <3>1, <4>1 DEF PointersOK
    <3>4. \A x \in Range(SocketSendList) : f[x] \in Range(SocketRecvList)
      BY <2>7, <3>2
    <3>5. \A z \in Range(SocketRecvList) : \E x \in Range(SocketSendList) : f[x] = z
      <4> SUFFICES ASSUME NEW z \in Range(SocketRecvList)
                   PROVE  \E x \in Range(SocketSendList) : sendNode[x].Socket = z
        OBVIOUS
      <4>1. PICK n \in Range(ClientList) : client[n].Socket = z
        BY <2>7
      <4>2. PICK m \in Node : PointsTo(m, n)
        BY <2>1, <2>2, <2>5, <3>1, <4>1 DEF ServedOnce, Served, Idle
      <4> QED
        BY <3>2, <4>1, <4>2 DEF PointsTo
    <3>6. {sendNode[n].Socket : n \in Range(SocketSendList)} = Range(SocketRecvList)
      BY <3>4, <3>5
    <3> HIDE DEF f
    <3> QED
      BY <2>5, <2>6, <3>1, <3>3, <3>4, <3>5, <3>6, SameLength
  <2>11. {s \in Sock : owner[s] # NoConn} = Range(SocketRecvList) \union Range(AcceptList)
    <3>1. ASSUME NEW s \in Sock, owner[s] # NoConn
          PROVE  s \in Range(SocketRecvList) \union Range(AcceptList)
      <4>1. InHands(s)
        BY <3>1 DEF Basis, HandlesOK
      <4> QED
        BY <2>2, <2>7, <4>1, ConnAssumption DEF InHands
    <3>2. ASSUME NEW s \in Range(SocketRecvList) \union Range(AcceptList)
          PROVE  s \in Sock /\ owner[s] # NoConn
      BY <2>2, <2>5, PlacedOnce, ConnAssumption
    <3> QED
      BY <3>1, <3>2
  <2> QED
    BY <2>1, <2>2, <2>3, <2>4, <2>8, <2>9, <2>10, <2>11 DEF Settled
<1> QED
  BY <1>1, SettledInvariant, PTL

=============================================================================

---------------------------- MODULE Numbers_proofs ----------------------------
(* The order numbers the clients see, as long as all of them stay.           *)
EXTENDS Order_proofs

AllHere == \A c \in Conn : peer[c] # "closed"

\* While all stay no handle is closed, so each one accept() returned is being
\* accepted, waits in AcceptList or is polled, once.
HeldOK ==
    /\ \A s \in Sock : asock = s \/ s \in Range(Accepted) \/ s \in Range(SocketRecvList)
                         => owner[s] # NoConn
    /\ asock \notin Range(Accepted) \union Range(SocketRecvList)
    /\ Range(Accepted) \intersect Range(SocketRecvList) = {}
    /\ IsInjective(Accepted) /\ IsInjective(SocketRecvList)

\* The main thread drops no client, and each notice or packet bears the handle of
\* a connection.
OpenInfo == {m \in RecvPacketInfo : /\ m.ActionType # "RELEASE"
                                    /\ m.Socket \in Sock /\ owner[m.Socket] # NoConn}
NoticesOK == mpc \notin {"notice", "awakeFree"} /\ PacketRecvList \in Seq(OpenInfo)

\* It receives only from clients that sent something: select never fails.
HasSent(h) == h \in Sock => owner[h] # NoConn /\ inbox[owner[h]] # <<>>
SelectOnlySent ==
    /\ ListenSocket = ListenHandle
    /\ mpc \in {"drain", "drainAwake"} => \A h \in fds_read : Valid(h)
    /\ mpc = "select" => \A h \in completed : HasSent(h)
    /\ mpc \in {"awakeAccept", "scan", "awakeRecv"} =>
           \A i \in cur .. Len(SocketRecvList) :
               SocketRecvList[i] \in fds_read => HasSent(SocketRecvList[i])

\* A send node, or an entry of the cache, names a client node and its handle.
NamesClient(e) == e.pS2C \in Range(ClientList) /\ e.Socket = client[e.pS2C].Socket
SendersOK ==
    /\ gpc = "linkSend" => gclient \in Range(ClientList) /\ client[gclient].Socket = node.Socket
    /\ \A n \in Range(SocketSendList) : NamesClient(sendNode[n])
    /\ \A i \in DOMAIN SocketSendCache : NamesClient(SocketSendCache[i])

\* The order number of each client node is that of the last packet its client saw.
ConnOf(n) == owner[client[n].Socket]
CountsOK ==
    /\ \A n \in Range(ClientList) :
           /\ client[n].Socket \in Sock /\ ConnOf(n) # NoConn
           /\ client[n].S2C = Len(seen[ConnOf(n)]) % WordSize
    /\ \A m, n \in Range(ClientList) : client[m].Socket = client[n].Socket => m = n
    /\ \A c \in Conn : (\A n \in Range(ClientList) : ConnOf(n) # c) => seen[c] = <<>>
    /\ \A c \in Conn : \A i \in DOMAIN seen[c] : seen[c][i].num = i % WordSize

ServedOK == /\ HeldOK
            /\ RunFlag => NoticesOK /\ SelectOnlySent
            /\ SendersOK /\ CountsOK
StayOK == AllHere => PoolOK /\ ServedOK

-----------------------------------------------------------------------------
(* What the steps that matter here change.                                   *)

\* Handles keep their connections, and no packet a client sent is lost.
OwnersKept == \A s \in Sock : owner[s] # NoConn => owner'[s] = owner[s]
WorldGrows ==
    /\ OwnersKept
    /\ \A s \in Sock : owner[s] # NoConn /\ inbox[owner[s]] # <<>> => inbox'[owner[s]] # <<>>

\* A client that has left does not come back.
LEMMA ClosedStays ==
    ASSUME TypeOK, [Next]_vars, AllHere'
    PROVE  AllHere
<1>1. ASSUME NEW C, Disconnect(C) PROVE AllHere
  BY <1>1 DEF Disconnect, AllHere
<1>2. CASE Clients
  BY <1>2 DEF Clients, ClientStep, ClientConnect, ClientSend, ClientClose, AllHere, TypeOK,
     NetTypeOK
<1>3. CASE MinutePasses \/ SendStep \/ UNCHANGED vars
  <2>1. UNCHANGED peer
    BY <1>3 DEF MinutePasses, SendStep, SendOuter, SendWait, SendReset, SendGet, SendCopy,
       SendOne, SendDone, sendFrame, vars, netVars, clientVars
  <2> QED
    BY <2>1 DEF AllHere
<1>4. CASE MainStep
  <2>1. UNCHANGED peer \/ \E C : Disconnect(C)
    BY <1>4, SMTT(40) DEF MainStep, SelectBlocking, TimedMode, LeaveLoop, DrainAcceptList, DrainAwake,
       SelectTimed, SelectDone, AwakeAccept, RecvPacket, AwakeRecv, RecvFail, NoticeFree,
       AwakeFree, GameAwake, Release, SelectCall, SelectReturn, CloseHandles, netVars,
       clientVars
  <2> QED
    BY <1>1, <2>1 DEF AllHere
<1>5. CASE AcceptStep
  <2>1. UNCHANGED peer \/ \E C : Disconnect(C)
    BY <1>5, SMTT(40) DEF AcceptStep, AcceptOuter, AcceptWait, AcceptReset, PollNothing, PollStopped,
       PollAccept, PollError, AcceptFull, AcceptLink, AcceptCheck, AcceptClearFlag,
       CloseHandles, netVars, clientVars
  <2> QED
    BY <1>1, <2>1 DEF AllHere
<1>6. CASE GameStep
  <2>1. UNCHANGED peer \/ \E C : Disconnect(C)
    BY <1>6 DEF GameStep, GameOuter, GameWait, GameReset, GameEmpty, CreateClientNode,
       LinkSendNode, FreeClientNode, ScanSendNode, FreePlayerAndClose, UnlinkClient,
       NoClientNode, PacketInOrder, PacketOutOfOrder, AwakeSend, CloseTimedOut, CheckClientAlive, ServerExit,
       ExitCloseListen, ExitAwakeAccept, ExitAwake, CloseHandles, CloseListenSocket, netVars,
       clientVars
  <2> QED
    BY <1>1, <2>1 DEF AllHere
<1> QED
  BY <1>2, <1>3, <1>4, <1>5, <1>6 DEF Next

\* When all stay, what is closed was not open.
LEMMA ClosesNone ==
    ASSUME TypeOK, AllHere', NEW H, CloseHandles(H)
    PROVE  UNCHANGED netVars /\ \A s \in H \intersect Sock : owner[s] = NoConn
<1> DEFINE closing == {s \in H \intersect Sock : owner[s] # NoConn}
           hit == closing \intersect fds_read
<1>1. /\ owner' = [s \in Sock |-> IF s \in H THEN NoConn ELSE owner[s]]
      /\ Disconnect({owner[s] : s \in closing})
      /\ IF selecting /\ completed = {} /\ hit # {}
           THEN completed' \in {hit, fds_read} ELSE UNCHANGED completed
      /\ UNCHANGED <<backlog, sent, ListenSocket, fds_read, selecting>>
  BY DEF CloseHandles
<1>2. ASSUME NEW s \in closing PROVE FALSE
  <2>1. owner[s] \in Conn
    BY DEF TypeOK, NetTypeOK
  <2>2. peer'[owner[s]] = "closed"
    BY <1>1, <2>1 DEF Disconnect
  <2> QED
    BY <2>1, <2>2 DEF AllHere
<1>3. closing = {} /\ hit = {} /\ {owner[s] : s \in closing} = {}
  BY <1>2
<1> HIDE DEF closing, hit
<1>4. UNCHANGED completed
  BY <1>1, <1>3
<1>5. owner' = owner
  BY <1>1, <1>3 DEF TypeOK, NetTypeOK, closing
<1>6. UNCHANGED <<peer, inbox, C2S_Number, seen>>
  BY <1>1, <1>3 DEF Disconnect, TypeOK, NetTypeOK
<1> QED
  BY <1>1, <1>3, <1>4, <1>5, <1>6 DEF netVars, clientVars, selectVars, closing

LEMMA OpenInfoKept == ASSUME OwnersKept PROVE OpenInfo \subseteq OpenInfo'
BY DEF OwnersKept, OpenInfo

LEMMA HasSentKept ==
    ASSUME WorldGrows, NEW h, HasSent(h)
    PROVE  HasSent(h)'
BY DEF WorldGrows, OwnersKept, HasSent

LEMMA HeldSame ==
    ASSUME HeldOK, OwnersKept, UNCHANGED <<asock, SocketRecvList>>, Accepted' = Accepted
    PROVE  HeldOK'
BY DEF HeldOK, OwnersKept

LEMMA CountsSame ==
    ASSUME CountsOK, OwnersKept, UNCHANGED <<ClientList, seen>>,
           \A n \in Range(ClientList) : /\ client'[n].Socket = client[n].Socket
                                        /\ client'[n].S2C = client[n].S2C
    PROVE  CountsOK'
<1>1. \A n \in Range(ClientList) : ConnOf(n)' = ConnOf(n)
  BY DEF CountsOK, OwnersKept, ConnOf
<1>2. Range(ClientList') = Range(ClientList)
  OBVIOUS
<1> QED
  BY <1>1, <1>2 DEF CountsOK

\* The send nodes and their copies, while no node is linked or changed.
LEMMA SendersSame ==
    ASSUME SendersOK, UNCHANGED <<SocketSendList, SocketSendCache, sendNode, ClientList>>,
           \A n \in Range(ClientList) : client'[n].Socket = client[n].Socket,
           gpc' = "linkSend" => gpc = "linkSend" /\ gclient' = gclient /\ node' = node
    PROVE  SendersOK'
<1>1. \A e : NamesClient(e) => NamesClient(e)'
  BY DEF NamesClient
<1>2. Range(ClientList') = Range(ClientList)
  OBVIOUS
<1> QED
  BY <1>1, <1>2 DEF SendersOK
\* A select that is pending, and the clients it has still to receive from.
LEMMA SelectSame ==
    ASSUME SelectOnlySent, WorldGrows,
           UNCHANGED <<ListenSocket, mpc, fds_read, cur, SocketRecvList>>,
           completed' = completed \/ \A h \in completed' : HasSent(h)'
    PROVE  SelectOnlySent'
<1>1. \A h : HasSent(h) => HasSent(h)'
  BY HasSentKept
<1>2. \A h : Valid(h) => Valid(h)'
  BY DEF Valid, WorldGrows, OwnersKept
<1>3. CASE mpc \in {"drain", "drainAwake"}
  BY <1>2, <1>3 DEF SelectOnlySent
<1>4. CASE mpc = "select"
  BY <1>1, <1>4 DEF SelectOnlySent
<1>5. CASE mpc \notin {"drain", "drainAwake", "select"}
  BY <1>1, <1>5 DEF SelectOnlySent
<1> QED
  BY <1>3, <1>4, <1>5

\* Steps of others while the main thread neither links nor drops anything.
LEMMA NoticesSame ==
    ASSUME NoticesOK, OwnersKept, UNCHANGED mpc,
           PacketRecvList' = PacketRecvList \/ (/\ PacketRecvList # <<>>
                                                /\ PacketRecvList' = Tail(PacketRecvList))
    PROVE  NoticesOK'
<1>1. PacketRecvList' \in Seq(OpenInfo)
  BY TailIn DEF NoticesOK
<1> QED
  BY <1>1, OpenInfoKept, SeqMonotonic DEF NoticesOK

\* At most the head of PacketRecvList goes.
LEMMA ElsewhereServed ==
    ASSUME ServedOK, UNCHANGED <<netVars, asock, AcceptList, SocketRecvList, mpc, cur,
                                 SocketSendList, SocketSendCache, sendNode, ClientList>>,
           RunFlag' => RunFlag,
           \A n \in Range(ClientList) : /\ client'[n].Socket = client[n].Socket
                                        /\ client'[n].S2C = client[n].S2C,
           gpc' = "linkSend" => gpc = "linkSend" /\ gclient' = gclient /\ node' = node,
           PacketRecvList' = PacketRecvList \/ (/\ PacketRecvList # <<>>
                                                /\ PacketRecvList' = Tail(PacketRecvList))
    PROVE  ServedOK'
<1>1. WorldGrows /\ OwnersKept /\ UNCHANGED <<ListenSocket, fds_read, completed, seen>>
  BY DEF WorldGrows, OwnersKept, netVars, clientVars, selectVars
<1>2. Accepted' = Accepted
  BY DEF Accepted
<1>3. HeldOK'
  BY <1>1, <1>2, HeldSame DEF ServedOK
<1>4. RunFlag' => NoticesOK' /\ SelectOnlySent'
  BY <1>1, NoticesSame, SelectSame DEF ServedOK
<1>5. SendersOK'
  BY SendersSame DEF ServedOK
<1>6. CountsOK'
  BY <1>1, CountsSame DEF ServedOK
<1> QED
  BY <1>3, <1>4, <1>5, <1>6 DEF ServedOK

LEMMA ClientsServed ==
    ASSUME TypeOK, AllHere', ServedOK, Clients
    PROVE  ServedOK'
<1> USE DEF ServedOK
<1>1. UNCHANGED <<asock, AcceptList, SocketRecvList, RunFlag, mpc, cur, PacketRecvList,
                  SocketSendList, SocketSendCache, sendNode, ClientList, client, gpc, gclient>>
  BY DEF Clients, serverVars, acceptVars, recvListVars, flagVars, mainVars, queueVars,
     sendListVars, clientListVars, gameVars
<1>2. PICK c \in Conn : ClientConnect(c) \/ ClientSend(c) \/ ClientClose(c)
  BY DEF Clients, ClientStep
<1>3. ~ClientClose(c)
  BY DEF ClientClose, AllHere, TypeOK, NetTypeOK
<1>4. UNCHANGED <<owner, ListenSocket, fds_read, seen>>
  BY <1>2, <1>3 DEF ClientConnect, ClientSend
<1>5. UNCHANGED inbox \/ \E p : inbox' = [inbox EXCEPT ![c] = Append(@, p)]
  BY <1>2, <1>3 DEF ClientConnect, ClientSend
<1>6. \A d \in Conn : inbox[d] # <<>> => inbox'[d] # <<>>
  BY <1>5, AppendNotEmpty DEF TypeOK, NetTypeOK
<1>7. WorldGrows /\ OwnersKept
  BY <1>4, <1>6 DEF WorldGrows, OwnersKept, TypeOK, NetTypeOK
<1>8. completed' = completed \/ \A h \in completed' : HasSent(h)'
  <2>1. CASE ClientConnect(c)
    BY <2>1, ConnAssumption DEF ClientConnect, Arrive, HasSent
  <2>2. CASE ClientSend(c)
    <3>1. completed' = completed \/ completed' \subseteq HandlesOf(c)
      BY <2>2 DEF ClientSend, Arrive
    <3>2. PICK p : inbox' = [inbox EXCEPT ![c] = Append(@, p)]
      BY <2>2 DEF ClientSend
    <3>3. inbox'[c] # <<>>
      BY <3>2, AppendNotEmpty DEF TypeOK, NetTypeOK
    <3>4. \A h \in HandlesOf(c) : HasSent(h)'
      BY <1>4, <3>3, ConnAssumption DEF HandlesOf, HasSent
    <3> QED
      BY <3>1, <3>4
  <2> QED
    BY <1>2, <1>3, <2>1, <2>2
<1>9. HeldOK'
  BY <1>1, <1>7, HeldSame DEF Accepted
<1>10. RunFlag' => NoticesOK' /\ SelectOnlySent'
  BY <1>1, <1>4, <1>7, <1>8, NoticesSame, SelectSame
<1>11. SendersOK'
  BY <1>1, SendersSame DEF node
<1>12. CountsOK'
  BY <1>1, <1>4, <1>7, CountsSame
<1> QED
  BY <1>9, <1>10, <1>11, <1>12
-----------------------------------------------------------------------------
(* The main thread.                                                          *)

\* It takes the next accepted connection into SocketRecvList.
LEMMA MovedHeld ==
    ASSUME TypeOK, InHand, HeldOK, UNCHANGED <<asock, owner>>,
           mpc = "drain", mpc' = "drainAwake", AcceptList # <<>>, UNCHANGED AcceptList,
           SocketRecvList' = Append(SocketRecvList, Head(AcceptList))
    PROVE  HeldOK' /\ Head(AcceptList) \in Sock /\ owner[Head(AcceptList)] # NoConn
<1> DEFINE h == Head(AcceptList)
<1>1. Accepted = AcceptList /\ Accepted' = Tail(AcceptList)
  BY DEF Accepted
<1>2. AcceptList \in Seq(Sock) /\ SocketRecvList \in Seq(Sock)
  BY DEF TypeOK, ServerTypeOK
<1>3. /\ h \in Range(AcceptList) /\ Range(Tail(AcceptList)) = Range(AcceptList) \ {h}
      /\ IsInjective(Tail(AcceptList))
  BY <1>1, <1>2, HeadLeaves DEF HeldOK
<1>4. h \in Sock /\ owner[h] # NoConn /\ h # asock /\ h \notin Range(SocketRecvList)
  BY <1>1, <1>2, <1>3, TailParts DEF HeldOK
<1> HIDE DEF h
<1>5. /\ IsInjective(SocketRecvList')
      /\ Range(SocketRecvList') = Range(SocketRecvList) \union {h}
  BY <1>2, <1>4, AppendFresh DEF HeldOK, h
<1>6. HeldOK'
  BY <1>1, <1>3, <1>4, <1>5 DEF HeldOK
<1> QED
  BY <1>4, <1>6 DEF h

\* recv() took one packet; the other clients still have theirs.
LEMMA ReceivedSelect ==
    ASSUME TypeOK, WorldOK, HeldOK, SelectOnlySent, RecvPacket
    PROVE  SelectOnlySent'
<1>1. PICK i \in 1 .. Len(SocketRecvList) :
          /\ IsNext(i)
          /\ inbox' = [inbox EXCEPT ![owner[SocketRecvList[i]]] = Tail(@)]
          /\ cur' = i + 1
  BY DEF RecvPacket
<1>2. /\ mpc = "scan" /\ mpc' = "awakeRecv"
      /\ UNCHANGED <<owner, ListenSocket, fds_read, SocketRecvList>>
  BY DEF RecvPacket, selectVars, recvListVars
<1>3. i >= cur /\ cur \in Nat
  BY <1>1 DEF IsNext, Pending, TypeOK, ServerTypeOK
<1>4. SocketRecvList \in Seq(Sock) /\ Len(SocketRecvList) \in Nat
      /\ DOMAIN SocketRecvList = 1 .. Len(SocketRecvList)
  BY LenProperties DEF TypeOK, ServerTypeOK
<1>5. ASSUME NEW j \in i + 1 .. Len(SocketRecvList), SocketRecvList[j] \in fds_read
      PROVE  HasSent(SocketRecvList[j])'
  <2>1. j \in cur .. Len(SocketRecvList) /\ j \in 1 .. Len(SocketRecvList) /\ j # i
    BY <1>3, <1>4
  <2>2. /\ SocketRecvList[i] \in Sock /\ SocketRecvList[j] \in Sock
        /\ SocketRecvList[i] # SocketRecvList[j]
    BY <1>4, <2>1, ElementOfSeq DEF HeldOK, IsInjective
  <2>3. HasSent(SocketRecvList[j])
    BY <1>2, <1>5, <2>1 DEF SelectOnlySent
  <2>4. owner[SocketRecvList[j]] # owner[SocketRecvList[i]] /\ owner[SocketRecvList[j]] \in Conn
    BY <2>2, <2>3 DEF WorldOK, HasSent, TypeOK, NetTypeOK
  <2>5. inbox'[owner[SocketRecvList[j]]] = inbox[owner[SocketRecvList[j]]]
    BY <1>1, <2>4 DEF TypeOK, NetTypeOK
  <2> QED
    BY <1>2, <2>2, <2>3, <2>5 DEF HasSent
<1> QED
  BY <1>1, <1>2, <1>5 DEF SelectOnlySent

\* While all stay and the server runs, it drops no client.
LEMMA NothingDropped ==
    ASSUME TypeOK, SelectOnlySent, NoticesOK
    PROVE  ~RecvFail /\ ~NoticeFree /\ ~AwakeFree
<1>1. ~NoticeFree /\ ~AwakeFree
  BY DEF NoticesOK, NoticeFree, AwakeFree
<1>2. ASSUME RecvFail PROVE FALSE
  <2>1. PICK i \in 1 .. Len(SocketRecvList) :
            /\ IsNext(i)
            /\ owner[SocketRecvList[i]] # NoConn => inbox[owner[SocketRecvList[i]]] = <<>>
    BY <1>2 DEF RecvFail
  <2>2. SocketRecvList[i] \in Sock
    BY ElementOfSeq DEF TypeOK, ServerTypeOK
  <2>3. HasSent(SocketRecvList[i])
    BY <1>2, <2>1 DEF RecvFail, IsNext, Pending, SelectOnlySent
  <2> QED
    BY <2>1, <2>2, <2>3 DEF HasSent
<1> QED
  BY <1>1, <1>2

\* select() fails on no handle, and reports those that sent something.
LEMMA SelectCallSent ==
    ASSUME TypeOK, AllHere, NEW H, \A h \in H : Valid(h), SelectCall(H)
    PROVE  \A h \in completed' : HasSent(h)'
<1>1. completed' = {h \in H : Readable(h)} /\ UNCHANGED <<owner, inbox>>
  BY DEF SelectCall, clientVars
<1>2. ASSUME NEW h \in completed', h \in Sock PROVE owner[h] # NoConn /\ inbox[owner[h]] # <<>>
  <2>1. h # ListenHandle /\ Valid(h) /\ Readable(h)
    BY <1>1, <1>2, ConnAssumption
  <2>2. owner[h] # NoConn /\ owner[h] \in Conn
    BY <1>2, <2>1 DEF Valid, TypeOK, NetTypeOK
  <2> QED
    BY <2>1, <2>2 DEF Readable, AllHere
<1> QED
  BY <1>1, <1>2 DEF HasSent

LEMMA ReadSetValid ==
    ASSUME TypeOK, HeldOK, ListenSocket = ListenHandle, NEW H, ReadSet(H), NEW h \in H
    PROVE  Valid(h)
<1>1. h = ListenSocket \/ h \in Range(SocketRecvList)
  BY ReadSetIn
<1>2. h \in Range(SocketRecvList) => h \in Sock /\ owner[h] # NoConn
  BY RangeIn DEF HeldOK, TypeOK, ServerTypeOK
<1> QED
  BY <1>1, <1>2 DEF Valid
\* A notice or packet about an open handle is linked.
LEMMA LinkedNotices ==
    ASSUME NoticesOK, OwnersKept, mpc' \notin {"notice", "awakeFree"}, NEW m,
           PacketRecvList' = Append(PacketRecvList, m), PacketRecvList' \in Seq(RecvPacketInfo),
           PacketRecvList \in Seq(RecvPacketInfo),
           m.ActionType # "RELEASE", m.Socket \in Sock, owner[m.Socket] # NoConn
    PROVE  NoticesOK'
<1>1. m \in OpenInfo
  BY AppendedIn DEF OpenInfo
<1>2. PacketRecvList' \in Seq(OpenInfo)
  BY <1>1 DEF NoticesOK
<1> QED
  BY <1>2, OpenInfoKept, SeqMonotonic DEF NoticesOK

LEMMA ReleaseServed ==
    ASSUME TypeOK, AllHere', ServedOK, Release
    PROVE  ServedOK'
<1> USE DEF ServedOK
<1>1. /\ mpc = "release" /\ mpc' = "done" /\ gpc = "done"
      /\ CloseHandles({client[ClientList[i]].Socket : i \in 1 .. Len(ClientList)})
      /\ client' = [n \in Node |-> IF n \in Range(ClientList) THEN FreeClient ELSE client[n]]
      /\ UNCHANGED <<asock, AcceptList, SocketRecvList, RunFlag, PacketRecvList,
                     SocketSendList, SocketSendCache, sendNode, ClientList, gpc, gclient>>
  BY DEF Release, acceptVars, recvListVars, flagVars, queueVars, sendListVars, gameVars
<1>2. /\ UNCHANGED netVars
      /\ \A i \in 1 .. Len(ClientList) :
             client[ClientList[i]].Socket \in Sock => owner[client[ClientList[i]].Socket] = NoConn
  BY <1>1, ClosesNone
<1>3. ASSUME NEW n \in Range(ClientList) PROVE FALSE
  <2>1. PICK i \in 1 .. Len(ClientList) : n = ClientList[i]
    BY LenProperties DEF Range, TypeOK, ServerTypeOK
  <2>2. client[n].Socket \in Sock /\ owner[client[n].Socket] # NoConn
    BY DEF CountsOK, ConnOf
  <2> QED
    BY <1>2, <2>1, <2>2
<1>4. OwnersKept /\ UNCHANGED <<ListenSocket, seen>> /\ Accepted' = Accepted
  BY <1>1, <1>2 DEF OwnersKept, netVars, clientVars, Accepted
<1>5. HeldOK' /\ SendersOK' /\ CountsOK'
  BY <1>1, <1>3, <1>4, HeldSame, SendersSame, CountsSame
<1>6. RunFlag' => NoticesOK' /\ SelectOnlySent'
  BY <1>1, <1>4, OpenInfoKept, SeqMonotonic DEF NoticesOK, SelectOnlySent
<1> QED
  BY <1>5, <1>6

LEMMA MainStepServed ==
    ASSUME TypeOK, InHand, TypeOK', WorldOK, AllHere, AllHere', PoolOK, ServedOK, MainStep
    PROVE  ServedOK'
<1> SUFFICES ASSUME ~Release PROVE ServedOK'
  BY ReleaseServed
<1> USE DEF ServedOK
<1>1. UNCHANGED <<RunFlag, asock, gpc, gclient, owner, ListenSocket, seen, ClientList, client,
                  SocketSendCache>>
  BY DEF MainStep, SelectBlocking, TimedMode, LeaveLoop, DrainAcceptList, DrainAwake,
     SelectTimed, SelectDone, AwakeAccept, RecvPacket, AwakeRecv, RecvFail, NoticeFree,
     AwakeFree, GameAwake, SelectCall, SelectReturn, netVars, clientVars, flagVars, acceptVars,
     gameVars, clientListVars, sendListVars
<1>2. OwnersKept
  BY <1>1 DEF OwnersKept
<1>3. CountsOK'
  BY <1>1, <1>2, CountsSame
<1>4. HeldOK'
  <2>1. CASE DrainAcceptList
    BY <1>1, <2>1, MovedHeld DEF DrainAcceptList
  <2>2. CASE RecvFail
    <3>1. PICK i \in 1 .. Len(SocketRecvList) : SocketRecvList' = RemoveAt(SocketRecvList, i)
      BY <2>2 DEF RecvFail
    <3>2. UNCHANGED AcceptList /\ mpc = "scan" /\ mpc' = "notice"
      BY <2>2 DEF RecvFail
    <3>3. Accepted' = Accepted
      BY <3>2 DEF Accepted
    <3>4. /\ IsInjective(SocketRecvList')
          /\ Range(SocketRecvList') \subseteq Range(SocketRecvList)
      BY <3>1, RemoveFresh DEF HeldOK, TypeOK, ServerTypeOK
    <3> QED
      BY <1>1, <3>3, <3>4 DEF HeldOK
  <2>3. CASE ~DrainAcceptList /\ ~RecvFail
    <3>1. UNCHANGED SocketRecvList /\ Accepted' = Accepted
      BY <2>3 DEF MainStep, SelectBlocking, TimedMode, LeaveLoop, DrainAwake, SelectTimed,
         SelectDone, AwakeAccept, RecvPacket, AwakeRecv, NoticeFree, AwakeFree, GameAwake,
         recvListVars, Accepted
    <3> QED
      BY <1>1, <1>2, <3>1, HeldSame
  <2> QED
    BY <2>1, <2>2, <2>3
<1>5. SendersOK'
  <2>1. gpc = "linkSend" => node' = node
    <3>1. UNCHANGED PacketRecvList \/ \E m : PacketRecvList' = Append(PacketRecvList, m)
      BY DEF MainStep, SelectBlocking, TimedMode, LeaveLoop, DrainAcceptList, DrainAwake,
         SelectTimed, SelectDone, AwakeAccept, RecvPacket, AwakeRecv, RecvFail, NoticeFree,
         AwakeFree, GameAwake, queueVars
    <3>2. gpc = "linkSend" => PacketRecvList # <<>>
      BY DEF InHand
    <3> QED
      BY <1>1, <3>1, <3>2, TodoLinked DEF node
  <2>2. CASE RecvFail
    <3>1. PICK i \in 1 .. Len(SocketRecvList) :
              UnlinkFreeSendNode(FirstWith(SocketSendList, sendNode, SocketRecvList[i]))
      BY <2>2 DEF RecvFail
    <3> DEFINE n == FirstWith(SocketSendList, sendNode, SocketRecvList[i])
    <3>2. /\ SocketSendList \in Seq(Node)
          /\ Range(SocketSendList) \subseteq Node
          /\ n = NoNode \/ n \in Range(SocketSendList)
      BY FirstWithFound, RangeIn DEF TypeOK, ServerTypeOK
    <3>3. /\ SocketSendList' = Unlink(SocketSendList, n)
          /\ \A m \in Node : m # n => sendNode'[m] = sendNode[m]
      BY <3>1 DEF UnlinkFreeSendNode
    <3> HIDE DEF n
    <3>4. Range(SocketSendList') \subseteq Range(SocketSendList) \ {n}
      <4>1. CASE n \in Range(SocketSendList)
        BY <3>2, <3>3, <4>1, UnlinkLinked DEF PoolOK
      <4>2. CASE n \notin Range(SocketSendList)
        BY <3>3, <4>2 DEF Unlink
      <4> QED
        BY <4>1, <4>2
    <3>5. \A m \in Range(SocketSendList') : NamesClient(sendNode[m]) /\ sendNode'[m] = sendNode[m]
      BY <3>2, <3>3, <3>4 DEF SendersOK
    <3> QED
      BY <1>1, <2>1, <3>5 DEF SendersOK, NamesClient
  <2>3. CASE ~RecvFail
    <3>1. UNCHANGED <<SocketSendList, sendNode>>
      BY <2>3 DEF MainStep, SelectBlocking, TimedMode, LeaveLoop, DrainAcceptList, DrainAwake,
         SelectTimed, SelectDone, AwakeAccept, RecvPacket, AwakeRecv, NoticeFree, AwakeFree,
         GameAwake, sendListVars
    <3> QED
      BY <1>1, <2>1, <3>1, SendersSame
  <2> QED
    BY <2>2, <2>3
<1>6. ASSUME RunFlag PROVE NoticesOK' /\ SelectOnlySent'
  <2>1. NoticesOK /\ SelectOnlySent /\ ~RecvFail /\ ~NoticeFree /\ ~AwakeFree
    BY <1>6, NothingDropped
  <2>2. PacketRecvList \in Seq(RecvPacketInfo) /\ PacketRecvList' \in Seq(RecvPacketInfo)
    BY DEF TypeOK, ServerTypeOK
  <2>3. CASE DrainAcceptList
    <3>1. /\ Head(AcceptList) \in Sock /\ owner[Head(AcceptList)] # NoConn
          /\ mpc = "drain" /\ mpc' = "drainAwake" /\ UNCHANGED <<fds_read, ListenSocket>>
      BY <1>1, <2>3, MovedHeld DEF DrainAcceptList, netVars, selectVars
    <3>2. PICK m : /\ PacketRecvList' = Append(PacketRecvList, m)
                   /\ m.ActionType # "RELEASE" /\ m.Socket = Head(AcceptList)
      BY <2>3 DEF DrainAcceptList
    <3>3. NoticesOK'
      BY <1>2, <2>1, <2>2, <3>1, <3>2, LinkedNotices
    <3>4. SelectOnlySent'
      BY <1>1, <2>1, <3>1 DEF SelectOnlySent, Valid
    <3> QED
      BY <3>3, <3>4
  <2>4. CASE RecvPacket
    <3>1. PICK i \in 1 .. Len(SocketRecvList) :
              /\ owner[SocketRecvList[i]] # NoConn
              /\ PacketRecvList' = Append(PacketRecvList,
                    [ActionType |-> "PACKET", Socket |-> SocketRecvList[i],
                     packet |-> Head(inbox[owner[SocketRecvList[i]]])])
      BY <2>4 DEF RecvPacket
    <3>2. SocketRecvList[i] \in Sock /\ mpc' = "awakeRecv"
      BY <2>4, ElementOfSeq DEF TypeOK, ServerTypeOK, RecvPacket
    <3>3. PICK m : /\ PacketRecvList' = Append(PacketRecvList, m)
                   /\ m.ActionType # "RELEASE" /\ m.Socket = SocketRecvList[i]
      BY <3>1
    <3>4. NoticesOK'
      BY <1>2, <2>1, <2>2, <3>1, <3>2, <3>3, LinkedNotices
    <3> QED
      BY <2>1, <2>4, <3>4, ReceivedSelect
  <2>5. CASE ~DrainAcceptList /\ ~RecvPacket
    <3>1. UNCHANGED <<PacketRecvList, inbox>> /\ mpc' \notin {"notice", "awakeFree"}
      BY <2>1, <2>5 DEF MainStep, SelectBlocking, TimedMode, LeaveLoop, DrainAwake, SelectTimed,
         SelectDone, AwakeAccept, AwakeRecv, GameAwake, SelectCall, SelectReturn, queueVars,
         netVars, clientVars
    <3>2. NoticesOK'
      BY <1>2, <2>1, <3>1, OpenInfoKept, SeqMonotonic DEF NoticesOK
    <3>3. CASE SelectBlocking
      <4>1. PICK H : ReadSet(H) /\ SelectCall(H)
        BY <3>3 DEF SelectBlocking
      <4>2. \A h \in completed' : HasSent(h)'
        BY <2>1, <4>1, ReadSetValid, SelectCallSent DEF SelectOnlySent
      <4> QED
        BY <1>1, <2>1, <3>2, <3>3, <4>2 DEF SelectBlocking, SelectOnlySent
    <3>4. CASE SelectTimed
      <4>1. \A h \in completed' : HasSent(h)'
        BY <2>1, <3>4, SelectCallSent DEF SelectTimed, SelectOnlySent
      <4> QED
        BY <1>1, <2>1, <3>2, <3>4, <4>1 DEF SelectTimed, SelectOnlySent
    <3>5. CASE TimedMode
      <4>1. \A h \in fds_read' : Valid(h)'
        BY <1>1, <2>1, <3>5, ReadSetValid DEF TimedMode, SelectOnlySent, Valid
      <4> QED
        BY <1>1, <2>1, <3>2, <3>5, <4>1 DEF TimedMode, SelectOnlySent
    <3>6. CASE SelectDone
      <4>1. /\ mpc = "select" /\ mpc' \in {"awakeAccept", "scan"}
            /\ fds_read' = completed
        BY <3>6 DEF SelectDone, SelectReturn
      <4>2. \A h \in fds_read' : HasSent(h)'
        BY <1>1, <2>1, <3>1, <4>1 DEF SelectOnlySent, HasSent
      <4> QED
        BY <1>1, <2>1, <3>2, <4>1, <4>2 DEF SelectOnlySent
    <3>7. CASE DrainAwake \/ AwakeAccept \/ AwakeRecv \/ LeaveLoop
      <4>1. /\ UNCHANGED <<fds_read, cur, SocketRecvList>>
            /\ \/ mpc = "drainAwake" /\ mpc' = "drain"
               \/ mpc \in {"awakeAccept", "awakeRecv"} /\ mpc' = "scan"
               \/ mpc' = "release"
        BY <3>7 DEF DrainAwake, AwakeAccept, AwakeRecv, LeaveLoop, GameAwake, netVars,
           selectVars, recvListVars
      <4> QED
        BY <1>1, <2>1, <3>1, <3>2, <4>1 DEF SelectOnlySent, HasSent, Valid
    <3> QED
      BY <2>1, <2>5, <3>2, <3>3, <3>4, <3>5, <3>6, <3>7 DEF MainStep
  <2> QED
    BY <2>3, <2>4, <2>5
<1> QED
  BY <1>1, <1>3, <1>4, <1>5, <1>6
-----------------------------------------------------------------------------
(* The accept thread.                                                        *)

LEMMA AcceptStepServed ==
    ASSUME TypeOK, InHand, AllHere, AllHere', ServedOK, AcceptStep
    PROVE  ServedOK'
<1> USE DEF ServedOK
<1>1. UNCHANGED <<RunFlag, SocketRecvList, mpc, cur, PacketRecvList, SocketSendList,
                  SocketSendCache, sendNode, ClientList, client, gpc, gclient>>
  BY DEF AcceptStep, AcceptOuter, AcceptWait, AcceptReset, PollNothing, PollStopped, PollAccept,
     PollError, AcceptFull, AcceptLink, AcceptCheck, AcceptClearFlag, acceptFrame, queueVars,
     clientListVars, sendListVars, mainVars, gameVars
<1>2. AcceptList \in Seq(Sock) /\ Accepted \in Seq(Sock) /\ backlog \in Seq(Conn)
  BY TailIn DEF Accepted, InHand, TypeOK, ServerTypeOK, NetTypeOK
<1>3. CASE PollAccept
  <2>1. PICK h \in Sock : /\ owner[h] = NoConn /\ asock' = h
                          /\ owner' = [owner EXCEPT ![h] = Head(backlog)]
    BY <1>3 DEF PollAccept
  <2>2. /\ backlog # <<>>
        /\ UNCHANGED <<inbox, seen, AcceptList, ListenSocket, fds_read, completed>>
    BY <1>3 DEF PollAccept, selectVars
  <2>3. owner'[h] = Head(backlog) /\ \A s \in Sock : s # h => owner'[s] = owner[s]
    BY <2>1 DEF TypeOK, NetTypeOK
  <2>4. Head(backlog) \in Conn /\ Head(backlog) # NoConn
    BY <1>2, <2>2, TailParts, ConnAssumption
  <2>5. OwnersKept /\ WorldGrows
    BY <2>1, <2>2, <2>3 DEF OwnersKept, WorldGrows
  <2>6. Accepted' = Accepted /\ node' = node
    BY <1>1, <2>2 DEF Accepted, node
  <2>7. h \notin Range(Accepted) /\ h \notin Range(SocketRecvList)
    BY <2>1 DEF HeldOK
  <2>8. HeldOK'
    BY <1>1, <2>1, <2>3, <2>4, <2>6, <2>7 DEF HeldOK
  <2>9. RunFlag' => NoticesOK' /\ SelectOnlySent'
    BY <1>1, <2>2, <2>5, NoticesSame, SelectSame
  <2>10. SendersOK'
    BY <1>1, <2>6, SendersSame
  <2>11. CountsOK'
    BY <1>1, <2>2, <2>5, CountsSame
  <2> QED
    BY <2>8, <2>9, <2>10, <2>11
<1>4. CASE AcceptFull
  <2>1. asock \in Sock /\ owner[asock] # NoConn
    BY <1>4 DEF AcceptFull, InHand, HeldOK
  <2>2. CloseHandles({asock})
    BY <1>4 DEF AcceptFull
  <2> QED
    BY <2>1, <2>2, ClosesNone
<1>5. CASE PollError
  BY <1>2, <1>5, TailParts DEF PollError, AllHere
<1>6. CASE AcceptLink
  <2>1. /\ asock \in Sock /\ asock' = INVALID_SOCKET /\ AcceptList' = Append(AcceptList, asock)
        /\ UNCHANGED netVars
    BY <1>6 DEF AcceptLink, InHand
  <2>2. Accepted' = Append(Accepted, asock)
    BY <1>1, <1>2, <2>1, HeadTailAppend DEF Accepted, InHand
  <2>3. /\ asock \notin Range(Accepted) /\ asock \notin Range(SocketRecvList)
        /\ owner[asock] # NoConn
    BY <2>1 DEF HeldOK
  <2>4. IsInjective(Accepted') /\ Range(Accepted') = Range(Accepted) \union {asock}
    BY <1>2, <2>1, <2>2, <2>3, AppendFresh DEF HeldOK
  <2>5. INVALID_SOCKET \notin Range(Accepted') \union Range(SocketRecvList)
    BY <1>2, <2>1, <2>4, RangeIn, ConnAssumption DEF TypeOK, ServerTypeOK
  <2>6. UNCHANGED <<owner, inbox, seen, ListenSocket, fds_read, completed>>
    BY <2>1 DEF netVars, clientVars, selectVars
  <2>7. HeldOK'
    BY <1>1, <2>1, <2>3, <2>4, <2>5, <2>6, ConnAssumption DEF HeldOK
  <2>8. OwnersKept /\ WorldGrows /\ node' = node
    BY <1>1, <2>6 DEF OwnersKept, WorldGrows, node
  <2>9. RunFlag' => NoticesOK' /\ SelectOnlySent'
    BY <1>1, <2>6, <2>8, NoticesSame, SelectSame
  <2>10. SendersOK' /\ CountsOK'
    BY <1>1, <2>6, <2>8, SendersSame, CountsSame
  <2> QED
    BY <2>7, <2>9, <2>10
<1>7. CASE ~(PollAccept \/ PollError \/ AcceptFull \/ AcceptLink)
  <2>1. UNCHANGED <<netVars, asock, AcceptList>>
    BY <1>7 DEF AcceptStep, AcceptOuter, AcceptWait, AcceptReset, PollNothing, PollStopped,
       AcceptCheck, AcceptClearFlag
  <2> QED
    BY <1>1, <2>1, ElsewhereServed DEF node
<1> QED
  BY <1>3, <1>4, <1>5, <1>6, <1>7

-----------------------------------------------------------------------------
(* The send thread.                                                          *)

LEMMA CountOneMore ==
    ASSUME NEW k \in Nat
    PROVE  Inc(k % WordSize) = (k + 1) % WordSize
<1> DEFINE q == k \div WordSize
           r == k % WordSize
<1>1. WordSize \in Nat /\ WordSize > 1
  BY WordSizeAssumption
<1>2. q \in Int /\ r \in 0 .. WordSize - 1 /\ k = WordSize * q + r
  BY <1>1
<1> HIDE DEF q, r
<1>3. CASE r + 1 < WordSize
  <2>1. (r + 1) % WordSize = r + 1
    BY <1>1, <1>2, <1>3
  <2>2. k + 1 = WordSize * q + (r + 1)
    BY <1>1, <1>2
  <2>3. (k + 1) % WordSize = r + 1
    BY <1>1, <1>2, <1>3, <2>2
  <2> QED
    BY <2>1, <2>3 DEF r, Inc
<1>4. CASE r + 1 = WordSize
  <2>1. (r + 1) % WordSize = 0
    BY <1>1, <1>2, <1>4
  <2>2. k + 1 = WordSize * q + WordSize /\ WordSize * q + WordSize = WordSize * (q + 1)
    BY <1>1, <1>2, <1>4
  <2>3. (k + 1) % WordSize = 0
    BY <1>1, <1>2, <2>2
  <2> QED
    BY <2>1, <2>3 DEF r, Inc
<1> QED
  BY <1>1, <1>2, <1>3, <1>4

\* The client node whose handle an entry of the cache names.
LEMMA EntryClient ==
    ASSUME TypeOK, WorldOK, AllHere, CountsOK, NEW e, NamesClient(e)
    PROVE  /\ e.pS2C \in Node /\ e.Socket \in Sock /\ ConnOf(e.pS2C) \in Conn
           /\ client[e.pS2C].S2C = Len(seen[ConnOf(e.pS2C)]) % WordSize
           /\ \A c \in Conn : e.Socket \in HandlesOf(c) /\ peer[c] = "open" <=> c = ConnOf(e.pS2C)
           /\ \A n \in Range(ClientList) : ConnOf(n) = ConnOf(e.pS2C) => n = e.pS2C
<1> DEFINE n == e.pS2C
<1>1. n \in Range(ClientList) /\ e.Socket = client[n].Socket
  BY DEF NamesClient
<1>2. /\ n \in Node /\ client[n].Socket \in Sock /\ ConnOf(n) # NoConn
      /\ client[n].S2C = Len(seen[ConnOf(n)]) % WordSize
  BY <1>1, RangeIn DEF CountsOK, TypeOK, ServerTypeOK
<1>3. ConnOf(n) \in Conn /\ peer[ConnOf(n)] = "open"
  BY <1>2 DEF ConnOf, TypeOK, NetTypeOK, WorldOK, AllHere
<1>4. ASSUME NEW m \in Range(ClientList), ConnOf(m) = ConnOf(n) PROVE m = n
  BY <1>1, <1>2, <1>4 DEF CountsOK, ConnOf, WorldOK
<1> QED
  BY <1>1, <1>2, <1>3, <1>4 DEF HandlesOf, ConnOf

\* The packet goes to the client of the entry, with the number that follows.
LEMMA SentCounts ==
    ASSUME TypeOK, WorldOK, AllHere, CountsOK, NEW e, NamesClient(e), NEW packet,
           packet.num = Inc(client[e.pS2C].S2C), Deliver(e.Socket, packet),
           client' = [client EXCEPT ![e.pS2C].S2C = packet.num], UNCHANGED <<ClientList, owner>>
    PROVE  CountsOK'
<1> DEFINE n == e.pS2C
           c == ConnOf(n)
<1>1. /\ n \in Node /\ n \in Range(ClientList) /\ c \in Conn
      /\ client[n].S2C = Len(seen[c]) % WordSize
      /\ \A d \in Conn : e.Socket \in HandlesOf(d) /\ peer[d] = "open" <=> d = c
      /\ \A m \in Range(ClientList) : ConnOf(m) = c => m = n
  BY EntryClient DEF NamesClient
<1>2. \A d \in Conn : seen'[d] = IF d = c THEN Append(seen[c], packet) ELSE seen[d]
  BY <1>1 DEF Deliver
<1>3. seen[c] \in Seq(S2C_Packet)
  BY <1>1 DEF TypeOK, NetTypeOK
<1>4. /\ Len(seen'[c]) = Len(seen[c]) + 1 /\ Len(seen[c]) \in Nat
      /\ DOMAIN seen[c] = 1 .. Len(seen[c]) /\ DOMAIN seen'[c] = 1 .. Len(seen[c]) + 1
      /\ \A i \in 1 .. Len(seen[c]) : seen'[c][i] = seen[c][i]
      /\ seen'[c][Len(seen[c]) + 1] = packet
  <2>1. seen'[c] = Append(seen[c], packet)
    BY <1>1, <1>2
  <2> HIDE DEF c
  <2> QED
    BY <1>3, <2>1, AppendParts
<1>5. packet.num = (Len(seen[c]) + 1) % WordSize
  BY <1>1, <1>4, CountOneMore
<1>6. /\ \A m \in Node : client'[m].Socket = client[m].Socket
      /\ \A m \in Node : m # n => client'[m].S2C = client[m].S2C
      /\ client'[n].S2C = packet.num
  BY <1>1 DEF TypeOK, ServerTypeOK, SocketClient
<1>7. Range(ClientList) \subseteq Node
  BY RangeIn DEF TypeOK, ServerTypeOK
<1> HIDE DEF c, n
<1>8. \A m \in Range(ClientList) : ConnOf(m)' = ConnOf(m)
  BY <1>6, <1>7 DEF ConnOf
<1>9. ASSUME NEW m \in Range(ClientList)
      PROVE  /\ client'[m].Socket \in Sock /\ ConnOf(m) # NoConn
             /\ client'[m].S2C = Len(seen'[ConnOf(m)]) % WordSize
  <2>1. /\ client'[m].Socket \in Sock /\ ConnOf(m) # NoConn /\ ConnOf(m) \in Conn
    BY <1>6, <1>7 DEF CountsOK, ConnOf, TypeOK, NetTypeOK
  <2>2. CASE m = n
    BY <1>4, <1>5, <1>6, <2>1, <2>2 DEF c
  <2>3. CASE m # n
    <3>1. ConnOf(m) # c /\ m \in Node
      BY <1>1, <1>7, <2>3
    <3>2. seen'[ConnOf(m)] = seen[ConnOf(m)] /\ client'[m].S2C = client[m].S2C
      BY <1>2, <1>6, <2>1, <2>3, <3>1
    <3> QED
      BY <2>1, <3>2 DEF CountsOK
  <2> QED
    BY <2>1, <2>2, <2>3
<1>10. \A l, m \in Range(ClientList) : client'[l].Socket = client'[m].Socket => l = m
  BY <1>6, <1>7 DEF CountsOK
<1>11. ASSUME NEW d \in Conn, \A m \in Range(ClientList) : ConnOf(m) # d PROVE seen'[d] = <<>>
  BY <1>1, <1>2, <1>11 DEF CountsOK, c
<1>12. ASSUME NEW d \in Conn, NEW i \in DOMAIN seen'[d] PROVE seen'[d][i].num = i % WordSize
  <2>1. CASE d = c
    BY <1>1, <1>4, <1>5, <1>12, <2>1 DEF CountsOK
  <2>2. CASE d # c
    BY <1>2, <1>12, <2>2 DEF CountsOK
  <2> QED
    BY <2>1, <2>2
<1>13. Range(ClientList') = Range(ClientList)
  OBVIOUS
<1> QED
  BY <1>8, <1>9, <1>10, <1>11, <1>12, <1>13 DEF CountsOK

LEMMA SendStepServed ==
    ASSUME TypeOK, InHand, WorldOK, AllHere, ServedOK, SendStep
    PROVE  ServedOK'
<1> USE DEF ServedOK
<1>1. UNCHANGED <<backlog, peer, inbox, owner, ListenSocket, fds_read, completed, RunFlag,
                  AcceptList, SocketRecvList, mpc, cur, PacketRecvList, SocketSendList, sendNode,
                  ClientList, asock, gpc, gclient>>
  BY DEF SendStep, SendOuter, SendWait, SendReset, SendGet, SendCopy, SendOne, SendDone,
     sendFrame, flagVars, recvListVars, mainVars, acceptVars, gameVars, selectVars
<1>2. OwnersKept /\ WorldGrows /\ Accepted' = Accepted /\ node' = node
  BY <1>1 DEF OwnersKept, WorldGrows, Accepted, node
<1>3. HeldOK' /\ (RunFlag' => NoticesOK' /\ SelectOnlySent')
  BY <1>1, <1>2, HeldSame, NoticesSame, SelectSame
<1>4. CASE SendCopy
  <2>1. /\ SocketSendCache' = [i \in 1 .. Len(SocketSendList) |-> sendNode[SocketSendList[i]]]
        /\ UNCHANGED <<client, seen>>
    BY <1>4 DEF SendCopy
  <2>2. \A i \in 1 .. Len(SocketSendList) : SocketSendList[i] \in Range(SocketSendList)
    BY LenProperties DEF Range, TypeOK, ServerTypeOK
  <2>3. SendersOK'
    BY <1>1, <1>2, <2>1, <2>2 DEF SendersOK, NamesClient
  <2> QED
    BY <1>1, <1>2, <1>3, <2>1, <2>3, CountsSame
<1>5. CASE SendOne
  <2> DEFINE p == Head(PacketSendList)
             e == SocketSendCache[sidx]
             number == Inc(client[e.pS2C].S2C)
  <2>1. /\ UNCHANGED SocketSendCache
        /\ \/ UNCHANGED <<client, seen>>
           \/ /\ client' = [client EXCEPT ![e.pS2C].S2C = number]
              /\ Deliver(e.Socket, [p.packet EXCEPT !.num = number])
    BY <1>5 DEF SendOne
  <2>2. NamesClient(e)
    BY <1>5, LenProperties DEF SendOne, SendersOK, TypeOK, ServerTypeOK
  <2>3. e.pS2C \in Node
    BY <2>2, RangeIn DEF NamesClient, TypeOK, ServerTypeOK
  <2>4. p.packet \in C2S_Packet
    <3>1. PacketSendList # <<>> /\ PacketSendList \in Seq(SendPacketInfo)
      BY <1>5 DEF SendOne, InHand, TypeOK, ServerTypeOK
    <3>2. p \in SendPacketInfo
      BY <3>1
    <3> QED
      BY <3>2 DEF SendPacketInfo
  <2>5. [p.packet EXCEPT !.num = number].num = number
    BY <2>4 DEF C2S_Packet
  <2>6. Range(ClientList) \subseteq Node
    BY RangeIn DEF TypeOK, ServerTypeOK
  <2>7. \A n \in Range(ClientList) : client'[n].Socket = client[n].Socket
    <3>1. UNCHANGED client \/ \E n \in Node : \E w : client' = [client EXCEPT ![n].S2C = w]
      BY SendStepCounts
    <3>2. client \in [Node -> SocketClient]
      BY DEF TypeOK, ServerTypeOK
    <3> QED
      BY <2>6, <3>1, <3>2 DEF SocketClient
  <2>8. SendersOK'
    BY <1>1, <1>2, <2>1, <2>7, SendersSame
  <2>9. CountsOK'
    <3>1. CASE UNCHANGED <<client, seen>>
      BY <1>1, <1>2, <3>1, CountsSame
    <3>2. PICK packet : packet = [p.packet EXCEPT !.num = number]
      OBVIOUS
    <3>3. CASE /\ client' = [client EXCEPT ![e.pS2C].S2C = number]
               /\ Deliver(e.Socket, packet)
      <4>1. packet.num = number
        BY <2>5, <3>2
      <4> HIDE DEF e, p
      <4> QED
        BY <1>1, <2>2, <3>3, <4>1, SentCounts
    <3> QED
      BY <2>1, <3>1, <3>2, <3>3
  <2> QED
    BY <1>3, <2>8, <2>9
<1>6. CASE ~SendCopy /\ ~SendOne
  <2>1. UNCHANGED <<client, seen, SocketSendCache>>
    BY <1>6 DEF SendStep, SendOuter, SendWait, SendReset, SendGet, SendDone
  <2> QED
    BY <1>1, <1>2, <1>3, <2>1, SendersSame, CountsSame
<1> QED
  BY <1>4, <1>5, <1>6
-----------------------------------------------------------------------------
(* The gameplay thread.                                                      *)

\* A client node is created: no other bears the handle, because the main thread
\* polls it once and has not dropped it, and its client has seen nothing yet.
LEMMA NotHeld ==
    ASSUME TypeOK, InHand, HandlesOK, RunFlag, HeldOK, NoticesOK, gpc = "get",
           PacketRecvList # <<>>, node.ActionType = "CREATE"
    PROVE  \A n \in Range(ClientList) : client[n].Socket # node.Socket
<1> DEFINE s == node.Socket
<1>1. PacketRecvList \in Seq(RecvPacketInfo) /\ Todo = PacketRecvList
  BY DEF TypeOK, ServerTypeOK, Todo
<1>2. node \in OpenInfo /\ s \in Sock
  BY TailParts DEF NoticesOK, OpenInfo, node
<1>3. PICK D : Tally(Todo, s, Drops(s), D) /\ Cardinality(Holders(s)) <= D[1]
  BY <1>2 DEF HandlesOK, Balanced
<1>4. Says(Head(PacketRecvList), "CREATE", s)
  BY DEF Says, node
<1> HIDE DEF s
<1>5. PICK E : /\ Tally(Tail(PacketRecvList), s, Drops(s), E)
               /\ E[1] \in Nat /\ D[1] \in Nat
               /\ Counts(Head(PacketRecvList), s, D[1], E[1])
  BY <1>1, <1>3, TallyTail
<1>6. D[1] + 1 = E[1]
  BY <1>4, <1>5 DEF Counts
<1>7. Drops(s) <= 1
  <2>1. mdel = INVALID_SOCKET /\ s # INVALID_SOCKET
    BY <1>2, ConnAssumption DEF HandlesOK, StagesOK, NoticesOK
  <2>2. \A i, j \in Places(SocketRecvList, s) : i = j
    BY DEF Places, HeldOK, IsInjective
  <2>3. Cardinality(Places(SocketRecvList, s)) <= 1
    <3>1. CASE Places(SocketRecvList, s) = {}
      BY <3>1, FS_EmptySet
    <3>2. CASE Places(SocketRecvList, s) # {}
      <4>1. PICK i : Places(SocketRecvList, s) = {i}
        BY <2>2, <3>2
      <4>2. Cardinality({i}) = 1
        BY FS_Singleton
      <4> QED
        BY <4>1, <4>2
    <3> QED
      BY <3>1, <3>2
  <2>4. Cardinality(Places(SocketRecvList, s)) \in Nat
    BY PlacesFinite DEF TypeOK, ServerTypeOK
  <2> QED
    BY <2>1, <2>3, <2>4 DEF Drops
<1>8. E[1] <= Drops(s) \/ \E i \in 1 .. Len(Tail(PacketRecvList)) :
                               Says(Tail(PacketRecvList)[i], "RELEASE", s)
  <2>1. 1 \in 1 .. Len(Tail(PacketRecvList)) + 1 /\ Tail(PacketRecvList) \in Seq(RecvPacketInfo)
    BY <1>1, TailParts
  <2> QED
    BY <1>5, <2>1, TallyDecreases
<1>9. \A i \in 1 .. Len(Tail(PacketRecvList)) : ~Says(Tail(PacketRecvList)[i], "RELEASE", s)
  <2>1. Tail(PacketRecvList) \in Seq(OpenInfo)
    BY TailParts DEF NoticesOK
  <2>2. \A i \in 1 .. Len(Tail(PacketRecvList)) : Tail(PacketRecvList)[i] \in OpenInfo
    BY <2>1, ElementOfSeq
  <2> QED
    BY <2>2 DEF OpenInfo, Says
<1>10. Cardinality(Holders(s)) = 0
  BY <1>3, <1>5, <1>6, <1>7, <1>8, <1>9, HoldersFinite, DropsNat
<1>11. Holders(s) = {}
  BY <1>10, HoldersFinite, FS_EmptySet
<1> QED
  BY <1>11 DEF Holders, s

LEMMA CreateClientNodeServed ==
    ASSUME TypeOK, InHand, WorldOK, HandlesOK, ServedOK, CreateClientNode
    PROVE  ServedOK'
<1> USE DEF ServedOK
<1>0. PICK new, s : new = Head(clientFree) /\ s = node.Socket
  OBVIOUS
<1>1. /\ gpc = "get" /\ gpc' = "linkSend" /\ gclient' = new
      /\ PacketRecvList # <<>> /\ node.ActionType = "CREATE" /\ clientFree # <<>>
      /\ ClientList' = Append(ClientList, new)
      /\ client' = [client EXCEPT ![new] = [FreeClient EXCEPT !.Socket = s]]
      /\ UNCHANGED <<netVars, asock, AcceptList, SocketRecvList, RunFlag, mpc, cur,
                     PacketRecvList, SocketSendList, SocketSendCache, sendNode>>
  BY <1>0 DEF CreateClientNode, acceptVars, recvListVars, flagVars, mainVars, queueVars, sendListVars
<1>2. RunFlag
  BY <1>1 DEF InHand
<1>3. \A n \in Range(ClientList) : client[n].Socket # s
  BY <1>0, <1>1, <1>2, NotHeld
<1>4. s \in Sock /\ owner[s] # NoConn /\ owner[s] \in Conn
  BY <1>0, <1>1, <1>2, TailParts DEF NoticesOK, OpenInfo, node, TypeOK, NetTypeOK
<1>5. /\ new \in Node /\ new \in Range(clientFree) /\ new \notin Range(ClientList)
      /\ Range(ClientList) \subseteq Node /\ IsInjective(ClientList)
      /\ ClientList \in Seq(Node)
  BY <1>0, <1>1, <1>2, HeadLeaves, TailParts, RangeIn
     DEF HandlesOK, ClientPoolOK, TypeOK, ServerTypeOK
<1>6. Range(ClientList') = Range(ClientList) \union {new}
  BY <1>1, <1>5, AppendFresh
<1>7. /\ client'[new].Socket = s /\ client'[new].S2C = 0
      /\ \A n \in Node : n # new => client'[n] = client[n]
  BY <1>1, <1>5 DEF FreeClient, TypeOK, ServerTypeOK
<1>8. WorldGrows /\ OwnersKept /\ UNCHANGED <<ListenSocket, fds_read, completed, seen, owner>>
  BY <1>1 DEF WorldGrows, OwnersKept, netVars, clientVars, selectVars
<1>9. HeldOK' /\ (RunFlag' => NoticesOK' /\ SelectOnlySent')
  BY <1>1, <1>8, HeldSame, NoticesSame, SelectSame DEF Accepted
<1>10. SendersOK'
  <2>1. \A e : NamesClient(e) => NamesClient(e)'
    BY <1>5, <1>6, <1>7 DEF NamesClient
  <2>2. gclient' \in Range(ClientList') /\ client'[gclient'].Socket = node.Socket
    BY <1>0, <1>1, <1>6, <1>7
  <2>3. node' = node
    BY <1>1 DEF node
  <2> QED
    BY <1>1, <2>1, <2>2, <2>3 DEF SendersOK
<1>11. CountsOK'
  <2>1. /\ \A n \in Range(ClientList) : ConnOf(n)' = ConnOf(n)
        /\ ConnOf(new)' = owner[s]
    BY <1>5, <1>7, <1>8 DEF ConnOf
  <2>2. \A n \in Range(ClientList) : ConnOf(n) # owner[s]
    BY <1>3, <1>4 DEF ConnOf, CountsOK, WorldOK
  <2>3. seen[owner[s]] = <<>> /\ Len(seen[owner[s]]) = 0 /\ 0 % WordSize = 0
    BY <1>4, <2>2, WordSizeAssumption DEF CountsOK
  <2>4. \A n \in Range(ClientList') :
            /\ client'[n].Socket \in Sock /\ ConnOf(n)' # NoConn
            /\ client'[n].S2C = Len(seen'[ConnOf(n)']) % WordSize
    <3>1. ASSUME NEW n \in Range(ClientList)
          PROVE  /\ client'[n].Socket \in Sock /\ ConnOf(n)' # NoConn
                 /\ client'[n].S2C = Len(seen'[ConnOf(n)']) % WordSize
      BY <1>5, <1>7, <1>8, <2>1 DEF CountsOK
    <3>2. /\ client'[new].Socket \in Sock /\ ConnOf(new)' # NoConn
          /\ client'[new].S2C = Len(seen'[ConnOf(new)']) % WordSize
      BY <1>4, <1>7, <1>8, <2>1, <2>3
    <3> QED
      BY <1>6, <3>1, <3>2
  <2>5. \A m, n \in Range(ClientList') : client'[m].Socket = client'[n].Socket => m = n
    BY <1>3, <1>5, <1>6, <1>7 DEF CountsOK
  <2>6. \A c \in Conn : (\A n \in Range(ClientList') : ConnOf(n)' # c) => seen'[c] = <<>>
    BY <1>6, <1>8, <2>1 DEF CountsOK
  <2>7. \A c \in Conn : \A i \in DOMAIN seen'[c] : seen'[c][i].num = i % WordSize
    BY <1>8 DEF CountsOK
  <2> QED
    BY <2>4, <2>5, <2>6, <2>7 DEF CountsOK
<1> QED
  BY <1>9, <1>10, <1>11

LEMMA LinkSendNodeServed ==
    ASSUME TypeOK, InHand, PoolOK, ServedOK, LinkSendNode
    PROVE  ServedOK'
<1> USE DEF ServedOK
<1>0. PICK new : new = Head(sendFree)
  OBVIOUS
<1>1. /\ gpc = "linkSend" /\ gpc' = "get" /\ sendFree # <<>>
      /\ SocketSendList' = Append(SocketSendList, new)
      /\ sendNode' = [sendNode EXCEPT ![new] = [Socket |-> node.Socket, pS2C |-> gclient]]
      /\ PacketRecvList' = Tail(PacketRecvList)
      /\ UNCHANGED <<netVars, asock, AcceptList, SocketRecvList, RunFlag, mpc, cur, client,
                     SocketSendCache, ClientList>>
  BY <1>0 DEF LinkSendNode, UnlinkHead, acceptVars, recvListVars, flagVars, mainVars, clientListVars
<1>2. PacketRecvList # <<>>
  BY <1>1 DEF InHand
<1>3. /\ new \in Node /\ new \notin Range(SocketSendList)
      /\ Range(SocketSendList) \subseteq Node /\ SocketSendList \in Seq(Node)
      /\ IsInjective(SocketSendList)
  BY <1>0, <1>1, HeadLeaves, TailParts, RangeIn DEF PoolOK, TypeOK, ServerTypeOK
<1>4. Range(SocketSendList') = Range(SocketSendList) \union {new}
  BY <1>1, <1>3, AppendFresh
<1>5. /\ sendNode'[new] = [Socket |-> node.Socket, pS2C |-> gclient]
      /\ \A n \in Node : n # new => sendNode'[n] = sendNode[n]
  BY <1>1, <1>3 DEF TypeOK, ServerTypeOK
<1>6. WorldGrows /\ OwnersKept /\ UNCHANGED <<ListenSocket, fds_read, completed, seen, owner>>
  BY <1>1 DEF WorldGrows, OwnersKept, netVars, clientVars, selectVars
<1>7. HeldOK' /\ CountsOK' /\ (RunFlag' => NoticesOK' /\ SelectOnlySent')
  BY <1>1, <1>2, <1>6, HeldSame, NoticesSame, SelectSame, CountsSame DEF Accepted
<1>8. SendersOK'
  <2>1. NamesClient(sendNode'[new])
    BY <1>1, <1>5 DEF SendersOK, NamesClient
  <2>2. \A n \in Range(SocketSendList') : NamesClient(sendNode'[n])
    BY <1>3, <1>4, <1>5, <2>1 DEF SendersOK
  <2> QED
    BY <1>1, <2>2 DEF SendersOK, NamesClient
<1> QED
  BY <1>7, <1>8

\* No client is freed, and none is cut off.
LEMMA NothingFreed ==
    ASSUME TypeOK, InHand, AllHere', HandlesOK, ServedOK
    PROVE  /\ gpc \notin {"scanSend", "free", "unlinkSend"}
           /\ ~FreeClientNode /\ ~PacketOutOfOrder
<1> USE DEF ServedOK
<1>1. RunFlag /\ PacketRecvList # <<>> => node.ActionType # "RELEASE"
  BY TailParts DEF NoticesOK, OpenInfo, node
<1>2. gpc \notin {"scanSend", "free", "unlinkSend"}
  BY <1>1 DEF InHand, HandlesOK, StagesOK
<1>3. ~FreeClientNode
  BY <1>1 DEF FreeClientNode, InHand
<1>4. ASSUME PacketOutOfOrder PROVE FALSE
  <2>1. /\ clientNode # NoNode
        /\ CloseHandles({client[clientNode].Socket})
    BY <1>4 DEF PacketOutOfOrder, IsPacket
  <2>2. clientNode \in Range(ClientList)
    BY <2>1, FirstWithFound DEF clientNode, GetSocketClientNode, TypeOK, ServerTypeOK
  <2>3. client[clientNode].Socket \in Sock /\ owner[client[clientNode].Socket] # NoConn
    BY <2>2 DEF CountsOK, ConnOf
  <2> QED
    BY <2>1, <2>3, ClosesNone
<1> QED
  BY <1>2, <1>3, <1>4
LEMMA ExitCloseListenServed ==
    ASSUME TypeOK, InHand, AllHere', ServedOK, ExitCloseListen
    PROVE  ServedOK'
<1> USE DEF ServedOK
<1>1. /\ gpc = "exitClose" /\ gpc' = "exitAwakeAccept" /\ CloseListenSocket
      /\ UNCHANGED <<RunFlag, asock, AcceptList, SocketRecvList, mpc, SocketSendList,
                     SocketSendCache, sendNode, ClientList, client, gclient>>
  BY DEF ExitCloseListen, acceptVars, recvListVars, flagVars, mainVars, clientListVars,
     sendListVars
<1>2. ~RunFlag /\ ~RunFlag'
  BY <1>1 DEF InHand
<1>3. UNCHANGED owner /\ Disconnect(Range(backlog))
  BY <1>1 DEF CloseListenSocket
<1>4. UNCHANGED seen
  <2>1. ASSUME NEW c \in Conn PROVE c \notin Range(backlog)
    BY <1>3 DEF Disconnect, AllHere
  <2>2. seen' = [c \in Conn |-> seen[c]]
    BY <1>3, <2>1 DEF Disconnect
  <2> QED
    BY <2>2 DEF TypeOK, NetTypeOK
<1>5. OwnersKept /\ Accepted' = Accepted
  BY <1>1, <1>3 DEF OwnersKept, Accepted
<1> QED
  BY <1>1, <1>2, <1>4, <1>5, HeldSame, SendersSame, CountsSame

\* The walk of the timers: it closes no handle while everyone is here, and
\* changes nothing of a client node but its timer and its flag.
LEMMA CloseTimedOutServed ==
    ASSUME TypeOK, AllHere', ServedOK, CloseTimedOut
    PROVE  ServedOK'
<1>1. PICK n \in Node :
         /\ client' = [client EXCEPT ![n].timer = "on", ![n].AliveTimeoutFlag = TRUE]
         /\ CloseHandles({client[n].Socket})
  BY CloseTimedOutDoes
<1>2. /\ gpc' # "linkSend"
      /\ UNCHANGED <<RunFlag, asock, AcceptList, SocketRecvList, mpc, cur, SocketSendList,
                     SocketSendCache, sendNode, ClientList, PacketRecvList>>
  BY DEF CloseTimedOut, acceptVars, recvListVars, flagVars, mainVars, sendListVars, queueVars
<1>3. UNCHANGED netVars
  BY <1>1, ClosesNone
<1>4. \A m \in Range(ClientList) : /\ client'[m].Socket = client[m].Socket
                                   /\ client'[m].S2C = client[m].S2C
  <2>1. client \in [Node -> SocketClient] /\ Range(ClientList) \subseteq Node
    BY RangeIn DEF TypeOK, ServerTypeOK
  <2> QED
    BY <1>1, <2>1 DEF SocketClient
<1> QED
  BY <1>2, <1>3, <1>4, ElsewhereServed

LEMMA CheckClientAliveServed ==
    ASSUME TypeOK, InHand, ServedOK, CheckClientAlive
    PROVE  ServedOK'
<1>1. /\ gpc = "alive" /\ gpc' = "get" /\ PacketRecvList' = Tail(PacketRecvList)
      /\ client' = [n \in Node |-> IF n \in Range(ClientList)
                                    THEN [client[n] EXCEPT !.timer = "on"] ELSE client[n]]
      /\ UNCHANGED <<netVars, RunFlag, asock, AcceptList, SocketRecvList, mpc, cur,
                     SocketSendList, SocketSendCache, sendNode, ClientList>>
  BY DEF CheckClientAlive, UnlinkHead, acceptVars, recvListVars, flagVars, mainVars, sendListVars
<1>2. \A n \in Range(ClientList) : /\ client'[n].Socket = client[n].Socket
                                   /\ client'[n].S2C = client[n].S2C
  <2>1. client \in [Node -> SocketClient] /\ Range(ClientList) \subseteq Node
    BY RangeIn DEF TypeOK, ServerTypeOK
  <2> QED
    BY <1>1, <2>1 DEF SocketClient
<1>3. PacketRecvList # <<>>
  BY <1>1 DEF InHand
<1> QED
  BY <1>1, <1>2, <1>3, ElsewhereServed

LEMMA PacketInOrderServed ==
    ASSUME TypeOK, InHand, ServedOK, PacketInOrder
    PROVE  ServedOK'
<1>1. /\ gpc' # "linkSend"
      /\ \E a : client' = [client EXCEPT ![clientNode].C2S = a, ![clientNode].timer = "off"]
      /\ UNCHANGED <<netVars, RunFlag, asock, AcceptList, SocketRecvList, mpc, cur,
                     SocketSendList, SocketSendCache, sendNode, ClientList, PacketRecvList>>
  BY DEF PacketInOrder, acceptVars, recvListVars, flagVars, mainVars, sendListVars
<1>2. PICK n, a : n = clientNode /\ client' = [client EXCEPT ![n].C2S = a, ![n].timer = "off"]
  BY <1>1
<1>3. \A m \in Range(ClientList) : /\ client'[m].Socket = client[m].Socket
                                   /\ client'[m].S2C = client[m].S2C
  <2>1. client \in [Node -> SocketClient] /\ Range(ClientList) \subseteq Node
    BY RangeIn DEF TypeOK, ServerTypeOK
  <2> QED
    BY <1>2, <2>1 DEF SocketClient
<1> QED
  BY <1>1, <1>3, ElsewhereServed

LEMMA GameStepServed ==
    ASSUME TypeOK, InHand, WorldOK, HandlesOK, AllHere', PoolOK, ServedOK, GameStep
    PROVE  ServedOK'
<1>1. CASE CreateClientNode
  BY <1>1, CreateClientNodeServed
<1>2. CASE LinkSendNode
  BY <1>2, LinkSendNodeServed
<1>3. CASE FreeClientNode \/ ScanSendNode \/ FreePlayerAndClose \/ UnlinkClient \/ PacketOutOfOrder
  BY <1>3, NothingFreed DEF ScanSendNode, FreePlayerAndClose, UnlinkClient
<1>4. CASE PacketInOrder
  BY <1>4, PacketInOrderServed
<1>5. CASE CheckClientAlive
  BY <1>5, CheckClientAliveServed
<1>6. CASE ExitCloseListen
  BY <1>6, ExitCloseListenServed
<1>7. CASE \/ GameOuter \/ GameWait \/ GameReset \/ GameEmpty \/ NoClientNode \/ AwakeSend
           \/ ServerExit \/ ExitAwakeAccept \/ ExitAwake
  <2>1. /\ UNCHANGED <<netVars, asock, AcceptList, SocketRecvList, mpc, cur, SocketSendList,
                       SocketSendCache, sendNode, ClientList, client>>
        /\ gpc' # "linkSend"
    BY <1>7 DEF GameOuter, GameWait, GameReset, GameEmpty, NoClientNode, AwakeSend, ServerExit,
       ExitAwakeAccept, ExitAwake, UnlinkHead, acceptVars, recvListVars, mainVars, sendListVars,
       clientListVars
  <2>2. /\ RunFlag' => RunFlag
        /\ PacketRecvList' = PacketRecvList \/ (/\ PacketRecvList # <<>>
                                                /\ PacketRecvList' = Tail(PacketRecvList))
    BY <1>7 DEF GameOuter, GameWait, GameReset, GameEmpty, NoClientNode, AwakeSend, ServerExit,
       ExitAwakeAccept, ExitAwake, UnlinkHead, flagVars, queueVars
  <2> QED
    BY <2>1, <2>2, ElsewhereServed
<1>8. CASE CloseTimedOut
  BY <1>8, CloseTimedOutServed
<1> QED
  BY <1>1, <1>2, <1>3, <1>4, <1>5, <1>6, <1>7, <1>8 DEF GameStep

-----------------------------------------------------------------------------
(* The order numbers.                                                        *)

LEMMA NextStay ==
    ASSUME TypeOK, InHand, TypeOK', SenderOK, HandlesOK, StayOK, [Next]_vars
    PROVE  StayOK'
<1> SUFFICES ASSUME AllHere' PROVE PoolOK' /\ ServedOK'
  BY DEF StayOK
<1>1. AllHere /\ PoolOK /\ ServedOK /\ WorldOK
  BY ClosedStays DEF StayOK, SenderOK
<1>2. FoundNodeStillLinked
  BY <1>1, NothingFreed DEF FoundNodeStillLinked
<1>3. PoolOK'
  BY <1>1, <1>2, NextPool
<1>4. CASE Clients
  BY <1>1, <1>3, <1>4, ClientsServed
<1>5. CASE MainStep
  BY <1>1, <1>3, <1>5, MainStepServed
<1>6. CASE AcceptStep
  BY <1>1, <1>3, <1>6, AcceptStepServed
<1>7. CASE GameStep
  BY <1>1, <1>3, <1>7, GameStepServed
<1>8. CASE SendStep
  BY <1>1, <1>3, <1>8, SendStepServed
<1>9. CASE MinutePasses \/ UNCHANGED vars
  <2>1. /\ UNCHANGED <<netVars, asock, AcceptList, SocketRecvList, mpc, cur, SocketSendList,
                       SocketSendCache, sendNode, ClientList, RunFlag, PacketRecvList, gpc,
                       gclient>>
    BY <1>9 DEF MinutePasses, vars, serverVars, flagVars, recvListVars, sendListVars, queueVars,
       clientListVars, mainVars, acceptVars, gameVars
  <2>2. \A n \in Range(ClientList) : /\ client'[n].Socket = client[n].Socket
                                     /\ client'[n].S2C = client[n].S2C
    <3>1. client \in [Node -> SocketClient] /\ Range(ClientList) \subseteq Node
      BY RangeIn DEF TypeOK, ServerTypeOK
    <3>2. \/ UNCHANGED client
          \/ client' = [n \in Node |-> IF client[n].timer = "on"
                                  THEN [client[n] EXCEPT !.timer = "expired"] ELSE client[n]]
      BY <1>9 DEF MinutePasses, vars, serverVars, clientListVars
    <3> QED
      BY <3>1, <3>2 DEF SocketClient
  <2>3. node' = node /\ (RunFlag' => RunFlag)
    BY <2>1 DEF node
  <2>4. ServedOK'
    BY <1>1, <2>1, <2>2, <2>3, ElsewhereServed
  <2> QED
    BY <1>3, <2>4
<1> QED
  BY <1>3, <1>4, <1>5, <1>6, <1>7, <1>8, <1>9 DEF Next

LEMMA InitStay == Init => StayOK
<1> SUFFICES ASSUME Init PROVE PoolOK /\ ServedOK
  BY DEF StayOK
<1>1. PoolOK
  BY InitPool
<1>2. /\ AcceptList = <<>> /\ SocketRecvList = <<>> /\ PacketRecvList = <<>>
      /\ ClientList = <<>> /\ SocketSendList = <<>> /\ SocketSendCache = <<>>
      /\ mpc = "scan" /\ gpc = "outer" /\ asock = INVALID_SOCKET
  BY DEF Init, ServerInit
<1>3. Range(<<>>) = {} /\ IsInjective(<<>>) /\ DOMAIN <<>> = {} /\ Len(<<>>) = 0
  BY DEF Range, IsInjective
<1>4. /\ fds_read = {} /\ ListenSocket = ListenHandle
      /\ \A c \in Conn : seen[c] = <<>>
  BY DEF Init, NetInit
<1>5. HeldOK
  <2>1. Accepted = <<>>
    BY <1>2 DEF Accepted
  <2> QED
    BY <1>2, <1>3, <2>1, ConnAssumption DEF HeldOK
<1>6. NoticesOK /\ SelectOnlySent
  BY <1>2, <1>4 DEF NoticesOK, SelectOnlySent
<1>7. SendersOK
  BY <1>2, <1>3 DEF SendersOK
<1>8. CountsOK
  BY <1>2, <1>3, <1>4 DEF CountsOK
<1> QED
  BY <1>1, <1>5, <1>6, <1>7, <1>8 DEF ServedOK

\* As long as all stay, each client sees the order numbers 1, 2, 3, ... modulo
\* the WORD, however clients join, threads interleave and numbers wrap, and
\* although the send thread counts through the pointers of a list it copied
\* some time ago: while nobody leaves no client node is freed, so each pointer
\* of the list and of the copy leads to the node of the client whose handle is
\* beside it.
THEOREM NumbersUnbroken == Spec => []Unbroken
<1>1. StayOK => Unbroken
  BY DEF StayOK, ServedOK, CountsOK, Unbroken, AllHere
<1>2. TypeOK /\ InHand /\ TypeOK' /\ SenderOK /\ HandlesOK /\ StayOK /\ [Next]_vars => StayOK'
  BY NextStay
<1>3. TypeOK /\ InHand /\ TypeOK' /\ SenderOK /\ [Next]_vars => SenderOK'
  BY NextSender
<1>4. TypeOK /\ InHand /\ TypeOK' /\ HandlesOK /\ [Next]_vars => HandlesOK'
  BY NextHandles
<1> QED
  BY <1>1, <1>2, <1>3, <1>4, InitSender, InitHandles, InitStay, InHandCorrect, PTL DEF Spec
=============================================================================

--------------------------- MODULE TCPServer_proofs ---------------------------
EXTENDS TCPServer, SequenceTheorems, WellFoundedInduction, TLAPS

\* The first match of a search exists when there is a match.
LEMMA MinIn ==
    ASSUME NEW S, S \subseteq Nat, S # {}
    PROVE  Min(S) \in S
<1>1. \E x \in S : \A y \in S : <<y, x>> \notin OpToRel(<, Nat)
  BY WFMin, NatLessThanWellFounded
<1>2. PICK x \in S : \A y \in S : <<y, x>> \notin OpToRel(<, Nat)
  BY <1>1
<1>3. OpToRel(<, Nat) = {ss \in Nat \X Nat : ss[1] < ss[2]}
  BY Zenon DEF OpToRel
<1>4. ASSUME NEW y \in S PROVE x <= y
  <2>1. y \in Nat /\ x \in Nat
    OBVIOUS
  <2>2. <<y, x>> \in OpToRel(<, Nat) <=> y < x
    BY <2>1, <1>3
  <2>3. ~ (y < x)
    BY <1>2, <2>2, Zenon
  <2> QED
    BY <2>1, <2>3
<1> QED
  BY <1>4 DEF Min

\* A search returns NULL or a node of the list whose contents have the handle.
LEMMA FirstWithLinked ==
    ASSUME NEW list \in Seq(Node), NEW contents, NEW h
    PROVE  FirstWith(list, contents, h) = NoNode
             \/ /\ FirstWith(list, contents, h) \in Range(list)
                /\ FirstWith(list, contents, h) \in Node
<1> DEFINE matches == {i \in DOMAIN list : contents[list[i]].Socket = h}
<1>1. CASE matches = {}
  BY <1>1 DEF FirstWith
<1>2. CASE matches # {}
  <2>1. matches \subseteq Nat
    OBVIOUS
  <2>2. Min(matches) \in matches
    BY <1>2, <2>1, MinIn
  <2>3. FirstWith(list, contents, h) = list[Min(matches)]
    BY <1>2 DEF FirstWith
  <2>4. Min(matches) \in DOMAIN list /\ list[Min(matches)] \in Node
    BY <2>2
  <2> HIDE DEF matches
  <2> QED
    BY <2>3, <2>4 DEF Range
<1> QED
  BY <1>1, <1>2

\* Unlinking a node leaves a list of nodes.
LEMMA UnlinkType ==
    ASSUME NEW S, NEW list \in Seq(S), NEW n
    PROVE  Unlink(list, n) \in Seq(S)
<1>1. CASE n \in Range(list)
  <2>1. \E i \in 1 .. Len(list) : list[i] = n
    BY <1>1 DEF Range
  <2>2. IndexOf(list, n) \in 1 .. Len(list)
    BY <2>1 DEF IndexOf
  <2> QED
    BY <1>1, <2>2 DEF Unlink, RemoveAt
<1>2. CASE n \notin Range(list)
  BY <1>2 DEF Unlink
<1> QED
  BY <1>1, <1>2

\* The order numbers wrap round within a WORD.
LEMMA IncType == ASSUME NEW w \in Word PROVE Inc(w) \in Word
BY WordSizeAssumption DEF Word, Inc
-----------------------------------------------------------------------------
(* The sockets layer keeps its types.                                        *)

LEMMA DisconnectType ==
    ASSUME NetTypeOK, NEW C, Disconnect(C)
    PROVE  /\ peer' \in [Conn -> {"new", "open", "closed"}]
           /\ inbox' \in [Conn -> Seq(C2S_Packet)]
           /\ C2S_Number' \in [Conn -> Word]
           /\ seen' \in [Conn -> Seq(S2C_Packet)]
BY WordSizeAssumption DEF NetTypeOK, Disconnect, Word

LEMMA CloseHandlesType ==
    ASSUME NetTypeOK, NEW H, CloseHandles(H)
    PROVE  NetTypeOK'
<1> DEFINE closing == {s \in H \intersect Sock : owner[s] # NoConn}
<1>1. Disconnect({owner[s] : s \in closing})
  BY DEF CloseHandles
<1>2. completed' \subseteq Handle
  BY DEF CloseHandles, NetTypeOK
<1>3. owner' \in [Sock -> Conn \union {NoConn}]
  BY DEF CloseHandles, NetTypeOK
<1>4. UNCHANGED <<backlog, sent, ListenSocket, fds_read, selecting>>
  BY DEF CloseHandles
<1> QED
  BY <1>1, <1>2, <1>3, <1>4, DisconnectType DEF NetTypeOK

LEMMA CloseListenSocketType ==
    ASSUME NetTypeOK, CloseListenSocket
    PROVE  NetTypeOK'
<1>1. Disconnect(Range(backlog))
  BY DEF CloseListenSocket
<1>2. completed' \subseteq Handle
  BY DEF CloseListenSocket, NetTypeOK, Handle
<1>3. /\ UNCHANGED <<sent, owner, fds_read, selecting>>
      /\ backlog' \in Seq(Conn) /\ ListenSocket' \in {ListenHandle, INVALID_SOCKET}
  BY DEF CloseListenSocket
<1> QED
  BY <1>1, <1>2, <1>3, DisconnectType DEF NetTypeOK

LEMMA SelectCallType ==
    ASSUME NetTypeOK, NEW H, H \subseteq Handle, SelectCall(H)
    PROVE  NetTypeOK'
<1>1. selecting' \in BOOLEAN
  BY Zenon DEF SelectCall
<1>2. completed' \subseteq Handle /\ fds_read' \subseteq Handle
  BY DEF SelectCall
<1>3. UNCHANGED <<clientVars, owner, ListenSocket>>
  BY DEF SelectCall
<1> QED
  BY <1>1, <1>2, <1>3 DEF NetTypeOK, clientVars

LEMMA SelectReturnType ==
    ASSUME NetTypeOK, NEW timeout, SelectReturn(timeout)
    PROVE  NetTypeOK'
<1>1. selecting' \in BOOLEAN
  BY Zenon DEF SelectReturn
<1>2. completed' \subseteq Handle /\ fds_read' \subseteq Handle
  BY DEF SelectReturn, NetTypeOK
<1>3. UNCHANGED <<clientVars, owner, ListenSocket>>
  BY DEF SelectReturn
<1> QED
  BY <1>1, <1>2, <1>3 DEF NetTypeOK, clientVars

\* The clients' steps change only types of the sockets layer they may.
LEMMA ClientStepType ==
    ASSUME NetTypeOK, ClientStep
    PROVE  NetTypeOK'
<1>1. ASSUME NEW H, Arrive(H) PROVE completed' \subseteq Handle
  BY <1>1 DEF Arrive, NetTypeOK
<1>2. ASSUME NEW c \in Conn, ClientConnect(c) PROVE NetTypeOK'
  <2>1. completed' \subseteq Handle
    BY <1>1, <1>2 DEF ClientConnect
  <2> QED
    BY <1>2, <2>1 DEF ClientConnect, NetTypeOK
<1>3. ASSUME NEW c \in Conn, ClientSend(c) PROVE NetTypeOK'
  <2>1. completed' \subseteq Handle
    BY <1>1, <1>3 DEF ClientSend
  <2>2. PICK k \in Kinds, n \in {Inc(C2S_Number[c])} \union
               {m \in {Inc(Inc(C2S_Number[c]))} : "skip" \in ClientMay} :
            /\ C2S_Number' = [C2S_Number EXCEPT ![c] = n]
            /\ inbox' = [inbox EXCEPT ![c] = Append(@, [type |-> k, num |-> n, from |-> c])]
    BY <1>3 DEF ClientSend
  <2>3. n \in Word
    BY IncType DEF NetTypeOK
  <2>4. [type |-> k, num |-> n, from |-> c] \in C2S_Packet
    BY <2>3, ClientAssumption DEF C2S_Packet
  <2>5. /\ C2S_Number' \in [Conn -> Word]
        /\ inbox' \in [Conn -> Seq(C2S_Packet)]
    BY <2>2, <2>3, <2>4 DEF NetTypeOK
  <2>6. sent' \in 0 .. MaxSend
    BY <1>3, MaxSendAssumption DEF ClientSend, NetTypeOK
  <2>7. UNCHANGED <<backlog, peer, seen, owner, ListenSocket, fds_read, selecting>>
    BY <1>3 DEF ClientSend
  <2> QED
    BY <2>1, <2>5, <2>6, <2>7 DEF NetTypeOK
<1>4. ASSUME NEW c \in Conn, ClientClose(c) PROVE NetTypeOK'
  <2>1. completed' \subseteq Handle
    BY <1>1, <1>4 DEF ClientClose
  <2> QED
    BY <1>4, <2>1, WordSizeAssumption DEF ClientClose, NetTypeOK, Word
<1> QED
  BY <1>2, <1>3, <1>4 DEF ClientStep
LEMMA NetSame == ASSUME NetTypeOK, UNCHANGED netVars PROVE NetTypeOK'
BY DEF NetTypeOK, netVars, clientVars, selectVars

\* A freed client node still has the shape of a client node.
LEMMA FreeClientType == FreeClient \in SocketClient
<1>1. 0 \in Word
  BY WordSizeAssumption DEF Word
<1>2. INVALID_SOCKET \in Handle
  BY DEF Handle
<1>3. FALSE \in BOOLEAN
  BY Zenon
<1> HIDE DEF Word, Handle
<1> QED
  BY <1>1, <1>2, <1>3 DEF FreeClient, SocketClient

-----------------------------------------------------------------------------
(* The main thread keeps the types.                                          *)

\* What a read set holds, with room for any number of handles.
LEMMA PlacedIn ==
    ASSUME NEW n
    PROVE  /\ ListenSocket \in Placed(n)
           /\ Placed(n) \subseteq {ListenSocket} \union Range(SocketRecvList)
  BY DEF Placed, Range

LEMMA ReadSetIn ==
    ASSUME NEW H, ReadSet(H)
    PROVE  ListenSocket \in H /\ H \subseteq {ListenSocket} \union Range(SocketRecvList)
  BY PlacedIn DEF ReadSet, FdSet

LEMMA ReadSetType == ASSUME TypeOK, NEW H, ReadSet(H) PROVE H \subseteq Handle
<1>1. \A i \in DOMAIN SocketRecvList : SocketRecvList[i] \in Sock
  BY DEF TypeOK, ServerTypeOK
<1>2. ListenSocket \in Handle
  BY DEF TypeOK, NetTypeOK, Handle
<1> QED
  BY <1>1, <1>2, ReadSetIn DEF Handle, Range

LEMMA GameAwakeType ==
    ASSUME TypeOK, NEW next \in MainPC, GameAwake(next)
    PROVE  TypeOK'
<1>1. gameEvent' \in BOOLEAN
  BY Zenon DEF GameAwake
<1>2. NetTypeOK'
  BY NetSame DEF GameAwake, TypeOK
<1> QED
  BY <1>1, <1>2 DEF GameAwake, TypeOK, ServerTypeOK, flagVars, recvListVars, sendListVars,
     queueVars, clientListVars, acceptVars, gameVars, sendVars

\* Unlinking and freeing a send node, or nothing when there is none.
LEMMA UnlinkFreeSendNodeType ==
    ASSUME ServerTypeOK, NEW n \in Node \union {NoNode}, UnlinkFreeSendNode(n)
    PROVE  /\ SocketSendList' \in Seq(Node)
           /\ sendNode' \in [Node -> SocketSendInfo]
           /\ sendFree' \in Seq(Node)
<1>1. SocketSendList' \in Seq(Node)
  BY UnlinkType DEF UnlinkFreeSendNode, ServerTypeOK
<1>2. FreeSendNode \in SocketSendInfo
  BY DEF FreeSendNode, SocketSendInfo, Handle
<1>3. sendNode' \in [Node -> SocketSendInfo]
  BY <1>2 DEF UnlinkFreeSendNode, ServerTypeOK
<1>4. sendFree' \in Seq(Node)
  BY DEF UnlinkFreeSendNode, ServerTypeOK
<1> QED
  BY <1>1, <1>3, <1>4

LEMMA MainStepType ==
    ASSUME TypeOK, InHand, MainStep
    PROVE  TypeOK'
<1> USE DEF TypeOK, ServerTypeOK, flagVars, recvListVars, sendListVars, queueVars,
            clientListVars, eventVars, acceptVars, gameVars, sendVars, MainPC
<1>1. CASE SelectBlocking
  <2>1. NetTypeOK'
    BY <1>1, ReadSetType, SelectCallType DEF SelectBlocking
  <2>2. timed' \in BOOLEAN
    BY <1>1, Zenon DEF SelectBlocking
  <2> QED
    BY <1>1, <2>1, <2>2 DEF SelectBlocking
<1>2. CASE TimedMode
  <2>1. fds_read' \subseteq Handle
    BY <1>2, ReadSetType DEF TimedMode
  <2>2. NetTypeOK'
    BY <1>2, <2>1 DEF TimedMode, NetTypeOK, clientVars
  <2>3. timed' \in BOOLEAN
    BY <1>2, Zenon DEF TimedMode
  <2> QED
    BY <1>2, <2>2, <2>3 DEF TimedMode
<1>3. CASE LeaveLoop
  BY <1>3, NetSame DEF LeaveLoop
<1>4. CASE DrainAcceptList
  <2>1. Head(AcceptList) \in Sock
    BY <1>4 DEF DrainAcceptList
  <2>2. [ActionType |-> "CREATE", Socket |-> Head(AcceptList), packet |-> NoPacket]
          \in RecvPacketInfo
    BY <2>1 DEF RecvPacketInfo, Handle
  <2> QED
    BY <1>4, <2>1, <2>2, NetSame DEF DrainAcceptList
<1>5. CASE DrainAwake
  <2>1. gameEvent' \in BOOLEAN
    BY <1>5, Zenon DEF DrainAwake
  <2>2. AcceptList' \in Seq(Sock)
    BY <1>5 DEF DrainAwake, InHand
  <2> QED
    BY <1>5, <2>1, <2>2, NetSame DEF DrainAwake
<1>6. CASE SelectTimed
  <2>1. fds_read \subseteq Handle
    BY DEF NetTypeOK
  <2>2. NetTypeOK'
    BY <1>6, <2>1, SelectCallType DEF SelectTimed
  <2> QED
    BY <1>6, <2>2 DEF SelectTimed
<1>7. CASE SelectDone
  <2>1. NetTypeOK'
    BY <1>7, SelectReturnType DEF SelectDone
  <2>2. SelectTimeModeFlag' \in BOOLEAN
    BY <1>7, Zenon DEF SelectDone
  <2> QED
    BY <1>7, <2>1, <2>2 DEF SelectDone
<1>8. CASE AwakeAccept
  <2>1. acceptEvent' \in BOOLEAN
    BY <1>8, Zenon DEF AwakeAccept
  <2> QED
    BY <1>8, <2>1, NetSame DEF AwakeAccept
<1>9. CASE RecvPacket
  <2>1. PICK i \in 1 .. Len(SocketRecvList) :
          /\ owner[SocketRecvList[i]] # NoConn
          /\ inbox[owner[SocketRecvList[i]]] # <<>>
          /\ PacketRecvList' = Append(PacketRecvList,
                [ActionType |-> "PACKET", Socket |-> SocketRecvList[i],
                 packet |-> Head(inbox[owner[SocketRecvList[i]]])])
          /\ inbox' = [inbox EXCEPT ![owner[SocketRecvList[i]]] = Tail(@)]
          /\ cur' = i + 1
    BY <1>9 DEF RecvPacket
  <2>2. SocketRecvList[i] \in Sock /\ owner[SocketRecvList[i]] \in Conn
    BY <2>1 DEF NetTypeOK
  <2>3. Head(inbox[owner[SocketRecvList[i]]]) \in C2S_Packet
    BY <2>1, <2>2 DEF NetTypeOK
  <2>4. PacketRecvList' \in Seq(RecvPacketInfo)
    BY <2>1, <2>2, <2>3 DEF RecvPacketInfo, Handle
  <2>5. inbox' \in [Conn -> Seq(C2S_Packet)]
    BY <2>1, <2>2 DEF NetTypeOK
  <2>6. NetTypeOK'
    BY <1>9, <2>5 DEF RecvPacket, NetTypeOK, selectVars
  <2> QED
    BY <1>9, <2>1, <2>4, <2>6 DEF RecvPacket
<1>10. CASE AwakeRecv
  BY <1>10, GameAwakeType DEF AwakeRecv
<1>11. CASE RecvFail
  <2>1. PICK i \in 1 .. Len(SocketRecvList) :
          /\ SocketRecvList' = RemoveAt(SocketRecvList, i)
          /\ UnlinkFreeSendNode(FirstWith(SocketSendList, sendNode, SocketRecvList[i]))
          /\ mdel' = SocketRecvList[i]
          /\ cur' = i
    BY <1>11 DEF RecvFail
  <2>2. SocketRecvList' \in Seq(Sock)
    BY <2>1 DEF RemoveAt
  <2>3. mdel' \in Handle
    BY <2>1 DEF Handle
  <2>4. /\ SocketSendList' \in Seq(Node)
        /\ sendNode' \in [Node -> SocketSendInfo]
        /\ sendFree' \in Seq(Node)
    BY <2>1, FirstWithLinked, UnlinkFreeSendNodeType
  <2> QED
    BY <1>11, <2>1, <2>2, <2>3, <2>4, NetSame DEF RecvFail
<1>12. CASE NoticeFree
  <2>1. [ActionType |-> "RELEASE", Socket |-> mdel, packet |-> NoPacket] \in RecvPacketInfo
    BY DEF RecvPacketInfo
  <2>2. mdel' \in Handle
    BY <1>12 DEF NoticeFree, Handle
  <2> QED
    BY <1>12, <2>1, <2>2, NetSame DEF NoticeFree
<1>13. CASE AwakeFree
  BY <1>13, GameAwakeType DEF AwakeFree
<1>14. CASE Release
  <2>1. NetTypeOK'
    BY <1>14, CloseHandlesType DEF Release
  <2>2. FreeClient \in SocketClient
    BY FreeClientType
  <2>3. client' \in [Node -> SocketClient]
    BY <1>14, <2>2 DEF Release
  <2>4. clientFree' \in Seq(Node)
    BY <1>14 DEF Release, Reverse
  <2> QED
    BY <1>14, <2>1, <2>3, <2>4 DEF Release
<1> QED
  BY <1>1, <1>2, <1>3, <1>4, <1>5, <1>6, <1>7, <1>8, <1>9, <1>10, <1>11, <1>12, <1>13,
     <1>14 DEF MainStep
-----------------------------------------------------------------------------
(* The accept thread and the send thread keep the types.                     *)

LEMMA AcceptStepType ==
    ASSUME TypeOK, InHand, AcceptStep
    PROVE  TypeOK'
<1> USE DEF TypeOK, ServerTypeOK, acceptFrame, sendListVars, queueVars, clientListVars,
            mainVars, gameVars, sendVars, AcceptPC
<1>1. CASE AcceptOuter
  BY <1>1, NetSame DEF AcceptOuter
<1>2. CASE AcceptWait
  BY <1>2, NetSame DEF AcceptWait
<1>3. CASE AcceptReset
  <2>1. acceptEvent' \in BOOLEAN
    BY <1>3, Zenon DEF AcceptReset
  <2> QED
    BY <1>3, <2>1, NetSame DEF AcceptReset
<1>4. CASE PollNothing
  BY <1>4, NetSame DEF PollNothing
<1>5. CASE PollStopped
  BY <1>5, NetSame DEF PollStopped
<1>6. CASE PollAccept
  <2>1. PICK s \in Sock : owner' = [owner EXCEPT ![s] = Head(backlog)] /\ asock' = s
    BY <1>6 DEF PollAccept
  <2>2. owner' \in [Sock -> Conn \union {NoConn}] /\ backlog' \in Seq(Conn)
    BY <1>6, <2>1 DEF PollAccept, NetTypeOK
  <2>3. NetTypeOK'
    BY <1>6, <2>2 DEF PollAccept, NetTypeOK, selectVars
  <2>4. asock' \in Handle
    BY <2>1 DEF Handle
  <2> QED
    BY <1>6, <2>3, <2>4 DEF PollAccept
<1>7. CASE PollError
  <2>1. inbox' \in [Conn -> Seq(C2S_Packet)] /\ backlog' \in Seq(Conn)
    BY <1>7 DEF PollError, NetTypeOK
  <2>2. NetTypeOK'
    BY <1>7, <2>1 DEF PollError, NetTypeOK, selectVars
  <2> QED
    BY <1>7, <2>2 DEF PollError
<1>8. CASE AcceptFull
  <2>1. NetTypeOK'
    BY <1>8, CloseHandlesType DEF AcceptFull
  <2>2. asock' \in Handle
    BY <1>8 DEF AcceptFull, Handle
  <2> QED
    BY <1>8, <2>1, <2>2 DEF AcceptFull
<1>9. CASE AcceptLink
  <2>1. AcceptList' \in Seq(Sock)
    BY <1>9 DEF AcceptLink, InHand
  <2>2. asock' \in Handle
    BY <1>9 DEF AcceptLink, Handle
  <2> QED
    BY <1>9, <2>1, <2>2, NetSame DEF AcceptLink
<1>10. CASE AcceptCheck
  BY <1>10, NetSame DEF AcceptCheck
<1>11. CASE AcceptClearFlag
  <2>1. SelectTimeModeFlag' \in BOOLEAN
    BY <1>11, Zenon DEF AcceptClearFlag
  <2> QED
    BY <1>11, <2>1, NetSame DEF AcceptClearFlag
<1> QED
  BY <1>1, <1>2, <1>3, <1>4, <1>5, <1>6, <1>7, <1>8, <1>9, <1>10, <1>11 DEF AcceptStep

LEMMA SendStepType ==
    ASSUME TypeOK, InHand, SendStep
    PROVE  TypeOK'
<1> USE DEF TypeOK, ServerTypeOK, sendFrame, selectVars, flagVars, recvListVars, mainVars,
            acceptVars, gameVars, SendPC
<1>1. ASSUME UNCHANGED <<sendFrame, seen>> PROVE NetTypeOK'
  BY <1>1 DEF NetTypeOK
<1>2. CASE SendOuter
  BY <1>1, <1>2 DEF SendOuter
<1>3. CASE SendWait
  BY <1>1, <1>3 DEF SendWait
<1>4. CASE SendReset
  <2>1. sendEvent' \in BOOLEAN
    BY <1>4, Zenon DEF SendReset
  <2> QED
    BY <1>1, <1>4, <2>1 DEF SendReset
<1>5. CASE SendGet
  BY <1>1, <1>5 DEF SendGet
<1>6. CASE SendCopy
  <2>1. SocketSendCache' \in Seq(SocketSendInfo)
    BY <1>6 DEF SendCopy
  <2> QED
    BY <1>1, <1>6, <2>1 DEF SendCopy
<1>7. CASE SendOne
  <2> DEFINE p == Head(PacketSendList)
             e == SocketSendCache[sidx]
             number == Inc(client[e.pS2C].S2C)
  <2>1. e \in SocketSendInfo /\ e.pS2C # NoNode
    <3>1. sidx \in 1 .. Len(SocketSendCache)
      BY <1>7 DEF SendOne
    <3> QED
      BY <1>7, <3>1 DEF SendOne
  <2>2. e.pS2C \in Node
    BY <2>1 DEF SocketSendInfo
  <2>3. number \in Word
    BY <2>2, IncType DEF SocketClient
  <2>4. p \in SendPacketInfo
    BY <1>7 DEF SendOne, InHand
  <2>5. [p.packet EXCEPT !.num = number] \in S2C_Packet
    BY <2>3, <2>4 DEF SendPacketInfo, C2S_Packet, S2C_Packet
  <2>6. CASE UNCHANGED <<client, seen>>
    <3>1. /\ UNCHANGED <<sendFrame, SocketSendCache, PacketSendList, sendEvent, spc>>
          /\ sidx' = sidx + 1
      BY <1>7 DEF SendOne
    <3>2. NetTypeOK'
      BY <1>1, <2>6, <3>1
    <3> QED
      BY <2>6, <3>1, <3>2
  <2>7. CASE /\ client' = [client EXCEPT ![e.pS2C].S2C = number]
             /\ Deliver(e.Socket, [p.packet EXCEPT !.num = number])
    <3> DEFINE out == [p.packet EXCEPT !.num = number]
    <3> HIDE DEF number, p, e, out
    <3>1. client' \in [Node -> SocketClient]
      BY <2>2, <2>3, <2>7 DEF SocketClient
    <3>2. out \in S2C_Packet /\ Deliver(e.Socket, out)
      BY <2>5, <2>7 DEF out
    <3>3. seen' \in [Conn -> Seq(S2C_Packet)]
      BY <3>2 DEF Deliver, NetTypeOK
    <3>4. /\ UNCHANGED <<sendFrame, SocketSendCache, PacketSendList, sendEvent, spc>>
          /\ sidx' = sidx + 1
      BY <1>7 DEF SendOne
    <3>5. NetTypeOK'
      BY <3>3, <3>4 DEF NetTypeOK
    <3> QED
      BY <3>1, <3>4, <3>5
  <2> QED
    BY <1>7, <2>6, <2>7 DEF SendOne
<1>8. CASE SendDone
  <2>1. PacketSendList' \in Seq(SendPacketInfo)
    BY <1>8 DEF SendDone, InHand
  <2> QED
    BY <1>1, <1>8, <2>1 DEF SendDone
<1> QED
  BY <1>2, <1>3, <1>4, <1>5, <1>6, <1>7, <1>8 DEF SendStep
-----------------------------------------------------------------------------
(* The gameplay thread, the clock and the clients keep the types.            *)

\* A message at the head of the queue, and the client node it is about.
LEMMA NodeType ==
    ASSUME TypeOK, PacketRecvList # <<>>
    PROVE  /\ node \in RecvPacketInfo
           /\ node.Socket \in Handle
           /\ Tail(PacketRecvList) \in Seq(RecvPacketInfo)
<1>1. node \in RecvPacketInfo /\ Tail(PacketRecvList) \in Seq(RecvPacketInfo)
  BY DEF node, TypeOK, ServerTypeOK
<1> QED
  BY <1>1 DEF RecvPacketInfo

LEMMA ClientNodeType == ASSUME TypeOK PROVE clientNode \in Node \union {NoNode}
BY FirstWithLinked DEF clientNode, GetSocketClientNode, TypeOK, ServerTypeOK

\* The client that CheckClientAlive closes next.
LEMMA CloseTimedOutDoes ==
    ASSUME TypeOK, CloseTimedOut
    PROVE  \E n \in Node :
              /\ n \in Range(ClientList) /\ client[n].timer = "expired"
              /\ client' = [client EXCEPT ![n].timer = "on", ![n].AliveTimeoutFlag = TRUE]
              /\ CloseHandles({client[n].Socket})
<1>1. PICK i \in TimedOut :
         /\ client' = [client EXCEPT ![ClientList[i]].timer = "on",
                                     ![ClientList[i]].AliveTimeoutFlag = TRUE]
         /\ CloseHandles({client[ClientList[i]].Socket})
  BY DEF CloseTimedOut
<1>2. /\ ClientList[i] \in Node /\ ClientList[i] \in Range(ClientList)
      /\ client[ClientList[i]].timer = "expired"
  BY DEF TimedOut, TypeOK, ServerTypeOK, Range
<1> QED
  BY <1>1, <1>2

LEMMA GameStepType ==
    ASSUME TypeOK, InHand, GameStep
    PROVE  TypeOK'
<1> USE DEF TypeOK, ServerTypeOK, flagVars, recvListVars, sendListVars, queueVars,
            clientListVars, eventVars, mainVars, acceptVars, sendVars, GamePC
<1>1. CASE GameOuter
  BY <1>1, NetSame DEF GameOuter
<1>2. CASE GameWait
  BY <1>2, NetSame DEF GameWait
<1>3. CASE GameReset
  <2>1. gameEvent' \in BOOLEAN
    BY <1>3, Zenon DEF GameReset
  <2> QED
    BY <1>3, <2>1, NetSame DEF GameReset
<1>4. CASE GameEmpty
  BY <1>4, NetSame DEF GameEmpty
<1>5. CASE CreateClientNode
  <2>1. Head(clientFree) \in Node /\ Tail(clientFree) \in Seq(Node)
    BY <1>5 DEF CreateClientNode
  <2>2. node.Socket \in Handle
    BY <1>5, NodeType DEF CreateClientNode
  <2>3. [FreeClient EXCEPT !.Socket = node.Socket] \in SocketClient
    BY <2>2, FreeClientType DEF SocketClient
  <2>4. client' \in [Node -> SocketClient]
    BY <1>5, <2>1, <2>3 DEF CreateClientNode
  <2>5. ClientList' \in Seq(Node) /\ PlayerInfoList' \subseteq Node
    BY <1>5, <2>1 DEF CreateClientNode
  <2> QED
    BY <1>5, <2>1, <2>4, <2>5, NetSame DEF CreateClientNode
<1>6. CASE LinkSendNode
  <2>1. Head(sendFree) \in Node /\ Tail(sendFree) \in Seq(Node)
    BY <1>6 DEF LinkSendNode
  <2>2. PacketRecvList # <<>> /\ gclient \in Node
    BY <1>6 DEF LinkSendNode, InHand
  <2>3. [Socket |-> node.Socket, pS2C |-> gclient] \in SocketSendInfo
    BY <2>2, NodeType DEF SocketSendInfo
  <2>4. /\ sendNode' \in [Node -> SocketSendInfo]
        /\ SocketSendList' \in Seq(Node)
    BY <1>6, <2>1, <2>3 DEF LinkSendNode
  <2> QED
    BY <1>6, <2>1, <2>2, <2>4, NodeType, NetSame DEF LinkSendNode, UnlinkHead
<1>7. CASE FreeClientNode
  <2>1. HeadSendNode \in Node \union {NoNode}
    BY DEF HeadSendNode
  <2> QED
    BY <1>7, <2>1, ClientNodeType, NetSame DEF FreeClientNode
<1>8. CASE ScanSendNode
  <2>1. NextSendNode(gscan) \in Node \union {NoNode}
    <3>1. CASE NextSendNode(gscan) = NoNode
      BY <3>1
    <3>2. CASE NextSendNode(gscan) # NoNode
      <4>1. /\ gscan \in Range(SocketSendList)
            /\ IndexOf(SocketSendList, gscan) < Len(SocketSendList)
            /\ NextSendNode(gscan) = SocketSendList[IndexOf(SocketSendList, gscan) + 1]
        BY <3>2 DEF NextSendNode
      <4>2. \E i \in 1 .. Len(SocketSendList) : SocketSendList[i] = gscan
        BY <4>1 DEF Range
      <4>3. IndexOf(SocketSendList, gscan) \in 1 .. Len(SocketSendList)
        BY <4>2 DEF IndexOf
      <4> QED
        BY <4>1, <4>3
    <3> QED
      BY <3>1, <3>2
  <2> QED
    BY <1>8, <2>1, NetSame DEF ScanSendNode
<1>9. CASE FreePlayerAndClose
  <2>1. NetTypeOK'
    BY <1>9, NetSame, CloseHandlesType DEF FreePlayerAndClose
  <2>2. client' \in [Node -> SocketClient]
    <3>1. \/ client' = client
          \/ client' = [client EXCEPT ![gclient].Socket = INVALID_SOCKET]
      BY <1>9 DEF FreePlayerAndClose
    <3>2. INVALID_SOCKET \in Handle
      BY DEF Handle
    <3>3. gclient \in Node
      BY <1>9 DEF FreePlayerAndClose, InHand
    <3>4. CASE client' = client
      BY <3>4
    <3>5. CASE client' = [client EXCEPT ![gclient].Socket = INVALID_SOCKET]
      <4>1. [client[gclient] EXCEPT !.Socket = INVALID_SOCKET] \in SocketClient
        BY <3>2, <3>3 DEF SocketClient
      <4> QED
        BY <3>3, <3>5, <4>1
    <3> QED
      BY <3>1, <3>4, <3>5
  <2>3. PlayerInfoList' \subseteq Node
    BY <1>9 DEF FreePlayerAndClose
  <2> QED
    BY <1>9, <2>1, <2>2, <2>3 DEF FreePlayerAndClose
<1>10. CASE UnlinkClient
  <2>1. PacketRecvList # <<>> /\ gclient \in Node
    BY <1>10 DEF UnlinkClient, InHand
  <2>2. /\ SocketSendList' \in Seq(Node)
        /\ sendNode' \in [Node -> SocketSendInfo]
        /\ sendFree' \in Seq(Node)
    BY <1>10, UnlinkFreeSendNodeType DEF UnlinkClient
  <2>3. /\ ClientList' \in Seq(Node)
        /\ client' \in [Node -> SocketClient]
        /\ clientFree' \in Seq(Node)
    BY <1>10, <2>1, UnlinkType, FreeClientType DEF UnlinkClient
  <2> QED
    BY <1>10, <2>1, <2>2, <2>3, NodeType, NetSame DEF UnlinkClient, UnlinkHead
<1>11. CASE NoClientNode
  BY <1>11, NodeType, NetSame DEF NoClientNode, UnlinkHead
<1>12. CASE PacketInOrder
  <2>1. clientNode \in Node /\ PacketRecvList # <<>>
    BY <1>12, ClientNodeType DEF PacketInOrder, IsPacket
  <2>2. Inc(client[clientNode].C2S) \in Word
    BY <2>1, IncType DEF SocketClient
  <2>3. client' = [client EXCEPT ![clientNode].C2S = Inc(@), ![clientNode].timer = "off"]
    BY <1>12 DEF PacketInOrder
  <2>4. client' \in [Node -> SocketClient]
    <3> HIDE DEF clientNode
    <3> QED
      BY <2>1, <2>2, <2>3, ZenonT(60) DEF SocketClient
  <2>5. PacketSendList' \in Seq(SendPacketInfo)
    <3>1. node.Socket \in Handle
      BY <2>1, NodeType
    <3>2. node.packet \in C2S_Packet
      BY <1>12, <2>1, NodeType DEF PacketInOrder, IsPacket, RecvPacketInfo
    <3>3. \A t \in {"ALL", "NON_SELF"} :
            [SendType |-> t, Socket |-> node.Socket, packet |-> node.packet] \in SendPacketInfo
      BY <3>1, <3>2 DEF SendPacketInfo
    <3>4. PICK m \in SendPacketInfo :
            PacketSendList' = PacketSendList \/ PacketSendList' = Append(PacketSendList, m)
      BY <1>12, <3>3 DEF PacketInOrder
    <3>5. CASE PacketSendList' = PacketSendList
      BY <3>5
    <3>6. CASE PacketSendList' = Append(PacketSendList, m)
      BY <3>6, AppendProperties
    <3> QED
      BY <3>4, <3>5, <3>6
  <2> QED
    BY <1>12, <2>4, <2>5, NetSame DEF PacketInOrder
<1>13. CASE PacketOutOfOrder
  <2>1. clientNode \in Node /\ PacketRecvList # <<>>
    BY <1>13, ClientNodeType DEF PacketOutOfOrder, IsPacket
  <2>2. Inc(client[clientNode].C2S) \in Word
    BY <2>1, IncType DEF SocketClient
  <2>3. client' = [client EXCEPT ![clientNode].C2S = Inc(@),
                                 ![clientNode].Socket = INVALID_SOCKET]
    BY <1>13 DEF PacketOutOfOrder
  <2>4. client' \in [Node -> SocketClient]
    <3>1. INVALID_SOCKET \in Handle
      BY DEF Handle
    <3> HIDE DEF clientNode
    <3> QED
      BY <2>1, <2>2, <2>3, <3>1, ZenonT(60) DEF SocketClient
  <2>5. NetTypeOK'
    BY <1>13, CloseHandlesType DEF PacketOutOfOrder
  <2> QED
    BY <1>13, <2>1, <2>4, <2>5, NodeType DEF PacketOutOfOrder, UnlinkHead
<1>14. CASE AwakeSend
  <2>1. sendEvent' \in BOOLEAN
    BY <1>14, Zenon DEF AwakeSend
  <2> QED
    BY <1>14, <2>1, NetSame DEF AwakeSend
<1>15. CASE CheckClientAlive
  <2>1. client' = [n \in Node |-> IF n \in Range(ClientList)
                                   THEN [client[n] EXCEPT !.timer = "on"] ELSE client[n]]
    BY <1>15 DEF CheckClientAlive
  <2>2. NetTypeOK'
    BY <1>15, NetSame DEF CheckClientAlive
  <2>3. client' \in [Node -> SocketClient]
    BY <2>1 DEF SocketClient
  <2>4. PacketRecvList # <<>>
    BY <1>15 DEF CheckClientAlive, InHand
  <2>5. /\ PacketRecvList' = Tail(PacketRecvList) /\ gpc' = "get"
        /\ UNCHANGED <<flagVars, recvListVars, sendListVars, PacketSendList, ClientList,
                       PlayerInfoList, clientFree, eventVars, gclient, gscan, gdel,
                       mainVars, acceptVars, sendVars>>
    BY <1>15, Zenon DEF CheckClientAlive, UnlinkHead
  <2> QED
    BY <2>2, <2>3, <2>4, <2>5, NodeType
<1>16. CASE ServerExit
  <2>1. RunFlag' \in BOOLEAN
    BY <1>16, Zenon DEF ServerExit
  <2> QED
    BY <1>16, <2>1, NodeType, NetSame DEF ServerExit
<1>17. CASE ExitCloseListen
  <2>1. NetTypeOK'
    BY <1>17, CloseListenSocketType DEF ExitCloseListen
  <2> QED
    BY <1>17, <2>1 DEF ExitCloseListen
<1>18. CASE ExitAwakeAccept
  <2>1. acceptEvent' \in BOOLEAN
    BY <1>18, Zenon DEF ExitAwakeAccept
  <2> QED
    BY <1>18, <2>1, NetSame DEF ExitAwakeAccept
<1>19. CASE ExitAwake
  <2>1. gameEvent' \in BOOLEAN /\ sendEvent' \in BOOLEAN
    BY <1>19, Zenon DEF ExitAwake
  <2> QED
    BY <1>19, <2>1, NetSame DEF ExitAwake
<1>20. CASE CloseTimedOut
  <2>1. PICK n \in Node :
           /\ client' = [client EXCEPT ![n].timer = "on", ![n].AliveTimeoutFlag = TRUE]
           /\ CloseHandles({client[n].Socket})
    BY <1>20, CloseTimedOutDoes
  <2>2. NetTypeOK'
    BY <2>1, CloseHandlesType
  <2>3. client' \in [Node -> SocketClient]
    BY <2>1 DEF SocketClient
  <2> QED
    BY <1>20, <2>2, <2>3 DEF CloseTimedOut
<1> QED
  BY <1>1, <1>2, <1>3, <1>4, <1>5, <1>6, <1>7, <1>8, <1>9, <1>10, <1>11, <1>12, <1>13,
     <1>14, <1>15, <1>16, <1>17, <1>18, <1>19, <1>20 DEF GameStep
LEMMA MinutePassesType == ASSUME TypeOK, MinutePasses PROVE TypeOK'
<1>1. client' \in [Node -> SocketClient]
  <2>1. \A n \in Node : [client[n] EXCEPT !.timer = "expired"] \in SocketClient
    BY DEF TypeOK, ServerTypeOK, SocketClient
  <2> QED
    BY <2>1 DEF MinutePasses, TypeOK, ServerTypeOK
<1> QED
  BY <1>1, NetSame DEF MinutePasses, TypeOK, ServerTypeOK, flagVars, recvListVars,
     sendListVars, queueVars, eventVars, mainVars, acceptVars, gameVars, sendVars

LEMMA ServerSame == ASSUME ServerTypeOK, UNCHANGED serverVars PROVE ServerTypeOK'
BY DEF ServerTypeOK, serverVars, flagVars, recvListVars, sendListVars, queueVars,
   clientListVars, eventVars, mainVars, acceptVars, gameVars, sendVars

LEMMA InitType == Init => TypeOK
<1> SUFFICES ASSUME Init PROVE TypeOK
  OBVIOUS
<1>1. selecting \in BOOLEAN
  BY Zenon DEF Init, NetInit
<1>2. NetTypeOK
  BY <1>1, MaxSendAssumption, WordSizeAssumption DEF Init, NetInit, NetTypeOK, Word
<1>3. /\ RunFlag \in BOOLEAN /\ SelectTimeModeFlag \in BOOLEAN /\ timed \in BOOLEAN
      /\ acceptEvent \in BOOLEAN /\ gameEvent \in BOOLEAN /\ sendEvent \in BOOLEAN
  BY Zenon DEF Init, ServerInit
<1>4. sendNode \in [Node -> SocketSendInfo]
  BY DEF Init, ServerInit, FreeSendNode, SocketSendInfo, Handle
<1>5. client \in [Node -> SocketClient]
  BY FreeClientType DEF Init, ServerInit
<1>6. sendFree \in Seq(Node) /\ clientFree \in Seq(Node)
  BY NodeMaxAssumption DEF Init, ServerInit, Node
<1>7. INVALID_SOCKET \in Handle
  BY DEF Handle
<1>8. ServerTypeOK
  BY <1>3, <1>4, <1>5, <1>6, <1>7
     DEF Init, ServerInit, ServerTypeOK, MainPC, AcceptPC, GamePC, SendPC
<1> QED
  BY <1>2, <1>8 DEF TypeOK

LEMMA NextType ==
    ASSUME TypeOK, InHand, [Next]_vars
    PROVE  TypeOK'
<1>1. CASE Clients
  BY <1>1, ClientStepType, ServerSame DEF Clients, TypeOK
<1>2. CASE UNCHANGED vars
  BY <1>2, NetSame, ServerSame DEF vars, TypeOK
<1> QED
  BY <1>1, <1>2, MinutePassesType, MainStepType, AcceptStepType, GameStepType, SendStepType
     DEF Next

-----------------------------------------------------------------------------
(* What the threads have in hand.                                            *)

LEMMA AppendNotEmpty ==
    ASSUME NEW S, NEW q \in Seq(S), NEW e
    PROVE  Append(q, e) # <<>>
<1>1. q \in Seq(S \union {e})
  BY SeqMonotonic
<1> QED
  BY <1>1, AppendProperties

LEMMA InitInHand == Init => InHand
BY DEF Init, ServerInit, InHand

LEMMA MainStepInHand ==
    ASSUME TypeOK, InHand, MainStep
    PROVE  InHand'
<1> USE DEF InHand, netVars, flagVars, recvListVars, sendListVars, queueVars, acceptVars,
            gameVars, sendVars, mainVars
<1>1. PacketRecvList' = PacketRecvList \/ PacketRecvList' # <<>>
  <2>1. CASE DrainAcceptList \/ RecvPacket \/ NoticeFree
    BY <2>1, AppendNotEmpty DEF DrainAcceptList, RecvPacket, NoticeFree, TypeOK, ServerTypeOK
  <2>2. CASE ~(DrainAcceptList \/ RecvPacket \/ NoticeFree)
    BY <2>2 DEF MainStep, SelectBlocking, TimedMode, LeaveLoop, DrainAwake, SelectTimed,
       SelectDone, AwakeAccept, AwakeRecv, RecvFail, AwakeFree, GameAwake, Release
  <2> QED
    BY <2>1, <2>2
<1>2. mpc' = "drainAwake" => AcceptList' # <<>>
  BY DEF MainStep, SelectBlocking, TimedMode, LeaveLoop, DrainAcceptList, DrainAwake,
     SelectTimed, SelectDone, AwakeAccept, RecvPacket, AwakeRecv, RecvFail, NoticeFree,
     AwakeFree, GameAwake, Release
<1>3. UNCHANGED <<RunFlag, PacketSendList, acceptVars, gameVars, sendVars>>
  BY DEF MainStep, SelectBlocking, TimedMode, LeaveLoop, DrainAcceptList, DrainAwake,
     SelectTimed, SelectDone, AwakeAccept, RecvPacket, AwakeRecv, RecvFail, NoticeFree,
     AwakeFree, GameAwake, Release
<1> QED
  BY <1>1, <1>2, <1>3

LEMMA AcceptStepInHand ==
    ASSUME TypeOK, InHand, AcceptStep
    PROVE  InHand'
<1> USE DEF InHand, acceptFrame, mainVars, gameVars, sendVars, queueVars
<1>1. apc' = "accepted" => asock' \in Sock
  BY DEF AcceptStep, AcceptOuter, AcceptWait, AcceptReset, PollNothing, PollStopped,
     PollAccept, PollError, AcceptFull, AcceptLink, AcceptCheck, AcceptClearFlag
<1>2. AcceptList' = AcceptList \/ AcceptList' # <<>>
  BY AppendNotEmpty DEF AcceptStep, AcceptOuter, AcceptWait, AcceptReset, PollNothing,
     PollStopped, PollAccept, PollError, AcceptFull, AcceptLink, AcceptCheck,
     AcceptClearFlag, TypeOK, ServerTypeOK
<1>3. UNCHANGED acceptFrame
  BY Zenon DEF AcceptStep, AcceptOuter, AcceptWait, AcceptReset, PollNothing, PollStopped,
     PollAccept, PollError, AcceptFull, AcceptLink, AcceptCheck, AcceptClearFlag
<1> QED
  BY <1>1, <1>2, <1>3

LEMMA SendStepInHand ==
    ASSUME TypeOK, InHand, SendStep
    PROVE  InHand'
<1> USE DEF InHand, sendFrame, flagVars, recvListVars, mainVars, acceptVars, gameVars
<1>1. spc' \in {"copy", "send"} => PacketSendList' # <<>>
  BY DEF SendStep, SendOuter, SendWait, SendReset, SendGet, SendCopy, SendOne, SendDone
<1>2. UNCHANGED sendFrame
  BY Zenon DEF SendStep, SendOuter, SendWait, SendReset, SendGet, SendCopy, SendOne, SendDone
<1> QED
  BY <1>1, <1>2
LEMMA GameStepInHand ==
    ASSUME TypeOK, InHand, GameStep
    PROVE  InHand'
<1> USE DEF InHand, GameStep, GameOuter, GameWait, GameReset, GameEmpty, CreateClientNode,
     LinkSendNode, FreeClientNode, ScanSendNode, FreePlayerAndClose, UnlinkClient, NoClientNode,
     PacketInOrder, PacketOutOfOrder, IsPacket, AwakeSend, CloseTimedOut, CheckClientAlive, ServerExit,
     ExitCloseListen, ExitAwakeAccept, ExitAwake, UnlinkHead
<1>1. gpc' \in {"linkSend", "scanSend", "free", "unlinkSend", "awakeSend", "alive"}
        => PacketRecvList' # <<>>
  BY DEF queueVars
<1>2. ~RunFlag' => gpc' \in {"exitClose", "exitAwakeAccept", "exitAwake", "outer", "done"}
  <2>1. CASE ServerExit
    BY <2>1, SMTT(40) DEF ServerExit
  <2>2. CASE ~ServerExit
    <3>1. RunFlag' = RunFlag
      BY <2>2 DEF flagVars
    <3>2. CASE RunFlag
      BY <3>1, <3>2
    <3>3. CASE ~RunFlag
      BY <2>2, <3>3
    <3> QED
      BY <3>2, <3>3
  <2> QED
    BY <2>1, <2>2
<1>3. gpc' \in {"exitClose", "exitAwakeAccept", "exitAwake"} => ~RunFlag'
  <2>1. CASE ServerExit
    BY <2>1, Zenon DEF ServerExit
  <2>2. CASE ~ServerExit
    <3>1. RunFlag' = RunFlag
      BY <2>2 DEF flagVars
    <3>2. gpc' \in {"exitClose", "exitAwakeAccept", "exitAwake"}
            => gpc \in {"exitClose", "exitAwakeAccept", "exitAwake"}
      BY <2>2
    <3> QED
      BY <3>1, <3>2
  <2> QED
    BY <2>1, <2>2
<1>4. gpc' \in {"linkSend", "scanSend", "free", "unlinkSend"} => gclient' \in Node
  <2>1. CASE CreateClientNode
    BY <2>1 DEF CreateClientNode, TypeOK, ServerTypeOK
  <2>2. CASE FreeClientNode
    BY <2>2, ClientNodeType DEF FreeClientNode
  <2>3. CASE ~(CreateClientNode \/ FreeClientNode)
    BY <2>3
  <2> QED
    BY <2>1, <2>2, <2>3
<1>5. PacketSendList' = PacketSendList \/ PacketSendList' # <<>>
  <2>1. CASE PacketInOrder
    BY <2>1, AppendNotEmpty, SMTT(40) DEF PacketInOrder, TypeOK, ServerTypeOK
  <2>2. CASE ~PacketInOrder
    BY <2>2 DEF queueVars
  <2> QED
    BY <2>1, <2>2
<1>6. UNCHANGED <<recvListVars, mainVars, acceptVars, sendVars>>
  BY Zenon
<1> QED
  BY <1>1, <1>2, <1>3, <1>4, <1>5, <1>6 DEF recvListVars, mainVars, acceptVars, sendVars

LEMMA NextInHand ==
    ASSUME TypeOK, InHand, [Next]_vars
    PROVE  InHand'
<1>1. CASE Clients \/ UNCHANGED vars
  BY <1>1 DEF InHand, Clients, vars, serverVars, flagVars, recvListVars, queueVars,
     mainVars, acceptVars, gameVars, sendVars
<1>2. CASE MinutePasses
  BY <1>2 DEF InHand, MinutePasses, flagVars, recvListVars, queueVars, mainVars, acceptVars,
     gameVars, sendVars
<1> QED
  BY <1>1, <1>2, MainStepInHand, AcceptStepInHand, GameStepInHand, SendStepInHand DEF Next

LEMMA InHandCorrect == Spec => [](TypeOK /\ InHand)
<1>1. Init => TypeOK /\ InHand
  BY InitType, InitInHand
<1>2. TypeOK /\ InHand /\ [Next]_vars => (TypeOK /\ InHand)'
  BY NextType, NextInHand
<1> QED
  BY <1>1, <1>2, PTL DEF Spec

\* Every variable keeps its type, whatever the clients do and in whatever
\* order the four threads run: no index leaves its list, no thread uses the
\* head of an empty queue, no order number leaves its WORD.
THEOREM TypeCorrect == Spec => []TypeOK
BY InHandCorrect, PTL

-----------------------------------------------------------------------------
(* No wake-up is lost.                                                       *)

LEMMA InitWakeup == Init => NoLostWakeup
BY DEF Init, ServerInit, NoLostWakeup, GameWakeup, SendWakeup

LEMMA MainStepWakeup ==
    ASSUME NoLostWakeup, MainStep
    PROVE  NoLostWakeup'
<1>1. GameWakeup'
  BY DEF NoLostWakeup, GameWakeup, MainStep, SelectBlocking, TimedMode, LeaveLoop,
     DrainAcceptList, DrainAwake, SelectTimed, SelectDone, AwakeAccept, RecvPacket, AwakeRecv,
     RecvFail, NoticeFree, AwakeFree, GameAwake, Release, queueVars, eventVars, gameVars
<1>2. UNCHANGED <<PacketSendList, sendEvent, gpc, spc>>
  BY SMTT(40) DEF MainStep, SelectBlocking, TimedMode, LeaveLoop,
     DrainAcceptList, DrainAwake, SelectTimed, SelectDone, AwakeAccept, RecvPacket, AwakeRecv,
     RecvFail, NoticeFree, AwakeFree, GameAwake, Release, queueVars, eventVars, gameVars,
     sendVars
<1> QED
  BY <1>1, <1>2 DEF NoLostWakeup, SendWakeup

LEMMA GameStepWakeup ==
    ASSUME NoLostWakeup, GameStep
    PROVE  NoLostWakeup'
<1> USE DEF GameStep, GameOuter, GameWait, GameReset, GameEmpty, CreateClientNode, LinkSendNode,
     FreeClientNode, ScanSendNode, FreePlayerAndClose, UnlinkClient, NoClientNode, PacketInOrder,
     PacketOutOfOrder, IsPacket, AwakeSend, CloseTimedOut, CheckClientAlive, ServerExit, ExitCloseListen,
     ExitAwakeAccept, ExitAwake, UnlinkHead, queueVars, eventVars, mainVars,
     sendVars
<1>1. GameWakeup'
  BY DEF NoLostWakeup, GameWakeup
<1>2. SendWakeup'
  BY DEF NoLostWakeup, SendWakeup
<1> QED
  BY <1>1, <1>2 DEF NoLostWakeup

LEMMA SendStepWakeup ==
    ASSUME NoLostWakeup, SendStep
    PROVE  NoLostWakeup'
<1>1. SendWakeup'
  BY DEF NoLostWakeup, SendWakeup, SendStep, SendOuter, SendWait, SendReset, SendGet, SendCopy,
     SendOne, SendDone, sendFrame, gameVars
<1>2. UNCHANGED <<PacketRecvList, gameEvent, gpc, mpc>>
  BY DEF SendStep, SendOuter, SendWait, SendReset, SendGet, SendCopy, SendOne, SendDone,
     sendFrame, gameVars, mainVars
<1> QED
  BY <1>1, <1>2 DEF NoLostWakeup, GameWakeup

LEMMA NextWakeup == NoLostWakeup /\ [Next]_vars => NoLostWakeup'
<1> SUFFICES ASSUME NoLostWakeup, [Next]_vars PROVE NoLostWakeup'
  OBVIOUS
<1>1. ASSUME UNCHANGED <<queueVars, gameEvent, sendEvent, gpc, spc, mpc>> PROVE NoLostWakeup'
  BY <1>1 DEF NoLostWakeup, GameWakeup, SendWakeup, queueVars
<1>2. CASE Clients \/ UNCHANGED vars
  BY <1>1, <1>2 DEF Clients, vars, serverVars, eventVars, gameVars, sendVars, mainVars
<1>3. CASE MinutePasses
  BY <1>1, <1>3 DEF MinutePasses, eventVars, gameVars, sendVars, mainVars
<1>4. CASE AcceptStep
  BY <1>1, <1>4 DEF AcceptStep, AcceptOuter, AcceptWait, AcceptReset, PollNothing, PollStopped,
     PollAccept, PollError, AcceptFull, AcceptLink, AcceptCheck, AcceptClearFlag, acceptFrame,
     mainVars, gameVars, sendVars
<1> QED
  BY <1>2, <1>3, <1>4, MainStepWakeup, GameStepWakeup, SendStepWakeup DEF Next

\* Neither the gameplay thread nor the send thread ever sleeps beside a queue
\* that holds a node without its event set or the thread that linked the node
\* about to set it.  No invariant about the data is needed: ResetEvent comes
\* before the queue is looked at, and Awake after the link.
THEOREM WakeupCorrect == Spec => []NoLostWakeup
BY InitWakeup, NextWakeup, PTL DEF Spec
-----------------------------------------------------------------------------
(* The gameplay thread's queue is a Mailbox.                                 *)

\* What the Mailbox sees of a state.
gameQueue == <<PacketRecvList, gameEvent, gpc, RunFlag, mpc>>

LEMMA GameQueueSame ==
    ASSUME UNCHANGED gameQueue
    PROVE  UNCHANGED GameQueue!mailboxVars
BY DEF gameQueue, GameQueue!mailboxVars, GameConsumer

LEMMA GameQueueInit == Init => GameQueue!MailboxInit
BY DEF Init, ServerInit, GameQueue!MailboxInit, GameConsumer

\* The main thread is the producer: it links, then it sets the event.
LEMMA MainStepGameQueue ==
    ASSUME TypeOK, InHand, TypeOK', MainStep
    PROVE  [GameQueue!MailboxNext]_GameQueue!mailboxVars
<1> DEFINE owing == {p \in {"main"} : mpc \in {"drainAwake", "awakeRecv", "awakeFree"}}
<1>1. CASE DrainAcceptList \/ RecvPacket \/ NoticeFree
  <2>1. "main" \notin owing /\ owing' = owing \union {"main"}
    BY <1>1 DEF DrainAcceptList, RecvPacket, NoticeFree
  <2>2. PICK m : PacketRecvList' = Append(PacketRecvList, m)
    BY <1>1 DEF DrainAcceptList, RecvPacket, NoticeFree
  <2>3. m \in RecvPacketInfo
    <3>1. /\ PacketRecvList' \in Seq(RecvPacketInfo)
          /\ PacketRecvList \in Seq(RecvPacketInfo \union {m})
      BY SeqMonotonic DEF TypeOK, ServerTypeOK
    <3>2. /\ Len(PacketRecvList') = Len(PacketRecvList) + 1
          /\ PacketRecvList'[Len(PacketRecvList) + 1] = m
      BY <2>2, <3>1, AppendProperties
    <3> QED
      BY <3>1, <3>2, ElementOfSeq, LenProperties
  <2>4. UNCHANGED <<gameEvent, RunFlag, gpc>>
    BY <1>1 DEF DrainAcceptList, RecvPacket, NoticeFree, flagVars, eventVars, gameVars
  <2>5. GameQueue!Link("main")
    BY <2>1, <2>2, <2>3, <2>4 DEF GameQueue!Link, GameConsumer
  <2> QED
    BY <2>5 DEF GameQueue!MailboxNext
<1>2. CASE DrainAwake \/ AwakeRecv \/ AwakeFree
  <2>1. "main" \in owing /\ owing' = owing \ {"main"}
    BY <1>2 DEF DrainAwake, AwakeRecv, AwakeFree, GameAwake
  <2>2. gameEvent' = TRUE /\ UNCHANGED <<PacketRecvList, RunFlag, gpc>>
    BY <1>2 DEF DrainAwake, AwakeRecv, AwakeFree, GameAwake, flagVars, queueVars, gameVars
  <2>3. GameQueue!Awake("main")
    BY <2>1, <2>2 DEF GameQueue!Awake, GameConsumer
  <2> QED
    BY <2>3 DEF GameQueue!MailboxNext
<1>3. CASE SelectBlocking \/ TimedMode \/ LeaveLoop \/ SelectTimed \/ SelectDone
             \/ AwakeAccept \/ RecvFail \/ Release
  <2>1. UNCHANGED <<PacketRecvList, gameEvent, RunFlag, gpc>> /\ owing' = owing
    BY <1>3 DEF SelectBlocking, TimedMode, LeaveLoop, SelectTimed, SelectDone, AwakeAccept,
       RecvFail, Release, flagVars, queueVars, eventVars, gameVars
  <2> QED
    BY <2>1 DEF GameQueue!mailboxVars, GameConsumer
<1> QED
  BY <1>1, <1>2, <1>3 DEF MainStep

\* The gameplay thread is the consumer.
LEMMA GameStepGameQueue ==
    ASSUME TypeOK, InHand, GameStep
    PROVE  [GameQueue!MailboxNext]_GameQueue!mailboxVars
<1> USE DEF GameConsumer, flagVars, queueVars, eventVars, mainVars
<1>1. CASE GameOuter
  BY <1>1 DEF GameOuter, GameQueue!mailboxVars
<1>2. CASE GameWait
  <2>1. GameQueue!WaitReturns
    BY <1>2 DEF GameWait, GameQueue!WaitReturns, InHand
  <2> QED
    BY <2>1 DEF GameQueue!MailboxNext, GameQueue!Consume
<1>3. CASE GameReset
  <2>1. GameQueue!Reset
    BY <1>3 DEF GameReset, GameQueue!Reset, InHand
  <2> QED
    BY <2>1 DEF GameQueue!MailboxNext, GameQueue!Consume
<1>4. CASE GameEmpty
  <2>1. GameQueue!Empty
    BY <1>4 DEF GameEmpty, GameQueue!Empty, InHand
  <2> QED
    BY <2>1 DEF GameQueue!MailboxNext, GameQueue!Consume
<1>5. CASE LinkSendNode \/ UnlinkClient \/ NoClientNode \/ PacketOutOfOrder \/ CheckClientAlive
  <2>1. GameQueue!Take
    BY <1>5 DEF LinkSendNode, UnlinkClient, NoClientNode, PacketOutOfOrder, IsPacket,
       CheckClientAlive, UnlinkHead, GameQueue!Take, InHand
  <2> QED
    BY <2>1 DEF GameQueue!MailboxNext, GameQueue!Consume
<1>6. CASE ServerExit
  <2>1. GameQueue!Quit
    BY <1>6 DEF ServerExit, GameQueue!Quit, InHand
  <2> QED
    BY <2>1 DEF GameQueue!MailboxNext
<1>7. CASE ExitAwake
  <2>1. GameQueue!Signal
    BY <1>7 DEF ExitAwake, GameQueue!Signal, InHand
  <2> QED
    BY <2>1 DEF GameQueue!MailboxNext
<1>8. CASE CreateClientNode \/ FreeClientNode \/ ScanSendNode \/ FreePlayerAndClose
             \/ PacketInOrder \/ AwakeSend \/ CloseTimedOut \/ ExitCloseListen
             \/ ExitAwakeAccept
  BY <1>8 DEF CreateClientNode, FreeClientNode, ScanSendNode, FreePlayerAndClose,
     PacketInOrder, IsPacket, AwakeSend, CloseTimedOut, ExitCloseListen, ExitAwakeAccept,
     GameQueue!mailboxVars, InHand
<1> QED
  BY <1>1, <1>2, <1>3, <1>4, <1>5, <1>6, <1>7, <1>8 DEF GameStep

LEMMA NextGameQueue ==
    ASSUME TypeOK, InHand, TypeOK', [Next]_vars
    PROVE  [GameQueue!MailboxNext]_GameQueue!mailboxVars
<1>1. CASE Clients \/ UNCHANGED vars
  BY <1>1, GameQueueSame DEF Clients, vars, serverVars, gameQueue, flagVars, queueVars,
     eventVars, gameVars, mainVars
<1>2. CASE MinutePasses
  BY <1>2, GameQueueSame DEF MinutePasses, gameQueue, flagVars, queueVars, eventVars,
     gameVars, mainVars
<1>3. CASE AcceptStep
  BY <1>3, GameQueueSame DEF AcceptStep, AcceptOuter, AcceptWait, AcceptReset, PollNothing,
     PollStopped, PollAccept, PollError, AcceptFull, AcceptLink, AcceptCheck, AcceptClearFlag,
     acceptFrame, gameQueue, queueVars, mainVars, gameVars
<1>4. CASE SendStep
  BY <1>4, GameQueueSame DEF SendStep, SendOuter, SendWait, SendReset, SendGet, SendCopy,
     SendOne, SendDone, sendFrame, gameQueue, flagVars, mainVars, gameVars
<1> QED
  BY <1>1, <1>2, <1>3, <1>4, MainStepGameQueue, GameStepGameQueue DEF Next

\* PacketRecvList, its event, the main thread and the gameplay thread together
\* implement the Mailbox: each step of the server is a step of the Mailbox or
\* leaves it alone.
THEOREM GameQueueRefines == Spec => GameQueue!MailboxSpec
<1>1. TypeOK /\ InHand /\ (TypeOK /\ InHand)' /\ [Next]_vars
        => [GameQueue!MailboxNext]_GameQueue!mailboxVars
  BY NextGameQueue
<1> QED
  BY <1>1, GameQueueInit, InHandCorrect, PTL DEF Spec, GameQueue!MailboxSpec
-----------------------------------------------------------------------------
(* The send thread's queue is a Mailbox, too.                                *)

LEMMA SendQueueInit == Init => SendQueue!MailboxInit
BY DEF Init, ServerInit, SendQueue!MailboxInit, SendConsumer

\* The gameplay thread is the producer.
LEMMA GameStepSendQueue ==
    ASSUME TypeOK, InHand, TypeOK', GameStep
    PROVE  [SendQueue!MailboxNext]_SendQueue!mailboxVars
<1> USE DEF SendConsumer, queueVars, eventVars, sendVars
<1> DEFINE owing == {p \in {"gameplay"} : gpc = "awakeSend"}
<1>1. CASE PacketInOrder
  <2>1. CASE PacketSendList' = PacketSendList /\ gpc' # "awakeSend"
    <3>1. owing' = owing
      BY <1>1, <2>1 DEF PacketInOrder, IsPacket
    <3> QED
      BY <1>1, <2>1, <3>1 DEF PacketInOrder, SendQueue!mailboxVars
  <2>2. CASE gpc' = "awakeSend" /\ \E m : PacketSendList' = Append(PacketSendList, m)
    <3>1. "gameplay" \notin owing /\ owing' = owing \union {"gameplay"}
      BY <1>1, <2>2 DEF PacketInOrder, IsPacket
    <3>2. PICK m : PacketSendList' = Append(PacketSendList, m)
      BY <2>2
    <3>3. m \in SendPacketInfo
      <4>1. /\ PacketSendList' \in Seq(SendPacketInfo)
            /\ PacketSendList \in Seq(SendPacketInfo \union {m})
        BY SeqMonotonic DEF TypeOK, ServerTypeOK
      <4>2. /\ Len(PacketSendList') = Len(PacketSendList) + 1
            /\ PacketSendList'[Len(PacketSendList) + 1] = m
        BY <3>2, <4>1, AppendProperties
      <4> QED
        BY <4>1, <4>2, ElementOfSeq, LenProperties
    <3>4. UNCHANGED <<sendEvent, spc>>
      BY <1>1 DEF PacketInOrder
    <3>5. SendQueue!Link("gameplay")
      BY <3>1, <3>2, <3>3, <3>4 DEF SendQueue!Link
    <3> QED
      BY <3>5 DEF SendQueue!MailboxNext
  <2> QED
    BY <1>1, <2>1, <2>2 DEF PacketInOrder
<1>2. CASE AwakeSend
  <2>1. "gameplay" \in owing /\ owing' = owing \ {"gameplay"}
    BY <1>2 DEF AwakeSend
  <2>2. sendEvent' = TRUE /\ UNCHANGED <<PacketSendList, spc>>
    BY <1>2 DEF AwakeSend
  <2>3. SendQueue!Awake("gameplay")
    BY <2>1, <2>2 DEF SendQueue!Awake
  <2> QED
    BY <2>3 DEF SendQueue!MailboxNext
<1>3. CASE ExitAwake
  <2>1. SendQueue!Signal
    BY <1>3 DEF ExitAwake, SendQueue!Signal
  <2> QED
    BY <2>1 DEF SendQueue!MailboxNext
<1>4. CASE GameOuter \/ GameWait \/ GameReset \/ GameEmpty \/ CreateClientNode \/ LinkSendNode
             \/ FreeClientNode \/ ScanSendNode \/ FreePlayerAndClose \/ UnlinkClient
             \/ NoClientNode \/ PacketOutOfOrder \/ CloseTimedOut \/ CheckClientAlive
             \/ ServerExit \/ ExitCloseListen \/ ExitAwakeAccept
  <2>1. UNCHANGED <<PacketSendList, sendEvent, spc>> /\ owing' = owing
    BY <1>4 DEF GameOuter, GameWait, GameReset, GameEmpty, CreateClientNode, LinkSendNode,
       FreeClientNode, ScanSendNode, FreePlayerAndClose, UnlinkClient, NoClientNode,
       PacketOutOfOrder, IsPacket, CloseTimedOut, CheckClientAlive, UnlinkHead, ServerExit,
       ExitCloseListen,
       ExitAwakeAccept
  <2> QED
    BY <2>1, SMTT(40) DEF SendQueue!mailboxVars
<1> QED
  BY <1>1, <1>2, <1>3, <1>4 DEF GameStep

\* The send thread is the consumer.
LEMMA SendStepSendQueue ==
    ASSUME InHand, SendStep
    PROVE  [SendQueue!MailboxNext]_SendQueue!mailboxVars
<1> USE DEF SendConsumer, sendFrame, gameVars
<1>1. CASE SendOuter
  <2>1. SendQueue!Stop \/ UNCHANGED SendQueue!mailboxVars
    BY <1>1 DEF SendOuter, SendQueue!Stop, SendQueue!mailboxVars
  <2> QED
    BY <2>1 DEF SendQueue!MailboxNext
<1>2. CASE SendWait
  <2>1. SendQueue!WaitReturns
    BY <1>2 DEF SendWait, SendQueue!WaitReturns
  <2> QED
    BY <2>1 DEF SendQueue!MailboxNext, SendQueue!Consume
<1>3. CASE SendReset
  <2>1. SendQueue!Reset
    BY <1>3 DEF SendReset, SendQueue!Reset
  <2> QED
    BY <2>1 DEF SendQueue!MailboxNext, SendQueue!Consume
<1>4. CASE SendGet
  <2>1. SendQueue!Empty \/ UNCHANGED SendQueue!mailboxVars
    BY <1>4 DEF SendGet, SendQueue!Empty, SendQueue!mailboxVars
  <2> QED
    BY <2>1 DEF SendQueue!MailboxNext, SendQueue!Consume
<1>5. CASE SendCopy \/ SendOne
  BY <1>5 DEF SendCopy, SendOne, SendQueue!mailboxVars
<1>6. CASE SendDone
  <2>1. SendQueue!Take
    BY <1>6 DEF SendDone, SendQueue!Take, InHand
  <2> QED
    BY <2>1 DEF SendQueue!MailboxNext, SendQueue!Consume
<1> QED
  BY <1>1, <1>2, <1>3, <1>4, <1>5, <1>6 DEF SendStep

LEMMA NextSendQueue ==
    ASSUME TypeOK, InHand, TypeOK', [Next]_vars
    PROVE  [SendQueue!MailboxNext]_SendQueue!mailboxVars
<1>1. ASSUME UNCHANGED <<PacketSendList, sendEvent, spc, gpc>>
      PROVE  UNCHANGED SendQueue!mailboxVars
  BY <1>1 DEF SendQueue!mailboxVars, SendConsumer
<1>2. CASE Clients \/ UNCHANGED vars
  BY <1>1, <1>2 DEF Clients, vars, serverVars, queueVars, eventVars, gameVars, sendVars
<1>3. CASE MinutePasses
  BY <1>1, <1>3 DEF MinutePasses, queueVars, eventVars, gameVars, sendVars
<1>4. CASE MainStep
  BY <1>1, <1>4 DEF MainStep, SelectBlocking, TimedMode, LeaveLoop, DrainAcceptList, DrainAwake,
     SelectTimed, SelectDone, AwakeAccept, RecvPacket, AwakeRecv, RecvFail, NoticeFree,
     AwakeFree, GameAwake, Release, queueVars, eventVars, gameVars, sendVars
<1>5. CASE AcceptStep
  BY <1>1, <1>5 DEF AcceptStep, AcceptOuter, AcceptWait, AcceptReset, PollNothing,
     PollStopped, PollAccept, PollError, AcceptFull, AcceptLink, AcceptCheck, AcceptClearFlag,
     acceptFrame, queueVars, gameVars, sendVars
<1> QED
  BY <1>2, <1>3, <1>4, <1>5, GameStepSendQueue, SendStepSendQueue DEF Next

\* PacketSendList, its event, the gameplay thread and the send thread together
\* implement the Mailbox.
THEOREM SendQueueRefines == Spec => SendQueue!MailboxSpec
<1>1. TypeOK /\ InHand /\ (TypeOK /\ InHand)' /\ [Next]_vars
        => [SendQueue!MailboxNext]_SendQueue!mailboxVars
  BY NextSendQueue
<1> QED
  BY <1>1, SendQueueInit, InHandCorrect, PTL DEF Spec, SendQueue!MailboxSpec
-----------------------------------------------------------------------------
(* The pool of send nodes.                                                   *)

\* A send node is either linked once or free once, and a linked one holds a
\* pointer to an order number.
PoolOK ==
    /\ IsInjective(SocketSendList)
    /\ IsInjective(sendFree)
    /\ Range(SocketSendList) \intersect Range(sendFree) = {}
    /\ NoNullCounter

\* The elements of a sequence over S are in S.
LEMMA RangeIn ==
    ASSUME NEW S, NEW list \in Seq(S)
    PROVE  Range(list) \subseteq S
  BY DEF Range

\* Unlinking a node that is linked once takes this node out and no other.
LEMMA UnlinkLinked ==
    ASSUME NEW S, NEW list \in Seq(S), IsInjective(list), NEW n \in Range(list)
    PROVE  /\ Range(Unlink(list, n)) = Range(list) \ {n}
           /\ IsInjective(Unlink(list, n))
<1> DEFINE k == IndexOf(list, n)
           u == Unlink(list, n)
<1>1. k \in 1 .. Len(list) /\ list[k] = n
  <2>1. \E i \in 1 .. Len(list) : list[i] = n
    BY DEF Range
  <2> QED
    BY <2>1 DEF IndexOf
<1>2. u = SubSeq(list, 1, k - 1) \o SubSeq(list, k + 1, Len(list))
  BY DEF Unlink, RemoveAt
<1> HIDE DEF k, u
<1>3. /\ DOMAIN u = 1 .. Len(list) - 1
      /\ \A i \in 1 .. Len(list) - 1 : u[i] = list[IF i < k THEN i ELSE i + 1]
  <2> DEFINE a == SubSeq(list, 1, k - 1)
             b == SubSeq(list, k + 1, Len(list))
  <2>1. /\ a \in Seq(S) /\ Len(a) = k - 1
        /\ \A i \in 1 .. k - 1 : a[i] = list[i]
    BY <1>1
  <2>2. /\ b \in Seq(S) /\ Len(b) = Len(list) - k
        /\ \A i \in 1 .. Len(list) - k : b[i] = list[k + i]
    BY <1>1
  <2>3. u = a \o b
    BY <1>2
  <2> HIDE DEF a, b
  <2>4. /\ DOMAIN u = 1 .. (k - 1) + (Len(list) - k)
        /\ \A i \in 1 .. (k - 1) + (Len(list) - k) :
              u[i] = IF i <= k - 1 THEN a[i] ELSE b[i - (k - 1)]
    BY <2>1, <2>2, <2>3
  <2>5. (k - 1) + (Len(list) - k) = Len(list) - 1
    BY <1>1
  <2>6. ASSUME NEW i \in 1 .. Len(list) - 1
        PROVE  u[i] = list[IF i < k THEN i ELSE i + 1]
    <3>1. CASE i < k
      BY <1>1, <2>1, <2>4, <2>5, <3>1
    <3>2. CASE ~(i < k)
      <4>1. i - (k - 1) \in 1 .. Len(list) - k /\ k + (i - (k - 1)) = i + 1 /\ ~(i <= k - 1)
        BY <1>1, <3>2
      <4>2. u[i] = b[i - (k - 1)]
        BY <2>4, <2>5, <4>1
      <4> QED
        BY <2>2, <3>2, <4>1, <4>2
    <3> QED
      BY <3>1, <3>2
  <2> QED
    BY <2>4, <2>5, <2>6
<1>4. IsInjective(u)
  <2> DEFINE old(i) == IF i < k THEN i ELSE i + 1
  <2>1. \A i, j \in 1 .. Len(list) - 1 :
          /\ old(i) \in 1 .. Len(list) /\ old(j) \in 1 .. Len(list)
          /\ old(i) = old(j) => i = j
    BY <1>1
  <2>2. \A i \in 1 .. Len(list) - 1 : u[i] = list[old(i)]
    BY <1>3
  <2> HIDE DEF old
  <2>3. \A i, j \in 1 .. Len(list) : list[i] = list[j] => i = j
    BY DEF IsInjective
  <2>4. \A i, j \in 1 .. Len(list) - 1 : u[i] = u[j] => i = j
    BY <2>1, <2>2, <2>3
  <2> QED
    BY <1>3, <2>4 DEF IsInjective
<1>5. Range(u) = Range(list) \ {n}
  <2>1. ASSUME NEW x \in Range(u) PROVE x \in Range(list) \ {n}
    <3>1. PICK i \in 1 .. Len(list) - 1 : u[i] = x
      BY <1>3 DEF Range
    <3>2. PICK j \in 1 .. Len(list) : j # k /\ list[j] = x
      BY <1>1, <1>3, <3>1
    <3> QED
      BY <1>1, <3>2 DEF Range, IsInjective
  <2>2. ASSUME NEW x \in Range(list) \ {n} PROVE x \in Range(u)
    <3>1. PICK j \in 1 .. Len(list) : list[j] = x
      BY DEF Range
    <3>2. j # k
      BY <1>1, <3>1
    <3>3. \E i \in 1 .. Len(list) - 1 : u[i] = x
      <4>1. CASE j < k
        BY <1>1, <1>3, <3>1, <4>1
      <4>2. CASE j > k
        <5>1. j - 1 \in 1 .. Len(list) - 1 /\ ~(j - 1 < k)
          BY <1>1, <4>2
        <5> QED
          BY <1>3, <3>1, <5>1
      <4> QED
        BY <1>1, <3>2, <4>1, <4>2
    <3> QED
      BY <1>3, <3>3 DEF Range
  <2> QED
    BY <2>1, <2>2
<1> QED
  BY <1>4, <1>5 DEF u

\* Freeing puts a node on top of the pool.
LEMMA PushFresh ==
    ASSUME NEW S, NEW q \in Seq(S), NEW n \in S, n \notin Range(q), IsInjective(q)
    PROVE  /\ IsInjective(<<n>> \o q)
           /\ Range(<<n>> \o q) = Range(q) \union {n}
<1>1. /\ DOMAIN (<<n>> \o q) = 1 .. Len(q) + 1
      /\ \A i \in 1 .. Len(q) + 1 : (<<n>> \o q)[i] = IF i = 1 THEN n ELSE q[i - 1]
  OBVIOUS
<1>2. \A i \in 1 .. Len(q) : q[i] # n
  BY DEF Range
<1>3. IsInjective(<<n>> \o q)
  BY <1>1, <1>2 DEF IsInjective
<1>4. \A i \in 1 .. Len(q) : i + 1 \in 1 .. Len(q) + 1 /\ (<<n>> \o q)[i + 1] = q[i]
  BY <1>1
<1>5. Range(<<n>> \o q) = Range(q) \union {n}
  <2>1. ASSUME NEW x \in Range(<<n>> \o q) PROVE x \in Range(q) \union {n}
    <3>1. PICK i \in 1 .. Len(q) + 1 : (<<n>> \o q)[i] = x
      BY <1>1 DEF Range
    <3>2. CASE i = 1
      BY <1>1, <3>1, <3>2
    <3>3. CASE i # 1
      <4>1. i - 1 \in 1 .. Len(q) /\ x = q[i - 1]
        BY <1>1, <3>1, <3>3
      <4> QED
        BY <4>1 DEF Range
    <3> QED
      BY <3>2, <3>3
  <2>2. n \in Range(<<n>> \o q)
    <3>1. 1 \in 1 .. Len(q) + 1 /\ (<<n>> \o q)[1] = n
      BY <1>1
    <3> QED
      BY <1>1, <3>1 DEF Range
  <2>3. ASSUME NEW x \in Range(q) PROVE x \in Range(<<n>> \o q)
    <3>1. PICK i \in 1 .. Len(q) : q[i] = x
      BY DEF Range
    <3> QED
      BY <1>1, <1>4, <3>1 DEF Range
  <2> QED
    BY <2>1, <2>2, <2>3
<1> QED
  BY <1>3, <1>5

\* Freeing a linked send node, or none, keeps the pool in order.
LEMMA UnlinkFreePool ==
    ASSUME TypeOK, PoolOK, NEW n \in Range(SocketSendList) \union {NoNode},
           UnlinkFreeSendNode(n), UNCHANGED SocketSendCache
    PROVE  PoolOK'
<1>1. CASE n = NoNode
  <2>0. n \notin Node
    BY <1>1, NodeMaxAssumption DEF NoNode, Node
  <2>1. n \notin Range(SocketSendList)
    BY <2>0, RangeIn DEF TypeOK, ServerTypeOK
  <2>2. /\ UNCHANGED <<SocketSendList, sendFree>>
        /\ \A m \in Node : sendNode'[m] = sendNode[m]
    BY <1>1, <2>0, <2>1 DEF UnlinkFreeSendNode, Unlink
  <2>3. \A i \in DOMAIN SocketSendList : SocketSendList[i] \in Node
    BY DEF TypeOK, ServerTypeOK
  <2> QED
    BY <2>2, <2>3 DEF PoolOK, NoNullCounter
<1>2. CASE n # NoNode
  <2>1. n \in Node /\ n \in Range(SocketSendList) /\ n \notin Range(sendFree)
    BY <1>2, RangeIn DEF TypeOK, ServerTypeOK, PoolOK
  <2>2. /\ Range(SocketSendList') = Range(SocketSendList) \ {n}
        /\ IsInjective(SocketSendList')
        /\ SocketSendList' \in Seq(Node)
    BY <2>1, UnlinkLinked, UnlinkType DEF UnlinkFreeSendNode, PoolOK, TypeOK, ServerTypeOK
  <2>3. /\ Range(sendFree') = Range(sendFree) \union {n}
        /\ IsInjective(sendFree')
    BY <1>2, <2>1, PushFresh DEF UnlinkFreeSendNode, PoolOK, TypeOK, ServerTypeOK
  <2>4. ASSUME NEW i \in DOMAIN SocketSendList'
        PROVE  sendNode'[SocketSendList'[i]].pS2C \in Node
    <3>1. /\ SocketSendList'[i] \in Range(SocketSendList)
          /\ SocketSendList'[i] # n
          /\ SocketSendList'[i] \in Node
      <4>1. SocketSendList'[i] \in Range(SocketSendList')
        BY DEF Range
      <4> QED
        BY <2>2, <4>1
    <3>2. sendNode'[SocketSendList'[i]] = sendNode[SocketSendList'[i]]
      BY <3>1 DEF UnlinkFreeSendNode
    <3> QED
      BY <3>1, <3>2 DEF PoolOK, NoNullCounter, Range
  <2> QED
    BY <2>2, <2>3, <2>4 DEF PoolOK, NoNullCounter
<1> QED
  BY <1>1, <1>2

\* Taking the top of the pool.
LEMMA PopFresh ==
    ASSUME NEW S, NEW q \in Seq(S), q # <<>>, IsInjective(q)
    PROVE  /\ Head(q) \in Range(q)
           /\ IsInjective(Tail(q))
           /\ Range(Tail(q)) \subseteq Range(q) \ {Head(q)}
<1>1. /\ Len(q) \in Nat \ {0}
      /\ DOMAIN Tail(q) = 1 .. Len(q) - 1
      /\ \A i \in 1 .. Len(q) - 1 : Tail(q)[i] = q[i + 1]
      /\ Head(q) = q[1]
  OBVIOUS
<1>2. \A i, j \in 1 .. Len(q) : q[i] = q[j] => i = j
  BY DEF IsInjective
<1>3. \A i \in 1 .. Len(q) - 1 : i + 1 \in 1 .. Len(q) /\ i + 1 # 1
  BY <1>1
<1>4. 1 \in 1 .. Len(q)
  BY <1>1
<1>5. Head(q) \in Range(q)
  BY <1>1, <1>4 DEF Range
<1>6. IsInjective(Tail(q))
  <2>1. \A i, j \in 1 .. Len(q) - 1 : Tail(q)[i] = Tail(q)[j] => i = j
    BY <1>1, <1>2, <1>3
  <2> QED
    BY <1>1, <2>1 DEF IsInjective
<1>7. ASSUME NEW x \in Range(Tail(q)) PROVE x \in Range(q) \ {Head(q)}
  <2>1. PICK i \in 1 .. Len(q) - 1 : Tail(q)[i] = x
    BY <1>1 DEF Range
  <2>2. i + 1 \in 1 .. Len(q) /\ q[i + 1] = x /\ x # q[1]
    BY <1>1, <1>2, <1>3, <1>4, <2>1
  <2> QED
    BY <1>1, <2>2 DEF Range
<1> QED
  BY <1>5, <1>6, <1>7

\* Linking a fresh node at the end of a list.
LEMMA AppendFresh ==
    ASSUME NEW S, NEW q \in Seq(S), NEW n \in S, n \notin Range(q), IsInjective(q)
    PROVE  /\ IsInjective(Append(q, n))
           /\ Range(Append(q, n)) = Range(q) \union {n}
<1>1. /\ Len(q) \in Nat
      /\ DOMAIN Append(q, n) = 1 .. Len(q) + 1
      /\ \A i \in 1 .. Len(q) : Append(q, n)[i] = q[i]
      /\ Append(q, n)[Len(q) + 1] = n
  BY AppendProperties
<1>2. \A i \in 1 .. Len(q) : q[i] # n
  BY DEF Range
<1>3. \A i \in 1 .. Len(q) + 1 : i \in 1 .. Len(q) \/ i = Len(q) + 1
  BY <1>1
<1>4. IsInjective(Append(q, n))
  <2>1. \A i, j \in 1 .. Len(q) : q[i] = q[j] => i = j
    BY DEF IsInjective
  <2>2. \A i, j \in 1 .. Len(q) + 1 : Append(q, n)[i] = Append(q, n)[j] => i = j
    BY <1>1, <1>2, <1>3, <2>1
  <2> QED
    BY <1>1, <2>2 DEF IsInjective
<1>5. \A i \in 1 .. Len(q) : i \in 1 .. Len(q) + 1
  BY <1>1
<1>6. Len(q) + 1 \in 1 .. Len(q) + 1
  BY <1>1
<1>7. Range(Append(q, n)) = Range(q) \union {n}
  <2>1. ASSUME NEW x \in Range(Append(q, n)) PROVE x \in Range(q) \union {n}
    <3>1. PICK i \in 1 .. Len(q) + 1 : Append(q, n)[i] = x
      BY <1>1 DEF Range
    <3> QED
      BY <1>1, <1>3, <3>1 DEF Range
  <2>2. ASSUME NEW x \in Range(q) \union {n} PROVE x \in Range(Append(q, n))
    <3>1. \E i \in 1 .. Len(q) + 1 : Append(q, n)[i] = x
      BY <1>1, <1>5, <1>6 DEF Range
    <3> QED
      BY <1>1, <3>1 DEF Range
  <2> QED
    BY <2>1, <2>2
<1> QED
  BY <1>4, <1>7

\* A new client's send node comes from the pool and points at its client.
LEMMA LinkSendNodePool ==
    ASSUME TypeOK, InHand, PoolOK, LinkSendNode
    PROVE  PoolOK'
<1> DEFINE n == Head(sendFree)
<1>0. /\ gclient \in Node
      /\ sendFree # <<>>
      /\ SocketSendList' = Append(SocketSendList, n)
      /\ sendFree' = Tail(sendFree)
      /\ SocketSendCache' = SocketSendCache
  BY DEF LinkSendNode, InHand
<1>1. n \in Range(sendFree) /\ n \in Node /\ n \notin Range(SocketSendList)
  BY <1>0, PopFresh, RangeIn DEF PoolOK, TypeOK, ServerTypeOK
<1>2. /\ IsInjective(sendFree')
      /\ Range(sendFree') \subseteq Range(sendFree) \ {n}
  BY <1>0, PopFresh DEF PoolOK, TypeOK, ServerTypeOK
<1>3. /\ IsInjective(SocketSendList')
      /\ Range(SocketSendList') = Range(SocketSendList) \union {n}
  BY <1>0, <1>1, AppendFresh DEF PoolOK, TypeOK, ServerTypeOK
<1>4. /\ sendNode'[n].pS2C = gclient
      /\ \A m \in Node \ {n} : sendNode'[m] = sendNode[m]
  BY <1>1 DEF LinkSendNode, TypeOK, ServerTypeOK
<1> HIDE DEF n
<1>5. ASSUME NEW m \in Range(SocketSendList') PROVE sendNode'[m].pS2C \in Node
  <2>1. CASE m = n
    BY <1>0, <1>4, <2>1
  <2>2. CASE m # n
    <3>1. m \in Range(SocketSendList) /\ m \in Node
      BY <1>3, <2>2, RangeIn DEF TypeOK, ServerTypeOK
    <3>2. sendNode[m].pS2C \in Node
      BY <3>1 DEF PoolOK, NoNullCounter, Range
    <3> QED
      BY <1>4, <2>2, <3>1, <3>2
  <2> QED
    BY <2>1, <2>2
<1>6. \A i \in DOMAIN SocketSendList' : sendNode'[SocketSendList'[i]].pS2C \in Node
  BY <1>5 DEF Range
<1> QED
  BY <1>0, <1>1, <1>2, <1>3, <1>6 DEF PoolOK, NoNullCounter

LEMMA NextPool ==
    ASSUME TypeOK, InHand, FoundNodeStillLinked, PoolOK, [Next]_vars
    PROVE  PoolOK'
<1>1. ASSUME UNCHANGED sendListVars PROVE PoolOK'
  BY <1>1 DEF PoolOK, NoNullCounter, sendListVars
<1>2. CASE Clients \/ MinutePasses \/ UNCHANGED vars
  BY <1>1, <1>2 DEF Clients, MinutePasses, vars, serverVars
<1>3. CASE MainStep
  <2>1. CASE RecvFail
    <3>1. PICK i \in 1 .. Len(SocketRecvList) :
            UnlinkFreeSendNode(FirstWith(SocketSendList, sendNode, SocketRecvList[i]))
      BY <2>1 DEF RecvFail
    <3>2. FirstWith(SocketSendList, sendNode, SocketRecvList[i])
            \in Range(SocketSendList) \union {NoNode}
      BY FirstWithLinked DEF TypeOK, ServerTypeOK
    <3>3. UNCHANGED SocketSendCache
      BY <2>1 DEF RecvFail
    <3> QED
      BY <3>1, <3>2, <3>3, UnlinkFreePool
  <2>2. CASE ~RecvFail
    BY <1>1, <1>3, <2>2 DEF MainStep, SelectBlocking, TimedMode, LeaveLoop, DrainAcceptList,
       DrainAwake, SelectTimed, SelectDone, AwakeAccept, RecvPacket, AwakeRecv, NoticeFree,
       AwakeFree, GameAwake, Release
  <2> QED
    BY <2>1, <2>2
<1>4. CASE AcceptStep
  BY <1>1, <1>4 DEF AcceptStep, AcceptOuter, AcceptWait, AcceptReset, PollNothing,
     PollStopped, PollAccept, PollError, AcceptFull, AcceptLink, AcceptCheck, AcceptClearFlag,
     acceptFrame
<1>5. CASE GameStep
  <2>1. CASE UnlinkClient
    <3>1. gdel \in Range(SocketSendList) \union {NoNode}
      BY <2>1, SMTT(40) DEF UnlinkClient, FoundNodeStillLinked
    <3> QED
      BY <2>1, <3>1, UnlinkFreePool DEF UnlinkClient
  <2>2. CASE ~UnlinkClient /\ ~LinkSendNode
    BY <1>1, <1>5, <2>2 DEF GameStep, GameOuter, GameWait, GameReset, GameEmpty, CreateClientNode,
       FreeClientNode, ScanSendNode, FreePlayerAndClose, NoClientNode, PacketInOrder,
       PacketOutOfOrder, AwakeSend, CloseTimedOut, CheckClientAlive, ServerExit, ExitCloseListen,
       ExitAwakeAccept, ExitAwake
  <2> QED
    BY <2>1, <2>2, LinkSendNodePool
<1>6. CASE SendStep
  <2>1. CASE SendCopy
    <3>1. UNCHANGED <<SocketSendList, sendNode, sendFree>>
      BY <2>1 DEF SendCopy, sendFrame
    <3>2. SocketSendCache' = [i \in 1 .. Len(SocketSendList) |-> sendNode[SocketSendList[i]]]
      BY <2>1 DEF SendCopy
    <3>3. \A i \in DOMAIN SocketSendList : sendNode[SocketSendList[i]].pS2C \in Node
      BY DEF PoolOK, NoNullCounter
    <3>4. DOMAIN SocketSendList = 1 .. Len(SocketSendList)
      BY DEF TypeOK, ServerTypeOK
    <3>5. \A i \in DOMAIN SocketSendCache' : SocketSendCache'[i].pS2C \in Node
      BY <3>2, <3>3, <3>4
    <3> QED
      BY <3>1, <3>5 DEF PoolOK, NoNullCounter
  <2>2. CASE ~SendCopy
    BY <1>1, <1>6, <2>2 DEF SendStep, SendOuter, SendWait, SendReset, SendGet, SendOne, SendDone,
       sendFrame, sendListVars
  <2> QED
    BY <2>1, <2>2
<1> QED
  BY <1>2, <1>3, <1>4, <1>5, <1>6 DEF Next

LEMMA InitPool == Init => PoolOK
<1> SUFFICES ASSUME Init PROVE PoolOK
  OBVIOUS
<1>1. /\ SocketSendList = <<>> /\ SocketSendCache = <<>>
      /\ sendFree = [i \in 1 .. NodeMax |-> i]
  BY DEF Init, ServerInit
<1>2. IsInjective(sendFree)
  BY <1>1 DEF IsInjective
<1>3. DOMAIN SocketSendList = {} /\ DOMAIN SocketSendCache = {}
  BY <1>1
<1>4. Range(SocketSendList) = {}
  BY <1>3 DEF Range
<1>5. IsInjective(SocketSendList)
  BY <1>3 DEF IsInjective
<1>6. NoNullCounter
  BY <1>3 DEF NoNullCounter
<1> QED
  BY <1>2, <1>4, <1>5, <1>6 DEF PoolOK

\* As long as no send node is freed after another thread has unlinked it, the
\* send thread never goes through a NULL order-number pointer.
THEOREM CounterCorrect == Spec /\ []FoundNodeStillLinked => []NoNullCounter
<1>1. PoolOK => NoNullCounter
  BY DEF PoolOK
<1>2. (TypeOK /\ InHand) /\ FoundNodeStillLinked /\ PoolOK /\ [Next]_vars => PoolOK'
  BY NextPool
<1> QED
  BY <1>1, <1>2, InitPool, InHandCorrect, PTL DEF Spec

-----------------------------------------------------------------------------
(* No connection request is overlooked.                                      *)

\* A select without a timeout that nothing has completed yet polls the
\* listening socket, and nobody waits in the backlog; only timed mode goes
\* through AcceptList.
SelectOK ==
    /\ mpc = "select" /\ ~timed =>
         /\ selecting
         /\ completed # {} \/ (ListenHandle \in fds_read /\ backlog = <<>>)
    /\ mpc \in {"drain", "drainAwake"} => timed

\* What the other threads may do to a pending select.
Undisturbed ==
    /\ UNCHANGED <<mpc, timed, fds_read, selecting>>
    /\ completed # {} => completed' # {}
    /\ backlog = <<>> => backlog' = <<>>

LEMMA UndisturbedSelect == ASSUME SelectOK, Undisturbed PROVE SelectOK'
BY DEF SelectOK, Undisturbed

LEMMA NetSameUndisturbed ==
    ASSUME UNCHANGED <<netVars, mpc, timed>> PROVE Undisturbed
BY DEF Undisturbed, netVars, clientVars, selectVars

LEMMA CloseHandlesUndisturbed ==
    ASSUME NEW H, CloseHandles(H), UNCHANGED <<mpc, timed>> PROVE Undisturbed
BY DEF CloseHandles, Undisturbed

LEMMA CloseListenSocketUndisturbed ==
    ASSUME CloseListenSocket, UNCHANGED <<mpc, timed>> PROVE Undisturbed
BY DEF CloseListenSocket, Undisturbed

\* connect() completes a pending select that polls the listening socket.
LEMMA ClientsSelect ==
    ASSUME SelectOK, Clients
    PROVE  SelectOK'
<1>1. UNCHANGED <<mpc, timed>>
  BY DEF Clients, serverVars, mainVars
<1>2. ASSUME NEW c \in Conn, ClientConnect(c) PROVE SelectOK'
  <2>1. /\ UNCHANGED <<fds_read, selecting>>
        /\ completed' = IF selecting /\ completed = {} THEN {ListenHandle} \intersect fds_read
                                                       ELSE completed
    BY <1>2 DEF ClientConnect, Arrive
  <2> QED
    BY <1>1, <2>1 DEF SelectOK
<1>3. ASSUME NEW c \in Conn, ClientSend(c) \/ ClientClose(c) PROVE Undisturbed
  <2>1. /\ UNCHANGED <<fds_read, selecting, backlog>>
        /\ completed # {} => completed' = completed
    BY <1>3 DEF ClientSend, ClientClose, Arrive
  <2> QED
    BY <1>1, <2>1 DEF Undisturbed
<1> QED
  BY <1>2, <1>3, UndisturbedSelect DEF Clients, ClientStep

\* A select that is called while a connection waits, or on a listening socket
\* that is closed, is complete at once.
LEMMA SelectBlockingSelect ==
    ASSUME TypeOK, SelectBlocking
    PROVE  SelectOK'
<1>1. PICK H \in SUBSET FdSet : ReadSet(H) /\ SelectCall(H)
  BY DEF SelectBlocking
<1>2. /\ fds_read' = H /\ selecting'
      /\ completed' = IF \E h \in H : ~Valid(h) THEN H ELSE {h \in H : Readable(h)}
      /\ backlog' = backlog /\ mpc' = "select"
  BY <1>1 DEF SelectBlocking, SelectCall, clientVars
<1>3. ListenSocket \in H /\ ListenSocket \in {ListenHandle, INVALID_SOCKET}
  BY <1>1, ReadSetIn DEF TypeOK, NetTypeOK
<1>4. CASE \E h \in H : ~Valid(h)
  BY <1>2, <1>3, <1>4 DEF SelectOK
<1>5. CASE \A h \in H : Valid(h)
  <2>1. ListenHandle \in H
    BY <1>3, <1>5, ConnAssumption DEF Valid
  <2>2. backlog # <<>> => ListenHandle \in completed'
    BY <1>2, <1>5, <2>1 DEF Readable
  <2> QED
    BY <1>2, <2>1, <2>2 DEF SelectOK
<1> QED
  BY <1>4, <1>5

LEMMA MainStepSelect ==
    ASSUME TypeOK, SelectOK, MainStep
    PROVE  SelectOK'
<1>1. CASE SelectBlocking
  BY <1>1, SelectBlockingSelect
<1>2. CASE TimedMode \/ SelectTimed \/ DrainAcceptList \/ DrainAwake
  BY <1>2 DEF SelectOK, TimedMode, SelectTimed, DrainAcceptList, DrainAwake
<1>3. CASE ~(SelectBlocking \/ TimedMode \/ SelectTimed \/ DrainAcceptList \/ DrainAwake)
  <2>1. mpc' \notin {"select", "drain", "drainAwake"}
    BY <1>3 DEF MainStep, LeaveLoop, SelectDone, AwakeAccept, RecvPacket, AwakeRecv, RecvFail,
       NoticeFree, AwakeFree, GameAwake, Release
  <2> QED
    BY <2>1 DEF SelectOK
<1> QED
  BY <1>1, <1>2, <1>3

LEMMA AcceptStepUndisturbed ==
    ASSUME AcceptStep
    PROVE  Undisturbed
<1>1. UNCHANGED <<mpc, timed>>
  BY DEF AcceptStep, AcceptOuter, AcceptWait, AcceptReset, PollNothing, PollStopped, PollAccept,
     PollError, AcceptFull, AcceptLink, AcceptCheck, AcceptClearFlag, acceptFrame, mainVars
<1>2. CASE PollAccept \/ PollError
  BY <1>1, <1>2 DEF Undisturbed, PollAccept, PollError, selectVars
<1>3. CASE AcceptFull
  BY <1>1, <1>3, CloseHandlesUndisturbed DEF AcceptFull
<1>4. CASE ~(PollAccept \/ PollError \/ AcceptFull)
  BY <1>1, <1>4, NetSameUndisturbed DEF AcceptStep, AcceptOuter, AcceptWait, AcceptReset,
     PollNothing, PollStopped, AcceptLink, AcceptCheck, AcceptClearFlag
<1> QED
  BY <1>2, <1>3, <1>4

LEMMA GameStepUndisturbed ==
    ASSUME GameStep
    PROVE  Undisturbed
<1>1. UNCHANGED <<mpc, timed>>
  BY DEF GameStep, GameOuter, GameWait, GameReset, GameEmpty, CreateClientNode, LinkSendNode,
     FreeClientNode, ScanSendNode, FreePlayerAndClose, UnlinkClient, NoClientNode, PacketInOrder,
     PacketOutOfOrder, AwakeSend, CloseTimedOut, CheckClientAlive, ServerExit, ExitCloseListen, ExitAwakeAccept,
     ExitAwake, mainVars
<1>2. CASE ExitCloseListen
  BY <1>1, <1>2, CloseListenSocketUndisturbed DEF ExitCloseListen
<1>3. CASE FreePlayerAndClose \/ PacketOutOfOrder \/ CloseTimedOut
  <2>1. CASE FreePlayerAndClose
    <3>1. CloseHandles({client[gclient].Socket}) \/ UNCHANGED netVars
      BY <2>1 DEF FreePlayerAndClose
    <3> QED
      BY <1>1, <3>1, CloseHandlesUndisturbed, NetSameUndisturbed
  <2>2. CASE CloseTimedOut
    <3>1. \E H : CloseHandles(H)
      BY <2>2 DEF CloseTimedOut
    <3> QED
      BY <1>1, <3>1, CloseHandlesUndisturbed
  <2>3. CASE PacketOutOfOrder
    <3>1. CloseHandles({client[clientNode].Socket})
      BY <2>3 DEF PacketOutOfOrder
    <3> QED
      BY <1>1, <3>1, CloseHandlesUndisturbed
  <2> QED
    BY <1>3, <2>1, <2>2, <2>3
<1>4. CASE ~(ExitCloseListen \/ FreePlayerAndClose \/ PacketOutOfOrder \/ CloseTimedOut)
  BY <1>1, <1>4, NetSameUndisturbed DEF GameStep, GameOuter, GameWait, GameReset, GameEmpty,
     CreateClientNode, LinkSendNode, FreeClientNode, ScanSendNode, UnlinkClient, NoClientNode,
     PacketInOrder, AwakeSend, CheckClientAlive, ServerExit, ExitAwakeAccept, ExitAwake
<1> QED
  BY <1>2, <1>3, <1>4, SMTT(40)

LEMMA SendStepUndisturbed ==
    ASSUME SendStep
    PROVE  Undisturbed
BY DEF SendStep, SendOuter, SendWait, SendReset, SendGet, SendCopy, SendOne, SendDone, sendFrame,
   mainVars, netVars, clientVars, selectVars, Undisturbed

LEMMA NextSelect == TypeOK /\ SelectOK /\ [Next]_vars => SelectOK'
<1> SUFFICES ASSUME TypeOK, SelectOK, [Next]_vars PROVE SelectOK'
  OBVIOUS
<1>1. CASE UNCHANGED vars \/ MinutePasses
  BY <1>1, NetSameUndisturbed, UndisturbedSelect DEF MinutePasses, vars, serverVars, mainVars
<1>2. CASE AcceptStep \/ GameStep \/ SendStep
  BY <1>2, AcceptStepUndisturbed, GameStepUndisturbed, SendStepUndisturbed, UndisturbedSelect
<1> QED
  BY <1>1, <1>2, ClientsSelect, MainStepSelect DEF Next

\* A select that waits without a timeout is completed by whoever waits to be
\* accepted, in every interleaving with the threads that close handles; the
\* accept thread need not sleep for that.
THEOREM RequestsNoticed == Spec => []RequestNoticed
<1>1. Init => SelectOK
  BY DEF Init, ServerInit, SelectOK
<1>2. SelectOK => RequestNoticed
  BY DEF SelectOK, RequestNoticed
<1> QED
  BY <1>1, <1>2, NextSelect, TypeCorrect, PTL DEF Spec
=============================================================================

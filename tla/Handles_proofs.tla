---------------------------- MODULE Handles_proofs ----------------------------
(* Handles whose numbers come back, and what names them: packets on their    *)
(* way, notices, client nodes and the main thread's list.                    *)
EXTENDS TCPServer_proofs, FiniteSetTheorems

(* SEND__NON_SELF never returns a message to its sender.                     *)

\* Handle s is, or was, the only handle connection c will ever have.
Came(s, c) ==
    /\ peer[c] # "new"
    /\ c \notin Range(backlog)
    /\ \A h \in Sock : owner[h] = c => h = s

\* A connection waits in the backlog at most once, and has no handle then;
\* afterwards it has at most one; what it has sent is its own.
WorldOK ==
    /\ IsInjective(backlog)
    /\ \A i \in DOMAIN backlog : peer[backlog[i]] # "new"
    /\ \A h \in Sock : owner[h] # NoConn =>
           peer[owner[h]] # "new" /\ owner[h] \notin Range(backlog)
    /\ \A g, h \in Sock : owner[g] # NoConn /\ owner[g] = owner[h] => g = h
    /\ \A c \in Conn : \A i \in DOMAIN inbox[c] : inbox[c][i].from = c
    /\ NeverToSelf

\* Wherever a packet is on its way through the server, the handle it carries
\* is the one its sender has or had.
KnownRecv == {m \in RecvPacketInfo :
                  m.ActionType = "PACKET" => Came(m.Socket, m.packet.from)}
KnownSend == {m \in SendPacketInfo :
                  /\ Came(m.Socket, m.packet.from)
                  /\ m.SendType = "ALL" => m.packet.type # "MESSAGE_2"}
PacketsOK == PacketRecvList \in Seq(KnownRecv) /\ PacketSendList \in Seq(KnownSend)

SenderOK == WorldOK /\ PacketsOK

\* What a step that does not deliver a packet does to the world.
CameKept == \A s \in Handle, c \in Conn : Came(s, c) => Came(s, c)'
WorldKept == WorldOK' /\ CameKept

LEMMA CameSame ==
    ASSUME NEW s, NEW c, Came(s, c), UNCHANGED <<backlog, peer, owner>>
    PROVE  Came(s, c)'
BY DEF Came

LEMMA SameWorld ==
    ASSUME WorldOK, UNCHANGED <<backlog, peer, owner, inbox, seen>>
    PROVE  WorldKept
BY DEF WorldOK, NeverToSelf, WorldKept, CameKept, Came

\* A connection that is gone has sent nothing and seen nothing.
LEMMA DisconnectWorld ==
    ASSUME NetTypeOK, WorldOK, NEW C, Disconnect(C)
    PROVE  /\ \A c \in Conn : peer[c] # "new" => peer'[c] # "new"
           /\ \A c \in Conn : \A i \in DOMAIN inbox'[c] : inbox'[c][i].from = c
           /\ NeverToSelf'
<1>1. \A c \in Conn : peer[c] # "new" => peer'[c] # "new"
  BY DEF Disconnect
<1>2. \A c \in Conn : \A i \in DOMAIN inbox'[c] : inbox'[c][i].from = c
  BY DEF Disconnect, WorldOK
<1>3. NeverToSelf'
  BY DEF Disconnect, WorldOK, NeverToSelf
<1> QED
  BY <1>1, <1>2, <1>3

LEMMA CloseHandlesWorld ==
    ASSUME NetTypeOK, WorldOK, NEW H, CloseHandles(H)
    PROVE  WorldKept
<1>1. PICK C : Disconnect(C)
  BY DEF CloseHandles
<1>2. UNCHANGED backlog /\ owner' = [s \in Sock |-> IF s \in H THEN NoConn ELSE owner[s]]
  BY DEF CloseHandles
<1>3. \A c \in Conn : peer[c] # "new" => peer'[c] # "new"
  BY <1>1, DisconnectWorld
<1>4. CameKept
  BY <1>2, <1>3, ConnAssumption DEF CameKept, Came, NetTypeOK
<1>5. /\ IsInjective(backlog')
      /\ \A i \in DOMAIN backlog' : peer'[backlog'[i]] # "new"
  BY <1>2, <1>3 DEF WorldOK, NetTypeOK
<1>6. \A h \in Sock : owner'[h] # NoConn =>
           peer'[owner'[h]] # "new" /\ owner'[h] \notin Range(backlog')
  BY <1>2, <1>3 DEF WorldOK, NetTypeOK
<1>7. \A g, h \in Sock : owner'[g] # NoConn /\ owner'[g] = owner'[h] => g = h
  BY <1>2 DEF WorldOK
<1> QED
  BY <1>1, <1>4, <1>5, <1>6, <1>7, DisconnectWorld DEF WorldKept, WorldOK

LEMMA CloseListenSocketWorld ==
    ASSUME NetTypeOK, WorldOK, CloseListenSocket
    PROVE  WorldKept
<1>1. PICK C : Disconnect(C)
  BY DEF CloseListenSocket
<1>2. backlog' = <<>> /\ UNCHANGED owner
  BY DEF CloseListenSocket
<1>3. \A c \in Conn : peer[c] # "new" => peer'[c] # "new"
  BY <1>1, DisconnectWorld
<1>4. Range(backlog') = {} /\ IsInjective(backlog') /\ DOMAIN backlog' = {}
  BY <1>2 DEF Range, IsInjective
<1>5. CameKept
  BY <1>2, <1>3, <1>4 DEF CameKept, Came
<1>6. \A h \in Sock : owner'[h] # NoConn =>
           peer'[owner'[h]] # "new" /\ owner'[h] \notin Range(backlog')
  BY <1>2, <1>3, <1>4 DEF WorldOK, NetTypeOK
<1> QED
  BY <1>1, <1>2, <1>4, <1>5, <1>6, DisconnectWorld DEF WorldKept, WorldOK

LEMMA ClientStepWorld ==
    ASSUME NetTypeOK, WorldOK, ClientStep
    PROVE  WorldKept
<1>1. ASSUME NEW c \in Conn, ClientConnect(c) PROVE WorldKept
  <2>1. /\ peer[c] = "new" /\ peer' = [peer EXCEPT ![c] = "open"]
        /\ backlog' = Append(backlog, c)
        /\ UNCHANGED <<inbox, seen, owner>>
    BY <1>1 DEF ClientConnect
  <2>2. \A d \in Conn : peer[d] # "new" => peer'[d] # "new"
    BY <2>1 DEF NetTypeOK
  <2>3. peer'[c] # "new"
    BY <2>1 DEF NetTypeOK
  <2>4. \A d \in Range(backlog) : d \in Conn /\ d # c /\ peer[d] # "new"
    BY <2>1 DEF WorldOK, NetTypeOK, Range
  <2>5. /\ Range(backlog') = Range(backlog) \union {c}
        /\ IsInjective(backlog')
    BY <2>1, <2>4, AppendFresh DEF WorldOK, NetTypeOK
  <2>6. \A i \in DOMAIN backlog' : peer'[backlog'[i]] # "new"
    BY <2>2, <2>3, <2>4, <2>5 DEF Range
  <2>7. \A h \in Sock : owner'[h] # NoConn =>
             peer'[owner'[h]] # "new" /\ owner'[h] \notin Range(backlog')
    BY <2>1, <2>2, <2>5 DEF WorldOK, NetTypeOK
  <2>8. CameKept
    BY <2>1, <2>2, <2>5 DEF CameKept, Came
  <2> QED
    BY <2>1, <2>5, <2>6, <2>7, <2>8 DEF WorldKept, WorldOK, NeverToSelf
<1>2. ASSUME NEW c \in Conn, ClientSend(c) PROVE WorldKept
  <2>1. UNCHANGED <<backlog, peer, seen, owner>>
    BY <1>2 DEF ClientSend
  <2>2. PICK k, n : inbox' = [inbox EXCEPT ![c] = Append(@, [type |-> k, num |-> n, from |-> c])]
    BY <1>2 DEF ClientSend
  <2>3. \A d \in Conn : \A i \in DOMAIN inbox'[d] : inbox'[d][i].from = d
    BY <2>2 DEF WorldOK, NetTypeOK
  <2> QED
    BY <2>1, <2>3 DEF WorldKept, WorldOK, NeverToSelf, CameKept, Came
<1>3. ASSUME NEW c \in Conn, ClientClose(c) PROVE WorldKept
  <2>1. /\ UNCHANGED <<backlog, inbox, owner>>
        /\ peer' = [peer EXCEPT ![c] = "closed"]
        /\ seen' = [seen EXCEPT ![c] = <<>>]
    BY <1>3 DEF ClientClose
  <2>2. \A d \in Conn : peer[d] # "new" => peer'[d] # "new"
    BY <2>1 DEF NetTypeOK
  <2>3. NeverToSelf'
    BY <2>1 DEF WorldOK, NeverToSelf, NetTypeOK
  <2>4. CameKept
    BY <2>1, <2>2 DEF CameKept, Came
  <2>5. /\ \A i \in DOMAIN backlog' : peer'[backlog'[i]] # "new"
        /\ \A h \in Sock : owner'[h] # NoConn =>
               peer'[owner'[h]] # "new" /\ owner'[h] \notin Range(backlog')
    BY <2>1, <2>2 DEF WorldOK, NetTypeOK
  <2> QED
    BY <2>1, <2>3, <2>4, <2>5 DEF WorldKept, WorldOK
<1> QED
  BY <1>1, <1>2, <1>3 DEF ClientStep

\* What follows the head of a queue is the rest of the queue.
LEMMA RangeTail ==
    ASSUME NEW S, NEW q \in Seq(S), q # <<>>
    PROVE  Range(q) = {Head(q)} \union Range(Tail(q))
<1>1. /\ Len(q) \in Nat \ {0}
      /\ DOMAIN q = 1 .. Len(q)
      /\ DOMAIN Tail(q) = 1 .. Len(q) - 1
      /\ \A i \in 1 .. Len(q) - 1 : Tail(q)[i] = q[i + 1]
      /\ Head(q) = q[1]
  OBVIOUS
<1>2. ASSUME NEW x \in Range(q) PROVE x \in {Head(q)} \union Range(Tail(q))
  <2>1. PICK i \in 1 .. Len(q) : x = q[i]
    BY <1>1 DEF Range
  <2>2. i = 1 \/ (i - 1 \in 1 .. Len(q) - 1 /\ Tail(q)[i - 1] = x)
    BY <1>1, <2>1
  <2> QED
    BY <1>1, <2>1, <2>2 DEF Range
<1>3. ASSUME NEW x \in Range(Tail(q)) PROVE x \in Range(q)
  <2>1. PICK i \in 1 .. Len(q) - 1 : x = Tail(q)[i]
    BY <1>1 DEF Range
  <2>2. i + 1 \in 1 .. Len(q) /\ q[i + 1] = x
    BY <1>1, <2>1
  <2> QED
    BY <1>1, <2>2 DEF Range
<1>4. Head(q) \in Range(q)
  BY <1>1 DEF Range
<1> QED
  BY <1>2, <1>3, <1>4

\* accept() takes the head of the backlog and no one else.
LEMMA HeadLeaves ==
    ASSUME NEW S, NEW list \in Seq(S), list # <<>>, IsInjective(list)
    PROVE  /\ Head(list) \in Range(list)
           /\ Range(Tail(list)) = Range(list) \ {Head(list)}
           /\ IsInjective(Tail(list))
BY PopFresh, RangeTail

LEMMA AcceptStepWorld ==
    ASSUME NetTypeOK, WorldOK, AcceptStep
    PROVE  WorldKept
<1>1. CASE PollAccept
  <2>1. PICK s \in Sock : owner[s] = NoConn /\ owner' = [owner EXCEPT ![s] = Head(backlog)]
    BY <1>1 DEF PollAccept
  <2>2. backlog # <<>> /\ backlog' = Tail(backlog) /\ UNCHANGED <<peer, inbox, seen>>
    BY <1>1 DEF PollAccept
  <2> DEFINE c == Head(backlog)
  <2>3. /\ c \in Range(backlog) /\ Range(backlog') = Range(backlog) \ {c}
        /\ IsInjective(backlog')
    BY <2>2, HeadLeaves DEF WorldOK, NetTypeOK
  <2>4. c \in Conn /\ c # NoConn /\ peer[c] # "new"
    BY <2>3, RangeIn, ConnAssumption DEF NetTypeOK, WorldOK, Range
  <2> HIDE DEF c
  <2>5. \A h \in Sock : owner'[h] = IF h = s THEN c ELSE owner[h]
    BY <2>1 DEF NetTypeOK, c
  <2>6. CameKept
    BY <2>2, <2>3, <2>5 DEF CameKept, Came
  <2>7. \A i \in DOMAIN backlog' : peer'[backlog'[i]] # "new"
    BY <2>2, <2>3 DEF WorldOK, Range
  <2>8. \A h \in Sock : owner'[h] # NoConn =>
             peer'[owner'[h]] # "new" /\ owner'[h] \notin Range(backlog')
    BY <2>2, <2>3, <2>4, <2>5 DEF WorldOK
  <2>9. \A g, h \in Sock : owner'[g] # NoConn /\ owner'[g] = owner'[h] => g = h
    BY <2>3, <2>5 DEF WorldOK
  <2> QED
    BY <2>2, <2>3, <2>6, <2>7, <2>8, <2>9 DEF WorldKept, WorldOK, NeverToSelf
<1>2. CASE PollError
  <2>1. /\ backlog # <<>> /\ backlog' = Tail(backlog) /\ UNCHANGED <<peer, seen, owner>>
        /\ inbox' = [inbox EXCEPT ![Head(backlog)] = <<>>]
    BY <1>2 DEF PollError
  <2>2. /\ Range(backlog') = Range(backlog) \ {Head(backlog)}
        /\ IsInjective(backlog')
    BY <2>1, HeadLeaves DEF WorldOK, NetTypeOK
  <2>3. \A d \in Conn : \A i \in DOMAIN inbox'[d] : inbox'[d][i].from = d
    BY <2>1 DEF WorldOK, NetTypeOK
  <2>4. CameKept
    BY <2>1, <2>2 DEF CameKept, Came
  <2>5. \A i \in DOMAIN backlog' : peer'[backlog'[i]] # "new"
    BY <2>1, <2>2 DEF WorldOK, Range
  <2>6. \A h \in Sock : owner'[h] # NoConn =>
             peer'[owner'[h]] # "new" /\ owner'[h] \notin Range(backlog')
    BY <2>1, <2>2 DEF WorldOK
  <2> QED
    BY <2>1, <2>2, <2>3, <2>4, <2>5, <2>6 DEF WorldKept, WorldOK, NeverToSelf
<1>3. CASE AcceptFull
  BY <1>3, CloseHandlesWorld DEF AcceptFull
<1>4. CASE ~(PollAccept \/ PollError \/ AcceptFull)
  <2>1. UNCHANGED <<backlog, peer, owner, inbox, seen>>
    BY <1>4 DEF AcceptStep, AcceptOuter, AcceptWait, AcceptReset, PollNothing, PollStopped,
       AcceptLink, AcceptCheck, AcceptClearFlag, netVars, clientVars
  <2> QED
    BY <2>1, SameWorld
<1> QED
  BY <1>1, <1>2, <1>3, <1>4

-----------------------------------------------------------------------------
(* The packets.                                                              *)

\* What is queued stays good while the world moves on.
LEMMA KnownKept ==
    ASSUME CameKept
    PROVE  KnownRecv \subseteq KnownRecv' /\ KnownSend \subseteq KnownSend'
<1>1. ASSUME NEW m \in KnownRecv PROVE m \in KnownRecv'
  <2>1. CASE m.ActionType = "PACKET"
    <3>1. m.Socket \in Handle /\ m.packet.from \in Conn
      BY <2>1 DEF KnownRecv, RecvPacketInfo, C2S_Packet
    <3> QED
      BY <2>1, <3>1 DEF KnownRecv, CameKept
  <2>2. CASE m.ActionType # "PACKET"
    BY <2>2 DEF KnownRecv
  <2> QED
    BY <2>1, <2>2
<1>2. ASSUME NEW m \in KnownSend PROVE m \in KnownSend'
  <2>1. m.Socket \in Handle /\ m.packet.from \in Conn
    BY DEF KnownSend, SendPacketInfo, C2S_Packet
  <2> QED
    BY <2>1 DEF KnownSend, CameKept
<1> QED
  BY <1>1, <1>2

\* What is appended to a typed queue has the queue's type.
LEMMA AppendedIn ==
    ASSUME NEW S, NEW q \in Seq(S), NEW m, Append(q, m) \in Seq(S)
    PROVE  m \in S
<1>1. q \in Seq(S \union {m})
  BY SeqMonotonic
<1>2. Len(Append(q, m)) = Len(q) + 1 /\ Append(q, m)[Len(q) + 1] = m
  BY <1>1, AppendProperties
<1> QED
  BY <1>2, ElementOfSeq, LenProperties

LEMMA TailIn ==
    ASSUME NEW S, NEW q \in Seq(S), q # <<>>
    PROVE  Tail(q) \in Seq(S)
OBVIOUS

LEMMA QueuesSame ==
    ASSUME PacketsOK, CameKept,
           PacketRecvList' = PacketRecvList \/ (/\ PacketRecvList # <<>>
                                                /\ PacketRecvList' = Tail(PacketRecvList)),
           PacketSendList' = PacketSendList \/ (/\ PacketSendList # <<>>
                                                /\ PacketSendList' = Tail(PacketSendList))
    PROVE  PacketsOK'
<1>1. PacketRecvList' \in Seq(KnownRecv)
  BY TailIn DEF PacketsOK
<1>2. PacketSendList' \in Seq(KnownSend)
  BY TailIn DEF PacketsOK
<1> QED
  BY <1>1, <1>2, KnownKept, SeqMonotonic DEF PacketsOK

LEMMA MainStepSender ==
    ASSUME TypeOK, InHand, TypeOK', SenderOK, MainStep
    PROVE  SenderOK'
<1> USE DEF TypeOK, SenderOK
<1>1. ASSUME WorldKept, UNCHANGED PacketSendList,
             NEW m, PacketRecvList' = Append(PacketRecvList, m),
             m.ActionType = "PACKET" => Came(m.Socket, m.packet.from)'
      PROVE  SenderOK'
  <2>1. PacketRecvList \in Seq(KnownRecv')
    BY <1>1, KnownKept, SeqMonotonic DEF PacketsOK, WorldKept
  <2>2. m \in RecvPacketInfo
    BY <1>1, AppendedIn DEF ServerTypeOK
  <2>3. m \in KnownRecv'
    BY <1>1, <2>2 DEF KnownRecv
  <2>4. PacketSendList' \in Seq(KnownSend')
    BY <1>1, KnownKept, SeqMonotonic DEF PacketsOK, WorldKept
  <2>5. PacketRecvList' \in Seq(KnownRecv')
    BY <1>1, <2>1, <2>3
  <2> QED
    BY <1>1, <2>4, <2>5 DEF PacketsOK, WorldKept
<1>2. CASE DrainAcceptList \/ NoticeFree
  <2>1. PICK m : m.ActionType # "PACKET" /\ PacketRecvList' = Append(PacketRecvList, m)
    BY <1>2 DEF DrainAcceptList, NoticeFree
  <2>2. UNCHANGED <<backlog, peer, owner, inbox, seen, PacketSendList>>
    BY <1>2 DEF DrainAcceptList, NoticeFree, netVars, clientVars
  <2> QED
    BY <1>1, <2>1, <2>2, SameWorld
<1>3. CASE RecvPacket
  <2>1. PICK i \in 1 .. Len(SocketRecvList) :
          /\ owner[SocketRecvList[i]] # NoConn
          /\ inbox[owner[SocketRecvList[i]]] # <<>>
          /\ PacketRecvList' = Append(PacketRecvList,
                [ActionType |-> "PACKET", Socket |-> SocketRecvList[i],
                 packet |-> Head(inbox[owner[SocketRecvList[i]]])])
          /\ inbox' = [inbox EXCEPT ![owner[SocketRecvList[i]]] = Tail(@)]
    BY <1>3 DEF RecvPacket
  <2>2. UNCHANGED <<backlog, peer, owner, seen, PacketSendList>>
    BY <1>3 DEF RecvPacket
  <2> DEFINE h == SocketRecvList[i]
             c == owner[h]
  <2>3. h \in Sock
    BY ElementOfSeq, LenProperties DEF ServerTypeOK
  <2>10. c \in Conn
    BY <2>1, <2>3 DEF NetTypeOK
  <2>4. inbox[c] \in Seq(C2S_Packet) /\ inbox[c] # <<>> /\ c # NoConn
    BY <2>1, <2>10 DEF NetTypeOK
  <2>5. Head(inbox[c]).from = c
    BY <2>10, <2>4 DEF WorldOK
  <2>6. Came(h, c)
    BY <2>3, <2>10, <2>4 DEF WorldOK, Came
  <2>7. \A d \in Conn : \A j \in DOMAIN inbox'[d] : inbox'[d][j].from = d
    <3>1. \A d \in Conn : inbox'[d] = IF d = c THEN Tail(inbox[c]) ELSE inbox[d]
      BY <2>1, <2>10 DEF NetTypeOK
    <3>2. \A j \in DOMAIN Tail(inbox[c]) : Tail(inbox[c])[j].from = c
      <4>1. ASSUME NEW j \in DOMAIN Tail(inbox[c])
            PROVE  j + 1 \in DOMAIN inbox[c] /\ Tail(inbox[c])[j] = inbox[c][j + 1]
        BY <2>4
      <4> HIDE DEF c
      <4> QED
        BY <2>10, <4>1 DEF WorldOK
    <3> HIDE DEF c
    <3> QED
      BY <3>1, <3>2 DEF WorldOK
  <2>8. WorldKept
    BY <2>2, <2>7 DEF WorldKept, WorldOK, NeverToSelf, CameKept, Came
  <2> HIDE DEF h, c
  <2>9. PICK m : /\ PacketRecvList' = Append(PacketRecvList, m)
                 /\ m.Socket = h /\ m.packet.from = c
    BY <2>1, <2>5 DEF h, c
  <2>11. Came(m.Socket, m.packet.from)'
    BY <2>2, <2>6, <2>9, CameSame
  <2> QED
    BY <1>1, <2>2, <2>8, <2>9, <2>11
<1>4. CASE Release
  <2>1. WorldKept /\ UNCHANGED queueVars
    BY <1>4, CloseHandlesWorld DEF Release
  <2> QED
    BY <2>1, QueuesSame DEF WorldKept, queueVars
<1>5. CASE ~(DrainAcceptList \/ NoticeFree \/ RecvPacket \/ Release)
  <2>1. UNCHANGED <<backlog, peer, owner, inbox, seen, queueVars>>
    BY <1>5 DEF MainStep, SelectBlocking, TimedMode, LeaveLoop, DrainAwake, SelectTimed,
       SelectDone, AwakeAccept, AwakeRecv, RecvFail, AwakeFree, GameAwake, SelectCall,
       SelectReturn, netVars, clientVars
  <2> QED
    BY <2>1, SameWorld, QueuesSame DEF WorldKept, queueVars
<1> QED
  BY <1>2, <1>3, <1>4, <1>5

LEMMA GameStepSender ==
    ASSUME TypeOK, InHand, TypeOK', SenderOK, GameStep
    PROVE  SenderOK'
<1> USE DEF TypeOK, SenderOK
<1>1. CASE PacketInOrder
  <2>1. UNCHANGED <<backlog, peer, owner, inbox, seen, PacketRecvList>>
    BY <1>1 DEF PacketInOrder, netVars, clientVars
  <2>2. WorldKept
    BY <2>1, SameWorld
  <2>3. PacketRecvList' \in Seq(KnownRecv')
    BY <2>1, <2>2, KnownKept, SeqMonotonic DEF PacketsOK, WorldKept
  <2>4. PacketSendList \in Seq(KnownSend')
    BY <2>2, KnownKept, SeqMonotonic DEF PacketsOK, WorldKept
  <2>5. PacketRecvList # <<>> /\ node \in KnownRecv /\ node.ActionType = "PACKET"
    BY <1>1 DEF PacketInOrder, IsPacket, PacketsOK, node
  <2>6. Came(node.Socket, node.packet.from) /\ node.packet \in C2S_Packet
    BY <2>5 DEF KnownRecv, RecvPacketInfo
  <2>7. PacketSendList' \in Seq(KnownSend')
    <3>1. CASE UNCHANGED PacketSendList
      BY <2>4, <3>1
    <3>2. CASE ~UNCHANGED PacketSendList
      <4>1. PICK m : /\ PacketSendList' = Append(PacketSendList, m)
                     /\ m.Socket = node.Socket /\ m.packet = node.packet
                     /\ m.SendType = "ALL" => m.packet.type = "MESSAGE"
        BY <1>1, <3>2 DEF PacketInOrder
      <4>2. m \in SendPacketInfo
        BY <4>1, AppendedIn DEF ServerTypeOK
      <4>3. Came(m.Socket, m.packet.from)'
        BY <2>1, <2>6, <4>1, CameSame
      <4>4. m \in KnownSend'
        BY <4>1, <4>2, <4>3 DEF KnownSend
      <4> QED
        BY <2>4, <4>1, <4>4
    <3> QED
      BY <3>1, <3>2
  <2> QED
    BY <2>2, <2>3, <2>7 DEF PacketsOK, WorldKept
<1>2. CASE ~PacketInOrder
  <2>1. UNCHANGED PacketSendList
    BY <1>2 DEF GameStep, GameOuter, GameWait, GameReset, GameEmpty, CreateClientNode,
       LinkSendNode, FreeClientNode, ScanSendNode, FreePlayerAndClose, UnlinkClient,
       NoClientNode, PacketOutOfOrder, AwakeSend, CloseTimedOut, CheckClientAlive, ServerExit,
       ExitCloseListen, ExitAwakeAccept, ExitAwake, queueVars
  <2>2. \/ UNCHANGED PacketRecvList
        \/ PacketRecvList # <<>> /\ PacketRecvList' = Tail(PacketRecvList)
    BY <1>2 DEF GameStep, GameOuter, GameWait, GameReset, GameEmpty, CreateClientNode,
       LinkSendNode, FreeClientNode, ScanSendNode, FreePlayerAndClose, UnlinkClient,
       NoClientNode, PacketOutOfOrder, AwakeSend, CloseTimedOut, CheckClientAlive, ServerExit,
       ExitCloseListen, ExitAwakeAccept, ExitAwake, queueVars, UnlinkHead, IsPacket, InHand
  <2>3. WorldKept
    <3>1. CASE FreePlayerAndClose
      <4>1. CASE UNCHANGED netVars
        BY <4>1, SameWorld DEF netVars, clientVars
      <4>2. CASE CloseHandles({client[gclient].Socket})
        BY <4>2, CloseHandlesWorld
      <4> QED
        BY <3>1, <4>1, <4>2 DEF FreePlayerAndClose
    <3>2. CASE PacketOutOfOrder
      BY <3>2, CloseHandlesWorld DEF PacketOutOfOrder
    <3>3. CASE CloseTimedOut
      <4>1. \E H : CloseHandles(H)
        BY <3>3 DEF CloseTimedOut
      <4> QED
        BY <4>1, CloseHandlesWorld
    <3>4. CASE ExitCloseListen
      BY <3>4, CloseListenSocketWorld DEF ExitCloseListen
    <3>5. CASE ~(FreePlayerAndClose \/ PacketOutOfOrder \/ CloseTimedOut \/ ExitCloseListen)
      <4>1. UNCHANGED <<backlog, peer, owner, inbox, seen>>
        BY <1>2, <3>5 DEF GameStep, GameOuter, GameWait, GameReset, GameEmpty,
           CreateClientNode, LinkSendNode, FreeClientNode, ScanSendNode, UnlinkClient,
           NoClientNode, AwakeSend, CheckClientAlive, ServerExit, ExitAwakeAccept, ExitAwake, netVars, clientVars
      <4> QED
        BY <4>1, SameWorld
    <3> QED
      BY <3>1, <3>2, <3>3, <3>4, <3>5
  <2> QED
    BY <2>1, <2>2, <2>3, QueuesSame, SMTT(40) DEF WorldKept
<1> QED
  BY <1>1, <1>2

LEMMA SendStepSender ==
    ASSUME TypeOK, InHand, SenderOK, SendStep
    PROVE  SenderOK'
<1> USE DEF TypeOK, SenderOK
<1>1. UNCHANGED <<backlog, peer, owner, inbox, PacketRecvList>>
  BY DEF SendStep, SendOuter, SendWait, SendReset, SendGet, SendCopy, SendOne, SendDone, sendFrame
<1>2. \/ UNCHANGED PacketSendList
      \/ PacketSendList # <<>> /\ PacketSendList' = Tail(PacketSendList)
  BY DEF SendStep, SendOuter, SendWait, SendReset, SendGet, SendCopy, SendOne, SendDone, InHand
<1>3. NeverToSelf'
  <2>1. CASE UNCHANGED seen
    BY <2>1 DEF WorldOK, NeverToSelf
  <2>2. CASE SendOne /\ seen' # seen
    <3> DEFINE p == Head(PacketSendList)
               e == SocketSendCache[sidx]
               packet == [p.packet EXCEPT !.num = Inc(client[e.pS2C].S2C)]
    <3>1. ~(p.SendType = "NON_SELF" /\ p.Socket = e.Socket) /\ Deliver(e.Socket, packet)
      BY <2>2 DEF SendOne
    <3>2. p \in KnownSend
      BY <2>2 DEF SendOne, InHand, PacketsOK
    <3>3. p.packet \in C2S_Packet /\ p.SendType \in {"ALL", "NON_SELF"}
      BY <3>2 DEF KnownSend, SendPacketInfo
    <3>4. packet.type = p.packet.type /\ packet.from = p.packet.from
      BY <3>3 DEF C2S_Packet
    <3> HIDE DEF p, e, packet
    <3>5. ASSUME NEW c \in Conn, seen'[c] # seen[c], packet.type = "MESSAGE_2"
          PROVE  packet.from # c
      <4>1. e.Socket \in Sock /\ owner[e.Socket] = c
        BY <3>1, <3>5 DEF Deliver, HandlesOf
      <4>2. p.SendType = "NON_SELF" /\ p.Socket # e.Socket
        BY <3>1, <3>2, <3>3, <3>4, <3>5 DEF KnownSend
      <4>3. Came(p.Socket, p.packet.from)
        BY <3>2 DEF KnownSend
      <4> QED
        BY <3>4, <4>1, <4>2, <4>3 DEF Came
    <3>6. \A c \in Conn : seen'[c] = seen[c] \/ seen'[c] = Append(seen[c], packet)
      BY <3>1 DEF Deliver
    <3>7. ASSUME NEW c \in Conn, NEW i \in DOMAIN seen'[c], seen'[c][i].type = "MESSAGE_2"
          PROVE  seen'[c][i].from # c
      <4>1. CASE seen'[c] = seen[c]
        BY <3>7, <4>1 DEF WorldOK, NeverToSelf
      <4>2. CASE seen'[c] # seen[c]
        <5>1. seen'[c] = Append(seen[c], packet) /\ seen[c] \in Seq(S2C_Packet)
          BY <3>6, <4>2 DEF NetTypeOK
        <5>2. \/ i \in DOMAIN seen[c] /\ seen'[c][i] = seen[c][i]
              \/ seen'[c][i] = packet
          BY <3>7, <5>1
        <5> QED
          BY <3>5, <3>7, <4>2, <5>2 DEF WorldOK, NeverToSelf
      <4> QED
        BY <4>1, <4>2
    <3> QED
      BY <3>7 DEF NeverToSelf
  <2> QED
    BY <2>1, <2>2 DEF SendStep, SendOuter, SendWait, SendReset, SendGet, SendCopy, SendDone
<1>4. WorldKept
  BY <1>1, <1>3 DEF WorldKept, WorldOK, CameKept, Came
<1> QED
  BY <1>1, <1>2, <1>4, QueuesSame DEF WorldKept

LEMMA NextSender ==
    ASSUME TypeOK, InHand, TypeOK', SenderOK, [Next]_vars
    PROVE  SenderOK'
<1> USE DEF TypeOK, SenderOK
<1>1. CASE Clients
  <2>1. WorldKept /\ UNCHANGED queueVars
    BY <1>1, ClientStepWorld DEF Clients, serverVars
  <2> QED
    BY <2>1, QueuesSame DEF WorldKept, queueVars
<1>2. CASE AcceptStep
  <2>1. UNCHANGED queueVars
    BY <1>2 DEF AcceptStep, AcceptOuter, AcceptWait, AcceptReset, PollNothing, PollStopped,
       PollAccept, PollError, AcceptFull, AcceptLink, AcceptCheck, AcceptClearFlag, acceptFrame
  <2> QED
    BY <1>2, <2>1, AcceptStepWorld, QueuesSame DEF WorldKept, queueVars
<1>3. CASE MinutePasses \/ UNCHANGED vars
  <2>1. UNCHANGED <<netVars, queueVars>>
    BY <1>3 DEF MinutePasses, vars, serverVars
  <2> QED
    BY <2>1, SameWorld, QueuesSame DEF WorldKept, netVars, clientVars, queueVars
<1> QED
  BY <1>1, <1>2, <1>3, MainStepSender, GameStepSender, SendStepSender DEF Next

LEMMA InitSender == Init => SenderOK
<1> SUFFICES ASSUME Init PROVE SenderOK
  OBVIOUS
<1>1. WorldOK
  BY ConnAssumption DEF Init, NetInit, WorldOK, NeverToSelf, IsInjective
<1>2. PacketsOK
  BY DEF Init, ServerInit, PacketsOK
<1> QED
  BY <1>1, <1>2 DEF SenderOK

\* No client ever gets its own SEND__NON_SELF message back, although the send
\* thread tells the sender from the others by the handle's number alone and
\* Windows hands numbers out again: as long as a packet of a connection is on
\* its way, that connection has no other handle than the one in the packet,
\* not even in the backlog.
THEOREM NeverReturned == Spec => []NeverToSelf
<1>1. SenderOK => NeverToSelf
  BY DEF SenderOK, WorldOK
<1> QED
  BY <1>1, InitSender, NextSender, InHandCorrect, PTL DEF Spec

-----------------------------------------------------------------------------
(* No handle leaks.                                                          *)

\* The connections that still have to become clients, and the notices and
\* packets that have still to take effect on the client nodes.
Accepted == IF mpc = "drainAwake" THEN Tail(AcceptList) ELSE AcceptList
Todo == IF gpc \in {"linkSend", "unlinkSend"} THEN Tail(PacketRecvList) ELSE PacketRecvList

Says(m, action, s) == m.ActionType = action /\ m.Socket = s

\* The client nodes that bear the number s, the one being freed left out.
Holders(s) == {n \in Range(ClientList) :
                   client[n].Socket = s /\ ~(gpc = "unlinkSend" /\ n = gclient)}

\* An open handle is in someone's hands: until its CREATE notice is handled
\* there is the notice, afterwards a client node whose handle nobody closed.
InHands(s) ==
    \/ asock = s
    \/ s \in Range(Accepted)
    \/ \E k \in DOMAIN Todo : Says(Todo[k], "CREATE", s)
    \/ \E n \in Range(ClientList) : client[n].Socket = s /\ ~client[n].AliveTimeoutFlag

\* How often the main thread will yet drop number s, beyond the RELEASE
\* notices that are queued.
Places(list, s) == {i \in DOMAIN list : list[i] = s}
Drops(s) == Cardinality(Places(SocketRecvList, s)) + IF mdel = s THEN 1 ELSE 0

\* The balance before a notice about s, and after it.
Counts(m, s, a, b) ==
    /\ Says(m, "RELEASE", s) => a = b + 1
    /\ Says(m, "CREATE", s) => a + 1 = b
    /\ ~Says(m, "RELEASE", s) /\ ~Says(m, "CREATE", s) => a = b

\* D[k] is how many more client nodes with number s will be dropped than
\* created by what follows in the queue q from k on, when base are dropped
\* beyond its end.
Tally(q, s, base, D) ==
    /\ D \in [1 .. Len(q) + 1 -> Nat]
    /\ D[Len(q) + 1] = base
    /\ \A k \in 1 .. Len(q) : Counts(q[k], s, D[k], D[k + 1])

\* Each client node with number s will be dropped, and the main thread never
\* drops a number it has not added.
Balanced(s) == \E D : Tally(Todo, s, Drops(s), D) /\ Cardinality(Holders(s)) <= D[1]

\* What each thread knows about the handles it has in hand.
StagesOK ==
    /\ apc # "accepted" => asock = INVALID_SOCKET
    /\ mpc # "notice" => mdel = INVALID_SOCKET
    /\ gpc = "linkSend" => node.ActionType = "CREATE"
    /\ gpc \in {"scanSend", "free", "unlinkSend"} =>
           node.ActionType = "RELEASE" /\ gclient \in Range(ClientList)
    /\ gpc \in {"scanSend", "free"} => client[gclient].Socket = node.Socket
    /\ gpc = "unlinkSend" =>
           client[gclient].AliveTimeoutFlag \/ client[gclient].Socket = INVALID_SOCKET
    /\ gpc \in {"awakeSend", "alive"} => node.ActionType = "PACKET"
    /\ gpc # "done"

\* A client node is either linked once or free once.
ClientPoolOK ==
    /\ IsInjective(ClientList)
    /\ IsInjective(clientFree)
    /\ Range(ClientList) \intersect Range(clientFree) = {}

HandlesOK ==
    RunFlag => /\ StagesOK
               /\ ClientPoolOK
               /\ \A s \in Sock : owner[s] # NoConn => InHands(s)
               /\ \A s \in Sock : Balanced(s)

-----------------------------------------------------------------------------
(* Counting.                                                                 *)

LEMMA TallyAppend ==
    ASSUME NEW S, NEW q \in Seq(S), NEW m \in S, NEW s, NEW base, NEW newBase \in Nat,
           NEW D, Tally(q, s, base, D), Counts(m, s, base, newBase)
    PROVE  \E E : Tally(Append(q, m), s, newBase, E) /\ E[1] = D[1]
<1> DEFINE n == Len(q)
           E == [k \in 1 .. n + 2 |-> IF k <= n + 1 THEN D[k] ELSE newBase]
<1>1. /\ n \in Nat /\ Len(Append(q, m)) = n + 1
      /\ \A i \in 1 .. n : Append(q, m)[i] = q[i]
      /\ Append(q, m)[n + 1] = m
  BY AppendProperties, LenProperties
<1>2. /\ D \in [1 .. n + 1 -> Nat] /\ D[n + 1] = base
      /\ \A k \in 1 .. n : Counts(q[k], s, D[k], D[k + 1])
  BY DEF Tally
<1> HIDE DEF n
<1>3. E \in [1 .. n + 2 -> Nat] /\ E[n + 2] = newBase /\ E[1] = D[1]
  BY <1>1, <1>2
<1>4. ASSUME NEW k \in 1 .. n + 1
      PROVE  Counts(Append(q, m)[k], s, E[k], E[k + 1])
  <2>1. CASE k = n + 1
    <3>1. E[k] = base /\ E[k + 1] = newBase
      BY <1>1, <1>2, <2>1
    <3> QED
      BY <1>1, <2>1, <3>1
  <2>2. CASE k # n + 1
    <3>1. k \in 1 .. n /\ E[k] = D[k] /\ E[k + 1] = D[k + 1]
      BY <1>1, <1>2, <2>2
    <3> HIDE DEF E
    <3> QED
      BY <1>1, <1>2, <3>1
  <2> QED
    BY <2>1, <2>2
<1>5. n + 2 = (n + 1) + 1
  BY <1>1
<1> HIDE DEF E
<1>6. Tally(Append(q, m), s, newBase, E)
  BY <1>1, <1>3, <1>4, <1>5 DEF Tally
<1> QED
  BY <1>3, <1>6

LEMMA TallyTail ==
    ASSUME NEW S, NEW q \in Seq(S), q # <<>>, NEW s, NEW base, NEW D, Tally(q, s, base, D)
    PROVE  \E E : /\ Tally(Tail(q), s, base, E)
                  /\ E[1] \in Nat /\ D[1] \in Nat
                  /\ Counts(Head(q), s, D[1], E[1])
<1> DEFINE n == Len(q) - 1
           E == [k \in 1 .. n + 1 |-> D[k + 1]]
<1>1. /\ n \in Nat /\ Len(q) = n + 1 /\ Len(Tail(q)) = n
      /\ \A i \in 1 .. n : Tail(q)[i] = q[i + 1]
      /\ Head(q) = q[1]
  BY HeadTailProperties
<1>2. /\ D \in [1 .. n + 2 -> Nat] /\ D[n + 2] = base
      /\ \A k \in 1 .. n + 1 : Counts(q[k], s, D[k], D[k + 1])
  <2>1. n + 2 = (n + 1) + 1
    BY <1>1
  <2> HIDE DEF n
  <2> QED
    BY <1>1, <2>1 DEF Tally
<1> HIDE DEF n
<1>3. E \in [1 .. n + 1 -> Nat] /\ E[n + 1] = base /\ E[1] = D[2] /\ D[1] \in Nat
  BY <1>1, <1>2
<1>4. ASSUME NEW k \in 1 .. n
      PROVE  Counts(Tail(q)[k], s, E[k], E[k + 1])
  <2>1. /\ k + 1 \in 1 .. n + 1 /\ Tail(q)[k] = q[k + 1]
        /\ E[k] = D[k + 1] /\ E[k + 1] = D[(k + 1) + 1]
    BY <1>1
  <2> HIDE DEF E
  <2> QED
    BY <1>2, <2>1
<1>5. Counts(Head(q), s, D[1], E[1])
  <2>1. 1 \in 1 .. n + 1 /\ 1 + 1 = 2
    BY <1>1
  <2> HIDE DEF E
  <2> QED
    BY <1>1, <1>2, <1>3, <2>1
<1> HIDE DEF E
<1>6. Tally(Tail(q), s, base, E) /\ E[1] \in Nat
  BY <1>1, <1>3, <1>4 DEF Tally
<1> QED
  BY <1>3, <1>5, <1>6

\* A client node that is still to be dropped is named by a RELEASE notice or
\* by what the main thread has yet to drop.
LEMMA TallyDecreases ==
    ASSUME NEW S, NEW q \in Seq(S), NEW s, NEW base, NEW D, Tally(q, s, base, D),
           NEW k \in 1 .. Len(q) + 1
    PROVE  /\ D[k] \in Nat /\ base \in Nat
           /\ D[k] <= base \/ \E i \in 1 .. Len(q) : Says(q[i], "RELEASE", s)
<1> DEFINE n == Len(q)
           left == {j \in Nat : j <= n /\ D[n + 1 - j] > base}
<1>1. n \in Nat
  BY LenProperties
<1>2. /\ D \in [1 .. n + 1 -> Nat] /\ D[n + 1] = base
      /\ \A i \in 1 .. n : Counts(q[i], s, D[i], D[i + 1])
  BY DEF Tally
<1>3. k \in 1 .. n + 1
  OBVIOUS
<1> HIDE DEF n
<1>4. D[k] \in Nat /\ base \in Nat
  BY <1>1, <1>2, <1>3
<1> SUFFICES ASSUME D[k] > base
             PROVE  \E i \in 1 .. Len(q) : Says(q[i], "RELEASE", s)
  BY <1>4
<1>5. left # {}
  <2>1. n + 1 - k \in Nat /\ n + 1 - k <= n /\ n + 1 - (n + 1 - k) = k
    BY <1>1, <1>3
  <2> QED
    BY <2>1
<1>6. PICK j \in left : \A i \in left : ~(i < j)
  <2>1. \E x \in left : \A y \in left : <<y, x>> \notin OpToRel(<, Nat)
    BY <1>5, WFMin, NatLessThanWellFounded
  <2>2. OpToRel(<, Nat) = {ss \in Nat \X Nat : ss[1] < ss[2]}
    BY Zenon DEF OpToRel
  <2>3. \A x, y \in Nat : <<y, x>> \in OpToRel(<, Nat) <=> y < x
    BY <2>2
  <2>4. left \subseteq Nat
    OBVIOUS
  <2> HIDE DEF left
  <2> QED
    BY <2>1, <2>3, <2>4, Zenon
<1>7. CASE j = 0
  BY <1>1, <1>2, <1>4, <1>7
<1>8. CASE j # 0
  <2>1. j \in Nat /\ j <= n /\ D[n + 1 - j] > base
    OBVIOUS
  <2>2. j - 1 \in Nat /\ j - 1 <= n /\ j - 1 < j
    BY <1>1, <1>8, <2>1
  <2>3. ~(D[n + 1 - (j - 1)] > base)
    BY <1>6, <2>2
  <2>4. /\ n + 1 - j \in 1 .. n
        /\ n + 1 - (j - 1) = (n + 1 - j) + 1
    BY <1>1, <1>8, <2>1
  <2> DEFINE i == n + 1 - j
  <2>5. i \in 1 .. n /\ D[i] > base
    BY <2>1, <2>4
  <2>6. ~(D[i + 1] > base)
    BY <2>3, <2>4
  <2> HIDE DEF i
  <2>7. i + 1 \in 1 .. n + 1 /\ i \in 1 .. n + 1
    BY <1>1, <2>5
  <2>8. D[i] \in Nat /\ D[i + 1] \in Nat /\ D[i] > D[i + 1]
    BY <1>2, <1>4, <2>5, <2>6, <2>7
  <2>9. Counts(q[i], s, D[i], D[i + 1])
    BY <1>2, <2>5
  <2>10. Says(q[i], "RELEASE", s)
    BY <2>8, <2>9 DEF Counts
  <2> QED
    BY <2>5, <2>10 DEF n
<1> QED
  BY <1>7, <1>8

LEMMA PlacesFinite ==
    ASSUME NEW S, NEW list \in Seq(S), NEW s
    PROVE  IsFiniteSet(Places(list, s)) /\ Cardinality(Places(list, s)) \in Nat
<1>1. Places(list, s) \subseteq 1 .. Len(list) /\ Len(list) \in Nat
  BY LenProperties DEF Places
<1>2. IsFiniteSet(1 .. Len(list))
  BY <1>1, FS_Interval
<1>3. IsFiniteSet(Places(list, s))
  BY <1>1, <1>2, FS_Subset
<1> QED
  BY <1>3, FS_CardinalityType

LEMMA PlacesAppend ==
    ASSUME NEW S, NEW list \in Seq(S), NEW h \in S, NEW s
    PROVE  Cardinality(Places(Append(list, h), s)) =
               Cardinality(Places(list, s)) + IF h = s THEN 1 ELSE 0
<1> DEFINE n == Len(list)
<1>1. /\ n \in Nat /\ DOMAIN list = 1 .. n /\ DOMAIN Append(list, h) = 1 .. n + 1
      /\ \A i \in 1 .. n : Append(list, h)[i] = list[i]
      /\ Append(list, h)[n + 1] = h
  BY AppendProperties, LenProperties
<1> HIDE DEF n
<1>2. n + 1 \notin Places(list, s)
  BY <1>1 DEF Places
<1>3. \A i \in 1 .. n + 1 : i \in 1 .. n \/ i = n + 1
  BY <1>1
<1>4. 1 .. n \subseteq 1 .. n + 1 /\ n + 1 \in 1 .. n + 1
  BY <1>1
<1>5. CASE h = s
  <2>1. Places(Append(list, h), s) = Places(list, s) \union {n + 1}
    BY <1>1, <1>3, <1>4, <1>5 DEF Places
  <2> QED
    BY <1>2, <1>5, <2>1, PlacesFinite, FS_AddElement
<1>6. CASE h # s
  <2>1. Places(Append(list, h), s) = Places(list, s)
    BY <1>1, <1>3, <1>4, <1>6 DEF Places
  <2> QED
    BY <1>6, <2>1, PlacesFinite
<1> QED
  BY <1>5, <1>6

\* The elements of a list from which one is removed.
LEMMA RemoveAtElements ==
    ASSUME NEW S, NEW list \in Seq(S), NEW k \in 1 .. Len(list)
    PROVE  /\ RemoveAt(list, k) \in Seq(S)
           /\ Len(RemoveAt(list, k)) = Len(list) - 1
           /\ \A i \in 1 .. Len(list) - 1 :
                  RemoveAt(list, k)[i] = list[IF i < k THEN i ELSE i + 1]
<1> DEFINE a == SubSeq(list, 1, k - 1)
           b == SubSeq(list, k + 1, Len(list))
<1>1. Len(list) \in Nat
  BY LenProperties
<1>2. /\ a \in Seq(S) /\ Len(a) = k - 1
      /\ \A i \in 1 .. k - 1 : a[i] = list[i]
  OBVIOUS
<1>3. /\ b \in Seq(S) /\ Len(b) = Len(list) - k
      /\ \A i \in 1 .. Len(list) - k : b[i] = list[k + i]
  OBVIOUS
<1>4. RemoveAt(list, k) = a \o b
  BY DEF RemoveAt
<1> HIDE DEF a, b
<1>5. /\ a \o b \in Seq(S)
      /\ Len(a \o b) = Len(a) + Len(b)
      /\ \A i \in 1 .. Len(a) + Len(b) : (a \o b)[i] =
            IF i <= Len(a) THEN a[i] ELSE b[i - Len(a)]
  BY <1>2, <1>3, ConcatProperties
<1>6. ASSUME NEW i \in 1 .. Len(list) - 1
      PROVE  (a \o b)[i] = list[IF i < k THEN i ELSE i + 1]
  <2>1. CASE i < k
    <3>1. i <= Len(a) /\ i \in 1 .. Len(a) + Len(b) /\ i \in 1 .. k - 1
      BY <1>1, <1>2, <1>3, <2>1
    <3> QED
      BY <1>2, <1>5, <2>1, <3>1
  <2>2. CASE ~(i < k)
    <3>1. /\ ~(i <= Len(a)) /\ i \in 1 .. Len(a) + Len(b)
          /\ i - Len(a) \in 1 .. Len(list) - k /\ k + (i - Len(a)) = i + 1
      BY <1>1, <1>2, <1>3, <2>2
    <3> QED
      BY <1>3, <1>5, <2>2, <3>1
  <2> QED
    BY <2>1, <2>2
<1> QED
  BY <1>1, <1>2, <1>3, <1>4, <1>5, <1>6

LEMMA PlacesRemove ==
    ASSUME NEW S, NEW list \in Seq(S), NEW k \in 1 .. Len(list), NEW s
    PROVE  Cardinality(Places(list, s)) =
               Cardinality(Places(RemoveAt(list, k), s)) + IF list[k] = s THEN 1 ELSE 0
<1> DEFINE r == RemoveAt(list, k)
           n == Len(list)
           P == Places(list, s) \ {k}
           Q == Places(r, s)
           f == [i \in Q |-> IF i < k THEN i ELSE i + 1]
<1>1. /\ n \in Nat /\ r \in Seq(S) /\ Len(r) = n - 1 /\ k \in 1 .. n
      /\ DOMAIN r = 1 .. n - 1 /\ DOMAIN list = 1 .. n
      /\ \A i \in 1 .. n - 1 : r[i] = list[IF i < k THEN i ELSE i + 1]
  BY RemoveAtElements, LenProperties
<1> HIDE DEF r, n
<1>2. ASSUME NEW i \in Q PROVE f[i] \in P
  BY <1>1 DEF Places
<1>3. \A i, j \in Q : f[i] = f[j] => i = j
  BY <1>1 DEF Places
<1>4. ASSUME NEW j \in P PROVE \E i \in Q : f[i] = j
  <2>1. CASE j < k
    <3>1. j \in Q
      BY <1>1, <2>1 DEF Places
    <3> QED
      BY <2>1, <3>1
  <2>2. CASE ~(j < k)
    <3>1. j \in 1 .. n /\ j > k
      BY <1>1, <2>2 DEF Places
    <3>2. j - 1 \in 1 .. n - 1 /\ ~(j - 1 < k) /\ (j - 1) + 1 = j
      BY <1>1, <3>1
    <3>3. j - 1 \in Q
      BY <1>1, <3>2 DEF Places
    <3> QED
      BY <3>2, <3>3
  <2> QED
    BY <2>1, <2>2
<1>5. f \in Bijection(Q, P)
  <2>1. f \in [Q -> P] /\ DOMAIN f = Q
    BY <1>2
  <2> HIDE DEF f, P, Q
  <2> QED
    BY <1>3, <1>4, <2>1 DEF Bijection, Injection, Surjection, IsInjective
<1>6. IsFiniteSet(Q) /\ Cardinality(Q) \in Nat
  BY <1>1, PlacesFinite
<1>7. Cardinality(P) = Cardinality(Q)
  <2> HIDE DEF f, P, Q
  <2>1. ExistsBijection(Q, P)
    BY <1>5 DEF ExistsBijection
  <2> QED
    BY <1>6, <2>1, FS_Bijection
<1>8. Cardinality(P) = IF list[k] = s THEN Cardinality(Places(list, s)) - 1
                                      ELSE Cardinality(Places(list, s))
  <2>1. k \in Places(list, s) <=> list[k] = s
    BY <1>1 DEF Places
  <2> QED
    BY <2>1, PlacesFinite, FS_RemoveElement
<1> HIDE DEF P, Q
<1>9. Cardinality(Places(list, s)) \in Nat
  BY PlacesFinite
<1> QED
  BY <1>6, <1>7, <1>8, <1>9 DEF Q, r

-----------------------------------------------------------------------------
(* What the steps do to the queue, the client nodes and the balance.         *)

LEMMA TodoType ==
    ASSUME TypeOK, InHand
    PROVE  Todo \in Seq(RecvPacketInfo)
BY TailIn DEF Todo, TypeOK, ServerTypeOK, InHand

\* A node that is linked while the gameplay thread works changes neither the
\* node it works on nor what it has in hand.
LEMMA TodoLinked ==
    ASSUME TypeOK, InHand, UNCHANGED gpc, NEW m, PacketRecvList' = Append(PacketRecvList, m)
    PROVE  /\ Todo' = Append(Todo, m)
           /\ PacketRecvList # <<>> => node' = node
<1>1. PacketRecvList \in Seq(RecvPacketInfo)
  BY DEF TypeOK, ServerTypeOK
<1>2. PacketRecvList # <<>> => /\ Head(PacketRecvList') = Head(PacketRecvList)
                               /\ Tail(PacketRecvList') = Append(Tail(PacketRecvList), m)
  BY <1>1, HeadTailAppend
<1>3. CASE gpc \in {"linkSend", "unlinkSend"}
  <2>1. PacketRecvList # <<>>
    BY <1>3 DEF InHand
  <2> QED
    BY <1>2, <1>3, <2>1 DEF Todo, node
<1>4. CASE gpc \notin {"linkSend", "unlinkSend"}
  BY <1>2, <1>4 DEF Todo, node
<1> QED
  BY <1>3, <1>4

LEMMA DropsNat == ASSUME TypeOK, NEW s PROVE Drops(s) \in Nat
<1>1. Cardinality(Places(SocketRecvList, s)) \in Nat
  BY PlacesFinite DEF TypeOK, ServerTypeOK
<1> QED
  BY <1>1 DEF Drops

LEMMA HoldersFinite ==
    ASSUME TypeOK, NEW s
    PROVE  IsFiniteSet(Holders(s)) /\ Cardinality(Holders(s)) \in Nat
<1>1. Holders(s) \subseteq Node
  BY RangeIn DEF Holders, TypeOK, ServerTypeOK
<1>2. IsFiniteSet(Node)
  BY NodeMaxAssumption, FS_Interval DEF Node
<1>3. IsFiniteSet(Holders(s))
  BY <1>1, <1>2, FS_Subset
<1> QED
  BY <1>3, FS_CardinalityType

LEMMA FewerHolders ==
    ASSUME TypeOK, NEW s, NEW H, H \subseteq Holders(s)
    PROVE  Cardinality(H) <= Cardinality(Holders(s)) /\ Cardinality(H) \in Nat
<1>1. IsFiniteSet(H) /\ Cardinality(H) <= Cardinality(Holders(s))
  BY HoldersFinite, FS_Subset
<1> QED
  BY <1>1, FS_CardinalityType

LEMMA BalancedSame ==
    ASSUME TypeOK, InHand, NEW s, Balanced(s), Todo' = Todo, Drops(s)' = Drops(s),
           Holders(s)' \subseteq Holders(s)
    PROVE  Balanced(s)'
<1>1. PICK D : Tally(Todo, s, Drops(s), D) /\ Cardinality(Holders(s)) <= D[1]
  BY DEF Balanced
<1>2. Len(Todo) \in Nat
  BY TodoType, LenProperties
<1>3. D[1] \in Nat
  BY <1>1, <1>2 DEF Tally
<1>4. Cardinality(Holders(s)') <= D[1]
  BY <1>1, <1>3, FewerHolders, HoldersFinite
<1>5. Tally(Todo', s, Drops(s)', D)
  BY <1>1
<1> QED
  BY <1>4, <1>5 DEF Balanced

LEMMA BalancedLinked ==
    ASSUME TypeOK, InHand, TypeOK', NEW s, Balanced(s),
           NEW m \in RecvPacketInfo, Todo' = Append(Todo, m),
           Counts(m, s, Drops(s), Drops(s)'), Holders(s)' \subseteq Holders(s)
    PROVE  Balanced(s)'
<1>1. PICK D : Tally(Todo, s, Drops(s), D) /\ Cardinality(Holders(s)) <= D[1]
  BY DEF Balanced
<1>2. Len(Todo) \in Nat /\ Todo \in Seq(RecvPacketInfo)
  BY TodoType, LenProperties
<1>3. D[1] \in Nat
  BY <1>1, <1>2 DEF Tally
<1>4. Drops(s)' \in Nat
  <2>1. Cardinality(Places(SocketRecvList', s)) \in Nat
    BY PlacesFinite DEF TypeOK, ServerTypeOK
  <2> QED
    BY <2>1 DEF Drops
<1>5. PICK E : Tally(Append(Todo, m), s, Drops(s)', E) /\ E[1] = D[1]
  BY <1>1, <1>2, <1>4, TallyAppend
<1>6. Cardinality(Holders(s)') <= E[1]
  BY <1>1, <1>3, <1>5, FewerHolders, HoldersFinite
<1>7. Tally(Todo', s, Drops(s)', E)
  BY <1>5
<1> QED
  BY <1>6, <1>7 DEF Balanced

LEMMA BalancedTaken ==
    ASSUME TypeOK, InHand, NEW s, Balanced(s), Todo # <<>>, Todo' = Tail(Todo),
           Drops(s)' = Drops(s),
           Says(Head(Todo), "CREATE", s) =>
               \E n : Holders(s)' \subseteq Holders(s) \union {n},
           Says(Head(Todo), "RELEASE", s) =>
               Holders(s)' = {} \/ \E n \in Holders(s) : Holders(s)' \subseteq Holders(s) \ {n},
           ~Says(Head(Todo), "CREATE", s) /\ ~Says(Head(Todo), "RELEASE", s) =>
               Holders(s)' \subseteq Holders(s)
    PROVE  Balanced(s)'
<1>1. PICK D : Tally(Todo, s, Drops(s), D) /\ Cardinality(Holders(s)) <= D[1]
  BY DEF Balanced
<1>2. Todo \in Seq(RecvPacketInfo)
  BY TodoType
<1>3. PICK E : /\ Tally(Tail(Todo), s, Drops(s), E)
               /\ E[1] \in Nat /\ D[1] \in Nat
               /\ Counts(Head(Todo), s, D[1], E[1])
  BY <1>1, <1>2, TallyTail
<1>4. Cardinality(Holders(s)) \in Nat /\ IsFiniteSet(Holders(s))
  BY HoldersFinite
<1>5. Cardinality(Holders(s)') <= E[1]
  <2>1. CASE Says(Head(Todo), "CREATE", s)
    <3>1. PICK n : Holders(s)' \subseteq Holders(s) \union {n}
      BY <2>1
    <3>2. /\ IsFiniteSet(Holders(s) \union {n})
          /\ Cardinality(Holders(s) \union {n}) <= Cardinality(Holders(s)) + 1
          /\ Cardinality(Holders(s) \union {n}) \in Nat
      <4>1. IsFiniteSet(Holders(s) \union {n})
        BY <1>4, FS_AddElement
      <4>2. Cardinality(Holders(s) \union {n}) \in {Cardinality(Holders(s)), Cardinality(Holders(s)) + 1}
        BY <1>4, FS_AddElement
      <4> QED
        BY <1>4, <4>1, <4>2
    <3>3. /\ Cardinality(Holders(s)') <= Cardinality(Holders(s) \union {n})
          /\ Cardinality(Holders(s)') \in Nat
      BY <3>1, <3>2, FS_Subset, FS_CardinalityType
    <3>4. D[1] + 1 = E[1]
      BY <1>3, <2>1 DEF Counts
    <3> QED
      BY <1>1, <1>3, <1>4, <3>2, <3>3, <3>4
  <2>2. CASE Says(Head(Todo), "RELEASE", s)
    <3>1. D[1] = E[1] + 1
      BY <1>3, <2>2 DEF Counts
    <3>2. CASE Holders(s)' = {}
      BY <1>3, <3>2, FS_EmptySet
    <3>3. CASE \E n \in Holders(s) : Holders(s)' \subseteq Holders(s) \ {n}
      <4>1. PICK n \in Holders(s) : Holders(s)' \subseteq Holders(s) \ {n}
        BY <3>3
      <4>2. /\ IsFiniteSet(Holders(s) \ {n})
            /\ Cardinality(Holders(s) \ {n}) = Cardinality(Holders(s)) - 1
        BY <1>4, FS_RemoveElement
      <4>3. /\ Cardinality(Holders(s)') <= Cardinality(Holders(s) \ {n})
            /\ Cardinality(Holders(s)') \in Nat
        BY <4>1, <4>2, FS_Subset, FS_CardinalityType
      <4> QED
        BY <1>1, <1>3, <1>4, <3>1, <4>2, <4>3
    <3> QED
      BY <2>2, <3>2, <3>3
  <2>3. CASE ~Says(Head(Todo), "CREATE", s) /\ ~Says(Head(Todo), "RELEASE", s)
    <3>1. D[1] = E[1]
      BY <1>3, <2>3 DEF Counts
    <3>2. Cardinality(Holders(s)') <= Cardinality(Holders(s)) /\ Cardinality(Holders(s)') \in Nat
      BY <2>3, FewerHolders
    <3> QED
      BY <1>1, <1>3, <1>4, <3>1, <3>2
  <2> QED
    BY <2>1, <2>2, <2>3
<1>6. Tally(Todo', s, Drops(s)', E)
  BY <1>3
<1> QED
  BY <1>5, <1>6 DEF Balanced

\* A search finds a node with the handle if there is one.
LEMMA FirstWithFound ==
    ASSUME NEW list \in Seq(Node), NEW contents, NEW h
    PROVE  /\ FirstWith(list, contents, h) = NoNode =>
                  \A n \in Range(list) : contents[n].Socket # h
           /\ FirstWith(list, contents, h) # NoNode =>
                  /\ FirstWith(list, contents, h) \in Range(list)
                  /\ contents[FirstWith(list, contents, h)].Socket = h
<1> DEFINE matches == {i \in DOMAIN list : contents[list[i]].Socket = h}
<1>1. CASE matches = {}
  BY <1>1 DEF FirstWith, Range
<1>2. CASE matches # {}
  <2>1. matches \subseteq Nat
    OBVIOUS
  <2>2. Min(matches) \in matches
    BY <1>2, <2>1, MinIn
  <2>3. FirstWith(list, contents, h) = list[Min(matches)]
    BY <1>2 DEF FirstWith
  <2>4. /\ Min(matches) \in DOMAIN list
        /\ contents[list[Min(matches)]].Socket = h
        /\ list[Min(matches)] \in Node
    BY <2>2
  <2> HIDE DEF matches
  <2>5. list[Min(matches)] \in Range(list)
    BY <2>4 DEF Range
  <2>6. list[Min(matches)] # NoNode
    BY <2>4, NodeMaxAssumption DEF Node, NoNode
  <2> QED
    BY <2>3, <2>4, <2>5, <2>6
<1> QED
  BY <1>1, <1>2

-----------------------------------------------------------------------------
(* Every step keeps the handles in order.                                    *)

\* Steps that touch neither lists nor handles, at most a node's counters.
SameClients ==
    /\ UNCHANGED <<ClientList, clientFree>>
    /\ \A n \in Node : /\ client'[n].Socket = client[n].Socket
                       /\ client'[n].AliveTimeoutFlag = client[n].AliveTimeoutFlag

LEMMA ElsewhereHandles ==
    ASSUME TypeOK, InHand, HandlesOK, SameClients,
           UNCHANGED <<RunFlag, AcceptList, SocketRecvList, PacketRecvList, mpc, mdel,
                       apc, asock, gpc, gclient, owner>>
    PROVE  HandlesOK'
<1> SUFFICES ASSUME RunFlag PROVE HandlesOK'
  BY DEF HandlesOK
<1>1. Range(ClientList) \subseteq Node
  BY RangeIn DEF TypeOK, ServerTypeOK
<1>2. StagesOK'
  BY <1>1 DEF StagesOK, SameClients, HandlesOK, node
<1>3. ClientPoolOK'
  BY DEF ClientPoolOK, SameClients, HandlesOK
<1>4. Accepted' = Accepted /\ Todo' = Todo
  BY DEF Accepted, Todo
<1>5. ASSUME NEW s \in Sock PROVE Balanced(s)'
  <2>1. Holders(s)' = Holders(s)
    BY <1>1 DEF Holders, SameClients
  <2>2. Drops(s)' = Drops(s)
    BY DEF Drops
  <2> QED
    BY <1>4, <2>1, <2>2, BalancedSame DEF HandlesOK
<1>6. ASSUME NEW s \in Sock, owner'[s] # NoConn PROVE InHands(s)'
  <2>1. InHands(s)
    BY <1>6 DEF HandlesOK
  <2> QED
    BY <1>1, <1>4, <2>1 DEF InHands, SameClients
<1> QED
  BY <1>2, <1>3, <1>5, <1>6 DEF HandlesOK

LEMMA MainStepHandles ==
    ASSUME TypeOK, InHand, TypeOK', HandlesOK, MainStep
    PROVE  HandlesOK'
<1>1. UNCHANGED RunFlag
  BY DEF MainStep, SelectBlocking, TimedMode, LeaveLoop, DrainAcceptList, DrainAwake,
     SelectTimed, SelectDone, AwakeAccept, RecvPacket, AwakeRecv, RecvFail, NoticeFree,
     AwakeFree, GameAwake, Release, flagVars
<1> SUFFICES ASSUME RunFlag PROVE HandlesOK'
  BY <1>1 DEF HandlesOK
<1> USE DEF HandlesOK
<1>2. UNCHANGED <<ClientList, clientFree, client, gpc, gclient, apc, asock, owner>>
  BY DEF MainStep, SelectBlocking, TimedMode, LeaveLoop, DrainAcceptList, DrainAwake,
     SelectTimed, SelectDone, AwakeAccept, RecvPacket, AwakeRecv, RecvFail, NoticeFree,
     AwakeFree, GameAwake, Release, SelectCall, SelectReturn, netVars, clientListVars,
     gameVars, acceptVars, StagesOK
<1>3. ASSUME NEW s PROVE Holders(s)' = Holders(s)
  BY <1>2 DEF Holders
<1>4. ASSUME PacketRecvList # <<>> => node' = node,
             mpc' # "notice" => mdel' = INVALID_SOCKET
      PROVE  StagesOK'
  <2>1. gpc \in {"linkSend", "scanSend", "free", "unlinkSend", "awakeSend", "alive"}
          => PacketRecvList # <<>>
    BY DEF InHand
  <2> QED
    BY <1>2, <1>4, <2>1 DEF StagesOK
<1>5. ClientPoolOK'
  BY <1>2 DEF ClientPoolOK
<1>6. ASSUME Range(Accepted) \subseteq Range(Accepted') \union
                 {s \in Sock : \E k \in DOMAIN Todo' : Says(Todo'[k], "CREATE", s)},
             \A s \in Sock : (\E k \in DOMAIN Todo : Says(Todo[k], "CREATE", s))
                 => \E k \in DOMAIN Todo' : Says(Todo'[k], "CREATE", s)
      PROVE  \A s \in Sock : owner'[s] # NoConn => InHands(s)'
  BY <1>2, <1>6 DEF InHands
<1>7. Todo \in Seq(RecvPacketInfo)
  BY TodoType
<1>8. ASSUME NEW m \in RecvPacketInfo, Todo' = Append(Todo, m)
      PROVE  /\ \A s : (\E k \in DOMAIN Todo : Says(Todo[k], "CREATE", s))
                 => \E k \in DOMAIN Todo' : Says(Todo'[k], "CREATE", s)
             /\ \E k \in DOMAIN Todo' : Todo'[k] = m
  <2>1. /\ DOMAIN Todo = 1 .. Len(Todo) /\ DOMAIN Todo' = 1 .. Len(Todo) + 1
        /\ Len(Todo) \in Nat
        /\ \A k \in 1 .. Len(Todo) : Todo'[k] = Todo[k]
        /\ Todo'[Len(Todo) + 1] = m
    BY <1>7, <1>8, AppendProperties, LenProperties
  <2>2. 1 .. Len(Todo) \subseteq 1 .. Len(Todo) + 1 /\ Len(Todo) + 1 \in 1 .. Len(Todo) + 1
    BY <2>1
  <2> QED
    BY <2>1, <2>2
<1>9. CASE SelectBlocking \/ TimedMode \/ SelectTimed \/ SelectDone \/ AwakeAccept
             \/ AwakeRecv \/ AwakeFree
  <2>1. /\ UNCHANGED <<PacketRecvList, AcceptList, SocketRecvList, mdel>>
        /\ mpc \notin {"drainAwake", "notice"} /\ mpc' # "drainAwake"
    BY <1>9 DEF SelectBlocking, TimedMode, SelectTimed, SelectDone, AwakeAccept, AwakeRecv,
       AwakeFree, GameAwake, queueVars, recvListVars
  <2>2. Accepted' = Accepted /\ Todo' = Todo /\ node' = node
    BY <1>2, <2>1 DEF Accepted, Todo, node
  <2>3. StagesOK'
    BY <1>4, <2>1, <2>2 DEF StagesOK
  <2>4. ASSUME NEW s \in Sock PROVE Balanced(s)'
    BY <1>3, <2>1, <2>2, BalancedSame DEF Drops
  <2> QED
    BY <1>5, <1>6, <2>2, <2>3, <2>4
<1>10. CASE DrainAcceptList
  <2> DEFINE h == Head(AcceptList)
  <2>1. /\ h \in Sock /\ AcceptList # <<>> /\ AcceptList \in Seq(Sock)
        /\ SocketRecvList \in Seq(Sock)
    BY <1>10 DEF DrainAcceptList, TypeOK, ServerTypeOK
  <2>2. PICK m : /\ PacketRecvList' = Append(PacketRecvList, m)
                 /\ m.ActionType = "CREATE" /\ m.Socket = h
    BY <1>10 DEF DrainAcceptList
  <2>3. m \in RecvPacketInfo
    BY <2>2, AppendedIn DEF TypeOK, ServerTypeOK
  <2>4. /\ SocketRecvList' = Append(SocketRecvList, h)
        /\ UNCHANGED <<mdel, AcceptList>>
        /\ mpc = "drain" /\ mpc' = "drainAwake"
    BY <1>10 DEF DrainAcceptList
  <2> HIDE DEF h
  <2>5. Todo' = Append(Todo, m) /\ (PacketRecvList # <<>> => node' = node)
    BY <1>2, <2>2, TodoLinked
  <2>6. StagesOK'
    BY <1>4, <2>4, <2>5 DEF StagesOK
  <2>7. ASSUME NEW s \in Sock PROVE Balanced(s)'
    <3>1. Drops(s)' = Drops(s) + IF h = s THEN 1 ELSE 0
      <4>1. Cardinality(Places(SocketRecvList', s)) =
              Cardinality(Places(SocketRecvList, s)) + IF h = s THEN 1 ELSE 0
        BY <2>1, <2>4, PlacesAppend
      <4>2. Cardinality(Places(SocketRecvList, s)) \in Nat
        BY <2>1, PlacesFinite
      <4> QED
        BY <2>4, <4>1, <4>2 DEF Drops
    <3>2. Counts(m, s, Drops(s), Drops(s)')
      BY <2>2, <3>1, DropsNat DEF Counts, Says
    <3> QED
      BY <1>3, <2>3, <2>5, <3>2, BalancedLinked
  <2>8. Range(Accepted) = {h} \union Range(Accepted')
    BY <2>1, <2>4, RangeTail DEF Accepted, h
  <2>9. \E k \in DOMAIN Todo' : Says(Todo'[k], "CREATE", h)
    BY <1>8, <2>2, <2>3, <2>5 DEF Says
  <2>10. \A s \in Sock : owner'[s] # NoConn => InHands(s)'
    BY <1>6, <1>8, <2>1, <2>3, <2>5, <2>8, <2>9
  <2> QED
    BY <1>5, <2>6, <2>7, <2>10
<1>11. CASE DrainAwake
  <2>1. /\ UNCHANGED <<PacketRecvList, SocketRecvList, mdel>>
        /\ mpc = "drainAwake" /\ mpc' = "drain" /\ AcceptList' = Tail(AcceptList)
    BY <1>11 DEF DrainAwake, queueVars
  <2>2. Accepted' = Accepted /\ Todo' = Todo /\ node' = node
    BY <1>2, <2>1 DEF Accepted, Todo, node
  <2>3. StagesOK'
    BY <1>4, <2>1, <2>2 DEF StagesOK
  <2>4. ASSUME NEW s \in Sock PROVE Balanced(s)'
    BY <1>3, <2>1, <2>2, BalancedSame DEF Drops
  <2> QED
    BY <1>5, <1>6, <2>2, <2>3, <2>4
<1>12. CASE RecvPacket
  <2>1. PICK m : PacketRecvList' = Append(PacketRecvList, m) /\ m.ActionType = "PACKET"
    BY <1>12 DEF RecvPacket
  <2>2. /\ UNCHANGED <<AcceptList, SocketRecvList, mdel>>
        /\ mpc = "scan" /\ mpc' = "awakeRecv"
    BY <1>12 DEF RecvPacket, recvListVars
  <2>3. m \in RecvPacketInfo
    BY <2>1, AppendedIn DEF TypeOK, ServerTypeOK
  <2>4. Todo' = Append(Todo, m) /\ (PacketRecvList # <<>> => node' = node)
    BY <1>2, <2>1, TodoLinked
  <2>5. StagesOK'
    BY <1>4, <2>2, <2>4 DEF StagesOK
  <2>6. ASSUME NEW s \in Sock PROVE Balanced(s)'
    <3>1. Drops(s)' = Drops(s)
      BY <2>2 DEF Drops
    <3>2. Counts(m, s, Drops(s), Drops(s)')
      BY <2>1, <3>1 DEF Counts, Says
    <3> QED
      BY <1>3, <2>3, <2>4, <3>2, BalancedLinked
  <2>7. Accepted' = Accepted
    BY <2>2 DEF Accepted
  <2> QED
    BY <1>5, <1>6, <1>8, <2>3, <2>4, <2>5, <2>6, <2>7
<1>13. CASE RecvFail
  <2>1. PICK i \in 1 .. Len(SocketRecvList) :
          SocketRecvList' = RemoveAt(SocketRecvList, i) /\ mdel' = SocketRecvList[i]
    BY <1>13 DEF RecvFail
  <2>2. /\ UNCHANGED <<AcceptList, PacketRecvList>>
        /\ mpc = "scan" /\ mpc' = "notice"
    BY <1>13 DEF RecvFail, queueVars
  <2>3. Accepted' = Accepted /\ Todo' = Todo /\ node' = node
    BY <1>2, <2>2 DEF Accepted, Todo, node
  <2>4. mdel = INVALID_SOCKET
    BY <2>2 DEF StagesOK
  <2>5. StagesOK'
    BY <1>4, <2>2, <2>3
  <2>6. ASSUME NEW s \in Sock PROVE Balanced(s)'
    <3>1. Cardinality(Places(SocketRecvList, s)) =
            Cardinality(Places(SocketRecvList', s)) + IF SocketRecvList[i] = s THEN 1 ELSE 0
      BY <2>1, PlacesRemove, SMTT(40) DEF TypeOK, ServerTypeOK
    <3>2. /\ Cardinality(Places(SocketRecvList, s)) \in Nat
          /\ Cardinality(Places(SocketRecvList', s)) \in Nat
      BY PlacesFinite DEF TypeOK, ServerTypeOK
    <3>3. s # INVALID_SOCKET
      BY ConnAssumption
    <3>4. Drops(s)' = Drops(s)
      BY <2>1, <2>4, <3>1, <3>2, <3>3 DEF Drops
    <3> QED
      BY <1>3, <2>3, <3>4, BalancedSame
  <2> QED
    BY <1>5, <1>6, <2>3, <2>5, <2>6
<1>14. CASE NoticeFree
  <2>1. PICK m : /\ PacketRecvList' = Append(PacketRecvList, m)
                 /\ m.ActionType = "RELEASE" /\ m.Socket = mdel
    BY <1>14 DEF NoticeFree
  <2>2. /\ UNCHANGED <<AcceptList, SocketRecvList>> /\ mdel' = INVALID_SOCKET
        /\ mpc = "notice" /\ mpc' = "awakeFree"
    BY <1>14 DEF NoticeFree, recvListVars
  <2>3. m \in RecvPacketInfo
    BY <2>1, AppendedIn DEF TypeOK, ServerTypeOK
  <2>4. Todo' = Append(Todo, m) /\ (PacketRecvList # <<>> => node' = node)
    BY <1>2, <2>1, TodoLinked
  <2>5. StagesOK'
    BY <1>4, <2>2, <2>4
  <2>6. ASSUME NEW s \in Sock PROVE Balanced(s)'
    <3>1. s # INVALID_SOCKET
      BY ConnAssumption
    <3>2. Cardinality(Places(SocketRecvList, s)) \in Nat
      BY PlacesFinite DEF TypeOK, ServerTypeOK
    <3>3. Counts(m, s, Drops(s), Drops(s)')
      BY <2>1, <2>2, <3>1, <3>2 DEF Counts, Says, Drops
    <3> QED
      BY <1>3, <2>3, <2>4, <3>3, BalancedLinked
  <2>7. Accepted' = Accepted
    BY <2>2 DEF Accepted
  <2> QED
    BY <1>5, <1>6, <1>8, <2>3, <2>4, <2>5, <2>6, <2>7
<1>15. ~LeaveLoop /\ ~Release
  BY DEF LeaveLoop, Release, StagesOK
<1> QED
  BY <1>9, <1>10, <1>11, <1>12, <1>13, <1>14, <1>15 DEF MainStep

LEMMA AcceptStepHandles ==
    ASSUME TypeOK, InHand, TypeOK', HandlesOK, AcceptStep
    PROVE  HandlesOK'
<1>1. UNCHANGED <<RunFlag, ClientList, clientFree, client, gpc, gclient, PacketRecvList,
                  SocketRecvList, mpc, mdel>>
  BY DEF AcceptStep, AcceptOuter, AcceptWait, AcceptReset, PollNothing, PollStopped, PollAccept,
     PollError, AcceptFull, AcceptLink, AcceptCheck, AcceptClearFlag, acceptFrame, queueVars,
     clientListVars, mainVars, gameVars
<1> SUFFICES ASSUME RunFlag PROVE HandlesOK'
  BY <1>1 DEF HandlesOK
<1> USE DEF HandlesOK
<1>2. ClientPoolOK'
  BY <1>1 DEF ClientPoolOK
<1>3. ASSUME NEW s \in Sock PROVE Balanced(s)'
  <2>1. Todo' = Todo /\ Drops(s)' = Drops(s) /\ Holders(s)' = Holders(s)
    BY <1>1 DEF Todo, Drops, Holders
  <2> QED
    BY <2>1, BalancedSame
<1>4. ASSUME apc' # "accepted" => asock' = INVALID_SOCKET PROVE StagesOK'
  BY <1>1, <1>4 DEF StagesOK, node
<1>5. ASSUME \A s \in Sock : owner'[s] # NoConn => owner[s] # NoConn \/ s = asock',
             Range(Accepted) \subseteq Range(Accepted'),
             asock \in Sock => \/ asock \in Range(Accepted') \/ asock = asock'
                               \/ owner'[asock] = NoConn
      PROVE  \A s \in Sock : owner'[s] # NoConn => InHands(s)'
  <2>1. ASSUME NEW s \in Sock, owner'[s] # NoConn PROVE InHands(s)'
    <3>1. CASE s = asock'
      BY <3>1 DEF InHands
    <3>2. CASE s # asock'
      <4>1. InHands(s)
        BY <1>5, <2>1, <3>2
      <4>2. Todo' = Todo
        BY <1>1 DEF Todo
      <4> QED
        BY <1>1, <1>5, <2>1, <3>2, <4>1, <4>2 DEF InHands
    <3> QED
      BY <3>1, <3>2
  <2> QED
    BY <2>1
<1>6. UNCHANGED AcceptList => Accepted' = Accepted
  BY <1>1 DEF Accepted
<1>7. CASE PollAccept
  <2>1. PICK s \in Sock : owner' = [owner EXCEPT ![s] = Head(backlog)] /\ asock' = s
    BY <1>7 DEF PollAccept
  <2>2. apc = "poll" /\ apc' = "accepted" /\ UNCHANGED AcceptList
    BY <1>7 DEF PollAccept
  <2>3. asock = INVALID_SOCKET
    BY <2>2 DEF StagesOK
  <2>4. \A h \in Sock : owner'[h] # NoConn => owner[h] # NoConn \/ h = asock'
    BY <2>1 DEF TypeOK, NetTypeOK
  <2> QED
    BY <1>2, <1>3, <1>4, <1>5, <1>6, <2>2, <2>3, <2>4, ConnAssumption
<1>8. CASE AcceptFull
  <2>1. /\ apc = "accepted" /\ apc' = "poll" /\ UNCHANGED AcceptList
        /\ asock' = INVALID_SOCKET
        /\ owner' = [s \in Sock |-> IF s \in {asock} THEN NoConn ELSE owner[s]]
    BY <1>8 DEF AcceptFull, CloseHandles
  <2> QED
    BY <1>2, <1>3, <1>4, <1>5, <1>6, <2>1
<1>9. CASE AcceptLink
  <2>1. /\ apc = "accepted" /\ apc' = "poll" /\ AcceptList' = Append(AcceptList, asock)
        /\ asock' = INVALID_SOCKET /\ UNCHANGED owner
    BY <1>9 DEF AcceptLink, netVars
  <2>2. asock \in Sock /\ AcceptList \in Seq(Sock) /\ Accepted \in Seq(Sock)
    BY <2>1, TailIn DEF InHand, TypeOK, ServerTypeOK, Accepted
  <2>3. Accepted' = Append(Accepted, asock)
    BY <1>1, <2>1, <2>2, HeadTailAppend DEF Accepted, InHand
  <2>4. Range(Accepted) \union {asock} \subseteq Range(Accepted')
    <3>1. /\ DOMAIN Accepted = 1 .. Len(Accepted) /\ Len(Accepted) \in Nat
          /\ DOMAIN Accepted' = 1 .. Len(Accepted) + 1
          /\ \A i \in 1 .. Len(Accepted) : Accepted'[i] = Accepted[i]
          /\ Accepted'[Len(Accepted) + 1] = asock
      BY <2>2, <2>3, AppendProperties, LenProperties
    <3>2. 1 .. Len(Accepted) \subseteq 1 .. Len(Accepted) + 1
          /\ Len(Accepted) + 1 \in 1 .. Len(Accepted) + 1
      BY <3>1
    <3> QED
      BY <3>1, <3>2 DEF Range
  <2> QED
    BY <1>2, <1>3, <1>4, <1>5, <2>1, <2>4
<1>10. CASE ~(PollAccept \/ AcceptFull \/ AcceptLink)
  <2>1. UNCHANGED <<AcceptList, asock, owner>> /\ apc # "accepted"
    BY <1>10 DEF AcceptStep, AcceptOuter, AcceptWait, AcceptReset, PollNothing, PollStopped,
       PollError, AcceptCheck, AcceptClearFlag, netVars
  <2>2. asock = INVALID_SOCKET
    BY <2>1 DEF StagesOK
  <2>3. StagesOK'
    BY <1>4, <2>1, <2>2
  <2>4. \A s \in Sock : owner'[s] # NoConn => InHands(s)'
    BY <1>5, <1>6, <2>1, SMTT(40)
  <2> QED
    BY <1>2, <1>3, <2>3, <2>4
<1> QED
  BY <1>7, <1>8, <1>9, <1>10

-----------------------------------------------------------------------------
(* The gameplay thread.                                                      *)

\* What all its steps leave alone.
LEMMA GameStepFrame ==
    ASSUME GameStep
    PROVE  UNCHANGED <<AcceptList, SocketRecvList, mpc, mdel, apc, asock>>
BY DEF GameStep, GameOuter, GameWait, GameReset, GameEmpty, CreateClientNode, LinkSendNode,
   FreeClientNode, ScanSendNode, FreePlayerAndClose, UnlinkClient, NoClientNode, PacketInOrder,
   PacketOutOfOrder, AwakeSend, CloseTimedOut, CheckClientAlive, ServerExit, ExitCloseListen, ExitAwakeAccept,
   ExitAwake, recvListVars, mainVars, acceptVars

\* What remains to be shown when it takes a node out of the notices to come,
\* or works on.
LEMMA InHandsGame ==
    ASSUME TypeOK, InHand, HandlesOK, RunFlag, GameStep, NEW s \in Sock, owner'[s] # NoConn,
           owner[s] # NoConn,
           (\E k \in DOMAIN Todo : Says(Todo[k], "CREATE", s)) =>
               \/ \E k \in DOMAIN Todo' : Says(Todo'[k], "CREATE", s)
               \/ \E n \in Range(ClientList') : /\ client'[n].Socket = s
                                                /\ ~client'[n].AliveTimeoutFlag,
           (\E n \in Range(ClientList) : client[n].Socket = s /\ ~client[n].AliveTimeoutFlag) =>
               \E n \in Range(ClientList') : /\ client'[n].Socket = s
                                             /\ ~client'[n].AliveTimeoutFlag
    PROVE  InHands(s)'
<1>1. Accepted' = Accepted /\ asock' = asock
  BY GameStepFrame DEF Accepted
<1>2. InHands(s)
  BY DEF HandlesOK
<1> QED
  BY <1>1, <1>2 DEF InHands

\* The notices that follow the first one.
LEMMA NextNotice ==
    ASSUME NEW q \in Seq(RecvPacketInfo), q # <<>>, NEW s
    PROVE  (\E k \in DOMAIN q : Says(q[k], "CREATE", s)) =>
               \/ Says(Head(q), "CREATE", s)
               \/ \E k \in DOMAIN Tail(q) : Says(Tail(q)[k], "CREATE", s)
<1>1. Range(q) = {Head(q)} \union Range(Tail(q))
  BY RangeTail
<1> QED
  BY <1>1 DEF Range

LEMMA CreateClientNodeHandles ==
    ASSUME TypeOK, InHand, TypeOK', HandlesOK, RunFlag, CreateClientNode
    PROVE  HandlesOK'
<1> USE DEF HandlesOK
<1> DEFINE new == Head(clientFree)
<1>1. /\ gpc = "get" /\ gpc' = "linkSend" /\ gclient' = new
      /\ PacketRecvList # <<>> /\ node.ActionType = "CREATE"
      /\ clientFree # <<>> /\ clientFree' = Tail(clientFree)
      /\ ClientList' = Append(ClientList, new)
      /\ client' = [client EXCEPT ![new] = [FreeClient EXCEPT !.Socket = node.Socket]]
      /\ UNCHANGED <<owner, PacketRecvList, RunFlag>>
  BY DEF CreateClientNode, netVars, queueVars, flagVars
<1>2. UNCHANGED <<AcceptList, SocketRecvList, mpc, mdel, apc, asock>>
  BY GameStepFrame DEF GameStep
<1>3. /\ ClientList \in Seq(Node) /\ clientFree \in Seq(Node) /\ Range(ClientList) \subseteq Node
      /\ client \in [Node -> SocketClient] /\ PacketRecvList \in Seq(RecvPacketInfo)
  BY RangeIn DEF TypeOK, ServerTypeOK
<1>4. new \in Node /\ new \in Range(clientFree) /\ new \notin Range(ClientList)
  BY <1>1, <1>3, PopFresh, HeadTailProperties DEF ClientPoolOK
<1>5. /\ IsInjective(ClientList') /\ Range(ClientList') = Range(ClientList) \union {new}
  BY <1>1, <1>3, <1>4, AppendFresh DEF ClientPoolOK
<1>6. IsInjective(clientFree') /\ Range(clientFree') \subseteq Range(clientFree) \ {new}
  BY <1>1, <1>3, PopFresh DEF ClientPoolOK
<1> HIDE DEF new
<1>7. ClientPoolOK'
  BY <1>5, <1>6 DEF ClientPoolOK
<1>8. node' = node /\ Todo = PacketRecvList /\ Todo' = Tail(PacketRecvList) /\ Head(Todo) = node
  BY <1>1 DEF node, Todo
<1>9. StagesOK'
  BY <1>1, <1>2, <1>8 DEF StagesOK
<1>10. \A n \in Node : n # new => client'[n] = client[n]
  BY <1>1, <1>3
<1>11. client'[new].Socket = node.Socket /\ client'[new].AliveTimeoutFlag = FALSE
  BY <1>1, <1>3, <1>4 DEF FreeClient
<1>12. ASSUME NEW s \in Sock PROVE Balanced(s)'
  <2>1. Drops(s)' = Drops(s)
    BY <1>2 DEF Drops
  <2>2. Holders(s)' \subseteq Holders(s) \union {new}
    BY <1>1, <1>3, <1>5, <1>10 DEF Holders
  <2>3. ~Says(Head(Todo), "CREATE", s) => Holders(s)' \subseteq Holders(s)
    BY <1>1, <1>8, <1>11, <2>2 DEF Says, Holders
  <2>4. ~Says(Head(Todo), "RELEASE", s)
    BY <1>1, <1>8 DEF Says
  <2> QED
    BY <1>1, <1>8, <2>1, <2>2, <2>3, <2>4, BalancedTaken
<1>13. ASSUME NEW s \in Sock, owner'[s] # NoConn PROVE InHands(s)'
  <2>1. (\E k \in DOMAIN Todo : Says(Todo[k], "CREATE", s)) =>
           \/ \E k \in DOMAIN Todo' : Says(Todo'[k], "CREATE", s)
           \/ s = node.Socket
    BY <1>1, <1>3, <1>8, NextNotice DEF Says
  <2>2. s = node.Socket => \E n \in Range(ClientList') : /\ client'[n].Socket = s
                                                         /\ ~client'[n].AliveTimeoutFlag
    BY <1>5, <1>11
  <2>3. \A n \in Range(ClientList) : n \in Range(ClientList') /\ client'[n] = client[n]
    BY <1>3, <1>4, <1>5, <1>10
  <2>4. GameStep /\ owner[s] # NoConn
    BY <1>1, <1>13 DEF GameStep
  <2>5. (\E n \in Range(ClientList) : client[n].Socket = s /\ ~client[n].AliveTimeoutFlag) =>
           \E n \in Range(ClientList') : client'[n].Socket = s /\ ~client'[n].AliveTimeoutFlag
    BY <2>3
  <2> QED
    BY <1>13, <2>1, <2>2, <2>4, <2>5, InHandsGame
<1> QED
  BY <1>7, <1>9, <1>12, <1>13

LEMMA FreePlayerHandles ==
    ASSUME TypeOK, InHand, TypeOK', HandlesOK, RunFlag, FreePlayerAndClose
    PROVE  HandlesOK'
<1> USE DEF HandlesOK
<1>1. /\ gpc = "free" /\ gpc' = "unlinkSend"
      /\ UNCHANGED <<RunFlag, PacketRecvList, ClientList, clientFree, gclient>>
  BY DEF FreePlayerAndClose, flagVars, queueVars
<1>2. UNCHANGED <<AcceptList, SocketRecvList, mpc, mdel, apc, asock>>
  BY GameStepFrame DEF GameStep
<1>3. /\ PacketRecvList # <<>> /\ node.ActionType = "RELEASE" /\ gclient \in Range(ClientList)
      /\ client[gclient].Socket = node.Socket
  BY <1>1 DEF InHand, StagesOK
<1>4. /\ Range(ClientList) \subseteq Node /\ client \in [Node -> SocketClient]
      /\ gclient \in Node
  BY <1>3, RangeIn DEF TypeOK, ServerTypeOK
<1>5. /\ \A n \in Node : n # gclient => client'[n] = client[n]
      /\ client'[gclient].AliveTimeoutFlag = client[gclient].AliveTimeoutFlag
      /\ client'[gclient].AliveTimeoutFlag \/ client'[gclient].Socket = INVALID_SOCKET
  <2>1. CASE client[gclient].AliveTimeoutFlag
    BY <1>4, <2>1 DEF FreePlayerAndClose
  <2>2. CASE ~client[gclient].AliveTimeoutFlag
    <3>1. client' = [client EXCEPT ![gclient].Socket = INVALID_SOCKET]
      BY <2>2 DEF FreePlayerAndClose
    <3>2. client[gclient] \in SocketClient
      BY <1>4
    <3> QED
      BY <1>4, <3>1, <3>2 DEF SocketClient
  <2> QED
    BY <2>1, <2>2
<1>6. \A s \in Sock : owner'[s] # NoConn =>
           /\ owner[s] # NoConn
           /\ client[gclient].AliveTimeoutFlag \/ s # client[gclient].Socket
  BY DEF FreePlayerAndClose, CloseHandles, netVars
<1>7. node' = node /\ Todo = PacketRecvList /\ Todo' = Tail(PacketRecvList) /\ Head(Todo) = node
  BY <1>1 DEF node, Todo
<1>8. StagesOK'
  BY <1>1, <1>2, <1>3, <1>5, <1>7 DEF StagesOK
<1>9. ClientPoolOK'
  BY <1>1 DEF ClientPoolOK
<1>10. ASSUME NEW s \in Sock PROVE Balanced(s)'
  <2>1. Drops(s)' = Drops(s)
    BY <1>2 DEF Drops
  <2>2. Holders(s)' \subseteq Holders(s) \ {gclient}
    BY <1>1, <1>4, <1>5 DEF Holders
  <2>3. Says(Head(Todo), "RELEASE", s) => gclient \in Holders(s)
    BY <1>1, <1>3, <1>7 DEF Says, Holders
  <2>4. ~Says(Head(Todo), "CREATE", s)
    BY <1>3, <1>7 DEF Says
  <2> QED
    BY <1>3, <1>7, <2>1, <2>2, <2>3, <2>4, BalancedTaken
<1>11. ASSUME NEW s \in Sock, owner'[s] # NoConn PROVE InHands(s)'
  <2>1. (\E k \in DOMAIN Todo : Says(Todo[k], "CREATE", s)) =>
           \E k \in DOMAIN Todo' : Says(Todo'[k], "CREATE", s)
    <3>1. PacketRecvList \in Seq(RecvPacketInfo) /\ ~Says(Head(Todo), "CREATE", s)
      BY <1>3, <1>7 DEF Says, TypeOK, ServerTypeOK
    <3> QED
      BY <1>3, <1>7, <3>1, NextNotice
  <2>2. \A n \in Range(ClientList) :
           client[n].Socket = s /\ ~client[n].AliveTimeoutFlag =>
               /\ n \in Range(ClientList') /\ client'[n].Socket = s
               /\ ~client'[n].AliveTimeoutFlag
    BY <1>1, <1>4, <1>5, <1>6, <1>11
  <2>3. GameStep /\ owner[s] # NoConn
    BY <1>6, <1>11 DEF GameStep
  <2> QED
    BY <1>11, <2>1, <2>2, <2>3, InHandsGame
<1> QED
  BY <1>8, <1>9, <1>10, <1>11

LEMMA UnlinkClientHandles ==
    ASSUME TypeOK, InHand, TypeOK', HandlesOK, RunFlag, UnlinkClient
    PROVE  HandlesOK'
<1> USE DEF HandlesOK
<1>1. /\ gpc = "unlinkSend" /\ gpc' = "get"
      /\ PacketRecvList' = Tail(PacketRecvList)
      /\ ClientList' = Unlink(ClientList, gclient)
      /\ client' = [client EXCEPT ![gclient] = FreeClient]
      /\ clientFree' = <<gclient>> \o clientFree
      /\ UNCHANGED <<RunFlag, owner>>
  BY DEF UnlinkClient, UnlinkHead, flagVars, netVars
<1>2. UNCHANGED <<AcceptList, SocketRecvList, mpc, mdel, apc, asock>>
  BY GameStepFrame DEF GameStep
<1>3. /\ gclient \in Range(ClientList)
      /\ client[gclient].AliveTimeoutFlag \/ client[gclient].Socket = INVALID_SOCKET
  BY <1>1 DEF StagesOK
<1>4. /\ Range(ClientList) \subseteq Node /\ client \in [Node -> SocketClient]
      /\ gclient \in Node /\ ClientList \in Seq(Node) /\ clientFree \in Seq(Node)
  BY <1>3, RangeIn DEF TypeOK, ServerTypeOK
<1>5. Range(ClientList') = Range(ClientList) \ {gclient} /\ IsInjective(ClientList')
  BY <1>1, <1>3, <1>4, UnlinkLinked DEF ClientPoolOK
<1>6. Range(clientFree') = {gclient} \union Range(clientFree) /\ IsInjective(clientFree')
  BY <1>1, <1>3, <1>4, PushFresh DEF ClientPoolOK
<1>7. ClientPoolOK'
  BY <1>5, <1>6 DEF ClientPoolOK
<1>8. Todo' = Todo
  BY <1>1 DEF Todo
<1>9. StagesOK'
  BY <1>1, <1>2 DEF StagesOK
<1>10. \A n \in Node : n # gclient => client'[n] = client[n]
  BY <1>1, <1>4
<1>11. ASSUME NEW s \in Sock PROVE Balanced(s)'
  <2>1. Drops(s)' = Drops(s)
    BY <1>2 DEF Drops
  <2>2. Holders(s)' \subseteq Holders(s)
    BY <1>1, <1>4, <1>5, <1>10 DEF Holders
  <2> QED
    BY <1>8, <2>1, <2>2, BalancedSame
<1>12. ASSUME NEW s \in Sock, owner'[s] # NoConn PROVE InHands(s)'
  <2>1. \A n \in Range(ClientList) :
           client[n].Socket = s /\ ~client[n].AliveTimeoutFlag =>
               n \in Range(ClientList') /\ client'[n] = client[n]
    BY <1>3, <1>4, <1>5, <1>10, ConnAssumption
  <2>2. GameStep /\ owner[s] # NoConn
    BY <1>1, <1>12 DEF GameStep
  <2>3. (\E n \in Range(ClientList) : client[n].Socket = s /\ ~client[n].AliveTimeoutFlag) =>
           \E n \in Range(ClientList') : client'[n].Socket = s /\ ~client'[n].AliveTimeoutFlag
    BY <2>1
  <2> QED
    BY <1>8, <1>12, <2>2, <2>3, InHandsGame
<1> QED
  BY <1>7, <1>9, <1>11, <1>12

\* The other steps take a node or none, and create and free no client node;
\* they may close handles of clients, which then are nobody's.
LEMMA OtherGameHandles ==
    ASSUME TypeOK, InHand, TypeOK', HandlesOK, RunFlag, GameStep,
           UNCHANGED <<RunFlag, ClientList, clientFree>>, StagesOK',
           \/ Todo' = Todo
           \/ /\ Todo # <<>> /\ Todo' = Tail(Todo) /\ Head(Todo).ActionType # "CREATE"
              /\ Head(Todo).ActionType = "RELEASE" =>
                     \A n \in Range(ClientList) : client'[n].Socket # Head(Todo).Socket,
           gpc \notin {"free", "unlinkSend"}, gpc' # "unlinkSend",
           \A s \in Sock : owner'[s] # NoConn => owner[s] # NoConn,
           \A n \in Range(ClientList) : client'[n].Socket \in {client[n].Socket, INVALID_SOCKET},
           \A n \in Range(ClientList) :
               \/ /\ client'[n].Socket = client[n].Socket
                  /\ client'[n].AliveTimeoutFlag = client[n].AliveTimeoutFlag
               \/ client[n].Socket \in Sock => owner'[client[n].Socket] = NoConn
    PROVE  HandlesOK'
<1>1. UNCHANGED <<AcceptList, SocketRecvList, mpc, mdel, apc, asock>>
  BY GameStepFrame
<1>2. ClientPoolOK'
  BY DEF ClientPoolOK, HandlesOK
<1>3. ASSUME NEW s \in Sock PROVE Balanced(s)'
  <2>1. Drops(s)' = Drops(s) /\ Balanced(s)
    BY <1>1 DEF Drops, HandlesOK
  <2>2. Holders(s)' \subseteq Holders(s)
    BY ConnAssumption DEF Holders
  <2>3. CASE Todo' = Todo
    BY <2>1, <2>2, <2>3, BalancedSame
  <2>4. CASE Todo' # Todo
    <3>1. /\ Todo # <<>> /\ Todo' = Tail(Todo) /\ ~Says(Head(Todo), "CREATE", s)
      BY <2>4 DEF Says
    <3>2. Says(Head(Todo), "RELEASE", s) => Holders(s)' = {}
      BY <2>4 DEF Says, Holders
    <3> QED
      BY <2>1, <2>2, <3>1, <3>2, BalancedTaken
  <2> QED
    BY <2>3, <2>4
<1>4. ASSUME NEW s \in Sock, owner'[s] # NoConn PROVE InHands(s)'
  <2>1. Todo \in Seq(RecvPacketInfo)
    BY TodoType
  <2>2. (\E k \in DOMAIN Todo : Says(Todo[k], "CREATE", s)) =>
           \E k \in DOMAIN Todo' : Says(Todo'[k], "CREATE", s)
    <3>1. CASE Todo' = Todo
      BY <3>1
    <3>2. CASE Todo' # Todo
      <4>1. Todo # <<>> /\ Todo' = Tail(Todo) /\ ~Says(Head(Todo), "CREATE", s)
        BY <3>2 DEF Says
      <4> QED
        BY <2>1, <4>1, NextNotice
    <3> QED
      BY <3>1, <3>2
  <2>3. \A n \in Range(ClientList) :
           client[n].Socket = s /\ ~client[n].AliveTimeoutFlag =>
               /\ n \in Range(ClientList') /\ client'[n].Socket = s
               /\ ~client'[n].AliveTimeoutFlag
    BY <1>4
  <2>4. (\E n \in Range(ClientList) : client[n].Socket = s /\ ~client[n].AliveTimeoutFlag) =>
           \E n \in Range(ClientList') : client'[n].Socket = s /\ ~client'[n].AliveTimeoutFlag
    BY <2>3
  <2>5. owner[s] # NoConn
    BY <1>4
  <2> QED
    BY <1>4, <2>2, <2>4, <2>5, InHandsGame
<1> QED
  BY <1>2, <1>3, <1>4 DEF HandlesOK

LEMMA GameStepHandles ==
    ASSUME TypeOK, InHand, TypeOK', HandlesOK, GameStep
    PROVE  HandlesOK'
<1> SUFFICES ASSUME RunFlag, RunFlag' PROVE HandlesOK'
  <2>1. RunFlag' => RunFlag
    BY DEF GameStep, GameOuter, GameWait, GameReset, GameEmpty, CreateClientNode, LinkSendNode,
       FreeClientNode, ScanSendNode, FreePlayerAndClose, UnlinkClient, NoClientNode,
       PacketInOrder, PacketOutOfOrder, AwakeSend, CloseTimedOut, CheckClientAlive, ServerExit,
       ExitCloseListen, ExitAwakeAccept, ExitAwake, flagVars
  <2> QED
    BY <2>1, SMTT(40) DEF HandlesOK
<1>0. UNCHANGED <<AcceptList, SocketRecvList, mpc, mdel, apc, asock>>
  BY GameStepFrame
<1>1. /\ ClientList \in Seq(Node) /\ Range(ClientList) \subseteq Node
      /\ client \in [Node -> SocketClient] /\ PacketRecvList \in Seq(RecvPacketInfo)
  BY RangeIn DEF TypeOK, ServerTypeOK
<1>2. /\ clientNode = NoNode => \A n \in Range(ClientList) : client[n].Socket # node.Socket
      /\ clientNode # NoNode => /\ clientNode \in Range(ClientList)
                                /\ client[clientNode].Socket = node.Socket
  BY <1>1, FirstWithFound DEF clientNode, GetSocketClientNode
<1>3. StagesOK
  BY DEF HandlesOK
<1>4. CASE CreateClientNode
  BY <1>4, CreateClientNodeHandles
<1>5. CASE FreePlayerAndClose
  BY <1>5, FreePlayerHandles
<1>6. CASE UnlinkClient
  BY <1>6, UnlinkClientHandles
<1>7. CASE GameOuter \/ GameWait \/ GameReset \/ GameEmpty \/ FreeClientNode \/ ScanSendNode
             \/ LinkSendNode \/ AwakeSend
  <2>1. /\ UNCHANGED <<RunFlag, ClientList, clientFree, client, owner>>
        /\ gpc \notin {"free", "unlinkSend"} /\ gpc' # "unlinkSend"
    BY <1>7 DEF GameOuter, GameWait, GameReset, GameEmpty, FreeClientNode, ScanSendNode,
       LinkSendNode, AwakeSend, UnlinkHead, flagVars, clientListVars, netVars
  <2>2. Todo' = Todo
    BY <1>7 DEF GameOuter, GameWait, GameReset, GameEmpty, FreeClientNode, ScanSendNode,
       LinkSendNode, AwakeSend, UnlinkHead, queueVars, Todo
  <2>3. StagesOK'
    <3>1. CASE FreeClientNode
      <4>1. /\ gpc' = "scanSend" /\ gclient' = clientNode /\ clientNode # NoNode
            /\ node' = node /\ node.ActionType = "RELEASE"
        BY <3>1 DEF FreeClientNode, queueVars, node
      <4> QED
        BY <1>0, <1>2, <1>3, <2>1, <4>1 DEF StagesOK
    <3>2. CASE ScanSendNode
      <4>1. gpc = "scanSend" /\ gpc' \in {"scanSend", "free"} /\ gclient' = gclient /\ node' = node
        BY <3>2 DEF ScanSendNode, queueVars, node
      <4> QED
        BY <1>0, <1>3, <2>1, <4>1 DEF StagesOK
    <3>3. CASE AwakeSend
      <4>1. gpc = "awakeSend" /\ gpc' = "alive" /\ node' = node
        BY <3>3 DEF AwakeSend, queueVars, node
      <4> QED
        BY <1>0, <1>3, <4>1 DEF StagesOK
    <3>4. CASE GameOuter \/ GameWait \/ GameReset \/ GameEmpty \/ LinkSendNode
      <4>1. gpc' \in {"wait", "reset", "get", "outer"}
        BY <3>4 DEF GameOuter, GameWait, GameReset, GameEmpty, LinkSendNode, UnlinkHead
      <4> QED
        BY <1>0, <1>3, <4>1 DEF StagesOK
    <3> QED
      BY <1>7, <3>1, <3>2, <3>3, <3>4
  <2> QED
    BY <2>1, <2>2, <2>3, OtherGameHandles
<1>8. CASE NoClientNode
  <2>1. /\ UNCHANGED <<RunFlag, ClientList, clientFree, client, owner>>
        /\ gpc = "get" /\ gpc' = "get" /\ clientNode = NoNode
        /\ PacketRecvList # <<>> /\ PacketRecvList' = Tail(PacketRecvList)
        /\ node.ActionType # "CREATE"
    BY <1>8 DEF NoClientNode, UnlinkHead, flagVars, clientListVars, netVars
  <2>2. Todo # <<>> /\ Todo' = Tail(Todo) /\ Head(Todo) = node
    BY <2>1 DEF Todo, node
  <2>3. StagesOK'
    BY <1>0, <1>3, <2>1 DEF StagesOK
  <2> QED
    BY <1>2, <2>1, <2>2, <2>3, OtherGameHandles
<1>9. CASE PacketInOrder
  <2>1. /\ UNCHANGED <<RunFlag, ClientList, clientFree, owner, PacketRecvList>>
        /\ gpc = "get" /\ gpc' \in {"alive", "awakeSend"} /\ clientNode # NoNode
        /\ PacketRecvList # <<>> /\ node.ActionType = "PACKET"
    BY <1>9 DEF PacketInOrder, IsPacket, flagVars, netVars
  <2>2. Todo' = Todo /\ node' = node
    BY <2>1 DEF Todo, node
  <2>3. StagesOK'
    BY <1>0, <1>3, <2>1, <2>2 DEF StagesOK
  <2>4. ASSUME NEW n \in Node
        PROVE  /\ client'[n].Socket = client[n].Socket
               /\ client'[n].AliveTimeoutFlag = client[n].AliveTimeoutFlag
    <3>1. client[n] \in SocketClient /\ client[clientNode] \in SocketClient /\ clientNode \in Node
      BY <1>1, <1>2, <2>1
    <3>2. client' = [client EXCEPT ![clientNode].C2S = Inc(@), ![clientNode].timer = "off"]
      BY <1>9 DEF PacketInOrder
    <3> QED
      BY <1>1, <3>1, <3>2 DEF SocketClient
  <2> QED
    BY <1>1, <2>1, <2>2, <2>3, <2>4, OtherGameHandles
<1>10. CASE PacketOutOfOrder
  <2>1. /\ UNCHANGED <<RunFlag, ClientList, clientFree>>
        /\ gpc = "get" /\ gpc' = "get" /\ clientNode # NoNode
        /\ PacketRecvList # <<>> /\ PacketRecvList' = Tail(PacketRecvList)
        /\ node.ActionType = "PACKET"
        /\ CloseHandles({client[clientNode].Socket})
        /\ client' = [client EXCEPT ![clientNode].C2S = Inc(@),
                                    ![clientNode].Socket = INVALID_SOCKET]
    BY <1>10 DEF PacketOutOfOrder, IsPacket, UnlinkHead, flagVars
  <2>2. Todo # <<>> /\ Todo' = Tail(Todo) /\ Head(Todo) = node
    BY <2>1 DEF Todo, node
  <2>3. StagesOK'
    BY <1>0, <1>3, <2>1 DEF StagesOK
  <2>4. owner' = [s \in Sock |-> IF s \in {client[clientNode].Socket} THEN NoConn ELSE owner[s]]
    BY <2>1 DEF CloseHandles
  <2>5. clientNode \in Node /\ client[clientNode] \in SocketClient
    BY <1>1, <1>2, <2>1
  <2>6. /\ \A n \in Node : n # clientNode => client'[n] = client[n]
        /\ client'[clientNode].Socket = INVALID_SOCKET
    BY <1>1, <2>1, <2>5 DEF SocketClient
  <2>7. \A n \in Range(ClientList) :
           \/ client'[n] = client[n]
           \/ client[n].Socket \in Sock => owner'[client[n].Socket] = NoConn
    BY <1>1, <2>4, <2>6
  <2>8. \A n \in Range(ClientList) : client'[n].Socket \in {client[n].Socket, INVALID_SOCKET}
    BY <1>1, <2>6
  <2>9. \A s \in Sock : owner'[s] # NoConn => owner[s] # NoConn
    BY <2>4
  <2>10. Head(Todo).ActionType = "PACKET"
    BY <2>1, <2>2, SMTT(40)
  <2> QED
    BY <2>1, <2>2, <2>3, <2>7, <2>8, <2>9, <2>10, OtherGameHandles
<1>11. CASE CheckClientAlive
  <2>1. /\ UNCHANGED <<RunFlag, ClientList, clientFree, owner>>
        /\ gpc = "alive" /\ gpc' = "get"
        /\ PacketRecvList' = Tail(PacketRecvList)
        /\ client' = [n \in Node |-> IF n \in Range(ClientList)
                                      THEN [client[n] EXCEPT !.timer = "on"] ELSE client[n]]
    BY <1>11 DEF CheckClientAlive, UnlinkHead, flagVars, netVars
  <2>2. PacketRecvList # <<>> /\ node.ActionType = "PACKET"
    BY <1>3, <2>1 DEF InHand, StagesOK
  <2>3. Todo # <<>> /\ Todo' = Tail(Todo) /\ Head(Todo) = node
    BY <2>1, <2>2 DEF Todo, node
  <2>4. StagesOK'
    BY <1>0, <1>3, <2>1 DEF StagesOK
  <2>5. ASSUME NEW n \in Range(ClientList)
        PROVE  /\ client'[n].Socket = client[n].Socket
               /\ client'[n].AliveTimeoutFlag = client[n].AliveTimeoutFlag
    BY <1>1, <2>1 DEF SocketClient
  <2> QED
    BY <2>1, <2>2, <2>3, <2>4, <2>5, OtherGameHandles
<1>13. CASE CloseTimedOut
  <2>1. /\ UNCHANGED <<RunFlag, ClientList, clientFree, PacketRecvList, gpc, gclient, gscan, gdel>>
        /\ gpc = "alive"
    BY <1>13 DEF CloseTimedOut, flagVars, queueVars
  <2>2. PICK n \in Node :
           /\ client' = [client EXCEPT ![n].timer = "on", ![n].AliveTimeoutFlag = TRUE]
           /\ CloseHandles({client[n].Socket})
    BY <1>13, CloseTimedOutDoes
  <2>3. Todo' = Todo /\ StagesOK'
    BY <1>0, <1>3, <2>1 DEF Todo, StagesOK, node
  <2>4. owner' = [s \in Sock |-> IF s \in {client[n].Socket} THEN NoConn ELSE owner[s]]
    BY <2>2 DEF CloseHandles
  <2>5. /\ \A m \in Node : m # n => client'[m] = client[m]
        /\ client'[n].Socket = client[n].Socket
    BY <1>1, <2>2 DEF SocketClient
  <2>6. \A s \in Sock : owner'[s] # NoConn => owner[s] # NoConn
    BY <2>4
  <2>7. \A m \in Range(ClientList) :
           /\ client'[m].Socket = client[m].Socket
           /\ \/ client'[m].AliveTimeoutFlag = client[m].AliveTimeoutFlag
              \/ client[m].Socket \in Sock => owner'[client[m].Socket] = NoConn
    BY <1>1, <2>4, <2>5
  <2> QED
    BY <2>1, <2>3, <2>6, <2>7, OtherGameHandles
<1>12. ~(ServerExit \/ ExitCloseListen \/ ExitAwakeAccept \/ ExitAwake)
  BY DEF ServerExit, ExitCloseListen, ExitAwakeAccept, ExitAwake, InHand
<1> QED
  BY <1>4, <1>5, <1>6, <1>7, <1>8, <1>9, <1>10, <1>11, <1>12, <1>13 DEF GameStep

\* The send thread counts up order numbers of client nodes, and no more.
LEMMA SendStepCounts ==
    ASSUME TypeOK, SendStep
    PROVE  \/ UNCHANGED client
           \/ \E n \in Node : \E w : client' = [client EXCEPT ![n].S2C = w]
<1>1. CASE SendOne
  <2> DEFINE e == SocketSendCache[sidx]
  <2>1. /\ e.pS2C # NoNode
        /\ \/ UNCHANGED client
           \/ client' = [client EXCEPT ![e.pS2C].S2C = Inc(client[e.pS2C].S2C)]
    BY <1>1 DEF SendOne
  <2>2. sidx \in 1 .. Len(SocketSendCache)
    BY <1>1 DEF SendOne, TypeOK, ServerTypeOK
  <2>3. e.pS2C \in Node
    <3>1. SocketSendCache[sidx] \in SocketSendInfo
      BY <2>2 DEF TypeOK, ServerTypeOK
    <3> QED
      BY <2>1, <3>1 DEF SocketSendInfo
  <2> DEFINE w == Inc(client[e.pS2C].S2C)
             n == e.pS2C
  <2>4. UNCHANGED client \/ client' = [client EXCEPT ![n].S2C = w]
    BY <2>1
  <2> HIDE DEF n, w
  <2>5. n \in Node
    BY <2>3 DEF n
  <2> QED
    BY <2>4, <2>5
<1>2. CASE ~SendOne
  BY <1>2 DEF SendStep, SendOuter, SendWait, SendReset, SendGet, SendCopy, SendDone
<1> QED
  BY <1>1, <1>2

LEMMA SendStepHandles ==
    ASSUME TypeOK, InHand, HandlesOK, SendStep
    PROVE  HandlesOK'
<1>1. UNCHANGED <<RunFlag, AcceptList, SocketRecvList, PacketRecvList, mpc, mdel, apc, asock,
                  gpc, gclient, owner, ClientList, clientFree>>
  BY DEF SendStep, SendOuter, SendWait, SendReset, SendGet, SendCopy, SendOne, SendDone,
     sendFrame, flagVars, recvListVars, mainVars, acceptVars, gameVars
<1>2. SameClients
  <2>1. client \in [Node -> SocketClient]
    BY DEF TypeOK, ServerTypeOK
  <2> QED
    BY <1>1, <2>1, SendStepCounts DEF SameClients, SocketClient
<1> QED
  BY <1>1, <1>2, ElsewhereHandles

LEMMA NextHandles ==
    ASSUME TypeOK, InHand, TypeOK', HandlesOK, [Next]_vars
    PROVE  HandlesOK'
<1>1. CASE Clients \/ UNCHANGED vars
  <2>1. UNCHANGED <<serverVars, owner>>
    BY <1>1 DEF Clients, vars, netVars, ClientStep, ClientConnect, ClientSend, ClientClose
  <2>2. UNCHANGED <<RunFlag, AcceptList, SocketRecvList, PacketRecvList, mpc, mdel, apc, asock,
                    gpc, gclient, owner, ClientList, clientFree, client>>
    BY <2>1 DEF serverVars, flagVars, recvListVars, queueVars, mainVars, acceptVars, gameVars,
       clientListVars
  <2> QED
    BY <2>2, ElsewhereHandles DEF SameClients
<1>2. CASE MinutePasses
  <2>1. UNCHANGED <<RunFlag, AcceptList, SocketRecvList, PacketRecvList, mpc, mdel, apc, asock,
                    gpc, gclient, owner, ClientList, clientFree>>
    BY <1>2 DEF MinutePasses, netVars, flagVars, recvListVars, queueVars, mainVars, acceptVars,
       gameVars
  <2>2. SameClients
    <3>1. client \in [Node -> SocketClient]
      BY DEF TypeOK, ServerTypeOK
    <3>2. client' = [n \in Node |-> IF client[n].timer = "on"
                        THEN [client[n] EXCEPT !.timer = "expired"] ELSE client[n]]
      BY <1>2 DEF MinutePasses
    <3> QED
      BY <2>1, <3>1, <3>2 DEF SameClients, SocketClient
  <2> QED
    BY <2>1, <2>2, ElsewhereHandles
<1> QED
  BY <1>1, <1>2, MainStepHandles, AcceptStepHandles, GameStepHandles, SendStepHandles DEF Next

LEMMA InitHandles == Init => HandlesOK
<1> SUFFICES ASSUME Init PROVE HandlesOK
  OBVIOUS
<1>1. StagesOK
  BY DEF Init, ServerInit, StagesOK
<1>2. ClientPoolOK
  BY NodeMaxAssumption DEF Init, ServerInit, ClientPoolOK, IsInjective, Range
<1>3. \A s \in Sock : owner[s] = NoConn
  BY DEF Init, NetInit
<1>4. ASSUME NEW s \in Sock PROVE Balanced(s)
  <2> DEFINE D == [k \in 1 .. 1 |-> 0]
  <2>1. Holders(s) = {} /\ Places(SocketRecvList, s) = {}
    <3>1. ClientList = <<>> /\ SocketRecvList = <<>>
      BY DEF Init, ServerInit
    <3>2. DOMAIN ClientList = {} /\ DOMAIN SocketRecvList = {}
      BY <3>1
    <3> QED
      BY <3>2 DEF Holders, Places, Range
  <2>2. Cardinality({}) = 0
    BY FS_EmptySet
  <2>3. s # INVALID_SOCKET
    BY ConnAssumption
  <2>4. Drops(s) = 0
    <3>1. mdel # s
      BY <2>3 DEF Init, ServerInit
    <3> QED
      BY <2>1, <2>2, <3>1 DEF Drops
  <2>5. Todo = <<>>
    BY DEF Todo, Init, ServerInit
  <2>6. D \in [1 .. 1 -> Nat] /\ D[1] = 0
    OBVIOUS
  <2> HIDE DEF D
  <2>7. Tally(Todo, s, Drops(s), D)
    <3>1. Len(Todo) = 0 /\ 0 + 1 = 1 /\ 1 .. 0 = {}
      BY <2>5
    <3> QED
      BY <2>4, <2>6, <3>1 DEF Tally
  <2> QED
    BY <2>1, <2>2, <2>6, <2>7 DEF Balanced
<1> QED
  BY <1>1, <1>2, <1>3, <1>4 DEF HandlesOK

\* A number that still has a client node or a CREATE notice is polled, or the
\* main thread has dropped it and its RELEASE notice is due.
LEMMA StillDue ==
    ASSUME TypeOK, InHand, NEW s \in Sock, Balanced(s), StagesOK,
           \/ \E k \in DOMAIN Todo : Says(Todo[k], "CREATE", s)
           \/ Holders(s) # {}
    PROVE  s \in Range(SocketRecvList) \/ ReleaseDue(s)
<1>1. Todo \in Seq(RecvPacketInfo) /\ Len(Todo) \in Nat /\ DOMAIN Todo = 1 .. Len(Todo)
  BY TodoType, LenProperties
<1>2. PICK D : Tally(Todo, s, Drops(s), D) /\ Cardinality(Holders(s)) <= D[1]
  BY DEF Balanced
<1>3. /\ D \in [1 .. Len(Todo) + 1 -> Nat]
      /\ \A k \in 1 .. Len(Todo) : Counts(Todo[k], s, D[k], D[k + 1])
  BY <1>2 DEF Tally
<1>4. \E k \in 1 .. Len(Todo) + 1 : D[k] # 0
  <2>1. CASE \E k \in DOMAIN Todo : Says(Todo[k], "CREATE", s)
    <3>1. PICK k \in 1 .. Len(Todo) : Says(Todo[k], "CREATE", s)
      BY <1>1, <2>1
    <3>2. D[k] + 1 = D[k + 1]
      BY <1>3, <3>1 DEF Counts
    <3>3. k \in 1 .. Len(Todo) + 1 /\ k + 1 \in 1 .. Len(Todo) + 1
      BY <1>1
    <3>4. D[k] \in Nat
      BY <1>3, <3>3
    <3> QED
      BY <3>2, <3>3, <3>4
  <2>2. CASE Holders(s) # {}
    <3>1. Cardinality(Holders(s)) # 0 /\ Cardinality(Holders(s)) \in Nat
      BY <2>2, HoldersFinite, FS_EmptySet
    <3>2. 1 \in 1 .. Len(Todo) + 1
      BY <1>1
    <3>3. D[1] \in Nat
      BY <1>3, <3>2
    <3> QED
      BY <1>2, <3>1, <3>2, <3>3
  <2> QED
    BY <2>1, <2>2
<1>5. Drops(s) # 0 \/ \E i \in 1 .. Len(Todo) : Says(Todo[i], "RELEASE", s)
  <2>1. PICK k \in 1 .. Len(Todo) + 1 : D[k] # 0
    BY <1>4
  <2> QED
    BY <1>1, <1>2, <2>1, TallyDecreases
<1>6. CASE Drops(s) # 0
  <2>1. CASE mdel = s
    <3>1. mdel # INVALID_SOCKET
      BY <2>1, ConnAssumption
    <3> QED
      BY <2>1, <3>1 DEF StagesOK, ReleaseDue
  <2>2. CASE mdel # s
    <3>1. Cardinality(Places(SocketRecvList, s)) # 0
      BY <1>6, <2>2, PlacesFinite DEF Drops, TypeOK, ServerTypeOK
    <3>2. Places(SocketRecvList, s) # {}
      BY <3>1, FS_EmptySet
    <3> QED
      BY <3>2 DEF Places, Range
  <2> QED
    BY <2>1, <2>2
<1>7. CASE \E i \in 1 .. Len(Todo) : Says(Todo[i], "RELEASE", s)
  <2>1. PICK i \in 1 .. Len(Todo) : Says(Todo[i], "RELEASE", s)
    BY <1>7
  <2>2. \E j \in DOMAIN PacketRecvList : PacketRecvList[j] = Todo[i]
    <3>1. CASE gpc \in {"linkSend", "unlinkSend"}
      <4>1. PacketRecvList # <<>> /\ PacketRecvList \in Seq(RecvPacketInfo)
        BY <3>1 DEF InHand, TypeOK, ServerTypeOK
      <4>2. /\ Len(PacketRecvList) = Len(Todo) + 1 /\ Todo[i] = PacketRecvList[i + 1]
            /\ DOMAIN PacketRecvList = 1 .. Len(PacketRecvList)
        BY <1>1, <3>1, <4>1, HeadTailProperties, LenProperties DEF Todo
      <4> QED
        BY <1>1, <4>2
    <3>2. CASE gpc \notin {"linkSend", "unlinkSend"}
      BY <1>1, <3>2 DEF Todo
    <3> QED
      BY <3>1, <3>2
  <2> QED
    BY <2>1, <2>2 DEF Says, ReleaseDue
<1> QED
  BY <1>5, <1>6, <1>7

\* No handle leaks, for any number of connections and handles and whatever the
\* clients do: until the server exits, an open handle is with the accept thread
\* or in AcceptList, polled by the main thread, or dropped with its RELEASE
\* notice still due - also when clients time out, break the numbering, or
\* get a number that another client had before.
THEOREM HandlesKept == Spec => []NoHandleLeak
<1>1. TypeOK /\ InHand /\ HandlesOK => NoHandleLeak
  <2> SUFFICES ASSUME TypeOK, InHand, HandlesOK, RunFlag, NEW s \in Sock, owner[s] # NoConn
               PROVE  \/ asock = s
                      \/ s \in Range(AcceptList) \union Range(SocketRecvList)
                      \/ ReleaseDue(s)
    BY DEF NoHandleLeak
  <2>1. StagesOK /\ InHands(s) /\ Balanced(s)
    BY DEF HandlesOK
  <2>2. CASE s \in Range(Accepted)
    <3>1. Range(Accepted) \subseteq Range(AcceptList)
      <4>1. CASE mpc = "drainAwake"
        <5>1. AcceptList # <<>> /\ AcceptList \in Seq(Sock)
          BY <4>1 DEF InHand, TypeOK, ServerTypeOK
        <5> QED
          BY <4>1, <5>1, RangeTail DEF Accepted
      <4>2. CASE mpc # "drainAwake"
        BY <4>2 DEF Accepted
      <4> QED
        BY <4>1, <4>2
    <3> QED
      BY <2>2, <3>1
  <2>3. CASE \E n \in Range(ClientList) : client[n].Socket = s /\ ~client[n].AliveTimeoutFlag
    <3>1. PICK n \in Range(ClientList) : client[n].Socket = s /\ ~client[n].AliveTimeoutFlag
      BY <2>3
    <3>2. s # INVALID_SOCKET
      BY ConnAssumption
    <3>3. n \in Holders(s)
      BY <2>1, <3>1, <3>2 DEF Holders, StagesOK
    <3> QED
      BY <2>1, <3>3, StillDue
  <2> QED
    BY <2>1, <2>2, <2>3, StillDue DEF InHands
<1>2. Init => HandlesOK
  BY InitHandles
<1>3. TypeOK /\ InHand /\ TypeOK' /\ HandlesOK /\ [Next]_vars => HandlesOK'
  BY NextHandles
<1> QED
  BY <1>1, <1>2, <1>3, InHandCorrect, PTL DEF Spec
=============================================================================

----------------------------- MODULE ServerState -----------------------------
(* The state of TCPServer that its four threads share, the state private to  *)
(* each thread, and the pieces of code more than one thread runs: the events *)
(* threads sleep on (WaitEvent), the node pools behind the lists, and the    *)
(* notices posted to the gameplay thread.                                    *)
(*                                                                           *)
(* A list is the sequence of its linked nodes.  AcceptList, SocketRecvList   *)
(* and the two packet queues hold their nodes' data; SocketSendList and      *)
(* ClientList hold the nodes themselves, because other threads keep pointers *)
(* to those nodes across the owner's changes.                                *)
EXTENDS Winsock

CONSTANTS
    NodeMax,         \* nodes of the ClientList and SocketSendList pools
    ConnectionMax,   \* CONNECTION_MAX, the FD_SETSIZE that FD_SET compares with
    FdArrayMax       \* places of fd_array: 64, since mtpch.h includes WinSock2.h
                     \* before TCPServer.h defines FD_SETSIZE

ASSUME NodeMaxAssumption == NodeMax \in Nat /\ Cardinality(Conn) <= NodeMax
ASSUME ConnectionMaxAssumption == ConnectionMax \in Nat /\ ConnectionMax > 0
ASSUME FdArrayMaxAssumption == FdArrayMax \in 1 .. ConnectionMax

VARIABLES
    RunFlag,
    SelectTimeModeFlag,  \* of CAcceptThread: select with a timeout
    AcceptList, SocketRecvList, SocketSendList, SocketSendCache,
    PacketRecvList, PacketSendList, ClientList, PlayerInfoList,
    sendNode,            \* contents of each SOCKET_SEND_NODE
    client,              \* contents of each SOCKET_CLIENT_NODE
    sendFree, clientFree, \* the pools of SocketSendList and ClientList: stacks
    acceptEvent, gameEvent, sendEvent,
    \* the main thread: program counter, "this select is timed", position in
    \* SocketRecvList, handle of the client being dropped
    mpc, timed, cur, mdel,
    \* the accept thread: program counter, handle just accepted
    apc, asock,
    \* the gameplay thread: program counter, client node being created or
    \* freed, send node its search stands on, send node it found
    gpc, gclient, gscan, gdel,
    \* the send thread: program counter, position in SocketSendCache
    spc, sidx

mainVars == <<mpc, timed, cur, mdel>>
acceptVars == <<apc, asock>>
gameVars == <<gpc, gclient, gscan, gdel>>
sendVars == <<spc, sidx>>
flagVars == <<RunFlag, SelectTimeModeFlag>>
recvListVars == <<AcceptList, SocketRecvList>>
sendListVars == <<SocketSendList, sendNode, sendFree, SocketSendCache>>
queueVars == <<PacketRecvList, PacketSendList>>
clientListVars == <<ClientList, PlayerInfoList, client, clientFree>>
eventVars == <<acceptEvent, gameEvent, sendEvent>>
serverVars == <<flagVars, recvListVars, sendListVars, queueVars, clientListVars,
                eventVars, mainVars, acceptVars, gameVars, sendVars>>

Node == 1 .. NodeMax
NoNode == 0

\* The contents memset() leaves in a freed node.
FreeSendNode == [Socket |-> INVALID_SOCKET, pS2C |-> NoNode]
FreeClient == [Socket |-> INVALID_SOCKET, S2C |-> 0, C2S |-> 0,
               timer |-> "off", AliveTimeoutFlag |-> FALSE]

NoPacket == [type |-> "NONE", num |-> 0, from |-> NoConn]
RecvPacketInfo ==
    [ActionType : {"CREATE", "RELEASE"}, Socket : Handle, packet : {NoPacket}]
      \union [ActionType : {"PACKET"}, Socket : Handle, packet : C2S_Packet]
SendPacketInfo == [SendType : {"ALL", "NON_SELF"}, Socket : Handle, packet : C2S_Packet]
SocketSendInfo == [Socket : Handle, pS2C : Node \union {NoNode}]
SocketClient == [Socket : Handle, S2C : Word, C2S : Word,
                 timer : {"off", "on", "expired"}, AliveTimeoutFlag : BOOLEAN]

MainPC == {"scan", "drain", "drainAwake", "select", "awakeAccept",
           "awakeRecv", "notice", "awakeFree", "release", "done"}
AcceptPC == {"outer", "wait", "reset", "poll", "accepted", "check", "clear", "done"}
GamePC == {"outer", "wait", "reset", "get", "linkSend", "scanSend", "free",
           "unlinkSend", "awakeSend", "alive", "exit", "exitClose",
           "exitAwakeAccept", "exitAwake", "done"}
SendPC == {"outer", "wait", "reset", "get", "copy", "send", "done"}

ServerTypeOK ==
    /\ RunFlag \in BOOLEAN
    /\ SelectTimeModeFlag \in BOOLEAN
    /\ AcceptList \in Seq(Sock)
    /\ SocketRecvList \in Seq(Sock)
    /\ SocketSendList \in Seq(Node)
    /\ SocketSendCache \in Seq(SocketSendInfo)
    /\ PacketRecvList \in Seq(RecvPacketInfo)
    /\ PacketSendList \in Seq(SendPacketInfo)
    /\ ClientList \in Seq(Node)
    /\ PlayerInfoList \subseteq Node
    /\ sendNode \in [Node -> SocketSendInfo]
    /\ client \in [Node -> SocketClient]
    /\ sendFree \in Seq(Node)
    /\ clientFree \in Seq(Node)
    /\ acceptEvent \in BOOLEAN
    /\ gameEvent \in BOOLEAN
    /\ sendEvent \in BOOLEAN
    /\ mpc \in MainPC
    /\ timed \in BOOLEAN
    /\ cur \in Nat \ {0}
    /\ mdel \in Handle
    /\ apc \in AcceptPC
    /\ asock \in Handle
    /\ gpc \in GamePC
    /\ gclient \in Node \union {NoNode}
    /\ gscan \in Node \union {NoNode}
    /\ gdel \in Node \union {NoNode}
    /\ spc \in SendPC
    /\ sidx \in Nat \ {0}

\* TCPServer::Create has succeeded: every list is empty, the threads start.
ServerInit ==
    /\ RunFlag = TRUE
    /\ SelectTimeModeFlag = FALSE
    /\ AcceptList = <<>>
    /\ SocketRecvList = <<>>
    /\ SocketSendList = <<>>
    /\ SocketSendCache = <<>>
    /\ PacketRecvList = <<>>
    /\ PacketSendList = <<>>
    /\ ClientList = <<>>
    /\ PlayerInfoList = {}
    /\ sendNode = [n \in Node |-> FreeSendNode]
    /\ client = [n \in Node |-> FreeClient]
    /\ sendFree = [i \in 1 .. NodeMax |-> i]
    /\ clientFree = [i \in 1 .. NodeMax |-> i]
    /\ acceptEvent = FALSE
    /\ gameEvent = FALSE
    /\ sendEvent = FALSE
    /\ mpc = "scan"
    /\ timed = FALSE
    /\ cur = 1
    /\ mdel = INVALID_SOCKET
    /\ apc = "outer"
    /\ asock = INVALID_SOCKET
    /\ gpc = "outer"
    /\ gclient = NoNode
    /\ gscan = NoNode
    /\ gdel = NoNode
    /\ spc = "outer"
    /\ sidx = 1

\* Mutant of Unlink: the head goes, whatever node was meant.
UnlinkAnyHead(list, n) == IF n \in Range(list) THEN Tail(list) ELSE list

\* Unlink of a node: refused when the node is not linked.
IndexOf(list, n) == CHOOSE i \in 1 .. Len(list) : list[i] = n
Unlink(list, n) ==
    IF n \in Range(list) THEN RemoveAt(list, IndexOf(list, n)) ELSE list

\* pNext of a send node: a node that was unlinked and freed leads nowhere
\* (memset, and the free nodes behind it hold no handle).
NextSendNode(n) ==
    IF n \in Range(SocketSendList) /\ IndexOf(SocketSendList, n) < Len(SocketSendList)
      THEN SocketSendList[IndexOf(SocketSendList, n) + 1]
      ELSE NoNode

\* Mutant of HeadSendNode: the search starts one node too far.
SecondSendNode == IF Len(SocketSendList) < 2 THEN NoNode ELSE SocketSendList[2]

HeadSendNode == IF SocketSendList = <<>> THEN NoNode ELSE Head(SocketSendList)

\* Mutant of UnlinkFreeSendNode: the node is freed and stays linked.
FreeLinkedSendNode(n) ==
    /\ sendNode' = [m \in Node |-> IF m = n THEN FreeSendNode ELSE sendNode[m]]
    /\ sendFree' = IF n = NoNode THEN sendFree ELSE <<n>> \o sendFree
    /\ UNCHANGED SocketSendList

\* LockUnlinkFreeNode of SocketSendList, on a node or on NULL.  FreeNode does
\* not ask whether Unlink succeeded: a node can be freed a second time, and
\* the pool then hands it out twice.
UnlinkFreeSendNode(n) ==
    /\ SocketSendList' = Unlink(SocketSendList, n)
    /\ sendNode' = [m \in Node |-> IF m = n THEN FreeSendNode ELSE sendNode[m]]
    /\ sendFree' = IF n = NoNode THEN sendFree ELSE <<n>> \o sendFree

\* The first node of a list whose contents have this handle, or NULL.
FirstWith(list, contents, h) ==
    LET matches == {i \in DOMAIN list : contents[list[i]].Socket = h}
    IN  IF matches = {} THEN NoNode ELSE list[Min(matches)]

GetSocketClientNode(h) == FirstWith(ClientList, client, h)
=============================================================================

---------------------------- MODULE GameplayThread ----------------------------
(* The gameplay thread: Gameplay_InThread, what it calls, and GameServer's   *)
(* handlers.  It takes the notices and packets of PacketRecvList one by one; *)
(* the head stays linked while it is handled, and is unlinked and freed by   *)
(* the last step of its handling.                                            *)
EXTENDS ServerState

node == Head(PacketRecvList)
clientNode == GetSocketClientNode(node.Socket)
UnlinkHead == PacketRecvList' = Tail(PacketRecvList) /\ gpc' = "get"

\* Mutant of GameOuter: the event is reset before the wait, not after it.
GameOuterResets ==
    /\ gpc = "outer"
    /\ gpc' = IF RunFlag THEN "wait" ELSE "done"
    /\ gameEvent' = FALSE
    /\ UNCHANGED <<netVars, flagVars, recvListVars, sendListVars, queueVars, clientListVars,
                   acceptEvent, sendEvent, gclient, gscan, gdel, mainVars, acceptVars, sendVars>>

GameOuter ==
    /\ gpc = "outer"
    /\ gpc' = IF RunFlag THEN "wait" ELSE "done"
    /\ UNCHANGED <<netVars, flagVars, recvListVars, sendListVars, queueVars, clientListVars,
                   eventVars, gclient, gscan, gdel, mainVars, acceptVars, sendVars>>

GameWait ==
    /\ gpc = "wait"
    /\ gameEvent
    /\ gpc' = "reset"
    /\ UNCHANGED <<netVars, flagVars, recvListVars, sendListVars, queueVars, clientListVars,
                   eventVars, gclient, gscan, gdel, mainVars, acceptVars, sendVars>>

GameReset ==
    /\ gpc = "reset"
    /\ gameEvent' = FALSE
    /\ gpc' = "get"
    /\ UNCHANGED <<netVars, flagVars, recvListVars, sendListVars, queueVars, clientListVars,
                   acceptEvent, sendEvent, gclient, gscan, gdel, mainVars, acceptVars, sendVars>>

\* LockGetHeadNode finds no node: back to the wait.
GameEmpty ==
    /\ gpc = "get"
    /\ PacketRecvList = <<>>
    /\ gpc' = "outer"
    /\ UNCHANGED <<netVars, flagVars, recvListVars, sendListVars, queueVars, clientListVars,
                   eventVars, gclient, gscan, gdel, mainVars, acceptVars, sendVars>>

\* CreateClientNode: a zeroed client node and its player are linked; the send
\* node, which points at the client node's S2C counter, is linked next.
CreateClientNode ==
    /\ gpc = "get"
    /\ PacketRecvList # <<>> /\ node.ActionType = "CREATE"
    /\ clientFree # <<>>
    /\ ClientList' = Append(ClientList, Head(clientFree))
    /\ clientFree' = Tail(clientFree)
    /\ client' = [client EXCEPT ![Head(clientFree)] = [FreeClient EXCEPT !.Socket = node.Socket]]
    /\ PlayerInfoList' = PlayerInfoList \union {Head(clientFree)}
    /\ gclient' = Head(clientFree)
    /\ gpc' = "linkSend"
    /\ UNCHANGED <<netVars, flagVars, recvListVars, sendListVars, queueVars, eventVars,
                   gscan, gdel, mainVars, acceptVars, sendVars>>

LinkSendNode ==
    /\ gpc = "linkSend"
    /\ sendFree # <<>>
    /\ SocketSendList' = Append(SocketSendList, Head(sendFree))
    /\ sendNode' = [sendNode EXCEPT ![Head(sendFree)] =
                       [Socket |-> node.Socket, pS2C |-> gclient]]
    /\ sendFree' = Tail(sendFree)
    /\ gclient' = NoNode
    /\ UnlinkHead
    /\ UNCHANGED <<netVars, flagVars, recvListVars, SocketSendCache, PacketSendList,
                   clientListVars, eventVars, gscan, gdel, mainVars, acceptVars, sendVars>>

\* FreeClientNode of a client that is in ClientList: look for its send node,
\* taking SocketSendList's lock for the head only.
FreeClientNode ==
    /\ gpc = "get"
    /\ PacketRecvList # <<>> /\ node.ActionType = "RELEASE"
    /\ clientNode # NoNode
    /\ gclient' = clientNode
    /\ gscan' = HeadSendNode
    /\ gpc' = "scanSend"
    /\ UNCHANGED <<netVars, flagVars, recvListVars, sendListVars, queueVars, clientListVars,
                   eventVars, gdel, mainVars, acceptVars, sendVars>>

ScanSendNode ==
    /\ gpc = "scanSend"
    /\ IF gscan = NoNode \/ sendNode[gscan].Socket = node.Socket
         THEN gdel' = gscan /\ gscan' = NoNode /\ gpc' = "free"
         ELSE gscan' = NextSendNode(gscan) /\ UNCHANGED <<gdel, gpc>>
    /\ UNCHANGED <<netVars, flagVars, recvListVars, sendListVars, queueVars, clientListVars,
                   eventVars, gclient, mainVars, acceptVars, sendVars>>

\* Mutants of FreePlayerAndClose: the handle stays open; the player stays.
FreePlayerOnly ==
    /\ gpc = "free"
    /\ PlayerInfoList' = PlayerInfoList \ {gclient}
    /\ gpc' = "unlinkSend"
    /\ UNCHANGED <<netVars, client, flagVars, recvListVars, sendListVars, queueVars, ClientList,
                   clientFree, eventVars, gclient, gscan, gdel, mainVars, acceptVars, sendVars>>
CloseOnly ==
    /\ gpc = "free"
    /\ IF client[gclient].AliveTimeoutFlag
         THEN UNCHANGED <<netVars, client>>
         ELSE /\ CloseHandles({client[gclient].Socket})
              /\ client' = [client EXCEPT ![gclient].Socket = INVALID_SOCKET]
    /\ gpc' = "unlinkSend"
    /\ UNCHANGED <<flagVars, recvListVars, sendListVars, queueVars, ClientList, PlayerInfoList,
                   clientFree, eventVars, gclient, gscan, gdel, mainVars, acceptVars, sendVars>>

\* vUserFreeClientNode, and CloseSocket unless the timeout already closed it.
FreePlayerAndClose ==
    /\ gpc = "free"
    /\ PlayerInfoList' = PlayerInfoList \ {gclient}
    /\ IF client[gclient].AliveTimeoutFlag
         THEN UNCHANGED <<netVars, client>>
         ELSE /\ CloseHandles({client[gclient].Socket})
              /\ client' = [client EXCEPT ![gclient].Socket = INVALID_SOCKET]
    /\ gpc' = "unlinkSend"
    /\ UNCHANGED <<flagVars, recvListVars, sendListVars, queueVars, ClientList, clientFree,
                   eventVars, gclient, gscan, gdel, mainVars, acceptVars, sendVars>>

\* The send node that was found is unlinked and freed, then the client node.
UnlinkClient ==
    /\ gpc = "unlinkSend"
    /\ UnlinkFreeSendNode(gdel)
    /\ gdel' = NoNode
    /\ ClientList' = Unlink(ClientList, gclient)
    /\ client' = [client EXCEPT ![gclient] = FreeClient]
    /\ clientFree' = <<gclient>> \o clientFree
    /\ gclient' = NoNode
    /\ UnlinkHead
    /\ UNCHANGED <<netVars, flagVars, recvListVars, SocketSendCache, PacketSendList,
                   PlayerInfoList, eventVars, gscan, mainVars, acceptVars, sendVars>>

\* D_CHECK in FreeClientNode, D_CHECK_BREAK for a packet: no client node has
\* this handle, so the notice or the packet is dropped.
NoClientNode ==
    /\ gpc = "get"
    /\ PacketRecvList # <<>> /\ clientNode = NoNode
    /\ \/ node.ActionType = "RELEASE"
       \/ node.ActionType = "PACKET" /\ node.packet.type # "EXIT"
    /\ UnlinkHead
    /\ UNCHANGED <<netVars, flagVars, recvListVars, sendListVars, PacketSendList,
                   clientListVars, eventVars, gclient, gscan, gdel, mainVars, acceptVars, sendVars>>

-----------------------------------------------------------------------------
(* Packets of a known client.                                                *)

IsPacket == /\ gpc = "get"
            /\ PacketRecvList # <<>>
            /\ node.ActionType = "PACKET"
            /\ node.packet.type # "EXIT"
            /\ clientNode # NoNode
\* Mutant of InOrder: the counter is compared before it goes up.
InOrderPostIncrement == node.packet.num = client[clientNode].C2S

InOrder == node.packet.num = Inc(client[clientNode].C2S)

\* The packet carries the next order number: its timer is cleared; the two
\* chat messages are queued for the send thread, the others end here.
PacketInOrder ==
    /\ IsPacket /\ InOrder
    /\ client' = [client EXCEPT ![clientNode].C2S = Inc(@), ![clientNode].timer = "off"]
    /\ IF node.packet.type = "ALIVE"
         THEN gpc' = "alive" /\ UNCHANGED PacketSendList
         ELSE /\ gpc' = "awakeSend"
              /\ PacketSendList' = Append(PacketSendList,
                    [SendType |-> IF node.packet.type = "MESSAGE" THEN "ALL" ELSE "NON_SELF",
                     Socket |-> node.Socket, packet |-> node.packet])
    /\ UNCHANGED <<netVars, flagVars, recvListVars, sendListVars, PacketRecvList, ClientList,
                   PlayerInfoList, clientFree, eventVars, gclient, gscan, gdel,
                   mainVars, acceptVars, sendVars>>

\* Any other number: the connection is cut off, and the client node forgets
\* its handle.
PacketOutOfOrder ==
    /\ IsPacket /\ ~InOrder
    /\ CloseHandles({client[clientNode].Socket})
    /\ client' = [client EXCEPT ![clientNode].C2S = Inc(@),
                                ![clientNode].Socket = INVALID_SOCKET]
    /\ UnlinkHead
    /\ UNCHANGED <<flagVars, recvListVars, sendListVars, PacketSendList, ClientList,
                   PlayerInfoList, clientFree, eventVars, gclient, gscan, gdel,
                   mainVars, acceptVars, sendVars>>

\* Mutant of AwakeSend: SendThread.Awake() is forgotten.
AwakeSendForgotten ==
    /\ gpc = "awakeSend"
    /\ gpc' = "alive"
    /\ UNCHANGED <<netVars, flagVars, recvListVars, sendListVars, queueVars, clientListVars,
                   eventVars, gclient, gscan, gdel, mainVars, acceptVars, sendVars>>

AwakeSend ==
    /\ gpc = "awakeSend"
    /\ sendEvent' = TRUE
    /\ gpc' = "alive"
    /\ UNCHANGED <<netVars, flagVars, recvListVars, sendListVars, queueVars, clientListVars,
                   acceptEvent, gameEvent, gclient, gscan, gdel, mainVars, acceptVars, sendVars>>

\* CheckClientAlive goes through ClientList.  A client whose timer has run for
\* 60 s is closed, in a step of its own for each; the node keeps the handle,
\* and its timer starts again.
TimedOut == {i \in DOMAIN ClientList : client[ClientList[i]].timer = "expired"}
CloseTimedOut ==
    /\ gpc = "alive"
    /\ \E i \in TimedOut :
          LET n == ClientList[i]
          IN  /\ \A j \in TimedOut : i <= j
              /\ client' = [client EXCEPT ![n].timer = "on", ![n].AliveTimeoutFlag = TRUE]
              /\ CloseHandles({client[n].Socket})
    /\ UNCHANGED <<flagVars, recvListVars, sendListVars, queueVars, ClientList,
                   PlayerInfoList, clientFree, eventVars, gpc, gclient, gscan, gdel,
                   mainVars, acceptVars, sendVars>>

\* The end of the walk, when no client is left to close: by now every timer
\* that was off has started.
CheckClientAlive ==
    /\ gpc = "alive"
    /\ TimedOut = {}
    /\ client' = [n \in Node |-> IF n \in Range(ClientList)
                                  THEN [client[n] EXCEPT !.timer = "on"] ELSE client[n]]
    /\ UnlinkHead
    /\ UNCHANGED <<netVars, flagVars, recvListVars, sendListVars, PacketSendList, ClientList,
                   PlayerInfoList, clientFree, eventVars, gclient, gscan, gdel,
                   mainVars, acceptVars, sendVars>>

\* A minute goes by without a packet while the server has nothing to do: every
\* timer that runs has run for 60 s.  (The server's own steps take far less.)
MinutePasses ==
    /\ "silence" \in ClientMay
    /\ gpc = "wait" /\ ~gameEvent /\ PacketRecvList = <<>>
    /\ mpc = "select" /\ completed = {} /\ backlog = <<>> /\ AcceptList = <<>>
    /\ \E n \in Node : client[n].timer = "on"
    /\ client' = [n \in Node |-> IF client[n].timer = "on"
                                  THEN [client[n] EXCEPT !.timer = "expired"] ELSE client[n]]
    /\ UNCHANGED <<netVars, flagVars, recvListVars, sendListVars, queueVars, ClientList,
                   PlayerInfoList, clientFree, eventVars, mainVars, acceptVars, gameVars,
                   sendVars>>

-----------------------------------------------------------------------------
(* ServerExit, on a client's "server_exit" message, whoever sent it.         *)

ServerExit ==
    /\ gpc = "get"
    /\ PacketRecvList # <<>>
    /\ node.ActionType = "PACKET" /\ node.packet.type = "EXIT"
    /\ PacketRecvList' = Tail(PacketRecvList)
    /\ RunFlag' = FALSE
    /\ gpc' = "exitClose"
    /\ UNCHANGED <<netVars, SelectTimeModeFlag, recvListVars, sendListVars, PacketSendList,
                   clientListVars, eventVars, gclient, gscan, gdel, mainVars, acceptVars, sendVars>>

ExitCloseListen ==
    /\ gpc = "exitClose"
    /\ CloseListenSocket
    /\ gpc' = "exitAwakeAccept"
    /\ UNCHANGED <<flagVars, recvListVars, sendListVars, queueVars, clientListVars, eventVars,
                   gclient, gscan, gdel, mainVars, acceptVars, sendVars>>

ExitAwakeAccept ==
    /\ gpc = "exitAwakeAccept"
    /\ acceptEvent' = TRUE
    /\ gpc' = "exitAwake"
    /\ UNCHANGED <<netVars, flagVars, recvListVars, sendListVars, queueVars, clientListVars,
                   gameEvent, sendEvent, gclient, gscan, gdel, mainVars, acceptVars, sendVars>>

\* Mutant of ExitAwake: the send thread is not woken.
ExitAwakeNoSend ==
    /\ gpc = "exitAwake"
    /\ gameEvent' = TRUE
    /\ gpc' = "outer"
    /\ UNCHANGED <<netVars, flagVars, recvListVars, sendListVars, queueVars, clientListVars,
                   acceptEvent, sendEvent, gclient, gscan, gdel, mainVars, acceptVars, sendVars>>

ExitAwake ==
    /\ gpc = "exitAwake"
    /\ gameEvent' = TRUE
    /\ sendEvent' = TRUE
    /\ gpc' = "outer"
    /\ UNCHANGED <<netVars, flagVars, recvListVars, sendListVars, queueVars, clientListVars,
                   acceptEvent, gclient, gscan, gdel, mainVars, acceptVars, sendVars>>

GameStep ==
    \/ GameOuter \/ GameWait \/ GameReset \/ GameEmpty
    \/ CreateClientNode \/ LinkSendNode
    \/ FreeClientNode \/ ScanSendNode \/ FreePlayerAndClose \/ UnlinkClient
    \/ NoClientNode
    \/ PacketInOrder \/ PacketOutOfOrder \/ AwakeSend
    \/ CloseTimedOut \/ CheckClientAlive
    \/ ServerExit \/ ExitCloseListen \/ ExitAwakeAccept \/ ExitAwake
=============================================================================

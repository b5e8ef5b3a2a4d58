------------------------------ MODULE SendThread ------------------------------
(* The send thread: Send_InThread and SendEx.  It takes the packets of       *)
(* PacketSendList one by one and sends each to the clients of its own copy   *)
(* of SocketSendList, the SocketSendCache, which it renews only when the     *)
(* number of clients has changed.                                            *)
EXTENDS ServerState

sendFrame == <<backlog, peer, inbox, sent, C2S_Number, owner, ListenSocket, selectVars,
               flagVars, recvListVars, SocketSendList, sendNode, sendFree, PacketRecvList,
               ClientList, PlayerInfoList, clientFree, acceptEvent, gameEvent,
               mainVars, acceptVars, gameVars>>

SendOuter ==
    /\ spc = "outer"
    /\ spc' = IF RunFlag THEN "wait" ELSE "done"
    /\ UNCHANGED <<sendFrame, seen, client, SocketSendCache, PacketSendList, sendEvent, sidx>>

SendWait ==
    /\ spc = "wait"
    /\ sendEvent
    /\ spc' = "reset"
    /\ UNCHANGED <<sendFrame, seen, client, SocketSendCache, PacketSendList, sendEvent, sidx>>

SendReset ==
    /\ spc = "reset"
    /\ sendEvent' = FALSE
    /\ spc' = "get"
    /\ UNCHANGED <<sendFrame, seen, client, SocketSendCache, PacketSendList, sidx>>

\* The head packet, and whether the cache is as long as the list.
SendGet ==
    /\ spc = "get"
    /\ spc' = IF PacketSendList = <<>> THEN "outer"
              ELSE IF Len(SocketSendCache) # Len(SocketSendList) THEN "copy" ELSE "send"
    /\ UNCHANGED <<sendFrame, seen, client, SocketSendCache, PacketSendList, sendEvent, sidx>>

SendCopy ==
    /\ spc = "copy"
    /\ SocketSendCache' = [i \in 1 .. Len(SocketSendList) |-> sendNode[SocketSendList[i]]]
    /\ spc' = "send"
    /\ UNCHANGED <<sendFrame, seen, client, PacketSendList, sendEvent, sidx>>

\* Mutants of SendOne: the sender of a NON_SELF message is not passed over;
\* it is, but its order number goes up all the same.
SendOneToAll ==
    /\ spc = "send"
    /\ sidx <= Len(SocketSendCache)
    /\ SocketSendCache[sidx].pS2C # NoNode
    /\ LET e == SocketSendCache[sidx]
           number == Inc(client[e.pS2C].S2C)
       IN  /\ client' = [client EXCEPT ![e.pS2C].S2C = number]
           /\ Deliver(e.Socket, [Head(PacketSendList).packet EXCEPT !.num = number])
    /\ sidx' = sidx + 1
    /\ UNCHANGED <<sendFrame, SocketSendCache, PacketSendList, sendEvent, spc>>
SendOneCountsAll ==
    /\ spc = "send"
    /\ sidx <= Len(SocketSendCache)
    /\ SocketSendCache[sidx].pS2C # NoNode
    /\ LET p == Head(PacketSendList)
           e == SocketSendCache[sidx]
           number == Inc(client[e.pS2C].S2C)
       IN  /\ client' = [client EXCEPT ![e.pS2C].S2C = number]
           /\ IF p.SendType = "NON_SELF" /\ p.Socket = e.Socket
                THEN UNCHANGED seen
                ELSE Deliver(e.Socket, [p.packet EXCEPT !.num = number])
    /\ sidx' = sidx + 1
    /\ UNCHANGED <<sendFrame, SocketSendCache, PacketSendList, sendEvent, spc>>

\* One entry of the cache: its client's order number goes up through the
\* pointer and the packet is sent, unless it is the sender of a NON_SELF one.
\* (A NULL pointer would end the process here: see NoNullCounter.)
SendOne ==
    /\ spc = "send"
    /\ sidx <= Len(SocketSendCache)
    /\ SocketSendCache[sidx].pS2C # NoNode
    /\ LET p == Head(PacketSendList)
           e == SocketSendCache[sidx]
           number == Inc(client[e.pS2C].S2C)
       IN  IF p.SendType = "NON_SELF" /\ p.Socket = e.Socket
             THEN UNCHANGED <<client, seen>>
             ELSE /\ client' = [client EXCEPT ![e.pS2C].S2C = number]
                  /\ Deliver(e.Socket, [p.packet EXCEPT !.num = number])
    /\ sidx' = sidx + 1
    /\ UNCHANGED <<sendFrame, SocketSendCache, PacketSendList, sendEvent, spc>>

SendDone ==
    /\ spc = "send"
    /\ sidx > Len(SocketSendCache)
    /\ PacketSendList' = Tail(PacketSendList)
    /\ sidx' = 1
    /\ spc' = "get"
    /\ UNCHANGED <<sendFrame, seen, client, SocketSendCache, sendEvent>>

SendStep ==
    \/ SendOuter \/ SendWait \/ SendReset
    \/ SendGet \/ SendCopy \/ SendOne \/ SendDone
=============================================================================

----------------------------- MODULE SelectThread -----------------------------
(* The main thread: Select_InMainThread and what it calls, and the shutdown  *)
(* in TCPServer::Release.  One turn of its loop builds the read set, turns   *)
(* accepted connections into clients when the select is timed, selects,      *)
(* wakes the accept thread, and receives one packet from each ready client.  *)
EXTENDS ServerState

\* GameplayThread.Awake() after a notice or a packet was linked.
GameAwake(next) ==
    /\ gameEvent' = TRUE
    /\ mpc' = next
    /\ UNCHANGED <<netVars, flagVars, recvListVars, sendListVars, queueVars, clientListVars,
                   acceptEvent, sendEvent, timed, cur, mdel, acceptVars, gameVars, sendVars>>

\* Mutant of Placed: the clients only.
PlacedClients(n) ==
    {SocketRecvList[i] : i \in {j \in DOMAIN SocketRecvList :
                                   Cardinality(Range(SubSeq(SocketRecvList, 1, j))) < n}}

\* The handles that FD_SET puts in a set with room for n: ListenSocket, then
\* the clients in the order of SocketRecvList.
Placed(n) ==
    LET hasRoom(i) == Cardinality(Range(SubSeq(SocketRecvList, 1, i))) < n
    IN  {ListenSocket} \union {SocketRecvList[i] : i \in {j \in DOMAIN SocketRecvList : hasRoom(j)}}

\* What FD_SET writes: it compares with FD_SETSIZE as it is where it expands.
FdSet == Placed(ConnectionMax)

\* The read set as select finds it.  FD_SET writes the handles that are beyond
\* fd_array over what lies behind fds_read on the stack, which is undefined:
\* any of them may be found there or not.
ReadSet(H) == H \subseteq FdSet /\ Placed(FdArrayMax) \subseteq H

\* Mutants of Pending: one client too far; closed handles are passed over.
PendingTooFar == {i \in cur + 1 .. Len(SocketRecvList) : SocketRecvList[i] \in fds_read}
PendingOpen == {i \in cur .. Len(SocketRecvList) :
                    SocketRecvList[i] \in fds_read /\ owner[SocketRecvList[i]] # NoConn}

\* The clients of SocketRecvList from position cur on that are in the set
\* select returned.
Pending == {i \in cur .. Len(SocketRecvList) : SocketRecvList[i] \in fds_read}
IsNext(i) == i \in Pending /\ \A j \in Pending : i <= j

\* Top of the loop, when no ready client is left: the choice between a timed
\* and a blocking select, and the blocking one.
SelectBlocking ==
    /\ mpc = "scan" /\ Pending = {}
    /\ RunFlag /\ ~SelectTimeModeFlag
    /\ \E H \in SUBSET FdSet : ReadSet(H) /\ SelectCall(H)
    /\ timed' = FALSE
    /\ mpc' = "select"
    /\ UNCHANGED <<flagVars, recvListVars, sendListVars, queueVars, clientListVars, eventVars,
                   cur, mdel, acceptVars, gameVars, sendVars>>

\* In timed mode the set is built first, then AcceptList is emptied: the
\* clients this adds are not in the set.
TimedMode ==
    /\ mpc = "scan" /\ Pending = {}
    /\ RunFlag /\ SelectTimeModeFlag
    /\ \E H \in SUBSET FdSet : ReadSet(H) /\ fds_read' = H
    /\ timed' = TRUE
    /\ mpc' = "drain"
    /\ UNCHANGED <<clientVars, owner, ListenSocket, selecting, completed,
                   flagVars, recvListVars, sendListVars, queueVars, clientListVars, eventVars,
                   cur, mdel, acceptVars, gameVars, sendVars>>

\* RunFlag is down: the loop ends.
LeaveLoop ==
    /\ mpc = "scan" /\ Pending = {}
    /\ ~RunFlag
    /\ mpc' = "release"
    /\ UNCHANGED <<netVars, flagVars, recvListVars, sendListVars, queueVars, clientListVars,
                   eventVars, timed, cur, mdel, acceptVars, gameVars, sendVars>>

\* AcceptListCreateClientNode: each accepted connection joins SocketRecvList
\* and a CREATE notice is linked; after the Awake it leaves AcceptList.
DrainAcceptList ==
    /\ mpc = "drain" /\ AcceptList # <<>>
    /\ SocketRecvList' = Append(SocketRecvList, Head(AcceptList))
    /\ PacketRecvList' = Append(PacketRecvList,
           [ActionType |-> "CREATE", Socket |-> Head(AcceptList), packet |-> NoPacket])
    /\ mpc' = "drainAwake"
    /\ UNCHANGED <<netVars, flagVars, AcceptList, sendListVars, PacketSendList, clientListVars,
                   eventVars, timed, cur, mdel, acceptVars, gameVars, sendVars>>

\* Mutant of DrainAwake: the connection stays in AcceptList.
DrainAwakeKeeps ==
    /\ mpc = "drainAwake"
    /\ gameEvent' = TRUE
    /\ mpc' = "drain"
    /\ UNCHANGED <<netVars, flagVars, recvListVars, sendListVars, queueVars, clientListVars,
                   acceptEvent, sendEvent, timed, cur, mdel, acceptVars, gameVars, sendVars>>

DrainAwake ==
    /\ mpc = "drainAwake"
    /\ gameEvent' = TRUE
    /\ AcceptList' = Tail(AcceptList)
    /\ mpc' = "drain"
    /\ UNCHANGED <<netVars, flagVars, SocketRecvList, sendListVars, queueVars, clientListVars,
                   acceptEvent, sendEvent, timed, cur, mdel, acceptVars, gameVars, sendVars>>

SelectTimed ==
    /\ mpc = "drain" /\ AcceptList = <<>>
    /\ SelectCall(fds_read)
    /\ mpc' = "select"
    /\ UNCHANGED <<flagVars, recvListVars, sendListVars, queueVars, clientListVars, eventVars,
                   timed, cur, mdel, acceptVars, gameVars, sendVars>>

\* select returns.  FD_ISSET(ListenSocket): timed mode goes on before the
\* accept thread is woken.
SelectDone ==
    /\ mpc = "select"
    /\ SelectReturn(timed)
    /\ cur' = 1
    /\ IF ListenSocket \in fds_read'
         THEN SelectTimeModeFlag' = TRUE /\ mpc' = "awakeAccept"
         ELSE mpc' = "scan" /\ UNCHANGED SelectTimeModeFlag
    /\ UNCHANGED <<RunFlag, recvListVars, sendListVars, queueVars, clientListVars, eventVars,
                   timed, mdel, acceptVars, gameVars, sendVars>>

AwakeAccept ==
    /\ mpc = "awakeAccept"
    /\ acceptEvent' = TRUE
    /\ mpc' = "scan"
    /\ UNCHANGED <<netVars, flagVars, recvListVars, sendListVars, queueVars, clientListVars,
                   gameEvent, sendEvent, timed, cur, mdel, acceptVars, gameVars, sendVars>>

\* ReceiveEx gets a whole packet, maybe after waiting for it.
RecvPacket ==
    /\ mpc = "scan"
    /\ \E i \in 1 .. Len(SocketRecvList) :
          LET h == SocketRecvList[i]
              c == owner[h]
          IN  /\ IsNext(i)
              /\ c # NoConn
              /\ inbox[c] # <<>>
              /\ PacketRecvList' = Append(PacketRecvList,
                     [ActionType |-> "PACKET", Socket |-> h, packet |-> Head(inbox[c])])
              /\ inbox' = [inbox EXCEPT ![c] = Tail(@)]
              /\ cur' = i + 1
    /\ mpc' = "awakeRecv"
    /\ UNCHANGED <<backlog, peer, sent, C2S_Number, seen, owner, ListenSocket, selectVars,
                   flagVars, recvListVars, sendListVars, PacketSendList, clientListVars,
                   eventVars, timed, mdel, acceptVars, gameVars, sendVars>>

\* ReceiveEx fails: the client closed, the handle is not open, or no packet
\* came within the 5000 retries.  RecvFreeClientNode drops the client from
\* SocketRecvList and, under its lock, from SocketSendList.
RecvFail ==
    /\ mpc = "scan"
    /\ \E i \in 1 .. Len(SocketRecvList) :
          LET h == SocketRecvList[i]
          IN  /\ IsNext(i)
              /\ owner[h] # NoConn => inbox[owner[h]] = <<>>
              /\ SocketRecvList' = RemoveAt(SocketRecvList, i)
              /\ UnlinkFreeSendNode(FirstWith(SocketSendList, sendNode, h))
              /\ mdel' = h
              /\ cur' = i
    /\ mpc' = "notice"
    /\ UNCHANGED <<netVars, flagVars, AcceptList, SocketSendCache, queueVars, clientListVars,
                   eventVars, timed, acceptVars, gameVars, sendVars>>

NoticeFree ==
    /\ mpc = "notice"
    /\ PacketRecvList' = Append(PacketRecvList,
           [ActionType |-> "RELEASE", Socket |-> mdel, packet |-> NoPacket])
    /\ mdel' = INVALID_SOCKET
    /\ mpc' = "awakeFree"
    /\ UNCHANGED <<netVars, flagVars, recvListVars, sendListVars, PacketSendList,
                   clientListVars, eventVars, timed, cur, acceptVars, gameVars, sendVars>>

\* Mutant of AwakeRecv: GameplayThread.Awake() is forgotten.
AwakeRecvForgotten ==
    /\ mpc = "awakeRecv"
    /\ mpc' = "scan"
    /\ UNCHANGED <<netVars, flagVars, recvListVars, sendListVars, queueVars, clientListVars,
                   eventVars, timed, cur, mdel, acceptVars, gameVars, sendVars>>

AwakeRecv == mpc = "awakeRecv" /\ GameAwake("scan")
AwakeFree == mpc = "awakeFree" /\ GameAwake("scan")

\* TCPServer::Release: wait for the three threads, close every client that is
\* still connected, give the nodes back (without unlinking them).
Release ==
    /\ mpc = "release"
    /\ apc = "done" /\ gpc = "done" /\ spc = "done"
    /\ CloseHandles({client[ClientList[i]].Socket : i \in 1 .. Len(ClientList)})
    /\ client' = [n \in Node |-> IF n \in Range(ClientList) THEN FreeClient ELSE client[n]]
    /\ clientFree' = Reverse(ClientList) \o clientFree
    /\ mpc' = "done"
    /\ UNCHANGED <<flagVars, recvListVars, sendListVars, queueVars, ClientList,
                   PlayerInfoList, eventVars, timed, cur, mdel, acceptVars, gameVars, sendVars>>

MainStep ==
    \/ SelectBlocking \/ TimedMode \/ LeaveLoop
    \/ DrainAcceptList \/ DrainAwake \/ SelectTimed
    \/ SelectDone \/ AwakeAccept
    \/ RecvPacket \/ AwakeRecv
    \/ RecvFail \/ NoticeFree \/ AwakeFree
    \/ Release
=============================================================================

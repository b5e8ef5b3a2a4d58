------------------------------ MODULE TCPServer ------------------------------
(* MintServer's TCPServer: the four threads over the state they share, and   *)
(* what they promise together.                                               *)
EXTENDS SelectThread, AcceptThread, GameplayThread, SendThread

vars == <<netVars, serverVars>>

Init == NetInit /\ ServerInit

Clients == ClientStep /\ UNCHANGED serverVars

Next == Clients \/ MinutePasses \/ MainStep \/ AcceptStep \/ GameStep \/ SendStep

Spec == Init /\ [][Next]_vars

\* Windows runs every ready thread again and again.  Nothing makes a client
\* connect, send or close.
Fairness == /\ WF_vars(MainStep)
            /\ WF_vars(AcceptStep)
            /\ WF_vars(GameStep)
            /\ WF_vars(SendStep)

FairSpec == Spec /\ Fairness

TypeOK == NetTypeOK /\ ServerTypeOK

\* What each thread has in hand at each point of its code: the facts a type
\* proof needs beside the types.
InHand ==
    /\ apc = "accepted" => asock \in Sock
    /\ mpc = "drainAwake" => AcceptList # <<>>
    /\ gpc \in {"linkSend", "scanSend", "free", "unlinkSend", "awakeSend", "alive"}
         => PacketRecvList # <<>>
    /\ gpc \in {"linkSend", "scanSend", "free", "unlinkSend"} => gclient \in Node
    /\ spc \in {"copy", "send"} => PacketSendList # <<>>
    /\ ~RunFlag => gpc \in {"exitClose", "exitAwakeAccept", "exitAwake", "outer", "done"}
    /\ gpc \in {"exitClose", "exitAwakeAccept", "exitAwake"} => ~RunFlag

-----------------------------------------------------------------------------
(* Safety.                                                                   *)

\* No wake-up is lost between WaitForSingleObject and ResetEvent: while a
\* thread is on its way to sleep or asleep and its queue holds a node, its
\* event is set or the thread that linked the node is about to set it.
GameWakeup ==
    gpc \in {"outer", "wait"} /\ PacketRecvList # <<>>
      => gameEvent \/ mpc \in {"drainAwake", "awakeRecv", "awakeFree"}
SendWakeup ==
    spc \in {"outer", "wait"} /\ PacketSendList # <<>>
      => sendEvent \/ gpc = "awakeSend"
NoLostWakeup == GameWakeup /\ SendWakeup

\* A connection request is never overlooked: when the main thread blocks in
\* select without a timeout and the accept thread sleeps, the request has
\* already completed the select or nobody waits in the backlog.
RequestNoticed ==
    mpc = "select" /\ ~timed /\ apc = "wait" /\ ~acceptEvent /\ backlog # <<>>
      => completed # {}

\* The send thread never goes through a NULL order-number pointer: the cache
\* and the list hold only pointers to client nodes, although the main thread
\* and the gameplay thread free send nodes meanwhile.
NoNullCounter ==
    /\ \A i \in DOMAIN SocketSendList : sendNode[SocketSendList[i]].pS2C \in Node
    /\ \A i \in DOMAIN SocketSendCache : SocketSendCache[i].pS2C \in Node

\* Notices reach the gameplay thread in the order of the client's life, so
\* D_CHECK(del_client_node) and D_CHECK_BREAK(client_node) never fire: the
\* client a RELEASE notice or a packet names has been created and not freed.
ClientFound ==
    gpc = "get" /\ PacketRecvList # <<>> /\ node.ActionType # "CREATE"
      => clientNode # NoNode

\* A client that numbers its packets correctly is never cut off, whatever
\* handle it has and whoever had that handle before.
NeverCutOff == IsPacket => InOrder

\* Every handle the main thread polls names an open connection, and no handle
\* is polled twice: only after the main thread has dropped a client is its
\* handle closed, and only then can the number come back.
PolledHandlesOpen ==
    mpc # "done" => /\ \A i \in DOMAIN SocketRecvList : owner[SocketRecvList[i]] # NoConn
                    /\ IsInjective(SocketRecvList)

\* No handle leaks: an open handle is with the accept thread, in AcceptList,
\* polled by the main thread, or dropped with its RELEASE notice still due.
ReleaseDue(s) ==
    \/ mpc = "notice" /\ mdel = s
    \/ \E i \in DOMAIN PacketRecvList : /\ PacketRecvList[i].ActionType = "RELEASE"
                                        /\ PacketRecvList[i].Socket = s
NoHandleLeak ==
    \A s \in Sock : owner[s] # NoConn /\ RunFlag =>
        \/ asock = s
        \/ s \in Range(AcceptList) \union Range(SocketRecvList)
        \/ ReleaseDue(s)

\* SEND__NON_SELF never returns a client's message to that client, even when
\* the sender's handle has been reused by the time the message goes out.
NeverToSelf ==
    \A c \in Conn : \A i \in DOMAIN seen[c] :
        seen[c][i].type = "MESSAGE_2" => seen[c][i].from # c

\* As long as no client leaves, each client sees the order numbers 1, 2, 3,
\* ... without a gap, however clients join between two broadcasts.
Unbroken ==
    (\A c \in Conn : peer[c] # "closed") =>
        \A c \in Conn : \A i \in DOMAIN seen[c] : seen[c][i].num = i % WordSize

\* At most one connection has ended.
OneEnded == \A c, d \in Conn : peer[c] = "closed" /\ peer[d] = "closed" => c = d

\* No send node outlives its client while no second connection has ended:
\* between two messages to the gameplay thread, each send node points into a
\* client node that is in use, whichever of the two threads that free send
\* nodes came first.  (With a second one it can: FreeClientNode's walk, without
\* the lock, stands on a send node that the main thread frees for that one,
\* ends there, and the send node it looked for stays linked.)
SendNodesPointToClients ==
    gpc = "get" /\ OneEnded =>
        \A i \in DOMAIN SocketSendList :
            sendNode[SocketSendList[i]].pS2C \in Range(ClientList)

\* When all four threads sleep, nothing is left over: no connection waits, no
\* node is queued, and the lists of clients, the players and the open handles
\* all agree on who is connected - and so does SocketSendList, while no second
\* connection has ended.  Only a connection in AcceptList may be overlooked,
\* when accept() failed for a request that its client took back: that sends
\* the accept thread to sleep, although select may be out of timed mode by then.
Idle ==
    /\ mpc = "select" /\ ~timed /\ completed = {}
    /\ apc = "wait" /\ ~acceptEvent
    /\ gpc = "wait" /\ ~gameEvent
    /\ spc = "wait" /\ ~sendEvent
Settled ==
    Idle /\ RunFlag =>
        LET polled == Range(SocketRecvList)
        IN  /\ backlog = <<>>
            /\ (\A c \in Conn : peer[c] # "closed") => AcceptList = <<>>
            /\ PacketRecvList = <<>> /\ PacketSendList = <<>>
            /\ Len(ClientList) = Len(SocketRecvList)
            /\ {client[n].Socket : n \in Range(ClientList)} = polled
            /\ OneEnded => /\ Len(SocketSendList) = Len(SocketRecvList)
                           /\ {sendNode[n].Socket : n \in Range(SocketSendList)} = polled
            /\ PlayerInfoList = Range(ClientList)
            /\ {s \in Sock : owner[s] # NoConn} = polled \union Range(AcceptList)

-----------------------------------------------------------------------------
(* Liveness.                                                                 *)

\* Once a client has sent "server_exit" every thread ends, wherever it slept,
\* and the main thread gets through Release.
ShutdownTerminates ==
    ~RunFlag ~> mpc = "done" /\ apc = "done" /\ gpc = "done" /\ spc = "done"

\* What a polled client sends is received and handled, or the server exits.
Listed(c) == \E i \in DOMAIN SocketRecvList : owner[SocketRecvList[i]] = c
PacketsHandled ==
    \A c \in Senders : Listed(c) /\ inbox[c] # <<>> ~>
        (inbox[c] = <<>> /\ PacketRecvList = <<>>) \/ ~RunFlag

\* When a polled client has left, its handle is closed; and a client node whose
\* handle is closed, or whose client has left, is unlinked and freed, whatever
\* ended the connection - unless the server exits, or another connection gets
\* the number first.  One way out leaves the node behind and is excepted: a
\* client cut off for a wrong number (TCPServer.cpp:555) has its handle closed,
\* but its node forgets the handle, so no RELEASE notice finds it.
Names(h, end) == h \in Sock /\ owner[h] # NoConn /\ peer[owner[h]] = end
Closed(h) == h \in Sock /\ owner[h] = NoConn
CutOff(n) == client[n].Socket = INVALID_SOCKET /\ n \in PlayerInfoList
LeaversReleased ==
    /\ \A c \in Leavers : Listed(c) /\ peer[c] = "closed" ~> HandlesOf(c) = {} \/ ~RunFlag
    /\ \A n \in Node :
          n \in Range(ClientList) /\ (Closed(client[n].Socket) \/ Names(client[n].Socket, "closed"))
            ~> \/ n \notin Range(ClientList)
               \/ CutOff(n) \/ Names(client[n].Socket, "open") \/ ~RunFlag

\* TCPServer.cpp:612: a handle the gameplay thread closed, because the client
\* kept silent (line 613) or broke the numbering (line 554), makes the main
\* thread drop the client - unless the server exits, or accept() gives the
\* number to another connection before the main thread's next select: then the
\* handle is an open one again, and stays in SocketRecvList for both.
ClosedHandleDropped ==
    \A s \in Sock : s \in Range(SocketRecvList) /\ Closed(s) ~>
        s \notin Range(SocketRecvList) \/ owner[s] # NoConn \/ ~RunFlag

-----------------------------------------------------------------------------
(* Both packet queues, each with its thread and its event, implement the     *)
(* Mailbox: the gameplay thread's with the main thread as producer, the send *)
(* thread's with the gameplay thread as producer.                            *)

GameConsumer ==
    IF ~RunFlag THEN "stop"
    ELSE IF gpc \in {"outer", "wait"} THEN "sleep"
    ELSE IF gpc = "reset" THEN "wake" ELSE "work"
GameQueue == INSTANCE Mailbox WITH
    Producers <- {"main"}, Messages <- RecvPacketInfo,
    queue <- PacketRecvList, event <- gameEvent, consumer <- GameConsumer,
    owing <- {p \in {"main"} : mpc \in {"drainAwake", "awakeRecv", "awakeFree"}}
GameQueueSpec == GameQueue!FairMailboxSpec

SendConsumer ==
    IF spc = "done" THEN "stop"
    ELSE IF spc \in {"outer", "wait"} THEN "sleep"
    ELSE IF spc = "reset" THEN "wake" ELSE "work"
SendQueue == INSTANCE Mailbox WITH
    Producers <- {"gameplay"}, Messages <- SendPacketInfo,
    queue <- PacketSendList, event <- sendEvent, consumer <- SendConsumer,
    owing <- {p \in {"gameplay"} : gpc = "awakeSend"}
SendQueueSpec == SendQueue!FairMailboxSpec

-----------------------------------------------------------------------------
(* What comments of the source say, and the code does not keep.              *)

\* TCPServer.cpp:183: "When happen accept event, select go into timer mode,
\* until CreateClientNode finish": the main thread does not block while an
\* accepted connection waits for it.
TimerModeUntilCreated ==
    mpc = "select" /\ ~timed /\ completed = {} => AcceptList = <<>>

\* TCPServer.h:3: "Modify Windos define fd_set structure, socket array max
\* 1000": select is given no more handles than the array of the set has places.
ReadSetInArray == selecting => Cardinality(fds_read) <= FdArrayMax

\* GameServer.cpp:55: "Broadcast to all client": when the send thread takes
\* the cache as it is, the cache holds the clients of the list.
CacheIsTheList ==
    spc = "get" /\ PacketSendList # <<>> /\ Len(SocketSendCache) = Len(SocketSendList)
      => \A i \in DOMAIN SocketSendList : SocketSendCache[i] = sendNode[SocketSendList[i]]

\* TCPServer.h:86: "When receive disconnect event, free clientnode into
\* freepool": a RELEASE notice finds its client node.
DisconnectFreesNode ==
    gpc = "get" /\ PacketRecvList # <<>> /\ node.ActionType = "RELEASE"
      => clientNode # NoNode

\* TMPDoublyList.hpp: unlinking a node that is not linked "will lose the
\* node": the node FreeClientNode found is still linked when it frees it.
FoundNodeStillLinked ==
    gpc = "unlinkSend" /\ gdel # NoNode => gdel \in Range(SocketSendList)
=============================================================================

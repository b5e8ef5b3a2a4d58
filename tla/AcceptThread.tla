----------------------------- MODULE AcceptThread -----------------------------
(* The accept thread: Accept_InThread.  It sleeps until the main thread sees *)
(* a connection request, then polls accept() every millisecond until there   *)
(* is none left and the main thread has emptied AcceptList; only then does   *)
(* it put select back into its blocking mode.                                *)
EXTENDS ServerState

acceptFrame == <<sendListVars, queueVars, clientListVars, gameEvent, sendEvent, RunFlag,
                 SocketRecvList, mainVars, gameVars, sendVars>>

AcceptOuter ==
    /\ apc = "outer"
    /\ apc' = IF RunFlag THEN "wait" ELSE "done"
    /\ UNCHANGED <<netVars, SelectTimeModeFlag, AcceptList, acceptEvent, asock, acceptFrame>>

\* WaitEvent::Wait: WaitForSingleObject returns, and then ResetEvent.
AcceptWait ==
    /\ apc = "wait"
    /\ acceptEvent
    /\ apc' = "reset"
    /\ UNCHANGED <<netVars, SelectTimeModeFlag, AcceptList, acceptEvent, asock, acceptFrame>>

AcceptReset ==
    /\ apc = "reset"
    /\ acceptEvent' = FALSE
    /\ apc' = "poll"
    /\ UNCHANGED <<netVars, SelectTimeModeFlag, AcceptList, asock, acceptFrame>>

\* Mutant of PollNothing: accept()'s result is not looked at.
PollUnchecked ==
    /\ apc = "poll"
    /\ backlog = <<>>
    /\ asock' = INVALID_SOCKET
    /\ apc' = "accepted"
    /\ UNCHANGED <<netVars, SelectTimeModeFlag, AcceptList, acceptEvent, acceptFrame>>

\* accept() finds the backlog empty (WSAEWOULDBLOCK), or the listening socket
\* closed, or is not called any more because RunFlag is down.
PollNothing ==
    /\ apc = "poll"
    /\ backlog = <<>>
    /\ apc' = IF RunFlag /\ ListenSocket = ListenHandle THEN "check" ELSE "outer"
    /\ UNCHANGED <<netVars, SelectTimeModeFlag, AcceptList, acceptEvent, asock, acceptFrame>>

\* RunFlag went down while connections are still in the backlog.
PollStopped ==
    /\ apc = "poll"
    /\ backlog # <<>> /\ ~RunFlag
    /\ apc' = "outer"
    /\ UNCHANGED <<netVars, SelectTimeModeFlag, AcceptList, acceptEvent, asock, acceptFrame>>

\* accept() returns the first connection of the backlog under any free number.
PollAccept ==
    /\ apc = "poll"
    /\ RunFlag /\ backlog # <<>>
    /\ \E s \in Sock :
          /\ owner[s] = NoConn
          /\ owner' = [owner EXCEPT ![s] = Head(backlog)]
          /\ asock' = s
    /\ backlog' = Tail(backlog)
    /\ apc' = "accepted"
    /\ UNCHANGED <<peer, inbox, sent, C2S_Number, seen, ListenSocket, selectVars,
                   SelectTimeModeFlag, AcceptList, acceptEvent, acceptFrame>>

\* accept() fails with another error: the client aborted while it waited.
PollError ==
    /\ apc = "poll"
    /\ RunFlag /\ backlog # <<>>
    /\ peer[Head(backlog)] = "closed"
    /\ backlog' = Tail(backlog)
    /\ inbox' = [inbox EXCEPT ![Head(backlog)] = <<>>]
    /\ apc' = "outer"
    /\ UNCHANGED <<peer, sent, C2S_Number, seen, owner, ListenSocket, selectVars,
                   SelectTimeModeFlag, AcceptList, acceptEvent, asock, acceptFrame>>

\* Mutant of AcceptFull: the connection is refused but not closed.
AcceptFullNotClosed ==
    /\ apc = "accepted"
    /\ Len(ClientList) >= ConnectionMax
    /\ asock' = INVALID_SOCKET
    /\ apc' = "poll"
    /\ UNCHANGED <<netVars, SelectTimeModeFlag, AcceptList, acceptEvent, acceptFrame>>

\* The server is full by ClientList's count: close the connection again.
AcceptFull ==
    /\ apc = "accepted"
    /\ Len(ClientList) >= ConnectionMax
    /\ CloseHandles({asock})
    /\ asock' = INVALID_SOCKET
    /\ apc' = "poll"
    /\ UNCHANGED <<SelectTimeModeFlag, AcceptList, acceptEvent, acceptFrame>>

AcceptLink ==
    /\ apc = "accepted"
    /\ Len(ClientList) < ConnectionMax
    /\ AcceptList' = Append(AcceptList, asock)
    /\ asock' = INVALID_SOCKET
    /\ apc' = "poll"
    /\ UNCHANGED <<netVars, SelectTimeModeFlag, acceptEvent, acceptFrame>>

\* No request left: go on polling while AcceptList holds a connection.
AcceptCheck ==
    /\ apc = "check"
    /\ apc' = IF AcceptList = <<>> THEN "clear" ELSE "poll"
    /\ UNCHANGED <<netVars, SelectTimeModeFlag, AcceptList, acceptEvent, asock, acceptFrame>>

AcceptClearFlag ==
    /\ apc = "clear"
    /\ SelectTimeModeFlag' = FALSE
    /\ apc' = "outer"
    /\ UNCHANGED <<netVars, AcceptList, acceptEvent, asock, acceptFrame>>

AcceptStep ==
    \/ AcceptOuter \/ AcceptWait \/ AcceptReset
    \/ PollNothing \/ PollStopped \/ PollAccept \/ PollError
    \/ AcceptFull \/ AcceptLink
    \/ AcceptCheck \/ AcceptClearFlag
=============================================================================

----------------------------- MODULE EchoPrograms -----------------------------
(***************************************************************************)
(* Tutorials 1 and 2: a server that returns what it receives (blocking,    *)
(* non-blocking, or with select) and its clients (blocking and             *)
(* non-blocking).  Each has one Client.Socket.  The bytes a client sends   *)
(* are numbered; the handle of a connection is the connection itself.      *)
(***************************************************************************)
EXTENDS Naturals, Sequences, FiniteSets

CONSTANTS
  EchoConn,             \* the connections clients open
  ZeroSocket,           \* the 0 that the servers' constructors set
  InvalidSocket,        \* INVALID_SOCKET
  InputMax              \* bound: lines a client sends

ASSUME EchoAssumption ==
  /\ {ZeroSocket, InvalidSocket} \cap EchoConn = {} /\ ZeroSocket # InvalidSocket
  /\ InputMax \in Nat

VARIABLES
  serverKind, clientKind,
  echoAt,               \* where the server is
  listenOpen, acceptQueue,
  ServerClientSocket,
  serverHandles,        \* connections open at the server's end
  fdsRead,              \* connections select found readable; ListenReady
  echoBuff,             \* recv_buff
  endAt,                \* where each client is
  toServer, toClient,   \* bytes under way
  wrote, echoed,           \* bytes a client has sent, and those it has received
  ended,                \* clients that have shut down or closed their end
  dropped,              \* connections whose server's end is closed
  overwritten,          \* connections whose handle Accept has overwritten
  shortSend             \* clients whose echo a non-blocking send cut short

echoServerVars == <<echoAt, listenOpen, ServerClientSocket, serverHandles, fdsRead,
                    echoBuff, overwritten, shortSend>>
echoClientVars == <<endAt, wrote, echoed, ended>>
kinds == <<serverKind, clientKind>>
echoVars == <<kinds, echoServerVars, echoClientVars, acceptQueue, toServer,
              toClient, dropped>>

ListenReady == "listen"

EchoInit ==
  /\ serverKind \in {"blocking", "non-blocking", "select"}
  /\ clientKind \in [EchoConn -> {"blocking", "non-blocking"}]
  /\ echoAt = "create" /\ listenOpen = FALSE /\ acceptQueue = <<>>
  /\ ServerClientSocket = ZeroSocket /\ serverHandles = {} /\ fdsRead = {}
  /\ echoBuff = <<>>
  /\ endAt = [c \in EchoConn |-> "create"]
  /\ toServer = [c \in EchoConn |-> <<>>] /\ toClient = toServer
  /\ wrote = [c \in EchoConn |-> 0] /\ echoed = toServer
  /\ ended = {} /\ dropped = {} /\ overwritten = {} /\ shortSend = {}

Waiting == {acceptQueue[i] : i \in 1 .. Len(acceptQueue)}

-----------------------------------------------------------------------------
(* The servers. *)

\* CreateWinsock fails before or after there is a listening socket; Run does
\* nothing then and Release follows.
CreateServer(kind, next) ==
  /\ serverKind = kind /\ echoAt = "create"
  /\ \/ listenOpen' = TRUE /\ echoAt' = next
     \/ listenOpen' \in BOOLEAN /\ echoAt' = "release"
  /\ UNCHANGED <<kinds, echoClientVars, acceptQueue, toServer, toClient, dropped,
                 ServerClientSocket, serverHandles, fdsRead, echoBuff, overwritten,
                 shortSend>>

CreateBlocking == CreateServer("blocking", "accept")
CreateNonBlocking == CreateServer("non-blocking", "accept")
CreateSelect == CreateServer("select", "select")

Accepted ==
  /\ acceptQueue # <<>>
  /\ ServerClientSocket' = Head(acceptQueue)
  /\ acceptQueue' = Tail(acceptQueue)
  /\ serverHandles' = serverHandles \cup {Head(acceptQueue)}

NotAccepted ==
  /\ ServerClientSocket' = InvalidSocket
  /\ UNCHANGED <<acceptQueue, serverHandles>>

BlockingAccept ==
  /\ serverKind = "blocking" /\ echoAt = "accept"
  /\ \/ Accepted /\ echoAt' = "receive"
     \/ NotAccepted /\ echoAt' = "release"
  /\ UNCHANGED <<kinds, echoClientVars, toServer, toClient, dropped, listenOpen,
                 fdsRead, echoBuff, overwritten, shortSend>>

\* It returns true also when accept has failed.
NonBlockingAccept ==
  /\ serverKind = "non-blocking" /\ echoAt = "accept"
  /\ Accepted \/ NotAccepted
  /\ echoAt' = "receive"
  /\ UNCHANGED <<kinds, echoClientVars, toServer, toClient, dropped, listenOpen,
                 fdsRead, echoBuff, overwritten, shortSend>>

\* A round of Select: it ends the server when Client.Socket is invalid.
Select ==
  LET fds == (IF acceptQueue # <<>> THEN {ListenReady} ELSE {})
               \cup {c \in {ServerClientSocket} \cap EchoConn :
                       toServer[c] # <<>> \/ c \in ended}
  IN  /\ serverKind = "select" /\ echoAt = "select"
      /\ IF ServerClientSocket = InvalidSocket
         THEN echoAt' = "release" /\ UNCHANGED fdsRead
         ELSE /\ fds # {}
              /\ fdsRead' = fds
              /\ echoAt' = IF ListenReady \in fds THEN "accept" ELSE "receive"
      /\ UNCHANGED <<kinds, echoClientVars, acceptQueue, toServer, toClient,
                     dropped, listenOpen, ServerClientSocket, serverHandles, echoBuff,
                     overwritten, shortSend>>

\* accept overwrites the handle of a client that is still connected.
SelectAccept ==
  /\ serverKind = "select" /\ echoAt = "accept"
  /\ Accepted \/ NotAccepted
  /\ overwritten' = overwritten \cup ({ServerClientSocket} \cap EchoConn)
  /\ echoAt' = "receive"
  /\ UNCHANGED <<kinds, echoClientVars, toServer, toClient, dropped, listenOpen,
                 fdsRead, echoBuff, shortSend>>

\* recv, and what each server does when it gets nothing more.
Recv ==
  /\ ServerClientSocket \in EchoConn /\ toServer[ServerClientSocket] # <<>>
  /\ echoBuff' = toServer[ServerClientSocket]
  /\ toServer' = [toServer EXCEPT ![ServerClientSocket] = <<>>]
  /\ echoAt' = "echo"
  /\ UNCHANGED <<kinds, echoClientVars, acceptQueue, toClient, dropped,
                 listenOpen, ServerClientSocket, serverHandles, fdsRead, overwritten,
                 shortSend>>

NoMore ==
  ServerClientSocket \in EchoConn =>
    ServerClientSocket \in ended /\ toServer[ServerClientSocket] = <<>>

\* Mutant of CloseClient: the handle is forgotten and not closed.
ForgetClient ==
  /\ ServerClientSocket' = ZeroSocket
  /\ dropped' = dropped \cup ({ServerClientSocket} \cap EchoConn)
  /\ UNCHANGED serverHandles

CloseClient ==
  /\ ServerClientSocket' = ZeroSocket
  /\ serverHandles' = serverHandles \ {ServerClientSocket}
  /\ dropped' = dropped \cup ({ServerClientSocket} \cap EchoConn)

ReceiveEnds1 ==
  /\ NoMore
  /\ echoAt' = "release"
  /\ UNCHANGED <<kinds, echoClientVars, acceptQueue, toServer, toClient, dropped,
                 listenOpen, ServerClientSocket, serverHandles, fdsRead, echoBuff,
                 overwritten, shortSend>>

BlockingReceive ==
  serverKind = "blocking" /\ echoAt = "receive" /\ (Recv \/ ReceiveEnds1)

NonBlockingReceive ==
  serverKind = "non-blocking" /\ echoAt = "receive" /\ (Recv \/ ReceiveEnds1)

\* The part of Select after Accept, with Receive: only for a client that was
\* in the set; when it is gone its socket is closed.
SelectReceive ==
  /\ serverKind = "select" /\ echoAt = "receive"
  /\ IF ServerClientSocket \notin fdsRead
     THEN /\ echoAt' = "select"
          /\ UNCHANGED <<kinds, echoClientVars, acceptQueue, toServer, toClient,
                         dropped, listenOpen, ServerClientSocket, serverHandles,
                         fdsRead, echoBuff, overwritten, shortSend>>
     ELSE \/ Recv
          \/ /\ NoMore /\ CloseClient
             /\ echoAt' = "select"
             /\ UNCHANGED <<kinds, echoClientVars, acceptQueue, toServer,
                            toClient, listenOpen, fdsRead, echoBuff, overwritten,
                            shortSend>>

\* send: all of it, and without blocking maybe only a part.
Echoed ==
  /\ endAt[ServerClientSocket] # "end"
  /\ \E k \in 1 .. Len(echoBuff) :
       /\ k < Len(echoBuff) => serverKind = "non-blocking"
       /\ toClient' = [toClient EXCEPT ![ServerClientSocket] =
                         @ \o SubSeq(echoBuff, 1, k)]
       /\ shortSend' = IF k < Len(echoBuff) THEN shortSend \cup {ServerClientSocket}
                                            ELSE shortSend
  /\ echoBuff' = <<>>
  /\ echoAt' = IF serverKind = "select" THEN "select" ELSE "receive"
  /\ UNCHANGED <<kinds, echoClientVars, acceptQueue, toServer, dropped,
                 listenOpen, ServerClientSocket, serverHandles, fdsRead, overwritten>>

\* send fails: the client has closed, or a non-blocking send would block.
NotEchoed ==
  /\ endAt[ServerClientSocket] = "end" \/ serverKind = "non-blocking"
  /\ echoBuff' = <<>>
  /\ IF serverKind = "select"
     THEN CloseClient /\ echoAt' = "select"
     ELSE /\ echoAt' = "release"
          /\ UNCHANGED <<ServerClientSocket, serverHandles, dropped>>
  /\ UNCHANGED <<kinds, echoClientVars, acceptQueue, toServer, toClient,
                 listenOpen, fdsRead, overwritten, shortSend>>

Echo == echoAt = "echo" /\ (Echoed \/ NotEchoed)

\* Release: the client's socket, if it is not invalid, and the listening one,
\* with which the connections that wait are reset.  The handle 0 may be closed.
ReleaseServer(kind) ==
  /\ serverKind = kind /\ echoAt = "release"
  /\ IF ServerClientSocket = InvalidSocket
     THEN /\ dropped' = dropped \cup Waiting
          /\ UNCHANGED <<ServerClientSocket, serverHandles>>
     ELSE /\ ServerClientSocket' =
               IF kind = "select" THEN ServerClientSocket ELSE ZeroSocket
          /\ serverHandles' = serverHandles \ {ServerClientSocket}
          /\ dropped' = dropped \cup ({ServerClientSocket} \cap EchoConn) \cup Waiting
  /\ listenOpen' = FALSE /\ acceptQueue' = <<>>
  /\ echoAt' = "end"
  /\ UNCHANGED <<kinds, echoClientVars, toServer, toClient, fdsRead, echoBuff,
                 overwritten, shortSend>>

ReleaseBlocking == ReleaseServer("blocking")
ReleaseNonBlocking == ReleaseServer("non-blocking")
ReleaseSelect == ReleaseServer("select")

ServerRuns ==
  \/ CreateBlocking \/ CreateNonBlocking \/ CreateSelect
  \/ BlockingAccept \/ NonBlockingAccept \/ SelectAccept
  \/ Select \/ BlockingReceive \/ NonBlockingReceive \/ SelectReceive \/ Echo
  \/ ReleaseBlocking \/ ReleaseNonBlocking \/ ReleaseSelect

-----------------------------------------------------------------------------
(* The clients. *)

\* Startup and connect: connect succeeds when the server listens.
ConnectClient(c, kind) ==
  /\ clientKind[c] = kind /\ endAt[c] = "create"
  /\ IF listenOpen
     THEN /\ acceptQueue' = Append(acceptQueue, c)
          /\ endAt' = [endAt EXCEPT ![c] = "input"]
     ELSE /\ endAt' = [endAt EXCEPT ![c] = "end"]
          /\ UNCHANGED acceptQueue
  /\ UNCHANGED <<kinds, echoServerVars, toServer, toClient, dropped, wrote, echoed,
                 ended>>

ConnectBlocking(c) == ConnectClient(c, "blocking")
ConnectNonBlocking(c) == ConnectClient(c, "non-blocking")

\* A line of one or two bytes is sent.  Nobody reads it when the server's end
\* is closed; send may fail then, and the program returns.
SendLine(c, kind, next) ==
  /\ clientKind[c] = kind /\ endAt[c] = "input" /\ wrote[c] < InputMax
  /\ \/ \E n \in 1 .. 2 :
          /\ wrote' = [wrote EXCEPT ![c] = @ + n]
          /\ toServer' = [toServer EXCEPT ![c] =
               IF c \in dropped THEN @
               ELSE @ \o [i \in 1 .. n |-> wrote[c] + i]]
          /\ endAt' = [endAt EXCEPT ![c] = next]
          /\ UNCHANGED ended
     \/ /\ c \in dropped
        /\ endAt' = [endAt EXCEPT ![c] = "end"]
        /\ ended' = ended \cup {c}
        /\ UNCHANGED <<wrote, toServer>>
  /\ UNCHANGED <<kinds, echoServerVars, acceptQueue, toClient, dropped, echoed>>

SendBlocking(c) == SendLine(c, "blocking", "reply")
SendNonBlocking(c) == SendLine(c, "non-blocking", "input")

GetBytes(c) ==
  /\ toClient[c] # <<>>
  /\ echoed' = [echoed EXCEPT ![c] = @ \o toClient[c]]
  /\ toClient' = [toClient EXCEPT ![c] = <<>>]

\* recv after a line: whatever has come of the echo, or the connection's end,
\* which this client does not look at.
BlockingReply(c) ==
  /\ clientKind[c] = "blocking" /\ endAt[c] = "reply"
  /\ \/ GetBytes(c)
     \/ toClient[c] = <<>> /\ c \in dropped /\ UNCHANGED <<echoed, toClient>>
  /\ endAt' = [endAt EXCEPT ![c] = "input"]
  /\ UNCHANGED <<kinds, echoServerVars, acceptQueue, toServer, dropped, wrote,
                 ended>>

\* recv in every round of the input loop; it leaves the loop at the end.
NonBlockingReply(c) ==
  /\ clientKind[c] = "non-blocking" /\ endAt[c] = "input"
  /\ \/ GetBytes(c) /\ UNCHANGED <<endAt, ended>>
     \/ /\ toClient[c] = <<>> /\ c \in dropped
        /\ endAt' = [endAt EXCEPT ![c] = "drain"]
        /\ ended' = ended \cup {c}
        /\ UNCHANGED <<echoed, toClient>>
  /\ UNCHANGED <<kinds, echoServerVars, acceptQueue, toServer, dropped, wrote>>

\* "exit" is entered, and shutdown called.
Exit(c) ==
  /\ endAt[c] = "input"
  /\ endAt' = [endAt EXCEPT ![c] = "drain"]
  /\ ended' = ended \cup {c}
  /\ UNCHANGED <<kinds, echoServerVars, acceptQueue, toServer, toClient, dropped,
                 wrote, echoed>>

\* recv until nothing comes any more: until the server has closed, or, without
\* blocking, until there is nothing just now.
Drain(c, kind) ==
  /\ clientKind[c] = kind /\ endAt[c] = "drain"
  /\ \/ GetBytes(c) /\ UNCHANGED endAt
     \/ /\ toClient[c] = <<>>
        /\ kind = "blocking" => c \in dropped
        /\ endAt' = [endAt EXCEPT ![c] = "end"]
        /\ UNCHANGED <<echoed, toClient>>
  /\ UNCHANGED <<kinds, echoServerVars, acceptQueue, toServer, dropped, wrote,
                 ended>>

DrainBlocking(c) == Drain(c, "blocking")
DrainNonBlocking(c) == Drain(c, "non-blocking")

ClientReads(c) ==
  \/ BlockingReply(c) \/ NonBlockingReply(c)
  \/ DrainBlocking(c) \/ DrainNonBlocking(c)

EchoNext ==
  \/ ServerRuns
  \/ \E c \in EchoConn :
       \/ ConnectBlocking(c) \/ ConnectNonBlocking(c)
       \/ SendBlocking(c) \/ SendNonBlocking(c) \/ Exit(c)
       \/ ClientReads(c)

EchoSpec ==
  /\ EchoInit /\ [][EchoNext]_echoVars
  /\ WF_echoVars(ServerRuns)
  /\ \A c \in EchoConn : WF_echoVars(ClientReads(c))

-----------------------------------------------------------------------------
\* What a client receives is the beginning of what it sent, byte for byte,
\* whatever pieces it comes in; only a non-blocking send that was cut short
\* leaves a gap, which the server does not look at.
EchoInOrder ==
  \A c \in EchoConn \ shortSend :
    echoed[c] \o toClient[c] = [i \in 1 .. Len(echoed[c]) + Len(toClient[c]) |-> i]

\* When a server has ended, it has closed every handle but those that Accept
\* overwrote, and none of these unless it used select.
HandlesReleased ==
  /\ overwritten # {} => serverKind = "select"
  /\ serverHandles \subseteq overwritten \cup {ServerClientSocket}
  /\ echoAt = "end" => serverHandles \subseteq overwritten /\ ~listenOpen

\* A client that waits for an echo, or for the server to close, does not wait
\* for ever, unless it was never accepted or its handle was overwritten.
NobodyStuck ==
  \A c \in EchoConn :
    endAt[c] \in {"create", "input", "end"} \/ c \in Waiting \cup overwritten

\* The tutorial servers echo what was sent and close what they accepted.
EchoSafe == EchoInOrder /\ HandlesReleased
=============================================================================

------------------------------ MODULE MintClient ------------------------------
(***************************************************************************)
(* The MintClient program: connecting, the two input loops, the heartbeat  *)
(* task and the shutdown.  The client's task manager is that of module     *)
(* TaskManager; the bytes of a packet are in PacketStream.  A tick of the  *)
(* clock is 10 s.  A round of the chat loop, whose sending and receiving   *)
(* may each take 5 s, takes less: time passes between two rounds.          *)
(***************************************************************************)
EXTENDS TaskManager

CONSTANTS
  AliveDelay,           \* 1000 * 30, the delay of TASK__ALIVE
  DropDelay             \* the silence after which the server drops a client

ASSUME ClientDelays ==
  /\ AliveDelay \in Delays \ {0} /\ TASK_RUN_COUNT_UNLIMITED \in RunCounts
  /\ DropDelay \in Nat /\ DropDelay > AliveDelay + 1

VARIABLES
  clientAt,             \* where the program is
  Client_Socket,        \* "zero" until socket() is called, "open" or "invalid"
  wsaStarted,
  hasManager,           \* TaskManager # NULL
  buff_message,         \* "", "some", "exit", or "long" from MESSAGE_BUFFER_MAX on
  inbox,                \* something has come from the server
  serverOpen,           \* the server's end of the connection
  silence,              \* ticks since the server last got a packet
  wentRound,            \* the chat loop has gone round since the last tick
  sendFailed,           \* SendEx gave up the last packet
  wrapped               \* the clock has wrapped since the last packet

programVars == <<clientAt, Client_Socket, wsaStarted, hasManager, buff_message>>
serverSide == <<inbox, serverOpen>>
ghosts == <<silence, wentRound, sendFailed, wrapped>>
clientVars == <<taskVars, programVars, serverSide, ghosts>>

ClientInit ==
  /\ TaskInit
  /\ clientAt = "WSAStartup"
  /\ Client_Socket = "zero" /\ wsaStarted = FALSE /\ hasManager = FALSE
  /\ buff_message = ""
  /\ inbox = FALSE /\ serverOpen = FALSE
  /\ silence = 0 /\ wentRound = FALSE /\ sendFailed = FALSE /\ wrapped = FALSE

InChat == clientAt \in {"input", "receive", "tasks", "running"}

-----------------------------------------------------------------------------
(* Create. *)

\* Each call may fail; Run goes on to Release then.
Startup ==
  /\ clientAt = "WSAStartup"
  /\ \E ok \in BOOLEAN :
       /\ wsaStarted' = ok
       /\ clientAt' = IF ok THEN "socket" ELSE "shutdown"
  /\ UNCHANGED <<taskVars, Client_Socket, hasManager, buff_message, serverSide,
                 ghosts>>

OpenSocket ==
  /\ clientAt = "socket"
  /\ \/ Client_Socket' = "open" /\ clientAt' = "connect"
     \/ Client_Socket' = "invalid" /\ clientAt' = "shutdown"
  /\ UNCHANGED <<taskVars, wsaStarted, hasManager, buff_message, serverSide,
                 ghosts>>

Connect ==
  /\ clientAt = "connect"
  /\ \E ok \in BOOLEAN :
       /\ serverOpen' = ok
       /\ clientAt' = IF ok THEN "ioctlsocket" ELSE "shutdown"
  /\ UNCHANGED <<taskVars, Client_Socket, wsaStarted, hasManager, buff_message,
                 inbox, ghosts>>

SetNonBlocking ==
  /\ clientAt = "ioctlsocket"
  /\ clientAt' \in {"TaskManager", "shutdown"}
  /\ UNCHANGED <<taskVars, Client_Socket, wsaStarted, hasManager, buff_message,
                 serverSide, ghosts>>

\* sCreate and vAddTask( TASK__ALIVE, ... ).
CreateTaskManager ==
  /\ clientAt = "TaskManager"
  /\ vAddTask(AliveDelay, TASK_RUN_COUNT_UNLIMITED)
  /\ hasManager' = TRUE
  /\ clientAt' = "name"
  /\ UNCHANGED <<Client_Socket, wsaStarted, buff_message, serverSide, ghosts>>

-----------------------------------------------------------------------------
(* Sending: the result of SendEx is ignored. *)

Send_C2S ==
  /\ wrapped' = FALSE
  /\ \/ serverOpen /\ silence' = 0 /\ sendFailed' = FALSE
     \/ sendFailed' = TRUE /\ UNCHANGED silence

\* fgets has returned a name.
NameInput ==
  /\ clientAt = "name"
  /\ Send_C2S
  /\ clientAt' = "input"
  /\ UNCHANGED <<taskVars, Client_Socket, wsaStarted, hasManager, buff_message,
                 serverSide, wentRound>>

\* A key that is saved, or backspace.
Edited ==
  CASE buff_message = "" -> {"", "some"}
    [] buff_message = "some" -> {"", "some", "exit", "long"}
    [] buff_message = "exit" -> {"some"}
    [] buff_message = "long" -> {"some", "long"}

Key ==
  /\ clientAt = "input"
  /\ buff_message' \in Edited
  /\ clientAt' = "receive"
  /\ UNCHANGED <<taskVars, Client_Socket, wsaStarted, hasManager, serverSide,
                 ghosts>>

\* Nothing was hit, or enter with no text.
NoKey ==
  /\ clientAt = "input"
  /\ clientAt' = "receive"
  /\ UNCHANGED <<taskVars, Client_Socket, wsaStarted, hasManager, buff_message,
                 serverSide, ghosts>>

EnterExit ==
  /\ clientAt = "input" /\ buff_message = "exit"
  /\ clientAt' = "shutdown"
  /\ UNCHANGED <<taskVars, Client_Socket, wsaStarted, hasManager, buff_message,
                 serverSide, ghosts>>

\* strcpy_s ends the program when the text does not fit Message.
EnterLong ==
  /\ clientAt = "input" /\ buff_message = "long"
  /\ clientAt' = "aborted"
  /\ serverOpen' = FALSE
  /\ UNCHANGED <<taskVars, Client_Socket, wsaStarted, hasManager, buff_message,
                 inbox, ghosts>>

\* The message is sent and the heartbeat put off.
EnterMessage ==
  /\ clientAt = "input" /\ buff_message = "some"
  /\ Send_C2S
  /\ RestartTask
  /\ buff_message' = ""
  /\ clientAt' = "receive"
  /\ UNCHANGED <<Client_Socket, wsaStarted, hasManager, serverSide, wentRound>>

\* RecvEx takes a packet, or there is none.  It fails when the server has closed
\* and all is taken, or has kept back the rest of a packet.
ChatReceive ==
  /\ clientAt = "receive"
  /\ \/ (inbox \/ serverOpen) /\ clientAt' = "tasks" /\ inbox' \in {inbox, FALSE}
     \/ (inbox \/ ~serverOpen) /\ clientAt' = "shutdown" /\ UNCHANGED inbox
  /\ UNCHANGED <<taskVars, Client_Socket, wsaStarted, hasManager, buff_message,
                 serverOpen, ghosts>>

ChatRunTask ==
  /\ clientAt = "tasks"
  /\ vRunTask
  /\ clientAt' = "running"
  /\ UNCHANGED <<Client_Socket, wsaStarted, hasManager, buff_message, serverSide,
                 ghosts>>

ChatLookAtTask ==
  /\ clientAt = "running"
  /\ LookAtTask
  /\ UNCHANGED <<programVars, serverSide, ghosts>>

\* Mutant of vOnRunTask: no heartbeat is sent.
vOnRunTaskSilent ==
  /\ clientAt = "running"
  /\ AfterTask
  /\ UNCHANGED <<programVars, serverSide, ghosts>>

\* Send_C2S_Alive, and back in vRunTask.
vOnRunTask ==
  /\ clientAt = "running"
  /\ AfterTask
  /\ Send_C2S
  /\ UNCHANGED <<programVars, serverSide, wentRound>>

\* vRunTask returns, and the loop goes round.
ChatGoesRound ==
  /\ clientAt = "running" /\ runAt = NULL
  /\ clientAt' = "input"
  /\ wentRound' = TRUE
  /\ UNCHANGED <<taskVars, Client_Socket, wsaStarted, hasManager, buff_message,
                 serverSide, silence, sendFailed, wrapped>>

-----------------------------------------------------------------------------
(* Shutdown and Release. *)

\* shutdown fails on a handle that is not a connection's.
Shutdown ==
  /\ clientAt = "shutdown"
  /\ \/ Client_Socket = "open" /\ clientAt' = "drain"
     \/ clientAt' = "close"
  /\ UNCHANGED <<taskVars, Client_Socket, wsaStarted, hasManager, buff_message,
                 serverSide, ghosts>>

\* recv once more for as long as it gets something.
FinalReceive ==
  /\ clientAt = "drain"
  /\ IF inbox THEN inbox' = FALSE /\ UNCHANGED clientAt
              ELSE clientAt' = "close" /\ UNCHANGED inbox
  /\ UNCHANGED <<taskVars, Client_Socket, wsaStarted, hasManager, buff_message,
                 serverOpen, ghosts>>

\* MY_RELEASE deletes the manager if there is one.
ReleaseClient ==
  /\ clientAt = "close"
  /\ Client_Socket' = "invalid"
  /\ wsaStarted' = FALSE
  /\ hasManager' = FALSE
  /\ serverOpen' = FALSE
  /\ clientAt' = "end"
  /\ UNCHANGED <<taskVars, buff_message, inbox, silence, wentRound, sendFailed,
                 wrapped>>

ClientStep ==
  \/ Startup \/ OpenSocket \/ Connect \/ SetNonBlocking \/ CreateTaskManager
  \/ NameInput \/ Key \/ NoKey \/ EnterExit \/ EnterLong \/ EnterMessage
  \/ ChatReceive \/ ChatRunTask \/ ChatLookAtTask \/ vOnRunTask \/ ChatGoesRound
  \/ Shutdown \/ FinalReceive \/ ReleaseClient

-----------------------------------------------------------------------------
(* The server, and time. *)

ServerSends ==
  /\ serverOpen /\ ~inbox
  /\ inbox' = TRUE
  /\ UNCHANGED <<taskVars, programVars, serverOpen, ghosts>>

\* It exits, drops the client, or has seen the client's shutdown.
ServerCloses ==
  /\ serverOpen
  /\ serverOpen' = FALSE
  /\ UNCHANGED <<taskVars, programVars, inbox, ghosts>>

TimePasses ==
  /\ clientAt = "name" \/ (clientAt = "input" /\ wentRound)
  /\ Tick
  /\ wrapped' = (wrapped \/ clock = ClockMax)
  /\ wentRound' = FALSE
  /\ silence' = IF silence < DropDelay THEN silence + 1 ELSE silence
  /\ UNCHANGED <<programVars, serverSide, sendFailed>>

ClientNext == ClientStep \/ ServerSends \/ ServerCloses \/ TimePasses

ClientSpec ==
  /\ ClientInit /\ [][ClientNext]_clientVars
  /\ WF_clientVars(Shutdown \/ FinalReceive \/ ReleaseClient)
  /\ WF_clientVars(clientAt = "drain" /\ ServerCloses)

-----------------------------------------------------------------------------
\* A client in the chat is never silent for as long as the server takes to
\* drop it, whether its user types or not, unless SendEx gave up on it or
\* timeGetTime wrapped, which puts the heartbeat off by up to 49 days.
NeverSilent ==
  InChat /\ ~sendFailed /\ ~wrapped => silence < DropDelay

\* Whatever call failed, Release gives back all there was and finds a socket
\* of the client's to close, or none; only when WSAStartup itself has failed is
\* it 0, a handle nobody opened, that Release shuts down and closes.
ReleaseClean ==
  /\ hasManager => Client_Socket = "open" /\ wsaStarted
  /\ clientAt = "close" /\ Client_Socket = "zero" => ~wsaStarted
  /\ clientAt = "end" => /\ Client_Socket = "invalid" /\ ~wsaStarted
                         /\ ~hasManager /\ ~serverOpen

\* The shutdown ends, however much the server still sends.
ShutdownEnded == clientAt \notin {"shutdown", "drain", "close"}

\* The client keeps its place in the chat and leaves nothing behind.
ClientSound == NeverSilent /\ ReleaseClean
=============================================================================

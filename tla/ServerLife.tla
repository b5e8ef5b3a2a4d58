------------------------------ MODULE ServerLife ------------------------------
(***************************************************************************)
(* How MintServer starts and ends: GameServer::MainRun with every call of  *)
(* Windows in Create that may fail, the three threads that run while the   *)
(* rest is still being set up, and Release.  What the threads do in        *)
(* between is in TCPServer; here they wait, work and, on "server_exit",    *)
(* end.                                                                    *)
(***************************************************************************)
EXTENDS Naturals, Sequences

ServerThread == {"accept", "gameplay", "send"}
CreateOrder == <<"accept", "gameplay", "send">>   \* and the order of ReleaseWait

VARIABLES
  mainDoes,             \* where MainRun is: <<call>> or <<call, thread>>
  wsaUp, poolUp,        \* between WSAStartup and WSACleanup, Create and Release
  ListenSocket,         \* "raw", "invalid", "open" or "closed"
  listsCreated,         \* the lists of TCPServer
  playersCreated,       \* PlayerInfoList
  CreateSucceedFlag, RunFlag,     \* anything until Create sets them
  ThreadHandle, WaitHandle,       \* of each CThread: they are not NULL
  signalled,            \* the event of each thread
  threadAt,             \* where each thread is; "none" before it begins
  due,                  \* what is in PacketRecvList: notices and packets of
                        \* clients, "server_exit"
  usedRaw               \* who has read a list that was not created, or no more

lifeMain == <<mainDoes, wsaUp, poolUp, listsCreated, playersCreated,
              CreateSucceedFlag>>
lifeThreads == <<ThreadHandle, WaitHandle, signalled, threadAt>>
lifeVars == <<lifeMain, lifeThreads, ListenSocket, RunFlag, due, usedRaw>>

\* The server is a local variable whose constructor sets only the handles.
LifeInit ==
  /\ mainDoes = <<"pool">>
  /\ wsaUp = FALSE /\ poolUp = FALSE /\ ListenSocket = "raw"
  /\ listsCreated = FALSE /\ playersCreated = FALSE
  /\ CreateSucceedFlag \in BOOLEAN /\ RunFlag \in BOOLEAN
  /\ ThreadHandle = [t \in ServerThread |-> FALSE]
  /\ WaitHandle = ThreadHandle /\ signalled = ThreadHandle
  /\ threadAt = [t \in ServerThread |-> "none"]
  /\ due = {} /\ usedRaw = {}

At(call) == mainDoes = <<call>>
AtThread(call, t) == mainDoes = <<call, t>>

\* The thread after t, and then `done`.
ThreadAfter(call, t, done) ==
  LET i == CHOOSE j \in 1 .. 3 : CreateOrder[j] = t
  IN  IF i = 3 THEN <<done>> ELSE <<call, CreateOrder[i + 1]>>

-----------------------------------------------------------------------------
(* Create. *)

LifeCreate ==
  /\ At("pool")
  /\ poolUp' = TRUE
  /\ mainDoes' = <<"WSAStartup">>
  /\ UNCHANGED <<wsaUp, listsCreated, playersCreated, CreateSucceedFlag,
                 lifeThreads, ListenSocket, RunFlag, due, usedRaw>>

\* Whatever fails, GameServer's MainRun goes on to its own Create; the socket
\* stays open.
CreateWinsock ==
  /\ \/ /\ At("WSAStartup")
        /\ \/ wsaUp' = TRUE /\ mainDoes' = <<"socket">>
           \/ wsaUp' = FALSE /\ mainDoes' = <<"players">>
        /\ UNCHANGED ListenSocket
     \/ /\ At("socket")
        /\ \/ ListenSocket' = "open" /\ mainDoes' = <<"bind">>
           \/ ListenSocket' = "invalid" /\ mainDoes' = <<"players">>
        /\ UNCHANGED wsaUp
     \/ /\ At("bind") /\ mainDoes' \in {<<"listen">>, <<"players">>}
        /\ UNCHANGED <<wsaUp, ListenSocket>>
     \/ /\ At("listen") /\ mainDoes' \in {<<"ioctlsocket">>, <<"players">>}
        /\ UNCHANGED <<wsaUp, ListenSocket>>
     \/ /\ At("ioctlsocket") /\ mainDoes' \in {<<"lists">>, <<"players">>}
        /\ UNCHANGED <<wsaUp, ListenSocket>>
  /\ UNCHANGED <<poolUp, listsCreated, playersCreated, CreateSucceedFlag,
                 lifeThreads, RunFlag, due, usedRaw>>

CreateLists ==
  /\ At("lists")
  /\ listsCreated' = TRUE
  /\ CreateSucceedFlag' = TRUE /\ RunFlag' = TRUE
  /\ mainDoes' = <<"event", "accept">>
  /\ UNCHANGED <<wsaUp, poolUp, playersCreated, lifeThreads, ListenSocket,
                 due, usedRaw>>

\* CThread::Create: neither call is checked.  The thread begins before its
\* handle is stored.
CreateEvent(t) ==
  /\ AtThread("event", t)
  /\ \E created \in BOOLEAN : WaitHandle' = [WaitHandle EXCEPT ![t] = created]
  /\ mainDoes' = <<"begin", t>>
  /\ UNCHANGED <<wsaUp, poolUp, listsCreated, playersCreated, CreateSucceedFlag,
                 ThreadHandle, signalled, threadAt, ListenSocket, RunFlag,
                 due, usedRaw>>

BeginThread(t) ==
  /\ AtThread("begin", t)
  /\ \/ threadAt' = [threadAt EXCEPT ![t] = "outer"] /\ mainDoes' = <<"handle", t>>
     \/ mainDoes' = ThreadAfter("event", t, "players") /\ UNCHANGED threadAt
  /\ UNCHANGED <<wsaUp, poolUp, listsCreated, playersCreated, CreateSucceedFlag,
                 ThreadHandle, WaitHandle, signalled, ListenSocket, RunFlag,
                 due, usedRaw>>

StoreHandle(t) ==
  /\ AtThread("handle", t)
  /\ ThreadHandle' = [ThreadHandle EXCEPT ![t] = TRUE]
  /\ mainDoes' = ThreadAfter("event", t, "players")
  /\ UNCHANGED <<wsaUp, poolUp, listsCreated, playersCreated, CreateSucceedFlag,
                 WaitHandle, signalled, threadAt, ListenSocket, RunFlag, due,
                 usedRaw>>

\* GameServer::Create, when the threads already run; then TCPServer::MainRun.
CreatePlayers ==
  /\ At("players")
  /\ playersCreated' = TRUE
  /\ mainDoes' = IF CreateSucceedFlag THEN <<"select">> ELSE <<"wait", "accept">>
  /\ UNCHANGED <<wsaUp, poolUp, listsCreated, CreateSucceedFlag, lifeThreads,
                 ListenSocket, RunFlag, due, usedRaw>>

-----------------------------------------------------------------------------
(* MainRun and Release. *)

\* Awake: SetEvent, which fails on a handle that is NULL.
Awoken(t) == [signalled EXCEPT ![t] = @ \/ WaitHandle[t]]

\* A round of Select_InMainThread, after which something may be due: with lists
\* that were never created anything may happen, an end of the program included.
SelectRound ==
  /\ At("select") /\ RunFlag
  /\ IF listsCreated
     THEN /\ due' \in {due, due \cup {"notice"}, due \cup {"exit"}}
          /\ signalled' = Awoken("gameplay")
          /\ UNCHANGED <<mainDoes, usedRaw>>
     ELSE /\ usedRaw' = usedRaw \cup {"main"}
          /\ mainDoes' \in {<<"select">>, <<"undefined">>}
          /\ UNCHANGED <<due, signalled>>
  /\ UNCHANGED <<wsaUp, poolUp, listsCreated, playersCreated, CreateSucceedFlag,
                 ThreadHandle, WaitHandle, threadAt, ListenSocket, RunFlag>>

SelectEnds ==
  /\ At("select") /\ ~RunFlag
  /\ mainDoes' = <<"wait", "accept">>
  /\ UNCHANGED <<wsaUp, poolUp, listsCreated, playersCreated, CreateSucceedFlag,
                 lifeThreads, ListenSocket, RunFlag, due, usedRaw>>

\* Mutant of ReleaseWait: it does not wait.
ReleaseNoWait(t) ==
  /\ AtThread("wait", t)
  /\ mainDoes' = ThreadAfter("wait", t, "clients")
  /\ UNCHANGED <<wsaUp, poolUp, listsCreated, playersCreated, CreateSucceedFlag,
                 lifeThreads, ListenSocket, RunFlag, due, usedRaw>>

\* CThread::ReleaseWait.
ReleaseWait(t) ==
  /\ AtThread("wait", t) /\ ~ThreadHandle[t]
  /\ mainDoes' = ThreadAfter("wait", t, "clients")
  /\ UNCHANGED <<wsaUp, poolUp, listsCreated, playersCreated, CreateSucceedFlag,
                 lifeThreads, ListenSocket, RunFlag, due, usedRaw>>

\* It walks ClientList, created or not.
ShutdownAndCloseSocket ==
  /\ At("clients")
  /\ IF listsCreated
     THEN mainDoes' = <<"WSACleanup">> /\ UNCHANGED usedRaw
     ELSE /\ mainDoes' \in {<<"WSACleanup">>, <<"undefined">>}
          /\ usedRaw' = usedRaw \cup {"main"}
  /\ UNCHANGED <<wsaUp, poolUp, listsCreated, playersCreated, CreateSucceedFlag,
                 lifeThreads, ListenSocket, RunFlag, due>>

\* WSACleanup and sMemoryPoolRelease; with the pool the lists' nodes go.
LifeRelease ==
  /\ At("WSACleanup")
  /\ wsaUp' = FALSE /\ poolUp' = FALSE
  /\ mainDoes' = <<"end">>
  /\ UNCHANGED <<listsCreated, playersCreated, CreateSucceedFlag, lifeThreads,
                 ListenSocket, RunFlag, due, usedRaw>>

LifeOfMain ==
  \/ LifeCreate \/ CreateWinsock \/ CreateLists \/ CreatePlayers
  \/ SelectEnds \/ ShutdownAndCloseSocket \/ LifeRelease
  \/ \E t \in ServerThread :
       CreateEvent(t) \/ BeginThread(t) \/ StoreHandle(t) \/ ReleaseWait(t)

-----------------------------------------------------------------------------
(* The threads. *)

MoveThread(t, here, next) ==
  /\ threadAt[t] = here
  /\ threadAt' = [threadAt EXCEPT ![t] = next]
  /\ UNCHANGED lifeMain

TestRun(t) ==
  /\ MoveThread(t, "outer", IF RunFlag THEN "wait" ELSE "close")
  /\ UNCHANGED <<ThreadHandle, WaitHandle, signalled, ListenSocket, RunFlag,
                 due, usedRaw>>

\* WaitForSingleObject, then ResetEvent.  On a handle that is NULL the wait
\* fails, and is over at once.
WaitOver(t) ==
  /\ signalled[t] \/ ~WaitHandle[t]
  /\ MoveThread(t, "wait", "reset")
  /\ UNCHANGED <<ThreadHandle, WaitHandle, signalled, ListenSocket, RunFlag,
                 due, usedRaw>>

ResetSignal(t) ==
  /\ MoveThread(t, "reset", "work")
  /\ signalled' = [signalled EXCEPT ![t] = FALSE]
  /\ UNCHANGED <<ThreadHandle, WaitHandle, ListenSocket, RunFlag, due, usedRaw>>

\* A thread uses the lists and finds nothing to do, any more.
WorkInLists(t) ==
  /\ t = "gameplay" => due = {}
  /\ MoveThread(t, "work", "outer")
  /\ usedRaw' = IF listsCreated /\ poolUp THEN usedRaw ELSE usedRaw \cup {t}
  /\ UNCHANGED <<ThreadHandle, WaitHandle, signalled, ListenSocket, RunFlag, due>>

\* The gameplay thread takes what is due, for a client's notice or packet from
\* the list of the players too.
TakeDue ==
  /\ \E d \in due :
       /\ due' = due \ {d}
       /\ MoveThread("gameplay", "work", IF d = "exit" THEN "exit" ELSE "work")
       /\ usedRaw' = IF /\ listsCreated /\ poolUp
                        /\ d = "notice" => playersCreated
                     THEN usedRaw ELSE usedRaw \cup {"gameplay"}
  /\ UNCHANGED <<ThreadHandle, WaitHandle, signalled, ListenSocket, RunFlag>>

\* The main thread wakes the accept thread for a request, and the gameplay
\* thread the send thread for a packet.
AwakeThread(t) ==
  /\ \/ t = "accept" /\ At("select") /\ listsCreated
     \/ t = "send" /\ threadAt["gameplay"] = "work"
  /\ signalled' = Awoken(t)
  /\ UNCHANGED <<lifeMain, ThreadHandle, WaitHandle, threadAt, ListenSocket,
                 RunFlag, due, usedRaw>>

\* ServerExit: the flag, the listening socket, and the three events.
LifeServerExit ==
  \/ /\ MoveThread("gameplay", "exit", "exit socket")
     /\ RunFlag' = FALSE
     /\ UNCHANGED <<ThreadHandle, WaitHandle, signalled, ListenSocket, due,
                    usedRaw>>
  \/ /\ MoveThread("gameplay", "exit socket", "awake accept")
     /\ ListenSocket' = "closed"
     /\ UNCHANGED <<ThreadHandle, WaitHandle, signalled, RunFlag, due, usedRaw>>
  \/ \E step \in {<<"awake accept", "accept", "awake gameplay">>,
                  <<"awake gameplay", "gameplay", "awake send">>,
                  <<"awake send", "send", "outer">>} :
       /\ MoveThread("gameplay", step[1], step[3])
       /\ signalled' = Awoken(step[2])
       /\ UNCHANGED <<ThreadHandle, WaitHandle, ListenSocket, RunFlag, due,
                      usedRaw>>

\* CThread::Release, by the thread itself: when the handle is NULL the main
\* thread goes on, although the event is still to be closed.
CloseThreadHandle(t) ==
  /\ MoveThread(t, "close", "close event")
  /\ ThreadHandle' = [ThreadHandle EXCEPT ![t] = FALSE]
  /\ UNCHANGED <<WaitHandle, signalled, ListenSocket, RunFlag, due, usedRaw>>

CloseEvent(t) ==
  /\ MoveThread(t, "close event", "end")
  /\ WaitHandle' = [WaitHandle EXCEPT ![t] = FALSE]
  /\ UNCHANGED <<ThreadHandle, signalled, ListenSocket, RunFlag, due, usedRaw>>

LifeOfThread(t) ==
  \/ TestRun(t) \/ WaitOver(t) \/ ResetSignal(t) \/ WorkInLists(t)
  \/ CloseThreadHandle(t) \/ CloseEvent(t)
  \/ t = "gameplay" /\ (TakeDue \/ LifeServerExit)

LifeNext ==
  \/ LifeOfMain \/ SelectRound
  \/ \E t \in ServerThread : LifeOfThread(t) \/ AwakeThread(t)

LifeSpec ==
  /\ LifeInit /\ [][LifeNext]_lifeVars
  /\ WF_lifeVars(LifeOfMain)
  /\ \A t \in ServerThread : WF_lifeVars(LifeOfThread(t))

-----------------------------------------------------------------------------
\* The threads run before MainRun has set everything up, and beyond the point
\* where it has begun to take it down, and one whose event was not created does
\* not even wait to be woken: still none uses a list before it is created or
\* after its memory is gone.  The main thread does so only when Create has
\* failed.
ListsLiveLongEnough ==
  usedRaw \subseteq {"main"} /\ (usedRaw # {} => ~listsCreated)

\* A thread's Release never comes before its handle is stored, after which
\* ReleaseWait would wait for ever; and no thread sleeps through ServerExit.
\* So the program ends once "server_exit" has been taken, or Create has failed,
\* whichever threads and events there are, but for what it does with lists that
\* were never created.
ServerEnded ==
  \/ At("pool") \/ At("undefined")
  \/ At("select") /\ RunFlag
  \/ At("end") /\ \A t \in ServerThread : threadAt[t] \in {"none", "end"}
=============================================================================

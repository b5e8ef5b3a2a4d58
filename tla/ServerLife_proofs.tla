--------------------------- MODULE ServerLife_proofs ---------------------------
(***************************************************************************)
(* The start and the end of MintServer: no thread uses a list before it is *)
(* created or after its memory is gone.                                    *)
(***************************************************************************)
EXTENDS ServerLife, TLAPS

\* The calls of MainRun, in three stages: until the threads begin, while they
\* are created, and from GameServer::Create on.
Before == {"pool", "WSAStartup", "socket", "bind", "listen", "ioctlsocket", "lists"}
Creating == {"event", "begin", "handle"}
Call == Before \cup Creating
          \cup {"players", "select", "wait", "clients", "WSACleanup", "end",
                "undefined"}

ThreadStep == {"none", "outer", "wait", "reset", "work", "exit", "exit socket",
               "awake accept", "awake gameplay", "awake send", "close",
               "close event", "end"}

LifeTypeOK ==
  /\ mainDoes[1] \in Call
  /\ mainDoes[1] \in Creating \cup {"wait"} => mainDoes[2] \in ServerThread
  /\ listsCreated \in BOOLEAN /\ poolUp \in BOOLEAN /\ playersCreated \in BOOLEAN
  /\ ThreadHandle \in [ServerThread -> BOOLEAN]
  /\ WaitHandle \in [ServerThread -> BOOLEAN]
  /\ signalled \in [ServerThread -> BOOLEAN]
  /\ threadAt \in [ServerThread -> ThreadStep]

\* The thread uses no list from here on.
Done(t) == threadAt[t] \in {"none", "close event", "end"}

\* What main has set up by the time of each call.
SetUp ==
  /\ mainDoes[1] \in Before => /\ usedRaw = {}
                               /\ \A t \in ServerThread : threadAt[t] = "none"
  /\ mainDoes[1] \in Creating => listsCreated
  /\ mainDoes[1] = "select" => playersCreated
  /\ mainDoes[1] \notin {"pool", "end"} => poolUp

\* A thread runs only with the lists there; main's handle of it is stored, or
\* is about to be, until it is done.
Running ==
  \A t \in ServerThread : ~Done(t) =>
    /\ listsCreated
    /\ ThreadHandle[t] \/ (mainDoes[1] = "handle" /\ mainDoes[2] = t)

\* Main waits for one thread after the other.
Awaited ==
  /\ mainDoes[1] = "wait" /\ mainDoes[2] # "accept" => Done("accept")
  /\ mainDoes[1] = "wait" /\ mainDoes[2] = "send" => Done("gameplay")
  /\ mainDoes[1] \in {"clients", "WSACleanup", "end"} =>
       \A t \in ServerThread : Done(t)

\* Nothing is due before the players' list is there: a gameplay thread that
\* has no event to wait for finds nothing.
PlayersFirst == due # {} => playersCreated

LifeInv ==
  LifeTypeOK /\ SetUp /\ Running /\ Awaited /\ PlayersFirst /\ ListsLiveLongEnough
-----------------------------------------------------------------------------
LEMMA LifeInvInit == LifeInit => LifeInv
<1> SUFFICES ASSUME LifeInit PROVE LifeInv
  OBVIOUS
<1>1. /\ mainDoes[1] = "pool" /\ usedRaw = {} /\ due = {}
      /\ threadAt = [t \in ServerThread |-> "none"]
      /\ ThreadHandle = [t \in ServerThread |-> FALSE]
      /\ WaitHandle = ThreadHandle /\ signalled = ThreadHandle
      /\ listsCreated = FALSE /\ poolUp = FALSE /\ playersCreated = FALSE
  BY DEF LifeInit
<1>2. ThreadHandle \in [ServerThread -> BOOLEAN]
  BY <1>1 DEF ServerThread
<1> QED
  BY <1>1, <1>2 DEF LifeInv, LifeTypeOK, SetUp, Running, Awaited, PlayersFirst,
     ListsLiveLongEnough, Call, Before, Creating, ServerThread, ThreadStep, Done

\* The threads in the order in which they are created and waited for.
LEMMA NextThread ==
  ASSUME NEW call, NEW done, NEW t \in ServerThread
  PROVE  /\ t = "send" => ThreadAfter(call, t, done)[1] = done
         /\ t # "send" => ThreadAfter(call, t, done)[1] = call
         /\ t = "accept" => ThreadAfter(call, t, done)[2] = "gameplay"
         /\ t = "gameplay" => ThreadAfter(call, t, done)[2] = "send"
<1>1. (CHOOSE j \in 1 .. 3 : CreateOrder[j] = "accept") = 1
  BY DEF CreateOrder
<1>2. (CHOOSE j \in 1 .. 3 : CreateOrder[j] = "gameplay") = 2
  BY DEF CreateOrder
<1>3. (CHOOSE j \in 1 .. 3 : CreateOrder[j] = "send") = 3
  BY DEF CreateOrder
<1>4. CASE t = "accept"
  BY <1>1, <1>4 DEF ThreadAfter, CreateOrder
<1>5. CASE t = "gameplay"
  BY <1>2, <1>5 DEF ThreadAfter, CreateOrder
<1>6. CASE t = "send"
  BY <1>3, <1>6 DEF ThreadAfter, CreateOrder
<1> QED
  BY <1>4, <1>5, <1>6 DEF ServerThread

\* What the calls that may fail, and those that go through the threads, do.
LEMMA CreateWinsockGoesTo ==
  ASSUME CreateWinsock
  PROVE  /\ mainDoes[1] \in Before \ {"pool"}
         /\ mainDoes'[1] \in (Before \ {"pool"}) \cup {"players"}
<1>1. CASE At("WSAStartup")
  BY <1>1 DEF CreateWinsock, At, Before
<1>2. CASE At("socket")
  BY <1>2 DEF CreateWinsock, At, Before
<1>3. CASE At("bind")
  BY <1>3 DEF CreateWinsock, At, Before
<1>4. CASE At("listen")
  BY <1>4 DEF CreateWinsock, At, Before
<1>5. CASE At("ioctlsocket")
  BY <1>5 DEF CreateWinsock, At, Before
<1> QED
  BY <1>1, <1>2, <1>3, <1>4, <1>5 DEF CreateWinsock

LEMMA CreateGoesTo ==
  ASSUME NEW t \in ServerThread, mainDoes' = ThreadAfter("event", t, "players")
  PROVE  \/ mainDoes'[1] = "players"
         \/ mainDoes'[1] = "event" /\ mainDoes'[2] \in ServerThread
BY NextThread DEF ServerThread

LEMMA ReleaseWaitGoesTo ==
  ASSUME NEW t \in ServerThread, ReleaseWait(t)
  PROVE  /\ mainDoes[1] = "wait" /\ mainDoes[2] = t
         /\ t = "send" => mainDoes'[1] = "clients"
         /\ t # "send" => mainDoes'[1] = "wait"
         /\ t = "accept" => mainDoes'[2] = "gameplay"
         /\ t = "gameplay" => mainDoes'[2] = "send"
<1>1. mainDoes' = ThreadAfter("wait", t, "clients")
  BY DEF ReleaseWait
<1> QED
  BY <1>1, NextThread DEF ReleaseWait, AtThread

LEMMA WalkGoesTo ==
  /\ SelectRound => /\ mainDoes[1] = "select"
                    /\ mainDoes'[1] \in {"select", "undefined"}
  /\ ShutdownAndCloseSocket => /\ mainDoes[1] = "clients"
                               /\ mainDoes'[1] \in {"WSACleanup", "undefined"}
<1>1. ASSUME SelectRound, listsCreated
      PROVE  mainDoes[1] = "select" /\ mainDoes'[1] = "select"
  BY <1>1 DEF SelectRound, At
<1>2. ASSUME SelectRound, ~listsCreated
      PROVE  mainDoes[1] = "select" /\ mainDoes'[1] \in {"select", "undefined"}
  BY <1>2 DEF SelectRound, At
<1>3. ASSUME ShutdownAndCloseSocket
      PROVE  /\ mainDoes[1] = "clients"
             /\ mainDoes'[1] \in {"WSACleanup", "undefined"}
  BY <1>3 DEF ShutdownAndCloseSocket, At
<1> QED
  BY <1>1, <1>2, <1>3

\* Every call of MainRun keeps the invariant.
LEMMA MainKeeps ==
  ASSUME LifeInv, LifeOfMain
  PROVE  LifeInv'
<1> USE DEF LifeInv, LifeTypeOK, SetUp, Running, Awaited, PlayersFirst,
            ListsLiveLongEnough, Call, Before, Creating, ServerThread, ThreadStep,
            Done, lifeMain, lifeThreads
<1>1. CASE LifeCreate
  BY <1>1 DEF LifeCreate, At
<1>2. CASE CreateWinsock
  BY <1>2, CreateWinsockGoesTo DEF CreateWinsock
<1>3. CASE CreateLists
  BY <1>3 DEF CreateLists, At
<1>4. CASE CreatePlayers
  BY <1>4 DEF CreatePlayers, At
<1>5. CASE SelectEnds
  BY <1>5 DEF SelectEnds, At
<1>6. CASE ShutdownAndCloseSocket
  BY <1>6, WalkGoesTo DEF ShutdownAndCloseSocket
<1>7. CASE LifeRelease
  BY <1>7 DEF LifeRelease, At
<1>8. ASSUME NEW t \in ServerThread, CreateEvent(t) PROVE LifeInv'
  <2>1. PICK created \in BOOLEAN : WaitHandle' = [WaitHandle EXCEPT ![t] = created]
    BY <1>8 DEF CreateEvent
  <2>2. WaitHandle' \in [ServerThread -> BOOLEAN]
    BY <2>1
  <2>3. /\ mainDoes[1] = "event" /\ mainDoes'[1] = "begin" /\ mainDoes'[2] = t
        /\ UNCHANGED <<listsCreated, poolUp, playersCreated, ThreadHandle, signalled,
                       threadAt, due, usedRaw>>
    BY <1>8 DEF CreateEvent, AtThread
  <2> QED
    BY <2>2, <2>3
<1>9. ASSUME NEW t \in ServerThread, BeginThread(t) PROVE LifeInv'
  <2>1. CASE /\ threadAt' = [threadAt EXCEPT ![t] = "outer"]
             /\ mainDoes' = <<"handle", t>>
    BY <1>9, <2>1 DEF BeginThread, AtThread
  <2>2. CASE mainDoes' = ThreadAfter("event", t, "players") /\ UNCHANGED threadAt
    BY <1>9, <2>2, CreateGoesTo DEF BeginThread, AtThread
  <2> QED
    BY <1>9, <2>1, <2>2 DEF BeginThread
<1>10. ASSUME NEW t \in ServerThread, StoreHandle(t) PROVE LifeInv'
  BY <1>10, CreateGoesTo DEF StoreHandle, AtThread
<1>11. ASSUME NEW t \in ServerThread, ReleaseWait(t) PROVE LifeInv'
  BY <1>11, ReleaseWaitGoesTo DEF ReleaseWait
<1> QED
  BY <1>1, <1>2, <1>3, <1>4, <1>5, <1>6, <1>7, <1>8, <1>9, <1>10, <1>11
     DEF LifeOfMain

InServerExit == {"exit", "exit socket", "awake accept", "awake gameplay", "awake send"}

LEMMA ExitGoesTo ==
  ASSUME LifeServerExit, signalled \in [ServerThread -> BOOLEAN],
         WaitHandle \in [ServerThread -> BOOLEAN]
  PROVE  /\ threadAt["gameplay"] \in InServerExit
         /\ \E next \in InServerExit \cup {"outer"} :
              threadAt' = [threadAt EXCEPT !["gameplay"] = next]
         /\ signalled' \in [ServerThread -> BOOLEAN]
         /\ UNCHANGED <<mainDoes, listsCreated, poolUp, playersCreated,
                        ThreadHandle, WaitHandle, due, usedRaw>>
<1> DEFINE Exit(here, next, t) ==
      /\ MoveThread("gameplay", here, next)
      /\ signalled' = Awoken(t)
      /\ UNCHANGED <<ThreadHandle, WaitHandle, due, usedRaw>>
<1>1. CASE MoveThread("gameplay", "exit", "exit socket")
           /\ UNCHANGED <<ThreadHandle, WaitHandle, signalled, due, usedRaw>>
  BY <1>1 DEF MoveThread, InServerExit, lifeMain
<1>2. CASE MoveThread("gameplay", "exit socket", "awake accept")
           /\ UNCHANGED <<ThreadHandle, WaitHandle, signalled, due, usedRaw>>
  BY <1>2 DEF MoveThread, InServerExit, lifeMain
<1>3. \A t \in ServerThread : Awoken(t) \in [ServerThread -> BOOLEAN]
  BY DEF Awoken
<1>4. CASE Exit("awake accept", "awake gameplay", "accept")
  BY <1>3, <1>4 DEF MoveThread, InServerExit, lifeMain, ServerThread
<1>5. CASE Exit("awake gameplay", "awake send", "gameplay")
  BY <1>3, <1>5 DEF MoveThread, InServerExit, lifeMain, ServerThread
<1>6. CASE Exit("awake send", "outer", "send")
  BY <1>3, <1>6 DEF MoveThread, InServerExit, lifeMain, ServerThread
<1>7. ASSUME NEW step \in {<<"awake accept", "accept", "awake gameplay">>,
                           <<"awake gameplay", "gameplay", "awake send">>,
                           <<"awake send", "send", "outer">>},
             Exit(step[1], step[3], step[2])
      PROVE  \/ Exit("awake accept", "awake gameplay", "accept")
             \/ Exit("awake gameplay", "awake send", "gameplay")
             \/ Exit("awake send", "outer", "send")
  <2> HIDE DEF Exit
  <2>1. CASE step = <<"awake accept", "accept", "awake gameplay">>
    BY <1>7, <2>1
  <2>2. CASE step = <<"awake gameplay", "gameplay", "awake send">>
    BY <1>7, <2>2
  <2>3. CASE step = <<"awake send", "send", "outer">>
    BY <1>7, <2>3
  <2> QED
    BY <1>7, <2>1, <2>2, <2>3
<1>8. CASE \E step \in {<<"awake accept", "accept", "awake gameplay">>,
                      <<"awake gameplay", "gameplay", "awake send">>,
                      <<"awake send", "send", "outer">>} :
             Exit(step[1], step[3], step[2])
  BY <1>4, <1>5, <1>6, <1>7, <1>8
<1> QED
  BY <1>1, <1>2, <1>8 DEF LifeServerExit

\* A round of the select loop, a wake-up and every step of a thread keep it.
LEMMA ThreadsKeep ==
  ASSUME LifeInv, NEW t \in ServerThread,
         SelectRound \/ LifeOfThread(t) \/ AwakeThread(t)
  PROVE  LifeInv'
<1> USE DEF LifeInv, LifeTypeOK, SetUp, Running, Awaited, PlayersFirst,
            ListsLiveLongEnough, Call, Before, Creating, ServerThread, ThreadStep,
            Done, InServerExit, At, AtThread, lifeMain, lifeThreads, Awoken, MoveThread
<1>1. CASE SelectRound
  BY <1>1, WalkGoesTo DEF SelectRound
<1>2. CASE TestRun(t)
  BY <1>2 DEF TestRun
<1>3. CASE WaitOver(t)
  BY <1>3 DEF WaitOver
<1>4. CASE ResetSignal(t)
  BY <1>4 DEF ResetSignal
<1>5. CASE WorkInLists(t)
  BY <1>5 DEF WorkInLists
<1>10. CASE t = "gameplay" /\ TakeDue
  <2>1. PICK d \in due :
          /\ due' = due \ {d}
          /\ MoveThread("gameplay", "work", IF d = "exit" THEN "exit" ELSE "work")
          /\ usedRaw' = IF /\ listsCreated /\ poolUp
                           /\ d = "notice" => playersCreated
                        THEN usedRaw ELSE usedRaw \cup {"gameplay"}
    BY <1>10 DEF TakeDue
  <2>2. due # {}
    BY <2>1
  <2> QED
    BY <1>10, <2>1, <2>2 DEF TakeDue
<1>6. CASE CloseThreadHandle(t)
  BY <1>6 DEF CloseThreadHandle
<1>7. CASE CloseEvent(t)
  BY <1>7 DEF CloseEvent
<1>8. CASE LifeServerExit
  <2>1. PICK next \in InServerExit \cup {"outer"} :
               threadAt' = [threadAt EXCEPT !["gameplay"] = next]
    BY <1>8, ExitGoesTo
  <2>2. /\ threadAt["gameplay"] \in InServerExit
        /\ signalled' \in [ServerThread -> BOOLEAN]
        /\ UNCHANGED <<mainDoes, listsCreated, poolUp, playersCreated,
                       ThreadHandle, WaitHandle, due, usedRaw>>
    BY <1>8, ExitGoesTo
  <2>3. LifeTypeOK' /\ SetUp'
    BY <2>1, <2>2
  <2>4. Running' /\ Awaited'
    BY <2>1, <2>2
  <2> QED
    BY <2>1, <2>2, <2>3, <2>4
<1>9. CASE AwakeThread(t)
  BY <1>9 DEF AwakeThread
<1> QED
  BY <1>1, <1>2, <1>3, <1>4, <1>5, <1>6, <1>7, <1>8, <1>9, <1>10 DEF LifeOfThread

\* The threads run before MainRun has set everything up and while it takes it
\* down: none uses a list before it is created or after its memory is gone,
\* and the main thread only when Create has failed.
THEOREM ListsOutliveThreads == LifeSpec => []ListsLiveLongEnough
<1>1. LifeInv /\ [LifeNext]_lifeVars => LifeInv'
  <2> SUFFICES ASSUME LifeInv, [LifeNext]_lifeVars
               PROVE  LifeInv'
    OBVIOUS
  <2>1. CASE LifeOfMain
    BY <2>1, MainKeeps
  <2>2. CASE SelectRound
    BY <2>2, ThreadsKeep DEF ServerThread
  <2>3. CASE \E t \in ServerThread : LifeOfThread(t) \/ AwakeThread(t)
    BY <2>3, ThreadsKeep
  <2>4. CASE UNCHANGED lifeVars
    BY <2>4 DEF lifeVars, lifeMain, lifeThreads, LifeInv, LifeTypeOK, SetUp, Running,
       Awaited, PlayersFirst, ListsLiveLongEnough, Done
  <2> QED
    BY <2>1, <2>2, <2>3, <2>4 DEF LifeNext
<1>2. LifeInv => ListsLiveLongEnough
  BY DEF LifeInv
<1> QED
  BY LifeInvInit, <1>1, <1>2, PTL DEF LifeSpec
================================================================================

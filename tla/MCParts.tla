------------------------------- MODULE MCParts -------------------------------
(***************************************************************************)
(* For TLC: the classes of MTLibrary, the clients, the life of the server  *)
(* and the tutorials' programs, one of them in each behaviour.  `part' says *)
(* which one; the variables of the others stay as they are.                *)
(***************************************************************************)
EXTENDS Lists, MemoryPool, MintClient, ComponentTree, Mailbox, ServerLife,
        ThreadCounter, ThreadLock, MultiLock, ProducerConsumer, PacketStream,
        UnityClient, EchoPrograms

CONSTANT QueueMax           \* bound: nodes linked in the mailbox at a time

VARIABLE part               \* what this behaviour is about

Parts == {"lists", "memory", "tasks", "client", "tree", "mailbox", "life",
          "counter", "lock", "multilock", "work", "stream", "unity", "echo"}

libraryVars == <<listsVars, memoryVars, clientVars, treeVars, mailboxVars, lifeVars>>
programsVars == <<counterVars, lockVars, multiVars, workVars, streamVars,
                  unityVars, echoVars>>
partsVars == <<part, libraryVars, programsVars>>

MCListOf == [t1 |-> "l1", t2 |-> "l1", t3 |-> "l2"]
MCIDs == [a |-> {1}, b |-> {1}, c |-> {2}]
MCRunCounts == {2, -1234}

MCInit ==
  /\ part \in Parts
  /\ ListsInit /\ MemoryInit /\ ClientInit /\ TreeInit /\ MailboxInit /\ LifeInit
  /\ CounterInit /\ LockInit /\ MultiInit /\ WorkInit /\ StreamInit
  /\ UnityInit /\ EchoInit
  /\ part # "lists" => class = "SinglyList"
  /\ part # "tree" => overrides = {}
  /\ part # "life" => ~CreateSucceedFlag /\ ~RunFlag
  /\ part # "multilock" => test = "deadlock"
  /\ part # "stream" => receiver = "server"
  /\ part # "echo" => /\ serverKind = "select"
                      /\ \A c \in EchoConn : clientKind[c] = "blocking"
  \* The two connections are alike: only one order of their kinds.
  /\ LET first == CHOOSE c \in EchoConn : TRUE IN
       clientKind[first] = "non-blocking" =>
         \A c \in EchoConn : clientKind[c] = "non-blocking"

\* A step of one part, which leaves the variables of the others alone.
Only(p, others) == part = p /\ UNCHANGED <<part, others>>
OneList == Only("lists",
  <<memoryVars, clientVars, treeVars, mailboxVars, lifeVars, programsVars>>)
OnePool == Only("memory",
  <<listsVars, clientVars, treeVars, mailboxVars, lifeVars, programsVars>>)
OneManager == Only("tasks",
  <<listsVars, memoryVars, programVars, serverSide, ghosts, treeVars,
    mailboxVars, lifeVars, programsVars>>)
OneClient == Only("client",
  <<listsVars, memoryVars, treeVars, mailboxVars, lifeVars, programsVars>>)
OneTree == Only("tree",
  <<listsVars, memoryVars, clientVars, mailboxVars, lifeVars, programsVars>>)
OneMailbox == Only("mailbox",
  <<listsVars, memoryVars, clientVars, treeVars, lifeVars, programsVars>>)
OneLife == Only("life",
  <<listsVars, memoryVars, clientVars, treeVars, mailboxVars, programsVars>>)
OneCounter == Only("counter",
  <<lockVars, multiVars, workVars, streamVars, unityVars, echoVars,
    libraryVars>>)
OneLock == Only("lock",
  <<counterVars, multiVars, workVars, streamVars, unityVars, echoVars,
    libraryVars>>)
OneMultiLock == Only("multilock",
  <<counterVars, lockVars, workVars, streamVars, unityVars, echoVars,
    libraryVars>>)
OneWork == Only("work",
  <<counterVars, lockVars, multiVars, streamVars, unityVars, echoVars,
    libraryVars>>)
OneStream == Only("stream",
  <<counterVars, lockVars, multiVars, workVars, unityVars, echoVars,
    libraryVars>>)
OneUnity == Only("unity",
  <<counterVars, lockVars, multiVars, workVars, streamVars, echoVars,
    libraryVars>>)
OneEcho == Only("echo",
  <<counterVars, lockVars, multiVars, workVars, streamVars, unityVars,
    libraryVars>>)

MCNext ==
  \/ OneList /\ ListsNext
  \/ OnePool /\ MemoryNext
  \/ OneManager /\ TaskNext
  \/ OneClient /\ ClientNext
  \/ OneTree /\ TreeNext
  \/ OneMailbox /\ MailboxNext /\ Len(queue') <= QueueMax
  \/ OneLife /\ LifeNext
  \/ OneCounter /\ CounterNext
  \/ OneLock /\ LockNext
  \/ OneMultiLock /\ MultiNext
  \/ OneWork /\ WorkNext
  \/ OneStream /\ StreamNext
  \/ OneUnity /\ UnityNext
  \/ OneEcho /\ EchoNext

\* The fairness of each part's own specification, in the behaviours of that part.
MCSpec ==
  /\ MCInit /\ [][MCNext]_partsVars
  /\ WF_clientVars(part = "client" /\ (Shutdown \/ FinalReceive \/ ReleaseClient))
  /\ WF_clientVars(part = "client" /\ clientAt = "drain" /\ ServerCloses)
  /\ WF_treeVars(part = "tree" /\ TreeNext)
  /\ WF_mailboxVars(part = "mailbox" /\ Consume)
  /\ \A p \in Producers : WF_mailboxVars(part = "mailbox" /\ Awake(p))
  /\ WF_lifeVars(part = "life" /\ LifeOfMain)
  /\ \A t \in ServerThread : WF_lifeVars(part = "life" /\ LifeOfThread(t))
  /\ WF_counterVars(part = "counter" /\
                    (CreateThread \/ WaitForThreads \/ ReleaseThreads))
  /\ \A t \in PoolThread : WF_counterVars(part = "counter" /\ sTestThreadProc(t))
  /\ WF_lockVars(part = "lock" /\ \/ AllCreated \/ LockWait \/ LockRelease
                                  \/ \E t \in LockingThread : CreateLockThread(t))
  /\ \A t \in LockingThread : WF_lockVars(part = "lock" /\ Test_InThread(t))
  /\ WF_multiVars(part = "multilock" /\ MultiMain)
  /\ \A t \in SwapThread : WF_multiVars(part = "multilock" /\ SwapThreadProc(t))
  /\ WF_workVars(part = "work" /\ Producer_InThread)
  /\ WF_workVars(part = "work" /\ Consumer_InThread)
  /\ WF_workVars(part = "work" /\ WorkMain)
  /\ WF_streamVars(part = "stream" /\ Sending)
  /\ WF_streamVars(part = "stream" /\ Receiving)
  /\ \A t \in SendingThread : WF_unityVars(part = "unity" /\ Sends(t))
  /\ WF_echoVars(part = "echo" /\ ServerRuns)
  /\ \A c \in EchoConn : WF_echoVars(part = "echo" /\ ClientReads(c))

-----------------------------------------------------------------------------
\* Whatever part of the code runs, it ends as far as it should: each module
\* says of its own when.  Main threads get past their waits and threads past
\* theirs, walks and shutdowns finish, a receiving call returns, the server's
\* program ends, and no client of a tutorial's server waits for ever.
EveryPartEnds ==
  []<>(/\ part = "client" => ShutdownEnded
       /\ part = "tree" => TreeEnded
       /\ part = "life" => ServerEnded
       /\ part = "counter" => CounterEnded
       /\ part = "lock" => LockEnded
       /\ part = "multilock" => TestEnded
       /\ part = "work" => WorkEnded
       /\ part = "stream" => ReceiveEnded
       /\ part = "unity" => AliveThreadEnded
       /\ part = "echo" => NobodyStuck)
=============================================================================

--------------------------- MODULE ProducerConsumer ---------------------------
(***************************************************************************)
(* Tutorial 3, "5 - thread - producer consumer list": two threads that     *)
(* take turns over a list, each waking the other by the event of its       *)
(* CThread.  WorkRunFlag and TaskCounter have no lock.                     *)
(***************************************************************************)
EXTENDS SinglyLists

CONSTANT TaskTotal          \* the 2000 of the source

ASSUME TaskTotalAssumption == TaskTotal \in 1 .. ListNodeMax

WorkThread == {"producer", "consumer"}

VARIABLES
  TaskList,
  taskNumber,           \* Counter of the TaskInfo in each node
  WorkRunFlag, TaskCounter,
  workEnds,             \* EndCounter
  turn,                 \* the event of each thread: "set", "reset" or, once
                        \* the thread's Release has closed it, "closed"
  workAt,               \* where each thread is
  task_node,            \* its local variable
  consumed,             \* what the consumer has printed
  workMain

workVars == <<TaskList, taskNumber, WorkRunFlag, TaskCounter, workEnds, turn,
              workAt, task_node, consumed, workMain>>

\* Create, whose last call is ProducerThread.Start().
WorkInit ==
  /\ TaskList = TMPSinglyListCreate(RawList, TaskTotal)
  /\ taskNumber = [n \in Node |-> 0]
  /\ WorkRunFlag = TRUE /\ TaskCounter = 0 /\ workEnds = 0
  /\ turn = [producer |-> "set", consumer |-> "reset"]
  /\ workAt = [t \in WorkThread |-> "top"]
  /\ task_node = [t \in WorkThread |-> NULL]
  /\ consumed = <<>>
  /\ workMain = "wait"

GoOn(t, here, next) ==
  /\ workAt[t] = here
  /\ workAt' = [workAt EXCEPT ![t] = next]
  /\ UNCHANGED workMain

\* CThread::Start: SetEvent fails on a handle that is closed.
SetTurn(t) ==
  turn' = [turn EXCEPT ![t] = IF @ = "closed" THEN @ ELSE "set"]

\* while (WorkRunFlag)
TestRunFlag(t) ==
  /\ GoOn(t, "top", IF WorkRunFlag THEN "wait" ELSE "release")
  /\ UNCHANGED <<TaskList, taskNumber, WorkRunFlag, TaskCounter, workEnds, turn,
                 task_node, consumed>>

\* WaitForSingleObject, and then ResetEvent.
WaitForTurn(t) ==
  /\ turn[t] = "set"
  /\ GoOn(t, "wait", "reset")
  /\ UNCHANGED <<TaskList, taskNumber, WorkRunFlag, TaskCounter, workEnds, turn,
                 task_node, consumed>>

\* Mutant of ResetTurn: the event stays set.
ResetTurnNot(t) ==
  /\ GoOn(t, "reset", IF t = "producer" THEN "inner" ELSE "head")
  /\ UNCHANGED <<TaskList, taskNumber, WorkRunFlag, TaskCounter, workEnds, turn,
                 task_node, consumed>>

ResetTurn(t) ==
  /\ GoOn(t, "reset", IF t = "producer" THEN "inner" ELSE "head")
  /\ turn' = [turn EXCEPT ![t] = "reset"]
  /\ UNCHANGED <<TaskList, taskNumber, WorkRunFlag, TaskCounter, workEnds,
                 task_node, consumed>>

TestInner ==
  /\ GoOn("producer", "inner",
          IF ~WorkRunFlag THEN "top"
          ELSE IF TaskCounter < TaskTotal THEN "get" ELSE "start")
  /\ UNCHANGED <<TaskList, taskNumber, WorkRunFlag, TaskCounter, workEnds, turn,
                 task_node, consumed>>

GetTask ==
  LET n == NodeFor(TaskList, TMPNew(TaskList, NULL))
  IN  /\ GoOn("producer", "get", "number")
      /\ TaskList' = TMPSinglyListGetNode(TaskList, n)
      /\ task_node' = [task_node EXCEPT !["producer"] = n]
      /\ UNCHANGED <<taskNumber, WorkRunFlag, TaskCounter, workEnds, turn, consumed>>

NumberTask ==
  /\ GoOn("producer", "number", "link")
  /\ TaskCounter' = TaskCounter + 1
  /\ taskNumber' =
       [taskNumber EXCEPT ![task_node["producer"]] = TaskCounter + 1]
  /\ UNCHANGED <<TaskList, WorkRunFlag, workEnds, turn, task_node, consumed>>

LinkTask ==
  /\ GoOn("producer", "link", "start")
  /\ TaskList' = TMPSinglyListLink(TaskList, task_node["producer"])
  /\ UNCHANGED <<taskNumber, WorkRunFlag, TaskCounter, workEnds, turn, task_node,
                 consumed>>

\* ConsumerThread.Start(), ProducerThread.Start().
StartConsumer ==
  /\ GoOn("producer", "start", "top")
  /\ SetTurn("consumer")
  /\ UNCHANGED <<TaskList, taskNumber, WorkRunFlag, TaskCounter, workEnds,
                 task_node, consumed>>

\* Mutant of StartProducer: the turn is not passed back.
StartProducerNot ==
  /\ GoOn("consumer", "start", "top")
  /\ UNCHANGED <<TaskList, taskNumber, WorkRunFlag, TaskCounter, workEnds, turn,
                 task_node, consumed>>

StartProducer ==
  /\ GoOn("consumer", "start", "top")
  /\ SetTurn("producer")
  /\ UNCHANGED <<TaskList, taskNumber, WorkRunFlag, TaskCounter, workEnds,
                 task_node, consumed>>

GetHeadTask ==
  /\ GoOn("consumer", "head",
          IF TaskList.pHeadNode = NULL THEN "check" ELSE "consume")
  /\ task_node' = [task_node EXCEPT !["consumer"] = TaskList.pHeadNode]
  /\ UNCHANGED <<TaskList, taskNumber, WorkRunFlag, TaskCounter, workEnds, turn,
                 consumed>>

\* The task is printed; LockUnlinkFreeNode gives its node back.
ConsumeTask ==
  LET n == task_node["consumer"]
  IN  /\ GoOn("consumer", "consume", "head")
      /\ consumed' = Append(consumed, taskNumber[n])
      /\ TaskList' = TMPSinglyListFreeNode(TMPSinglyListUnlink(TaskList, n), n)
      /\ taskNumber' = [taskNumber EXCEPT ![n] = 0]
      /\ UNCHANGED <<WorkRunFlag, TaskCounter, workEnds, turn, task_node>>

CheckTaskCounter ==
  /\ GoOn("consumer", "check", "start")
  /\ WorkRunFlag' = (WorkRunFlag /\ TaskCounter # TaskTotal)
  /\ UNCHANGED <<TaskList, taskNumber, TaskCounter, workEnds, turn, task_node,
                 consumed>>

\* A thread releases its own CThread, and then counts itself.
ReleaseItself(t) ==
  /\ GoOn(t, "release", "count")
  /\ turn' = [turn EXCEPT ![t] = "closed"]
  /\ UNCHANGED <<TaskList, taskNumber, WorkRunFlag, TaskCounter, workEnds,
                 task_node, consumed>>

CountWorkEnd(t) ==
  /\ GoOn(t, "count", "end")
  /\ workEnds' = workEnds + 1
  /\ UNCHANGED <<TaskList, taskNumber, WorkRunFlag, TaskCounter, turn, task_node,
                 consumed>>

EitherThread(t) ==
  \/ TestRunFlag(t) \/ WaitForTurn(t) \/ ResetTurn(t)
  \/ ReleaseItself(t) \/ CountWorkEnd(t)

Producer_InThread ==
  \/ EitherThread("producer")
  \/ TestInner \/ GetTask \/ NumberTask \/ LinkTask \/ StartConsumer

Consumer_InThread ==
  \/ EitherThread("consumer")
  \/ GetHeadTask \/ ConsumeTask \/ CheckTaskCounter \/ StartProducer

\* Wait, then Release of both threads, which have released themselves.
WorkMain ==
  /\ workMain = "wait" /\ workEnds = 2
  /\ workMain' = "end"
  /\ turn' = [t \in WorkThread |-> "closed"]
  /\ UNCHANGED <<TaskList, taskNumber, WorkRunFlag, TaskCounter, workEnds, workAt,
                 task_node, consumed>>

WorkNext ==
  \/ Producer_InThread \/ Consumer_InThread \/ WorkMain
  \/ workMain = "end" /\ UNCHANGED workVars

WorkSpec ==
  /\ WorkInit /\ [][WorkNext]_workVars
  /\ WF_workVars(Producer_InThread) /\ WF_workVars(Consumer_InThread)
  /\ WF_workVars(WorkMain)

-----------------------------------------------------------------------------
HasTurn(t) ==
  \/ turn[t] = "set"
  \/ workAt[t] \in {"reset", "inner", "get", "number", "link", "start",
                    "head", "consume", "check"}

\* Never do both threads have the turn, and until the consumer takes WorkRunFlag
\* down one of them does: no wake-up is lost and none counts double.  This is
\* what protects TaskCounter, which has no lock.
OneTurn ==
  LET turns == Cardinality({t \in WorkThread : HasTurn(t)})
  IN  turns <= 1 /\ (WorkRunFlag => turns = 1)

\* Every task is consumed once and in order, and when main goes on all of them
\* have been and their nodes are back on the free list.
TasksInOrder ==
  /\ consumed = [i \in 1 .. Len(consumed) |-> i]
  /\ workMain = "end" =>
       /\ Len(consumed) = TaskTotal
       /\ TaskList.NodeLinkCount = 0 /\ TaskList.NodeUseCount = 0

\* Tutorial 3-5: the two events pass one turn to and fro, and no task is lost.
TurnsKept == OneTurn /\ TasksInOrder

\* Both threads end and main goes on, although the producer may see WorkRunFlag
\* down, and close its event, before the consumer's last Start sets it.
WorkEnded == TaskCounter = 0 \/ workMain = "end"
=============================================================================

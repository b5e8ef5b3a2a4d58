---------------------------- MODULE TaskManager ----------------------------
(***************************************************************************)
(* TaskManager (Task.cpp): tasks on a TMPDoublyList, each run when its     *)
(* DelayTime has passed (Tool::sDelayTime) and freed when it has run       *)
(* RunCount times.  Nodes are used again for later tasks.                  *)
(***************************************************************************)
EXTENDS DoublyLists, Integers

CONSTANTS
  TaskMax,              \* task_max
  Delays,               \* bound: the delays tasks are given, in ticks
  RunCounts,            \* bound: the run counts, UNLIMITED among them
  ClockMax              \* bound: timeGetTime() counts 0 .. ClockMax and wraps

TASK_RUN_COUNT_UNLIMITED == -1234

\* A delay is a UINT, as the clock is; run_count is positive or UNLIMITED.
ASSUME TaskAssumption ==
  /\ TaskMax \in 1 .. ListNodeMax
  /\ ClockMax \in Nat \ {0} /\ Delays \subseteq 0 .. ClockMax
  /\ RunCounts \subseteq (Nat \ {0}) \cup {TASK_RUN_COUNT_UNLIMITED}

VARIABLES
  taskList,
  task,                 \* DelayTime, RunCount and StartTime of each node; EndTime
                        \* is written and read only inside sDelayTime
  clock,                \* timeGetTime()
  runAt,                \* the node vRunTask is at, NULL outside of it
  calling,              \* it is in vOnRunTask
  age,                  \* ticks since the task was added or last ran
  runs                  \* how often it ran, and how often it was to run

taskVars == <<taskList, task, clock, runAt, calling, age, runs>>

NoTask == [DelayTime |-> 0, RunCount |-> 0, StartTime |-> 0]
LongestDelay == CHOOSE d \in Delays : \A e \in Delays : e <= d

TaskInit ==
  /\ taskList = TMPDoublyListCreate(RawList, TaskMax)
  /\ task = [n \in Node |-> NoTask]
  /\ clock = 0
  /\ runAt = NULL /\ calling = FALSE
  /\ age = [n \in Node |-> 0]
  /\ runs = [n \in Node |-> [done |-> 0, of |-> 0]]

\* By the user of the manager, also from within vOnRunTask.  StartTime is not
\* set: the node is new, or FreeNode has zeroed it.
vAddTask(delay, count) ==
  LET n == NodeFor(taskList, TMPNew(taskList, NULL))
  IN  /\ runAt = NULL \/ calling
      /\ taskList.FreeListCount + taskList.BufferListCount > 0
      /\ taskList' = TMPDoublyListLink(TMPDoublyListGetNode(taskList, NULL), n)
      /\ task' = [task EXCEPT ![n] = [@ EXCEPT !.DelayTime = delay,
                                                !.RunCount = count]]
      /\ age' = [age EXCEPT ![n] = 0]
      /\ runs' = [runs EXCEPT ![n] = [done |-> 0, of |-> count]]
      /\ UNCHANGED <<clock, runAt, calling>>

\* The chat loop puts its heartbeat off after each message.
RestartTask ==
  /\ runAt = NULL
  /\ \E n \in NodesOf(Linked(taskList)) :
       /\ task[n].RunCount = TASK_RUN_COUNT_UNLIMITED
       /\ task' = [task EXCEPT ![n] = [@ EXCEPT !.StartTime = 0]]
  /\ UNCHANGED <<taskList, clock, runAt, calling, age, runs>>

\* sDelayTime: what it returns, and what it leaves in the task.
DelayOver(t) ==
  IF t.StartTime = 0 THEN t.DelayTime = 0
  ELSE clock - t.StartTime >= t.DelayTime

\* Mutant of AfterDelay: the delay does not start anew.
AfterDelayKeeps(t) ==
  IF t.StartTime = 0 /\ t.DelayTime # 0 THEN [t EXCEPT !.StartTime = clock] ELSE t

AfterDelay(t) ==
  IF t.StartTime = 0
  THEN IF t.DelayTime = 0 THEN t ELSE [t EXCEPT !.StartTime = clock]
  ELSE [t EXCEPT !.StartTime = IF DelayOver(t) THEN clock ELSE @]

vRunTask ==
  /\ runAt = NULL
  /\ runAt' = taskList.pHeadNode
  /\ UNCHANGED <<taskList, task, clock, calling, age, runs>>

\* Runs are counted up to one too many.
OneMore(r) == IF r.done <= r.of THEN r.done + 1 ELSE r.done

LookAtTask ==
  /\ runAt # NULL /\ ~calling
  /\ task' = [task EXCEPT ![runAt] = AfterDelay(@)]
  /\ IF DelayOver(task[runAt])
     THEN /\ calling' = TRUE
          /\ age' = [age EXCEPT ![runAt] = 0]
          /\ runs' = [runs EXCEPT ![runAt] =
                         [@ EXCEPT !.done = OneMore(runs[runAt])]]
          /\ UNCHANGED runAt
     ELSE /\ runAt' = taskList.pNext[runAt]
          /\ UNCHANGED <<calling, age, runs>>
  /\ UNCHANGED <<taskList, clock>>

\* Mutant of Finished: a task runs once too often.
FinishedLate(t) == t.RunCount # TASK_RUN_COUNT_UNLIMITED /\ t.RunCount - 1 < 0

\* RunCount, less the run just made, is used up.
Finished(t) == t.RunCount # TASK_RUN_COUNT_UNLIMITED /\ t.RunCount - 1 <= 0

OneLess(count) == IF count = TASK_RUN_COUNT_UNLIMITED THEN count ELSE count - 1

\* Back from vOnRunTask: the task goes on, or its node is unlinked and freed.
AfterTask ==
  /\ calling
  /\ calling' = FALSE
  /\ runAt' = taskList.pNext[runAt]
  /\ IF Finished(task[runAt])
     THEN /\ taskList' = TMPDoublyListFreeNode(
                           TMPDoublyListUnlink(taskList, runAt), runAt)
          /\ task' = [task EXCEPT ![runAt] = NoTask]
     ELSE /\ task' = [task EXCEPT ![runAt] =
                        [@ EXCEPT !.RunCount = OneLess(task[runAt].RunCount)]]
          /\ UNCHANGED taskList
  /\ UNCHANGED <<clock, age, runs>>

\* Time passes at any moment; ages are counted up to the longest delay.
Tick ==
  /\ clock' = (clock + 1) % (ClockMax + 1)
  /\ age' = [n \in Node |-> IF age[n] < LongestDelay THEN age[n] + 1 ELSE age[n]]
  /\ UNCHANGED <<taskList, task, runAt, calling, runs>>

TaskNext ==
  \/ \E delay \in Delays, count \in RunCounts : vAddTask(delay, count)
  \/ RestartTask \/ vRunTask \/ LookAtTask \/ AfterTask \/ Tick

TaskSpec == TaskInit /\ [][TaskNext]_taskVars

-----------------------------------------------------------------------------
\* Also when its node served another task before, and when the clock wraps, a
\* task is not run before its delay has passed since it was added or last ran.
NeverEarly ==
  [][LookAtTask /\ DelayOver(task[runAt]) =>
       age[runAt] >= task[runAt].DelayTime]_taskVars

\* A task runs as often as it was added for and is then gone from the list,
\* even when tasks are added while others run; an unlimited one stays.
RunsCounted ==
  /\ \A i \in 1 .. Len(Linked(taskList)) :
       LET n == Linked(taskList)[i]
           left == IF calling /\ runAt = n THEN 1 ELSE 0
       IN  runs[n].of # TASK_RUN_COUNT_UNLIMITED =>
             runs[n].done - left < runs[n].of
  /\ \A n \in Node : runs[n].done > 0 /\ n \notin NodesOf(Linked(taskList)) =>
       runs[n].done = runs[n].of
  /\ taskList.NodeUseCount = Len(Linked(taskList))
=============================================================================

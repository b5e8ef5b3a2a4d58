------------------------------ MODULE ThreadLock ------------------------------
(***************************************************************************)
(* Tutorial 3, "2 - thread - lock": the three counters are incremented     *)
(* under one critical section; main watches EndCounter without it and then *)
(* deletes it.                                                             *)
(***************************************************************************)
EXTENDS Naturals, FiniteSets

CONSTANTS
  LockingThread,        \* the threads of the pool
  NoThread

ASSUME LockingThreadAssumption ==
  IsFiniteSet(LockingThread) /\ NoThread \notin LockingThread

THREADS == Cardinality(LockingThread)

VARIABLES
  lockedCount,          \* gCounter, Counter and EndCounter
  owner,                \* the thread in the critical section, or NoThread
  sectionExists,        \* between Locker.Create and Locker.Release
  lockStep,             \* where each thread is
  lockMain

lockVars == <<lockedCount, owner, sectionExists, lockStep, lockMain>>

LockInit ==
  /\ lockedCount = [gCounter |-> 0, Counter |-> 0, EndCounter |-> 0]
  /\ owner = NoThread
  /\ sectionExists = TRUE
  /\ lockStep = [t \in LockingThread |-> "none"]
  /\ lockMain = "create"

CreateLockThread(t) ==
  /\ lockMain = "create" /\ lockStep[t] = "none"
  /\ lockStep' = [lockStep EXCEPT ![t] = "lock"]
  /\ UNCHANGED <<lockedCount, owner, sectionExists, lockMain>>

AllCreated ==
  /\ lockMain = "create"
  /\ \A t \in LockingThread : lockStep[t] # "none"
  /\ lockMain' = "wait"
  /\ UNCHANGED <<lockedCount, owner, sectionExists, lockStep>>

\* Mutant of EnterSection: it lets every thread in.
EnterAnyTime(t) ==
  /\ lockStep[t] = "lock"
  /\ owner' = t
  /\ lockStep' = [lockStep EXCEPT ![t] = "gCounter"]
  /\ UNCHANGED <<lockedCount, sectionExists, lockMain>>

EnterSection(t) ==
  /\ lockStep[t] = "lock" /\ owner = NoThread
  /\ owner' = t
  /\ lockStep' = [lockStep EXCEPT ![t] = "gCounter"]
  /\ UNCHANGED <<lockedCount, sectionExists, lockMain>>

\* One of the three increments; no other thread writes in between.
Increment(t, counter, next) ==
  /\ lockStep[t] = counter
  /\ lockedCount' = [lockedCount EXCEPT ![counter] = @ + 1]
  /\ lockStep' = [lockStep EXCEPT ![t] = next]
  /\ UNCHANGED <<owner, sectionExists, lockMain>>

\* After the printf; LeaveCriticalSection also when the section is gone.
LeaveSection(t) ==
  /\ lockStep[t] = "unlock"
  /\ owner' = NoThread
  /\ lockStep' = [lockStep EXCEPT ![t] = "end"]
  /\ UNCHANGED <<lockedCount, sectionExists, lockMain>>

Test_InThread(t) ==
  \/ EnterSection(t)
  \/ Increment(t, "gCounter", "Counter")
  \/ Increment(t, "Counter", "EndCounter")
  \/ Increment(t, "EndCounter", "unlock")
  \/ LeaveSection(t)

LockWait ==
  /\ lockMain = "wait" /\ lockedCount.EndCounter = THREADS
  /\ lockMain' = "release"
  /\ UNCHANGED <<lockedCount, owner, sectionExists, lockStep>>

LockRelease ==
  /\ lockMain = "release"
  /\ sectionExists' = FALSE
  /\ lockMain' = "end"
  /\ UNCHANGED <<lockedCount, owner, lockStep>>

LockNext ==
  \/ \E t \in LockingThread : CreateLockThread(t) \/ Test_InThread(t)
  \/ AllCreated \/ LockWait \/ LockRelease

LockSpec == LockInit /\ [][LockNext]_lockVars

LockFairSpec ==
  /\ LockSpec
  /\ WF_lockVars(AllCreated \/ LockWait \/ LockRelease
                 \/ \E t \in LockingThread : CreateLockThread(t))
  /\ \A t \in LockingThread : WF_lockVars(Test_InThread(t))

-----------------------------------------------------------------------------
Passed(steps) == {t \in LockingThread : lockStep[t] \in steps}

\* No increment is lost: each counter is the number of threads past it, and
\* when main goes on all three are the number of threads.
NoIncrementLost ==
  /\ lockedCount.gCounter =
       Cardinality(Passed({"Counter", "EndCounter", "unlock", "end"}))
  /\ lockedCount.Counter =
       Cardinality(Passed({"EndCounter", "unlock", "end"}))
  /\ lockedCount.EndCounter = Cardinality(Passed({"unlock", "end"}))
  /\ lockMain \in {"release", "end"} =>
       lockedCount = [gCounter |-> THREADS, Counter |-> THREADS,
                      EndCounter |-> THREADS]

\* Main deletes the critical section when EndCounter is full, which the last
\* thread makes it while it is still inside: after the deletion no thread
\* enters, and at most the thread that counted last has yet to leave.
OnlyLastStillInside ==
  ~sectionExists =>
    /\ \A t \in LockingThread : lockStep[t] \in {"unlock", "end"}
    /\ \A t \in LockingThread : lockStep[t] = "unlock" => owner = t

\* Tutorial 3-2: the lock keeps every increment, and outlives its users.
LockSafe == NoIncrementLost /\ OnlyLastStillInside

LockEnded == lockMain \in {"create", "end"}
=============================================================================

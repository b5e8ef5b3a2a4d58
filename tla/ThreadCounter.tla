---------------------------- MODULE ThreadCounter ----------------------------
(***************************************************************************)
(* Tutorial 3, "1 - thread": threads that increment a counter without a    *)
(* lock and then EndCounter with InterlockedIncrement; main waits for all  *)
(* of them and closes their handles.                                       *)
(***************************************************************************)
EXTENDS Naturals, FiniteSets

CONSTANT THREAD_POOL_MAX

ASSUME ThreadCounterAssumption == THREAD_POOL_MAX \in Nat \ {0}

PoolThread == 1 .. THREAD_POOL_MAX

VARIABLES
  countOf,              \* gCounter and Counter
  EndCounter,
  openHandles,          \* threads whose ThreadHandle is open
  atStep,               \* where each thread is; "none" before it is created
  loaded,               \* what a thread has read of a counter
  mainAt

counterVars == <<countOf, EndCounter, openHandles, atStep, loaded, mainAt>>

CounterInit ==
  /\ countOf = [gCounter |-> 0, Counter |-> 0]
  /\ EndCounter = 0
  /\ openHandles = {}
  /\ atStep = [t \in PoolThread |-> "none"]
  /\ loaded = [t \in PoolThread |-> 0]
  /\ mainAt = "create"

\* The loop of Create; threads run while it goes on.
CreateThread ==
  /\ mainAt = "create"
  /\ LET t == Cardinality(openHandles) + 1
     IN  /\ atStep' = [atStep EXCEPT ![t] = "load gCounter"]
         /\ openHandles' = openHandles \cup {t}
         /\ mainAt' = IF t = THREAD_POOL_MAX THEN "wait" ELSE mainAt
  /\ UNCHANGED <<countOf, EndCounter, loaded>>

\* ++gCounter and ++thread->Counter: a load and a store each.
Load(t, counter, here, next) ==
  /\ atStep[t] = here
  /\ loaded' = [loaded EXCEPT ![t] = countOf[counter]]
  /\ atStep' = [atStep EXCEPT ![t] = next]
  /\ UNCHANGED <<countOf, EndCounter, openHandles, mainAt>>

Store(t, counter, here, next) ==
  /\ atStep[t] = here
  /\ countOf' = [countOf EXCEPT ![counter] = loaded[t] + 1]
  /\ atStep' = [atStep EXCEPT ![t] = next]
  /\ UNCHANGED <<EndCounter, openHandles, loaded, mainAt>>

\* InterlockedIncrement( &thread->EndCounter ), and the thread ends.
CountEnd(t) ==
  /\ atStep[t] = "count end"
  /\ EndCounter' = EndCounter + 1
  /\ atStep' = [atStep EXCEPT ![t] = "end"]
  /\ UNCHANGED <<countOf, openHandles, loaded, mainAt>>

sTestThreadProc(t) ==
  \/ Load(t, "gCounter", "load gCounter", "store gCounter")
  \/ Store(t, "gCounter", "store gCounter", "load Counter")
  \/ Load(t, "Counter", "load Counter", "store Counter")
  \/ Store(t, "Counter", "store Counter", "count end")
  \/ CountEnd(t)

\* Mutant of WaitForThreads: one thread is not waited for.
WaitForMost ==
  /\ mainAt = "wait" /\ EndCounter >= THREAD_POOL_MAX - 1
  /\ mainAt' = "release"
  /\ UNCHANGED <<countOf, EndCounter, openHandles, atStep, loaded>>

WaitForThreads ==
  /\ mainAt = "wait" /\ EndCounter = THREAD_POOL_MAX
  /\ mainAt' = "release"
  /\ UNCHANGED <<countOf, EndCounter, openHandles, atStep, loaded>>

ReleaseThreads ==
  /\ mainAt = "release"
  /\ openHandles' = {}
  /\ mainAt' = "end"
  /\ UNCHANGED <<countOf, EndCounter, atStep, loaded>>

CounterNext ==
  \/ CreateThread \/ WaitForThreads \/ ReleaseThreads
  \/ \E t \in PoolThread : sTestThreadProc(t)
  \/ mainAt = "end" /\ UNCHANGED counterVars

CounterSpec ==
  /\ CounterInit /\ [][CounterNext]_counterVars
  /\ WF_counterVars(CreateThread \/ WaitForThreads \/ ReleaseThreads)
  /\ \A t \in PoolThread : WF_counterVars(sTestThreadProc(t))

-----------------------------------------------------------------------------
\* Increments may be lost, but what main prints is never more than the number
\* of threads that have counted and never nothing once one of them has.
CountsBounded ==
  \A c \in {"gCounter", "Counter"} :
    LET stored == {t \in PoolThread : atStep[t] \in {"count end", "end"}}
    IN  /\ countOf[c] <= THREAD_POOL_MAX
        /\ stored # {} => countOf[c] >= 1

\* Main goes on only when every thread has counted itself.
WaitIsForAll ==
  mainAt \in {"release", "end"} => \A t \in PoolThread : atStep[t] = "end"

\* Tutorial 3-1: counters without a lock lose increments, never the wait.
CounterSafe == CountsBounded /\ WaitIsForAll

CounterEnded == mainAt = "create" \/ (mainAt = "end" /\ openHandles = {})
=============================================================================

------------------------------ MODULE MultiLock ------------------------------
(***************************************************************************)
(* Tutorial 3, "3 - thread - multi-lock": threads that swap the values of  *)
(* two players, each player with a lock of its own and one lock for all.   *)
(* A swap is written as the instructions its function executes; a player   *)
(* is also the name of its lock.                                           *)
(***************************************************************************)
EXTENDS Naturals, Sequences, FiniteSets

CONSTANTS
  SwapThread,           \* the thread pool
  Unowned,
  LoopMax               \* bound: the rounds of TestSwap_D, 100 in the code

ASSUME MultiLockAssumption ==
  Unowned \notin SwapThread /\ LoopMax \in Nat \ {0} /\ IsFiniteSet(SwapThread)

PlayerTable == {1, 2}
BigLocker == 0
LockName == PlayerTable \cup {BigLocker}
Other(p) == 3 - p

VARIABLES
  test,                 \* which thread functions Create starts
  Value,                \* of each player
  lockOwner,            \* of each lock
  code,                 \* instructions a thread has still to execute
  reg,                  \* its local copies of values
  rounds,               \* rounds it still has to start
  swaps,                \* swaps completed, modulo 2
  swapEnd, swapMain     \* EndCounter; main's position

multiVars == <<test, Value, lockOwner, code, reg, rounds, swaps, swapEnd, swapMain>>

Lock(l) == <<[op |-> "lock", on |-> l]>>
Unlock(l) == <<[op |-> "unlock", on |-> l]>>
Read(r, p) == <<[op |-> "read", on |-> p, r |-> r]>>
Write(p, r) == <<[op |-> "write", on |-> p, r |-> r]>>

\* The three assignments: a_value = a; a = b; b = a_value.
Exchange(a, b) ==
  Read("a", a) \o Read("b", b) \o Write(a, "b") \o Write(b, "a")

Swapped == <<[op |-> "swapped"]>>

\* Mutants of the slow swaps: without the lock for all.
SwapUnlocked(a, b) == Exchange(a, b) \o Swapped
SwapTwoLocks(a, b) ==
  Lock(a) \o Lock(b) \o Exchange(a, b) \o Swapped \o Unlock(b) \o Unlock(a)

SwapValue_Safe_Slow_1(a, b) ==
  Lock(BigLocker) \o Exchange(a, b) \o Swapped \o Unlock(BigLocker)

SwapValue_Safe_Slow_2(a, b) ==
  Lock(BigLocker) \o Lock(a) \o Lock(b) \o Exchange(a, b) \o Swapped
    \o Unlock(b) \o Unlock(a) \o Unlock(BigLocker)

SwapValue_Safe_Fast(a, b) ==
  Lock(a) \o Read("a", a) \o Unlock(a)
    \o Lock(b) \o Read("b", b) \o Write(b, "a") \o Unlock(b)
    \o Lock(a) \o Write(a, "b") \o Unlock(a) \o Swapped

SwapValue_DeadLock_1(a, b) ==
  Lock(a) \o Lock(b) \o Exchange(a, b) \o Swapped \o Unlock(b) \o Unlock(a)

SwapValue_DeadLock_2(a, b) ==
  Lock(b) \o Lock(a) \o Exchange(a, b) \o Swapped \o Unlock(a) \o Unlock(b)

CountEndOfThread == <<[op |-> "end"]>>

\* What a thread may execute.  Create starts A and B in turn; the static
\* counter of C and D is incremented without a lock, so either order may come.
TestSwap_A_InThread == {SwapValue_Safe_Slow_1(1, 2) \o CountEndOfThread}
TestSwap_B_InThread == {SwapValue_Safe_Slow_1(2, 1) \o CountEndOfThread}
TestSwap_C_InThread ==
  {SwapValue_Safe_Slow_2(a, Other(a)) \o CountEndOfThread : a \in PlayerTable}
TestSwap_D_InThread == {SwapValue_Safe_Fast(a, Other(a)) : a \in PlayerTable}

\* The two swaps that the source says not to run together; nothing calls them.
DeadLockSwaps ==
  {f \o CountEndOfThread :
     f \in {SwapValue_DeadLock_1(1, 2), SwapValue_DeadLock_2(1, 2)}}

CodeOf(kind) ==
  CASE kind = "AB" -> TestSwap_A_InThread \cup TestSwap_B_InThread
    [] kind = "C" -> TestSwap_C_InThread
    [] kind = "D" -> TestSwap_D_InThread
    [] kind = "deadlock" -> DeadLockSwaps

MultiInit ==
  /\ test \in {"AB", "C", "D", "deadlock"}
  /\ Value = [p \in PlayerTable |-> p]
  /\ lockOwner = [l \in LockName |-> Unowned]
  /\ code = [t \in SwapThread |-> <<>>]
  /\ reg = [t \in SwapThread |-> [a |-> 0, b |-> 0]]
  /\ rounds = [t \in SwapThread |-> IF test = "D" THEN LoopMax ELSE 1]
  /\ swaps = 0 /\ swapEnd = 0
  /\ swapMain = "wait"

\* The thread calls its next swap; TestSwap_D counts after its last one.
StartRound(t) ==
  /\ code[t] = <<>> /\ rounds[t] > 0
  /\ rounds' = [rounds EXCEPT ![t] = @ - 1]
  /\ \E c \in CodeOf(test) :
       code' = [code EXCEPT ![t] =
         IF test = "D" /\ rounds[t] = 1 THEN c \o CountEndOfThread ELSE c]
  /\ UNCHANGED <<test, Value, lockOwner, reg, swaps, swapEnd, swapMain>>

Step(t, op) ==
  /\ code[t] # <<>> /\ Head(code[t]).op = op
  /\ code' = [code EXCEPT ![t] = Tail(@)]
  /\ UNCHANGED <<test, rounds, swapMain>>

EnterLock(t) ==
  /\ Step(t, "lock")
  /\ lockOwner[Head(code[t]).on] = Unowned
  /\ lockOwner' = [lockOwner EXCEPT ![Head(code[t]).on] = t]
  /\ UNCHANGED <<Value, reg, swaps, swapEnd>>

LeaveLock(t) ==
  /\ Step(t, "unlock")
  /\ lockOwner' = [lockOwner EXCEPT ![Head(code[t]).on] = Unowned]
  /\ UNCHANGED <<Value, reg, swaps, swapEnd>>

ReadValue(t) ==
  /\ Step(t, "read")
  /\ reg' = [reg EXCEPT ![t][Head(code[t]).r] = Value[Head(code[t]).on]]
  /\ UNCHANGED <<Value, lockOwner, swaps, swapEnd>>

WriteValue(t) ==
  /\ Step(t, "write")
  /\ Value' = [Value EXCEPT ![Head(code[t]).on] = reg[t][Head(code[t]).r]]
  /\ UNCHANGED <<lockOwner, reg, swaps, swapEnd>>

CompleteSwap(t) ==
  /\ Step(t, "swapped")
  /\ swaps' = (swaps + 1) % 2
  /\ UNCHANGED <<Value, lockOwner, reg, swapEnd>>

IncrementEnd(t) ==
  /\ Step(t, "end")
  /\ swapEnd' = swapEnd + 1
  /\ UNCHANGED <<Value, lockOwner, reg, swaps>>

SwapThreadProc(t) ==
  \/ StartRound(t) \/ EnterLock(t) \/ LeaveLock(t) \/ ReadValue(t)
  \/ WriteValue(t) \/ CompleteSwap(t) \/ IncrementEnd(t)

\* Wait, and Release, which deletes the locks.
MultiMain ==
  /\ swapMain = "wait" /\ swapEnd = Cardinality(SwapThread)
  /\ swapMain' = "released"
  /\ UNCHANGED <<test, Value, lockOwner, code, reg, rounds, swaps, swapEnd>>

MultiNext == MultiMain \/ \E t \in SwapThread : SwapThreadProc(t)

MultiSpec ==
  /\ MultiInit /\ [][MultiNext]_multiVars
  /\ WF_multiVars(MultiMain)
  /\ \A t \in SwapThread : WF_multiVars(SwapThreadProc(t))

-----------------------------------------------------------------------------
WantsLock(t) ==
  IF code[t] # <<>> /\ Head(code[t]).op = "lock"
  THEN {Head(code[t]).on} ELSE {}

\* Under the big lock, and under both players' locks, no swap is torn or lost:
\* when no thread holds a lock, the values are exchanged as often as swaps
\* were completed.  (The fast swap gives this up.)
NoSwapLost ==
  test # "D" /\ (\A l \in LockName : lockOwner[l] = Unowned) =>
    \A p \in PlayerTable : Value[p] = IF swaps = 0 THEN p ELSE Other(p)

\* The fast swap may overwrite a value, as its comment warns, but it never
\* makes one up, and it never holds a lock while it waits for another.
FastHoldsOneLock ==
  /\ \A p \in PlayerTable : Value[p] \in PlayerTable
  /\ test = "D" => \A t \in SwapThread : WantsLock(t) # {} =>
       \A l \in LockName : lockOwner[l] # t

\* What the guards say when neither main nor a thread can go on: every thread
\* has come to its end or waits for a lock that somebody has.
AllWait ==
  /\ swapMain = "wait" /\ swapEnd # Cardinality(SwapThread)
  /\ \A t \in SwapThread :
       \/ code[t] = <<>> /\ rounds[t] = 0
       \/ \E l \in WantsLock(t) : lockOwner[l] # Unowned

\* Both of the deadlocking swaps run, and two threads each hold the player lock
\* that the other waits for.
OppositeOrder ==
  /\ test = "deadlock"
  /\ \E t, u \in SwapThread : \E p \in PlayerTable :
       /\ lockOwner[p] = t /\ WantsLock(u) = {p}
       /\ lockOwner[Other(p)] = u /\ WantsLock(t) = {Other(p)}

\* Threads are stuck only in that way: a deadlock takes both of the deadlocking
\* swaps, and the other swaps never come to one.
StuckOnlyInOppositeOrder ==
  swapMain = "wait" /\ ~ENABLED MultiNext => AllWait /\ OppositeOrder

\* Main deletes the locks when no thread has one or will ask for one.
LocksDeletedUnused ==
  swapMain = "released" =>
    /\ \A t \in SwapThread : code[t] = <<>> /\ rounds[t] = 0
    /\ \A l \in LockName : lockOwner[l] = Unowned

\* Tutorial 3-3: what each swap promises, and that no lock is deleted in use.
SwapsSafe == NoSwapLost /\ FastHoldsOneLock /\ LocksDeletedUnused

TestEnded == test = "deadlock" \/ swapMain = "released"
=============================================================================

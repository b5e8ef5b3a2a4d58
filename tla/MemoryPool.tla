----------------------------- MODULE MemoryPool -----------------------------
(***************************************************************************)
(* MainMemoryPool: one block cut into pieces, and buffers of their own     *)
(* when it is used up.  Nothing in it is locked; the lists whose pools are *)
(* empty call it, each under its own lock (LockGetNode).  A piece of the   *)
(* block is [at, len], its bytes being at .. at + len - 1.                 *)
(***************************************************************************)
EXTENDS Naturals, FiniteSets

CONSTANTS
  PoolBytes,            \* memory_pool_bytes_max
  PoolUser,             \* threads that take nodes
  PoolList,             \* the lists they take them from
  PoolListOf,           \* which list a thread uses
  AskMax                \* bound: pieces asked for, in all

ASSUME PoolAssumption ==
  /\ PoolBytes \in Nat \ {0} /\ AskMax \in Nat
  /\ PoolListOf \in [PoolUser -> PoolList]

Buffer == 1 .. AskMax   \* extra buffers; 0 is NULL

VARIABLES
  spBuffer,             \* the block exists
  sBufferByteMax,
  spNowBufferPositionLink,
  sNowBufferUseLength,
  spExtraBufferHead,
  extraNext,            \* pNext of the node of each extra buffer
  extraAlive,           \* extra buffers allocated and not deleted
  askPc,                \* where a thread is in sMemoryAllocate, and its locals
  given,                \* pieces of the block handed out so far
  asked,                \* pieces asked for so far
  raced                 \* two lists were in sMemoryAllocate at the same time

poolState == <<spBuffer, sBufferByteMax>>
blockVars == <<spNowBufferPositionLink, sNowBufferUseLength>>
extraVars == <<spExtraBufferHead, extraNext, extraAlive>>
memoryVars == <<poolState, blockVars, extraVars, askPc, given, asked, raced>>

Outside == [at |-> "out", len |-> 0, block |-> 0, reg |-> 0]

MemoryInit ==
  /\ spBuffer = FALSE /\ sBufferByteMax = 0
  /\ spNowBufferPositionLink = 0 /\ sNowBufferUseLength = 0
  /\ spExtraBufferHead = 0
  /\ extraNext = [b \in Buffer |-> 0]
  /\ extraAlive = {}
  /\ askPc = [t \in PoolUser |-> Outside]
  /\ given = {} /\ asked = 0 /\ raced = FALSE

AllOutside == \A t \in PoolUser : askPc[t].at = "out"

sMemoryPoolCreate ==
  /\ ~spBuffer /\ asked = 0
  /\ spBuffer' = TRUE
  /\ sBufferByteMax' = PoolBytes
  /\ spNowBufferPositionLink' = 0 /\ sNowBufferUseLength' = 0
  /\ UNCHANGED <<extraVars, askPc, given, asked, raced>>

\* Under the lock of its list a thread tests whether the block has room.
sMemoryAllocate(t, len) ==
  /\ spBuffer
  /\ askPc[t].at = "out"
  /\ asked < AskMax
  /\ \A u \in PoolUser : PoolListOf[u] = PoolListOf[t] => askPc[u].at = "out"
  /\ asked' = asked + 1
  /\ askPc' = [askPc EXCEPT ![t] =
       [Outside EXCEPT !.len = len,
          !.at = IF sNowBufferUseLength + len > sBufferByteMax
                 THEN "extra" ELSE "block"]]
  /\ raced' = (raced \/ \E u \in PoolUser : askPc[u].at # "out")
  /\ UNCHANGED <<poolState, blockVars, extraVars, given>>

Goto(t, at, reg) == askPc' = [askPc EXCEPT ![t] = [@ EXCEPT !.at = at, !.reg = reg]]

\* block = position; position += len; length += len, each sum a load and a
\* store that another thread may come between.
TakeBlock(t) ==
  /\ askPc[t].at = "block"
  /\ askPc' = [askPc EXCEPT ![t] =
       [@ EXCEPT !.at = "move", !.block = spNowBufferPositionLink,
                 !.reg = spNowBufferPositionLink]]
  /\ UNCHANGED <<poolState, blockVars, extraVars, given, asked, raced>>

\* Mutant of MovePosition: the next piece begins where this one did.
MovePositionNot(t) ==
  /\ askPc[t].at = "move"
  /\ Goto(t, "length", sNowBufferUseLength)
  /\ UNCHANGED <<poolState, blockVars, extraVars, given, asked, raced>>

MovePosition(t) ==
  /\ askPc[t].at = "move"
  /\ spNowBufferPositionLink' = askPc[t].reg + askPc[t].len
  /\ Goto(t, "length", sNowBufferUseLength)
  /\ UNCHANGED <<poolState, sNowBufferUseLength, extraVars, given, asked, raced>>

AddLength(t) ==
  /\ askPc[t].at = "length"
  /\ sNowBufferUseLength' = askPc[t].reg + askPc[t].len
  /\ given' = given \cup
       {[at |-> askPc[t].block, len |-> askPc[t].len, to |-> t, no |-> asked]}
  /\ askPc' = [askPc EXCEPT ![t] = Outside]
  /\ UNCHANGED <<poolState, spNowBufferPositionLink, extraVars, asked, raced>>

\* The buffer and its node are made; the node then points to the head.
NewExtra(t) ==
  /\ askPc[t].at = "extra"
  /\ \E b \in Buffer \ extraAlive :
       /\ extraAlive' = extraAlive \cup {b}
       /\ extraNext' = [extraNext EXCEPT ![b] = spExtraBufferHead]
       /\ Goto(t, "link", b)
  /\ UNCHANGED <<poolState, blockVars, spExtraBufferHead, given, asked, raced>>

LinkExtra(t) ==
  /\ askPc[t].at = "link"
  /\ spExtraBufferHead' = askPc[t].reg
  /\ askPc' = [askPc EXCEPT ![t] = Outside]
  /\ UNCHANGED <<poolState, blockVars, extraNext, extraAlive, given, asked, raced>>

\* The extra buffers that a walk from the head meets.
ExtraLinked ==
  LET reach[k \in 0 .. AskMax] ==
        IF k = 0 THEN {spExtraBufferHead} \ {0}
        ELSE reach[k - 1] \cup ({extraNext[b] : b \in reach[k - 1]} \ {0})
  IN  reach[AskMax]

\* Called when the threads have ended.
sMemoryPoolRelease ==
  /\ spBuffer /\ AllOutside
  /\ spBuffer' = FALSE /\ sBufferByteMax' = 0
  /\ spNowBufferPositionLink' = 0 /\ sNowBufferUseLength' = 0
  /\ extraAlive' = extraAlive \ ExtraLinked
  /\ spExtraBufferHead' = 0
  /\ given' = {}
  /\ UNCHANGED <<extraNext, askPc, asked, raced>>

MemoryNext ==
  \/ sMemoryPoolCreate
  \/ sMemoryPoolRelease
  \/ \E t \in PoolUser :
       \/ \E len \in 1 .. 2 : sMemoryAllocate(t, len)
       \/ TakeBlock(t) \/ MovePosition(t) \/ AddLength(t)
       \/ NewExtra(t) \/ LinkExtra(t)

MemorySpec == MemoryInit /\ [][MemoryNext]_memoryVars

-----------------------------------------------------------------------------
Bytes(p) == p.at .. p.at + p.len - 1

\* Unless two lists ran out of nodes at the same time, every piece handed out
\* lies in the block and shares no byte with another.
PiecesApart ==
  raced \/ \A p \in given :
    /\ p.at + p.len <= sBufferByteMax
    /\ \A q \in given \ {p} : Bytes(p) \cap Bytes(q) = {}

\* Unless two lists raced, every extra buffer is on the list that Release
\* walks, so that none outlives the pool.
ExtraReleased ==
  raced \/
  /\ ~spBuffer => extraAlive = {}
  /\ AllOutside => extraAlive = ExtraLinked

\* What the lists get from the pool is theirs alone and is given back, as long
\* as no two of them ask at once: nothing locks sMemoryAllocate.
PoolSound == PiecesApart /\ ExtraReleased
=============================================================================

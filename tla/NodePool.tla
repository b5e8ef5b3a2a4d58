------------------------------ MODULE NodePool ------------------------------
(***************************************************************************)
(* What a list with its free list promises: a sequence of linked nodes,    *)
(* the nodes in their users' hands, and a stack of freed nodes from which  *)
(* the next one is taken before a new one is made.                         *)
(***************************************************************************)
EXTENDS Naturals, Sequences, FiniteSets

CONSTANTS PoolNode, PoolNumber

VARIABLES linked, inHand, freed, number

poolVars == <<linked, inHand, freed, number>>

SeqSet(s) == {s[i] : i \in 1 .. Len(s)}

\* s with n put in so that it is the k-th, and s without its k-th.
PutAt(s, k, n) == SubSeq(s, 1, k - 1) \o <<n>> \o SubSeq(s, k, Len(s))
LeaveOut(s, k) == SubSeq(s, 1, k - 1) \o SubSeq(s, k + 1, Len(s))

PoolInit ==
  /\ linked = <<>>
  /\ inHand = {}
  /\ freed = <<>>
  /\ number \in [PoolNode -> PoolNumber]

Take(n) ==
  /\ n \notin SeqSet(linked) \cup inHand
  /\ freed # <<>> => n = Head(freed)
  /\ freed' = IF freed = <<>> THEN freed ELSE Tail(freed)
  /\ inHand' = inHand \cup {n}
  /\ number' \in {[number EXCEPT ![n] = k] : k \in PoolNumber}
  /\ UNCHANGED linked

GiveBack(n) ==
  /\ n \in inHand
  /\ inHand' = inHand \ {n}
  /\ freed' \in {<<n>> \o freed, freed}        \* freed, or deleted
  /\ number' \in {[number EXCEPT ![n] = k] : k \in PoolNumber}
  /\ UNCHANGED linked

PutIn(n, k) ==
  /\ n \in inHand
  /\ inHand' = inHand \ {n}
  /\ linked' = PutAt(linked, k, n)
  /\ UNCHANGED freed

InsertAnywhere(n) ==
  /\ \E k \in 1 .. Len(linked) + 1 : PutIn(n, k)
  /\ UNCHANGED number

\* Behind every node with the same or a smaller number, if those come first.
InsertInOrder(n, k) ==
  /\ LET bigger == {i \in 1 .. Len(linked) : k < number[linked[i]]}
     IN  PutIn(n, IF bigger = {} THEN Len(linked) + 1
                  ELSE CHOOSE i \in bigger : \A j \in bigger : i <= j)
  /\ number' = [number EXCEPT ![n] = k]

TakeOut(n) ==
  /\ \E k \in 1 .. Len(linked) :
       n = linked[k] /\ linked' = LeaveOut(linked, k)
  /\ inHand' = inHand \cup {n}
  /\ UNCHANGED <<freed, number>>

Drop ==
  /\ linked' = <<>> /\ inHand' = {} /\ freed' = <<>>
  /\ UNCHANGED number

PoolNext ==
  \/ \E n \in PoolNode :
       \/ Take(n) \/ GiveBack(n) \/ InsertAnywhere(n) \/ TakeOut(n)
       \/ \E k \in PoolNumber : InsertInOrder(n, k)
  \/ Drop

PoolSpec == PoolInit /\ [][PoolNext]_poolVars
=============================================================================

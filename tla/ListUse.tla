------------------------------- MODULE ListUse -------------------------------
(***************************************************************************)
(* A list of one class and its users.  The class is given by its           *)
(* operations; the users only link and free nodes they have in hand, and   *)
(* may try to unlink any node, as two threads do that both found it.       *)
(***************************************************************************)
EXTENDS ListNodes

CONSTANTS
  NodeNumbers,          \* bound: the numbers users give to nodes
  Block,                \* object_max: the nodes that Create takes from the pool
  Pooled,               \* the class takes its nodes from the memory pool
  Sorts,                \* the class has the three insertions
  ListGetNode(_, _), ListReleaseNode(_, _), ListFreeNode(_, _),
  ListLink(_, _), ListLinkToHead(_, _), ListUnlink(_, _), ListRelease(_),
  ListInsertPrev(_, _, _), ListInsertNext(_, _, _), ListInsertOrder(_, _)

VARIABLES
  list,                 \* the list and the members of its nodes
  heap,                 \* nodes that new or sMemoryAllocate has handed out
  held,                 \* nodes in the users' hands
  lost                  \* nodes that were in hand when the list was released

listVars == <<list, heap, held, lost>>

NewNodes ==
  IF Pooled /\ list.BufferListCount > 0 THEN {list.pBufferList}
  ELSE Node \ heap

UserGetNode ==
  \E n \in IF list.FreeListCount > 0 THEN {list.pFreeList} ELSE NewNodes :
    /\ list' = ListGetNode(list, n)
    /\ heap' = heap \cup {n}
    /\ held' = held \cup {n}
    /\ UNCHANGED lost

UserFreeNode(n) ==
  /\ n \in held
  /\ list' = ListFreeNode(list, n)
  /\ held' = held \ {n}
  /\ UNCHANGED <<heap, lost>>

UserReleaseNode(n) ==
  /\ ~Pooled
  /\ n \in held
  /\ list' = ListReleaseNode(list, n)
  /\ held' = held \ {n}
  /\ heap' = heap \ {n}
  /\ UNCHANGED lost

PutInList(n) == n \in held /\ held' = held \ {n} /\ UNCHANGED <<heap, lost>>

UserLink(n) == PutInList(n) /\ list' = ListLink(list, n)

UserLinkToHead(n) == PutInList(n) /\ list' = ListLinkToHead(list, n)

UserInsertPrev(dest, n) ==
  /\ Sorts
  /\ PutInList(n)
  /\ list' = ListInsertPrev(list, dest, n)

UserInsertNext(dest, n) ==
  /\ Sorts
  /\ PutInList(n)
  /\ list' = ListInsertNext(list, dest, n)

UserInsertOrder(n, k) ==
  /\ Sorts
  /\ PutInList(n)
  /\ list' = ListInsertOrder([list EXCEPT !.NodeNumber[n] = k], n)

\* A node that is not linked any more must be refused.
UserUnlink(n) ==
  /\ n \in heap
  /\ list' = ListUnlink(list, n)
  /\ held' = IF n \in NodesOf(Linked(list)) THEN held \cup {n} ELSE held
  /\ UNCHANGED <<heap, lost>>

UserRelease ==
  /\ ~Pooled
  /\ list' = ListRelease(list)
  /\ heap' = heap \ Deleted(list)
  /\ held' = {}
  /\ lost' = lost \cup held

ListUseNext ==
  \/ UserGetNode
  \/ UserRelease
  \/ \E n \in Node :
       \/ UserFreeNode(n)
       \/ UserReleaseNode(n)
       \/ UserLink(n)
       \/ UserLinkToHead(n)
       \/ UserUnlink(n)
       \/ \E dest \in NodesOf(Linked(list)) \cup {NULL} :
            UserInsertPrev(dest, n) \/ UserInsertNext(dest, n)
       \/ \E k \in NodeNumbers : UserInsertOrder(n, k)
=============================================================================

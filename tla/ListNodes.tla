------------------------------ MODULE ListNodes ------------------------------
(***************************************************************************)
(* The nodes and the six list classes' common pointer algorithms           *)
(* (MTLibrary/List).  A list is a record with the source's members; the    *)
(* members of its nodes are functions from nodes.  A class adds what it    *)
(* does differently in SinglyLists and DoublyLists.                        *)
(***************************************************************************)
EXTENDS Naturals, Sequences, FiniteSets

CONSTANT ListNodeMax        \* bound: nodes that the heap can hold at a time

ASSUME ListNodeMaxAssumption == ListNodeMax \in Nat \ {0}

Node == 1 .. ListNodeMax
NULL == 0

\* The nodes met from `first` on, following pNext.
Chain(next, first) ==
  LET walk[k \in 0 .. ListNodeMax] ==
        [n \in Node \cup {NULL} |->
           IF n = NULL \/ k = 0 THEN <<>> ELSE <<n>> \o walk[k - 1][next[n]]]
  IN  walk[ListNodeMax][first]

Linked(l) == Chain(l.pNext, l.pHeadNode)
FreeOnes(l) == Chain(l.pNext, l.pFreeList)
NodesOf(s) == {s[i] : i \in 1 .. Len(s)}

\* The members that Create sets; what the nodes hold is left alone.
EmptyList(l) ==
  [l EXCEPT !.pHeadNode = NULL, !.pTailNode = NULL, !.NodeUseCount = 0,
            !.NodeLinkCount = 0, !.pFreeList = NULL, !.FreeListCount = 0]

\* A list record in memory nobody has used yet.
RawList ==
  [pHeadNode |-> NULL, pTailNode |-> NULL, NodeUseCount |-> 0,
   NodeLinkCount |-> 0, pFreeList |-> NULL, FreeListCount |-> 0,
   ObjectCountMax |-> 0, pBufferList |-> NULL, BufferListCount |-> 0,
   pNext |-> [n \in Node |-> NULL], pPrev |-> [n \in Node |-> NULL],
   NodeNumber |-> [n \in Node |-> 0]]

\* GetNode, up to the members it resets: the head of the free list if there
\* is one, else the node `new` that the allocator returned.
NodeFor(l, new) == IF l.FreeListCount > 0 THEN l.pFreeList ELSE new

PopFree(l) ==
  IF l.FreeListCount > 0
  THEN [l EXCEPT !.pFreeList = l.pNext[@], !.FreeListCount = @ - 1]
  ELSE l

\* FreeNode, from the test of FreeListCount on.
PushFree(l, n) ==
  [l EXCEPT !.pNext[n] = IF l.FreeListCount > 0 THEN l.pFreeList ELSE @,
            !.pFreeList = n,
            !.FreeListCount = @ + 1,
            !.NodeUseCount = @ - 1]

\* memset( release_node, 0, sizeof )
Zeroed(l, n) ==
  [l EXCEPT !.NodeNumber[n] = 0, !.pPrev[n] = NULL, !.pNext[n] = NULL]

\* The first linked node with the given number, or NULL.
FirstNumbered(l, number) ==
  LET s == Linked(l)
      hits == {i \in 1 .. Len(s) : l.NodeNumber[s[i]] = number}
  IN  IF hits = {} THEN NULL
      ELSE s[CHOOSE i \in hits : \A j \in hits : i <= j]

\* Release, and ReleaseNode's MY_DELETE, give nodes back to the heap.
Deleted(l) == NodesOf(Linked(l)) \cup NodesOf(FreeOnes(l))
=============================================================================

----------------------------- MODULE SinglyLists -----------------------------
(***************************************************************************)
(* SinglyList, TSinglyList and TMPSinglyList.  Linking and unlinking are   *)
(* the same three algorithms in all of them; they differ in where nodes    *)
(* come from and in what they clear.                                       *)
(***************************************************************************)
EXTENDS ListNodes

-----------------------------------------------------------------------------
(* SinglyList: nodes by new; FreeNode clears the number and not pNext. *)

SinglyListCreate(l) == EmptyList(l)

SinglyListRelease(l) == SinglyListCreate(l)

SinglyListGetNode(l, new) ==
  LET n == NodeFor(l, new)
  IN  [PopFree(l) EXCEPT !.NodeNumber[n] = 0, !.pNext[n] = NULL,
                         !.NodeUseCount = @ + 1]

SinglyListReleaseNode(l, n) ==
  IF n = NULL \/ l.NodeUseCount = 0 THEN l
  ELSE [l EXCEPT !.NodeUseCount = @ - 1]

SinglyListFreeNode(l, n) ==
  IF n = NULL \/ l.NodeUseCount = 0 THEN l
  ELSE PushFree([l EXCEPT !.NodeNumber[n] = 0], n)

SinglyListLink(l, n) ==
  IF n = NULL THEN l
  ELSE IF l.pHeadNode = NULL
  THEN [l EXCEPT !.pNext[n] = NULL, !.pHeadNode = n, !.pTailNode = n,
                 !.NodeLinkCount = @ + 1]
  ELSE [l EXCEPT !.pNext = [@ EXCEPT ![n] = NULL, ![l.pTailNode] = n],
                 !.pTailNode = n,
                 !.NodeLinkCount = @ + 1]

\* Mutant: linking to the head of an empty list forgets the tail.
SinglyListLinkToHeadNoTail(l, n) ==
  IF n = NULL THEN l
  ELSE [l EXCEPT !.pNext[n] = l.pHeadNode, !.pHeadNode = n,
                 !.NodeLinkCount = @ + 1]

SinglyListLinkToHead(l, n) ==
  IF n = NULL THEN l
  ELSE [l EXCEPT !.pNext[n] = l.pHeadNode,
                 !.pTailNode = IF l.pHeadNode = NULL THEN n ELSE @,
                 !.pHeadNode = n,
                 !.NodeLinkCount = @ + 1]

\* n was found by the walk from the head; `only` is what the class makes of
\* the list when n was its only node.
Without(l, n, only) ==
  LET s == Linked(l)
      at == CHOOSE i \in 1 .. Len(s) : s[i] = n
      prev == s[at - 1]
      out == IF at > 1
             THEN IF n = l.pTailNode
                  THEN [l EXCEPT !.pTailNode = prev, !.pNext[prev] = NULL]
                  ELSE [l EXCEPT !.pNext[prev] = l.pNext[n]]
             ELSE IF l.pHeadNode = l.pTailNode
                  THEN only
                  ELSE [l EXCEPT !.pHeadNode = l.pNext[@]]
  IN  [out EXCEPT !.pNext[n] = NULL,
                  !.NodeLinkCount = IF @ > 0 THEN @ - 1 ELSE @]

SinglyListUnlink(l, n) ==
  IF n = NULL \/ n \notin NodesOf(Linked(l)) THEN l
  ELSE Without(l, n, [l EXCEPT !.pHeadNode = NULL, !.pTailNode = NULL])

SinglyListSearchNodeWithNumber(l, number) == FirstNumbered(l, number)

-----------------------------------------------------------------------------
(* TSinglyList: a new node, and a freed one, is zeroed. *)

TSinglyListCreate(l) == EmptyList(l)

TSinglyListRelease(l) == TSinglyListCreate(l)

TSinglyListGetNode(l, new) ==
  LET n == NodeFor(l, new)
      got == IF l.FreeListCount > 0 THEN PopFree(l) ELSE Zeroed(l, new)
  IN  [got EXCEPT !.pNext[n] = NULL, !.NodeUseCount = @ + 1]

TSinglyListReleaseNode(l, n) == SinglyListReleaseNode(l, n)

TSinglyListFreeNode(l, n) ==
  IF n = NULL \/ l.NodeUseCount = 0 THEN l ELSE PushFree(Zeroed(l, n), n)

TSinglyListLink(l, n) == SinglyListLink(l, n)

TSinglyListLinkToHead(l, n) == SinglyListLinkToHead(l, n)

TSinglyListUnlink(l, n) == SinglyListUnlink(l, n)

TSinglyListSearchNodeWithNumber(l, number) == FirstNumbered(l, number)

-----------------------------------------------------------------------------
(* TMPSinglyList: nodes come from one block of object_max nodes, and from  *)
(* the memory pool when it is used up; they are never given back.          *)

TMPSinglyListCreate(l, object_max) ==
  [EmptyList(l) EXCEPT !.ObjectCountMax = object_max,
                       !.BufferListCount = object_max,
                       !.pBufferList = IF object_max > 0 THEN 1 ELSE NULL]

\* What GetNode takes when the free list is empty: `extra` stands for what
\* sMemoryAllocate returns.
TMPNew(l, extra) == IF l.BufferListCount > 0 THEN l.pBufferList ELSE extra

TMPAdvance(l) ==
  IF l.FreeListCount = 0 /\ l.BufferListCount > 0
  THEN [l EXCEPT !.pBufferList = @ + 1, !.BufferListCount = @ - 1]
  ELSE PopFree(l)

TMPSinglyListGetNode(l, extra) ==
  LET n == NodeFor(l, TMPNew(l, extra))
  IN  [TMPAdvance(l) EXCEPT !.pNext[n] = NULL, !.NodeUseCount = @ + 1]

TMPSinglyListFreeNode(l, n) == TSinglyListFreeNode(l, n)

TMPSinglyListLink(l, n) == SinglyListLink(l, n)

TMPSinglyListLinkToHead(l, n) == SinglyListLinkToHead(l, n)

TMPSinglyListUnlink(l, n) ==
  LET after == l.pNext[l.pHeadNode]
  IN  IF n = NULL \/ n \notin NodesOf(Linked(l)) THEN l
      ELSE Without(l, n, [l EXCEPT !.pHeadNode = after, !.pTailNode = after])

TMPSinglyListSearchNodeWithNumber(l, number) == FirstNumbered(l, number)
=============================================================================

----------------------------- MODULE DoublyLists -----------------------------
(***************************************************************************)
(* TDoublyList, DoublyList and TMPDoublyList.  Unlink trusts a node that   *)
(* has both neighbours and refuses one that is neither the head nor the    *)
(* tail it should be.                                                      *)
(***************************************************************************)
EXTENDS SinglyLists

-----------------------------------------------------------------------------
(* TDoublyList *)

TDoublyListCreate(l) == EmptyList(l)

TDoublyListRelease(l) == TDoublyListCreate(l)

TDoublyListGetNode(l, new) ==
  LET n == NodeFor(l, new)
  IN  [Zeroed(PopFree(l), n) EXCEPT !.NodeUseCount = @ + 1]

TDoublyListReleaseNode(l, n) ==
  IF n = NULL \/ l.NodeUseCount = 0 THEN l
  ELSE [l EXCEPT !.NodeUseCount = @ - 1]

TDoublyListFreeNode(l, n) ==
  IF n = NULL \/ l.NodeUseCount = 0 THEN l ELSE PushFree(Zeroed(l, n), n)

TDoublyListLink(l, n) ==
  IF n = NULL THEN l
  ELSE IF l.pHeadNode = NULL
  THEN [l EXCEPT !.pPrev[n] = NULL, !.pNext[n] = NULL,
                 !.pHeadNode = n, !.pTailNode = n, !.NodeLinkCount = @ + 1]
  ELSE [l EXCEPT !.pPrev[n] = l.pTailNode,
                 !.pNext = [@ EXCEPT ![n] = NULL, ![l.pTailNode] = n],
                 !.pTailNode = n, !.NodeLinkCount = @ + 1]

TDoublyListLinkToHead(l, n) ==
  IF n = NULL THEN l
  ELSE IF l.pHeadNode = NULL
  THEN [l EXCEPT !.pPrev[n] = NULL, !.pNext[n] = NULL,
                 !.pHeadNode = n, !.pTailNode = n, !.NodeLinkCount = @ + 1]
  ELSE [l EXCEPT !.pPrev = [@ EXCEPT ![n] = NULL, ![l.pHeadNode] = n],
                 !.pNext[n] = l.pHeadNode,
                 !.pHeadNode = n, !.NodeLinkCount = @ + 1]

\* Unlink returns TRUE for these nodes and FALSE for all others.
Unlinkable(l, n) ==
  /\ n # NULL
  /\ \/ l.pPrev[n] # NULL /\ l.pNext[n] # NULL
     \/ l.pPrev[n] # NULL /\ l.pTailNode = n
     \/ l.pPrev[n] = NULL /\ l.pHeadNode = n

TDoublyListUnlink(l, n) ==
  LET prev == l.pPrev[n]
      next == l.pNext[n]
      out == IF prev # NULL /\ next # NULL
             THEN [l EXCEPT !.pNext[prev] = next, !.pPrev[next] = prev]
             ELSE IF prev # NULL
             THEN [l EXCEPT !.pTailNode = prev, !.pNext[prev] = NULL]
             ELSE IF next # NULL
             THEN [l EXCEPT !.pHeadNode = next, !.pPrev[next] = NULL]
             ELSE [l EXCEPT !.pHeadNode = NULL, !.pTailNode = NULL]
  IN  IF ~Unlinkable(l, n) THEN l
      ELSE [out EXCEPT !.pPrev[n] = NULL, !.pNext[n] = NULL,
                       !.NodeLinkCount = IF @ > 0 THEN @ - 1 ELSE @]

\* Without a dest both insertions put n at the head.
TDoublyListLinkInsertPrev(l, dest, n) ==
  LET prev == l.pPrev[dest]
      pointed == [l EXCEPT !.pPrev = [@ EXCEPT ![n] = prev, ![dest] = n],
                           !.pNext[n] = dest,
                           !.NodeLinkCount = @ + 1]
  IN  IF n = NULL THEN l
      ELSE IF dest = NULL THEN TDoublyListLinkToHead(l, n)
      ELSE IF prev # NULL THEN [pointed EXCEPT !.pNext[prev] = n]
      ELSE [pointed EXCEPT !.pHeadNode = n]

TDoublyListLinkInsertNext(l, dest, n) ==
  LET next == l.pNext[dest]
      pointed == [l EXCEPT !.pNext = [@ EXCEPT ![n] = next, ![dest] = n],
                           !.pPrev[n] = dest,
                           !.NodeLinkCount = @ + 1]
  IN  IF n = NULL THEN l
      ELSE IF dest = NULL THEN TDoublyListLinkToHead(l, n)
      ELSE IF next # NULL THEN [pointed EXCEPT !.pPrev[next] = n]
      ELSE [pointed EXCEPT !.pTailNode = n]

\* Mutant: before the first node with an equal number already.
TDoublyListLinkInsertBeforeEqual(l, n) ==
  LET s == Linked(l)
      greater == {i \in 1 .. Len(s) : l.NodeNumber[n] <= l.NodeNumber[s[i]]}
  IN  IF greater = {} THEN TDoublyListLink(l, n)
      ELSE TDoublyListLinkInsertPrev(
             l, s[CHOOSE i \in greater : \A j \in greater : i <= j], n)

\* Before the first node with a greater number, at the tail if there is none.
TDoublyListLinkInsertOrderWithNumber(l, n) ==
  LET s == Linked(l)
      greater == {i \in 1 .. Len(s) : l.NodeNumber[n] < l.NodeNumber[s[i]]}
  IN  IF greater = {} THEN TDoublyListLink(l, n)
      ELSE TDoublyListLinkInsertPrev(
             l, s[CHOOSE i \in greater : \A j \in greater : i <= j], n)

TDoublyListSearchNodeWithNumber(l, number) == FirstNumbered(l, number)

-----------------------------------------------------------------------------
(* DoublyList: a new node is not zeroed, only its links and its number. *)

DoublyListCreate(l) == EmptyList(l)

DoublyListRelease(l) == DoublyListCreate(l)

DoublyListGetNode(l, new) ==
  LET n == NodeFor(l, new)
  IN  [PopFree(l) EXCEPT !.NodeNumber[n] = 0, !.pPrev[n] = NULL,
                         !.pNext[n] = NULL, !.NodeUseCount = @ + 1]

DoublyListReleaseNode(l, n) == TDoublyListReleaseNode(l, n)

DoublyListFreeNode(l, n) == TDoublyListFreeNode(l, n)

DoublyListLink(l, n) == TDoublyListLink(l, n)

DoublyListLinkToHead(l, n) == TDoublyListLinkToHead(l, n)

DoublyListUnlink(l, n) == TDoublyListUnlink(l, n)

DoublyListSearchNodeWithNumber(l, number) == FirstNumbered(l, number)

-----------------------------------------------------------------------------
(* TMPDoublyList: nodes from a block and from the memory pool. *)

TMPDoublyListCreate(l, object_max) == TMPSinglyListCreate(l, object_max)

TMPDoublyListGetNode(l, extra) ==
  LET n == NodeFor(l, TMPNew(l, extra))
  IN  [TMPAdvance(l) EXCEPT !.pPrev[n] = NULL, !.pNext[n] = NULL,
                            !.NodeUseCount = @ + 1]

TMPDoublyListFreeNode(l, n) == TDoublyListFreeNode(l, n)

TMPDoublyListLink(l, n) == TDoublyListLink(l, n)

TMPDoublyListLinkToHead(l, n) == TDoublyListLinkToHead(l, n)

TMPDoublyListUnlink(l, n) == TDoublyListUnlink(l, n)

TMPDoublyListLinkInsertPrev(l, dest, n) == TDoublyListLinkInsertPrev(l, dest, n)

TMPDoublyListLinkInsertNext(l, dest, n) == TDoublyListLinkInsertNext(l, dest, n)

TMPDoublyListLinkInsertOrderWithNumber(l, n) ==
  TDoublyListLinkInsertOrderWithNumber(l, n)

TMPDoublyListSearchNodeWithNumber(l, number) == FirstNumbered(l, number)
=============================================================================

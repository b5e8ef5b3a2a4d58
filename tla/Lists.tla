-------------------------------- MODULE Lists --------------------------------
(***************************************************************************)
(* The six list classes, one at a time, each with users.                   *)
(***************************************************************************)
EXTENDS DoublyLists

CONSTANTS NodeNumbers, Block

ASSUME BlockAssumption == Block \in 1 .. ListNodeMax

\* UINT NodeNumber; 0 is what a new node has
ASSUME NumbersAssumption == NodeNumbers \in SUBSET Nat /\ 0 \in NodeNumbers

VARIABLES class, list, heap, held, lost

listsVars == <<class, list, heap, held, lost>>

NoInsert(l, dest, n) == l
NoOrder(l, n) == l
NoReleaseNode(l, n) == l
NoRelease(l) == l

Singly == INSTANCE ListUse WITH Pooled <- FALSE, Sorts <- FALSE,
  ListGetNode <- SinglyListGetNode, ListReleaseNode <- SinglyListReleaseNode,
  ListFreeNode <- SinglyListFreeNode, ListLink <- SinglyListLink,
  ListLinkToHead <- SinglyListLinkToHead, ListUnlink <- SinglyListUnlink,
  ListRelease <- SinglyListRelease, ListInsertPrev <- NoInsert,
  ListInsertNext <- NoInsert, ListInsertOrder <- NoOrder

TSingly == INSTANCE ListUse WITH Pooled <- FALSE, Sorts <- FALSE,
  ListGetNode <- TSinglyListGetNode, ListReleaseNode <- TSinglyListReleaseNode,
  ListFreeNode <- TSinglyListFreeNode, ListLink <- TSinglyListLink,
  ListLinkToHead <- TSinglyListLinkToHead, ListUnlink <- TSinglyListUnlink,
  ListRelease <- TSinglyListRelease, ListInsertPrev <- NoInsert,
  ListInsertNext <- NoInsert, ListInsertOrder <- NoOrder

TMPSingly == INSTANCE ListUse WITH Pooled <- TRUE, Sorts <- FALSE,
  ListGetNode <- TMPSinglyListGetNode, ListReleaseNode <- NoReleaseNode,
  ListFreeNode <- TMPSinglyListFreeNode, ListLink <- TMPSinglyListLink,
  ListLinkToHead <- TMPSinglyListLinkToHead, ListUnlink <- TMPSinglyListUnlink,
  ListRelease <- NoRelease, ListInsertPrev <- NoInsert,
  ListInsertNext <- NoInsert, ListInsertOrder <- NoOrder

Doubly == INSTANCE ListUse WITH Pooled <- FALSE, Sorts <- FALSE,
  ListGetNode <- DoublyListGetNode, ListReleaseNode <- DoublyListReleaseNode,
  ListFreeNode <- DoublyListFreeNode, ListLink <- DoublyListLink,
  ListLinkToHead <- DoublyListLinkToHead, ListUnlink <- DoublyListUnlink,
  ListRelease <- DoublyListRelease, ListInsertPrev <- NoInsert,
  ListInsertNext <- NoInsert, ListInsertOrder <- NoOrder

TDoubly == INSTANCE ListUse WITH Pooled <- FALSE, Sorts <- TRUE,
  ListGetNode <- TDoublyListGetNode, ListReleaseNode <- TDoublyListReleaseNode,
  ListFreeNode <- TDoublyListFreeNode, ListLink <- TDoublyListLink,
  ListLinkToHead <- TDoublyListLinkToHead, ListUnlink <- TDoublyListUnlink,
  ListRelease <- TDoublyListRelease,
  ListInsertPrev <- TDoublyListLinkInsertPrev,
  ListInsertNext <- TDoublyListLinkInsertNext,
  ListInsertOrder <- TDoublyListLinkInsertOrderWithNumber

TMPDoubly == INSTANCE ListUse WITH Pooled <- TRUE, Sorts <- TRUE,
  ListGetNode <- TMPDoublyListGetNode, ListReleaseNode <- NoReleaseNode,
  ListFreeNode <- TMPDoublyListFreeNode, ListLink <- TMPDoublyListLink,
  ListLinkToHead <- TMPDoublyListLinkToHead, ListUnlink <- TMPDoublyListUnlink,
  ListRelease <- NoRelease,
  ListInsertPrev <- TMPDoublyListLinkInsertPrev,
  ListInsertNext <- TMPDoublyListLinkInsertNext,
  ListInsertOrder <- TMPDoublyListLinkInsertOrderWithNumber

ListClasses == {"SinglyList", "TSinglyList", "TMPSinglyList",
                "DoublyList", "TDoublyList", "TMPDoublyList"}
PooledClasses == {"TMPSinglyList", "TMPDoublyList"}
DoublyClasses == {"DoublyList", "TDoublyList", "TMPDoublyList"}

NewList(c) ==
  CASE c = "SinglyList"    -> SinglyListCreate(RawList)
    [] c = "TSinglyList"   -> TSinglyListCreate(RawList)
    [] c = "TMPSinglyList" -> TMPSinglyListCreate(RawList, Block)
    [] c = "DoublyList"    -> DoublyListCreate(RawList)
    [] c = "TDoublyList"   -> TDoublyListCreate(RawList)
    [] c = "TMPDoublyList" -> TMPDoublyListCreate(RawList, Block)

ListsInit ==
  /\ class \in ListClasses
  /\ list = NewList(class)
  /\ heap = IF class \in PooledClasses THEN 1 .. Block ELSE {}
  /\ held = {}
  /\ lost = {}

ListsNext ==
  /\ \/ class = "SinglyList" /\ Singly!ListUseNext
     \/ class = "TSinglyList" /\ TSingly!ListUseNext
     \/ class = "TMPSinglyList" /\ TMPSingly!ListUseNext
     \/ class = "DoublyList" /\ Doubly!ListUseNext
     \/ class = "TDoublyList" /\ TDoubly!ListUseNext
     \/ class = "TMPDoublyList" /\ TMPDoubly!ListUseNext
  /\ UNCHANGED class

ListsSpec == ListsInit /\ [][ListsNext]_listsVars

-----------------------------------------------------------------------------
\* Every call of a list does what a node pool does: a node goes to the end
\* it was linked to or to its place in the order, leaves without disturbing
\* the others, and a node that is not linked is refused.
Pool == INSTANCE NodePool WITH
  PoolNode <- Node, PoolNumber <- NodeNumbers,
  linked <- Linked(list), inHand <- held, freed <- FreeOnes(list),
  number <- list.NodeNumber

ListsImplementNodePool == Pool!PoolSpec

\* The three counters, which the code tests instead of the pointers, say what
\* the pointers do.
CountersExact ==
  /\ list.NodeLinkCount = Len(Linked(list))
  /\ list.NodeUseCount = Len(Linked(list)) + Cardinality(held)
  /\ list.FreeListCount = Len(FreeOnes(list))

\* The tail pointer ends the chain, and in the doubly linked classes pPrev is
\* pNext backwards: what Link and Unlink follow is what a walk would find.
EndsAndMirror ==
  LET s == Linked(list)
      before(i) == IF i = 1 THEN NULL ELSE s[i - 1]
  IN  /\ list.pTailNode = IF s = <<>> THEN NULL ELSE s[Len(s)]
      /\ class \in DoublyClasses =>
           \A i \in 1 .. Len(s) : list.pPrev[s[i]] = before(i)

\* Every node of the heap is in exactly one place, so that none is leaked and
\* none handed out twice: linked, in hand, free, not yet taken from the block,
\* or lost in a user's hands by Release.
EachNodeInOnePlace ==
  LET unused == IF list.BufferListCount = 0 THEN {}
                ELSE list.pBufferList .. list.pBufferList + list.BufferListCount - 1
  IN  /\ heap = Deleted(list) \cup held \cup lost \cup unused
      /\ Cardinality(heap) = list.NodeLinkCount + list.FreeListCount
           + Cardinality(held) + Cardinality(lost) + Cardinality(unused)

\* Whatever calls were made, in whatever order: a list's counters, its pointers
\* and its nodes agree (CountersExact, EndsAndMirror, EachNodeInOnePlace).
ListsSound == CountersExact /\ EndsAndMirror /\ EachNodeInOnePlace
=============================================================================

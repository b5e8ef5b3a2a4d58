---------------------------- MODULE ComponentTree ----------------------------
(***************************************************************************)
(* IComponent and EDComponentFramework: a tree of components whose         *)
(* callbacks are called by recursion, once in a run for each of create,    *)
(* update, late update, show and release.  A component that overrides the  *)
(* callbacks may change the tree from within one; the default callback     *)
(* calls the children's.  ComponentList is the sequence NodePool says.     *)
(***************************************************************************)
EXTENDS Naturals, Sequences, FiniteSets

CONSTANTS
  Root,                 \* the framework, spRootComponent
  Component,            \* the other components
  IDsOf,                \* bound: the ids each component may be added with
  ChangeMax             \* bound: changes of the tree from within callbacks

Tree == Component \cup {Root}

VARIABLES
  kids,                 \* the components linked in each ComponentList
  ID,                   \* id of each component, and NodeNumber of its node
  nodesUsed,            \* NodeUseCount of each ComponentList
  overrides,            \* components with callbacks of their own
  UpdateFlag, ShowFlag,
  callback,                \* the callback that vRun is calling, or "build", "end"
  frames,               \* the recursion: nodes, and where each call is
  got,                  \* calls of each component in this traversal
  changes, changed      \* changes so far; one of them in this traversal

treeVars == <<kids, ID, nodesUsed, overrides, UpdateFlag, ShowFlag, callback,
              frames, got, changes, changed>>
shapeVars == <<kids, ID, nodesUsed>>
runVars == <<overrides, UpdateFlag, ShowFlag>>

In(c, s) == \E i \in 1 .. Len(s) : s[i] = c
Linked2(c) == \E p \in Tree : In(c, kids[p])

\* All components below p.
Below(p) ==
  LET reach[k \in 0 .. Cardinality(Component)] ==
        IF k = 0 THEN {c \in Component : In(c, kids[p])}
        ELSE reach[k - 1] \cup
             {c \in Component : \E q \in reach[k - 1] : In(c, kids[q])}
  IN  reach[Cardinality(Component)]

\* gRecursiveSearchNodeWithID from p's list: a component before its children,
\* these before its next sibling; Root stands for NULL.
SearchBelow(p, id) ==
  LET preorder[k \in 0 .. Cardinality(Component), q \in Tree] ==
        LET f[i \in 0 .. Len(kids[q])] ==
              IF i = 0 THEN <<>>
              ELSE f[i - 1] \o <<kids[q][i]>> \o
                   IF k = 0 THEN <<>> ELSE preorder[k - 1, kids[q][i]]
        IN  f[Len(kids[q])]
      hits == SelectSeq(preorder[Cardinality(Component), p],
                        LAMBDA c : ID[c] = id)
  IN  IF hits = <<>> THEN Root ELSE Head(hits)

SearchComponent(id) == SearchBelow(Root, id)

\* The component whose vOnMessage is called; FALSE is returned for Root.
SendMessage(id) == SearchBelow(Root, id)

-----------------------------------------------------------------------------
TreeInit ==
  /\ kids = [c \in Tree |-> <<>>]
  /\ ID = [c \in Tree |-> 0]
  /\ nodesUsed = [c \in Tree |-> 0]
  /\ overrides \in {{}, {CHOOSE c \in Component : TRUE}}
  /\ UpdateFlag = TRUE /\ ShowFlag = TRUE
  /\ callback = "build"
  /\ frames = <<>>
  /\ got = [c \in Component |-> 0]
  /\ changes = 0 /\ changed = FALSE

AddComponent(p, c, id) ==
  /\ ~Linked2(c) /\ p # c /\ p \notin Below(c)
  /\ kids' = [kids EXCEPT ![p] = Append(@, c)]
  /\ ID' = [ID EXCEPT ![c] = id]
  /\ nodesUsed' = [nodesUsed EXCEPT ![p] = @ + 1]

\* The first node with the component's number is unlinked, but not freed.
DelComponent(p, c) ==
  LET hits == {i \in 1 .. Len(kids[p]) : ID[kids[p][i]] = ID[c]}
      at == CHOOSE i \in hits : \A j \in hits : i <= j
  IN  /\ kids' = IF hits = {} THEN kids
                 ELSE [kids EXCEPT ![p] =
                         SubSeq(@, 1, at - 1) \o SubSeq(@, at + 1, Len(@))]
      /\ UNCHANGED <<ID, nodesUsed>>

\* Before vRun; every component is added once.
Build ==
  /\ callback = "build"
  /\ \E p \in Tree, c \in Component :
       \/ ID[c] = 0 /\ \E id \in IDsOf[c] : AddComponent(p, c, id)
       \/ In(c, kids[p]) /\ changes < ChangeMax /\ DelComponent(p, c)
  /\ changes' = IF nodesUsed' = nodesUsed THEN changes + 1 ELSE changes
  /\ UNCHANGED <<runVars, callback, frames, got, changed>>

-----------------------------------------------------------------------------
\* vRun and MainEventRun: which callback comes after which.
AfterEvent ==
  CASE callback = "build" -> "create"
    [] callback = "create" -> IF UpdateFlag THEN "update"
                           ELSE IF ShowFlag THEN "show" ELSE "release"
    [] callback = "update" -> "late update"
    [] callback = "late update" -> IF ShowFlag THEN "show" ELSE "release"
    [] callback = "show" -> "release"
    [] OTHER -> "end"

\* The framework's own callback: gRecursiveX( ComponentList.pHeadNode ).
Enter(list) == IF list = <<>> THEN <<>> ELSE <<[at |-> Head(list), do |-> "call"]>>

StartEvent ==
  /\ callback # "end" /\ frames = <<>>
  /\ callback' = AfterEvent
  /\ frames' = IF callback' = "end" THEN <<>> ELSE Enter(kids[Root])
  /\ got' = [c \in Component |-> 0]
  /\ changed' = FALSE
  /\ UNCHANGED <<shapeVars, runVars, changes>>

Top == frames[Len(frames)]
Under == SubSeq(frames, 1, Len(frames) - 1)

\* Mutant of CallComponent: a component with children is passed over.
CallLeavesOnly ==
  /\ frames # <<>> /\ Top.do = "call"
  /\ got' = IF kids[Top.at] = <<>> THEN [got EXCEPT ![Top.at] = @ + 1] ELSE got
  /\ frames' = Under \o <<[Top EXCEPT !.do = "children"]>>
  /\ UNCHANGED <<shapeVars, runVars, callback, changes, changed>>

\* component->vOnX(): the default goes on to the children's.
CallComponent ==
  /\ frames # <<>> /\ Top.do = "call"
  /\ got' = [got EXCEPT ![Top.at] = @ + 1]
  /\ frames' = Under \o
       (IF Top.at \in overrides THEN <<[Top EXCEPT !.do = "own"]>>
        ELSE <<[Top EXCEPT !.do = "children"]>> \o Enter(kids[Top.at]))
  /\ UNCHANGED <<shapeVars, runVars, callback, changes, changed>>

\* A callback of the program's own may delete a component, add one that is
\* not in the tree (nor was, with its old node still in the recursion), or
\* turn updating or showing off.
OwnCallback ==
  /\ frames # <<>> /\ Top.do = "own"
  /\ frames' = Append(Under, [Top EXCEPT !.do = "children"])
  /\ \/ /\ changes < ChangeMax
        /\ \E p \in Tree, c \in Component :
             \/ In(c, kids[p]) /\ DelComponent(p, c)
             \/ /\ \A i \in 1 .. Len(frames) : frames[i].at # c
                /\ \E id \in IDsOf[c] : AddComponent(p, c, id)
        /\ changes' = changes + 1 /\ changed' = TRUE
        /\ UNCHANGED runVars
     \/ /\ UpdateFlag' \in {UpdateFlag, FALSE} /\ ShowFlag' \in {ShowFlag, FALSE}
        /\ UNCHANGED <<shapeVars, overrides, changes, changed>>
  /\ UNCHANGED <<callback, got>>

\* gRecursiveX( component->ComponentList.pHeadNode ), whatever vOnX did.
RecurseToChildren ==
  /\ frames # <<>> /\ Top.do = "children"
  /\ frames' = Under \o <<[Top EXCEPT !.do = "next"]>> \o Enter(kids[Top.at])
  /\ UNCHANGED <<shapeVars, runVars, callback, got, changes, changed>>

\* Mutant of NextNode: only the first child is reached.
NextNodeForgets ==
  /\ frames # <<>> /\ Top.do = "next"
  /\ frames' = Under
  /\ UNCHANGED <<shapeVars, runVars, callback, got, changes, changed>>

\* node = node->pNext; an unlinked node has none.
NextNode ==
  /\ frames # <<>> /\ Top.do = "next"
  /\ LET p == CHOOSE q \in Tree : In(Top.at, kids[q])
         i == CHOOSE j \in 1 .. Len(kids[p]) : kids[p][j] = Top.at
     IN  frames' = IF ~Linked2(Top.at) \/ i = Len(kids[p]) THEN Under
                   ELSE Append(Under, [at |-> kids[p][i + 1], do |-> "call"])
  /\ UNCHANGED <<shapeVars, runVars, callback, got, changes, changed>>

TreeNext ==
  \/ Build \/ StartEvent \/ CallComponent \/ OwnCallback
  \/ RecurseToChildren \/ NextNode
  \/ callback = "end" /\ UNCHANGED treeVars

TreeSpec == TreeInit /\ [][TreeNext]_treeVars /\ WF_treeVars(TreeNext)

-----------------------------------------------------------------------------
\* Components between c and the root that have only the default callbacks.
DefaultAbove(c) == {p \in Component \ overrides : c \in Below(p)}
Pow2 == [n \in 0 .. Cardinality(Component) |->
           Cardinality(SUBSET (1 .. n))]

\* A traversal in which no callback changes the tree reaches every component
\* of it; and since a default callback recurses and its caller does so again,
\* each default component above another doubles the calls of that one.
CallsDouble ==
  frames = <<>> /\ callback \notin {"build", "end"} /\ ~changed =>
    \A c \in Component :
      got[c] = IF c \in Below(Root)
               THEN Pow2[Cardinality(DefaultAbove(c))] ELSE 0

\* Whatever callbacks do to the tree, a component is called only after the
\* one it was under.
ParentFirst ==
  [][CallComponent =>
       \A i \in 1 .. Len(frames) - 1 : got[frames[i].at] > 0]_treeVars

TreeEnded == callback \in {"build", "end"}

\* A search finds a component exactly when one below the root has the id.
SearchExact ==
  callback = "build" /\ kids[Root] # <<>> => \A id \in UNION {IDsOf[c] : c \in Component} :
    LET c == SearchComponent(id)
        having == {d \in Below(Root) : ID[d] = id}
    IN  IF having = {} THEN c = Root ELSE c \in having

\* Walks of the tree, as the framework makes them, reach every component below
\* the root as often as, and no other than, they must.
TreeWalksExact == CallsDouble /\ SearchExact
=============================================================================

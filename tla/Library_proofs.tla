---------------------------- MODULE Library_proofs ----------------------------
(* The parts of MTLibrary that several programs are built on, and three      *)
(* users of them. The Mailbox loses no wake-up, for any number of producers  *)
(* and messages; the intrusive lists keep their pointers and counters right  *)
(* and are pools of nodes, for any number of nodes and any numbers,          *)
(* whichever of the six classes is used; the memory pool, for any number of  *)
(* lists and of requests, hands out pieces that do not overlap and releases  *)
(* every extra buffer, unless two lists race. On the lists: the tasks of     *)
(* tutorial 3-5 are consumed in order, the task manager runs each task as    *)
(* often as it should and never early, and the MintClient whose heartbeat is *)
(* one of its tasks keeps its place in the chat.                             *)
EXTENDS Mailbox, Lists, MemoryPool, ProducerConsumer, MintClient,
        SequenceTheorems, FiniteSetTheorems, WellFoundedInduction, TLAPS

-------------------------------------------------------------------------------
(* The packet queue with its event.                                            *)

\* The variables keep their types.
THEOREM MailboxTypeCorrect == MailboxSpec => []MailboxTypeOK
<1>1. MailboxInit => MailboxTypeOK
  <2> SUFFICES ASSUME MailboxInit PROVE MailboxTypeOK
    OBVIOUS
  <2>1. event \in BOOLEAN
    BY Zenon DEF MailboxInit
  <2>2. /\ queue \in Seq(Messages)
        /\ consumer \in {"sleep", "wake", "work", "stop"}
        /\ owing \subseteq Producers
    BY DEF MailboxInit
  <2> QED
    BY <2>1, <2>2 DEF MailboxTypeOK
<1>2. ASSUME MailboxTypeOK, [MailboxNext]_mailboxVars
      PROVE  MailboxTypeOK'
  <2> USE <1>2 DEF MailboxTypeOK
  <2>1. ASSUME NEW p \in Producers, Link(p) \/ Awake(p) PROVE MailboxTypeOK'
    <3>1. CASE Link(p)
      BY <3>1 DEF Link
    <3>2. CASE Awake(p)
      BY <3>2 DEF Awake
    <3> QED
      BY <2>1, <3>1, <3>2
  <2>2. CASE Signal
    BY <2>2 DEF Signal
  <2>3. CASE Reset
    <3>1. event' \in BOOLEAN
      BY <2>3, Zenon DEF Reset
    <3> QED
      BY <2>3, <3>1 DEF Reset
  <2>4. CASE WaitReturns \/ Take \/ Empty \/ Quit \/ Stop
    BY <2>4 DEF WaitReturns, Take, Empty, Quit, Stop
  <2>5. CASE UNCHANGED mailboxVars
    BY <2>5 DEF mailboxVars
  <2> QED
    BY <2>1, <2>2, <2>3, <2>4, <2>5 DEF MailboxNext, Consume
<1> QED
  BY <1>1, <1>2, PTL DEF MailboxSpec

\* A consumer never sleeps beside a node with nobody left to wake it: between
\* the link of a node and its take there is always the event or a producer
\* that has still to set it, because ResetEvent comes before the queue is
\* looked at.
THEOREM MailboxNothingLeftBehind == MailboxSpec => []NothingLeftBehind
<1>1. MailboxInit => NothingLeftBehind
  BY DEF MailboxInit, NothingLeftBehind
<1>2. ASSUME MailboxTypeOK, NothingLeftBehind, [MailboxNext]_mailboxVars
      PROVE  NothingLeftBehind'
  <2> USE <1>2 DEF MailboxTypeOK, NothingLeftBehind
  <2>1. CASE \E p \in Producers : Link(p)
    BY <2>1 DEF Link
  <2>2. CASE \E p \in Producers : Awake(p)
    BY <2>2 DEF Awake
  <2>3. CASE Signal
    BY <2>3 DEF Signal
  <2>4. CASE Consume
    BY <2>4 DEF Consume, WaitReturns, Reset, Take, Empty
  <2>5. CASE Quit \/ Stop
    BY <2>5 DEF Quit, Stop
  <2>6. CASE UNCHANGED mailboxVars
    BY <2>6 DEF mailboxVars
  <2> QED
    BY <2>1, <2>2, <2>3, <2>4, <2>5, <2>6 DEF MailboxNext
<1> QED
  BY <1>1, <1>2, MailboxTypeCorrect, PTL DEF MailboxSpec

-------------------------------------------------------------------------------
(* The intrusive lists: sequences, sets of naturals, and the walk of Chain.    *)

LEMMA Joined ==
    ASSUME NEW S, NEW s \in Seq(S), NEW t \in Seq(S)
    PROVE  /\ s \o t \in Seq(S) /\ Len(s) \in Nat /\ Len(t) \in Nat
           /\ Len(s \o t) = Len(s) + Len(t)
           /\ \A i \in 1 .. Len(s) : (s \o t)[i] = s[i]
           /\ \A i \in 1 .. Len(t) : (s \o t)[Len(s) + i] = t[i]
BY ConcatProperties, LenProperties

\* What holds of 0, and of k + 1 if of k, holds of every natural number: as a
\* fact about sets, it needs no operator as a parameter.
LEMMA AllNaturals ==
    ASSUME NEW T, 0 \in T, \A k \in Nat : k \in T => k + 1 \in T
    PROVE  Nat \subseteq T
<1> DEFINE Less == {ss \in Nat \X Nat : ss[1] < ss[2]}
           Bad == Nat \ T
<1>1. IsWellFoundedOn(Less, Nat)
  BY NatLessThanWellFounded, Zenon DEF OpToRel
<1> SUFFICES ASSUME Bad # {}
             PROVE  FALSE
  OBVIOUS
<1>2. PICK n \in Bad : \A m \in Bad : ~ (<<m, n>> \in Less)
  <2>1. Bad \subseteq Nat
    OBVIOUS
  <2> HIDE DEF Less, Bad
  <2> QED
    BY <1>1, <2>1, WFMin
<1>3. n \in Nat \ {0}
  OBVIOUS
<1>4. n - 1 \in Nat /\ (n - 1) + 1 = n
  BY <1>3
<1>5. n - 1 \notin T
  OBVIOUS
<1>6. <<n - 1, n>> \in Less
  BY <1>3, <1>4
<1> QED
  BY <1>2, <1>4, <1>5, <1>6

\* Where the walk of Chain can be: at a node, or past the last one.
Spot == Node \cup {NULL}

\* walk is what Chain's local function is, up to k steps.
WalkUpTo(walk, next, m) ==
  walk = [k \in 0 .. m |-> [n \in Spot |->
            IF n = NULL \/ k = 0 THEN <<>> ELSE <<n>> \o walk[k - 1][next[n]]]]

\* The function that Chain describes exists, by induction on its steps.
LEMMA WalkExists ==
    ASSUME NEW next \in [Node -> Spot]
    PROVE  \A m \in Nat : \E walk : WalkUpTo(walk, next, m)
<1> DEFINE T == {m \in Nat : \E walk : WalkUpTo(walk, next, m)}
<1>1. 0 \in T
  <2> DEFINE walk == [k \in 0 .. 0 |-> [n \in Spot |-> <<>>]]
  <2>1. WalkUpTo(walk, next, 0)
    BY DEF WalkUpTo
  <2> QED
    BY <2>1
<1>2. ASSUME NEW m \in Nat, m \in T
      PROVE  m + 1 \in T
  <2>1. PICK w : WalkUpTo(w, next, m)
    BY <1>2
  <2> DEFINE v == [k \in 0 .. m + 1 |-> [n \in Spot |->
               IF n = NULL \/ k = 0 THEN <<>> ELSE <<n>> \o w[k - 1][next[n]]]]
  <2>2. ASSUME NEW k \in 0 .. m
        PROVE  v[k] = w[k]
    <3>1. /\ v[k] = [n \in Spot |->
               IF n = NULL \/ k = 0 THEN <<>> ELSE <<n>> \o w[k - 1][next[n]]]
      OBVIOUS
    <3>2. w[k] = [n \in Spot |->
               IF n = NULL \/ k = 0 THEN <<>> ELSE <<n>> \o w[k - 1][next[n]]]
      BY <2>1, Zenon DEF WalkUpTo
    <3> QED
      BY <3>1, <3>2
  <2> DEFINE u == [k \in 0 .. m + 1 |-> [n \in Spot |->
               IF n = NULL \/ k = 0 THEN <<>> ELSE <<n>> \o v[k - 1][next[n]]]]
  <2>3. ASSUME NEW k \in 0 .. m + 1
        PROVE  v[k] = u[k]
    <3>1. k = 0 \/ k - 1 \in 0 .. m
      OBVIOUS
    <3>2. k # 0 => v[k - 1] = w[k - 1]
      BY <2>2, <3>1
    <3>3. /\ v[k] = [n \in Spot |->
                IF n = NULL \/ k = 0 THEN <<>> ELSE <<n>> \o w[k - 1][next[n]]]
          /\ u[k] = [n \in Spot |->
                IF n = NULL \/ k = 0 THEN <<>> ELSE <<n>> \o v[k - 1][next[n]]]
      OBVIOUS
    <3> HIDE DEF v, u
    <3> QED
      BY <3>2, <3>3
  <2>4. v = u
    BY <2>3
  <2>5. WalkUpTo(v, next, m + 1)
    BY <2>4 DEF WalkUpTo
  <2> QED
    BY <2>5
<1> HIDE DEF T
<1>3. Nat \subseteq T
  BY <1>1, <1>2, AllNaturals
<1> QED
  BY <1>3 DEF T

\* What Chain computes, step by step.
LEMMA ChainWalks ==
    ASSUME NEW next \in [Node -> Spot], NEW first
    PROVE  \E walk : /\ WalkUpTo(walk, next, ListNodeMax)
                     /\ Chain(next, first) = walk[ListNodeMax][first]
<1> DEFINE w == CHOOSE walk : WalkUpTo(walk, next, ListNodeMax)
<1>1. Chain(next, first) = w[ListNodeMax][first]
  BY DEF Chain, WalkUpTo, Spot
<1>2. ListNodeMax \in Nat
  BY ListNodeMaxAssumption
<1>3. \E walk : WalkUpTo(walk, next, ListNodeMax)
  BY <1>2, WalkExists
<1>4. WalkUpTo(w, next, ListNodeMax)
  <2> HIDE DEF WalkUpTo
  <2> QED
    BY <1>3
<1> QED
  BY <1>1, <1>4

\* s is what a walk along next meets from first on.
Threads(next, first, s) ==
  /\ first = IF Len(s) = 0 THEN NULL ELSE s[1]
  /\ \A i \in 1 .. Len(s) : next[s[i]] = IF i = Len(s) THEN NULL ELSE s[i + 1]

LEMMA ChainIs ==
    ASSUME NEW next \in [Node -> Spot], NEW first, NEW s \in Seq(Node),
           Len(s) <= ListNodeMax, Threads(next, first, s)
    PROVE  Chain(next, first) = s
<1>0. Len(s) \in Nat /\ ListNodeMax \in Nat
  BY ListNodeMaxAssumption
<1>1. PICK walk : /\ WalkUpTo(walk, next, ListNodeMax)
                  /\ Chain(next, first) = walk[ListNodeMax][first]
  BY ChainWalks
<1>2. ASSUME NEW k \in 0 .. ListNodeMax, NEW n \in Spot
      PROVE  walk[k][n] =
               IF n = NULL \/ k = 0 THEN <<>> ELSE <<n>> \o walk[k - 1][next[n]]
  <2>1. walk[k] = [m \in Spot |->
                IF m = NULL \/ k = 0 THEN <<>> ELSE <<m>> \o walk[k - 1][next[m]]]
    BY <1>1, Zenon DEF WalkUpTo
  <2> QED
    BY <2>1
\* The node with j nodes from it on.
<1> DEFINE From(j) == IF j = 0 THEN NULL ELSE s[Len(s) - j + 1]
           Rest(j) == SubSeq(s, Len(s) - j + 1, Len(s))
           T == {j \in Nat : j <= Len(s) =>
                   \A k \in j .. ListNodeMax : walk[k][From(j)] = Rest(j)}
<1>3. 0 \in T
  <2>1. Rest(0) = <<>>
    BY <1>0, SubSeqEmpty
  <2>2. ASSUME NEW k \in 0 .. ListNodeMax
        PROVE  walk[k][NULL] = <<>>
    BY <1>2 DEF Spot
  <2> QED
    BY <2>1, <2>2
<1>4. ASSUME NEW j \in Nat, j \in T
      PROVE  j + 1 \in T
  <2>0. j + 1 \in Nat
    OBVIOUS
  <2> SUFFICES ASSUME j + 1 <= Len(s), NEW k \in j + 1 .. ListNodeMax
               PROVE  walk[k][From(j + 1)] = Rest(j + 1)
    BY <2>0, Zenon
  <2> DEFINE i == Len(s) - j
  <2>1. /\ i \in 1 .. Len(s) /\ s[i] \in Node /\ Len(s) - (j + 1) + 1 = i
        /\ From(j + 1) = s[i]
    BY <1>0
  <2>2. /\ k \in 0 .. ListNodeMax /\ k # 0 /\ k - 1 \in j .. ListNodeMax
        /\ s[i] \in Spot /\ s[i] # NULL
    BY <1>0, <2>1, SMTT(40) DEF Spot, Node, NULL
  <2>3. next[s[i]] = From(j)
    <3>1. CASE j = 0
      <4>1. i = Len(s)
        BY <1>0, <3>1, SMTT(40)
      <4> QED
        BY <2>1, <3>1, <4>1 DEF Threads
    <3>2. CASE j # 0
      <4>1. i # Len(s) /\ Len(s) - j + 1 = i + 1
        BY <1>0, <3>2
      <4> QED
        BY <2>1, <3>2, <4>1 DEF Threads
    <3> QED
      BY <3>1, <3>2
  <2>4. walk[k - 1][From(j)] = Rest(j)
    <3>1. j <= Len(s)
      BY <1>0
    <3>2. \A m \in j .. ListNodeMax : walk[m][From(j)] = Rest(j)
      BY <1>4, <3>1, Zenon
    <3> QED
      BY <2>2, <3>2, Zenon
  <2>5. walk[k][s[i]] = <<s[i]>> \o Rest(j)
    <3>1. walk[k - 1][next[s[i]]] = Rest(j)
      BY <2>3, <2>4
    <3>2. walk[k][s[i]] = <<s[i]>> \o walk[k - 1][next[s[i]]]
      <4> HIDE DEF i
      <4> QED
        BY <1>2, <2>2
    <3> QED
      BY <3>1, <3>2
  <2>6. <<s[i]>> \o SubSeq(s, i + 1, Len(s)) = SubSeq(s, i, Len(s))
    BY <1>0, <2>1, SubSeqRecursiveFirst, SMTT(40)
  <2>7. Len(s) - j + 1 = i + 1
    BY <1>0
  <2> QED
    BY <2>1, <2>5, <2>6, <2>7
<1> HIDE DEF T
<1>5. Nat \subseteq T
  BY <1>3, <1>4, AllNaturals
<1>6. Len(s) \in T /\ Len(s) <= Len(s) /\ ListNodeMax \in Len(s) .. ListNodeMax
  BY <1>0, <1>5
<1>7. walk[ListNodeMax][From(Len(s))] = Rest(Len(s))
  BY <1>6 DEF T
<1>8. Rest(Len(s)) = s
  <2>1. Len(s) - Len(s) + 1 = 1
    BY <1>0
  <2> QED
    BY <2>1, SubSeqFull
<1>9. From(Len(s)) = first
  <2>1. Len(s) - Len(s) + 1 = 1
    BY <1>0
  <2> QED
    BY <2>1 DEF Threads
<1> QED
  BY <1>1, <1>7, <1>8, <1>9

ListRecord ==
  [pHeadNode : Spot, pTailNode : Spot, NodeUseCount : Nat, NodeLinkCount : Nat,
   pFreeList : Spot, FreeListCount : Nat, ObjectCountMax : Nat,
   pBufferList : Nat, BufferListCount : Nat,
   pNext : [Node -> Spot], pPrev : [Node -> Spot],
   NodeNumber : [Node -> NodeNumbers]]

Pooled(c) == c \in PooledClasses

\* The nodes of the block that nobody has taken.
Unused(l) ==
  IF l.BufferListCount = 0 THEN {}
  ELSE l.pBufferList .. l.pBufferList + l.BufferListCount - 1

Distinct(s) == \A i, j \in 1 .. Len(s) : s[i] = s[j] => i = j

LastOf(s) == IF Len(s) = 0 THEN NULL ELSE s[Len(s)]

\* pPrev is pNext backwards.
Mirrors(prev, s) ==
  \A i \in 1 .. Len(s) : prev[s[i]] = IF i = 1 THEN NULL ELSE s[i - 1]

\* The list's pointers thread the linked nodes s and the free ones f, and its
\* counters count them.
Represents(l, cl, s, f) ==
  /\ s \in Seq(Node) /\ f \in Seq(Node)
  /\ Distinct(s) /\ Distinct(f) /\ NodesOf(s) \cap NodesOf(f) = {}
  /\ Threads(l.pNext, l.pHeadNode, s) /\ Threads(l.pNext, l.pFreeList, f)
  /\ l.pTailNode = LastOf(s)
  /\ cl \in DoublyClasses => Mirrors(l.pPrev, s)
  /\ l.NodeLinkCount = Len(s) /\ l.FreeListCount = Len(f)

\* Where the other nodes of the heap are, and that their pointers are clear:
\* what GetNode and Unlink leave, and what Link, FreeNode and the refusal of
\* an Unlink rely on.
Elsewhere(l, cl, s, f, hp, hd, ls) ==
  /\ hd \cap ls = {} /\ (hd \cup ls) \cap Unused(l) = {}
  /\ (hd \cup ls \cup Unused(l)) \cap (NodesOf(s) \cup NodesOf(f)) = {}
  /\ hp = NodesOf(s) \cup NodesOf(f) \cup hd \cup ls \cup Unused(l)
  /\ \A n \in hd \cup ls \cup Unused(l) : l.pNext[n] = NULL
  /\ cl \in DoublyClasses => \A n \in hp \ NodesOf(s) : l.pPrev[n] = NULL
  /\ l.NodeUseCount = Len(s) + Cardinality(hd)

\* s with n put in as the k-th, and s without its k-th.
Put(s, k, n) ==
  [i \in 1 .. Len(s) + 1 |-> IF i < k THEN s[i] ELSE IF i = k THEN n ELSE s[i - 1]]
Out(s, k) ==
  [i \in 1 .. Len(s) - 1 |-> IF i < k THEN s[i] ELSE s[i + 1]]

LEMMA InNodes ==
    ASSUME NEW s, NEW n
    PROVE  n \in NodesOf(s) <=> \E i \in 1 .. Len(s) : s[i] = n
BY DEF NodesOf

LEMMA NodesAre ==
    ASSUME NEW s \in Seq(Node)
    PROVE  /\ Len(s) \in Nat /\ NodesOf(s) \in SUBSET Node
           /\ \A i \in 1 .. Len(s) : s[i] \in Node /\ s[i] \in NodesOf(s) /\ s[i] # NULL
<1>1. Len(s) \in Nat /\ \A i \in 1 .. Len(s) : s[i] \in Node
  OBVIOUS
<1>2. \A i \in 1 .. Len(s) : s[i] \in NodesOf(s)
  BY InNodes
<1>3. \A n \in Node : n # NULL
  BY DEF Node, NULL
<1>4. \A n \in NodesOf(s) : n \in Node
  BY <1>1, InNodes
<1> QED
  BY <1>1, <1>2, <1>3, <1>4

LEMMA PutSeq ==
    ASSUME NEW s \in Seq(Node), Distinct(s), NEW k \in 1 .. Len(s) + 1,
           NEW n \in Node, n \notin NodesOf(s)
    PROVE  /\ Put(s, k, n) \in Seq(Node) /\ Len(Put(s, k, n)) = Len(s) + 1
           /\ Distinct(Put(s, k, n))
           /\ NodesOf(Put(s, k, n)) = NodesOf(s) \cup {n}
<1> DEFINE p == Put(s, k, n)
<1>1. Len(s) \in Nat
  OBVIOUS
<1>2. p \in Seq(Node) /\ Len(p) = Len(s) + 1
  BY <1>1 DEF Put
<1>3. \A i \in 1 .. Len(s) + 1 :
        p[i] = IF i < k THEN s[i] ELSE IF i = k THEN n ELSE s[i - 1]
  BY DEF Put
<1> HIDE DEF p
<1>4. ASSUME NEW i \in 1 .. Len(s)
      PROVE  s[i] # n
  BY InNodes
<1>5. Distinct(p)
  <2> SUFFICES ASSUME NEW i \in 1 .. Len(s) + 1, NEW j \in 1 .. Len(s) + 1,
                      p[i] = p[j]
               PROVE  i = j
    BY <1>2 DEF Distinct
  <2>1. ASSUME NEW a \in 1 .. Len(s) + 1
        PROVE  \/ a < k /\ a \in 1 .. Len(s) /\ p[a] = s[a]
               \/ a = k /\ p[a] = n
               \/ a > k /\ a - 1 \in 1 .. Len(s) /\ p[a] = s[a - 1]
    BY <1>1, <1>3
  <2>2. /\ \/ i < k /\ i \in 1 .. Len(s) /\ p[i] = s[i]
           \/ i = k /\ p[i] = n
           \/ i > k /\ i - 1 \in 1 .. Len(s) /\ p[i] = s[i - 1]
        /\ \/ j < k /\ j \in 1 .. Len(s) /\ p[j] = s[j]
           \/ j = k /\ p[j] = n
           \/ j > k /\ j - 1 \in 1 .. Len(s) /\ p[j] = s[j - 1]
    BY <2>1
  <2>3. CASE i = k \/ j = k
    BY <1>4, <2>2, <2>3
  <2>4. CASE i # k /\ j # k
    BY <1>1, <2>2, <2>4 DEF Distinct
  <2> QED
    BY <2>3, <2>4
<1>6. NodesOf(p) = NodesOf(s) \cup {n}
  <2>1. ASSUME NEW a \in 1 .. Len(s) + 1
        PROVE  p[a] \in NodesOf(s) \cup {n}
    <3>1. \/ a \in 1 .. Len(s) /\ p[a] = s[a]
          \/ p[a] = n
          \/ a - 1 \in 1 .. Len(s) /\ p[a] = s[a - 1]
      BY <1>1, <1>3
    <3> QED
      BY <3>1, InNodes
  <2>2. ASSUME NEW a \in 1 .. Len(s)
        PROVE  s[a] \in NodesOf(p)
    <3>1. \/ a \in 1 .. Len(p) /\ p[a] = s[a]
          \/ a + 1 \in 1 .. Len(p) /\ p[a + 1] = s[a]
      <4>1. CASE a < k
        BY <1>1, <1>2, <1>3, <4>1
      <4>2. CASE ~(a < k)
        <5>1. /\ a + 1 \in 1 .. Len(s) + 1 /\ ~(a + 1 < k) /\ a + 1 # k
              /\ (a + 1) - 1 = a
          BY <1>1, <4>2
        <5> QED
          BY <1>2, <1>3, <5>1
      <4> QED
        BY <4>1, <4>2
    <3> QED
      BY <3>1, InNodes
  <2>3. n \in NodesOf(p)
    <3>1. k \in 1 .. Len(p) /\ p[k] = n
      BY <1>1, <1>2, <1>3
    <3> QED
      BY <3>1, InNodes
  <2>4. \A m \in NodesOf(p) : m \in NodesOf(s) \cup {n}
    BY <1>2, <2>1, InNodes
  <2>5. \A m \in NodesOf(s) : m \in NodesOf(p)
    BY <2>2, InNodes
  <2> QED
    BY <2>3, <2>4, <2>5
<1> QED
  BY <1>2, <1>5, <1>6 DEF p

LEMMA OutSeq ==
    ASSUME NEW s \in Seq(Node), Distinct(s), NEW k \in 1 .. Len(s)
    PROVE  /\ Out(s, k) \in Seq(Node) /\ Len(Out(s, k)) = Len(s) - 1
           /\ Distinct(Out(s, k))
           /\ NodesOf(Out(s, k)) = NodesOf(s) \ {s[k]}
<1> DEFINE p == Out(s, k)
<1>1. Len(s) \in Nat \ {0}
  OBVIOUS
<1>2. p \in Seq(Node) /\ Len(p) = Len(s) - 1
  BY <1>1 DEF Out
<1>3. \A i \in 1 .. Len(s) - 1 : p[i] = IF i < k THEN s[i] ELSE s[i + 1]
  BY DEF Out
<1> HIDE DEF p
\* Where the nodes of p were in s.
<1>4. ASSUME NEW a \in 1 .. Len(s) - 1
      PROVE  \/ a < k /\ a \in 1 .. Len(s) /\ p[a] = s[a]
             \/ ~(a < k) /\ a + 1 \in 1 .. Len(s) /\ a + 1 # k /\ p[a] = s[a + 1]
  BY <1>1, <1>3
<1>5. Distinct(p)
  <2> SUFFICES ASSUME NEW i \in 1 .. Len(s) - 1, NEW j \in 1 .. Len(s) - 1,
                      p[i] = p[j]
               PROVE  i = j
    BY <1>2 DEF Distinct
  <2> QED
    BY <1>1, <1>4, SMTT(40) DEF Distinct
<1>6. NodesOf(p) = NodesOf(s) \ {s[k]}
  <2>1. ASSUME NEW a \in 1 .. Len(s) - 1
        PROVE  p[a] \in NodesOf(s) \ {s[k]}
    <3>1. PICK b \in 1 .. Len(s) : b # k /\ p[a] = s[b]
      BY <1>4
    <3>2. s[b] # s[k]
      BY <3>1 DEF Distinct
    <3> QED
      BY <3>1, <3>2, InNodes
  <2>2. ASSUME NEW a \in 1 .. Len(s), a # k
        PROVE  s[a] \in NodesOf(p)
    <3>1. CASE a < k
      <4>1. a \in 1 .. Len(p) /\ p[a] = s[a]
        BY <1>1, <1>2, <1>3, <3>1
      <4> QED
        BY <4>1, InNodes
    <3>2. CASE a > k
      <4>1. a - 1 \in 1 .. Len(s) - 1 /\ ~(a - 1 < k) /\ (a - 1) + 1 = a
        BY <1>1, <3>2
      <4>2. a - 1 \in 1 .. Len(p) /\ p[a - 1] = s[a]
        BY <1>2, <1>3, <4>1
      <4> QED
        BY <4>2, InNodes
    <3> QED
      BY <2>2, <3>1, <3>2
  <2>3. \A m \in NodesOf(p) : m \in NodesOf(s) \ {s[k]}
    BY <1>2, <2>1, InNodes
  <2>4. \A m \in NodesOf(s) \ {s[k]} : m \in NodesOf(p)
    BY <2>2, InNodes
  <2> QED
    BY <2>3, <2>4
<1> QED
  BY <1>2, <1>5, <1>6 DEF p

\* The pointers after n was put in: n points to the node after it, the one
\* before it to n, and all others where they did.
LEMMA PutThreads ==
    ASSUME NEW s \in Seq(Node), Distinct(s), NEW k \in 1 .. Len(s) + 1,
           NEW n \in Node, n \notin NodesOf(s),
           NEW next, NEW next2, NEW first, NEW first2,
           Threads(next, first, s),
           first2 = IF k = 1 THEN n ELSE first,
           next2[n] = IF k = Len(s) + 1 THEN NULL ELSE s[k],
           \A i \in 1 .. Len(s) : next2[s[i]] = IF i = k - 1 THEN n ELSE next[s[i]]
    PROVE  Threads(next2, first2, Put(s, k, n))
<1> DEFINE p == Put(s, k, n)
<1>1. Len(s) \in Nat /\ Len(p) = Len(s) + 1
  BY PutSeq
<1>2. \A i \in 1 .. Len(s) + 1 :
        p[i] = IF i < k THEN s[i] ELSE IF i = k THEN n ELSE s[i - 1]
  BY DEF Put
<1> HIDE DEF p
<1>3. \A i \in 1 .. Len(s) : next[s[i]] = IF i = Len(s) THEN NULL ELSE s[i + 1]
  BY DEF Threads
<1>4. ASSUME NEW i \in 1 .. Len(s) + 1
      PROVE  next2[p[i]] = IF i = Len(s) + 1 THEN NULL ELSE p[i + 1]
  <2>1. CASE i = k
    <3>1. CASE k = Len(s) + 1
      BY <1>2, <2>1, <3>1
    <3>2. CASE k # Len(s) + 1
      <4>1. k + 1 \in 1 .. Len(s) + 1 /\ ~(k + 1 < k) /\ k + 1 # k /\ (k + 1) - 1 = k
        BY <1>1, <3>2
      <4>2. p[k + 1] = s[k]
        BY <1>2, <4>1
      <4> QED
        BY <1>2, <2>1, <3>2, <4>2
    <3> QED
      BY <3>1, <3>2
  <2>2. CASE i < k
    <3>1. i \in 1 .. Len(s) /\ i + 1 \in 1 .. Len(s) + 1 /\ p[i] = s[i]
      BY <1>1, <1>2, <2>2
    <3>2. CASE i = k - 1
      <4>1. p[i + 1] = n /\ i # Len(s) + 1
        BY <1>1, <1>2, <3>1, <3>2
      <4> QED
        BY <3>1, <3>2, <4>1
    <3>3. CASE i # k - 1
      <4>1. i + 1 < k /\ i # Len(s) /\ i # Len(s) + 1
        BY <1>1, <2>2, <3>3
      <4>2. p[i + 1] = s[i + 1]
        BY <1>2, <3>1, <4>1
      <4> QED
        BY <1>3, <3>1, <3>3, <4>1, <4>2
    <3> QED
      BY <3>2, <3>3
  <2>3. CASE i > k
    <3>0. ~(i < k) /\ i # k
      BY <2>3
    <3>1. /\ i - 1 \in 1 .. Len(s) /\ i - 1 # k - 1 /\ p[i] = s[i - 1]
          /\ (i - 1) + 1 = i
      <4>1. p[i] = s[i - 1]
        BY <1>2, <3>0, SMTT(40)
      <4> QED
        BY <1>1, <2>3, <4>1
    <3>2. CASE i = Len(s) + 1
      <4>1. i - 1 = Len(s)
        BY <1>1, <3>2
      <4> QED
        BY <1>3, <3>1, <3>2, <4>1
    <3>3. CASE i # Len(s) + 1
      <4>1. /\ i + 1 \in 1 .. Len(s) + 1 /\ ~(i + 1 < k) /\ i + 1 # k
            /\ (i + 1) - 1 = i /\ i - 1 # Len(s)
        BY <1>1, <2>3, <3>3
      <4>2. p[i + 1] = s[i]
        BY <1>2, <4>1
      <4> QED
        BY <1>3, <3>1, <3>3, <4>1, <4>2
    <3> QED
      BY <3>2, <3>3
  <2> QED
    BY <1>1, <2>1, <2>2, <2>3
<1>5. first2 = p[1]
  <2>1. CASE k = 1
    BY <1>1, <1>2, <2>1
  <2>2. CASE k # 1
    <3>1. 1 \in 1 .. Len(s) + 1 /\ 1 < k /\ Len(s) # 0
      BY <1>1, <2>2
    <3> QED
      BY <1>2, <2>2, <3>1 DEF Threads
  <2> QED
    BY <2>1, <2>2
<1>6. Len(p) # 0
  BY <1>1
<1> QED
  BY <1>1, <1>4, <1>5, <1>6 DEF Threads, p

LEMMA PutMirrors ==
    ASSUME NEW s \in Seq(Node), Distinct(s), NEW k \in 1 .. Len(s) + 1,
           NEW n \in Node, n \notin NodesOf(s), NEW prev, NEW prev2,
           Mirrors(prev, s),
           prev2[n] = IF k = 1 THEN NULL ELSE s[k - 1],
           \A i \in 1 .. Len(s) : prev2[s[i]] = IF i = k THEN n ELSE prev[s[i]]
    PROVE  Mirrors(prev2, Put(s, k, n))
<1> DEFINE p == Put(s, k, n)
<1>1. Len(s) \in Nat /\ Len(p) = Len(s) + 1
  BY PutSeq
<1>2. \A i \in 1 .. Len(s) + 1 :
        p[i] = IF i < k THEN s[i] ELSE IF i = k THEN n ELSE s[i - 1]
  BY DEF Put
<1> HIDE DEF p
<1>3. \A i \in 1 .. Len(s) : prev[s[i]] = IF i = 1 THEN NULL ELSE s[i - 1]
  BY DEF Mirrors
<1>4. ASSUME NEW i \in 1 .. Len(s) + 1
      PROVE  prev2[p[i]] = IF i = 1 THEN NULL ELSE p[i - 1]
  <2>1. CASE i = k
    <3>1. CASE k = 1
      BY <1>2, <2>1, <3>1
    <3>2. CASE k # 1
      <4>1. k - 1 \in 1 .. Len(s) + 1 /\ k - 1 < k
        BY <1>1, <3>2
      <4>2. p[k - 1] = s[k - 1]
        BY <1>2, <4>1
      <4> QED
        BY <1>2, <2>1, <3>2, <4>2
    <3> QED
      BY <3>1, <3>2
  <2>2. CASE i < k
    <3>1. i \in 1 .. Len(s) /\ i # k /\ p[i] = s[i]
      BY <1>1, <1>2, <2>2
    <3>2. i # 1 => i - 1 \in 1 .. Len(s) + 1 /\ i - 1 < k
      BY <1>1, <2>2
    <3>3. i # 1 => p[i - 1] = s[i - 1]
      BY <1>2, <3>2
    <3> QED
      BY <1>3, <3>1, <3>3
  <2>3. CASE i > k
    <3>1. i - 1 \in 1 .. Len(s) /\ p[i] = s[i - 1] /\ i # 1
      BY <1>1, <1>2, <2>3
    <3>2. CASE i - 1 = k
      <4>1. p[i - 1] = n
        BY <1>2, <3>2
      <4> QED
        BY <3>1, <3>2, <4>1
    <3>3. CASE i - 1 # k
      <4>1. /\ ~(i - 1 < k) /\ i - 1 # 1 /\ i - 1 \in 1 .. Len(s) + 1
            /\ (i - 1) - 1 \in 1 .. Len(s)
        BY <1>1, <2>3, <3>3
      <4>2. p[i - 1] = s[(i - 1) - 1]
        BY <1>2, <3>3, <4>1
      <4> QED
        BY <1>3, <3>1, <3>3, <4>1, <4>2
    <3> QED
      BY <3>2, <3>3
  <2> QED
    BY <1>1, <2>1, <2>2, <2>3
<1> QED
  BY <1>1, <1>4 DEF Mirrors, p

\* The pointers after the k-th node was taken out.
LEMMA OutThreads ==
    ASSUME NEW s \in Seq(Node), Distinct(s), NEW k \in 1 .. Len(s),
           NEW next, NEW next2, NEW first, NEW first2,
           Threads(next, first, s),
           first2 = IF k = 1 THEN next[s[1]] ELSE first,
           \A i \in 1 .. Len(s) : i # k =>
             next2[s[i]] = IF i = k - 1 THEN next[s[k]] ELSE next[s[i]]
    PROVE  Threads(next2, first2, Out(s, k))
<1> DEFINE p == Out(s, k)
<1>1. Len(s) \in Nat \ {0} /\ Len(p) = Len(s) - 1
  BY OutSeq
<1>2. \A i \in 1 .. Len(s) - 1 : p[i] = IF i < k THEN s[i] ELSE s[i + 1]
  BY DEF Out
<1> HIDE DEF p
<1>3. \A i \in 1 .. Len(s) : next[s[i]] = IF i = Len(s) THEN NULL ELSE s[i + 1]
  BY DEF Threads
<1>4. ASSUME NEW i \in 1 .. Len(s) - 1
      PROVE  next2[p[i]] = IF i = Len(s) - 1 THEN NULL ELSE p[i + 1]
  <2>1. CASE i < k
    <3>1. i \in 1 .. Len(s) /\ i # k /\ p[i] = s[i]
      BY <1>1, <1>2, <2>1
    <3>2. CASE i = k - 1
      <4>1. next2[s[i]] = IF k = Len(s) THEN NULL ELSE s[k + 1]
        BY <1>3, <3>1, <3>2
      <4>2. (k = Len(s)) <=> (i = Len(s) - 1)
        BY <1>1, <3>2
      <4>3. k # Len(s) => i + 1 \in 1 .. Len(s) - 1 /\ i + 1 = k
        BY <1>1, <3>2
      <4>4. k # Len(s) => p[i + 1] = s[k + 1]
        BY <1>1, <1>2, <4>3
      <4> QED
        BY <3>1, <4>1, <4>2, <4>4
    <3>3. CASE i # k - 1
      <4>1. i + 1 < k /\ i + 1 \in 1 .. Len(s) - 1 /\ i # Len(s) /\ i # Len(s) - 1
        BY <1>1, <2>1, <3>3
      <4>2. p[i + 1] = s[i + 1]
        BY <1>2, <4>1
      <4> QED
        BY <1>3, <3>1, <3>3, <4>1, <4>2
    <3> QED
      BY <3>2, <3>3
  <2>2. CASE ~(i < k)
    <3>1. i + 1 \in 1 .. Len(s) /\ i + 1 # k /\ i + 1 # k - 1 /\ p[i] = s[i + 1]
      BY <1>1, <1>2, <2>2
    <3>2. next2[p[i]] = IF i + 1 = Len(s) THEN NULL ELSE s[(i + 1) + 1]
      BY <1>3, <3>1
    <3>3. (i + 1 = Len(s)) <=> (i = Len(s) - 1)
      BY <1>1
    <3>4. i # Len(s) - 1 => i + 1 \in 1 .. Len(s) - 1 /\ ~(i + 1 < k)
      BY <1>1, <2>2
    <3>5. i # Len(s) - 1 => p[i + 1] = s[(i + 1) + 1]
      BY <1>2, <3>4
    <3> QED
      BY <3>2, <3>3, <3>5
  <2> QED
    BY <2>1, <2>2
<1>5. first2 = IF Len(p) = 0 THEN NULL ELSE p[1]
  <2>1. CASE k = 1
    <3>1. first2 = IF 1 = Len(s) THEN NULL ELSE s[1 + 1]
      BY <1>1, <1>3, <2>1
    <3>2. (1 = Len(s)) <=> (Len(p) = 0)
      BY <1>1
    <3>3. Len(p) # 0 => 1 \in 1 .. Len(s) - 1 /\ ~(1 < k)
      BY <1>1, <2>1
    <3> QED
      BY <1>2, <3>1, <3>2, <3>3
  <2>2. CASE k # 1
    <3>1. 1 \in 1 .. Len(s) - 1 /\ 1 < k /\ Len(s) # 0 /\ Len(p) # 0
      BY <1>1, <2>2
    <3> QED
      BY <1>2, <2>2, <3>1 DEF Threads
  <2> QED
    BY <2>1, <2>2
<1> QED
  BY <1>1, <1>4, <1>5 DEF Threads, p

LEMMA OutMirrors ==
    ASSUME NEW s \in Seq(Node), Distinct(s), NEW k \in 1 .. Len(s),
           NEW prev, NEW prev2, Mirrors(prev, s),
           \A i \in 1 .. Len(s) : i # k =>
             prev2[s[i]] = IF i = k + 1 THEN prev[s[k]] ELSE prev[s[i]]
    PROVE  Mirrors(prev2, Out(s, k))
<1> DEFINE p == Out(s, k)
<1>1. Len(s) \in Nat \ {0} /\ Len(p) = Len(s) - 1
  BY OutSeq
<1>2. \A i \in 1 .. Len(s) - 1 : p[i] = IF i < k THEN s[i] ELSE s[i + 1]
  BY DEF Out
<1> HIDE DEF p
<1>3. \A i \in 1 .. Len(s) : prev[s[i]] = IF i = 1 THEN NULL ELSE s[i - 1]
  BY DEF Mirrors
<1>4. ASSUME NEW i \in 1 .. Len(s) - 1
      PROVE  prev2[p[i]] = IF i = 1 THEN NULL ELSE p[i - 1]
  <2>1. CASE i < k
    <3>1. /\ i \in 1 .. Len(s) /\ i # k /\ i # k + 1 /\ p[i] = s[i]
      BY <1>1, <1>2, <2>1
    <3>2. i # 1 => i - 1 \in 1 .. Len(s) - 1 /\ i - 1 < k
      BY <1>1, <2>1
    <3>3. i # 1 => p[i - 1] = s[i - 1]
      BY <1>2, <3>2
    <3> QED
      BY <1>3, <3>1, <3>3
  <2>2. CASE i = k
    <3>1. i + 1 \in 1 .. Len(s) /\ i + 1 = k + 1 /\ i + 1 # k /\ p[i] = s[i + 1]
      BY <1>1, <1>2, <2>2
    <3>2. i # 1 => i - 1 \in 1 .. Len(s) - 1 /\ i - 1 < k
      BY <1>1, <2>2
    <3>3. i # 1 => p[i - 1] = s[i - 1]
      BY <1>2, <3>2
    <3> QED
      BY <1>3, <2>2, <3>1, <3>3
  <2>3. CASE i > k
    <3>1. /\ i + 1 \in 1 .. Len(s) /\ i + 1 # k + 1 /\ i + 1 # k /\ i + 1 # 1
          /\ (i + 1) - 1 = i /\ p[i] = s[i + 1] /\ i # 1
      BY <1>1, <1>2, <2>3
    <3>2. i - 1 \in 1 .. Len(s) - 1 /\ ~(i - 1 < k) /\ (i - 1) + 1 = i
      BY <1>1, <2>3
    <3>3. p[i - 1] = s[i]
      BY <1>2, <3>2
    <3> QED
      BY <1>3, <3>1, <3>3
  <2> QED
    BY <1>1, <2>1, <2>2, <2>3
<1> QED
  BY <1>1, <1>4 DEF Mirrors, p

\* What leaves a sequence's nodes alone leaves the sequence.
LEMMA SameThreads ==
    ASSUME NEW s, NEW next, NEW next2, NEW first,
           Threads(next, first, s), \A n \in NodesOf(s) : next2[n] = next[n]
    PROVE  Threads(next2, first, s)
BY InNodes DEF Threads

LEMMA SameMirrors ==
    ASSUME NEW s, NEW prev, NEW prev2,
           Mirrors(prev, s), \A n \in NodesOf(s) : prev2[n] = prev[n]
    PROVE  Mirrors(prev2, s)
BY InNodes DEF Mirrors

\* An empty sequence, and where a walk begins.
LEMMA FirstNode ==
    ASSUME NEW s \in Seq(Node), NEW next, NEW first, Threads(next, first, s)
    PROVE  /\ first = NULL <=> Len(s) = 0
           /\ Len(s) = 0 => s = <<>> /\ NodesOf(s) = {}
           /\ Len(s) # 0 => first = s[1] /\ first \in NodesOf(s) /\ first \in Node
<1>1. Len(s) \in Nat /\ \A i \in 1 .. Len(s) : s[i] \in Node /\ s[i] # NULL
  BY NodesAre
<1>2. ASSUME Len(s) # 0
      PROVE  /\ first = s[1] /\ first \in NodesOf(s) /\ first \in Node /\ first # NULL
  <2>1. 1 \in 1 .. Len(s)
    BY <1>1, <1>2
  <2> QED
    BY <1>1, <1>2, <2>1, InNodes DEF Threads
<1>3. ASSUME Len(s) = 0
      PROVE  s = <<>> /\ NodesOf(s) = {} /\ first = NULL
  <2>1. 1 .. Len(s) = {}
    BY <1>3
  <2> QED
    BY <1>3, <2>1, EmptySeq DEF Threads, NodesOf
<1> QED
  BY <1>2, <1>3

LEMMA FiniteNodes ==
    ASSUME NEW S \in SUBSET Node
    PROVE  IsFiniteSet(S) /\ Cardinality(S) \in Nat /\ Cardinality(S) <= ListNodeMax
<1>1. ListNodeMax \in Nat \ {0}
  BY ListNodeMaxAssumption
<1>2. IsFiniteSet(Node) /\ Cardinality(Node) = ListNodeMax
  BY <1>1, FS_Interval DEF Node
<1>3. IsFiniteSet(S) /\ Cardinality(S) <= Cardinality(Node)
  BY <1>2, FS_Subset
<1> QED
  BY <1>2, <1>3, FS_CardinalityType

\* As many nodes as places, when no node has two.
LEMMA CountNodes ==
    ASSUME NEW s \in Seq(Node), Distinct(s)
    PROVE  Cardinality(NodesOf(s)) = Len(s) /\ Len(s) <= ListNodeMax
<1>1. Len(s) \in Nat /\ NodesOf(s) \in SUBSET Node /\ s \in [1 .. Len(s) -> NodesOf(s)]
  BY NodesAre
<1>2. \A i, j \in 1 .. Len(s) : s[i] = s[j] => i = j
  BY DEF Distinct
<1>3. \A n \in NodesOf(s) : \E i \in 1 .. Len(s) : s[i] = n
  BY InNodes
<1>4. s \in Bijection(1 .. Len(s), NodesOf(s))
  BY <1>1, <1>2, <1>3 DEF Bijection, Injection, Surjection, IsInjective
<1>5. ExistsBijection(1 .. Len(s), NodesOf(s))
  BY <1>4 DEF ExistsBijection
<1>6. Cardinality(NodesOf(s)) = Len(s)
  BY <1>1, <1>5, FS_CountingElements
<1> QED
  BY <1>1, <1>6, FiniteNodes

\* A walk along the pointers finds the sequences.
LEMMA Walks ==
    ASSUME NEW l \in ListRecord, NEW dbl, NEW s, NEW f, Represents(l, dbl, s, f)
    PROVE  Linked(l) = s /\ FreeOnes(l) = f
<1>1. l.pNext \in [Node -> Spot]
  BY DEF ListRecord
<1>2. /\ s \in Seq(Node) /\ f \in Seq(Node) /\ Distinct(s) /\ Distinct(f)
      /\ Threads(l.pNext, l.pHeadNode, s) /\ Threads(l.pNext, l.pFreeList, f)
  BY DEF Represents
<1>3. Len(s) <= ListNodeMax /\ Len(f) <= ListNodeMax
  BY <1>2, CountNodes
<1> QED
  BY <1>1, <1>2, <1>3, ChainIs DEF Linked, FreeOnes

\* What the calls of a list do to its members.
SameFree(l, m) == m.pFreeList = l.pFreeList /\ m.FreeListCount = l.FreeListCount
SameBlock(l, m) ==
  m.pBufferList = l.pBufferList /\ m.BufferListCount = l.BufferListCount
SameLinks(l, m) ==
  /\ m.pHeadNode = l.pHeadNode /\ m.pTailNode = l.pTailNode
  /\ m.NodeLinkCount = l.NodeLinkCount
OneNumber(l, m, n) ==
  \E j \in NodeNumbers : m.NodeNumber = [l.NodeNumber EXCEPT ![n] = j]

\* n becomes the k-th of s.
PutIn(l, m, cl, s, k, n) ==
  /\ m \in ListRecord
  /\ m.pHeadNode = IF k = 1 THEN n ELSE l.pHeadNode
  /\ m.pTailNode = IF k = Len(s) + 1 THEN n ELSE l.pTailNode
  /\ m.NodeLinkCount = l.NodeLinkCount + 1
  /\ m.NodeUseCount = l.NodeUseCount /\ m.NodeNumber = l.NodeNumber
  /\ SameFree(l, m) /\ SameBlock(l, m)
  /\ m.pNext[n] = IF k = Len(s) + 1 THEN NULL ELSE s[k]
  /\ \A x \in Node \ {n} :
       m.pNext[x] = IF k # 1 /\ x = s[k - 1] THEN n ELSE l.pNext[x]
  /\ cl \in DoublyClasses =>
       /\ m.pPrev[n] = IF k = 1 THEN NULL ELSE s[k - 1]
       /\ \A x \in Node \ {n} :
            m.pPrev[x] = IF k # Len(s) + 1 /\ x = s[k] THEN n ELSE l.pPrev[x]

\* The k-th of s leaves it.
TakenOut(l, m, cl, s, k) ==
  /\ m \in ListRecord
  /\ m.pHeadNode = IF k = 1 THEN l.pNext[s[1]] ELSE l.pHeadNode
  /\ m.pTailNode = IF k = Len(s) THEN IF k = 1 THEN NULL ELSE s[k - 1]
                   ELSE l.pTailNode
  /\ m.NodeLinkCount = l.NodeLinkCount - 1
  /\ m.NodeUseCount = l.NodeUseCount /\ m.NodeNumber = l.NodeNumber
  /\ SameFree(l, m) /\ SameBlock(l, m)
  /\ m.pNext[s[k]] = NULL
  /\ \A x \in Node \ {s[k]} :
       m.pNext[x] = IF k # 1 /\ x = s[k - 1] THEN l.pNext[s[k]] ELSE l.pNext[x]
  /\ cl \in DoublyClasses =>
       /\ m.pPrev[s[k]] = NULL
       /\ \A x \in Node \ {s[k]} :
            m.pPrev[x] = IF k # Len(s) /\ x = s[k + 1] THEN l.pPrev[s[k]]
                         ELSE l.pPrev[x]

\* Only n's pointers may change.
OnlyAt(l, m, cl, n) ==
  /\ \A x \in Node \ {n} : m.pNext[x] = l.pNext[x]
  /\ cl \in DoublyClasses => m.pPrev[n] = NULL /\ \A x \in Node \ {n} : m.pPrev[x] = l.pPrev[x]

\* n is the first of the freed nodes, the next one of the block, or new.
Got(l, m, cl, hp, n) ==
  /\ n \in Node /\ m \in ListRecord
  /\ SameLinks(l, m) /\ OneNumber(l, m, n)
  /\ m.NodeUseCount = l.NodeUseCount + 1
  /\ m.pNext[n] = NULL /\ OnlyAt(l, m, cl, n)
  /\ \/ /\ l.FreeListCount # 0 /\ SameBlock(l, m)
        /\ n = l.pFreeList /\ m.pFreeList = l.pNext[n]
        /\ m.FreeListCount = l.FreeListCount - 1
     \/ /\ l.FreeListCount = 0 /\ SameFree(l, m)
        /\ l.BufferListCount # 0 /\ n = l.pBufferList
        /\ m.pBufferList = l.pBufferList + 1
        /\ m.BufferListCount = l.BufferListCount - 1
     \/ /\ l.FreeListCount = 0 /\ SameFree(l, m)
        /\ l.BufferListCount = 0 /\ n \notin hp /\ SameBlock(l, m)

\* n becomes the first of the freed nodes.
Freed(l, m, cl, n) ==
  /\ m \in ListRecord
  /\ SameLinks(l, m) /\ OneNumber(l, m, n) /\ SameBlock(l, m)
  /\ m.NodeUseCount = l.NodeUseCount - 1
  /\ m.pFreeList = n /\ m.FreeListCount = l.FreeListCount + 1
  /\ m.pNext[n] = l.pFreeList /\ OnlyAt(l, m, cl, n)

\* The list and where its nodes are, at one moment.
Fits(l, cl, s, f, hp, hd, ls) ==
  /\ l \in ListRecord /\ cl \in ListClasses
  /\ hp \in SUBSET Node /\ hd \in SUBSET Node /\ ls \in SUBSET Node
  /\ Represents(l, cl, s, f) /\ Elsewhere(l, cl, s, f, hp, hd, ls)

LEMMA Putting ==
    ASSUME NEW l, NEW cl, NEW s, NEW f, NEW hp, NEW hd, NEW ls,
           Fits(l, cl, s, f, hp, hd, ls),
           NEW n \in hd, NEW k \in 1 .. Len(s) + 1, NEW m,
           PutIn(l, m, cl, s, k, n)
    PROVE  Fits(m, cl, Put(s, k, n), f, hp, hd \ {n}, ls)
<1>1. /\ l \in ListRecord /\ cl \in ListClasses /\ m \in ListRecord
      /\ hp \in SUBSET Node /\ hd \in SUBSET Node /\ ls \in SUBSET Node /\ n \in Node
      /\ Represents(l, cl, s, f) /\ Elsewhere(l, cl, s, f, hp, hd, ls)
  BY DEF Fits, PutIn
<1>2. /\ s \in Seq(Node) /\ f \in Seq(Node) /\ Distinct(s) /\ Distinct(f)
      /\ NodesOf(s) \cap NodesOf(f) = {}
      /\ n \notin NodesOf(s) /\ n \notin NodesOf(f) /\ n \notin ls /\ n \in hp
  BY <1>1 DEF Represents, Elsewhere
<1> DEFINE p == Put(s, k, n)
<1>3. /\ p \in Seq(Node) /\ Len(p) = Len(s) + 1 /\ Distinct(p)
      /\ NodesOf(p) = NodesOf(s) \cup {n}
  BY <1>1, <1>2, PutSeq
<1> HIDE DEF p
<1>4. /\ Len(s) \in Nat
      /\ \A i \in 1 .. Len(s) : s[i] \in Node \ {n} /\ s[i] \in NodesOf(s)
  BY <1>2, NodesAre
\* Only a node of s is changed.
<1>5. \A x \in Node : x # n /\ x \notin NodesOf(s) =>
        /\ m.pNext[x] = l.pNext[x]
        /\ cl \in DoublyClasses => m.pPrev[x] = l.pPrev[x]
  <2>1. k # 1 => s[k - 1] \in NodesOf(s)
    BY <1>4
  <2>2. k # Len(s) + 1 => s[k] \in NodesOf(s)
    BY <1>4
  <2> QED
    BY <2>1, <2>2 DEF PutIn
<1>6. Threads(m.pNext, m.pHeadNode, p)
  <2>1. Threads(l.pNext, l.pHeadNode, s)
    BY <1>1 DEF Represents
  <2>2. m.pHeadNode = IF k = 1 THEN n ELSE l.pHeadNode
    BY DEF PutIn
  <2>3. m.pNext[n] = IF k = Len(s) + 1 THEN NULL ELSE s[k]
    BY DEF PutIn
  <2>4. ASSUME NEW i \in 1 .. Len(s)
        PROVE  m.pNext[s[i]] = IF i = k - 1 THEN n ELSE l.pNext[s[i]]
    <3>1. m.pNext[s[i]] = IF k # 1 /\ s[i] = s[k - 1] THEN n ELSE l.pNext[s[i]]
      BY <1>4 DEF PutIn
    <3>2. (k # 1 /\ s[i] = s[k - 1]) <=> i = k - 1
      BY <1>2, <1>4 DEF Distinct
    <3> QED
      BY <3>1, <3>2
  <2> QED
    BY <1>1, <1>2, <2>1, <2>2, <2>3, <2>4, PutThreads DEF p
<1>7. ASSUME cl \in DoublyClasses PROVE Mirrors(m.pPrev, p)
  <2>1. Mirrors(l.pPrev, s)
    BY <1>1, <1>7 DEF Represents
  <2>2. m.pPrev[n] = IF k = 1 THEN NULL ELSE s[k - 1]
    BY <1>7 DEF PutIn
  <2>3. ASSUME NEW i \in 1 .. Len(s)
        PROVE  m.pPrev[s[i]] = IF i = k THEN n ELSE l.pPrev[s[i]]
    <3>1. m.pPrev[s[i]] = IF k # Len(s) + 1 /\ s[i] = s[k] THEN n ELSE l.pPrev[s[i]]
      BY <1>4, <1>7 DEF PutIn
    <3>2. (k # Len(s) + 1 /\ s[i] = s[k]) <=> i = k
      BY <1>2, <1>4, SMTT(40) DEF Distinct
    <3> QED
      BY <3>1, <3>2
  <2> QED
    BY <1>1, <1>2, <2>1, <2>2, <2>3, PutMirrors DEF p
<1>8. Threads(m.pNext, m.pFreeList, f)
  <2>1. Threads(l.pNext, l.pFreeList, f) /\ m.pFreeList = l.pFreeList
    BY <1>1 DEF Represents, PutIn, SameFree
  <2>2. \A x \in NodesOf(f) : m.pNext[x] = l.pNext[x]
    BY <1>2, <1>5, NodesAre
  <2> QED
    BY <2>1, <2>2, SameThreads
<1>9. m.pTailNode = LastOf(p)
  <2>1. m.pTailNode = IF k = Len(s) + 1 THEN n ELSE l.pTailNode
    BY DEF PutIn
  <2>2. CASE k = Len(s) + 1
    <3>1. p[k] = n
      BY <1>4, <2>2 DEF p, Put
    <3> QED
      BY <1>3, <1>4, <2>1, <2>2, <3>1 DEF LastOf
  <2>3. CASE k # Len(s) + 1
    <3>1. Len(s) # 0 /\ ~(Len(s) + 1 < k) /\ Len(s) + 1 # k /\ (Len(s) + 1) - 1 = Len(s)
      BY <1>4, <2>3
    <3>2. p[Len(s) + 1] = s[Len(s)]
      BY <1>4, <3>1 DEF p, Put
    <3>3. l.pTailNode = s[Len(s)]
      BY <1>1, <3>1 DEF Represents, LastOf
    <3> QED
      BY <1>3, <1>4, <2>1, <2>3, <3>2, <3>3 DEF LastOf
  <2> QED
    BY <2>2, <2>3
<1>10. m.NodeLinkCount = Len(p) /\ m.FreeListCount = Len(f)
  BY <1>1, <1>3 DEF Represents, PutIn, SameFree
<1>11. NodesOf(p) \cap NodesOf(f) = {}
  BY <1>2, <1>3
<1>12. Represents(m, cl, p, f)
  BY <1>2, <1>3, <1>6, <1>7, <1>8, <1>9, <1>10, <1>11 DEF Represents
<1>13. Unused(m) = Unused(l)
  BY DEF Unused, PutIn, SameBlock
<1>14. Elsewhere(m, cl, p, f, hp, hd \ {n}, ls)
  <2>1. /\ (hd \ {n}) \cap ls = {} /\ ((hd \ {n}) \cup ls) \cap Unused(m) = {}
        /\ ((hd \ {n}) \cup ls \cup Unused(m)) \cap (NodesOf(p) \cup NodesOf(f)) = {}
        /\ hp = NodesOf(p) \cup NodesOf(f) \cup (hd \ {n}) \cup ls \cup Unused(m)
    BY <1>1, <1>3, <1>13 DEF Elsewhere
  <2>2. \A x \in (hd \ {n}) \cup ls \cup Unused(m) : m.pNext[x] = NULL
    <3>1. \A x \in (hd \ {n}) \cup ls \cup Unused(m) :
            x \in Node /\ x # n /\ x \notin NodesOf(s) /\ l.pNext[x] = NULL
      BY <1>1, <1>13 DEF Elsewhere
    <3> QED
      BY <1>5, <3>1
  <2>3. ASSUME cl \in DoublyClasses, NEW x \in hp \ NodesOf(p) PROVE m.pPrev[x] = NULL
    <3>1. x \in Node /\ x # n /\ x \notin NodesOf(s) /\ l.pPrev[x] = NULL
      BY <1>1, <1>3, <2>3 DEF Elsewhere
    <3> QED
      BY <1>5, <2>3, <3>1
  <2>4. m.NodeUseCount = Len(p) + Cardinality(hd \ {n})
    <3>1. m.NodeUseCount = Len(s) + Cardinality(hd)
      BY <1>1 DEF Elsewhere, PutIn
    <3>2. Cardinality(hd \ {n}) = Cardinality(hd) - 1 /\ Cardinality(hd) \in Nat
      BY <1>1, FiniteNodes, FS_RemoveElement
    <3> QED
      BY <1>3, <1>4, <3>1, <3>2
  <2> QED
    BY <2>1, <2>2, <2>3, <2>4 DEF Elsewhere
<1> QED
  BY <1>1, <1>12, <1>14 DEF Fits, p

LEMMA TakingOut ==
    ASSUME NEW l, NEW cl, NEW s, NEW f, NEW hp, NEW hd, NEW ls,
           Fits(l, cl, s, f, hp, hd, ls),
           NEW k \in 1 .. Len(s), NEW m, TakenOut(l, m, cl, s, k)
    PROVE  Fits(m, cl, Out(s, k), f, hp, hd \cup {s[k]}, ls)
<1>1. /\ l \in ListRecord /\ cl \in ListClasses /\ m \in ListRecord
      /\ hp \in SUBSET Node /\ hd \in SUBSET Node /\ ls \in SUBSET Node
      /\ Represents(l, cl, s, f) /\ Elsewhere(l, cl, s, f, hp, hd, ls)
  BY DEF Fits, TakenOut
<1>2. /\ s \in Seq(Node) /\ f \in Seq(Node) /\ Distinct(s) /\ Distinct(f)
      /\ NodesOf(s) \cap NodesOf(f) = {}
  BY <1>1 DEF Represents
<1> DEFINE p == Out(s, k)
<1>3. /\ p \in Seq(Node) /\ Len(p) = Len(s) - 1 /\ Distinct(p)
      /\ NodesOf(p) = NodesOf(s) \ {s[k]}
  BY <1>2, OutSeq
<1> HIDE DEF p
<1>4. /\ Len(s) \in Nat \ {0} /\ s[k] \in NodesOf(s)
      /\ \A i \in 1 .. Len(s) : s[i] \in Node /\ s[i] \in NodesOf(s)
      /\ \A i, j \in 1 .. Len(s) : s[i] = s[j] => i = j
  BY <1>2, NodesAre DEF Distinct
<1>n. PICK n \in Node : n = s[k] /\ n \in NodesOf(s) /\ n \notin NodesOf(f)
  BY <1>2, <1>4
<1>5. \A x \in Node : x \notin NodesOf(s) =>
        /\ m.pNext[x] = l.pNext[x]
        /\ cl \in DoublyClasses => m.pPrev[x] = l.pPrev[x]
  <2>1. k # 1 => s[k - 1] \in NodesOf(s)
    BY <1>4
  <2>2. k # Len(s) => s[k + 1] \in NodesOf(s)
    BY <1>4
  <2> QED
    BY <1>4, <2>1, <2>2 DEF TakenOut
<1>6. Threads(m.pNext, m.pHeadNode, p)
  <2>1. Threads(l.pNext, l.pHeadNode, s)
    BY <1>1 DEF Represents
  <2>2. m.pHeadNode = IF k = 1 THEN l.pNext[s[1]] ELSE l.pHeadNode
    BY DEF TakenOut
  <2>3. ASSUME NEW i \in 1 .. Len(s), i # k
        PROVE  m.pNext[s[i]] = IF i = k - 1 THEN l.pNext[s[k]] ELSE l.pNext[s[i]]
    <3>1. s[i] \in Node \ {s[k]}
      BY <1>4, <2>3
    <3>2. m.pNext[s[i]] = IF k # 1 /\ s[i] = s[k - 1] THEN l.pNext[s[k]] ELSE l.pNext[s[i]]
      BY <3>1 DEF TakenOut
    <3>3. (k # 1 /\ s[i] = s[k - 1]) <=> i = k - 1
      BY <1>4
    <3> QED
      BY <3>2, <3>3
  <2> QED
    BY <1>2, <2>1, <2>2, <2>3, OutThreads DEF p
<1>7. ASSUME cl \in DoublyClasses PROVE Mirrors(m.pPrev, p)
  <2>1. Mirrors(l.pPrev, s)
    BY <1>1, <1>7 DEF Represents
  <2>2. ASSUME NEW i \in 1 .. Len(s), i # k
        PROVE  m.pPrev[s[i]] = IF i = k + 1 THEN l.pPrev[s[k]] ELSE l.pPrev[s[i]]
    <3>1. s[i] \in Node \ {s[k]}
      BY <1>4, <2>2
    <3>2. m.pPrev[s[i]] = IF k # Len(s) /\ s[i] = s[k + 1] THEN l.pPrev[s[k]] ELSE l.pPrev[s[i]]
      BY <1>7, <3>1 DEF TakenOut
    <3>3. (k # Len(s) /\ s[i] = s[k + 1]) <=> i = k + 1
      BY <1>4
    <3> QED
      BY <3>2, <3>3
  <2> QED
    BY <1>2, <2>1, <2>2, OutMirrors DEF p
<1>8. Threads(m.pNext, m.pFreeList, f)
  <2>1. Threads(l.pNext, l.pFreeList, f) /\ m.pFreeList = l.pFreeList
    BY <1>1 DEF Represents, TakenOut, SameFree
  <2>2. \A x \in NodesOf(f) : m.pNext[x] = l.pNext[x]
    BY <1>2, <1>5, NodesAre
  <2> QED
    BY <2>1, <2>2, SameThreads
<1>9. m.pTailNode = LastOf(p)
  <2>1. /\ m.pTailNode = IF k = Len(s) THEN IF k = 1 THEN NULL ELSE s[k - 1]
                         ELSE l.pTailNode
        /\ l.pTailNode = s[Len(s)]
    BY <1>1, <1>4 DEF TakenOut, Represents, LastOf
  <2>2. CASE Len(s) = 1
    BY <1>3, <1>4, <2>1, <2>2 DEF LastOf
  <2>3. CASE Len(s) # 1
    <3>1. Len(s) - 1 \in 1 .. Len(s) - 1 /\ Len(p) # 0
      BY <1>3, <1>4, <2>3
    <3>2. p[Len(s) - 1] = IF Len(s) - 1 < k THEN s[Len(s) - 1] ELSE s[(Len(s) - 1) + 1]
      BY <3>1 DEF p, Out
    <3>3. LastOf(p) = IF k = Len(s) THEN s[Len(s) - 1] ELSE s[Len(s)]
      BY <1>3, <1>4, <3>1, <3>2 DEF LastOf
    <3>4. k = Len(s) => k # 1
      BY <2>3
    <3> QED
      BY <2>1, <3>3, <3>4
  <2> QED
    BY <2>2, <2>3
<1>10. m.NodeLinkCount = Len(p) /\ m.FreeListCount = Len(f)
  BY <1>1, <1>3 DEF Represents, TakenOut, SameFree
<1>11. NodesOf(p) \cap NodesOf(f) = {}
  BY <1>2, <1>3
<1>12. Represents(m, cl, p, f)
  BY <1>2, <1>3, <1>6, <1>7, <1>8, <1>9, <1>10, <1>11 DEF Represents
<1>13. Unused(m) = Unused(l)
  BY DEF Unused, TakenOut, SameBlock
<1>14. Elsewhere(m, cl, p, f, hp, hd \cup {n}, ls)
  <2>0. n \notin hd \cup ls \cup Unused(l)
    BY <1>1, <1>n DEF Elsewhere
  <2>1. /\ (hd \cup {n}) \cap ls = {} /\ ((hd \cup {n}) \cup ls) \cap Unused(m) = {}
        /\ ((hd \cup {n}) \cup ls \cup Unused(m)) \cap (NodesOf(p) \cup NodesOf(f)) = {}
        /\ hp = NodesOf(p) \cup NodesOf(f) \cup (hd \cup {n}) \cup ls \cup Unused(m)
    BY <1>1, <1>n, <1>3, <1>13, <2>0 DEF Elsewhere
  <2>2. \A x \in (hd \cup {n}) \cup ls \cup Unused(m) : m.pNext[x] = NULL
    <3>1. m.pNext[n] = NULL
      BY <1>n DEF TakenOut
    <3>2. \A x \in hd \cup ls \cup Unused(m) :
            x \in Node /\ x \notin NodesOf(s) /\ l.pNext[x] = NULL
      BY <1>1, <1>13 DEF Elsewhere
    <3> QED
      BY <1>5, <3>1, <3>2
  <2>3. ASSUME cl \in DoublyClasses, NEW x \in hp \ NodesOf(p) PROVE m.pPrev[x] = NULL
    <3>1. m.pPrev[n] = NULL
      BY <1>n, <2>3 DEF TakenOut
    <3>2. x # n => x \in Node /\ x \notin NodesOf(s) /\ l.pPrev[x] = NULL
      BY <1>1, <1>n, <1>3, <2>3 DEF Elsewhere
    <3> QED
      BY <1>5, <2>3, <3>1, <3>2
  <2>4. m.NodeUseCount = Len(p) + Cardinality(hd \cup {n})
    <3>1. m.NodeUseCount = Len(s) + Cardinality(hd)
      BY <1>1 DEF Elsewhere, TakenOut
    <3>2. Cardinality(hd \cup {n}) = Cardinality(hd) + 1 /\ Cardinality(hd) \in Nat
      BY <1>1, <2>0, FiniteNodes, FS_AddElement
    <3> QED
      BY <1>3, <1>4, <3>1, <3>2
  <2> QED
    BY <2>1, <2>2, <2>3, <2>4 DEF Elsewhere
<1> QED
  BY <1>1, <1>n, <1>12, <1>14 DEF Fits, p

\* GetNode: what is left of the free list, and the node in hand.
Left(f) == IF Len(f) = 0 THEN f ELSE Out(f, 1)

LEMMA Getting ==
    ASSUME NEW l, NEW cl, NEW s, NEW f, NEW hp, NEW hd, NEW ls,
           Fits(l, cl, s, f, hp, hd, ls),
           NEW n, NEW m, Got(l, m, cl, hp, n)
    PROVE  /\ Fits(m, cl, s, Left(f), hp \cup {n}, hd \cup {n}, ls)
           /\ n \notin NodesOf(s) \cup hd
           /\ Len(f) # 0 => n = f[1]
<1>1. /\ l \in ListRecord /\ cl \in ListClasses /\ m \in ListRecord /\ n \in Node
      /\ hp \in SUBSET Node /\ hd \in SUBSET Node /\ ls \in SUBSET Node
      /\ Represents(l, cl, s, f) /\ Elsewhere(l, cl, s, f, hp, hd, ls)
  BY DEF Fits, Got
<1>2. /\ s \in Seq(Node) /\ f \in Seq(Node) /\ Distinct(s) /\ Distinct(f)
      /\ NodesOf(s) \cap NodesOf(f) = {}
      /\ Threads(l.pNext, l.pFreeList, f) /\ l.FreeListCount = Len(f)
  BY <1>1 DEF Represents
<1>3. Len(s) \in Nat /\ Len(f) \in Nat /\ l.BufferListCount \in Nat /\ l.pBufferList \in Nat
  BY <1>1, <1>2, NodesAre DEF ListRecord
<1> DEFINE g == Left(f)
\* Where n comes from.
<1>4. /\ g \in Seq(Node) /\ Distinct(g) /\ NodesOf(g) = NodesOf(f) \ {n}
      /\ Threads(m.pNext, m.pFreeList, g) /\ m.FreeListCount = Len(g)
      /\ Unused(m) = Unused(l) \ {n}
      /\ n \notin NodesOf(s) \cup hd \cup ls
      /\ Len(f) # 0 => n = f[1]
  <2>1. CASE Len(f) # 0
    <3>1. n = f[1] /\ n \in NodesOf(f) /\ l.pFreeList = n
      BY <1>2, <1>3, <2>1, FirstNode DEF Got
    <3>2. 1 \in 1 .. Len(f) /\ g = Out(f, 1)
      BY <1>3, <2>1 DEF Left
    <3>3. /\ g \in Seq(Node) /\ Len(g) = Len(f) - 1 /\ Distinct(g)
          /\ NodesOf(g) = NodesOf(f) \ {n}
      BY <1>2, <3>1, <3>2, OutSeq, SMTT(40)
    <3>4. Threads(m.pNext, m.pFreeList, g)
      <4>1. m.pFreeList = IF 1 = 1 THEN l.pNext[f[1]] ELSE l.pFreeList
        BY <1>2, <2>1, <3>1 DEF Got
      <4>2. ASSUME NEW i \in 1 .. Len(f), i # 1
            PROVE  m.pNext[f[i]] = IF i = 1 - 1 THEN l.pNext[f[1]] ELSE l.pNext[f[i]]
        <5>1. f[i] \in Node /\ f[i] # n
          BY <1>2, <1>3, <3>1, <3>2, <4>2, NodesAre DEF Distinct
        <5> QED
          BY <4>2, <5>1 DEF Got, OnlyAt
      <4> QED
        BY <1>2, <3>2, <4>1, <4>2, OutThreads
    <3>5. m.FreeListCount = Len(g)
      BY <1>2, <2>1, <3>3 DEF Got
    <3>6. n \notin NodesOf(s) \cup hd \cup ls \cup Unused(l)
      BY <1>1, <1>2, <3>1 DEF Elsewhere
    <3>7. Unused(m) = Unused(l)
      BY <1>2, <2>1 DEF Got, SameBlock, Unused
    <3> QED
      BY <3>1, <3>3, <3>4, <3>5, <3>6, <3>7
  <2>2. CASE Len(f) = 0
    <3>1. g = f
      BY <2>2 DEF Left
    <3>2. NodesOf(f) = {}
      BY <1>2, <2>2, FirstNode
    <3>3. m.pFreeList = l.pFreeList /\ m.FreeListCount = l.FreeListCount
      BY <1>2, <2>2 DEF Got, SameFree
    <3>4. Threads(m.pNext, m.pFreeList, g)
      BY <1>2, <3>1, <3>2, <3>3, SameThreads
    <3>5. Unused(m) = Unused(l) \ {n} /\ n \notin NodesOf(s) \cup hd \cup ls
      <4>1. CASE l.BufferListCount # 0
        <5>1. /\ n = l.pBufferList /\ m.pBufferList = l.pBufferList + 1
              /\ m.BufferListCount = l.BufferListCount - 1
          BY <1>2, <2>2, <4>1 DEF Got
        <5>2. n \in Unused(l)
          BY <1>3, <4>1, <5>1 DEF Unused
        <5>3. Unused(m) = Unused(l) \ {n}
          <6>1. PICK b \in Nat : /\ l.BufferListCount = b + 1 /\ m.BufferListCount = b
                                 /\ m.pBufferList = n + 1 /\ n \in Nat
            <7>1. l.BufferListCount - 1 \in Nat /\ (l.BufferListCount - 1) + 1 = l.BufferListCount
              BY <1>3, <4>1
            <7> QED
              BY <1>3, <5>1, <7>1
          <6>2. Unused(l) = n .. n + (b + 1) - 1
            BY <4>1, <5>1, <6>1 DEF Unused
          <6>3. Unused(m) = IF b = 0 THEN {} ELSE n + 1 .. n + 1 + b - 1
            BY <6>1 DEF Unused
          <6>4. n .. n + (b + 1) - 1 = {n} \cup n + 1 .. n + 1 + b - 1
            BY <6>1
          <6>5. b = 0 => n + 1 .. n + 1 + b - 1 = {}
            BY <6>1
          <6>6. n \notin n + 1 .. n + 1 + b - 1
            BY <6>1
          <6> QED
            BY <6>2, <6>3, <6>4, <6>5, <6>6
        <5> QED
          BY <1>1, <5>2, <5>3 DEF Elsewhere
      <4>2. CASE l.BufferListCount = 0
        <5>1. n \notin hp /\ SameBlock(l, m)
          BY <1>2, <2>2, <4>2 DEF Got
        <5> QED
          BY <1>1, <4>2, <5>1 DEF Elsewhere, Unused, SameBlock
      <4> QED
        BY <4>1, <4>2
    <3> QED
      BY <1>2, <2>2, <3>1, <3>2, <3>3, <3>4, <3>5
  <2> QED
    BY <2>1, <2>2
<1> HIDE DEF g
<1>5. \A x \in Node : x # n => /\ m.pNext[x] = l.pNext[x]
                               /\ cl \in DoublyClasses => m.pPrev[x] = l.pPrev[x]
  BY DEF Got, OnlyAt
<1>6. Represents(m, cl, s, g)
  <2>1. Threads(m.pNext, m.pHeadNode, s)
    <3>1. Threads(l.pNext, l.pHeadNode, s) /\ m.pHeadNode = l.pHeadNode
      BY <1>1 DEF Represents, Got, SameLinks
    <3>2. \A x \in NodesOf(s) : m.pNext[x] = l.pNext[x]
      BY <1>2, <1>4, <1>5, NodesAre
    <3> QED
      BY <3>1, <3>2, SameThreads
  <2>2. ASSUME cl \in DoublyClasses PROVE Mirrors(m.pPrev, s)
    <3>1. \A x \in NodesOf(s) : m.pPrev[x] = l.pPrev[x]
      BY <1>2, <1>4, <1>5, <2>2, NodesAre
    <3> QED
      BY <1>1, <2>2, <3>1, SameMirrors DEF Represents
  <2>3. m.pTailNode = LastOf(s) /\ m.NodeLinkCount = Len(s)
    BY <1>1 DEF Represents, Got, SameLinks
  <2> QED
    BY <1>2, <1>4, <2>1, <2>2, <2>3 DEF Represents
<1>7. Elsewhere(m, cl, s, g, hp \cup {n}, hd \cup {n}, ls)
  <2>1. /\ (hd \cup {n}) \cap ls = {} /\ ((hd \cup {n}) \cup ls) \cap Unused(m) = {}
        /\ ((hd \cup {n}) \cup ls \cup Unused(m)) \cap (NodesOf(s) \cup NodesOf(g)) = {}
        /\ hp \cup {n} = NodesOf(s) \cup NodesOf(g) \cup (hd \cup {n}) \cup ls \cup Unused(m)
    BY <1>1, <1>4 DEF Elsewhere
  <2>2. \A x \in (hd \cup {n}) \cup ls \cup Unused(m) : m.pNext[x] = NULL
    <3>1. m.pNext[n] = NULL
      BY DEF Got
    <3>2. \A x \in hd \cup ls \cup Unused(m) : x \in Node /\ l.pNext[x] = NULL
      BY <1>1, <1>4 DEF Elsewhere
    <3> QED
      BY <1>5, <3>1, <3>2
  <2>3. ASSUME cl \in DoublyClasses, NEW x \in (hp \cup {n}) \ NodesOf(s) PROVE m.pPrev[x] = NULL
    <3>1. m.pPrev[n] = NULL
      BY <2>3 DEF Got, OnlyAt
    <3>2. x # n => x \in Node /\ l.pPrev[x] = NULL
      BY <1>1, <2>3 DEF Elsewhere
    <3> QED
      BY <1>5, <2>3, <3>1, <3>2
  <2>4. m.NodeUseCount = Len(s) + Cardinality(hd \cup {n})
    <3>1. m.NodeUseCount = Len(s) + Cardinality(hd) + 1
      BY <1>1 DEF Elsewhere, Got
    <3>2. Cardinality(hd \cup {n}) = Cardinality(hd) + 1 /\ Cardinality(hd) \in Nat
      BY <1>1, <1>4, FiniteNodes, FS_AddElement
    <3> QED
      BY <1>3, <3>1, <3>2
  <2> QED
    BY <2>1, <2>2, <2>3, <2>4 DEF Elsewhere
<1>8. hp \cup {n} \in SUBSET Node /\ hd \cup {n} \in SUBSET Node
  BY <1>1
<1> QED
  BY <1>1, <1>4, <1>6, <1>7, <1>8 DEF Fits, g

LEMMA Freeing ==
    ASSUME NEW l, NEW cl, NEW s, NEW f, NEW hp, NEW hd, NEW ls,
           Fits(l, cl, s, f, hp, hd, ls),
           NEW n \in hd, NEW m, Freed(l, m, cl, n)
    PROVE  Fits(m, cl, s, Put(f, 1, n), hp, hd \ {n}, ls)
<1>1. /\ l \in ListRecord /\ cl \in ListClasses /\ m \in ListRecord
      /\ hp \in SUBSET Node /\ hd \in SUBSET Node /\ ls \in SUBSET Node /\ n \in Node
      /\ Represents(l, cl, s, f) /\ Elsewhere(l, cl, s, f, hp, hd, ls)
  BY DEF Fits, Freed
<1>2. /\ s \in Seq(Node) /\ f \in Seq(Node) /\ Distinct(s) /\ Distinct(f)
      /\ NodesOf(s) \cap NodesOf(f) = {}
      /\ Threads(l.pNext, l.pFreeList, f) /\ l.FreeListCount = Len(f)
      /\ n \notin NodesOf(s) /\ n \notin NodesOf(f) /\ n \notin ls \cup Unused(l) /\ n \in hp
  BY <1>1 DEF Represents, Elsewhere
<1>3. Len(s) \in Nat /\ Len(f) \in Nat /\ 1 \in 1 .. Len(f) + 1
  BY <1>2, NodesAre
<1> DEFINE g == Put(f, 1, n)
<1>4. /\ g \in Seq(Node) /\ Len(g) = Len(f) + 1 /\ Distinct(g)
      /\ NodesOf(g) = NodesOf(f) \cup {n}
  BY <1>1, <1>2, <1>3, PutSeq
<1> HIDE DEF g
<1>5. \A x \in Node : x # n => /\ m.pNext[x] = l.pNext[x]
                               /\ cl \in DoublyClasses => m.pPrev[x] = l.pPrev[x]
  BY DEF Freed, OnlyAt
<1>6. Threads(m.pNext, m.pFreeList, g)
  <2>1. m.pFreeList = IF 1 = 1 THEN n ELSE l.pFreeList
    BY DEF Freed
  <2>2. m.pNext[n] = IF 1 = Len(f) + 1 THEN NULL ELSE f[1]
    <3>1. m.pNext[n] = l.pFreeList
      BY DEF Freed
    <3> QED
      BY <1>2, <1>3, <3>1 DEF Threads
  <2>3. ASSUME NEW i \in 1 .. Len(f)
        PROVE  m.pNext[f[i]] = IF i = 1 - 1 THEN n ELSE l.pNext[f[i]]
    <3>1. f[i] \in Node /\ f[i] # n
      BY <1>2, NodesAre
    <3> QED
      BY <1>5, <3>1
  <2> QED
    BY <1>1, <1>2, <1>3, <2>1, <2>2, <2>3, PutThreads DEF g
<1>7. Represents(m, cl, s, g)
  <2>1. Threads(m.pNext, m.pHeadNode, s)
    <3>1. Threads(l.pNext, l.pHeadNode, s) /\ m.pHeadNode = l.pHeadNode
      BY <1>1 DEF Represents, Freed, SameLinks
    <3>2. \A x \in NodesOf(s) : m.pNext[x] = l.pNext[x]
      BY <1>2, <1>5, NodesAre
    <3> QED
      BY <3>1, <3>2, SameThreads
  <2>2. ASSUME cl \in DoublyClasses PROVE Mirrors(m.pPrev, s)
    <3>1. \A x \in NodesOf(s) : m.pPrev[x] = l.pPrev[x]
      BY <1>2, <1>5, <2>2, NodesAre
    <3> QED
      BY <1>1, <2>2, <3>1, SameMirrors DEF Represents
  <2>3. m.pTailNode = LastOf(s) /\ m.NodeLinkCount = Len(s)
    BY <1>1 DEF Represents, Freed, SameLinks
  <2>4. NodesOf(s) \cap NodesOf(g) = {} /\ m.FreeListCount = Len(g)
    BY <1>2, <1>4 DEF Freed
  <2> QED
    BY <1>2, <1>4, <1>6, <2>1, <2>2, <2>3, <2>4 DEF Represents
<1>8. Unused(m) = Unused(l)
  BY DEF Unused, Freed, SameBlock
<1>9. Elsewhere(m, cl, s, g, hp, hd \ {n}, ls)
  <2>1. /\ (hd \ {n}) \cap ls = {} /\ ((hd \ {n}) \cup ls) \cap Unused(m) = {}
        /\ ((hd \ {n}) \cup ls \cup Unused(m)) \cap (NodesOf(s) \cup NodesOf(g)) = {}
        /\ hp = NodesOf(s) \cup NodesOf(g) \cup (hd \ {n}) \cup ls \cup Unused(m)
    BY <1>1, <1>2, <1>4, <1>8 DEF Elsewhere
  <2>2. \A x \in (hd \ {n}) \cup ls \cup Unused(m) : m.pNext[x] = NULL
    <3>1. \A x \in (hd \ {n}) \cup ls \cup Unused(m) :
            x \in Node /\ x # n /\ l.pNext[x] = NULL
      BY <1>1, <1>2, <1>8 DEF Elsewhere
    <3> QED
      BY <1>5, <3>1
  <2>3. ASSUME cl \in DoublyClasses, NEW x \in hp \ NodesOf(s) PROVE m.pPrev[x] = NULL
    <3>1. m.pPrev[n] = NULL
      BY <2>3 DEF Freed, OnlyAt
    <3>2. x \in Node /\ l.pPrev[x] = NULL
      BY <1>1, <2>3 DEF Elsewhere
    <3> QED
      BY <1>5, <2>3, <3>1, <3>2
  <2>4. m.NodeUseCount = Len(s) + Cardinality(hd \ {n})
    <3>1. l.NodeUseCount = Len(s) + Cardinality(hd) /\ m.NodeUseCount = l.NodeUseCount - 1
      BY <1>1 DEF Elsewhere, Freed
    <3>2. Cardinality(hd \ {n}) = Cardinality(hd) - 1 /\ Cardinality(hd) \in Nat
      BY <1>1, FiniteNodes, FS_RemoveElement
    <3> QED
      BY <1>3, <3>1, <3>2
  <2> QED
    BY <2>1, <2>2, <2>3, <2>4 DEF Elsewhere
<1> QED
  BY <1>1, <1>7, <1>9 DEF Fits, g

\* ReleaseNode: a node in hand goes back to the heap.
Deleting(l, m) ==
  /\ m \in ListRecord
  /\ SameLinks(l, m) /\ SameFree(l, m) /\ SameBlock(l, m)
  /\ m.NodeUseCount = l.NodeUseCount - 1
  /\ m.pNext = l.pNext /\ m.pPrev = l.pPrev /\ m.NodeNumber = l.NodeNumber

LEMMA DeletingOne ==
    ASSUME NEW l, NEW cl, NEW s, NEW f, NEW hp, NEW hd, NEW ls,
           Fits(l, cl, s, f, hp, hd, ls),
           NEW n \in hd, NEW m, Deleting(l, m)
    PROVE  Fits(m, cl, s, f, hp \ {n}, hd \ {n}, ls)
<1>1. /\ l \in ListRecord /\ cl \in ListClasses /\ m \in ListRecord
      /\ hp \in SUBSET Node /\ hd \in SUBSET Node /\ ls \in SUBSET Node /\ n \in Node
      /\ Represents(l, cl, s, f) /\ Elsewhere(l, cl, s, f, hp, hd, ls)
  BY DEF Fits, Deleting
<1>2. Represents(m, cl, s, f)
  BY <1>1 DEF Represents, Deleting, SameLinks, SameFree
<1>3. Unused(m) = Unused(l)
  BY DEF Unused, Deleting, SameBlock
<1>4. m.NodeUseCount = Len(s) + Cardinality(hd \ {n})
  <2>1. l.NodeUseCount = Len(s) + Cardinality(hd) /\ m.NodeUseCount = l.NodeUseCount - 1
    BY <1>1 DEF Elsewhere, Deleting
  <2>3. Len(s) \in Nat
    BY <1>1, NodesAre DEF Represents
  <2>2. Cardinality(hd \ {n}) = Cardinality(hd) - 1 /\ Cardinality(hd) \in Nat
    BY <1>1, FiniteNodes, FS_RemoveElement
  <2> QED
    BY <2>1, <2>2, <2>3
<1>5. Elsewhere(m, cl, s, f, hp \ {n}, hd \ {n}, ls)
  <2>1. /\ (hd \ {n}) \cap ls = {} /\ ((hd \ {n}) \cup ls) \cap Unused(m) = {}
        /\ ((hd \ {n}) \cup ls \cup Unused(m)) \cap (NodesOf(s) \cup NodesOf(f)) = {}
        /\ hp \ {n} = NodesOf(s) \cup NodesOf(f) \cup (hd \ {n}) \cup ls \cup Unused(m)
    BY <1>1, <1>3 DEF Elsewhere
  <2>2. /\ \A x \in (hd \ {n}) \cup ls \cup Unused(m) : m.pNext[x] = NULL
        /\ cl \in DoublyClasses => \A x \in (hp \ {n}) \ NodesOf(s) : m.pPrev[x] = NULL
    BY <1>1, <1>3 DEF Elsewhere, Deleting
  <2> QED
    BY <1>4, <2>1, <2>2 DEF Elsewhere
<1> QED
  BY <1>1, <1>2, <1>5 DEF Fits

\* Release: the linked and the freed nodes go back to the heap.
LEMMA DeletingAll ==
    ASSUME NEW l, NEW cl, NEW s, NEW f, NEW hp, NEW hd, NEW ls,
           Fits(l, cl, s, f, hp, hd, ls), l.BufferListCount = 0
    PROVE  Fits(EmptyList(l), cl, <<>>, <<>>,
                hp \ (NodesOf(s) \cup NodesOf(f)), {}, ls \cup hd)
<1>1. /\ l \in ListRecord /\ cl \in ListClasses
      /\ hp \in SUBSET Node /\ hd \in SUBSET Node /\ ls \in SUBSET Node
      /\ Represents(l, cl, s, f) /\ Elsewhere(l, cl, s, f, hp, hd, ls)
  BY DEF Fits
<1> DEFINE m == EmptyList(l)
<1>2. /\ m \in ListRecord /\ m.pHeadNode = NULL /\ m.pTailNode = NULL
      /\ m.NodeUseCount = 0 /\ m.NodeLinkCount = 0
      /\ m.pFreeList = NULL /\ m.FreeListCount = 0 /\ m.BufferListCount = 0
      /\ m.pNext = l.pNext /\ m.pPrev = l.pPrev
  <2>1. NULL \in Spot /\ NULL \in Nat
    BY DEF Spot, NULL
  <2> QED
    BY <1>1, <2>1 DEF EmptyList, ListRecord
<1> HIDE DEF m
<1>3. <<>> \in Seq(Node) /\ Len(<<>>) = 0 /\ 1 .. Len(<<>>) = {} /\ NodesOf(<<>>) = {}
  BY DEF NodesOf
<1>4. Represents(m, cl, <<>>, <<>>)
  BY <1>2, <1>3 DEF Represents, Distinct, Threads, Mirrors, LastOf
<1>5. Unused(m) = {} /\ Unused(l) = {}
  BY <1>2 DEF Unused
<1>6. Cardinality({}) = 0
  BY FS_EmptySet
<1>7. Elsewhere(m, cl, <<>>, <<>>, hp \ (NodesOf(s) \cup NodesOf(f)), {}, ls \cup hd)
  BY <1>1, <1>2, <1>3, <1>5, <1>6 DEF Elsewhere
<1> QED
  BY <1>1, <1>2, <1>4, <1>7 DEF Fits, m

\* What the code may rely on when n is in a user's hands.
LEMMA InHand ==
    ASSUME NEW l, NEW cl, NEW s, NEW f, NEW hp, NEW hd, NEW ls,
           Fits(l, cl, s, f, hp, hd, ls), NEW n \in hd
    PROVE  /\ n \in Node /\ n # NULL /\ n \notin NodesOf(s) /\ n \notin NodesOf(f)
           /\ l.NodeUseCount # 0
           /\ l.pNext[n] = NULL /\ (cl \in DoublyClasses => l.pPrev[n] = NULL)
<1>1. /\ hd \in SUBSET Node /\ Represents(l, cl, s, f) /\ Elsewhere(l, cl, s, f, hp, hd, ls)
      /\ Len(s) \in Nat
  BY NodesAre DEF Fits, Represents
<1>2. n \in Node /\ n # NULL
  BY <1>1 DEF Node, NULL
<1>3. l.NodeUseCount # 0
  <2>1. IsFiniteSet(hd) /\ Cardinality(hd) \in Nat
    BY <1>1, FiniteNodes
  <2>2. Cardinality(hd) # 0
    BY <2>1, FS_EmptySet
  <2>3. l.NodeUseCount = Len(s) + Cardinality(hd)
    BY <1>1 DEF Elsewhere
  <2> QED
    BY <1>1, <2>1, <2>2, <2>3
<1>4. n \notin NodesOf(s) /\ n \notin NodesOf(f) /\ n \in hp
  BY <1>1 DEF Elsewhere
<1> QED
  BY <1>1, <1>2, <1>3, <1>4 DEF Elsewhere

\* ... and of the nodes that are linked.
LEMMA InOrder ==
    ASSUME NEW l, NEW cl, NEW s, NEW f, NEW hp, NEW hd, NEW ls,
           Fits(l, cl, s, f, hp, hd, ls)
    PROVE  /\ l \in ListRecord /\ cl \in ListClasses
           /\ s \in Seq(Node) /\ Len(s) \in Nat /\ f \in Seq(Node) /\ Len(f) \in Nat
           /\ l.pHeadNode = NULL <=> Len(s) = 0
           /\ l.pHeadNode = IF Len(s) = 0 THEN NULL ELSE s[1]
           /\ l.pTailNode = IF Len(s) = 0 THEN NULL ELSE s[Len(s)]
           /\ l.NodeLinkCount = Len(s) /\ l.FreeListCount = Len(f)
           /\ \A i \in 1 .. Len(s) : s[i] \in Node /\ s[i] # NULL /\ s[i] \in NodesOf(s)
           /\ \A i, j \in 1 .. Len(s) : s[i] = s[j] => i = j
           /\ \A i \in 1 .. Len(s) : l.pNext[s[i]] = IF i = Len(s) THEN NULL ELSE s[i + 1]
           /\ cl \in DoublyClasses => \A i \in 1 .. Len(s) :
                       l.pPrev[s[i]] = IF i = 1 THEN NULL ELSE s[i - 1]
           /\ Linked(l) = s /\ FreeOnes(l) = f
<1>1. l \in ListRecord /\ cl \in ListClasses /\ Represents(l, cl, s, f)
  BY DEF Fits
<1>2. /\ s \in Seq(Node) /\ f \in Seq(Node) /\ Threads(l.pNext, l.pHeadNode, s)
      /\ Distinct(s) /\ l.pTailNode = LastOf(s)
      /\ (cl \in DoublyClasses => Mirrors(l.pPrev, s))
      /\ l.NodeLinkCount = Len(s) /\ l.FreeListCount = Len(f)
  BY <1>1 DEF Represents
<1>3. /\ Len(s) \in Nat /\ Len(f) \in Nat
      /\ \A i \in 1 .. Len(s) : s[i] \in Node /\ s[i] \in NodesOf(s) /\ s[i] # NULL
  BY <1>2, NodesAre
<1>4. l.pHeadNode = NULL <=> Len(s) = 0
  BY <1>2, FirstNode
<1>5. /\ l.pHeadNode = IF Len(s) = 0 THEN NULL ELSE s[1]
      /\ \A i \in 1 .. Len(s) : l.pNext[s[i]] = IF i = Len(s) THEN NULL ELSE s[i + 1]
  BY <1>2 DEF Threads
<1>6. \A i, j \in 1 .. Len(s) : s[i] = s[j] => i = j
  BY <1>2 DEF Distinct
<1>7. l.pTailNode = IF Len(s) = 0 THEN NULL ELSE s[Len(s)]
  BY <1>2 DEF LastOf
<1>8. cl \in DoublyClasses => \A i \in 1 .. Len(s) : l.pPrev[s[i]] = IF i = 1 THEN NULL ELSE s[i - 1]
  BY <1>2 DEF Mirrors
<1>9. Linked(l) = s /\ FreeOnes(l) = f
  BY <1>1, Walks
<1> QED
  BY <1>1, <1>2, <1>3, <1>4, <1>5, <1>6, <1>7, <1>8, <1>9

\* A list with other links.
Relinked(l, head, tail, count, next, prev) ==
  [l EXCEPT !.pHeadNode = head, !.pTailNode = tail, !.NodeLinkCount = count,
            !.pNext = next, !.pPrev = prev]

RelinkedAs(l, m, head, tail, count, next, prev) ==
  /\ m \in ListRecord
  /\ m.pHeadNode = head /\ m.pTailNode = tail /\ m.NodeLinkCount = count
  /\ m.pNext = next /\ m.pPrev = prev
  /\ m.NodeUseCount = l.NodeUseCount /\ m.NodeNumber = l.NodeNumber
  /\ SameFree(l, m) /\ SameBlock(l, m)

LEMMA RelinkedIs ==
    ASSUME NEW l \in ListRecord, NEW head \in Spot, NEW tail \in Spot,
           NEW count \in Nat, NEW next \in [Node -> Spot], NEW prev \in [Node -> Spot]
    PROVE  RelinkedAs(l, Relinked(l, head, tail, count, next, prev),
                      head, tail, count, next, prev)
<1> DEFINE m == Relinked(l, head, tail, count, next, prev)
<1>1. m \in ListRecord
  BY DEF Relinked, ListRecord
<1> QED
  BY <1>1 DEF Relinked, RelinkedAs, ListRecord, SameFree, SameBlock

LEMMA Members ==
    ASSUME NEW l \in ListRecord
    PROVE  /\ l.pHeadNode \in Spot /\ l.pTailNode \in Spot /\ l.pFreeList \in Spot
           /\ l.NodeLinkCount \in Nat /\ l.NodeUseCount \in Nat /\ l.FreeListCount \in Nat
           /\ l.BufferListCount \in Nat /\ l.pBufferList \in Nat
           /\ l.pNext \in [Node -> Spot] /\ l.pPrev \in [Node -> Spot]
           /\ l.NodeNumber \in [Node -> NodeNumbers]
           /\ NULL \in Spot /\ Node \subseteq Spot
BY DEF ListRecord, Spot

\* These links put n in as the k-th.
Puts(l, cl, s, k, n, head, tail, next, prev) ==
  /\ head = IF k = 1 THEN n ELSE l.pHeadNode
  /\ tail = IF k = Len(s) + 1 THEN n ELSE l.pTailNode
  /\ next[n] = IF k = Len(s) + 1 THEN NULL ELSE s[k]
  /\ \A x \in Node \ {n} :
       next[x] = IF k # 1 /\ x = s[k - 1] THEN n ELSE l.pNext[x]
  /\ cl \in DoublyClasses =>
       /\ prev[n] = IF k = 1 THEN NULL ELSE s[k - 1]
       /\ \A x \in Node \ {n} :
            prev[x] = IF k # Len(s) + 1 /\ x = s[k] THEN n ELSE l.pPrev[x]

LEMMA RelinkedPuts ==
    ASSUME NEW l \in ListRecord, NEW cl, NEW s, NEW k, NEW n,
           NEW head \in Spot, NEW tail \in Spot,
           NEW next \in [Node -> Spot], NEW prev \in [Node -> Spot],
           Puts(l, cl, s, k, n, head, tail, next, prev)
    PROVE  PutIn(l, Relinked(l, head, tail, l.NodeLinkCount + 1, next, prev), cl, s, k, n)
<1>1. PICK c \in Nat : c = l.NodeLinkCount + 1
  BY Members
<1> DEFINE m == Relinked(l, head, tail, c, next, prev)
<1>2. RelinkedAs(l, m, head, tail, c, next, prev)
  BY RelinkedIs
<1> HIDE DEF m
<1>3. PutIn(l, m, cl, s, k, n)
  BY <1>1, <1>2 DEF PutIn, Puts, RelinkedAs
<1> QED
  BY <1>1, <1>3 DEF m

LEMMA SinglyLinks ==
    ASSUME NEW l, NEW cl, NEW s, NEW f, NEW hp, NEW hd, NEW ls,
           Fits(l, cl, s, f, hp, hd, ls), NEW n \in hd, cl \notin DoublyClasses
    PROVE  /\ PutIn(l, SinglyListLink(l, n), cl, s, Len(s) + 1, n)
           /\ PutIn(l, SinglyListLinkToHead(l, n), cl, s, 1, n)
<1>0. l \in ListRecord
  BY InOrder
<1>1. n \in Node /\ n # NULL /\ n \notin NodesOf(s) /\ NULL \in Spot /\ n \in Spot
  BY <1>0, InHand, Members
<1>2. /\ l.pHeadNode = NULL <=> Len(s) = 0
      /\ Len(s) # 0 => l.pHeadNode = s[1] /\ l.pTailNode = s[Len(s)]
      /\ Len(s) \in Nat
  BY InOrder
<1>3. \A i \in 1 .. Len(s) : s[i] \in Node /\ s[i] # n
  BY <1>1, InOrder
<1>4. /\ l.pNext \in [Node -> Spot] /\ l.pPrev \in [Node -> Spot]
      /\ l.pHeadNode \in Spot /\ l.pTailNode \in Spot
  BY <1>0, Members
<1>5. PutIn(l, SinglyListLink(l, n), cl, s, Len(s) + 1, n)
  <2> DEFINE m == SinglyListLink(l, n)
  <2>1. CASE Len(s) = 0
    <3>1. m = [l EXCEPT !.pNext[n] = NULL, !.pHeadNode = n, !.pTailNode = n,
                        !.NodeLinkCount = @ + 1]
      BY <1>1, <1>2, <2>1 DEF SinglyListLink
    <3>2. PICK nx \in [Node -> Spot] : nx = [l.pNext EXCEPT ![n] = NULL]
      BY <1>1, <1>4
    <3>3. m = Relinked(l, n, n, l.NodeLinkCount + 1, nx, l.pPrev)
      <4>1. m = [l EXCEPT !.pNext = nx, !.pHeadNode = n, !.pTailNode = n,
                          !.NodeLinkCount = @ + 1]
        BY <3>1, <3>2
      <4> HIDE DEF m
      <4> QED
        BY <1>0, <4>1 DEF Relinked, ListRecord
    <3> HIDE DEF m
    <3>4. nx[n] = NULL /\ \A x \in Node \ {n} : nx[x] = l.pNext[x]
      BY <1>1, <1>4, <3>2
    <3>5. PICK k \in Nat : k = Len(s) + 1 /\ k = 1
      BY <2>1
    <3>6. Puts(l, cl, s, k, n, n, n, nx, l.pPrev)
      BY <3>4, <3>5 DEF Puts
    <3> QED
      BY <1>0, <1>1, <1>4, <3>3, <3>5, <3>6, RelinkedPuts DEF m
  <2>2. CASE Len(s) # 0
    <3>0. l.pTailNode \in Node /\ l.pTailNode = s[Len(s)] /\ l.pTailNode # n
      BY <1>2, <1>3, <2>2
    <3>1. m = [l EXCEPT !.pNext = [@ EXCEPT ![n] = NULL, ![l.pTailNode] = n],
                        !.pTailNode = n, !.NodeLinkCount = @ + 1]
      BY <1>1, <1>2, <2>2 DEF SinglyListLink
    <3>2. PICK nx \in [Node -> Spot] :
            nx = [l.pNext EXCEPT ![n] = NULL, ![l.pTailNode] = n]
      BY <1>1, <1>4, <3>0
    <3>3. m = Relinked(l, l.pHeadNode, n, l.NodeLinkCount + 1, nx, l.pPrev)
      <4>1. m = [l EXCEPT !.pNext = nx, !.pTailNode = n, !.NodeLinkCount = @ + 1]
        BY <3>1, <3>2
      <4> HIDE DEF m
      <4> QED
        BY <1>0, <4>1 DEF Relinked, ListRecord
    <3> HIDE DEF m
    <3>4. /\ nx[n] = NULL
          /\ \A x \in Node \ {n} : nx[x] = IF x = s[Len(s)] THEN n ELSE l.pNext[x]
      BY <1>1, <1>4, <3>0, <3>2
    <3>5. PICK k \in 1 .. Len(s) + 1 : k = Len(s) + 1 /\ k # 1 /\ k - 1 = Len(s)
      BY <1>2, <2>2
    <3>6. Puts(l, cl, s, k, n, l.pHeadNode, n, nx, l.pPrev)
      BY <3>4, <3>5 DEF Puts
    <3> QED
      BY <1>0, <1>1, <1>4, <3>3, <3>5, <3>6, RelinkedPuts DEF m
  <2> QED
    BY <2>1, <2>2
<1>6. PutIn(l, SinglyListLinkToHead(l, n), cl, s, 1, n)
  <2> DEFINE m == SinglyListLinkToHead(l, n)
  <2>1. m = [l EXCEPT !.pNext[n] = l.pHeadNode,
                      !.pTailNode = IF l.pHeadNode = NULL THEN n ELSE @,
                      !.pHeadNode = n, !.NodeLinkCount = @ + 1]
    BY <1>1 DEF SinglyListLinkToHead
  <2>2. PICK nx \in [Node -> Spot], tail \in Spot :
          /\ nx = [l.pNext EXCEPT ![n] = l.pHeadNode]
          /\ tail = IF l.pHeadNode = NULL THEN n ELSE l.pTailNode
    BY <1>1, <1>4
  <2>3. m = Relinked(l, n, tail, l.NodeLinkCount + 1, nx, l.pPrev)
    <3>1. m = [l EXCEPT !.pNext = nx, !.pTailNode = tail, !.pHeadNode = n,
                        !.NodeLinkCount = @ + 1]
      BY <2>1, <2>2
    <3> HIDE DEF m
    <3> QED
      BY <1>0, <3>1 DEF Relinked, ListRecord
  <2> HIDE DEF m
  <2>4. nx[n] = l.pHeadNode /\ \A x \in Node \ {n} : nx[x] = l.pNext[x]
    BY <1>1, <1>4, <2>2
  <2>5. 1 = Len(s) + 1 <=> Len(s) = 0
    BY <1>2
  <2>6. Puts(l, cl, s, 1, n, n, tail, nx, l.pPrev)
    BY <1>2, <2>2, <2>4, <2>5 DEF Puts
  <2> QED
    BY <1>0, <1>1, <1>4, <2>3, <2>6, RelinkedPuts DEF m
<1> QED
  BY <1>5, <1>6

\* A list of the doubly linked classes, and a node in hand.
LEMMA DoublyLinksAt ==
    ASSUME NEW l, NEW cl, NEW s, NEW f, NEW hp, NEW hd, NEW ls,
           Fits(l, cl, s, f, hp, hd, ls), NEW n \in hd, cl \in DoublyClasses
    PROVE  /\ PutIn(l, TDoublyListLink(l, n), cl, s, Len(s) + 1, n)
           /\ PutIn(l, TDoublyListLinkToHead(l, n), cl, s, 1, n)
<1>0. l \in ListRecord
  BY InOrder
<1>1. n \in Node /\ n # NULL /\ n \notin NodesOf(s) /\ NULL \in Spot /\ n \in Spot
  BY <1>0, InHand, Members
<1>2. /\ l.pHeadNode = NULL <=> Len(s) = 0
      /\ Len(s) # 0 => l.pHeadNode = s[1] /\ l.pTailNode = s[Len(s)]
      /\ Len(s) \in Nat
  BY InOrder
<1>3. \A i \in 1 .. Len(s) : s[i] \in Node /\ s[i] # n
  BY <1>1, InOrder
<1>4. l.pNext \in [Node -> Spot] /\ l.pPrev \in [Node -> Spot] /\ Node \subseteq Spot
  BY <1>0, Members
<1>5. CASE Len(s) = 0
  <2> DEFINE both == [l EXCEPT !.pPrev[n] = NULL, !.pNext[n] = NULL,
                  !.pHeadNode = n, !.pTailNode = n, !.NodeLinkCount = @ + 1]
  <2>1. TDoublyListLink(l, n) = both /\ TDoublyListLinkToHead(l, n) = both
    BY <1>1, <1>2, <1>5 DEF TDoublyListLink, TDoublyListLinkToHead
  <2>2. PICK nx \in [Node -> Spot], pv \in [Node -> Spot] :
          nx = [l.pNext EXCEPT ![n] = NULL] /\ pv = [l.pPrev EXCEPT ![n] = NULL]
    BY <1>1, <1>4
  <2>3. both = Relinked(l, n, n, l.NodeLinkCount + 1, nx, pv)
    <3>1. both = [l EXCEPT !.pPrev = pv, !.pNext = nx,
                    !.pHeadNode = n, !.pTailNode = n, !.NodeLinkCount = @ + 1]
      BY <2>2
    <3> HIDE DEF both
    <3> QED
      BY <1>0, <3>1 DEF Relinked, ListRecord
  <2> HIDE DEF both
  <2>4. /\ nx[n] = NULL /\ \A x \in Node \ {n} : nx[x] = l.pNext[x]
        /\ pv[n] = NULL /\ \A x \in Node \ {n} : pv[x] = l.pPrev[x]
    BY <1>1, <1>4, <2>2
  <2>5. PutIn(l, both, cl, s, 1, n)
    <3>1. 1 \in 1 .. Len(s) + 1 /\ 1 = Len(s) + 1
      BY <1>5
    <3>2. Puts(l, cl, s, 1, n, n, n, nx, pv)
      BY <2>4, <3>1 DEF Puts
    <3> QED
      BY <1>0, <1>1, <2>3, <3>2, RelinkedPuts
  <2>6. Len(s) + 1 = 1
    BY <1>5
  <2> QED
    BY <2>1, <2>5, <2>6
<1>6. CASE Len(s) # 0
  <2>0. /\ l.pTailNode \in Node /\ l.pTailNode = s[Len(s)] /\ l.pTailNode # n
        /\ l.pHeadNode \in Node /\ l.pHeadNode = s[1] /\ l.pHeadNode # n
        /\ l.pHeadNode # NULL
    BY <1>2, <1>3, <1>6
  <2>1. PutIn(l, TDoublyListLink(l, n), cl, s, Len(s) + 1, n)
    <3> DEFINE m == TDoublyListLink(l, n)
    <3>1. m = [l EXCEPT !.pPrev[n] = l.pTailNode,
                 !.pNext = [@ EXCEPT ![n] = NULL, ![l.pTailNode] = n],
                 !.pTailNode = n, !.NodeLinkCount = @ + 1]
      BY <1>1, <2>0 DEF TDoublyListLink
    <3>2. PICK nx \in [Node -> Spot], pv \in [Node -> Spot] :
            /\ nx = [l.pNext EXCEPT ![n] = NULL, ![l.pTailNode] = n]
            /\ pv = [l.pPrev EXCEPT ![n] = l.pTailNode]
      BY <1>1, <1>4, <2>0
    <3>3. m = Relinked(l, l.pHeadNode, n, l.NodeLinkCount + 1, nx, pv)
      <4>1. m = [l EXCEPT !.pPrev = pv, !.pNext = nx,
                          !.pTailNode = n, !.NodeLinkCount = @ + 1]
        BY <3>1, <3>2
      <4> HIDE DEF m
      <4> QED
        BY <1>0, <4>1 DEF Relinked, ListRecord
    <3> HIDE DEF m
    <3>4. PICK k \in 1 .. Len(s) + 1 : k = Len(s) + 1 /\ k # 1 /\ k - 1 = Len(s)
      BY <1>2, <1>6
    <3>5. /\ nx[n] = NULL
          /\ \A x \in Node \ {n} : nx[x] = IF x = s[Len(s)] THEN n ELSE l.pNext[x]
          /\ pv[n] = s[Len(s)] /\ \A x \in Node \ {n} : pv[x] = l.pPrev[x]
      BY <1>1, <1>4, <2>0, <3>2
    <3>6. Puts(l, cl, s, k, n, l.pHeadNode, n, nx, pv)
      BY <3>4, <3>5 DEF Puts
    <3>7. l.pHeadNode \in Spot
      BY <1>0, Members
    <3> QED
      BY <1>0, <1>1, <3>3, <3>4, <3>6, <3>7, RelinkedPuts DEF m
  <2>2. PutIn(l, TDoublyListLinkToHead(l, n), cl, s, 1, n)
    <3> DEFINE m == TDoublyListLinkToHead(l, n)
    <3>1. m = [l EXCEPT !.pPrev = [@ EXCEPT ![n] = NULL, ![l.pHeadNode] = n],
                        !.pNext[n] = l.pHeadNode,
                        !.pHeadNode = n, !.NodeLinkCount = @ + 1]
      BY <1>1, <2>0 DEF TDoublyListLinkToHead
    <3>2. PICK nx \in [Node -> Spot], pv \in [Node -> Spot] :
            /\ nx = [l.pNext EXCEPT ![n] = l.pHeadNode]
            /\ pv = [l.pPrev EXCEPT ![n] = NULL, ![l.pHeadNode] = n]
      BY <1>1, <1>4, <2>0
    <3>3. m = Relinked(l, n, l.pTailNode, l.NodeLinkCount + 1, nx, pv)
      <4>1. m = [l EXCEPT !.pPrev = pv, !.pNext = nx,
                          !.pHeadNode = n, !.NodeLinkCount = @ + 1]
        BY <3>1, <3>2
      <4> HIDE DEF m
      <4> QED
        BY <1>0, <4>1 DEF Relinked, ListRecord
    <3> HIDE DEF m
    <3>4. 1 \in 1 .. Len(s) + 1 /\ Len(s) + 1 # 1
      BY <1>2, <1>6
    <3>5. /\ nx[n] = s[1] /\ \A x \in Node \ {n} : nx[x] = l.pNext[x]
          /\ pv[n] = NULL
          /\ \A x \in Node \ {n} : pv[x] = IF x = s[1] THEN n ELSE l.pPrev[x]
      BY <1>1, <1>4, <2>0, <3>2
    <3>6. Puts(l, cl, s, 1, n, n, l.pTailNode, nx, pv)
      BY <3>4, <3>5 DEF Puts
    <3>7. l.pTailNode \in Spot
      BY <1>0, Members
    <3> QED
      BY <1>0, <1>1, <3>3, <3>6, <3>7, RelinkedPuts DEF m
  <2> QED
    BY <2>1, <2>2
<1> QED
  BY <1>5, <1>6

\* The least of a set of numbers.
LEMMA LeastExists ==
    ASSUME NEW S \in SUBSET Nat, S # {}
    PROVE  \E i \in S : \A j \in S : i <= j
<1> DEFINE T == {m \in Nat : \A j \in S : m <= j}
<1> SUFFICES ASSUME \A i \in S : \E j \in S : ~(i <= j)
             PROVE  FALSE
  OBVIOUS
<1>1. 0 \in T
  OBVIOUS
<1>2. ASSUME NEW m \in Nat, m \in T
      PROVE  m + 1 \in T
  <2>1. m \notin S
    BY <1>2
  <2>2. ASSUME NEW j \in S
        PROVE  m + 1 <= j
    BY <1>2, <2>1, <2>2
  <2> QED
    BY <2>2
<1> HIDE DEF T
<1>3. Nat \subseteq T
  BY <1>1, <1>2, AllNaturals
<1>4. PICK i \in Nat : i \in S
  OBVIOUS
<1>5. i + 1 \in T
  BY <1>3, <1>4
<1> QED
  BY <1>4, <1>5 DEF T

LEMMA DoublyInserts ==
    ASSUME NEW l, NEW cl, NEW s, NEW f, NEW hp, NEW hd, NEW ls,
           Fits(l, cl, s, f, hp, hd, ls), NEW n \in hd, cl \in DoublyClasses,
           NEW j \in 1 .. Len(s)
    PROVE  /\ PutIn(l, TDoublyListLinkInsertPrev(l, s[j], n), cl, s, j, n)
           /\ PutIn(l, TDoublyListLinkInsertNext(l, s[j], n), cl, s, j + 1, n)
<1>0. l \in ListRecord /\ Len(s) \in Nat /\ Len(s) # 0
  BY InOrder
<1>1. n \in Node /\ n # NULL /\ n \notin NodesOf(s) /\ NULL \in Spot /\ n \in Spot
  BY <1>0, InHand, Members
<1>2. /\ l.pHeadNode = s[1] /\ l.pTailNode = s[Len(s)]
      /\ \A i \in 1 .. Len(s) : s[i] \in Node /\ s[i] # n /\ s[i] # NULL
      /\ \A i, k \in 1 .. Len(s) : s[i] = s[k] => i = k
  BY <1>0, <1>1, InOrder
<1>3. /\ l.pNext[s[j]] = IF j = Len(s) THEN NULL ELSE s[j + 1]
      /\ l.pPrev[s[j]] = IF j = 1 THEN NULL ELSE s[j - 1]
  BY InOrder
<1>4. /\ l.pNext \in [Node -> Spot] /\ l.pPrev \in [Node -> Spot] /\ Node \subseteq Spot
      /\ l.pHeadNode \in Spot /\ l.pTailNode \in Spot
  BY <1>0, Members
<1>d. PICK dest \in Node : dest = s[j] /\ dest # NULL /\ dest # n
  BY <1>2
<1>5. PutIn(l, TDoublyListLinkInsertPrev(l, dest, n), cl, s, j, n)
  <2> DEFINE m == TDoublyListLinkInsertPrev(l, dest, n)
  <2>1. PICK pv \in [Node -> Spot] :
          pv = [l.pPrev EXCEPT ![n] = l.pPrev[dest], ![dest] = n]
    BY <1>1, <1>4, <1>d
  <2>2. /\ pv[n] = IF j = 1 THEN NULL ELSE s[j - 1]
        /\ \A x \in Node \ {n} : pv[x] = IF x = s[j] THEN n ELSE l.pPrev[x]
    BY <1>1, <1>3, <1>4, <1>d, <2>1
  <2>3. j # Len(s) + 1 /\ j \in Nat
    BY <1>0
  <2>4. CASE j # 1
    <3>1. PICK before \in Node : /\ before = s[j - 1] /\ before = l.pPrev[dest]
                                 /\ before # n /\ before # NULL
      <4>1. j - 1 \in 1 .. Len(s)
        BY <1>0, <2>4
      <4> QED
        BY <1>2, <1>3, <1>d, <2>4, <4>1
    <3>2. m = [[l EXCEPT !.pPrev = [@ EXCEPT ![n] = l.pPrev[dest], ![dest] = n],
                         !.pNext[n] = dest, !.NodeLinkCount = @ + 1]
               EXCEPT !.pNext[before] = n]
      BY <1>1, <1>d, <3>1 DEF TDoublyListLinkInsertPrev
    <3>3. PICK ny \in [Node -> Spot] : ny = [l.pNext EXCEPT ![n] = dest]
      BY <1>1, <1>4
    <3>4. PICK nx \in [Node -> Spot] : nx = [ny EXCEPT ![before] = n]
      BY <1>1, <3>1
    <3>5. m = Relinked(l, l.pHeadNode, l.pTailNode, l.NodeLinkCount + 1, nx, pv)
      <4>1. m = [[l EXCEPT !.pPrev = pv, !.pNext = ny, !.NodeLinkCount = @ + 1]
                 EXCEPT !.pNext[before] = n]
        BY <2>1, <3>2, <3>3
      <4> HIDE DEF m
      <4>2. m = [[l EXCEPT !.pPrev = pv, !.pNext = ny, !.NodeLinkCount = @ + 1]
                 EXCEPT !.pNext = nx]
        BY <1>0, <3>4, <4>1 DEF ListRecord
      <4> QED
        BY <1>0, <4>2 DEF Relinked, ListRecord
    <3> HIDE DEF m
    <3>6. nx[n] = s[j] /\ \A x \in Node \ {n} : nx[x] = IF x = s[j - 1] THEN n ELSE l.pNext[x]
      BY <1>1, <1>4, <1>d, <3>1, <3>3, <3>4
    <3>7. Puts(l, cl, s, j, n, l.pHeadNode, l.pTailNode, nx, pv)
      BY <2>2, <2>3, <2>4, <3>6 DEF Puts
    <3> QED
      BY <1>0, <1>1, <1>4, <3>5, <3>7, RelinkedPuts DEF m
  <2>5. CASE j = 1
    <3>1. m = [[l EXCEPT !.pPrev = [@ EXCEPT ![n] = l.pPrev[dest], ![dest] = n],
                         !.pNext[n] = dest, !.NodeLinkCount = @ + 1]
               EXCEPT !.pHeadNode = n]
      BY <1>1, <1>3, <1>d, <2>5 DEF TDoublyListLinkInsertPrev
    <3>2. PICK nx \in [Node -> Spot] : nx = [l.pNext EXCEPT ![n] = dest]
      BY <1>1, <1>4
    <3>3. m = Relinked(l, n, l.pTailNode, l.NodeLinkCount + 1, nx, pv)
      <4>1. m = [[l EXCEPT !.pPrev = pv, !.pNext = nx, !.NodeLinkCount = @ + 1]
                 EXCEPT !.pHeadNode = n]
        BY <2>1, <3>1, <3>2
      <4> HIDE DEF m
      <4> QED
        BY <1>0, <4>1 DEF Relinked, ListRecord
    <3> HIDE DEF m
    <3>4. nx[n] = s[j] /\ \A x \in Node \ {n} : nx[x] = l.pNext[x]
      BY <1>1, <1>4, <1>d, <3>2
    <3>5. Puts(l, cl, s, j, n, n, l.pTailNode, nx, pv)
      BY <2>2, <2>3, <2>5, <3>4 DEF Puts
    <3> QED
      BY <1>0, <1>1, <1>4, <3>3, <3>5, RelinkedPuts DEF m
  <2> QED
    BY <2>4, <2>5
<1>6. PutIn(l, TDoublyListLinkInsertNext(l, dest, n), cl, s, j + 1, n)
  <2> DEFINE m == TDoublyListLinkInsertNext(l, dest, n)
  <2>1. PICK nx \in [Node -> Spot] :
          nx = [l.pNext EXCEPT ![n] = l.pNext[dest], ![dest] = n]
    BY <1>1, <1>4, <1>d
  <2>2. /\ nx[n] = IF j = Len(s) THEN NULL ELSE s[j + 1]
        /\ \A x \in Node \ {n} : nx[x] = IF x = s[j] THEN n ELSE l.pNext[x]
    BY <1>1, <1>3, <1>4, <1>d, <2>1
  <2>3. PICK k \in Nat : /\ k = j + 1 /\ k # 1 /\ k - 1 = j
                         /\ j = Len(s) <=> k = Len(s) + 1
    BY <1>0
  <2>4. CASE j # Len(s)
    <3>1. PICK after \in Node : /\ after = s[k] /\ after = l.pNext[dest]
                                /\ after # n /\ after # NULL
      <4>1. j + 1 \in 1 .. Len(s)
        BY <1>0, <2>4
      <4> QED
        BY <1>2, <1>3, <1>d, <2>3, <2>4, <4>1
    <3>2. m = [[l EXCEPT !.pNext = [@ EXCEPT ![n] = l.pNext[dest], ![dest] = n],
                         !.pPrev[n] = dest, !.NodeLinkCount = @ + 1]
               EXCEPT !.pPrev[after] = n]
      BY <1>1, <1>d, <3>1 DEF TDoublyListLinkInsertNext
    <3>3. PICK pw \in [Node -> Spot] : pw = [l.pPrev EXCEPT ![n] = dest]
      BY <1>1, <1>4
    <3>4. PICK pv \in [Node -> Spot] : pv = [pw EXCEPT ![after] = n]
      BY <1>1, <3>1
    <3>5. m = Relinked(l, l.pHeadNode, l.pTailNode, l.NodeLinkCount + 1, nx, pv)
      <4>1. m = [[l EXCEPT !.pNext = nx, !.pPrev = pw, !.NodeLinkCount = @ + 1]
                 EXCEPT !.pPrev[after] = n]
        BY <2>1, <3>2, <3>3
      <4> HIDE DEF m
      <4>2. m = [[l EXCEPT !.pNext = nx, !.pPrev = pw, !.NodeLinkCount = @ + 1]
                 EXCEPT !.pPrev = pv]
        BY <1>0, <3>4, <4>1 DEF ListRecord
      <4> QED
        BY <1>0, <4>2 DEF Relinked, ListRecord
    <3> HIDE DEF m
    <3>6. pv[n] = s[j] /\ \A x \in Node \ {n} : pv[x] = IF x = s[k] THEN n ELSE l.pPrev[x]
      BY <1>1, <1>4, <1>d, <3>1, <3>3, <3>4
    <3>7. Puts(l, cl, s, k, n, l.pHeadNode, l.pTailNode, nx, pv)
      BY <2>2, <2>3, <2>4, <3>6 DEF Puts
    <3> QED
      BY <1>0, <1>1, <1>4, <2>3, <3>5, <3>7, RelinkedPuts DEF m
  <2>5. CASE j = Len(s)
    <3>1. m = [[l EXCEPT !.pNext = [@ EXCEPT ![n] = l.pNext[dest], ![dest] = n],
                         !.pPrev[n] = dest, !.NodeLinkCount = @ + 1]
               EXCEPT !.pTailNode = n]
      BY <1>1, <1>3, <1>d, <2>5 DEF TDoublyListLinkInsertNext
    <3>2. PICK pv \in [Node -> Spot] : pv = [l.pPrev EXCEPT ![n] = dest]
      BY <1>1, <1>4
    <3>3. m = Relinked(l, l.pHeadNode, n, l.NodeLinkCount + 1, nx, pv)
      <4>1. m = [[l EXCEPT !.pNext = nx, !.pPrev = pv, !.NodeLinkCount = @ + 1]
                 EXCEPT !.pTailNode = n]
        BY <2>1, <3>1, <3>2
      <4> HIDE DEF m
      <4> QED
        BY <1>0, <4>1 DEF Relinked, ListRecord
    <3> HIDE DEF m
    <3>4. pv[n] = s[j] /\ \A x \in Node \ {n} : pv[x] = l.pPrev[x]
      BY <1>1, <1>4, <1>d, <3>2
    <3>5. Puts(l, cl, s, k, n, l.pHeadNode, n, nx, pv)
      BY <2>2, <2>3, <2>5, <3>4 DEF Puts
    <3> QED
      BY <1>0, <1>1, <1>4, <2>3, <3>3, <3>5, RelinkedPuts DEF m
  <2> QED
    BY <2>4, <2>5
<1> QED
  BY <1>5, <1>6, <1>d

\* The insertion in order, after the user gave n the number k.
Numbered(l, n, k) == [l EXCEPT !.NodeNumber[n] = k]

Greater(l, s, k) == {i \in 1 .. Len(s) : k < l.NodeNumber[s[i]]}

InOrderAt(l, s, k) ==
  LET greater == Greater(l, s, k)
  IN  IF greater = {} THEN Len(s) + 1
      ELSE CHOOSE i \in greater : \A j \in greater : i <= j

LEMMA Numbering ==
    ASSUME NEW l, NEW cl, NEW s, NEW f, NEW hp, NEW hd, NEW ls,
           Fits(l, cl, s, f, hp, hd, ls), NEW n \in hd, NEW k \in NodeNumbers
    PROVE  /\ Fits(Numbered(l, n, k), cl, s, f, hp, hd, ls)
           /\ Numbered(l, n, k).NodeNumber = [l.NodeNumber EXCEPT ![n] = k]
           /\ Greater(Numbered(l, n, k), s, k) = Greater(l, s, k)
<1> DEFINE m == Numbered(l, n, k)
<1>1. l \in ListRecord /\ n \in Node /\ n \notin NodesOf(s)
  BY InOrder, InHand
<1>2. PICK num \in [Node -> NodeNumbers] : num = [l.NodeNumber EXCEPT ![n] = k]
  BY <1>1, Members
<1>3. m = [l EXCEPT !.NodeNumber = num]
  BY <1>2 DEF Numbered
<1> HIDE DEF m
<1>4. /\ m \in ListRecord /\ m.NodeNumber = num
      /\ m.pHeadNode = l.pHeadNode /\ m.pTailNode = l.pTailNode
      /\ m.NodeLinkCount = l.NodeLinkCount /\ m.NodeUseCount = l.NodeUseCount
      /\ m.pFreeList = l.pFreeList /\ m.FreeListCount = l.FreeListCount
      /\ m.pBufferList = l.pBufferList /\ m.BufferListCount = l.BufferListCount
      /\ m.pNext = l.pNext /\ m.pPrev = l.pPrev
  BY <1>1, <1>3 DEF ListRecord
<1>5. Fits(m, cl, s, f, hp, hd, ls)
  <2>1. Unused(m) = Unused(l)
    BY <1>4 DEF Unused
  <2>2. Represents(m, cl, s, f)
    BY <1>4 DEF Represents, Fits
  <2>3. Elsewhere(m, cl, s, f, hp, hd, ls)
    BY <1>4, <2>1 DEF Elsewhere, Fits
  <2> QED
    BY <1>4, <2>2, <2>3 DEF Fits
<1>6. Greater(m, s, k) = Greater(l, s, k)
  <2>1. \A i \in 1 .. Len(s) : s[i] \in Node /\ s[i] # n
    BY <1>1, InOrder
  <2>2. \A i \in 1 .. Len(s) : m.NodeNumber[s[i]] = l.NodeNumber[s[i]]
    BY <1>1, <1>2, <1>4, <2>1, Members
  <2> QED
    BY <2>2 DEF Greater
<1> QED
  BY <1>2, <1>4, <1>5, <1>6 DEF m

LEMMA OrderedInsert ==
    ASSUME NEW l, NEW cl, NEW s, NEW f, NEW hp, NEW hd, NEW ls,
           Fits(l, cl, s, f, hp, hd, ls), NEW n \in hd, cl \in DoublyClasses,
           NEW k \in NodeNumbers
    PROVE  /\ InOrderAt(l, s, k) \in 1 .. Len(s) + 1
           /\ PutIn(Numbered(l, n, k),
                    TDoublyListLinkInsertOrderWithNumber(Numbered(l, n, k), n),
                    cl, s, InOrderAt(l, s, k), n)
<1> DEFINE m == Numbered(l, n, k)
<1>1. /\ Fits(m, cl, s, f, hp, hd, ls)
      /\ m.NodeNumber = [l.NodeNumber EXCEPT ![n] = k]
      /\ Greater(m, s, k) = Greater(l, s, k)
  BY Numbering
<1> HIDE DEF m
<1>2. l \in ListRecord /\ n \in Node /\ Len(s) \in Nat /\ Linked(m) = s
  BY <1>1, InOrder, InHand
<1>3. m.NodeNumber[n] = k
  BY <1>1, <1>2, Members
<1>4. {i \in 1 .. Len(Linked(m)) : m.NodeNumber[n] < m.NodeNumber[Linked(m)[i]]}
        = Greater(l, s, k)
  BY <1>1, <1>2, <1>3 DEF Greater
<1> DEFINE g == Greater(l, s, k)
<1>5. TDoublyListLinkInsertOrderWithNumber(m, n) =
        IF g = {} THEN TDoublyListLink(m, n)
        ELSE TDoublyListLinkInsertPrev(
               m, s[CHOOSE i \in g : \A j \in g : i <= j], n)
  <2> DEFINE h == {i \in 1 .. Len(Linked(m)) : m.NodeNumber[n] < m.NodeNumber[Linked(m)[i]]}
  <2>1. TDoublyListLinkInsertOrderWithNumber(m, n) =
          IF h = {} THEN TDoublyListLink(m, n)
          ELSE TDoublyListLinkInsertPrev(
                 m, Linked(m)[CHOOSE i \in h : \A j \in h : i <= j], n)
    BY DEF TDoublyListLinkInsertOrderWithNumber
  <2>2. h = g
    BY <1>4
  <2> HIDE DEF h, g
  <2> QED
    BY <1>2, <2>1, <2>2, Zenon
<1>6. CASE g = {}
  <2>1. InOrderAt(l, s, k) = Len(s) + 1
    BY <1>6 DEF InOrderAt
  <2>2. PutIn(m, TDoublyListLink(m, n), cl, s, Len(s) + 1, n)
    BY <1>1, DoublyLinksAt
  <2> QED
    BY <1>2, <1>5, <1>6, <2>1, <2>2 DEF m
<1>7. CASE g # {}
  <2>1. PICK least \in 1 .. Len(s) : /\ least = InOrderAt(l, s, k)
                                     /\ least = CHOOSE i \in g : \A j \in g : i <= j
    <3>1. g \in SUBSET Nat /\ g \subseteq 1 .. Len(s)
      BY DEF Greater
    <3> HIDE DEF g
    <3>2. \E i \in g : \A j \in g : i <= j
      BY <1>7, <3>1, LeastExists
    <3>3. (CHOOSE i \in g : \A j \in g : i <= j) \in g
      BY <3>2
    <3> QED
      BY <1>7, <3>1, <3>3, SMTT(40) DEF InOrderAt, g
  <2> HIDE DEF g
  <2>2. PutIn(m, TDoublyListLinkInsertPrev(m, s[least], n), cl, s, least, n)
    BY <1>1, DoublyInserts
  <2>3. TDoublyListLinkInsertOrderWithNumber(m, n) = TDoublyListLinkInsertPrev(m, s[least], n)
    BY <1>5, <1>7, <2>1
  <2>4. least \in 1 .. Len(s) + 1
    BY <1>2
  <2> QED
    BY <2>1, <2>2, <2>3, <2>4 DEF m
<1> QED
  BY <1>6, <1>7

\* An Unlink that a node in a list obeys.
Takes(l, cl, s, k, head, tail, next, prev) ==
  /\ head = IF k = 1 THEN l.pNext[s[1]] ELSE l.pHeadNode
  /\ tail = IF k = Len(s) THEN IF k = 1 THEN NULL ELSE s[k - 1] ELSE l.pTailNode
  /\ next[s[k]] = NULL
  /\ \A x \in Node \ {s[k]} :
       next[x] = IF k # 1 /\ x = s[k - 1] THEN l.pNext[s[k]] ELSE l.pNext[x]
  /\ cl \in DoublyClasses =>
       /\ prev[s[k]] = NULL
       /\ \A x \in Node \ {s[k]} :
            prev[x] = IF k # Len(s) /\ x = s[k + 1] THEN l.pPrev[s[k]] ELSE l.pPrev[x]

LEMMA RelinkedTakes ==
    ASSUME NEW l \in ListRecord, NEW cl, NEW s, NEW k,
           NEW head \in Spot, NEW tail \in Spot, NEW count \in Nat,
           NEW next \in [Node -> Spot], NEW prev \in [Node -> Spot],
           count = l.NodeLinkCount - 1,
           Takes(l, cl, s, k, head, tail, next, prev)
    PROVE  TakenOut(l, Relinked(l, head, tail, count, next, prev), cl, s, k)
<1> DEFINE m == Relinked(l, head, tail, count, next, prev)
<1>1. RelinkedAs(l, m, head, tail, count, next, prev)
  BY RelinkedIs
<1> HIDE DEF m
<1>2. TakenOut(l, m, cl, s, k)
  BY <1>1 DEF TakenOut, Takes, RelinkedAs
<1> QED
  BY <1>2 DEF m

LEMMA DoublyUnlinks ==
    ASSUME NEW l, NEW cl, NEW s, NEW f, NEW hp, NEW hd, NEW ls,
           Fits(l, cl, s, f, hp, hd, ls), cl \in DoublyClasses
    PROVE  /\ \A k \in 1 .. Len(s) : TakenOut(l, TDoublyListUnlink(l, s[k]), cl, s, k)
           /\ \A n \in hp \ NodesOf(s) : TDoublyListUnlink(l, n) = l
<1>0. /\ l \in ListRecord /\ Len(s) \in Nat /\ l.NodeLinkCount = Len(s)
      /\ l.pHeadNode = IF Len(s) = 0 THEN NULL ELSE s[1]
      /\ l.pTailNode = IF Len(s) = 0 THEN NULL ELSE s[Len(s)]
  BY InOrder
<1>1. /\ \A i \in 1 .. Len(s) : s[i] \in Node /\ s[i] # NULL /\ s[i] \in NodesOf(s)
      /\ \A i, j \in 1 .. Len(s) : s[i] = s[j] => i = j
  BY InOrder
<1>2. /\ \A i \in 1 .. Len(s) : l.pNext[s[i]] = IF i = Len(s) THEN NULL ELSE s[i + 1]
      /\ \A i \in 1 .. Len(s) : l.pPrev[s[i]] = IF i = 1 THEN NULL ELSE s[i - 1]
  BY InOrder
<1>4. /\ l.pNext \in [Node -> Spot] /\ l.pPrev \in [Node -> Spot] /\ Node \subseteq Spot
      /\ l.pHeadNode \in Spot /\ l.pTailNode \in Spot /\ NULL \in Spot
  BY <1>0, Members
<1>5. ASSUME NEW k \in 1 .. Len(s)
      PROVE  TakenOut(l, TDoublyListUnlink(l, s[k]), cl, s, k)
  <2>n. PICK n \in Node : n = s[k] /\ n # NULL
    BY <1>1
  <2>c. PICK count \in Nat : count = l.NodeLinkCount - 1 /\ l.NodeLinkCount > 0
    BY <1>0
  <2> DEFINE m == TDoublyListUnlink(l, n)
             prev == l.pPrev[n]
             next == l.pNext[n]
             out == IF prev # NULL /\ next # NULL
                    THEN [l EXCEPT !.pNext[prev] = next, !.pPrev[next] = prev]
                    ELSE IF prev # NULL
                    THEN [l EXCEPT !.pTailNode = prev, !.pNext[prev] = NULL]
                    ELSE IF next # NULL
                    THEN [l EXCEPT !.pHeadNode = next, !.pPrev[next] = NULL]
                    ELSE [l EXCEPT !.pHeadNode = NULL, !.pTailNode = NULL]
  <2>1. /\ k # 1 => prev = s[k - 1] /\ prev \in Node /\ prev # n /\ prev # NULL
        /\ k = 1 => prev = NULL /\ l.pHeadNode = n
        /\ k # Len(s) => next = s[k + 1] /\ next \in Node /\ next # n /\ next # NULL
        /\ k = Len(s) => next = NULL /\ l.pTailNode = n
    <3>1. k # 1 => k - 1 \in 1 .. Len(s) /\ k - 1 # k
      BY <1>0
    <3>2. k # Len(s) => k + 1 \in 1 .. Len(s) /\ k + 1 # k
      BY <1>0
    <3>3. Len(s) # 0
      BY <1>0
    <3> QED
      BY <1>0, <1>1, <1>2, <2>n, <3>1, <3>2, <3>3
  <2>2. Unlinkable(l, n)
    BY <2>n, <2>1 DEF Unlinkable
  <2>3. m = [out EXCEPT !.pPrev[n] = NULL, !.pNext[n] = NULL,
                        !.NodeLinkCount = IF @ > 0 THEN @ - 1 ELSE @]
    BY <2>2 DEF TDoublyListUnlink
  \* The four cases differ in what is left at the two ends.
  <2>4. PICK head \in Spot, tail \in Spot, ny \in [Node -> Spot], pw \in [Node -> Spot] :
          /\ head = IF k = 1 THEN next ELSE l.pHeadNode
          /\ tail = IF k = Len(s) THEN prev ELSE l.pTailNode
          /\ ny = IF k = 1 THEN l.pNext ELSE [l.pNext EXCEPT ![prev] = next]
          /\ pw = IF k = Len(s) THEN l.pPrev ELSE [l.pPrev EXCEPT ![next] = prev]
    <3>1. next \in Spot /\ prev \in Spot
      BY <1>4, <2>1
    <3>2. [l.pNext EXCEPT ![prev] = next] \in [Node -> Spot]
      BY <1>4, <3>1
    <3>3. [l.pPrev EXCEPT ![next] = prev] \in [Node -> Spot]
      BY <1>4, <3>1
    <3> QED
      BY <1>4, <3>1, <3>2, <3>3
  <2>5. out = [l EXCEPT !.pHeadNode = head, !.pTailNode = tail, !.pNext = ny, !.pPrev = pw]
    <3>1. CASE k # 1 /\ k # Len(s)
      <4>1. out = [l EXCEPT !.pNext = ny, !.pPrev = pw]
        BY <2>1, <2>4, <3>1
      <4> QED
        BY <1>0, <2>4, <3>1, <4>1 DEF ListRecord
    <3>2. CASE k # 1 /\ k = Len(s)
      <4>1. out = [l EXCEPT !.pTailNode = tail, !.pNext = ny]
        BY <2>1, <2>4, <3>2
      <4> QED
        BY <1>0, <2>4, <3>2, <4>1 DEF ListRecord
    <3>3. CASE k = 1 /\ k # Len(s)
      <4>1. out = [l EXCEPT !.pHeadNode = head, !.pPrev = pw]
        BY <2>1, <2>4, <3>3
      <4> QED
        BY <1>0, <2>4, <3>3, <4>1 DEF ListRecord
    <3>4. CASE k = 1 /\ k = Len(s)
      <4>1. out = [l EXCEPT !.pHeadNode = head, !.pTailNode = tail]
        BY <2>1, <2>4, <3>4
      <4> QED
        BY <1>0, <2>4, <3>4, <4>1 DEF ListRecord
    <3> QED
      BY <3>1, <3>2, <3>3, <3>4
  <2>6. PICK nx \in [Node -> Spot], pv \in [Node -> Spot] :
          nx = [ny EXCEPT ![n] = NULL] /\ pv = [pw EXCEPT ![n] = NULL]
    BY <1>4, <2>4
  <2> HIDE DEF out
  <2>7. m = Relinked(l, head, tail, count, nx, pv)
    <3>1. /\ out \in ListRecord /\ out.pNext = ny /\ out.pPrev = pw
          /\ out.NodeLinkCount = l.NodeLinkCount
      BY <1>0, <2>5 DEF ListRecord
    <3> HIDE DEF m
    <3>2. m = [out EXCEPT !.pPrev = pv, !.pNext = nx, !.NodeLinkCount = count]
      BY <2>c, <2>3, <2>6, <3>1 DEF ListRecord
    <3> QED
      BY <1>0, <2>5, <3>2 DEF Relinked, ListRecord
  <2> HIDE DEF m
  <2>8. Takes(l, cl, s, k, head, tail, nx, pv)
    <3>1. head = IF k = 1 THEN l.pNext[s[1]] ELSE l.pHeadNode
      BY <2>n, <2>4
    <3>2. tail = IF k = Len(s) THEN IF k = 1 THEN NULL ELSE s[k - 1] ELSE l.pTailNode
      BY <2>1, <2>4
    <3>3. /\ nx[n] = NULL
          /\ \A x \in Node \ {n} :
               nx[x] = IF k # 1 /\ x = s[k - 1] THEN l.pNext[n] ELSE l.pNext[x]
      BY <1>4, <2>1, <2>4, <2>6
    <3>4. /\ pv[n] = NULL
          /\ \A x \in Node \ {n} :
               pv[x] = IF k # Len(s) /\ x = s[k + 1] THEN l.pPrev[n] ELSE l.pPrev[x]
      BY <1>4, <2>1, <2>4, <2>6
    <3> QED
      BY <2>n, <3>1, <3>2, <3>3, <3>4 DEF Takes
  <2> QED
    BY <1>0, <2>n, <2>c, <2>7, <2>8, RelinkedTakes DEF m
<1>6. ASSUME NEW n \in hp \ NodesOf(s)
      PROVE  TDoublyListUnlink(l, n) = l
  <2>1. l.pPrev[n] = NULL
    BY <1>6 DEF Fits, Elsewhere
  <2>2. l.pHeadNode # n \/ n = NULL
    <3>1. Len(s) # 0 => s[1] \in NodesOf(s)
      BY <1>0, <1>1
    <3> QED
      BY <1>0, <1>6, <3>1
  <2>3. ~Unlinkable(l, n)
    BY <2>1, <2>2 DEF Unlinkable
  <2> QED
    BY <2>3 DEF TDoublyListUnlink
<1> QED
  BY <1>5, <1>6

LEMMA SinglyTakesOut ==
    ASSUME NEW l, NEW cl, NEW s, NEW f, NEW hp, NEW hd, NEW ls,
           Fits(l, cl, s, f, hp, hd, ls), cl \notin DoublyClasses,
           NEW k \in 1 .. Len(s), NEW only,
           Len(s) = 1 => only = [l EXCEPT !.pHeadNode = NULL, !.pTailNode = NULL]
    PROVE  TakenOut(l, Without(l, s[k], only), cl, s, k)
<1>0. /\ l \in ListRecord /\ Len(s) \in Nat /\ Len(s) # 0 /\ l.NodeLinkCount = Len(s)
      /\ l.pHeadNode = s[1] /\ l.pTailNode = s[Len(s)] /\ Linked(l) = s
  BY InOrder
<1>1. /\ \A i \in 1 .. Len(s) : s[i] \in Node /\ s[i] # NULL /\ s[i] \in NodesOf(s)
      /\ \A i, j \in 1 .. Len(s) : s[i] = s[j] => i = j
  BY InOrder
<1>2. \A i \in 1 .. Len(s) : l.pNext[s[i]] = IF i = Len(s) THEN NULL ELSE s[i + 1]
  BY InOrder
<1>4. /\ l.pNext \in [Node -> Spot] /\ l.pPrev \in [Node -> Spot] /\ Node \subseteq Spot
      /\ l.pHeadNode \in Spot /\ l.pTailNode \in Spot /\ NULL \in Spot
  BY <1>0, Members
<1>n. PICK n \in Node : n = s[k] /\ n # NULL
  BY <1>1
<1>c. PICK count \in Nat : count = l.NodeLinkCount - 1 /\ l.NodeLinkCount > 0
  BY <1>0
<1>5. (CHOOSE i \in 1 .. Len(s) : s[i] = n) = k
  <2>1. \A i \in 1 .. Len(s) : s[i] = n <=> i = k
    BY <1>1, <1>n
  <2> QED
    BY <2>1
<1> DEFINE m == Without(l, n, only)
           prev == s[k - 1]
           next == l.pNext[n]
           out == IF k > 1
                  THEN IF n = l.pTailNode
                       THEN [l EXCEPT !.pTailNode = prev, !.pNext[prev] = NULL]
                       ELSE [l EXCEPT !.pNext[prev] = l.pNext[n]]
                  ELSE IF l.pHeadNode = l.pTailNode
                       THEN only
                       ELSE [l EXCEPT !.pHeadNode = l.pNext[@]]
<1>6. m = [out EXCEPT !.pNext[n] = NULL,
                      !.NodeLinkCount = IF @ > 0 THEN @ - 1 ELSE @]
  <2> DEFINE at == CHOOSE i \in 1 .. Len(Linked(l)) : Linked(l)[i] = n
             outAt == IF at > 1
                  THEN IF n = l.pTailNode
                       THEN [l EXCEPT !.pTailNode = Linked(l)[at - 1], !.pNext[Linked(l)[at - 1]] = NULL]
                       ELSE [l EXCEPT !.pNext[Linked(l)[at - 1]] = l.pNext[n]]
                  ELSE IF l.pHeadNode = l.pTailNode
                       THEN only
                       ELSE [l EXCEPT !.pHeadNode = l.pNext[@]]
  <2>1. m = [outAt EXCEPT !.pNext[n] = NULL,
                      !.NodeLinkCount = IF @ > 0 THEN @ - 1 ELSE @]
    BY DEF Without
  <2>2. at = k
    BY <1>0, <1>5
  <2> HIDE DEF at
  <2>3. outAt = out
    BY <1>0, <2>2
  <2> HIDE DEF outAt, out, m
  <2> QED
    BY <2>1, <2>3, Zenon
<1>7. /\ k # 1 => prev \in Node /\ prev # n /\ prev # NULL
      /\ k = 1 => l.pHeadNode = n
      /\ k # Len(s) => next = s[k + 1] /\ next \in Node /\ next # NULL
      /\ k = Len(s) => next = NULL
      /\ n = l.pTailNode <=> k = Len(s)
      /\ l.pHeadNode = l.pTailNode <=> Len(s) = 1
      /\ k > 1 <=> k # 1
  <2>1. k # 1 => k - 1 \in 1 .. Len(s) /\ k - 1 # k
    BY <1>0
  <2>2. k # Len(s) => k + 1 \in 1 .. Len(s) /\ k + 1 # k
    BY <1>0
  <2>3. 1 \in 1 .. Len(s) /\ Len(s) \in 1 .. Len(s) /\ (k > 1 <=> k # 1)
    BY <1>0
  <2>4. k # 1 => prev \in Node /\ prev # n /\ prev # NULL
    BY <1>1, <1>n, <2>1
  <2>5. k = 1 => l.pHeadNode = n
    BY <1>0, <1>n
  <2>6. /\ k # Len(s) => next = s[k + 1] /\ next \in Node /\ next # NULL
        /\ k = Len(s) => next = NULL
    BY <1>1, <1>2, <1>n, <2>2
  <2>7. n = l.pTailNode <=> k = Len(s)
    BY <1>0, <1>1, <1>n, <2>3
  <2>8. l.pHeadNode = l.pTailNode <=> Len(s) = 1
    BY <1>0, <1>1, <2>3
  <2> QED
    BY <2>3, <2>4, <2>5, <2>6, <2>7, <2>8
<1>8. PICK head \in Spot, tail \in Spot, ny \in [Node -> Spot] :
        /\ head = IF k = 1 THEN next ELSE l.pHeadNode
        /\ tail = IF k = Len(s) THEN IF k = 1 THEN NULL ELSE prev ELSE l.pTailNode
        /\ ny = IF k = 1 THEN l.pNext ELSE [l.pNext EXCEPT ![prev] = next]
  <2>1. next \in Spot /\ (k # 1 => prev \in Spot)
    BY <1>4, <1>7
  <2>2. [l.pNext EXCEPT ![prev] = next] \in [Node -> Spot]
    BY <1>4, <2>1
  <2> QED
    BY <1>4, <2>1, <2>2
<1>9. out = [l EXCEPT !.pHeadNode = head, !.pTailNode = tail, !.pNext = ny]
  <2>1. CASE k # 1 /\ k = Len(s)
    <3>1. out = [l EXCEPT !.pTailNode = tail, !.pNext = ny]
      BY <1>7, <1>8, <2>1
    <3> QED
      BY <1>0, <1>8, <2>1, <3>1 DEF ListRecord
  <2>2. CASE k # 1 /\ k # Len(s)
    <3>1. out = [l EXCEPT !.pNext = ny]
      BY <1>7, <1>8, <2>2
    <3> QED
      BY <1>0, <1>8, <2>2, <3>1 DEF ListRecord
  <2>3. CASE k = 1 /\ k # Len(s)
    <3>1. out = [l EXCEPT !.pHeadNode = head]
      BY <1>7, <1>8, <2>3
    <3> QED
      BY <1>0, <1>8, <2>3, <3>1 DEF ListRecord
  <2>4. CASE k = 1 /\ k = Len(s)
    <3>1. out = [l EXCEPT !.pHeadNode = head, !.pTailNode = tail]
      BY <1>7, <1>8, <2>4
    <3> QED
      BY <1>0, <1>8, <2>4, <3>1 DEF ListRecord
  <2> QED
    BY <2>1, <2>2, <2>3, <2>4
<1>10. PICK nx \in [Node -> Spot] : nx = [ny EXCEPT ![n] = NULL]
  BY <1>4, <1>8
<1> HIDE DEF out
<1>11. m = Relinked(l, head, tail, count, nx, l.pPrev)
  <2>1. out \in ListRecord /\ out.pNext = ny /\ out.NodeLinkCount = l.NodeLinkCount
    BY <1>0, <1>9 DEF ListRecord
  <2> HIDE DEF m
  <2>2. m = [out EXCEPT !.pNext = nx, !.NodeLinkCount = count]
    BY <1>c, <1>6, <1>10, <2>1 DEF ListRecord
  <2> QED
    BY <1>0, <1>9, <2>2 DEF Relinked, ListRecord
<1> HIDE DEF m
<1>12. Takes(l, cl, s, k, head, tail, nx, l.pPrev)
  <2>1. head = IF k = 1 THEN l.pNext[s[1]] ELSE l.pHeadNode
    BY <1>n, <1>8
  <2>2. tail = IF k = Len(s) THEN IF k = 1 THEN NULL ELSE s[k - 1] ELSE l.pTailNode
    BY <1>8
  <2>3. /\ nx[n] = NULL
        /\ \A x \in Node \ {n} :
             nx[x] = IF k # 1 /\ x = s[k - 1] THEN l.pNext[n] ELSE l.pNext[x]
    BY <1>4, <1>7, <1>8, <1>10
  <2> QED
    BY <1>n, <2>1, <2>2, <2>3 DEF Takes
<1> QED
  BY <1>0, <1>4, <1>n, <1>c, <1>11, <1>12, RelinkedTakes DEF m

LEMMA SinglyUnlinks ==
    ASSUME NEW l, NEW cl, NEW s, NEW f, NEW hp, NEW hd, NEW ls,
           Fits(l, cl, s, f, hp, hd, ls), cl \notin DoublyClasses
    PROVE  /\ \A k \in 1 .. Len(s) :
                /\ TakenOut(l, SinglyListUnlink(l, s[k]), cl, s, k)
                /\ TakenOut(l, TMPSinglyListUnlink(l, s[k]), cl, s, k)
           /\ \A n \in hp \ NodesOf(s) :
                SinglyListUnlink(l, n) = l /\ TMPSinglyListUnlink(l, n) = l
<1>1. /\ l \in ListRecord /\ Linked(l) = s /\ Len(s) \in Nat
      /\ l.pHeadNode = IF Len(s) = 0 THEN NULL ELSE s[1]
      /\ \A i \in 1 .. Len(s) : s[i] \in Node /\ s[i] # NULL /\ s[i] \in NodesOf(s)
      /\ \A i \in 1 .. Len(s) : l.pNext[s[i]] = IF i = Len(s) THEN NULL ELSE s[i + 1]
  BY InOrder
<1>2. ASSUME NEW k \in 1 .. Len(s)
      PROVE  /\ TakenOut(l, SinglyListUnlink(l, s[k]), cl, s, k)
             /\ TakenOut(l, TMPSinglyListUnlink(l, s[k]), cl, s, k)
  <2> DEFINE none == [l EXCEPT !.pHeadNode = NULL, !.pTailNode = NULL]
             after == l.pNext[l.pHeadNode]
             rest == [l EXCEPT !.pHeadNode = after, !.pTailNode = after]
  <2>1. /\ SinglyListUnlink(l, s[k]) = Without(l, s[k], none)
        /\ TMPSinglyListUnlink(l, s[k]) = Without(l, s[k], rest)
    BY <1>1 DEF SinglyListUnlink, TMPSinglyListUnlink
  <2>2. Len(s) = 1 => after = NULL
    BY <1>1
  <2>3. Len(s) = 1 => rest = none
    BY <2>2
  <2>4. TakenOut(l, Without(l, s[k], none), cl, s, k)
    BY SinglyTakesOut
  <2>5. TakenOut(l, Without(l, s[k], rest), cl, s, k)
    <3> HIDE DEF rest
    <3> QED
      BY <2>3, SinglyTakesOut
  <2> QED
    BY <2>1, <2>4, <2>5
<1>3. ASSUME NEW n \in hp \ NodesOf(s)
      PROVE  SinglyListUnlink(l, n) = l /\ TMPSinglyListUnlink(l, n) = l
  BY <1>1 DEF SinglyListUnlink, TMPSinglyListUnlink
<1> QED
  BY <1>2, <1>3

\* The node that GetNode takes.
NextNode(l, hp, n) ==
  n \in IF l.FreeListCount > 0 THEN {l.pFreeList}
        ELSE IF l.BufferListCount > 0 THEN {l.pBufferList} ELSE Node \ hp

\* What GetNode makes of the list, but for n's number and pPrev.
GotWith(l, n, number, prev) ==
  [TMPAdvance(l) EXCEPT !.NodeNumber[n] = number, !.pPrev = prev,
                        !.pNext[n] = NULL, !.NodeUseCount = @ + 1]

LEMMA NodeTaken ==
    ASSUME NEW l, NEW cl, NEW s, NEW f, NEW hp, NEW hd, NEW ls,
           Fits(l, cl, s, f, hp, hd, ls), NEW n, NextNode(l, hp, n)
    PROVE  n \in Node /\ NodeFor(l, n) = n /\ NodeFor(l, TMPNew(l, n)) = n
<1>1. /\ l \in ListRecord /\ f \in Seq(Node) /\ Len(f) \in Nat /\ l.FreeListCount = Len(f)
      /\ Threads(l.pNext, l.pFreeList, f)
      /\ hp \in SUBSET Node /\ Unused(l) \subseteq hp
  BY InOrder DEF Fits, Represents, Elsewhere
<1>2. l.BufferListCount \in Nat /\ l.pBufferList \in Nat
  BY <1>1, Members
<1>3. CASE l.FreeListCount > 0
  <2>1. n = l.pFreeList /\ Len(f) # 0
    BY <1>1, <1>3 DEF NextNode
  <2>2. n \in Node
    BY <1>1, <2>1, FirstNode
  <2> QED
    BY <1>3, <2>1, <2>2 DEF NodeFor
<1>4. CASE ~(l.FreeListCount > 0) /\ l.BufferListCount > 0
  <2>1. n = l.pBufferList
    BY <1>4 DEF NextNode
  <2>2. n \in Unused(l)
    BY <1>2, <1>4, <2>1 DEF Unused
  <2> QED
    BY <1>1, <1>4, <2>1, <2>2 DEF NodeFor, TMPNew
<1>5. CASE ~(l.FreeListCount > 0) /\ ~(l.BufferListCount > 0)
  BY <1>5 DEF NextNode, NodeFor, TMPNew
<1> QED
  BY <1>3, <1>4, <1>5

\* What GetNode does before it touches the node's members.
Advanced(l, a, hp, n) ==
  /\ a \in ListRecord /\ SameLinks(l, a) /\ a.NodeUseCount = l.NodeUseCount
  /\ a.pNext = l.pNext /\ a.pPrev = l.pPrev /\ a.NodeNumber = l.NodeNumber
  /\ \/ /\ l.FreeListCount # 0 /\ SameBlock(l, a)
        /\ n = l.pFreeList /\ a.pFreeList = l.pNext[n]
        /\ a.FreeListCount = l.FreeListCount - 1
     \/ /\ l.FreeListCount = 0 /\ SameFree(l, a)
        /\ l.BufferListCount # 0 /\ n = l.pBufferList
        /\ a.pBufferList = l.pBufferList + 1
        /\ a.BufferListCount = l.BufferListCount - 1
     \/ /\ l.FreeListCount = 0 /\ SameFree(l, a)
        /\ l.BufferListCount = 0 /\ n \notin hp /\ SameBlock(l, a)

LEMMA Advances ==
    ASSUME NEW l \in ListRecord, NEW hp, NEW n \in Node, NextNode(l, hp, n)
    PROVE  Advanced(l, TMPAdvance(l), hp, n)
<1>2. /\ l.pNext \in [Node -> Spot]
      /\ l.FreeListCount \in Nat /\ l.BufferListCount \in Nat /\ l.pBufferList \in Nat
  BY Members
<1> DEFINE a == TMPAdvance(l)
<1>3. CASE l.FreeListCount > 0
  <2>1. n = l.pFreeList
    BY <1>3 DEF NextNode
  <2>2. PICK free \in Spot, freeCount \in Nat :
          free = l.pNext[n] /\ freeCount = l.FreeListCount - 1
    BY <1>2, <1>3
  <2>3. a = [l EXCEPT !.pFreeList = free, !.FreeListCount = freeCount]
    BY <1>2, <1>3, <2>1, <2>2 DEF TMPAdvance, PopFree
  <2> HIDE DEF a
  <2>4. a \in ListRecord
    BY <2>3 DEF ListRecord
  <2>5. /\ SameLinks(l, a) /\ a.NodeUseCount = l.NodeUseCount /\ SameBlock(l, a)
        /\ a.pNext = l.pNext /\ a.pPrev = l.pPrev /\ a.NodeNumber = l.NodeNumber
        /\ a.pFreeList = free /\ a.FreeListCount = freeCount
    BY <2>3 DEF ListRecord, SameLinks, SameBlock
  <2>6. l.FreeListCount # 0
    BY <1>2, <1>3
  <2> QED
    BY <2>1, <2>2, <2>4, <2>5, <2>6 DEF Advanced, a
<1>4. CASE l.FreeListCount = 0 /\ l.BufferListCount > 0
  <2>1. n = l.pBufferList
    BY <1>4 DEF NextNode
  <2>2. PICK buffer \in Nat, bufferCount \in Nat :
          buffer = l.pBufferList + 1 /\ bufferCount = l.BufferListCount - 1
    BY <1>2, <1>4
  <2>3. a = [l EXCEPT !.pBufferList = buffer, !.BufferListCount = bufferCount]
    BY <1>2, <1>4, <2>1, <2>2 DEF TMPAdvance
  <2> HIDE DEF a
  <2>4. a \in ListRecord
    BY <2>3 DEF ListRecord
  <2>5. /\ SameLinks(l, a) /\ a.NodeUseCount = l.NodeUseCount /\ SameFree(l, a)
        /\ a.pNext = l.pNext /\ a.pPrev = l.pPrev /\ a.NodeNumber = l.NodeNumber
        /\ a.pBufferList = buffer /\ a.BufferListCount = bufferCount
    BY <2>3 DEF ListRecord, SameLinks, SameFree
  <2>6. l.BufferListCount # 0
    BY <1>2, <1>4
  <2> QED
    BY <1>4, <2>1, <2>2, <2>4, <2>5, <2>6 DEF Advanced, a
<1>5. CASE l.FreeListCount = 0 /\ l.BufferListCount = 0
  <2>1. n \notin hp
    BY <1>5 DEF NextNode
  <2>2. a = l
    BY <1>5 DEF TMPAdvance, PopFree
  <2> QED
    BY <1>5, <2>1, <2>2 DEF Advanced, SameLinks, SameFree, SameBlock
<1> QED
  BY <1>2, <1>3, <1>4, <1>5

LEMMA Gives ==
    ASSUME NEW l, NEW cl, NEW s, NEW f, NEW hp, NEW hd, NEW ls,
           Fits(l, cl, s, f, hp, hd, ls), NEW n, NextNode(l, hp, n),
           NEW number \in NodeNumbers, NEW prev \in [Node -> Spot],
           \A x \in Node \ {n} : prev[x] = l.pPrev[x],
           cl \in DoublyClasses => prev[n] = NULL
    PROVE  Got(l, GotWith(l, n, number, prev), cl, hp, n)
<1>1. l \in ListRecord /\ n \in Node
  BY InOrder, NodeTaken
<1>2. /\ l.pNext \in [Node -> Spot] /\ l.NodeNumber \in [Node -> NodeNumbers]
      /\ l.NodeUseCount \in Nat /\ NULL \in Spot
  BY <1>1, Members
<1> DEFINE a == TMPAdvance(l)
           m == GotWith(l, n, number, prev)
<1>3. Advanced(l, a, hp, n)
  BY <1>1, Advances
<1>4. m = [a EXCEPT !.NodeNumber[n] = number, !.pPrev = prev,
                    !.pNext[n] = NULL, !.NodeUseCount = @ + 1]
  BY DEF GotWith
<1> HIDE DEF a, m
<1>5. /\ [l.pNext EXCEPT ![n] = NULL] \in [Node -> Spot]
      /\ [l.NodeNumber EXCEPT ![n] = number] \in [Node -> NodeNumbers]
      /\ l.NodeUseCount + 1 \in Nat
  BY <1>1, <1>2
<1>6. PICK next \in [Node -> Spot] : next = [l.pNext EXCEPT ![n] = NULL]
  BY <1>5
<1>7. PICK num \in [Node -> NodeNumbers] : num = [l.NodeNumber EXCEPT ![n] = number]
  BY <1>5
<1>8. PICK use \in Nat : use = l.NodeUseCount + 1
  BY <1>5
<1>9. a \in ListRecord /\ a.pNext = l.pNext /\ a.NodeNumber = l.NodeNumber
      /\ a.NodeUseCount = l.NodeUseCount
  BY <1>3 DEF Advanced
<1>10. m = [a EXCEPT !.NodeNumber = num, !.pPrev = prev, !.pNext = next, !.NodeUseCount = use]
  BY <1>4, <1>6, <1>7, <1>8, <1>9 DEF ListRecord
<1>11. m \in ListRecord
  BY <1>9, <1>10 DEF ListRecord
<1>12. /\ SameLinks(a, m) /\ SameFree(a, m) /\ SameBlock(a, m)
       /\ m.NodeNumber = num /\ m.pPrev = prev /\ m.pNext = next /\ m.NodeUseCount = use
  BY <1>9, <1>10 DEF ListRecord, SameLinks, SameFree, SameBlock
<1>13. next[n] = NULL /\ \A x \in Node \ {n} : next[x] = l.pNext[x]
  BY <1>1, <1>2, <1>6
<1>14. OneNumber(l, m, n)
  BY <1>7, <1>12 DEF OneNumber
<1>15. m.pNext[n] = NULL /\ OnlyAt(l, m, cl, n)
  BY <1>12, <1>13 DEF OnlyAt
<1>16. SameLinks(l, m)
  BY <1>3, <1>12 DEF SameLinks, Advanced
<1>17. m.NodeUseCount = l.NodeUseCount + 1
  BY <1>8, <1>12
<1>18. /\ SameFree(l, a) => SameFree(l, m)
       /\ SameBlock(l, a) => SameBlock(l, m)
       /\ m.pFreeList = a.pFreeList /\ m.FreeListCount = a.FreeListCount
       /\ m.pBufferList = a.pBufferList /\ m.BufferListCount = a.BufferListCount
  BY <1>12 DEF SameFree, SameBlock
<1> QED
  BY <1>1, <1>3, <1>11, <1>14, <1>15, <1>16, <1>17, <1>18 DEF Advanced, Got, m

\* What GetNode does of it in each class.
GotForms(l, n, a) ==
  /\ a \in ListRecord /\ a.pPrev = l.pPrev /\ a.NodeNumber = l.NodeNumber
  /\ GotWith(l, n, 0, l.pPrev)
       = [a EXCEPT !.NodeNumber[n] = 0, !.pNext[n] = NULL, !.NodeUseCount = @ + 1]
  /\ GotWith(l, n, l.NodeNumber[n], l.pPrev)
       = [a EXCEPT !.pNext[n] = NULL, !.NodeUseCount = @ + 1]
  /\ GotWith(l, n, l.NodeNumber[n], [l.pPrev EXCEPT ![n] = NULL])
       = [a EXCEPT !.pPrev[n] = NULL, !.pNext[n] = NULL, !.NodeUseCount = @ + 1]
  /\ GotWith(l, n, 0, [l.pPrev EXCEPT ![n] = NULL])
       = [a EXCEPT !.NodeNumber[n] = 0, !.pPrev[n] = NULL,
                   !.pNext[n] = NULL, !.NodeUseCount = @ + 1]

LEMMA GotWithIs ==
    ASSUME NEW l \in ListRecord, NEW n \in Node, NEW hp, NextNode(l, hp, n),
           NEW a, a = TMPAdvance(l)
    PROVE  GotForms(l, n, a)
<1>1. a \in ListRecord /\ a.pPrev = l.pPrev /\ a.NodeNumber = l.NodeNumber
  <2>1. Advanced(l, TMPAdvance(l), hp, n)
    BY Advances
  <2> QED
    BY <2>1 DEF Advanced
<1>2. /\ l.NodeNumber \in [Node -> NodeNumbers] /\ l.pPrev \in [Node -> Spot]
  BY Members
<1>3. l.NodeNumber = [l.NodeNumber EXCEPT ![n] = l.NodeNumber[n]]
  BY <1>2
<1>4. PICK num, next, prev : /\ num = [a.NodeNumber EXCEPT ![n] = 0]
                             /\ next = [a.pNext EXCEPT ![n] = NULL]
                             /\ prev = [a.pPrev EXCEPT ![n] = NULL]
  OBVIOUS
<1>6. GotWith(l, n, 0, l.pPrev)
        = [a EXCEPT !.NodeNumber[n] = 0, !.pNext[n] = NULL, !.NodeUseCount = @ + 1]
  <2>1. GotWith(l, n, 0, l.pPrev)
          = [a EXCEPT !.NodeNumber = num, !.pPrev = a.pPrev, !.pNext = next, !.NodeUseCount = @ + 1]
    BY <1>1, <1>4 DEF GotWith, ListRecord
  <2>2. @ = [a EXCEPT !.NodeNumber = num, !.pNext = next, !.NodeUseCount = @ + 1]
    BY <1>1 DEF ListRecord
  <2>3. [a EXCEPT !.NodeNumber[n] = 0, !.pNext[n] = NULL, !.NodeUseCount = @ + 1]
          = [a EXCEPT !.NodeNumber = num, !.pNext = next, !.NodeUseCount = @ + 1]
    BY <1>1, <1>4 DEF ListRecord
  <2> QED
    BY <2>1, <2>2, <2>3, Zenon
<1>7. GotWith(l, n, l.NodeNumber[n], l.pPrev)
        = [a EXCEPT !.pNext[n] = NULL, !.NodeUseCount = @ + 1]
  <2>1. GotWith(l, n, l.NodeNumber[n], l.pPrev)
          = [a EXCEPT !.NodeNumber = a.NodeNumber, !.pPrev = a.pPrev, !.pNext = next,
                      !.NodeUseCount = @ + 1]
    BY <1>1, <1>3, <1>4 DEF GotWith, ListRecord
  <2>2. @ = [a EXCEPT !.pNext = next, !.NodeUseCount = @ + 1]
    BY <1>1 DEF ListRecord
  <2>3. [a EXCEPT !.pNext[n] = NULL, !.NodeUseCount = @ + 1]
          = [a EXCEPT !.pNext = next, !.NodeUseCount = @ + 1]
    BY <1>1, <1>4 DEF ListRecord
  <2> QED
    BY <2>1, <2>2, <2>3, Zenon
<1>8. GotWith(l, n, l.NodeNumber[n], [l.pPrev EXCEPT ![n] = NULL])
        = [a EXCEPT !.pPrev[n] = NULL, !.pNext[n] = NULL, !.NodeUseCount = @ + 1]
  <2>1. GotWith(l, n, l.NodeNumber[n], [l.pPrev EXCEPT ![n] = NULL])
          = [a EXCEPT !.NodeNumber = a.NodeNumber, !.pPrev = prev, !.pNext = next,
                      !.NodeUseCount = @ + 1]
    BY <1>1, <1>3, <1>4 DEF GotWith, ListRecord
  <2>2. @ = [a EXCEPT !.pPrev = prev, !.pNext = next, !.NodeUseCount = @ + 1]
    BY <1>1 DEF ListRecord
  <2>3. [a EXCEPT !.pPrev[n] = NULL, !.pNext[n] = NULL, !.NodeUseCount = @ + 1]
          = [a EXCEPT !.pPrev = prev, !.pNext = next, !.NodeUseCount = @ + 1]
    BY <1>1, <1>4 DEF ListRecord
  <2> QED
    BY <2>1, <2>2, <2>3, Zenon
<1>9. GotWith(l, n, 0, [l.pPrev EXCEPT ![n] = NULL])
        = [a EXCEPT !.NodeNumber[n] = 0, !.pPrev[n] = NULL,
                    !.pNext[n] = NULL, !.NodeUseCount = @ + 1]
  <2>1. GotWith(l, n, 0, [l.pPrev EXCEPT ![n] = NULL])
          = [a EXCEPT !.NodeNumber = num, !.pPrev = prev, !.pNext = next, !.NodeUseCount = @ + 1]
    BY <1>1, <1>4 DEF GotWith, ListRecord
  <2>2. [a EXCEPT !.NodeNumber[n] = 0, !.pPrev[n] = NULL,
                  !.pNext[n] = NULL, !.NodeUseCount = @ + 1]
          = [a EXCEPT !.NodeNumber = num, !.pPrev = prev, !.pNext = next, !.NodeUseCount = @ + 1]
    BY <1>1, <1>4 DEF ListRecord
  <2> QED
    BY <2>1, <2>2, Zenon
<1> QED
  BY <1>1, <1>6, <1>7, <1>8, <1>9 DEF GotForms

LEMMA Cleared ==
    ASSUME NEW l \in ListRecord, NEW n \in Node
    PROVE  /\ 0 \in NodeNumbers /\ l.NodeNumber[n] \in NodeNumbers
           /\ l.pPrev \in [Node -> Spot]
           /\ [l.pPrev EXCEPT ![n] = NULL] \in [Node -> Spot]
           /\ [l.pPrev EXCEPT ![n] = NULL][n] = NULL
           /\ \A x \in Node \ {n} : [l.pPrev EXCEPT ![n] = NULL][x] = l.pPrev[x]
BY Members, NumbersAssumption

\* GetNode of each class.
LEMMA SinglyGets ==
    ASSUME NEW l, NEW cl, NEW s, NEW f, NEW hp, NEW hd, NEW ls,
           Fits(l, cl, s, f, hp, hd, ls), NEW n, NextNode(l, hp, n),
           cl \notin DoublyClasses, l.BufferListCount = 0
    PROVE  Got(l, SinglyListGetNode(l, n), cl, hp, n)
<1>1. l \in ListRecord /\ n \in Node /\ NodeFor(l, n) = n
  BY InOrder, NodeTaken
<1>2. PICK a : a = TMPAdvance(l) /\ GotForms(l, n, a)
  BY <1>1, GotWithIs
<1>3. a = PopFree(l)
  BY <1>2 DEF TMPAdvance
<1>4. GotWith(l, n, 0, l.pPrev)
        = [a EXCEPT !.NodeNumber[n] = 0, !.pNext[n] = NULL, !.NodeUseCount = @ + 1]
  BY <1>1, <1>2 DEF GotForms
<1>5. SinglyListGetNode(l, n) = GotWith(l, n, 0, l.pPrev)
  BY <1>1, <1>3, <1>4 DEF SinglyListGetNode
<1>6. 0 \in NodeNumbers /\ l.pPrev \in [Node -> Spot]
  BY <1>1, Cleared
<1>7. Got(l, GotWith(l, n, 0, l.pPrev), cl, hp, n)
  BY <1>6, Gives
<1> QED
  BY <1>5, <1>7

LEMMA DoublyGets ==
    ASSUME NEW l, NEW cl, NEW s, NEW f, NEW hp, NEW hd, NEW ls,
           Fits(l, cl, s, f, hp, hd, ls), NEW n, NextNode(l, hp, n),
           l.BufferListCount = 0
    PROVE  /\ Got(l, DoublyListGetNode(l, n), cl, hp, n)
           /\ Got(l, TDoublyListGetNode(l, n), cl, hp, n)
<1>1. l \in ListRecord /\ n \in Node /\ NodeFor(l, n) = n
  BY InOrder, NodeTaken
<1>2. PICK a : a = TMPAdvance(l) /\ GotForms(l, n, a)
  BY <1>1, GotWithIs
<1>3. a = PopFree(l)
  BY <1>2 DEF TMPAdvance
<1>4. PICK prev \in [Node -> Spot] : prev = [l.pPrev EXCEPT ![n] = NULL]
  BY <1>1, Cleared
<1>5. /\ prev[n] = NULL /\ 0 \in NodeNumbers
      /\ \A x \in Node \ {n} : prev[x] = l.pPrev[x]
  BY <1>1, <1>4, Cleared
<1>6. GotWith(l, n, 0, prev)
        = [a EXCEPT !.NodeNumber[n] = 0, !.pPrev[n] = NULL,
                    !.pNext[n] = NULL, !.NodeUseCount = @ + 1]
  BY <1>1, <1>2, <1>4 DEF GotForms
<1>7. DoublyListGetNode(l, n) = GotWith(l, n, 0, prev)
  BY <1>1, <1>3, <1>6 DEF DoublyListGetNode
<1>8. a \in ListRecord
  BY <1>1, <1>2 DEF GotForms
<1>9. TDoublyListGetNode(l, n) = GotWith(l, n, 0, prev)
  BY <1>1, <1>3, <1>6, <1>8 DEF TDoublyListGetNode, Zeroed, ListRecord
<1>10. Got(l, GotWith(l, n, 0, prev), cl, hp, n)
  BY <1>5, Gives
<1> QED
  BY <1>7, <1>9, <1>10

LEMMA TMPGets ==
    ASSUME NEW l, NEW cl, NEW s, NEW f, NEW hp, NEW hd, NEW ls,
           Fits(l, cl, s, f, hp, hd, ls), NEW n, NextNode(l, hp, n)
    PROVE  /\ cl \notin DoublyClasses => Got(l, TMPSinglyListGetNode(l, n), cl, hp, n)
           /\ Got(l, TMPDoublyListGetNode(l, n), cl, hp, n)
<1>1. l \in ListRecord /\ n \in Node /\ NodeFor(l, TMPNew(l, n)) = n
  BY InOrder, NodeTaken
<1>2. PICK a : a = TMPAdvance(l) /\ GotForms(l, n, a)
  BY <1>1, GotWithIs
<1>4. PICK prev \in [Node -> Spot] : prev = [l.pPrev EXCEPT ![n] = NULL]
  BY <1>1, Cleared
<1>5. /\ prev[n] = NULL /\ l.NodeNumber[n] \in NodeNumbers
      /\ l.pPrev \in [Node -> Spot]
      /\ \A x \in Node \ {n} : prev[x] = l.pPrev[x]
  BY <1>1, <1>4, Cleared
<1>6. /\ GotWith(l, n, l.NodeNumber[n], l.pPrev)
           = [a EXCEPT !.pNext[n] = NULL, !.NodeUseCount = @ + 1]
      /\ GotWith(l, n, l.NodeNumber[n], prev)
           = [a EXCEPT !.pPrev[n] = NULL, !.pNext[n] = NULL, !.NodeUseCount = @ + 1]
  BY <1>1, <1>2, <1>4 DEF GotForms
<1>7. /\ TMPSinglyListGetNode(l, n) = GotWith(l, n, l.NodeNumber[n], l.pPrev)
      /\ TMPDoublyListGetNode(l, n) = GotWith(l, n, l.NodeNumber[n], prev)
  BY <1>1, <1>2, <1>6 DEF TMPSinglyListGetNode, TMPDoublyListGetNode
<1>8. Got(l, GotWith(l, n, l.NodeNumber[n], prev), cl, hp, n)
  BY <1>5, Gives
<1>9. cl \notin DoublyClasses => Got(l, GotWith(l, n, l.NodeNumber[n], l.pPrev), cl, hp, n)
  BY <1>5, Gives
<1> QED
  BY <1>7, <1>8, <1>9

LEMMA TSinglyGets ==
    ASSUME NEW l, NEW cl, NEW s, NEW f, NEW hp, NEW hd, NEW ls,
           Fits(l, cl, s, f, hp, hd, ls), NEW n, NextNode(l, hp, n),
           cl \notin DoublyClasses, l.BufferListCount = 0
    PROVE  Got(l, TSinglyListGetNode(l, n), cl, hp, n)
<1>1. l \in ListRecord /\ n \in Node /\ NodeFor(l, n) = n
  BY InOrder, NodeTaken
<1>2. PICK a : a = TMPAdvance(l) /\ GotForms(l, n, a)
  BY <1>1, GotWithIs
<1>3. a = PopFree(l)
  BY <1>2 DEF TMPAdvance
<1>4. PICK prev \in [Node -> Spot] : prev = [l.pPrev EXCEPT ![n] = NULL]
  BY <1>1, Cleared
<1>5. /\ prev[n] = NULL /\ 0 \in NodeNumbers /\ l.NodeNumber[n] \in NodeNumbers
      /\ l.pPrev \in [Node -> Spot]
      /\ \A x \in Node \ {n} : prev[x] = l.pPrev[x]
  BY <1>1, <1>4, Cleared
<1>6. CASE l.FreeListCount > 0
  <2>1. TSinglyListGetNode(l, n) = GotWith(l, n, l.NodeNumber[n], l.pPrev)
    <3>1. GotWith(l, n, l.NodeNumber[n], l.pPrev)
            = [a EXCEPT !.pNext[n] = NULL, !.NodeUseCount = @ + 1]
      BY <1>1, <1>2 DEF GotForms
    <3> QED
      BY <1>1, <1>3, <1>6, <3>1 DEF TSinglyListGetNode
  <2>2. Got(l, GotWith(l, n, l.NodeNumber[n], l.pPrev), cl, hp, n)
    BY <1>5, Gives
  <2> QED
    BY <2>1, <2>2
<1>7. CASE ~(l.FreeListCount > 0)
  <2>1. a = l
    BY <1>3, <1>7 DEF PopFree
  <2>2. GotWith(l, n, 0, prev)
          = [a EXCEPT !.NodeNumber[n] = 0, !.pPrev[n] = NULL,
                      !.pNext[n] = NULL, !.NodeUseCount = @ + 1]
    BY <1>1, <1>2, <1>4 DEF GotForms
  <2>3. TSinglyListGetNode(l, n) = GotWith(l, n, 0, prev)
    <3>1. PICK next : next = [l.pNext EXCEPT ![n] = NULL]
      OBVIOUS
    <3>2. next = [next EXCEPT ![n] = NULL]
      BY <1>1, <3>1, Members
    <3>3. PICK z : z = [l EXCEPT !.NodeNumber[n] = 0, !.pPrev[n] = NULL, !.pNext = next]
      OBVIOUS
    <3>4. z.pNext = next
      BY <1>1, <3>3 DEF ListRecord
    <3>5. Zeroed(l, n) = z
      BY <3>1, <3>3 DEF Zeroed
    <3>6. TSinglyListGetNode(l, n) = [z EXCEPT !.pNext[n] = NULL, !.NodeUseCount = @ + 1]
      BY <1>1, <1>7, <3>5 DEF TSinglyListGetNode
    <3>7. @ = [z EXCEPT !.pNext = next, !.NodeUseCount = @ + 1]
      BY <3>2, <3>4
    <3>8. @ = [l EXCEPT !.NodeNumber[n] = 0, !.pPrev[n] = NULL, !.pNext = next,
                        !.NodeUseCount = @ + 1]
      <4>1. PICK num : num = [l.NodeNumber EXCEPT ![n] = 0]
        OBVIOUS
      <4>2. z = [l EXCEPT !.NodeNumber = num, !.pPrev = prev, !.pNext = next]
        BY <1>4, <3>3, <4>1
      <4>3. [z EXCEPT !.pNext = next, !.NodeUseCount = @ + 1]
              = [l EXCEPT !.NodeNumber = num, !.pPrev = prev, !.pNext = next,
                          !.NodeUseCount = @ + 1]
        BY <1>1, <4>2 DEF ListRecord
      <4> QED
        BY <1>4, <4>1, <4>3
    <3> QED
      BY <1>1, <2>1, <2>2, <3>1, <3>6, <3>7, <3>8
  <2>4. Got(l, GotWith(l, n, 0, prev), cl, hp, n)
    BY <1>5, Gives
  <2> QED
    BY <2>3, <2>4
<1> QED
  BY <1>6, <1>7

\* FreeNode: a list whose free list begins with n.
FreedWith(l, n, num, prev, next) ==
  [l EXCEPT !.NodeNumber = num, !.pPrev = prev, !.pNext = next, !.pFreeList = n,
            !.FreeListCount = @ + 1, !.NodeUseCount = @ - 1]

LEMMA Frees ==
    ASSUME NEW l, NEW cl, NEW s, NEW f, NEW hp, NEW hd, NEW ls,
           Fits(l, cl, s, f, hp, hd, ls), NEW n \in hd,
           NEW num, num = [l.NodeNumber EXCEPT ![n] = 0],
           NEW next, next = [l.pNext EXCEPT ![n] = l.pFreeList],
           NEW prev \in [Node -> Spot],
           \A x \in Node \ {n} : prev[x] = l.pPrev[x],
           cl \in DoublyClasses => prev[n] = NULL
    PROVE  Freed(l, FreedWith(l, n, num, prev, next), cl, n)
<1>1. l \in ListRecord /\ n \in Node /\ l.NodeUseCount # 0
  BY InOrder, InHand
<1>2. /\ l.pNext \in [Node -> Spot] /\ l.NodeNumber \in [Node -> NodeNumbers]
      /\ l.NodeUseCount \in Nat /\ l.FreeListCount \in Nat /\ l.pFreeList \in Spot
      /\ 0 \in NodeNumbers /\ n \in Spot
  BY <1>1, Members, NumbersAssumption DEF Spot
<1>3. num \in [Node -> NodeNumbers] /\ next \in [Node -> Spot]
  BY <1>1, <1>2
<1>4. PICK use \in Nat, count \in Nat : use = l.NodeUseCount - 1 /\ count = l.FreeListCount + 1
  BY <1>1, <1>2
<1> DEFINE m == FreedWith(l, n, num, prev, next)
<1>5. m = [l EXCEPT !.NodeNumber = num, !.pPrev = prev, !.pNext = next, !.pFreeList = n,
                    !.FreeListCount = count, !.NodeUseCount = use]
  BY <1>1, <1>4 DEF FreedWith, ListRecord
<1> HIDE DEF m
<1>6. m \in ListRecord
  BY <1>1, <1>2, <1>3, <1>5 DEF ListRecord
<1>7. /\ SameLinks(l, m) /\ SameBlock(l, m)
      /\ m.NodeNumber = num /\ m.pPrev = prev /\ m.pNext = next
      /\ m.pFreeList = n /\ m.FreeListCount = count /\ m.NodeUseCount = use
  BY <1>1, <1>5 DEF ListRecord, SameLinks, SameBlock
<1>8. next[n] = l.pFreeList /\ \A x \in Node \ {n} : next[x] = l.pNext[x]
  BY <1>1, <1>2
<1>9. OneNumber(l, m, n)
  BY <1>2, <1>7 DEF OneNumber
<1>10. OnlyAt(l, m, cl, n)
  BY <1>7, <1>8 DEF OnlyAt
<1> QED
  BY <1>4, <1>6, <1>7, <1>8, <1>9, <1>10 DEF Freed, m

\* What a node's pNext becomes when FreeNode has cleared it or left it clear.
LEMMA FreesNext ==
    ASSUME NEW l, NEW cl, NEW s, NEW f, NEW hp, NEW hd, NEW ls,
           Fits(l, cl, s, f, hp, hd, ls), NEW n \in hd
    PROVE  /\ l \in ListRecord /\ n \in Node /\ n # NULL /\ l.NodeUseCount # 0
           /\ l.pNext = [l.pNext EXCEPT ![n] = NULL]
           /\ l.pNext \in [Node -> Spot]
           /\ ~(l.FreeListCount > 0) => l.pFreeList = NULL
<1>1. /\ l \in ListRecord /\ n \in Node /\ n # NULL /\ l.NodeUseCount # 0 /\ l.pNext[n] = NULL
      /\ Len(f) \in Nat /\ l.FreeListCount = Len(f)
  BY InOrder, InHand
<1>2. Threads(l.pNext, l.pFreeList, f)
  BY DEF Fits, Represents
<1>3. ~(l.FreeListCount > 0) => l.pFreeList = NULL
  BY <1>1, <1>2 DEF Threads
<1>4. l.pNext \in [Node -> Spot]
  BY <1>1, Members
<1> QED
  BY <1>1, <1>3, <1>4

LEMMA SinglyFrees ==
    ASSUME NEW l, NEW cl, NEW s, NEW f, NEW hp, NEW hd, NEW ls,
           Fits(l, cl, s, f, hp, hd, ls), NEW n \in hd, cl \notin DoublyClasses
    PROVE  Freed(l, SinglyListFreeNode(l, n), cl, n)
<1>1. /\ l \in ListRecord /\ n \in Node /\ n # NULL /\ l.NodeUseCount # 0
      /\ l.pNext = [l.pNext EXCEPT ![n] = NULL] /\ l.pNext \in [Node -> Spot]
      /\ ~(l.FreeListCount > 0) => l.pFreeList = NULL
  BY FreesNext
<1>2. PICK num, next : /\ num = [l.NodeNumber EXCEPT ![n] = 0]
                       /\ next = [l.pNext EXCEPT ![n] = l.pFreeList]
  OBVIOUS
<1>3. SinglyListFreeNode(l, n) = PushFree([l EXCEPT !.NodeNumber = num], n)
  BY <1>1, <1>2 DEF SinglyListFreeNode
<1>4. PICK z : z = [l EXCEPT !.NodeNumber = num]
  OBVIOUS
<1>5. /\ z.pNext = l.pNext /\ z.pFreeList = l.pFreeList /\ z.FreeListCount = l.FreeListCount
      /\ z.NodeUseCount = l.NodeUseCount
  BY <1>1, <1>4 DEF ListRecord
<1>6. PushFree(z, n) = [z EXCEPT !.pNext = next, !.pFreeList = n, !.FreeListCount = @ + 1,
                                 !.NodeUseCount = @ - 1]
  <2>1. next = [z.pNext EXCEPT ![n] = IF z.FreeListCount > 0 THEN z.pFreeList ELSE z.pNext[n]]
    BY <1>1, <1>2, <1>5
  <2> QED
    BY <2>1 DEF PushFree
<1>7. @ = FreedWith(l, n, num, l.pPrev, next)
  BY <1>1, <1>4, <1>5 DEF FreedWith, ListRecord
<1>8. Freed(l, FreedWith(l, n, num, l.pPrev, next), cl, n)
  BY <1>1, <1>2, Frees, Members
<1> QED
  BY <1>3, <1>4, <1>6, <1>7, <1>8

LEMMA ZeroedFrees ==
    ASSUME NEW l, NEW cl, NEW s, NEW f, NEW hp, NEW hd, NEW ls,
           Fits(l, cl, s, f, hp, hd, ls), NEW n \in hd
    PROVE  /\ Freed(l, TSinglyListFreeNode(l, n), cl, n)
           /\ Freed(l, TDoublyListFreeNode(l, n), cl, n)
<1>1. /\ l \in ListRecord /\ n \in Node /\ n # NULL /\ l.NodeUseCount # 0
      /\ l.pNext = [l.pNext EXCEPT ![n] = NULL] /\ l.pNext \in [Node -> Spot]
      /\ ~(l.FreeListCount > 0) => l.pFreeList = NULL
  BY FreesNext
<1>2. PICK num, next : /\ num = [l.NodeNumber EXCEPT ![n] = 0]
                       /\ next = [l.pNext EXCEPT ![n] = l.pFreeList]
  OBVIOUS
<1>3. PICK prev \in [Node -> Spot] : prev = [l.pPrev EXCEPT ![n] = NULL]
  BY <1>1, Cleared
<1>4. prev[n] = NULL /\ \A x \in Node \ {n} : prev[x] = l.pPrev[x]
  BY <1>1, <1>3, Cleared
<1>5. PICK z : z = [l EXCEPT !.NodeNumber = num, !.pPrev = prev, !.pNext = l.pNext]
  OBVIOUS
<1>6. Zeroed(l, n) = z
  BY <1>1, <1>2, <1>3, <1>5 DEF Zeroed, ListRecord
<1>7. /\ TSinglyListFreeNode(l, n) = PushFree(z, n)
      /\ TDoublyListFreeNode(l, n) = PushFree(z, n)
  BY <1>1, <1>6 DEF TSinglyListFreeNode, TDoublyListFreeNode
<1>8. /\ z.pNext = l.pNext /\ z.pFreeList = l.pFreeList /\ z.FreeListCount = l.FreeListCount
      /\ z.NodeUseCount = l.NodeUseCount
  BY <1>1, <1>5 DEF ListRecord
<1>9. PushFree(z, n) = [z EXCEPT !.pNext = next, !.pFreeList = n, !.FreeListCount = @ + 1,
                                 !.NodeUseCount = @ - 1]
  <2>1. next = [z.pNext EXCEPT ![n] = IF z.FreeListCount > 0 THEN z.pFreeList ELSE z.pNext[n]]
    BY <1>1, <1>2, <1>8
  <2> QED
    BY <2>1 DEF PushFree
<1>10. @ = FreedWith(l, n, num, prev, next)
  BY <1>1, <1>5, <1>8 DEF FreedWith, ListRecord
<1>11. Freed(l, FreedWith(l, n, num, prev, next), cl, n)
  BY <1>2, <1>4, Frees
<1> QED
  BY <1>7, <1>9, <1>10, <1>11

\* ReleaseNode of the classes that have one.
LEMMA Releases ==
    ASSUME NEW l, NEW cl, NEW s, NEW f, NEW hp, NEW hd, NEW ls,
           Fits(l, cl, s, f, hp, hd, ls), NEW n \in hd
    PROVE  /\ Deleting(l, SinglyListReleaseNode(l, n))
           /\ Deleting(l, TDoublyListReleaseNode(l, n))
<1>1. l \in ListRecord /\ n # NULL /\ l.NodeUseCount # 0 /\ l.NodeUseCount \in Nat
  BY InOrder, InHand, Members
<1>2. PICK use \in Nat : use = l.NodeUseCount - 1
  BY <1>1
<1>3. PICK m : m = [l EXCEPT !.NodeUseCount = use]
  OBVIOUS
<1>4. SinglyListReleaseNode(l, n) = m /\ TDoublyListReleaseNode(l, n) = m
  BY <1>1, <1>2, <1>3 DEF SinglyListReleaseNode, TDoublyListReleaseNode
<1>5. Deleting(l, m)
  BY <1>1, <1>2, <1>3 DEF Deleting, ListRecord, SameLinks, SameFree, SameBlock
<1> QED
  BY <1>4, <1>5

-----------------------------------------------------------------------------
(* What the users do to a list, whatever its class: the four operations of *)
(* a free list and of a sequence, and the two that end nodes.              *)

GetStep ==
  \E n \in Node :
    /\ Got(list, list', class, heap, n)
    /\ heap' = heap \cup {n} /\ held' = held \cup {n} /\ lost' = lost

FreeStep ==
  \E n \in held :
    /\ Freed(list, list', class, n)
    /\ held' = held \ {n} /\ heap' = heap /\ lost' = lost

DeleteStep ==
  \E n \in held :
    /\ Deleting(list, list')
    /\ held' = held \ {n} /\ heap' = heap \ {n} /\ lost' = lost

PutStep ==
  \E n \in held : \E k \in 1 .. Len(Linked(list)) + 1 :
    /\ PutIn(list, list', class, Linked(list), k, n)
    /\ held' = held \ {n} /\ heap' = heap /\ lost' = lost

OrderStep ==
  \E n \in held : \E k \in NodeNumbers :
    /\ PutIn(Numbered(list, n, k), list', class, Linked(list),
             InOrderAt(list, Linked(list), k), n)
    /\ held' = held \ {n} /\ heap' = heap /\ lost' = lost
    /\ class \in DoublyClasses

UnlinkStep ==
  \E k \in 1 .. Len(Linked(list)) :
    /\ TakenOut(list, list', class, Linked(list), k)
    /\ held' = held \cup {Linked(list)[k]} /\ heap' = heap /\ lost' = lost

RefuseStep == list' = list /\ heap' = heap /\ held' = held /\ lost' = lost

ReleaseStep ==
  /\ list.BufferListCount = 0
  /\ list' = EmptyList(list) /\ heap' = heap \ Deleted(list)
  /\ held' = {} /\ lost' = lost \cup held

UseStep ==
  \/ GetStep \/ FreeStep \/ DeleteStep \/ PutStep \/ OrderStep \/ UnlinkStep
  \/ RefuseStep \/ ReleaseStep

\* The list as its invariant has it.
FitsNow ==
  /\ Fits(list, class, Linked(list), FreeOnes(list), heap, held, lost)
  /\ ~Pooled(class) => list.BufferListCount = 0

LEMMA SinglySteps ==
    ASSUME class = "SinglyList", FitsNow, Singly!ListUseNext
    PROVE  UseStep
<1> DEFINE s == Linked(list)
           f == FreeOnes(list)
<1>1. Fits(list, class, s, f, heap, held, lost)
  BY DEF FitsNow
<1>2. /\ class \notin DoublyClasses
      /\ list.BufferListCount = 0
  BY DEF FitsNow, Pooled, PooledClasses, DoublyClasses
<1>3. /\ list \in ListRecord /\ Len(s) \in Nat /\ heap \in SUBSET Node /\ held \subseteq heap
      /\ list.FreeListCount \in Nat /\ list.BufferListCount \in Nat
  <2>1. list \in ListRecord /\ Len(s) \in Nat
    BY <1>1, InOrder
  <2> QED
    BY <1>1, <2>1, Members DEF Fits, Elsewhere
<1>4. Singly!Linked(list) = s /\ Singly!NodesOf(s) = NodesOf(s) /\ Singly!Node = Node /\ Singly!NULL = NULL
      /\ Singly!Deleted(list) = Deleted(list)
  BY DEF Singly!Linked, Singly!Chain, Singly!NodesOf, Singly!Node, Singly!NULL, Singly!Deleted, Singly!FreeOnes,
         Linked, Chain, NodesOf, Node, NULL, Deleted, FreeOnes
<1> HIDE DEF s, f
<1>5. CASE Singly!UserGetNode
  <2>1. PICK n \in IF list.FreeListCount > 0 THEN {list.pFreeList} ELSE Singly!NewNodes :
          /\ list' = SinglyListGetNode(list, n)
          /\ heap' = heap \cup {n} /\ held' = held \cup {n} /\ lost' = lost
    BY <1>5 DEF Singly!UserGetNode
  <2>2. NextNode(list, heap, n)
    BY <1>2, <1>3, <1>4 DEF Singly!NewNodes, NextNode
  <2>3. n \in Node
    BY <1>1, <2>2, NodeTaken
  <2>4. Got(list, SinglyListGetNode(list, n), class, heap, n)
    BY <1>1, <1>2, <2>2, SinglyGets
  <2> QED
    BY <2>1, <2>3, <2>4 DEF SinglyListGetNode, GetStep, UseStep
<1>6. CASE Singly!UserRelease
  <2>1. list' = EmptyList(list)
    BY <1>6 DEF Singly!UserRelease, SinglyListRelease, SinglyListCreate
  <2> QED
    BY <1>2, <1>4, <1>6, <2>1 DEF Singly!UserRelease, ReleaseStep, UseStep
<1>7. CASE \E n \in Singly!Node : \/ Singly!UserFreeNode(n) \/ Singly!UserReleaseNode(n)
  <2>1. PICK n \in Node : Singly!UserFreeNode(n) \/ Singly!UserReleaseNode(n)
    BY <1>4, <1>7
  <2>2. CASE Singly!UserFreeNode(n)
    <3>1. n \in held /\ list' = SinglyListFreeNode(list, n)
      BY <2>2 DEF Singly!UserFreeNode
    <3>2. Freed(list, SinglyListFreeNode(list, n), class, n)
      BY <1>1, <1>2, <3>1, SinglyFrees
    <3> QED
      BY <2>2, <3>1, <3>2 DEF Singly!UserFreeNode, SinglyListFreeNode, FreeStep, UseStep
  <2>3. CASE Singly!UserReleaseNode(n)
    <3>1. n \in held /\ list' = SinglyListReleaseNode(list, n)
      BY <2>3 DEF Singly!UserReleaseNode
    <3>2. Deleting(list, SinglyListReleaseNode(list, n))
      BY <1>1, <3>1, Releases
    <3> QED
      BY <2>3, <3>1, <3>2 DEF Singly!UserReleaseNode, SinglyListReleaseNode, DeleteStep, UseStep
  <2> QED
    BY <2>1, <2>2, <2>3
<1>8. CASE \E n \in Singly!Node : Singly!UserLink(n) \/ Singly!UserLinkToHead(n)
  <2>1. PICK n \in Node : Singly!UserLink(n) \/ Singly!UserLinkToHead(n)
    BY <1>4, <1>8
  <2>2. n \in held /\ held' = held \ {n} /\ heap' = heap /\ lost' = lost
    BY <2>1 DEF Singly!UserLink, Singly!UserLinkToHead, Singly!PutInList
  <2>3. list' \in {SinglyListLink(list, n), SinglyListLinkToHead(list, n)}
    BY <2>1 DEF Singly!UserLink, Singly!UserLinkToHead, SinglyListLink, SinglyListLinkToHead
  <2>4. /\ PutIn(list, SinglyListLink(list, n), class, s, Len(s) + 1, n)
        /\ PutIn(list, SinglyListLinkToHead(list, n), class, s, 1, n)
    BY <1>1, <1>2, <2>2, SinglyLinks
  <2>5. PICK k \in 1 .. Len(s) + 1 : PutIn(list, list', class, s, k, n)
    BY <1>3, <2>3, <2>4
  <2> QED
    BY <2>2, <2>5 DEF PutStep, UseStep, s
<1>9. CASE \E n \in Singly!Node : Singly!UserUnlink(n)
  <2>1. PICK n \in Node : Singly!UserUnlink(n)
    BY <1>4, <1>9
  <2>2. /\ n \in heap /\ list' = SinglyListUnlink(list, n) /\ heap' = heap /\ lost' = lost
        /\ held' = IF n \in NodesOf(s) THEN held \cup {n} ELSE held
    BY <1>4, <2>1 DEF Singly!UserUnlink, SinglyListUnlink
  <2>3. /\ \A k \in 1 .. Len(s) : TakenOut(list, SinglyListUnlink(list, s[k]), class, s, k)
        /\ \A x \in heap \ NodesOf(s) : SinglyListUnlink(list, x) = list
    BY <1>1, <1>2, SinglyUnlinks
  <2>4. CASE n \in NodesOf(s)
    <3>1. PICK k \in 1 .. Len(s) : n = s[k]
      BY <2>4 DEF NodesOf
    <3> QED
      BY <2>2, <2>3, <2>4, <3>1 DEF UnlinkStep, UseStep, s
  <2>5. CASE n \notin NodesOf(s)
    BY <2>2, <2>3, <2>5 DEF RefuseStep, UseStep
  <2> QED
    BY <2>4, <2>5
<1>10. ~\E n \in Singly!Node : \E dest \in Singly!NodesOf(Singly!Linked(list)) \cup {Singly!NULL} :
              Singly!UserInsertPrev(dest, n) \/ Singly!UserInsertNext(dest, n)
  BY DEF Singly!UserInsertPrev, Singly!UserInsertNext
<1>11. ~\E n \in Singly!Node : \E k \in NodeNumbers : Singly!UserInsertOrder(n, k)
  BY DEF Singly!UserInsertOrder
<1> QED
  BY <1>5, <1>6, <1>7, <1>8, <1>9, <1>10, <1>11, Zenon DEF Singly!ListUseNext

LEMMA TSinglySteps ==
    ASSUME class = "TSinglyList", FitsNow, TSingly!ListUseNext
    PROVE  UseStep
<1> DEFINE s == Linked(list)
           f == FreeOnes(list)
<1>1. Fits(list, class, s, f, heap, held, lost)
  BY DEF FitsNow
<1>2. /\ class \notin DoublyClasses
      /\ list.BufferListCount = 0
  BY DEF FitsNow, Pooled, PooledClasses, DoublyClasses
<1>3. /\ list \in ListRecord /\ Len(s) \in Nat /\ heap \in SUBSET Node /\ held \subseteq heap
      /\ list.FreeListCount \in Nat /\ list.BufferListCount \in Nat
  <2>1. list \in ListRecord /\ Len(s) \in Nat
    BY <1>1, InOrder
  <2> QED
    BY <1>1, <2>1, Members DEF Fits, Elsewhere
<1>4. TSingly!Linked(list) = s /\ TSingly!NodesOf(s) = NodesOf(s) /\ TSingly!Node = Node /\ TSingly!NULL = NULL
      /\ TSingly!Deleted(list) = Deleted(list)
  BY DEF TSingly!Linked, TSingly!Chain, TSingly!NodesOf, TSingly!Node, TSingly!NULL, TSingly!Deleted, TSingly!FreeOnes,
         Linked, Chain, NodesOf, Node, NULL, Deleted, FreeOnes
<1> HIDE DEF s, f
<1>5. CASE TSingly!UserGetNode
  <2>1. PICK n \in IF list.FreeListCount > 0 THEN {list.pFreeList} ELSE TSingly!NewNodes :
          /\ list' = TSinglyListGetNode(list, n)
          /\ heap' = heap \cup {n} /\ held' = held \cup {n} /\ lost' = lost
    BY <1>5 DEF TSingly!UserGetNode
  <2>2. NextNode(list, heap, n)
    BY <1>2, <1>3, <1>4 DEF TSingly!NewNodes, NextNode
  <2>3. n \in Node
    BY <1>1, <2>2, NodeTaken
  <2>4. Got(list, TSinglyListGetNode(list, n), class, heap, n)
    BY <1>1, <1>2, <2>2, TSinglyGets
  <2> QED
    BY <2>1, <2>3, <2>4 DEF TSinglyListGetNode, GetStep, UseStep
<1>6. CASE TSingly!UserRelease
  <2>1. list' = EmptyList(list)
    BY <1>6 DEF TSingly!UserRelease, TSinglyListRelease, TSinglyListCreate
  <2> QED
    BY <1>2, <1>4, <1>6, <2>1 DEF TSingly!UserRelease, ReleaseStep, UseStep
<1>7. CASE \E n \in TSingly!Node : \/ TSingly!UserFreeNode(n) \/ TSingly!UserReleaseNode(n)
  <2>1. PICK n \in Node : TSingly!UserFreeNode(n) \/ TSingly!UserReleaseNode(n)
    BY <1>4, <1>7
  <2>2. CASE TSingly!UserFreeNode(n)
    <3>1. n \in held /\ list' = TSinglyListFreeNode(list, n)
      BY <2>2 DEF TSingly!UserFreeNode
    <3>2. Freed(list, TSinglyListFreeNode(list, n), class, n)
      BY <1>1, <1>2, <3>1, ZeroedFrees
    <3> QED
      BY <2>2, <3>1, <3>2 DEF TSingly!UserFreeNode, TSinglyListFreeNode, FreeStep, UseStep
  <2>3. CASE TSingly!UserReleaseNode(n)
    <3>1. n \in held /\ list' = TSinglyListReleaseNode(list, n)
      BY <2>3 DEF TSingly!UserReleaseNode
    <3>2. Deleting(list, SinglyListReleaseNode(list, n))
      BY <1>1, <3>1, Releases
    <3> QED
      BY <2>3, <3>1, <3>2 DEF TSingly!UserReleaseNode, TSinglyListReleaseNode, SinglyListReleaseNode, DeleteStep, UseStep
  <2> QED
    BY <2>1, <2>2, <2>3
<1>8. CASE \E n \in TSingly!Node : TSingly!UserLink(n) \/ TSingly!UserLinkToHead(n)
  <2>1. PICK n \in Node : TSingly!UserLink(n) \/ TSingly!UserLinkToHead(n)
    BY <1>4, <1>8
  <2>2. n \in held /\ held' = held \ {n} /\ heap' = heap /\ lost' = lost
    BY <2>1 DEF TSingly!UserLink, TSingly!UserLinkToHead, TSingly!PutInList
  <2>3. list' \in {SinglyListLink(list, n), SinglyListLinkToHead(list, n)}
    BY <2>1 DEF TSingly!UserLink, TSingly!UserLinkToHead, TSinglyListLink, TSinglyListLinkToHead
  <2>4. /\ PutIn(list, SinglyListLink(list, n), class, s, Len(s) + 1, n)
        /\ PutIn(list, SinglyListLinkToHead(list, n), class, s, 1, n)
    BY <1>1, <1>2, <2>2, SinglyLinks
  <2>5. PICK k \in 1 .. Len(s) + 1 : PutIn(list, list', class, s, k, n)
    BY <1>3, <2>3, <2>4
  <2> QED
    BY <2>2, <2>5 DEF PutStep, UseStep, s
<1>9. CASE \E n \in TSingly!Node : TSingly!UserUnlink(n)
  <2>1. PICK n \in Node : TSingly!UserUnlink(n)
    BY <1>4, <1>9
  <2>2. /\ n \in heap /\ list' = SinglyListUnlink(list, n) /\ heap' = heap /\ lost' = lost
        /\ held' = IF n \in NodesOf(s) THEN held \cup {n} ELSE held
    BY <1>4, <2>1 DEF TSingly!UserUnlink, TSinglyListUnlink, SinglyListUnlink
  <2>3. /\ \A k \in 1 .. Len(s) : TakenOut(list, SinglyListUnlink(list, s[k]), class, s, k)
        /\ \A x \in heap \ NodesOf(s) : SinglyListUnlink(list, x) = list
    BY <1>1, <1>2, SinglyUnlinks
  <2>4. CASE n \in NodesOf(s)
    <3>1. PICK k \in 1 .. Len(s) : n = s[k]
      BY <2>4 DEF NodesOf
    <3> QED
      BY <2>2, <2>3, <2>4, <3>1 DEF UnlinkStep, UseStep, s
  <2>5. CASE n \notin NodesOf(s)
    BY <2>2, <2>3, <2>5 DEF RefuseStep, UseStep
  <2> QED
    BY <2>4, <2>5
<1>10. ~\E n \in TSingly!Node : \E dest \in TSingly!NodesOf(TSingly!Linked(list)) \cup {TSingly!NULL} :
              TSingly!UserInsertPrev(dest, n) \/ TSingly!UserInsertNext(dest, n)
  BY DEF TSingly!UserInsertPrev, TSingly!UserInsertNext
<1>11. ~\E n \in TSingly!Node : \E k \in NodeNumbers : TSingly!UserInsertOrder(n, k)
  BY DEF TSingly!UserInsertOrder
<1> QED
  BY <1>5, <1>6, <1>7, <1>8, <1>9, <1>10, <1>11, Zenon DEF TSingly!ListUseNext

LEMMA TMPSinglySteps ==
    ASSUME class = "TMPSinglyList", FitsNow, TMPSingly!ListUseNext
    PROVE  UseStep
<1> DEFINE s == Linked(list)
           f == FreeOnes(list)
<1>1. Fits(list, class, s, f, heap, held, lost)
  BY DEF FitsNow
<1>2. /\ class \notin DoublyClasses
      /\ Pooled(class)
  BY DEF FitsNow, Pooled, PooledClasses, DoublyClasses
<1>3. /\ list \in ListRecord /\ Len(s) \in Nat /\ heap \in SUBSET Node /\ held \subseteq heap
      /\ list.FreeListCount \in Nat /\ list.BufferListCount \in Nat
  <2>1. list \in ListRecord /\ Len(s) \in Nat
    BY <1>1, InOrder
  <2> QED
    BY <1>1, <2>1, Members DEF Fits, Elsewhere
<1>4. TMPSingly!Linked(list) = s /\ TMPSingly!NodesOf(s) = NodesOf(s) /\ TMPSingly!Node = Node /\ TMPSingly!NULL = NULL
      /\ TMPSingly!Deleted(list) = Deleted(list)
  BY DEF TMPSingly!Linked, TMPSingly!Chain, TMPSingly!NodesOf, TMPSingly!Node, TMPSingly!NULL, TMPSingly!Deleted, TMPSingly!FreeOnes,
         Linked, Chain, NodesOf, Node, NULL, Deleted, FreeOnes
<1> HIDE DEF s, f
<1>5. CASE TMPSingly!UserGetNode
  <2>1. PICK n \in IF list.FreeListCount > 0 THEN {list.pFreeList} ELSE TMPSingly!NewNodes :
          /\ list' = TMPSinglyListGetNode(list, n)
          /\ heap' = heap \cup {n} /\ held' = held \cup {n} /\ lost' = lost
    BY <1>5 DEF TMPSingly!UserGetNode
  <2>2. NextNode(list, heap, n)
    BY <1>2, <1>3, <1>4 DEF TMPSingly!NewNodes, NextNode
  <2>3. n \in Node
    BY <1>1, <2>2, NodeTaken
  <2>4. Got(list, TMPSinglyListGetNode(list, n), class, heap, n)
    BY <1>1, <1>2, <2>2, TMPGets
  <2> QED
    BY <2>1, <2>3, <2>4 DEF TMPSinglyListGetNode, GetStep, UseStep
<1>6. CASE TMPSingly!UserRelease
  BY <1>6 DEF TMPSingly!UserRelease
<1>7. CASE \E n \in TMPSingly!Node : \/ TMPSingly!UserFreeNode(n) \/ TMPSingly!UserReleaseNode(n)
  <2>1. PICK n \in Node : TMPSingly!UserFreeNode(n) \/ TMPSingly!UserReleaseNode(n)
    BY <1>4, <1>7
  <2>2. CASE TMPSingly!UserFreeNode(n)
    <3>1. n \in held /\ list' = TMPSinglyListFreeNode(list, n)
      BY <2>2 DEF TMPSingly!UserFreeNode
    <3>2. Freed(list, TSinglyListFreeNode(list, n), class, n)
      BY <1>1, <1>2, <3>1, ZeroedFrees
    <3> QED
      BY <2>2, <3>1, <3>2 DEF TMPSingly!UserFreeNode, TMPSinglyListFreeNode, TSinglyListFreeNode, FreeStep, UseStep
  <2>3. CASE TMPSingly!UserReleaseNode(n)
    BY <2>3 DEF TMPSingly!UserReleaseNode
  <2> QED
    BY <2>1, <2>2, <2>3
<1>8. CASE \E n \in TMPSingly!Node : TMPSingly!UserLink(n) \/ TMPSingly!UserLinkToHead(n)
  <2>1. PICK n \in Node : TMPSingly!UserLink(n) \/ TMPSingly!UserLinkToHead(n)
    BY <1>4, <1>8
  <2>2. n \in held /\ held' = held \ {n} /\ heap' = heap /\ lost' = lost
    BY <2>1 DEF TMPSingly!UserLink, TMPSingly!UserLinkToHead, TMPSingly!PutInList
  <2>3. list' \in {SinglyListLink(list, n), SinglyListLinkToHead(list, n)}
    BY <2>1 DEF TMPSingly!UserLink, TMPSingly!UserLinkToHead, TMPSinglyListLink, TMPSinglyListLinkToHead
  <2>4. /\ PutIn(list, SinglyListLink(list, n), class, s, Len(s) + 1, n)
        /\ PutIn(list, SinglyListLinkToHead(list, n), class, s, 1, n)
    BY <1>1, <1>2, <2>2, SinglyLinks
  <2>5. PICK k \in 1 .. Len(s) + 1 : PutIn(list, list', class, s, k, n)
    BY <1>3, <2>3, <2>4
  <2> QED
    BY <2>2, <2>5 DEF PutStep, UseStep, s
<1>9. CASE \E n \in TMPSingly!Node : TMPSingly!UserUnlink(n)
  <2>1. PICK n \in Node : TMPSingly!UserUnlink(n)
    BY <1>4, <1>9
  <2>2. /\ n \in heap /\ list' = TMPSinglyListUnlink(list, n) /\ heap' = heap /\ lost' = lost
        /\ held' = IF n \in NodesOf(s) THEN held \cup {n} ELSE held
    BY <1>4, <2>1 DEF TMPSingly!UserUnlink, TMPSinglyListUnlink
  <2>3. /\ \A k \in 1 .. Len(s) : TakenOut(list, TMPSinglyListUnlink(list, s[k]), class, s, k)
        /\ \A x \in heap \ NodesOf(s) : TMPSinglyListUnlink(list, x) = list
    BY <1>1, <1>2, SinglyUnlinks
  <2>4. CASE n \in NodesOf(s)
    <3>1. PICK k \in 1 .. Len(s) : n = s[k]
      BY <2>4 DEF NodesOf
    <3> QED
      BY <2>2, <2>3, <2>4, <3>1 DEF UnlinkStep, UseStep, s
  <2>5. CASE n \notin NodesOf(s)
    BY <2>2, <2>3, <2>5 DEF RefuseStep, UseStep
  <2> QED
    BY <2>4, <2>5
<1>10. ~\E n \in TMPSingly!Node : \E dest \in TMPSingly!NodesOf(TMPSingly!Linked(list)) \cup {TMPSingly!NULL} :
              TMPSingly!UserInsertPrev(dest, n) \/ TMPSingly!UserInsertNext(dest, n)
  BY DEF TMPSingly!UserInsertPrev, TMPSingly!UserInsertNext
<1>11. ~\E n \in TMPSingly!Node : \E k \in NodeNumbers : TMPSingly!UserInsertOrder(n, k)
  BY DEF TMPSingly!UserInsertOrder
<1> QED
  BY <1>5, <1>6, <1>7, <1>8, <1>9, <1>10, <1>11, Zenon DEF TMPSingly!ListUseNext

LEMMA DoublySteps ==
    ASSUME class = "DoublyList", FitsNow, Doubly!ListUseNext
    PROVE  UseStep
<1> DEFINE s == Linked(list)
           f == FreeOnes(list)
<1>1. Fits(list, class, s, f, heap, held, lost)
  BY DEF FitsNow
<1>2. /\ class \in DoublyClasses
      /\ list.BufferListCount = 0
  BY DEF FitsNow, Pooled, PooledClasses, DoublyClasses
<1>3. /\ list \in ListRecord /\ Len(s) \in Nat /\ heap \in SUBSET Node /\ held \subseteq heap
      /\ list.FreeListCount \in Nat /\ list.BufferListCount \in Nat
  <2>1. list \in ListRecord /\ Len(s) \in Nat
    BY <1>1, InOrder
  <2> QED
    BY <1>1, <2>1, Members DEF Fits, Elsewhere
<1>4. Doubly!Linked(list) = s /\ Doubly!NodesOf(s) = NodesOf(s) /\ Doubly!Node = Node /\ Doubly!NULL = NULL
      /\ Doubly!Deleted(list) = Deleted(list)
  BY DEF Doubly!Linked, Doubly!Chain, Doubly!NodesOf, Doubly!Node, Doubly!NULL, Doubly!Deleted, Doubly!FreeOnes,
         Linked, Chain, NodesOf, Node, NULL, Deleted, FreeOnes
<1> HIDE DEF s, f
<1>5. CASE Doubly!UserGetNode
  <2>1. PICK n \in IF list.FreeListCount > 0 THEN {list.pFreeList} ELSE Doubly!NewNodes :
          /\ list' = DoublyListGetNode(list, n)
          /\ heap' = heap \cup {n} /\ held' = held \cup {n} /\ lost' = lost
    BY <1>5 DEF Doubly!UserGetNode
  <2>2. NextNode(list, heap, n)
    BY <1>2, <1>3, <1>4 DEF Doubly!NewNodes, NextNode
  <2>3. n \in Node
    BY <1>1, <2>2, NodeTaken
  <2>4. Got(list, DoublyListGetNode(list, n), class, heap, n)
    BY <1>1, <1>2, <2>2, DoublyGets
  <2> QED
    BY <2>1, <2>3, <2>4 DEF DoublyListGetNode, GetStep, UseStep
<1>6. CASE Doubly!UserRelease
  <2>1. list' = EmptyList(list)
    BY <1>6 DEF Doubly!UserRelease, DoublyListRelease, DoublyListCreate
  <2> QED
    BY <1>2, <1>4, <1>6, <2>1 DEF Doubly!UserRelease, ReleaseStep, UseStep
<1>7. CASE \E n \in Doubly!Node : \/ Doubly!UserFreeNode(n) \/ Doubly!UserReleaseNode(n)
  <2>1. PICK n \in Node : Doubly!UserFreeNode(n) \/ Doubly!UserReleaseNode(n)
    BY <1>4, <1>7
  <2>2. CASE Doubly!UserFreeNode(n)
    <3>1. n \in held /\ list' = DoublyListFreeNode(list, n)
      BY <2>2 DEF Doubly!UserFreeNode
    <3>2. Freed(list, TDoublyListFreeNode(list, n), class, n)
      BY <1>1, <1>2, <3>1, ZeroedFrees
    <3> QED
      BY <2>2, <3>1, <3>2 DEF Doubly!UserFreeNode, DoublyListFreeNode, TDoublyListFreeNode, FreeStep, UseStep
  <2>3. CASE Doubly!UserReleaseNode(n)
    <3>1. n \in held /\ list' = DoublyListReleaseNode(list, n)
      BY <2>3 DEF Doubly!UserReleaseNode
    <3>2. Deleting(list, TDoublyListReleaseNode(list, n))
      BY <1>1, <3>1, Releases
    <3> QED
      BY <2>3, <3>1, <3>2 DEF Doubly!UserReleaseNode, DoublyListReleaseNode, TDoublyListReleaseNode, DeleteStep, UseStep
  <2> QED
    BY <2>1, <2>2, <2>3
<1>8. CASE \E n \in Doubly!Node : Doubly!UserLink(n) \/ Doubly!UserLinkToHead(n)
  <2>1. PICK n \in Node : Doubly!UserLink(n) \/ Doubly!UserLinkToHead(n)
    BY <1>4, <1>8
  <2>2. n \in held /\ held' = held \ {n} /\ heap' = heap /\ lost' = lost
    BY <2>1 DEF Doubly!UserLink, Doubly!UserLinkToHead, Doubly!PutInList
  <2>3. list' \in {TDoublyListLink(list, n), TDoublyListLinkToHead(list, n)}
    BY <2>1 DEF Doubly!UserLink, Doubly!UserLinkToHead, DoublyListLink, DoublyListLinkToHead
  <2>4. /\ PutIn(list, TDoublyListLink(list, n), class, s, Len(s) + 1, n)
        /\ PutIn(list, TDoublyListLinkToHead(list, n), class, s, 1, n)
    BY <1>1, <1>2, <2>2, DoublyLinksAt
  <2>5. PICK k \in 1 .. Len(s) + 1 : PutIn(list, list', class, s, k, n)
    BY <1>3, <2>3, <2>4
  <2> QED
    BY <2>2, <2>5 DEF PutStep, UseStep, s
<1>9. CASE \E n \in Doubly!Node : Doubly!UserUnlink(n)
  <2>1. PICK n \in Node : Doubly!UserUnlink(n)
    BY <1>4, <1>9
  <2>2. /\ n \in heap /\ list' = TDoublyListUnlink(list, n) /\ heap' = heap /\ lost' = lost
        /\ held' = IF n \in NodesOf(s) THEN held \cup {n} ELSE held
    BY <1>4, <2>1 DEF Doubly!UserUnlink, DoublyListUnlink, TDoublyListUnlink
  <2>3. /\ \A k \in 1 .. Len(s) : TakenOut(list, TDoublyListUnlink(list, s[k]), class, s, k)
        /\ \A x \in heap \ NodesOf(s) : TDoublyListUnlink(list, x) = list
    BY <1>1, <1>2, DoublyUnlinks
  <2>4. CASE n \in NodesOf(s)
    <3>1. PICK k \in 1 .. Len(s) : n = s[k]
      BY <2>4 DEF NodesOf
    <3> QED
      BY <2>2, <2>3, <2>4, <3>1 DEF UnlinkStep, UseStep, s
  <2>5. CASE n \notin NodesOf(s)
    BY <2>2, <2>3, <2>5 DEF RefuseStep, UseStep
  <2> QED
    BY <2>4, <2>5
<1>10. ~\E n \in Doubly!Node : \E dest \in Doubly!NodesOf(Doubly!Linked(list)) \cup {Doubly!NULL} :
              Doubly!UserInsertPrev(dest, n) \/ Doubly!UserInsertNext(dest, n)
  BY DEF Doubly!UserInsertPrev, Doubly!UserInsertNext
<1>11. ~\E n \in Doubly!Node : \E k \in NodeNumbers : Doubly!UserInsertOrder(n, k)
  BY DEF Doubly!UserInsertOrder
<1> QED
  BY <1>5, <1>6, <1>7, <1>8, <1>9, <1>10, <1>11, Zenon DEF Doubly!ListUseNext

LEMMA TDoublySteps ==
    ASSUME class = "TDoublyList", FitsNow, TDoubly!ListUseNext
    PROVE  UseStep
<1> DEFINE s == Linked(list)
           f == FreeOnes(list)
<1>1. Fits(list, class, s, f, heap, held, lost)
  BY DEF FitsNow
<1>2. /\ class \in DoublyClasses
      /\ list.BufferListCount = 0
  BY DEF FitsNow, Pooled, PooledClasses, DoublyClasses
<1>3. /\ list \in ListRecord /\ Len(s) \in Nat /\ heap \in SUBSET Node /\ held \subseteq heap
      /\ list.FreeListCount \in Nat /\ list.BufferListCount \in Nat
  <2>1. list \in ListRecord /\ Len(s) \in Nat
    BY <1>1, InOrder
  <2> QED
    BY <1>1, <2>1, Members DEF Fits, Elsewhere
<1>4. TDoubly!Linked(list) = s /\ TDoubly!NodesOf(s) = NodesOf(s) /\ TDoubly!Node = Node /\ TDoubly!NULL = NULL
      /\ TDoubly!Deleted(list) = Deleted(list)
  BY DEF TDoubly!Linked, TDoubly!Chain, TDoubly!NodesOf, TDoubly!Node, TDoubly!NULL, TDoubly!Deleted, TDoubly!FreeOnes,
         Linked, Chain, NodesOf, Node, NULL, Deleted, FreeOnes
<1> HIDE DEF s, f
<1>5. CASE TDoubly!UserGetNode
  <2>1. PICK n \in IF list.FreeListCount > 0 THEN {list.pFreeList} ELSE TDoubly!NewNodes :
          /\ list' = TDoublyListGetNode(list, n)
          /\ heap' = heap \cup {n} /\ held' = held \cup {n} /\ lost' = lost
    BY <1>5 DEF TDoubly!UserGetNode
  <2>2. NextNode(list, heap, n)
    BY <1>2, <1>3, <1>4 DEF TDoubly!NewNodes, NextNode
  <2>3. n \in Node
    BY <1>1, <2>2, NodeTaken
  <2>4. Got(list, TDoublyListGetNode(list, n), class, heap, n)
    BY <1>1, <1>2, <2>2, DoublyGets
  <2> QED
    BY <2>1, <2>3, <2>4 DEF TDoublyListGetNode, GetStep, UseStep
<1>6. CASE TDoubly!UserRelease
  <2>1. list' = EmptyList(list)
    BY <1>6 DEF TDoubly!UserRelease, TDoublyListRelease, TDoublyListCreate
  <2> QED
    BY <1>2, <1>4, <1>6, <2>1 DEF TDoubly!UserRelease, ReleaseStep, UseStep
<1>7. CASE \E n \in TDoubly!Node : \/ TDoubly!UserFreeNode(n) \/ TDoubly!UserReleaseNode(n)
  <2>1. PICK n \in Node : TDoubly!UserFreeNode(n) \/ TDoubly!UserReleaseNode(n)
    BY <1>4, <1>7
  <2>2. CASE TDoubly!UserFreeNode(n)
    <3>1. n \in held /\ list' = TDoublyListFreeNode(list, n)
      BY <2>2 DEF TDoubly!UserFreeNode
    <3>2. Freed(list, TDoublyListFreeNode(list, n), class, n)
      BY <1>1, <1>2, <3>1, ZeroedFrees
    <3> QED
      BY <2>2, <3>1, <3>2 DEF TDoubly!UserFreeNode, TDoublyListFreeNode, FreeStep, UseStep
  <2>3. CASE TDoubly!UserReleaseNode(n)
    <3>1. n \in held /\ list' = TDoublyListReleaseNode(list, n)
      BY <2>3 DEF TDoubly!UserReleaseNode
    <3>2. Deleting(list, TDoublyListReleaseNode(list, n))
      BY <1>1, <3>1, Releases
    <3> QED
      BY <2>3, <3>1, <3>2 DEF TDoubly!UserReleaseNode, TDoublyListReleaseNode, DeleteStep, UseStep
  <2> QED
    BY <2>1, <2>2, <2>3
<1>8. CASE \E n \in TDoubly!Node : TDoubly!UserLink(n) \/ TDoubly!UserLinkToHead(n)
  <2>1. PICK n \in Node : TDoubly!UserLink(n) \/ TDoubly!UserLinkToHead(n)
    BY <1>4, <1>8
  <2>2. n \in held /\ held' = held \ {n} /\ heap' = heap /\ lost' = lost
    BY <2>1 DEF TDoubly!UserLink, TDoubly!UserLinkToHead, TDoubly!PutInList
  <2>3. list' \in {TDoublyListLink(list, n), TDoublyListLinkToHead(list, n)}
    BY <2>1 DEF TDoubly!UserLink, TDoubly!UserLinkToHead, TDoublyListLink, TDoublyListLinkToHead
  <2>4. /\ PutIn(list, TDoublyListLink(list, n), class, s, Len(s) + 1, n)
        /\ PutIn(list, TDoublyListLinkToHead(list, n), class, s, 1, n)
    BY <1>1, <1>2, <2>2, DoublyLinksAt
  <2>5. PICK k \in 1 .. Len(s) + 1 : PutIn(list, list', class, s, k, n)
    BY <1>3, <2>3, <2>4
  <2> QED
    BY <2>2, <2>5 DEF PutStep, UseStep, s
<1>9. CASE \E n \in TDoubly!Node : TDoubly!UserUnlink(n)
  <2>1. PICK n \in Node : TDoubly!UserUnlink(n)
    BY <1>4, <1>9
  <2>2. /\ n \in heap /\ list' = TDoublyListUnlink(list, n) /\ heap' = heap /\ lost' = lost
        /\ held' = IF n \in NodesOf(s) THEN held \cup {n} ELSE held
    BY <1>4, <2>1 DEF TDoubly!UserUnlink, TDoublyListUnlink
  <2>3. /\ \A k \in 1 .. Len(s) : TakenOut(list, TDoublyListUnlink(list, s[k]), class, s, k)
        /\ \A x \in heap \ NodesOf(s) : TDoublyListUnlink(list, x) = list
    BY <1>1, <1>2, DoublyUnlinks
  <2>4. CASE n \in NodesOf(s)
    <3>1. PICK k \in 1 .. Len(s) : n = s[k]
      BY <2>4 DEF NodesOf
    <3> QED
      BY <2>2, <2>3, <2>4, <3>1 DEF UnlinkStep, UseStep, s
  <2>5. CASE n \notin NodesOf(s)
    BY <2>2, <2>3, <2>5 DEF RefuseStep, UseStep
  <2> QED
    BY <2>4, <2>5
<1>10. CASE \E n \in TDoubly!Node : \E dest \in TDoubly!NodesOf(TDoubly!Linked(list)) \cup {TDoubly!NULL} :
               TDoubly!UserInsertPrev(dest, n) \/ TDoubly!UserInsertNext(dest, n)
  <2>1. PICK n \in Node, dest \in NodesOf(s) \cup {NULL} :
          TDoubly!UserInsertPrev(dest, n) \/ TDoubly!UserInsertNext(dest, n)
    BY <1>4, <1>10
  <2>2. n \in held /\ held' = held \ {n} /\ heap' = heap /\ lost' = lost
    BY <2>1 DEF TDoubly!UserInsertPrev, TDoubly!UserInsertNext, TDoubly!PutInList
  <2>3. list' \in {TDoublyListLinkInsertPrev(list, dest, n), TDoublyListLinkInsertNext(list, dest, n)}
    BY <2>1 DEF TDoubly!UserInsertPrev, TDoubly!UserInsertNext
  <2>4. CASE dest = NULL
    <3>1. n # NULL
      BY <1>1, <2>2, InHand
    <3>2. list' = TDoublyListLinkToHead(list, n)
      BY <2>3, <2>4, <3>1 DEF TDoublyListLinkInsertPrev, TDoublyListLinkInsertNext
    <3>3. PutIn(list, TDoublyListLinkToHead(list, n), class, s, 1, n)
      BY <1>1, <1>2, <2>2, DoublyLinksAt
    <3>4. 1 \in 1 .. Len(s) + 1
      BY <1>3
    <3> QED
      BY <2>2, <3>2, <3>3, <3>4 DEF PutStep, UseStep, s
  <2>5. CASE dest \in NodesOf(s)
    <3>1. PICK j \in 1 .. Len(s) : dest = s[j]
      BY <2>5 DEF NodesOf
    <3>2. /\ PutIn(list, TDoublyListLinkInsertPrev(list, s[j], n), class, s, j, n)
          /\ PutIn(list, TDoublyListLinkInsertNext(list, s[j], n), class, s, j + 1, n)
      BY <1>1, <1>2, <2>2, DoublyInserts
    <3>3. PICK k \in 1 .. Len(s) + 1 : PutIn(list, list', class, s, k, n)
      BY <1>3, <2>3, <3>1, <3>2
    <3> QED
      BY <2>2, <3>3 DEF PutStep, UseStep, s
  <2> QED
    BY <2>1, <2>4, <2>5
<1>11. CASE \E n \in TDoubly!Node : \E k \in NodeNumbers : TDoubly!UserInsertOrder(n, k)
  <2>1. PICK n \in Node, k \in NodeNumbers : TDoubly!UserInsertOrder(n, k)
    BY <1>4, <1>11
  <2>2. n \in held /\ held' = held \ {n} /\ heap' = heap /\ lost' = lost
    BY <2>1 DEF TDoubly!UserInsertOrder, TDoubly!PutInList
  <2>3. list' = TDoublyListLinkInsertOrderWithNumber(Numbered(list, n, k), n)
    BY <2>1 DEF TDoubly!UserInsertOrder, Numbered
  <2>4. PutIn(Numbered(list, n, k), list', class, s, InOrderAt(list, s, k), n)
    BY <1>1, <1>2, <2>2, <2>3, OrderedInsert
  <2> QED
    BY <1>2, <2>2, <2>4 DEF OrderStep, UseStep, s
<1> QED
  BY <1>5, <1>6, <1>7, <1>8, <1>9, <1>10, <1>11, Zenon DEF TDoubly!ListUseNext

LEMMA TMPDoublySteps ==
    ASSUME class = "TMPDoublyList", FitsNow, TMPDoubly!ListUseNext
    PROVE  UseStep
<1> DEFINE s == Linked(list)
           f == FreeOnes(list)
<1>1. Fits(list, class, s, f, heap, held, lost)
  BY DEF FitsNow
<1>2. /\ class \in DoublyClasses
      /\ Pooled(class)
  BY DEF FitsNow, Pooled, PooledClasses, DoublyClasses
<1>3. /\ list \in ListRecord /\ Len(s) \in Nat /\ heap \in SUBSET Node /\ held \subseteq heap
      /\ list.FreeListCount \in Nat /\ list.BufferListCount \in Nat
  <2>1. list \in ListRecord /\ Len(s) \in Nat
    BY <1>1, InOrder
  <2> QED
    BY <1>1, <2>1, Members DEF Fits, Elsewhere
<1>4. TMPDoubly!Linked(list) = s /\ TMPDoubly!NodesOf(s) = NodesOf(s) /\ TMPDoubly!Node = Node /\ TMPDoubly!NULL = NULL
      /\ TMPDoubly!Deleted(list) = Deleted(list)
  BY DEF TMPDoubly!Linked, TMPDoubly!Chain, TMPDoubly!NodesOf, TMPDoubly!Node, TMPDoubly!NULL, TMPDoubly!Deleted, TMPDoubly!FreeOnes,
         Linked, Chain, NodesOf, Node, NULL, Deleted, FreeOnes
<1> HIDE DEF s, f
<1>5. CASE TMPDoubly!UserGetNode
  <2>1. PICK n \in IF list.FreeListCount > 0 THEN {list.pFreeList} ELSE TMPDoubly!NewNodes :
          /\ list' = TMPDoublyListGetNode(list, n)
          /\ heap' = heap \cup {n} /\ held' = held \cup {n} /\ lost' = lost
    BY <1>5 DEF TMPDoubly!UserGetNode
  <2>2. NextNode(list, heap, n)
    BY <1>2, <1>3, <1>4 DEF TMPDoubly!NewNodes, NextNode
  <2>3. n \in Node
    BY <1>1, <2>2, NodeTaken
  <2>4. Got(list, TMPDoublyListGetNode(list, n), class, heap, n)
    BY <1>1, <1>2, <2>2, TMPGets
  <2> QED
    BY <2>1, <2>3, <2>4 DEF TMPDoublyListGetNode, GetStep, UseStep
<1>6. CASE TMPDoubly!UserRelease
  BY <1>6 DEF TMPDoubly!UserRelease
<1>7. CASE \E n \in TMPDoubly!Node : \/ TMPDoubly!UserFreeNode(n) \/ TMPDoubly!UserReleaseNode(n)
  <2>1. PICK n \in Node : TMPDoubly!UserFreeNode(n) \/ TMPDoubly!UserReleaseNode(n)
    BY <1>4, <1>7
  <2>2. CASE TMPDoubly!UserFreeNode(n)
    <3>1. n \in held /\ list' = TMPDoublyListFreeNode(list, n)
      BY <2>2 DEF TMPDoubly!UserFreeNode
    <3>2. Freed(list, TDoublyListFreeNode(list, n), class, n)
      BY <1>1, <1>2, <3>1, ZeroedFrees
    <3> QED
      BY <2>2, <3>1, <3>2 DEF TMPDoubly!UserFreeNode, TMPDoublyListFreeNode, TDoublyListFreeNode, FreeStep, UseStep
  <2>3. CASE TMPDoubly!UserReleaseNode(n)
    BY <2>3 DEF TMPDoubly!UserReleaseNode
  <2> QED
    BY <2>1, <2>2, <2>3
<1>8. CASE \E n \in TMPDoubly!Node : TMPDoubly!UserLink(n) \/ TMPDoubly!UserLinkToHead(n)
  <2>1. PICK n \in Node : TMPDoubly!UserLink(n) \/ TMPDoubly!UserLinkToHead(n)
    BY <1>4, <1>8
  <2>2. n \in held /\ held' = held \ {n} /\ heap' = heap /\ lost' = lost
    BY <2>1 DEF TMPDoubly!UserLink, TMPDoubly!UserLinkToHead, TMPDoubly!PutInList
  <2>3. list' \in {TDoublyListLink(list, n), TDoublyListLinkToHead(list, n)}
    BY <2>1 DEF TMPDoubly!UserLink, TMPDoubly!UserLinkToHead, TMPDoublyListLink, TMPDoublyListLinkToHead
  <2>4. /\ PutIn(list, TDoublyListLink(list, n), class, s, Len(s) + 1, n)
        /\ PutIn(list, TDoublyListLinkToHead(list, n), class, s, 1, n)
    BY <1>1, <1>2, <2>2, DoublyLinksAt
  <2>5. PICK k \in 1 .. Len(s) + 1 : PutIn(list, list', class, s, k, n)
    BY <1>3, <2>3, <2>4
  <2> QED
    BY <2>2, <2>5 DEF PutStep, UseStep, s
<1>9. CASE \E n \in TMPDoubly!Node : TMPDoubly!UserUnlink(n)
  <2>1. PICK n \in Node : TMPDoubly!UserUnlink(n)
    BY <1>4, <1>9
  <2>2. /\ n \in heap /\ list' = TDoublyListUnlink(list, n) /\ heap' = heap /\ lost' = lost
        /\ held' = IF n \in NodesOf(s) THEN held \cup {n} ELSE held
    BY <1>4, <2>1 DEF TMPDoubly!UserUnlink, TMPDoublyListUnlink, TDoublyListUnlink
  <2>3. /\ \A k \in 1 .. Len(s) : TakenOut(list, TDoublyListUnlink(list, s[k]), class, s, k)
        /\ \A x \in heap \ NodesOf(s) : TDoublyListUnlink(list, x) = list
    BY <1>1, <1>2, DoublyUnlinks
  <2>4. CASE n \in NodesOf(s)
    <3>1. PICK k \in 1 .. Len(s) : n = s[k]
      BY <2>4 DEF NodesOf
    <3> QED
      BY <2>2, <2>3, <2>4, <3>1 DEF UnlinkStep, UseStep, s
  <2>5. CASE n \notin NodesOf(s)
    BY <2>2, <2>3, <2>5 DEF RefuseStep, UseStep
  <2> QED
    BY <2>4, <2>5
<1>10. CASE \E n \in TMPDoubly!Node : \E dest \in TMPDoubly!NodesOf(TMPDoubly!Linked(list)) \cup {TMPDoubly!NULL} :
               TMPDoubly!UserInsertPrev(dest, n) \/ TMPDoubly!UserInsertNext(dest, n)
  <2>1. PICK n \in Node, dest \in NodesOf(s) \cup {NULL} :
          TMPDoubly!UserInsertPrev(dest, n) \/ TMPDoubly!UserInsertNext(dest, n)
    BY <1>4, <1>10
  <2>2. n \in held /\ held' = held \ {n} /\ heap' = heap /\ lost' = lost
    BY <2>1 DEF TMPDoubly!UserInsertPrev, TMPDoubly!UserInsertNext, TMPDoubly!PutInList
  <2>3. list' \in {TDoublyListLinkInsertPrev(list, dest, n), TDoublyListLinkInsertNext(list, dest, n)}
    BY <2>1 DEF TMPDoubly!UserInsertPrev, TMPDoubly!UserInsertNext, TMPDoublyListLinkInsertPrev, TMPDoublyListLinkInsertNext
  <2>4. CASE dest = NULL
    <3>1. n # NULL
      BY <1>1, <2>2, InHand
    <3>2. list' = TDoublyListLinkToHead(list, n)
      BY <2>3, <2>4, <3>1 DEF TDoublyListLinkInsertPrev, TDoublyListLinkInsertNext
    <3>3. PutIn(list, TDoublyListLinkToHead(list, n), class, s, 1, n)
      BY <1>1, <1>2, <2>2, DoublyLinksAt
    <3>4. 1 \in 1 .. Len(s) + 1
      BY <1>3
    <3> QED
      BY <2>2, <3>2, <3>3, <3>4 DEF PutStep, UseStep, s
  <2>5. CASE dest \in NodesOf(s)
    <3>1. PICK j \in 1 .. Len(s) : dest = s[j]
      BY <2>5 DEF NodesOf
    <3>2. /\ PutIn(list, TDoublyListLinkInsertPrev(list, s[j], n), class, s, j, n)
          /\ PutIn(list, TDoublyListLinkInsertNext(list, s[j], n), class, s, j + 1, n)
      BY <1>1, <1>2, <2>2, DoublyInserts
    <3>3. PICK k \in 1 .. Len(s) + 1 : PutIn(list, list', class, s, k, n)
      BY <1>3, <2>3, <3>1, <3>2
    <3> QED
      BY <2>2, <3>3 DEF PutStep, UseStep, s
  <2> QED
    BY <2>1, <2>4, <2>5
<1>11. CASE \E n \in TMPDoubly!Node : \E k \in NodeNumbers : TMPDoubly!UserInsertOrder(n, k)
  <2>1. PICK n \in Node, k \in NodeNumbers : TMPDoubly!UserInsertOrder(n, k)
    BY <1>4, <1>11
  <2>2. n \in held /\ held' = held \ {n} /\ heap' = heap /\ lost' = lost
    BY <2>1 DEF TMPDoubly!UserInsertOrder, TMPDoubly!PutInList
  <2>3. list' = TDoublyListLinkInsertOrderWithNumber(Numbered(list, n, k), n)
    BY <2>1 DEF TMPDoubly!UserInsertOrder, Numbered, TMPDoublyListLinkInsertOrderWithNumber
  <2>4. PutIn(Numbered(list, n, k), list', class, s, InOrderAt(list, s, k), n)
    BY <1>1, <1>2, <2>2, <2>3, OrderedInsert
  <2> QED
    BY <1>2, <2>2, <2>4 DEF OrderStep, UseStep, s
<1> QED
  BY <1>5, <1>6, <1>7, <1>8, <1>9, <1>10, <1>11, Zenon DEF TMPDoubly!ListUseNext

\* What a step leaves: its sequences are those that the list threads.
After(s, f) ==
  /\ FitsNow' /\ Linked(list)' = s /\ FreeOnes(list)' = f

LEMMA AfterIs ==
    ASSUME NEW s, NEW f, Fits(list', class, s, f, heap', held', lost'),
           class' = class, FitsNow, list'.BufferListCount <= list.BufferListCount
    PROVE  After(s, f)
<1>1. Linked(list') = s /\ FreeOnes(list') = f
  BY InOrder
<1>2. Fits(list', class', Linked(list'), FreeOnes(list'), heap', held', lost')
  BY <1>1
<1>3. list' \in ListRecord /\ list \in ListRecord
  BY InOrder DEF FitsNow
<1>4. list'.BufferListCount \in Nat /\ list.BufferListCount \in Nat
  BY <1>3, Members
<1>5. ~Pooled(class') => list'.BufferListCount = 0
  BY <1>4 DEF FitsNow
<1> QED
  BY <1>1, <1>2, <1>5 DEF After, FitsNow

LEMMA Steps ==
    ASSUME FitsNow, class' = class
    PROVE  /\ GetStep => \E n \in Node :
                /\ n \notin NodesOf(Linked(list)) \cup held
                /\ FreeOnes(list) # <<>> => n = FreeOnes(list)[1]
                /\ After(Linked(list), Left(FreeOnes(list)))
                /\ held' = held \cup {n} /\ OneNumber(list, list', n)
           /\ FreeStep => \E n \in held :
                /\ After(Linked(list), Put(FreeOnes(list), 1, n))
                /\ held' = held \ {n} /\ OneNumber(list, list', n)
           /\ DeleteStep => \E n \in held :
                /\ After(Linked(list), FreeOnes(list))
                /\ held' = held \ {n} /\ list'.NodeNumber = list.NodeNumber
           /\ PutStep => \E n \in held : \E k \in 1 .. Len(Linked(list)) + 1 :
                /\ After(Put(Linked(list), k, n), FreeOnes(list))
                /\ held' = held \ {n} /\ list'.NodeNumber = list.NodeNumber
           /\ OrderStep => \E n \in held : \E k \in NodeNumbers :
                /\ After(Put(Linked(list), InOrderAt(list, Linked(list), k), n), FreeOnes(list))
                /\ held' = held \ {n}
                /\ list'.NodeNumber = [list.NodeNumber EXCEPT ![n] = k]
                /\ InOrderAt(list, Linked(list), k) \in 1 .. Len(Linked(list)) + 1
           /\ UnlinkStep => \E k \in 1 .. Len(Linked(list)) :
                /\ After(Out(Linked(list), k), FreeOnes(list))
                /\ held' = held \cup {Linked(list)[k]}
                /\ list'.NodeNumber = list.NodeNumber
           /\ ReleaseStep =>
                /\ After(<<>>, <<>>) /\ held' = {} /\ list'.NodeNumber = list.NodeNumber
<1> DEFINE s == Linked(list)
           f == FreeOnes(list)
<1>0. /\ Fits(list, class, s, f, heap, held, lost)
      /\ list \in ListRecord /\ s \in Seq(Node) /\ f \in Seq(Node) /\ list.BufferListCount \in Nat
      /\ list.FreeListCount = Len(f)
  <2>1. Fits(list, class, s, f, heap, held, lost)
    BY DEF FitsNow
  <2>2. list \in ListRecord /\ s \in Seq(Node) /\ f \in Seq(Node) /\ list.FreeListCount = Len(f)
    BY <2>1, InOrder
  <2> QED
    BY <2>1, <2>2, Members
<1> HIDE DEF s, f
<1>1. ASSUME GetStep
      PROVE  \E n \in Node :
                /\ n \notin NodesOf(s) \cup held
                /\ f # <<>> => n = f[1]
                /\ After(s, Left(f))
                /\ held' = held \cup {n} /\ OneNumber(list, list', n)
  <2>1. PICK n \in Node :
          /\ Got(list, list', class, heap, n)
          /\ heap' = heap \cup {n} /\ held' = held \cup {n} /\ lost' = lost
    BY <1>1 DEF GetStep
  <2>2. /\ Fits(list', class, s, Left(f), heap', held', lost')
        /\ n \notin NodesOf(s) \cup held /\ (Len(f) # 0 => n = f[1])
    BY <1>0, <2>1, Getting
  <2>3. list'.BufferListCount <= list.BufferListCount /\ OneNumber(list, list', n)
    BY <1>0, <2>1 DEF Got, SameBlock
  <2>4. After(s, Left(f))
    BY <2>2, <2>3, AfterIs
  <2>5. f # <<>> => n = f[1]
    BY <1>0, <2>2
  <2> QED
    BY <2>1, <2>2, <2>3, <2>4, <2>5
<1>2. ASSUME FreeStep
      PROVE  \E n \in held :
                /\ After(s, Put(f, 1, n))
                /\ held' = held \ {n} /\ OneNumber(list, list', n)
  <2>1. PICK n \in held :
          /\ Freed(list, list', class, n)
          /\ held' = held \ {n} /\ heap' = heap /\ lost' = lost
    BY <1>2 DEF FreeStep
  <2>2. Fits(list', class, s, Put(f, 1, n), heap', held', lost')
    BY <1>0, <2>1, Freeing
  <2>3. list'.BufferListCount <= list.BufferListCount /\ OneNumber(list, list', n)
    BY <1>0, <2>1 DEF Freed, SameBlock
  <2> QED
    BY <2>1, <2>2, <2>3, AfterIs
<1>3. ASSUME DeleteStep
      PROVE  \E n \in held :
                /\ After(s, f)
                /\ held' = held \ {n} /\ list'.NodeNumber = list.NodeNumber
  <2>1. PICK n \in held :
          /\ Deleting(list, list')
          /\ held' = held \ {n} /\ heap' = heap \ {n} /\ lost' = lost
    BY <1>3 DEF DeleteStep
  <2>2. Fits(list', class, s, f, heap', held', lost')
    BY <1>0, <2>1, DeletingOne
  <2>3. list'.BufferListCount <= list.BufferListCount /\ list'.NodeNumber = list.NodeNumber
    BY <1>0, <2>1 DEF Deleting, SameBlock
  <2> QED
    BY <2>1, <2>2, <2>3, AfterIs
<1>4. ASSUME PutStep
      PROVE  \E n \in held : \E k \in 1 .. Len(s) + 1 :
                /\ After(Put(s, k, n), f)
                /\ held' = held \ {n} /\ list'.NodeNumber = list.NodeNumber
  <2>1. PICK n \in held, k \in 1 .. Len(s) + 1 :
          /\ PutIn(list, list', class, s, k, n)
          /\ held' = held \ {n} /\ heap' = heap /\ lost' = lost
    BY <1>4 DEF PutStep, s
  <2>2. Fits(list', class, Put(s, k, n), f, heap', held', lost')
    BY <1>0, <2>1, Putting
  <2>3. list'.BufferListCount <= list.BufferListCount /\ list'.NodeNumber = list.NodeNumber
    BY <1>0, <2>1 DEF PutIn, SameBlock
  <2> QED
    BY <2>1, <2>2, <2>3, AfterIs
<1>5. ASSUME OrderStep
      PROVE  \E n \in held : \E k \in NodeNumbers :
                /\ After(Put(s, InOrderAt(list, s, k), n), f)
                /\ held' = held \ {n}
                /\ list'.NodeNumber = [list.NodeNumber EXCEPT ![n] = k]
                /\ InOrderAt(list, s, k) \in 1 .. Len(s) + 1
  <2>1. PICK n \in held, k \in NodeNumbers :
          /\ PutIn(Numbered(list, n, k), list', class, s, InOrderAt(list, s, k), n)
          /\ held' = held \ {n} /\ heap' = heap /\ lost' = lost
          /\ class \in DoublyClasses
    BY <1>5 DEF OrderStep, s
  <2>2. /\ Fits(Numbered(list, n, k), class, s, f, heap, held, lost)
        /\ Numbered(list, n, k).NodeNumber = [list.NodeNumber EXCEPT ![n] = k]
        /\ InOrderAt(list, s, k) \in 1 .. Len(s) + 1
    BY <1>0, <2>1, Numbering, OrderedInsert
  <2>3. Fits(list', class, Put(s, InOrderAt(list, s, k), n), f, heap', held', lost')
    BY <2>1, <2>2, Putting
  <2>4. list'.NodeNumber = [list.NodeNumber EXCEPT ![n] = k]
    BY <2>1, <2>2 DEF PutIn
  <2>5. list'.BufferListCount <= list.BufferListCount
    <3>1. Numbered(list, n, k).BufferListCount = list.BufferListCount
      BY <1>0 DEF Numbered, ListRecord
    <3> QED
      BY <1>0, <2>1, <3>1 DEF PutIn, SameBlock
  <2> QED
    BY <2>1, <2>2, <2>3, <2>4, <2>5, AfterIs
<1>6. ASSUME UnlinkStep
      PROVE  \E k \in 1 .. Len(s) :
                /\ After(Out(s, k), f)
                /\ held' = held \cup {s[k]}
                /\ list'.NodeNumber = list.NodeNumber
  <2>1. PICK k \in 1 .. Len(s) :
          /\ TakenOut(list, list', class, s, k)
          /\ held' = held \cup {s[k]} /\ heap' = heap /\ lost' = lost
    BY <1>6 DEF UnlinkStep, s
  <2>2. Fits(list', class, Out(s, k), f, heap', held', lost')
    BY <1>0, <2>1, TakingOut
  <2>3. list'.BufferListCount <= list.BufferListCount /\ list'.NodeNumber = list.NodeNumber
    BY <1>0, <2>1 DEF TakenOut, SameBlock
  <2> QED
    BY <2>1, <2>2, <2>3, AfterIs
<1>7. ASSUME ReleaseStep
      PROVE  After(<<>>, <<>>) /\ held' = {} /\ list'.NodeNumber = list.NodeNumber
  <2>1. /\ list.BufferListCount = 0
        /\ list' = EmptyList(list) /\ heap' = heap \ (NodesOf(s) \cup NodesOf(f))
        /\ held' = {} /\ lost' = lost \cup held
    BY <1>7 DEF ReleaseStep, Deleted, s, f
  <2>2. Fits(list', class, <<>>, <<>>, heap', held', lost')
    BY <1>0, <2>1, DeletingAll
  <2>3. list'.BufferListCount <= list.BufferListCount /\ list'.NodeNumber = list.NodeNumber
    BY <1>0, <2>1 DEF EmptyList, ListRecord
  <2> QED
    BY <2>1, <2>2, <2>3, AfterIs
<1> QED
  BY <1>1, <1>2, <1>3, <1>4, <1>5, <1>6, <1>7 DEF s, f

-----------------------------------------------------------------------------
(* The invariant. *)

LEMMA NewLists ==
    ASSUME NEW c \in ListClasses
    PROVE  /\ NewList(c) \in ListRecord
           /\ NewList(c) =
                [RawList EXCEPT
                   !.ObjectCountMax = IF Pooled(c) THEN Block ELSE 0,
                   !.BufferListCount = IF Pooled(c) THEN Block ELSE 0,
                   !.pBufferList = IF Pooled(c) THEN 1 ELSE NULL]
<1>1. RawList \in ListRecord
  <2>1. NULL \in Spot /\ NULL \in Nat /\ 0 \in NodeNumbers
    BY NumbersAssumption DEF Spot, NULL
  <2> QED
    BY <2>1 DEF RawList, ListRecord
<1> DEFINE r == RawList
<1>2. /\ r.pHeadNode = NULL /\ r.pTailNode = NULL /\ r.pFreeList = NULL /\ r.pBufferList = NULL
      /\ r.NodeUseCount = 0 /\ r.NodeLinkCount = 0 /\ r.FreeListCount = 0
      /\ r.ObjectCountMax = 0 /\ r.BufferListCount = 0
  BY DEF RawList
<1> HIDE DEF r
<1>3. Block \in Nat /\ Block > 0
  BY BlockAssumption, ListNodeMaxAssumption
<1>4. EmptyList(r) = r
  BY <1>1, <1>2 DEF EmptyList, ListRecord, r
<1> DEFINE New(max, count, buffer) ==
      [r EXCEPT !.ObjectCountMax = max, !.BufferListCount = count, !.pBufferList = buffer]
<1>5. ASSUME NEW max \in Nat, NEW count \in Nat, NEW buffer \in Nat
      PROVE  New(max, count, buffer) \in ListRecord
  BY <1>1 DEF ListRecord, r
<1>6. NULL \in Nat
  BY DEF NULL
<1>7. CASE Pooled(c)
  <2>1. NewList(c) = TMPSinglyListCreate(RawList, Block)
    BY <1>7 DEF Pooled, PooledClasses, NewList, TMPDoublyListCreate
  <2>2. @ = [r EXCEPT !.ObjectCountMax = Block, !.BufferListCount = Block,
                      !.pBufferList = 1]
    BY <1>1, <1>3, <1>4 DEF TMPSinglyListCreate, ListRecord, r
  <2>3. New(Block, Block, 1) \in ListRecord
    BY <1>3, <1>5
  <2> QED
    BY <1>7, <2>1, <2>2, <2>3 DEF r
<1>8. CASE ~Pooled(c)
  <2>1. NewList(c) = RawList
    BY <1>8, <1>4 DEF Pooled, PooledClasses, ListClasses, NewList, SinglyListCreate,
                      TSinglyListCreate, DoublyListCreate, TDoublyListCreate, r
  <2>2. r = [r EXCEPT !.ObjectCountMax = 0, !.BufferListCount = 0, !.pBufferList = NULL]
    BY <1>1, <1>2 DEF ListRecord, r
  <2> QED
    BY <1>1, <1>8, <2>1, <2>2 DEF r
<1> QED
  BY <1>7, <1>8

LEMMA FitsInit == ListsInit => FitsNow /\ Linked(list) = <<>> /\ FreeOnes(list) = <<>>
<1> SUFFICES ASSUME ListsInit
             PROVE  FitsNow /\ Linked(list) = <<>> /\ FreeOnes(list) = <<>>
  OBVIOUS
<1>1. /\ class \in ListClasses /\ list = NewList(class) /\ held = {} /\ lost = {}
      /\ heap = IF Pooled(class) THEN 1 .. Block ELSE {}
  BY DEF ListsInit, Pooled
<1>2. /\ list \in ListRecord
      /\ list = [RawList EXCEPT
                   !.ObjectCountMax = IF Pooled(class) THEN Block ELSE 0,
                   !.BufferListCount = IF Pooled(class) THEN Block ELSE 0,
                   !.pBufferList = IF Pooled(class) THEN 1 ELSE NULL]
  BY <1>1, NewLists
<1>3. /\ list.pHeadNode = NULL /\ list.pTailNode = NULL /\ list.pFreeList = NULL
      /\ list.NodeUseCount = 0 /\ list.NodeLinkCount = 0 /\ list.FreeListCount = 0
      /\ list.BufferListCount = IF Pooled(class) THEN Block ELSE 0
      /\ Pooled(class) => list.pBufferList = 1
      /\ \A n \in Node : list.pNext[n] = NULL /\ list.pPrev[n] = NULL
  BY <1>2 DEF RawList
<1>4. Block \in Nat /\ Block > 0 /\ 1 .. Block \subseteq Node
  BY BlockAssumption, ListNodeMaxAssumption DEF Node
<1>5. Unused(list) = heap
  <2>1. CASE Pooled(class)
    <3>1. 1 + Block - 1 = Block /\ Block # 0
      BY <1>4
    <3> QED
      BY <1>1, <1>3, <2>1, <3>1 DEF Unused
  <2>2. CASE ~Pooled(class)
    BY <1>1, <1>3, <2>2 DEF Unused
  <2> QED
    BY <2>1, <2>2
<1>6. NodesOf(<<>>) = {} /\ Len(<<>>) = 0 /\ <<>> \in Seq(Node)
  BY DEF NodesOf
<1>7. Represents(list, class, <<>>, <<>>)
  BY <1>3, <1>6 DEF Represents, Distinct, Threads, LastOf, Mirrors
<1>8. Elsewhere(list, class, <<>>, <<>>, heap, held, lost)
  <2>1. Cardinality({}) = 0
    BY FS_EmptySet
  <2>2. heap \subseteq Node
    BY <1>1, <1>4
  <2> QED
    BY <1>1, <1>3, <1>5, <1>6, <2>1, <2>2 DEF Elsewhere
<1>9. Fits(list, class, <<>>, <<>>, heap, held, lost)
  BY <1>1, <1>2, <1>4, <1>7, <1>8 DEF Fits
<1>10. Linked(list) = <<>> /\ FreeOnes(list) = <<>>
  BY <1>9, InOrder
<1> QED
  BY <1>3, <1>9, <1>10 DEF FitsNow

LEMMA ClassSteps ==
    ASSUME FitsNow, ListsNext
    PROVE  UseStep /\ class' = class
<1>1. class' = class
  BY DEF ListsNext
<1> SUFFICES UseStep
  BY <1>1
<1>2. CASE class = "SinglyList" /\ Singly!ListUseNext
  BY <1>2, SinglySteps
<1>3. CASE class = "TSinglyList" /\ TSingly!ListUseNext
  BY <1>3, TSinglySteps
<1>4. CASE class = "TMPSinglyList" /\ TMPSingly!ListUseNext
  BY <1>4, TMPSinglySteps
<1>5. CASE class = "DoublyList" /\ Doubly!ListUseNext
  BY <1>5, DoublySteps
<1>6. CASE class = "TDoublyList" /\ TDoubly!ListUseNext
  BY <1>6, TDoublySteps
<1>7. CASE class = "TMPDoublyList" /\ TMPDoubly!ListUseNext
  BY <1>7, TMPDoublySteps
<1> QED
  BY <1>1, <1>2, <1>3, <1>4, <1>5, <1>6, <1>7, Zenon DEF ListsNext

LEMMA FitsNext == FitsNow /\ [ListsNext]_listsVars => FitsNow'
<1> SUFFICES ASSUME FitsNow, [ListsNext]_listsVars
             PROVE  FitsNow'
  OBVIOUS
<1>1. CASE UNCHANGED listsVars
  BY <1>1, Zenon DEF listsVars, FitsNow, Fits, Represents, Elsewhere, Linked, FreeOnes
<1>2. CASE ListsNext
  <2>1. UseStep /\ class' = class
    BY <1>2, ClassSteps
  <2>2. CASE RefuseStep
    BY <2>1, <2>2, Zenon DEF RefuseStep, FitsNow, Linked, FreeOnes
  <2>3. CASE GetStep \/ FreeStep \/ DeleteStep \/ PutStep \/ OrderStep \/ UnlinkStep \/ ReleaseStep
    <3>1. \E s, f : After(s, f)
      BY <2>1, <2>3, Steps
    <3> QED
      BY <3>1 DEF After
  <2> QED
    BY <2>1, <2>2, <2>3 DEF UseStep
<1> QED
  BY <1>1, <1>2

LEMMA Together ==
    ASSUME NEW A, NEW B, IsFiniteSet(A), IsFiniteSet(B), A \cap B = {}
    PROVE  /\ IsFiniteSet(A \cup B)
           /\ Cardinality(A \cup B) = Cardinality(A) + Cardinality(B)
<1>1. /\ IsFiniteSet(A \cup B)
      /\ Cardinality(A \cup B) = Cardinality(A) + Cardinality(B) - Cardinality(A \cap B)
  BY FS_Union
<1>2. Cardinality(A \cap B) = 0
  BY FS_EmptySet
<1>3. Cardinality(A) \in Nat /\ Cardinality(B) \in Nat
  BY FS_CardinalityType
<1> QED
  BY <1>1, <1>2, <1>3

LEMMA FitsSound == FitsNow => ListsSound
<1> SUFFICES ASSUME FitsNow
             PROVE  ListsSound
  OBVIOUS
<1> DEFINE s == Linked(list)
           f == FreeOnes(list)
           u == Unused(list)
<1>0. Fits(list, class, s, f, heap, held, lost)
  BY DEF FitsNow
<1>1. /\ Represents(list, class, s, f) /\ Elsewhere(list, class, s, f, heap, held, lost)
      /\ held \in SUBSET Node /\ lost \in SUBSET Node /\ heap \in SUBSET Node
  BY <1>0 DEF Fits
<1>2. /\ list \in ListRecord /\ s \in Seq(Node) /\ f \in Seq(Node)
      /\ Len(s) \in Nat /\ Len(f) \in Nat
      /\ list.NodeLinkCount = Len(s) /\ list.FreeListCount = Len(f)
      /\ list.pTailNode = IF Len(s) = 0 THEN NULL ELSE s[Len(s)]
      /\ class \in DoublyClasses => \A i \in 1 .. Len(s) :
                 list.pPrev[s[i]] = IF i = 1 THEN NULL ELSE s[i - 1]
  BY <1>0, InOrder
<1> HIDE DEF s, f, u
<1>3. CountersExact
  BY <1>1, <1>2 DEF CountersExact, Elsewhere, s, f
<1>4. EndsAndMirror
  <2>1. s = <<>> <=> Len(s) = 0
    BY <1>2
  <2> QED
    BY <1>2, <2>1 DEF EndsAndMirror, s
<1>5. EachNodeInOnePlace
  <2>1. /\ held \cap lost = {} /\ (held \cup lost) \cap u = {}
        /\ (held \cup lost \cup u) \cap (NodesOf(s) \cup NodesOf(f)) = {}
        /\ NodesOf(s) \cap NodesOf(f) = {} /\ Distinct(s) /\ Distinct(f)
        /\ heap = NodesOf(s) \cup NodesOf(f) \cup held \cup lost \cup u
    BY <1>1 DEF Elsewhere, Represents, u
  <2>2. /\ NodesOf(s) \in SUBSET Node /\ NodesOf(f) \in SUBSET Node /\ u \in SUBSET Node
    BY <1>1, <1>2, <2>1, NodesAre
  <2>3. /\ Cardinality(NodesOf(s)) = Len(s) /\ Cardinality(NodesOf(f)) = Len(f)
    BY <1>2, <2>1, CountNodes
  <2>4. /\ IsFiniteSet(NodesOf(s)) /\ IsFiniteSet(NodesOf(f)) /\ IsFiniteSet(u)
        /\ IsFiniteSet(held) /\ IsFiniteSet(lost)
        /\ Cardinality(u) \in Nat /\ Cardinality(held) \in Nat /\ Cardinality(lost) \in Nat
    BY <1>1, <2>2, FiniteNodes
  <2>5. /\ IsFiniteSet(NodesOf(s) \cup NodesOf(f))
        /\ Cardinality(NodesOf(s) \cup NodesOf(f)) = Len(s) + Len(f)
    <3>1. /\ IsFiniteSet(NodesOf(s) \cup NodesOf(f))
          /\ Cardinality(NodesOf(s) \cup NodesOf(f))
               = Cardinality(NodesOf(s)) + Cardinality(NodesOf(f))
      BY <2>1, <2>4, Together
    <3> QED
      BY <2>3, <3>1
  <2>6. /\ IsFiniteSet(held \cup lost)
        /\ Cardinality(held \cup lost) = Cardinality(held) + Cardinality(lost)
    BY <2>1, <2>4, Together
  <2>7. /\ IsFiniteSet(held \cup lost \cup u)
        /\ Cardinality(held \cup lost \cup u)
             = Cardinality(held) + Cardinality(lost) + Cardinality(u)
    BY <2>1, <2>4, <2>6, Together
  <2>8. Cardinality((NodesOf(s) \cup NodesOf(f)) \cup (held \cup lost \cup u))
          = Len(s) + Len(f) + (Cardinality(held) + Cardinality(lost) + Cardinality(u))
    <3>1. (NodesOf(s) \cup NodesOf(f)) \cap (held \cup lost \cup u) = {}
      BY <2>1
    <3>2. Cardinality((NodesOf(s) \cup NodesOf(f)) \cup (held \cup lost \cup u))
            = Cardinality(NodesOf(s) \cup NodesOf(f)) + Cardinality(held \cup lost \cup u)
      BY <2>5, <2>7, <3>1, Together
    <3> QED
      BY <2>5, <2>7, <3>2
  <2>9. heap = (NodesOf(s) \cup NodesOf(f)) \cup (held \cup lost \cup u)
    BY <2>1
  <2>10. Cardinality(heap) = list.NodeLinkCount + list.FreeListCount
           + Cardinality(held) + Cardinality(lost) + Cardinality(u)
    BY <1>2, <2>4, <2>8, <2>9
  <2>11. heap = Deleted(list) \cup held \cup lost \cup u
    BY <2>9 DEF Deleted, s, f
  <2> QED
    BY <2>10, <2>11 DEF EachNodeInOnePlace, u, Unused
<1> QED
  BY <1>3, <1>4, <1>5 DEF ListsSound

\* Whatever the class and whatever its users do with it, the walk along pNext
\* from pHeadNode meets the NodeLinkCount linked nodes once each and ends at
\* pTailNode, the one from pFreeList meets the FreeListCount free ones, pPrev
\* is pNext backwards, NodeUseCount counts the nodes that are linked or held,
\* and no node is on two of the lists, the block's unused part included.
THEOREM ListsAreSound == ListsSpec => []ListsSound
<1>1. ListsInit => FitsNow
  BY FitsInit
<1>2. FitsNow /\ [ListsNext]_listsVars => FitsNow'
  BY FitsNext
<1>3. FitsNow => ListsSound
  BY FitsSound
<1> QED
  BY <1>1, <1>2, <1>3, PTL DEF ListsSpec

-----------------------------------------------------------------------------
(* The refinement: what a step does to the two sequences is a step of      *)
(* NodePool.                                                               *)

LEMMA PutAtIs ==
    ASSUME NEW s \in Seq(Node), NEW k \in 1 .. Len(s) + 1, NEW n \in Node
    PROVE  Pool!PutAt(s, k, n) = Put(s, k, n)
<1> DEFINE a == SubSeq(s, 1, k - 1)
           b == SubSeq(s, k, Len(s))
           p == a \o <<n>> \o b
<1>1. Len(s) \in Nat /\ k \in Nat
  OBVIOUS
<1>2. /\ a \in Seq(Node) /\ Len(a) = k - 1
      /\ \A i \in 1 .. k - 1 : a[i] = s[i]
  BY <1>1
<1>3. /\ b \in Seq(Node) /\ Len(b) = Len(s) - k + 1
      /\ \A i \in 1 .. Len(s) - k + 1 : b[i] = s[k - 1 + i]
  BY <1>1
<1>4. <<n>> \in Seq(Node) /\ Len(<<n>>) = 1 /\ <<n>>[1] = n
  OBVIOUS
<1> HIDE DEF a, b
<1>5. /\ a \o <<n>> \in Seq(Node) /\ Len(a \o <<n>>) = k
      /\ \A i \in 1 .. k : (a \o <<n>>)[i] = IF i < k THEN s[i] ELSE n
  BY <1>1, <1>2, <1>4
<1>6. /\ p \in Seq(Node) /\ Len(p) = Len(s) + 1
      /\ \A i \in 1 .. Len(s) + 1 :
           p[i] = IF i <= k THEN (a \o <<n>>)[i] ELSE b[i - k]
  BY <1>1, <1>3, <1>5, SMTT(40)
<1> HIDE DEF p
<1>7. \A i \in 1 .. Len(s) + 1 :
        p[i] = IF i < k THEN s[i] ELSE IF i = k THEN n ELSE s[i - 1]
  <2> SUFFICES ASSUME NEW i \in 1 .. Len(s) + 1
               PROVE  p[i] = IF i < k THEN s[i] ELSE IF i = k THEN n ELSE s[i - 1]
    OBVIOUS
  <2>1. CASE i <= k
    BY <1>1, <1>5, <1>6, <2>1, SMTT(40)
  <2>2. CASE i > k
    <3>1. i - k \in 1 .. Len(s) - k + 1 /\ k - 1 + (i - k) = i - 1
      BY <1>1, <2>2
    <3>2. p[i] = b[i - k] /\ b[i - k] = s[k - 1 + (i - k)]
      BY <1>1, <1>3, <1>6, <2>2, <3>1
    <3> QED
      BY <1>1, <2>2, <3>1, <3>2
  <2> QED
    BY <1>1, <2>1, <2>2
<1>8. p = [i \in 1 .. Len(s) + 1 |-> IF i < k THEN s[i] ELSE IF i = k THEN n ELSE s[i - 1]]
  BY <1>1, <1>6, <1>7
<1> QED
  BY <1>8 DEF Pool!PutAt, Put, p, a, b

LEMMA LeaveOutIs ==
    ASSUME NEW s \in Seq(Node), NEW k \in 1 .. Len(s)
    PROVE  Pool!LeaveOut(s, k) = Out(s, k)
<1> DEFINE a == SubSeq(s, 1, k - 1)
           b == SubSeq(s, k + 1, Len(s))
           p == a \o b
<1>1. Len(s) \in Nat /\ k \in Nat
  OBVIOUS
<1>2. /\ a \in Seq(Node) /\ Len(a) = k - 1
      /\ \A i \in 1 .. k - 1 : a[i] = s[i]
  BY <1>1
<1>3. /\ b \in Seq(Node) /\ Len(b) = Len(s) - k
      /\ \A i \in 1 .. Len(s) - k : b[i] = s[k + i]
  BY <1>1
<1> HIDE DEF a, b
<1>4. /\ p \in Seq(Node) /\ Len(p) = Len(s) - 1
      /\ \A i \in 1 .. Len(s) - 1 :
           p[i] = IF i <= k - 1 THEN a[i] ELSE b[i - (k - 1)]
  <2>1. /\ p \in Seq(Node) /\ Len(p) = Len(a) + Len(b)
        /\ \A i \in 1 .. Len(a) : p[i] = a[i]
        /\ \A i \in 1 .. Len(b) : p[Len(a) + i] = b[i]
    <3>1. a \in Seq(Node) /\ b \in Seq(Node)
      BY <1>2, <1>3
    <3> QED
      BY <3>1, Joined
  <2>2. ASSUME NEW i \in 1 .. Len(s) - 1, i > k - 1
        PROVE  p[i] = b[i - (k - 1)]
    <3>1. i - (k - 1) \in 1 .. Len(b) /\ Len(a) + (i - (k - 1)) = i
      BY <1>1, <1>2, <1>3, <2>2
    <3> QED
      BY <2>1, <3>1
  <2>3. \A i \in 1 .. Len(s) - 1 : i <= k - 1 => i \in 1 .. Len(a)
    BY <1>1, <1>2
  <2>4. ASSUME NEW i \in 1 .. Len(s) - 1
        PROVE  p[i] = IF i <= k - 1 THEN a[i] ELSE b[i - (k - 1)]
    <3>1. CASE i <= k - 1
      BY <2>1, <2>3, <3>1
    <3>2. CASE ~(i <= k - 1)
      <4>1. i > k - 1
        BY <1>1, <3>2
      <4> QED
        BY <2>2, <3>2, <4>1
    <3> QED
      BY <3>1, <3>2
  <2>5. Len(a) + Len(b) = Len(s) - 1
    BY <1>1, <1>2, <1>3
  <2> QED
    BY <2>1, <2>4, <2>5
<1> HIDE DEF p
<1>5. \A i \in 1 .. Len(s) - 1 : p[i] = IF i < k THEN s[i] ELSE s[i + 1]
  BY <1>1, <1>2, <1>3, <1>4
<1>6. p = [i \in 1 .. Len(s) - 1 |-> IF i < k THEN s[i] ELSE s[i + 1]]
  <2>1. p \in Seq(Node) /\ Len(p) = Len(s) - 1
    BY <1>4
  <2>2. p = [i \in 1 .. Len(s) - 1 |-> p[i]]
    BY <2>1, SMTT(40)
  <2> QED
    BY <1>5, <2>2, Zenon
<1> QED
  BY <1>6 DEF Pool!LeaveOut, Out, p, a, b

\* Both ends of the free list.
LEMMA FreeEnds ==
    ASSUME NEW f \in Seq(Node)
    PROVE  /\ \A n \in Node : Put(f, 1, n) = <<n>> \o f
           /\ f # <<>> => f[1] = Head(f) /\ Left(f) = Tail(f)
           /\ f = <<>> => Left(f) = f
<1>1. Len(f) \in Nat /\ (f = <<>> <=> Len(f) = 0)
  OBVIOUS
<1>2. ASSUME NEW n \in Node
      PROVE  Put(f, 1, n) = <<n>> \o f
  <2>1. /\ <<n>> \o f \in Seq(Node) /\ Len(<<n>> \o f) = Len(f) + 1
        /\ \A i \in 1 .. Len(f) + 1 : (<<n>> \o f)[i] = IF i = 1 THEN n ELSE f[i - 1]
    BY <1>1
  <2>2. <<n>> \o f = [i \in 1 .. Len(f) + 1 |-> IF i = 1 THEN n ELSE f[i - 1]]
    BY <1>1, <2>1
  <2> QED
    BY <1>1, <2>2 DEF Put
<1>3. ASSUME f # <<>>
      PROVE  f[1] = Head(f) /\ Left(f) = Tail(f)
  <2> DEFINE t == Tail(f)
  <2>1. /\ t \in Seq(Node) /\ Len(t) = Len(f) - 1
        /\ \A i \in 1 .. Len(f) - 1 : t[i] = f[i + 1]
    <3>1. /\ Tail(f) \in Seq(Node) /\ Len(Tail(f)) = Len(f) - 1
          /\ \A i \in 1 .. Len(Tail(f)) : Tail(f)[i] = f[i + 1]
      BY <1>3, HeadTailProperties
    <3> QED
      BY <3>1
  <2> HIDE DEF t
  <2>2. t = [i \in 1 .. Len(f) - 1 |-> f[i + 1]]
    BY <1>1, <2>1
  <2>3. Out(f, 1) = [i \in 1 .. Len(f) - 1 |-> f[i + 1]]
    BY <1>1 DEF Out
  <2> QED
    BY <1>1, <1>3, <2>2, <2>3 DEF Left, t
<1> QED
  BY <1>1, <1>2, <1>3 DEF Left

LEMMA PoolSteps ==
    ASSUME FitsNow, FitsNow', UseStep, class' = class
    PROVE  [Pool!PoolNext]_(Pool!poolVars)
<1> DEFINE s == Linked(list)
           f == FreeOnes(list)
           num == list.NodeNumber
<1>0. /\ s \in Seq(Node) /\ f \in Seq(Node) /\ held \in SUBSET Node /\ Len(s) \in Nat
      /\ num \in [Node -> NodeNumbers]
  <2>1. /\ list \in ListRecord /\ s \in Seq(Node) /\ f \in Seq(Node) /\ Len(s) \in Nat
    BY InOrder DEF FitsNow
  <2> QED
    BY <2>1, Members DEF FitsNow, Fits
<1>1. CASE GetStep
  <2>1. PICK n \in Node :
          /\ n \notin NodesOf(s) \cup held
          /\ f # <<>> => n = f[1]
          /\ After(s, Left(f))
          /\ held' = held \cup {n} /\ OneNumber(list, list', n)
    BY <1>1, Steps
  <2>2. list'.NodeNumber \in {[num EXCEPT ![n] = k] : k \in NodeNumbers}
    BY <2>1 DEF OneNumber
  <2>3. f # <<>> => n = Head(f)
    BY <1>0, <2>1, FreeEnds
  <2>4. Linked(list)' = s /\ FreeOnes(list)' = IF f = <<>> THEN f ELSE Tail(f)
    BY <1>0, <2>1, FreeEnds DEF After
  <2>5. Pool!Take(n)
    BY <2>1, <2>2, <2>3, <2>4 DEF Pool!Take, Pool!SeqSet, NodesOf
  <2> QED
    BY <2>5 DEF Pool!PoolNext
<1>2. CASE FreeStep
  <2>1. PICK n \in held :
          /\ After(s, Put(f, 1, n))
          /\ held' = held \ {n} /\ OneNumber(list, list', n)
    BY <1>2, Steps
  <2>2. list'.NodeNumber \in {[num EXCEPT ![n] = k] : k \in NodeNumbers}
    BY <2>1 DEF OneNumber
  <2>3. Linked(list)' = s /\ FreeOnes(list)' = <<n>> \o f /\ n \in Node
    BY <1>0, <2>1, FreeEnds DEF After
  <2>4. Pool!GiveBack(n)
    BY <2>1, <2>2, <2>3 DEF Pool!GiveBack
  <2> QED
    BY <2>3, <2>4 DEF Pool!PoolNext
<1>3. CASE DeleteStep
  <2>1. PICK n \in held :
          /\ After(s, f)
          /\ held' = held \ {n} /\ list'.NodeNumber = list.NodeNumber
    BY <1>3, Steps
  <2>2. n \in Node /\ num = [num EXCEPT ![n] = num[n]] /\ num[n] \in NodeNumbers
    BY <1>0, <2>1
  <2>3. list'.NodeNumber \in {[num EXCEPT ![n] = k] : k \in NodeNumbers}
    BY <2>1, <2>2
  <2>4. Linked(list)' = s /\ FreeOnes(list)' = f
    BY <2>1 DEF After
  <2>5. Pool!GiveBack(n)
    BY <2>1, <2>3, <2>4 DEF Pool!GiveBack
  <2> QED
    BY <2>2, <2>5 DEF Pool!PoolNext
<1>4. CASE PutStep
  <2>1. PICK n \in held, k \in 1 .. Len(s) + 1 :
          /\ After(Put(s, k, n), f)
          /\ held' = held \ {n} /\ list'.NodeNumber = list.NodeNumber
    BY <1>4, Steps
  <2>2. n \in Node /\ Linked(list)' = Pool!PutAt(s, k, n) /\ FreeOnes(list)' = f
    BY <1>0, <2>1, PutAtIs DEF After
  <2>3. Pool!InsertAnywhere(n)
    BY <2>1, <2>2 DEF Pool!InsertAnywhere, Pool!PutIn
  <2> QED
    BY <2>2, <2>3 DEF Pool!PoolNext
<1>5. CASE OrderStep
  <2>1. PICK n \in held, k \in NodeNumbers :
          /\ After(Put(s, InOrderAt(list, s, k), n), f)
          /\ held' = held \ {n}
          /\ list'.NodeNumber = [list.NodeNumber EXCEPT ![n] = k]
          /\ InOrderAt(list, s, k) \in 1 .. Len(s) + 1
    BY <1>5, Steps
  <2>2. /\ n \in Node /\ FreeOnes(list)' = f
        /\ Linked(list)' = Pool!PutAt(s, InOrderAt(list, s, k), n)
    BY <1>0, <2>1, PutAtIs DEF After
  <2>3. Pool!InsertInOrder(n, k)
    BY <2>1, <2>2, Zenon DEF Pool!InsertInOrder, Pool!PutIn, InOrderAt, Greater
  <2> QED
    BY <2>1, <2>2, <2>3 DEF Pool!PoolNext
<1>6. CASE UnlinkStep
  <2>1. PICK k \in 1 .. Len(s) :
          /\ After(Out(s, k), f)
          /\ held' = held \cup {s[k]}
          /\ list'.NodeNumber = list.NodeNumber
    BY <1>6, Steps
  <2>2. s[k] \in Node /\ Linked(list)' = Pool!LeaveOut(s, k) /\ FreeOnes(list)' = f
    BY <1>0, <2>1, LeaveOutIs DEF After
  <2>3. Pool!TakeOut(s[k])
    BY <2>1, <2>2 DEF Pool!TakeOut
  <2> QED
    BY <2>2, <2>3 DEF Pool!PoolNext
<1>7. CASE RefuseStep
  BY <1>7, Zenon DEF RefuseStep, Pool!poolVars, Linked, FreeOnes
<1>8. CASE ReleaseStep
  <2>1. After(<<>>, <<>>) /\ held' = {} /\ list'.NodeNumber = list.NodeNumber
    BY <1>8, Steps
  <2>2. Pool!Drop
    BY <2>1 DEF Pool!Drop, After
  <2> QED
    BY <2>2 DEF Pool!PoolNext
<1> QED
  BY <1>1, <1>2, <1>3, <1>4, <1>5, <1>6, <1>7, <1>8 DEF UseStep

\* Every operation of every list class is, on the sequence of its linked nodes
\* and that of its free ones, the operation of a NodePool or leaves both as
\* they were: LinkToTail appends, LinkInsertOrderWithNumber puts a node before
\* the first greater one, Unlink takes the k-th out, GetNode and FreeNode take
\* from the free list and give back to it.
THEOREM ListsAreNodePools == ListsSpec => ListsImplementNodePool
<1>1. ListsInit => FitsNow /\ Pool!PoolInit
  <2> SUFFICES ASSUME ListsInit
               PROVE  FitsNow /\ Pool!PoolInit
    OBVIOUS
  <2>1. FitsNow /\ Linked(list) = <<>> /\ FreeOnes(list) = <<>>
    BY FitsInit
  <2>2. list.NodeNumber \in [Node -> NodeNumbers]
    BY <2>1, Members DEF FitsNow, Fits
  <2>3. held = {}
    BY DEF ListsInit
  <2> QED
    BY <2>1, <2>2, <2>3 DEF Pool!PoolInit
<1>2. FitsNow /\ [ListsNext]_listsVars => FitsNow'
  BY FitsNext
<1>3. FitsNow /\ FitsNow' /\ [ListsNext]_listsVars => [Pool!PoolNext]_(Pool!poolVars)
  <2> SUFFICES ASSUME FitsNow, FitsNow', [ListsNext]_listsVars
               PROVE  [Pool!PoolNext]_(Pool!poolVars)
    OBVIOUS
  <2>1. CASE UNCHANGED listsVars
    BY <2>1, Zenon DEF listsVars, Pool!poolVars, Linked, FreeOnes
  <2>2. CASE ListsNext
    BY <2>2, ClassSteps, PoolSteps
  <2> QED
    BY <2>1, <2>2
<1> QED
  BY <1>1, <1>2, <1>3, PTL DEF ListsSpec, ListsImplementNodePool, Pool!PoolSpec

-------------------------------------------------------------------------------
(* The memory pool: every step of its shared variables is a step of its own.  *)

Pieces == [at : Nat, len : Nat, to : PoolUser, no : Nat]
Asking == [at : {"out", "block", "move", "length", "extra", "link"},
           len : Nat, block : Nat, reg : Nat]

MemoryTypes ==
  /\ spBuffer \in BOOLEAN /\ raced \in BOOLEAN
  /\ sBufferByteMax \in Nat
  /\ spNowBufferPositionLink \in Nat /\ sNowBufferUseLength \in Nat
  /\ spExtraBufferHead \in Nat
  /\ extraNext \in [Buffer -> Nat] /\ extraAlive \in SUBSET Buffer
  /\ askPc \in [PoolUser -> Asking]
  /\ given \in SUBSET Pieces
  /\ asked \in 0 .. AskMax

\* One thread asks at a time, once the pool is there.
OneAsks ==
  /\ \A t, u \in PoolUser : askPc[t].at # "out" /\ askPc[u].at # "out" => t = u
  /\ \A t \in PoolUser : askPc[t].at # "out" => spBuffer

\* Every piece handed out ends where the rest of the block begins or before,
\* and what a thread that takes the next one has copied is still true.
BlockOK ==
  /\ ~spBuffer => given = {}
  /\ sNowBufferUseLength <= sBufferByteMax
  /\ \A p \in given : p.at + p.len <= sNowBufferUseLength
  /\ \A p, q \in given : p # q => p.at + p.len <= q.at \/ q.at + q.len <= p.at
  /\ (\A t \in PoolUser : askPc[t].at # "length") =>
       spNowBufferPositionLink = sNowBufferUseLength
  /\ \A t \in PoolUser :
       /\ askPc[t].at \in {"block", "move", "length"} =>
            sNowBufferUseLength + askPc[t].len <= sBufferByteMax
       /\ askPc[t].at \in {"move", "length"} => askPc[t].block = sNowBufferUseLength
       /\ askPc[t].at = "move" => askPc[t].reg = sNowBufferUseLength
       /\ askPc[t].at = "length" =>
            /\ askPc[t].reg = sNowBufferUseLength
            /\ spNowBufferPositionLink = sNowBufferUseLength + askPc[t].len

\* s is what is linked from head on, the oldest first.
LinkedUp(next, head, s) ==
  /\ head = IF Len(s) = 0 THEN 0 ELSE s[Len(s)]
  /\ \A i \in 1 .. Len(s) : next[s[i]] = IF i = 1 THEN 0 ELSE s[i - 1]

BuffersIn(s) == {s[i] : i \in 1 .. Len(s)}

\* The extra buffers are linked, but for the one that a thread is about to link.
ExtrasIn(s) ==
  /\ LinkedUp(extraNext, spExtraBufferHead, s)
  /\ (\A t \in PoolUser : askPc[t].at # "link") => extraAlive = BuffersIn(s)
  /\ \A t \in PoolUser : askPc[t].at = "link" =>
       /\ askPc[t].reg \in Buffer \ BuffersIn(s)
       /\ extraAlive = BuffersIn(s) \cup {askPc[t].reg}
       /\ extraNext[askPc[t].reg] = spExtraBufferHead
  /\ Len(s) <= asked
  /\ \A t \in PoolUser : askPc[t].at \in {"extra", "link"} => Len(s) < asked

ExtrasOK ==
  /\ ~spBuffer => extraAlive = {}
  /\ \E s \in Seq(Buffer) : ExtrasIn(s)

MemoryInv == MemoryTypes /\ (raced \/ (OneAsks /\ BlockOK /\ ExtrasOK))

\* What ExtraLinked computes, of any pointers.
Reached(next, head) ==
  LET reach[k \in 0 .. AskMax] ==
        IF k = 0 THEN {head} \ {0}
        ELSE reach[k - 1] \cup ({next[b] : b \in reach[k - 1]} \ {0})
  IN  reach[AskMax]

\* What is in a sequence of buffers.
LEMMA BuffersAre ==
    ASSUME NEW s \in Seq(Buffer)
    PROVE  /\ Len(s) \in Nat /\ BuffersIn(s) \in SUBSET Buffer
           /\ \A i \in 1 .. Len(s) : s[i] \in Buffer /\ s[i] \in Nat \ {0}
           /\ \A i \in 1 .. Len(s) : s[i] \in BuffersIn(s)
           /\ \A b \in BuffersIn(s) : \E i \in 1 .. Len(s) : s[i] = b
<1>1. Len(s) \in Nat /\ \A i \in 1 .. Len(s) : s[i] \in Buffer
  BY LenProperties, ElementOfSeq
<1>2. Buffer \subseteq Nat \ {0}
  BY DEF Buffer
<1> QED
  BY <1>1, <1>2 DEF BuffersIn

\* A walk from the head meets what is linked: after k steps, the k + 1 newest.
LEMMA ReachedIs ==
    ASSUME NEW next, NEW head, NEW s \in Seq(Buffer),
           LinkedUp(next, head, s), Len(s) <= AskMax
    PROVE  Reached(next, head) = BuffersIn(s)
<1> DEFINE Newest(k) == {s[i] : i \in {j \in 1 .. Len(s) : Len(s) - j <= k}}
           Is(reach) == reach = [k \in 0 .. AskMax |->
              IF k = 0 THEN {head} \ {0}
              ELSE reach[k - 1] \cup ({next[b] : b \in reach[k - 1]} \ {0})]
           walk == [k \in 0 .. AskMax |-> Newest(k)]
<1>0. /\ Len(s) \in Nat /\ AskMax \in Nat
      /\ \A i \in 1 .. Len(s) : s[i] \in Nat \ {0}
  BY BuffersAre, PoolAssumption
<1>1. Newest(0) = {head} \ {0}
  <2>1. CASE Len(s) = 0
    <3>1. Newest(0) = {} /\ head = 0
      BY <2>1 DEF LinkedUp
    <3> QED
      BY <3>1
  <2>2. CASE Len(s) # 0
    <3>1. head = s[Len(s)] /\ Len(s) \in 1 .. Len(s)
      BY <1>0, <2>2 DEF LinkedUp
    <3>2. {j \in 1 .. Len(s) : Len(s) - j <= 0} = {Len(s)}
      BY <1>0, <2>2
    <3>3. Newest(0) = {s[Len(s)]}
      BY <3>2
    <3> QED
      BY <1>0, <3>1, <3>3
  <2> QED
    BY <2>1, <2>2
<1>2. ASSUME NEW k \in Nat \ {0}
      PROVE  Newest(k) = Newest(k - 1) \cup ({next[b] : b \in Newest(k - 1)} \ {0})
  <2>1. ASSUME NEW j \in 1 .. Len(s), Len(s) - j = k
        PROVE  \E b \in Newest(k - 1) : s[j] = next[b] /\ s[j] # 0
    <3>1. j + 1 \in 1 .. Len(s) /\ Len(s) - (j + 1) <= k - 1 /\ j + 1 # 1
      BY <1>0, <2>1
    <3>2. s[j + 1] \in Newest(k - 1)
      BY <3>1
    <3>3. next[s[j + 1]] = s[j + 1 - 1] /\ j + 1 - 1 = j
      BY <3>1 DEF LinkedUp
    <3> QED
      BY <1>0, <3>2, <3>3
  <2>2. ASSUME NEW b \in Newest(k - 1), next[b] # 0
        PROVE  next[b] \in Newest(k)
    <3>1. PICK i \in 1 .. Len(s) : Len(s) - i <= k - 1 /\ b = s[i]
      OBVIOUS
    <3>2. next[s[i]] = IF i = 1 THEN 0 ELSE s[i - 1]
      BY DEF LinkedUp
    <3>3. i # 1 /\ next[b] = s[i - 1]
      BY <2>2, <3>1, <3>2
    <3>4. i - 1 \in 1 .. Len(s) /\ Len(s) - (i - 1) <= k
      BY <1>0, <3>1, <3>3
    <3> QED
      BY <3>3, <3>4
  <2>3. Newest(k - 1) \subseteq Newest(k)
    BY <1>0
  <2>4. ASSUME NEW b \in Newest(k)
        PROVE  b \in Newest(k - 1) \cup ({next[c] : c \in Newest(k - 1)} \ {0})
    <3>1. PICK j \in 1 .. Len(s) : Len(s) - j <= k /\ b = s[j]
      OBVIOUS
    <3>2. CASE Len(s) - j <= k - 1
      BY <3>1, <3>2
    <3>3. CASE Len(s) - j = k
      <4> HIDE DEF Newest
      <4> QED
        BY <2>1, <3>1, <3>3
    <3>4. Len(s) - j <= k - 1 \/ Len(s) - j = k
      BY <1>0, <3>1
    <3> QED
      BY <3>2, <3>3, <3>4
  <2> HIDE DEF Newest
  <2> QED
    BY <2>2, <2>3, <2>4
<1>3. Is(walk)
  <2>1. ASSUME NEW k \in 0 .. AskMax
        PROVE  walk[k] = IF k = 0 THEN {head} \ {0}
                 ELSE walk[k - 1] \cup ({next[b] : b \in walk[k - 1]} \ {0})
    <3>1. walk[k] = Newest(k)
      OBVIOUS
    <3>2. CASE k = 0
      BY <1>1, <3>1, <3>2
    <3>3. CASE k # 0
      <4>1. k \in Nat \ {0} /\ k - 1 \in 0 .. AskMax
        BY <1>0, <3>3
      <4>2. walk[k - 1] = Newest(k - 1)
        BY <4>1
      <4> HIDE DEF Newest, walk
      <4> QED
        BY <1>2, <3>1, <3>3, <4>1, <4>2
    <3> QED
      BY <3>2, <3>3
  <2>2. DOMAIN walk = 0 .. AskMax /\ walk = [k \in 0 .. AskMax |-> walk[k]]
    OBVIOUS
  <2> HIDE DEF walk, Newest
  <2> QED
    BY <2>1, <2>2
<1>4. Is(CHOOSE reach : Is(reach))
  <2> HIDE DEF Is, walk
  <2> QED
    BY <1>3, Zenon
<1>5. PICK reach : Is(reach) /\ Reached(next, head) = reach[AskMax]
  BY <1>4, Zenon DEF Reached
<1> DEFINE T == {k \in Nat : k <= AskMax => reach[k] = Newest(k)}
<1>6. 0 \in T
  <2>1. 0 \in 0 .. AskMax
    BY <1>0
  <2>2. reach[0] = {head} \ {0}
    BY <1>5, <2>1
  <2> HIDE DEF Newest
  <2> QED
    BY <1>1, <2>2
<1>7. ASSUME NEW k \in Nat, k \in T
      PROVE  k + 1 \in T
  <2> SUFFICES ASSUME k + 1 <= AskMax
               PROVE  reach[k + 1] = Newest(k + 1)
    OBVIOUS
  <2>1. k + 1 \in 0 .. AskMax /\ k + 1 # 0 /\ k + 1 \in Nat \ {0}
        /\ (k + 1) - 1 = k /\ k <= AskMax
    BY <1>0
  <2>2. reach[k + 1] = reach[(k + 1) - 1] \cup ({next[b] : b \in reach[(k + 1) - 1]} \ {0})
    BY <1>5, <2>1
  <2>3. reach[k] = Newest(k)
    BY <1>7, <2>1
  <2>4. Newest(k + 1) = Newest((k + 1) - 1) \cup
                          ({next[b] : b \in Newest((k + 1) - 1)} \ {0})
    BY <1>2, <2>1
  <2> HIDE DEF Newest
  <2> QED
    BY <2>1, <2>2, <2>3, <2>4
<1>8. AskMax \in T
  <2> HIDE DEF T
  <2>1. Nat \subseteq T
    BY <1>6, <1>7, AllNaturals
  <2> QED
    BY <1>0, <2>1
<1>9. Newest(AskMax) = BuffersIn(s)
  <2>1. {j \in 1 .. Len(s) : Len(s) - j <= AskMax} = 1 .. Len(s)
    BY <1>0
  <2> QED
    BY <2>1 DEF BuffersIn
<1> QED
  BY <1>0, <1>5, <1>8, <1>9, SMTT(40)

\* The invariant holds at the start.
LEMMA MemoryInitOK == MemoryInit => MemoryInv
<1> SUFFICES ASSUME MemoryInit PROVE MemoryInv
  OBVIOUS
<1>1. MemoryTypes
  <2>1. Outside \in Asking
    BY DEF Outside, Asking
  <2>2. /\ askPc \in [PoolUser -> Asking] /\ extraNext \in [Buffer -> Nat]
        /\ given = {} /\ extraAlive = {} /\ asked \in 0 .. AskMax
    BY <2>1, PoolAssumption DEF MemoryInit
  <2>3. spBuffer \in BOOLEAN /\ raced \in BOOLEAN
    BY Zenon DEF MemoryInit
  <2>4. 0 \in Nat /\ sBufferByteMax = 0 /\ spNowBufferPositionLink = 0
        /\ sNowBufferUseLength = 0 /\ spExtraBufferHead = 0
    BY DEF MemoryInit
  <2> QED
    BY <2>2, <2>3, <2>4 DEF MemoryTypes
<1>2. OneAsks /\ BlockOK
  BY DEF MemoryInit, OneAsks, BlockOK, Outside
<1>3. ExtrasOK
  <2>1. <<>> \in Seq(Buffer) /\ Len(<<>>) = 0 /\ BuffersIn(<<>>) = {}
    BY DEF BuffersIn
  <2>2. ExtrasIn(<<>>)
    BY <2>1 DEF MemoryInit, ExtrasIn, LinkedUp, Outside
  <2> QED
    BY <2>1, <2>2 DEF ExtrasOK, MemoryInit
<1> QED
  BY <1>1, <1>2, <1>3 DEF MemoryInv

\* A thread that has just asked.
LEMMA AskingFor ==
    ASSUME NEW len \in Nat, NEW w \in {"extra", "block"}
    PROVE  [Outside EXCEPT !.len = len, !.at = w] \in Asking
BY DEF Outside, Asking

\* The type is kept by each step.
LEMMA MemoryTypesKept ==
    ASSUME MemoryTypes, [MemoryNext]_memoryVars
    PROVE  MemoryTypes'
<1> USE DEF MemoryTypes
<1>0. /\ Buffer \subseteq Nat \ {0} /\ PoolBytes \in Nat /\ AskMax \in Nat
      /\ Outside \in Asking
      /\ TRUE \in BOOLEAN /\ FALSE \in BOOLEAN
  BY PoolAssumption DEF Buffer, Outside, Asking
<1>1. CASE UNCHANGED memoryVars
  BY <1>1 DEF memoryVars, poolState, blockVars, extraVars
<1>2. CASE sMemoryPoolCreate
  BY <1>0, <1>2, Zenon DEF sMemoryPoolCreate, extraVars
<1>3. CASE sMemoryPoolRelease
  <2>1. extraAlive \ ExtraLinked \in SUBSET Buffer
    BY Zenon
  <2> HIDE DEF MemoryTypes
  <2> QED
    BY <1>0, <1>3, <2>1, Zenon DEF sMemoryPoolRelease, MemoryTypes
<1>4. ASSUME NEW t \in PoolUser, NEW len \in 1 .. 2, sMemoryAllocate(t, len)
      PROVE  MemoryTypes'
  <2>1. asked' \in 0 .. AskMax
    BY <1>0, <1>4 DEF sMemoryAllocate
  <2>2. [Outside EXCEPT !.len = len,
          !.at = IF sNowBufferUseLength + len > sBufferByteMax
                 THEN "extra" ELSE "block"] \in Asking
    <3> DEFINE w == IF sNowBufferUseLength + len > sBufferByteMax
                    THEN "extra" ELSE "block"
    <3>1. w \in {"extra", "block"}
      OBVIOUS
    <3> HIDE DEF w
    <3>4. [Outside EXCEPT !.len = len, !.at = w] \in Asking
      <4>1. len \in Nat
        OBVIOUS
      <4> QED
        BY <3>1, <4>1, AskingFor, Zenon
    <3> QED
      BY <3>4 DEF w
  <2>3. askPc' \in [PoolUser -> Asking]
    BY <1>4, <2>2 DEF sMemoryAllocate
  <2>4. raced' \in BOOLEAN
    BY <1>4, Zenon DEF sMemoryAllocate
  <2> QED
    BY <1>4, <2>1, <2>3, <2>4, Zenon DEF sMemoryAllocate, poolState, blockVars, extraVars
<1>5. ASSUME NEW t \in PoolUser, TakeBlock(t)
      PROVE  MemoryTypes'
  <2>1. askPc' \in [PoolUser -> Asking]
    <3>1. askPc[t] \in Asking
      OBVIOUS
    <3>2. [askPc[t] EXCEPT !.at = "move", !.block = spNowBufferPositionLink,
                           !.reg = spNowBufferPositionLink] \in Asking
      BY <3>1 DEF Asking
    <3> QED
      BY <1>5, <3>2 DEF TakeBlock
  <2> QED
    BY <1>5, <2>1, Zenon DEF TakeBlock, poolState, blockVars, extraVars
<1>6. ASSUME NEW t \in PoolUser, MovePosition(t)
      PROVE  MemoryTypes'
  <2>1. askPc[t] \in Asking
    OBVIOUS
  <2>2. askPc' \in [PoolUser -> Asking]
    BY <1>6 DEF MovePosition, Goto, Asking
  <2>3. spNowBufferPositionLink' \in Nat
    BY <1>6, <2>1 DEF MovePosition, Asking
  <2> QED
    BY <1>6, <2>2, <2>3, Zenon DEF MovePosition, poolState, extraVars
<1>7. ASSUME NEW t \in PoolUser, AddLength(t)
      PROVE  MemoryTypes'
  <2>1. askPc[t] \in Asking
    OBVIOUS
  <2>2. askPc' \in [PoolUser -> Asking]
    BY <1>0, <1>7 DEF AddLength
  <2>3. sNowBufferUseLength' \in Nat
    BY <1>7, <2>1 DEF AddLength, Asking
  <2>4. [at |-> askPc[t].block, len |-> askPc[t].len, to |-> t, no |-> asked] \in Pieces
    BY <1>0, <2>1 DEF Asking, Pieces
  <2>5. given' \in SUBSET Pieces
    BY <1>7, <2>4, Zenon DEF AddLength
  <2> QED
    BY <1>7, <2>2, <2>3, <2>5, Zenon DEF AddLength, poolState, extraVars
<1>8. ASSUME NEW t \in PoolUser, NewExtra(t)
      PROVE  MemoryTypes'
  <2>1. PICK b \in Buffer \ extraAlive :
          /\ extraAlive' = extraAlive \cup {b}
          /\ extraNext' = [extraNext EXCEPT ![b] = spExtraBufferHead]
          /\ Goto(t, "link", b)
    BY <1>8, Zenon DEF NewExtra
  <2>2. askPc' \in [PoolUser -> Asking]
    BY <1>0, <2>1 DEF Goto, Asking
  <2>3. extraNext' \in [Buffer -> Nat] /\ extraAlive' \in SUBSET Buffer
    BY <2>1
  <2> QED
    BY <1>8, <2>2, <2>3, Zenon DEF NewExtra, poolState, blockVars
<1>9. ASSUME NEW t \in PoolUser, LinkExtra(t)
      PROVE  MemoryTypes'
  <2>1. askPc[t] \in Asking
    OBVIOUS
  <2>2. askPc' \in [PoolUser -> Asking]
    BY <1>0, <1>9 DEF LinkExtra
  <2>3. spExtraBufferHead' \in Nat
    BY <1>9, <2>1 DEF LinkExtra, Asking
  <2> QED
    BY <1>9, <2>2, <2>3, Zenon DEF LinkExtra, poolState, blockVars
<1> QED
  BY <1>1, <1>2, <1>3, <1>4, <1>5, <1>6, <1>7, <1>8, <1>9 DEF MemoryNext

\* What the steps of a thread do to askPc.
LEMMA AskSteps ==
    ASSUME MemoryTypes, NEW t \in PoolUser
    PROVE  /\ \A len \in 1 .. 2 : sMemoryAllocate(t, len) =>
                /\ askPc'[t].len = len
                /\ askPc'[t].at = IF sNowBufferUseLength + len > sBufferByteMax
                                  THEN "extra" ELSE "block"
           /\ TakeBlock(t) =>
                /\ askPc'[t].at = "move" /\ askPc'[t].len = askPc[t].len
                /\ askPc'[t].block = spNowBufferPositionLink
                /\ askPc'[t].reg = spNowBufferPositionLink
           /\ MovePosition(t) =>
                /\ askPc'[t].at = "length" /\ askPc'[t].len = askPc[t].len
                /\ askPc'[t].block = askPc[t].block
                /\ askPc'[t].reg = sNowBufferUseLength
           /\ AddLength(t) \/ LinkExtra(t) => askPc'[t].at = "out"
           /\ \A b : NewExtra(t) /\ Goto(t, "link", b) =>
                askPc'[t].at = "link" /\ askPc'[t].reg = b
           /\ (\E len \in 1 .. 2 : sMemoryAllocate(t, len)) \/ TakeBlock(t)
                \/ MovePosition(t) \/ AddLength(t) \/ NewExtra(t) \/ LinkExtra(t)
              => \A u \in PoolUser \ {t} : askPc'[u] = askPc[u]
<1>0. askPc \in [PoolUser -> Asking] /\ askPc[t] \in Asking
  BY DEF MemoryTypes
<1>1. ASSUME NEW len \in 1 .. 2, sMemoryAllocate(t, len)
      PROVE  /\ askPc'[t].len = len
             /\ askPc'[t].at = IF sNowBufferUseLength + len > sBufferByteMax
                               THEN "extra" ELSE "block"
  <2> DEFINE w == IF sNowBufferUseLength + len > sBufferByteMax
                  THEN "extra" ELSE "block"
  <2>1. askPc'[t] = [Outside EXCEPT !.len = len, !.at = w]
    BY <1>0, <1>1 DEF sMemoryAllocate
  <2> HIDE DEF w
  <2>2. askPc'[t].len = len /\ askPc'[t].at = w
    BY <2>1 DEF Outside
  <2> QED
    BY <2>2 DEF w
<1>2. ASSUME TakeBlock(t)
      PROVE  /\ askPc'[t].at = "move" /\ askPc'[t].len = askPc[t].len
             /\ askPc'[t].block = spNowBufferPositionLink
             /\ askPc'[t].reg = spNowBufferPositionLink
  BY <1>0, <1>2 DEF TakeBlock, Asking
<1>3. ASSUME MovePosition(t)
      PROVE  /\ askPc'[t].at = "length" /\ askPc'[t].len = askPc[t].len
             /\ askPc'[t].block = askPc[t].block
             /\ askPc'[t].reg = sNowBufferUseLength
  BY <1>0, <1>3 DEF MovePosition, Goto, Asking
<1>4. AddLength(t) \/ LinkExtra(t) => askPc'[t].at = "out"
  BY <1>0 DEF AddLength, LinkExtra, Outside
<1>5. ASSUME NEW b, Goto(t, "link", b)
      PROVE  askPc'[t].at = "link" /\ askPc'[t].reg = b
  BY <1>0, <1>5, SMTT(40) DEF Goto, Asking
<1>6. ASSUME (\E len \in 1 .. 2 : sMemoryAllocate(t, len)) \/ TakeBlock(t)
               \/ MovePosition(t) \/ AddLength(t) \/ NewExtra(t) \/ LinkExtra(t)
      PROVE  \A u \in PoolUser \ {t} : askPc'[u] = askPc[u]
  BY <1>0, <1>6 DEF sMemoryAllocate, TakeBlock, MovePosition, AddLength, NewExtra,
                    LinkExtra, Goto
<1> QED
  BY <1>1, <1>2, <1>3, <1>4, <1>5, <1>6

\* The rest of the invariant is kept as long as no two lists ask at once.
LEMMA MemoryKept ==
    ASSUME MemoryTypes, ~raced', OneAsks, BlockOK, ExtrasOK,
           [MemoryNext]_memoryVars
    PROVE  OneAsks' /\ BlockOK' /\ ExtrasOK'
<1>0. /\ Buffer \subseteq Nat \ {0} /\ AskMax \in Nat
      /\ \A t \in PoolUser : askPc[t] \in Asking
      /\ \A t \in PoolUser : askPc[t].len \in Nat
      /\ \A p \in given : p.at \in Nat /\ p.len \in Nat
      /\ sBufferByteMax \in Nat /\ spNowBufferPositionLink \in Nat
      /\ sNowBufferUseLength \in Nat /\ asked \in Nat
      /\ extraAlive \in SUBSET Buffer /\ extraNext \in [Buffer -> Nat]
  BY PoolAssumption DEF Buffer, MemoryTypes, Pieces, Asking
<1>1. CASE UNCHANGED memoryVars
  BY <1>1 DEF memoryVars, poolState, blockVars, extraVars, OneAsks, BlockOK,
              ExtrasOK, ExtrasIn, LinkedUp
<1>2. CASE sMemoryPoolCreate
  <2>1. \A t \in PoolUser : askPc[t].at = "out"
    BY <1>2 DEF OneAsks, sMemoryPoolCreate
  <2>2. given = {} /\ PoolBytes \in Nat
    BY <1>2, PoolAssumption DEF sMemoryPoolCreate, BlockOK
  <2>3. OneAsks'
    BY <1>2, <2>1 DEF OneAsks, sMemoryPoolCreate
  <2>4. BlockOK'
    BY <1>2, <2>1, <2>2 DEF BlockOK, sMemoryPoolCreate
  <2>5. ExtrasOK'
    BY <1>2, <2>1 DEF ExtrasOK, ExtrasIn, sMemoryPoolCreate, extraVars, LinkedUp
  <2> QED
    BY <2>3, <2>4, <2>5
<1>3. CASE sMemoryPoolRelease
  <2>1. \A t \in PoolUser : askPc[t].at = "out"
    BY <1>3 DEF sMemoryPoolRelease, AllOutside
  <2>2. OneAsks' /\ BlockOK'
    BY <1>3, <2>1 DEF OneAsks, BlockOK, sMemoryPoolRelease
  <2>3. PICK s \in Seq(Buffer) : ExtrasIn(s)
    BY DEF ExtrasOK
  <2>4. extraAlive = BuffersIn(s) /\ LinkedUp(extraNext, spExtraBufferHead, s)
        /\ Len(s) <= AskMax
    <3>1. Len(s) \in Nat /\ Len(s) <= asked /\ asked <= AskMax
      BY <2>3 DEF ExtrasIn, MemoryTypes
    <3> QED
      BY <1>0, <2>1, <2>3, <3>1 DEF ExtrasIn
  <2>5. ExtraLinked = BuffersIn(s)
    BY <2>4, ReachedIs, Zenon DEF ExtraLinked, Reached
  <2>6. extraAlive' = {} /\ spExtraBufferHead' = 0 /\ asked' = asked /\ askPc' = askPc
    BY <1>3, <2>4, <2>5 DEF sMemoryPoolRelease
  <2>7. <<>> \in Seq(Buffer) /\ Len(<<>>) = 0 /\ BuffersIn(<<>>) = {}
    BY DEF BuffersIn
  <2>8. ExtrasIn(<<>>)'
    BY <1>0, <2>1, <2>6, <2>7 DEF ExtrasIn, LinkedUp
  <2> QED
    BY <2>2, <2>6, <2>7, <2>8 DEF ExtrasOK
<1>4. ASSUME NEW t \in PoolUser, NEW len \in 1 .. 2, sMemoryAllocate(t, len)
      PROVE  OneAsks' /\ BlockOK' /\ ExtrasOK'
  <2>1. \A u \in PoolUser : askPc[u].at = "out"
    BY <1>4 DEF sMemoryAllocate
  <2>2. /\ askPc'[t].len = len
        /\ askPc'[t].at = IF sNowBufferUseLength + len > sBufferByteMax
                          THEN "extra" ELSE "block"
        /\ \A u \in PoolUser \ {t} : askPc'[u] = askPc[u]
    BY <1>4, AskSteps
  <2>3. /\ asked' = asked + 1 /\ spBuffer /\ spBuffer' = spBuffer
        /\ sBufferByteMax' = sBufferByteMax /\ given' = given
        /\ spNowBufferPositionLink' = spNowBufferPositionLink
        /\ sNowBufferUseLength' = sNowBufferUseLength
        /\ spExtraBufferHead' = spExtraBufferHead /\ extraNext' = extraNext
        /\ extraAlive' = extraAlive
    BY <1>4 DEF sMemoryAllocate, poolState, blockVars, extraVars
  <2>4. OneAsks'
    BY <2>1, <2>2, <2>3 DEF OneAsks
  <2>5. BlockOK'
    BY <1>0, <2>1, <2>2, <2>3 DEF BlockOK
  <2>6. PICK s \in Seq(Buffer) : ExtrasIn(s)
    BY DEF ExtrasOK
  <2>7. Len(s) \in Nat /\ Len(s) <= asked /\ extraAlive = BuffersIn(s)
        /\ LinkedUp(extraNext, spExtraBufferHead, s)
    BY <2>1, <2>6 DEF ExtrasIn
  <2>8. ExtrasIn(s)'
    BY <1>0, <2>1, <2>2, <2>3, <2>7, SMTT(40) DEF ExtrasIn
  <2> QED
    BY <2>3, <2>4, <2>5, <2>8 DEF ExtrasOK
<1>5. ASSUME NEW t \in PoolUser, TakeBlock(t) \/ MovePosition(t) \/ AddLength(t)
      PROVE  OneAsks' /\ BlockOK' /\ ExtrasOK'
  <2>1. /\ askPc[t].at \in {"block", "move", "length"}
        /\ askPc'[t].at \in {"move", "length", "out"}
        /\ \A u \in PoolUser \ {t} : askPc'[u] = askPc[u]
    BY <1>5, AskSteps DEF TakeBlock, MovePosition, AddLength
  <2>2. \A u \in PoolUser \ {t} : askPc[u].at = "out"
    BY <2>1 DEF OneAsks
  <2>3. /\ spBuffer' = spBuffer /\ sBufferByteMax' = sBufferByteMax
        /\ spExtraBufferHead' = spExtraBufferHead /\ extraNext' = extraNext
        /\ extraAlive' = extraAlive /\ asked' = asked
    BY <1>5 DEF TakeBlock, MovePosition, AddLength, poolState, blockVars, extraVars
  <2>4. OneAsks'
    BY <2>1, <2>2, <2>3 DEF OneAsks
  <2>5. ExtrasOK'
    BY <2>1, <2>2, <2>3 DEF ExtrasOK, ExtrasIn
  <2>6. spBuffer
    BY <2>1 DEF OneAsks
  <2>7. CASE TakeBlock(t)
    <3>1. /\ askPc[t].at = "block" /\ askPc'[t].at = "move"
          /\ askPc'[t].len = askPc[t].len
          /\ askPc'[t].block = spNowBufferPositionLink
          /\ askPc'[t].reg = spNowBufferPositionLink
      BY <2>7, AskSteps DEF TakeBlock
    <3>2. /\ given' = given
          /\ spNowBufferPositionLink' = spNowBufferPositionLink
          /\ sNowBufferUseLength' = sNowBufferUseLength
      BY <2>7 DEF TakeBlock, blockVars
    <3>3. spNowBufferPositionLink = sNowBufferUseLength
      BY <2>2, <3>1 DEF BlockOK
    <3>4. BlockOK'
      BY <1>0, <2>1, <2>2, <2>3, <3>1, <3>2, <3>3 DEF BlockOK
    <3> QED
      BY <2>4, <2>5, <3>4, SMTT(40)
  <2>8. CASE MovePosition(t)
    <3>1. /\ askPc[t].at = "move" /\ askPc'[t].at = "length"
          /\ askPc'[t].len = askPc[t].len
          /\ askPc'[t].block = askPc[t].block
          /\ askPc'[t].reg = sNowBufferUseLength
      BY <2>8, AskSteps DEF MovePosition
    <3>2. /\ given' = given
          /\ spNowBufferPositionLink' = askPc[t].reg + askPc[t].len
          /\ sNowBufferUseLength' = sNowBufferUseLength
      BY <2>8 DEF MovePosition
    <3>3. BlockOK'
      BY <1>0, <2>1, <2>2, <2>3, <3>1, <3>2, SMTT(40) DEF BlockOK
    <3> QED
      BY <2>4, <2>5, <3>3
  <2>9. CASE AddLength(t)
    <3> DEFINE new == [at |-> askPc[t].block, len |-> askPc[t].len, to |-> t,
                       no |-> asked]
    <3>1. askPc[t].at = "length" /\ askPc'[t].at = "out"
      BY <2>9, AskSteps DEF AddLength
    <3>2. /\ given' = given \cup {new}
          /\ spNowBufferPositionLink' = spNowBufferPositionLink
          /\ sNowBufferUseLength' = askPc[t].reg + askPc[t].len
      BY <2>9 DEF AddLength
    <3>3. /\ askPc[t].reg = sNowBufferUseLength
          /\ new.at = sNowBufferUseLength /\ new.len = askPc[t].len
          /\ spNowBufferPositionLink = sNowBufferUseLength + askPc[t].len
          /\ sNowBufferUseLength + askPc[t].len <= sBufferByteMax
      BY <3>1 DEF BlockOK
    <3>4. \A u \in PoolUser : askPc'[u].at = "out"
      BY <2>1, <2>2, <3>1
    <3> HIDE DEF new
    <3>5. \A p \in given' : p.at + p.len <= sNowBufferUseLength'
      BY <1>0, <3>2, <3>3 DEF BlockOK
    <3>6. \A p, q \in given' : p # q => p.at + p.len <= q.at \/ q.at + q.len <= p.at
      BY <1>0, <3>2, <3>3 DEF BlockOK
    <3>7. BlockOK'
      BY <1>0, <2>3, <2>6, <3>2, <3>3, <3>4, <3>5, <3>6 DEF BlockOK
    <3> QED
      BY <2>4, <2>5, <3>7
  <2> QED
    BY <1>5, <2>7, <2>8, <2>9
<1>6. ASSUME NEW t \in PoolUser, NewExtra(t)
      PROVE  OneAsks' /\ BlockOK' /\ ExtrasOK'
  <2>1. PICK b \in Buffer \ extraAlive :
          /\ extraAlive' = extraAlive \cup {b}
          /\ extraNext' = [extraNext EXCEPT ![b] = spExtraBufferHead]
          /\ Goto(t, "link", b)
    BY <1>6, Zenon DEF NewExtra
  <2>2. /\ askPc[t].at = "extra" /\ askPc'[t].at = "link" /\ askPc'[t].reg = b
        /\ \A u \in PoolUser \ {t} : askPc'[u] = askPc[u]
    BY <1>6, <2>1, AskSteps DEF NewExtra
  <2>3. \A u \in PoolUser \ {t} : askPc[u].at = "out"
    BY <2>2 DEF OneAsks
  <2>4. /\ spBuffer /\ spBuffer' = spBuffer /\ sBufferByteMax' = sBufferByteMax
        /\ spExtraBufferHead' = spExtraBufferHead /\ asked' = asked
        /\ given' = given
        /\ spNowBufferPositionLink' = spNowBufferPositionLink
        /\ sNowBufferUseLength' = sNowBufferUseLength
    BY <1>6, <2>2 DEF NewExtra, poolState, blockVars, OneAsks
  <2>5. OneAsks'
    BY <2>2, <2>3, <2>4 DEF OneAsks
  <2>6. spNowBufferPositionLink = sNowBufferUseLength
    BY <2>2, <2>3 DEF BlockOK
  <2>7. BlockOK'
    BY <2>2, <2>3, <2>4, <2>6 DEF BlockOK
  <2>8. PICK s \in Seq(Buffer) : ExtrasIn(s)
    BY DEF ExtrasOK
  <2>9. /\ extraAlive = BuffersIn(s) /\ Len(s) < asked
        /\ LinkedUp(extraNext, spExtraBufferHead, s)
    BY <2>2, <2>3, <2>8 DEF ExtrasIn
  <2>10. \A i \in 1 .. Len(s) : s[i] \in Buffer /\ s[i] # b /\ Len(s) \in Nat
    BY <2>1, <2>9, BuffersAre
  <2>11. LinkedUp(extraNext', spExtraBufferHead, s)
    BY <1>0, <2>1, <2>9, <2>10 DEF LinkedUp
  <2>12. extraNext'[b] = spExtraBufferHead
    BY <1>0, <2>1
  <2>13. ExtrasIn(s)'
    <3>1. Len(s) \in Nat
      BY LenProperties
    <3> QED
      BY <1>0, <2>1, <2>2, <2>3, <2>4, <2>9, <2>11, <2>12, <3>1 DEF ExtrasIn
  <2> QED
    BY <2>4, <2>5, <2>7, <2>13 DEF ExtrasOK
<1>7. ASSUME NEW t \in PoolUser, LinkExtra(t)
      PROVE  OneAsks' /\ BlockOK' /\ ExtrasOK'
  <2>1. /\ askPc[t].at = "link" /\ askPc'[t].at = "out"
        /\ \A u \in PoolUser \ {t} : askPc'[u] = askPc[u]
    BY <1>7, AskSteps DEF LinkExtra
  <2>2. \A u \in PoolUser \ {t} : askPc[u].at = "out"
    BY <2>1 DEF OneAsks
  <2>3. /\ spBuffer /\ spBuffer' = spBuffer /\ sBufferByteMax' = sBufferByteMax
        /\ spExtraBufferHead' = askPc[t].reg /\ extraNext' = extraNext
        /\ asked' = asked /\ given' = given /\ extraAlive' = extraAlive
        /\ spNowBufferPositionLink' = spNowBufferPositionLink
        /\ sNowBufferUseLength' = sNowBufferUseLength
    BY <1>7, <2>1 DEF LinkExtra, poolState, blockVars, OneAsks
  <2>4. OneAsks'
    BY <2>1, <2>2, <2>3 DEF OneAsks
  <2>5. spNowBufferPositionLink = sNowBufferUseLength
    BY <2>1, <2>2 DEF BlockOK
  <2>6. BlockOK'
    BY <2>1, <2>2, <2>3, <2>5 DEF BlockOK
  <2>7. PICK s \in Seq(Buffer) : ExtrasIn(s)
    BY DEF ExtrasOK
  <2>0. PICK b : b = askPc[t].reg
    OBVIOUS
  <2> DEFINE r == Append(s, b)
  <2>8. /\ b \in Buffer \ BuffersIn(s)
        /\ extraAlive = BuffersIn(s) \cup {b}
        /\ extraNext[b] = spExtraBufferHead
        /\ Len(s) < asked
        /\ LinkedUp(extraNext, spExtraBufferHead, s)
    BY <2>0, <2>1, <2>7 DEF ExtrasIn
  <2>9. /\ r \in Seq(Buffer) /\ Len(s) \in Nat /\ Len(r) = Len(s) + 1
        /\ \A i \in 1 .. Len(s) : r[i] = s[i]
        /\ r[Len(s) + 1] = b
    BY <2>8, AppendProperties, LenProperties
  <2> HIDE DEF r
  <2>10. \A i \in 1 .. Len(r) : i \in 1 .. Len(s) \/ i = Len(s) + 1
    BY <2>9
  <2>11. BuffersIn(r) = BuffersIn(s) \cup {b}
    <3>1. \A x \in BuffersIn(r) : x \in BuffersIn(s) \cup {b}
      BY <2>9, <2>10 DEF BuffersIn
    <3>2. 1 .. Len(s) \subseteq 1 .. Len(r) /\ Len(s) + 1 \in 1 .. Len(r)
      BY <2>9
    <3>3. \A x \in BuffersIn(s) \cup {b} : x \in BuffersIn(r)
      BY <2>9, <3>2 DEF BuffersIn
    <3> QED
      BY <3>1, <3>3
  <2>12. LinkedUp(extraNext, b, r)
    <3>1. b = r[Len(r)] /\ Len(r) # 0
      BY <2>9
    <3>2. ASSUME NEW i \in 1 .. Len(r)
          PROVE  extraNext[r[i]] = IF i = 1 THEN 0 ELSE r[i - 1]
      <4>1. CASE i \in 1 .. Len(s)
        <5>1. i = 1 \/ i - 1 \in 1 .. Len(s)
          BY <2>9, <4>1
        <5> QED
          BY <2>8, <2>9, <4>1, <5>1 DEF LinkedUp
      <4>2. CASE i = Len(s) + 1
        <5>1. extraNext[r[i]] = spExtraBufferHead /\ i - 1 = Len(s)
          BY <2>8, <2>9, <4>2
        <5>2. spExtraBufferHead = IF Len(s) = 0 THEN 0 ELSE s[Len(s)]
          BY <2>8 DEF LinkedUp
        <5>3. Len(s) # 0 => Len(s) \in 1 .. Len(s)
          BY <2>9
        <5> QED
          BY <2>9, <4>2, <5>1, <5>2, <5>3
      <4> QED
        BY <2>10, <4>1, <4>2
    <3> QED
      BY <3>1, <3>2 DEF LinkedUp
  <2>13. ExtrasIn(r)'
    <3>1. \A u \in PoolUser : askPc'[u].at = "out"
      BY <2>1, <2>2
    <3>2. LinkedUp(extraNext', spExtraBufferHead', r)
      BY <2>0, <2>3, <2>12
    <3>3. Len(r) <= asked'
      BY <1>0, <2>3, <2>8, <2>9
    <3> QED
      BY <2>3, <2>8, <2>11, <3>1, <3>2, <3>3 DEF ExtrasIn
  <2> QED
    BY <2>3, <2>4, <2>6, <2>9, <2>13 DEF ExtrasOK
<1> QED
  BY <1>1, <1>2, <1>3, <1>4, <1>5, <1>6, <1>7 DEF MemoryNext

\* The invariant says what the property says.
LEMMA MemorySound == MemoryInv => PoolSound
<1> SUFFICES ASSUME MemoryInv, ~raced
             PROVE  PoolSound
  BY Zenon DEF PoolSound, PiecesApart, ExtraReleased
<1>0. OneAsks /\ BlockOK /\ ExtrasOK /\ MemoryTypes
  BY DEF MemoryInv
<1>1. PiecesApart
  <2>1. /\ \A p \in given : p.at \in Nat /\ p.len \in Nat
        /\ sBufferByteMax \in Nat /\ sNowBufferUseLength \in Nat
    BY <1>0 DEF MemoryTypes, Pieces
  <2>2. \A p \in given : p.at + p.len <= sBufferByteMax
    BY <1>0, <2>1 DEF BlockOK
  <2>3. ASSUME NEW p \in given, NEW q \in given \ {p}
        PROVE  Bytes(p) \cap Bytes(q) = {}
    <3>1. p.at + p.len <= q.at \/ q.at + q.len <= p.at
      BY <1>0 DEF BlockOK
    <3> QED
      BY <2>1, <3>1 DEF Bytes
  <2> QED
    BY <2>2, <2>3 DEF PiecesApart
<1>2. ExtraReleased
  <2>1. PICK s \in Seq(Buffer) : ExtrasIn(s)
    BY <1>0 DEF ExtrasOK
  <2>2. LinkedUp(extraNext, spExtraBufferHead, s) /\ Len(s) <= AskMax
    <3>1. Len(s) \in Nat /\ Len(s) <= asked /\ asked \in 0 .. AskMax /\ AskMax \in Nat
      BY <1>0, <2>1, PoolAssumption DEF ExtrasIn, MemoryTypes
    <3> QED
      BY <2>1, <3>1 DEF ExtrasIn
  <2>3. ExtraLinked = BuffersIn(s)
    BY <2>2, ReachedIs, Zenon DEF ExtraLinked, Reached
  <2>4. AllOutside => extraAlive = BuffersIn(s)
    BY <2>1 DEF ExtrasIn, AllOutside
  <2> QED
    BY <1>0, <2>3, <2>4 DEF ExtraReleased, ExtrasOK
<1> QED
  BY <1>1, <1>2 DEF PoolSound

\* With a block of any size and any number of threads and lists: as long as no
\* two lists ask at the same time, the pieces that sMemoryAllocate has given out
\* lie in the block and share no byte, and every extra buffer is on the list
\* that sMemoryPoolRelease walks.
THEOREM PoolKept == MemorySpec => []PoolSound
<1>1. MemoryInit => MemoryInv
  BY MemoryInitOK
<1>2. MemoryInv /\ [MemoryNext]_memoryVars => MemoryInv'
  <2> SUFFICES ASSUME MemoryInv, [MemoryNext]_memoryVars
               PROVE  MemoryInv'
    OBVIOUS
  <2>1. MemoryTypes'
    BY MemoryTypesKept DEF MemoryInv
  <2>2. raced => raced'
    BY Zenon DEF MemoryNext, memoryVars, sMemoryPoolCreate, sMemoryPoolRelease,
           sMemoryAllocate, TakeBlock, MovePosition, AddLength, NewExtra, LinkExtra
  <2>3. CASE ~raced'
    <3>1. MemoryTypes /\ OneAsks /\ BlockOK /\ ExtrasOK
      BY <2>2, <2>3, Zenon DEF MemoryInv
    <3>2. OneAsks' /\ BlockOK' /\ ExtrasOK'
      BY <2>3, <3>1, MemoryKept
    <3> QED
      BY <2>1, <3>2, Zenon DEF MemoryInv
  <2> QED
    BY <2>1, <2>3 DEF MemoryInv
<1>3. MemoryInv => PoolSound
  BY MemorySound
<1> QED
  BY <1>1, <1>2, <1>3, PTL DEF MemorySpec

-------------------------------------------------------------------------------
(* A list of a program's own, with a block of its nodes: what the calls that   *)
(* the programs make of it leave, and which nodes they give.                   *)

LEMMA NewBlock ==
    ASSUME NEW cl \in PooledClasses, NEW max \in 1 .. ListNodeMax,
           NEW l, l = TMPSinglyListCreate(RawList, max)
    PROVE  /\ Fits(l, cl, <<>>, <<>>, 1 .. max, {}, {})
           /\ l.BufferListCount = max /\ Linked(l) = <<>>
<1>1. RawList \in ListRecord
  <2>1. NULL \in Spot /\ NULL \in Nat /\ 0 \in NodeNumbers
    BY NumbersAssumption DEF Spot, NULL
  <2> QED
    BY <2>1 DEF RawList, ListRecord
<1> DEFINE r == RawList
<1>2. /\ max \in Nat /\ max > 0 /\ max # 0 /\ 1 .. max \subseteq Node
      /\ cl \in ListClasses
  BY ListNodeMaxAssumption DEF Node, PooledClasses, ListClasses
<1>3. /\ r.pHeadNode = NULL /\ r.pTailNode = NULL /\ r.pFreeList = NULL
      /\ r.NodeUseCount = 0 /\ r.NodeLinkCount = 0 /\ r.FreeListCount = 0
      /\ \A n \in Node : r.pNext[n] = NULL /\ r.pPrev[n] = NULL
  BY DEF RawList
<1> HIDE DEF r
<1>4. EmptyList(r) = r
  BY <1>1, <1>3 DEF EmptyList, ListRecord, r
<1>5. l = [r EXCEPT !.ObjectCountMax = max, !.BufferListCount = max,
                    !.pBufferList = 1]
  BY <1>2, <1>4 DEF TMPSinglyListCreate, r
<1>6. l \in ListRecord
  <2>1. r \in ListRecord /\ 1 \in Nat
    BY <1>1 DEF r
  <2> QED
    BY <1>2, <1>5, <2>1 DEF ListRecord
<1>7. /\ l.pHeadNode = NULL /\ l.pTailNode = NULL /\ l.pFreeList = NULL
       /\ l.NodeUseCount = 0 /\ l.NodeLinkCount = 0 /\ l.FreeListCount = 0
       /\ l.BufferListCount = max /\ l.pBufferList = 1
       /\ \A n \in Node : l.pNext[n] = NULL /\ l.pPrev[n] = NULL
  BY <1>1, <1>3, <1>5 DEF ListRecord, r
<1>8. Unused(l) = 1 .. max
  BY <1>2, <1>7 DEF Unused
<1>9. NodesOf(<<>>) = {} /\ Len(<<>>) = 0 /\ <<>> \in Seq(Node)
  BY DEF NodesOf
<1>10. Represents(l, cl, <<>>, <<>>)
  BY <1>9, <1>7 DEF Represents, Distinct, Threads, LastOf, Mirrors
<1>11. Elsewhere(l, cl, <<>>, <<>>, 1 .. max, {}, {})
  <2>1. Cardinality({}) = 0
    BY FS_EmptySet
  <2> QED
    BY <1>2, <1>8, <1>9, <1>7, <2>1 DEF Elsewhere
<1>12. Fits(l, cl, <<>>, <<>>, 1 .. max, {}, {})
  BY <1>2, <1>10, <1>11, <1>6 DEF Fits
<1> QED
  BY <1>12, <1>7, InOrder

\* GetNode while nodes are left: the node was nobody's, and of the block.
LEMMA BlockGets ==
    ASSUME NEW l, NEW cl, NEW s, NEW f, NEW hp, NEW hd,
           Fits(l, cl, s, f, hp, hd, {}), l.FreeListCount + l.BufferListCount > 0,
           NEW n, n = NodeFor(l, TMPNew(l, NULL)), NEW m,
           \/ cl \notin DoublyClasses /\ m = TMPSinglyListGetNode(l, n)
           \/ m = TMPDoublyListGetNode(l, NULL)
    PROVE  /\ n \in hp /\ n \notin NodesOf(s) /\ n \notin hd
           /\ Fits(m, cl, s, Left(f), hp, hd \cup {n}, {})
           /\ m.BufferListCount \in Nat /\ m.BufferListCount + 1 >= l.BufferListCount
           /\ m.FreeListCount + m.BufferListCount
                = l.FreeListCount + l.BufferListCount - 1
<1>1. l \in ListRecord
  BY DEF Fits
<1>2. /\ l.FreeListCount \in Nat /\ l.BufferListCount \in Nat
      /\ l.pBufferList \in Nat
  BY <1>1 DEF ListRecord
<1>3. NextNode(l, hp, n)
  BY <1>2 DEF NextNode, NodeFor, TMPNew
<1>4. NodeFor(l, TMPNew(l, NULL)) = NodeFor(l, TMPNew(l, n))
  BY <1>2 DEF NodeFor, TMPNew
<1>5. TMPDoublyListGetNode(l, NULL) = TMPDoublyListGetNode(l, n)
  BY <1>4 DEF TMPDoublyListGetNode
<1>6. Got(l, m, cl, hp, n)
  BY <1>3, <1>5, TMPGets
<1>7. /\ Fits(m, cl, s, Left(f), hp \cup {n}, hd \cup {n}, {})
      /\ n \notin NodesOf(s) \cup hd /\ (Len(f) # 0 => n = f[1])
  BY <1>6, Getting, SMTT(40)
<1>8. /\ hp = NodesOf(s) \cup NodesOf(f) \cup hd \cup {} \cup Unused(l)
      /\ f \in Seq(Node) /\ l.FreeListCount = Len(f)
  BY DEF Fits, Elsewhere, Represents
<1>9. n \in hp
  <2>1. CASE l.FreeListCount > 0
    <3>1. Len(f) # 0 /\ n = f[1] /\ Len(f) \in Nat
      BY <1>7, <1>8, <2>1
    <3>2. n \in NodesOf(f)
      BY <3>1, InNodes
    <3> QED
      BY <1>8, <3>2
  <2>2. CASE ~ (l.FreeListCount > 0)
    <3>1. l.BufferListCount > 0 /\ n = l.pBufferList
      BY <1>2, <1>3, <2>2 DEF NextNode
    <3>2. n \in Unused(l)
      BY <1>2, <3>1 DEF Unused
    <3> QED
      BY <1>8, <3>2
  <2> QED
    BY <2>1, <2>2
<1>10. hp \cup {n} = hp
  BY <1>9
<1>11. m \in ListRecord
  BY <1>6 DEF Got
<1>12. m.BufferListCount \in Nat /\ m.FreeListCount \in Nat
  BY <1>11 DEF ListRecord
<1>13. /\ m.BufferListCount + 1 >= l.BufferListCount
       /\ m.FreeListCount + m.BufferListCount
            = l.FreeListCount + l.BufferListCount - 1
  BY <1>2, <1>6, <1>9, <1>12 DEF Got, SameBlock, SameFree
<1> QED
  BY <1>7, <1>9, <1>10, <1>12, <1>13

\* Link puts a node in hand behind the others.
LEMMA BlockLinks ==
    ASSUME NEW l, NEW cl, NEW s, NEW f, NEW hp, NEW hd,
           Fits(l, cl, s, f, hp, hd, {}), NEW n \in hd, NEW m,
           \/ cl \notin DoublyClasses /\ m = TMPSinglyListLink(l, n)
           \/ cl \in DoublyClasses /\ m = TMPDoublyListLink(l, n)
    PROVE  /\ Fits(m, cl, Put(s, Len(s) + 1, n), f, hp, hd \ {n}, {})
           /\ Linked(m) = Put(s, Len(s) + 1, n) /\ FreeOnes(m) = f
           /\ m.BufferListCount = l.BufferListCount
           /\ m.FreeListCount = l.FreeListCount
<1>1. Len(s) \in Nat /\ Len(s) + 1 \in 1 .. Len(s) + 1
  BY InOrder
<1>2. PutIn(l, m, cl, s, Len(s) + 1, n)
  BY SinglyLinks, DoublyLinksAt DEF TMPSinglyListLink, TMPDoublyListLink
<1>3. Fits(m, cl, Put(s, Len(s) + 1, n), f, hp, hd \ {n}, {})
  BY <1>1, <1>2, Putting
<1> QED
  BY <1>2, <1>3, InOrder DEF PutIn, SameBlock, SameFree

\* Unlink and FreeNode, one after the other, of the k-th.
LEMMA BlockDrops ==
    ASSUME NEW l, NEW cl, NEW s, NEW f, NEW hp, NEW hd,
           Fits(l, cl, s, f, hp, hd, {}), NEW k \in 1 .. Len(s), NEW n, n = s[k],
           NEW m,
           \/ /\ cl \notin DoublyClasses
              /\ m = TMPSinglyListFreeNode(TMPSinglyListUnlink(l, n), n)
           \/ /\ cl \in DoublyClasses
              /\ m = TMPDoublyListFreeNode(TMPDoublyListUnlink(l, n), n)
    PROVE  /\ Fits(m, cl, Out(s, k), Put(f, 1, n), hp, hd, {})
           /\ Linked(m) = Out(s, k) /\ FreeOnes(m) = Put(f, 1, n)
           /\ m.BufferListCount = l.BufferListCount
           /\ m.FreeListCount = l.FreeListCount + 1
<1>1. PICK u : /\ TakenOut(l, u, cl, s, k)
               /\ m = TSinglyListFreeNode(u, n) \/ m = TDoublyListFreeNode(u, n)
  BY SinglyUnlinks, DoublyUnlinks
     DEF TMPSinglyListFreeNode, TMPDoublyListFreeNode, TMPDoublyListUnlink
<1>2. Fits(u, cl, Out(s, k), f, hp, hd \cup {n}, {})
  BY <1>1, TakingOut
<1>3. Freed(u, m, cl, n)
  BY <1>1, <1>2, ZeroedFrees
<1>4. Fits(m, cl, Out(s, k), Put(f, 1, n), hp, (hd \cup {n}) \ {n}, {})
  BY <1>2, <1>3, Freeing
<1>5. n \notin hd
  <2>1. n \in NodesOf(s)
    BY InNodes
  <2> QED
    BY <2>1 DEF Fits, Elsewhere
<1>6. (hd \cup {n}) \ {n} = hd
  BY <1>5
<1>7. Fits(m, cl, Out(s, k), Put(f, 1, n), hp, hd, {})
  BY <1>4, <1>6
<1>8. /\ m.BufferListCount = u.BufferListCount
      /\ u.BufferListCount = l.BufferListCount
      /\ m.FreeListCount = u.FreeListCount + 1
      /\ u.FreeListCount = l.FreeListCount
  BY <1>1, <1>3 DEF TakenOut, Freed, SameBlock, SameFree
<1> QED
  BY <1>7, <1>8, InOrder
-------------------------------------------------------------------------------
(***************************************************************************)
(* Tutorial 3-5, for any number of tasks: the turn is passed to and fro,   *)
(* and the tasks go through the list, a TMPSinglyList, in order.           *)
(***************************************************************************)

Giving == {"get", "number", "link"}
Busy == Giving \cup {"inner", "start", "head", "consume", "check"}
Leaving == {"release", "count", "end"}

WorkPlaces ==
  /\ workAt["producer"] \in
       Giving \cup Leaving \cup {"top", "wait", "reset", "inner", "start"}
  /\ workAt["consumer"] \in
       Leaving \cup {"top", "wait", "reset", "head", "consume", "check", "start"}
  /\ workAt \in [WorkThread -> Busy \cup Leaving \cup {"top", "wait", "reset"}]
  /\ turn \in [WorkThread -> {"set", "reset", "closed"}]
  /\ WorkRunFlag \in BOOLEAN /\ workMain \in {"wait", "end"}

WorkData ==
  /\ task_node \in [WorkThread -> Spot] /\ taskNumber \in [Node -> Nat]
  /\ TaskCounter \in 0 .. TaskTotal

\* Who has the turn; an event is closed, and a thread leaves, only when
\* WorkRunFlag is down.
TurnOK ==
  /\ ~ (HasTurn("producer") /\ HasTurn("consumer"))
  /\ WorkRunFlag => HasTurn("producer") \/ HasTurn("consumer")
  /\ \A t \in WorkThread :
       /\ workAt[t] \in Busy => turn[t] = "reset"
       /\ turn[t] = "closed" => workAt[t] \in {"count", "end"}
       /\ workAt[t] \in Leaving => ~ WorkRunFlag

Ended(t) == IF workAt[t] = "end" THEN 1 ELSE 0
EndsOK ==
  /\ workEnds = Ended("producer") + Ended("consumer")
  /\ workMain = "end" => workEnds = 2

\* The node that the producer is putting a task into.
InProduction ==
  IF workAt["producer"] \in {"number", "link"} THEN {task_node["producer"]} ELSE {}

Tasks == Linked(TaskList)
TaskNodes ==
  Fits(TaskList, "TMPSinglyList", Tasks, FreeOnes(TaskList),
       1 .. TaskTotal, InProduction, {})

\* The linked tasks carry the numbers that come next.  The nodes suffice, for
\* the block had one for each task.
TasksOK ==
  /\ consumed \in Seq(Nat) /\ \A i \in 1 .. Len(consumed) : consumed[i] = i
  /\ \A i \in 1 .. Len(Tasks) : taskNumber[Tasks[i]] = Len(consumed) + i
  /\ TaskCounter = Len(consumed) + Len(Tasks)
                   + IF workAt["producer"] = "link" THEN 1 ELSE 0
  /\ workAt["producer"] = "link" =>
       taskNumber[task_node["producer"]] = TaskCounter
  /\ TaskList.BufferListCount + TaskCounter
       + (IF workAt["producer"] = "number" THEN 1 ELSE 0) >= TaskTotal
  /\ workAt["producer"] \in {"get", "number"} => TaskCounter < TaskTotal

\* What the consumer has seen is still so, for it has the turn; and when it
\* takes WorkRunFlag down everything has been consumed.
ConsumerOK ==
  /\ workAt["consumer"] = "consume" =>
       Len(Tasks) > 0 /\ task_node["consumer"] = Tasks[1]
  /\ workAt["consumer"] = "check" => Len(Tasks) = 0
  /\ ~ WorkRunFlag =>
       /\ Len(Tasks) = 0 /\ TaskCounter = TaskTotal
       /\ workAt["producer"] \notin Giving \cup {"start"}

WorkControl == WorkPlaces /\ TurnOK /\ EndsOK

WorkInv == WorkControl /\ WorkData /\ TaskNodes /\ TasksOK /\ ConsumerOK

LEMMA WorkThreads == WorkThread = {"producer", "consumer"}
BY DEF WorkThread

\* The steps that both threads have, and those of one, as they bear on the turn.
LEMMA WorkEitherKeeps ==
    ASSUME WorkControl, NEW t \in WorkThread, EitherThread(t)
    PROVE  WorkControl'
<1> USE WorkThreads DEF WorkControl, WorkPlaces, Busy, Giving, Leaving
<1>1. CASE TestRunFlag(t)
  <2>1. WorkPlaces'
    BY <1>1 DEF TestRunFlag, GoOn
  <2>2. TurnOK'
    BY <1>1 DEF TestRunFlag, GoOn, TurnOK, HasTurn
  <2>3. EndsOK'
    BY <1>1 DEF TestRunFlag, GoOn, EndsOK, Ended
  <2> QED
    BY <2>1, <2>2, <2>3
<1>2. CASE WaitForTurn(t)
  <2>1. WorkPlaces'
    BY <1>2 DEF WaitForTurn, GoOn
  <2>2. TurnOK'
    BY <1>2 DEF WaitForTurn, GoOn, TurnOK, HasTurn
  <2>3. EndsOK'
    BY <1>2 DEF WaitForTurn, GoOn, EndsOK, Ended
  <2> QED
    BY <2>1, <2>2, <2>3
<1>3. CASE ResetTurn(t)
  <2>1. WorkPlaces'
    BY <1>3 DEF ResetTurn, GoOn
  <2>2. TurnOK'
    BY <1>3 DEF ResetTurn, GoOn, TurnOK, HasTurn
  <2>3. EndsOK'
    BY <1>3 DEF ResetTurn, GoOn, EndsOK, Ended
  <2> QED
    BY <2>1, <2>2, <2>3
<1>4. CASE ReleaseItself(t)
  <2>1. WorkPlaces'
    BY <1>4 DEF ReleaseItself, GoOn
  <2>2. TurnOK'
    BY <1>4 DEF ReleaseItself, GoOn, TurnOK, HasTurn
  <2>3. EndsOK'
    BY <1>4 DEF ReleaseItself, GoOn, EndsOK, Ended
  <2> QED
    BY <2>1, <2>2, <2>3
<1>5. CASE CountWorkEnd(t)
  <2>1. WorkPlaces'
    BY <1>5 DEF CountWorkEnd, GoOn
  <2>2. TurnOK'
    BY <1>5 DEF CountWorkEnd, GoOn, TurnOK, HasTurn
  <2>3. EndsOK'
    BY <1>5 DEF CountWorkEnd, GoOn, EndsOK, Ended
  <2> QED
    BY <2>1, <2>2, <2>3
<1> QED
  BY <1>1, <1>2, <1>3, <1>4, <1>5 DEF EitherThread

\* A thread that has the turn goes on with its work.
LEMMA WorkBusyKeeps ==
    ASSUME WorkControl, NEW t \in WorkThread,
           workAt[t] \in Busy, NEW b \in Busy,
           t = "producer" => b \in Giving \cup {"inner", "start"},
           t = "consumer" => b \in {"head", "consume", "check", "start"},
           workAt' = [workAt EXCEPT ![t] = b],
           turn' = turn, workMain' = workMain, workEnds' = workEnds,
           WorkRunFlag' \in BOOLEAN, WorkRunFlag' => WorkRunFlag
    PROVE  WorkControl'
<1> USE WorkThreads DEF WorkControl, WorkPlaces, Busy, Giving, Leaving
<1>1. WorkPlaces'
  OBVIOUS
<1>2. TurnOK'
  BY DEF TurnOK, HasTurn
<1>3. EndsOK'
  BY DEF EndsOK, Ended
<1> QED
  BY <1>1, <1>2, <1>3

\* A thread passes the turn on, or leaves it when WorkRunFlag is down.
LEMMA WorkPassKeeps ==
    ASSUME WorkControl, NEW t \in WorkThread, NEW u \in WorkThread, t # u,
           workAt[t] \in {"inner", "start"},
           workAt' = [workAt EXCEPT ![t] = "top"],
           \/ SetTurn(u)
           \/ ~ WorkRunFlag /\ turn' = turn,
           workMain' = workMain, workEnds' = workEnds, WorkRunFlag' = WorkRunFlag
    PROVE  WorkControl'
<1> USE WorkThreads DEF WorkControl, WorkPlaces, Busy, Giving, Leaving
<1>1. WorkPlaces'
  BY DEF SetTurn
<1>2. TurnOK'
  <2>1. CASE SetTurn(u)
    BY <2>1 DEF TurnOK, HasTurn, SetTurn
  <2>2. CASE ~ WorkRunFlag /\ turn' = turn
    BY <2>2 DEF TurnOK, HasTurn
  <2> QED
    BY <2>1, <2>2
<1>3. EndsOK'
  BY DEF EndsOK, Ended
<1> QED
  BY <1>1, <1>2, <1>3

LEMMA WorkControlNext == WorkControl /\ [WorkNext]_workVars => WorkControl'
<1> SUFFICES ASSUME WorkControl, [WorkNext]_workVars
             PROVE  WorkControl'
  OBVIOUS
<1> USE WorkThreads
<1>1. CASE \E t \in WorkThread : EitherThread(t)
  BY <1>1, WorkEitherKeeps
<1>2. ASSUME NEW t \in WorkThread, NEW a \in Busy, NEW b \in Busy,
             GoOn(t, a, b),
             t = "producer" => b \in Giving \cup {"inner", "start"},
             t = "consumer" => b \in {"head", "consume", "check", "start"},
             turn' = turn, workEnds' = workEnds,
             WorkRunFlag' \in BOOLEAN, WorkRunFlag' => WorkRunFlag
      PROVE  WorkControl'
  BY <1>2, WorkBusyKeeps DEF GoOn
<1>3. WorkRunFlag \in BOOLEAN
  BY DEF WorkControl, WorkPlaces
<1>4. CASE TestInner
  <2>1. CASE ~ WorkRunFlag
    BY <1>4, <2>1, WorkPassKeeps DEF TestInner, GoOn
  <2>2. CASE WorkRunFlag
    <3>1. \E b \in {"get", "start"} : GoOn("producer", "inner", b)
      BY <1>4, <2>2 DEF TestInner
    <3> QED
      BY <1>2, <1>3, <1>4, <3>1 DEF TestInner, Busy, Giving
  <2> QED
    BY <2>1, <2>2
<1>5. CASE GetTask
  BY <1>2, <1>3, <1>5 DEF GetTask, Busy, Giving
<1>6. CASE NumberTask
  BY <1>2, <1>3, <1>6 DEF NumberTask, Busy, Giving
<1>7. CASE LinkTask
  BY <1>2, <1>3, <1>7 DEF LinkTask, Busy, Giving
<1>8. CASE StartConsumer
  BY <1>8, WorkPassKeeps DEF StartConsumer, GoOn
<1>9. CASE GetHeadTask
  <2>1. \E b \in {"check", "consume"} : GoOn("consumer", "head", b)
    BY <1>9 DEF GetHeadTask
  <2> QED
    BY <1>2, <1>3, <1>9, <2>1 DEF GetHeadTask, Busy
<1>10. CASE ConsumeTask
  BY <1>2, <1>3, <1>10 DEF ConsumeTask, Busy
<1>11. CASE CheckTaskCounter
  BY <1>2, <1>3, <1>11 DEF CheckTaskCounter, Busy
<1>12. CASE StartProducer
  BY <1>12, WorkPassKeeps DEF StartProducer, GoOn
<1>13. CASE WorkMain
  BY <1>13 DEF WorkMain, WorkControl, WorkPlaces, TurnOK, EndsOK, Ended, HasTurn,
               Busy, Giving, Leaving
<1>14. CASE UNCHANGED workVars
  BY <1>14 DEF workVars, WorkControl, WorkPlaces, TurnOK, EndsOK, Ended, HasTurn
<1> QED
  BY <1>1, <1>4, <1>5, <1>6, <1>7, <1>8, <1>9, <1>10, <1>11, <1>12, <1>13, <1>14
     DEF WorkNext, Producer_InThread, Consumer_InThread

-----------------------------------------------------------------------------
(* The tasks. *)

\* Only one of the threads is at its work.
LEMMA WorkApart ==
    ASSUME WorkControl
    PROVE  /\ workAt["consumer"] \in {"head", "consume", "check"} =>
                workAt["producer"] \notin Giving \cup {"start"}
           /\ workAt["producer"] \in Giving =>
                workAt["consumer"] \notin {"consume", "check"}
           /\ workAt["producer"] \in Giving \cup {"start"} =>
                workAt["consumer"] # "check"
BY WorkThreads DEF WorkControl, TurnOK, HasTurn, Giving

LEMMA WorkInvInit == WorkInit => WorkInv
<1> SUFFICES ASSUME WorkInit
             PROVE  WorkInv
  OBVIOUS
<1> USE WorkThreads
<1>1. WorkControl
  BY DEF WorkInit, WorkControl, WorkPlaces, TurnOK, EndsOK, Ended, HasTurn,
         Busy, Giving, Leaving
<1>2. /\ TaskTotal \in Nat /\ NULL \in Spot
      /\ "TMPSinglyList" \in PooledClasses
  BY TaskTotalAssumption, ListNodeMaxAssumption DEF Spot, PooledClasses
<1>3. WorkData
  BY <1>2 DEF WorkInit, WorkData
<1>4. /\ Fits(TaskList, "TMPSinglyList", <<>>, <<>>, 1 .. TaskTotal, {}, {})
      /\ TaskList.BufferListCount = TaskTotal /\ Linked(TaskList) = <<>>
  BY <1>2, TaskTotalAssumption, NewBlock DEF WorkInit
<1>5. FreeOnes(TaskList) = <<>>
  BY <1>4, InOrder
<1>6. Tasks = <<>> /\ InProduction = {}
  BY <1>4 DEF Tasks, InProduction, WorkInit
<1>7. TaskNodes
  BY <1>4, <1>5, <1>6 DEF TaskNodes
<1>8. TasksOK
  BY <1>2, <1>4, <1>6 DEF TasksOK, WorkInit
<1>9. ConsumerOK
  BY DEF ConsumerOK, WorkInit
<1> QED
  BY <1>1, <1>3, <1>7, <1>8, <1>9 DEF WorkInv

\* A step that leaves the tasks where they are.
LEMMA WorkQuiet ==
    ASSUME WorkInv,
           TaskList' = TaskList, taskNumber' = taskNumber,
           TaskCounter' = TaskCounter, task_node' = task_node,
           consumed' = consumed,
           \A a \in {"number", "link"} :
             workAt'["producer"] = a <=> workAt["producer"] = a,
           workAt'["producer"] = "get" =>
             workAt["producer"] = "get" \/ TaskCounter < TaskTotal,
           \A a \in {"consume", "check"} :
             workAt'["consumer"] = a => workAt["consumer"] = a,
           ~ WorkRunFlag' =>
             /\ Len(Tasks) = 0 /\ TaskCounter = TaskTotal
             /\ workAt'["producer"] \notin Giving \cup {"start"}
    PROVE  WorkData' /\ TaskNodes' /\ TasksOK' /\ ConsumerOK'
<1>1. Tasks' = Tasks /\ InProduction' = InProduction
  BY DEF Tasks, InProduction
<1>2. TaskNodes'
  BY <1>1 DEF WorkInv, TaskNodes
<1>3. WorkData'
  BY DEF WorkInv, WorkData
<1>4. TasksOK'
  BY <1>1 DEF WorkInv, TasksOK
<1>5. ConsumerOK'
  BY <1>1 DEF WorkInv, ConsumerOK
<1> QED
  BY <1>2, <1>3, <1>4, <1>5

LEMMA WorkDataTypes ==
    ASSUME WorkInv
    PROVE  /\ TaskCounter \in Nat /\ TaskTotal \in Nat
           /\ Len(consumed) \in Nat /\ Len(Tasks) \in Nat
           /\ TaskList.BufferListCount \in Nat /\ TaskList.FreeListCount \in Nat
           /\ Tasks \in Seq(Node) /\ Distinct(Tasks)
           /\ 1 .. TaskTotal \subseteq Node /\ Node \subseteq Spot
           /\ \A n \in InProduction : n \in Node /\ n \notin NodesOf(Tasks)
<1>1. TaskTotal \in Nat /\ 1 .. TaskTotal \subseteq Node /\ Node \subseteq Spot
  BY TaskTotalAssumption, ListNodeMaxAssumption DEF Node, Spot
<1>2. TaskNodes /\ TaskCounter \in 0 .. TaskTotal /\ consumed \in Seq(Nat)
  BY DEF WorkInv, WorkData, TasksOK
<1>3. TaskList \in ListRecord /\ Tasks \in Seq(Node) /\ Distinct(Tasks)
  BY <1>2 DEF TaskNodes, Fits, Represents
<1>4. TaskList.BufferListCount \in Nat /\ TaskList.FreeListCount \in Nat
  BY <1>3 DEF ListRecord
<1>5. \A n \in InProduction : n \in Node /\ n \notin NodesOf(Tasks)
  BY <1>2, InHand DEF TaskNodes
<1> QED
  BY <1>1, <1>2, <1>3, <1>4, <1>5

LEMMA GetTaskKeeps ==
    ASSUME WorkInv, GetTask
    PROVE  WorkData' /\ TaskNodes' /\ TasksOK' /\ ConsumerOK'
<1> USE WorkThreads
<1> DEFINE n == NodeFor(TaskList, TMPNew(TaskList, NULL))
<1>1. /\ workAt["producer"] = "get" /\ workAt'["producer"] = "number"
      /\ workAt'["consumer"] = workAt["consumer"]
      /\ TaskList' = TMPSinglyListGetNode(TaskList, n)
      /\ task_node' = [task_node EXCEPT !["producer"] = n]
      /\ UNCHANGED <<taskNumber, WorkRunFlag, TaskCounter, consumed>>
  BY DEF GetTask, GoOn, WorkInv, WorkControl, WorkPlaces
<1>2. InProduction = {} /\ InProduction' = {n}
  <2>1. task_node'["producer"] = n
    BY <1>1 DEF WorkInv, WorkData
  <2> QED
    BY <1>1, <2>1 DEF InProduction
<1>3. TaskList.FreeListCount + TaskList.BufferListCount > 0
  BY <1>1, WorkDataTypes, SMTT(40) DEF WorkInv, TasksOK
<1> DEFINE f == FreeOnes(TaskList)
           m == TaskList'
<1>4. Fits(TaskList, "TMPSinglyList", Tasks, f, 1 .. TaskTotal, {}, {})
  BY <1>2 DEF WorkInv, TaskNodes
<1>5. "TMPSinglyList" \notin DoublyClasses
  BY DEF DoublyClasses
<1>6. n = NodeFor(TaskList, TMPNew(TaskList, NULL))
  OBVIOUS
<1>7. m = TMPSinglyListGetNode(TaskList, n)
  BY <1>1
<1> HIDE DEF n, f, m
<1> DEFINE block == 1 .. TaskTotal
           nobody == {}
<1>8. /\ n \in 1 .. TaskTotal
      /\ Fits(m, "TMPSinglyList", Tasks, Left(f), 1 .. TaskTotal, {} \cup {n}, {})
      /\ m.BufferListCount \in Nat
      /\ m.BufferListCount + 1 >= TaskList.BufferListCount
  <2>1. Fits(TaskList, "TMPSinglyList", Tasks, f, block, nobody, {})
    BY <1>4
  <2> HIDE DEF block, nobody
  <2>2. /\ n \in block
        /\ Fits(m, "TMPSinglyList", Tasks, Left(f), block, nobody \cup {n}, {})
        /\ m.BufferListCount \in Nat
        /\ m.BufferListCount + 1 >= TaskList.BufferListCount
    BY <1>3, <1>5, <1>6, <1>7, <2>1, BlockGets
  <2> QED
    BY <2>2 DEF block, nobody
<1>9. Tasks' = Tasks /\ FreeOnes(TaskList)' = Left(f)
  BY <1>8, InOrder DEF Tasks, m
<1>10. TaskNodes'
  <2>1. {} \cup {n} = {n}
    OBVIOUS
  <2> QED
    BY <1>2, <1>8, <1>9, <2>1 DEF TaskNodes, m
<1>11. WorkData'
  BY <1>1, <1>8, WorkDataTypes DEF WorkInv, WorkData
<1>12. TasksOK'
  <2>1. TaskList'.BufferListCount + TaskCounter + 1 >= TaskTotal
    BY <1>1, <1>8, WorkDataTypes, SMTT(40) DEF WorkInv, TasksOK, m
  <2> QED
    BY <1>1, <1>9, <2>1, WorkDataTypes DEF WorkInv, TasksOK
<1>13. ConsumerOK'
  BY <1>1, <1>9, WorkApart DEF WorkInv, ConsumerOK, Giving
<1> QED
  BY <1>10, <1>11, <1>12, <1>13

LEMMA NumberTaskKeeps ==
    ASSUME WorkInv, NumberTask
    PROVE  WorkData' /\ TaskNodes' /\ TasksOK' /\ ConsumerOK'
<1> USE WorkThreads
<1> DEFINE n == task_node["producer"]
<1>1. /\ workAt["producer"] = "number" /\ workAt'["producer"] = "link"
      /\ workAt'["consumer"] = workAt["consumer"]
      /\ TaskCounter' = TaskCounter + 1
      /\ taskNumber' = [taskNumber EXCEPT ![n] = TaskCounter + 1]
      /\ UNCHANGED <<TaskList, WorkRunFlag, task_node, consumed>>
  BY DEF NumberTask, GoOn, WorkInv, WorkControl, WorkPlaces
<1>2. InProduction = {n} /\ InProduction' = {n}
  BY <1>1 DEF InProduction
<1>3. Tasks' = Tasks
  BY <1>1 DEF Tasks
<1>4. n \in Node /\ n \notin NodesOf(Tasks)
  BY <1>2, WorkDataTypes
<1>5. TaskNodes'
  BY <1>1, <1>2, <1>3 DEF WorkInv, TaskNodes
<1>6. TaskCounter < TaskTotal /\ TaskCounter \in Nat
  BY <1>1, WorkDataTypes DEF WorkInv, TasksOK
<1>7. WorkData'
  <2>1. TaskCounter + 1 \in 0 .. TaskTotal /\ TaskCounter + 1 \in Nat
    BY <1>6, WorkDataTypes
  <2>2. taskNumber' \in [Node -> Nat]
    BY <1>1, <2>1 DEF WorkInv, WorkData
  <2> QED
    BY <1>1, <2>1, <2>2 DEF WorkInv, WorkData
<1>8. TasksOK'
  <2>1. taskNumber \in [Node -> Nat]
    BY DEF WorkInv, WorkData
  <2>2. taskNumber'[n] = TaskCounter' /\ task_node'["producer"] = n
    BY <1>1, <1>4, <2>1
  <2>3. ASSUME NEW i \in 1 .. Len(Tasks)
        PROVE  taskNumber'[Tasks[i]] = Len(consumed) + i
    <3>1. Tasks[i] \in Node /\ Tasks[i] # n
      BY <1>4, WorkDataTypes, NodesAre
    <3> QED
      BY <1>1, <2>1, <3>1 DEF WorkInv, TasksOK
  <2>4. /\ consumed' \in Seq(Nat) /\ Len(consumed') = Len(consumed)
        /\ \A i \in 1 .. Len(consumed') : consumed'[i] = i
    BY <1>1 DEF WorkInv, TasksOK
  <2>5. /\ TaskCounter = Len(consumed) + Len(Tasks)
        /\ TaskList.BufferListCount + TaskCounter + 1 >= TaskTotal
    BY <1>1, WorkDataTypes DEF WorkInv, TasksOK
  <2>6. TaskCounter' = Len(consumed') + Len(Tasks') + 1
    BY <1>1, <1>3, <2>4, <2>5, WorkDataTypes
  <2>7. TaskList'.BufferListCount + TaskCounter' >= TaskTotal
    BY <1>1, <2>5, WorkDataTypes
  <2>8. /\ TaskList'.BufferListCount \in Nat /\ TaskCounter' \in Nat
        /\ Len(consumed') \in Nat /\ Len(Tasks') \in Nat
    BY <1>1, <1>3, <2>4, WorkDataTypes
  <2>9. \A i \in 1 .. Len(Tasks') : taskNumber'[Tasks'[i]] = Len(consumed') + i
    BY <1>3, <2>3, <2>4
  <2> QED
    BY <1>1, <2>2, <2>4, <2>6, <2>7, <2>8, <2>9, SMTT(40) DEF TasksOK
<1>9. ConsumerOK'
  BY <1>1, <1>3, WorkApart DEF WorkInv, ConsumerOK, Giving
<1> QED
  BY <1>5, <1>7, <1>8, <1>9

LEMMA LinkTaskKeeps ==
    ASSUME WorkInv, LinkTask
    PROVE  WorkData' /\ TaskNodes' /\ TasksOK' /\ ConsumerOK'
<1> USE WorkThreads
<1> DEFINE n == task_node["producer"]
           k == Len(Tasks) + 1
           f == FreeOnes(TaskList)
           m == TaskList'
<1>1. /\ workAt["producer"] = "link" /\ workAt'["producer"] = "start"
      /\ workAt'["consumer"] = workAt["consumer"]
      /\ TaskList' = TMPSinglyListLink(TaskList, n)
      /\ UNCHANGED <<taskNumber, TaskCounter, WorkRunFlag, task_node, consumed>>
  BY DEF LinkTask, GoOn, WorkInv, WorkControl, WorkPlaces
<1>2. InProduction = {n} /\ InProduction' = {}
  BY <1>1 DEF InProduction
<1>3. Fits(TaskList, "TMPSinglyList", Tasks, f, 1 .. TaskTotal, {n}, {})
  BY <1>2 DEF WorkInv, TaskNodes
<1>4. "TMPSinglyList" \notin DoublyClasses
  BY DEF DoublyClasses
<1>5. /\ Fits(m, "TMPSinglyList", Put(Tasks, k, n), f, 1 .. TaskTotal, {n} \ {n}, {})
      /\ Linked(m) = Put(Tasks, k, n) /\ FreeOnes(m) = f
      /\ m.BufferListCount = TaskList.BufferListCount
  <2>1. n \in {n} /\ m = TMPSinglyListLink(TaskList, n)
    BY <1>1
  <2>2. k = Len(Tasks) + 1
    OBVIOUS
  <2> HIDE DEF f, n, m, k
  <2> QED
    BY <1>3, <1>4, <2>1, <2>2, BlockLinks
<1>6. Tasks' = Put(Tasks, k, n)
  BY <1>5 DEF Tasks
<1>7. TaskNodes'
  <2>1. {n} \ {n} = {}
    OBVIOUS
  <2> QED
    BY <1>2, <1>5, <1>6, <2>1 DEF TaskNodes
<1>8. WorkData'
  BY <1>1 DEF WorkInv, WorkData
<1>9. /\ Len(Tasks) \in Nat /\ Len(Tasks') = Len(Tasks) + 1
      /\ \A i \in 1 .. Len(Tasks) : Tasks'[i] = Tasks[i]
      /\ Tasks'[k] = n
  BY <1>6, WorkDataTypes DEF Put
<1>10. TasksOK'
  <2>1. taskNumber[n] = TaskCounter
    BY <1>1 DEF WorkInv, TasksOK
  <2>2. ASSUME NEW i \in 1 .. Len(Tasks')
        PROVE  taskNumber'[Tasks'[i]] = Len(consumed') + i
    <3>1. CASE i = k
      <4>1. TaskCounter = Len(consumed) + k
        BY <1>1, WorkDataTypes DEF WorkInv, TasksOK
      <4> QED
        BY <1>1, <1>9, <2>1, <3>1, <4>1
    <3>2. CASE i # k
      <4>1. i \in 1 .. Len(Tasks) /\ Tasks'[i] = Tasks[i]
        BY <1>9, <3>2
      <4>2. taskNumber[Tasks[i]] = Len(consumed) + i
        BY <4>1 DEF WorkInv, TasksOK
      <4> QED
        BY <1>1, <4>1, <4>2
    <3> QED
      BY <3>1, <3>2
  <2> QED
    BY <1>1, <1>5, <1>9, <2>2, WorkDataTypes DEF WorkInv, TasksOK
<1>11. ConsumerOK'
  BY <1>1, WorkApart DEF WorkInv, ConsumerOK, Giving
<1> QED
  BY <1>7, <1>8, <1>10, <1>11

LEMMA GetHeadTaskKeeps ==
    ASSUME WorkInv, GetHeadTask
    PROVE  WorkData' /\ TaskNodes' /\ TasksOK' /\ ConsumerOK'
<1> USE WorkThreads
<1>1. /\ workAt["consumer"] = "head"
      /\ workAt'["consumer"] = IF TaskList.pHeadNode = NULL THEN "check"
                               ELSE "consume"
      /\ workAt'["producer"] = workAt["producer"]
      /\ task_node' = [task_node EXCEPT !["consumer"] = TaskList.pHeadNode]
      /\ UNCHANGED <<TaskList, taskNumber, TaskCounter, WorkRunFlag, consumed>>
  BY DEF GetHeadTask, GoOn, WorkInv, WorkControl, WorkPlaces
<1>2. /\ TaskList.pHeadNode = IF Len(Tasks) = 0 THEN NULL ELSE Tasks[1]
      /\ TaskList.pHeadNode = NULL <=> Len(Tasks) = 0
      /\ TaskList.pHeadNode \in Spot /\ Len(Tasks) \in Nat
  <2>1. TaskList \in ListRecord
    BY DEF WorkInv, TaskNodes, Fits
  <2>2. TaskList.pHeadNode \in Spot
    BY <2>1 DEF ListRecord
  <2> QED
    BY <2>2, InOrder DEF WorkInv, TaskNodes
<1>3. Tasks' = Tasks
  BY <1>1 DEF Tasks
<1>4. task_node'["producer"] = task_node["producer"]
      /\ task_node'["consumer"] = TaskList.pHeadNode
  BY <1>1 DEF WorkInv, WorkData
<1>5. InProduction' = InProduction
  BY <1>1, <1>4 DEF InProduction
<1>6. TaskNodes'
  BY <1>1, <1>3, <1>5 DEF WorkInv, TaskNodes
<1>7. WorkData'
  BY <1>1, <1>2 DEF WorkInv, WorkData
<1>8. TasksOK'
  BY <1>1, <1>3, <1>4 DEF WorkInv, TasksOK
<1>9. ConsumerOK'
  BY <1>1, <1>2, <1>3, <1>4 DEF WorkInv, ConsumerOK
<1> QED
  BY <1>6, <1>7, <1>8, <1>9

LEMMA ConsumeTaskKeeps ==
    ASSUME WorkInv, ConsumeTask
    PROVE  WorkData' /\ TaskNodes' /\ TasksOK' /\ ConsumerOK'
<1> USE WorkThreads
<1> DEFINE n == task_node["consumer"]
           f == FreeOnes(TaskList)
           m == TaskList'
<1>1. /\ workAt["consumer"] = "consume" /\ workAt'["consumer"] = "head"
      /\ workAt'["producer"] = workAt["producer"]
      /\ consumed' = Append(consumed, taskNumber[n])
      /\ TaskList' = TMPSinglyListFreeNode(TMPSinglyListUnlink(TaskList, n), n)
      /\ taskNumber' = [taskNumber EXCEPT ![n] = 0]
      /\ UNCHANGED <<TaskCounter, WorkRunFlag, task_node>>
  BY DEF ConsumeTask, GoOn, WorkInv, WorkControl, WorkPlaces
<1>2. workAt["producer"] \notin Giving
  BY <1>1, WorkApart DEF WorkInv
<1>3. InProduction = {} /\ InProduction' = {}
  BY <1>1, <1>2 DEF InProduction, Giving
<1>4. Len(Tasks) \in Nat /\ Len(Tasks) > 0 /\ n = Tasks[1] /\ 1 \in 1 .. Len(Tasks)
  BY <1>1, WorkDataTypes DEF WorkInv, ConsumerOK
<1>5. Fits(TaskList, "TMPSinglyList", Tasks, f, 1 .. TaskTotal, {}, {})
  BY <1>3 DEF WorkInv, TaskNodes
<1>6. "TMPSinglyList" \notin DoublyClasses
  BY DEF DoublyClasses
<1>7. /\ Fits(m, "TMPSinglyList", Out(Tasks, 1), Put(f, 1, n), 1 .. TaskTotal, {}, {})
      /\ Linked(m) = Out(Tasks, 1) /\ FreeOnes(m) = Put(f, 1, n)
      /\ m.BufferListCount = TaskList.BufferListCount
  <2> HIDE DEF f, n
  <2> QED
    BY <1>1, <1>4, <1>5, <1>6, BlockDrops DEF n
<1>8. Tasks' = Out(Tasks, 1)
  BY <1>7 DEF Tasks
<1>9. TaskNodes'
  BY <1>3, <1>7, <1>8 DEF TaskNodes
<1>10. taskNumber \in [Node -> Nat] /\ n \in Node
  BY <1>4, WorkDataTypes DEF WorkInv, WorkData
<1>11. WorkData'
  BY <1>1, <1>10 DEF WorkInv, WorkData
<1>12. /\ Len(Tasks') = Len(Tasks) - 1
       /\ \A i \in 1 .. Len(Tasks) - 1 :
            /\ Tasks'[i] = Tasks[i + 1] /\ Tasks[i + 1] # n
            /\ Tasks[i + 1] \in Node /\ i + 1 \in 1 .. Len(Tasks)
  <2>1. Tasks \in Seq(Node) /\ Distinct(Tasks)
    BY WorkDataTypes
  <2>2. /\ Len(Tasks') = Len(Tasks) - 1
        /\ \A i \in 1 .. Len(Tasks) - 1 : Tasks'[i] = Tasks[i + 1]
    BY <1>4, <1>8 DEF Out
  <2> QED
    BY <1>4, <2>1, <2>2 DEF Distinct
<1>13. taskNumber[n] = Len(consumed) + 1 /\ Len(consumed) \in Nat
  BY <1>4, WorkDataTypes DEF WorkInv, TasksOK
<1>14. /\ consumed' \in Seq(Nat) /\ Len(consumed') = Len(consumed) + 1
       /\ \A i \in 1 .. Len(consumed') : consumed'[i] = i
  <2>1. /\ consumed \in Seq(Nat) /\ taskNumber[n] \in Nat
        /\ \A i \in 1 .. Len(consumed) : consumed[i] = i
    BY <1>10 DEF WorkInv, TasksOK
  <2> QED
    BY <1>1, <1>13, <2>1
<1>15. TasksOK'
  <2>1. ASSUME NEW i \in 1 .. Len(Tasks')
        PROVE  taskNumber'[Tasks'[i]] = Len(consumed') + i
    <3>1. /\ i \in 1 .. Len(Tasks) - 1
          /\ taskNumber'[Tasks'[i]] = taskNumber[Tasks[i + 1]]
      BY <1>1, <1>10, <1>12
    <3>2. taskNumber[Tasks[i + 1]] = Len(consumed) + (i + 1)
      BY <1>12, <3>1 DEF WorkInv, TasksOK
    <3> QED
      BY <1>13, <1>14, <3>1, <3>2
  <2>2. TaskCounter' = Len(consumed') + Len(Tasks')
                       + IF workAt'["producer"] = "link" THEN 1 ELSE 0
    BY <1>1, <1>2, <1>4, <1>12, <1>13, <1>14 DEF WorkInv, TasksOK, Giving
  <2> QED
    BY <1>1, <1>2, <1>7, <1>14, <2>1, <2>2 DEF WorkInv, TasksOK, Giving
<1>16. ConsumerOK'
  BY <1>1, <1>4, <1>12 DEF WorkInv, ConsumerOK
<1> QED
  BY <1>9, <1>11, <1>15, <1>16

LEMMA WorkInvNext == WorkInv /\ [WorkNext]_workVars => WorkInv'
<1> SUFFICES ASSUME WorkInv, [WorkNext]_workVars
             PROVE  WorkInv'
  OBVIOUS
<1> USE WorkThreads
<1>1. WorkControl'
  BY WorkControlNext DEF WorkInv
<1>2. WorkPlaces
  BY DEF WorkInv, WorkControl
<1> SUFFICES WorkData' /\ TaskNodes' /\ TasksOK' /\ ConsumerOK'
  BY <1>1 DEF WorkInv
<1>3. ASSUME NEW t \in WorkThread, EitherThread(t)
      PROVE  WorkData' /\ TaskNodes' /\ TasksOK' /\ ConsumerOK'
  <2>1. /\ UNCHANGED <<TaskList, taskNumber, WorkRunFlag, TaskCounter,
                       task_node, consumed>>
        /\ \E a \in {"top", "wait", "reset", "release", "count"} :
             \E b \in {"wait", "release", "reset", "inner", "head", "count", "end"} :
               workAt[t] = a /\ workAt' = [workAt EXCEPT ![t] = b]
    BY <1>3 DEF EitherThread, TestRunFlag, WaitForTurn, ResetTurn, ReleaseItself,
                CountWorkEnd, GoOn
  <2>2. /\ \A a \in {"number", "link"} :
             workAt'["producer"] = a <=> workAt["producer"] = a
        /\ \A a \in {"get", "start"} :
             workAt'["producer"] = a => workAt["producer"] = a
        /\ \A a \in {"consume", "check"} :
             workAt'["consumer"] = a => workAt["consumer"] = a
    BY <1>2, <2>1 DEF WorkPlaces
  <2>3. ~ WorkRunFlag' =>
             /\ Len(Tasks) = 0 /\ TaskCounter = TaskTotal
             /\ workAt'["producer"] \notin Giving \cup {"start"}
    BY <2>1, <2>2 DEF WorkInv, ConsumerOK, Giving
  <2> QED
    BY <2>1, <2>2, <2>3, WorkQuiet
<1>4. CASE TestInner
  <2>1. /\ UNCHANGED <<TaskList, taskNumber, WorkRunFlag, TaskCounter,
                       task_node, consumed>>
        /\ workAt["producer"] = "inner" /\ workAt'["consumer"] = workAt["consumer"]
        /\ workAt'["producer"] =
             IF ~WorkRunFlag THEN "top"
             ELSE IF TaskCounter < TaskTotal THEN "get" ELSE "start"
    BY <1>2, <1>4 DEF TestInner, GoOn, WorkPlaces
  <2>2. ~ WorkRunFlag' =>
             /\ Len(Tasks) = 0 /\ TaskCounter = TaskTotal
             /\ workAt'["producer"] \notin Giving \cup {"start"}
    BY <2>1 DEF WorkInv, ConsumerOK, Giving
  <2> QED
    BY <2>1, <2>2, WorkQuiet
<1>5. CASE StartConsumer
  <2>1. /\ UNCHANGED <<TaskList, taskNumber, WorkRunFlag, TaskCounter,
                       task_node, consumed>>
        /\ workAt["producer"] = "start" /\ workAt'["consumer"] = workAt["consumer"]
        /\ workAt'["producer"] = "top"
    BY <1>2, <1>5 DEF StartConsumer, GoOn, WorkPlaces
  <2>2. ~ WorkRunFlag' =>
             /\ Len(Tasks) = 0 /\ TaskCounter = TaskTotal
             /\ workAt'["producer"] \notin Giving \cup {"start"}
    BY <2>1 DEF WorkInv, ConsumerOK, Giving
  <2> QED
    BY <2>1, <2>2, WorkQuiet
<1>6. CASE StartProducer
  <2>1. /\ UNCHANGED <<TaskList, taskNumber, WorkRunFlag, TaskCounter,
                       task_node, consumed>>
        /\ workAt["consumer"] = "start" /\ workAt'["producer"] = workAt["producer"]
        /\ workAt'["consumer"] = "top"
    BY <1>2, <1>6 DEF StartProducer, GoOn, WorkPlaces
  <2>2. ~ WorkRunFlag' =>
             /\ Len(Tasks) = 0 /\ TaskCounter = TaskTotal
             /\ workAt'["producer"] \notin Giving \cup {"start"}
    BY <2>1 DEF WorkInv, ConsumerOK
  <2> QED
    BY <2>1, <2>2, WorkQuiet
<1>7. CASE CheckTaskCounter
  <2>1. /\ UNCHANGED <<TaskList, taskNumber, TaskCounter, task_node, consumed>>
        /\ workAt["consumer"] = "check" /\ workAt'["producer"] = workAt["producer"]
        /\ workAt'["consumer"] = "start"
        /\ WorkRunFlag' = (WorkRunFlag /\ TaskCounter # TaskTotal)
    BY <1>2, <1>7 DEF CheckTaskCounter, GoOn, WorkPlaces
  <2>2. ~ WorkRunFlag' =>
             /\ Len(Tasks) = 0 /\ TaskCounter = TaskTotal
             /\ workAt'["producer"] \notin Giving \cup {"start"}
    BY <2>1, WorkApart DEF WorkInv, ConsumerOK
  <2> QED
    BY <2>1, <2>2, WorkQuiet
<1>8. CASE WorkMain \/ UNCHANGED workVars
  <2>1. UNCHANGED <<TaskList, taskNumber, TaskCounter, task_node, consumed,
                    WorkRunFlag, workAt>>
    BY <1>8 DEF WorkMain, workVars
  <2>2. ~ WorkRunFlag' =>
             /\ Len(Tasks) = 0 /\ TaskCounter = TaskTotal
             /\ workAt'["producer"] \notin Giving \cup {"start"}
    BY <2>1 DEF WorkInv, ConsumerOK
  <2> QED
    BY <2>1, <2>2, WorkQuiet
<1> QED
  BY <1>3, <1>4, <1>5, <1>6, <1>7, <1>8, GetTaskKeeps, NumberTaskKeeps,
     LinkTaskKeeps, GetHeadTaskKeeps, ConsumeTaskKeeps
     DEF WorkNext, Producer_InThread, Consumer_InThread

LEMMA WorkInvMeans == WorkInv => TurnsKept
<1> SUFFICES ASSUME WorkInv
             PROVE  TurnsKept
  OBVIOUS
<1> USE WorkThreads
<1>1. OneTurn
  <2> DEFINE having == {t \in WorkThread : HasTurn(t)}
  <2>1. ~ (HasTurn("producer") /\ HasTurn("consumer"))
        /\ (WorkRunFlag => HasTurn("producer") \/ HasTurn("consumer"))
    BY DEF WorkInv, WorkControl, TurnOK
  <2>2. /\ having = {} \/ having = {"producer"} \/ having = {"consumer"}
        /\ WorkRunFlag => having # {}
    BY <2>1
  <2>3. /\ Cardinality({}) = 0 /\ Cardinality({"producer"}) = 1
        /\ Cardinality({"consumer"}) = 1
    BY FS_EmptySet, FS_Singleton
  <2> HIDE DEF having
  <2>4. Cardinality(having) <= 1 /\ (WorkRunFlag => Cardinality(having) = 1)
    BY <2>2, <2>3
  <2> QED
    BY <2>4 DEF OneTurn, having
<1>2. consumed = [i \in 1 .. Len(consumed) |-> i]
  <2>1. /\ consumed \in Seq(Nat)
        /\ \A i \in 1 .. Len(consumed) : consumed[i] = i
    BY DEF WorkInv, TasksOK
  <2> QED
    BY <2>1
<1>3. ASSUME workMain = "end"
      PROVE  /\ Len(consumed) = TaskTotal
             /\ TaskList.NodeLinkCount = 0 /\ TaskList.NodeUseCount = 0
  <2>1. workAt["producer"] = "end" /\ workAt["consumer"] = "end"
    BY <1>3 DEF WorkInv, WorkControl, EndsOK, Ended
  <2>2. ~ WorkRunFlag
    BY <2>1 DEF WorkInv, WorkControl, TurnOK, Leaving
  <2>3. Len(Tasks) = 0 /\ TaskCounter = TaskTotal
    BY <2>2 DEF WorkInv, ConsumerOK
  <2>4. Len(consumed) = TaskTotal
    BY <2>1, <2>3, WorkDataTypes DEF WorkInv, TasksOK
  <2>5. InProduction = {} /\ Cardinality({}) = 0
    BY <2>1, FS_EmptySet DEF InProduction
  <2>6. TaskList.NodeLinkCount = 0 /\ TaskList.NodeUseCount = 0
    BY <2>3, <2>5 DEF WorkInv, TaskNodes, Fits, Represents, Elsewhere
  <2> QED
    BY <2>4, <2>6
<1> QED
  BY <1>1, <1>2, <1>3 DEF TurnsKept, TasksInOrder

\* Tutorial 3-5, for any number of tasks: the turn is never doubled and not lost
\* before WorkRunFlag is down, every task is consumed once and in order, and
\* main goes on when all have been, with their nodes back on the free list.
THEOREM WorkInTurns == WorkSpec => []TurnsKept
<1> QED
  BY WorkInvInit, WorkInvNext, WorkInvMeans, PTL DEF WorkSpec

-------------------------------------------------------------------------------
(***************************************************************************)
(* TaskManager, for any number of tasks, delays and run counts: none runs  *)
(* early, and each runs as often as it was added for.                      *)
(***************************************************************************)

TaskRecord == [DelayTime : Nat, RunCount : Int, StartTime : Nat]

TaskTypes ==
  /\ task \in [Node -> TaskRecord] /\ runs \in [Node -> [done : Nat, of : Int]]
  /\ age \in [Node -> Nat] /\ clock \in 0 .. ClockMax
  /\ runAt \in Spot /\ calling \in BOOLEAN

Queue == Linked(taskList)
TaskListFits ==
  Fits(taskList, "TMPDoublyList", Queue, FreeOnes(taskList), 1 .. TaskMax, {}, {})

\* vRunTask stands on a node that is linked.
AtTask ==
  /\ runAt # NULL => runAt \in NodesOf(Queue)
  /\ calling => runAt # NULL

\* A linked task has RunCount runs before it, the one under way included.
Counted(n) ==
  LET made == runs[n].done - IF calling /\ runAt = n THEN 1 ELSE 0
  IN  /\ runs[n].of \in RunCounts
      /\ IF runs[n].of = TASK_RUN_COUNT_UNLIMITED
         THEN task[n].RunCount = TASK_RUN_COUNT_UNLIMITED
         ELSE /\ made >= 0 /\ made < runs[n].of
              /\ task[n].RunCount = runs[n].of - made

\* Its age is at least what its timer shows, up to the longest delay.
Timed(n) ==
  /\ task[n].DelayTime \in Delays
  /\ task[n].StartTime # 0 =>
       age[n] >= LongestDelay \/ age[n] >= clock - task[n].StartTime

\* A node that is not linked carries nothing of the task it served.
Unlinked(n) ==
  task[n] = NoTask /\ (runs[n].done > 0 => runs[n].done = runs[n].of)

TasksCounted == \A n \in NodesOf(Queue) : Counted(n)
TasksTimed == \A n \in NodesOf(Queue) : Timed(n)
RestUnlinked == \A n \in Node \ NodesOf(Queue) : Unlinked(n)

TaskInv ==
  TaskTypes /\ TaskListFits /\ AtTask /\ TasksCounted /\ TasksTimed /\ RestUnlinked

LEMMA LongestIs ==
    ASSUME NEW d \in Delays
    PROVE  LongestDelay \in Delays /\ LongestDelay \in Nat /\ d \in Nat
           /\ d <= LongestDelay
<1>1. ClockMax \in Nat /\ \A e \in Delays : e \in Nat /\ e <= ClockMax
  BY TaskAssumption
<1> DEFINE S == {m \in Nat : \E e \in Delays : m = ClockMax - e}
<1>2. ClockMax - d \in S
  BY <1>1
<1>3. PICK i \in S : \A j \in S : i <= j
  <2>1. S \in SUBSET Nat /\ S # {}
    BY <1>2
  <2> HIDE DEF S
  <2> QED
    BY <2>1, LeastExists
<1>4. PICK m \in Delays : i = ClockMax - m
  BY <1>3
<1>5. \A e \in Delays : e <= m
  <2> TAKE e \in Delays
  <2>1. ClockMax - e \in S
    BY <1>1
  <2>2. i <= ClockMax - e
    BY <1>3, <2>1
  <2> QED
    BY <1>1, <1>4, <2>2
<1>6. LongestDelay \in Delays /\ \A e \in Delays : e <= LongestDelay
  BY <1>5, Zenon DEF LongestDelay
<1> QED
  BY <1>1, <1>6

LEMMA TaskFacts ==
    ASSUME TaskTypes, TaskListFits
    PROVE  /\ Queue \in Seq(Node) /\ Distinct(Queue) /\ Len(Queue) \in Nat
           /\ NodesOf(Queue) \subseteq Node /\ NULL \notin Node
           /\ Node \subseteq Spot /\ NULL \in Spot
           /\ "TMPDoublyList" \in DoublyClasses /\ "TMPDoublyList" \in PooledClasses
           /\ clock \in Nat /\ ClockMax \in Nat /\ clock <= ClockMax
           /\ \A n \in Node : /\ task[n] \in TaskRecord /\ age[n] \in Nat
                              /\ runs[n] \in [done : Nat, of : Int]
<1>1. Queue \in Seq(Node) /\ Distinct(Queue)
  BY DEF TaskListFits, Fits, Represents
<1>2. Len(Queue) \in Nat /\ NodesOf(Queue) \subseteq Node
  BY <1>1, NodesAre
<1>3. NULL \notin Node /\ Node \subseteq Spot /\ NULL \in Spot
  BY DEF Node, NULL, Spot
<1>4. "TMPDoublyList" \in DoublyClasses /\ "TMPDoublyList" \in PooledClasses
  BY DEF DoublyClasses, PooledClasses
<1>5. clock \in Nat /\ ClockMax \in Nat /\ clock <= ClockMax
  BY TaskAssumption DEF TaskTypes
<1>6. \A n \in Node : /\ task[n] \in TaskRecord /\ age[n] \in Nat
                      /\ runs[n] \in [done : Nat, of : Int]
  BY DEF TaskTypes
<1> QED
  BY <1>1, <1>2, <1>3, <1>4, <1>5, <1>6

LEMMA TaskInvInit == TaskInit => TaskInv
<1> SUFFICES ASSUME TaskInit
             PROVE  TaskInv
  OBVIOUS
<1>1. /\ "TMPDoublyList" \in PooledClasses
      /\ taskList = TMPSinglyListCreate(RawList, TaskMax)
      /\ TaskMax \in 1 .. ListNodeMax
  BY TaskAssumption DEF TaskInit, TMPDoublyListCreate, PooledClasses
<1>2. /\ Fits(taskList, "TMPDoublyList", <<>>, <<>>, 1 .. TaskMax, {}, {})
      /\ Linked(taskList) = <<>>
  BY <1>1, NewBlock
<1>3. FreeOnes(taskList) = <<>> /\ Queue = <<>>
  BY <1>2, InOrder DEF Queue
<1>4. TaskListFits
  BY <1>2, <1>3 DEF TaskListFits
<1>5. NodesOf(Queue) = {}
  BY <1>3 DEF NodesOf
<1>6. NoTask \in TaskRecord
  BY DEF NoTask, TaskRecord
<1>7. TaskTypes
  <2>1. task \in [Node -> TaskRecord]
    BY <1>6 DEF TaskInit
  <2>2. /\ runs \in [Node -> [done : Nat, of : Int]] /\ age \in [Node -> Nat]
        /\ clock \in 0 .. ClockMax /\ runAt \in Spot
    BY TaskAssumption DEF TaskInit, Spot, NULL
  <2>3. calling \in BOOLEAN
    BY Zenon DEF TaskInit
  <2> QED
    BY <2>1, <2>2, <2>3 DEF TaskTypes
<1>8. AtTask
  BY DEF AtTask, TaskInit
<1>9. TasksCounted /\ TasksTimed
  BY <1>5 DEF TasksCounted, TasksTimed
<1>10. RestUnlinked
  BY DEF RestUnlinked, Unlinked, TaskInit
<1> QED
  BY <1>4, <1>7, <1>8, <1>9, <1>10 DEF TaskInv

LEMMA SameTasks ==
    ASSUME TaskListFits, taskList' = taskList
    PROVE  Queue' = Queue /\ TaskListFits'
BY DEF Queue, TaskListFits

\* What the runs of a task leave of it.
LEMMA CountedOne ==
    ASSUME TaskTypes, NEW n \in Node, Counted(n)
    PROVE  /\ runs[n].of = TASK_RUN_COUNT_UNLIMITED
                <=> task[n].RunCount = TASK_RUN_COUNT_UNLIMITED
           /\ runs[n].of # TASK_RUN_COUNT_UNLIMITED =>
                runs[n].of \in Nat \ {0} /\ task[n].RunCount > 0
<1>1. /\ runs[n].done \in Nat /\ runs[n].of \in Int /\ task[n].RunCount \in Int
  BY DEF TaskTypes, TaskRecord
<1>2. runs[n].of \in (Nat \ {0}) \cup {TASK_RUN_COUNT_UNLIMITED}
  BY TaskAssumption DEF Counted
<1> QED
  BY <1>1, <1>2 DEF Counted, TASK_RUN_COUNT_UNLIMITED

LEMMA vAddTaskKeeps ==
    ASSUME TaskInv, NEW delay \in Delays, NEW count \in RunCounts,
           vAddTask(delay, count)
    PROVE  /\ TaskInv'
           /\ Queue' = Put(Queue, Len(Queue) + 1, Queue'[Len(Queue) + 1])
           /\ \A n \in NodesOf(Queue) : task'[n] = task[n]
           /\ LET n == Queue'[Len(Queue) + 1]
              IN  /\ n \in Node \ NodesOf(Queue)
                  /\ task'[n].DelayTime = delay /\ task'[n].RunCount = count
                  /\ task'[n].StartTime = 0
<1> DEFINE n == NodeFor(taskList, TMPNew(taskList, NULL))
           f == FreeOnes(taskList)
           k == Len(Queue) + 1
           m == TMPDoublyListGetNode(taskList, NULL)
           r == taskList'
           cl == "TMPDoublyList"
<1> USE DEF TaskInv
<1>1. /\ runAt = NULL \/ calling
      /\ taskList.FreeListCount + taskList.BufferListCount > 0
      /\ r = TMPDoublyListLink(m, n)
      /\ task' = [task EXCEPT ![n] = [@ EXCEPT !.DelayTime = delay,
                                               !.RunCount = count]]
      /\ age' = [age EXCEPT ![n] = 0]
      /\ runs' = [runs EXCEPT ![n] = [done |-> 0, of |-> count]]
      /\ UNCHANGED <<clock, runAt, calling>>
  BY DEF vAddTask
<1>2. /\ Queue \in Seq(Node) /\ Distinct(Queue) /\ Len(Queue) \in Nat
      /\ NodesOf(Queue) \subseteq Node /\ cl \in DoublyClasses
      /\ Node \subseteq Spot /\ NULL \notin Node
  BY TaskFacts
<1>3. /\ n \in 1 .. TaskMax /\ n \notin NodesOf(Queue)
      /\ Fits(m, cl, Queue, Left(f), 1 .. TaskMax, {n}, {})
  <2> DEFINE block == 1 .. TaskMax
             nobody == {}
  <2>1. Fits(taskList, cl, Queue, f, block, nobody, {})
    BY DEF TaskListFits
  <2>2. /\ n = NodeFor(taskList, TMPNew(taskList, NULL))
        /\ m = TMPDoublyListGetNode(taskList, NULL)
        /\ taskList.FreeListCount + taskList.BufferListCount > 0
    BY <1>1
  <2> HIDE DEF block, nobody, n, m, f, cl
  <2>3. /\ n \in block /\ n \notin NodesOf(Queue)
        /\ Fits(m, cl, Queue, Left(f), block, nobody \cup {n}, {})
    BY <2>1, <2>2, BlockGets
  <2>4. nobody \cup {n} = {n}
    BY DEF nobody
  <2> QED
    BY <2>3, <2>4 DEF block
<1>4. /\ Fits(r, cl, Put(Queue, k, n), Left(f), 1 .. TaskMax, {}, {})
      /\ Linked(r) = Put(Queue, k, n) /\ FreeOnes(r) = Left(f)
  <2> DEFINE block == 1 .. TaskMax
             g == Left(f)
  <2>1. Fits(m, cl, Queue, g, block, {n}, {}) /\ n \in {n}
    BY <1>3
  <2>2. r = TMPDoublyListLink(m, n) /\ cl \in DoublyClasses
    BY <1>1, <1>2
  <2> HIDE DEF block, g, n, m, r, cl
  <2>3. /\ Fits(r, cl, Put(Queue, k, n), g, block, {n} \ {n}, {})
        /\ Linked(r) = Put(Queue, k, n) /\ FreeOnes(r) = g
    BY <2>1, <2>2, BlockLinks
  <2>4. {n} \ {n} = {}
    OBVIOUS
  <2> QED
    BY <2>3, <2>4 DEF block, g
<1>5. n \in Node
  BY <1>3, TaskAssumption, ListNodeMaxAssumption DEF Node
<1>6. Queue' = Put(Queue, k, n) /\ FreeOnes(taskList') = Left(f)
  BY <1>4 DEF Queue
<1>7. TaskListFits'
  BY <1>4, <1>6 DEF TaskListFits
<1> HIDE DEF n, r, m, f
<1>8. NodesOf(Queue') = NodesOf(Queue) \cup {n} /\ Queue'[k] = n
  <2>1. NodesOf(Queue') = NodesOf(Queue) \cup {n}
    BY <1>2, <1>3, <1>5, <1>6, PutSeq
  <2>2. Queue'[k] = n
    BY <1>2, <1>6 DEF Put
  <2> QED
    BY <2>1, <2>2
<1>9. task[n] = NoTask
  BY <1>3, <1>5 DEF RestUnlinked, Unlinked
<1>10. /\ task'[n] \in TaskRecord /\ task'[n].DelayTime = delay
       /\ task'[n].RunCount = count /\ task'[n].StartTime = 0
       /\ \A i \in Node : i # n => task'[i] = task[i]
       /\ runs'[n] = [done |-> 0, of |-> count] /\ age'[n] = 0
       /\ \A i \in Node : i # n => runs'[i] = runs[i] /\ age'[i] = age[i]
  <2>1. /\ task \in [Node -> TaskRecord] /\ age \in [Node -> Nat]
        /\ runs \in [Node -> [done : Nat, of : Int]]
    BY DEF TaskTypes
  <2>2. task'[n] = [task[n] EXCEPT !.DelayTime = delay, !.RunCount = count]
    BY <1>1, <1>5, <2>1
  <2>3. /\ task'[n] \in TaskRecord /\ task'[n].DelayTime = delay
        /\ task'[n].RunCount = count /\ task'[n].StartTime = 0
    <3>1. NoTask \in TaskRecord /\ NoTask.StartTime = 0
      BY DEF NoTask, TaskRecord
    <3>2. delay \in Nat /\ count \in Int
      BY TaskAssumption DEF TASK_RUN_COUNT_UNLIMITED
    <3> QED
      BY <1>9, <2>2, <3>1, <3>2 DEF TaskRecord
  <2>4. \A i \in Node : i # n => task'[i] = task[i]
    BY <1>1, <2>1
  <2>5. /\ runs'[n] = [done |-> 0, of |-> count] /\ age'[n] = 0
        /\ \A i \in Node : i # n => runs'[i] = runs[i] /\ age'[i] = age[i]
    BY <1>1, <1>5, <2>1
  <2> QED
    BY <2>3, <2>4, <2>5
<1>11. delay \in Nat /\ count \in Int
  BY TaskAssumption DEF TASK_RUN_COUNT_UNLIMITED
<1>12. TaskTypes'
  <2>2. task' \in [Node -> TaskRecord]
    BY <1>1, <1>10 DEF TaskTypes
  <2>3. runs' \in [Node -> [done : Nat, of : Int]]
    BY <1>1, <1>11 DEF TaskTypes
  <2>4. age' \in [Node -> Nat]
    BY <1>1 DEF TaskTypes
  <2> QED
    BY <1>1, <2>2, <2>3, <2>4 DEF TaskTypes
<1>13. AtTask'
  BY <1>1, <1>8 DEF AtTask
<1>14. calling => runAt # n
  BY <1>3 DEF AtTask
<1>15. TasksCounted'
  <2> SUFFICES ASSUME NEW i \in NodesOf(Queue')
               PROVE  Counted(i)'
    BY DEF TasksCounted
  <2>1. CASE i = n
    <3>1. count # TASK_RUN_COUNT_UNLIMITED => count \in Nat \ {0}
      BY TaskAssumption
    <3> QED
      BY <1>1, <1>10, <1>14, <2>1, <3>1 DEF Counted
  <2>2. CASE i # n
    <3>1. i \in NodesOf(Queue) /\ i \in Node
      BY <1>2, <1>8, <2>2
    <3>2. Counted(i)
      BY <3>1 DEF TasksCounted
    <3> QED
      BY <1>1, <1>10, <2>2, <3>1, <3>2 DEF Counted
  <2> QED
    BY <2>1, <2>2
<1>16. TasksTimed'
  <2> SUFFICES ASSUME NEW i \in NodesOf(Queue')
               PROVE  Timed(i)'
    BY DEF TasksTimed
  <2>1. CASE i = n
    BY <1>10, <2>1 DEF Timed
  <2>2. CASE i # n
    <3>1. i \in NodesOf(Queue) /\ i \in Node
      BY <1>2, <1>8, <2>2
    <3>2. Timed(i)
      BY <3>1 DEF TasksTimed
    <3> QED
      BY <1>1, <1>10, <2>2, <3>1, <3>2 DEF Timed
  <2> QED
    BY <2>1, <2>2
<1>17. RestUnlinked'
  <2> SUFFICES ASSUME NEW i \in Node, i \notin NodesOf(Queue')
               PROVE  Unlinked(i)'
    BY DEF RestUnlinked
  <2>1. i # n /\ i \notin NodesOf(Queue)
    BY <1>8
  <2>2. Unlinked(i)
    BY <2>1 DEF RestUnlinked
  <2> QED
    BY <1>10, <2>1, <2>2 DEF Unlinked
<1>18. TaskInv'
  BY <1>7, <1>12, <1>13, <1>15, <1>16, <1>17
<1>19. \A i \in NodesOf(Queue) : task'[i] = task[i]
  BY <1>2, <1>3, <1>10
<1> QED
  BY <1>3, <1>5, <1>6, <1>8, <1>10, <1>18, <1>19

LEMMA RestartKeeps ==
    ASSUME TaskInv, RestartTask
    PROVE  /\ TaskInv' /\ Queue' = Queue
           /\ UNCHANGED <<clock, runAt, calling>>
           /\ \A i \in NodesOf(Queue) :
                /\ task'[i].DelayTime = task[i].DelayTime
                /\ task'[i].RunCount = task[i].RunCount
           /\ \E i \in NodesOf(Queue) : task'[i].StartTime = 0
<1> USE DEF TaskInv
<1>1. PICK n \in NodesOf(Queue) :
        /\ task[n].RunCount = TASK_RUN_COUNT_UNLIMITED
        /\ task' = [task EXCEPT ![n] = [@ EXCEPT !.StartTime = 0]]
  BY DEF RestartTask, Queue
<1>2. UNCHANGED <<taskList, clock, runAt, calling, age, runs>>
  BY DEF RestartTask
<1>3. Queue' = Queue /\ TaskListFits'
  BY <1>2, SameTasks
<1>4. n \in Node /\ task \in [Node -> TaskRecord]
  BY TaskFacts DEF TaskTypes
<1>5. /\ task'[n] \in TaskRecord /\ task'[n].StartTime = 0
      /\ task'[n].RunCount = task[n].RunCount
      /\ task'[n].DelayTime = task[n].DelayTime
      /\ \A i \in Node : i # n => task'[i] = task[i]
  BY <1>1, <1>4 DEF TaskRecord
<1>6. TaskTypes'
  <2>1. task' \in [Node -> TaskRecord]
    BY <1>1, <1>4, <1>5
  <2> QED
    BY <1>2, <2>1 DEF TaskTypes
<1>7. AtTask'
  BY <1>2, <1>3 DEF AtTask
<1>8. TasksCounted'
  <2> SUFFICES ASSUME NEW i \in NodesOf(Queue)
               PROVE  Counted(i)'
    BY <1>3 DEF TasksCounted
  <2>1. task'[i].RunCount = task[i].RunCount
    BY <1>5, TaskFacts
  <2> QED
    BY <1>2, <2>1 DEF TasksCounted, Counted
<1>9. TasksTimed'
  <2> SUFFICES ASSUME NEW i \in NodesOf(Queue)
               PROVE  Timed(i)'
    BY <1>3 DEF TasksTimed
  <2>1. task'[i].DelayTime = task[i].DelayTime
    BY <1>5, TaskFacts
  <2>2. task'[i].StartTime # 0 => task'[i].StartTime = task[i].StartTime
    BY <1>5, TaskFacts
  <2> QED
    BY <1>2, <2>1, <2>2 DEF TasksTimed, Timed
<1>10. RestUnlinked'
  BY <1>2, <1>3, <1>5 DEF RestUnlinked, Unlinked
<1>11. TaskInv'
  BY <1>3, <1>6, <1>7, <1>8, <1>9, <1>10
<1>12. \A i \in NodesOf(Queue) : /\ task'[i].DelayTime = task[i].DelayTime
                                 /\ task'[i].RunCount = task[i].RunCount
  BY <1>5, TaskFacts
<1> QED
  BY <1>2, <1>3, <1>5, <1>11, <1>12

LEMMA vRunTaskKeeps ==
    ASSUME TaskInv, vRunTask
    PROVE  /\ TaskInv'
           /\ runAt' = IF Len(Queue) = 0 THEN NULL ELSE Queue[1]
           /\ Queue' = Queue /\ UNCHANGED <<task, clock, calling>>
<1> USE DEF TaskInv
<1>1. /\ runAt = NULL /\ runAt' = taskList.pHeadNode
      /\ UNCHANGED <<taskList, task, clock, calling, age, runs>>
  BY DEF vRunTask
<1>2. Queue' = Queue /\ TaskListFits'
  BY <1>1, SameTasks
<1>3. ~ calling
  BY <1>1 DEF AtTask
<1>4. /\ taskList.pHeadNode = IF Len(Queue) = 0 THEN NULL ELSE Queue[1]
      /\ Len(Queue) \in Nat
      /\ \A i \in 1 .. Len(Queue) : Queue[i] \in Node /\ Queue[i] \in NodesOf(Queue)
  <2>1. Fits(taskList, "TMPDoublyList", Queue, FreeOnes(taskList),
             1 .. TaskMax, {}, {})
    BY DEF TaskListFits
  <2> QED
    BY <2>1, InOrder
<1>5. TaskTypes' /\ AtTask'
  BY <1>1, <1>2, <1>3, <1>4 DEF TaskTypes, AtTask, Spot
<1>6. TasksCounted' /\ TasksTimed' /\ RestUnlinked'
  BY <1>1, <1>2, <1>3 DEF TasksCounted, TasksTimed, RestUnlinked, Counted,
                           Timed, Unlinked
<1> QED
  BY <1>1, <1>2, <1>4, <1>5, <1>6

\* The node after the one vRunTask is at.
LEMMA AfterNode ==
    ASSUME TaskListFits, NEW k \in 1 .. Len(Queue)
    PROVE  /\ taskList.pNext[Queue[k]] \in Spot
           /\ taskList.pNext[Queue[k]]
                = IF k = Len(Queue) THEN NULL ELSE Queue[k + 1]
           /\ taskList.pNext[Queue[k]] # NULL =>
                /\ taskList.pNext[Queue[k]] \in NodesOf(Queue)
                /\ taskList.pNext[Queue[k]] # Queue[k]
<1>1. Fits(taskList, "TMPDoublyList", Queue, FreeOnes(taskList),
           1 .. TaskMax, {}, {})
  BY DEF TaskListFits
<1>2. /\ Len(Queue) \in Nat
      /\ taskList.pNext[Queue[k]] = IF k = Len(Queue) THEN NULL ELSE Queue[k + 1]
      /\ \A i \in 1 .. Len(Queue) : Queue[i] \in Node /\ Queue[i] \in NodesOf(Queue)
      /\ \A i, j \in 1 .. Len(Queue) : Queue[i] = Queue[j] => i = j
  BY <1>1, InOrder
<1>3. CASE k = Len(Queue)
  BY <1>2, <1>3 DEF Spot
<1>4. CASE k # Len(Queue)
  <2>1. k + 1 \in 1 .. Len(Queue) /\ k + 1 # k
    BY <1>2, <1>4
  <2> QED
    BY <1>2, <1>4, <2>1 DEF Spot
<1> QED
  BY <1>3, <1>4

LEMMA DelayTaken ==
    ASSUME NEW t \in TaskRecord, clock \in Nat
    PROVE  /\ AfterDelay(t) \in TaskRecord
           /\ AfterDelay(t).DelayTime = t.DelayTime
           /\ AfterDelay(t).RunCount = t.RunCount
           /\ DelayOver(t) /\ t.StartTime = 0 => AfterDelay(t).StartTime = 0
           /\ DelayOver(t) /\ t.StartTime # 0 => AfterDelay(t).StartTime = clock
           /\ ~ DelayOver(t) => AfterDelay(t).StartTime =
                                  IF t.StartTime = 0 THEN clock ELSE t.StartTime
<1>1. t.StartTime = 0 /\ t.DelayTime = 0 => AfterDelay(t) = t
  BY DEF AfterDelay
<1>2. t.StartTime = 0 /\ t.DelayTime # 0 =>
        AfterDelay(t) = [t EXCEPT !.StartTime = clock]
  BY DEF AfterDelay
<1>3. t.StartTime # 0 /\ DelayOver(t) =>
        AfterDelay(t) = [t EXCEPT !.StartTime = clock]
  BY DEF AfterDelay
<1>4. t.StartTime # 0 /\ ~ DelayOver(t) =>
        AfterDelay(t) = [t EXCEPT !.StartTime = t.StartTime]
  BY DEF AfterDelay
<1>5. t.StartTime = 0 => (DelayOver(t) <=> t.DelayTime = 0)
  BY DEF DelayOver
<1> QED
  BY <1>1, <1>2, <1>3, <1>4, <1>5 DEF TaskRecord

LEMMA LookAtTaskKeeps ==
    ASSUME TaskInv, LookAtTask
    PROVE  /\ TaskInv'
           /\ DelayOver(task[runAt]) => age[runAt] >= task[runAt].DelayTime
           /\ Queue' = Queue /\ clock' = clock
           /\ task'[runAt].DelayTime = task[runAt].DelayTime
           /\ task'[runAt].RunCount = task[runAt].RunCount
           /\ DelayOver(task[runAt]) =>
                /\ runAt' = runAt /\ calling'
                /\ task'[runAt].StartTime =
                     IF task[runAt].StartTime = 0 THEN 0 ELSE clock
           /\ ~ DelayOver(task[runAt]) =>
                /\ runAt' = taskList.pNext[runAt] /\ calling' = calling
                /\ task'[runAt].StartTime =
                     IF task[runAt].StartTime = 0 THEN clock ELSE task[runAt].StartTime
<1> USE DEF TaskInv
<1> DEFINE n == runAt
           over == DelayOver(task[n])
<1>1. /\ n # NULL /\ ~ calling
      /\ task' = [task EXCEPT ![n] = AfterDelay(@)]
      /\ UNCHANGED <<taskList, clock>>
      /\ over => /\ calling' = TRUE /\ UNCHANGED runAt
                 /\ age' = [age EXCEPT ![n] = 0]
                 /\ runs' = [runs EXCEPT ![n] =
                              [@ EXCEPT !.done = OneMore(runs[n])]]
      /\ ~ over => /\ runAt' = taskList.pNext[n]
                   /\ UNCHANGED <<calling, age, runs>>
  BY DEF LookAtTask
<1>2. Queue' = Queue /\ TaskListFits'
  BY <1>1, SameTasks
<1>3. n \in NodesOf(Queue) /\ n \in Node /\ clock \in Nat
  BY <1>1, TaskFacts DEF AtTask
<1>4. /\ task \in [Node -> TaskRecord] /\ age \in [Node -> Nat]
      /\ runs \in [Node -> [done : Nat, of : Int]]
  BY DEF TaskTypes
<1>5. /\ task'[n] = AfterDelay(task[n]) /\ task[n] \in TaskRecord
      /\ \A i \in Node : i # n => task'[i] = task[i]
  BY <1>1, <1>3, <1>4
<1>6. /\ task'[n] \in TaskRecord
      /\ task'[n].DelayTime = task[n].DelayTime
      /\ task'[n].RunCount = task[n].RunCount
      /\ over /\ task[n].StartTime = 0 => task'[n].StartTime = 0
      /\ over /\ task[n].StartTime # 0 => task'[n].StartTime = clock
      /\ ~ over => task'[n].StartTime =
                     IF task[n].StartTime = 0 THEN clock ELSE task[n].StartTime
  <2> DEFINE t == task[n]
  <2>1. t \in TaskRecord /\ task'[n] = AfterDelay(t) /\ (over <=> DelayOver(t))
    BY <1>5
  <2> HIDE DEF t, over
  <2>2. /\ task'[n] \in TaskRecord
        /\ task'[n].DelayTime = t.DelayTime
        /\ task'[n].RunCount = t.RunCount
        /\ over /\ t.StartTime = 0 => task'[n].StartTime = 0
        /\ over /\ t.StartTime # 0 => task'[n].StartTime = clock
        /\ ~ over => task'[n].StartTime =
                       IF t.StartTime = 0 THEN clock ELSE t.StartTime
    BY <1>3, <2>1, DelayTaken
  <2> QED
    BY <2>2 DEF t
<1>7. Counted(n) /\ Timed(n)
  BY <1>3 DEF TasksCounted, TasksTimed
<1>8. over => age[n] >= task[n].DelayTime
  <2> SUFFICES ASSUME over
               PROVE  age[n] >= task[n].DelayTime
    OBVIOUS
  <2>1. /\ task[n].DelayTime \in Nat /\ task[n].StartTime \in Nat
        /\ age[n] \in Nat
    BY <1>3, <1>4, <1>5 DEF TaskRecord
  <2>2. CASE task[n].StartTime = 0
    <3>1. task[n].DelayTime = 0
      BY <2>2 DEF DelayOver
    <3> QED
      BY <2>1, <3>1
  <2>3. CASE task[n].StartTime # 0
    <3>1. clock - task[n].StartTime >= task[n].DelayTime
      BY <2>3 DEF DelayOver
    <3>2. /\ age[n] >= LongestDelay \/ age[n] >= clock - task[n].StartTime
          /\ task[n].DelayTime \in Delays
      BY <1>7, <2>3 DEF Timed
    <3>3. LongestDelay \in Nat /\ task[n].DelayTime <= LongestDelay
      BY <3>2, LongestIs
    <3> QED
      BY <1>3, <2>1, <3>1, <3>2, <3>3
  <2> QED
    BY <2>2, <2>3
<1>9. runs[n].done \in Nat /\ runs[n].of \in Int
  BY <1>3, <1>4
<1>10. /\ over => /\ runs'[n].of = runs[n].of /\ age'[n] = 0
                  /\ runs'[n].done = IF runs[n].done <= runs[n].of
                                     THEN runs[n].done + 1 ELSE runs[n].done
                  /\ runs'[n] \in [done : Nat, of : Int]
       /\ \A i \in Node : i # n => runs'[i] = runs[i] /\ age'[i] = age[i]
       /\ ~ over => runs'[n] = runs[n] /\ age'[n] = age[n]
  <2>1. CASE over
    <3>1. runs'[n] = [runs[n] EXCEPT !.done = OneMore(runs[n])]
      BY <1>1, <1>3, <1>4, <2>1
    <3>2. runs[n] \in [done : Nat, of : Int]
      BY <1>3, <1>4
    <3>3. /\ runs'[n].of = runs[n].of /\ runs'[n] \in [done : Nat, of : Int]
          /\ runs'[n].done = IF runs[n].done <= runs[n].of
                             THEN runs[n].done + 1 ELSE runs[n].done
      BY <1>9, <3>1, <3>2 DEF OneMore
    <3>4. /\ age'[n] = 0
          /\ \A i \in Node : i # n => runs'[i] = runs[i] /\ age'[i] = age[i]
      BY <1>1, <1>3, <1>4, <2>1
    <3> QED
      BY <2>1, <3>3, <3>4
  <2>2. CASE ~ over
    BY <1>1, <2>2
  <2> QED
    BY <2>1, <2>2
<1>11. TaskTypes'
  <2>1. task' \in [Node -> TaskRecord]
    BY <1>1, <1>4, <1>5, <1>6
  <2>2. runs' \in [Node -> [done : Nat, of : Int]]
    <3>1. runs'[n] \in [done : Nat, of : Int]
      BY <1>3, <1>4, <1>10
    <3> QED
      BY <1>1, <1>4, <3>1
  <2>3. age' \in [Node -> Nat]
    BY <1>1, <1>4
  <2>4. runAt' \in Spot
    <3>1. PICK k \in 1 .. Len(Queue) : n = Queue[k]
      BY <1>3, InNodes
    <3>2. taskList.pNext[n] \in Spot
      BY <3>1, AfterNode
    <3> QED
      BY <1>1, <3>2 DEF TaskTypes
  <2>5. calling' \in BOOLEAN
    BY <1>1 DEF TaskTypes
  <2> QED
    BY <1>1, <2>1, <2>2, <2>3, <2>4, <2>5 DEF TaskTypes
<1>12. AtTask'
  <2>1. PICK k \in 1 .. Len(Queue) : n = Queue[k]
    BY <1>3, InNodes
  <2>2. taskList.pNext[n] # NULL => taskList.pNext[n] \in NodesOf(Queue)
    BY <2>1, AfterNode
  <2> QED
    BY <1>1, <1>2, <1>3, <2>2 DEF AtTask
<1>13. TasksCounted'
  <2> SUFFICES ASSUME NEW i \in NodesOf(Queue)
               PROVE  Counted(i)'
    BY <1>2 DEF TasksCounted
  <2>1. Counted(i) /\ i \in Node
    BY TaskFacts DEF TasksCounted
  <2>2. CASE i = n
    <3>1. runs[n].of # TASK_RUN_COUNT_UNLIMITED => runs[n].done < runs[n].of
      BY <1>1, <1>7, <1>9 DEF Counted
    <3> QED
      BY <1>1, <1>6, <1>7, <1>9, <1>10, <2>2, <3>1 DEF Counted
  <2>3. CASE i # n
    <3>1. task'[i] = task[i] /\ runs'[i] = runs[i] /\ ~ (calling' /\ runAt' = i)
      BY <1>1, <1>5, <1>10, <2>1, <2>3
    <3> QED
      BY <1>1, <2>1, <3>1 DEF Counted
  <2> QED
    BY <2>2, <2>3
<1>14. TasksTimed'
  <2> SUFFICES ASSUME NEW i \in NodesOf(Queue)
               PROVE  Timed(i)'
    BY <1>2 DEF TasksTimed
  <2>1. Timed(i) /\ i \in Node
    BY TaskFacts DEF TasksTimed
  <2>2. CASE i = n
    <3>1. age'[n] \in Nat /\ task[n].StartTime \in Nat
      BY <1>3, <1>5, <1>11 DEF TaskTypes, TaskRecord
    <3>2. age'[n] >= clock - clock
      BY <1>3, <3>1
    <3> QED
      BY <1>1, <1>3, <1>6, <1>7, <1>10, <2>2, <3>1, <3>2 DEF Timed
  <2>3. CASE i # n
    BY <1>1, <1>5, <1>10, <2>1, <2>3 DEF Timed
  <2> QED
    BY <2>2, <2>3
<1>15. RestUnlinked'
  <2> SUFFICES ASSUME NEW i \in Node, i \notin NodesOf(Queue)
               PROVE  Unlinked(i)'
    BY <1>2 DEF RestUnlinked
  <2>1. Unlinked(i) /\ i # n
    BY <1>3 DEF RestUnlinked
  <2> QED
    BY <1>5, <1>10, <2>1 DEF Unlinked
<1>16. TaskInv'
  BY <1>2, <1>11, <1>12, <1>13, <1>14, <1>15
<1>17. /\ over => /\ runAt' = runAt /\ calling'
                  /\ task'[n].StartTime = IF task[n].StartTime = 0 THEN 0 ELSE clock
       /\ ~ over => /\ runAt' = taskList.pNext[n] /\ calling' = calling
                    /\ task'[n].StartTime =
                         IF task[n].StartTime = 0 THEN clock ELSE task[n].StartTime
  BY <1>1, <1>6
<1> QED
  BY <1>1, <1>2, <1>6, <1>8, <1>16, <1>17

LEMMA AfterTaskKeeps ==
    ASSUME TaskInv, AfterTask
    PROVE  /\ TaskInv' /\ clock' = clock
           /\ ~ calling' /\ runAt' = taskList.pNext[runAt]
           /\ ~ Finished(task[runAt]) =>
                /\ Queue' = Queue
                /\ task'[runAt].DelayTime = task[runAt].DelayTime
                /\ task'[runAt].StartTime = task[runAt].StartTime
                /\ task[runAt].RunCount = TASK_RUN_COUNT_UNLIMITED =>
                     task'[runAt].RunCount = TASK_RUN_COUNT_UNLIMITED
<1> USE DEF TaskInv
<1> DEFINE n == runAt
           done == Finished(task[n])
           f == FreeOnes(taskList)
           r == taskList'
           cl == "TMPDoublyList"
<1>1. /\ calling /\ calling' = FALSE /\ runAt' = taskList.pNext[n]
      /\ done => /\ r = TMPDoublyListFreeNode(TMPDoublyListUnlink(taskList, n), n)
                 /\ task' = [task EXCEPT ![n] = NoTask]
      /\ ~ done =>
           /\ task' = [task EXCEPT ![n] =
                          [@ EXCEPT !.RunCount = OneLess(task[n].RunCount)]]
           /\ r = taskList
      /\ UNCHANGED <<clock, age, runs>>
  BY DEF AfterTask
<1>2. n \in NodesOf(Queue) /\ n \in Node /\ cl \in DoublyClasses
  BY <1>1, TaskFacts DEF AtTask
<1>3. PICK k \in 1 .. Len(Queue) : n = Queue[k]
  BY <1>2, InNodes
<1>4. Queue \in Seq(Node) /\ Distinct(Queue)
  BY TaskFacts
<1>5. /\ runAt' \in Spot
      /\ runAt' # NULL => runAt' \in NodesOf(Queue) /\ runAt' # n
  BY <1>1, <1>3, AfterNode
<1>6. done => /\ Fits(r, cl, Out(Queue, k), Put(f, 1, n), 1 .. TaskMax, {}, {})
              /\ Linked(r) = Out(Queue, k) /\ FreeOnes(r) = Put(f, 1, n)
  <2> SUFFICES ASSUME done
               PROVE  /\ Fits(r, cl, Out(Queue, k), Put(f, 1, n), 1 .. TaskMax, {}, {})
                      /\ Linked(r) = Out(Queue, k) /\ FreeOnes(r) = Put(f, 1, n)
    OBVIOUS
  <2> DEFINE block == 1 .. TaskMax
             nobody == {}
  <2>1. Fits(taskList, cl, Queue, f, block, nobody, {})
    BY DEF TaskListFits
  <2>2. r = TMPDoublyListFreeNode(TMPDoublyListUnlink(taskList, n), n)
    BY <1>1
  <2>3. n = Queue[k]
    BY <1>3
  <2> HIDE DEF block, nobody, n, f, r, cl
  <2>4. /\ Fits(r, cl, Out(Queue, k), Put(f, 1, n), block, nobody, {})
        /\ Linked(r) = Out(Queue, k) /\ FreeOnes(r) = Put(f, 1, n)
    BY <1>2, <2>1, <2>2, <2>3, BlockDrops
  <2> QED
    BY <2>4 DEF block, nobody
<1>7. done => TaskListFits' /\ Queue' = Out(Queue, k)
                /\ NodesOf(Queue') = NodesOf(Queue) \ {n}
  <2> SUFFICES ASSUME done
               PROVE  TaskListFits' /\ Queue' = Out(Queue, k)
                        /\ NodesOf(Queue') = NodesOf(Queue) \ {n}
    OBVIOUS
  <2>1. Queue' = Out(Queue, k) /\ FreeOnes(taskList') = Put(f, 1, n)
    BY <1>6 DEF Queue
  <2>2. TaskListFits'
    BY <1>6, <2>1 DEF TaskListFits
  <2>3. NodesOf(Out(Queue, k)) = NodesOf(Queue) \ {Queue[k]}
    BY <1>4, OutSeq
  <2> QED
    BY <1>3, <2>1, <2>2, <2>3
<1>8. ~ done => TaskListFits' /\ Queue' = Queue
  BY <1>1, SameTasks
<1>9. /\ task \in [Node -> TaskRecord] /\ task[n] \in TaskRecord
      /\ runs[n].done \in Nat /\ runs[n].of \in Int /\ task[n].RunCount \in Int
  BY <1>2 DEF TaskTypes, TaskRecord
<1>10. \A i \in Node : i # n => task'[i] = task[i]
  BY <1>1, <1>9
<1>11. done => task'[n] = NoTask
  BY <1>1, <1>2, <1>9
<1>12. ~ done => /\ task'[n] \in TaskRecord
                 /\ task'[n].DelayTime = task[n].DelayTime
                 /\ task'[n].StartTime = task[n].StartTime
                 /\ task'[n].RunCount =
                      IF task[n].RunCount = TASK_RUN_COUNT_UNLIMITED
                      THEN TASK_RUN_COUNT_UNLIMITED ELSE task[n].RunCount - 1
  <2> SUFFICES ASSUME ~ done
               PROVE  /\ task'[n] \in TaskRecord
                      /\ task'[n].DelayTime = task[n].DelayTime
                      /\ task'[n].StartTime = task[n].StartTime
                      /\ task'[n].RunCount =
                           IF task[n].RunCount = TASK_RUN_COUNT_UNLIMITED
                           THEN TASK_RUN_COUNT_UNLIMITED ELSE task[n].RunCount - 1
    OBVIOUS
  <2>1. task'[n] = [task[n] EXCEPT !.RunCount = OneLess(task[n].RunCount)]
    BY <1>1, <1>2, <1>9
  <2>2. TASK_RUN_COUNT_UNLIMITED \in Int
    BY DEF TASK_RUN_COUNT_UNLIMITED
  <2> QED
    BY <1>9, <2>1, <2>2, SMTT(40) DEF TaskRecord, OneLess
<1>13. TaskTypes'
  <2>1. NoTask \in TaskRecord
    BY DEF NoTask, TaskRecord
  <2>2. task' \in [Node -> TaskRecord]
    BY <1>1, <1>9, <1>10, <1>11, <1>12, <2>1
  <2>3. calling' \in BOOLEAN
    BY <1>1, Zenon
  <2> QED
    BY <1>1, <1>5, <2>2, <2>3 DEF TaskTypes
<1>14. AtTask'
  <2>1. runAt' # NULL => runAt' \in NodesOf(Queue')
    BY <1>5, <1>7, <1>8
  <2> QED
    BY <1>1, <2>1 DEF AtTask
<1>15. Counted(n) /\ Timed(n)
  BY <1>2 DEF TasksCounted, TasksTimed
<1>16. \A i \in NodesOf(Queue') : i \in NodesOf(Queue) /\ i \in Node /\ (done => i # n)
  BY <1>4, <1>7, <1>8, NodesAre
<1>17. TasksCounted'
  <2> SUFFICES ASSUME NEW i \in NodesOf(Queue')
               PROVE  Counted(i)'
    BY DEF TasksCounted
  <2>1. Counted(i) /\ i \in Node
    BY <1>16 DEF TasksCounted
  <2>2. CASE i = n
    <3>1. ~ done
      BY <1>16, <2>2
    <3>2. /\ runs[n].of = TASK_RUN_COUNT_UNLIMITED
                <=> task[n].RunCount = TASK_RUN_COUNT_UNLIMITED
          /\ runs[n].of # TASK_RUN_COUNT_UNLIMITED =>
                runs[n].of \in Nat \ {0} /\ task[n].RunCount > 0
      BY <1>2, <1>15, CountedOne
    <3>3. runs[n].of # TASK_RUN_COUNT_UNLIMITED => task[n].RunCount > 1
      BY <1>9, <3>1, <3>2 DEF Finished
    <3>4. runs' = runs /\ calling /\ ~ calling'
      BY <1>1
    <3>5. CASE runs[n].of = TASK_RUN_COUNT_UNLIMITED
      BY <1>12, <1>15, <2>2, <3>1, <3>2, <3>4, <3>5 DEF Counted
    <3>6. CASE runs[n].of # TASK_RUN_COUNT_UNLIMITED
      <4>1. /\ task[n].RunCount = runs[n].of - (runs[n].done - 1)
            /\ runs[n].done - 1 >= 0 /\ runs[n].of \in RunCounts
        BY <1>15, <3>4, <3>6 DEF Counted
      <4>2. task'[n].RunCount = task[n].RunCount - 1
        BY <1>12, <3>1, <3>2, <3>6
      <4>3. /\ runs[n].done - 0 >= 0 /\ runs[n].done - 0 < runs[n].of
            /\ task'[n].RunCount = runs[n].of - (runs[n].done - 0)
        BY <1>9, <3>3, <3>6, <4>1, <4>2, SMTT(40)
      <4> QED
        BY <2>2, <3>4, <3>6, <4>1, <4>3 DEF Counted
    <3> QED
      BY <3>5, <3>6
  <2>3. CASE i # n
    BY <1>1, <1>10, <2>1, <2>3 DEF Counted
  <2> QED
    BY <2>2, <2>3
<1>18. TasksTimed'
  <2> SUFFICES ASSUME NEW i \in NodesOf(Queue')
               PROVE  Timed(i)'
    BY DEF TasksTimed
  <2>1. Timed(i) /\ i \in Node
    BY <1>16 DEF TasksTimed
  <2>2. CASE i = n
    <3>1. ~ done
      BY <1>16, <2>2
    <3> QED
      BY <1>1, <1>12, <1>15, <2>2, <3>1 DEF Timed
  <2>3. CASE i # n
    BY <1>1, <1>10, <2>1, <2>3 DEF Timed
  <2> QED
    BY <2>2, <2>3
<1>19. RestUnlinked'
  <2> SUFFICES ASSUME NEW i \in Node, i \notin NodesOf(Queue')
               PROVE  Unlinked(i)'
    BY DEF RestUnlinked
  <2>1. CASE i = n
    <3>1. done
      BY <1>2, <1>8, <2>1
    <3>2. runs[n].done = runs[n].of
      <4>1. /\ runs[n].of = TASK_RUN_COUNT_UNLIMITED
                  <=> task[n].RunCount = TASK_RUN_COUNT_UNLIMITED
            /\ runs[n].of # TASK_RUN_COUNT_UNLIMITED =>
                  runs[n].of \in Nat \ {0} /\ task[n].RunCount > 0
        BY <1>2, <1>15, CountedOne
      <4> QED
        BY <1>1, <1>9, <1>15, <3>1, <4>1, SMTT(40) DEF Finished, Counted
    <3> QED
      BY <1>1, <1>11, <2>1, <3>1, <3>2 DEF Unlinked
  <2>2. CASE i # n
    <3>1. i \notin NodesOf(Queue)
      BY <1>7, <1>8, <2>2
    <3>2. Unlinked(i)
      BY <3>1 DEF RestUnlinked
    <3> QED
      BY <1>1, <1>10, <2>2, <3>2 DEF Unlinked
  <2> QED
    BY <2>1, <2>2
<1>20. TaskInv'
  BY <1>7, <1>8, <1>13, <1>14, <1>17, <1>18, <1>19
<1> QED
  BY <1>1, <1>8, <1>12, <1>20

LEMMA TickKeeps ==
    ASSUME TaskInv, Tick
    PROVE  /\ TaskInv' /\ Queue' = Queue /\ UNCHANGED <<task, runAt, calling>>
           /\ clock' = IF clock = ClockMax THEN 0 ELSE clock + 1
<1> USE DEF TaskInv
<1>1. /\ clock' = (clock + 1) % (ClockMax + 1)
      /\ age' = [n \in Node |-> IF age[n] < LongestDelay THEN age[n] + 1 ELSE age[n]]
      /\ UNCHANGED <<taskList, task, runAt, calling, runs>>
  BY DEF Tick
<1>2. Queue' = Queue /\ TaskListFits'
  BY <1>1, SameTasks
<1>3. clock \in Nat /\ ClockMax \in Nat /\ clock <= ClockMax
  BY TaskFacts
<1>4. clock' = IF clock = ClockMax THEN 0 ELSE clock + 1
  BY <1>1, <1>3
<1>5. TaskTypes'
  <2>1. age' \in [Node -> Nat]
    BY <1>1 DEF TaskTypes
  <2> QED
    BY <1>1, <1>3, <1>4, <2>1 DEF TaskTypes
<1>6. AtTask' /\ TasksCounted' /\ RestUnlinked'
  BY <1>1, <1>2 DEF AtTask, TasksCounted, RestUnlinked, Counted, Unlinked
<1>7. TasksTimed'
  <2> SUFFICES ASSUME NEW n \in NodesOf(Queue)
               PROVE  Timed(n)'
    BY <1>2 DEF TasksTimed
  <2>1. /\ Timed(n) /\ n \in Node /\ age[n] \in Nat
        /\ task[n].StartTime \in Nat
    BY TaskFacts DEF TasksTimed, TaskRecord
  <2>2. age'[n] = IF age[n] < LongestDelay THEN age[n] + 1 ELSE age[n]
    BY <1>1, <2>1
  <2>3. LongestDelay \in Nat
    BY <2>1, LongestIs DEF Timed
  <2> QED
    BY <1>1, <1>3, <1>4, <2>1, <2>2, <2>3 DEF Timed
<1> QED
  BY <1>1, <1>2, <1>4, <1>5, <1>6, <1>7

LEMMA TaskInvNext == TaskInv /\ [TaskNext]_taskVars => TaskInv'
<1> SUFFICES ASSUME TaskInv, [TaskNext]_taskVars
             PROVE  TaskInv'
  OBVIOUS
<1>1. CASE \E delay \in Delays, count \in RunCounts : vAddTask(delay, count)
  BY <1>1, vAddTaskKeeps
<1>2. CASE RestartTask
  BY <1>2, RestartKeeps
<1>3. CASE vRunTask
  BY <1>3, vRunTaskKeeps
<1>4. CASE LookAtTask
  BY <1>4, LookAtTaskKeeps
<1>5. CASE AfterTask
  BY <1>5, AfterTaskKeeps
<1>6. CASE Tick
  BY <1>6, TickKeeps
<1>7. CASE UNCHANGED taskVars
  BY <1>7 DEF TaskInv, taskVars, TaskTypes, TaskListFits, Queue, AtTask,
              TasksCounted, TasksTimed, RestUnlinked, Counted, Timed, Unlinked
<1> QED
  BY <1>1, <1>2, <1>3, <1>4, <1>5, <1>6, <1>7 DEF TaskNext

LEMMA TaskInvMeans == TaskInv => RunsCounted
<1> SUFFICES ASSUME TaskInv
             PROVE  RunsCounted
  OBVIOUS
<1> USE DEF TaskInv
<1>1. /\ Queue \in Seq(Node) /\ Len(Queue) \in Nat
      /\ \A i \in 1 .. Len(Queue) : Queue[i] \in NodesOf(Queue) /\ Queue[i] \in Node
  BY TaskFacts, NodesAre
<1>2. \A i \in 1 .. Len(Queue) :
        LET n == Queue[i]
            left == IF calling /\ runAt = n THEN 1 ELSE 0
        IN  runs[n].of # TASK_RUN_COUNT_UNLIMITED =>
              runs[n].done - left < runs[n].of
  BY <1>1 DEF TasksCounted, Counted
<1>3. \A n \in Node : runs[n].done > 0 /\ n \notin NodesOf(Queue) =>
        runs[n].done = runs[n].of
  BY DEF RestUnlinked, Unlinked
<1>4. taskList.NodeUseCount = Len(Queue)
  <2>1. taskList.NodeUseCount = Len(Queue) + Cardinality({})
    BY DEF TaskListFits, Fits, Elsewhere
  <2>2. Cardinality({}) = 0
    BY FS_EmptySet
  <2> QED
    BY <1>1, <2>1, <2>2
<1> QED
  BY <1>2, <1>3, <1>4 DEF RunsCounted, Queue

\* Task.cpp: a task runs as often as vAddTask was told, and is then gone from
\* the list, also when vOnRunTask adds tasks while vRunTask walks the list.
THEOREM RunsAreCounted == TaskSpec => []RunsCounted
<1>1. TaskInit => TaskInv
  BY TaskInvInit
<1>2. TaskInv /\ [TaskNext]_taskVars => TaskInv'
  BY TaskInvNext
<1>3. TaskInv => RunsCounted
  BY TaskInvMeans
<1> QED
  BY <1>1, <1>2, <1>3, PTL DEF TaskSpec

\* Tool::sDelayTime: no task runs before its delay has passed since it was
\* added or last ran, also when its node served another task before and when
\* timeGetTime wraps.
THEOREM TasksNeverEarly == TaskSpec => NeverEarly
<1>1. TaskInit => TaskInv
  BY TaskInvInit
<1>2. TaskInv /\ [TaskNext]_taskVars => TaskInv'
  BY TaskInvNext
<1>3. TaskInv /\ [TaskNext]_taskVars =>
        [LookAtTask /\ DelayOver(task[runAt]) =>
           age[runAt] >= task[runAt].DelayTime]_taskVars
  BY LookAtTaskKeeps
<1> QED
  BY <1>1, <1>2, <1>3, PTL DEF TaskSpec, NeverEarly

-------------------------------------------------------------------------------
(***************************************************************************)
(* MintClient, for any delays: the heartbeat keeps the client in the chat, *)
(* and Release gives back what there is.                                   *)
(***************************************************************************)

Creating == {"WSAStartup", "socket", "connect", "ioctlsocket", "TaskManager"}
Chatting == {"input", "receive", "tasks", "running"}
Closing == {"shutdown", "drain", "close", "aborted"}

\* What there is to give back at each place of the program.
Resources ==
  /\ clientAt \in Creating \cup Chatting \cup Closing \cup {"name", "end"}
  /\ Client_Socket \in {"zero", "open", "invalid"} /\ wsaStarted \in BOOLEAN
  /\ Client_Socket = "zero" => ~ wsaStarted \/ clientAt = "socket"
  /\ Client_Socket = "open" \/ clientAt = "socket" => wsaStarted
  /\ clientAt \in {"WSAStartup", "socket"} => Client_Socket = "zero"
  /\ clientAt \in {"connect", "ioctlsocket", "TaskManager", "name"} \cup Chatting =>
       Client_Socket = "open"
  /\ hasManager => Client_Socket = "open"
  /\ clientAt = "end" =>
       Client_Socket = "invalid" /\ ~ wsaStarted /\ ~ hasManager /\ ~ serverOpen

\* The heartbeat is the only task, and vRunTask is at it or at none.
Heartbeat == Queue[1]
OneHeartbeat ==
  /\ clientAt \in Creating => Len(Queue) = 0
  /\ clientAt \in {"name"} \cup Chatting =>
       /\ Len(Queue) = 1
       /\ task[Heartbeat].DelayTime = AliveDelay
       /\ task[Heartbeat].RunCount = TASK_RUN_COUNT_UNLIMITED
  /\ runAt # NULL => clientAt = "running" /\ runAt = Heartbeat

\* The task has been looked at since the last tick.
Looked ==
  \/ clientAt = "running" /\ runAt = NULL
  \/ clientAt = "input" /\ wentRound

\* The silence since the last packet is at most a tick longer than the timer
\* shows: a tick passes before the timer starts, when the clock shows 0.
SilenceTimed ==
  LET start == task[Heartbeat].StartTime
  IN  IF calling THEN silence <= AliveDelay + 1
      ELSE IF start = 0
      THEN /\ silence = 0 \/ (silence = 1 /\ clock = 1 /\ ~ Looked)
           /\ Looked => clock = 0
      ELSE /\ start <= clock /\ silence <= clock - start + 1
           /\ clock - start <= AliveDelay
           /\ Looked => clock - start < AliveDelay

Beating ==
  /\ silence \in Nat /\ wentRound \in BOOLEAN
  /\ sendFailed \in BOOLEAN /\ wrapped \in BOOLEAN
  /\ clientAt \in Creating \cup {"name"} => ~ wentRound
  /\ clientAt = "name" => task[Heartbeat].StartTime = 0
  /\ calling => task[Heartbeat].StartTime = clock
  /\ clientAt \in Chatting /\ ~ sendFailed /\ ~ wrapped => SilenceTimed

ClientInv == TaskInv /\ Resources /\ OneHeartbeat /\ Beating

LEMMA ResourcesNext == Resources /\ [ClientNext]_clientVars => Resources'
<1> SUFFICES ASSUME Resources, [ClientNext]_clientVars
             PROVE  Resources'
  OBVIOUS
<1> USE DEF Resources, Creating, Chatting, Closing
<1>1. CASE Startup
  BY <1>1 DEF Startup
<1>2. CASE OpenSocket
  BY <1>2 DEF OpenSocket
<1>3. CASE Connect
  BY <1>3 DEF Connect
<1>4. CASE SetNonBlocking
  BY <1>4 DEF SetNonBlocking
<1>5. CASE CreateTaskManager
  BY <1>5 DEF CreateTaskManager
<1>6. CASE NameInput \/ Key \/ NoKey \/ EnterExit
  BY <1>6 DEF NameInput, Key, NoKey, EnterExit, serverSide
<1>7. CASE EnterLong \/ EnterMessage \/ ChatReceive
  BY <1>7 DEF EnterLong, EnterMessage, ChatReceive, serverSide
<1>8. CASE ChatRunTask \/ ChatGoesRound
  BY <1>8 DEF ChatRunTask, ChatGoesRound, serverSide
<1>9. CASE ChatLookAtTask \/ vOnRunTask
  BY <1>9 DEF ChatLookAtTask, vOnRunTask, programVars, serverSide
<1>10. CASE Shutdown \/ FinalReceive
  BY <1>10 DEF Shutdown, FinalReceive, serverSide
<1>11. CASE ReleaseClient
  BY <1>11 DEF ReleaseClient
<1>12. CASE ServerSends \/ ServerCloses \/ TimePasses
  BY <1>12 DEF ServerSends, ServerCloses, TimePasses, programVars, serverSide
<1>13. CASE UNCHANGED clientVars
  BY <1>13 DEF clientVars, programVars, serverSide
<1> QED
  BY <1>1, <1>2, <1>3, <1>4, <1>5, <1>6, <1>7, <1>8, <1>9, <1>10, <1>11, <1>12,
     <1>13 DEF ClientNext, ClientStep

LEMMA ClientInvInit == ClientInit => ClientInv
<1> SUFFICES ASSUME ClientInit
             PROVE  ClientInv
  OBVIOUS
<1>1. TaskInv
  BY TaskInvInit DEF ClientInit
<1>2. Resources
  BY DEF ClientInit, Resources, Creating, Chatting, Closing
<1>3. Len(Queue) = 0 /\ runAt = NULL /\ ~ calling
  <2>1. /\ "TMPDoublyList" \in PooledClasses
        /\ taskList = TMPSinglyListCreate(RawList, TaskMax)
        /\ TaskMax \in 1 .. ListNodeMax
    BY TaskAssumption DEF ClientInit, TaskInit, TMPDoublyListCreate, PooledClasses
  <2>2. Linked(taskList) = <<>>
    BY <2>1, NewBlock
  <2> QED
    BY <2>2 DEF Queue, ClientInit, TaskInit
<1>4. OneHeartbeat
  BY <1>3 DEF ClientInit, OneHeartbeat, Chatting
<1>5. Beating
  BY <1>3 DEF ClientInit, Beating, Chatting
<1> QED
  BY <1>1, <1>2, <1>4, <1>5 DEF ClientInv

\* What is known of the numbers, and of the heartbeat, in the chat.
LEMMA BeatFacts ==
    ASSUME ClientInv
    PROVE  /\ AliveDelay \in Nat /\ AliveDelay > 0 /\ clock \in Nat
           /\ ClockMax \in Nat /\ clock <= ClockMax
           /\ silence \in Nat /\ (calling => runAt # NULL)
           /\ runAt # NULL => clientAt = "running"
           /\ clientAt \in {"name"} \cup Chatting =>
                /\ Len(Queue) = 1 /\ NodesOf(Queue) = {Heartbeat}
                /\ Heartbeat \in Node /\ Heartbeat # NULL
                /\ task[Heartbeat].StartTime \in Nat
<1>1. AliveDelay \in Nat /\ AliveDelay > 0
  BY TaskAssumption, ClientDelays
<1>2. /\ clock \in Nat /\ ClockMax \in Nat /\ clock <= ClockMax
      /\ Queue \in Seq(Node)
      /\ \A n \in Node : n # NULL /\ task[n].StartTime \in Nat
  BY TaskFacts DEF ClientInv, TaskInv, TaskRecord
<1>3. silence \in Nat /\ (calling => runAt # NULL)
  BY DEF ClientInv, Beating, TaskInv, AtTask
<1>4. runAt # NULL => clientAt = "running"
  BY DEF ClientInv, OneHeartbeat
<1>5. Len(Queue) = 1 =>
        /\ NodesOf(Queue) = {Heartbeat} /\ Heartbeat \in Node
  BY <1>2 DEF NodesOf, Heartbeat
<1>6. clientAt \in {"name"} \cup Chatting => Len(Queue) = 1
  BY DEF ClientInv, OneHeartbeat
<1> QED
  BY <1>1, <1>2, <1>3, <1>4, <1>5, <1>6

\* A step of the program that leaves the task manager alone and sends nothing.
LEMMA QuietKeeps ==
    ASSUME ClientInv, UNCHANGED taskVars,
           UNCHANGED <<silence, sendFailed, wrapped>>,
           wentRound' \in BOOLEAN,
           \/ UNCHANGED <<clientAt, wentRound>>
           \/ /\ clientAt \in Creating \cup Closing
              /\ clientAt' \in Creating \cup Closing \cup {"end"}
              /\ clientAt' \in Creating => clientAt \in Creating
              /\ wentRound' = wentRound
           \/ /\ clientAt = "input" /\ wentRound' = wentRound
              /\ clientAt' \in {"receive", "shutdown", "aborted"}
           \/ /\ clientAt = "receive" /\ wentRound' = wentRound
              /\ clientAt' \in {"tasks", "shutdown"}
           \/ /\ clientAt = "running" /\ runAt = NULL
              /\ clientAt' = "input"
    PROVE  TaskInv' /\ OneHeartbeat' /\ Beating'
<1>1. TaskInv'
  BY TaskInvNext DEF ClientInv
<1>2. /\ Queue' = Queue /\ Heartbeat' = Heartbeat
      /\ UNCHANGED <<task, clock, runAt, calling>>
  BY DEF Queue, Heartbeat, taskVars
<1>3. OneHeartbeat'
  BY <1>2, BeatFacts DEF ClientInv, OneHeartbeat, Creating, Chatting, Closing
<1>4. SilenceTimed /\ (Looked' => Looked) => SilenceTimed'
  BY <1>2 DEF SilenceTimed
<1>5. clientAt' \in Chatting => clientAt \in Chatting /\ (Looked' => Looked)
  BY <1>2 DEF Creating, Chatting, Closing, Looked
<1>6. /\ clientAt' \in Creating \cup {"name"} =>
           clientAt \in Creating \cup {"name"} /\ wentRound' = wentRound
      /\ clientAt' = "name" => clientAt = "name"
  BY DEF Creating, Chatting, Closing
<1>7. Beating'
  BY <1>2, <1>4, <1>5, <1>6 DEF ClientInv, Beating
<1> QED
  BY <1>1, <1>3, <1>7

\* The steps that are quiet in that sense.
LEMMA ClientQuietKeeps ==
    ASSUME ClientInv,
           \/ Startup \/ OpenSocket \/ Connect \/ SetNonBlocking
           \/ Key \/ NoKey \/ EnterExit \/ EnterLong \/ ChatReceive
           \/ ChatGoesRound \/ Shutdown \/ FinalReceive \/ ReleaseClient
           \/ ServerSends \/ ServerCloses \/ UNCHANGED clientVars
    PROVE  TaskInv' /\ OneHeartbeat' /\ Beating'
<1> USE DEF Creating, Closing
<1>0. wentRound \in BOOLEAN
  BY DEF ClientInv, Beating
<1>1. CASE Startup
  BY <1>0, <1>1, QuietKeeps DEF Startup, ghosts
<1>2. CASE OpenSocket
  BY <1>0, <1>2, QuietKeeps DEF OpenSocket, ghosts
<1>3. CASE Connect
  BY <1>0, <1>3, QuietKeeps DEF Connect, ghosts
<1>4. CASE SetNonBlocking
  BY <1>0, <1>4, QuietKeeps DEF SetNonBlocking, ghosts
<1>5. CASE Key \/ NoKey \/ EnterExit \/ EnterLong
  BY <1>0, <1>5, QuietKeeps DEF Key, NoKey, EnterExit, EnterLong, ghosts
<1>6. CASE ChatReceive
  BY <1>0, <1>6, QuietKeeps DEF ChatReceive, ghosts
<1>7. CASE ChatGoesRound
  BY <1>7, QuietKeeps DEF ChatGoesRound
<1>8. CASE Shutdown
  BY <1>0, <1>8, QuietKeeps DEF Shutdown, ghosts
<1>9. CASE FinalReceive
  BY <1>0, <1>9, QuietKeeps DEF FinalReceive, ghosts
<1>10. CASE ReleaseClient
  BY <1>0, <1>10, QuietKeeps DEF ReleaseClient
<1>11. CASE ServerSends \/ ServerCloses
  BY <1>0, <1>11, QuietKeeps DEF ServerSends, ServerCloses, programVars, ghosts
<1>12. CASE UNCHANGED clientVars
  BY <1>0, <1>12, QuietKeeps DEF clientVars, programVars, ghosts
<1> QED
  BY <1>1, <1>2, <1>3, <1>4, <1>5, <1>6, <1>7, <1>8, <1>9, <1>10, <1>11, <1>12

LEMMA CreateManagerKeeps ==
    ASSUME ClientInv, CreateTaskManager
    PROVE  TaskInv' /\ OneHeartbeat' /\ Beating'
<1>1. /\ clientAt = "TaskManager" /\ clientAt' = "name"
      /\ vAddTask(AliveDelay, TASK_RUN_COUNT_UNLIMITED)
      /\ UNCHANGED <<silence, wentRound, sendFailed, wrapped>>
  BY DEF CreateTaskManager, ghosts
<1> DEFINE n == Queue'[Len(Queue) + 1]
<1>2. /\ TaskInv' /\ Queue' = Put(Queue, Len(Queue) + 1, n)
      /\ task'[n].DelayTime = AliveDelay
      /\ task'[n].RunCount = TASK_RUN_COUNT_UNLIMITED
      /\ task'[n].StartTime = 0
  <2> DEFINE d == AliveDelay
             c == TASK_RUN_COUNT_UNLIMITED
  <2>1. d \in Delays /\ c \in RunCounts /\ vAddTask(d, c) /\ TaskInv
    BY <1>1, ClientDelays DEF ClientInv
  <2> HIDE DEF d, c
  <2>2. /\ TaskInv' /\ Queue' = Put(Queue, Len(Queue) + 1, n)
        /\ task'[n].DelayTime = d /\ task'[n].RunCount = c
        /\ task'[n].StartTime = 0
    BY <2>1, vAddTaskKeeps
  <2> QED
    BY <2>2 DEF d, c
<1>3. Len(Queue) = 0
  BY <1>1 DEF ClientInv, OneHeartbeat, Creating
<1>4. Len(Queue') = 1 /\ Heartbeat' = n
  BY <1>2, <1>3 DEF Put, Heartbeat
<1>5. runAt' = NULL /\ ~ calling'
  BY <1>1, BeatFacts DEF vAddTask
<1>6. OneHeartbeat'
  BY <1>1, <1>2, <1>4, <1>5 DEF OneHeartbeat, Creating
<1>7. Beating'
  BY <1>1, <1>2, <1>4, <1>5 DEF ClientInv, Beating, Chatting, Creating
<1> QED
  BY <1>2, <1>6, <1>7

LEMMA NameInputKeeps ==
    ASSUME ClientInv, NameInput
    PROVE  TaskInv' /\ OneHeartbeat' /\ Beating'
<1>1. /\ clientAt = "name" /\ clientAt' = "input" /\ UNCHANGED taskVars
      /\ wrapped' = FALSE /\ wentRound' = wentRound
      /\ \/ silence' = 0 /\ sendFailed' = FALSE
         \/ sendFailed' = TRUE /\ silence' = silence
  BY DEF NameInput, Send_C2S
<1>2. TaskInv'
  BY <1>1, TaskInvNext DEF ClientInv
<1>3. /\ Queue' = Queue /\ Heartbeat' = Heartbeat
      /\ UNCHANGED <<task, clock, runAt, calling>>
  BY <1>1 DEF Queue, Heartbeat, taskVars
<1>4. runAt = NULL /\ ~ calling
  BY <1>1, BeatFacts
<1>5. OneHeartbeat'
  BY <1>1, <1>3, <1>4 DEF ClientInv, OneHeartbeat, Creating
<1>6. ~ Looked' /\ silence' \in Nat /\ wentRound' \in BOOLEAN
  BY <1>1, BeatFacts DEF ClientInv, Beating, Looked
<1>7. task'[Heartbeat'].StartTime = 0
  BY <1>1, <1>3 DEF ClientInv, Beating
<1>8. ~ sendFailed' => SilenceTimed'
  BY <1>1, <1>3, <1>4, <1>6, <1>7 DEF SilenceTimed
<1>9. sendFailed' \in BOOLEAN /\ wrapped' \in BOOLEAN
  BY <1>1, Zenon
<1>10. Beating'
  BY <1>1, <1>3, <1>4, <1>6, <1>8, <1>9 DEF Beating, Creating
<1> QED
  BY <1>2, <1>5, <1>10

LEMMA EnterMessageKeeps ==
    ASSUME ClientInv, EnterMessage
    PROVE  TaskInv' /\ OneHeartbeat' /\ Beating'
<1>1. /\ clientAt = "input" /\ clientAt' = "receive" /\ RestartTask
      /\ wrapped' = FALSE /\ wentRound' = wentRound
      /\ \/ silence' = 0 /\ sendFailed' = FALSE
         \/ sendFailed' = TRUE /\ silence' = silence
  BY DEF EnterMessage, Send_C2S
<1>2. /\ TaskInv' /\ Queue' = Queue /\ UNCHANGED <<clock, runAt, calling>>
      /\ \A i \in NodesOf(Queue) : /\ task'[i].DelayTime = task[i].DelayTime
                                   /\ task'[i].RunCount = task[i].RunCount
      /\ \E i \in NodesOf(Queue) : task'[i].StartTime = 0
  BY <1>1, RestartKeeps DEF ClientInv
<1>3. /\ Heartbeat' = Heartbeat /\ NodesOf(Queue) = {Heartbeat}
      /\ runAt = NULL /\ ~ calling /\ silence \in Nat
  BY <1>1, <1>2, BeatFacts DEF Heartbeat, Chatting
<1>4. OneHeartbeat'
  BY <1>1, <1>2, <1>3 DEF ClientInv, OneHeartbeat, Creating, Chatting
<1>5. ~ Looked' /\ silence' \in Nat /\ wentRound' \in BOOLEAN
  BY <1>1, <1>3 DEF ClientInv, Beating, Looked
<1>6. task'[Heartbeat'].StartTime = 0
  BY <1>2, <1>3
<1>7. ~ sendFailed' => SilenceTimed'
  BY <1>1, <1>2, <1>3, <1>5, <1>6 DEF SilenceTimed
<1>8. sendFailed' \in BOOLEAN /\ wrapped' \in BOOLEAN
  BY <1>1, Zenon
<1>9. Beating'
  BY <1>1, <1>2, <1>3, <1>5, <1>7, <1>8 DEF Beating, Creating
<1> QED
  BY <1>2, <1>4, <1>9

LEMMA ChatRunTaskKeeps ==
    ASSUME ClientInv, ChatRunTask
    PROVE  TaskInv' /\ OneHeartbeat' /\ Beating'
<1>1. /\ clientAt = "tasks" /\ clientAt' = "running" /\ vRunTask
      /\ UNCHANGED <<silence, wentRound, sendFailed, wrapped>>
  BY DEF ChatRunTask, ghosts
<1>2. /\ TaskInv' /\ Queue' = Queue /\ UNCHANGED <<task, clock, calling>>
      /\ runAt' = IF Len(Queue) = 0 THEN NULL ELSE Queue[1]
  BY <1>1, vRunTaskKeeps DEF ClientInv
<1>3. /\ Heartbeat' = Heartbeat /\ runAt' = Heartbeat /\ runAt' # NULL
      /\ ~ calling
  <2>1. Len(Queue) = 1 /\ Heartbeat # NULL
    BY <1>1, BeatFacts DEF Chatting
  <2>2. calling => clientAt = "running"
    BY BeatFacts
  <2>3. Heartbeat' = Queue'[1] /\ Heartbeat = Queue[1]
    BY DEF Heartbeat
  <2> QED
    BY <1>1, <1>2, <2>1, <2>2, <2>3
<1>4. OneHeartbeat'
  BY <1>1, <1>2, <1>3 DEF ClientInv, OneHeartbeat, Creating, Chatting
<1>5. ~ Looked' /\ ~ Looked
  BY <1>1, <1>3 DEF Looked
<1>6. SilenceTimed => SilenceTimed'
  BY <1>1, <1>2, <1>3, <1>5 DEF SilenceTimed
<1>7. Beating'
  BY <1>1, <1>2, <1>3, <1>6 DEF ClientInv, Beating, Creating, Chatting
<1> QED
  BY <1>2, <1>4, <1>7

\* vRunTask is at the heartbeat, the only task.
LEMMA AtHeartbeat ==
    ASSUME ClientInv, runAt # NULL
    PROVE  /\ clientAt = "running" /\ runAt = Heartbeat
           /\ taskList.pNext[runAt] = NULL
           /\ task[runAt].DelayTime = AliveDelay
           /\ task[runAt].RunCount = TASK_RUN_COUNT_UNLIMITED
           /\ task[runAt].StartTime \in Nat
<1>1. /\ clientAt = "running" /\ runAt = Heartbeat /\ Len(Queue) = 1
      /\ task[runAt].DelayTime = AliveDelay
      /\ task[runAt].RunCount = TASK_RUN_COUNT_UNLIMITED
  BY DEF ClientInv, OneHeartbeat, Chatting
<1>2. taskList.pNext[Queue[1]] = NULL
  <2>1. TaskListFits /\ 1 \in 1 .. Len(Queue)
    BY <1>1 DEF ClientInv, TaskInv
  <2> QED
    BY <1>1, <2>1, AfterNode
<1>3. task[runAt].StartTime \in Nat
  BY <1>1, BeatFacts DEF Chatting
<1> QED
  BY <1>1, <1>2, <1>3 DEF Heartbeat

LEMMA ChatLookKeeps ==
    ASSUME ClientInv, ChatLookAtTask
    PROVE  TaskInv' /\ OneHeartbeat' /\ Beating'
<1> DEFINE t == task[runAt]
           over == DelayOver(t)
<1>1. /\ clientAt = "running" /\ clientAt' = "running" /\ LookAtTask
      /\ runAt # NULL /\ ~ calling
      /\ UNCHANGED <<silence, wentRound, sendFailed, wrapped>>
  BY DEF ChatLookAtTask, programVars, ghosts, LookAtTask
<1>2. /\ TaskInv' /\ Queue' = Queue /\ clock' = clock
      /\ task'[runAt].DelayTime = t.DelayTime
      /\ task'[runAt].RunCount = t.RunCount
      /\ over => /\ runAt' = runAt /\ calling'
                 /\ task'[runAt].StartTime = IF t.StartTime = 0 THEN 0 ELSE clock
      /\ ~ over => /\ runAt' = taskList.pNext[runAt] /\ calling' = calling
                   /\ task'[runAt].StartTime =
                        IF t.StartTime = 0 THEN clock ELSE t.StartTime
  BY <1>1, LookAtTaskKeeps DEF ClientInv
<1>3. /\ runAt = Heartbeat /\ Heartbeat' = Heartbeat
      /\ taskList.pNext[runAt] = NULL /\ Len(Queue) = 1
      /\ t.DelayTime = AliveDelay /\ t.RunCount = TASK_RUN_COUNT_UNLIMITED
      /\ t.StartTime \in Nat
  BY <1>1, <1>2, AtHeartbeat, BeatFacts DEF Heartbeat, Chatting
<1>4. OneHeartbeat'
  BY <1>1, <1>2, <1>3 DEF OneHeartbeat, Creating, Chatting
<1>5. AliveDelay \in Nat /\ AliveDelay > 0 /\ clock \in Nat /\ silence \in Nat
  BY BeatFacts
<1>6. over => t.StartTime # 0 /\ clock - t.StartTime >= AliveDelay
  BY <1>3, <1>5 DEF DelayOver
<1>7. ~ over => t.StartTime = 0 \/ clock - t.StartTime < AliveDelay
  BY <1>3, <1>5 DEF DelayOver
<1>8. ~ Looked
  BY <1>1 DEF Looked
<1> HIDE DEF t, over
<1>9. SilenceTimed => SilenceTimed'
  <2> SUFFICES ASSUME SilenceTimed
               PROVE  SilenceTimed'
    OBVIOUS
  <2>1. IF t.StartTime = 0
        THEN silence = 0 \/ (silence = 1 /\ clock = 1)
        ELSE /\ t.StartTime <= clock /\ silence <= clock - t.StartTime + 1
             /\ clock - t.StartTime <= AliveDelay
    BY <1>1, <1>3, <1>8 DEF SilenceTimed, t
  <2>2. CASE over
    <3>1. silence <= AliveDelay + 1
      BY <1>3, <1>5, <1>6, <2>1, <2>2
    <3> QED
      BY <1>1, <1>2, <2>2, <3>1 DEF SilenceTimed
  <2>3. CASE ~ over
    <3>1. ~ calling' /\ task'[Heartbeat'].StartTime =
                          IF t.StartTime = 0 THEN clock ELSE t.StartTime
      BY <1>1, <1>2, <1>3, <2>3
    <3>2. CASE t.StartTime = 0 /\ clock = 0
      <4>1. silence' = 0 /\ task'[Heartbeat'].StartTime = 0 /\ clock' = 0
        BY <1>1, <1>2, <2>1, <3>1, <3>2
      <4> QED
        BY <3>1, <4>1 DEF SilenceTimed
    <3>3. CASE t.StartTime = 0 /\ clock # 0
      <4>1. task'[Heartbeat'].StartTime = clock' /\ clock' \in Nat /\ clock' # 0
        BY <1>2, <1>5, <3>1, <3>3
      <4>2. silence' \in Nat /\ silence' <= 1
        BY <1>1, <1>5, <2>1, <3>3
      <4>3. /\ clock' <= clock' /\ silence' <= clock' - clock' + 1
            /\ clock' - clock' < AliveDelay /\ clock' - clock' <= AliveDelay
        <5>1. \A c, d, a \in Nat : d <= 1 /\ a > 0 =>
                /\ c <= c /\ d <= c - c + 1 /\ c - c < a /\ c - c <= a
          OBVIOUS
        <5> QED
          BY <1>5, <4>1, <4>2, <5>1
      <4> QED
        BY <3>1, <4>1, <4>3 DEF SilenceTimed
    <3>4. CASE t.StartTime # 0
      <4>1. task'[Heartbeat'].StartTime = t.StartTime /\ t.StartTime # 0
        BY <3>1, <3>4
      <4>2. /\ t.StartTime <= clock' /\ silence' <= clock' - t.StartTime + 1
            /\ clock' - t.StartTime < AliveDelay /\ clock' - t.StartTime <= AliveDelay
        BY <1>1, <1>2, <1>3, <1>5, <1>7, <2>1, <2>3, <3>4
      <4> QED
        BY <3>1, <4>1, <4>2 DEF SilenceTimed
    <3> QED
      BY <3>2, <3>3, <3>4
  <2> QED
    BY <2>2, <2>3
<1>10. calling' => task'[Heartbeat'].StartTime = clock'
  BY <1>1, <1>2, <1>3, <1>6
<1>11. Beating'
  BY <1>1, <1>9, <1>10 DEF ClientInv, Beating, Creating, Chatting
<1> QED
  BY <1>2, <1>4, <1>11

LEMMA OnRunTaskKeeps ==
    ASSUME ClientInv, vOnRunTask
    PROVE  TaskInv' /\ OneHeartbeat' /\ Beating'
<1>1. /\ clientAt = "running" /\ clientAt' = "running" /\ AfterTask
      /\ calling /\ wentRound' = wentRound
      /\ wrapped' = FALSE
      /\ \/ silence' = 0 /\ sendFailed' = FALSE
         \/ sendFailed' = TRUE /\ silence' = silence
  BY DEF vOnRunTask, programVars, Send_C2S, AfterTask
<1>2. runAt # NULL
  BY <1>1, BeatFacts
<1>3. /\ runAt = Heartbeat /\ taskList.pNext[runAt] = NULL /\ Len(Queue) = 1
      /\ task[runAt].DelayTime = AliveDelay
      /\ task[runAt].RunCount = TASK_RUN_COUNT_UNLIMITED
  BY <1>1, <1>2, AtHeartbeat, BeatFacts DEF Chatting
<1>4. ~ Finished(task[runAt])
  BY <1>3 DEF Finished
<1>5. /\ TaskInv' /\ clock' = clock /\ ~ calling' /\ runAt' = NULL
      /\ Queue' = Queue /\ Heartbeat' = Heartbeat
      /\ task'[Heartbeat'].DelayTime = AliveDelay
      /\ task'[Heartbeat'].RunCount = TASK_RUN_COUNT_UNLIMITED
      /\ task'[Heartbeat'].StartTime = task[Heartbeat].StartTime
  BY <1>1, <1>3, <1>4, AfterTaskKeeps DEF ClientInv, Heartbeat
<1>6. OneHeartbeat'
  BY <1>1, <1>3, <1>5 DEF OneHeartbeat, Creating, Chatting
<1>7. /\ AliveDelay \in Nat /\ AliveDelay > 0 /\ clock \in Nat
      /\ silence \in Nat
  BY BeatFacts
<1>8. task'[Heartbeat'].StartTime = clock'
  BY <1>1, <1>5 DEF ClientInv, Beating
<1>9. ~ sendFailed' => SilenceTimed'
  BY <1>1, <1>5, <1>7, <1>8 DEF SilenceTimed
<1>10. /\ sendFailed' \in BOOLEAN /\ wrapped' \in BOOLEAN
  BY <1>1, Zenon
<1>11. wentRound' \in BOOLEAN /\ silence' \in Nat
  BY <1>1, <1>7 DEF ClientInv, Beating
<1>12. Beating'
  BY <1>1, <1>5, <1>9, <1>10, <1>11 DEF Beating, Creating
<1> QED
  BY <1>5, <1>6, <1>12

LEMMA TimePassesKeeps ==
    ASSUME ClientInv, TimePasses
    PROVE  TaskInv' /\ OneHeartbeat' /\ Beating'
<1>1. /\ clientAt = "name" \/ (clientAt = "input" /\ wentRound)
      /\ Tick /\ clientAt' = clientAt /\ sendFailed' = sendFailed
      /\ wrapped' = (wrapped \/ clock = ClockMax)
      /\ wentRound' = FALSE
      /\ silence' = IF silence < DropDelay THEN silence + 1 ELSE silence
  BY DEF TimePasses, programVars
<1>2. /\ TaskInv' /\ Queue' = Queue /\ UNCHANGED <<task, runAt, calling>>
      /\ clock' = IF clock = ClockMax THEN 0 ELSE clock + 1
  BY <1>1, TickKeeps DEF ClientInv
<1>3. /\ Heartbeat' = Heartbeat /\ runAt = NULL /\ ~ calling
      /\ silence \in Nat /\ clock \in Nat /\ ClockMax \in Nat
      /\ AliveDelay \in Nat /\ AliveDelay > 0
      /\ task[Heartbeat].StartTime \in Nat
  BY <1>1, <1>2, BeatFacts DEF Heartbeat, Chatting
<1>4. OneHeartbeat'
  BY <1>1, <1>2, <1>3 DEF ClientInv, OneHeartbeat
<1>5. silence' \in Nat /\ silence' <= silence + 1 /\ (silence = 0 => silence' <= 1)
  BY <1>1, <1>3
<1>6. clientAt = "input" => Looked
  BY <1>1 DEF Looked
<1>7. ~ Looked'
  BY <1>1 DEF Looked
<1>8. clientAt = "input" /\ SilenceTimed /\ ~ wrapped' => SilenceTimed'
  <2> SUFFICES ASSUME clientAt = "input", SilenceTimed, ~ wrapped'
               PROVE  SilenceTimed'
    OBVIOUS
  <2>1. clock' = clock + 1
    BY <1>1, <1>2
  <2> DEFINE start == task[Heartbeat].StartTime
  <2>2. task'[Heartbeat'].StartTime = start /\ start \in Nat
    BY <1>2, <1>3
  <2>3. IF start = 0 THEN silence = 0 /\ clock = 0
        ELSE /\ start <= clock /\ silence <= clock - start + 1
             /\ clock - start < AliveDelay
    BY <1>3, <1>6 DEF SilenceTimed
  <2> HIDE DEF start
  <2>4. CASE start = 0
    <3>1. clock' = 1 /\ (silence' = 0 \/ silence' = 1)
      BY <1>5, <2>1, <2>3, <2>4
    <3> QED
      BY <1>2, <1>3, <1>7, <2>2, <2>4, <3>1 DEF SilenceTimed
  <2>5. CASE start # 0
    <3>1. /\ start <= clock' /\ silence' <= clock' - start + 1
          /\ clock' - start <= AliveDelay
      BY <1>3, <1>5, <2>1, <2>2, <2>3, <2>5
    <3> QED
      BY <1>2, <1>3, <1>7, <2>2, <2>5, <3>1 DEF SilenceTimed
  <2> QED
    BY <2>4, <2>5
<1>9. wrapped' \in BOOLEAN /\ wentRound' \in BOOLEAN
  BY <1>1, Zenon
<1>10. wrapped => wrapped'
  BY <1>1, Zenon
<1>11. wrapped \in BOOLEAN /\ sendFailed' \in BOOLEAN
  BY <1>1 DEF ClientInv, Beating
<1>12. clientAt' \in Chatting /\ ~ sendFailed' /\ ~ wrapped' => SilenceTimed'
  <2>1. clientAt' \in Chatting => clientAt = "input"
    BY <1>1 DEF Chatting
  <2> QED
    BY <1>1, <1>8, <1>10, <2>1, Zenon DEF ClientInv, Beating, Chatting
<1>13. Beating'
  BY <1>1, <1>2, <1>3, <1>5, <1>9, <1>11, <1>12 DEF ClientInv, Beating
<1> QED
  BY <1>2, <1>4, <1>13

LEMMA ClientInvNext == ClientInv /\ [ClientNext]_clientVars => ClientInv'
<1> SUFFICES ASSUME ClientInv, [ClientNext]_clientVars
             PROVE  ClientInv'
  OBVIOUS
<1>1. Resources'
  BY ResourcesNext DEF ClientInv
<1>2. CASE CreateTaskManager
  BY <1>1, <1>2, CreateManagerKeeps DEF ClientInv
<1>3. CASE NameInput
  BY <1>1, <1>3, NameInputKeeps DEF ClientInv
<1>4. CASE EnterMessage
  BY <1>1, <1>4, EnterMessageKeeps DEF ClientInv
<1>5. CASE ChatRunTask
  BY <1>1, <1>5, ChatRunTaskKeeps DEF ClientInv
<1>6. CASE ChatLookAtTask
  BY <1>1, <1>6, ChatLookKeeps DEF ClientInv
<1>7. CASE vOnRunTask
  BY <1>1, <1>7, OnRunTaskKeeps DEF ClientInv
<1>8. CASE TimePasses
  BY <1>1, <1>8, TimePassesKeeps DEF ClientInv
<1>9. CASE \/ Startup \/ OpenSocket \/ Connect \/ SetNonBlocking
           \/ Key \/ NoKey \/ EnterExit \/ EnterLong \/ ChatReceive
           \/ ChatGoesRound \/ Shutdown \/ FinalReceive \/ ReleaseClient
           \/ ServerSends \/ ServerCloses \/ UNCHANGED clientVars
  BY <1>1, <1>9, ClientQuietKeeps DEF ClientInv
<1> QED
  BY <1>2, <1>3, <1>4, <1>5, <1>6, <1>7, <1>8, <1>9 DEF ClientNext, ClientStep

LEMMA ClientInvMeans == ClientInv => ClientSound
<1> SUFFICES ASSUME ClientInv
             PROVE  ClientSound
  OBVIOUS
<1>1. NeverSilent
  <2> SUFFICES ASSUME clientAt \in Chatting, ~ sendFailed, ~ wrapped
               PROVE  silence < DropDelay
    BY DEF NeverSilent, InChat, Chatting
  <2> DEFINE start == task[Heartbeat].StartTime
  <2>1. SilenceTimed
    BY DEF ClientInv, Beating
  <2>2. /\ silence \in Nat /\ clock \in Nat /\ AliveDelay \in Nat
        /\ AliveDelay > 0 /\ start \in Nat
    BY BeatFacts
  <2>3. \/ silence <= AliveDelay + 1
        \/ silence = 0 \/ silence = 1
        \/ silence <= clock - start + 1 /\ clock - start <= AliveDelay
    BY <2>1 DEF SilenceTimed
  <2>4. DropDelay \in Nat /\ DropDelay > AliveDelay + 1
    BY ClientDelays
  <2> HIDE DEF start
  <2> QED
    BY <2>2, <2>3, <2>4
<1>2. ReleaseClean
  BY DEF ClientInv, Resources, ReleaseClean
<1> QED
  BY <1>1, <1>2 DEF ClientSound

\* MintClient's main.cpp: whether its user types or not, the heartbeat keeps the
\* client in the chat, and Release gives back whatever Create got, for any delay
\* of the heartbeat and any silence that the server puts up with.
THEOREM ClientsSound == ClientSpec => []ClientSound
<1>1. ClientInit => ClientInv
  BY ClientInvInit
<1>2. ClientInv /\ [ClientNext]_clientVars => ClientInv'
  BY ClientInvNext
<1>3. ClientInv => ClientSound
  BY ClientInvMeans
<1> QED
  BY <1>1, <1>2, <1>3, PTL DEF ClientSpec

===============================================================================

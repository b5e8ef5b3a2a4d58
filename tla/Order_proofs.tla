----------------------------- MODULE Order_proofs -----------------------------
(* What the server knows of a client that numbers its packets correctly and  *)
(* is never silent for a minute: its notices and packets reach the gameplay  *)
(* thread in order, so it is never cut off, and its handle stays open as     *)
(* long as the main thread polls it.                                         *)
EXTENDS Handles_proofs

\* The notices and packets that have still to take effect: those of which the
\* gameplay thread has not yet read or changed the client node.
Due == IF gpc \in {"linkSend", "unlinkSend", "awakeSend", "alive"}
         THEN Tail(PacketRecvList) ELSE PacketRecvList

Releases(q, s) == \E i \in DOMAIN q : Says(q[i], "RELEASE", s)

\* Each open handle is in at most one place, from accept() to closesocket().
Place == {"closed", "accepting", "accepted", "polled", "dropped", "released"}
PlacedAt(at) ==
    /\ at \in [Sock -> Place]
    /\ \A s \in Sock :
          /\ owner[s] = NoConn => at[s] = "closed"
          /\ asock = s => at[s] = "accepting"
          /\ s \in Range(Accepted) => at[s] = "accepted"
          /\ s \in Range(SocketRecvList) => at[s] = "polled"
          /\ mdel = s => at[s] = "dropped"
          /\ Releases(Due, s) => at[s] = "released"
OnePlace == mpc # "done" => \E at : PlacedAt(at)

\* ... and there only once.
ReleasedOnce(q) ==
    \A s \in Sock : \A i, j \in DOMAIN q :
        Says(q[i], "RELEASE", s) /\ Says(q[j], "RELEASE", s) => i = j
ListedOnce == IsInjective(Accepted) /\ IsInjective(SocketRecvList) /\ ReleasedOnce(Due)

\* Notices and packets bear numbers accept() returned.
SockInfo == {m \in RecvPacketInfo : m.Socket \in Sock}
Named == PacketRecvList \in Seq(SockInfo) /\ (mpc = "notice" => mdel \in Sock)

\* No client has run into the timeout.
InTime == \A n \in Node : client[n].timer # "expired" /\ ~client[n].AliveTimeoutFlag

\* The packets q carry the numbers after a, without a gap.
Consecutive(a, q) == \A k \in 1 .. Len(q) : q[k].num = Inc(IF k = 1 THEN a ELSE q[k - 1].num)
LastNumber(a, q) == IF q = <<>> THEN a ELSE q[Len(q)].num

\* What connection c has sent and the server has not received follows number a,
\* and so will what c sends next.
Continues(a, c) ==
    /\ Consecutive(a, inbox[c])
    /\ peer[c] # "closed" => C2S_Number[c] = LastNumber(a, inbox[c])

\* Connections that are not polled yet, and of which nothing was received.
Waiting(c) ==
    \/ peer[c] = "new"
    \/ c \in Range(backlog)
    \/ \E s \in Sock : (s = asock \/ s \in Range(Accepted)) /\ owner[s] = c

\* What the gameplay thread knows of the client with handle s, before and after
\* a notice or packet: the number of its last packet, or that there is none.
Absent == WordSize
Follows(m, s, a, b) ==
    /\ Says(m, "CREATE", s) => a = Absent /\ b = 0
    /\ Says(m, "RELEASE", s) => a # Absent /\ b = Absent
    /\ Says(m, "PACKET", s) => a # Absent /\ b = Inc(a) /\ m.packet.num = b
    /\ m.Socket # s => b = a
Told(q, s, a, b) ==
    \E f \in [1 .. Len(q) + 1 -> 0 .. WordSize] :
        /\ f[1] = a /\ f[Len(q) + 1] = b
        /\ \A k \in 1 .. Len(q) : Follows(q[k], s, f[k], f[k + 1])

\* Number a is what the client nodes say of handle s now, number b what they
\* will say when all that is due has taken effect.
Known(s, a) ==
    /\ \A n \in Range(ClientList) : client[n].Socket = s => client[n].C2S = a
    /\ \A m, n \in Range(ClientList) : client[m].Socket = s /\ client[n].Socket = s => m = n
    /\ a # Absent => \E n \in Range(ClientList) : client[n].Socket = s
Ends(s, b) ==
    /\ b # Absent <=> s \in Range(SocketRecvList) \/ mdel = s
    /\ s \in Range(SocketRecvList) => Continues(b, owner[s])
Numbered(s) == \E a, b \in 0 .. WordSize : Told(Due, s, a, b) /\ Known(s, a) /\ Ends(s, b)

NumbersOK ==
    /\ mpc # "done"
    /\ \A c \in Conn : Waiting(c) => Continues(0, c)
    /\ \A s \in Sock : Numbered(s)

OrderOK == InTime /\ Named /\ OnePlace /\ ListedOnce /\ (RunFlag => NumbersOK)

-----------------------------------------------------------------------------
(* Queues, with one more node at the end or without the first.               *)

LEMMA AppendParts ==
    ASSUME NEW S, NEW q \in Seq(S), NEW m
    PROVE  /\ Len(q) \in Nat /\ DOMAIN q = 1 .. Len(q)
           /\ DOMAIN Append(q, m) = 1 .. Len(q) + 1 /\ Len(Append(q, m)) = Len(q) + 1
           /\ \A i \in 1 .. Len(q) : Append(q, m)[i] = q[i]
           /\ Append(q, m)[Len(q) + 1] = m
<1>1. q \in Seq(S \union {m})
  BY SeqMonotonic
<1> QED
  BY <1>1, AppendProperties, LenProperties

LEMMA TailParts ==
    ASSUME NEW S, NEW q \in Seq(S), q # <<>>
    PROVE  /\ Len(q) \in Nat \ {0} /\ DOMAIN q = 1 .. Len(q) /\ Head(q) = q[1]
           /\ Head(q) \in S /\ Tail(q) \in Seq(S)
           /\ DOMAIN Tail(q) = 1 .. Len(q) - 1 /\ Len(Tail(q)) = Len(q) - 1
           /\ \A i \in 1 .. Len(q) - 1 : Tail(q)[i] = q[i + 1]
BY HeadTailProperties, LenProperties

LEMMA OnceAppend ==
    ASSUME NEW S, NEW q \in Seq(S), NEW m
    PROVE  /\ \A s : Releases(Append(q, m), s) => Releases(q, s) \/ Says(m, "RELEASE", s)
           /\ ReleasedOnce(q) /\ (\A s \in Sock : Says(m, "RELEASE", s) => ~Releases(q, s))
                => ReleasedOnce(Append(q, m))
<1> DEFINE n == Len(q)
           r == Append(q, m)
<1>1. /\ n \in Nat /\ DOMAIN q = 1 .. n /\ DOMAIN r = 1 .. n + 1
      /\ \A i \in 1 .. n : r[i] = q[i]
      /\ r[n + 1] = m
  BY AppendParts
<1> HIDE DEF n, r
<1>2. \A i \in 1 .. n + 1 : i \in 1 .. n \/ i = n + 1
  BY <1>1
<1>3. \A s : Releases(r, s) => Releases(q, s) \/ Says(m, "RELEASE", s)
  BY <1>1, <1>2 DEF Releases
<1>4. ASSUME ReleasedOnce(q), \A s \in Sock : Says(m, "RELEASE", s) => ~Releases(q, s)
      PROVE  ReleasedOnce(r)
  <2>1. ASSUME NEW s \in Sock, NEW i \in DOMAIN r, NEW j \in DOMAIN r,
               Says(r[i], "RELEASE", s), Says(r[j], "RELEASE", s)
        PROVE  i = j
    <3>1. CASE i \in 1 .. n /\ j \in 1 .. n
      BY <1>1, <1>4, <2>1, <3>1 DEF ReleasedOnce
    <3>2. CASE i = n + 1 /\ j \in 1 .. n
      BY <1>1, <1>4, <2>1, <3>2 DEF Releases
    <3>3. CASE i \in 1 .. n /\ j = n + 1
      BY <1>1, <1>4, <2>1, <3>3 DEF Releases
    <3> QED
      BY <1>1, <1>2, <3>1, <3>2, <3>3
  <2> QED
    BY <2>1 DEF ReleasedOnce
<1> QED
  BY <1>3, <1>4 DEF r

LEMMA OnceTail ==
    ASSUME NEW S, NEW q \in Seq(S), q # <<>>
    PROVE  /\ \A s : Releases(Tail(q), s) => Releases(q, s)
           /\ ReleasedOnce(q) =>
                  /\ ReleasedOnce(Tail(q))
                  /\ \A s \in Sock : Says(Head(q), "RELEASE", s) => ~Releases(Tail(q), s)
<1> DEFINE n == Len(q)
           r == Tail(q)
<1>1. /\ n \in Nat \ {0} /\ DOMAIN q = 1 .. n /\ Head(q) = q[1] /\ DOMAIN r = 1 .. n - 1
      /\ \A i \in 1 .. n - 1 : r[i] = q[i + 1]
  BY TailParts
<1> HIDE DEF n, r
<1>2. 1 \in 1 .. n /\ \A i \in 1 .. n - 1 : i + 1 \in 1 .. n /\ i + 1 # 1
  BY <1>1
<1>3. \A s : Releases(r, s) => Releases(q, s)
  BY <1>1, <1>2 DEF Releases
<1>4. ASSUME ReleasedOnce(q) PROVE ReleasedOnce(r)
  <2>1. ASSUME NEW s \in Sock, NEW i \in 1 .. n - 1, NEW j \in 1 .. n - 1,
               Says(r[i], "RELEASE", s), Says(r[j], "RELEASE", s)
        PROVE  i = j
    <3>1. i + 1 = j + 1
      BY <1>1, <1>2, <1>4, <2>1 DEF ReleasedOnce
    <3> QED
      BY <3>1
  <2> QED
    BY <1>1, <2>1 DEF ReleasedOnce
<1>5. ASSUME ReleasedOnce(q), NEW s \in Sock, Says(Head(q), "RELEASE", s), Releases(r, s)
      PROVE  FALSE
  <2>1. PICK i \in 1 .. n - 1 : Says(q[i + 1], "RELEASE", s)
    BY <1>1, <1>5 DEF Releases
  <2> QED
    BY <1>1, <1>2, <1>5, <2>1 DEF ReleasedOnce
<1> QED
  BY <1>3, <1>4, <1>5 DEF r

LEMMA ToldEnds ==
    ASSUME NEW S, NEW q \in Seq(S), NEW s, NEW a, NEW b, Told(q, s, a, b)
    PROVE  a \in 0 .. WordSize /\ b \in 0 .. WordSize
<1>1. Len(q) \in Nat
  BY LenProperties
<1>2. 1 \in 1 .. Len(q) + 1 /\ Len(q) + 1 \in 1 .. Len(q) + 1
  BY <1>1
<1> QED
  BY <1>2 DEF Told

LEMMA ToldAppend ==
    ASSUME NEW S, NEW q \in Seq(S), NEW m, NEW s, NEW a, NEW b, NEW c \in 0 .. WordSize,
           Told(q, s, a, b), Follows(m, s, b, c)
    PROVE  Told(Append(q, m), s, a, c)
<1> DEFINE n == Len(q)
           r == Append(q, m)
<1>1. /\ n \in Nat /\ Len(r) = n + 1 /\ \A i \in 1 .. n : r[i] = q[i]
      /\ r[n + 1] = m
  BY AppendParts
<1>2. PICK f \in [1 .. n + 1 -> 0 .. WordSize] :
        /\ f[1] = a /\ f[n + 1] = b
        /\ \A k \in 1 .. n : Follows(q[k], s, f[k], f[k + 1])
  BY DEF Told
<1> HIDE DEF n, r
<1> DEFINE g == [k \in 1 .. n + 2 |-> IF k <= n + 1 THEN f[k] ELSE c]
<1>3. /\ g \in [1 .. n + 2 -> 0 .. WordSize] /\ g[1] = a /\ g[n + 2] = c
      /\ \A k \in 1 .. n + 1 : g[k] = f[k]
  BY <1>1, <1>2
<1> HIDE DEF g
<1>4. ASSUME NEW k \in 1 .. n + 1 PROVE Follows(r[k], s, g[k], g[k + 1])
  <2>1. CASE k = n + 1
    <3>1. g[k] = b /\ k + 1 = n + 2 /\ r[k] = m
      BY <1>1, <1>2, <1>3, <2>1
    <3> QED
      BY <1>3, <3>1
  <2>2. CASE k # n + 1
    <3>1. k \in 1 .. n /\ k + 1 \in 1 .. n + 1
      BY <1>1, <2>2
    <3> QED
      BY <1>1, <1>2, <1>3, <3>1
  <2> QED
    BY <2>1, <2>2
<1>5. n + 2 = (n + 1) + 1
  BY <1>1
<1>6. Told(r, s, a, c)
  BY <1>1, <1>3, <1>4, <1>5 DEF Told
<1> QED
  BY <1>6 DEF r

LEMMA ToldTail ==
    ASSUME NEW S, NEW q \in Seq(S), q # <<>>, NEW s, NEW a, NEW b, Told(q, s, a, b)
    PROVE  \E c \in 0 .. WordSize : Follows(Head(q), s, a, c) /\ Told(Tail(q), s, c, b)
<1> DEFINE n == Len(q) - 1
           r == Tail(q)
<1>1. /\ n \in Nat /\ Len(q) = n + 1 /\ Len(r) = n /\ Head(q) = q[1]
      /\ \A i \in 1 .. n : r[i] = q[i + 1]
  BY TailParts
<1> HIDE DEF n, r
<1>2. PICK f \in [1 .. (n + 1) + 1 -> 0 .. WordSize] :
        /\ f[1] = a /\ f[(n + 1) + 1] = b
        /\ \A k \in 1 .. n + 1 : Follows(q[k], s, f[k], f[k + 1])
  BY <1>1 DEF Told
<1> DEFINE g == [k \in 1 .. n + 1 |-> f[k + 1]]
<1>3. \A k \in 1 .. n + 1 : k + 1 \in 1 .. (n + 1) + 1
  BY <1>1
<1>4. 1 \in 1 .. n + 1 /\ n + 1 \in 1 .. n + 1 /\ 1 + 1 = 2
      /\ \A k \in 1 .. n : k \in 1 .. n + 1 /\ k + 1 \in 1 .. n + 1
  BY <1>1
<1>5. /\ g \in [1 .. n + 1 -> 0 .. WordSize] /\ g[1] = f[1 + 1] /\ g[n + 1] = b
      /\ \A k \in 1 .. n + 1 : g[k] = f[k + 1]
  BY <1>2, <1>3, <1>4
<1> HIDE DEF g
<1>6. \A k \in 1 .. n : Follows(r[k], s, g[k], g[k + 1])
  BY <1>1, <1>2, <1>4, <1>5
<1>7. Follows(q[1], s, a, g[1])
  BY <1>2, <1>4, <1>5
<1>8. Told(r, s, g[1], b)
  BY <1>1, <1>5, <1>6 DEF Told
<1>9. g[1] \in 0 .. WordSize
  BY <1>4, <1>5
<1> QED
  BY <1>1, <1>7, <1>8, <1>9 DEF r

LEMMA ConsecutiveAppend ==
    ASSUME NEW q \in Seq(C2S_Packet), NEW p, NEW a, Consecutive(a, q),
           p.num = Inc(LastNumber(a, q))
    PROVE  Consecutive(a, Append(q, p)) /\ LastNumber(a, Append(q, p)) = p.num
<1> DEFINE n == Len(q)
           r == Append(q, p)
<1>1. /\ n \in Nat /\ Len(r) = n + 1 /\ (q = <<>> <=> n = 0)
      /\ \A i \in 1 .. n : r[i] = q[i]
      /\ r[n + 1] = p
  BY AppendParts, EmptySeq
<1>2. \A k \in 1 .. n : q[k].num = Inc(IF k = 1 THEN a ELSE q[k - 1].num)
  BY DEF Consecutive
<1>3. LastNumber(a, q) = IF n = 0 THEN a ELSE q[n].num
  BY <1>1 DEF LastNumber
<1> HIDE DEF n, r
<1>4. ASSUME NEW k \in 1 .. n + 1
      PROVE  r[k].num = Inc(IF k = 1 THEN a ELSE r[k - 1].num)
  <2>1. CASE k \in 1 .. n
    <3>1. k # 1 => k - 1 \in 1 .. n
      BY <1>1, <2>1
    <3> QED
      BY <1>1, <1>2, <2>1, <3>1
  <2>2. CASE k = n + 1
    <3>1. (n = 0 <=> k = 1) /\ k - 1 = n /\ (n # 0 => n \in 1 .. n)
      BY <1>1, <2>2
    <3> QED
      BY <1>1, <1>3, <2>2, <3>1
  <2> QED
    BY <1>1, <2>1, <2>2
<1>5. Consecutive(a, r)
  BY <1>1, <1>4 DEF Consecutive
<1>6. r # <<>>
  BY <1>1, EmptySeq
<1>7. LastNumber(a, r) = p.num
  BY <1>1, <1>6 DEF LastNumber
<1> QED
  BY <1>5, <1>7 DEF r

LEMMA ConsecutiveTail ==
    ASSUME NEW q \in Seq(C2S_Packet), q # <<>>, NEW a, Consecutive(a, q)
    PROVE  /\ Head(q).num = Inc(a)
           /\ Consecutive(Inc(a), Tail(q))
           /\ LastNumber(Inc(a), Tail(q)) = LastNumber(a, q)
<1> DEFINE n == Len(q) - 1
           r == Tail(q)
<1>1. /\ n \in Nat /\ Len(q) = n + 1 /\ Len(r) = n /\ Head(q) = q[1] /\ r \in Seq(C2S_Packet)
      /\ \A i \in 1 .. n : r[i] = q[i + 1]
  BY TailParts
<1>2. r = <<>> <=> n = 0
  BY <1>1, EmptySeq
<1> HIDE DEF n, r
<1>3. \A k \in 1 .. n + 1 : q[k].num = Inc(IF k = 1 THEN a ELSE q[k - 1].num)
  BY <1>1 DEF Consecutive
<1>4. q[1].num = Inc(a)
  BY <1>1, <1>3
<1>5. ASSUME NEW k \in 1 .. n
      PROVE  r[k].num = Inc(IF k = 1 THEN Inc(a) ELSE r[k - 1].num)
  <2>1. k + 1 \in 1 .. n + 1 /\ k + 1 # 1 /\ (k + 1) - 1 = k /\ r[k] = q[k + 1]
    BY <1>1
  <2>2. r[k].num = Inc(q[k].num)
    BY <1>3, <2>1
  <2>3. k # 1 => k - 1 \in 1 .. n /\ (k - 1) + 1 = k
    BY <1>1
  <2> QED
    BY <1>1, <1>4, <2>2, <2>3
<1>6. LastNumber(Inc(a), r) = LastNumber(a, q)
  <2>1. n # 0 => n \in 1 .. n
    BY <1>1
  <2> QED
    BY <1>1, <1>2, <1>4, <2>1 DEF LastNumber
<1> QED
  BY <1>1, <1>4, <1>5, <1>6 DEF Consecutive, r

-----------------------------------------------------------------------------
(* What is due.                                                              *)

LEMMA DueType ==
    ASSUME TypeOK, InHand, Named
    PROVE  Due \in Seq(SockInfo) /\ Due \in Seq(RecvPacketInfo)
<1>1. PacketRecvList \in Seq(SockInfo) /\ SockInfo \subseteq RecvPacketInfo
  BY DEF Named, SockInfo
<1>2. Due \in Seq(SockInfo)
  BY <1>1, TailIn DEF Due, InHand
<1> QED
  BY <1>1, <1>2, SeqMonotonic

\* A node that is linked while the gameplay thread works comes last.
LEMMA DueLinked ==
    ASSUME TypeOK, InHand, UNCHANGED gpc, NEW m, PacketRecvList' = Append(PacketRecvList, m)
    PROVE  Due' = Append(Due, m)
<1>1. PacketRecvList \in Seq(RecvPacketInfo)
  BY DEF TypeOK, ServerTypeOK
<1>2. PacketRecvList # <<>> => Tail(PacketRecvList') = Append(Tail(PacketRecvList), m)
  BY <1>1, HeadTailAppend
<1> QED
  BY <1>2 DEF Due, InHand

LEMMA NextNamed ==
    ASSUME TypeOK, InHand, TypeOK', Named, [Next]_vars
    PROVE  Named'
<1> USE DEF Named
<1>0. SocketRecvList \in Seq(Sock)
  BY DEF TypeOK, ServerTypeOK
<1>1. CASE UNCHANGED <<PacketRecvList, mdel>> /\ mpc' # "notice"
  BY <1>1
<1>2. CASE UNCHANGED <<PacketRecvList, mdel, mpc>>
  BY <1>2
<1>3. CASE PacketRecvList # <<>> /\ PacketRecvList' = Tail(PacketRecvList)
           /\ UNCHANGED <<mdel, mpc>>
  BY <1>3, TailIn
<1>4. ASSUME NEW m, PacketRecvList' = Append(PacketRecvList, m), m.Socket \in Sock,
             mpc' # "notice"
      PROVE  Named'
  <2>1. m \in RecvPacketInfo
    BY <1>4, AppendedIn DEF TypeOK, ServerTypeOK
  <2>2. m \in SockInfo
    BY <1>4, <2>1 DEF SockInfo
  <2> QED
    BY <1>4, <2>2, AppendProperties
<1>5. CASE MainStep
  <2>1. CASE DrainAcceptList
    <3>1. PICK m : PacketRecvList' = Append(PacketRecvList, m) /\ m.Socket = Head(AcceptList)
      BY <2>1 DEF DrainAcceptList
    <3>2. Head(AcceptList) \in Sock /\ mpc' # "notice"
      BY <2>1 DEF DrainAcceptList, TypeOK, ServerTypeOK
    <3> QED
      BY <1>4, <3>1, <3>2
  <2>2. CASE RecvPacket
    <3>1. PICK i \in 1 .. Len(SocketRecvList) : \E m :
             PacketRecvList' = Append(PacketRecvList, m) /\ m.Socket = SocketRecvList[i]
      BY <2>2 DEF RecvPacket
    <3>2. SocketRecvList[i] \in Sock
      BY <1>0, ElementOfSeq
    <3>3. mpc' # "notice"
      BY <2>2 DEF RecvPacket
    <3> QED
      BY <1>4, <3>1, <3>2, <3>3
  <2>3. CASE NoticeFree
    <3>1. PICK m : PacketRecvList' = Append(PacketRecvList, m) /\ m.Socket = mdel
      BY <2>3 DEF NoticeFree
    <3>2. mdel \in Sock /\ mpc' # "notice"
      BY <2>3 DEF NoticeFree
    <3> QED
      BY <1>4, <3>1, <3>2
  <2>4. CASE RecvFail
    <3>1. PICK i \in 1 .. Len(SocketRecvList) : mdel' = SocketRecvList[i]
      BY <2>4 DEF RecvFail
    <3>2. SocketRecvList[i] \in Sock
      BY <1>0, ElementOfSeq
    <3>3. UNCHANGED PacketRecvList
      BY <2>4 DEF RecvFail, queueVars
    <3> QED
      BY <3>1, <3>2, <3>3
  <2>5. CASE SelectBlocking \/ TimedMode \/ LeaveLoop \/ DrainAwake \/ SelectTimed \/ SelectDone
               \/ AwakeAccept \/ AwakeRecv \/ AwakeFree \/ Release
    <3>1. UNCHANGED <<PacketRecvList, mdel>> /\ mpc' # "notice"
      BY <2>5 DEF SelectBlocking, TimedMode, LeaveLoop, DrainAwake, SelectTimed, SelectDone,
         AwakeAccept, AwakeRecv, AwakeFree, GameAwake, Release, queueVars
    <3> QED
      BY <1>1, <3>1
  <2> QED
    BY <1>5, <2>1, <2>2, <2>3, <2>4, <2>5 DEF MainStep
<1>6. CASE AcceptStep
  <2>1. UNCHANGED <<PacketRecvList, mdel, mpc>>
    BY <1>6 DEF AcceptStep, AcceptOuter, AcceptWait, AcceptReset, PollNothing, PollStopped,
       PollAccept, PollError, AcceptFull, AcceptLink, AcceptCheck, AcceptClearFlag, acceptFrame,
       queueVars, mainVars
  <2> QED
    BY <1>2, <2>1
<1>7. CASE GameStep
  <2>1. UNCHANGED <<mdel, mpc>>
    BY <1>7, GameStepFrame, SMTT(40)
  <2>2. \/ UNCHANGED PacketRecvList
        \/ PacketRecvList # <<>> /\ PacketRecvList' = Tail(PacketRecvList)
    BY <1>7 DEF InHand, GameStep, GameOuter, GameWait, GameReset, GameEmpty, CreateClientNode,
       LinkSendNode, FreeClientNode, ScanSendNode, FreePlayerAndClose, UnlinkClient, NoClientNode,
       PacketInOrder, PacketOutOfOrder, IsPacket, AwakeSend, CloseTimedOut, CheckClientAlive, ServerExit,
       ExitCloseListen, ExitAwakeAccept, ExitAwake, UnlinkHead, queueVars
  <2> QED
    BY <1>2, <1>3, <2>1, <2>2
<1>8. CASE Clients \/ MinutePasses \/ SendStep \/ UNCHANGED vars
  <2>1. UNCHANGED <<PacketRecvList, mdel, mpc>>
    BY <1>8 DEF Clients, MinutePasses, SendStep, SendOuter, SendWait, SendReset, SendGet,
       SendCopy, SendOne, SendDone, sendFrame, vars, serverVars, queueVars, mainVars
  <2> QED
    BY <1>2, <2>1
<1> QED
  BY <1>5, <1>6, <1>7, <1>8 DEF Next

-----------------------------------------------------------------------------
(* The clients' numbers.                                                     *)

ContinuesKept == \A a \in 0 .. WordSize, c \in Conn : Continues(a, c) => Continues(a, c)'
WaitingKept == \A c \in Conn : Waiting(c)' => Waiting(c)

LEMMA ContinuesSame ==
    ASSUME UNCHANGED <<inbox, peer, C2S_Number>>
    PROVE  ContinuesKept
BY DEF ContinuesKept, Continues

\* Of a connection that is gone nothing is left to receive.
LEMMA DisconnectContinues ==
    ASSUME NEW C, Disconnect(C)
    PROVE  ContinuesKept
<1> SUFFICES ASSUME NEW a \in 0 .. WordSize, NEW c \in Conn, Continues(a, c)
             PROVE  Continues(a, c)'
  BY DEF ContinuesKept
<1>1. CASE c \in C
  <2>1. inbox'[c] = <<>> /\ peer'[c] = "closed"
    BY <1>1 DEF Disconnect
  <2>2. Len(inbox'[c]) = 0 /\ 1 .. 0 = {}
    BY <2>1
  <2> QED
    BY <2>1, <2>2 DEF Continues, Consecutive
<1>2. CASE c \notin C
  <2>1. inbox'[c] = inbox[c] /\ peer'[c] = peer[c] /\ C2S_Number'[c] = C2S_Number[c]
    BY <1>2 DEF Disconnect
  <2> QED
    BY <2>1 DEF Continues
<1> QED
  BY <1>1, <1>2

\* A client that does not skip a number sends the next one.
LEMMA ClientsContinue ==
    ASSUME TypeOK, ClientMay = {}, ClientStep
    PROVE  ContinuesKept
<1>1. PICK k \in Conn : ClientConnect(k) \/ ClientSend(k) \/ ClientClose(k)
  BY DEF ClientStep
<1> SUFFICES ASSUME NEW a \in 0 .. WordSize, NEW c \in Conn, Continues(a, c)
             PROVE  Continues(a, c)'
  BY DEF ContinuesKept
<1>2. CASE ClientConnect(k)
  <2>1. UNCHANGED <<inbox, C2S_Number>> /\ (peer'[c] # "closed" => peer[c] # "closed")
    BY <1>2 DEF ClientConnect, TypeOK, NetTypeOK
  <2> QED
    BY <2>1 DEF Continues
<1>3. CASE ClientClose(k)
  <2>1. /\ UNCHANGED inbox
        /\ peer'[c] # "closed" => peer[c] # "closed" /\ C2S_Number'[c] = C2S_Number[c]
    BY <1>3 DEF ClientClose, TypeOK, NetTypeOK
  <2> QED
    BY <2>1 DEF Continues
<1>4. CASE ClientSend(k)
  <2>1. PICK p :
          /\ C2S_Number' = [C2S_Number EXCEPT ![k] = p.num]
          /\ inbox' = [inbox EXCEPT ![k] = Append(@, p)]
          /\ p.num = Inc(C2S_Number[k])
    <3>1. PICK kind \in Kinds, n \in {Inc(C2S_Number[k])} :
            /\ C2S_Number' = [C2S_Number EXCEPT ![k] = n]
            /\ inbox' = [inbox EXCEPT ![k] = Append(@, [type |-> kind, num |-> n, from |-> k])]
      BY <1>4 DEF ClientSend
    <3>2. [type |-> kind, num |-> n, from |-> k].num = n
      OBVIOUS
    <3> QED
      BY <3>1, <3>2
  <2>2. UNCHANGED peer /\ peer[k] = "open"
    BY <1>4 DEF ClientSend
  <2>3. CASE c = k
    <3>1. /\ inbox'[c] = Append(inbox[c], p) /\ C2S_Number'[c] = p.num
          /\ inbox[c] \in Seq(C2S_Packet)
      BY <2>1, <2>3 DEF TypeOK, NetTypeOK
    <3>2. Consecutive(a, inbox[c]) /\ p.num = Inc(LastNumber(a, inbox[c]))
      BY <2>1, <2>2, <2>3 DEF Continues
    <3> QED
      BY <3>1, <3>2, ConsecutiveAppend DEF Continues
  <2>4. CASE c # k
    <3>1. inbox'[c] = inbox[c] /\ C2S_Number'[c] = C2S_Number[c]
      BY <2>1, <2>4 DEF TypeOK, NetTypeOK
    <3> QED
      BY <2>2, <3>1 DEF Continues
  <2> QED
    BY <2>3, <2>4
<1> QED
  BY <1>1, <1>2, <1>3, <1>4

LEMMA ClientsWaiting ==
    ASSUME TypeOK, ClientStep, UNCHANGED serverVars
    PROVE  WaitingKept
<1>1. PICK k \in Conn : ClientConnect(k) \/ ClientSend(k) \/ ClientClose(k)
  BY DEF ClientStep
<1>2. Accepted' = Accepted /\ asock' = asock /\ owner' = owner
  BY <1>1 DEF Accepted, serverVars, recvListVars, mainVars, acceptVars, ClientConnect, ClientSend,
     ClientClose
<1>3. \A c \in Conn : peer'[c] = "new" => peer[c] = "new"
  BY <1>1 DEF ClientConnect, ClientSend, ClientClose, TypeOK, NetTypeOK
<1>4. \A c \in Range(backlog') : c \in Range(backlog) \/ peer[c] = "new"
  <2>1. CASE ClientConnect(k)
    <3>1. backlog' = Append(backlog, k) /\ peer[k] = "new" /\ backlog \in Seq(Conn)
      BY <2>1 DEF ClientConnect, TypeOK, NetTypeOK
    <3>2. /\ Len(backlog) \in Nat /\ DOMAIN backlog = 1 .. Len(backlog)
          /\ DOMAIN backlog' = 1 .. Len(backlog) + 1
          /\ \A i \in 1 .. Len(backlog) : backlog'[i] = backlog[i]
          /\ backlog'[Len(backlog) + 1] = k
      BY <3>1, AppendParts
    <3>3. \A i \in 1 .. Len(backlog) + 1 : i \in 1 .. Len(backlog) \/ i = Len(backlog) + 1
      BY <3>2
    <3> QED
      BY <3>1, <3>2, <3>3 DEF Range
  <2>2. CASE ~ClientConnect(k)
    BY <1>1, <2>2 DEF ClientSend, ClientClose
  <2> QED
    BY <2>1, <2>2
<1> QED
  BY <1>2, <1>3, <1>4 DEF WaitingKept, Waiting

LEMMA WaitingFewer ==
    ASSUME Range(Accepted') \subseteq Range(Accepted) \union {asock},
           asock' \in {asock, INVALID_SOCKET},
           Range(backlog') \subseteq Range(backlog),
           \A c \in Conn : peer'[c] = "new" => peer[c] = "new",
           \A s \in Sock : owner'[s] # NoConn => owner'[s] = owner[s]
    PROVE  WaitingKept
BY ConnAssumption DEF WaitingKept, Waiting

LEMMA SameWaiting ==
    ASSUME Accepted' = Accepted, UNCHANGED <<asock, backlog, peer, owner>>
    PROVE  WaitingKept
BY DEF WaitingKept, Waiting

-----------------------------------------------------------------------------
(* How the places of the handles and the numbers change.                     *)

LEMMA PlacesSame ==
    ASSUME OnePlace, mpc' # "done" => mpc # "done",
           \A s \in Sock :
               /\ owner'[s] = NoConn => owner[s] = NoConn
               /\ asock' = s => asock = s
               /\ s \in Range(Accepted') => s \in Range(Accepted)
               /\ s \in Range(SocketRecvList') => s \in Range(SocketRecvList)
               /\ mdel' = s => mdel = s
               /\ Releases(Due', s) => Releases(Due, s)
    PROVE  OnePlace'
<1> SUFFICES ASSUME mpc' # "done" PROVE \E at : PlacedAt(at)'
  BY DEF OnePlace
<1>1. PICK at : PlacedAt(at)
  BY DEF OnePlace
<1>2. PlacedAt(at)'
  BY <1>1 DEF PlacedAt
<1> QED
  BY <1>2

\* Handle h comes to place p.
LEMMA PlacesMoved ==
    ASSUME OnePlace, mpc' # "done" => mpc # "done", NEW h \in Sock, NEW p \in Place,
           \A s \in Sock : s # h =>
               /\ owner'[s] = NoConn => owner[s] = NoConn
               /\ asock' = s => asock = s
               /\ s \in Range(Accepted') => s \in Range(Accepted)
               /\ s \in Range(SocketRecvList') => s \in Range(SocketRecvList)
               /\ mdel' = s => mdel = s
               /\ Releases(Due', s) => Releases(Due, s),
           owner'[h] = NoConn => p = "closed",
           asock' = h => p = "accepting",
           h \in Range(Accepted') => p = "accepted",
           h \in Range(SocketRecvList') => p = "polled",
           mdel' = h => p = "dropped",
           Releases(Due', h) => p = "released"
    PROVE  OnePlace'
<1> SUFFICES ASSUME mpc' # "done" PROVE \E at : PlacedAt(at)'
  BY DEF OnePlace
<1>1. PICK at : PlacedAt(at)
  BY DEF OnePlace
<1>2. PICK new : new = [at EXCEPT ![h] = p]
  OBVIOUS
<1>3. /\ new \in [Sock -> Place] /\ new[h] = p
      /\ \A s \in Sock : s # h => new[s] = at[s]
  BY <1>1, <1>2 DEF PlacedAt
<1>4. ASSUME NEW s \in Sock
      PROVE  /\ owner'[s] = NoConn => new[s] = "closed"
             /\ asock' = s => new[s] = "accepting"
             /\ s \in Range(Accepted') => new[s] = "accepted"
             /\ s \in Range(SocketRecvList') => new[s] = "polled"
             /\ mdel' = s => new[s] = "dropped"
             /\ Releases(Due', s) => new[s] = "released"
  BY <1>1, <1>3 DEF PlacedAt
<1>5. PlacedAt(new)'
  BY <1>3, <1>4 DEF PlacedAt
<1> QED
  BY <1>5

\* What the places say of the handles that are polled.
LEMMA PolledOpen ==
    ASSUME TypeOK, OnePlace, mpc # "done", NEW s \in Sock, s \in Range(SocketRecvList)
    PROVE  owner[s] \in Conn
BY DEF OnePlace, PlacedAt, TypeOK, NetTypeOK

LEMMA EndsSame ==
    ASSUME TypeOK, OnePlace, mpc # "done", ContinuesKept, UNCHANGED <<SocketRecvList, mdel>>,
           \A s \in Sock : s \in Range(SocketRecvList) => owner'[s] = owner[s],
           NEW s \in Sock, NEW b \in 0 .. WordSize, Ends(s, b)
    PROVE  Ends(s, b)'
<1>1. s \in Range(SocketRecvList) => owner[s] \in Conn
  BY PolledOpen
<1> QED
  BY <1>1 DEF Ends, ContinuesKept, Continues

LEMMA KnownSame ==
    ASSUME TypeOK, UNCHANGED ClientList,
           \A n \in Node : client'[n].Socket = client[n].Socket /\ client'[n].C2S = client[n].C2S,
           NEW s, NEW a, Known(s, a)
    PROVE  Known(s, a)'
<1>1. Range(ClientList) \subseteq Node
  BY RangeIn DEF TypeOK, ServerTypeOK
<1> QED
  BY <1>1 DEF Known

LEMMA NumbersSame ==
    ASSUME NumbersOK, mpc' # "done", ContinuesKept, WaitingKept, Due' = Due,
           \A s \in Sock : \A a \in 0 .. WordSize :
               (Known(s, a) => Known(s, a)') /\ (Ends(s, a) => Ends(s, a)')
    PROVE  NumbersOK'
<1>1. \A c \in Conn : Waiting(c)' => Continues(0, c)'
  BY WordSizeAssumption DEF NumbersOK, ContinuesKept, WaitingKept
<1>2. \A s \in Sock : Numbered(s)'
  BY DEF NumbersOK, Numbered
<1> QED
  BY <1>1, <1>2 DEF NumbersOK

\* A notice or packet is linked.
LEMMA NumbersLinked ==
    ASSUME TypeOK, InHand, Named, NumbersOK, NEW m, Due' = Append(Due, m),
           UNCHANGED <<ClientList, client>>,
           \A s \in Sock : \A b \in 0 .. WordSize : Ends(s, b) =>
               \E c \in 0 .. WordSize : Follows(m, s, b, c) /\ Ends(s, c)'
    PROVE  \A s \in Sock : Numbered(s)'
<1> SUFFICES ASSUME NEW s \in Sock PROVE Numbered(s)'
  OBVIOUS
<1>1. PICK a \in 0 .. WordSize, b \in 0 .. WordSize : Told(Due, s, a, b) /\ Known(s, a) /\ Ends(s, b)
  BY DEF NumbersOK, Numbered
<1>2. PICK c \in 0 .. WordSize : Follows(m, s, b, c) /\ Ends(s, c)'
  BY <1>1
<1>3. Due \in Seq(SockInfo)
  BY DueType
<1>4. Told(Due', s, a, c)
  BY <1>1, <1>2, <1>3, ToldAppend
<1>5. Known(s, a)'
  BY <1>1, KnownSame
<1> QED
  BY <1>2, <1>4, <1>5 DEF Numbered

\* A notice or packet takes effect.
LEMMA NumbersTaken ==
    ASSUME TypeOK, InHand, Named, NumbersOK, Due # <<>>, Due' = Tail(Due), mpc' # "done",
           ContinuesKept, WaitingKept,
           \A s \in Sock : \A a, c \in 0 .. WordSize :
               Known(s, a) /\ Follows(Head(Due), s, a, c) => Known(s, c)',
           \A s \in Sock : \A b \in 0 .. WordSize : Ends(s, b) => Ends(s, b)'
    PROVE  NumbersOK'
<1>1. \A c \in Conn : Waiting(c)' => Continues(0, c)'
  BY WordSizeAssumption DEF NumbersOK, ContinuesKept, WaitingKept
<1>2. ASSUME NEW s \in Sock PROVE Numbered(s)'
  <2>1. PICK a \in 0 .. WordSize, b \in 0 .. WordSize :
          Told(Due, s, a, b) /\ Known(s, a) /\ Ends(s, b)
    BY DEF NumbersOK, Numbered
  <2>2. Due \in Seq(SockInfo)
    BY DueType
  <2>3. PICK c \in 0 .. WordSize : Follows(Head(Due), s, a, c) /\ Told(Tail(Due), s, c, b)
    BY <2>1, <2>2, ToldTail
  <2>4. Known(s, c)' /\ Ends(s, b)'
    BY <2>1, <2>3
  <2> QED
    BY <2>3, <2>4 DEF Numbered
<1> QED
  BY <1>1, <1>2 DEF NumbersOK

\* Steps that move no handle and no notice.
LEMMA ElsewhereOrder ==
    ASSUME TypeOK, OrderOK, Named', Accepted' = Accepted, Due' = Due,
           UNCHANGED <<SocketRecvList, mdel, asock, owner, ClientList>>,
           RunFlag' => RunFlag, mpc' = "done" <=> mpc = "done",
           \A n \in Node : /\ client'[n].Socket = client[n].Socket
                           /\ client'[n].C2S = client[n].C2S
                           /\ client'[n].timer # "expired" /\ ~client'[n].AliveTimeoutFlag,
           ContinuesKept, WaitingKept
    PROVE  OrderOK'
<1>1. InTime'
  BY DEF InTime
<1>2. OnePlace'
  BY PlacesSame DEF OrderOK
<1>3. ListedOnce'
  BY DEF OrderOK, ListedOnce
<1>4. ASSUME RunFlag PROVE NumbersOK'
  <2>1. NumbersOK /\ mpc # "done" /\ mpc' # "done" /\ OnePlace
    BY <1>4 DEF OrderOK, NumbersOK
  <2>2. ASSUME NEW s \in Sock, NEW a \in 0 .. WordSize
        PROVE  (Known(s, a) => Known(s, a)') /\ (Ends(s, a) => Ends(s, a)')
    BY <2>1, EndsSame, KnownSame
  <2> QED
    BY <2>1, <2>2, NumbersSame
<1> QED
  BY <1>1, <1>2, <1>3, <1>4 DEF OrderOK

LEMMA RemoveFresh ==
    ASSUME NEW S, NEW list \in Seq(S), NEW k \in 1 .. Len(list), IsInjective(list)
    PROVE  /\ IsInjective(RemoveAt(list, k))
           /\ Range(RemoveAt(list, k)) = Range(list) \ {list[k]}
<1> DEFINE n == Len(list)
           r == RemoveAt(list, k)
<1>1. /\ n \in Nat /\ DOMAIN list = 1 .. n /\ DOMAIN r = 1 .. n - 1
      /\ \A i \in 1 .. n - 1 : r[i] = list[IF i < k THEN i ELSE i + 1]
  BY RemoveAtElements, LenProperties
<1>2. k \in 1 .. n
  OBVIOUS
<1> HIDE DEF n, r
<1>3. \A i, j \in 1 .. n : list[i] = list[j] => i = j
  BY <1>1 DEF IsInjective
<1>4. \A i \in 1 .. n - 1 : (IF i < k THEN i ELSE i + 1) \in 1 .. n \ {k}
  BY <1>1, <1>2
<1>5. IsInjective(r)
  <2>1. ASSUME NEW i \in 1 .. n - 1, NEW j \in 1 .. n - 1, r[i] = r[j] PROVE i = j
    <3>1. (IF i < k THEN i ELSE i + 1) = (IF j < k THEN j ELSE j + 1)
      BY <1>1, <1>3, <1>4, <2>1
    <3> QED
      BY <1>1, <1>2, <3>1
  <2> QED
    BY <1>1, <2>1 DEF IsInjective
<1>6. Range(r) \subseteq Range(list) \ {list[k]}
  <2>1. ASSUME NEW i \in 1 .. n - 1 PROVE r[i] \in Range(list) \ {list[k]}
    <3>1. PICK j \in 1 .. n \ {k} : r[i] = list[j]
      BY <1>1, <1>4
    <3> QED
      BY <1>1, <1>2, <1>3, <3>1 DEF Range
  <2> QED
    BY <1>1, <2>1 DEF Range
<1>7. ASSUME NEW i \in 1 .. n, i # k PROVE list[i] \in Range(r)
  <2>1. CASE i < k
    <3>1. i \in 1 .. n - 1 /\ r[i] = list[i]
      BY <1>1, <1>2, <2>1
    <3> QED
      BY <1>1, <3>1 DEF Range
  <2>2. CASE i > k
    <3>1. i - 1 \in 1 .. n - 1 /\ ~(i - 1 < k) /\ (i - 1) + 1 = i
      BY <1>1, <1>2, <2>2
    <3>2. r[i - 1] = list[i]
      BY <1>1, <3>1
    <3> QED
      BY <1>1, <3>1, <3>2 DEF Range
  <2> QED
    BY <1>1, <1>2, <1>7, <2>1, <2>2
<1>8. Range(list) \ {list[k]} \subseteq Range(r)
  BY <1>1, <1>7 DEF Range
<1> QED
  BY <1>5, <1>6, <1>8 DEF r

-----------------------------------------------------------------------------
(* Every step keeps the order.                                               *)

LEMMA MainStepOrder ==
    ASSUME TypeOK, InHand, WorldOK, HandlesOK, OrderOK, Named', MainStep
    PROVE  OrderOK'
<1> USE DEF OrderOK
<1>0. CASE Release
  <2>1. /\ UNCHANGED <<AcceptList, SocketRecvList, PacketRecvList, RunFlag, gpc>>
        /\ gpc = "done" /\ mpc = "release" /\ mpc' = "done"
        /\ client' = [n \in Node |-> IF n \in Range(ClientList) THEN FreeClient ELSE client[n]]
    BY <1>0 DEF Release, recvListVars, queueVars, flagVars, gameVars
  <2>2. ~RunFlag
    BY <2>1 DEF HandlesOK, StagesOK
  <2>3. InTime'
    BY <2>1 DEF InTime, FreeClient
  <2>4. ListedOnce'
    BY <2>1 DEF ListedOnce, Accepted, Due
  <2> QED
    BY <2>1, <2>2, <2>3, <2>4 DEF OnePlace
<1> SUFFICES ASSUME ~Release PROVE OrderOK'
  BY <1>0
<1>1. UNCHANGED <<RunFlag, apc, asock, gpc, owner, ClientList, backlog, peer, client>>
  BY DEF MainStep, SelectBlocking, TimedMode, LeaveLoop, DrainAcceptList, DrainAwake,
     SelectTimed, SelectDone, AwakeAccept, RecvPacket, AwakeRecv, RecvFail, NoticeFree,
     AwakeFree, GameAwake, SelectCall, SelectReturn, netVars, clientListVars,
     gameVars, acceptVars, flagVars, clientVars
<1>2. InTime'
  BY <1>1 DEF InTime
<1>3. ListedOnce /\ OnePlace /\ InTime
  OBVIOUS
<1>4. /\ SocketRecvList \in Seq(Sock) /\ AcceptList \in Seq(Sock) /\ Due \in Seq(SockInfo)
      /\ inbox \in [Conn -> Seq(C2S_Packet)]
  BY DueType DEF TypeOK, ServerTypeOK, NetTypeOK
<1>5. CASE SelectBlocking \/ TimedMode \/ LeaveLoop \/ DrainAwake \/ SelectTimed \/ SelectDone
             \/ AwakeAccept \/ AwakeRecv \/ AwakeFree
  <2>1. /\ UNCHANGED <<PacketRecvList, SocketRecvList, mdel, inbox, C2S_Number, client>>
        /\ mpc' # "done" /\ mpc # "done"
    BY <1>5 DEF SelectBlocking, TimedMode, LeaveLoop, DrainAwake, SelectTimed, SelectDone,
       AwakeAccept, AwakeRecv, AwakeFree, GameAwake, SelectCall, SelectReturn, queueVars,
       recvListVars, netVars, clientVars, clientListVars
  <2>2. Accepted' = Accepted
    BY <1>5 DEF SelectBlocking, TimedMode, LeaveLoop, DrainAwake, SelectTimed, SelectDone,
       AwakeAccept, AwakeRecv, AwakeFree, GameAwake, recvListVars, Accepted
  <2>3. Due' = Due
    BY <1>1, <2>1 DEF Due
  <2>4. ContinuesKept /\ WaitingKept
    BY <1>1, <2>1, <2>2, ContinuesSame, SameWaiting
  <2> QED
    BY <1>1, <1>3, <2>1, <2>2, <2>3, <2>4, ElsewhereOrder DEF InTime
<1>6. CASE DrainAcceptList
  <2>1. PICK h, m : /\ h = Head(AcceptList) /\ PacketRecvList' = Append(PacketRecvList, m)
                    /\ m.ActionType = "CREATE" /\ m.Socket = h
    BY <1>6 DEF DrainAcceptList
  <2>2. /\ AcceptList # <<>> /\ SocketRecvList' = Append(SocketRecvList, h)
        /\ mpc = "drain" /\ mpc' = "drainAwake"
        /\ UNCHANGED <<AcceptList, mdel, inbox, C2S_Number, client>>
    BY <1>6, <2>1 DEF DrainAcceptList, netVars, clientVars, clientListVars
  <2>3. h \in Sock /\ Accepted = AcceptList /\ Accepted' = Tail(AcceptList)
    BY <1>4, <2>1, <2>2 DEF Accepted
  <2>4. /\ Range(Accepted) = {h} \union Range(Accepted') /\ h \notin Range(Accepted')
        /\ IsInjective(Accepted')
    BY <1>3, <1>4, <2>1, <2>2, <2>3, HeadLeaves DEF ListedOnce
  <2>5. h \in Range(Accepted)
    BY <2>4
  <2>6. /\ h \notin Range(SocketRecvList) /\ mdel # h /\ asock # h /\ owner[h] # NoConn
        /\ ~Releases(Due, h)
    BY <1>3, <2>2, <2>3, <2>5 DEF OnePlace, PlacedAt
  <2>7. IsInjective(SocketRecvList') /\ Range(SocketRecvList') = Range(SocketRecvList) \union {h}
    BY <1>3, <1>4, <2>2, <2>3, <2>6, AppendFresh DEF ListedOnce
  <2>8. Due' = Append(Due, m)
    BY <1>1, <2>1, DueLinked
  <2>9. /\ \A s : Releases(Due', s) => Releases(Due, s)
        /\ ReleasedOnce(Due')
    BY <1>3, <1>4, <2>1, <2>8, OnceAppend DEF Says, ListedOnce
  <2>10. OnePlace'
    <3>1. "polled" \in Place /\ mpc # "done"
      BY <2>2 DEF Place
    <3> QED
      BY <1>1, <1>3, <2>2, <2>3, <2>4, <2>6, <2>7, <2>9, <3>1, PlacesMoved
  <2>11. ListedOnce'
    BY <2>4, <2>7, <2>9 DEF ListedOnce
  <2>12. ASSUME RunFlag PROVE NumbersOK'
    <3>1. NumbersOK
      BY <2>12
    <3>2. \A c \in Conn : Waiting(c)' => Waiting(c)
      BY <1>1, <2>4 DEF Waiting
    <3>3. \A c \in Conn : Waiting(c)' => Continues(0, c)'
      BY <1>1, <2>2, <3>1, <3>2 DEF NumbersOK, Continues
    <3>4. ASSUME NEW s \in Sock, NEW b \in 0 .. WordSize, Ends(s, b)
          PROVE  \E c \in 0 .. WordSize : Follows(m, s, b, c) /\ Ends(s, c)'
      <4>1. CASE s = h
        <5>1. b = Absent
          BY <2>6, <3>4, <4>1 DEF Ends
        <5>2. Follows(m, s, b, 0)
          BY <2>1, <4>1, <5>1 DEF Follows, Says
        <5>3. owner[h] \in Conn
          BY <2>3, <2>6 DEF TypeOK, NetTypeOK
        <5>4. Continues(0, owner[h])
          BY <2>3, <2>5, <3>1, <5>3 DEF NumbersOK, Waiting
        <5>5. 0 # Absent /\ 0 \in 0 .. WordSize
          BY WordSizeAssumption DEF Absent
        <5>6. Ends(s, 0)'
          BY <1>1, <2>2, <2>7, <4>1, <5>4, <5>5 DEF Ends, Continues, Absent
        <5> QED
          BY <5>2, <5>5, <5>6
      <4>2. CASE s # h
        <5>1. Follows(m, s, b, b)
          BY <2>1, <4>2 DEF Follows, Says
        <5>2. Ends(s, b)'
          BY <1>1, <2>2, <2>7, <3>4, <4>2 DEF Ends, Continues
        <5> QED
          BY <5>1, <5>2
      <4> QED
        BY <4>1, <4>2
    <3>5. \A s \in Sock : Numbered(s)'
      BY <1>1, <2>2, <2>8, <3>1, <3>4, NumbersLinked
    <3> QED
      BY <2>2, <3>3, <3>5 DEF NumbersOK
  <2> QED
    BY <1>1, <1>2, <2>10, <2>11, <2>12
<1>7. CASE RecvPacket
  <2> PICK i \in 1 .. Len(SocketRecvList) : \E h, c :
          /\ h = SocketRecvList[i] /\ c = owner[h]
          /\ c # NoConn /\ inbox[c] # <<>>
          /\ PacketRecvList' = Append(PacketRecvList,
                [ActionType |-> "PACKET", Socket |-> h, packet |-> Head(inbox[c])])
          /\ inbox' = [inbox EXCEPT ![c] = Tail(@)]
    BY <1>7 DEF RecvPacket
  <2>1. PICK h, c :
          /\ h = SocketRecvList[i] /\ c = owner[h]
          /\ c # NoConn /\ inbox[c] # <<>>
          /\ PacketRecvList' = Append(PacketRecvList,
                [ActionType |-> "PACKET", Socket |-> h, packet |-> Head(inbox[c])])
          /\ inbox' = [inbox EXCEPT ![c] = Tail(@)]
    OBVIOUS
  <2>2. PICK m : m = [ActionType |-> "PACKET", Socket |-> h, packet |-> Head(inbox[c])]
    OBVIOUS
  <2>3. m.ActionType = "PACKET" /\ m.Socket = h /\ m.packet = Head(inbox[c])
    BY <2>2
  <2>4. /\ UNCHANGED <<AcceptList, SocketRecvList, mdel, C2S_Number>>
        /\ mpc = "scan" /\ mpc' = "awakeRecv"
    BY <1>7 DEF RecvPacket, recvListVars
  <2>5. h \in Sock /\ h \in Range(SocketRecvList)
    BY <1>4, <2>1, ElementOfSeq DEF Range
  <2>6. c \in Conn /\ c = owner[h]
    BY <2>1, <2>5 DEF TypeOK, NetTypeOK
  <2>7. Due' = Append(Due, m) /\ Accepted' = Accepted
    BY <1>1, <2>1, <2>2, <2>4, DueLinked DEF Accepted
  <2>8. (\A s : Releases(Due', s) => Releases(Due, s)) /\ ReleasedOnce(Due')
    BY <1>3, <1>4, <2>3, <2>7, OnceAppend DEF Says, ListedOnce
  <2>9. OnePlace'
    BY <1>1, <1>3, <2>4, <2>7, <2>8, PlacesSame
  <2>10. ListedOnce'
    BY <1>3, <2>4, <2>7, <2>8 DEF ListedOnce
  <2>11. ASSUME RunFlag PROVE NumbersOK'
    <3>1. NumbersOK
      BY <2>11
    <3>2. ASSUME NEW d \in Conn, d # c, NEW b, Continues(b, d) PROVE Continues(b, d)'
      <4>1. inbox'[d] = inbox[d]
        BY <1>4, <2>1, <2>6, <3>2
      <4> QED
        BY <1>1, <2>4, <3>2, <4>1 DEF Continues
    <3>3. ~Waiting(c)
      <4>1. peer[c] # "new" /\ c \notin Range(backlog)
        BY <2>1, <2>5, <2>6 DEF WorldOK
      <4>2. ASSUME NEW s \in Sock, owner[s] = c PROVE s # asock /\ s \notin Range(Accepted)
        <5>1. s = h
          BY <2>1, <2>5, <2>6, <4>2 DEF WorldOK
        <5> QED
          BY <1>3, <2>4, <2>5, <5>1 DEF OnePlace, PlacedAt
      <4> QED
        BY <4>1, <4>2 DEF Waiting
    <3>4. \A d \in Conn : Waiting(d)' => Waiting(d)
      BY <1>1, <2>7 DEF Waiting
    <3>5. \A d \in Conn : Waiting(d)' => Continues(0, d)'
      BY <3>1, <3>2, <3>3, <3>4 DEF NumbersOK
    <3>6. ASSUME NEW s \in Sock, NEW b \in 0 .. WordSize, Ends(s, b)
          PROVE  \E e \in 0 .. WordSize : Follows(m, s, b, e) /\ Ends(s, e)'
      <4>1. CASE s = h
        <5>1. b # Absent /\ Continues(b, c)
          BY <2>5, <2>6, <3>6, <4>1 DEF Ends
        <5>2. Inc(b) \in 0 .. WordSize /\ Inc(b) # Absent
          BY <5>1, WordSizeAssumption, IncType DEF Word, Absent
        <5>3. /\ Head(inbox[c]).num = Inc(b) /\ inbox'[c] = Tail(inbox[c])
              /\ Consecutive(Inc(b), Tail(inbox[c]))
              /\ LastNumber(Inc(b), Tail(inbox[c])) = LastNumber(b, inbox[c])
          BY <1>4, <2>1, <2>6, <5>1, ConsecutiveTail DEF Continues
        <5>4. Continues(Inc(b), c)'
          BY <1>1, <2>4, <5>1, <5>3 DEF Continues, Inc
        <5>5. Follows(m, s, b, Inc(b))
          BY <2>3, <4>1, <5>1, <5>3 DEF Follows, Says
        <5>6. Ends(s, Inc(b))'
          BY <1>1, <2>4, <2>5, <2>6, <4>1, <5>2, <5>4 DEF Ends, Absent, Inc
        <5> QED
          BY <5>2, <5>5, <5>6
      <4>2. CASE s # h
        <5>1. Follows(m, s, b, b)
          BY <2>3, <4>2 DEF Follows, Says
        <5>2. ASSUME s \in Range(SocketRecvList) PROVE owner[s] \in Conn /\ owner[s] # c
          <6>1. owner[s] \in Conn
            BY <1>3, <2>4, <5>2, PolledOpen
          <6> QED
            BY <2>1, <2>5, <2>6, <4>2, <6>1 DEF WorldOK
        <5>3. Ends(s, b)'
          BY <1>1, <2>4, <3>2, <3>6, <5>2 DEF Ends
        <5> QED
          BY <5>1, <5>3
      <4> QED
        BY <4>1, <4>2
    <3>7. \A s \in Sock : Numbered(s)'
      BY <1>1, <2>7, <3>1, <3>6, NumbersLinked
    <3> QED
      BY <2>4, <3>5, <3>7 DEF NumbersOK
  <2> QED
    BY <1>1, <1>2, <2>9, <2>10, <2>11
<1>8. CASE RecvFail
  <2> PICK i \in 1 .. Len(SocketRecvList) :
          SocketRecvList' = RemoveAt(SocketRecvList, i) /\ mdel' = SocketRecvList[i]
    BY <1>8 DEF RecvFail
  <2>1. PICK h : /\ h = SocketRecvList[i] /\ mdel' = h
                 /\ SocketRecvList' = RemoveAt(SocketRecvList, i)
    OBVIOUS
  <2>2. /\ UNCHANGED <<AcceptList, PacketRecvList, inbox, C2S_Number>>
        /\ mpc = "scan" /\ mpc' = "notice"
    BY <1>8 DEF RecvFail, queueVars, netVars, clientVars
  <2>3. h \in Sock /\ h \in Range(SocketRecvList)
    BY <1>4, <2>1, ElementOfSeq DEF Range
  <2>4. IsInjective(SocketRecvList') /\ Range(SocketRecvList') = Range(SocketRecvList) \ {h}
    BY <1>3, <1>4, <2>1, RemoveFresh DEF ListedOnce
  <2>5. Accepted' = Accepted /\ Due' = Due
    BY <1>1, <2>2 DEF Accepted, Due
  <2>6. asock # h /\ h \notin Range(Accepted) /\ owner[h] # NoConn /\ ~Releases(Due, h)
    BY <1>3, <2>2, <2>3 DEF OnePlace, PlacedAt
  <2>7. OnePlace'
    <3>1. "dropped" \in Place /\ mpc # "done"
      BY <2>2 DEF Place
    <3> QED
      BY <1>1, <1>3, <2>1, <2>3, <2>4, <2>5, <2>6, <3>1, PlacesMoved
  <2>8. ListedOnce'
    BY <1>3, <2>4, <2>5 DEF ListedOnce
  <2>9. ASSUME RunFlag PROVE NumbersOK'
    <3>1. mdel = INVALID_SOCKET
      BY <2>2, <2>9 DEF HandlesOK, StagesOK
    <3>2. ContinuesKept /\ WaitingKept
      BY <1>1, <2>2, <2>5, ContinuesSame, SameWaiting
    <3>3. ASSUME NEW s \in Sock, NEW b \in 0 .. WordSize, Ends(s, b) PROVE Ends(s, b)'
      <4>1. s # INVALID_SOCKET
        BY ConnAssumption
      <4>2. s \in Range(SocketRecvList) => owner[s] \in Conn
        BY <1>3, <2>2, PolledOpen
      <4> QED
        BY <1>1, <2>1, <2>3, <2>4, <3>1, <3>2, <3>3, <4>1, <4>2 DEF Ends, ContinuesKept
    <3>4. ASSUME NEW s \in Sock, NEW b \in 0 .. WordSize, Known(s, b) PROVE Known(s, b)'
      BY <1>1, <3>4, KnownSame
    <3> QED
      BY <2>2, <2>5, <2>9, <3>2, <3>3, <3>4, NumbersSame
  <2> QED
    BY <1>1, <1>2, <2>7, <2>8, <2>9
<1>9. CASE NoticeFree
  <2>1. PICK h, m : /\ h = mdel /\ PacketRecvList' = Append(PacketRecvList, m)
                    /\ m.ActionType = "RELEASE" /\ m.Socket = h
    BY <1>9 DEF NoticeFree
  <2>2. /\ UNCHANGED <<AcceptList, SocketRecvList, inbox, C2S_Number>>
        /\ mdel' = INVALID_SOCKET /\ mpc = "notice" /\ mpc' = "awakeFree"
    BY <1>9 DEF NoticeFree, recvListVars, netVars, clientVars
  <2>3. h \in Sock
    BY <2>1, <2>2 DEF Named
  <2>4. Due' = Append(Due, m) /\ Accepted' = Accepted
    BY <1>1, <2>1, <2>2, DueLinked DEF Accepted
  <2>5. /\ asock # h /\ h \notin Range(Accepted) /\ owner[h] # NoConn /\ ~Releases(Due, h)
        /\ h \notin Range(SocketRecvList)
    BY <1>3, <2>1, <2>2, <2>3 DEF OnePlace, PlacedAt
  <2>6. /\ \A s : Releases(Due', s) => Releases(Due, s) \/ s = h
        /\ ReleasedOnce(Due')
    BY <1>3, <1>4, <2>1, <2>4, <2>5, OnceAppend DEF Says, ListedOnce
  <2>7. \A s \in Sock : mdel' # s
    BY <2>2, ConnAssumption
  <2>8. OnePlace'
    <3>1. "released" \in Place /\ mpc # "done"
      BY <2>2 DEF Place
    <3> QED
      BY <1>1, <1>3, <2>2, <2>3, <2>4, <2>5, <2>6, <2>7, <3>1, PlacesMoved
  <2>9. ListedOnce'
    BY <1>3, <2>2, <2>4, <2>6 DEF ListedOnce
  <2>10. ASSUME RunFlag PROVE NumbersOK'
    <3>1. NumbersOK
      BY <2>10
    <3>2. ContinuesKept /\ WaitingKept
      BY <1>1, <2>2, <2>4, ContinuesSame, SameWaiting
    <3>3. \A c \in Conn : Waiting(c)' => Continues(0, c)'
      BY <3>1, <3>2, WordSizeAssumption DEF NumbersOK, ContinuesKept, WaitingKept
    <3>4. ASSUME NEW s \in Sock, NEW b \in 0 .. WordSize, Ends(s, b)
          PROVE  \E c \in 0 .. WordSize : Follows(m, s, b, c) /\ Ends(s, c)'
      <4>1. CASE s = h
        <5>1. b # Absent
          BY <2>1, <3>4, <4>1 DEF Ends
        <5>2. Follows(m, s, b, Absent)
          BY <2>1, <4>1, <5>1 DEF Follows, Says
        <5>3. Absent \in 0 .. WordSize
          BY WordSizeAssumption DEF Absent
        <5>4. Ends(s, Absent)'
          BY <2>2, <2>5, <2>7, <4>1 DEF Ends, Absent
        <5> QED
          BY <5>2, <5>3, <5>4
      <4>2. CASE s # h
        <5>1. Follows(m, s, b, b)
          BY <2>1, <4>2 DEF Follows, Says
        <5>2. s \in Range(SocketRecvList) => owner[s] \in Conn
          BY <1>3, <2>2, PolledOpen
        <5>3. Ends(s, b)'
          BY <1>1, <2>1, <2>2, <2>7, <3>2, <3>4, <4>2, <5>2 DEF Ends, ContinuesKept
        <5> QED
          BY <5>1, <5>3
      <4> QED
        BY <4>1, <4>2
    <3>5. \A s \in Sock : Numbered(s)'
      BY <1>1, <2>4, <3>1, <3>4, NumbersLinked
    <3> QED
      BY <2>2, <3>3, <3>5 DEF NumbersOK
  <2> QED
    BY <1>1, <1>2, <2>8, <2>9, <2>10
<1> QED
  BY <1>5, <1>6, <1>7, <1>8, <1>9 DEF MainStep

\* Release() waits for the other threads.
Stopped == mpc = "done" => apc = "done"

LEMMA NextStopped == Stopped /\ [Next]_vars => Stopped'
<1> SUFFICES ASSUME Stopped, [Next]_vars PROVE Stopped'
  OBVIOUS
<1> USE DEF Stopped
<1>1. CASE MainStep
  BY <1>1 DEF MainStep, SelectBlocking, TimedMode, LeaveLoop, DrainAcceptList, DrainAwake,
     SelectTimed, SelectDone, AwakeAccept, RecvPacket, AwakeRecv, RecvFail, NoticeFree,
     AwakeFree, GameAwake, Release, acceptVars
<1>2. CASE AcceptStep
  BY <1>2 DEF AcceptStep, AcceptOuter, AcceptWait, AcceptReset, PollNothing, PollStopped,
     PollAccept, PollError, AcceptFull, AcceptLink, AcceptCheck, AcceptClearFlag, acceptFrame,
     mainVars
<1>3. CASE GameStep
  BY <1>3, GameStepFrame
<1>4. CASE Clients \/ MinutePasses \/ SendStep \/ UNCHANGED vars
  BY <1>4 DEF Clients, MinutePasses, SendStep, SendOuter, SendWait, SendReset, SendGet,
     SendCopy, SendOne, SendDone, sendFrame, vars, serverVars, mainVars, acceptVars
<1> QED
  BY <1>1, <1>2, <1>3, <1>4 DEF Next

LEMMA AcceptStepOrder ==
    ASSUME TypeOK, InHand, Stopped, OrderOK, Named', AcceptStep
    PROVE  OrderOK'
<1> USE DEF OrderOK
<1>0. mpc # "done"
  BY DEF Stopped, AcceptStep, AcceptOuter, AcceptWait, AcceptReset, PollNothing, PollStopped,
     PollAccept, PollError, AcceptFull, AcceptLink, AcceptCheck, AcceptClearFlag
<1>1. UNCHANGED <<RunFlag, ClientList, client, gpc, PacketRecvList, SocketRecvList, mpc, mdel>>
  BY DEF AcceptStep, AcceptOuter, AcceptWait, AcceptReset, PollNothing, PollStopped, PollAccept,
     PollError, AcceptFull, AcceptLink, AcceptCheck, AcceptClearFlag, acceptFrame, queueVars,
     clientListVars, mainVars, gameVars
<1>2. InTime' /\ Due' = Due
  BY <1>1 DEF InTime, Due
<1>3. ListedOnce /\ OnePlace /\ InTime
  OBVIOUS
<1>4. AcceptList \in Seq(Sock) /\ Accepted \in Seq(Sock) /\ backlog \in Seq(Conn)
  BY TailIn DEF Accepted, InHand, TypeOK, ServerTypeOK, NetTypeOK
<1>5. UNCHANGED AcceptList => Accepted' = Accepted
  BY <1>1 DEF Accepted
<1>6. ASSUME RunFlag, ContinuesKept, WaitingKept,
             \A s \in Sock : s \in Range(SocketRecvList) => owner'[s] = owner[s]
      PROVE  NumbersOK'
  <2>1. NumbersOK /\ mpc # "done" /\ mpc' # "done"
    BY <1>1, <1>6 DEF NumbersOK
  <2>2. ASSUME NEW s \in Sock, NEW a \in 0 .. WordSize
        PROVE  (Known(s, a) => Known(s, a)') /\ (Ends(s, a) => Ends(s, a)')
    BY <1>1, <1>3, <1>6, <2>1, EndsSame, KnownSame
  <2> QED
    BY <1>2, <1>6, <2>1, <2>2, NumbersSame
<1>7. CASE PollAccept
  <2>1. PICK h \in Sock : /\ owner[h] = NoConn /\ asock' = h
                          /\ owner' = [owner EXCEPT ![h] = Head(backlog)]
    BY <1>7 DEF PollAccept
  <2>2. /\ backlog # <<>> /\ backlog' = Tail(backlog)
        /\ UNCHANGED <<peer, inbox, C2S_Number, AcceptList>>
    BY <1>7 DEF PollAccept
  <2>3. owner'[h] = Head(backlog) /\ \A s \in Sock : s # h => owner'[s] = owner[s]
    BY <2>1 DEF TypeOK, NetTypeOK
  <2>4. Head(backlog) \in Conn /\ Head(backlog) \in Range(backlog)
        /\ Range(backlog') \subseteq Range(backlog)
    BY <1>4, <2>2, RangeTail, TailParts
  <2>5. /\ h \notin Range(Accepted) /\ h \notin Range(SocketRecvList) /\ mdel # h
          /\ ~Releases(Due, h)
    BY <1>0, <1>3, <2>1 DEF OnePlace, PlacedAt
  <2>6. OnePlace'
    <3>1. "accepting" \in Place /\ owner'[h] # NoConn
      BY <2>3, <2>4, ConnAssumption DEF Place
    <3> QED
      BY <1>0, <1>1, <1>2, <1>3, <1>5, <2>1, <2>2, <2>3, <2>5, <3>1, PlacesMoved
  <2>7. ListedOnce'
    BY <1>1, <1>2, <1>3, <1>5, <2>2 DEF ListedOnce
  <2>8. ContinuesKept
    BY <2>2, ContinuesSame
  <2>9. WaitingKept
    <3>1. ASSUME NEW c \in Conn, NEW s \in Sock, owner'[s] = c, s = asock' \/ s \in Range(Accepted')
          PROVE  Waiting(c)
      <4>1. CASE s = h
        BY <2>3, <2>4, <3>1, <4>1 DEF Waiting
      <4>2. CASE s # h
        BY <1>5, <2>1, <2>2, <2>3, <3>1, <4>2 DEF Waiting
      <4> QED
        BY <4>1, <4>2
    <3>2. ASSUME NEW c \in Conn, peer'[c] = "new" \/ c \in Range(backlog') PROVE Waiting(c)
      BY <2>2, <2>4, <3>2 DEF Waiting
    <3> QED
      BY <3>1, <3>2 DEF WaitingKept, Waiting
  <2>10. RunFlag => NumbersOK'
    BY <1>6, <2>3, <2>5, <2>8, <2>9
  <2> QED
    BY <1>1, <1>2, <2>6, <2>7, <2>10
<1>8. CASE AcceptFull
  <2>1. PICK h : h = asock
    OBVIOUS
  <2>2. /\ h \in Sock /\ asock' = INVALID_SOCKET /\ UNCHANGED <<AcceptList, backlog>>
        /\ owner' = [s \in Sock |-> IF s \in {h} THEN NoConn ELSE owner[s]]
    BY <1>8, <2>1 DEF AcceptFull, CloseHandles, InHand
  <2>3. PICK C : Disconnect(C)
    BY <1>8 DEF AcceptFull, CloseHandles
  <2>4. /\ h \notin Range(Accepted) /\ h \notin Range(SocketRecvList) /\ mdel # h
          /\ ~Releases(Due, h)
    BY <1>0, <1>3, <2>1, <2>2 DEF OnePlace, PlacedAt
  <2>5. \A s \in Sock : asock' # s
    BY <2>2, ConnAssumption
  <2>6. OnePlace'
    <3>1. "closed" \in Place
      BY DEF Place
    <3> QED
      BY <1>0, <1>1, <1>2, <1>3, <1>5, <2>2, <2>4, <2>5, <3>1, PlacesMoved
  <2>7. ListedOnce'
    BY <1>1, <1>2, <1>3, <1>5, <2>2 DEF ListedOnce
  <2>8. ContinuesKept /\ \A c \in Conn : peer'[c] = "new" => peer[c] = "new"
    BY <2>3, DisconnectContinues DEF Disconnect
  <2>9. WaitingKept
    BY <1>5, <2>2, <2>8, WaitingFewer
  <2>10. RunFlag => NumbersOK'
    BY <1>6, <2>2, <2>4, <2>8, <2>9
  <2> QED
    BY <1>1, <1>2, <2>6, <2>7, <2>10
<1>9. CASE AcceptLink
  <2>1. PICK h : h = asock
    OBVIOUS
  <2>2. /\ h \in Sock /\ asock' = INVALID_SOCKET /\ AcceptList' = Append(AcceptList, h)
        /\ UNCHANGED <<backlog, owner, peer, inbox, C2S_Number>>
    BY <1>9, <2>1 DEF AcceptLink, netVars, clientVars, InHand
  <2>3. Accepted' = Append(Accepted, h)
    BY <1>1, <1>4, <2>2, HeadTailAppend DEF Accepted, InHand
  <2>4. /\ h \notin Range(Accepted) /\ h \notin Range(SocketRecvList) /\ mdel # h
          /\ ~Releases(Due, h) /\ owner[h] # NoConn
    BY <1>0, <1>3, <2>1, <2>2 DEF OnePlace, PlacedAt
  <2>5. \A s \in Sock : asock' # s
    BY <2>2, ConnAssumption
  <2>6. IsInjective(Accepted') /\ Range(Accepted') = Range(Accepted) \union {h}
    BY <1>3, <1>4, <2>2, <2>3, <2>4, AppendFresh DEF ListedOnce
  <2>7. OnePlace'
    <3>1. "accepted" \in Place
      BY DEF Place
    <3> QED
      BY <1>0, <1>1, <1>2, <1>3, <2>2, <2>4, <2>5, <2>6, <3>1, PlacesMoved
  <2>8. ListedOnce'
    BY <1>1, <1>2, <1>3, <2>6 DEF ListedOnce
  <2>9. RunFlag => NumbersOK'
    <3>1. WaitingKept
      BY <2>1, <2>2, <2>6, WaitingFewer
    <3> QED
      BY <1>6, <2>2, <3>1, ContinuesSame
  <2> QED
    BY <1>1, <1>2, <2>7, <2>8, <2>9
<1>10. CASE ~(PollAccept \/ AcceptFull \/ AcceptLink)
  <2>1. UNCHANGED <<AcceptList, asock, owner>>
    BY <1>10 DEF AcceptStep, AcceptOuter, AcceptWait, AcceptReset, PollNothing, PollStopped,
       PollError, AcceptCheck, AcceptClearFlag, netVars
  <2>2. /\ UNCHANGED <<peer, C2S_Number>>
        /\ \/ UNCHANGED <<backlog, inbox>>
           \/ /\ backlog # <<>> /\ backlog' = Tail(backlog)
              /\ peer[Head(backlog)] = "closed"
              /\ inbox' = [inbox EXCEPT ![Head(backlog)] = <<>>]
    BY <1>10 DEF AcceptStep, AcceptOuter, AcceptWait, AcceptReset, PollNothing, PollStopped,
       PollError, AcceptCheck, AcceptClearFlag, netVars, clientVars
  <2>3. Range(backlog') \subseteq Range(backlog)
    BY <1>4, <2>2, RangeTail
  <2>4. WaitingKept
    BY <1>5, <2>1, <2>2, <2>3, WaitingFewer
  <2>5. ContinuesKept
    <3>1. CASE UNCHANGED inbox
      BY <2>2, <3>1, ContinuesSame
    <3>2. CASE peer[Head(backlog)] = "closed" /\ inbox' = [inbox EXCEPT ![Head(backlog)] = <<>>]
      <4>1. ASSUME NEW a \in 0 .. WordSize, NEW c \in Conn, Continues(a, c)
            PROVE  Continues(a, c)'
        <5>1. CASE c = Head(backlog)
          <6>1. inbox'[c] = <<>> /\ peer'[c] = "closed"
            BY <2>2, <3>2, <5>1 DEF TypeOK, NetTypeOK
          <6>2. Len(inbox'[c]) = 0 /\ 1 .. 0 = {}
            BY <6>1
          <6> QED
            BY <6>1, <6>2 DEF Continues, Consecutive
        <5>2. CASE c # Head(backlog)
          <6>1. inbox'[c] = inbox[c]
            BY <3>2, <5>2 DEF TypeOK, NetTypeOK
          <6> QED
            BY <2>2, <4>1, <6>1 DEF Continues
        <5> QED
          BY <5>1, <5>2
      <4> QED
        BY <4>1 DEF ContinuesKept
    <3> QED
      BY <2>2, <3>1, <3>2
  <2> QED
    BY <1>1, <1>2, <1>3, <1>5, <2>1, <2>4, <2>5, ElsewhereOrder DEF InTime
<1> QED
  BY <1>7, <1>8, <1>9, <1>10

-----------------------------------------------------------------------------
(* The gameplay thread.                                                      *)

\* Whatever notice or packet it takes next, its client node says what it should.
LEMMA HeadKnown ==
    ASSUME TypeOK, InHand, OrderOK, gpc = "get", PacketRecvList # <<>>
    PROVE  /\ node.Socket \in Sock
           /\ node.ActionType # "CREATE" =>
                  /\ clientNode # NoNode /\ clientNode \in Range(ClientList)
                  /\ client[clientNode].Socket = node.Socket
           /\ node.ActionType = "PACKET" => node.packet.num = Inc(client[clientNode].C2S)
<1>1. Named /\ NumbersOK
  BY DEF OrderOK, InHand
<1>2. Due = PacketRecvList /\ Due # <<>> /\ Head(Due) = node
  BY DEF Due, node
<1>3. Due \in Seq(SockInfo)
  BY <1>1, DueType
<1>4. node \in SockInfo
  BY <1>2, <1>3, TailParts
<1>5. PICK h : h = node.Socket
  OBVIOUS
<1>6. h \in Sock /\ node.ActionType \in {"CREATE", "RELEASE", "PACKET"}
  BY <1>4, <1>5 DEF SockInfo, RecvPacketInfo
<1>7. PICK a \in 0 .. WordSize, b \in 0 .. WordSize : Told(Due, h, a, b) /\ Known(h, a)
  BY <1>1, <1>6 DEF NumbersOK, Numbered
<1>8. PICK c \in 0 .. WordSize : Follows(node, h, a, c)
  BY <1>2, <1>3, <1>7, ToldTail
<1>9. ClientList \in Seq(Node)
  BY DEF TypeOK, ServerTypeOK
<1>10. ASSUME node.ActionType # "CREATE"
       PROVE  /\ clientNode # NoNode /\ clientNode \in Range(ClientList)
              /\ client[clientNode].Socket = node.Socket
              /\ client[clientNode].C2S = a
  <2>1. a # Absent
    BY <1>5, <1>6, <1>8, <1>10 DEF Follows, Says
  <2>2. \E n \in Range(ClientList) : client[n].Socket = node.Socket
    BY <1>5, <1>7, <2>1 DEF Known
  <2>3. /\ clientNode # NoNode /\ clientNode \in Range(ClientList)
        /\ client[clientNode].Socket = node.Socket
    BY <1>9, <2>2, FirstWithFound DEF clientNode, GetSocketClientNode
  <2> QED
    BY <1>5, <1>7, <2>3 DEF Known
<1>11. node.ActionType = "PACKET" => node.packet.num = Inc(a)
  BY <1>5, <1>8 DEF Follows, Says
<1> QED
  BY <1>5, <1>6, <1>10, <1>11

\* Steps that close no handle.
LEMMA GameElsewhereOrder ==
    ASSUME TypeOK, InHand, OrderOK, Named',
           GameOuter \/ GameWait \/ GameReset \/ GameEmpty \/ LinkSendNode \/ FreeClientNode
             \/ ScanSendNode \/ AwakeSend \/ CloseTimedOut \/ CheckClientAlive
             \/ ExitCloseListen \/ ExitAwakeAccept \/ ExitAwake
    PROVE  OrderOK'
<1>1. UNCHANGED <<AcceptList, SocketRecvList, mpc, mdel, apc, asock>>
  BY GameStepFrame DEF GameStep
<1>2. Accepted' = Accepted
  BY <1>1 DEF Accepted
<1>3. Due' = Due
  BY DEF Due, GameOuter, GameWait, GameReset, GameEmpty, LinkSendNode, FreeClientNode,
     ScanSendNode, AwakeSend, CloseTimedOut, CheckClientAlive, ExitCloseListen, ExitAwakeAccept, ExitAwake,
     UnlinkHead, queueVars
<1>4. UNCHANGED <<RunFlag, ClientList>>
  BY DEF GameOuter, GameWait, GameReset, GameEmpty, LinkSendNode, FreeClientNode,
     ScanSendNode, AwakeSend, CloseTimedOut, CheckClientAlive, ExitCloseListen, ExitAwakeAccept, ExitAwake,
     flagVars, clientListVars
<1>5. InTime /\ client \in [Node -> SocketClient] /\ owner \in [Sock -> Conn \union {NoConn}]
      /\ Range(ClientList) \subseteq Node
  BY RangeIn DEF OrderOK, TypeOK, ServerTypeOK, NetTypeOK
<1>6. ASSUME UNCHANGED <<client, owner>>, ContinuesKept, WaitingKept
      PROVE  OrderOK'
  BY <1>1, <1>2, <1>3, <1>4, <1>5, <1>6, ElsewhereOrder, SMTT(40) DEF InTime
<1>7. CASE CheckClientAlive
  <2>1. /\ UNCHANGED <<owner, backlog, peer, inbox, C2S_Number>>
        /\ client' = [n \in Node |-> IF n \in Range(ClientList)
                                      THEN [client[n] EXCEPT !.timer = "on"] ELSE client[n]]
    BY <1>7 DEF CheckClientAlive, netVars, clientVars
  <2>2. ContinuesKept /\ WaitingKept
    BY <1>1, <1>2, <2>1, ContinuesSame, SameWaiting
  <2>3. ASSUME NEW n \in Node
        PROVE  /\ client'[n].Socket = client[n].Socket /\ client'[n].C2S = client[n].C2S
               /\ client'[n].timer # "expired" /\ ~client'[n].AliveTimeoutFlag
    <3>1. client[n] \in SocketClient /\ client[n].timer # "expired" /\ ~client[n].AliveTimeoutFlag
      BY <1>5 DEF InTime
    <3>2. CASE n \notin Range(ClientList)
      BY <2>1, <3>1, <3>2
    <3>3. CASE n \in Range(ClientList)
      <4>1. client'[n] = [client[n] EXCEPT !.timer = "on"]
        BY <2>1, <3>3
      <4> QED
        BY <3>1, <4>1 DEF SocketClient
    <3> QED
      BY <3>2, <3>3
  <2> QED
    BY <1>1, <1>2, <1>3, <1>4, <2>1, <2>2, <2>3, ElsewhereOrder
<1>8. CASE ExitCloseListen
  <2>1. UNCHANGED <<client, owner>> /\ Disconnect(Range(backlog)) /\ backlog' = <<>>
    BY <1>8 DEF ExitCloseListen, CloseListenSocket, clientListVars
  <2>2. ContinuesKept /\ \A c \in Conn : peer'[c] = "new" => peer[c] = "new"
    BY <2>1, DisconnectContinues DEF Disconnect
  <2>3. Range(backlog') = {}
    BY <2>1 DEF Range
  <2>4. WaitingKept
    BY <1>1, <1>2, <2>1, <2>2, <2>3, WaitingFewer
  <2> QED
    BY <1>6, <2>1, <2>2, <2>4
<1>9. ~CloseTimedOut
  BY <1>5, CloseTimedOutDoes DEF InTime
<1>10. CASE ~(CheckClientAlive \/ ExitCloseListen)
  <2>1. UNCHANGED <<client, owner, backlog, peer, inbox, C2S_Number>>
    BY <1>9, <1>10 DEF GameOuter, GameWait, GameReset, GameEmpty, LinkSendNode, FreeClientNode,
       ScanSendNode, AwakeSend, ExitAwakeAccept, ExitAwake, netVars, clientVars, clientListVars
  <2> QED
    BY <1>1, <1>2, <1>6, <2>1, ContinuesSame, SameWaiting
<1> QED
  BY <1>7, <1>8, <1>10

\* Steps after which the notice or packet at the head has taken effect, and
\* that close no handle.
LEMMA TakenOrder ==
    ASSUME TypeOK, InHand, OrderOK, Named', RunFlag, Due # <<>>, Due' = Tail(Due),
           UNCHANGED <<AcceptList, SocketRecvList, mpc, mdel, asock, owner>>,
           UNCHANGED <<backlog, peer, inbox, C2S_Number>>,
           InTime',
           RunFlag' => \A s \in Sock : \A a, c \in 0 .. WordSize :
               Known(s, a) /\ Follows(Head(Due), s, a, c) => Known(s, c)'
    PROVE  OrderOK'
<1>1. Accepted' = Accepted
  BY DEF Accepted
<1>2. OnePlace /\ ListedOnce /\ NumbersOK /\ Named /\ mpc # "done"
  BY DEF OrderOK, NumbersOK
<1>3. Due \in Seq(SockInfo)
  BY <1>2, DueType
<1>4. ReleasedOnce(Due') /\ \A s : Releases(Due', s) => Releases(Due, s)
  BY <1>2, <1>3, OnceTail DEF ListedOnce
<1>5. OnePlace'
  BY <1>1, <1>2, <1>4, PlacesSame
<1>6. ListedOnce'
  BY <1>1, <1>2, <1>4 DEF ListedOnce
<1>7. ContinuesKept /\ WaitingKept
  BY <1>1, ContinuesSame, SameWaiting
<1>8. \A s \in Sock : \A b \in 0 .. WordSize : Ends(s, b) => Ends(s, b)'
  BY <1>2, <1>7, EndsSame
<1>9. RunFlag' => NumbersOK'
  BY <1>2, <1>7, <1>8, NumbersTaken
<1> QED
  BY <1>5, <1>6, <1>9 DEF OrderOK

LEMMA CreateClientNodeOrder ==
    ASSUME TypeOK, InHand, HandlesOK, OrderOK, Named', CreateClientNode
    PROVE  OrderOK'
<1> DEFINE new == Head(clientFree)
<1>1. /\ gpc = "get" /\ gpc' = "linkSend" /\ PacketRecvList # <<>> /\ clientFree # <<>>
      /\ node.ActionType = "CREATE"
      /\ ClientList' = Append(ClientList, new)
      /\ client' = [client EXCEPT ![new] = [FreeClient EXCEPT !.Socket = node.Socket]]
      /\ UNCHANGED <<owner, backlog, peer, inbox, C2S_Number, PacketRecvList, RunFlag>>
  BY DEF CreateClientNode, netVars, clientVars, queueVars, flagVars
<1>2. UNCHANGED <<AcceptList, SocketRecvList, mpc, mdel, asock>>
  BY GameStepFrame DEF GameStep
<1>3. RunFlag /\ ClientPoolOK /\ InTime
  BY <1>1 DEF InHand, HandlesOK, OrderOK
<1>4. /\ ClientList \in Seq(Node) /\ clientFree \in Seq(Node) /\ Range(ClientList) \subseteq Node
      /\ client \in [Node -> SocketClient]
  BY RangeIn DEF TypeOK, ServerTypeOK
<1>5. new \in Node /\ new \notin Range(ClientList)
  BY <1>1, <1>3, <1>4, PopFresh, HeadTailProperties DEF ClientPoolOK
<1>6. Range(ClientList') = Range(ClientList) \union {new}
  BY <1>1, <1>3, <1>4, <1>5, AppendFresh DEF ClientPoolOK
<1> HIDE DEF new
<1>7. Due # <<>> /\ Due' = Tail(Due) /\ Head(Due) = node
  BY <1>1 DEF node, Due
<1>8. \A n \in Node : n # new => client'[n] = client[n]
  BY <1>1, <1>4
<1>9. /\ client'[new].Socket = node.Socket /\ client'[new].C2S = 0
      /\ client'[new].timer = "off" /\ client'[new].AliveTimeoutFlag = FALSE
  BY <1>1, <1>4, <1>5 DEF FreeClient
<1>10. InTime'
  BY <1>3, <1>8, <1>9 DEF InTime
<1>11. ASSUME NEW s \in Sock, NEW a \in 0 .. WordSize, NEW c \in 0 .. WordSize,
              Known(s, a), Follows(node, s, a, c)
       PROVE  Known(s, c)'
  <2>1. CASE s = node.Socket
    <3>1. a = Absent /\ c = 0
      BY <1>1, <1>11, <2>1 DEF Follows, Says
    <3>2. \A n \in Range(ClientList) : client[n].Socket # s
      <4>1. ASSUME NEW n \in Range(ClientList), client[n].Socket = s PROVE FALSE
        <5>1. client[n].C2S = WordSize
          BY <1>11, <3>1, <4>1 DEF Known, Absent
        <5>2. client[n].C2S \in Word
          BY <1>4 DEF SocketClient
        <5> QED
          BY <5>1, <5>2, WordSizeAssumption DEF Word
      <4> QED
        BY <4>1
    <3> QED
      BY <1>4, <1>5, <1>6, <1>8, <1>9, <2>1, <3>1, <3>2 DEF Known
  <2>2. CASE s # node.Socket
    <3>1. c = a
      BY <1>11, <2>2 DEF Follows
    <3> QED
      BY <1>4, <1>5, <1>6, <1>8, <1>9, <1>11, <2>2, <3>1 DEF Known
  <2> QED
    BY <2>1, <2>2
<1> QED
  BY <1>1, <1>2, <1>3, <1>7, <1>10, <1>11, TakenOrder

LEMMA PacketInOrderOrder ==
    ASSUME TypeOK, InHand, OrderOK, Named', PacketInOrder
    PROVE  OrderOK'
<1>1. /\ gpc = "get" /\ gpc' \in {"alive", "awakeSend"} /\ PacketRecvList # <<>>
      /\ node.ActionType = "PACKET"
      /\ client' = [client EXCEPT ![clientNode].C2S = Inc(@), ![clientNode].timer = "off"]
      /\ UNCHANGED <<owner, backlog, peer, inbox, C2S_Number, PacketRecvList, RunFlag, ClientList>>
  BY DEF PacketInOrder, IsPacket, netVars, clientVars, flagVars
<1>2. UNCHANGED <<AcceptList, SocketRecvList, mpc, mdel, asock>>
  BY GameStepFrame DEF GameStep
<1>3. RunFlag /\ InTime
  BY <1>1 DEF InHand, OrderOK
<1>4. client \in [Node -> SocketClient] /\ Range(ClientList) \subseteq Node
  BY RangeIn DEF TypeOK, ServerTypeOK
<1>5. clientNode \in Range(ClientList) /\ client[clientNode].Socket = node.Socket
  BY <1>1, HeadKnown
<1>6. clientNode \in Node /\ client[clientNode] \in SocketClient
  BY <1>4, <1>5
<1>7. PICK n0 \in Node : n0 = clientNode
  BY <1>6
<1>8. /\ \A n \in Node : n # n0 => client'[n] = client[n]
      /\ client'[n0].Socket = client[n0].Socket
      /\ client'[n0].C2S = Inc(client[n0].C2S)
      /\ client'[n0].timer = "off"
      /\ client'[n0].AliveTimeoutFlag = client[n0].AliveTimeoutFlag
  BY <1>1, <1>4, <1>6, <1>7 DEF SocketClient
<1>9. Due # <<>> /\ Due' = Tail(Due) /\ Head(Due) = node
  BY <1>1 DEF node, Due
<1>10. InTime'
  BY <1>3, <1>8 DEF InTime
<1>11. ASSUME NEW s \in Sock, NEW a \in 0 .. WordSize, NEW c \in 0 .. WordSize,
              Known(s, a), Follows(node, s, a, c)
       PROVE  Known(s, c)'
  <2>1. CASE s = node.Socket
    <3>1. c = Inc(a)
      BY <1>1, <1>11, <2>1 DEF Follows, Says
    <3>2. \A n \in Range(ClientList) : client[n].Socket = s => n = n0 /\ client[n].C2S = a
      BY <1>5, <1>7, <1>11, <2>1 DEF Known
    <3>3. client'[n0].Socket = s /\ client'[n0].C2S = c /\ n0 \in Range(ClientList)
      BY <1>5, <1>7, <1>8, <2>1, <3>1, <3>2
    <3> QED
      BY <1>1, <1>4, <1>8, <3>2, <3>3 DEF Known
  <2>2. CASE s # node.Socket
    <3>1. c = a
      BY <1>11, <2>2 DEF Follows
    <3>2. client[n0].Socket # s /\ client'[n0].Socket # s
      BY <1>5, <1>7, <1>8, <2>2
    <3>3. \A n \in Range(ClientList) :
             /\ client'[n].Socket = s <=> client[n].Socket = s
             /\ client[n].Socket = s => client'[n].C2S = client[n].C2S
      BY <1>4, <1>8, <3>2
    <3>4. Range(ClientList') = Range(ClientList)
      BY <1>1
    <3> QED
      BY <1>11, <3>1, <3>3, <3>4 DEF Known
  <2> QED
    BY <2>1, <2>2
<1> QED
  BY <1>1, <1>2, <1>3, <1>9, <1>10, <1>11, TakenOrder

LEMMA ServerExitOrder ==
    ASSUME TypeOK, InHand, OrderOK, Named', ServerExit
    PROVE  OrderOK'
<1>1. /\ gpc = "get" /\ gpc' = "exitClose" /\ PacketRecvList # <<>>
      /\ PacketRecvList' = Tail(PacketRecvList) /\ ~RunFlag'
      /\ UNCHANGED <<owner, backlog, peer, inbox, C2S_Number, client>>
  BY DEF ServerExit, netVars, clientVars, clientListVars
<1>2. UNCHANGED <<AcceptList, SocketRecvList, mpc, mdel, asock>>
  BY GameStepFrame DEF GameStep
<1>3. RunFlag /\ InTime'
  BY <1>1 DEF InHand, OrderOK, InTime
<1>4. Due # <<>> /\ Due' = Tail(Due)
  BY <1>1 DEF Due
<1> QED
  BY <1>1, <1>2, <1>3, <1>4, TakenOrder

\* D_CHECK(del_client_node) found the dropped client's node: its player goes,
\* and its handle is closed.
LEMMA FreePlayerOrder ==
    ASSUME TypeOK, InHand, HandlesOK, OrderOK, TypeOK', Named', FreePlayerAndClose
    PROVE  OrderOK'
<1>1. /\ gpc = "free" /\ gpc' = "unlinkSend"
      /\ UNCHANGED <<RunFlag, PacketRecvList, ClientList, gclient>>
  BY DEF FreePlayerAndClose, flagVars, queueVars
<1>2. UNCHANGED <<AcceptList, SocketRecvList, mpc, mdel, asock>>
  BY GameStepFrame DEF GameStep
<1>3. RunFlag /\ InTime /\ OnePlace /\ ListedOnce /\ NumbersOK /\ Named
  BY <1>1 DEF InHand, OrderOK
<1>4. /\ node.ActionType = "RELEASE" /\ gclient \in Range(ClientList)
      /\ client[gclient].Socket = node.Socket /\ PacketRecvList # <<>>
  BY <1>1, <1>3 DEF InHand, HandlesOK, StagesOK
<1>5. /\ Range(ClientList) \subseteq Node /\ client \in [Node -> SocketClient]
      /\ gclient \in Node
  BY <1>4, RangeIn DEF TypeOK, ServerTypeOK
<1>6. PICK h : h = node.Socket
  OBVIOUS
<1>7. Due # <<>> /\ Due' = Tail(Due) /\ Head(Due) = node /\ Accepted' = Accepted
  BY <1>1, <1>2, <1>4 DEF node, Due, Accepted
<1>8. Due \in Seq(SockInfo)
  BY <1>3, DueType
<1>9. h \in Sock /\ Says(node, "RELEASE", h)
  BY <1>4, <1>6, <1>7, <1>8, TailParts DEF SockInfo, Says
<1>10. /\ CloseHandles({h})
       /\ client' = [client EXCEPT ![gclient].Socket = INVALID_SOCKET]
  BY <1>3, <1>4, <1>5, <1>6 DEF FreePlayerAndClose, InTime
<1>11. /\ owner' = [s \in Sock |-> IF s \in {h} THEN NoConn ELSE owner[s]]
       /\ UNCHANGED backlog
  BY <1>10 DEF CloseHandles
<1>12. PICK C : Disconnect(C)
  BY <1>10 DEF CloseHandles
<1>13. /\ \A n \in Node : n # gclient => client'[n] = client[n]
       /\ client'[gclient].Socket = INVALID_SOCKET
       /\ client'[gclient].timer = client[gclient].timer
       /\ client'[gclient].AliveTimeoutFlag = client[gclient].AliveTimeoutFlag
  BY <1>5, <1>10 DEF SocketClient
<1>14. InTime'
  BY <1>3, <1>13 DEF InTime
<1>15. /\ ReleasedOnce(Due') /\ ~Releases(Due', h)
       /\ \A s : Releases(Due', s) => Releases(Due, s)
  BY <1>3, <1>7, <1>8, <1>9, OnceTail DEF ListedOnce
<1>16. ListedOnce'
  BY <1>2, <1>3, <1>7, <1>15 DEF ListedOnce
<1>17. mpc # "done" /\ mpc' # "done"
  BY <1>2, <1>3 DEF NumbersOK
<1>18. Releases(Due, h)
  BY <1>7, <1>8, <1>9, TailParts DEF Releases
<1>19. /\ h \notin Range(Accepted) /\ h \notin Range(SocketRecvList) /\ mdel # h /\ asock # h
  BY <1>3, <1>9, <1>17, <1>18 DEF OnePlace, PlacedAt
<1>20. OnePlace'
  <2>1. "closed" \in Place
    BY DEF Place
  <2> QED
    BY <1>2, <1>3, <1>7, <1>9, <1>11, <1>15, <1>17, <1>19, <2>1, PlacesMoved
<1>21. ContinuesKept /\ \A c \in Conn : peer'[c] = "new" => peer[c] = "new"
  BY <1>12, DisconnectContinues DEF Disconnect
<1>22. WaitingKept
  BY <1>2, <1>7, <1>11, <1>21, WaitingFewer
<1>23. \A s \in Sock : \A b \in 0 .. WordSize : Ends(s, b) => Ends(s, b)'
  <2>1. \A s \in Sock : s \in Range(SocketRecvList) => owner'[s] = owner[s]
    BY <1>11, <1>19
  <2> QED
    BY <1>2, <1>3, <1>17, <1>21, <2>1, EndsSame
<1>24. ASSUME NEW s \in Sock, NEW a \in 0 .. WordSize, NEW c \in 0 .. WordSize,
              Known(s, a), Follows(node, s, a, c)
       PROVE  Known(s, c)'
  <2>1. Range(ClientList') = Range(ClientList) /\ s # INVALID_SOCKET
    BY <1>1, ConnAssumption
  <2>2. CASE s = h
    <3>1. c = Absent
      BY <1>9, <1>24, <2>2 DEF Follows
    <3>2. \A n \in Range(ClientList) : client[n].Socket = s => n = gclient
      BY <1>4, <1>6, <1>24, <2>2 DEF Known
    <3>3. \A n \in Range(ClientList) : client'[n].Socket # s
      BY <1>5, <1>13, <2>1, <3>2
    <3> QED
      BY <2>1, <3>1, <3>3 DEF Known
  <2>3. CASE s # h
    <3>1. c = a
      BY <1>6, <1>24, <2>3 DEF Follows
    <3>2. \A n \in Range(ClientList) :
             /\ client'[n].Socket = s <=> client[n].Socket = s
             /\ client[n].Socket = s => client'[n].C2S = client[n].C2S
      BY <1>4, <1>5, <1>6, <1>13, <2>1, <2>3
    <3> QED
      BY <1>24, <2>1, <3>1, <3>2 DEF Known
  <2> QED
    BY <2>2, <2>3
<1>25. NumbersOK'
  BY <1>3, <1>7, <1>17, <1>21, <1>22, <1>23, <1>24, NumbersTaken
<1> QED
  BY <1>14, <1>16, <1>20, <1>25 DEF OrderOK

LEMMA UnlinkClientOrder ==
    ASSUME TypeOK, InHand, HandlesOK, OrderOK, Named', UnlinkClient
    PROVE  OrderOK'
<1>1. /\ gpc = "unlinkSend" /\ gpc' = "get" /\ PacketRecvList' = Tail(PacketRecvList)
      /\ ClientList' = Unlink(ClientList, gclient)
      /\ client' = [client EXCEPT ![gclient] = FreeClient]
      /\ UNCHANGED <<RunFlag, owner, backlog, peer, inbox, C2S_Number>>
  BY DEF UnlinkClient, UnlinkHead, flagVars, netVars, clientVars
<1>2. UNCHANGED <<AcceptList, SocketRecvList, mpc, mdel, asock>>
  BY GameStepFrame DEF GameStep
<1>3. RunFlag /\ InTime /\ OnePlace /\ ListedOnce /\ NumbersOK /\ mpc # "done"
  BY <1>1 DEF InHand, OrderOK, NumbersOK
<1>4. StagesOK /\ ClientPoolOK
  BY <1>3 DEF HandlesOK
<1>5. /\ ClientList \in Seq(Node) /\ Range(ClientList) \subseteq Node
      /\ client \in [Node -> SocketClient]
  BY RangeIn DEF TypeOK, ServerTypeOK
<1>6. gclient \in Range(ClientList) /\ gclient \in Node
  BY <1>1, <1>4, <1>5 DEF StagesOK
<1>7. client[gclient].Socket = INVALID_SOCKET
  BY <1>1, <1>3, <1>4, <1>6 DEF StagesOK, InTime
<1>8. Range(ClientList') = Range(ClientList) \ {gclient}
  BY <1>1, <1>4, <1>5, <1>6, UnlinkLinked DEF ClientPoolOK
<1>9. \A n \in Node : n # gclient => client'[n] = client[n]
  BY <1>1, <1>5
<1>10. client'[gclient] = FreeClient
  BY <1>1, <1>5, <1>6
<1>11. InTime'
  BY <1>3, <1>9, <1>10 DEF InTime, FreeClient
<1>12. Due' = Due /\ Accepted' = Accepted
  BY <1>1, <1>2 DEF Due, Accepted
<1>13. OnePlace' /\ ListedOnce'
  BY <1>1, <1>2, <1>3, <1>12, PlacesSame DEF ListedOnce
<1>14. ContinuesKept /\ WaitingKept
  BY <1>1, <1>2, <1>12, ContinuesSame, SameWaiting
<1>15. ASSUME NEW s \in Sock, NEW a \in 0 .. WordSize, Known(s, a) PROVE Known(s, a)'
  <2>1. s # INVALID_SOCKET
    BY ConnAssumption
  <2>2. \A n \in Range(ClientList) : client[n].Socket = s => n \in Range(ClientList')
    BY <1>7, <1>8, <2>1
  <2>3. \A n \in Range(ClientList') : n \in Range(ClientList) /\ client'[n] = client[n]
    BY <1>5, <1>8, <1>9
  <2> QED
    BY <1>15, <2>2, <2>3 DEF Known
<1>16. \A s \in Sock : \A a \in 0 .. WordSize : Ends(s, a) => Ends(s, a)'
  BY <1>1, <1>2, <1>3, <1>14, EndsSame
<1>17. NumbersOK'
  BY <1>2, <1>3, <1>12, <1>14, <1>15, <1>16, NumbersSame
<1> QED
  BY <1>11, <1>13, <1>17, NextNamed DEF OrderOK

LEMMA GameStepOrder ==
    ASSUME TypeOK, InHand, TypeOK', HandlesOK, OrderOK, Named', GameStep
    PROVE  OrderOK'
<1>1. ~NoClientNode /\ ~PacketOutOfOrder
  BY HeadKnown DEF NoClientNode, PacketOutOfOrder, IsPacket, InOrder
<1>2. CASE CreateClientNode
  BY <1>2, CreateClientNodeOrder
<1>3. CASE PacketInOrder
  BY <1>3, PacketInOrderOrder
<1>4. CASE ServerExit
  BY <1>4, ServerExitOrder
<1>5. CASE FreePlayerAndClose
  BY <1>5, FreePlayerOrder
<1>6. CASE UnlinkClient
  BY <1>6, UnlinkClientOrder
<1>7. CASE GameOuter \/ GameWait \/ GameReset \/ GameEmpty \/ LinkSendNode \/ FreeClientNode
             \/ ScanSendNode \/ AwakeSend \/ CloseTimedOut \/ CheckClientAlive
             \/ ExitCloseListen \/ ExitAwakeAccept \/ ExitAwake
  BY <1>7, GameElsewhereOrder
<1> QED
  BY <1>1, <1>2, <1>3, <1>4, <1>5, <1>6, <1>7 DEF GameStep

-----------------------------------------------------------------------------
(* All steps, and the beginning.                                             *)

LEMMA SendStepOrder ==
    ASSUME TypeOK, OrderOK, Named', SendStep
    PROVE  OrderOK'
<1>1. UNCHANGED <<RunFlag, AcceptList, SocketRecvList, PacketRecvList, mpc, mdel, asock, gpc,
                  owner, ClientList>>
  BY DEF SendStep, SendOuter, SendWait, SendReset, SendGet, SendCopy, SendOne, SendDone,
     sendFrame, flagVars, recvListVars, mainVars, acceptVars, gameVars
<1>2. UNCHANGED <<backlog, peer, inbox, C2S_Number>>
  BY DEF SendStep, SendOuter, SendWait, SendReset, SendGet, SendCopy, SendOne, SendDone,
     sendFrame
<1>3. \/ UNCHANGED client
      \/ \E n \in Node : \E w : client' = [client EXCEPT ![n].S2C = w]
  BY SendStepCounts
<1>4. client \in [Node -> SocketClient] /\ InTime
  BY DEF TypeOK, ServerTypeOK, OrderOK
<1>5. \A n \in Node : /\ client'[n].Socket = client[n].Socket
                      /\ client'[n].C2S = client[n].C2S
                      /\ client'[n].timer = client[n].timer
                      /\ client'[n].AliveTimeoutFlag = client[n].AliveTimeoutFlag
  BY <1>3, <1>4 DEF SocketClient
<1>6. Accepted' = Accepted /\ Due' = Due
  BY <1>1 DEF Accepted, Due
<1>7. ContinuesKept /\ WaitingKept
  BY <1>1, <1>2, <1>6, ContinuesSame, SameWaiting
<1> QED
  BY <1>1, <1>4, <1>5, <1>6, <1>7, ElsewhereOrder DEF InTime

LEMMA NextOrder ==
    ASSUME ClientMay = {}, TypeOK, InHand, TypeOK', WorldOK, HandlesOK, Stopped, OrderOK,
           [Next]_vars
    PROVE  OrderOK'
<1>1. Named'
  BY NextNamed DEF OrderOK
<1>2. ~MinutePasses
  BY DEF MinutePasses
<1>3. CASE Clients \/ UNCHANGED vars
  <2>1. UNCHANGED <<serverVars, owner>>
    BY <1>3 DEF Clients, vars, netVars, ClientStep, ClientConnect, ClientSend, ClientClose
  <2>2. UNCHANGED <<RunFlag, AcceptList, SocketRecvList, PacketRecvList, mpc, mdel, asock, gpc,
                    ClientList, client>>
    BY <2>1 DEF serverVars, flagVars, recvListVars, queueVars, mainVars, acceptVars, gameVars,
       clientListVars
  <2>3. Accepted' = Accepted /\ Due' = Due /\ InTime
    BY <2>2 DEF Accepted, Due, OrderOK
  <2>4. ContinuesKept /\ WaitingKept
    <3>1. CASE Clients
      BY <3>1, ClientsContinue, ClientsWaiting DEF Clients
    <3>2. CASE UNCHANGED vars
      <4>1. UNCHANGED <<backlog, peer, inbox, C2S_Number>>
        BY <3>2 DEF vars, netVars, clientVars
      <4> QED
        BY <2>1, <2>2, <2>3, <4>1, ContinuesSame, SameWaiting
    <3> QED
      BY <1>3, <3>1, <3>2
  <2> QED
    BY <1>1, <2>1, <2>2, <2>3, <2>4, ElsewhereOrder DEF InTime
<1> QED
  BY <1>1, <1>2, <1>3, MainStepOrder, AcceptStepOrder, GameStepOrder, SendStepOrder DEF Next

LEMMA InitOrder == Init => OrderOK /\ Stopped
<1> SUFFICES ASSUME Init PROVE OrderOK /\ Stopped
  OBVIOUS
<1>1. /\ RunFlag /\ mpc = "scan" /\ gpc = "outer" /\ asock = INVALID_SOCKET
      /\ mdel = INVALID_SOCKET /\ AcceptList = <<>> /\ SocketRecvList = <<>>
      /\ PacketRecvList = <<>> /\ ClientList = <<>>
      /\ client = [n \in Node |-> FreeClient]
  BY DEF Init, ServerInit
<1>2. /\ \A s \in Sock : owner[s] = NoConn /\ s # INVALID_SOCKET
      /\ \A c \in Conn : peer[c] = "new" /\ inbox[c] = <<>> /\ C2S_Number[c] = 0
  BY ConnAssumption DEF Init, NetInit
<1>3. Accepted = <<>> /\ Due = <<>> /\ DOMAIN << >> = {} /\ Range(<< >>) = {}
  BY <1>1 DEF Accepted, Due, Range
<1>4. InTime
  BY <1>1 DEF InTime, FreeClient
<1>5. Named
  BY <1>1 DEF Named
<1>6. OnePlace
  <2>1. PICK at : at = [s \in Sock |-> "closed"]
    OBVIOUS
  <2>2. PlacedAt(at)
    BY <1>1, <1>2, <1>3, <2>1 DEF PlacedAt, Place, Releases
  <2> QED
    BY <2>2 DEF OnePlace
<1>7. ListedOnce
  BY <1>1, <1>3 DEF ListedOnce, IsInjective, ReleasedOnce
<1>8. NumbersOK
  <2>1. Len(<< >>) = 0 /\ 1 .. 0 = {} /\ 0 + 1 = 1
    OBVIOUS
  <2>2. \A c \in Conn : Continues(0, c)
    BY <1>2, <2>1 DEF Continues, Consecutive, LastNumber
  <2>3. ASSUME NEW s \in Sock PROVE Numbered(s)
    <3>1. PICK f : f = [k \in 1 .. 1 |-> Absent]
      OBVIOUS
    <3>2. Absent \in 0 .. WordSize
      BY WordSizeAssumption DEF Absent
    <3>3. f \in [1 .. 1 -> 0 .. WordSize] /\ f[1] = Absent
      BY <3>1, <3>2
    <3>4. Told(Due, s, Absent, Absent)
      BY <1>3, <2>1, <3>3 DEF Told
    <3>5. Known(s, Absent) /\ Ends(s, Absent)
      BY <1>1, <1>2, <1>3 DEF Known, Ends
    <3> QED
      BY <3>2, <3>4, <3>5 DEF Numbered
  <2> QED
    BY <1>1, <2>2, <2>3 DEF NumbersOK
<1> QED
  BY <1>1, <1>4, <1>5, <1>6, <1>7, <1>8 DEF OrderOK, Stopped

LEMMA OrderInvariant ==
    ASSUME ClientMay = {}
    PROVE  Spec => [](TypeOK /\ InHand /\ OrderOK)
<1>1. Init => SenderOK /\ HandlesOK /\ OrderOK /\ Stopped
  BY InitSender, InitHandles, InitOrder
<1>2. /\ TypeOK /\ InHand /\ SenderOK /\ HandlesOK /\ OrderOK /\ Stopped
      /\ TypeOK' /\ InHand' /\ [Next]_vars
      => SenderOK' /\ HandlesOK' /\ OrderOK' /\ Stopped'
  BY NextSender, NextHandles, NextOrder, NextStopped DEF SenderOK
<1> QED
  BY <1>1, <1>2, InHandCorrect, PTL DEF Spec

\* For any number of clients and handles, as long as no client breaks the
\* numbering or keeps silent for a minute: the notices and packets of a client
\* reach the gameplay thread in the order of its life, so the client a RELEASE
\* notice or a packet names has been created and not freed - also when its
\* handle has been another client's before.
THEOREM ClientsFound ==
    ASSUME ClientMay = {}
    PROVE  Spec => []ClientFound
<1>1. TypeOK /\ InHand /\ OrderOK => ClientFound
  BY HeadKnown DEF ClientFound
<1> QED
  BY <1>1, OrderInvariant, PTL

\* Under the same condition no client is ever cut off: each packet that is
\* handled carries the number after that of the client's packet before, also
\* when the numbers have wrapped and when the client's handle is a second-hand one.
THEOREM NobodyCutOff ==
    ASSUME ClientMay = {}
    PROVE  Spec => []NeverCutOff
<1>1. TypeOK /\ InHand /\ OrderOK => NeverCutOff
  BY HeadKnown DEF NeverCutOff, IsPacket, InOrder
<1> QED
  BY <1>1, OrderInvariant, PTL

\* Under the same condition every handle the main thread polls names an open
\* connection and is polled once, in every order of the four threads: a handle
\* is closed only after the main thread has dropped it.
THEOREM PolledHandlesStayOpen ==
    ASSUME ClientMay = {}
    PROVE  Spec => []PolledHandlesOpen
<1>1. TypeOK /\ InHand /\ OrderOK => PolledHandlesOpen
  <2> SUFFICES ASSUME TypeOK, OrderOK, mpc # "done"
               PROVE  /\ \A i \in DOMAIN SocketRecvList : owner[SocketRecvList[i]] # NoConn
                      /\ IsInjective(SocketRecvList)
    BY DEF PolledHandlesOpen
  <2>1. OnePlace /\ IsInjective(SocketRecvList) /\ SocketRecvList \in Seq(Sock)
    BY DEF OrderOK, ListedOnce, TypeOK, ServerTypeOK
  <2>2. ASSUME NEW i \in DOMAIN SocketRecvList PROVE owner[SocketRecvList[i]] # NoConn
    <3>1. SocketRecvList[i] \in Sock /\ SocketRecvList[i] \in Range(SocketRecvList)
      BY <2>1, ElementOfSeq DEF Range
    <3>2. owner[SocketRecvList[i]] \in Conn
      BY <2>1, <3>1, PolledOpen
    <3> QED
      BY <3>2, ConnAssumption
  <2> QED
    BY <2>1, <2>2
<1> QED
  BY <1>1, OrderInvariant, PTL
=============================================================================

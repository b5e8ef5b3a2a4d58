--------------------------- MODULE Programs_proofs ---------------------------
(***************************************************************************)
(* The programs beside the server: MintUnityClient, the tutorials on       *)
(* threads and locks, packets on a byte stream, the tutorials' echo        *)
(* servers, the swaps under several locks, and the component framework,    *)
(* each with its own variables.                                            *)
(***************************************************************************)
EXTENDS UnityClient, ThreadCounter, ThreadLock, PacketStream, EchoPrograms,
        MultiLock, ComponentTree, SequenceTheorems, FiniteSetTheorems,
        WellFoundedInduction, TLAPS

-----------------------------------------------------------------------------
(***************************************************************************)
(* MintUnityClient's packets, for any number of rounds and heartbeats: as  *)
(* long as its two threads do not make packets at the same time, and none  *)
(* is made before the connection is up, what is written is whole and       *)
(* numbered as the server expects.                                         *)
(***************************************************************************)

PacketTypes == {"C2S_ALIVE", "C2S_NAME", "C2S_MESSAGE", "C2S_MESSAGE_2"}
MadePacket == [type : PacketTypes \cup {"none"}, num : Nat,
               at : {"idle", "make", "write"}, parts : 0 .. 4]
WrittenPart == {<<>>} \cup (PacketTypes \X Nat \X BufferPart)

UnityTypeOK ==
  /\ TheSocket \in {"null", "connecting", "connected", "closed"}
  /\ gameStep \in {"start", "run", "quit"}
  /\ C2S_Number \in Nat /\ writes \in Nat
  /\ SendPacketBuffer \in [BufferPart -> WrittenPart]
  /\ SendPacketBufferUseLength \in 0 .. 4
  /\ toSend \in [SendingThread -> Seq(PacketTypes)]
  /\ making \in [SendingThread -> MadePacket]

Making(t) == making[t].at # "idle"

\* A thread is idle or has a packet of one of the types.
PacketKnown ==
  \A t \in SendingThread :
    IF Making(t) THEN making[t].type \in PacketTypes ELSE making[t] = None

\* One thread makes a packet at a time; the buffer holds what it has made of
\* it, under the last number given out.
OneMakes == \A t, u \in SendingThread : Making(t) /\ Making(u) => t = u
BufferIsPacket ==
  /\ (\A t \in SendingThread : ~Making(t)) => SendPacketBufferUseLength = 0
  /\ \A t \in SendingThread : Making(t) =>
       /\ making[t].num = C2S_Number
       /\ making[t].parts <= PartsOf(making[t].type)
       /\ \A i \in BufferPart : i <= making[t].parts =>
            SendPacketBuffer[i] = Part(making[t], i)
       /\ IF making[t].at = "make"
          THEN SendPacketBufferUseLength = making[t].parts
          ELSE /\ SendPacketBufferUseLength = 0
               /\ making[t].parts = PartsOf(making[t].type)

\* A packet goes to Write only when the connection is up.
WriteIsUp ==
  \A t \in SendingThread : making[t].at = "write" => TheSocket \in {"connected", "closed"}

\* Until the socket is closed no number is lost.
NumbersWritten ==
  TheSocket # "closed" =>
    C2S_Number = writes + (IF \E t \in SendingThread : Making(t) THEN 1 ELSE 0)

LastWhole ==
  writes = 0 \/ \E type \in PacketTypes :
    lastWrite = [k \in 1 .. PartsOf(type) |-> <<type, writes, k>>]

UnityInv ==
  /\ UnityTypeOK /\ PacketKnown /\ WriteIsUp
  /\ gameStep = "start" => TheSocket = "null"
  /\ ~overlapped /\ ~unconnected =>
       OneMakes /\ BufferIsPacket /\ NumbersWritten /\ LastWhole

-----------------------------------------------------------------------------
LEMMA PartsOfType == ASSUME NEW type PROVE PartsOf(type) \in 3 .. 4
BY DEF PartsOf

LEMMA UnityInvInit == UnityInit => UnityInv
<1> SUFFICES ASSUME UnityInit PROVE UnityInv
  OBVIOUS
<1>1. None \in MadePacket /\ None.at = "idle"
  BY DEF None, MadePacket
<1>2. \A t \in SendingThread : making[t] = None /\ ~Making(t)
  BY <1>1 DEF UnityInit, Making
<1>3. UnityTypeOK
  <2>1. <<>> \in Seq(PacketTypes)
    BY EmptySeq
  <2> QED
    BY <1>1, <2>1 DEF UnityInit, UnityTypeOK, WrittenPart
<1> QED
  BY <1>2, <1>3
     DEF UnityInit, UnityInv, PacketKnown, WriteIsUp, Making, OneMakes, BufferIsPacket, NumbersWritten, LastWhole

\* Connecting, closing and the rounds: no packet is made or written.
LEMMA QuietKeeps ==
  ASSUME UnityInv, UnityTypeOK',
         UNCHANGED <<C2S_Number, bufferVars, making, serverVars, ghostVars>>,
         TheSocket = "closed" => TheSocket' = "closed",
         TheSocket = "connected" => TheSocket' \in {"connected", "closed"},
         gameStep' = "start" => TheSocket' = "null"
  PROVE  UnityInv'
<1>1. UNCHANGED <<C2S_Number, SendPacketBuffer, SendPacketBufferUseLength, making, writes,
                  lastWrite, overlapped, unconnected>>
  BY DEF bufferVars, serverVars, ghostVars
<1>2. PacketKnown' /\ WriteIsUp'
  BY <1>1 DEF UnityInv, PacketKnown, WriteIsUp, Making
<1>3. OneMakes => OneMakes'
  BY <1>1 DEF OneMakes, Making
<1>4. BufferIsPacket => BufferIsPacket'
  BY <1>1 DEF BufferIsPacket, Making, Part
<1>5. NumbersWritten => NumbersWritten'
  BY <1>1 DEF NumbersWritten, Making
<1>6. LastWhole => LastWhole'
  BY <1>1 DEF LastWhole
<1> QED
  BY <1>1, <1>2, <1>3, <1>4, <1>5, <1>6 DEF UnityInv

LEMMA RoundsKeep ==
  ASSUME UnityInv,
         \/ StartAndConnect \/ EndConnect \/ MakeStreams \/ CloseSocket
         \/ OnTest_Send_C2S_Message \/ OnAliveThreadProc \/ UNCHANGED unityVars
  PROVE  UnityInv'
<1>1. UNCHANGED <<C2S_Number, bufferVars, making, serverVars, ghostVars>>
  BY DEF StartAndConnect, EndConnect, MakeStreams, CloseSocket, OnTest_Send_C2S_Message,
         OnAliveThreadProc, unityVars, bufferVars, serverVars, ghostVars
<1>2. toSend' \in [SendingThread -> Seq(PacketTypes)]
  <2>1. CASE OnTest_Send_C2S_Message
    <3>1. <<>> \in Seq(PacketTypes) /\ <<"C2S_NAME">> \in Seq(PacketTypes)
          /\ <<"C2S_MESSAGE", "C2S_MESSAGE_2">> \in Seq(PacketTypes)
      BY DEF PacketTypes
    <3>2. (IF FirstNamePacketFlag THEN <<>> ELSE <<"C2S_NAME">>)
             \o <<"C2S_MESSAGE", "C2S_MESSAGE_2">> \in Seq(PacketTypes)
      BY <3>1, ConcatProperties
    <3> QED
      BY <2>1, <3>2 DEF OnTest_Send_C2S_Message, UnityInv, UnityTypeOK
  <2>2. CASE OnAliveThreadProc
    <3>1. <<"C2S_ALIVE">> \in Seq(PacketTypes)
      BY DEF PacketTypes
    <3>2. toSend' = toSend \/ toSend' = [toSend EXCEPT !["alive"] = <<"C2S_ALIVE">>]
      BY <2>2 DEF OnAliveThreadProc
    <3> QED
      BY <3>1, <3>2 DEF UnityInv, UnityTypeOK
  <2>3. CASE ~(OnTest_Send_C2S_Message \/ OnAliveThreadProc)
    BY <2>3 DEF StartAndConnect, EndConnect, MakeStreams, CloseSocket, unityVars, UnityInv,
                UnityTypeOK
  <2> QED
    BY <2>1, <2>2, <2>3
<1>3. /\ TheSocket' \in {"null", "connecting", "connected", "closed"}
      /\ gameStep' \in {"start", "run", "quit"}
      /\ TheSocket = "closed" => TheSocket' = "closed"
      /\ TheSocket = "connected" => TheSocket' \in {"connected", "closed"}
      /\ gameStep' = "start" => TheSocket' = "null"
  BY DEF StartAndConnect, EndConnect, MakeStreams, CloseSocket, OnTest_Send_C2S_Message,
         OnAliveThreadProc, unityVars, socketVars, roundVars, UnityInv, UnityTypeOK
<1>4. UnityTypeOK'
  BY <1>1, <1>2, <1>3 DEF UnityInv, UnityTypeOK, bufferVars, serverVars
<1> QED
  BY <1>1, <1>3, <1>4, QuietKeeps

\* A packet gets the next number; with a packet of the other thread under way
\* this is an overlap.
LEMMA SendC2SPacketKeeps ==
  ASSUME UnityInv, NEW t \in SendingThread, SendC2SPacket(t)
  PROVE  UnityInv'
<1> DEFINE p == [type |-> Head(toSend[t]), num |-> C2S_Number + 1, at |-> "make", parts |-> 0]
<1>1. /\ making[t] = None /\ toSend[t] # <<>>
      /\ toSend' = [toSend EXCEPT ![t] = Tail(@)]
      /\ C2S_Number' = C2S_Number + 1
      /\ making' = [making EXCEPT ![t] = p]
      /\ overlapped' = (overlapped \/ \E u \in SendingThread : making[u] # None)
      /\ UNCHANGED <<TheSocket, gameStep, SendPacketBuffer, SendPacketBufferUseLength,
                     writes, lastWrite, unconnected>>
  BY DEF SendC2SPacket, socketVars, bufferVars, roundVars, serverVars
<1>2. Head(toSend[t]) \in PacketTypes /\ Tail(toSend[t]) \in Seq(PacketTypes)
  BY <1>1, HeadTailProperties DEF UnityInv, UnityTypeOK
<1>3. C2S_Number' \in Nat
  BY <1>1 DEF UnityInv, UnityTypeOK
<1>4. p \in MadePacket
  BY <1>1, <1>2, <1>3 DEF MadePacket
<1>5. UnityTypeOK'
  <2>1. making' \in [SendingThread -> MadePacket]
    BY <1>1, <1>4 DEF UnityInv, UnityTypeOK
  <2>2. toSend' \in [SendingThread -> Seq(PacketTypes)]
    BY <1>1, <1>2 DEF UnityInv, UnityTypeOK
  <2> QED
    BY <1>1, <1>3, <2>1, <2>2 DEF UnityInv, UnityTypeOK
<1>6. making'[t] = p /\ \A u \in SendingThread : u # t => making'[u] = making[u]
  BY <1>1 DEF UnityInv, UnityTypeOK
<1>7. PacketKnown' /\ WriteIsUp'
  BY <1>1, <1>2, <1>6 DEF UnityInv, PacketKnown, WriteIsUp, Making
<1>8. ASSUME ~overlapped', ~unconnected'
      PROVE  OneMakes' /\ BufferIsPacket' /\ NumbersWritten' /\ LastWhole'
  <2>1. /\ OneMakes /\ BufferIsPacket /\ NumbersWritten /\ LastWhole
        /\ \A u \in SendingThread : making[u] = None
    BY <1>1, <1>8 DEF UnityInv
  <2>2. \A u \in SendingThread : ~Making(u)
    BY <2>1 DEF Making, None
  <2>3. \A u \in SendingThread : Making(u)' <=> u = t
    BY <1>6, <2>2 DEF Making
  <2>4. OneMakes'
    BY <2>3 DEF OneMakes
  <2>5. BufferIsPacket'
    <3>1. SendPacketBufferUseLength' = 0
      BY <1>1, <2>1, <2>2 DEF BufferIsPacket
    <3>2. /\ making'[t].num = C2S_Number' /\ making'[t].parts = 0
          /\ making'[t].at = "make"
      BY <1>1, <1>6
    <3>3. 0 <= PartsOf(making'[t].type) /\ \A i \in BufferPart : ~(i <= 0)
      BY PartsOfType DEF BufferPart
    <3> QED
      BY <2>3, <3>1, <3>2, <3>3 DEF BufferIsPacket
  <2>6. NumbersWritten'
    BY <1>1, <2>1, <2>2, <2>3 DEF NumbersWritten, UnityInv, UnityTypeOK
  <2>7. LastWhole'
    BY <1>1, <2>1 DEF LastWhole
  <2> QED
    BY <2>4, <2>5, <2>6, <2>7
<1> QED
  BY <1>1, <1>5, <1>7, <1>8 DEF UnityInv

\* Each part goes behind those of the same packet.
LEMMA MakeKeeps ==
  ASSUME UnityInv, NEW t \in SendingThread, MakeSendPacketBuffer(t)
  PROVE  UnityInv'
<1> DEFINE p == making[t]
           end == SendPacketBufferUseLength + 1
<1>1. /\ p.at = "make" /\ p.parts < PartsOf(p.type)
      /\ IF end \in BufferPart
         THEN /\ SendPacketBuffer' = [SendPacketBuffer EXCEPT ![end] = Part(p, p.parts + 1)]
              /\ SendPacketBufferUseLength' = end
         ELSE UNCHANGED <<SendPacketBuffer, SendPacketBufferUseLength>>
      /\ making' = [making EXCEPT ![t].parts = @ + 1]
      /\ UNCHANGED <<TheSocket, gameStep, C2S_Number, toSend, writes, lastWrite, overlapped,
                     unconnected>>
  BY DEF MakeSendPacketBuffer, bufferVars, socketVars, roundVars, serverVars, ghostVars
<1>2. p \in MadePacket /\ p.type \in PacketTypes
  BY <1>1 DEF UnityInv, UnityTypeOK, PacketKnown, Making
<1>3. p.parts + 1 \in BufferPart /\ p.parts + 1 <= PartsOf(p.type)
  BY <1>1, <1>2, PartsOfType DEF MadePacket, BufferPart
<1>4. /\ making'[t] = [p EXCEPT !.parts = p.parts + 1]
      /\ \A u \in SendingThread : u # t => making'[u] = making[u]
  BY <1>1 DEF UnityInv, UnityTypeOK
<1>5. /\ making'[t] \in MadePacket
      /\ making'[t].type = p.type /\ making'[t].num = p.num /\ making'[t].at = "make"
      /\ making'[t].parts = p.parts + 1
  BY <1>1, <1>2, <1>3, <1>4 DEF MadePacket, BufferPart
<1>6. UnityTypeOK'
  <2>1. making' \in [SendingThread -> MadePacket]
    BY <1>1, <1>4, <1>5 DEF UnityInv, UnityTypeOK
  <2>2. Part(p, p.parts + 1) \in WrittenPart
    BY <1>2, <1>3 DEF Part, WrittenPart, MadePacket
  <2>3. /\ SendPacketBuffer' \in [BufferPart -> WrittenPart]
        /\ SendPacketBufferUseLength' \in 0 .. 4
    BY <1>1, <2>2, SMTT(40) DEF UnityInv, UnityTypeOK, BufferPart
  <2> QED
    BY <1>1, <2>1, <2>3 DEF UnityInv, UnityTypeOK
<1>7. \A u \in SendingThread : Making(u)' <=> Making(u)
  BY <1>1, <1>4, <1>5 DEF Making
<1>8. PacketKnown' /\ WriteIsUp'
  <2>1. \A u \in SendingThread : IF Making(u)' THEN making'[u].type \in PacketTypes
                                              ELSE making'[u] = None
    <3>1. Making(t)' /\ making'[t].type \in PacketTypes
      BY <1>2, <1>5 DEF Making
    <3>2. ASSUME NEW u \in SendingThread, u # t
          PROVE  IF Making(u)' THEN making'[u].type \in PacketTypes ELSE making'[u] = None
      BY <1>4, <1>7, <3>2 DEF UnityInv, PacketKnown
    <3> QED
      BY <3>1, <3>2
  <2>2. WriteIsUp'
    BY <1>1, <1>4, <1>5 DEF UnityInv, WriteIsUp
  <2> QED
    BY <2>1, <2>2 DEF PacketKnown
<1>9. ASSUME OneMakes, BufferIsPacket PROVE BufferIsPacket'
  <2>1. /\ Making(t) /\ SendPacketBufferUseLength = p.parts /\ p.num = C2S_Number
        /\ \A i \in BufferPart : i <= p.parts => SendPacketBuffer[i] = Part(p, i)
    BY <1>1, <1>9 DEF BufferIsPacket, Making
  <2>2. /\ SendPacketBuffer' = [SendPacketBuffer EXCEPT ![p.parts + 1] = Part(p, p.parts + 1)]
        /\ SendPacketBufferUseLength' = p.parts + 1
    BY <1>1, <1>3, <2>1
  <2>3. \A i : Part(making'[t], i) = Part(p, i)
    BY <1>5 DEF Part
  <2>4. ASSUME NEW i \in BufferPart, i <= p.parts + 1
        PROVE  SendPacketBuffer'[i] = Part(p, i)
    <3>1. CASE i = p.parts + 1
      BY <1>3, <2>2, <3>1 DEF UnityInv, UnityTypeOK
    <3>2. CASE i # p.parts + 1
      <4>1. i <= p.parts
        BY <1>2, <2>4, <3>2 DEF MadePacket, BufferPart
      <4> QED
        BY <2>1, <2>2, <3>2, <4>1 DEF UnityInv, UnityTypeOK
    <3> QED
      BY <3>1, <3>2
  <2>5. \A u \in SendingThread : Making(u) => u = t
    BY <1>9, <2>1 DEF OneMakes
  <2> QED
    BY <1>1, <1>3, <1>5, <1>7, <2>1, <2>2, <2>3, <2>4, <2>5 DEF BufferIsPacket
<1>10. (OneMakes => OneMakes') /\ (NumbersWritten => NumbersWritten')
       /\ (LastWhole => LastWhole')
  BY <1>1, <1>7 DEF OneMakes, NumbersWritten, LastWhole
<1> QED
  BY <1>1, <1>6, <1>8, <1>9, <1>10 DEF UnityInv

\* The packet is dropped, or its length goes to Write.
LEMMA SendPacketKeepsInv ==
  ASSUME UnityInv, NEW t \in SendingThread, SendPacket(t)
  PROVE  UnityInv'
<1> DEFINE p == making[t]
           up == TheSocket = "connected" /\ TheWriter
<1>1. /\ p.at = "make" /\ p.parts = PartsOf(p.type)
      /\ SendPacketBufferUseLength' = 0
      /\ UNCHANGED <<TheSocket, gameStep, C2S_Number, SendPacketBuffer, toSend, writes,
                     lastWrite, overlapped>>
  BY DEF SendPacket, socketVars, roundVars, serverVars
<1>2. CASE ~up
  <2>1. /\ making' = [making EXCEPT ![t] = None]
        /\ unconnected' = (unconnected \/ TheSocket # "closed")
    BY <1>2 DEF SendPacket
  <2>2. None \in MadePacket /\ None.at = "idle"
    BY DEF None, MadePacket
  <2>3. /\ making'[t] = None /\ \A u \in SendingThread : u # t => making'[u] = making[u]
        /\ making' \in [SendingThread -> MadePacket]
    BY <2>1, <2>2 DEF UnityInv, UnityTypeOK
  <2>4. UnityTypeOK'
    BY <1>1, <2>3 DEF UnityInv, UnityTypeOK
  <2>5. \A u \in SendingThread : Making(u)' <=> Making(u) /\ u # t
    BY <2>2, <2>3 DEF Making
  <2>6. PacketKnown' /\ WriteIsUp'
    BY <1>1, <2>2, <2>3, <2>5 DEF UnityInv, PacketKnown, WriteIsUp
  <2>7. ASSUME ~overlapped', ~unconnected'
        PROVE  OneMakes' /\ BufferIsPacket' /\ NumbersWritten' /\ LastWhole'
    <3>1. OneMakes /\ LastWhole /\ TheSocket' = "closed"
      BY <1>1, <2>1, <2>7 DEF UnityInv
    <3>2. \A u \in SendingThread : ~Making(u)'
      BY <1>1, <2>5, <3>1 DEF OneMakes, Making
    <3> QED
      BY <1>1, <3>1, <3>2 DEF OneMakes, BufferIsPacket, NumbersWritten, LastWhole
  <2> QED
    BY <1>1, <2>4, <2>6, <2>7 DEF UnityInv
<1>3. CASE up
  <2>1. /\ making' = [making EXCEPT ![t].at = "write",
                              ![t].parts = SendPacketBufferUseLength]
        /\ unconnected' = unconnected
    BY <1>3 DEF SendPacket
  <2>2. /\ making'[t] = [p EXCEPT !.at = "write", !.parts = SendPacketBufferUseLength]
        /\ \A u \in SendingThread : u # t => making'[u] = making[u]
    BY <2>1 DEF UnityInv, UnityTypeOK
  <2>3. p \in MadePacket /\ p.type \in PacketTypes /\ Making(t)
    BY <1>1 DEF UnityInv, UnityTypeOK, PacketKnown, Making
  <2>4. /\ making'[t] \in MadePacket
        /\ making'[t].type = p.type /\ making'[t].num = p.num /\ making'[t].at = "write"
        /\ making'[t].parts = SendPacketBufferUseLength
    BY <2>2, <2>3 DEF MadePacket, UnityInv, UnityTypeOK
  <2>5. UnityTypeOK'
    <3>1. making' \in [SendingThread -> MadePacket]
      BY <2>1, <2>2, <2>4 DEF UnityInv, UnityTypeOK
    <3> QED
      BY <1>1, <3>1 DEF UnityInv, UnityTypeOK
  <2>6. \A u \in SendingThread : Making(u)' <=> Making(u)
    BY <2>2, <2>3, <2>4 DEF Making
  <2>7. PacketKnown' /\ WriteIsUp'
    BY <1>1, <1>3, <2>2, <2>3, <2>4, <2>6 DEF UnityInv, PacketKnown, WriteIsUp
  <2>8. ASSUME OneMakes, BufferIsPacket PROVE BufferIsPacket'
    <3>1. /\ SendPacketBufferUseLength = p.parts /\ p.num = C2S_Number
          /\ \A i \in BufferPart : i <= p.parts => SendPacketBuffer[i] = Part(p, i)
      BY <1>1, <2>3, <2>8 DEF BufferIsPacket
    <3>2. \A u \in SendingThread : Making(u) => u = t
      BY <2>3, <2>8 DEF OneMakes
    <3>3. \A i : Part(making'[t], i) = Part(p, i)
      BY <2>4 DEF Part
    <3>4. p.parts <= PartsOf(p.type)
      BY <1>1, PartsOfType
    <3> QED
      BY <1>1, <2>3, <2>4, <2>6, <3>1, <3>2, <3>3, <3>4 DEF BufferIsPacket
  <2>9. (OneMakes => OneMakes') /\ (NumbersWritten => NumbersWritten')
        /\ (LastWhole => LastWhole')
    BY <1>1, <2>6 DEF OneMakes, NumbersWritten, LastWhole
  <2> QED
    BY <1>1, <2>1, <2>5, <2>7, <2>8, <2>9 DEF UnityInv
<1> QED
  BY <1>2, <1>3

\* Write takes its packet's parts from the buffer, and its number is the next
\* that the server expects.
LEMMA WriteKeeps ==
  ASSUME UnityInv, NEW t \in SendingThread, WritePacket(t)
  PROVE  UnityInv'
<1> DEFINE p == making[t]
<1>1. /\ p.at = "write"
      /\ making' = [making EXCEPT ![t] = None]
      /\ IF TheSocket = "connected"
         THEN writes' = writes + 1 /\ lastWrite' = SubSeq(SendPacketBuffer, 1, p.parts)
         ELSE UNCHANGED <<writes, lastWrite>>
      /\ UNCHANGED <<TheSocket, gameStep, C2S_Number, SendPacketBuffer,
                     SendPacketBufferUseLength, toSend, overlapped, unconnected>>
  BY DEF WritePacket, socketVars, bufferVars, roundVars, serverVars, ghostVars
<1>2. None \in MadePacket /\ None.at = "idle"
  BY DEF None, MadePacket
<1>3. /\ making'[t] = None /\ \A u \in SendingThread : u # t => making'[u] = making[u]
      /\ making' \in [SendingThread -> MadePacket]
  BY <1>1, <1>2 DEF UnityInv, UnityTypeOK
<1>4. UnityTypeOK'
  <2>1. writes' \in Nat
    <3>1. writes \in Nat
      BY DEF UnityInv, UnityTypeOK
    <3> QED
      BY <1>1, <3>1
  <2> QED
    BY <1>1, <1>3, <2>1 DEF UnityInv, UnityTypeOK
<1>5. \A u \in SendingThread : Making(u)' <=> Making(u) /\ u # t
  BY <1>2, <1>3 DEF Making
<1>6. PacketKnown' /\ WriteIsUp'
  BY <1>1, <1>2, <1>3, <1>5 DEF UnityInv, PacketKnown, WriteIsUp
<1>7. ASSUME ~overlapped, ~unconnected
      PROVE  OneMakes' /\ BufferIsPacket' /\ NumbersWritten' /\ LastWhole'
  <2>1. OneMakes /\ BufferIsPacket /\ NumbersWritten /\ LastWhole /\ Making(t)
    BY <1>1, <1>7 DEF UnityInv, Making
  <2>2. \A u \in SendingThread : ~Making(u)'
    BY <1>5, <2>1 DEF OneMakes
  <2>3. /\ p.num = C2S_Number /\ p.parts = PartsOf(p.type) /\ SendPacketBufferUseLength = 0
        /\ \A i \in BufferPart : i <= p.parts => SendPacketBuffer[i] = Part(p, i)
    BY <1>1, <2>1 DEF BufferIsPacket
  <2>4. OneMakes' /\ BufferIsPacket'
    BY <1>1, <2>2, <2>3 DEF OneMakes, BufferIsPacket
  <2>5. CASE TheSocket = "connected"
    <3>1. /\ C2S_Number = writes' /\ C2S_Number' = C2S_Number
          /\ writes' \in Nat /\ writes' + 0 = writes'
      BY <1>1, <1>4, <2>1, <2>5 DEF NumbersWritten, UnityTypeOK
    <3>2. NumbersWritten'
      BY <2>2, <3>1 DEF NumbersWritten
    <3>3. p.parts \in 3 .. 4 /\ p.type \in PacketTypes
      BY <2>1, <2>3, PartsOfType DEF UnityInv, PacketKnown
    <3>4. lastWrite' = [k \in 1 .. p.parts |-> <<p.type, writes', k>>]
      <4>1. lastWrite' = [k \in 1 .. p.parts |-> SendPacketBuffer[k]]
        BY <1>1, <2>5, <3>3
      <4>2. \A k \in 1 .. p.parts : SendPacketBuffer[k] = <<p.type, writes', k>>
        BY <2>3, <3>1, <3>3 DEF BufferPart, Part
      <4> QED
        BY <4>1, <4>2
    <3> QED
      BY <2>3, <2>4, <3>2, <3>3, <3>4 DEF LastWhole
  <2>6. CASE TheSocket # "connected"
    <3>1. LastWhole'
      BY <1>1, <2>1, <2>6 DEF LastWhole
    <3>2. TheSocket' = "closed"
      BY <1>1, <2>6 DEF UnityInv, WriteIsUp
    <3> QED
      BY <2>4, <3>1, <3>2 DEF NumbersWritten
  <2> QED
    BY <2>5, <2>6
<1> QED
  BY <1>1, <1>4, <1>6, <1>7 DEF UnityInv

LEMMA UnityInvNext ==
  ASSUME UnityInv, [UnityNext]_unityVars
  PROVE  UnityInv'
BY RoundsKeep, SendC2SPacketKeeps, MakeKeeps, SendPacketKeepsInv, WriteKeeps
   DEF UnityNext, Sends

LEMMA InvMeansWhole == UnityInv => WholeAndNumbered
<1> SUFFICES ASSUME UnityInv, ~overlapped, ~unconnected, writes # 0 PROVE WholeAndNumbered
  BY DEF WholeAndNumbered
<1>1. PICK type \in PacketTypes : lastWrite = [k \in 1 .. PartsOf(type) |-> <<type, writes, k>>]
  BY DEF UnityInv, LastWhole
<1>2. 1 \in 1 .. PartsOf(type)
  BY PartsOfType
<1>3. lastWrite[1][1] = type
  BY <1>1, <1>2
<1> QED
  BY <1>1, <1>3 DEF WholeAndNumbered

\* Each packet the Unity client writes is whole and carries the number the
\* server expects, for any number of packets, unless its two threads made
\* packets at the same time or one was made before the connection was up.
THEOREM UnityPacketsWhole == UnitySpec => []WholeAndNumbered
<1>1. UnityInv /\ [UnityNext]_unityVars => UnityInv'
  BY UnityInvNext
<1> QED
  BY UnityInvInit, <1>1, InvMeansWhole, PTL DEF UnitySpec

-----------------------------------------------------------------------------
(* 3-1: the counters without a lock may lose increments but stay between 1   *)
(* and the number of threads that have stored, and main's wait, on the       *)
(* interlocked counter, is for all.                                          *)

Unlocked == {"gCounter", "Counter"}
StoreAt(c) == IF c = "gCounter" THEN "store gCounter" ELSE "store Counter"

\* Where a thread is when it has incremented a counter, and who is there.
After(c) ==
  CASE c = "gCounter" -> {"load Counter", "store Counter", "count end", "end"}
    [] c = "Counter" -> {"count end", "end"}
    [] OTHER -> {"end"}
Stored(c) == {t \in PoolThread : atStep[t] \in After(c)}

CounterSteps == {"none", "load gCounter", "store gCounter", "load Counter",
                 "store Counter", "count end", "end"}

CounterTypeOK ==
  /\ countOf \in [Unlocked -> Nat]
  /\ EndCounter \in Nat
  /\ atStep \in [PoolThread -> CounterSteps]
  /\ loaded \in [PoolThread -> Nat]
  /\ mainAt \in {"create", "wait", "release", "end"}

\* What a counter holds, and what a thread has read of it and will store, is
\* never more than the number of threads that have stored.
NoMoreThanStored ==
  \A c \in Unlocked :
    /\ countOf[c] <= Cardinality(Stored(c))
    /\ \A t \in PoolThread : atStep[t] = StoreAt(c) => loaded[t] <= Cardinality(Stored(c))

NotZeroOnceStored == \A c \in Unlocked : Stored(c) # {} => countOf[c] >= 1

EndsCounted == EndCounter = Cardinality(Stored("EndCounter"))

\* The threads are created in their order, and main goes on when all have ended.
CreatedInOrder ==
  mainAt = "create" =>
    \E k \in 0 .. THREAD_POOL_MAX - 1 :
      /\ openHandles = 1 .. k
      /\ \A t \in PoolThread : t > k => atStep[t] = "none"
AllEnded == mainAt \in {"release", "end"} => \A t \in PoolThread : atStep[t] = "end"

CounterInv ==
  /\ CounterTypeOK /\ NoMoreThanStored /\ NotZeroOnceStored /\ EndsCounted
  /\ CreatedInOrder /\ AllEnded

-----------------------------------------------------------------------------
LEMMA PoolThreadFinite ==
  IsFiniteSet(PoolThread) /\ Cardinality(PoolThread) = THREAD_POOL_MAX
<1>1. 1 \in Int /\ THREAD_POOL_MAX \in Int /\ ~(1 > THREAD_POOL_MAX)
  BY ThreadCounterAssumption
<1>2. THREAD_POOL_MAX - 1 + 1 = THREAD_POOL_MAX
  BY <1>1
<1> QED
  BY <1>1, <1>2, FS_Interval DEF PoolThread

LEMMA StoredFinite ==
  ASSUME NEW c
  PROVE  /\ IsFiniteSet(Stored(c)) /\ Stored(c) \subseteq PoolThread
         /\ Cardinality(Stored(c)) \in Nat
         /\ Cardinality(Stored(c)) <= THREAD_POOL_MAX
         /\ Cardinality(Stored(c)) = THREAD_POOL_MAX => Stored(c) = PoolThread
<1>1. Stored(c) \subseteq PoolThread
  BY DEF Stored
<1> QED
  BY <1>1, PoolThreadFinite, FS_Subset, FS_CardinalityType

\* A thread that passes no counter leaves its threads as they are.
LEMMA SameStored ==
  ASSUME CounterTypeOK, NEW t \in PoolThread, NEW next, NEW c,
         atStep' = [atStep EXCEPT ![t] = next],
         atStep[t] \in After(c) <=> next \in After(c)
  PROVE  Stored(c)' = Stored(c)
BY DEF Stored, CounterTypeOK, After

\* One that passes it adds one.
LEMMA OneMoreStored ==
  ASSUME CounterTypeOK, NEW t \in PoolThread, NEW next, NEW c,
         atStep' = [atStep EXCEPT ![t] = next],
         atStep[t] \notin After(c), next \in After(c)
  PROVE  Cardinality(Stored(c)') = Cardinality(Stored(c)) + 1
<1>1. Stored(c)' = Stored(c) \cup {t}
  BY DEF Stored, CounterTypeOK, After
<1>2. t \notin Stored(c)
  BY DEF Stored
<1> QED
  BY <1>1, <1>2, StoredFinite, FS_AddElement

LEMMA CounterInvInit == CounterInit => CounterInv
<1> SUFFICES ASSUME CounterInit PROVE CounterInv
  OBVIOUS
<1>1. \A c \in Unlocked \cup {"EndCounter"} : Stored(c) = {}
  BY DEF CounterInit, Stored, After, Unlocked
<1>2. NoMoreThanStored /\ NotZeroOnceStored /\ EndsCounted
  BY <1>1, FS_EmptySet
     DEF NoMoreThanStored, NotZeroOnceStored, EndsCounted, CounterInit, Unlocked, StoreAt
<1>3. CreatedInOrder
  <2>1. 1 .. 0 = {} /\ 0 \in 0 .. THREAD_POOL_MAX - 1
    BY ThreadCounterAssumption
  <2>2. \A t \in PoolThread : t > 0 => atStep[t] = "none"
    BY DEF CounterInit
  <2> QED
    BY <2>1, <2>2 DEF CreatedInOrder, CounterInit
<1>4. CounterTypeOK /\ AllEnded
  BY DEF CounterInit, CounterTypeOK, CounterSteps, Unlocked, AllEnded
<1> QED
  BY <1>2, <1>3, <1>4 DEF CounterInv

\* A step of a created thread leaves those that main has still to create alone.
LEMMA ThreadKeepsCreated ==
  ASSUME CounterInv, NEW t \in PoolThread, NEW next,
         atStep[t] \notin {"none", "end"}, atStep' = [atStep EXCEPT ![t] = next],
         UNCHANGED <<openHandles, mainAt>>
  PROVE  CreatedInOrder' /\ AllEnded'
<1>1. CreatedInOrder'
  BY DEF CounterInv, CreatedInOrder, CounterTypeOK
<1>2. AllEnded'
  BY DEF CounterInv, AllEnded, CounterTypeOK
<1> QED
  BY <1>1, <1>2

LEMMA CreateKeepsInv ==
  ASSUME CounterInv, CreateThread
  PROVE  CounterInv'
<1>1. PICK k \in 0 .. THREAD_POOL_MAX - 1 :
        openHandles = 1 .. k /\ \A u \in PoolThread : u > k => atStep[u] = "none"
  BY DEF CreateThread, CounterInv, CreatedInOrder
<1>2. Cardinality(openHandles) = k
  <2>1. k \in Int /\ 1 \in Int /\ k - 1 + 1 = k /\ (1 > k => k = 0)
    BY ThreadCounterAssumption
  <2> QED
    BY <1>1, <2>1, FS_Interval
<1>3. k + 1 \in PoolThread /\ k + 1 > k
  BY ThreadCounterAssumption DEF PoolThread
<1>4. /\ atStep' = [atStep EXCEPT ![k + 1] = "load gCounter"]
      /\ openHandles' = openHandles \cup {k + 1}
      /\ mainAt' = IF k + 1 = THREAD_POOL_MAX THEN "wait" ELSE mainAt
      /\ UNCHANGED <<countOf, EndCounter, loaded>>
  BY <1>2 DEF CreateThread
<1>5. atStep[k + 1] = "none"
  BY <1>1, <1>3
<1>6. CounterTypeOK'
  BY <1>3, <1>4 DEF CounterInv, CounterTypeOK, CounterSteps, CreateThread
<1>7. ASSUME NEW c \in Unlocked \cup {"EndCounter"} PROVE Stored(c)' = Stored(c)
  <2>1. atStep[k + 1] \in After(c) <=> "load gCounter" \in After(c)
    BY <1>5 DEF After, Unlocked
  <2> QED
    BY <1>3, <1>4, <2>1, SameStored DEF CounterInv
<1>8. NoMoreThanStored'
  BY <1>3, <1>4, <1>7 DEF CounterInv, CounterTypeOK, NoMoreThanStored, StoreAt
<1>9. NotZeroOnceStored' /\ EndsCounted'
  BY <1>4, <1>7 DEF CounterInv, NotZeroOnceStored, EndsCounted
<1>10. CreatedInOrder'
  <2> SUFFICES ASSUME mainAt' = "create"
               PROVE  \E j \in 0 .. THREAD_POOL_MAX - 1 :
                        /\ openHandles' = 1 .. j
                        /\ \A u \in PoolThread : u > j => atStep'[u] = "none"
    BY DEF CreatedInOrder
  <2>1. k + 1 \in 0 .. THREAD_POOL_MAX - 1
    <3>1. k + 1 # THREAD_POOL_MAX
      BY <1>4
    <3> QED
      BY <3>1, ThreadCounterAssumption
  <2>2. openHandles' = 1 .. (k + 1)
    <3>1. 1 .. (k + 1) = (1 .. k) \cup {k + 1}
      BY ThreadCounterAssumption
    <3> QED
      BY <1>1, <1>4, <3>1
  <2>3. \A u \in PoolThread : u > k + 1 => atStep'[u] = "none"
    <3> SUFFICES ASSUME NEW u \in PoolThread, u > k + 1 PROVE atStep'[u] = "none"
      OBVIOUS
    <3>1. u > k /\ u # k + 1
      BY DEF PoolThread
    <3> QED
      BY <1>1, <1>4, <3>1 DEF CounterInv, CounterTypeOK
  <2> QED
    BY <2>1, <2>2, <2>3
<1>11. AllEnded'
  BY <1>4 DEF CreateThread, AllEnded
<1> QED
  BY <1>6, <1>8, <1>9, <1>10, <1>11 DEF CounterInv

\* What is read of a counter is no more than the threads that have stored.
LEMMA LoadKeepsInv ==
  ASSUME CounterInv, NEW t \in PoolThread, NEW c \in Unlocked,
         NEW here \in CounterSteps, NEW next \in CounterSteps,
         Load(t, c, here, next), next = StoreAt(c), here \notin {"none", "end"},
         \A d \in Unlocked \cup {"EndCounter"} : here \in After(d) <=> next \in After(d)
  PROVE  CounterInv'
<1>1. /\ atStep[t] = here
      /\ loaded' = [loaded EXCEPT ![t] = countOf[c]]
      /\ atStep' = [atStep EXCEPT ![t] = next]
      /\ UNCHANGED <<countOf, EndCounter, openHandles, mainAt>>
  BY DEF Load
<1>2. CounterTypeOK'
  BY <1>1 DEF CounterInv, CounterTypeOK
<1>3. \A d \in Unlocked \cup {"EndCounter"} : Stored(d)' = Stored(d)
  BY <1>1, SameStored DEF CounterInv
<1>4. NoMoreThanStored'
  <2> SUFFICES ASSUME NEW d \in Unlocked, NEW u \in PoolThread
               PROVE  /\ countOf'[d] <= Cardinality(Stored(d)')
                      /\ atStep'[u] = StoreAt(d) => loaded'[u] <= Cardinality(Stored(d)')
    BY DEF NoMoreThanStored, StoreAt
  <2>1. /\ Stored(d)' = Stored(d) /\ countOf' = countOf
        /\ countOf[d] <= Cardinality(Stored(d))
    BY <1>1, <1>3 DEF CounterInv, NoMoreThanStored
  <2>2. ASSUME u = t, atStep'[u] = StoreAt(d) PROVE loaded'[u] = countOf[d]
    <3>1. StoreAt(c) = StoreAt(d) /\ loaded'[u] = countOf[c]
      BY <1>1, <2>2 DEF CounterInv, CounterTypeOK
    <3> QED
      BY <3>1 DEF StoreAt, Unlocked
  <2>3. ASSUME u # t, atStep'[u] = StoreAt(d) PROVE loaded'[u] <= Cardinality(Stored(d))
    <3>1. atStep[u] = StoreAt(d) /\ loaded'[u] = loaded[u]
      BY <1>1, <2>3 DEF CounterInv, CounterTypeOK
    <3> QED
      BY <3>1 DEF CounterInv, NoMoreThanStored
  <2> QED
    BY <2>1, <2>2, <2>3
<1>5. NotZeroOnceStored' /\ EndsCounted'
  BY <1>1, <1>3 DEF CounterInv, NotZeroOnceStored, EndsCounted
<1>6. CreatedInOrder' /\ AllEnded'
  BY <1>1, ThreadKeepsCreated
<1> QED
  BY <1>2, <1>4, <1>5, <1>6 DEF CounterInv

\* A store may take a counter back, but not above the threads that have stored.
LEMMA StoreKeepsInv ==
  ASSUME CounterInv, NEW t \in PoolThread, NEW c \in Unlocked, NEW next \in CounterSteps,
         Store(t, c, StoreAt(c), next), StoreAt(c) \notin After(c), next \in After(c),
         \A d \in Unlocked : next # StoreAt(d),
         \A d \in (Unlocked \cup {"EndCounter"}) \ {c} :
           StoreAt(c) \in After(d) <=> next \in After(d)
  PROVE  CounterInv'
<1>1. /\ atStep[t] = StoreAt(c)
      /\ countOf' = [countOf EXCEPT ![c] = loaded[t] + 1]
      /\ atStep' = [atStep EXCEPT ![t] = next]
      /\ UNCHANGED <<EndCounter, openHandles, loaded, mainAt>>
  BY DEF Store
<1>2. CounterTypeOK'
  BY <1>1 DEF CounterInv, CounterTypeOK
<1>3. \A d \in (Unlocked \cup {"EndCounter"}) \ {c} : Stored(d)' = Stored(d)
  BY <1>1, SameStored DEF CounterInv
<1>4. Cardinality(Stored(c)') = Cardinality(Stored(c)) + 1
  BY <1>1, OneMoreStored DEF CounterInv
<1>5. \A d \in Unlocked : Cardinality(Stored(d)) \in Nat
  BY StoredFinite
<1>6. NoMoreThanStored'
  <2> SUFFICES ASSUME NEW d \in Unlocked, NEW u \in PoolThread
               PROVE  /\ countOf'[d] <= Cardinality(Stored(d)')
                      /\ atStep'[u] = StoreAt(d) => loaded'[u] <= Cardinality(Stored(d)')
    BY DEF NoMoreThanStored, StoreAt
  <2>1. loaded[t] <= Cardinality(Stored(c)) /\ loaded[t] \in Nat /\ countOf[d] \in Nat
    BY <1>1 DEF CounterInv, CounterTypeOK, NoMoreThanStored
  <2>2. countOf'[d] <= Cardinality(Stored(d)')
    <3>1. CASE d = c
      BY <1>1, <1>4, <1>5, <2>1, <3>1 DEF CounterInv, CounterTypeOK
    <3>2. CASE d # c
      BY <1>1, <1>3, <3>2 DEF CounterInv, CounterTypeOK, NoMoreThanStored
    <3> QED
      BY <3>1, <3>2
  <2>3. ASSUME atStep'[u] = StoreAt(d) PROVE loaded'[u] <= Cardinality(Stored(d)')
    <3>1. u # t
      BY <1>1, <2>3 DEF CounterInv, CounterTypeOK
    <3>2. loaded[u] \in Nat /\ loaded[u] <= Cardinality(Stored(d)) /\ loaded'[u] = loaded[u]
      BY <1>1, <2>3, <3>1 DEF CounterInv, CounterTypeOK, NoMoreThanStored
    <3> QED
      BY <1>3, <1>4, <1>5, <3>2
  <2> QED
    BY <2>2, <2>3
<1>7. NotZeroOnceStored'
  <2> SUFFICES ASSUME NEW d \in Unlocked, Stored(d)' # {} PROVE countOf'[d] >= 1
    BY DEF NotZeroOnceStored
  <2>1. CASE d = c
    BY <1>1, <2>1 DEF CounterInv, CounterTypeOK
  <2>2. CASE d # c
    BY <1>1, <1>3, <2>2 DEF CounterInv, CounterTypeOK, NotZeroOnceStored
  <2> QED
    BY <2>1, <2>2
<1>8. EndsCounted'
  BY <1>1, <1>3 DEF CounterInv, EndsCounted, Unlocked
<1>9. CreatedInOrder' /\ AllEnded'
  BY <1>1, ThreadKeepsCreated DEF StoreAt
<1> QED
  BY <1>2, <1>6, <1>7, <1>8, <1>9 DEF CounterInv

LEMMA CountEndKeepsInv ==
  ASSUME CounterInv, NEW t \in PoolThread, CountEnd(t)
  PROVE  CounterInv'
<1>1. /\ atStep[t] = "count end"
      /\ EndCounter' = EndCounter + 1
      /\ atStep' = [atStep EXCEPT ![t] = "end"]
      /\ UNCHANGED <<countOf, openHandles, loaded, mainAt>>
  BY DEF CountEnd
<1>2. CounterTypeOK'
  <2>1. EndCounter' \in Nat
    <3>1. EndCounter \in Nat /\ EndCounter' = EndCounter + 1
      BY <1>1 DEF CounterInv, CounterTypeOK
    <3> QED
      BY <3>1
  <2>2. atStep' \in [PoolThread -> CounterSteps]
    BY <1>1 DEF CounterInv, CounterTypeOK, CounterSteps
  <2> QED
    BY <1>1, <2>1, <2>2 DEF CounterInv, CounterTypeOK
<1>3. \A d \in Unlocked : Stored(d)' = Stored(d)
  <2> SUFFICES ASSUME NEW d \in Unlocked PROVE Stored(d)' = Stored(d)
    OBVIOUS
  <2>1. "count end" \in After(d) <=> "end" \in After(d)
    BY DEF After, Unlocked
  <2> QED
    BY <1>1, <2>1, SameStored DEF CounterInv
<1>4. Cardinality(Stored("EndCounter")') = Cardinality(Stored("EndCounter")) + 1
  <2>1. "count end" \notin After("EndCounter") /\ "end" \in After("EndCounter")
    BY DEF After
  <2> QED
    BY <1>1, <2>1, OneMoreStored DEF CounterInv
<1>5. EndsCounted'
  BY <1>1, <1>4 DEF CounterInv, EndsCounted
<1>6. NoMoreThanStored' /\ NotZeroOnceStored'
  BY <1>1, <1>3
     DEF CounterInv, CounterTypeOK, NoMoreThanStored, NotZeroOnceStored, StoreAt
<1>7. CreatedInOrder' /\ AllEnded'
  BY <1>1, ThreadKeepsCreated
<1> QED
  BY <1>2, <1>5, <1>6, <1>7 DEF CounterInv

\* The four unlocked steps of a thread, and the interlocked one.
LEMMA ThreadKeepsInv ==
  ASSUME CounterInv, NEW t \in PoolThread, sTestThreadProc(t)
  PROVE  CounterInv'
<1> USE DEF Unlocked, CounterSteps, StoreAt, After
<1>1. CASE Load(t, "gCounter", "load gCounter", "store gCounter")
  BY <1>1, LoadKeepsInv
<1>2. CASE Store(t, "gCounter", "store gCounter", "load Counter")
  BY <1>2, StoreKeepsInv
<1>3. CASE Load(t, "Counter", "load Counter", "store Counter")
  BY <1>3, LoadKeepsInv
<1>4. CASE Store(t, "Counter", "store Counter", "count end")
  BY <1>4, StoreKeepsInv
<1> QED
  BY <1>1, <1>2, <1>3, <1>4, CountEndKeepsInv DEF sTestThreadProc

\* Main waits for as many ends as there are threads: for all of them.
LEMMA MainKeepsInv ==
  ASSUME CounterInv, WaitForThreads \/ ReleaseThreads
  PROVE  CounterInv'
<1>1. UNCHANGED <<countOf, EndCounter, atStep, loaded>> /\ mainAt' \in {"release", "end"}
  BY DEF WaitForThreads, ReleaseThreads
<1>2. CounterTypeOK' /\ NoMoreThanStored' /\ NotZeroOnceStored' /\ EndsCounted'
  BY <1>1 DEF CounterInv, CounterTypeOK, NoMoreThanStored, NotZeroOnceStored, EndsCounted,
              Stored
<1>3. \A t \in PoolThread : atStep[t] = "end"
  <2>1. CASE WaitForThreads
    <3>1. Stored("EndCounter") = PoolThread
      BY <2>1, StoredFinite DEF WaitForThreads, CounterInv, EndsCounted
    <3> QED
      BY <3>1 DEF Stored, After
  <2>2. CASE ReleaseThreads
    BY <2>2 DEF ReleaseThreads, CounterInv, AllEnded
  <2> QED
    BY <2>1, <2>2
<1>4. CreatedInOrder' /\ AllEnded'
  BY <1>1, <1>3 DEF CreatedInOrder, AllEnded
<1> QED
  BY <1>2, <1>4 DEF CounterInv

LEMMA CounterInvNext ==
  ASSUME CounterInv, [CounterNext]_counterVars
  PROVE  CounterInv'
<1>1. CASE UNCHANGED counterVars
  BY <1>1 DEF counterVars, CounterInv, CounterTypeOK, NoMoreThanStored, NotZeroOnceStored,
              EndsCounted, CreatedInOrder, AllEnded, Stored
<1>2. CASE CounterNext
  BY <1>1, <1>2, CreateKeepsInv, MainKeepsInv, ThreadKeepsInv DEF CounterNext
<1> QED
  BY <1>1, <1>2

LEMMA InvMeansSafe == CounterInv => CounterSafe
<1> SUFFICES ASSUME CounterInv PROVE CounterSafe
  OBVIOUS
<1>1. WaitIsForAll
  BY DEF CounterInv, AllEnded, WaitIsForAll
<1>2. ASSUME NEW c \in Unlocked
      PROVE  /\ countOf[c] <= THREAD_POOL_MAX
             /\ {t \in PoolThread : atStep[t] \in {"count end", "end"}} # {} => countOf[c] >= 1
  <2>1. countOf[c] \in Nat /\ countOf[c] <= Cardinality(Stored(c))
    BY DEF CounterInv, CounterTypeOK, NoMoreThanStored
  <2>2. countOf[c] <= THREAD_POOL_MAX
    BY <2>1, StoredFinite, ThreadCounterAssumption
  <2>3. {t \in PoolThread : atStep[t] \in {"count end", "end"}} \subseteq Stored(c)
    BY DEF Stored, After, Unlocked
  <2> QED
    BY <2>2, <2>3 DEF CounterInv, NotZeroOnceStored
<1> QED
  BY <1>1, <1>2 DEF CounterSafe, CountsBounded, Unlocked

\* Tutorial 3-1 with any number of threads: whatever the interleaving of loads
\* and stores, main waits for every thread, and what it prints is at least 1
\* and at most the number of threads.
THEOREM CountersSafe == CounterSpec => []CounterSafe
<1>1. CounterInv /\ [CounterNext]_counterVars => CounterInv'
  BY CounterInvNext
<1> QED
  BY CounterInvInit, <1>1, InvMeansSafe, PTL DEF CounterSpec

-----------------------------------------------------------------------------
(* 3-2: the critical section loses no increment, and is deleted only when    *)
(* nobody will enter it again.                                               *)

Counters == {"gCounter", "Counter", "EndCounter"}
Inside == {"gCounter", "Counter", "EndCounter", "unlock"}
LockSteps == {"none", "lock", "end"} \cup Inside

LockTypeOK ==
  /\ lockedCount \in [Counters -> Nat]
  /\ owner \in LockingThread \cup {NoThread}
  /\ sectionExists \in BOOLEAN
  /\ lockStep \in [LockingThread -> LockSteps]
  /\ lockMain \in {"create", "wait", "release", "end"}

\* The owner is the thread inside the section.
OneInside == \A t \in LockingThread : lockStep[t] \in Inside <=> owner = t

\* Where a thread is when it has incremented a counter.
Beyond(counter) ==
  CASE counter = "gCounter" -> {"Counter", "EndCounter", "unlock", "end"}
    [] counter = "Counter" -> {"EndCounter", "unlock", "end"}
    [] OTHER -> {"unlock", "end"}

Counted ==
  \A c \in Counters : lockedCount[c] = Cardinality(Passed(Beyond(c)))

\* Main goes on when every thread has counted, and then deletes the section.
AllCounted ==
  /\ lockMain \in {"release", "end"} =>
       \A t \in LockingThread : lockStep[t] \in {"unlock", "end"}
  /\ ~sectionExists => lockMain = "end"

LockInv == LockTypeOK /\ OneInside /\ Counted /\ AllCounted

-----------------------------------------------------------------------------
LEMMA PassedFinite ==
  ASSUME NEW steps
  PROVE  IsFiniteSet(Passed(steps)) /\ Passed(steps) \subseteq LockingThread
  BY FS_Subset, LockingThreadAssumption DEF Passed

LEMMA LockInvInit == LockInit => LockInv
<1> SUFFICES ASSUME LockInit PROVE LockInv
  OBVIOUS
<1>1. \A c \in Counters : Passed(Beyond(c)) = {}
  BY DEF LockInit, Passed, Beyond, Counters
<1>2. Counted
  BY <1>1, FS_EmptySet DEF Counted, LockInit, Counters
<1>3. LockTypeOK /\ OneInside /\ AllCounted
  BY LockingThreadAssumption
     DEF LockInit, LockTypeOK, OneInside, AllCounted, Counters, Inside, LockSteps
<1> QED
  BY <1>2, <1>3 DEF LockInv

\* A step of a thread that passes no counter leaves the counts as they are.
LEMMA SamePassed ==
  ASSUME LockTypeOK, NEW t \in LockingThread, NEW next, NEW c \in Counters,
         lockStep' = [lockStep EXCEPT ![t] = next],
         lockStep[t] \in Beyond(c) <=> next \in Beyond(c)
  PROVE  Passed(Beyond(c))' = Passed(Beyond(c))
  BY DEF Passed, LockTypeOK, Beyond

\* One that passes it raises the count by one.
LEMMA OneMorePassed ==
  ASSUME LockTypeOK, NEW t \in LockingThread, NEW next, NEW c \in Counters,
         lockStep' = [lockStep EXCEPT ![t] = next],
         lockStep[t] \notin Beyond(c), next \in Beyond(c)
  PROVE  Cardinality(Passed(Beyond(c)))' = Cardinality(Passed(Beyond(c))) + 1
<1>1. Passed(Beyond(c))' = Passed(Beyond(c)) \cup {t}
  BY DEF Passed, LockTypeOK, Beyond
<1>2. t \notin Passed(Beyond(c))
  BY DEF Passed
<1> QED
  BY <1>1, <1>2, PassedFinite, FS_AddElement

\* An increment in the section keeps the invariant.
LEMMA IncrementKeeps ==
  ASSUME LockInv, NEW t \in LockingThread, NEW c \in Counters, NEW next \in Inside,
         Increment(t, c, next),
         next \in Beyond(c), c \notin Beyond(c),
         \A d \in Counters \ {c} : c \in Beyond(d) <=> next \in Beyond(d)
  PROVE  LockInv'
<1>1. /\ lockStep[t] = c
      /\ lockStep' = [lockStep EXCEPT ![t] = next]
      /\ lockedCount' = [lockedCount EXCEPT ![c] = @ + 1]
      /\ UNCHANGED <<owner, sectionExists, lockMain>>
  BY DEF Increment
<1>2. LockTypeOK'
  BY <1>1 DEF LockInv, LockTypeOK, Counters, LockSteps, Inside
<1>3. OneInside'
  BY <1>1 DEF LockInv, LockTypeOK, OneInside, Counters, Inside
<1>4. Counted'
  <2> SUFFICES ASSUME NEW d \in Counters
               PROVE  lockedCount'[d] = Cardinality(Passed(Beyond(d)))'
    BY DEF Counted, Beyond
  <2>1. CASE d = c
    BY <1>1, <2>1, OneMorePassed DEF LockInv, LockTypeOK, Counted
  <2>2. CASE d # c
    BY <1>1, <2>2, SamePassed DEF LockInv, LockTypeOK, Counted
  <2> QED
    BY <2>1, <2>2
<1>5. AllCounted'
  BY <1>1 DEF LockInv, LockTypeOK, AllCounted, Counters
<1> QED
  BY <1>2, <1>3, <1>4, <1>5 DEF LockInv

\* A step that moves one thread and passes no counter keeps the counts.
LEMMA MoveKeepsCounts ==
  ASSUME LockInv, NEW t \in LockingThread, NEW next,
         lockStep' = [lockStep EXCEPT ![t] = next],
         lockedCount' = lockedCount,
         \A c \in Counters : lockStep[t] \in Beyond(c) <=> next \in Beyond(c)
  PROVE  Counted'
<1> SUFFICES ASSUME NEW c \in Counters
             PROVE  lockedCount'[c] = Cardinality(Passed(Beyond(c)))'
  BY DEF Counted, Beyond
<1>1. Passed(Beyond(c))' = Passed(Beyond(c))
  BY SamePassed DEF LockInv
<1> QED
  BY <1>1 DEF LockInv, Counted

LEMMA CreateKeeps ==
  ASSUME LockInv, NEW t \in LockingThread, CreateLockThread(t)
  PROVE  LockInv'
<1>1. Counted'
  BY MoveKeepsCounts DEF CreateLockThread, Beyond, Counters
<1>2. LockTypeOK'
  BY DEF CreateLockThread, LockInv, LockTypeOK, LockSteps, Counters
<1>3. OneInside'
  BY DEF CreateLockThread, LockInv, LockTypeOK, OneInside, Inside
<1>4. AllCounted'
  BY DEF CreateLockThread, LockInv, AllCounted
<1> QED
  BY <1>1, <1>2, <1>3, <1>4 DEF LockInv

\* A thread that enters finds nobody inside.
LEMMA EnterKeeps ==
  ASSUME LockInv, NEW t \in LockingThread, EnterSection(t)
  PROVE  LockInv'
<1>1. Counted'
  BY MoveKeepsCounts DEF EnterSection, Beyond, Counters
<1>2. LockTypeOK'
  BY DEF EnterSection, LockInv, LockTypeOK, LockSteps, Inside, Counters
<1>3. OneInside'
  BY LockingThreadAssumption
     DEF EnterSection, LockInv, LockTypeOK, OneInside, Inside
<1>4. AllCounted'
  BY DEF EnterSection, LockInv, LockTypeOK, AllCounted
<1> QED
  BY <1>1, <1>2, <1>3, <1>4 DEF LockInv

\* The thread that leaves is the one inside.
LEMMA LeaveKeeps ==
  ASSUME LockInv, NEW t \in LockingThread, LeaveSection(t)
  PROVE  LockInv'
<1>1. Counted'
  BY MoveKeepsCounts DEF LeaveSection, Beyond, Counters
<1>2. LockTypeOK'
  BY DEF LeaveSection, LockInv, LockTypeOK, LockSteps, Counters
<1>3. OneInside'
  BY LockingThreadAssumption
     DEF LeaveSection, LockInv, LockTypeOK, OneInside, Inside
<1>4. AllCounted'
  BY DEF LeaveSection, LockInv, LockTypeOK, AllCounted
<1> QED
  BY <1>1, <1>2, <1>3, <1>4 DEF LockInv

\* The three increments, in the order of Test_InThread.
LEMMA ThreadKeeps ==
  ASSUME LockInv, NEW t \in LockingThread, Test_InThread(t)
  PROVE  LockInv'
<1>1. CASE Increment(t, "gCounter", "Counter")
  BY <1>1, IncrementKeeps DEF Counters, Inside, Beyond
<1>2. CASE Increment(t, "Counter", "EndCounter")
  BY <1>2, IncrementKeeps DEF Counters, Inside, Beyond
<1>3. CASE Increment(t, "EndCounter", "unlock")
  BY <1>3, IncrementKeeps DEF Counters, Inside, Beyond
<1> QED
  BY <1>1, <1>2, <1>3, EnterKeeps, LeaveKeeps DEF Test_InThread

\* EndCounter is full only when every thread has counted.
LEMMA FullMeansAll ==
  ASSUME LockInv, lockedCount.EndCounter = THREADS
  PROVE  \A t \in LockingThread : lockStep[t] \in {"unlock", "end"}
<1>1. Cardinality(Passed(Beyond("EndCounter"))) = Cardinality(LockingThread)
  BY DEF LockInv, Counted, Counters, THREADS
<1>2. Passed(Beyond("EndCounter")) = LockingThread
  BY <1>1, PassedFinite, FS_Subset, LockingThreadAssumption
<1> QED
  BY <1>2 DEF Passed, Beyond

LEMMA MainKeepsLockInv ==
  ASSUME LockInv, AllCreated \/ LockWait \/ LockRelease
  PROVE  LockInv'
<1>1. UNCHANGED <<lockedCount, owner, lockStep>>
  BY DEF AllCreated, LockWait, LockRelease
<1>2. OneInside' /\ Counted'
  BY <1>1 DEF LockInv, OneInside, Counted, Passed, Beyond
<1>3. LockTypeOK'
  BY <1>1 DEF AllCreated, LockWait, LockRelease, LockInv, LockTypeOK
<1>4. AllCounted'
  BY <1>1, FullMeansAll
     DEF AllCreated, LockWait, LockRelease, LockInv, LockTypeOK, AllCounted
<1> QED
  BY <1>2, <1>3, <1>4 DEF LockInv

\* Inductiveness: every step keeps LockInv.
LEMMA LockInvNext ==
  ASSUME LockInv, [LockNext]_lockVars
  PROVE  LockInv'
<1>1. CASE UNCHANGED lockVars
  BY <1>1 DEF lockVars, LockInv, LockTypeOK, OneInside, Counted, AllCounted,
              Passed, Beyond
<1>2. CASE LockNext
  BY <1>2, CreateKeeps, ThreadKeeps, MainKeepsLockInv DEF LockNext
<1> QED
  BY <1>1, <1>2

\* What the invariant says of the three counters.
LEMMA CountsMeanSafe == LockInv => LockSafe
<1> SUFFICES ASSUME LockInv PROVE LockSafe
  OBVIOUS
<1>1. /\ lockedCount.gCounter =
           Cardinality(Passed({"Counter", "EndCounter", "unlock", "end"}))
      /\ lockedCount.Counter = Cardinality(Passed({"EndCounter", "unlock", "end"}))
      /\ lockedCount.EndCounter = Cardinality(Passed({"unlock", "end"}))
  BY DEF LockInv, Counted, Counters, Beyond
<1>2. ASSUME lockMain \in {"release", "end"}
      PROVE  lockedCount = [gCounter |-> THREADS, Counter |-> THREADS,
                            EndCounter |-> THREADS]
  <2>1. \A t \in LockingThread : lockStep[t] \in {"unlock", "end"}
    BY <1>2 DEF LockInv, AllCounted
  <2>2. /\ Passed({"Counter", "EndCounter", "unlock", "end"}) = LockingThread
        /\ Passed({"EndCounter", "unlock", "end"}) = LockingThread
        /\ Passed({"unlock", "end"}) = LockingThread
    BY <2>1 DEF Passed
  <2>3. \A c \in Counters : lockedCount[c] = THREADS
    BY <1>1, <2>2 DEF Counters, THREADS
  <2>4. lockedCount \in [{"gCounter", "Counter", "EndCounter"} -> Nat]
    BY DEF LockInv, LockTypeOK, Counters
  <2> QED
    BY <2>3, <2>4 DEF Counters
<1>3. OnlyLastStillInside
  BY DEF LockInv, LockTypeOK, OneInside, AllCounted, OnlyLastStillInside, Inside
<1> QED
  BY <1>1, <1>2, <1>3 DEF LockSafe, NoIncrementLost

\* Tutorial 3-2 with any number of threads: no increment is lost, and the
\* section is deleted when nobody is outside it with a step still to take.
THEOREM LockCorrect == LockSpec => []LockSafe
<1>1. LockInv /\ [LockNext]_lockVars => LockInv'
  BY LockInvNext
<1> QED
  BY LockInvInit, <1>1, CountsMeanSafe, PTL DEF LockSpec

-----------------------------------------------------------------------------
(***************************************************************************)
(* Packets on a byte stream, whatever lengths they have, however much the  *)
(* sockets buffer and however often either side tries again.               *)
(***************************************************************************)

Byte == [packet : Nat, at : Nat]
FromPackets(s) == \A i \in DOMAIN s : s[i].packet \in 1 .. Len(lengths)

RecvPhase == {"idle", "length", "content", "overrun"}

StreamTypeOK ==
  /\ receiver \in {"server", "client", "unity"}
  /\ lengths \in Seq(PacketLengths)
  /\ whole \in Seq(Nat) /\ \A i \in DOMAIN whole : whole[i] \in 1 .. Len(lengths)
  /\ sendLeft \in Nat /\ sendRetry \in Nat
  /\ sendOpen \in BOOLEAN /\ recvUp \in BOOLEAN /\ cut \in BOOLEAN
  /\ readContinue \in BOOLEAN
  /\ wire \in Seq(Byte) /\ FromPackets(wire)
  /\ recvBuffer \in Seq(Byte) /\ FromPackets(recvBuffer)
  /\ recvAt \in RecvPhase
  /\ recvLeft \in Int /\ recvRetry \in Nat
  /\ nodesTaken \in Int
  /\ received \in Seq(Seq(Byte))

\* What SendEx still has to send is a part of the last packet.
LastPacket ==
  /\ sendLeft > 0 => sendOpen /\ lengths # <<>> /\ sendLeft <= lengths[Len(lengths)]

\* In s, which has z elements, are from pos[i] on the packets out[i] behind the
\* first r of m, and after them the beginning of packet last.
Placed(pos, r, out, m, lens, last, s, z) ==
  /\ \A i \in r + 1 .. m + 1 : pos[i] \in 0 .. z
  /\ pos[r + 1] = 0
  /\ \A i \in r + 1 .. m :
       /\ pos[i + 1] = pos[i] + lens[out[i]]
       /\ \A j \in i + 1 .. m + 1 : pos[i + 1] <= pos[j]
       /\ \A k \in 1 .. lens[out[i]] : s[pos[i] + k] = [packet |-> out[i], at |-> k]
  /\ \A k \in 1 .. z - pos[m + 1] : s[pos[m + 1] + k] = [packet |-> last, at |-> k]

\* As many of its bytes as have been sent.
Begun(b, lens, left, open) ==
  /\ IF lens = <<>> THEN b = 0 ELSE b < lens[Len(lens)]
  /\ left > 0 => b = lens[Len(lens)] - left
  /\ left = 0 /\ open => b = 0

\* The bytes that have been sent and not handed on.
Ahead == recvBuffer \o wire
OnTheWay ==
  \E pos :
    /\ Placed(pos, Len(received), whole, Len(whole), lengths, Len(lengths),
              Ahead, Len(Ahead))
    /\ Begun(Len(Ahead) - pos[Len(whole) + 1], lengths, sendLeft, sendOpen)

\* The Unity client waits for the rest of a packet that will not come.
Stalled == receiver = "unity" /\ ~sendOpen /\ wire = <<>> /\ recvLeft > 0

\* The packet whose bytes are in recvBuffer.
Front ==
  IF Len(received) < Len(whole) THEN whole[Len(received) + 1] ELSE Len(lengths)

\* recvLeft is what the length, or the packet, lacks.
BufferOK ==
  /\ recvAt # "overrun"
  /\ \/ Stalled
     \/ /\ recvLeft >= 0
        /\ IF recvAt = "content"
           THEN /\ Len(recvBuffer) >= PACKET_LENGTH_SIZE
                /\ Len(recvBuffer) + recvLeft = lengths[Front]
           ELSE Len(recvBuffer) + recvLeft = PACKET_LENGTH_SIZE
        /\ recvAt # "content" => readContinue = FALSE
        /\ recvAt = "idle" /\ receiver # "client" => recvBuffer = <<>>

HandedOn ==
  /\ Len(received) <= Len(whole)
  /\ InStep
  /\ IF recvUp THEN OnTheWay /\ BufferOK ELSE recvAt = "idle" /\ receiver # "unity"

StreamInv == StreamTypeOK /\ LastPacket /\ NoNodeKept /\ (~cut => HandedOn)

-----------------------------------------------------------------------------
(* Sequences, and packets one after the other in a sequence of bytes. *)

LEMMA Joined ==
    ASSUME NEW S, NEW s \in Seq(S), NEW t \in Seq(S)
    PROVE  /\ s \o t \in Seq(S) /\ Len(s) \in Nat /\ Len(t) \in Nat
           /\ Len(s \o t) = Len(s) + Len(t)
           /\ \A i \in 1 .. Len(s) : (s \o t)[i] = s[i]
           /\ \A i \in 1 .. Len(t) : (s \o t)[Len(s) + i] = t[i]
BY ConcatProperties, LenProperties

LEMMA Appended ==
    ASSUME NEW S, NEW s \in Seq(S), NEW e \in S
    PROVE  /\ Append(s, e) \in Seq(S) /\ Len(s) \in Nat
           /\ Len(Append(s, e)) = Len(s) + 1
           /\ \A i \in 1 .. Len(s) : Append(s, e)[i] = s[i]
           /\ Append(s, e)[Len(s) + 1] = e
BY AppendProperties, LenProperties

LEMMA NewLength ==
    ASSUME NEW r \in Nat, NEW m \in Nat, NEW z \in Nat, NEW pos, NEW out, NEW lens,
           NEW last, NEW s, NEW more, NEW new,
           Placed(pos, r, out, m, lens, last, s, z), pos[m + 1] = z,
           \A i \in 1 .. m : more[out[i]] = lens[out[i]]
    PROVE  Placed(pos, r, out, m, more, new, s, z)
<1>1. \A i \in r + 1 .. m : more[out[i]] = lens[out[i]]
  OBVIOUS
<1>2. \A k \in 1 .. z - pos[m + 1] : FALSE
  OBVIOUS
<1> QED
  BY <1>1, <1>2 DEF Placed

LEMMA MoreSent ==
    ASSUME NEW r \in Nat, NEW m \in Nat, NEW z \in Nat, NEW pos, NEW out, NEW lens,
           NEW last, NEW s, NEW y \in Nat, NEW u,
           Placed(pos, r, out, m, lens, last, s, z), r <= m, z <= y,
           \A i \in r + 1 .. m : lens[out[i]] \in Nat,
           \A i \in 1 .. z : u[i] = s[i],
           \A i \in z + 1 .. y : u[i] = [packet |-> last, at |-> i - pos[m + 1]]
    PROVE  Placed(pos, r, out, m, lens, last, u, y)
<1>1. PICK e \in 0 .. z : e = pos[m + 1]
  BY DEF Placed
<1>2. \A i \in r + 1 .. m + 1 : pos[i] \in 0 .. y
  BY DEF Placed
<1>3. ASSUME NEW i \in r + 1 .. m, NEW j \in 1 .. lens[out[i]]
      PROVE  u[pos[i] + j] = [packet |-> out[i], at |-> j]
  <2>1. PICK p \in 0 .. z, q \in 0 .. z, n \in Nat : p = pos[i] /\ q = pos[i + 1] /\ n = lens[out[i]]
    <3>1. i \in r + 1 .. m + 1 /\ i + 1 \in r + 1 .. m + 1
      OBVIOUS
    <3> QED
      BY <3>1 DEF Placed
  <2>2. q = p + n /\ s[p + j] = [packet |-> out[i], at |-> j]
    BY <2>1 DEF Placed
  <2>3. p + j \in 1 .. z
    BY <2>1, <2>2
  <2> QED
    BY <2>1, <2>2, <2>3
<1>4. ASSUME NEW j \in 1 .. y - e
      PROVE  u[e + j] = [packet |-> last, at |-> j]
  <2>1. CASE j <= z - e
    <3>1. j \in 1 .. z - e /\ e + j \in 1 .. z
      BY <2>1
    <3>2. s[e + j] = [packet |-> last, at |-> j]
      BY <1>1, <3>1 DEF Placed
    <3> QED
      BY <3>1, <3>2
  <2>2. CASE j > z - e
    <3>1. e + j \in z + 1 .. y /\ e + j - e = j
      BY <2>2
    <3> QED
      BY <1>1, <3>1
  <2> QED
    BY <2>1, <2>2
<1> QED
  BY <1>1, <1>2, <1>3, <1>4 DEF Placed

\* The positions, when the beginning of the last packet has become all of it.
ToTheEnd(pos, r, m, z) == [i \in r + 1 .. m + 2 |-> IF i = m + 2 THEN z ELSE pos[i]]

LEMMA NowWhole ==
    ASSUME NEW r \in Nat, NEW m \in Nat, NEW z \in Nat, NEW pos, NEW out, NEW lens,
           NEW last, NEW s, NEW more,
           Placed(pos, r, out, m, lens, last, s, z), r <= m,
           lens[last] = z - pos[m + 1],
           \A i \in 1 .. m : more[i] = out[i], more[m + 1] = last
    PROVE  /\ Placed(ToTheEnd(pos, r, m, z), r, more, m + 1, lens, last, s, z)
           /\ ToTheEnd(pos, r, m, z)[m + 2] = z
<1> DEFINE q == ToTheEnd(pos, r, m, z)
<1>1. /\ \A i \in r + 1 .. m + 1 : q[i] = pos[i]
      /\ q[m + 2] = z
  BY DEF ToTheEnd
<1> HIDE DEF q
<1>2. PICK e \in 0 .. z : e = pos[m + 1]
  BY DEF Placed
<1>3. ASSUME NEW i \in r + 1 .. m + 2 PROVE q[i] \in 0 .. z
  <2>1. CASE i = m + 2
    BY <1>1, <2>1
  <2>2. CASE i # m + 2
    <3>1. i \in r + 1 .. m + 1
      BY <2>2
    <3> QED
      BY <1>1, <3>1 DEF Placed
  <2> QED
    BY <2>1, <2>2
<1>4. ASSUME NEW i \in r + 1 .. m + 1
      PROVE  LET o == more[i] IN
             /\ q[i + 1] = q[i] + lens[o]
             /\ \A j \in i + 1 .. m + 2 : q[i + 1] <= q[j]
             /\ \A k \in 1 .. lens[o] : s[q[i] + k] = [packet |-> o, at |-> k]
  <2>1. CASE i \in r + 1 .. m
    <3>1. /\ i \in 1 .. m /\ i \in r + 1 .. m + 1 /\ i + 1 \in r + 1 .. m + 1
          /\ \A j \in i + 1 .. m + 2 : j \in i + 1 .. m + 1 \/ j = m + 2
          /\ \A j \in i + 1 .. m + 1 : j \in r + 1 .. m + 1
      BY <2>1
    <3>2. /\ pos[i + 1] = pos[i] + lens[out[i]]
          /\ \A j \in i + 1 .. m + 1 : pos[i + 1] <= pos[j]
          /\ \A k \in 1 .. lens[out[i]] : s[pos[i] + k] = [packet |-> out[i], at |-> k]
      BY <2>1 DEF Placed
    <3>3. pos[i + 1] \in 0 .. z
      BY <3>1 DEF Placed
    <3>4. more[i] = out[i] /\ q[i] = pos[i] /\ q[i + 1] = pos[i + 1]
      BY <1>1, <3>1
    <3>5. ASSUME NEW j \in i + 1 .. m + 2 PROVE q[i + 1] <= q[j]
      <4>1. CASE j \in i + 1 .. m + 1
        BY <1>1, <3>1, <3>2, <3>4, <4>1
      <4>2. CASE j = m + 2
        BY <1>1, <3>3, <3>4, <4>2
      <4> QED
        BY <3>1, <4>1, <4>2
    <3> QED
      BY <3>2, <3>4, <3>5
  <2>2. CASE i = m + 1
    <3>1. /\ q[i] = e /\ q[i + 1] = z /\ more[i] = last
          /\ \A j \in i + 1 .. m + 2 : j = i + 1
      <4>1. i + 1 = m + 2 /\ i \in r + 1 .. m + 1
        BY <2>2
      <4> QED
        BY <1>1, <1>2, <2>2, <4>1
    <3>2. \A k \in 1 .. z - e : s[e + k] = [packet |-> last, at |-> k]
      BY <1>2 DEF Placed
    <3>3. lens[last] = z - e /\ z = e + (z - e) /\ z <= z
      BY <1>2
    <3> QED
      BY <3>1, <3>2, <3>3
  <2> QED
    BY <2>1, <2>2
<1>5. \A k \in 1 .. z - q[m + 2] : FALSE
  BY <1>1
<1>6. m + 1 + 1 = m + 2 /\ q[r + 1] = 0
  <2>1. r + 1 \in r + 1 .. m + 1
    OBVIOUS
  <2> QED
    BY <1>1, <2>1 DEF Placed
<1>7. Placed(q, r, more, m + 1, lens, last, s, z)
  BY <1>3, <1>4, <1>5, <1>6 DEF Placed
<1> QED
  BY <1>1, <1>7 DEF q

\* The positions, without those of the first packet, of n bytes.
Behind(pos, r, m, n) == [i \in r + 2 .. m + 1 |-> pos[i] - n]

LEMMA PacketHanded ==
    ASSUME NEW r \in Nat, NEW m \in Nat, NEW z \in Nat, NEW pos, NEW out, NEW lens,
           NEW last, NEW u, NEW t, NEW n \in Nat, NEW y \in Nat,
           Placed(pos, r, out, m, lens, last, u, y), y = n + z, r < m, n = lens[out[r + 1]],
           \A i \in 1 .. z : u[n + i] = t[i],
           \A i \in r + 1 .. m : lens[out[i]] \in Nat
    PROVE  Placed(Behind(pos, r, m, n), r + 1, out, m, lens, last, t, z)
<1>1. /\ pos[r + 2] = n
      /\ \A i \in r + 2 .. m + 1 : pos[i] >= n
  <2>1. /\ pos[r + 1] = 0 /\ r + 1 \in r + 1 .. m /\ r + 1 + 1 = r + 2
        /\ pos[r + 2] = pos[r + 1] + n /\ \A j \in r + 2 .. m + 1 : pos[r + 2] <= pos[j]
    BY DEF Placed
  <2>2. pos[r + 2] = n
    BY <2>1
  <2>3. \A j \in r + 2 .. m + 1 : j \in r + 1 .. m + 1
    OBVIOUS
  <2>4. \A j \in r + 2 .. m + 1 : pos[j] \in 0 .. n + z
    BY <2>3 DEF Placed
  <2>5. \A j \in r + 2 .. m + 1 : n <= pos[j]
    BY <2>1, <2>2
  <2> QED
    BY <2>2, <2>4, <2>5
<1> DEFINE q == Behind(pos, r, m, n)
<1>2. \A i \in r + 2 .. m + 1 : q[i] = pos[i] - n
  BY DEF Behind
<1> HIDE DEF q
<1>3. ASSUME NEW i \in r + 2 .. m + 1
      PROVE  q[i] \in 0 .. z /\ pos[i] = n + q[i]
  <2>1. PICK p \in 0 .. n + z : p = pos[i]
    <3>1. i \in r + 1 .. m + 1
      OBVIOUS
    <3> QED
      BY <3>1 DEF Placed
  <2>2. p >= n /\ q[i] = p - n
    BY <1>1, <1>2, <2>1
  <2> QED
    BY <2>1, <2>2
<1>4. ASSUME NEW i \in r + 2 .. m
      PROVE  /\ q[i + 1] = q[i] + lens[out[i]]
             /\ \A j \in i + 1 .. m + 1 : q[i + 1] <= q[j]
             /\ \A k \in 1 .. lens[out[i]] : t[q[i] + k] = [packet |-> out[i], at |-> k]
  <2>1. /\ i \in r + 1 .. m /\ i \in r + 2 .. m + 1 /\ i + 1 \in r + 2 .. m + 1
        /\ \A j \in i + 1 .. m + 1 : j \in r + 2 .. m + 1
    OBVIOUS
  <2>2. /\ pos[i + 1] = pos[i] + lens[out[i]]
        /\ \A j \in i + 1 .. m + 1 : pos[i + 1] <= pos[j]
        /\ \A k \in 1 .. lens[out[i]] : u[pos[i] + k] = [packet |-> out[i], at |-> k]
    BY <2>1 DEF Placed
  <2>3. PICK h \in Nat : h = lens[out[i]]
    BY <2>1
  <2>4. PICK f \in 0 .. z, g \in 0 .. z :
          f = q[i] /\ g = q[i + 1] /\ pos[i] = n + f /\ pos[i + 1] = n + g
    BY <1>3, <2>1
  <2>5. g = f + h
    BY <2>2, <2>3, <2>4
  <2>6. ASSUME NEW j \in i + 1 .. m + 1 PROVE g <= q[j]
    <3>1. j \in r + 2 .. m + 1 /\ n + g <= pos[j]
      BY <2>1, <2>2, <2>4
    <3>2. PICK d \in 0 .. z : d = q[j] /\ pos[j] = n + d
      BY <1>3, <3>1
    <3> QED
      BY <3>1, <3>2
  <2>7. ASSUME NEW k \in 1 .. h PROVE t[f + k] = [packet |-> out[i], at |-> k]
    <3>1. f + k \in 1 .. z /\ n + f + k = n + (f + k)
      BY <2>4, <2>5
    <3>2. u[n + f + k] = [packet |-> out[i], at |-> k]
      BY <2>2, <2>3, <2>4
    <3> QED
      BY <3>1, <3>2
  <2> QED
    BY <2>3, <2>4, <2>5, <2>6, <2>7
<1>5. PICK e \in 0 .. z : e = q[m + 1] /\ pos[m + 1] = n + e
  <2>1. m + 1 \in r + 2 .. m + 1
    OBVIOUS
  <2> QED
    BY <1>3, <2>1
<1>6. ASSUME NEW k \in 1 .. z - e
      PROVE  t[e + k] = [packet |-> last, at |-> k]
  <2>1. e + k \in 1 .. z /\ n + e + k = n + (e + k) /\ k \in 1 .. n + z - (n + e)
    OBVIOUS
  <2>2. u[n + e + k] = [packet |-> last, at |-> k]
    BY <1>5, <2>1 DEF Placed
  <2> QED
    BY <2>1, <2>2
<1>7. r + 1 + 1 = r + 2 /\ r + 2 \in r + 2 .. m + 1 /\ q[r + 2] = 0
  BY <1>1, <1>2
<1>8. Placed(q, r + 1, out, m, lens, last, t, z)
  BY <1>3, <1>4, <1>5, <1>6, <1>7 DEF Placed
<1> QED
  BY <1>8 DEF q

LEMMA PacketLong ==
    ASSUME StreamTypeOK, NEW i \in 1 .. Len(lengths)
    PROVE  lengths[i] \in Nat /\ lengths[i] >= PACKET_LENGTH_SIZE /\ lengths[i] \in PacketLengths
<1>1. lengths[i] \in PacketLengths
  BY ElementOfSeq DEF StreamTypeOK
<1>2. \A n \in PacketLengths : n \in Nat /\ n \notin 0 .. 2 - 1
  BY StreamAssumption DEF PACKET_LENGTH_SIZE
<1>3. lengths[i] \in Nat /\ lengths[i] \notin 0 .. 1
  BY <1>1, <1>2
<1> QED
  BY <1>1, <1>3 DEF PACKET_LENGTH_SIZE

LEMMA StreamInvInit == StreamInit => StreamInv
<1> SUFFICES ASSUME StreamInit PROVE StreamInv
  OBVIOUS
<1> USE DEF StreamInit, PACKET_LENGTH_SIZE
<1>1. StreamTypeOK /\ LastPacket
  <2>1. \A S : <<>> \in Seq(S) /\ DOMAIN <<>> = {}
    BY EmptySeq
  <2>2. /\ lengths \in Seq(PacketLengths) /\ whole \in Seq(Nat) /\ wire \in Seq(Byte)
        /\ recvBuffer \in Seq(Byte) /\ received \in Seq(Seq(Byte))
        /\ FromPackets(wire) /\ FromPackets(recvBuffer)
        /\ \A i \in DOMAIN whole : whole[i] \in 1 .. Len(lengths)
    BY <2>1 DEF FromPackets
  <2>3. /\ sendOpen \in BOOLEAN /\ recvUp \in BOOLEAN /\ cut \in BOOLEAN
        /\ readContinue \in BOOLEAN
    BY Zenon
  <2>4. /\ receiver \in {"server", "client", "unity"} /\ sendLeft \in Nat
        /\ sendRetry \in Nat /\ recvAt \in RecvPhase
        /\ recvLeft \in Int /\ recvRetry \in Nat /\ nodesTaken \in Int /\ ~(sendLeft > 0)
    BY DEF RecvPhase
  <2> QED
    BY <2>2, <2>3, <2>4 DEF StreamTypeOK, LastPacket
<1>2. NoNodeKept
  BY DEF NoNodeKept
<1>3. InStep
  BY DEF InStep
<1>4. OnTheWay
  <2> DEFINE pos == [i \in 1 .. 1 |-> 0]
  <2>1. Len(received) = 0 /\ Len(whole) = 0 /\ Ahead = <<>> /\ Len(Ahead) = 0 /\ lengths = <<>>
    BY DEF Ahead
  <2>2. pos[1] = 0
    OBVIOUS
  <2> HIDE DEF pos
  <2>3. Placed(pos, 0, whole, 0, lengths, Len(lengths), Ahead, 0)
    BY <2>2 DEF Placed
  <2>4. Begun(0 - pos[0 + 1], lengths, sendLeft, sendOpen)
    BY <2>1, <2>2 DEF Begun
  <2> QED
    BY <2>1, <2>3, <2>4 DEF OnTheWay
<1>5. BufferOK
  BY DEF BufferOK
<1> QED
  BY <1>1, <1>2, <1>3, <1>4, <1>5 DEF StreamInv, HandedOn

\* What neither the sender nor the receiver touches stays in its place.
LEMMA WaySame ==
    ASSUME UNCHANGED <<lengths, whole, received, sendLeft, sendOpen, Ahead>>, OnTheWay
    PROVE  OnTheWay'
BY DEF OnTheWay, Begun

LEMMA StepSame ==
    ASSUME UNCHANGED <<lengths, whole, received, cut>>, InStep
    PROVE  InStep'
BY DEF InStep

LEMMA StreamTypes ==
    ASSUME StreamTypeOK
    PROVE  /\ Len(received) \in Nat /\ Len(whole) \in Nat /\ Len(lengths) \in Nat
           /\ Ahead \in Seq(Byte) /\ Len(Ahead) \in Nat
           /\ Len(Ahead) = Len(recvBuffer) + Len(wire)
           /\ \A i \in 1 .. Len(whole) : whole[i] \in 1 .. Len(lengths) /\ lengths[whole[i]] \in Nat
<1>1. /\ Len(received) \in Nat /\ Len(whole) \in Nat /\ Len(lengths) \in Nat
      /\ \A i \in 1 .. Len(whole) : whole[i] \in 1 .. Len(lengths)
  BY LenProperties DEF StreamTypeOK
<1>2. recvBuffer \in Seq(Byte) /\ wire \in Seq(Byte)
  BY DEF StreamTypeOK
<1>3. Ahead \in Seq(Byte) /\ Len(Ahead) \in Nat /\ Len(Ahead) = Len(recvBuffer) + Len(wire)
  BY <1>2, Joined, LenProperties DEF Ahead
<1> QED
  BY <1>1, <1>3, PacketLong

\* What lies in Ahead, where.
LEMMA WayPicked ==
    ASSUME StreamTypeOK, Len(received) <= Len(whole), OnTheWay
    PROVE  \E b \in Nat, m \in Nat, r \in Nat, z \in Nat, L \in Nat : \E pos :
             /\ m = Len(whole) /\ r = Len(received) /\ z = Len(Ahead) /\ L = Len(lengths)
             /\ pos[m + 1] \in 0 .. z /\ b = z - pos[m + 1]
             /\ Placed(pos, r, whole, m, lengths, L, Ahead, z) /\ Begun(b, lengths, sendLeft, sendOpen)
             /\ r = m => b = z
<1>1. PICK m \in Nat, r \in Nat, z \in Nat, L \in Nat :
        m = Len(whole) /\ r = Len(received) /\ z = Len(Ahead) /\ L = Len(lengths)
  BY StreamTypes
<1>2. PICK pos : /\ Placed(pos, r, whole, m, lengths, L, Ahead, z)
                 /\ Begun(z - pos[m + 1], lengths, sendLeft, sendOpen)
  BY <1>1 DEF OnTheWay
<1>3. ASSUME r = m PROVE pos[m + 1] = 0
  BY <1>2, <1>3 DEF Placed
<1>4. pos[m + 1] \in 0 .. z
  <2>1. m + 1 \in r + 1 .. m + 1
    BY <1>1
  <2> QED
    BY <1>2, <2>1 DEF Placed
<1>5. PICK b \in Nat : b = z - pos[m + 1]
  BY <1>4
<1>6. r = m => b = z
  BY <1>3, <1>5
<1>7. Begun(b, lengths, sendLeft, sendOpen)
  BY <1>2, <1>5
<1> QED
  BY <1>1, <1>2, <1>4, <1>5, <1>6, <1>7

\* The first packet of Ahead, and how much of it there is.
LEMMA FrontIn ==
    ASSUME StreamTypeOK, Len(received) <= Len(whole), OnTheWay, Ahead # <<>>
    PROVE  /\ Front \in 1 .. Len(lengths)
           /\ \A k \in 1 .. Len(Ahead) :
                k <= lengths[Front] => Ahead[k] = [packet |-> Front, at |-> k]
           /\ Len(Ahead) >= lengths[Front] => Len(received) < Len(whole)
<1>0. PICK b \in Nat, m \in Nat, r \in Nat, z \in Nat, L \in Nat : \E pos :
        /\ m = Len(whole) /\ r = Len(received) /\ z = Len(Ahead) /\ L = Len(lengths)
        /\ pos[m + 1] \in 0 .. z /\ b = z - pos[m + 1]
        /\ Placed(pos, r, whole, m, lengths, L, Ahead, z) /\ Begun(b, lengths, sendLeft, sendOpen)
        /\ r = m => b = z
  BY WayPicked
<1>1. PICK pos :
        /\ m = Len(whole) /\ r = Len(received) /\ z = Len(Ahead) /\ L = Len(lengths)
        /\ pos[m + 1] \in 0 .. z /\ b = z - pos[m + 1]
        /\ Placed(pos, r, whole, m, lengths, L, Ahead, z) /\ Begun(b, lengths, sendLeft, sendOpen)
        /\ r = m => b = z
  BY <1>0
<1>2. r <= m /\ z # 0
  BY <1>1, StreamTypes, EmptySeq
<1>3. CASE r < m
  <2>1. Front = whole[r + 1] /\ r + 1 \in 1 .. m /\ r + 1 \in r + 1 .. m
    BY <1>1, <1>3 DEF Front
  <2>2. PICK n \in Nat : n = lengths[Front] /\ Front \in 1 .. L
    BY <1>1, <2>1, StreamTypes
  <2>3. pos[r + 1] = 0 /\ \A k \in 1 .. n : Ahead[pos[r + 1] + k] = [packet |-> Front, at |-> k]
    BY <1>1, <2>1, <2>2 DEF Placed
  <2>4. \A k \in 1 .. n : Ahead[k] = [packet |-> Front, at |-> k]
    <3>1. \A k \in 1 .. n : 0 + k = k
      OBVIOUS
    <3> QED
      BY <2>3, <3>1
  <2>5. \A k \in 1 .. z : k <= n => k \in 1 .. n
    OBVIOUS
  <2> QED
    BY <1>1, <1>3, <2>2, <2>4, <2>5
<1>4. CASE r = m
  <2>1. Front = L /\ b = z /\ pos[m + 1] = 0
    BY <1>1, <1>4, SMTT(40) DEF Front
  <2>2. lengths # <<>> /\ b < lengths[L]
    BY <1>1, <1>2, <2>1 DEF Begun
  <2>3. L # 0
    BY <1>1, <2>2, EmptySeq DEF StreamTypeOK
  <2>4. PICK n \in Nat : n = lengths[Front] /\ Front \in 1 .. L
    BY <1>1, <2>1, <2>3, PacketLong
  <2>5. \A k \in 1 .. z : Ahead[pos[m + 1] + k] = [packet |-> Front, at |-> k]
    BY <1>1, <2>1 DEF Placed
  <2>6. \A k \in 1 .. z : Ahead[k] = [packet |-> Front, at |-> k]
    <3>1. \A k \in 1 .. z : 0 + k = k
      OBVIOUS
    <3> QED
      BY <2>1, <2>5, <3>1
  <2>7. ~(z >= n)
    BY <2>1, <2>2, <2>4
  <2> QED
    BY <1>1, <2>4, <2>6, <2>7
<1> QED
  BY <1>2, <1>3, <1>4

\* The bytes that SendEx sends next.
LEMMA NextBytes ==
    ASSUME StreamTypeOK, LastPacket, sendLeft > 0, NEW k \in 1 .. sendLeft
    PROVE  LET L == Len(lengths)
               next == SubSeq(Unsent, 1, k)
           IN  /\ L \in Nat \ {0} /\ lengths[L] \in Nat /\ sendLeft <= lengths[L]
               /\ next \in Seq(Byte) /\ Len(next) = k
               /\ \A i \in 1 .. k :
                    next[i] = [packet |-> L, at |-> lengths[L] - sendLeft + i]
<1> DEFINE L == Len(lengths)
           n == lengths[L]
           next == SubSeq(Unsent, 1, k)
<1>1. L \in Nat \ {0} /\ n \in Nat /\ sendLeft <= n /\ sendLeft \in Nat
  <2>1. L \in Nat \ {0} /\ sendLeft <= n /\ sendLeft \in Nat
    BY EmptySeq DEF StreamTypeOK, LastPacket
  <2> QED
    BY <2>1, PacketLong
<1> HIDE DEF L
<1>2. NewPacket(n) = [i \in 1 .. n |-> [packet |-> L, at |-> i]]
  BY DEF NewPacket, L
<1> DEFINE new == NewPacket(n)
<1> HIDE DEF n
<1>3. new \in Seq(Byte) /\ Len(new) = n /\ \A i \in 1 .. n : new[i] = [packet |-> L, at |-> i]
  <2>1. \A i \in 1 .. n : [packet |-> L, at |-> i] \in Byte
    BY <1>1 DEF Byte
  <2>2. new \in [1 .. n -> Byte]
    BY <1>2, <2>1
  <2> QED
    BY <1>1, <1>2, <2>2, SeqDef
<1> DEFINE first == n - sendLeft + 1
           rest == SubSeq(new, first, n)
<1>4. Unsent = rest
  BY DEF Unsent, n, L
<1>5. /\ rest \in Seq(Byte) /\ Len(rest) = sendLeft
      /\ \A i \in 1 .. sendLeft : rest[i] = new[first + i - 1]
  <2>1. first \in Int /\ n \in Int /\ first <= n /\ n - first + 1 = sendLeft
        /\ \A i \in first .. n : i \in 1 .. n
    BY <1>1
  <2>2. \A i \in first .. n : new[i] \in Byte
    BY <1>3, <2>1, ElementOfSeq
  <2> HIDE DEF first, new
  <2> QED
    BY <2>1, <2>2, SubSeqProperties
<1>6. /\ next \in Seq(Byte) /\ Len(next) = k
      /\ \A i \in 1 .. k : next[i] = rest[i]
  <2>1. k \in Int /\ 1 <= k /\ k - 1 + 1 = k /\ \A i \in 1 .. k : i \in 1 .. sendLeft
    BY <1>1
  <2>2. \A i \in 1 .. k : rest[i] \in Byte
    BY <1>5, <2>1, ElementOfSeq
  <2>3. \A i \in 1 .. k : 1 + i - 1 = i
    OBVIOUS
  <2>4. next = SubSeq(rest, 1, k)
    BY <1>4
  <2> HIDE DEF next, rest
  <2> QED
    BY <2>1, <2>2, <2>3, <2>4, SubSeqProperties
<1>7. ASSUME NEW i \in 1 .. k
      PROVE  next[i] = [packet |-> L, at |-> n - sendLeft + i]
  <2>1. i \in 1 .. sendLeft /\ first + i - 1 \in 1 .. n /\ first + i - 1 = n - sendLeft + i
    BY <1>1
  <2> HIDE DEF next, rest, new, first
  <2> QED
    BY <1>3, <1>5, <1>6, <2>1
<1> QED
  BY <1>1, <1>6, <1>7 DEF n, L

\* A step of the receiver leaves what the sender has.
LEMMA ReceiverTypes ==
    ASSUME StreamTypeOK, UNCHANGED <<receiver, sendVars>>,
           wire' \in Seq(Byte), FromPackets(wire'),
           recvBuffer' \in Seq(Byte), FromPackets(recvBuffer'),
           recvAt' \in RecvPhase, recvLeft' \in Int, recvRetry' \in Nat,
           readContinue' \in BOOLEAN, recvUp' \in BOOLEAN, nodesTaken' \in Int,
           received' \in Seq(Seq(Byte))
    PROVE  StreamTypeOK'
<1>1. /\ receiver' \in {"server", "client", "unity"}
      /\ lengths' \in Seq(PacketLengths)
      /\ whole' \in Seq(Nat) /\ (\A i \in DOMAIN whole : whole[i] \in 1 .. Len(lengths))'
      /\ sendLeft' \in Nat /\ sendRetry' \in Nat
      /\ FromPackets(wire)' /\ FromPackets(recvBuffer)'
  BY DEF StreamTypeOK, sendVars, FromPackets
<1>2. sendOpen' \in BOOLEAN /\ cut' \in BOOLEAN
  <2>1. sendOpen' = sendOpen /\ cut' = cut
    BY DEF sendVars
  <2>2. sendOpen \in BOOLEAN /\ cut \in BOOLEAN
    BY DEF StreamTypeOK
  <2> QED
    BY <2>1, <2>2, Zenon
<1> QED
  BY <1>1, <1>2, Zenon DEF StreamTypeOK

LEMMA ReceiverLast ==
    ASSUME LastPacket, UNCHANGED <<receiver, sendVars>>
    PROVE  LastPacket'
BY DEF LastPacket, sendVars

\* No packet is shorter than its length field.
LEMMA LengthPositive ==
    ASSUME NEW n \in PacketLengths
    PROVE  n \in Nat /\ n >= PACKET_LENGTH_SIZE /\ n > 0
<1>1. n \in Nat /\ n \notin 0 .. 1
  BY StreamAssumption DEF PACKET_LENGTH_SIZE
<1> QED
  BY <1>1 DEF PACKET_LENGTH_SIZE

\* What a step has to leave behind for OnTheWay.
LEMMA WayFound ==
    ASSUME NEW pos,
           Placed(pos, Len(received'), whole', Len(whole'), lengths', Len(lengths'),
                  Ahead', Len(Ahead')),
           Begun(Len(Ahead') - pos[Len(whole') + 1], lengths', sendLeft', sendOpen')
    PROVE  OnTheWay'
BY Zenon DEF OnTheWay

LEMMA SendExKeeps ==
    ASSUME StreamInv, NEW n \in PacketLengths, SendEx(n)
    PROVE  StreamInv'
<1>1. /\ sendOpen /\ sendLeft = 0 /\ lengths' = Append(lengths, n) /\ sendLeft' = n
      /\ sendRetry' = 0
      /\ UNCHANGED <<receiver, sendOpen, whole, cut, wire, recvVars>>
  BY DEF SendEx
<1> USE DEF recvVars
<1>t. StreamTypeOK
  BY DEF StreamInv
<1>2. PICK l \in Nat : l = Len(lengths)
  BY <1>t, StreamTypes
<1>3. /\ lengths' \in Seq(PacketLengths) /\ Len(lengths') = l + 1
      /\ \A i \in 1 .. l : lengths'[i] = lengths[i]
      /\ lengths'[l + 1] = n
  BY <1>1, <1>2, <1>t, Appended DEF StreamTypeOK
<1>n. n \in Nat /\ n > 0
  BY LengthPositive
<1>4. \A i \in 1 .. Len(whole) : whole[i] \in 1 .. l /\ lengths'[whole[i]] = lengths[whole[i]]
  BY <1>2, <1>3, <1>t, StreamTypes
<1>5. StreamTypeOK'
  <2>0. \A x : x \in 1 .. l => x \in 1 .. l + 1
    OBVIOUS
  <2>1. /\ FromPackets(wire)' /\ FromPackets(recvBuffer)'
    BY <1>1, <1>2, <1>3, <1>t, <2>0 DEF StreamTypeOK, FromPackets
  <2>2. (\A i \in DOMAIN whole : whole[i] \in 1 .. Len(lengths))'
    BY <1>1, <1>2, <1>3, <1>t, <2>0 DEF StreamTypeOK
  <2>3. /\ sendOpen' \in BOOLEAN /\ recvUp' \in BOOLEAN /\ cut' \in BOOLEAN
        /\ readContinue' \in BOOLEAN
    BY <1>1, <1>t, Zenon DEF StreamTypeOK
  <2>4. /\ receiver' \in {"server", "client", "unity"} /\ whole' \in Seq(Nat)
        /\ sendLeft' \in Nat /\ sendRetry' \in Nat /\ wire' \in Seq(Byte)
        /\ recvBuffer' \in Seq(Byte) /\ recvAt' \in RecvPhase
        /\ recvLeft' \in Int /\ recvRetry' \in Nat /\ nodesTaken' \in Int
        /\ received' \in Seq(Seq(Byte))
    BY <1>1, <1>n, <1>t DEF StreamTypeOK, RecvPhase
  <2> QED
    BY <1>3, <2>1, <2>2, <2>3, <2>4, Zenon DEF StreamTypeOK
<1>e. lengths' # <<>>
  BY <1>3, EmptySeq
<1>6. LastPacket'
  <2>1. sendOpen' /\ sendLeft' = lengths'[Len(lengths')] /\ sendLeft' <= sendLeft'
    BY <1>1, <1>3, <1>n
  <2> QED
    BY <2>1, <1>e DEF LastPacket
<1>7. NoNodeKept'
  BY <1>1 DEF StreamInv, NoNodeKept
<1>8. ASSUME ~cut PROVE HandedOn'
  <2>1. HandedOn /\ Len(received) \in Nat /\ Len(whole) \in Nat /\ Len(received) <= Len(whole)
    BY <1>8, <1>t, StreamTypes DEF StreamInv, HandedOn
  <2>3. InStep'
    <3>1. \A i \in 1 .. Len(received) : lengths'[whole[i]] = lengths[whole[i]]
      BY <2>1, <1>4
    <3> QED
      BY <1>1, <1>8, <2>1, <3>1 DEF InStep, HandedOn
  <2>4. ASSUME recvUp PROVE (OnTheWay /\ BufferOK)'
    <3>0. PICK b \in Nat, m \in Nat, r \in Nat, z \in Nat, L \in Nat : \E pos :
            /\ m = Len(whole) /\ r = Len(received) /\ z = Len(Ahead) /\ L = Len(lengths)
            /\ pos[m + 1] \in 0 .. z /\ b = z - pos[m + 1]
            /\ Placed(pos, r, whole, m, lengths, L, Ahead, z) /\ Begun(b, lengths, sendLeft, sendOpen)
            /\ r = m => b = z
      BY <1>t, <2>1, <2>4, WayPicked DEF HandedOn
    <3>1. PICK pos :
            /\ m = Len(whole) /\ r = Len(received) /\ z = Len(Ahead) /\ L = Len(lengths)
            /\ pos[m + 1] \in 0 .. z /\ b = z - pos[m + 1]
            /\ Placed(pos, r, whole, m, lengths, L, Ahead, z) /\ Begun(b, lengths, sendLeft, sendOpen)
            /\ r = m => b = z
      BY <3>0
    <3>2. b = 0
      BY <1>1, <3>1 DEF Begun
    <3>3. pos[m + 1] = z
      BY <3>1, <3>2
    <3>4. Placed(pos, r, whole, m, lengths', l + 1, Ahead, z)
      <4>1. /\ m \in Nat /\ r \in Nat /\ z \in Nat
            /\ Placed(pos, r, whole, m, lengths, L, Ahead, z)
            /\ \A i \in 1 .. m : lengths'[whole[i]] = lengths[whole[i]]
        BY <1>4, <3>1
      <4> QED
        BY <4>1, <3>3, NewLength
    <3>5. Begun(0, lengths', sendLeft', sendOpen')
      BY <1>1, <1>3, <1>n, <1>e DEF Begun
    <3>6. Ahead' = Ahead
      BY <1>1 DEF Ahead
    <3>7. z - pos[m + 1] = 0
      BY <3>1, <3>2
    <3>8. OnTheWay'
      BY <1>1, <1>3, <3>1, <3>4, <3>5, <3>6, <3>7 DEF OnTheWay
    <3>9. ~Stalled /\ BufferOK
      BY <1>1, <2>1, <2>4 DEF Stalled, HandedOn
    <3>10. ASSUME recvAt = "content" PROVE lengths'[Front'] = lengths[Front]
      <4>1. CASE r < m
        <5>1. Front = whole[r + 1] /\ Front' = Front /\ r + 1 \in 1 .. m
          BY <1>1, <3>1, <4>1 DEF Front
        <5> QED
          BY <1>4, <3>1, <5>1
      <4>2. CASE r = m
        <5>1. Len(Ahead) = 0
          BY <3>1, <3>2, <4>2
        <5>2. Len(recvBuffer) = 0
          BY <5>1, <1>t, StreamTypes, LenProperties DEF StreamTypeOK
        <5> QED
          BY <3>9, <3>10, <5>2 DEF BufferOK, PACKET_LENGTH_SIZE
      <4>3. r < m \/ r = m
        BY <2>1, <3>1
      <4> QED
        BY <4>1, <4>2, <4>3
    <3>11. BufferOK'
      BY <1>1, <3>9, <3>10 DEF BufferOK
    <3> QED
      BY <3>8, <3>11
  <2> QED
    BY <1>1, <2>1, <2>3, <2>4 DEF HandedOn
<1> QED
  BY <1>1, <1>5, <1>6, <1>7, <1>8 DEF StreamInv

LEMMA SendSomeKeeps == ASSUME StreamInv, SendSome PROVE StreamInv'
<1>2. /\ sendLeft > 0
      /\ UNCHANGED <<receiver, lengths, sendRetry, sendOpen, cut, recvVars>>
  BY DEF SendSome
<1>3. StreamTypeOK /\ LastPacket /\ NoNodeKept
  BY DEF StreamInv
<1>1. PICK k \in Nat :
        /\ k \in 1 .. sendLeft
        /\ wire' = wire \o SubSeq(Unsent, 1, k)
        /\ sendLeft' = sendLeft - k
        /\ whole' = IF k = sendLeft THEN Append(whole, Len(lengths)) ELSE whole
  <2>1. \A k \in 1 .. Min2(sendLeft, WireMax - Len(wire)) : k \in 1 .. sendLeft /\ k \in Nat
    BY <1>3, StreamAssumption, LenProperties DEF Min2, StreamTypeOK
  <2> QED
    BY <2>1 DEF SendSome
<1>4. PICK c \in Nat : c = sendLeft /\ c > 0 /\ k \in 1 .. c
  BY <1>1, <1>2, <1>3 DEF StreamTypeOK
<1>L. PICK L \in Nat, n \in Nat : L # 0 /\ L = Len(lengths) /\ n = lengths[L]
  BY <1>2, <1>3, <1>1, NextBytes
<1> DEFINE next == SubSeq(Unsent, 1, k)
<1>N. next \in Seq(Byte)
  BY <1>2, <1>3, <1>1, NextBytes
<1> HIDE DEF next
<1>5. /\ c <= n /\ Len(next) = k
      /\ \A i \in 1 .. k : next[i] = [packet |-> L, at |-> n - c + i]
  BY <1>1, <1>2, <1>3, <1>4, <1>L, NextBytes DEF next
<1>6. wire' = wire \o next
  BY <1>1 DEF next
<1>w. PICK w \in Nat : w = Len(wire)
  BY <1>3, LenProperties DEF StreamTypeOK
<1>7. /\ wire' \in Seq(Byte) /\ Len(wire') = w + k
      /\ \A i \in 1 .. w : wire'[i] = wire[i]
      /\ \A i \in 1 .. k : wire'[w + i] = next[i]
  <2>1. wire \in Seq(Byte)
    BY <1>3 DEF StreamTypeOK
  <2> QED
    <3>1. /\ Len(wire \o next) = Len(wire) + Len(next) /\ wire \o next \in Seq(Byte)
          /\ \A i \in 1 .. Len(wire) : (wire \o next)[i] = wire[i]
          /\ \A i \in 1 .. Len(next) : (wire \o next)[Len(wire) + i] = next[i]
      BY <1>N, <2>1, Joined
    <3> QED
      BY <1>5, <1>6, <1>w, <3>1
<1>m. PICK m \in Nat : m = Len(whole)
  BY <1>3, StreamTypes
<1>8. /\ whole' \in Seq(Nat)
      /\ \A i \in 1 .. m : whole'[i] = whole[i]
      /\ Len(whole') = IF k = c THEN m + 1 ELSE m
      /\ k = c => whole'[m + 1] = L
  <2>1. whole \in Seq(Nat) /\ L \in Nat
    BY <1>3 DEF StreamTypeOK
  <2>2. whole' = IF k = c THEN Append(whole, L) ELSE whole
    BY <1>1, <1>4, <1>L
  <2> QED
    BY <1>m, <2>1, <2>2, Appended
<1>9. \A i \in 1 .. m : whole[i] \in 1 .. L /\ lengths[whole[i]] \in Nat
  BY <1>3, <1>m, <1>L, StreamTypes
<1>10. StreamTypeOK'
  <2>1. FromPackets(wire')
    <3> SUFFICES ASSUME NEW i \in 1 .. w + k
                 PROVE  wire'[i].packet \in 1 .. L
      BY <1>L, <1>7, LenProperties DEF FromPackets
    <3>1. CASE i <= w
      <4>1. i \in 1 .. w /\ wire'[i] = wire[i]
        BY <1>7, <3>1
      <4>2. \A j \in 1 .. w : wire[j].packet \in 1 .. L
        BY <1>3, <1>L, <1>w, LenProperties DEF StreamTypeOK, FromPackets
      <4> QED
        BY <4>1, <4>2
    <3>2. CASE i > w
      <4>1. i - w \in 1 .. k /\ w + (i - w) = i
        BY <3>2
      <4>2. wire'[i] = next[i - w]
        BY <1>7, <4>1
      <4>3. wire'[i] = [packet |-> L, at |-> n - c + (i - w)]
        BY <1>5, <4>1, <4>2
      <4>4. L \in 1 .. L
        BY <1>L
      <4> QED
        BY <4>3, <4>4
    <3> QED
      BY <3>1, <3>2
  <2>2. \A i \in DOMAIN whole' : whole'[i] \in 1 .. L
    <3>1. DOMAIN whole' = 1 .. Len(whole') /\ L \in 1 .. L
      BY <1>8, <1>L, LenProperties
    <3>3. \A i \in 1 .. Len(whole') : i \in 1 .. m \/ (k = c /\ i = m + 1)
      BY <1>8
    <3> QED
      BY <1>8, <1>9, <3>1, <3>3
  <2>3. sendLeft' \in Nat
    BY <1>1, <1>4
  <2>4. FromPackets(wire)' /\ FromPackets(recvBuffer)'
    BY <1>2, <1>3, <2>1 DEF recvVars, FromPackets, StreamTypeOK
  <2>5. (\A i \in DOMAIN whole : whole[i] \in 1 .. Len(lengths))'
    BY <1>2, <1>L, <2>2
  <2>6. /\ sendOpen' \in BOOLEAN /\ recvUp' \in BOOLEAN /\ cut' \in BOOLEAN
        /\ readContinue' \in BOOLEAN
    <3>1. UNCHANGED <<sendOpen, recvUp, cut, readContinue>>
      BY <1>2 DEF recvVars
    <3> QED
      BY <1>3, <3>1, Zenon DEF StreamTypeOK
  <2>7. /\ receiver' \in {"server", "client", "unity"} /\ lengths' \in Seq(PacketLengths)
        /\ sendRetry' \in Nat
        /\ recvBuffer' \in Seq(Byte) /\ recvAt' \in RecvPhase
        /\ recvLeft' \in Int /\ recvRetry' \in Nat /\ nodesTaken' \in Int
        /\ received' \in Seq(Seq(Byte))
    BY <1>2, <1>3 DEF StreamTypeOK, RecvPhase, recvVars
  <2> QED
    BY <1>7, <1>8, <2>3, <2>4, <2>5, <2>6, <2>7, Zenon DEF StreamTypeOK
<1>e. lengths # <<>> /\ lengths' = lengths /\ sendOpen' = sendOpen
  BY <1>2, <1>3, <1>L, EmptySeq DEF LastPacket
<1>11. LastPacket'
  <2>1. sendOpen
    BY <1>2, <1>3 DEF LastPacket
  <2>2. sendLeft' <= lengths'[Len(lengths')]
    BY <1>1, <1>4, <1>5, <1>L, <1>e
  <2> QED
    BY <1>e, <2>1, <2>2 DEF LastPacket
<1>12. NoNodeKept'
  BY <1>2, <1>3 DEF NoNodeKept, recvVars
<1>13. ASSUME ~cut PROVE HandedOn'
  <2>1. HandedOn /\ Len(received) \in Nat /\ Len(received) <= m
    BY <1>3, <1>13, <1>m, StreamTypes DEF StreamInv, HandedOn
  <2>2. UNCHANGED <<lengths, received, cut, receiver, recvUp, recvAt, recvBuffer, recvLeft, readContinue>>
    BY <1>2 DEF recvVars
  <2>3. InStep'
    <3>1. \A i \in 1 .. Len(received) : whole'[i] = whole[i]
      BY <1>8, <2>1
    <3> QED
      BY <1>13, <2>1, <2>2, <3>1 DEF InStep, HandedOn
  <2>4. ASSUME recvUp PROVE (OnTheWay /\ BufferOK)'
    <3>1. PICK b \in Nat, mm \in Nat, r \in Nat, z \in Nat, LL \in Nat : \E pos :
            /\ mm = Len(whole) /\ r = Len(received) /\ z = Len(Ahead) /\ LL = Len(lengths)
            /\ pos[mm + 1] \in 0 .. z /\ b = z - pos[mm + 1]
            /\ Placed(pos, r, whole, mm, lengths, LL, Ahead, z) /\ Begun(b, lengths, sendLeft, sendOpen)
            /\ r = mm => b = z
      BY <1>3, <1>m, <2>1, <2>4, WayPicked DEF HandedOn
    <3>2. PICK pos :
          /\ r <= m /\ r = Len(received) /\ z = Len(Ahead)
          /\ pos[m + 1] \in 0 .. z /\ b = z - pos[m + 1]
          /\ Placed(pos, r, whole, m, lengths, L, Ahead, z)
      BY <1>m, <1>L, <2>1, <3>1
    <3>3. b = n - c
      <4>1. Begun(b, lengths, sendLeft, sendOpen)
        BY <3>1
      <4> QED
        BY <1>2, <1>4, <1>L, <4>1 DEF Begun
    <3>4. /\ Ahead' \in Seq(Byte) /\ Len(Ahead') = z + k
          /\ \A i \in 1 .. z : Ahead'[i] = Ahead[i]
          /\ \A i \in 1 .. k : Ahead'[z + i] = next[i]
      <4>1. recvBuffer \in Seq(Byte) /\ recvBuffer' = recvBuffer /\ wire \in Seq(Byte)
        BY <1>3, <2>2 DEF StreamTypeOK
      <4>2. Ahead \in Seq(Byte) /\ Ahead' = Ahead \o next
        BY <1>6, <1>N, <4>1, ConcatAssociative, ConcatProperties, SMTT(30) DEF Ahead
      <4> QED
        BY <1>5, <1>N, <3>2, <4>2, Joined, SMTT(40)
    <3>5. ASSUME NEW i \in z + 1 .. z + k
          PROVE  Ahead'[i] = [packet |-> L, at |-> i - pos[m + 1]]
      <4>1. i - z \in 1 .. k /\ z + (i - z) = i
        OBVIOUS
      <4>2. Ahead'[i] = next[i - z] /\ next[i - z] = [packet |-> L, at |-> n - c + (i - z)]
        BY <1>5, <3>4, <4>1
      <4>3. PICK p \in Nat : p = pos[m + 1]
        BY <3>2
      <4>4. n - c = z - p
        BY <3>2, <3>3, <4>3
      <4>5. n - c + (i - z) = i - p
        BY <4>4
      <4> QED
        BY <4>2, <4>3, <4>5
    <3>6. \A i \in r + 1 .. m : lengths[whole[i]] \in Nat
      <4>1. \A i \in r + 1 .. m : i \in 1 .. m
        BY <3>2
      <4> QED
        BY <1>9, <4>1
    <3>7. Placed(pos, r, whole, m, lengths, L, Ahead', z + k)
      <4>1. PICK y \in Nat : y = z + k /\ z <= y
        OBVIOUS
      <4>2. \A i \in 1 .. z : Ahead'[i] = Ahead[i]
        BY <3>4
      <4>3. \A i \in z + 1 .. y : Ahead'[i] = [packet |-> L, at |-> i - pos[m + 1]]
        BY <3>5, <4>1
      <4>4. r <= m /\ Placed(pos, r, whole, m, lengths, L, Ahead, z)
        BY <3>2
      <4>5. Placed(pos, r, whole, m, lengths, L, Ahead', y)
        BY <3>6, <4>1, <4>2, <4>3, <4>4, MoreSent
      <4> QED
        BY <4>1, <4>5
    <3>8. ASSUME k = c PROVE OnTheWay'
      <4>1. PICK y \in Nat : y = z + k
        OBVIOUS
      <4>2. lengths[L] = y - pos[m + 1]
        <5>1. PICK p \in Nat : p = pos[m + 1]
          BY <3>2
        <5>2. n - c = z - p
          BY <3>2, <3>3, <5>1
        <5>3. n = y - p
          BY <3>8, <4>1, <5>2
        <5> QED
          BY <1>L, <5>1, <5>3
      <4> DEFINE q == ToTheEnd(pos, r, m, y)
      <4>3. /\ Placed(q, r, whole', m + 1, lengths, L, Ahead', z + k)
            /\ q[m + 2] = z + k
        <5>1. (\A i \in 1 .. m : whole'[i] = whole[i]) /\ whole'[m + 1] = L
          BY <1>8, <3>8
        <5>2. r <= m /\ Placed(pos, r, whole, m, lengths, L, Ahead', y)
          BY <3>2, <3>7, <4>1
        <5>3. Placed(q, r, whole', m + 1, lengths, L, Ahead', y) /\ q[m + 2] = y
          BY <4>2, <5>1, <5>2, NowWhole
        <5> QED
          BY <4>1, <5>3
      <4> HIDE DEF q
      <4>4. Len(whole') = m + 1 /\ m + 1 + 1 = m + 2 /\ z + k - q[m + 2] = 0
        BY <1>8, <3>2, <3>8, <4>3
      <4>5. sendLeft' = 0 /\ n > 0 /\ lengths'[Len(lengths')] = n
        BY <1>1, <1>4, <1>5, <1>L, <1>e, <3>8
      <4>6. Begun(0, lengths', sendLeft', sendOpen')
        BY <1>e, <4>5 DEF Begun
      <4>7. /\ m + 1 = Len(whole') /\ r = Len(received') /\ L = Len(lengths')
            /\ z + k = Len(Ahead') /\ 0 = z + k - q[m + 1 + 1] /\ lengths' = lengths
        BY <1>L, <2>2, <3>2, <3>4, <4>4
      <4>8. Placed(q, Len(received'), whole', Len(whole'), lengths', Len(lengths'),
                   Ahead', Len(Ahead'))
        BY <4>3, <4>7
      <4>9. Len(Ahead') - q[Len(whole') + 1] = 0
        <5>1. Len(whole') + 1 = m + 2
          BY <4>4
        <5>2. q[Len(whole') + 1] = y /\ Len(Ahead') = y
          BY <4>1, <4>3, <4>7, <5>1
        <5>3. y - y = 0
          OBVIOUS
        <5> QED
          BY <5>2, <5>3
      <4> QED
        BY <4>6, <4>8, <4>9, WayFound
    <3>9. ASSUME k # c PROVE OnTheWay'
      <4>1. whole' = whole
        BY <1>1, <1>4, <3>9
      <4>2. z + k - pos[m + 1] = b + k /\ b + k \in Nat
        BY <3>2, SMTT(40)
      <4>3. /\ sendLeft' = c - k /\ c - k > 0 /\ b + k = n - (c - k) /\ b + k < n
            /\ lengths'[Len(lengths')] = n
        <5>1. sendLeft' = c - k
          BY <1>1, <1>4
        <5>2. lengths'[Len(lengths')] = n
          BY <1>4, <1>e, <1>L
        <5>3. c <= n /\ k \in 1 .. c /\ c \in Nat /\ b = n - c
          BY <1>4, <1>5, <3>3
        <5>4. c - k > 0 /\ b + k = n - (c - k) /\ b + k < n
          BY <3>9, <5>3
        <5> QED
          BY <5>1, <5>2, <5>4
      <4>4. Begun(b + k, lengths', sendLeft', sendOpen')
        BY <1>e, <4>3 DEF Begun
      <4>5. /\ m = Len(whole') /\ r = Len(received') /\ L = Len(lengths')
            /\ z + k = Len(Ahead') /\ b + k = z + k - pos[m + 1] /\ lengths' = lengths
        BY <1>L, <1>m, <2>2, <3>2, <3>4, <4>1, <4>2
      <4>6. Placed(pos, Len(received'), whole', Len(whole'), lengths', Len(lengths'),
                   Ahead', Len(Ahead'))
        BY <3>7, <4>1, <4>5
      <4>7. Len(Ahead') - pos[Len(whole') + 1] = b + k
        <5>1. Len(whole') = m /\ Len(Ahead') = z + k
          BY <4>5
        <5>2. PICK p \in Nat, y \in Nat : p = pos[m + 1] /\ y = z + k
          BY <3>2
        <5>3. y - p = b + k
          BY <4>2, <5>2
        <5>4. Len(Ahead') = y /\ pos[Len(whole') + 1] = p
          BY <5>1, <5>2
        <5> QED
          BY <5>3, <5>4
      <4> QED
        BY <4>4, <4>6, <4>7, WayFound
    <3>10. OnTheWay'
      BY <3>8, <3>9
    <3>11. ~Stalled /\ BufferOK
      BY <1>2, <1>3, <2>1, <2>4 DEF Stalled, HandedOn, LastPacket
    <3>12. Front' = Front
      <4>1. CASE r < m
        <5>1. r + 1 \in 1 .. m /\ r < Len(whole')
          BY <1>8, <3>2, <4>1, SMTT(40)
        <5> QED
          BY <1>8, <1>m, <2>2, <3>2, <4>1, <5>1, SMTT(30) DEF Front
      <4>2. CASE r = m
        BY <1>8, <1>L, <1>m, <2>2, <3>2, <4>2, SMTT(40) DEF Front
      <4> QED
        BY <3>2, <4>1, <4>2
    <3>13. BufferOK'
      BY <2>2, <3>11, <3>12 DEF BufferOK
    <3> QED
      BY <3>10, <3>13
  <2>5. Len(received') <= Len(whole')
    BY <1>8, <2>1, <2>2
  <2>6. ~recvUp => recvAt = "idle" /\ receiver # "unity"
    BY <2>1 DEF HandedOn
  <2> QED
    BY <2>2, <2>3, <2>4, <2>5, <2>6 DEF HandedOn
<1>14. cut' = cut
  BY <1>2
<1> QED
  BY <1>10, <1>11, <1>12, <1>13, <1>14 DEF StreamInv

\* A step that sends nothing and hands nothing on: only what is said of the
\* beginning of the last packet has to be shown again.
LEMMA SenderStops ==
    ASSUME StreamInv, UNCHANGED <<receiver, lengths, whole, wire, recvVars>>,
           sendLeft' \in Nat, sendRetry' \in Nat, sendOpen' \in BOOLEAN, cut' \in BOOLEAN,
           LastPacket', ~cut' => ~cut, sendOpen' => sendOpen,
           \A b \in Nat : ~cut' /\ Begun(b, lengths, sendLeft, sendOpen) =>
                            Begun(b, lengths, sendLeft', sendOpen')
    PROVE  StreamInv'
<1> USE DEF recvVars
<1>1. StreamTypeOK
  BY DEF StreamInv
<1>2. StreamTypeOK'
  <2>1. /\ recvUp' \in BOOLEAN /\ readContinue' \in BOOLEAN
    BY <1>1, Zenon DEF StreamTypeOK
  <2>2. /\ receiver' \in {"server", "client", "unity"} /\ whole' \in Seq(Nat)
        /\ lengths' \in Seq(PacketLengths) /\ wire' \in Seq(Byte)
        /\ recvBuffer' \in Seq(Byte) /\ recvAt' \in RecvPhase
        /\ recvLeft' \in Int /\ recvRetry' \in Nat /\ nodesTaken' \in Int
        /\ received' \in Seq(Seq(Byte))
        /\ FromPackets(wire)' /\ FromPackets(recvBuffer)'
        /\ (\A i \in DOMAIN whole : whole[i] \in 1 .. Len(lengths))'
    BY <1>1 DEF StreamTypeOK, FromPackets
  <2> QED
    BY <2>1, <2>2, Zenon DEF StreamTypeOK
<1>3. NoNodeKept'
  BY DEF StreamInv, NoNodeKept
<1>4. ASSUME ~cut' PROVE HandedOn'
  <2>1. HandedOn /\ ~cut
    BY <1>4 DEF StreamInv
  <2>2. InStep'
    BY <2>1 DEF InStep, HandedOn
  <2>3. ASSUME recvUp PROVE OnTheWay'
    <3>1. PICK b \in Nat, m \in Nat, r \in Nat, z \in Nat, L \in Nat : \E pos :
            /\ m = Len(whole) /\ r = Len(received) /\ z = Len(Ahead) /\ L = Len(lengths)
            /\ pos[m + 1] \in 0 .. z /\ b = z - pos[m + 1]
            /\ Placed(pos, r, whole, m, lengths, L, Ahead, z) /\ Begun(b, lengths, sendLeft, sendOpen)
            /\ r = m => b = z
      BY <1>1, <2>1, <2>3, WayPicked DEF HandedOn
    <3>2. PICK pos :
            /\ m = Len(whole) /\ r = Len(received) /\ z = Len(Ahead) /\ L = Len(lengths)
            /\ b = z - pos[m + 1]
            /\ Placed(pos, r, whole, m, lengths, L, Ahead, z) /\ Begun(b, lengths, sendLeft, sendOpen)
      BY <3>1
    <3>3. Ahead' = Ahead
      BY DEF Ahead
    <3>4. Begun(b, lengths', sendLeft', sendOpen')
      BY <1>4, <3>2
    <3>5. Placed(pos, Len(received'), whole', Len(whole'), lengths', Len(lengths'),
                 Ahead', Len(Ahead'))
      BY <3>2, <3>3
    <3>6. Len(Ahead') - pos[Len(whole') + 1] = b
      BY <3>2, <3>3
    <3> QED
      BY <3>4, <3>5, <3>6, WayFound
  <2>4. ASSUME recvUp PROVE BufferOK'
    <3>1. BufferOK
      BY <2>1, <2>4 DEF HandedOn
    <3>2. Front' = Front
      BY DEF Front
    <3>3. Stalled => Stalled'
      BY DEF Stalled
    <3> QED
      BY <3>1, <3>2, <3>3 DEF BufferOK
  <2>5. Len(received') <= Len(whole')
    BY <2>1 DEF HandedOn
  <2>6. ~recvUp => recvAt = "idle" /\ receiver # "unity"
    BY <2>1 DEF HandedOn
  <2> QED
    BY <2>2, <2>3, <2>4, <2>5, <2>6 DEF HandedOn
<1> QED
  BY <1>2, <1>3, <1>4 DEF StreamInv

LEMMA SendBlockedKeeps == ASSUME StreamInv, SendBlocked PROVE StreamInv'
<1>1. /\ sendLeft > 0 /\ sendRetry' = sendRetry + 1
      /\ UNCHANGED <<receiver, lengths, sendOpen, whole, wire, recvVars>>
      /\ \/ sendLeft' = sendLeft /\ cut' = cut
         \/ sendLeft' = 0 /\ cut' = (cut \/ sendLeft < lengths[Len(lengths)])
  BY DEF SendBlocked
<1>2. StreamTypeOK /\ LastPacket
  BY DEF StreamInv
<1>3. sendLeft' \in Nat /\ sendRetry' \in Nat
  BY <1>1, <1>2 DEF StreamTypeOK
<1>4. sendOpen' \in BOOLEAN /\ cut' \in BOOLEAN
  <2>1. sendOpen \in BOOLEAN /\ cut \in BOOLEAN
    BY <1>2 DEF StreamTypeOK
  <2> QED
    BY <1>1, <2>1, Zenon
<1>5. LastPacket'
  BY <1>1, <1>2 DEF LastPacket
<1>6. ~cut' => ~cut
  BY <1>1
<1>7. ASSUME NEW b \in Nat, ~cut', Begun(b, lengths, sendLeft, sendOpen)
      PROVE  Begun(b, lengths, sendLeft', sendOpen')
  <2>1. CASE sendLeft' = sendLeft
    BY <1>1, <1>7, <2>1 DEF Begun
  <2>2. CASE sendLeft' = 0 /\ cut' = (cut \/ sendLeft < lengths[Len(lengths)])
    <3>1. PICK L \in Nat, n \in Nat, c \in Nat : L = Len(lengths) /\ n = lengths[L] /\ c = sendLeft /\ c <= n /\ c > 0
      <4>1. Len(lengths) \in Nat /\ Len(lengths) # 0 /\ sendLeft \in Nat /\ sendLeft <= lengths[Len(lengths)]
        BY <1>1, <1>2, StreamTypes, EmptySeq DEF LastPacket, StreamTypeOK
      <4> QED
        BY <1>1, <1>2, <4>1, PacketLong
    <3>2. ~(c < n)
      BY <1>7, <2>2, <3>1
    <3>3. b = n - c
      BY <1>1, <1>7, <3>1 DEF Begun
    <3>4. b = 0 /\ n > 0
      BY <3>1, <3>2, <3>3
    <3> QED
      BY <1>1, <2>2, <3>1, <3>4 DEF Begun
  <2> QED
    BY <1>1, <2>1, <2>2
<1> QED
  BY <1>1, <1>3, <1>4, <1>5, <1>6, <1>7, SenderStops

LEMMA SenderClosesKeeps == ASSUME StreamInv, SenderCloses PROVE StreamInv'
<1>1. /\ sendOpen /\ sendOpen' = FALSE /\ sendLeft' = 0
      /\ UNCHANGED <<receiver, lengths, sendRetry, whole, cut, wire, recvVars>>
  BY DEF SenderCloses
<1>2. StreamTypeOK /\ LastPacket
  BY DEF StreamInv
<1>3. sendLeft' \in Nat /\ sendRetry' \in Nat
  BY <1>1, <1>2 DEF StreamTypeOK
<1>4. sendOpen' \in BOOLEAN /\ cut' \in BOOLEAN
  <2>1. cut \in BOOLEAN
    BY <1>2 DEF StreamTypeOK
  <2> QED
    BY <1>1, <2>1, Zenon
<1>5. LastPacket'
  BY <1>1 DEF LastPacket
<1>6. ASSUME NEW b \in Nat, Begun(b, lengths, sendLeft, sendOpen)
      PROVE  Begun(b, lengths, sendLeft', sendOpen')
  BY <1>1, <1>6 DEF Begun
<1> QED
  BY <1>1, <1>3, <1>4, <1>5, <1>6, SenderStops

-----------------------------------------------------------------------------
\* A receiving step that hands nothing on: only its own buffer has to be shown
\* again.
LEMMA ReceiverKeeps ==
    ASSUME StreamInv, UNCHANGED <<receiver, sendVars, received, recvUp>>,
           StreamTypeOK', NoNodeKept', ~cut => recvUp /\ Ahead' = Ahead,
           ~cut => BufferOK'
    PROVE  StreamInv'
<1>1. LastPacket'
  BY ReceiverLast DEF StreamInv
<1>2. ASSUME ~cut PROVE HandedOn'
  <2>1. HandedOn
    BY <1>2 DEF StreamInv
  <2>2. UNCHANGED <<lengths, whole, received, sendLeft, sendOpen, Ahead, cut>>
    BY <1>2 DEF sendVars
  <2>3. OnTheWay /\ InStep /\ Len(received) <= Len(whole)
    BY <1>2, <2>1 DEF HandedOn
  <2> HIDE DEF Ahead
  <2>4. OnTheWay' /\ InStep'
    BY <2>2, <2>3, WaySame, StepSame
  <2> QED
    BY <1>2, <2>2, <2>3, <2>4 DEF HandedOn
<1>3. cut' = cut
  BY DEF sendVars
<1> QED
  BY <1>1, <1>2, <1>3 DEF StreamInv

LEMMA ReceiverUp ==
    ASSUME StreamInv, ~cut, recvAt # "idle" \/ receiver = "unity"
    PROVE  recvUp
BY DEF StreamInv, HandedOn

LEMMA BytesJoined ==
    ASSUME NEW s \in Seq(Byte), NEW t \in Seq(Byte)
    PROVE  /\ s \o t \in Seq(Byte)
           /\ Len(s \o t) = Len(s) + Len(t)
           /\ \A i \in 1 .. Len(s) : (s \o t)[i] = s[i]
           /\ \A i \in 1 .. Len(t) : (s \o t)[Len(s) + i] = t[i]
BY Joined

LEMMA BytesInThree ==
    ASSUME NEW s \in Seq(Byte), NEW t \in Seq(Byte), NEW u \in Seq(Byte)
    PROVE  (s \o t) \o u = s \o (t \o u)
BY ConcatAssociative, SMTT(40)

LEMMA ServerReceiveExKeeps == ASSUME StreamInv, ServerReceiveEx PROVE StreamInv'
<1>1. /\ receiver = "server" /\ recvUp /\ recvAt = "idle"
      /\ recvAt' = "length" /\ recvBuffer' = <<>> /\ recvLeft' = PACKET_LENGTH_SIZE
      /\ recvRetry' = 0 /\ nodesTaken' = nodesTaken + 1
      /\ UNCHANGED <<receiver, sendVars, wire, readContinue, recvUp, received>>
  BY DEF ServerReceiveEx
<1>2. StreamTypeOK /\ NoNodeKept
  BY DEF StreamInv
<1>3. StreamTypeOK'
  <2>1. recvBuffer' \in Seq(Byte) /\ FromPackets(recvBuffer')
    BY <1>1, EmptySeq DEF FromPackets
  <2>2. wire' \in Seq(Byte) /\ FromPackets(wire')
    BY <1>1, <1>2 DEF StreamTypeOK, FromPackets, sendVars
  <2>3. readContinue' \in BOOLEAN /\ recvUp' \in BOOLEAN
    BY <1>1, <1>2, Zenon DEF StreamTypeOK
  <2>4. /\ recvAt' \in RecvPhase /\ recvLeft' \in Int /\ recvRetry' \in Nat
        /\ nodesTaken' \in Int /\ received' \in Seq(Seq(Byte))
    BY <1>1, <1>2 DEF StreamTypeOK, RecvPhase, PACKET_LENGTH_SIZE
  <2> QED
    BY <1>1, <1>2, <2>1, <2>2, <2>3, <2>4, ReceiverTypes
<1>4. NoNodeKept'
  BY <1>1, <1>2, StreamTypes DEF NoNodeKept
<1>5. ASSUME ~cut PROVE recvUp /\ Ahead' = Ahead /\ BufferOK'
  <2>1. HandedOn
    BY <1>5 DEF StreamInv
  <2>2. BufferOK /\ ~Stalled
    BY <1>1, <2>1 DEF HandedOn, Stalled
  <2>3. recvBuffer = <<>> /\ readContinue = FALSE
    BY <1>1, <2>2 DEF BufferOK
  <2>4. Ahead' = Ahead
    BY <1>1, <2>3 DEF Ahead
  <2>5. BufferOK'
    BY <1>1, <2>3 DEF BufferOK, PACKET_LENGTH_SIZE
  <2> QED
    BY <1>1, <2>4, <2>5
<1> QED
  BY <1>1, <1>3, <1>4, <1>5, ReceiverKeeps

LEMMA ClientRecvExKeeps == ASSUME StreamInv, ClientRecvEx PROVE StreamInv'
<1>1. /\ receiver = "client" /\ recvUp /\ recvAt = "idle"
      /\ recvAt' = "length" /\ recvRetry' = 0
      /\ UNCHANGED <<receiver, sendVars, wire, recvBuffer, recvLeft, readContinue,
                     recvUp, nodesTaken, received>>
  BY DEF ClientRecvEx
<1>2. StreamTypeOK
  BY DEF StreamInv
<1>3. StreamTypeOK'
  <2>1. recvBuffer' \in Seq(Byte) /\ FromPackets(recvBuffer')
    BY <1>1, <1>2 DEF StreamTypeOK, FromPackets, sendVars
  <2>2. wire' \in Seq(Byte) /\ FromPackets(wire')
    BY <1>1, <1>2 DEF StreamTypeOK, FromPackets, sendVars
  <2>3. readContinue' \in BOOLEAN /\ recvUp' \in BOOLEAN
    BY <1>1, <1>2, Zenon DEF StreamTypeOK
  <2>4. /\ recvAt' \in RecvPhase /\ recvLeft' \in Int /\ recvRetry' \in Nat
        /\ nodesTaken' \in Int /\ received' \in Seq(Seq(Byte))
    BY <1>1, <1>2 DEF StreamTypeOK, RecvPhase
  <2> QED
    BY <1>1, <1>2, <2>1, <2>2, <2>3, <2>4, ReceiverTypes
<1>4. NoNodeKept'
  BY <1>1 DEF NoNodeKept
<1>5. ASSUME ~cut PROVE recvUp /\ Ahead' = Ahead /\ BufferOK'
  <2>1. HandedOn
    BY <1>5 DEF StreamInv
  <2>2. BufferOK /\ ~Stalled
    BY <1>1, <2>1 DEF HandedOn, Stalled
  <2>3. BufferOK'
    BY <1>1, <2>2 DEF BufferOK
  <2> QED
    BY <1>1, <2>3 DEF Ahead
<1> QED
  BY <1>1, <1>3, <1>4, <1>5, ReceiverKeeps

LEMMA OnReadPacketKeeps == ASSUME StreamInv, OnReadPacket PROVE StreamInv'
<1>1. /\ receiver = "unity" /\ recvAt = "idle" /\ wire # <<>>
      /\ recvAt' = IF readContinue THEN "content" ELSE "length"
      /\ UNCHANGED <<receiver, sendVars, wire, recvBuffer, recvLeft, recvRetry,
                     readContinue, recvUp, nodesTaken, received>>
  BY DEF OnReadPacket
<1>2. StreamTypeOK
  BY DEF StreamInv
<1>3. StreamTypeOK'
  <2>1. recvBuffer' \in Seq(Byte) /\ FromPackets(recvBuffer')
    BY <1>1, <1>2 DEF StreamTypeOK, FromPackets, sendVars
  <2>2. wire' \in Seq(Byte) /\ FromPackets(wire')
    BY <1>1, <1>2 DEF StreamTypeOK, FromPackets, sendVars
  <2>3. readContinue' \in BOOLEAN /\ recvUp' \in BOOLEAN
    BY <1>1, <1>2, Zenon DEF StreamTypeOK
  <2>4. /\ recvAt' \in RecvPhase /\ recvLeft' \in Int /\ recvRetry' \in Nat
        /\ nodesTaken' \in Int /\ received' \in Seq(Seq(Byte))
    BY <1>1, <1>2 DEF StreamTypeOK, RecvPhase
  <2> QED
    BY <1>1, <1>2, <2>1, <2>2, <2>3, <2>4, ReceiverTypes
<1>4. NoNodeKept'
  BY <1>1 DEF NoNodeKept
<1>5. ASSUME ~cut PROVE recvUp /\ Ahead' = Ahead /\ BufferOK'
  <2>1. HandedOn /\ recvUp
    BY <1>1, <1>5, ReceiverUp DEF StreamInv
  <2>2. BufferOK /\ ~Stalled
    BY <1>1, <2>1 DEF HandedOn, Stalled
  <2>3. recvAt' = "length"
    BY <1>1, <2>2 DEF BufferOK
  <2>4. BufferOK'
    BY <1>1, <2>2, <2>3 DEF BufferOK
  <2> QED
    BY <1>1, <2>1, <2>4 DEF Ahead
<1> QED
  BY <1>1, <1>3, <1>4, <1>5, ReceiverKeeps

LEMMA ReceiveSomeKeeps == ASSUME StreamInv, ReceiveSome PROVE StreamInv'
<1>1. /\ recvAt \in {"length", "content"} /\ recvLeft > 0 /\ wire # <<>>
      /\ UNCHANGED <<receiver, sendVars, recvAt, recvRetry, readContinue, recvUp,
                     nodesTaken, received>>
  BY DEF ReceiveSome, Wanting
<1>2. StreamTypeOK /\ NoNodeKept
  BY DEF StreamInv
<1>3. PICK w \in Nat : w = Len(wire) /\ w > 0
  BY <1>1, <1>2, LenProperties, EmptySeq DEF StreamTypeOK
<1>g. PICK g \in Nat : g = recvLeft /\ g > 0
  BY <1>1, <1>2 DEF StreamTypeOK
<1>4. PICK k \in Nat : k = Min2(recvLeft, w) /\ k >= 1 /\ k <= w /\ k <= g
  BY <1>3, <1>g DEF Min2
<1> DEFINE taken == SubSeq(wire, 1, k)
           left == SubSeq(wire, k + 1, w)
<1>5. /\ recvBuffer' = recvBuffer \o taken /\ wire' = left /\ recvLeft' = recvLeft - k
  BY <1>3, <1>4 DEF ReceiveSome
<1>6. /\ taken \in Seq(Byte) /\ Len(taken) = k /\ FromPackets(taken)
      /\ left \in Seq(Byte) /\ FromPackets(left)
      /\ taken \o left = wire
  <2>1. wire \in Seq(Byte) /\ k \in 1 .. w /\ k + 1 \in 1 .. w + 1
    BY <1>2, <1>4, SMTT(40) DEF StreamTypeOK
  <2>2. \A i \in 1 .. w : wire[i] \in Byte /\ wire[i].packet \in 1 .. Len(lengths)
    BY <1>2, <1>3, <2>1, ElementOfSeq, LenProperties DEF StreamTypeOK, FromPackets
  <2>3. /\ taken \in Seq(Byte) /\ Len(taken) = k
        /\ \A i \in 1 .. k : taken[i] = wire[i]
    <3>1. \A i \in 1 .. k : wire[i] \in Byte
      BY <1>4, <2>2
    <3>2. 1 \in Int /\ k \in Int /\ (1 <= k + 1) /\ k - 1 + 1 = k /\ \A i \in 1 .. k : 1 + i - 1 = i
      OBVIOUS
    <3> QED
      BY <1>4, <3>1, <3>2, SubSeqProperties
  <2>4. /\ left \in Seq(Byte) /\ Len(left) = w - k
        /\ \A i \in 1 .. w - k : left[i] = wire[k + i]
    <3>1. \A i \in k + 1 .. w : wire[i] \in Byte
      BY <1>4, <2>2
    <3>2. k + 1 \in Int /\ w \in Int /\ k + 1 <= w + 1 /\ w - (k + 1) + 1 = w - k
          /\ \A i \in 1 .. w - k : k + 1 + i - 1 = k + i
      BY <1>4
    <3> QED
      BY <1>4, <3>1, <3>2, SubSeqProperties
  <2>5. FromPackets(taken) /\ FromPackets(left)
    <3>1. DOMAIN taken = 1 .. k /\ DOMAIN left = 1 .. w - k
      BY <2>3, <2>4, LenProperties
    <3>2. /\ \A i \in 1 .. k : i \in 1 .. w
          /\ \A i \in 1 .. w - k : k + i \in 1 .. w
      BY <1>4
    <3> HIDE DEF taken, left
    <3> QED
      BY <2>2, <2>3, <2>4, <3>1, <3>2 DEF FromPackets
  <2>6. taken \o left = wire
    <3> HIDE DEF taken, left
    <3>1. taken \o left \in Seq(Byte) /\ Len(taken \o left) = w
      <4>1. Len(taken \o left) = Len(taken) + Len(left) /\ taken \o left \in Seq(Byte)
        BY <2>3, <2>4, Joined
      <4>2. k + (w - k) = w
        OBVIOUS
      <4> QED
        BY <2>3, <2>4, <4>1, <4>2
    <3>2. ASSUME NEW i \in 1 .. w PROVE (taken \o left)[i] = wire[i]
      <4>1. CASE i <= k
        <5>1. i \in 1 .. k
          BY <4>1
        <5> QED
          BY <2>3, <2>4, <5>1, Joined
      <4>2. CASE i > k
        <5>1. i - k \in 1 .. w - k /\ k + (i - k) = i
          BY <4>2
        <5>2. (taken \o left)[k + (i - k)] = left[i - k]
          BY <2>3, <2>4, <5>1, Joined, SMTT(40)
        <5> QED
          BY <2>4, <5>1, <5>2
      <4>3. i <= k \/ i > k
        OBVIOUS
      <4> QED
        BY <4>1, <4>2, <4>3, Zenon
    <3> QED
      BY <1>3, <2>1, <3>1, <3>2, SeqEqual
  <2> QED
    BY <2>3, <2>4, <2>5, <2>6
<1> HIDE DEF taken, left
<1>7. PICK h \in Nat : h = Len(recvBuffer)
  BY <1>2, LenProperties DEF StreamTypeOK
<1>8. /\ recvBuffer' \in Seq(Byte) /\ Len(recvBuffer') = h + k
      /\ FromPackets(recvBuffer')
  <2>1. recvBuffer \in Seq(Byte) /\ \A i \in 1 .. h : recvBuffer[i].packet \in 1 .. Len(lengths)
    BY <1>2, <1>7, LenProperties DEF StreamTypeOK, FromPackets
  <2>2. /\ recvBuffer' \in Seq(Byte) /\ Len(recvBuffer') = h + k
        /\ \A i \in 1 .. h : recvBuffer'[i] = recvBuffer[i]
        /\ \A i \in 1 .. k : recvBuffer'[h + i] = taken[i]
    <3>1. /\ recvBuffer \o taken \in Seq(Byte)
          /\ Len(recvBuffer \o taken) = Len(recvBuffer) + Len(taken)
          /\ \A i \in 1 .. Len(recvBuffer) : (recvBuffer \o taken)[i] = recvBuffer[i]
          /\ \A i \in 1 .. Len(taken) : (recvBuffer \o taken)[Len(recvBuffer) + i] = taken[i]
      <4>1. recvBuffer \in Seq(Byte) /\ taken \in Seq(Byte)
        BY <1>6, <2>1
      <4> QED
        BY <4>1, BytesJoined, Zenon
    <3> QED
      BY <1>5, <1>6, <1>7, <3>1
  <2>3. \A i \in 1 .. k : taken[i].packet \in 1 .. Len(lengths)
    BY <1>6, LenProperties DEF FromPackets
  <2>4. ASSUME NEW i \in 1 .. h + k PROVE recvBuffer'[i].packet \in 1 .. Len(lengths)
    <3>1. CASE i <= h
      BY <2>1, <2>2, <3>1
    <3>2. CASE i > h
      <4>1. i - h \in 1 .. k /\ h + (i - h) = i
        BY <3>2
      <4>2. recvBuffer'[i] = taken[i - h]
        BY <2>2, <4>1
      <4> QED
        BY <2>3, <4>1, <4>2
    <3> QED
      BY <3>1, <3>2
  <2>5. DOMAIN recvBuffer' = 1 .. h + k
    BY <2>2, LenProperties
  <2> QED
    BY <2>2, <2>4, <2>5 DEF FromPackets
<1>9. StreamTypeOK'
  <2>1. wire' \in Seq(Byte) /\ FromPackets(wire')
    BY <1>5, <1>6
  <2>2. readContinue' \in BOOLEAN /\ recvUp' \in BOOLEAN
    BY <1>1, <1>2, Zenon DEF StreamTypeOK
  <2>3. recvLeft' \in Int
    BY <1>2, <1>5 DEF StreamTypeOK
  <2>4. /\ recvAt' \in RecvPhase /\ recvRetry' \in Nat
        /\ nodesTaken' \in Int /\ received' \in Seq(Seq(Byte))
    BY <1>1, <1>2 DEF StreamTypeOK, RecvPhase
  <2> QED
    BY <1>1, <1>2, <1>8, <2>1, <2>2, <2>3, <2>4, ReceiverTypes
<1>10. NoNodeKept'
  BY <1>1, <1>2 DEF NoNodeKept
<1>11. ASSUME ~cut PROVE recvUp /\ Ahead' = Ahead /\ BufferOK'
  <2>1. HandedOn /\ recvUp
    BY <1>1, <1>11, ReceiverUp DEF StreamInv
  <2>2. Ahead' = Ahead
    <3>1. recvBuffer \in Seq(Byte)
      BY <1>2 DEF StreamTypeOK
    <3>2. (recvBuffer \o taken) \o left = recvBuffer \o (taken \o left)
      <4>1. taken \in Seq(Byte) /\ left \in Seq(Byte)
        BY <1>6
      <4> QED
        BY <3>1, <4>1, BytesInThree, Zenon
    <3> QED
      BY <1>5, <1>6, <3>2 DEF Ahead
  <2>3. BufferOK /\ ~Stalled
    BY <1>1, <2>1 DEF HandedOn, Stalled
  <2>4. Front' = Front /\ lengths' = lengths
    BY <1>1 DEF Front, sendVars
  <2>6. /\ g - k >= 0 /\ h + k + (g - k) = h + g /\ (h >= 2 => h + k >= 2)
    BY <1>4
  <2>7. /\ IF recvAt = "content"
           THEN h >= 2 /\ h + g = lengths[Front]
           ELSE h + g = 2
        /\ recvAt # "content" => readContinue = FALSE
    BY <1>7, <2>3, <1>g DEF BufferOK, PACKET_LENGTH_SIZE
  <2>8. recvLeft' = g - k
    BY <1>5, <1>g
  <2>9. BufferOK'
    BY <1>1, <1>8, <2>4, <2>6, <2>7, <2>8 DEF BufferOK, PACKET_LENGTH_SIZE
  <2> QED
    BY <2>1, <2>2, <2>9
<1> QED
  BY <1>1, <1>9, <1>10, <1>11, ReceiverKeeps

\* A step that leaves both buffers and what was handed on.
LEMMA CallTypes ==
    ASSUME StreamTypeOK,
           UNCHANGED <<receiver, sendVars, wire, recvBuffer, recvUp, received>>,
           recvAt' \in RecvPhase, recvLeft' \in Int, recvRetry' \in Nat,
           readContinue' \in BOOLEAN, nodesTaken' \in Int
    PROVE  StreamTypeOK'
<1>1. recvBuffer' \in Seq(Byte) /\ FromPackets(recvBuffer')
  BY DEF StreamTypeOK, RecvPhase, FromPackets, sendVars
<1>2. wire' \in Seq(Byte) /\ FromPackets(wire')
  BY DEF StreamTypeOK, FromPackets, sendVars
<1>3. recvUp' \in BOOLEAN
  BY Zenon DEF StreamTypeOK
<1>4. received' \in Seq(Seq(Byte))
  BY DEF StreamTypeOK
<1> QED
  BY <1>1, <1>2, <1>3, <1>4, ReceiverTypes

LEMMA ReceiveFailsKeeps ==
    ASSUME StreamInv, ReceiveFails, recvAt # "idle", receiver # "unity"
    PROVE  StreamInv'
<1>1. /\ recvAt' = "idle" /\ recvUp' = FALSE
      /\ nodesTaken' = IF receiver = "server" THEN nodesTaken - 1 ELSE nodesTaken
      /\ \/ recvBuffer' = recvBuffer /\ recvLeft' = recvLeft
         \/ recvBuffer' = <<>> /\ recvLeft' = PACKET_LENGTH_SIZE
      /\ UNCHANGED <<receiver, sendVars, wire, recvRetry, readContinue, received>>
  BY DEF ReceiveFails, ClearRecvPacketInfo
<1>2. StreamTypeOK /\ LastPacket /\ NoNodeKept
  BY DEF StreamInv
<1>3. StreamTypeOK'
  <2>1. recvBuffer' \in Seq(Byte) /\ FromPackets(recvBuffer')
    <3>1. recvBuffer \in Seq(Byte) /\ FromPackets(recvBuffer)
      BY <1>2 DEF StreamTypeOK
    <3>2. CASE recvBuffer' = recvBuffer
      BY <1>1, <3>1, <3>2 DEF FromPackets, sendVars
    <3>3. CASE recvBuffer' = <<>>
      BY <3>3, EmptySeq DEF FromPackets
    <3> QED
      BY <1>1, <3>2, <3>3
  <2>2. wire' \in Seq(Byte) /\ FromPackets(wire')
    BY <1>1, <1>2 DEF StreamTypeOK, FromPackets, sendVars
  <2>3. readContinue' \in BOOLEAN /\ recvUp' \in BOOLEAN
    BY <1>1, <1>2, Zenon DEF StreamTypeOK
  <2>4. /\ recvAt' \in RecvPhase /\ recvLeft' \in Int /\ recvRetry' \in Nat
        /\ nodesTaken' \in Int /\ received' \in Seq(Seq(Byte))
    BY <1>1, <1>2 DEF StreamTypeOK, RecvPhase, PACKET_LENGTH_SIZE
  <2> QED
    BY <1>1, <1>2, <2>1, <2>2, <2>3, <2>4, ReceiverTypes
<1>4. LastPacket'
  BY <1>1, <1>2, ReceiverLast
<1>5. NoNodeKept'
  BY <1>1, <1>2, StreamTypes DEF NoNodeKept, StreamTypeOK
<1>6. ASSUME ~cut PROVE HandedOn'
  <2>1. InStep /\ Len(received) <= Len(whole)
    BY <1>6 DEF StreamInv, HandedOn
  <2>2. InStep'
    BY <1>1, <2>1, StepSame DEF sendVars
  <2> QED
    BY <1>1, <2>1, <2>2 DEF HandedOn, sendVars
<1> QED
  BY <1>1, <1>3, <1>4, <1>5, <1>6 DEF StreamInv, sendVars

LEMMA ReceiveBlockedKeeps == ASSUME StreamInv, ReceiveBlocked PROVE StreamInv'
<1>1. /\ receiver # "unity" /\ recvAt \in {"length", "content"} /\ recvLeft > 0
      /\ wire = <<>>
  BY DEF ReceiveBlocked, Wanting
<1>2. StreamTypeOK /\ NoNodeKept
  BY DEF StreamInv
<1>3. CASE /\ receiver = "client" /\ recvAt = "length" /\ recvAt' = "idle"
           /\ UNCHANGED <<receiver, sendVars, wire, recvBuffer, recvLeft,
                          recvRetry, readContinue, recvUp, nodesTaken, received>>
  <2>1. StreamTypeOK'
    <3>1. readContinue' \in BOOLEAN
      BY <1>2, <1>3, Zenon DEF StreamTypeOK
    <3>2. recvAt' \in RecvPhase /\ recvLeft' \in Int /\ recvRetry' \in Nat
          /\ nodesTaken' \in Int
      BY <1>2, <1>3 DEF StreamTypeOK, RecvPhase
    <3> QED
      BY <1>2, <1>3, <3>1, <3>2, CallTypes
  <2>2. NoNodeKept'
    BY <1>3 DEF NoNodeKept
  <2>3. ASSUME ~cut PROVE recvUp /\ Ahead' = Ahead /\ BufferOK'
    <3>1. HandedOn /\ recvUp
      BY <1>1, <2>3, ReceiverUp DEF StreamInv
    <3>2. BufferOK /\ ~Stalled
      BY <1>1, <3>1 DEF HandedOn, Stalled
    <3>3. BufferOK'
      BY <1>3, <3>2 DEF BufferOK
    <3> QED
      BY <1>3, <3>1, <3>3 DEF Ahead
  <2> QED
    BY <1>3, <2>1, <2>2, <2>3, ReceiverKeeps
<1>4. CASE /\ recvRetry' = recvRetry + 1
           /\ UNCHANGED <<receiver, sendVars, wire, recvAt, recvBuffer, recvLeft,
                          readContinue, recvUp, nodesTaken, received>>
  <2>1. StreamTypeOK'
    <3>1. readContinue' \in BOOLEAN
      BY <1>2, <1>4, Zenon DEF StreamTypeOK
    <3>2. recvAt' \in RecvPhase /\ recvLeft' \in Int /\ recvRetry' \in Nat
          /\ nodesTaken' \in Int
      BY <1>2, <1>4 DEF StreamTypeOK, RecvPhase
    <3> QED
      BY <1>2, <1>4, <3>1, <3>2, CallTypes
  <2>2. NoNodeKept'
    BY <1>2, <1>4 DEF NoNodeKept
  <2>3. ASSUME ~cut PROVE recvUp /\ Ahead' = Ahead /\ BufferOK'
    <3>1. HandedOn /\ recvUp
      BY <1>1, <2>3, ReceiverUp DEF StreamInv
    <3>2. BufferOK
      BY <3>1 DEF HandedOn
    <3>3. Front' = Front /\ (Stalled => Stalled')
      BY <1>4 DEF Front, Stalled, sendVars
    <3>4. BufferOK'
      BY <1>4, <3>2, <3>3 DEF BufferOK, sendVars
    <3> QED
      BY <1>4, <3>1, <3>4 DEF Ahead
  <2> QED
    BY <1>4, <2>1, <2>2, <2>3, ReceiverKeeps
<1>5. CASE ReceiveFails
  BY <1>1, <1>5, ReceiveFailsKeeps
<1> QED
  BY <1>3, <1>4, <1>5 DEF ReceiveBlocked

LEMMA ReadClosedKeeps == ASSUME StreamInv, ReadClosed PROVE StreamInv'
<1>1. /\ receiver = "unity" /\ recvAt # "idle" /\ recvLeft > 0 /\ wire = <<>> /\ ~sendOpen
      /\ recvAt' \in {"content", "idle"}
      /\ UNCHANGED <<receiver, sendVars, wire, recvBuffer, recvLeft, recvRetry,
                     readContinue, recvUp, nodesTaken, received>>
  BY DEF ReadClosed, Wanting
<1>2. StreamTypeOK
  BY DEF StreamInv
<1>3. StreamTypeOK'
  <2>1. readContinue' \in BOOLEAN
    BY <1>1, <1>2, Zenon DEF StreamTypeOK
  <2>2. recvAt' \in RecvPhase /\ recvLeft' \in Int /\ recvRetry' \in Nat
        /\ nodesTaken' \in Int
    BY <1>1, <1>2 DEF StreamTypeOK, RecvPhase
  <2> QED
    BY <1>1, <1>2, <2>1, <2>2, CallTypes
<1>4. NoNodeKept'
  BY <1>1 DEF NoNodeKept
<1>5. ASSUME ~cut PROVE recvUp /\ Ahead' = Ahead /\ BufferOK'
  <2>1. recvUp
    BY <1>1, <1>5, ReceiverUp
  <2>2. Stalled'
    BY <1>1 DEF Stalled, sendVars
  <2> QED
    BY <1>1, <2>1, <2>2 DEF Ahead, BufferOK
<1> QED
  BY <1>1, <1>3, <1>4, <1>5, ReceiverKeeps

\* The bytes at the beginning of recvBuffer are those of the packet in Front.
LEMMA BufferIsFront ==
    ASSUME StreamTypeOK, Len(received) <= Len(whole), OnTheWay,
           NEW h \in Nat, h = Len(recvBuffer), h > 0
    PROVE  \E n \in PacketLengths :
             /\ n = lengths[Front] /\ Front \in 1 .. Len(lengths) /\ n \in Nat /\ n >= 2
             /\ \A k \in 1 .. h : k <= n => recvBuffer[k] = [packet |-> Front, at |-> k]
             /\ h >= n => Len(received) < Len(whole)
<1>1. recvBuffer \in Seq(Byte) /\ wire \in Seq(Byte)
  BY DEF StreamTypeOK
<1>2. PICK z \in Nat : z = Len(Ahead) /\ h <= z
  <2>1. Len(Ahead) = h + Len(wire) /\ Len(wire) \in Nat
    BY <1>1, StreamTypes, LenProperties
  <2> QED
    BY <2>1
<1>3. \A k \in 1 .. h : Ahead[k] = recvBuffer[k]
  BY <1>1, BytesJoined DEF Ahead
<1>4. Ahead # <<>>
  BY <1>2, StreamTypes, EmptySeq
<1>5. /\ Front \in 1 .. Len(lengths)
      /\ \A k \in 1 .. z :
           k <= lengths[Front] => Ahead[k] = [packet |-> Front, at |-> k]
      /\ z >= lengths[Front] => Len(received) < Len(whole)
  BY <1>2, <1>4, FrontIn
<1>6. PICK n \in Nat : n = lengths[Front] /\ n >= 2 /\ n \in PacketLengths
  BY <1>5, PacketLong DEF PACKET_LENGTH_SIZE
<1>7. ASSUME NEW k \in 1 .. h, k <= n PROVE recvBuffer[k] = [packet |-> Front, at |-> k]
  <2>1. k \in 1 .. z
    BY <1>2
  <2> QED
    BY <1>3, <1>5, <1>6, <1>7, <2>1
<1>8. h >= n => Len(received) < Len(whole)
  <2>1. h >= n => z >= n
    BY <1>2
  <2> QED
    BY <1>5, <1>6, <2>1
<1> QED
  BY <1>5, <1>6, <1>7, <1>8

\* While nothing was given up, what is wanted fits into the buffer.
LEMMA RoomEnough ==
    ASSUME StreamInv, ~cut, Wanting, ~Stalled
    PROVE  recvUp /\ recvLeft <= BufferRoom
<1>1. recvAt \in {"length", "content"} /\ StreamTypeOK
  BY DEF Wanting, StreamInv
<1>2. recvUp
  BY <1>1, ReceiverUp
<1>3. BufferOK /\ OnTheWay /\ Len(received) <= Len(whole)
  BY <1>2 DEF StreamInv, HandedOn
<1>4. PICK h \in Nat : h = Len(recvBuffer)
  BY <1>1, LenProperties DEF StreamTypeOK
<1>5. PacketBufferMax \in Nat /\ 2 <= PacketBufferMax /\ recvLeft \in Int
  BY <1>1, StreamAssumption DEF StreamTypeOK, PACKET_LENGTH_SIZE
<1>6. CASE recvAt = "content"
  <2>1. h >= 2 /\ h + recvLeft = lengths[Front]
    BY <1>3, <1>4, <1>6 DEF BufferOK, PACKET_LENGTH_SIZE
  <2>2. lengths[Front] \in PacketLengths
    <3>1. h > 0
      BY <2>1
    <3> QED
      BY <1>1, <1>3, <1>4, <3>1, BufferIsFront
  <2>3. lengths[Front] \in 2 .. PacketBufferMax
    BY <2>2, StreamAssumption DEF PACKET_LENGTH_SIZE
  <2> QED
    BY <1>2, <1>4, <1>5, <2>1, <2>3 DEF BufferRoom
<1>7. CASE recvAt = "length"
  <2>1. h + recvLeft = 2
    BY <1>3, <1>4, <1>7 DEF BufferOK, PACKET_LENGTH_SIZE
  <2> QED
    BY <1>2, <1>4, <1>5, <2>1 DEF BufferRoom
<1> QED
  BY <1>1, <1>6, <1>7

LEMMA ReceiveOverrunKeeps == ASSUME StreamInv, ReceiveOverrun PROVE StreamInv'
<1>1. /\ receiver # "unity" /\ recvAt \in {"length", "content"} /\ recvAt' = "overrun"
      /\ UNCHANGED <<receiver, sendVars, wire, recvBuffer, recvLeft, recvRetry,
                     readContinue, recvUp, nodesTaken, received>>
  BY DEF ReceiveOverrun, Wanting
<1>2. StreamTypeOK /\ NoNodeKept
  BY DEF StreamInv
<1>3. StreamTypeOK'
  <2>1. readContinue' \in BOOLEAN
    BY <1>1, <1>2, Zenon DEF StreamTypeOK
  <2>2. recvAt' \in RecvPhase /\ recvLeft' \in Int /\ recvRetry' \in Nat /\ nodesTaken' \in Int
    BY <1>1, <1>2 DEF StreamTypeOK, RecvPhase
  <2> QED
    BY <1>1, <1>2, <2>1, <2>2, CallTypes
<1>4. NoNodeKept'
  BY <1>1, <1>2 DEF NoNodeKept
<1>5. cut
  <2> SUFFICES ASSUME ~cut PROVE FALSE
    OBVIOUS
  <2>1. Wanting /\ ~Stalled /\ Min2(recvLeft, Len(wire)) > BufferRoom
    BY <1>1 DEF ReceiveOverrun, Stalled
  <2>2. recvLeft <= BufferRoom
    BY <2>1, RoomEnough
  <2>3. recvLeft \in Int /\ Len(wire) \in Nat /\ BufferRoom \in Int
    <3>1. Len(wire) \in Nat /\ Len(recvBuffer) \in Nat /\ recvLeft \in Int
      BY <1>2, LenProperties DEF StreamTypeOK
    <3> QED
      BY <3>1, StreamAssumption DEF BufferRoom
  <2>4. Min2(recvLeft, Len(wire)) <= recvLeft
    BY <2>3 DEF Min2
  <2> QED
    BY <2>1, <2>2, <2>3, <2>4 DEF Min2
<1> QED
  BY <1>1, <1>3, <1>4, <1>5, ReceiverKeeps

LEMMA ReadRefusedKeeps == ASSUME StreamInv, ReadRefused PROVE StreamInv'
<1>1. /\ receiver = "unity" /\ Wanting /\ recvLeft > BufferRoom
      /\ recvAt' \in {"content", "idle"}
      /\ UNCHANGED <<receiver, sendVars, wire, recvBuffer, recvLeft, recvRetry,
                     readContinue, recvUp, nodesTaken, received>>
  BY DEF ReadRefused
<1>2. StreamTypeOK
  BY DEF StreamInv
<1>3. StreamTypeOK'
  <2>1. readContinue' \in BOOLEAN
    BY <1>1, <1>2, Zenon DEF StreamTypeOK
  <2>2. recvAt' \in RecvPhase /\ recvLeft' \in Int /\ recvRetry' \in Nat /\ nodesTaken' \in Int
    BY <1>1, <1>2 DEF StreamTypeOK, RecvPhase
  <2> QED
    BY <1>1, <1>2, <2>1, <2>2, CallTypes
<1>4. NoNodeKept'
  BY <1>1 DEF NoNodeKept
<1>5. ASSUME ~cut PROVE recvUp /\ Ahead' = Ahead /\ BufferOK'
  <2>1. Stalled
    <3>1. recvLeft \in Int /\ BufferRoom \in Int
      <4>1. Len(recvBuffer) \in Nat /\ recvLeft \in Int
        BY <1>2, LenProperties DEF StreamTypeOK
      <4> QED
        BY <4>1, StreamAssumption DEF BufferRoom
    <3> QED
      BY <1>1, <1>5, <3>1, RoomEnough
  <2>2. recvUp
    BY <1>1, <1>5, ReceiverUp
  <2>3. Stalled'
    BY <1>1, <2>1 DEF Stalled, sendVars
  <2> QED
    BY <1>1, <2>2, <2>3 DEF Ahead, BufferOK
<1> QED
  BY <1>1, <1>3, <1>4, <1>5, ReceiverKeeps

LEMMA LengthReadKeeps == ASSUME StreamInv, LengthRead PROVE StreamInv'
<1>1. /\ recvAt = "length" /\ recvLeft = 0
      /\ recvAt' = "content" /\ readContinue' = (receiver = "unity")
      /\ UNCHANGED <<receiver, sendVars, wire, recvBuffer, recvRetry, recvUp,
                     nodesTaken, received>>
  BY DEF LengthRead
<1>2. PICK n \in PacketLengthIn(recvBuffer) : recvLeft' = n - PACKET_LENGTH_SIZE
  BY DEF LengthRead
<1>3. StreamTypeOK /\ NoNodeKept
  BY DEF StreamInv
<1>4. n \in Nat
  <2>1. CASE PacketLengthIn(recvBuffer) = PacketLengths \cup {0, PacketBufferMax + 1}
    <3>1. PacketBufferMax + 1 \in Nat
      BY StreamAssumption
    <3>2. n \in PacketLengths => n \in Nat
      BY LengthPositive
    <3> QED
      BY <2>1, <3>1, <3>2
  <2>2. CASE /\ PacketLengthIn(recvBuffer) = {lengths[recvBuffer[1].packet]}
             /\ Len(recvBuffer) >= PACKET_LENGTH_SIZE
    <3>1. 1 \in DOMAIN recvBuffer
      BY <1>3, <2>2, LenProperties DEF StreamTypeOK, PACKET_LENGTH_SIZE
    <3>2. recvBuffer[1].packet \in 1 .. Len(lengths)
      BY <1>3, <3>1 DEF StreamTypeOK, FromPackets
    <3> QED
      BY <1>3, <2>2, <3>2, PacketLong
  <2> QED
    BY <2>1, <2>2 DEF PacketLengthIn
<1>5. StreamTypeOK'
  <2>1. readContinue' \in BOOLEAN
    BY <1>1, Zenon
  <2>2. recvAt' \in RecvPhase /\ recvRetry' \in Nat
        /\ nodesTaken' \in Int
    BY <1>1, <1>3 DEF StreamTypeOK, RecvPhase
  <2>3. recvLeft' \in Int
    BY <1>2, <1>4 DEF PACKET_LENGTH_SIZE
  <2> QED
    BY <1>1, <1>3, <2>1, <2>2, <2>3, CallTypes
<1>6. NoNodeKept'
  BY <1>1, <1>3 DEF NoNodeKept
<1>7. ASSUME ~cut PROVE recvUp /\ Ahead' = Ahead /\ BufferOK'
  <2>1. HandedOn /\ recvUp
    BY <1>1, <1>7, ReceiverUp DEF StreamInv
  <2>2. BufferOK /\ ~Stalled /\ OnTheWay /\ Len(received) <= Len(whole)
    BY <1>1, <2>1 DEF HandedOn, Stalled
  <2>3. PICK h \in Nat : h = Len(recvBuffer) /\ h = 2
    <3>1. Len(recvBuffer) \in Nat
      BY <1>3, LenProperties DEF StreamTypeOK
    <3>2. Len(recvBuffer) + recvLeft = 2
      BY <1>1, <2>2 DEF BufferOK, PACKET_LENGTH_SIZE
    <3> QED
      BY <1>1, <3>1, <3>2
  <2>4. PICK f \in Nat :
           /\ f = lengths[Front] /\ f >= 2
           /\ \A k \in 1 .. h : k <= f => recvBuffer[k] = [packet |-> Front, at |-> k]
    <3>1. h > 0
      BY <2>3
    <3> QED
      BY <1>3, <2>2, <2>3, <3>1, BufferIsFront
  <2>5. \A k \in 1 .. 2 : recvBuffer[k] = [packet |-> Front, at |-> k]
    <3>1. \A k \in 1 .. 2 : k <= f
      BY <2>4
    <3> QED
      BY <2>3, <2>4, <3>1
  <2>6. recvBuffer[1].packet = Front
    BY <2>5
  <2>7. PacketLengthIn(recvBuffer) = {lengths[Front]}
    BY <2>3, <2>5, <2>6 DEF PacketLengthIn, PACKET_LENGTH_SIZE
  <2>8. recvLeft' = f - 2 /\ f - 2 >= 0 /\ 2 + (f - 2) = f
    BY <1>2, <2>4, <2>7 DEF PACKET_LENGTH_SIZE
  <2>9. Front' = Front /\ lengths' = lengths
    BY <1>1 DEF Front, sendVars
  <2>10. BufferOK'
    BY <1>1, <2>3, <2>4, <2>8, <2>9 DEF BufferOK, PACKET_LENGTH_SIZE
  <2> QED
    BY <1>1, <2>1, <2>10 DEF Ahead
<1> QED
  BY <1>1, <1>5, <1>6, <1>7, ReceiverKeeps

\* The packet in recvBuffer goes behind those handed on.
LEMMA OneMoreInStep ==
    ASSUME NEW r \in Nat, NEW S, NEW old \in Seq(S), NEW new \in S, NEW p,
           r = Len(old), \A i \in 1 .. r : old[i] = p[i], new = p[r + 1]
    PROVE  Append(old, new) = [i \in 1 .. r + 1 |-> p[i]]
<1>1. PICK s \in Seq(S) : s = Append(old, new)
  BY Appended
<1>2. Len(s) = r + 1 /\ (\A i \in 1 .. r : s[i] = old[i]) /\ s[r + 1] = new
  BY <1>1, Appended
<1>3. s = [i \in 1 .. r + 1 |-> s[i]]
  BY <1>2, LenProperties
<1>4. ASSUME NEW i \in 1 .. r + 1 PROVE s[i] = p[i]
  <2>1. CASE i \in 1 .. r
    BY <1>2, <2>1
  <2>2. CASE i = r + 1
    BY <1>2, <2>2
  <2> QED
    BY <2>1, <2>2
<1> QED
  BY <1>1, <1>3, <1>4

LEMMA ContentReadKeeps == ASSUME StreamInv, ContentRead PROVE StreamInv'
<1>1. /\ recvAt = "content" /\ recvLeft <= 0
      /\ recvAt' = "idle" /\ readContinue' = FALSE
      /\ recvBuffer' = <<>> /\ recvLeft' = PACKET_LENGTH_SIZE
      /\ UNCHANGED <<receiver, sendVars, wire, recvRetry, recvUp>>
      /\ \/ receiver = "server" /\ recvLeft < 0 /\ nodesTaken' = nodesTaken - 1 /\ received' = received
         \/ /\ ~(receiver = "server" /\ recvLeft < 0)
            /\ received' = Append(received, recvBuffer) /\ nodesTaken' = nodesTaken
  BY DEF ContentRead, ClearRecvPacketInfo
<1>2. StreamTypeOK /\ LastPacket /\ NoNodeKept
  BY DEF StreamInv
<1>3. /\ Append(received, recvBuffer) \in Seq(Seq(Byte))
      /\ Len(Append(received, recvBuffer)) = Len(received) + 1
  BY <1>2, Appended DEF StreamTypeOK
<1>4. StreamTypeOK'
  <2>1. recvBuffer' \in Seq(Byte) /\ FromPackets(recvBuffer')
    BY <1>1, EmptySeq DEF FromPackets
  <2>2. wire' \in Seq(Byte) /\ FromPackets(wire')
    BY <1>1, <1>2 DEF StreamTypeOK, FromPackets, sendVars
  <2>3. readContinue' \in BOOLEAN /\ recvUp' \in BOOLEAN
    BY <1>1, <1>2, Zenon DEF StreamTypeOK
  <2>4. /\ recvAt' \in RecvPhase /\ recvLeft' \in Int /\ recvRetry' \in Nat
    BY <1>1, <1>2 DEF StreamTypeOK, RecvPhase, PACKET_LENGTH_SIZE
  <2>5. nodesTaken' \in Int
    BY <1>1, <1>2 DEF StreamTypeOK
  <2>6. received' \in Seq(Seq(Byte))
    BY <1>1, <1>2, <1>3 DEF StreamTypeOK
  <2> QED
    BY <1>1, <1>2, <2>1, <2>2, <2>3, <2>4, <2>5, <2>6, ReceiverTypes
<1>5. LastPacket'
  BY <1>1, <1>2, ReceiverLast
<1>6. NoNodeKept'
  BY <1>1, <1>2, <1>3, StreamTypes DEF NoNodeKept
<1>7. ASSUME ~cut PROVE HandedOn'
  <2>1. HandedOn /\ recvUp
    BY <1>1, <1>7, ReceiverUp DEF StreamInv
  <2>2. BufferOK /\ ~Stalled /\ OnTheWay /\ InStep /\ Len(received) <= Len(whole)
    <3>1. ~(recvLeft > 0)
      BY <1>1, <1>2 DEF StreamTypeOK
    <3> QED
      BY <1>7, <2>1, <3>1 DEF HandedOn, Stalled
  <2>3. PICK h \in Nat : h = Len(recvBuffer)
    BY <1>2, LenProperties DEF StreamTypeOK
  <2>4. recvLeft = 0 /\ h >= 2 /\ h = lengths[Front]
    <3>1. recvLeft >= 0 /\ h >= 2 /\ h + recvLeft = lengths[Front]
      BY <1>1, <2>2, <2>3 DEF BufferOK, PACKET_LENGTH_SIZE
    <3>2. recvLeft = 0
      BY <1>1, <1>2, <3>1 DEF StreamTypeOK
    <3>3. h + 0 = h
      OBVIOUS
    <3> QED
      BY <3>1, <3>2, <3>3
  <2>5. /\ Len(received) < Len(whole)
        /\ \A k \in 1 .. h : recvBuffer[k] = [packet |-> Front, at |-> k]
    <3>1. h > 0
      BY <2>4
    <3>2. PICK n \in PacketLengths :
             /\ n = lengths[Front]
             /\ \A k \in 1 .. h : k <= n => recvBuffer[k] = [packet |-> Front, at |-> k]
             /\ h >= n => Len(received) < Len(whole)
      BY <1>2, <2>2, <2>3, <3>1, BufferIsFront
    <3>3. n = h /\ h >= n
      BY <2>4, <3>2
    <3> QED
      BY <3>2, <3>3
  <2>6. PICK b \in Nat, m \in Nat, r \in Nat, z \in Nat, L \in Nat : \E pos :
          /\ m = Len(whole) /\ r = Len(received) /\ z = Len(Ahead) /\ L = Len(lengths)
          /\ pos[m + 1] \in 0 .. z /\ b = z - pos[m + 1]
          /\ Placed(pos, r, whole, m, lengths, L, Ahead, z) /\ Begun(b, lengths, sendLeft, sendOpen)
          /\ r = m => b = z
    BY <1>2, <2>2, WayPicked
  <2>7. PICK pos :
          /\ m = Len(whole) /\ r = Len(received) /\ z = Len(Ahead) /\ L = Len(lengths)
          /\ pos[m + 1] \in 0 .. z /\ b = z - pos[m + 1]
          /\ Placed(pos, r, whole, m, lengths, L, Ahead, z) /\ Begun(b, lengths, sendLeft, sendOpen)
    BY <2>6
  <2>8. /\ r < m /\ r + 1 \in 1 .. m /\ Front = whole[r + 1] /\ h = lengths[whole[r + 1]]
        /\ received' = Append(received, recvBuffer) /\ Len(received') = r + 1
    <3>1. received' = Append(received, recvBuffer)
      BY <1>1, <2>4
    <3>2. r < m /\ r + 1 \in 1 .. m
      BY <2>5, <2>7
    <3>3. Front = whole[r + 1]
      BY <2>5, <2>7 DEF Front
    <3> QED
      BY <1>3, <2>4, <2>7, <3>1, <3>2, <3>3
  <2>9. UNCHANGED <<lengths, whole, sendLeft, sendOpen, cut, wire, receiver, recvUp>>
    BY <1>1 DEF sendVars
  <2>10. InStep'
    <3> DEFINE Packet(i) == [k \in 1 .. lengths[whole[i]] |-> [packet |-> whole[i], at |-> k]]
               p == [i \in 1 .. r + 1 |-> Packet(i)]
    <3>1. recvBuffer \in Seq(Byte) /\ received \in Seq(Seq(Byte))
      BY <1>2 DEF StreamTypeOK
    <3>2. recvBuffer = Packet(r + 1)
      <4>1. recvBuffer = [k \in 1 .. h |-> recvBuffer[k]]
        BY <2>3, <3>1, LenProperties
      <4> QED
        BY <2>5, <2>8, <4>1
    <3>3. received = [i \in 1 .. r |-> Packet(i)]
      BY <1>7, <2>2, <2>7 DEF InStep
    <3>4. r = Len(received)
      BY <2>7
    <3>5. [i \in 1 .. r + 1 |-> Packet(i)]' = p
      BY <2>9
    <3> HIDE DEF Packet
    <3>6. (\A i \in 1 .. r : received[i] = p[i]) /\ recvBuffer = p[r + 1]
      BY <3>2, <3>3
    <3>7. p = [i \in 1 .. r + 1 |-> p[i]]
      OBVIOUS
    <3> HIDE DEF p
    <3>8. Append(received, recvBuffer) = [i \in 1 .. r + 1 |-> p[i]]
      BY <3>1, <3>4, <3>6, OneMoreInStep
    <3>9. received' = [i \in 1 .. Len(received') |-> [k \in 1 .. lengths'[whole'[i]] |->
                          [packet |-> whole'[i], at |-> k]]]
      BY <2>8, <3>5, <3>7, <3>8 DEF Packet
    <3> QED
      BY <3>9 DEF InStep
  <2>11. PICK w \in Nat : w = Len(wire) /\ z = h + w
    <3>1. wire \in Seq(Byte)
      BY <1>2 DEF StreamTypeOK
    <3> QED
      BY <1>2, <2>3, <2>7, <3>1, StreamTypes, LenProperties
  <2>12. \A i \in 1 .. w : Ahead[h + i] = wire[i]
    <3>1. recvBuffer \in Seq(Byte) /\ wire \in Seq(Byte)
      BY <1>2 DEF StreamTypeOK
    <3>2. \A i \in 1 .. Len(wire) : (recvBuffer \o wire)[Len(recvBuffer) + i] = wire[i]
      BY <3>1, BytesJoined, Zenon
    <3> QED
      BY <2>3, <2>11, <3>2 DEF Ahead
  <2> DEFINE q == Behind(pos, r, m, h)
  <2>13. /\ Placed(q, r + 1, whole, m, lengths, L, wire, w)
         /\ w - q[m + 1] = b
    <3>1. \A i \in r + 1 .. m : lengths[whole[i]] \in Nat
      <4>1. \A i \in r + 1 .. m : i \in 1 .. m
        OBVIOUS
      <4> QED
        BY <1>2, <2>7, <4>1, StreamTypes
    <3>2. Placed(pos, r, whole, m, lengths, L, Ahead, z)
      BY <2>7
    <3>3. z = h + w /\ r < m /\ h = lengths[whole[r + 1]]
      BY <2>8, <2>11
    <3>4. Placed(q, r + 1, whole, m, lengths, L, wire, w)
      BY <2>12, <3>1, <3>2, <3>3, PacketHanded, SMTT(60)
    <3>5. w - q[m + 1] = z - pos[m + 1]
      <4>1. m + 1 \in r + 2 .. m + 1
        BY <3>3
      <4>2. PICK p \in Nat : p = pos[m + 1]
        BY <2>7
      <4>3. q[m + 1] = p - h
        BY <4>1, <4>2 DEF q, Behind
      <4>4. w - (p - h) = z - p
        BY <3>3
      <4> QED
        BY <4>2, <4>3, <4>4
    <3> QED
      BY <2>7, <3>4, <3>5
  <2> HIDE DEF q
  <2>14. Ahead' = wire
    <3>1. <<>> \o wire = wire
      BY <1>2, ConcatEmptySeq DEF StreamTypeOK
    <3> QED
      BY <1>1, <3>1 DEF Ahead
  <2>15. OnTheWay'
    <3>1. Placed(q, Len(received'), whole', Len(whole'), lengths', Len(lengths'),
                 Ahead', Len(Ahead'))
      BY <2>7, <2>8, <2>9, <2>11, <2>13, <2>14
    <3>2. Len(Ahead') - q[Len(whole') + 1] = b
      <4>1. Len(Ahead') = w /\ whole' = whole /\ m = Len(whole)
        BY <2>7, <2>9, <2>11, <2>14
      <4>2. w - q[m + 1] = b
        BY <2>13
      <4> QED
        BY <4>1, <4>2
    <3>3. Begun(b, lengths', sendLeft', sendOpen')
      BY <2>7, <2>9
    <3> QED
      BY <3>1, <3>2, <3>3, WayFound
  <2>16. BufferOK'
    BY <1>1 DEF BufferOK, PACKET_LENGTH_SIZE
  <2>17. Len(received') <= Len(whole')
    BY <2>7, <2>8, <2>9
  <2> QED
    BY <2>1, <2>9, <2>10, <2>15, <2>16, <2>17 DEF HandedOn
<1> QED
  BY <1>1, <1>4, <1>5, <1>6, <1>7 DEF StreamInv, sendVars

-----------------------------------------------------------------------------
LEMMA StreamInvNext ==
    ASSUME StreamInv, [StreamNext]_streamVars
    PROVE  StreamInv'
<1>1. CASE \E n \in PacketLengths : SendEx(n)
  BY <1>1, SendExKeeps
<1>2. CASE Sending
  BY <1>2, SendSomeKeeps, SendBlockedKeeps DEF Sending
<1>3. CASE SenderCloses
  BY <1>3, SenderClosesKeeps
<1>4. CASE ServerReceiveEx \/ ClientRecvEx \/ OnReadPacket
  BY <1>4, ServerReceiveExKeeps, ClientRecvExKeeps, OnReadPacketKeeps
<1>5. CASE ReceiveSome
  BY <1>5, ReceiveSomeKeeps
<1>6. CASE ReceiveBlocked
  BY <1>6, ReceiveBlockedKeeps
<1>7. CASE ReceiveClosed
  BY <1>7, ReceiveFailsKeeps DEF ReceiveClosed, Wanting
<1>8. CASE ReadClosed
  BY <1>8, ReadClosedKeeps
<1>9. CASE ReceiveOverrun \/ ReadRefused
  BY <1>9, ReceiveOverrunKeeps, ReadRefusedKeeps
<1>10. CASE LengthRead
  BY <1>10, LengthReadKeeps
<1>11. CASE ContentRead
  BY <1>11, ContentReadKeeps
<1>12. CASE UNCHANGED streamVars
  <2>1. /\ UNCHANGED <<receiver, lengths, whole, wire, recvVars, sendLeft, sendRetry, sendOpen, cut>>
    BY <1>12 DEF streamVars, sendVars
  <2>2. StreamTypeOK /\ LastPacket
    BY DEF StreamInv
  <2>3. sendLeft' \in Nat /\ sendRetry' \in Nat
    BY <2>1, <2>2 DEF StreamTypeOK
  <2>4. sendOpen' \in BOOLEAN /\ cut' \in BOOLEAN
    BY <2>1, <2>2, Zenon DEF StreamTypeOK
  <2>5. LastPacket'
    BY <2>1, <2>2 DEF LastPacket
  <2> QED
    BY <2>1, <2>3, <2>4, <2>5, SenderStops
<1> QED
  BY <1>1, <1>2, <1>3, <1>4, <1>5, <1>6, <1>7, <1>8, <1>9, <1>10, <1>11, <1>12
     DEF StreamNext, Receiving

\* Packets come out of the byte stream as they went in, whole and in order,
\* unless the sender gave one up half sent; only then is a byte put behind a
\* buffer; and no receive node is lost.
THEOREM StreamKept == StreamSpec => []StreamSafe
<1>1. StreamInv => StreamSafe
  BY DEF StreamInv, StreamSafe, HandedOn, InStep, BufferKept, BufferOK
<1> QED
  BY <1>1, StreamInvInit, StreamInvNext, PTL DEF StreamSpec

-----------------------------------------------------------------------------
(***************************************************************************)
(* Tutorials 1 and 2, for any number of clients and lines: on each         *)
(* connection the bytes a client has received, those on their way to it,   *)
(* those in the server's buffer and those on their way to the server are   *)
(* the bytes it sent, in this order, for as long as the server can echo    *)
(* any of them.                                                            *)
(***************************************************************************)

EchoTypeOK ==
  /\ serverKind \in {"blocking", "non-blocking", "select"}
  /\ echoAt \in {"create", "select", "accept", "receive", "echo", "release", "end"}
  /\ listenOpen \in BOOLEAN
  /\ acceptQueue \in Seq(EchoConn)
  /\ ServerClientSocket \in EchoConn \cup {ZeroSocket, InvalidSocket}
  /\ serverHandles \in SUBSET EchoConn
  /\ echoBuff \in Seq(Nat)
  /\ endAt \in [EchoConn -> {"create", "input", "reply", "drain", "end"}]
  /\ toServer \in [EchoConn -> Seq(Nat)] /\ toClient \in [EchoConn -> Seq(Nat)]
  /\ echoed \in [EchoConn -> Seq(Nat)]
  /\ wrote \in [EchoConn -> Nat]
  /\ dropped \in SUBSET EchoConn /\ overwritten \in SUBSET EchoConn
  /\ shortSend \in SUBSET EchoConn

\* Where a connection is: with a client that has not connected, in the backlog
\* once, in Client.Socket, or past both.  None comes back.
ConnPlaces ==
  /\ \A c \in EchoConn : endAt[c] = "create" =>
       c \notin Waiting \cup dropped \cup {ServerClientSocket}
  /\ \A i, j \in 1 .. Len(acceptQueue) : acceptQueue[i] = acceptQueue[j] => i = j
  /\ Waiting \cap (dropped \cup {ServerClientSocket}) = {}
  /\ echoAt # "end" => ServerClientSocket \notin dropped

\* What Client.Socket is at each point of the server's code.
ClientSocketOK ==
  /\ echoAt = "create" => ServerClientSocket = ZeroSocket
  /\ echoAt = "accept" /\ serverKind # "select" => ServerClientSocket = ZeroSocket
  /\ echoAt = "echo" => ServerClientSocket \in EchoConn

\* The bytes k + 1, k + 2, ...
CountsFrom(s, k) == \A i \in 1 .. Len(s) : s[i] = k + i

\* A client has received e, and t is under way to it; if it can still be
\* echoed to, b in the server's buffer and s under way are the rest of the w
\* bytes it sent.
ConnWay(e, t, b, s, w, live) ==
  /\ CountsFrom(e, 0) /\ CountsFrom(t, Len(e))
  /\ live => /\ CountsFrom(b, Len(e) + Len(t))
             /\ CountsFrom(s, Len(e) + Len(t) + Len(b))
             /\ w = Len(e) + Len(t) + Len(b) + Len(s)

Buffered(c) ==
  IF echoAt = "echo" /\ c = ServerClientSocket THEN echoBuff ELSE <<>>

Echoes(c) ==
  /\ c \notin dropped
  /\ ~(c = ServerClientSocket /\ echoAt \in {"release", "end"})

ConnWays ==
  \A c \in EchoConn \ shortSend :
    ConnWay(echoed[c], toClient[c], Buffered(c), toServer[c], wrote[c], Echoes(c))

EchoInv ==
  EchoTypeOK /\ ConnPlaces /\ ClientSocketOK /\ ConnWays /\ HandlesReleased

LEMMA CountsJoined ==
    ASSUME NEW s \in Seq(Nat), NEW t \in Seq(Nat), NEW k \in Nat,
           CountsFrom(s, k), CountsFrom(t, k + Len(s))
    PROVE  CountsFrom(s \o t, k)
<1>1. /\ Len(s) \in Nat /\ Len(t) \in Nat
      /\ Len(s \o t) = Len(s) + Len(t)
      /\ \A i \in 1 .. Len(s) : (s \o t)[i] = s[i]
      /\ \A i \in 1 .. Len(t) : (s \o t)[Len(s) + i] = t[i]
  BY Joined
<1>2. ASSUME NEW i \in 1 .. Len(s \o t)
      PROVE  (s \o t)[i] = k + i
  <2>1. CASE i <= Len(s)
    BY <1>1, <2>1 DEF CountsFrom
  <2>2. CASE i > Len(s)
    <3>1. i - Len(s) \in 1 .. Len(t) /\ Len(s) + (i - Len(s)) = i
      BY <1>1, <2>2
    <3> QED
      BY <1>1, <3>1 DEF CountsFrom
  <2> QED
    BY <1>1, <2>1, <2>2
<1> QED
  BY <1>2 DEF CountsFrom

LEMMA CountsEmpty == ASSUME NEW k PROVE CountsFrom(<<>>, k)
BY DEF CountsFrom

\* A line goes on its way to the server.
LEMMA WaySent ==
    ASSUME NEW e \in Seq(Nat), NEW t \in Seq(Nat), NEW b \in Seq(Nat),
           NEW s \in Seq(Nat), NEW w \in Nat, NEW line \in Seq(Nat),
           ConnWay(e, t, b, s, w, TRUE), CountsFrom(line, w)
    PROVE  ConnWay(e, t, b, s \o line, w + Len(line), TRUE)
<1>1. /\ Len(e) \in Nat /\ Len(t) \in Nat /\ Len(b) \in Nat /\ Len(s) \in Nat
      /\ Len(line) \in Nat /\ Len(s \o line) = Len(s) + Len(line)
  BY Joined
<1>2. CountsFrom(s \o line, Len(e) + Len(t) + Len(b))
  <2>1. CountsFrom(line, Len(e) + Len(t) + Len(b) + Len(s))
    BY DEF ConnWay
  <2>2. CountsFrom(s, Len(e) + Len(t) + Len(b))
    BY DEF ConnWay
  <2> QED
    BY <1>1, <2>1, <2>2, CountsJoined
<1>3. w + Len(line) = Len(e) + Len(t) + Len(b) + Len(s \o line)
  BY <1>1 DEF ConnWay
<1> QED
  BY <1>2, <1>3 DEF ConnWay

\* recv takes what has come.
LEMMA WayTaken ==
    ASSUME NEW e \in Seq(Nat), NEW t \in Seq(Nat), NEW s \in Seq(Nat),
           NEW w, NEW live, ConnWay(e, t, <<>>, s, w, live)
    PROVE  ConnWay(e, t, s, <<>>, w, live)
<1>1. /\ Len(e) \in Nat /\ Len(t) \in Nat /\ Len(s) \in Nat /\ Len(<<>>) = 0
  OBVIOUS
<1>2. Len(e) + Len(t) + 0 = Len(e) + Len(t)
  BY <1>1
<1> QED
  BY <1>1, <1>2, CountsEmpty DEF ConnWay

\* send takes all of the buffer.
LEMMA WayEchoed ==
    ASSUME NEW e \in Seq(Nat), NEW t \in Seq(Nat), NEW b \in Seq(Nat),
           NEW s \in Seq(Nat), NEW w, ConnWay(e, t, b, s, w, TRUE)
    PROVE  ConnWay(e, t \o b, <<>>, s, w, TRUE)
<1>1. /\ Len(e) \in Nat /\ Len(t) \in Nat /\ Len(b) \in Nat /\ Len(s) \in Nat
      /\ Len(t \o b) = Len(t) + Len(b) /\ Len(<<>>) = 0
  BY Joined
<1>2. CountsFrom(t \o b, Len(e))
  BY <1>1, CountsJoined DEF ConnWay
<1>3. Len(e) + (Len(t) + Len(b)) + 0 = Len(e) + Len(t) + Len(b)
  BY <1>1
<1> QED
  BY <1>1, <1>2, <1>3, CountsEmpty DEF ConnWay

\* The client takes what has come.
LEMMA WayGot ==
    ASSUME NEW e \in Seq(Nat), NEW t \in Seq(Nat), NEW b, NEW s, NEW w,
           NEW live, Len(b) \in Nat, ConnWay(e, t, b, s, w, live)
    PROVE  ConnWay(e \o t, <<>>, b, s, w, live)
<1>1. /\ Len(e) \in Nat /\ Len(t) \in Nat
      /\ Len(e \o t) = Len(e) + Len(t) /\ Len(<<>>) = 0
  BY Joined
<1>2. CountsFrom(e \o t, 0)
  <2>1. 0 + Len(e) = Len(e) /\ 0 \in Nat
    BY <1>1
  <2> QED
    BY <2>1, CountsJoined DEF ConnWay
<1>3. Len(e) + Len(t) + 0 = Len(e) + Len(t)
  BY <1>1
<1> QED
  BY <1>1, <1>2, <1>3, CountsEmpty DEF ConnWay

\* Nothing can be echoed any more.
LEMMA WayEnded ==
    ASSUME NEW e, NEW t, NEW b, NEW s, NEW w, NEW live,
           ConnWay(e, t, b, s, w, live), NEW b2, NEW s2, NEW w2
    PROVE  ConnWay(e, t, b2, s2, w2, FALSE)
BY DEF ConnWay

LEMMA EchoInvInit == EchoInit => EchoInv
<1> SUFFICES ASSUME EchoInit
             PROVE  EchoInv
  OBVIOUS
<1>1. EchoTypeOK
  <2>1. /\ <<>> \in Seq(EchoConn) /\ <<>> \in Seq(Nat)
        /\ [c \in EchoConn |-> <<>>] \in [EchoConn -> Seq(Nat)]
        /\ [c \in EchoConn |-> 0] \in [EchoConn -> Nat]
    OBVIOUS
  <2> QED
    BY <2>1 DEF EchoInit, EchoTypeOK
<1>2. Waiting = {}
  BY DEF EchoInit, Waiting
<1>3. ConnPlaces
  BY <1>2, EchoAssumption DEF EchoInit, ConnPlaces
<1>4. ClientSocketOK /\ HandlesReleased
  BY DEF EchoInit, ClientSocketOK, HandlesReleased
<1>5. ConnWays
  <2> SUFFICES ASSUME NEW c \in EchoConn
               PROVE  ConnWay(echoed[c], toClient[c], Buffered(c), toServer[c],
                              wrote[c], Echoes(c))
    BY DEF ConnWays
  <2>1. /\ echoed[c] = <<>> /\ toClient[c] = <<>> /\ Buffered(c) = <<>>
        /\ toServer[c] = <<>> /\ wrote[c] = 0
    BY DEF EchoInit, Buffered
  <2>2. Len(<<>>) = 0 /\ 0 + 0 + 0 + 0 = 0
    OBVIOUS
  <2> QED
    BY <2>1, <2>2, CountsEmpty DEF ConnWay
<1> QED
  BY <1>1, <1>3, <1>4, <1>5 DEF EchoInv

-----------------------------------------------------------------------------
(* Types, places and Client.Socket. *)

LEMMA WaitingTyped == ASSUME EchoTypeOK PROVE Waiting \in SUBSET EchoConn
<1>1. ASSUME NEW i \in 1 .. Len(acceptQueue)
      PROVE  acceptQueue[i] \in EchoConn
  BY DEF EchoTypeOK
<1> QED
  BY <1>1 DEF Waiting

LEMMA ServerTypes == ASSUME EchoTypeOK, ClientSocketOK, ServerRuns PROVE EchoTypeOK'
<1> USE DEF EchoTypeOK, kinds, echoClientVars
<1>1. CASE CreateBlocking \/ CreateNonBlocking \/ CreateSelect
  BY <1>1 DEF CreateBlocking, CreateNonBlocking, CreateSelect, CreateServer
<1>2. ASSUME Accepted
      PROVE  /\ ServerClientSocket' \in EchoConn
             /\ acceptQueue' \in Seq(EchoConn)
             /\ serverHandles' \in SUBSET EchoConn
  BY <1>2, HeadTailProperties DEF Accepted
<1>3. CASE BlockingAccept \/ NonBlockingAccept
  BY <1>2, <1>3 DEF BlockingAccept, NonBlockingAccept, NotAccepted
<1>4. CASE SelectAccept
  BY <1>2, <1>4 DEF SelectAccept, NotAccepted
<1>5. CASE Select
  BY <1>5 DEF Select
<1>6. ASSUME Recv
      PROVE  EchoTypeOK'
  BY <1>6 DEF Recv
<1>7. CASE BlockingReceive \/ NonBlockingReceive
  BY <1>6, <1>7 DEF BlockingReceive, NonBlockingReceive, ReceiveEnds1
<1>8. CASE SelectReceive
  BY <1>6, <1>8 DEF SelectReceive, CloseClient
<1>9. CASE Echo
  <2>1. ServerClientSocket \in EchoConn
    BY <1>9 DEF Echo, ClientSocketOK
  <2>2. CASE Echoed
    <3>1. PICK k \in 1 .. Len(echoBuff) :
            toClient' = [toClient EXCEPT ![ServerClientSocket] =
                           @ \o SubSeq(echoBuff, 1, k)]
      BY <2>2 DEF Echoed
    <3>2. SubSeq(echoBuff, 1, k) \in Seq(Nat)
      BY <3>1, SubSeqProperties
    <3>3. toClient' \in [EchoConn -> Seq(Nat)]
      BY <2>1, <3>1, <3>2, Joined, SMTT(40)
    <3>4. shortSend' \in SUBSET EchoConn
      BY <2>1, <2>2 DEF Echoed
    <3>5. /\ echoBuff' = <<>> /\ echoAt' \in {"select", "receive"}
          /\ UNCHANGED <<serverKind, listenOpen, acceptQueue, ServerClientSocket,
                         serverHandles, endAt, toServer, echoed, wrote, dropped,
                         overwritten>>
      BY <2>2 DEF Echoed
    <3> QED
      BY <3>3, <3>4, <3>5, SMTT(40)
  <2>3. CASE NotEchoed
    BY <2>3 DEF NotEchoed, CloseClient
  <2> QED
    BY <1>9, <2>2, <2>3 DEF Echo
<1>10. CASE ReleaseBlocking \/ ReleaseNonBlocking \/ ReleaseSelect
  <2>1. PICK kind : ReleaseServer(kind)
    BY <1>10 DEF ReleaseBlocking, ReleaseNonBlocking, ReleaseSelect
  <2>2. Waiting \in SUBSET EchoConn
    BY WaitingTyped
  <2>3. /\ serverHandles' \in SUBSET EchoConn
        /\ ServerClientSocket' \in EchoConn \cup {ZeroSocket, InvalidSocket}
    BY <2>1 DEF ReleaseServer
  <2>5. dropped' \in SUBSET EchoConn
    <3>1. \/ dropped' = dropped \cup Waiting
          \/ dropped' = dropped \cup ({ServerClientSocket} \cap EchoConn) \cup Waiting
      BY <2>1 DEF ReleaseServer
    <3> QED
      BY <2>2, <3>1
  <2>4. /\ listenOpen' = FALSE /\ acceptQueue' = <<>> /\ echoAt' = "end"
        /\ UNCHANGED <<serverKind, endAt, toServer, toClient, echoed, wrote,
                       echoBuff, overwritten, shortSend>>
    BY <2>1 DEF ReleaseServer
  <2>6. acceptQueue' \in Seq(EchoConn)
    BY <2>4
  <2> QED
    BY <2>3, <2>4, <2>5, <2>6
<1> QED
  BY <1>1, <1>3, <1>4, <1>5, <1>7, <1>8, <1>9, <1>10 DEF ServerRuns

\* What a client does.
ClientRuns(c) ==
  \/ ConnectBlocking(c) \/ ConnectNonBlocking(c)
  \/ SendBlocking(c) \/ SendNonBlocking(c) \/ Exit(c) \/ ClientReads(c)

LEMMA GotTypes ==
    ASSUME EchoTypeOK, NEW c \in EchoConn, GetBytes(c)
    PROVE  /\ echoed' \in [EchoConn -> Seq(Nat)]
           /\ toClient' \in [EchoConn -> Seq(Nat)]
<1>1. echoed[c] \o toClient[c] \in Seq(Nat)
  BY Joined DEF EchoTypeOK
<1> QED
  BY <1>1, SMTT(40) DEF GetBytes, EchoTypeOK

LEMMA ClientTypes ==
    ASSUME EchoTypeOK, NEW c \in EchoConn, ClientRuns(c)
    PROVE  EchoTypeOK'
<1> USE DEF EchoTypeOK, kinds, echoServerVars
<1>1. CASE ConnectBlocking(c) \/ ConnectNonBlocking(c)
  <2>1. PICK kind : ConnectClient(c, kind)
    BY <1>1 DEF ConnectBlocking, ConnectNonBlocking
  <2>2. Append(acceptQueue, c) \in Seq(EchoConn)
    BY Appended
  <2>3. acceptQueue' \in Seq(EchoConn)
    BY <2>1, <2>2 DEF ConnectClient
  <2>4. endAt' \in [EchoConn -> {"create", "input", "reply", "drain", "end"}]
    BY <2>1 DEF ConnectClient
  <2>5. UNCHANGED <<serverKind, echoAt, listenOpen, ServerClientSocket,
                    serverHandles, echoBuff, toServer, toClient, echoed, wrote,
                    dropped, overwritten, shortSend>>
    BY <2>1 DEF ConnectClient
  <2> QED
    BY <2>3, <2>4, <2>5
<1>2. ASSUME NEW kind, NEW next \in {"reply", "input"}, SendLine(c, kind, next)
      PROVE  EchoTypeOK'
  <2>1. CASE \E n \in 1 .. 2 :
               /\ wrote' = [wrote EXCEPT ![c] = @ + n]
               /\ toServer' = [toServer EXCEPT ![c] =
                    IF c \in dropped THEN @
                    ELSE @ \o [i \in 1 .. n |-> wrote[c] + i]]
               /\ endAt' = [endAt EXCEPT ![c] = next]
               /\ UNCHANGED ended
    <3>1. PICK n \in 1 .. 2 :
               /\ wrote' = [wrote EXCEPT ![c] = @ + n]
               /\ toServer' = [toServer EXCEPT ![c] =
                    IF c \in dropped THEN @
                    ELSE @ \o [i \in 1 .. n |-> wrote[c] + i]]
               /\ endAt' = [endAt EXCEPT ![c] = next]
      BY <2>1
    <3>2. [i \in 1 .. n |-> wrote[c] + i] \in Seq(Nat)
      OBVIOUS
    <3>3. toServer' \in [EchoConn -> Seq(Nat)]
      BY <3>1, <3>2, Joined
    <3>4. wrote' \in [EchoConn -> Nat]
      BY <3>1, SMTT(40)
    <3> QED
      BY <1>2, <3>1, <3>3, <3>4 DEF SendLine
  <2>2. CASE UNCHANGED <<wrote, toServer>> /\ endAt' = [endAt EXCEPT ![c] = "end"]
    BY <1>2, <2>2 DEF SendLine
  <2> QED
    BY <1>2, <2>1, <2>2 DEF SendLine
<1>3. CASE SendBlocking(c) \/ SendNonBlocking(c)
  BY <1>2, <1>3 DEF SendBlocking, SendNonBlocking
<1>4. CASE Exit(c)
  BY <1>4 DEF Exit
<1>5. CASE BlockingReply(c)
  BY <1>5, GotTypes DEF BlockingReply
<1>6. CASE NonBlockingReply(c)
  BY <1>6, GotTypes DEF NonBlockingReply
<1>7. CASE DrainBlocking(c) \/ DrainNonBlocking(c)
  BY <1>7, GotTypes DEF DrainBlocking, DrainNonBlocking, Drain
<1> QED
  BY <1>1, <1>3, <1>4, <1>5, <1>6, <1>7 DEF ClientRuns, ClientReads

LEMMA ClientSocketNext == ASSUME EchoInv, ServerRuns PROVE ClientSocketOK'
<1> USE DEF EchoInv, ClientSocketOK, kinds
<1>1. CASE CreateBlocking \/ CreateNonBlocking \/ CreateSelect
  BY <1>1 DEF CreateBlocking, CreateNonBlocking, CreateSelect, CreateServer
<1>2. CASE BlockingAccept \/ NonBlockingAccept \/ SelectAccept
  BY <1>2 DEF BlockingAccept, NonBlockingAccept, SelectAccept
<1>3. CASE Select
  BY <1>3 DEF Select
<1>4. CASE BlockingReceive \/ NonBlockingReceive \/ SelectReceive
  BY <1>4 DEF BlockingReceive, NonBlockingReceive, SelectReceive, Recv,
              ReceiveEnds1
<1>5. CASE Echo
  BY <1>5 DEF Echo, Echoed, NotEchoed
<1>6. CASE ReleaseBlocking \/ ReleaseNonBlocking \/ ReleaseSelect
  BY <1>6 DEF ReleaseBlocking, ReleaseNonBlocking, ReleaseSelect, ReleaseServer
<1> QED
  BY <1>1, <1>2, <1>3, <1>4, <1>5, <1>6 DEF ServerRuns

\* What accept takes from the backlog is there no more.
LEMMA OneAccepted ==
    ASSUME EchoTypeOK, ConnPlaces, Accepted
    PROVE  /\ ServerClientSocket' \in Waiting
           /\ Waiting' = Waiting \ {ServerClientSocket'}
           /\ \A i, j \in 1 .. Len(acceptQueue') :
                acceptQueue'[i] = acceptQueue'[j] => i = j
<1> DEFINE q == acceptQueue
<1>1. /\ q \in Seq(EchoConn) /\ Len(q) \in Nat \ {0}
      /\ Len(Tail(q)) = Len(q) - 1 /\ Head(q) = q[1]
      /\ \A i \in 1 .. Len(q) - 1 : Tail(q)[i] = q[i + 1]
  BY HeadTailProperties, EmptySeq DEF EchoTypeOK, Accepted
<1>2. acceptQueue' = Tail(q) /\ ServerClientSocket' = q[1]
  BY <1>1 DEF Accepted
<1>3. \A i, j \in 1 .. Len(q) : q[i] = q[j] => i = j
  BY DEF ConnPlaces
<1>4. Waiting' = {Tail(q)[i] : i \in 1 .. Len(q) - 1}
  BY <1>1, <1>2 DEF Waiting
<1> HIDE DEF q
<1>5. Waiting = {q[i] : i \in 1 .. Len(q)}
  BY DEF Waiting, q
<1>6. {Tail(q)[i] : i \in 1 .. Len(q) - 1} = {q[i] : i \in 1 .. Len(q)} \ {q[1]}
  <2>1. ASSUME NEW i \in 1 .. Len(q) - 1
        PROVE  Tail(q)[i] \in {q[k] : k \in 1 .. Len(q)} \ {q[1]}
    <3>1. i + 1 \in 1 .. Len(q) /\ 1 \in 1 .. Len(q) /\ i + 1 # 1
      BY <1>1
    <3> QED
      BY <1>1, <1>3, <3>1
  <2>2. ASSUME NEW i \in 1 .. Len(q), q[i] # q[1]
        PROVE  q[i] \in {Tail(q)[k] : k \in 1 .. Len(q) - 1}
    <3>1. i - 1 \in 1 .. Len(q) - 1 /\ (i - 1) + 1 = i
      BY <1>1, <2>2
    <3> QED
      BY <1>1, <3>1
  <2> QED
    BY <2>1, <2>2
<1>7. ASSUME NEW i \in 1 .. Len(q) - 1, NEW j \in 1 .. Len(q) - 1,
             Tail(q)[i] = Tail(q)[j]
      PROVE  i = j
  <2>1. i + 1 \in 1 .. Len(q) /\ j + 1 \in 1 .. Len(q)
    BY <1>1
  <2>2. i + 1 = j + 1
    BY <1>1, <1>3, <1>7, <2>1
  <2> QED
    BY <2>2
<1>8. Waiting' = Waiting \ {q[1]}
  BY <1>4, <1>5, <1>6
<1>9. q[1] \in Waiting
  <2>1. 1 \in 1 .. Len(q)
    BY <1>1
  <2> QED
    BY <1>5, <2>1
<1>10. \A i, j \in 1 .. Len(acceptQueue') : acceptQueue'[i] = acceptQueue'[j] => i = j
  BY <1>1, <1>2, <1>7
<1> QED
  BY <1>2, <1>8, <1>9, <1>10

LEMMA ServerPlaces == ASSUME EchoInv, ServerRuns PROVE ConnPlaces'
<1> USE DEF EchoInv, ConnPlaces, kinds, echoClientVars
<1>s. ServerClientSocket \in EchoConn \cup {ZeroSocket, InvalidSocket}
      /\ Waiting \in SUBSET EchoConn /\ dropped \in SUBSET EchoConn
  BY WaitingTyped, SMTT(40) DEF EchoTypeOK
<1>n. ZeroSocket \notin EchoConn /\ InvalidSocket \notin EchoConn
  BY EchoAssumption
<1>e. endAt' = endAt
  BY DEF ServerRuns, CreateBlocking, CreateNonBlocking, CreateSelect, CreateServer,
         BlockingAccept, NonBlockingAccept, SelectAccept, Select, BlockingReceive,
         NonBlockingReceive, SelectReceive, Recv, ReceiveEnds1, Echo, Echoed,
         NotEchoed, ReleaseBlocking, ReleaseNonBlocking, ReleaseSelect, ReleaseServer
\* A step that leaves the places alone.
<1>q. ASSUME UNCHANGED <<acceptQueue, dropped, ServerClientSocket>>,
             echoAt # "end"
      PROVE  ConnPlaces'
  BY <1>e, <1>q DEF Waiting
\* Client.Socket is closed.
<1>c. ASSUME CloseClient, UNCHANGED acceptQueue
      PROVE  ConnPlaces'
  <2>1. Waiting' = Waiting
    BY <1>c DEF Waiting
  <2> QED
    BY <1>c, <1>e, <1>n, <1>s, <2>1 DEF CloseClient
<1>1. CASE CreateBlocking \/ CreateNonBlocking \/ CreateSelect
  BY <1>1, <1>q DEF CreateBlocking, CreateNonBlocking, CreateSelect, CreateServer
<1>2. CASE BlockingAccept \/ NonBlockingAccept \/ SelectAccept
  <2>1. dropped' = dropped
    BY <1>2 DEF BlockingAccept, NonBlockingAccept, SelectAccept
  <2>2. CASE Accepted
    <3>1. /\ ServerClientSocket' \in Waiting
          /\ Waiting' = Waiting \ {ServerClientSocket'}
          /\ \A i, j \in 1 .. Len(acceptQueue') :
               acceptQueue'[i] = acceptQueue'[j] => i = j
      BY <2>2, OneAccepted
    <3> QED
      BY <1>e, <1>s, <2>1, <3>1
  <2>3. CASE NotAccepted
    <3>1. Waiting' = Waiting /\ ServerClientSocket' = InvalidSocket
      BY <2>3 DEF NotAccepted, Waiting
    <3> QED
      BY <1>e, <1>n, <1>s, <2>1, <2>3, <3>1 DEF NotAccepted
  <2> QED
    BY <1>2, <2>2, <2>3 DEF BlockingAccept, NonBlockingAccept, SelectAccept
<1>3. CASE Select
  BY <1>3, <1>q DEF Select
<1>4. CASE BlockingReceive \/ NonBlockingReceive \/ SelectReceive
  BY <1>4, <1>q, <1>c DEF BlockingReceive, NonBlockingReceive, SelectReceive,
                          Recv, ReceiveEnds1
<1>5. CASE Echo
  BY <1>5, <1>q, <1>c DEF Echo, Echoed, NotEchoed
<1>6. CASE ReleaseBlocking \/ ReleaseNonBlocking \/ ReleaseSelect
  <2>1. /\ acceptQueue' = <<>> /\ echoAt' = "end"
        /\ ServerClientSocket' \in {ServerClientSocket, ZeroSocket}
        /\ dropped' \in SUBSET (dropped \cup Waiting \cup {ServerClientSocket})
    BY <1>6 DEF ReleaseBlocking, ReleaseNonBlocking, ReleaseSelect, ReleaseServer
  <2>2. Waiting' = {} /\ Len(acceptQueue') = 0
    BY <2>1 DEF Waiting
  <2> QED
    BY <1>e, <1>n, <2>1, <2>2
<1> QED
  BY <1>1, <1>2, <1>3, <1>4, <1>5, <1>6 DEF ServerRuns

LEMMA ClientPlaces ==
    ASSUME EchoInv, NEW c \in EchoConn, ClientRuns(c)
    PROVE  ConnPlaces'
<1> USE DEF EchoInv, ConnPlaces, kinds, echoServerVars
<1>q. ASSUME UNCHANGED <<acceptQueue, dropped, ServerClientSocket, echoAt>>,
             \A d \in EchoConn : endAt'[d] = "create" => endAt[d] = "create"
      PROVE  ConnPlaces'
  BY <1>q DEF Waiting
<1>t. endAt \in [EchoConn -> {"create", "input", "reply", "drain", "end"}]
  BY DEF EchoTypeOK
<1>1. ASSUME NEW kind, ConnectClient(c, kind)
      PROVE  ConnPlaces'
  <2>1. CASE listenOpen
    <3> DEFINE q == acceptQueue
    <3>1. /\ q \in Seq(EchoConn) /\ Len(q) \in Nat
          /\ Len(Append(q, c)) = Len(q) + 1
          /\ \A i \in 1 .. Len(q) : Append(q, c)[i] = q[i]
          /\ Append(q, c)[Len(q) + 1] = c
      BY Appended DEF EchoTypeOK
    <3>2. acceptQueue' = Append(q, c) /\ endAt' = [endAt EXCEPT ![c] = "input"]
      BY <1>1, <2>1 DEF ConnectClient
    <3>3. Waiting' = {Append(q, c)[i] : i \in 1 .. Len(q) + 1}
      BY <3>1, <3>2 DEF Waiting
    <3> HIDE DEF q
    <3>4. {Append(q, c)[i] : i \in 1 .. Len(q) + 1}
            = {q[i] : i \in 1 .. Len(q)} \cup {c}
      <4>1. 1 .. Len(q) + 1 = (1 .. Len(q)) \cup {Len(q) + 1}
        BY <3>1
      <4> QED
        BY <3>1, <4>1
    <3>5. Waiting' = Waiting \cup {c}
      BY <3>3, <3>4 DEF Waiting, q
    <3>6. c \notin Waiting \cup dropped \cup {ServerClientSocket}
      BY <1>1 DEF ConnectClient
    <3>7. \A i \in 1 .. Len(q) : q[i] # c
      BY <3>6 DEF Waiting, q
    <3>8. ASSUME NEW i \in 1 .. Len(q) + 1, NEW j \in 1 .. Len(q) + 1,
                 Append(q, c)[i] = Append(q, c)[j]
          PROVE  i = j
      <4>1. i \in 1 .. Len(q) \/ i = Len(q) + 1
        BY <3>1
      <4>2. j \in 1 .. Len(q) \/ j = Len(q) + 1
        BY <3>1
      <4>3. \A m, n \in 1 .. Len(q) : q[m] = q[n] => m = n
        BY DEF q
      <4> QED
        BY <3>1, <3>7, <3>8, <4>1, <4>2, <4>3
    <3>9. /\ UNCHANGED <<dropped, ServerClientSocket, echoAt>>
          /\ \A d \in EchoConn \ {c} : endAt'[d] = endAt[d]
          /\ endAt'[c] # "create"
      BY <1>1, <1>t, <3>2 DEF ConnectClient
    <3>10. \A i, j \in 1 .. Len(acceptQueue') : acceptQueue'[i] = acceptQueue'[j] => i = j
      BY <3>1, <3>2, <3>8
    <3> QED
      BY <3>5, <3>6, <3>9, <3>10
  <2>2. CASE ~listenOpen
    <3>1. /\ UNCHANGED <<acceptQueue, dropped, ServerClientSocket, echoAt>>
          /\ endAt' = [endAt EXCEPT ![c] = "end"]
      BY <1>1, <2>2 DEF ConnectClient
    <3> QED
      BY <1>q, <1>t, <3>1
  <2> QED
    BY <2>1, <2>2
<1>2. CASE ConnectBlocking(c) \/ ConnectNonBlocking(c)
  BY <1>1, <1>2 DEF ConnectBlocking, ConnectNonBlocking
\* No other step makes a client anew.
<1>3. CASE SendBlocking(c) \/ SendNonBlocking(c)
  <2>1. /\ UNCHANGED <<acceptQueue, dropped, ServerClientSocket, echoAt>>
        /\ \E next \in {"reply", "input", "end"} :
             endAt' = [endAt EXCEPT ![c] = next]
    BY <1>3 DEF SendBlocking, SendNonBlocking, SendLine
  <2> QED
    BY <1>q, <1>t, <2>1, SMTT(40)
<1>4. CASE Exit(c)
  BY <1>4, <1>q, <1>t DEF Exit
<1>5. CASE ClientReads(c)
  <2>1. /\ UNCHANGED <<acceptQueue, dropped, ServerClientSocket, echoAt>>
        /\ \/ endAt' = endAt
           \/ \E next \in {"input", "drain", "end"} :
                endAt' = [endAt EXCEPT ![c] = next]
    BY <1>5 DEF ClientReads, BlockingReply, NonBlockingReply, DrainBlocking,
                DrainNonBlocking, Drain
  <2> QED
    BY <1>q, <1>t, <2>1
<1> QED
  BY <1>2, <1>3, <1>4, <1>5 DEF ClientRuns

-----------------------------------------------------------------------------
(* Handles. *)

LEMMA ServerHandles == ASSUME EchoInv, ServerRuns PROVE HandlesReleased'
<1> USE DEF EchoInv, HandlesReleased, kinds
<1>s. /\ ServerClientSocket \in EchoConn \cup {ZeroSocket, InvalidSocket}
      /\ serverHandles \in SUBSET EchoConn
      /\ ZeroSocket \notin EchoConn /\ InvalidSocket \notin EchoConn
  BY EchoAssumption DEF EchoTypeOK
<1>1. CASE CreateBlocking \/ CreateNonBlocking \/ CreateSelect
  BY <1>1 DEF CreateBlocking, CreateNonBlocking, CreateSelect, CreateServer
\* Before the only accept of these two there is no handle.
<1>2. CASE BlockingAccept \/ NonBlockingAccept
  <2>1. ServerClientSocket = ZeroSocket /\ echoAt' # "end"
    BY <1>2 DEF BlockingAccept, NonBlockingAccept, ClientSocketOK
  <2>2. overwritten' = overwritten /\ serverKind' = serverKind
    BY <1>2 DEF BlockingAccept, NonBlockingAccept
  <2>3. Accepted \/ NotAccepted
    BY <1>2 DEF BlockingAccept, NonBlockingAccept
  <2> QED
    BY <1>s, <2>1, <2>2, <2>3 DEF Accepted, NotAccepted
<1>3. CASE SelectAccept
  BY <1>3, <1>s DEF SelectAccept, Accepted, NotAccepted
<1>4. CASE Select
  BY <1>4 DEF Select
<1>5. CASE BlockingReceive \/ NonBlockingReceive \/ SelectReceive
  BY <1>5 DEF BlockingReceive, NonBlockingReceive, SelectReceive, Recv,
              ReceiveEnds1, CloseClient
<1>6. CASE Echo
  BY <1>6 DEF Echo, Echoed, NotEchoed, CloseClient
<1>7. ASSUME NEW kind, ReleaseServer(kind)
      PROVE  HandlesReleased'
  <2>1. /\ overwritten' = overwritten /\ serverKind' = serverKind
        /\ echoAt' = "end" /\ listenOpen' = FALSE
        /\ serverHandles' \in SUBSET (serverHandles \ {ServerClientSocket})
    BY <1>7, <1>s DEF ReleaseServer
  <2> QED
    BY <2>1
<1>8. CASE ReleaseBlocking \/ ReleaseNonBlocking \/ ReleaseSelect
  BY <1>7, <1>8 DEF ReleaseBlocking, ReleaseNonBlocking, ReleaseSelect
<1> QED
  BY <1>1, <1>2, <1>3, <1>4, <1>5, <1>6, <1>8 DEF ServerRuns

-----------------------------------------------------------------------------
(* The bytes. *)

\* A step that leaves the bytes alone, and lets no more be echoed.
LEMMA WaysKept ==
    ASSUME ConnWays, UNCHANGED <<echoed, toClient, toServer, wrote, shortSend>>,
           \A c \in EchoConn : /\ Buffered(c)' = Buffered(c)
                               /\ Echoes(c)' => Echoes(c)
    PROVE  ConnWays'
<1> SUFFICES ASSUME NEW c \in EchoConn \ shortSend
             PROVE  ConnWay(echoed[c], toClient[c], Buffered(c), toServer[c],
                            wrote[c], Echoes(c)')
  BY DEF ConnWays
<1>1. ConnWay(echoed[c], toClient[c], Buffered(c), toServer[c], wrote[c],
              Echoes(c))
  BY DEF ConnWays
<1>2. Echoes(c)' => Echoes(c)
  OBVIOUS
<1> QED
  BY <1>1, <1>2 DEF ConnWay

LEMMA BuffersTyped == ASSUME EchoTypeOK, NEW c PROVE Buffered(c) \in Seq(Nat)
BY DEF EchoTypeOK, Buffered

LEMMA RecvWays ==
    ASSUME EchoInv, Recv, echoAt = "receive"
    PROVE  ConnWays'
<1> DEFINE d == ServerClientSocket
<1>1. /\ d \in EchoConn /\ echoAt' = "echo"
      /\ echoBuff' = toServer[d] /\ toServer' = [toServer EXCEPT ![d] = <<>>]
      /\ UNCHANGED <<echoed, toClient, wrote, shortSend, dropped, ServerClientSocket>>
  BY DEF Recv, echoClientVars
<1>t. /\ echoed \in [EchoConn -> Seq(Nat)] /\ toClient \in [EchoConn -> Seq(Nat)]
      /\ toServer \in [EchoConn -> Seq(Nat)]
  BY DEF EchoInv, EchoTypeOK
<1> SUFFICES ASSUME NEW c \in EchoConn \ shortSend
             PROVE  ConnWay(echoed[c], toClient[c], Buffered(c)', toServer'[c],
                            wrote[c], Echoes(c)')
  BY <1>1 DEF ConnWays
<1>2. ConnWay(echoed[c], toClient[c], <<>>, toServer[c], wrote[c], Echoes(c))
  BY DEF EchoInv, ConnWays, Buffered
<1>3. Echoes(c)' = Echoes(c)
  BY <1>1 DEF Echoes
<1>4. CASE c = d
  <2>1. Buffered(c)' = toServer[c] /\ toServer'[c] = <<>>
    BY <1>1, <1>t, <1>4 DEF Buffered
  <2> QED
    BY <1>2, <1>3, <1>t, <2>1, WayTaken
<1>5. CASE c # d
  <2>1. Buffered(c)' = <<>> /\ toServer'[c] = toServer[c]
    BY <1>1, <1>t, <1>5 DEF Buffered
  <2> QED
    BY <1>2, <1>3, <2>1
<1> QED
  BY <1>4, <1>5

LEMMA EchoedWays ==
    ASSUME EchoInv, Echoed, echoAt = "echo"
    PROVE  ConnWays'
<1> DEFINE d == ServerClientSocket
<1>t. /\ echoed \in [EchoConn -> Seq(Nat)] /\ toClient \in [EchoConn -> Seq(Nat)]
      /\ toServer \in [EchoConn -> Seq(Nat)] /\ echoBuff \in Seq(Nat)
      /\ d \in EchoConn
  BY DEF EchoInv, EchoTypeOK, ClientSocketOK
<1>1. PICK k \in 1 .. Len(echoBuff) :
        /\ toClient' = [toClient EXCEPT ![d] = @ \o SubSeq(echoBuff, 1, k)]
        /\ shortSend' = IF k < Len(echoBuff) THEN shortSend \cup {d} ELSE shortSend
  BY DEF Echoed
<1>2. /\ echoAt' # "echo" /\ echoAt' \in {"select", "receive"}
      /\ UNCHANGED <<echoed, toServer, wrote, dropped, ServerClientSocket>>
  BY DEF Echoed, echoClientVars
<1> SUFFICES ASSUME NEW c \in EchoConn \ shortSend'
             PROVE  ConnWay(echoed[c], toClient'[c], Buffered(c)', toServer[c],
                            wrote[c], Echoes(c)')
  BY <1>2 DEF ConnWays
<1>3. c \in EchoConn \ shortSend
  BY <1>1
<1>4. ConnWay(echoed[c], toClient[c], Buffered(c), toServer[c], wrote[c], Echoes(c))
  BY <1>3 DEF EchoInv, ConnWays
<1>5. Echoes(c)' = Echoes(c) /\ Buffered(c)' = <<>>
  BY <1>2 DEF Echoes, Buffered
<1>6. CASE c = d
  <2>1. k = Len(echoBuff)
    <3>1. Len(echoBuff) \in Nat
      BY <1>t
    <3>2. ~(k < Len(echoBuff))
      BY <1>1, <1>6
    <3> QED
      BY <3>1, <3>2
  <2>2. SubSeq(echoBuff, 1, k) = echoBuff
    BY <1>t, <2>1, SubSeqFull
  <2>3. toClient'[c] = toClient[c] \o echoBuff
    BY <1>1, <1>t, <1>6, <2>2
  <2>4. Echoes(c) = TRUE
    BY <1>6 DEF Echoes, EchoInv, ConnPlaces
  <2>5. Buffered(c) = echoBuff
    BY <1>6 DEF Buffered
  <2>6. ConnWay(echoed[c], toClient[c], echoBuff, toServer[c], wrote[c], TRUE)
    BY <1>4, <2>4, <2>5
  <2>7. ConnWay(echoed[c], toClient[c] \o echoBuff, <<>>, toServer[c], wrote[c], TRUE)
    <3>1. /\ echoed[c] \in Seq(Nat) /\ toClient[c] \in Seq(Nat)
          /\ toServer[c] \in Seq(Nat)
      BY <1>t
    <3> QED
      BY <1>t, <2>6, <3>1, WayEchoed
  <2> QED
    BY <1>5, <2>3, <2>4, <2>7
<1>7. CASE c # d
  <2>1. toClient'[c] = toClient[c] /\ Buffered(c) = <<>>
    BY <1>1, <1>t, <1>7 DEF Buffered
  <2> QED
    BY <1>4, <1>5, <2>1
<1> QED
  BY <1>6, <1>7

\* Nothing more is echoed to a client whose echo has failed.
LEMMA NotEchoedWays ==
    ASSUME EchoInv, NotEchoed, echoAt = "echo"
    PROVE  ConnWays'
<1> DEFINE d == ServerClientSocket
<1>1. /\ d \in EchoConn
      /\ UNCHANGED <<echoed, toClient, toServer, wrote, shortSend>>
      /\ echoAt' # "echo"
      /\ \/ /\ echoAt' = "release" /\ dropped' = dropped
            /\ ServerClientSocket' = d
         \/ dropped' = dropped \cup {d}
  BY DEF NotEchoed, CloseClient, echoClientVars, EchoInv, ClientSocketOK
<1> SUFFICES ASSUME NEW c \in EchoConn \ shortSend
             PROVE  ConnWay(echoed[c], toClient[c], Buffered(c)', toServer[c],
                            wrote[c], Echoes(c)')
  BY <1>1 DEF ConnWays
<1>2. ConnWay(echoed[c], toClient[c], Buffered(c), toServer[c], wrote[c], Echoes(c))
  BY DEF EchoInv, ConnWays
<1>3. Buffered(c)' = <<>>
  BY <1>1 DEF Buffered
<1>4. CASE c = d
  <2>1. Echoes(c)' = FALSE
    BY <1>1, <1>4 DEF Echoes
  <2> QED
    BY <1>2, <2>1, WayEnded
<1>5. CASE c # d
  <2>1. Buffered(c) = <<>>
    BY <1>5 DEF Buffered
  <2>2. Echoes(c)' => Echoes(c)
    BY <1>1, <1>5 DEF Echoes
  <2> QED
    BY <1>2, <1>3, <2>1, <2>2 DEF ConnWay
<1> QED
  BY <1>4, <1>5

LEMMA ServerWays == ASSUME EchoInv, ServerRuns PROVE ConnWays'
<1>w. ConnWays
  BY DEF EchoInv
\* A step that echoes nothing, from outside the echo and to outside of it.
<1>q. ASSUME UNCHANGED <<echoed, toClient, toServer, wrote, shortSend>>,
             echoAt # "echo", echoAt' # "echo",
             \A c \in EchoConn : Echoes(c)' => Echoes(c)
      PROVE  ConnWays'
  BY <1>q, <1>w, WaysKept DEF Buffered
<1> USE DEF kinds, echoClientVars
<1>1. CASE CreateBlocking \/ CreateNonBlocking \/ CreateSelect
  BY <1>1, <1>q DEF CreateBlocking, CreateNonBlocking, CreateSelect, CreateServer,
                    Echoes
<1>2. CASE BlockingAccept \/ NonBlockingAccept \/ SelectAccept
  <2>1. /\ UNCHANGED <<echoed, toClient, toServer, wrote, shortSend, dropped>>
        /\ echoAt = "accept" /\ echoAt' # "echo"
    BY <1>2 DEF BlockingAccept, NonBlockingAccept, SelectAccept
  <2> QED
    BY <1>q, <2>1 DEF Echoes
<1>3. CASE Select
  <2>1. /\ UNCHANGED <<echoed, toClient, toServer, wrote, shortSend, dropped>>
        /\ echoAt = "select" /\ echoAt' # "echo"
    BY <1>3 DEF Select
  <2> QED
    BY <1>q, <2>1 DEF Echoes
<1>4. ASSUME echoAt = "receive", Recv \/ ReceiveEnds1
      PROVE  ConnWays'
  <2>1. CASE Recv
    BY <1>4, <2>1, RecvWays
  <2>2. CASE ReceiveEnds1
    BY <1>4, <1>q, <2>2 DEF ReceiveEnds1, Echoes
  <2> QED
    BY <1>4, <2>1, <2>2
<1>5. CASE BlockingReceive \/ NonBlockingReceive
  BY <1>4, <1>5 DEF BlockingReceive, NonBlockingReceive
<1>6. CASE SelectReceive
  <2>1. CASE Recv
    BY <1>6, <2>1, RecvWays DEF SelectReceive
  <2>2. CASE ~Recv
    <3>1. /\ UNCHANGED <<echoed, toClient, toServer, wrote, shortSend>>
          /\ echoAt = "receive" /\ echoAt' = "select"
          /\ dropped \in SUBSET dropped'
      BY <1>6, <2>2 DEF SelectReceive, CloseClient
    <3> QED
      BY <1>q, <3>1 DEF Echoes
  <2> QED
    BY <2>1, <2>2
<1>7. CASE Echo
  BY <1>7, EchoedWays, NotEchoedWays DEF Echo
<1>8. ASSUME NEW kind, ReleaseServer(kind)
      PROVE  ConnWays'
  <2>1. /\ UNCHANGED <<echoed, toClient, toServer, wrote, shortSend>>
        /\ echoAt = "release" /\ echoAt' = "end"
    BY <1>8 DEF ReleaseServer
  <2>2. dropped \in SUBSET dropped'
    BY <1>8 DEF ReleaseServer
  <2>3. ServerClientSocket \in EchoConn => ServerClientSocket \in dropped'
    BY <1>8, EchoAssumption DEF ReleaseServer
  <2> QED
    BY <1>q, <2>1, <2>2, <2>3 DEF Echoes
<1>9. CASE ReleaseBlocking \/ ReleaseNonBlocking \/ ReleaseSelect
  BY <1>8, <1>9 DEF ReleaseBlocking, ReleaseNonBlocking, ReleaseSelect
<1> QED
  BY <1>1, <1>2, <1>3, <1>5, <1>6, <1>7, <1>9 DEF ServerRuns

LEMMA GotWays ==
    ASSUME EchoInv, NEW d \in EchoConn, GetBytes(d),
           UNCHANGED <<kinds, echoServerVars, toServer, dropped, wrote>>
    PROVE  ConnWays'
<1>t. /\ echoed \in [EchoConn -> Seq(Nat)] /\ toClient \in [EchoConn -> Seq(Nat)]
      /\ toServer \in [EchoConn -> Seq(Nat)]
  BY DEF EchoInv, EchoTypeOK
<1>1. /\ echoed' = [echoed EXCEPT ![d] = @ \o toClient[d]]
      /\ toClient' = [toClient EXCEPT ![d] = <<>>]
  BY DEF GetBytes
<1>2. shortSend' = shortSend /\ toServer' = toServer /\ wrote' = wrote
  BY DEF echoServerVars
<1> SUFFICES ASSUME NEW c \in EchoConn \ shortSend
             PROVE  ConnWay(echoed'[c], toClient'[c], Buffered(c)', toServer[c],
                            wrote[c], Echoes(c)')
  BY <1>2 DEF ConnWays
<1>3. ConnWay(echoed[c], toClient[c], Buffered(c), toServer[c], wrote[c], Echoes(c))
  BY DEF EchoInv, ConnWays
<1>4. Buffered(c)' = Buffered(c)
  BY DEF Buffered, echoServerVars
<1>5. Echoes(c)' = Echoes(c)
  BY DEF Echoes, echoServerVars
<1>6. CASE c = d
  <2>1. echoed'[c] = echoed[c] \o toClient[c] /\ toClient'[c] = <<>>
    BY <1>1, <1>6, <1>t
  <2>2. Len(Buffered(c)) \in Nat
    <3>1. Buffered(c) \in Seq(Nat)
      BY BuffersTyped DEF EchoInv
    <3> QED
      BY <3>1
  <2> QED
    BY <1>3, <1>4, <1>5, <1>t, <2>1, <2>2, WayGot
<1>7. CASE c # d
  <2>1. echoed'[c] = echoed[c] /\ toClient'[c] = toClient[c]
    BY <1>1, <1>7, <1>t
  <2> QED
    BY <1>3, <1>4, <1>5, <2>1
<1> QED
  BY <1>6, <1>7

LEMMA SentWays ==
    ASSUME EchoInv, NEW d \in EchoConn, NEW kind, NEW next, SendLine(d, kind, next)
    PROVE  ConnWays'
<1>t. /\ echoed \in [EchoConn -> Seq(Nat)] /\ toClient \in [EchoConn -> Seq(Nat)]
      /\ toServer \in [EchoConn -> Seq(Nat)] /\ wrote \in [EchoConn -> Nat]
  BY DEF EchoInv, EchoTypeOK
<1>1. UNCHANGED <<echoed, toClient, dropped>> /\ UNCHANGED echoServerVars
  BY DEF SendLine
<1>2. /\ \A c : Buffered(c)' = Buffered(c)
      /\ \A c : Echoes(c)' = Echoes(c)
      /\ shortSend' = shortSend
  BY <1>1 DEF Buffered, Echoes, echoServerVars
<1>3. CASE UNCHANGED <<wrote, toServer>>
  BY <1>1, <1>2, <1>3, WaysKept DEF EchoInv
<1>4. CASE \E n \in 1 .. 2 :
             /\ wrote' = [wrote EXCEPT ![d] = @ + n]
             /\ toServer' = [toServer EXCEPT ![d] =
                  IF d \in dropped THEN @
                  ELSE @ \o [i \in 1 .. n |-> wrote[d] + i]]
  <2>1. PICK n \in 1 .. 2 :
             /\ wrote' = [wrote EXCEPT ![d] = @ + n]
             /\ toServer' = [toServer EXCEPT ![d] =
                  IF d \in dropped THEN @
                  ELSE @ \o [i \in 1 .. n |-> wrote[d] + i]]
    BY <1>4
  <2> SUFFICES ASSUME NEW c \in EchoConn \ shortSend
               PROVE  ConnWay(echoed[c], toClient[c], Buffered(c), toServer'[c],
                              wrote'[c], Echoes(c))
    BY <1>1, <1>2 DEF ConnWays
  <2>2. ConnWay(echoed[c], toClient[c], Buffered(c), toServer[c], wrote[c], Echoes(c))
    BY DEF EchoInv, ConnWays
  <2>3. CASE c # d
    <3>1. toServer'[c] = toServer[c] /\ wrote'[c] = wrote[c]
      BY <1>t, <2>1, <2>3
    <3> QED
      BY <2>2, <3>1
  <2>4. CASE ~Echoes(c)
    <3>1. Echoes(c) = FALSE
      BY <2>4
    <3> QED
      BY <2>2, <3>1, WayEnded
  <2>5. CASE c = d /\ Echoes(c)
    <3>1. /\ toServer'[c] = toServer[c] \o [i \in 1 .. n |-> wrote[c] + i]
          /\ wrote'[c] = wrote[c] + n
      BY <1>t, <2>1, <2>5 DEF Echoes
    <3>2. Buffered(c) \in Seq(Nat) /\ Echoes(c) = TRUE
      BY <2>5, BuffersTyped DEF EchoInv
    <3>3. n \in Nat
      OBVIOUS
    <3>4. /\ echoed[c] \in Seq(Nat) /\ toClient[c] \in Seq(Nat)
          /\ toServer[c] \in Seq(Nat) /\ wrote[c] \in Nat
      BY <1>t
    <3> DEFINE line == [i \in 1 .. n |-> wrote[c] + i]
    <3>5. line \in Seq(Nat) /\ Len(line) = n /\ CountsFrom(line, wrote[c])
      BY <3>3, <3>4 DEF CountsFrom
    <3> HIDE DEF line
    <3>6. ConnWay(echoed[c], toClient[c], Buffered(c), toServer[c] \o line,
                  wrote[c] + Len(line), TRUE)
      BY <2>2, <3>2, <3>4, <3>5, WaySent
    <3>7. toServer'[c] = toServer[c] \o line /\ wrote'[c] = wrote[c] + Len(line)
      BY <3>1, <3>5 DEF line
    <3> QED
      BY <3>2, <3>6, <3>7
  <2> QED
    BY <2>3, <2>4, <2>5
<1> QED
  BY <1>3, <1>4 DEF SendLine

LEMMA ClientWays ==
    ASSUME EchoInv, NEW d \in EchoConn, ClientRuns(d)
    PROVE  ConnWays'
<1>w. ConnWays
  BY DEF EchoInv
<1>q. ASSUME UNCHANGED <<echoServerVars, echoed, toClient, toServer, wrote, dropped>>
      PROVE  ConnWays'
  BY <1>q, <1>w, WaysKept DEF Buffered, Echoes, echoServerVars
<1>1. CASE ConnectBlocking(d) \/ ConnectNonBlocking(d)
  BY <1>1, <1>q DEF ConnectBlocking, ConnectNonBlocking, ConnectClient
<1>2. CASE SendBlocking(d) \/ SendNonBlocking(d)
  BY <1>2, SentWays DEF SendBlocking, SendNonBlocking
<1>3. CASE Exit(d)
  BY <1>3, <1>q DEF Exit
<1>4. CASE ClientReads(d)
  <2>1. /\ UNCHANGED <<kinds, echoServerVars, toServer, dropped, wrote>>
        /\ GetBytes(d) \/ UNCHANGED <<echoed, toClient>>
    BY <1>4 DEF ClientReads, BlockingReply, NonBlockingReply, DrainBlocking,
                DrainNonBlocking, Drain
  <2> QED
    BY <1>q, <2>1, GotWays
<1> QED
  BY <1>1, <1>2, <1>3, <1>4 DEF ClientRuns

LEMMA EchoInvNext == EchoInv /\ [EchoNext]_echoVars => EchoInv'
<1> SUFFICES ASSUME EchoInv, [EchoNext]_echoVars
             PROVE  EchoInv'
  OBVIOUS
<1>1. CASE ServerRuns
  BY <1>1, ServerTypes, ServerPlaces, ClientSocketNext, ServerHandles, ServerWays
     DEF EchoInv
<1>2. ASSUME NEW c \in EchoConn, ClientRuns(c)
      PROVE  EchoInv'
  <2>1. UNCHANGED <<serverKind, echoServerVars>>
    BY <1>2 DEF ClientRuns, ConnectBlocking, ConnectNonBlocking, ConnectClient,
                SendBlocking, SendNonBlocking, SendLine, Exit, ClientReads,
                BlockingReply, NonBlockingReply, DrainBlocking, DrainNonBlocking,
                Drain, kinds
  <2>2. ClientSocketOK' /\ HandlesReleased'
    BY <2>1 DEF EchoInv, ClientSocketOK, HandlesReleased, echoServerVars
  <2>3. EchoTypeOK' /\ ConnPlaces' /\ ConnWays'
    BY <1>2, ClientTypes, ClientPlaces, ClientWays DEF EchoInv
  <2> QED
    BY <2>2, <2>3, SMTT(40) DEF EchoInv
<1>3. CASE UNCHANGED echoVars
  <2>1. EchoTypeOK' /\ ClientSocketOK' /\ HandlesReleased'
    BY <1>3 DEF EchoInv, echoVars, kinds, echoServerVars, echoClientVars, EchoTypeOK,
                ClientSocketOK, HandlesReleased
  <2>2. ConnPlaces'
    BY <1>3 DEF EchoInv, echoVars, kinds, echoServerVars, echoClientVars, ConnPlaces,
                Waiting
  <2>3. ConnWays'
    BY <1>3, WaysKept DEF EchoInv, echoVars, kinds, echoServerVars, echoClientVars,
                          Buffered, Echoes
  <2> QED
    BY <2>1, <2>2, <2>3 DEF EchoInv
<1> QED
  BY <1>1, <1>2, <1>3 DEF EchoNext, ClientRuns

LEMMA CountsMeanEqual ==
    ASSUME NEW s \in Seq(Nat), CountsFrom(s, 0)
    PROVE  s = [i \in 1 .. Len(s) |-> i]
<1>1. \A i \in 1 .. Len(s) : s[i] = i
  BY DEF CountsFrom
<1> QED
  BY <1>1

LEMMA EchoInvMeansSafe == EchoInv => EchoSafe
<1> SUFFICES ASSUME EchoInv, NEW c \in EchoConn \ shortSend
             PROVE  echoed[c] \o toClient[c]
                      = [i \in 1 .. Len(echoed[c]) + Len(toClient[c]) |-> i]
  BY DEF EchoSafe, EchoInOrder, EchoInv
<1>1. echoed[c] \in Seq(Nat) /\ toClient[c] \in Seq(Nat)
  BY DEF EchoInv, EchoTypeOK
<1>2. CountsFrom(echoed[c], 0) /\ CountsFrom(toClient[c], Len(echoed[c]))
  BY DEF EchoInv, ConnWays, ConnWay
<1>3. 0 + Len(echoed[c]) = Len(echoed[c]) /\ 0 \in Nat
  BY <1>1
<1>4. CountsFrom(echoed[c] \o toClient[c], 0)
  BY <1>1, <1>2, <1>3, CountsJoined
<1>5. /\ echoed[c] \o toClient[c] \in Seq(Nat)
      /\ Len(echoed[c] \o toClient[c]) = Len(echoed[c]) + Len(toClient[c])
  BY <1>1, Joined
<1> QED
  BY <1>4, <1>5, CountsMeanEqual

\* For any number of clients and lines: what a client receives is the
\* beginning of what it sent, unless a send was cut short, and a server closes
\* every handle but those that Accept overwrote.
THEOREM EchoesSafe == EchoSpec => []EchoSafe
<1>1. EchoInit => EchoInv
  BY EchoInvInit
<1>2. EchoInv /\ [EchoNext]_echoVars => EchoInv'
  BY EchoInvNext
<1>3. EchoInv => EchoSafe
  BY EchoInvMeansSafe
<1> QED
  BY <1>1, <1>2, <1>3, PTL DEF EchoSpec

-----------------------------------------------------------------------------
(***************************************************************************)
(* The swaps of two players' values, for any number of threads and rounds. *)
(* A program that nests its locks holds, while it exchanges the values,    *)
(* the one lock that all such programs take; so nobody else exchanges, and *)
(* the values are what the completed swaps make of them but for what the   *)
(* thread that holds it has already written.                               *)
(***************************************************************************)

Instruction ==
  [op : {"lock", "unlock"}, on : LockName]
    \cup [op : {"read", "write"}, on : PlayerTable, r : {"a", "b"}]
    \cup [op : {"swapped", "end"}]

\* The value of a player when no swap is being made.
Base(p) == IF swaps = 0 THEN p ELSE Other(p)

\* Programs that take the n locks ls, exchange the values under them, and give
\* the locks back in the opposite order.
Nest(c, n, ls, a) ==
  /\ n \in 1 .. 3 /\ ls \in [1 .. n -> LockName] /\ a \in PlayerTable
  /\ \A i, j \in 1 .. n : ls[i] = ls[j] => i = j
  /\ c \in Seq(Instruction) /\ Len(c) = 2 * n + 6
  /\ \A i \in 1 .. n :
       /\ c[i] = [op |-> "lock", on |-> ls[i]]
       /\ c[2 * n + 6 - i] = [op |-> "unlock", on |-> ls[i]]
  /\ c[n + 1] = [op |-> "read", on |-> a, r |-> "a"]
  /\ c[n + 2] = [op |-> "read", on |-> Other(a), r |-> "b"]
  /\ c[n + 3] = [op |-> "write", on |-> a, r |-> "b"]
  /\ c[n + 4] = [op |-> "write", on |-> Other(a), r |-> "a"]
  /\ c[n + 5] = [op |-> "swapped"]
  /\ c[2 * n + 6] = [op |-> "end"]

NestHeld(n, ls, k) == {ls[i] : i \in {j \in 1 .. n : j < k /\ k <= 2 * n + 6 - j}}

\* The lock under which no two threads exchange values.
Guard == IF test = "deadlock" THEN 1 ELSE BigLocker

Rest(c, k) == SubSeq(c, k, Len(c))

\* The order of the locks: the one for all comes first, where it is taken.
LocksInOrder(n, ls) ==
  /\ \E g \in 1 .. n : ls[g] = Guard
  /\ IF test = "deadlock" THEN n = 2 /\ ls \in [1 .. n -> PlayerTable]
     ELSE ls[1] = BigLocker

NestAt(t, c, n, ls, a, k) ==
  /\ Nest(c, n, ls, a) /\ k \in 1 .. Len(c) /\ LocksInOrder(n, ls)
  /\ code[t] = Rest(c, k) /\ rounds[t] = 0
  /\ \A l \in LockName : lockOwner[l] = t <=> l \in NestHeld(n, ls, k)
  /\ k \in {n + 2, n + 3, n + 4} => reg[t].a = Base(a)
  /\ k = n + 3 => reg[t].b = Base(Other(a))
  /\ k = n + 4 => Value[a] = Base(Other(a)) /\ Value[Other(a)] = Base(Other(a))
  /\ k = n + 5 => Value[a] = Base(Other(a)) /\ Value[Other(a)] = Base(a)

\* The fast swap, followed by the end of the thread in its last round.
Fast(c, a) ==
  /\ a \in PlayerTable /\ c \in Seq(Instruction) /\ Len(c) \in {11, 12}
  /\ c[1] = [op |-> "lock", on |-> a]
  /\ c[2] = [op |-> "read", on |-> a, r |-> "a"]
  /\ c[3] = [op |-> "unlock", on |-> a]
  /\ c[4] = [op |-> "lock", on |-> Other(a)]
  /\ c[5] = [op |-> "read", on |-> Other(a), r |-> "b"]
  /\ c[6] = [op |-> "write", on |-> Other(a), r |-> "a"]
  /\ c[7] = [op |-> "unlock", on |-> Other(a)]
  /\ c[8] = [op |-> "lock", on |-> a]
  /\ c[9] = [op |-> "write", on |-> a, r |-> "b"]
  /\ c[10] = [op |-> "unlock", on |-> a]
  /\ c[11] = [op |-> "swapped"]
  /\ Len(c) = 12 => c[12] = [op |-> "end"]

FastHeld(a, k) ==
  IF k \in {2, 3, 9, 10} THEN {a} ELSE IF k \in {5, 6, 7} THEN {Other(a)} ELSE {}

FastAt(t, c, a, k) ==
  /\ Fast(c, a) /\ k \in 1 .. Len(c)
  /\ code[t] = Rest(c, k) /\ (rounds[t] = 0 <=> Len(c) = 12)
  /\ \A l \in LockName : lockOwner[l] = t <=> l \in FastHeld(a, k)
  /\ k >= 3 => reg[t].a \in PlayerTable
  /\ k >= 6 => reg[t].b \in PlayerTable

Idle(t) ==
  /\ code[t] = <<>> /\ \A l \in LockName : lockOwner[l] # t
  /\ test # "D" => rounds[t] <= 1

ThreadOK(t) ==
  \/ Idle(t)
  \/ test # "D" /\ \E c, n, ls, a, k : NestAt(t, c, n, ls, a, k)
  \/ test = "D" /\ \E c, a, k : FastAt(t, c, a, k)

\* One value is written, the other not yet, or the swap not yet counted.
Swapping(t) ==
  /\ code[t] # <<>>
  /\ \/ Head(code[t]).op = "swapped"
     \/ Head(code[t]).op = "write" /\ Head(code[t]).r = "a"

ValueOK ==
  test # "D" /\ (\A t \in SwapThread : ~Swapping(t)) =>
    \A p \in PlayerTable : Value[p] = Base(p)

Finished(t) == code[t] = <<>> /\ rounds[t] = 0

MultiTypes ==
  /\ test \in {"AB", "C", "D", "deadlock"}
  /\ Value \in [PlayerTable -> PlayerTable]
  /\ lockOwner \in [LockName -> SwapThread \cup {Unowned}]
  /\ code \in [SwapThread -> Seq(Instruction)]
  /\ reg \in [SwapThread -> [a : 0 .. 2, b : 0 .. 2]]
  /\ rounds \in [SwapThread -> Nat]
  /\ swaps \in {0, 1} /\ swapEnd \in Nat
  /\ swapMain \in {"wait", "released"}

MultiInv ==
  /\ MultiTypes
  /\ \A t \in SwapThread : ThreadOK(t)
  /\ ValueOK
  /\ swapEnd = Cardinality({t \in SwapThread : Finished(t)})
  /\ swapMain = "released" => \A t \in SwapThread : Finished(t)

\* The first of the instructions that are left, and those after it.
LEMMA RestIs ==
    ASSUME NEW c \in Seq(Instruction), NEW k \in 1 .. Len(c)
    PROVE  /\ Rest(c, k) \in Seq(Instruction) /\ Rest(c, k) # <<>>
           /\ Head(Rest(c, k)) = c[k] /\ c[k] \in Instruction
           /\ Tail(Rest(c, k)) = Rest(c, k + 1)
           /\ k = Len(c) => Rest(c, k + 1) = <<>>
           /\ Rest(c, 1) = c
<1>1. Len(c) \in Nat /\ c[k] \in Instruction
  BY LenProperties, ElementOfSeq
<1>0. ASSUME NEW m \in Nat, m >= 1, m <= Len(c)
      PROVE  /\ Rest(c, m) \in Seq(Instruction) /\ Len(Rest(c, m)) = Len(c) - m + 1
             /\ \A i \in 1 .. Len(c) - m + 1 : Rest(c, m)[i] = c[m + i - 1]
  <2>1. \A i \in m .. Len(c) : c[i] \in Instruction
    <3>1. \A i \in 1 .. Len(c) : c[i] \in Instruction
      BY ElementOfSeq
    <3> QED
      BY <1>0, <1>1, <3>1
  <2>2. m \in Int /\ Len(c) \in Int
    BY <1>1
  <2>3. /\ SubSeq(c, m, Len(c)) \in Seq(Instruction)
        /\ Len(SubSeq(c, m, Len(c))) = IF m <= Len(c) THEN Len(c) - m + 1 ELSE 0
        /\ \A i \in 1 .. Len(c) - m + 1 : SubSeq(c, m, Len(c))[i] = c[m + i - 1]
    BY <2>1, <2>2, SubSeqProperties
  <2> QED
    BY <1>0, <1>1, <2>3 DEF Rest
<1>2. /\ Rest(c, k) \in Seq(Instruction) /\ Len(Rest(c, k)) = Len(c) - k + 1
      /\ \A i \in 1 .. Len(c) - k + 1 : Rest(c, k)[i] = c[k + i - 1]
  BY <1>0, <1>1
<1>3. Rest(c, k) # <<>> /\ Head(Rest(c, k)) = c[k]
  <2>1. 1 \in 1 .. Len(c) - k + 1 /\ k + 1 - 1 = k /\ Len(Rest(c, k)) # 0
    BY <1>1, <1>2
  <2>2. Rest(c, k)[1] = c[k]
    BY <1>2, <2>1
  <2>3. Rest(c, k) # <<>>
    BY <2>1
  <2> QED
    BY <1>2, <2>2, <2>3, HeadTailProperties
<1>4. Rest(c, k) = <<c[k]>> \o Rest(c, k + 1)
  BY <1>1, SubSeqRecursiveFirst DEF Rest
<1>5. Tail(Rest(c, k)) = Rest(c, k + 1)
  <2>1. /\ Tail(Rest(c, k)) \in Seq(Instruction)
        /\ Len(Tail(Rest(c, k))) = Len(c) - k
        /\ \A i \in 1 .. Len(c) - k : Tail(Rest(c, k))[i] = Rest(c, k)[i + 1]
    BY <1>1, <1>2, <1>3, HeadTailProperties
  <2>2. /\ Rest(c, k + 1) \in Seq(Instruction)
        /\ Len(Rest(c, k + 1)) = Len(c) - k
        /\ \A i \in 1 .. Len(c) - k : Rest(c, k + 1)[i] = c[k + 1 + i - 1]
    <3>1. CASE k = Len(c)
      <4>1. Rest(c, k + 1) = <<>> /\ Len(c) - k = 0
        BY <1>1, <3>1, SubSeqEmpty DEF Rest
      <4>2. <<>> \in Seq(Instruction) /\ Len(<<>>) = 0 /\ 1 .. 0 = {}
        OBVIOUS
      <4> QED
        BY <4>1, <4>2
    <3>2. CASE k # Len(c)
      <4>1. /\ k + 1 \in Nat /\ k + 1 >= 1 /\ k + 1 <= Len(c)
            /\ Len(c) - (k + 1) + 1 = Len(c) - k
        BY <1>1, <3>2
      <4> QED
        BY <1>0, <4>1
    <3> QED
      BY <3>1, <3>2
  <2>3. \A i \in 1 .. Len(c) - k : Tail(Rest(c, k))[i] = Rest(c, k + 1)[i]
    <3> SUFFICES ASSUME NEW i \in 1 .. Len(c) - k
                 PROVE  Tail(Rest(c, k))[i] = Rest(c, k + 1)[i]
      OBVIOUS
    <3>1. i + 1 \in 1 .. Len(c) - k + 1 /\ k + (i + 1) - 1 = k + i /\ k + 1 + i - 1 = k + i
      BY <1>1
    <3>2. Tail(Rest(c, k))[i] = Rest(c, k)[i + 1] /\ Rest(c, k)[i + 1] = c[k + (i + 1) - 1]
      BY <1>2, <2>1, <3>1
    <3>3. Rest(c, k + 1)[i] = c[k + 1 + i - 1]
      BY <2>2
    <3> QED
      BY <3>1, <3>2, <3>3
  <2> QED
    BY <2>1, <2>2, <2>3, SeqEqual
<1>6. k = Len(c) => Rest(c, k + 1) = <<>>
  BY <1>1, SubSeqEmpty DEF Rest
<1>7. Rest(c, 1) = c
  BY SubSeqFull DEF Rest
<1> QED
  BY <1>1, <1>2, <1>3, <1>5, <1>6, <1>7

\* Each instruction, and the sequences built of them.
LEMMA Instructions ==
    ASSUME NEW l \in LockName, NEW p \in PlayerTable, NEW r \in {"a", "b"}
    PROVE  /\ Lock(l) \in Seq(Instruction) /\ Unlock(l) \in Seq(Instruction)
           /\ Read(r, p) \in Seq(Instruction) /\ Write(p, r) \in Seq(Instruction)
           /\ Swapped \in Seq(Instruction) /\ CountEndOfThread \in Seq(Instruction)
BY DEF Instruction, Lock, Unlock, Read, Write, Swapped, CountEndOfThread

\* The two players, and the exchange of their values.
LEMMA Exchanges ==
    ASSUME NEW a \in PlayerTable
    PROVE  /\ Other(a) \in PlayerTable /\ Other(a) # a /\ Other(Other(a)) = a
           /\ Exchange(a, Other(a)) \in Seq(Instruction)
           /\ a \in LockName /\ Other(a) \in LockName /\ BigLocker \in LockName
           /\ a # BigLocker
<1>1. Other(a) \in PlayerTable /\ Other(a) # a /\ Other(Other(a)) = a
  BY DEF Other, PlayerTable
<1>2. a \in LockName /\ Other(a) \in LockName /\ BigLocker \in LockName /\ a # BigLocker
  BY <1>1 DEF LockName, BigLocker, PlayerTable
<1>3. Exchange(a, Other(a)) \in Seq(Instruction)
  BY <1>1, <1>2, Instructions, ConcatProperties DEF Exchange
<1> QED
  BY <1>1, <1>2, <1>3

\* The programs of AB, C and the deadlocking swaps nest their locks.
LEMMA SlowOneIs ==
    ASSUME NEW a \in PlayerTable
    PROVE  Nest(SwapValue_Safe_Slow_1(a, Other(a)) \o CountEndOfThread,
                1, <<BigLocker>>, a)
<1> DEFINE c == SwapValue_Safe_Slow_1(a, Other(a)) \o CountEndOfThread
<1>1. c \in Seq(Instruction)
  BY Exchanges, Instructions, ConcatProperties DEF SwapValue_Safe_Slow_1
<1>2. /\ Len(c) = 8
      /\ c[1] = [op |-> "lock", on |-> BigLocker]
      /\ c[7] = [op |-> "unlock", on |-> BigLocker]
      /\ c[2] = [op |-> "read", on |-> a, r |-> "a"]
      /\ c[3] = [op |-> "read", on |-> Other(a), r |-> "b"]
      /\ c[4] = [op |-> "write", on |-> a, r |-> "b"]
      /\ c[5] = [op |-> "write", on |-> Other(a), r |-> "a"]
      /\ c[6] = [op |-> "swapped"] /\ c[8] = [op |-> "end"]
  BY DEF SwapValue_Safe_Slow_1, Lock, Unlock, Read, Write, Swapped,
         CountEndOfThread, Exchange
<1> HIDE DEF c
<1>3. <<BigLocker>> \in [1 .. 1 -> LockName] /\ 1 .. 1 = {1} /\ <<BigLocker>>[1] = BigLocker
  BY Exchanges
<1>4. Nest(c, 1, <<BigLocker>>, a)
  BY <1>1, <1>2, <1>3 DEF Nest
<1> QED
  BY <1>4 DEF c

LEMMA SlowTwoIs ==
    ASSUME NEW a \in PlayerTable
    PROVE  Nest(SwapValue_Safe_Slow_2(a, Other(a)) \o CountEndOfThread,
                3, <<BigLocker, a, Other(a)>>, a)
<1> DEFINE c == SwapValue_Safe_Slow_2(a, Other(a)) \o CountEndOfThread
           ls == <<BigLocker, a, Other(a)>>
<1>1. c \in Seq(Instruction)
  BY Exchanges, Instructions, ConcatProperties DEF SwapValue_Safe_Slow_2
<1>2. /\ Len(c) = 12
      /\ c[1] = [op |-> "lock", on |-> BigLocker]
      /\ c[2] = [op |-> "lock", on |-> a]
      /\ c[3] = [op |-> "lock", on |-> Other(a)]
      /\ c[4] = [op |-> "read", on |-> a, r |-> "a"]
      /\ c[5] = [op |-> "read", on |-> Other(a), r |-> "b"]
      /\ c[6] = [op |-> "write", on |-> a, r |-> "b"]
  BY DEF SwapValue_Safe_Slow_2, Lock, Unlock, Read, Write, Swapped,
         CountEndOfThread, Exchange
<1>3. /\ c[7] = [op |-> "write", on |-> Other(a), r |-> "a"]
      /\ c[8] = [op |-> "swapped"]
      /\ c[9] = [op |-> "unlock", on |-> Other(a)]
      /\ c[10] = [op |-> "unlock", on |-> a]
      /\ c[11] = [op |-> "unlock", on |-> BigLocker]
      /\ c[12] = [op |-> "end"]
  BY DEF SwapValue_Safe_Slow_2, Lock, Unlock, Read, Write, Swapped,
         CountEndOfThread, Exchange
<1> HIDE DEF c
<1>4. /\ ls \in [1 .. 3 -> LockName] /\ 1 .. 3 = {1, 2, 3}
      /\ ls[1] = BigLocker /\ ls[2] = a /\ ls[3] = Other(a)
  BY Exchanges
<1>5. \A i, j \in 1 .. 3 : ls[i] = ls[j] => i = j
  BY <1>4, Exchanges DEF BigLocker, PlayerTable
<1> HIDE DEF ls
<1>6. Nest(c, 3, ls, a)
  BY <1>1, <1>2, <1>3, <1>4, <1>5 DEF Nest
<1> QED
  BY <1>6 DEF c, ls

LEMMA DeadLocksAre ==
    /\ Nest(SwapValue_DeadLock_1(1, 2) \o CountEndOfThread, 2, <<1, 2>>, 1)
    /\ Nest(SwapValue_DeadLock_2(1, 2) \o CountEndOfThread, 2, <<2, 1>>, 1)
<1>0. 1 \in PlayerTable /\ 2 \in PlayerTable /\ Other(1) = 2
      /\ 1 \in LockName /\ 2 \in LockName
  BY DEF PlayerTable, Other, LockName
<1> DEFINE c == SwapValue_DeadLock_1(1, 2) \o CountEndOfThread
           d == SwapValue_DeadLock_2(1, 2) \o CountEndOfThread
<1>1. c \in Seq(Instruction) /\ d \in Seq(Instruction)
  <2>1. Exchange(1, 2) \in Seq(Instruction)
    BY <1>0, Exchanges
  <2> QED
    BY <1>0, <2>1, Instructions, ConcatProperties DEF SwapValue_DeadLock_1, SwapValue_DeadLock_2
<1>2. /\ Len(c) = 10
      /\ c[1] = [op |-> "lock", on |-> 1] /\ c[2] = [op |-> "lock", on |-> 2]
      /\ c[3] = [op |-> "read", on |-> 1, r |-> "a"]
      /\ c[4] = [op |-> "read", on |-> 2, r |-> "b"]
      /\ c[5] = [op |-> "write", on |-> 1, r |-> "b"]
      /\ c[6] = [op |-> "write", on |-> 2, r |-> "a"]
      /\ c[7] = [op |-> "swapped"]
      /\ c[8] = [op |-> "unlock", on |-> 2] /\ c[9] = [op |-> "unlock", on |-> 1]
      /\ c[10] = [op |-> "end"]
  BY DEF SwapValue_DeadLock_1, Lock, Unlock, Read, Write, Swapped,
         CountEndOfThread, Exchange
<1>3. /\ Len(d) = 10
      /\ d[1] = [op |-> "lock", on |-> 2] /\ d[2] = [op |-> "lock", on |-> 1]
      /\ d[3] = [op |-> "read", on |-> 1, r |-> "a"]
      /\ d[4] = [op |-> "read", on |-> 2, r |-> "b"]
      /\ d[5] = [op |-> "write", on |-> 1, r |-> "b"]
      /\ d[6] = [op |-> "write", on |-> 2, r |-> "a"]
      /\ d[7] = [op |-> "swapped"]
      /\ d[8] = [op |-> "unlock", on |-> 1] /\ d[9] = [op |-> "unlock", on |-> 2]
      /\ d[10] = [op |-> "end"]
  BY DEF SwapValue_DeadLock_2, Lock, Unlock, Read, Write, Swapped,
         CountEndOfThread, Exchange
<1> HIDE DEF c, d
<1>4. /\ <<1, 2>> \in [1 .. 2 -> LockName] /\ <<2, 1>> \in [1 .. 2 -> LockName]
      /\ 1 .. 2 = {1, 2}
  BY <1>0
<1>5. Nest(c, 2, <<1, 2>>, 1)
  BY <1>0, <1>1, <1>2, <1>4 DEF Nest
<1>6. Nest(d, 2, <<2, 1>>, 1)
  BY <1>0, <1>1, <1>3, <1>4 DEF Nest
<1> QED
  BY <1>5, <1>6 DEF c, d

\* The fast swap, with and without the end of the thread.
LEMMA FastIs ==
    ASSUME NEW a \in PlayerTable
    PROVE  /\ Fast(SwapValue_Safe_Fast(a, Other(a)), a)
           /\ Fast(SwapValue_Safe_Fast(a, Other(a)) \o CountEndOfThread, a)
           /\ Len(SwapValue_Safe_Fast(a, Other(a))) = 11
           /\ Len(SwapValue_Safe_Fast(a, Other(a)) \o CountEndOfThread) = 12
<1> DEFINE c == SwapValue_Safe_Fast(a, Other(a))
           d == c \o CountEndOfThread
<1>1. c \in Seq(Instruction)
  BY Exchanges, Instructions, ConcatProperties DEF SwapValue_Safe_Fast
<1>2. /\ Len(c) = 11
      /\ c[1] = [op |-> "lock", on |-> a]
      /\ c[2] = [op |-> "read", on |-> a, r |-> "a"]
      /\ c[3] = [op |-> "unlock", on |-> a]
      /\ c[4] = [op |-> "lock", on |-> Other(a)]
      /\ c[5] = [op |-> "read", on |-> Other(a), r |-> "b"]
      /\ c[6] = [op |-> "write", on |-> Other(a), r |-> "a"]
      /\ c[7] = [op |-> "unlock", on |-> Other(a)]
      /\ c[8] = [op |-> "lock", on |-> a]
      /\ c[9] = [op |-> "write", on |-> a, r |-> "b"]
      /\ c[10] = [op |-> "unlock", on |-> a]
      /\ c[11] = [op |-> "swapped"]
  BY DEF SwapValue_Safe_Fast, Lock, Unlock, Read, Write, Swapped
<1> HIDE DEF c
<1>3. CountEndOfThread \in Seq(Instruction) /\ Len(CountEndOfThread) = 1
      /\ CountEndOfThread[1] = [op |-> "end"]
  BY Instructions DEF CountEndOfThread, Instruction
<1>4. /\ d \in Seq(Instruction) /\ Len(d) = 12
      /\ \A i \in 1 .. 11 : d[i] = c[i]
      /\ d[12] = [op |-> "end"]
  <2> DEFINE e == CountEndOfThread
  <2> HIDE DEF e
  <2>1. e \in Seq(Instruction) /\ Len(e) = 1 /\ e[1] = [op |-> "end"]
    BY <1>3 DEF e
  <2>0. d = c \o e
    BY DEF e
  <2> HIDE DEF d
  <2>2. /\ c \o e \in Seq(Instruction) /\ Len(c \o e) = Len(c) + Len(e)
        /\ \A i \in 1 .. Len(c) + Len(e) :
             (c \o e)[i] = IF i <= Len(c) THEN c[i] ELSE e[i - Len(c)]
    BY <1>1, <2>1, ConcatProperties, Zenon
  <2>3. /\ d \in Seq(Instruction) /\ Len(d) = Len(c) + Len(e)
        /\ \A i \in 1 .. Len(c) + Len(e) :
             d[i] = IF i <= Len(c) THEN c[i] ELSE e[i - Len(c)]
    BY <2>0, <2>2, Zenon
  <2>4. Len(d) = 12 /\ d[12] = e[12 - 11] /\ 12 - 11 = 1
    BY <1>2, <2>1, <2>3
  <2>5. \A i \in 1 .. 11 : d[i] = c[i]
    BY <1>2, <2>1, <2>3
  <2> QED
    BY <2>1, <2>3, <2>4, <2>5
<1> HIDE DEF d
<1>5. Fast(c, a) /\ Fast(d, a)
  BY <1>1, <1>2, <1>4 DEF Fast
<1> QED
  BY <1>2, <1>4, <1>5 DEF c, d

\* What a thread may start.
LEMMA Programs ==
    ASSUME test \in {"AB", "C", "D", "deadlock"}, NEW c \in CodeOf(test)
    PROVE  /\ test # "D" => \E n, ls, a : Nest(c, n, ls, a) /\ LocksInOrder(n, ls)
           /\ test = "D" => \E a : /\ Fast(c, a) /\ Len(c) = 11
                                   /\ Fast(c \o CountEndOfThread, a)
                                   /\ Len(c \o CountEndOfThread) = 12
<1>0. 1 \in PlayerTable /\ 2 \in PlayerTable /\ Other(1) = 2 /\ Other(2) = 1
  BY DEF PlayerTable, Other
<1>1. CASE test = "AB"
  <2>1. PICK a \in PlayerTable :
          c = SwapValue_Safe_Slow_1(a, Other(a)) \o CountEndOfThread
    BY <1>0, <1>1 DEF CodeOf, TestSwap_A_InThread, TestSwap_B_InThread
  <2>2. Nest(c, 1, <<BigLocker>>, a)
    BY <2>1, SlowOneIs
  <2>3. LocksInOrder(1, <<BigLocker>>)
    <3>1. 1 \in 1 .. 1 /\ <<BigLocker>>[1] = Guard /\ <<BigLocker>>[1] = BigLocker
      BY <1>1 DEF Guard
    <3> QED
      BY <1>1, <3>1, Zenon DEF LocksInOrder
  <2> QED
    BY <1>1, <2>2, <2>3
<1>2. CASE test = "C"
  <2>1. PICK a \in PlayerTable :
          c = SwapValue_Safe_Slow_2(a, Other(a)) \o CountEndOfThread
    BY <1>2 DEF CodeOf, TestSwap_C_InThread
  <2>2. Nest(c, 3, <<BigLocker, a, Other(a)>>, a)
    BY <2>1, SlowTwoIs
  <2>3. LocksInOrder(3, <<BigLocker, a, Other(a)>>)
    <3>1. /\ 1 \in 1 .. 3 /\ <<BigLocker, a, Other(a)>>[1] = Guard
          /\ <<BigLocker, a, Other(a)>>[1] = BigLocker
      BY <1>2 DEF Guard
    <3> QED
      BY <1>2, <3>1, Zenon DEF LocksInOrder
  <2> QED
    BY <1>2, <2>2, <2>3
<1>3. CASE test = "D"
  <2>1. PICK a \in PlayerTable : c = SwapValue_Safe_Fast(a, Other(a))
    BY <1>3 DEF CodeOf, TestSwap_D_InThread
  <2> QED
    BY <1>3, <2>1, FastIs
<1>4. CASE test = "deadlock"
  <2>1. \/ c = SwapValue_DeadLock_1(1, 2) \o CountEndOfThread
        \/ c = SwapValue_DeadLock_2(1, 2) \o CountEndOfThread
    BY <1>4 DEF CodeOf, DeadLockSwaps
  <2>2. Nest(c, 2, <<1, 2>>, 1) \/ Nest(c, 2, <<2, 1>>, 1)
    BY <2>1, DeadLocksAre
  <2>3. LocksInOrder(2, <<1, 2>>) /\ LocksInOrder(2, <<2, 1>>)
    <3>1. 1 \in 1 .. 2 /\ 2 \in 1 .. 2 /\ <<1, 2>>[1] = Guard /\ <<2, 1>>[2] = Guard
      BY <1>4 DEF Guard
    <3>2. /\ <<1, 2>> \in [1 .. 2 -> PlayerTable]
          /\ <<2, 1>> \in [1 .. 2 -> PlayerTable]
      BY DEF PlayerTable
    <3> QED
      BY <1>4, <3>1, <3>2, Zenon DEF LocksInOrder
  <2> QED
    BY <1>4, <2>2, <2>3
<1> QED
  BY <1>1, <1>2, <1>3, <1>4

\* The instruction at each place of a nested swap.
Place(c, n, ls, a, k) ==
  \/ k \in 1 .. n /\ c[k] = [op |-> "lock", on |-> ls[k]]
  \/ k = n + 1 /\ c[k] = [op |-> "read", on |-> a, r |-> "a"]
  \/ k = n + 2 /\ c[k] = [op |-> "read", on |-> Other(a), r |-> "b"]
  \/ k = n + 3 /\ c[k] = [op |-> "write", on |-> a, r |-> "b"]
  \/ k = n + 4 /\ c[k] = [op |-> "write", on |-> Other(a), r |-> "a"]
  \/ k = n + 5 /\ c[k] = [op |-> "swapped"]
  \/ \E i \in 1 .. n : k = 2 * n + 6 - i /\ c[k] = [op |-> "unlock", on |-> ls[i]]
  \/ k = 2 * n + 6 /\ c[k] = [op |-> "end"]

\* What stands at each place,
LEMMA NestPlaces ==
    ASSUME NEW c, NEW n, NEW ls, NEW a, Nest(c, n, ls, a), NEW k \in 1 .. Len(c)
    PROVE  /\ n \in 1 .. 3 /\ k \in Nat /\ Len(c) = 2 * n + 6
           /\ Place(c, n, ls, a, k)
<1>1. n \in 1 .. 3 /\ k \in Nat /\ Len(c) = 2 * n + 6
  BY DEF Nest
<1>2. \/ k \in 1 .. n \/ k \in {n + 1, n + 2, n + 3, n + 4, n + 5}
      \/ 2 * n + 6 - k \in 1 .. n \/ k = 2 * n + 6
  BY <1>1
<1>3. CASE k \in 1 .. n
  BY <1>1, <1>3 DEF Nest, Place
<1>4. CASE k \in {n + 1, n + 2, n + 3, n + 4, n + 5}
  BY <1>1, <1>4 DEF Nest, Place
<1>5. CASE 2 * n + 6 - k \in 1 .. n
  <2> DEFINE i == 2 * n + 6 - k
  <2>1. i \in 1 .. n /\ k = 2 * n + 6 - i
    BY <1>1, <1>5
  <2> HIDE DEF i
  <2>2. c[2 * n + 6 - i] = [op |-> "unlock", on |-> ls[i]]
    BY <2>1 DEF Nest
  <2> QED
    BY <1>1, <2>1, <2>2 DEF Place
<1>6. CASE k = 2 * n + 6
  BY <1>1, <1>6 DEF Nest, Place
<1> QED
  BY <1>2, <1>3, <1>4, <1>5, <1>6

\* and which places write what.
LEMMA PlaceOps ==
    ASSUME NEW c, NEW n \in 1 .. 3, NEW ls, NEW a, NEW k \in Nat, Place(c, n, ls, a, k)
    PROVE  \/ k \notin {n + 4, n + 5} /\ c[k].op \in {"lock", "read", "unlock", "end"}
           \/ k \notin {n + 4, n + 5} /\ c[k].op = "write" /\ c[k].r = "b"
           \/ k = n + 4 /\ c[k].op = "write" /\ c[k].r = "a"
           \/ k = n + 5 /\ c[k].op = "swapped"
<1>1. CASE k \in 1 .. n /\ c[k] = [op |-> "lock", on |-> ls[k]]
  BY <1>1
<1>2. CASE \/ k = n + 1 /\ c[k] = [op |-> "read", on |-> a, r |-> "a"]
           \/ k = n + 2 /\ c[k] = [op |-> "read", on |-> Other(a), r |-> "b"]
  BY <1>2
<1>3. CASE \/ k = n + 3 /\ c[k] = [op |-> "write", on |-> a, r |-> "b"]
           \/ k = n + 4 /\ c[k] = [op |-> "write", on |-> Other(a), r |-> "a"]
  BY <1>3
<1>4. CASE k = n + 5 /\ c[k] = [op |-> "swapped"]
  BY <1>4
<1>5. CASE \E i \in 1 .. n : k = 2 * n + 6 - i /\ c[k] = [op |-> "unlock", on |-> ls[i]]
  BY <1>5
<1>6. CASE k = 2 * n + 6 /\ c[k] = [op |-> "end"]
  BY <1>6
<1> QED
  BY <1>1, <1>2, <1>3, <1>4, <1>5, <1>6, Zenon DEF Place

\* The locks held at a place, and those that the instruction there changes.
LEMMA NestHolds ==
    ASSUME NEW c, NEW n, NEW ls, NEW a, Nest(c, n, ls, a), NEW k \in 1 .. Len(c)
    PROVE  /\ k \in 1 .. n => /\ NestHeld(n, ls, k + 1) = NestHeld(n, ls, k) \cup {ls[k]}
                              /\ ls[k] \in LockName
           /\ k \in n + 1 .. n + 5 =>
                /\ NestHeld(n, ls, k + 1) = NestHeld(n, ls, k)
                /\ \A i \in 1 .. n : ls[i] \in NestHeld(n, ls, k)
           /\ \A i \in 1 .. n : k = 2 * n + 6 - i =>
                /\ NestHeld(n, ls, k + 1) = NestHeld(n, ls, k) \ {ls[i]}
                /\ ls[i] \in NestHeld(n, ls, k) /\ ls[i] \in LockName
           /\ NestHeld(n, ls, 2 * n + 6) = {}
           /\ NestHeld(n, ls, 1) = {}
<1> DEFINE J(m) == {j \in 1 .. n : j < m /\ m <= 2 * n + 6 - j}
<1>1. /\ n \in 1 .. 3 /\ k \in Nat /\ Len(c) = 2 * n + 6
      /\ ls \in [1 .. n -> LockName]
      /\ \A i, j \in 1 .. n : ls[i] = ls[j] => i = j
  <2>1. /\ n \in 1 .. 3 /\ Len(c) = 2 * n + 6 /\ ls \in [1 .. n -> LockName]
        /\ \A i, j \in 1 .. n : ls[i] = ls[j] => i = j
    BY Zenon DEF Nest
  <2>2. k \in Nat
    BY <2>1
  <2> QED
    BY <2>1, <2>2
<1>2. ASSUME k \in 1 .. n
      PROVE  NestHeld(n, ls, k + 1) = NestHeld(n, ls, k) \cup {ls[k]}
  <2>1. J(k + 1) = J(k) \cup {k}
    BY <1>1, <1>2
  <2> QED
    BY <2>1 DEF NestHeld
<1>3. ASSUME k \in n + 1 .. n + 5
      PROVE  /\ NestHeld(n, ls, k + 1) = NestHeld(n, ls, k)
             /\ \A i \in 1 .. n : ls[i] \in NestHeld(n, ls, k)
  <2>1. J(k + 1) = 1 .. n /\ J(k) = 1 .. n
    BY <1>1, <1>3
  <2> QED
    BY <2>1 DEF NestHeld
<1>4. ASSUME NEW i \in 1 .. n, k = 2 * n + 6 - i
      PROVE  /\ NestHeld(n, ls, k + 1) = NestHeld(n, ls, k) \ {ls[i]}
             /\ ls[i] \in NestHeld(n, ls, k) /\ ls[i] \in LockName
  <2>1. J(k + 1) = J(k) \ {i} /\ i \in J(k) /\ J(k) \subseteq 1 .. n
    BY <1>1, <1>4
  <2> HIDE DEF J
  <2>2. {ls[j] : j \in J(k) \ {i}} = {ls[j] : j \in J(k)} \ {ls[i]}
    BY <1>1, <2>1
  <2>3. NestHeld(n, ls, k + 1) = {ls[j] : j \in J(k + 1)}
        /\ NestHeld(n, ls, k) = {ls[j] : j \in J(k)}
    BY DEF NestHeld, J
  <2> QED
    BY <1>1, <2>1, <2>2, <2>3
<1>5. J(2 * n + 6) = {} /\ J(1) = {}
  BY <1>1
<1>6. NestHeld(n, ls, 2 * n + 6) = {} /\ NestHeld(n, ls, 1) = {}
  BY <1>5 DEF NestHeld
<1> QED
  BY <1>1, <1>2, <1>3, <1>4, <1>6

\* Who has written one value but not the other holds the guard.
LEMMA Guarded ==
    ASSUME NEW u \in SwapThread, ThreadOK(u), test # "D"
    PROVE  /\ Swapping(u) => lockOwner[Guard] = u
           /\ \A c, n, ls, a, k : NestAt(u, c, n, ls, a, k) =>
                /\ k \in n + 1 .. n + 5 => lockOwner[Guard] = u
                /\ Swapping(u) <=> k \in {n + 4, n + 5}
<1>1. ASSUME NEW c, NEW n, NEW ls, NEW a, NEW k, NestAt(u, c, n, ls, a, k)
      PROVE  /\ k \in n + 1 .. n + 5 => lockOwner[Guard] = u
             /\ Swapping(u) <=> k \in {n + 4, n + 5}
  <2>1. Nest(c, n, ls, a) /\ k \in 1 .. Len(c) /\ c \in Seq(Instruction)
        /\ code[u] = Rest(c, k)
    BY <1>1 DEF NestAt, Nest
  <2>2. code[u] # <<>> /\ Head(code[u]) = c[k]
    BY <2>1, RestIs
  <2>3. Swapping(u) <=> k \in {n + 4, n + 5}
    <3>1. n \in 1 .. 3 /\ k \in Nat
      BY <2>1, NestPlaces
    <3>2. \/ k \notin {n + 4, n + 5} /\ c[k].op \in {"lock", "read", "unlock", "end"}
          \/ k \notin {n + 4, n + 5} /\ c[k].op = "write" /\ c[k].r = "b"
          \/ k = n + 4 /\ c[k].op = "write" /\ c[k].r = "a"
          \/ k = n + 5 /\ c[k].op = "swapped"
      BY <2>1, <3>1, NestPlaces, PlaceOps
    <3> QED
      BY <2>2, <3>1, <3>2 DEF Swapping
  <2>4. ASSUME k \in n + 1 .. n + 5
        PROVE  lockOwner[Guard] = u
    <3>1. PICK g \in 1 .. n : ls[g] = Guard
      BY <1>1 DEF NestAt, LocksInOrder
    <3>2. Guard \in NestHeld(n, ls, k)
      BY <2>1, <2>4, <3>1, NestHolds
    <3>3. Guard \in LockName
      BY DEF Guard, LockName, PlayerTable, BigLocker
    <3> QED
      BY <1>1, <3>2, <3>3 DEF NestAt
  <2> QED
    BY <2>3, <2>4
<1>2. ASSUME Swapping(u)
      PROVE  lockOwner[Guard] = u
  <2>1. ~Idle(u)
    BY <1>2 DEF Swapping, Idle
  <2>2. PICK c, n, ls, a, k : NestAt(u, c, n, ls, a, k)
    BY <2>1 DEF ThreadOK
  <2>3. n \in 1 .. 3
    BY <2>2 DEF NestAt, Nest
  <2> QED
    BY <1>1, <1>2, <2>2, <2>3
<1> QED
  BY <1>1, <1>2

\* A step of one thread leaves what is known of another as it is.
LEMMA OtherThreads ==
    ASSUME NEW u \in SwapThread, ThreadOK(u),
           code'[u] = code[u], reg'[u] = reg[u], rounds'[u] = rounds[u],
           test' = test,
           \A l \in LockName : lockOwner'[l] = u <=> lockOwner[l] = u,
           \/ swaps' = swaps /\ Value' = Value
           \/ test = "D"
           \/ lockOwner[Guard] # u
    PROVE  ThreadOK(u)' /\ (Swapping(u)' <=> Swapping(u)) /\ (Finished(u)' <=> Finished(u))
<1>1. (Swapping(u)' <=> Swapping(u)) /\ (Finished(u)' <=> Finished(u))
  BY Zenon DEF Swapping, Finished
<1> SUFFICES ThreadOK(u)'
  BY <1>1
<1>2. CASE Idle(u)
  <2>1. Idle(u)'
    BY <1>2 DEF Idle
  <2> QED
    BY <2>1 DEF ThreadOK
<1>3. ASSUME test # "D", NEW c, NEW n, NEW ls, NEW a, NEW k, NestAt(u, c, n, ls, a, k)
      PROVE  ThreadOK(u)'
  <2>1. n \in 1 .. 3
    BY <1>3 DEF NestAt, Nest
  <2>2. CASE swaps' = swaps /\ Value' = Value
    <3>1. NestAt(u, c, n, ls, a, k)'
      BY <1>3, <2>2 DEF NestAt, LocksInOrder, Base, Guard
    <3> QED
      BY <1>3, <3>1 DEF ThreadOK
  <2>3. CASE lockOwner[Guard] # u
    <3>1. ~(k \in n + 1 .. n + 5)
      BY <1>3, <2>3, Guarded
    <3>2. k \notin {n + 2, n + 3, n + 4, n + 5}
      BY <2>1, <3>1
    <3>3. NestAt(u, c, n, ls, a, k)'
      BY <1>3, <3>2 DEF NestAt, LocksInOrder, Guard
    <3> QED
      BY <1>3, <3>3 DEF ThreadOK
  <2> QED
    BY <1>3, <2>2, <2>3
<1>4. ASSUME test = "D", NEW c, NEW a, NEW k, FastAt(u, c, a, k)
      PROVE  ThreadOK(u)'
  <2>1. FastAt(u, c, a, k)'
    BY <1>4 DEF FastAt
  <2> QED
    BY <1>4, <2>1 DEF ThreadOK
<1> QED
  BY <1>1, <1>2, <1>3, <1>4 DEF ThreadOK

\* One instruction of a thread.
Executes(t) ==
  \/ EnterLock(t) \/ LeaveLock(t) \/ ReadValue(t) \/ WriteValue(t)
  \/ CompleteSwap(t) \/ IncrementEnd(t)

\* What it does, as an instruction of the thread's program.
Does(t, c, k) ==
  /\ code' = [code EXCEPT ![t] = Rest(c, k + 1)]
  /\ test' = test /\ rounds' = rounds /\ swapMain' = swapMain
  /\ \/ /\ c[k].op = "lock" /\ lockOwner[c[k].on] = Unowned
        /\ lockOwner' = [lockOwner EXCEPT ![c[k].on] = t]
        /\ UNCHANGED <<Value, reg, swaps, swapEnd>>
     \/ /\ c[k].op = "unlock"
        /\ lockOwner' = [lockOwner EXCEPT ![c[k].on] = Unowned]
        /\ UNCHANGED <<Value, reg, swaps, swapEnd>>
     \/ /\ c[k].op = "read"
        /\ reg' = [reg EXCEPT ![t][c[k].r] = Value[c[k].on]]
        /\ UNCHANGED <<Value, lockOwner, swaps, swapEnd>>
     \/ /\ c[k].op = "write"
        /\ Value' = [Value EXCEPT ![c[k].on] = reg[t][c[k].r]]
        /\ UNCHANGED <<lockOwner, reg, swaps, swapEnd>>
     \/ /\ c[k].op = "swapped" /\ swaps' = (swaps + 1) % 2
        /\ UNCHANGED <<Value, lockOwner, reg, swapEnd>>
     \/ /\ c[k].op = "end" /\ swapEnd' = swapEnd + 1
        /\ UNCHANGED <<Value, lockOwner, reg, swaps>>

\* An instruction that is executed is the one at the place of the thread.
LEMMA ExecutesDoes ==
    ASSUME MultiTypes, NEW t \in SwapThread, Executes(t),
           NEW c \in Seq(Instruction), NEW k \in 1 .. Len(c), code[t] = Rest(c, k)
    PROVE  Does(t, c, k) /\ c[k] \in Instruction /\ Rest(c, k + 1) \in Seq(Instruction)
<1>1. /\ Head(code[t]) = c[k] /\ Tail(code[t]) = Rest(c, k + 1)
      /\ c[k] \in Instruction /\ Rest(c, k) \in Seq(Instruction) /\ Rest(c, k) # <<>>
  BY RestIs
<1>2. Rest(c, k + 1) \in Seq(Instruction)
  BY <1>1, HeadTailProperties
<1> SUFFICES Does(t, c, k)
  BY <1>1, <1>2
<1>s. ASSUME NEW op, Step(t, op)
      PROVE  /\ c[k].op = op /\ code' = [code EXCEPT ![t] = Rest(c, k + 1)]
             /\ test' = test /\ rounds' = rounds /\ swapMain' = swapMain
  BY <1>1, <1>s, Zenon DEF Step
<1>3. CASE EnterLock(t)
  <2>1. Step(t, "lock")
    BY <1>3 DEF EnterLock
  <2>2. /\ c[k].op = "lock" /\ code' = [code EXCEPT ![t] = Rest(c, k + 1)]
        /\ test' = test /\ rounds' = rounds /\ swapMain' = swapMain
    BY <1>s, <2>1
  <2>3. /\ lockOwner[c[k].on] = Unowned
        /\ lockOwner' = [lockOwner EXCEPT ![c[k].on] = t]
        /\ UNCHANGED <<Value, reg, swaps, swapEnd>>
    BY <1>3, <1>1, Zenon DEF EnterLock
  <2> QED
    BY <2>2, <2>3, Zenon DEF Does
<1>4. CASE LeaveLock(t)
  <2>1. Step(t, "unlock")
    BY <1>4 DEF LeaveLock
  <2>2. /\ c[k].op = "unlock" /\ code' = [code EXCEPT ![t] = Rest(c, k + 1)]
        /\ test' = test /\ rounds' = rounds /\ swapMain' = swapMain
    BY <1>s, <2>1
  <2>3. /\ lockOwner' = [lockOwner EXCEPT ![c[k].on] = Unowned]
        /\ UNCHANGED <<Value, reg, swaps, swapEnd>>
    BY <1>4, <1>1, Zenon DEF LeaveLock
  <2> QED
    BY <2>2, <2>3, Zenon DEF Does
<1>5. CASE ReadValue(t)
  <2>1. Step(t, "read")
    BY <1>5 DEF ReadValue
  <2>2. /\ c[k].op = "read" /\ code' = [code EXCEPT ![t] = Rest(c, k + 1)]
        /\ test' = test /\ rounds' = rounds /\ swapMain' = swapMain
    BY <1>s, <2>1
  <2>3. /\ reg' = [reg EXCEPT ![t][c[k].r] = Value[c[k].on]]
        /\ UNCHANGED <<Value, lockOwner, swaps, swapEnd>>
    BY <1>5, <1>1, Zenon DEF ReadValue
  <2> QED
    BY <2>2, <2>3, Zenon DEF Does
<1>6. CASE WriteValue(t)
  <2>1. Step(t, "write")
    BY <1>6 DEF WriteValue
  <2>2. /\ c[k].op = "write" /\ code' = [code EXCEPT ![t] = Rest(c, k + 1)]
        /\ test' = test /\ rounds' = rounds /\ swapMain' = swapMain
    BY <1>s, <2>1
  <2>3. /\ Value' = [Value EXCEPT ![c[k].on] = reg[t][c[k].r]]
        /\ UNCHANGED <<lockOwner, reg, swaps, swapEnd>>
    BY <1>6, <1>1, Zenon DEF WriteValue
  <2> QED
    BY <2>2, <2>3, Zenon DEF Does
<1>7. CASE CompleteSwap(t)
  <2>1. Step(t, "swapped")
    BY <1>7 DEF CompleteSwap
  <2>2. /\ c[k].op = "swapped" /\ code' = [code EXCEPT ![t] = Rest(c, k + 1)]
        /\ test' = test /\ rounds' = rounds /\ swapMain' = swapMain
    BY <1>s, <2>1
  <2>3. /\ swaps' = (swaps + 1) % 2
        /\ UNCHANGED <<Value, lockOwner, reg, swapEnd>>
    BY <1>7, <1>1, Zenon DEF CompleteSwap
  <2> QED
    BY <2>2, <2>3, Zenon DEF Does
<1>8. CASE IncrementEnd(t)
  <2>1. Step(t, "end")
    BY <1>8 DEF IncrementEnd
  <2>2. /\ c[k].op = "end" /\ code' = [code EXCEPT ![t] = Rest(c, k + 1)]
        /\ test' = test /\ rounds' = rounds /\ swapMain' = swapMain
    BY <1>s, <2>1
  <2>3. /\ swapEnd' = swapEnd + 1
        /\ UNCHANGED <<Value, lockOwner, reg, swaps>>
    BY <1>8, <1>1, Zenon DEF IncrementEnd
  <2> QED
    BY <2>2, <2>3, Zenon DEF Does
<1> QED
  BY <1>3, <1>4, <1>5, <1>6, <1>7, <1>8 DEF Executes

\* A completed swap exchanges the values that the players should have.
LEMMA Bases ==
    ASSUME MultiTypes, NEW p \in PlayerTable
    PROVE  /\ Base(p) \in PlayerTable /\ Other(p) \in PlayerTable
           /\ Other(p) # p /\ Other(Other(p)) = p /\ p \in LockName
           /\ swaps' = (swaps + 1) % 2 => swaps' \in {0, 1} /\ Base(p)' = Base(Other(p))
           /\ swaps' = swaps => Base(p)' = Base(p)
           /\ \A q \in PlayerTable : q = p \/ q = Other(p)
<1>1. swaps \in {0, 1} /\ (p = 1 \/ p = 2)
  BY DEF MultiTypes, PlayerTable
<1>2. /\ Other(p) \in PlayerTable /\ Other(p) # p /\ Other(Other(p)) = p
      /\ p \in LockName /\ \A q \in PlayerTable : q = p \/ q = Other(p)
  BY <1>1 DEF Other, PlayerTable, LockName
<1>3. Base(p) \in PlayerTable
  BY <1>1, <1>2 DEF Base
<1>4. ASSUME swaps' = (swaps + 1) % 2
      PROVE  swaps' \in {0, 1} /\ Base(p)' = Base(Other(p))
  <2>1. (swaps = 0 /\ swaps' = 1) \/ (swaps = 1 /\ swaps' = 0)
    BY <1>1, <1>4
  <2> QED
    BY <1>2, <2>1 DEF Base
<1>5. swaps' = swaps => Base(p)' = Base(p)
  BY DEF Base
<1> QED
  BY <1>2, <1>3, <1>4, <1>5

\* A step of a thread in a nested swap, and what others may rely on.
LEMMA NestSteps ==
    ASSUME MultiTypes, \A u \in SwapThread : ThreadOK(u), ValueOK, test # "D",
           NEW t \in SwapThread, NEW c, NEW n, NEW ls, NEW a, NEW k,
           NestAt(t, c, n, ls, a, k), Does(t, c, k), c[k] \in Instruction,
           Rest(c, k + 1) \in Seq(Instruction)
    PROVE  /\ MultiTypes' /\ ThreadOK(t)'
           /\ \A u \in SwapThread \ {t} : ThreadOK(u)' /\ (Finished(u)' <=> Finished(u))
           /\ ValueOK'
           /\ ~Finished(t)
           /\ swapEnd' = IF Finished(t)' THEN swapEnd + 1 ELSE swapEnd
<1>0. /\ Nest(c, n, ls, a) /\ k \in 1 .. Len(c) /\ c \in Seq(Instruction)
      /\ n \in 1 .. 3 /\ k \in Nat /\ Len(c) = 2 * n + 6
      /\ Place(c, n, ls, a, k) /\ a \in PlayerTable
      /\ code[t] = Rest(c, k) /\ rounds[t] = 0
      /\ \A l \in LockName : lockOwner[l] = t <=> l \in NestHeld(n, ls, k)
  <2>1. /\ Nest(c, n, ls, a) /\ k \in 1 .. Len(c)
        /\ code[t] = Rest(c, k) /\ rounds[t] = 0
        /\ \A l \in LockName : lockOwner[l] = t <=> l \in NestHeld(n, ls, k)
    BY DEF NestAt
  <2>2. c \in Seq(Instruction) /\ a \in PlayerTable
    BY <2>1 DEF Nest
  <2> QED
    BY <2>1, <2>2, NestPlaces
<1>1. code[t] # <<>> /\ ~Finished(t) /\ t # Unowned
  BY <1>0, RestIs, MultiLockAssumption DEF Finished
<1>2. /\ code' = [code EXCEPT ![t] = Rest(c, k + 1)]
      /\ test' = test /\ rounds' = rounds /\ swapMain' = swapMain
      /\ code'[t] = Rest(c, k + 1)
      /\ \A u \in SwapThread \ {t} : code'[u] = code[u]
  BY DEF Does, MultiTypes
<1>3. k = 2 * n + 6 => code'[t] = <<>>
  BY <1>0, <1>2, RestIs
<1>4. k < 2 * n + 6 => k + 1 \in 1 .. Len(c) /\ code'[t] # <<>>
  <2>1. k < 2 * n + 6 => k + 1 \in 1 .. Len(c)
    BY <1>0
  <2> QED
    BY <1>0, <1>2, <2>1, RestIs
\* Others, while the locks of others stay and no value changes unguarded.
<1>5. ASSUME \A u \in SwapThread \ {t} : \A l \in LockName :
               lockOwner'[l] = u <=> lockOwner[l] = u,
             \A u \in SwapThread \ {t} : reg'[u] = reg[u],
             \/ swaps' = swaps /\ Value' = Value
             \/ lockOwner[Guard] = t
      PROVE  \A u \in SwapThread \ {t} :
               /\ ThreadOK(u)' /\ (Finished(u)' <=> Finished(u))
               /\ Swapping(u)' <=> Swapping(u)
  BY <1>2, <1>5, OtherThreads
<1>6. ASSUME k \in n + 1 .. n + 5
      PROVE  /\ lockOwner[Guard] = t
             /\ \A u \in SwapThread \ {t} : ~Swapping(u)
             /\ \A i \in 1 .. n : ls[i] \in NestHeld(n, ls, k)
             /\ NestHeld(n, ls, k + 1) = NestHeld(n, ls, k)
  BY <1>0, <1>6, Guarded, NestHolds
<1>7. Swapping(t) <=> k \in {n + 4, n + 5}
  BY Guarded
<1>8. /\ code' \in [SwapThread -> Seq(Instruction)] /\ rounds' \in [SwapThread -> Nat]
      /\ test' \in {"AB", "C", "D", "deadlock"} /\ swapMain' \in {"wait", "released"}
  BY <1>2 DEF MultiTypes
<1>9. LocksInOrder(n, ls)
  BY DEF NestAt
<1>10. ASSUME k < 2 * n + 6,
              \A l \in LockName : lockOwner'[l] = t <=> l \in NestHeld(n, ls, k + 1),
              k + 1 \in {n + 2, n + 3, n + 4} => reg'[t].a = Base(a)',
              k + 1 = n + 3 => reg'[t].b = Base(Other(a))',
              k + 1 = n + 4 => /\ Value'[a] = Base(Other(a))'
                               /\ Value'[Other(a)] = Base(Other(a))',
              k + 1 = n + 5 => /\ Value'[a] = Base(Other(a))'
                               /\ Value'[Other(a)] = Base(a)'
       PROVE  /\ ThreadOK(t)' /\ ~Finished(t)'
              /\ Swapping(t)' <=> k + 1 \in {n + 4, n + 5}
  <2>1. NestAt(t, c, n, ls, a, k + 1)'
    BY <1>0, <1>2, <1>4, <1>9, <1>10 DEF NestAt, LocksInOrder, Guard
  <2>2. ThreadOK(t)' /\ test' # "D"
    BY <1>2, <2>1 DEF ThreadOK
  <2>3. ~Finished(t)'
    BY <1>4, <1>10 DEF Finished
  <2>4. Swapping(t)' <=> k + 1 \in {n + 4, n + 5}
    <3> DEFINE m == k + 1
    <3>1. m \in 1 .. Len(c) /\ code'[t] = Rest(c, m) /\ c \in Seq(Instruction)
      BY <1>0, <1>2, <1>4, <1>10
    <3> HIDE DEF m
    <3>2. code'[t] # <<>> /\ Head(code'[t]) = c[m]
      BY <3>1, RestIs, SMTT(40)
    <3>3. Place(c, n, ls, a, m) /\ m \in Nat
      BY <1>0, <3>1, NestPlaces
    <3>4. \/ m \notin {n + 4, n + 5} /\ c[m].op \in {"lock", "read", "unlock", "end"}
          \/ m \notin {n + 4, n + 5} /\ c[m].op = "write" /\ c[m].r = "b"
          \/ m = n + 4 /\ c[m].op = "write" /\ c[m].r = "a"
          \/ m = n + 5 /\ c[m].op = "swapped"
      BY <1>0, <3>3, PlaceOps, SMTT(40)
    <3>5. n + 4 # n + 5 /\ m = k + 1
      BY <1>0 DEF m
    <3> QED
      BY <3>2, <3>4, <3>5 DEF Swapping
  <2> QED
    BY <2>2, <2>3, <2>4
<1>11. CASE k \in 1 .. n /\ c[k] = [op |-> "lock", on |-> ls[k]]
  <2>1. /\ lockOwner[ls[k]] = Unowned
        /\ lockOwner' = [lockOwner EXCEPT ![ls[k]] = t]
        /\ Value' = Value /\ reg' = reg /\ swaps' = swaps /\ swapEnd' = swapEnd
    BY <1>11 DEF Does
  <2>2. /\ ls[k] \in LockName
        /\ NestHeld(n, ls, k + 1) = NestHeld(n, ls, k) \cup {ls[k]}
    BY <1>0, <1>11, NestHolds
  <2>3. /\ lockOwner' \in [LockName -> SwapThread \cup {Unowned}]
        /\ \A l \in LockName : lockOwner'[l] = IF l = ls[k] THEN t ELSE lockOwner[l]
    BY <2>1, <2>2 DEF MultiTypes
  <2>4. MultiTypes'
    BY <1>8, <2>1, <2>3 DEF MultiTypes
  <2>5. \A u \in SwapThread \ {t} :
          /\ ThreadOK(u)' /\ (Finished(u)' <=> Finished(u))
          /\ Swapping(u)' <=> Swapping(u)
    <3>1. \A u \in SwapThread : u # Unowned
      BY MultiLockAssumption
    <3>2. \A u \in SwapThread \ {t} : \A l \in LockName :
            lockOwner'[l] = u <=> lockOwner[l] = u
      BY <1>1, <2>1, <2>3, <3>1
    <3> QED
      BY <1>5, <2>1, <3>2
  <2>6. k < 2 * n + 6 /\ k + 1 \notin {n + 2, n + 3, n + 4, n + 5}
        /\ k \notin {n + 4, n + 5}
    BY <1>0, <1>11
  <2>7. /\ ThreadOK(t)' /\ ~Finished(t)' /\ ~Swapping(t)'
    BY <1>0, <1>10, <2>2, <2>3, <2>6
  <2>8. ValueOK'
    BY <1>2, <1>7, <2>1, <2>5, <2>6, <2>7 DEF ValueOK, Base
  <2> QED
    BY <1>1, <2>1, <2>4, <2>5, <2>7, <2>8
<1>12. CASE \E i \in 1 .. n : k = 2 * n + 6 - i /\ c[k] = [op |-> "unlock", on |-> ls[i]]
  <2>0. PICK i \in 1 .. n : k = 2 * n + 6 - i /\ c[k] = [op |-> "unlock", on |-> ls[i]]
    BY <1>12
  <2>1. /\ lockOwner' = [lockOwner EXCEPT ![ls[i]] = Unowned]
        /\ Value' = Value /\ reg' = reg /\ swaps' = swaps /\ swapEnd' = swapEnd
    BY <2>0 DEF Does
  <2>2. /\ ls[i] \in LockName /\ lockOwner[ls[i]] = t
        /\ NestHeld(n, ls, k + 1) = NestHeld(n, ls, k) \ {ls[i]}
    <3>1. \A j \in 1 .. n : k = 2 * n + 6 - j =>
            /\ NestHeld(n, ls, k + 1) = NestHeld(n, ls, k) \ {ls[j]}
            /\ ls[j] \in NestHeld(n, ls, k) /\ ls[j] \in LockName
      <4>1. Nest(c, n, ls, a) /\ k \in 1 .. Len(c)
        BY <1>0
      <4> QED
        BY <4>1, NestHolds
    <3> QED
      BY <1>0, <2>0, <3>1
  <2>3. /\ lockOwner' \in [LockName -> SwapThread \cup {Unowned}]
        /\ \A l \in LockName : lockOwner'[l] = IF l = ls[i] THEN Unowned ELSE lockOwner[l]
    BY <2>1, <2>2 DEF MultiTypes
  <2>4. MultiTypes'
    BY <1>8, <2>1, <2>3 DEF MultiTypes
  <2>5. \A u \in SwapThread \ {t} :
          /\ ThreadOK(u)' /\ (Finished(u)' <=> Finished(u))
          /\ Swapping(u)' <=> Swapping(u)
    <3>1. \A u \in SwapThread : u # Unowned
      BY MultiLockAssumption
    <3>2. \A u \in SwapThread \ {t} : \A l \in LockName :
            lockOwner'[l] = u <=> lockOwner[l] = u
      BY <1>1, <2>1, <2>2, <2>3, <3>1
    <3> QED
      BY <1>5, <2>1, <3>2
  <2>6. k < 2 * n + 6 /\ k + 1 \notin {n + 2, n + 3, n + 4, n + 5}
        /\ k \notin {n + 4, n + 5}
    <3>1. n \in Nat /\ k \in n + 6 .. 2 * n + 5
      BY <1>0, <2>0, SMTT(40)
    <3> QED
      BY <3>1
  <2>7. /\ ThreadOK(t)' /\ ~Finished(t)' /\ ~Swapping(t)'
    BY <1>0, <1>1, <1>10, <2>2, <2>3, <2>6, SMTT(40)
  <2>8. ValueOK'
    BY <1>2, <1>7, <2>1, <2>5, <2>6, <2>7 DEF ValueOK, Base
  <2> QED
    BY <1>1, <2>1, <2>4, <2>5, <2>7, <2>8
<1>13. CASE k = 2 * n + 6 /\ c[k] = [op |-> "end"]
  <2>1. /\ Value' = Value /\ reg' = reg /\ swaps' = swaps /\ lockOwner' = lockOwner
        /\ swapEnd' = swapEnd + 1
    BY <1>13 DEF Does
  <2>2. MultiTypes'
    BY <1>8, <2>1 DEF MultiTypes
  <2>3. \A u \in SwapThread \ {t} :
          /\ ThreadOK(u)' /\ (Finished(u)' <=> Finished(u))
          /\ Swapping(u)' <=> Swapping(u)
    BY <1>5, <2>1
  <2>4. \A l \in LockName : lockOwner[l] # t
    <3>1. NestHeld(n, ls, 2 * n + 6) = {}
      BY <1>0, NestHolds
    <3> QED
      BY <1>0, <1>13, <3>1
  <2>5. Idle(t)' /\ Finished(t)' /\ ~Swapping(t)'
    BY <1>0, <1>2, <1>3, <1>13, <2>1, <2>4 DEF Idle, Finished, Swapping
  <2>6. k \notin {n + 4, n + 5}
    BY <1>0, <1>13, SMTT(40)
  <2>7. ValueOK'
    BY <1>2, <1>7, <2>1, <2>3, <2>5, <2>6 DEF ValueOK, Base
  <2> QED
    BY <1>1, <2>1, <2>2, <2>3, <2>5, <2>7 DEF ThreadOK
\* Inside the locks: nobody else swaps, so the values are what Base says.
<1> DEFINE b == Other(a)
<1>14. /\ b \in PlayerTable /\ b # a /\ Other(b) = a
       /\ Base(a) \in PlayerTable /\ Base(b) \in PlayerTable
       /\ \A q \in PlayerTable : q = a \/ q = b
  BY <1>0, Bases
<1>15. reg \in [SwapThread -> [a : 0 .. 2, b : 0 .. 2]] /\ Value \in [PlayerTable -> PlayerTable]
       /\ PlayerTable \subseteq 0 .. 2
  BY DEF MultiTypes, PlayerTable
<1>16. ASSUME k \in n + 1 .. n + 5, lockOwner' = lockOwner,
              \A u \in SwapThread \ {t} : reg'[u] = reg[u]
       PROVE  /\ \A u \in SwapThread \ {t} :
                   ThreadOK(u)' /\ (Finished(u)' <=> Finished(u)) /\ ~Swapping(u)'
              /\ k < 2 * n + 6
              /\ \A l \in LockName : lockOwner'[l] = t <=> l \in NestHeld(n, ls, k + 1)
              /\ k \in n + 1 .. n + 3 => Value[a] = Base(a) /\ Value[b] = Base(b)
  <2>1. \A u \in SwapThread \ {t} :
          ThreadOK(u)' /\ (Finished(u)' <=> Finished(u)) /\ ~Swapping(u)'
    BY <1>5, <1>6, <1>16
  <2>2. k < 2 * n + 6
    BY <1>0, <1>16, SMTT(40)
  <2>3. \A l \in LockName : lockOwner'[l] = t <=> l \in NestHeld(n, ls, k + 1)
    BY <1>0, <1>6, <1>16
  <2>4. ASSUME k \in n + 1 .. n + 3
        PROVE  Value[a] = Base(a) /\ Value[b] = Base(b)
    <3>1. ~Swapping(t)
      BY <1>0, <1>7, <2>4
    <3> QED
      BY <1>0, <1>6, <1>14, <1>16, <3>1 DEF ValueOK
  <2> QED
    BY <2>1, <2>2, <2>3, <2>4
<1>17. CASE \/ k = n + 1 /\ c[k] = [op |-> "read", on |-> a, r |-> "a"]
            \/ k = n + 2 /\ c[k] = [op |-> "read", on |-> b, r |-> "b"]
  <2>0. k \in n + 1 .. n + 3 /\ k \in n + 1 .. n + 5
    BY <1>0, <1>17
  <2>1. /\ reg' = [reg EXCEPT ![t][c[k].r] = Value[c[k].on]]
        /\ Value' = Value /\ lockOwner' = lockOwner /\ swaps' = swaps
        /\ swapEnd' = swapEnd
    BY <1>17 DEF Does
  <2>2. \A u \in SwapThread \ {t} : reg'[u] = reg[u]
    BY <1>15, <2>1
  <2>3. /\ \A u \in SwapThread \ {t} :
             ThreadOK(u)' /\ (Finished(u)' <=> Finished(u)) /\ ~Swapping(u)'
        /\ k < 2 * n + 6
        /\ \A l \in LockName : lockOwner'[l] = t <=> l \in NestHeld(n, ls, k + 1)
        /\ Value[a] = Base(a) /\ Value[b] = Base(b)
    BY <1>16, <2>0, <2>1, <2>2
  <2>4. \/ /\ k = n + 1 /\ reg'[t].a = Base(a)
        \/ /\ k = n + 2 /\ reg'[t].a = reg[t].a /\ reg'[t].b = Base(b)
    BY <1>15, <1>17, <2>1, <2>3
  <2>5. k = n + 2 => reg[t].a = Base(a)
    BY <1>0 DEF NestAt
  <2>6. Base(a)' = Base(a) /\ Base(b)' = Base(b)
    BY <1>0, <1>14, <2>1, Bases
  <2>7. /\ ThreadOK(t)' /\ ~Finished(t)'
        /\ Swapping(t)' <=> k + 1 \in {n + 4, n + 5}
    <3>1. k + 1 \notin {n + 4, n + 5} /\ n + 1 # n + 2
      BY <1>0, <1>17
    <3>2. k + 1 \in {n + 2, n + 3, n + 4} => reg'[t].a = Base(a)'
      BY <2>4, <2>5, <2>6
    <3>3. k + 1 = n + 3 => reg'[t].b = Base(b)'
      BY <1>0, <2>4, <2>6
    <3> QED
      BY <1>10, <2>3, <3>1, <3>2, <3>3
  <2>8. reg' \in [SwapThread -> [a : 0 .. 2, b : 0 .. 2]]
    <3>1. c[k].on \in PlayerTable /\ c[k].r \in {"a", "b"}
      BY <1>0, <1>14, <1>17
    <3>2. Value[c[k].on] \in 0 .. 2
      BY <1>15, <3>1
    <3>3. reg[t] \in [a : 0 .. 2, b : 0 .. 2]
      BY <1>15
    <3>4. [reg[t] EXCEPT ![c[k].r] = Value[c[k].on]] \in [a : 0 .. 2, b : 0 .. 2]
      BY <3>1, <3>2, <3>3
    <3> QED
      BY <1>15, <2>1, <3>4
  <2>9. MultiTypes'
    BY <1>8, <2>1, <2>8 DEF MultiTypes
  <2>10. ValueOK'
    BY <1>14, <2>1, <2>3, <2>6 DEF ValueOK
  <2> QED
    BY <1>1, <2>1, <2>3, <2>7, <2>9, <2>10
<1>18. CASE \/ k = n + 3 /\ c[k] = [op |-> "write", on |-> a, r |-> "b"]
            \/ k = n + 4 /\ c[k] = [op |-> "write", on |-> b, r |-> "a"]
  <2>0. k \in n + 1 .. n + 5
    BY <1>0, <1>18
  <2>1. /\ Value' = [Value EXCEPT ![c[k].on] = reg[t][c[k].r]]
        /\ reg' = reg /\ lockOwner' = lockOwner /\ swaps' = swaps
        /\ swapEnd' = swapEnd
    BY <1>18 DEF Does
  <2>2. /\ \A u \in SwapThread \ {t} :
             ThreadOK(u)' /\ (Finished(u)' <=> Finished(u)) /\ ~Swapping(u)'
        /\ k < 2 * n + 6
        /\ \A l \in LockName : lockOwner'[l] = t <=> l \in NestHeld(n, ls, k + 1)
        /\ k \in n + 1 .. n + 3 => Value[a] = Base(a) /\ Value[b] = Base(b)
    BY <1>16, <2>0, <2>1
  <2>3. /\ reg[t].a = Base(a)
        /\ k = n + 3 => reg[t].b = Base(b)
        /\ k = n + 4 => Value[a] = Base(b) /\ Value[b] = Base(b)
    BY <1>0, <1>18 DEF NestAt
  <2>4. /\ k = n + 3 => Value'[a] = Base(b) /\ Value'[b] = Base(b)
        /\ k = n + 4 => Value'[a] = Base(b) /\ Value'[b] = Base(a)
        /\ Value' \in [PlayerTable -> PlayerTable]
    <3>1. CASE k = n + 3 /\ c[k] = [op |-> "write", on |-> a, r |-> "b"]
      <4>1. Value' = [Value EXCEPT ![a] = Base(b)]
        <5>1. c[k].on = a /\ c[k].r = "b"
          BY <3>1
        <5> QED
          BY <2>1, <2>3, <3>1, <5>1
      <4>2. k # n + 4 /\ Value[b] = Base(b)
        BY <1>0, <2>2, <3>1
      <4> QED
        BY <1>0, <1>14, <1>15, <4>1, <4>2
    <3>2. CASE k = n + 4 /\ c[k] = [op |-> "write", on |-> b, r |-> "a"]
      <4>1. Value' = [Value EXCEPT ![b] = Base(a)]
        <5>1. c[k].on = b /\ c[k].r = "a"
          BY <3>2
        <5> QED
          BY <2>1, <2>3, <3>2, <5>1
      <4>2. k # n + 3 /\ Value[a] = Base(b)
        BY <1>0, <2>3, <3>2
      <4> QED
        BY <1>0, <1>14, <1>15, <4>1, <4>2
    <3> QED
      BY <1>18, <3>1, <3>2
  <2>5. Base(a)' = Base(a) /\ Base(b)' = Base(b)
    BY <1>0, <1>14, <2>1, Bases
  <2>6. k + 1 \in {n + 4, n + 5} /\ (k + 1 = n + 4 => k = n + 3)
        /\ (k + 1 = n + 5 => k = n + 4) /\ k + 1 # n + 3
    BY <1>0, <1>18
  <2>7. /\ ThreadOK(t)' /\ ~Finished(t)' /\ Swapping(t)'
    BY <1>10, <2>1, <2>2, <2>3, <2>4, <2>5, <2>6
  <2>8. MultiTypes'
    BY <1>8, <2>1, <2>4 DEF MultiTypes
  <2>9. ValueOK'
    BY <2>7 DEF ValueOK
  <2> QED
    BY <1>1, <2>1, <2>2, <2>7, <2>8, <2>9
<1>19. CASE k = n + 5 /\ c[k] = [op |-> "swapped"]
  <2>0. k \in n + 1 .. n + 5
    BY <1>0, <1>19
  <2>1. /\ swaps' = (swaps + 1) % 2 /\ Value' = Value
        /\ reg' = reg /\ lockOwner' = lockOwner /\ swapEnd' = swapEnd
    BY <1>19 DEF Does
  <2>2. /\ \A u \in SwapThread \ {t} :
             ThreadOK(u)' /\ (Finished(u)' <=> Finished(u)) /\ ~Swapping(u)'
        /\ k < 2 * n + 6
        /\ \A l \in LockName : lockOwner'[l] = t <=> l \in NestHeld(n, ls, k + 1)
    BY <1>16, <2>0, <2>1
  <2>3. Value[a] = Base(b) /\ Value[b] = Base(a)
    BY <1>19 DEF NestAt
  <2>4. Base(a)' = Base(b) /\ Base(b)' = Base(a) /\ swaps' \in {0, 1}
    BY <1>0, <1>14, <2>1, Bases
  <2>5. k + 1 \notin {n + 2, n + 3, n + 4, n + 5}
    BY <1>0, <1>19
  <2>6. /\ ThreadOK(t)' /\ ~Finished(t)'
    BY <1>10, <2>2, <2>5
  <2>7. MultiTypes'
    BY <1>8, <2>1, <2>4 DEF MultiTypes
  <2>8. \A p \in PlayerTable : Value'[p] = Base(p)'
    BY <1>14, <2>1, <2>3, <2>4
  <2>9. ValueOK'
    BY <2>8 DEF ValueOK
  <2> QED
    BY <1>1, <2>1, <2>2, <2>6, <2>7, <2>9
<1> QED
  BY <1>0, <1>11, <1>12, <1>13, <1>17, <1>18, <1>19, Zenon DEF Place

\* The instruction at each place of the fast swap.
FastPlace(c, a, k) ==
  /\ k \in {1, 8} => c[k] = [op |-> "lock", on |-> a]
  /\ k = 4 => c[k] = [op |-> "lock", on |-> Other(a)]
  /\ k \in {3, 10} => c[k] = [op |-> "unlock", on |-> a]
  /\ k = 7 => c[k] = [op |-> "unlock", on |-> Other(a)]
  /\ k = 2 => c[k] = [op |-> "read", on |-> a, r |-> "a"]
  /\ k = 5 => c[k] = [op |-> "read", on |-> Other(a), r |-> "b"]
  /\ k = 6 => c[k] = [op |-> "write", on |-> Other(a), r |-> "a"]
  /\ k = 9 => c[k] = [op |-> "write", on |-> a, r |-> "b"]
  /\ k = 11 => c[k] = [op |-> "swapped"]
  /\ k = 12 => c[k] = [op |-> "end"] /\ Len(c) = 12

\* What stands at each place of a fast swap.
LEMMA FastPlaces ==
    ASSUME NEW c, NEW a, Fast(c, a), NEW k \in 1 .. Len(c)
    PROVE  /\ a \in PlayerTable /\ c \in Seq(Instruction) /\ k \in Nat
           /\ Len(c) \in {11, 12} /\ k \in 1 .. 12
           /\ FastPlace(c, a, k)
<1>1. a \in PlayerTable /\ c \in Seq(Instruction) /\ Len(c) \in {11, 12}
  BY DEF Fast
<1>2. k \in Nat /\ k \in 1 .. 12 /\ (k = 12 => Len(c) = 12)
  <2>1. CASE Len(c) = 11
    BY <2>1
  <2>2. CASE Len(c) = 12
    BY <2>2
  <2> QED
    BY <1>1, <2>1, <2>2
<1> QED
  BY <1>1, <1>2 DEF Fast, FastPlace

\* The lock held at each place of the fast swap.
LEMMA FastHolds ==
    ASSUME NEW a \in PlayerTable, NEW k \in 1 .. 12
    PROVE  /\ k \in {1, 8} => FastHeld(a, k) = {} /\ FastHeld(a, k + 1) = {a}
           /\ k = 4 => FastHeld(a, k) = {} /\ FastHeld(a, k + 1) = {Other(a)}
           /\ k \in {3, 10} => FastHeld(a, k) = {a} /\ FastHeld(a, k + 1) = {}
           /\ k = 7 => FastHeld(a, k) = {Other(a)} /\ FastHeld(a, k + 1) = {}
           /\ k \in {2, 5, 6, 9, 11} => FastHeld(a, k + 1) = FastHeld(a, k)
           /\ k \in {11, 12} => FastHeld(a, k) = {}
BY DEF FastHeld

\* A step of a thread in the fast swap, and what others may rely on.
LEMMA FastSteps ==
    ASSUME MultiTypes, \A u \in SwapThread : ThreadOK(u), test = "D",
           NEW t \in SwapThread, NEW c, NEW a, NEW k,
           FastAt(t, c, a, k), Does(t, c, k),
           Rest(c, k + 1) \in Seq(Instruction)
    PROVE  /\ MultiTypes' /\ ThreadOK(t)'
           /\ \A u \in SwapThread \ {t} : ThreadOK(u)' /\ (Finished(u)' <=> Finished(u))
           /\ ValueOK'
           /\ ~Finished(t)
           /\ swapEnd' = IF Finished(t)' THEN swapEnd + 1 ELSE swapEnd
<1>0. /\ Fast(c, a) /\ k \in 1 .. Len(c)
      /\ code[t] = Rest(c, k) /\ (rounds[t] = 0 <=> Len(c) = 12)
      /\ \A l \in LockName : lockOwner[l] = t <=> l \in FastHeld(a, k)
      /\ k >= 3 => reg[t].a \in PlayerTable
      /\ k >= 6 => reg[t].b \in PlayerTable
  BY DEF FastAt
<1>1. /\ a \in PlayerTable /\ c \in Seq(Instruction) /\ k \in Nat
      /\ Len(c) \in {11, 12} /\ k \in 1 .. 12
      /\ Len(c) \in Nat /\ Len(c) >= 11 /\ k <= Len(c) /\ (k = 12 <=> k # 11 /\ k = Len(c))
  <2>1. /\ a \in PlayerTable /\ c \in Seq(Instruction) /\ k \in Nat
        /\ Len(c) \in {11, 12} /\ k \in 1 .. 12
    BY <1>0, FastPlaces
  <2>2. CASE Len(c) = 11
    BY <1>0, <2>1, <2>2, SMTT(40)
  <2>3. CASE Len(c) = 12
    BY <1>0, <2>1, <2>3
  <2> QED
    BY <2>1, <2>2, <2>3
<1>p. FastPlace(c, a, k)
  BY <1>0, FastPlaces
<1>h. /\ k \in {1, 8} => FastHeld(a, k) = {} /\ FastHeld(a, k + 1) = {a}
      /\ k = 4 => FastHeld(a, k) = {} /\ FastHeld(a, k + 1) = {Other(a)}
      /\ k \in {3, 10} => FastHeld(a, k) = {a} /\ FastHeld(a, k + 1) = {}
      /\ k = 7 => FastHeld(a, k) = {Other(a)} /\ FastHeld(a, k + 1) = {}
      /\ k \in {2, 5, 6, 9, 11} => FastHeld(a, k + 1) = FastHeld(a, k)
      /\ k \in {11, 12} => FastHeld(a, k) = {}
  BY <1>1, FastHolds
<1>2. code[t] # <<>> /\ ~Finished(t) /\ \A u \in SwapThread : u # Unowned
  BY <1>0, <1>1, RestIs, MultiLockAssumption DEF Finished
<1>3. /\ test' = test /\ rounds' = rounds /\ swapMain' = swapMain
      /\ code'[t] = Rest(c, k + 1)
      /\ \A u \in SwapThread \ {t} : code'[u] = code[u]
      /\ code' \in [SwapThread -> Seq(Instruction)] /\ rounds' \in [SwapThread -> Nat]
      /\ test' \in {"AB", "C", "D", "deadlock"} /\ swapMain' \in {"wait", "released"}
  BY DEF Does, MultiTypes
<1>4. ValueOK'
  BY <1>3 DEF ValueOK
<1>5. /\ k = Len(c) => code'[t] = <<>>
      /\ k < Len(c) => k + 1 \in 1 .. Len(c) /\ code'[t] # <<>>
  <2>1. k = Len(c) => code'[t] = <<>>
    BY <1>0, <1>1, <1>3, RestIs
  <2>2. ASSUME k < Len(c)
        PROVE  k + 1 \in 1 .. Len(c) /\ code'[t] # <<>>
    <3>1. k + 1 \in 1 .. Len(c)
      BY <1>1, <2>2
    <3>2. Rest(c, k + 1) # <<>>
      BY <1>1, <3>1, RestIs
    <3> QED
      BY <1>3, <3>1, <3>2
  <2> QED
    BY <2>1, <2>2
<1>6. /\ a \in LockName /\ Other(a) \in LockName /\ Other(a) \in PlayerTable
      /\ PlayerTable \subseteq 0 .. 2
  BY <1>1, Exchanges DEF PlayerTable
<1>7. /\ Value \in [PlayerTable -> PlayerTable]
      /\ lockOwner \in [LockName -> SwapThread \cup {Unowned}]
      /\ reg \in [SwapThread -> [a : 0 .. 2, b : 0 .. 2]]
      /\ swaps \in {0, 1} /\ swapEnd \in Nat
  BY DEF MultiTypes
\* The thread stays in its round.
<1>8. ASSUME k < Len(c),
             \A l \in LockName : lockOwner'[l] = t <=> l \in FastHeld(a, k + 1),
             k >= 2 => reg'[t].a \in PlayerTable,
             k >= 5 => reg'[t].b \in PlayerTable
      PROVE  ThreadOK(t)' /\ ~Finished(t)'
  <2>1. FastAt(t, c, a, k + 1)'
    BY <1>0, <1>1, <1>3, <1>5, <1>8 DEF FastAt
  <2> QED
    BY <1>3, <1>5, <1>8, <2>1 DEF ThreadOK, Finished
<1>9. ASSUME \A u \in SwapThread \ {t} : \A l \in LockName :
               lockOwner'[l] = u <=> lockOwner[l] = u,
             \A u \in SwapThread \ {t} : reg'[u] = reg[u]
      PROVE  \A u \in SwapThread \ {t} : ThreadOK(u)' /\ (Finished(u)' <=> Finished(u))
  BY <1>3, <1>9, OtherThreads
\* It takes the lock l, or gives it back.
<1>10. ASSUME NEW l \in LockName, NEW v \in {t, Unowned},
              lockOwner' = [lockOwner EXCEPT ![l] = v],
              lockOwner[l] \in {t, Unowned}, k < 11,
              reg' = reg, Value' = Value, swaps' = swaps, swapEnd' = swapEnd,
              k \notin {2, 5},
              \A m \in LockName :
                m \in FastHeld(a, k + 1) <=> IF m = l THEN v = t ELSE m \in FastHeld(a, k)
       PROVE  /\ MultiTypes' /\ ThreadOK(t)' /\ ~Finished(t)'
              /\ \A u \in SwapThread \ {t} : ThreadOK(u)' /\ (Finished(u)' <=> Finished(u))
  <2>1. /\ lockOwner' \in [LockName -> SwapThread \cup {Unowned}]
        /\ \A m \in LockName : lockOwner'[m] = IF m = l THEN v ELSE lockOwner[m]
    BY <1>7, <1>10
  <2>2. MultiTypes'
    BY <1>3, <1>7, <1>10, <2>1 DEF MultiTypes
  <2>3. \A u \in SwapThread \ {t} : \A m \in LockName :
          lockOwner'[m] = u <=> lockOwner[m] = u
    BY <1>2, <1>10, <2>1
  <2>4. \A m \in LockName : lockOwner'[m] = t <=> m \in FastHeld(a, k + 1)
    BY <1>0, <1>2, <1>10, <2>1
  <2>5. k < Len(c) /\ (k >= 2 => k >= 3) /\ (k >= 5 => k >= 6)
    BY <1>1, <1>10
  <2>6. ThreadOK(t)' /\ ~Finished(t)'
    BY <1>0, <1>8, <1>10, <2>4, <2>5
  <2> QED
    BY <1>9, <1>10, <2>2, <2>3, <2>6
<1>11. CASE k \in {1, 4, 8}
  <2>1. PICK l \in {a, Other(a)} :
          /\ c[k] = [op |-> "lock", on |-> l]
          /\ FastHeld(a, k) = {} /\ FastHeld(a, k + 1) = {l}
    BY <1>0, <1>1, <1>11, <1>p, <1>h DEF FastPlace
  <2>2. /\ lockOwner[l] = Unowned /\ lockOwner' = [lockOwner EXCEPT ![l] = t]
        /\ Value' = Value /\ reg' = reg /\ swaps' = swaps /\ swapEnd' = swapEnd
    BY <2>1 DEF Does
  <2>3. k < 11 /\ k \notin {2, 5} /\ l \in LockName
    BY <1>6, <1>11, <2>1
  <2>4. /\ MultiTypes' /\ ThreadOK(t)' /\ ~Finished(t)'
        /\ \A u \in SwapThread \ {t} : ThreadOK(u)' /\ (Finished(u)' <=> Finished(u))
    BY <1>10, <2>1, <2>2, <2>3
  <2> QED
    BY <1>2, <1>4, <2>2, <2>4
<1>12. CASE k \in {3, 7, 10}
  <2>1. PICK l \in {a, Other(a)} :
          /\ c[k] = [op |-> "unlock", on |-> l]
          /\ FastHeld(a, k) = {l} /\ FastHeld(a, k + 1) = {}
    BY <1>0, <1>1, <1>12, <1>p, <1>h DEF FastPlace
  <2>2. /\ lockOwner' = [lockOwner EXCEPT ![l] = Unowned]
        /\ Value' = Value /\ reg' = reg /\ swaps' = swaps /\ swapEnd' = swapEnd
    BY <2>1 DEF Does
  <2>3. k < 11 /\ k \notin {2, 5} /\ l \in LockName /\ lockOwner[l] = t
    BY <1>0, <1>6, <1>12, <2>1
  <2>4. /\ MultiTypes' /\ ThreadOK(t)' /\ ~Finished(t)'
        /\ \A u \in SwapThread \ {t} : ThreadOK(u)' /\ (Finished(u)' <=> Finished(u))
    BY <1>2, <1>10, <2>1, <2>2, <2>3
  <2> QED
    BY <1>2, <1>4, <2>2, <2>4
<1>13. CASE k \in {2, 5}
  <2>1. /\ \/ k = 2 /\ c[k] = [op |-> "read", on |-> a, r |-> "a"]
           \/ k = 5 /\ c[k] = [op |-> "read", on |-> Other(a), r |-> "b"]
        /\ FastHeld(a, k + 1) = FastHeld(a, k)
    BY <1>0, <1>1, <1>13, <1>p, <1>h DEF FastPlace
  <2>2. /\ reg' = [reg EXCEPT ![t][c[k].r] = Value[c[k].on]]
        /\ Value' = Value /\ lockOwner' = lockOwner /\ swaps' = swaps
        /\ swapEnd' = swapEnd
    BY <2>1 DEF Does
  <2>3. /\ c[k].on \in PlayerTable /\ c[k].r \in {"a", "b"}
        /\ k = 2 => c[k].r = "a"
        /\ k = 5 => c[k].r = "b"
    BY <1>1, <1>6, <2>1
  <2>4. Value[c[k].on] \in PlayerTable /\ Value[c[k].on] \in 0 .. 2
    BY <1>6, <1>7, <2>3
  <2>5. reg[t] \in [a : 0 .. 2, b : 0 .. 2]
    BY <1>7
  <2>6. /\ [reg[t] EXCEPT ![c[k].r] = Value[c[k].on]] \in [a : 0 .. 2, b : 0 .. 2]
        /\ k = 2 => [reg[t] EXCEPT ![c[k].r] = Value[c[k].on]].a \in PlayerTable
        /\ k = 5 => /\ [reg[t] EXCEPT ![c[k].r] = Value[c[k].on]].a = reg[t].a
                    /\ [reg[t] EXCEPT ![c[k].r] = Value[c[k].on]].b \in PlayerTable
    BY <2>3, <2>4, <2>5
  <2>7. /\ reg' \in [SwapThread -> [a : 0 .. 2, b : 0 .. 2]]
        /\ reg'[t] = [reg[t] EXCEPT ![c[k].r] = Value[c[k].on]]
        /\ \A u \in SwapThread \ {t} : reg'[u] = reg[u]
    BY <1>7, <2>2, <2>6
  <2>8. MultiTypes'
    BY <1>3, <1>7, <2>2, <2>7 DEF MultiTypes
  <2>9. \A u \in SwapThread \ {t} : ThreadOK(u)' /\ (Finished(u)' <=> Finished(u))
    BY <1>9, <2>2, <2>7
  <2>10. ThreadOK(t)' /\ ~Finished(t)'
    <3>1. k < Len(c) /\ (k >= 2 => reg'[t].a \in PlayerTable)
          /\ (k >= 5 => reg'[t].b \in PlayerTable)
      BY <1>0, <1>1, <1>13, <2>6, <2>7
    <3>2. \A l \in LockName : lockOwner'[l] = t <=> l \in FastHeld(a, k + 1)
      BY <1>0, <2>1, <2>2
    <3> QED
      BY <1>8, <3>1, <3>2
  <2> QED
    BY <1>2, <1>4, <2>2, <2>8, <2>9, <2>10
<1>14. CASE k \in {6, 9}
  <2>1. /\ \/ k = 6 /\ c[k] = [op |-> "write", on |-> Other(a), r |-> "a"]
           \/ k = 9 /\ c[k] = [op |-> "write", on |-> a, r |-> "b"]
        /\ FastHeld(a, k + 1) = FastHeld(a, k)
    BY <1>0, <1>1, <1>14, <1>p, <1>h DEF FastPlace
  <2>2. /\ Value' = [Value EXCEPT ![c[k].on] = reg[t][c[k].r]]
        /\ reg' = reg /\ lockOwner' = lockOwner /\ swaps' = swaps
        /\ swapEnd' = swapEnd
    BY <2>1 DEF Does
  <2>3. c[k].on \in PlayerTable /\ c[k].r \in {"a", "b"}
    BY <1>1, <1>6, <2>1
  <2>4. reg[t].a \in PlayerTable /\ reg[t].b \in PlayerTable
    BY <1>0, <1>14
  <2>5. reg[t][c[k].r] \in PlayerTable
    BY <2>3, <2>4
  <2>6. Value' \in [PlayerTable -> PlayerTable]
    BY <1>7, <2>2, <2>3, <2>5
  <2>7. MultiTypes'
    BY <1>3, <1>7, <2>2, <2>6 DEF MultiTypes
  <2>8. \A u \in SwapThread \ {t} : ThreadOK(u)' /\ (Finished(u)' <=> Finished(u))
    BY <1>9, <2>2
  <2>9. ThreadOK(t)' /\ ~Finished(t)'
    <3>1. k < Len(c) /\ reg'[t].a \in PlayerTable /\ reg'[t].b \in PlayerTable
      BY <1>1, <1>14, <2>2, <2>4
    <3>2. \A l \in LockName : lockOwner'[l] = t <=> l \in FastHeld(a, k + 1)
      BY <1>0, <2>1, <2>2
    <3> QED
      BY <1>8, <3>1, <3>2
  <2> QED
    BY <1>2, <1>4, <2>2, <2>7, <2>8, <2>9
<1>15. CASE k = 11
  <2>1. c[k] = [op |-> "swapped"] /\ FastHeld(a, k) = {} /\ FastHeld(a, k + 1) = {}
    BY <1>0, <1>1, <1>15, <1>p, <1>h DEF FastPlace
  <2>2. /\ swaps' = (swaps + 1) % 2 /\ Value' = Value
        /\ reg' = reg /\ lockOwner' = lockOwner /\ swapEnd' = swapEnd
    BY <2>1 DEF Does
  <2>3. swaps' \in {0, 1}
    BY <1>7, <2>2
  <2>4. MultiTypes'
    BY <1>3, <1>7, <2>2, <2>3 DEF MultiTypes
  <2>5. \A u \in SwapThread \ {t} : ThreadOK(u)' /\ (Finished(u)' <=> Finished(u))
    BY <1>9, <2>2
  <2>6. \A l \in LockName : lockOwner'[l] # t
    BY <1>0, <2>1, <2>2
  <2>7. ThreadOK(t)' /\ ~Finished(t)'
    <3>1. CASE Len(c) = 11
      <4>1. Idle(t)'
        BY <1>3, <1>5, <1>15, <2>6, <3>1 DEF Idle
      <4>2. rounds'[t] # 0
        BY <1>0, <1>3, <3>1
      <4> QED
        BY <4>1, <4>2 DEF ThreadOK, Finished
    <3>2. CASE Len(c) = 12
      <4>1. k < Len(c) /\ reg'[t].a \in PlayerTable /\ reg'[t].b \in PlayerTable
        BY <1>0, <1>15, <2>2, <3>2
      <4> QED
        BY <1>8, <2>1, <2>6, <4>1
    <3> QED
      BY <1>1, <3>1, <3>2
  <2> QED
    BY <1>2, <1>4, <2>2, <2>4, <2>5, <2>7
<1>16. CASE k = 12
  <2>1. c[k] = [op |-> "end"] /\ FastHeld(a, k) = {} /\ Len(c) = 12
    BY <1>0, <1>1, <1>16, <1>p, <1>h DEF FastPlace
  <2>2. /\ Value' = Value /\ reg' = reg /\ swaps' = swaps /\ lockOwner' = lockOwner
        /\ swapEnd' = swapEnd + 1
    BY <2>1 DEF Does
  <2>3. MultiTypes'
    BY <1>3, <1>7, <2>2 DEF MultiTypes
  <2>4. \A u \in SwapThread \ {t} : ThreadOK(u)' /\ (Finished(u)' <=> Finished(u))
    BY <1>9, <2>2
  <2>5. \A l \in LockName : lockOwner'[l] # t
    BY <1>0, <2>1, <2>2
  <2>6. Idle(t)' /\ Finished(t)'
    BY <1>0, <1>3, <1>5, <1>16, <2>1, <2>5 DEF Idle, Finished
  <2> QED
    BY <1>2, <1>4, <2>2, <2>3, <2>4, <2>6 DEF ThreadOK
<1> QED
  BY <1>1, <1>11, <1>12, <1>13, <1>14, <1>15, <1>16

\* A thread that calls its next swap.
LEMMA RoundStarts ==
    ASSUME MultiTypes, \A u \in SwapThread : ThreadOK(u), ValueOK,
           NEW t \in SwapThread, StartRound(t)
    PROVE  /\ MultiTypes' /\ ThreadOK(t)'
           /\ \A u \in SwapThread \ {t} : ThreadOK(u)' /\ (Finished(u)' <=> Finished(u))
           /\ ValueOK'
           /\ ~Finished(t) /\ ~Finished(t)' /\ swapEnd' = swapEnd
<1>1. /\ code[t] = <<>> /\ rounds[t] > 0 /\ rounds[t] \in Nat
      /\ rounds' = [rounds EXCEPT ![t] = @ - 1]
      /\ test' = test /\ Value' = Value /\ lockOwner' = lockOwner /\ reg' = reg
      /\ swaps' = swaps /\ swapEnd' = swapEnd /\ swapMain' = swapMain
      /\ test \in {"AB", "C", "D", "deadlock"}
  BY DEF StartRound, MultiTypes
<1>2. PICK c \in CodeOf(test) :
        code' = [code EXCEPT ![t] =
          IF test = "D" /\ rounds[t] = 1 THEN c \o CountEndOfThread ELSE c]
  BY DEF StartRound
<1>3. /\ test # "D" => \E n, ls, a : Nest(c, n, ls, a) /\ LocksInOrder(n, ls)
      /\ test = "D" => \E a : /\ Fast(c, a) /\ Len(c) = 11
                              /\ Fast(c \o CountEndOfThread, a)
                              /\ Len(c \o CountEndOfThread) = 12
  BY <1>1, <1>2, Programs
<1>d. PICK d : d = IF test = "D" /\ rounds[t] = 1 THEN c \o CountEndOfThread ELSE c
  OBVIOUS
<1>4. code' = [code EXCEPT ![t] = d]
  BY <1>2, <1>d
<1>5. /\ rounds' \in [SwapThread -> Nat] /\ rounds'[t] = rounds[t] - 1
      /\ \A u \in SwapThread \ {t} : rounds'[u] = rounds[u] /\ code'[u] = code[u]
      /\ code'[t] = d /\ (d \in Seq(Instruction) => code' \in [SwapThread -> Seq(Instruction)])
  BY <1>1, <1>4 DEF MultiTypes
<1>6. /\ Idle(t) /\ \A l \in LockName : lockOwner[l] # t
  <2>1. CASE Idle(t)
    BY <2>1 DEF Idle
  <2>2. ASSUME NEW e, NEW n, NEW ls, NEW a, NEW k, NestAt(t, e, n, ls, a, k)
        PROVE  FALSE
    <3>1. e \in Seq(Instruction) /\ k \in 1 .. Len(e) /\ code[t] = Rest(e, k)
      BY <2>2 DEF NestAt, Nest
    <3> QED
      BY <1>1, <3>1, RestIs
  <2>3. ASSUME NEW e, NEW a, NEW k, FastAt(t, e, a, k)
        PROVE  FALSE
    <3>1. e \in Seq(Instruction) /\ k \in 1 .. Len(e) /\ code[t] = Rest(e, k)
      BY <2>3 DEF FastAt, Fast
    <3> QED
      BY <1>1, <3>1, RestIs
  <2> QED
    BY <2>1, <2>2, <2>3 DEF ThreadOK
<1>7. /\ d \in Seq(Instruction) /\ d # <<>> /\ ThreadOK(t)'
      /\ test # "D" => Head(d).op = "lock"
  <2>1. CASE test # "D"
    <3>1. PICK n, ls, a : Nest(c, n, ls, a) /\ LocksInOrder(n, ls)
      BY <1>3, <2>1
    <3>2. /\ d = c /\ c \in Seq(Instruction) /\ Len(c) = 2 * n + 6 /\ n \in 1 .. 3
          /\ c[1] = [op |-> "lock", on |-> ls[1]]
      <4>1. c \in Seq(Instruction) /\ Len(c) = 2 * n + 6 /\ n \in 1 .. 3
            /\ \A i \in 1 .. n : c[i] = [op |-> "lock", on |-> ls[i]]
        BY <3>1 DEF Nest
      <4>2. d = c /\ 1 \in 1 .. n
        BY <1>d, <2>1, <4>1
      <4> QED
        BY <4>1, <4>2
    <3>3. 1 \in 1 .. Len(c) /\ 1 \notin {n + 2, n + 3, n + 4, n + 5}
      BY <3>2
    <3>4. Rest(c, 1) = c /\ c # <<>> /\ Head(c) = c[1]
      BY <3>2, <3>3, RestIs
    <3>5. NestHeld(n, ls, 1) = {}
      BY <3>1, <3>3, NestHolds
    <3>6. rounds'[t] = 0
      BY <1>1, <1>5, <1>6, <2>1 DEF Idle
    <3>7. NestAt(t, c, n, ls, a, 1)'
      BY <1>1, <1>5, <1>6, <3>1, <3>2, <3>3, <3>4, <3>5, <3>6 DEF NestAt, LocksInOrder, Guard
    <3> QED
      BY <1>1, <2>1, <3>2, <3>4, <3>7 DEF ThreadOK
  <2>2. CASE test = "D"
    <3>1. PICK a : /\ Fast(c, a) /\ Len(c) = 11
                   /\ Fast(c \o CountEndOfThread, a)
                   /\ Len(c \o CountEndOfThread) = 12
      BY <1>3, <2>2
    <3>2. Fast(d, a) /\ (Len(d) = 12 <=> rounds[t] = 1)
      <4>1. CASE rounds[t] = 1
        <5>1. d = c \o CountEndOfThread
          BY <1>d, <2>2, <4>1, Zenon
        <5> QED
          BY <3>1, <4>1, <5>1, Zenon
      <4>2. CASE rounds[t] # 1
        <5>1. d = c
          BY <1>d, <2>2, <4>2, Zenon
        <5>2. Len(d) # 12 /\ Fast(d, a)
          BY <3>1, <5>1, SMTT(40)
        <5> QED
          BY <4>2, <5>2, Zenon
      <4> QED
        BY <4>1, <4>2
    <3>3. d \in Seq(Instruction) /\ Len(d) \in {11, 12}
      BY <3>2 DEF Fast
    <3>4. 1 \in 1 .. Len(d)
      <4>1. CASE Len(d) = 11
        BY <4>1
      <4>2. CASE Len(d) = 12
        BY <4>2
      <4> QED
        BY <3>3, <4>1, <4>2
    <3>5. Rest(d, 1) = d /\ d # <<>>
      BY <3>3, <3>4, RestIs
    <3>6. FastHeld(a, 1) = {}
      BY DEF FastHeld
    <3>7. rounds'[t] = 0 <=> Len(d) = 12
      BY <1>1, <1>5, <3>2
    <3>8. FastAt(t, d, a, 1)'
      BY <1>1, <1>5, <1>6, <3>2, <3>4, <3>5, <3>6, <3>7 DEF FastAt
    <3> QED
      BY <1>1, <2>2, <3>3, <3>5, <3>8 DEF ThreadOK
  <2> QED
    BY <2>1, <2>2
<1>8. \A u \in SwapThread \ {t} :
        ThreadOK(u)' /\ (Swapping(u)' <=> Swapping(u)) /\ (Finished(u)' <=> Finished(u))
  BY <1>1, <1>5, OtherThreads
<1>9. MultiTypes'
  BY <1>1, <1>5, <1>7 DEF MultiTypes
<1>10. test # "D" => ~Swapping(t) /\ ~Swapping(t)'
  BY <1>1, <1>5, <1>7 DEF Swapping
<1>11. ValueOK'
  BY <1>1, <1>8, <1>10 DEF ValueOK, Base
<1>12. ~Finished(t) /\ ~Finished(t)'
  BY <1>1, <1>5, <1>7 DEF Finished
<1> QED
  BY <1>1, <1>7, <1>8, <1>9, <1>11, <1>12

\* The end counter counts the threads at their end.
LEMMA SwapEndsCounted ==
    ASSUME NEW t \in SwapThread, NEW A, NEW B, A \subseteq SwapThread,
           t \notin A, \/ B = A \cup {t}
                       \/ B = A
    PROVE  /\ Cardinality(A) \in Nat
           /\ B = A \cup {t} => Cardinality(B) = Cardinality(A) + 1
           /\ Cardinality(A) # Cardinality(SwapThread)
<1>1. IsFiniteSet(SwapThread)
  BY MultiLockAssumption
<1>2. IsFiniteSet(A) /\ Cardinality(A) \in Nat
  BY <1>1, FS_Subset, FS_CardinalityType
<1>3. B = A \cup {t} => Cardinality(B) = Cardinality(A) + 1
  BY <1>2, FS_AddElement
<1>4. Cardinality(A) # Cardinality(SwapThread)
  <2>1. Cardinality(A \cup {t}) = Cardinality(A) + 1
    BY <1>2, FS_AddElement
  <2>2. A \cup {t} \subseteq SwapThread
    OBVIOUS
  <2>3. Cardinality(A \cup {t}) <= Cardinality(SwapThread) /\ Cardinality(SwapThread) \in Nat
    BY <1>1, <2>2, FS_Subset, FS_CardinalityType
  <2> QED
    BY <1>2, <2>1, <2>3
<1> QED
  BY <1>2, <1>3, <1>4

\* The invariant holds at the start,
LEMMA MultiInvHolds == MultiInit => MultiInv
<1> SUFFICES ASSUME MultiInit PROVE MultiInv
  OBVIOUS
<1>1. /\ test \in {"AB", "C", "D", "deadlock"}
      /\ Value = [p \in PlayerTable |-> p]
      /\ lockOwner = [l \in LockName |-> Unowned]
      /\ code = [t \in SwapThread |-> <<>>]
      /\ reg = [t \in SwapThread |-> [a |-> 0, b |-> 0]]
      /\ rounds = [t \in SwapThread |-> IF test = "D" THEN LoopMax ELSE 1]
      /\ swaps = 0 /\ swapEnd = 0 /\ swapMain = "wait"
      /\ LoopMax \in Nat \ {0} /\ IsFiniteSet(SwapThread) /\ Unowned \notin SwapThread
  BY MultiLockAssumption DEF MultiInit
<1>2. MultiTypes
  BY <1>1 DEF MultiTypes
<1>3. \A t \in SwapThread : Idle(t) /\ ~Finished(t)
  BY <1>1 DEF Idle, Finished
<1>4. ValueOK
  BY <1>1 DEF ValueOK, Base
<1>5. {t \in SwapThread : Finished(t)} = {}
  BY <1>3
<1>6. swapEnd = Cardinality({t \in SwapThread : Finished(t)})
  BY <1>1, <1>5, FS_EmptySet
<1> QED
  BY <1>1, <1>2, <1>3, <1>4, <1>6 DEF MultiInv, ThreadOK

\* What a thread does, at whatever place of its program it is.
LEMMA ThreadSteps ==
    ASSUME MultiInv, NEW t \in SwapThread, SwapThreadProc(t)
    PROVE  MultiInv'
<1>1. /\ MultiTypes /\ ValueOK /\ \A u \in SwapThread : ThreadOK(u)
      /\ swapEnd = Cardinality({u \in SwapThread : Finished(u)})
      /\ swapMain = "released" => \A u \in SwapThread : Finished(u)
  BY DEF MultiInv
<1>2. swapMain' = swapMain
  BY DEF SwapThreadProc, StartRound, EnterLock, LeaveLock, ReadValue, WriteValue,
         CompleteSwap, IncrementEnd, Step
<1>3. /\ MultiTypes' /\ ThreadOK(t)'
      /\ \A u \in SwapThread \ {t} : ThreadOK(u)' /\ (Finished(u)' <=> Finished(u))
      /\ ValueOK'
      /\ ~Finished(t)
      /\ swapEnd' = IF Finished(t)' THEN swapEnd + 1 ELSE swapEnd
  <2>1. CASE StartRound(t)
    BY <1>1, <2>1, RoundStarts
  <2>2. CASE Executes(t)
    <3>0. code[t] # <<>>
      BY <2>2 DEF Executes, EnterLock, LeaveLock, ReadValue, WriteValue,
                  CompleteSwap, IncrementEnd, Step
    <3>1. ASSUME test # "D", NEW c, NEW n, NEW ls, NEW a, NEW k, NestAt(t, c, n, ls, a, k)
          PROVE  /\ MultiTypes' /\ ThreadOK(t)'
                 /\ \A u \in SwapThread \ {t} : ThreadOK(u)' /\ (Finished(u)' <=> Finished(u))
                 /\ ValueOK'
                 /\ ~Finished(t)
                 /\ swapEnd' = IF Finished(t)' THEN swapEnd + 1 ELSE swapEnd
      <4>1. c \in Seq(Instruction) /\ k \in 1 .. Len(c) /\ code[t] = Rest(c, k)
        BY <3>1 DEF NestAt, Nest
      <4>2. Does(t, c, k) /\ c[k] \in Instruction /\ Rest(c, k + 1) \in Seq(Instruction)
        BY <1>1, <2>2, <4>1, ExecutesDoes
      <4> QED
        BY <1>1, <3>1, <4>2, NestSteps
    <3>2. ASSUME test = "D", NEW c, NEW a, NEW k, FastAt(t, c, a, k)
          PROVE  /\ MultiTypes' /\ ThreadOK(t)'
                 /\ \A u \in SwapThread \ {t} : ThreadOK(u)' /\ (Finished(u)' <=> Finished(u))
                 /\ ValueOK'
                 /\ ~Finished(t)
                 /\ swapEnd' = IF Finished(t)' THEN swapEnd + 1 ELSE swapEnd
      <4>1. c \in Seq(Instruction) /\ k \in 1 .. Len(c) /\ code[t] = Rest(c, k)
        BY <3>2 DEF FastAt, Fast
      <4>2. Does(t, c, k) /\ Rest(c, k + 1) \in Seq(Instruction)
        BY <1>1, <2>2, <4>1, ExecutesDoes
      <4> QED
        BY <1>1, <3>2, <4>2, FastSteps
    <3> QED
      BY <1>1, <3>0, <3>1, <3>2, Zenon DEF ThreadOK, Idle
  <2> QED
    BY <2>1, <2>2 DEF SwapThreadProc, Executes
<1>4. swapMain' = "released" => \A u \in SwapThread : Finished(u)'
  BY <1>1, <1>2, <1>3
<1> DEFINE A == {u \in SwapThread : Finished(u)}
           B == {u \in SwapThread : Finished(u)'}
<1>5. /\ A \subseteq SwapThread /\ t \notin A
      /\ B = IF Finished(t)' THEN A \cup {t} ELSE A
  BY <1>3
<1> HIDE DEF A, B
<1>6. Cardinality(A) \in Nat /\ (B = A \cup {t} => Cardinality(B) = Cardinality(A) + 1)
  BY <1>5, SwapEndsCounted, Zenon
<1>7. swapEnd = Cardinality(A)
  BY <1>1 DEF A
<1>8. swapEnd' = Cardinality(B)
  BY <1>3, <1>5, <1>6, <1>7
<1>9. (swapEnd = Cardinality({u \in SwapThread : Finished(u)}))'
  BY <1>8 DEF B
<1> QED
  BY <1>3, <1>4, <1>9, Zenon DEF MultiInv

\* is kept by every step,
LEMMA MultiInvKept == MultiInv /\ [MultiNext]_multiVars => MultiInv'
<1> SUFFICES ASSUME MultiInv, [MultiNext]_multiVars PROVE MultiInv'
  OBVIOUS
<1>1. CASE UNCHANGED multiVars
  <2>1. /\ UNCHANGED <<test, Value, lockOwner, code, reg, rounds, swaps, swapEnd>>
        /\ swapMain' = swapMain
    BY <1>1 DEF multiVars
  <2>2. \A t \in SwapThread : ThreadOK(t)' /\ (Finished(t)' <=> Finished(t))
    BY <2>1, OtherThreads DEF MultiInv
  <2>3. MultiTypes' /\ ValueOK'
    BY <2>1, Zenon DEF MultiInv, MultiTypes, ValueOK, Swapping, Base
  <2>4. {u \in SwapThread : Finished(u)}' = {u \in SwapThread : Finished(u)}
    BY <2>2
  <2>5. swapEnd' = Cardinality({u \in SwapThread : Finished(u)}')
    BY <2>1, <2>4, Zenon DEF MultiInv
  <2> QED
    BY <2>1, <2>2, <2>3, <2>5 DEF MultiInv
<1>2. ASSUME NEW t \in SwapThread, SwapThreadProc(t)
      PROVE  MultiInv'
  BY <1>2, ThreadSteps
<1>3. CASE MultiMain
  <2>1. /\ swapEnd = Cardinality(SwapThread) /\ swapMain' = "released"
        /\ UNCHANGED <<test, Value, lockOwner, code, reg, rounds, swaps, swapEnd>>
    BY <1>3 DEF MultiMain
  <2>2. \A t \in SwapThread : Finished(t)
    <3> SUFFICES ASSUME NEW t \in SwapThread, ~Finished(t)
                 PROVE  FALSE
      OBVIOUS
    <3> DEFINE A == {u \in SwapThread : Finished(u)}
    <3>1. A \subseteq SwapThread /\ t \notin A
      OBVIOUS
    <3>2. A # SwapThread
      BY <3>1
    <3>3. Cardinality(A) = Cardinality(SwapThread)
      BY <2>1 DEF MultiInv
    <3> HIDE DEF A
    <3> QED
      BY <3>1, <3>2, <3>3, SwapEndsCounted
  <2>3. MultiTypes'
    BY <2>1 DEF MultiInv, MultiTypes
  <2>4. \A t \in SwapThread : ThreadOK(t)' /\ (Finished(t)' <=> Finished(t))
    BY <2>1, OtherThreads DEF MultiInv
  <2>5. ValueOK'
    BY <2>1, Zenon DEF MultiInv, ValueOK, Swapping, Base
  <2>6. {u \in SwapThread : Finished(u)}' = {u \in SwapThread : Finished(u)}
    BY <2>4
  <2>7. swapEnd' = Cardinality({u \in SwapThread : Finished(u)}')
    BY <2>1, <2>6, Zenon DEF MultiInv
  <2> QED
    BY <2>2, <2>3, <2>4, <2>5, <2>7 DEF MultiInv
<1> QED
  BY <1>1, <1>2, <1>3 DEF MultiNext

\* and says what the property says.
LEMMA SwapsSafeFollows == MultiInv => SwapsSafe
<1> SUFFICES ASSUME MultiInv PROVE SwapsSafe
  OBVIOUS
<1>1. /\ MultiTypes /\ ValueOK /\ \A u \in SwapThread : ThreadOK(u)
      /\ swapMain = "released" => \A u \in SwapThread : Finished(u)
      /\ \A u \in SwapThread : u # Unowned
  BY MultiLockAssumption DEF MultiInv
<1>2. NoSwapLost
  <2> SUFFICES ASSUME test # "D", \A l \in LockName : lockOwner[l] = Unowned,
                      NEW p \in PlayerTable
               PROVE  Value[p] = IF swaps = 0 THEN p ELSE Other(p)
    BY DEF NoSwapLost
  <2>1. Guard \in LockName
    BY Exchanges DEF Guard, LockName, PlayerTable
  <2>2. \A u \in SwapThread : ~Swapping(u)
    BY <1>1, <2>1, Guarded
  <2> QED
    BY <1>1, <2>2 DEF ValueOK, Base
<1>3. FastHoldsOneLock
  <2>1. \A p \in PlayerTable : Value[p] \in PlayerTable
    BY <1>1 DEF MultiTypes
  <2>2. ASSUME test = "D", NEW t \in SwapThread, WantsLock(t) # {}, NEW l \in LockName
        PROVE  lockOwner[l] # t
    <3>1. code[t] # <<>> /\ Head(code[t]).op = "lock"
      BY <2>2 DEF WantsLock
    <3>2. PICK c, a, k : FastAt(t, c, a, k)
      BY <1>1, <2>2, <3>1 DEF ThreadOK, Idle
    <3>3. Fast(c, a) /\ k \in 1 .. Len(c) /\ code[t] = Rest(c, k)
      BY <3>2 DEF FastAt
    <3>4. /\ a \in PlayerTable /\ c \in Seq(Instruction) /\ k \in 1 .. 12
          /\ FastPlace(c, a, k)
      BY <3>3, FastPlaces
    <3>5. c[k].op = "lock"
      BY <3>1, <3>3, <3>4, RestIs
    <3>6. k \notin {2, 3, 5, 6, 7, 9, 10}
      BY <3>4, <3>5 DEF FastPlace
    <3>7. FastHeld(a, k) = {}
      BY <3>4, <3>6 DEF FastHeld
    <3> QED
      BY <3>2, <3>7 DEF FastAt
  <2> QED
    BY <2>1, <2>2 DEF FastHoldsOneLock
<1>4. LocksDeletedUnused
  <2> SUFFICES ASSUME swapMain = "released"
               PROVE  /\ \A t \in SwapThread : code[t] = <<>> /\ rounds[t] = 0
                      /\ \A l \in LockName : lockOwner[l] = Unowned
    BY DEF LocksDeletedUnused
  <2>1. \A t \in SwapThread : code[t] = <<>> /\ rounds[t] = 0
    BY <1>1 DEF Finished
  <2>2. ASSUME NEW t \in SwapThread, NEW l \in LockName
        PROVE  lockOwner[l] # t
    <3>1. ASSUME NEW c, NEW n, NEW ls, NEW a, NEW k, NestAt(t, c, n, ls, a, k)
          PROVE  FALSE
      <4>1. c \in Seq(Instruction) /\ k \in 1 .. Len(c) /\ code[t] = Rest(c, k)
        BY <3>1 DEF NestAt, Nest
      <4> QED
        BY <2>1, <4>1, RestIs
    <3>2. ASSUME NEW c, NEW a, NEW k, FastAt(t, c, a, k)
          PROVE  FALSE
      <4>1. c \in Seq(Instruction) /\ k \in 1 .. Len(c) /\ code[t] = Rest(c, k)
        BY <3>2 DEF FastAt, Fast
      <4> QED
        BY <2>1, <4>1, RestIs
    <3>3. Idle(t)
      BY <1>1, <3>1, <3>2 DEF ThreadOK
    <3> QED
      BY <3>3 DEF Idle
  <2> QED
    BY <1>1, <2>1, <2>2 DEF MultiTypes
<1> QED
  BY <1>2, <1>3, <1>4 DEF SwapsSafe

\* Tutorial 3-3, for any number of threads and rounds: under the big lock, and
\* under both players' locks, no swap is torn or lost; the fast swap makes no
\* value up and never waits with a lock in hand; main deletes unused locks.
THEOREM SwapsKept == MultiSpec => []SwapsSafe
<1>1. MultiInit => MultiInv
  BY MultiInvHolds
<1>2. MultiInv /\ [MultiNext]_multiVars => MultiInv'
  BY MultiInvKept
<1>3. MultiInv => SwapsSafe
  BY SwapsSafeFollows
<1> QED
  BY <1>1, <1>2, <1>3, PTL DEF MultiSpec

\* A thread that waits for a lock in a nested swap has those before it and no
\* others.
WaitsAt(t, n, ls, k) ==
  /\ n \in 1 .. 3 /\ k \in 1 .. n /\ ls \in [1 .. n -> LockName]
  /\ \A i, j \in 1 .. n : ls[i] = ls[j] => i = j
  /\ LocksInOrder(n, ls) /\ WantsLock(t) = {ls[k]}
  /\ \A l \in LockName : lockOwner[l] = t <=> \E i \in 1 .. n : i < k /\ l = ls[i]

LEMMA WaitsInNest ==
    ASSUME MultiInv, test # "D", NEW t \in SwapThread, WantsLock(t) # {}
    PROVE  \E n, ls, k : WaitsAt(t, n, ls, k)
<1>1. code[t] # <<>> /\ Head(code[t]).op = "lock" /\ WantsLock(t) = {Head(code[t]).on}
  BY DEF WantsLock
<1>2. PICK c, n, ls, a, k : NestAt(t, c, n, ls, a, k)
  BY <1>1 DEF MultiInv, ThreadOK, Idle
<1>3. /\ Nest(c, n, ls, a) /\ k \in 1 .. Len(c) /\ code[t] = Rest(c, k)
      /\ LocksInOrder(n, ls)
      /\ \A l \in LockName : lockOwner[l] = t <=> l \in NestHeld(n, ls, k)
  BY <1>2 DEF NestAt
<1>4. /\ n \in 1 .. 3 /\ k \in Nat /\ Place(c, n, ls, a, k)
      /\ c \in Seq(Instruction) /\ ls \in [1 .. n -> LockName]
      /\ \A i, j \in 1 .. n : ls[i] = ls[j] => i = j
  <2>1. n \in 1 .. 3 /\ k \in Nat /\ Place(c, n, ls, a, k)
    BY <1>3, NestPlaces
  <2>2. /\ c \in Seq(Instruction) /\ ls \in [1 .. n -> LockName]
        /\ \A i, j \in 1 .. n : ls[i] = ls[j] => i = j
    BY <1>3, Zenon DEF Nest
  <2> QED
    BY <2>1, <2>2, Zenon
<1>5. Head(code[t]) = c[k]
  BY <1>3, <1>4, RestIs
<1>6. k \in 1 .. n /\ c[k] = [op |-> "lock", on |-> ls[k]]
  <2>1. c[k].op = "lock"
    BY <1>1, <1>5
  <2>2. /\ c[k] # [op |-> "read", on |-> a, r |-> "a"]
        /\ c[k] # [op |-> "read", on |-> Other(a), r |-> "b"]
    BY <2>1
  <2>3. /\ c[k] # [op |-> "write", on |-> a, r |-> "b"]
        /\ c[k] # [op |-> "write", on |-> Other(a), r |-> "a"]
    BY <2>1
  <2>4. c[k] # [op |-> "swapped"] /\ c[k] # [op |-> "end"]
    BY <2>1
  <2>5. \A i : c[k] # [op |-> "unlock", on |-> ls[i]]
    BY <2>1
  <2> QED
    BY <1>4, <2>2, <2>3, <2>4, <2>5, Zenon DEF Place
<1>7. {j \in 1 .. n : j < k /\ k <= 2 * n + 6 - j} = {j \in 1 .. n : j < k}
  BY <1>4, <1>6
<1>8. \A l : l \in NestHeld(n, ls, k) <=> \E i \in 1 .. n : i < k /\ l = ls[i]
  BY <1>7 DEF NestHeld
<1>9. WantsLock(t) = {ls[k]}
  BY <1>1, <1>5, <1>6
<1>10. \A l \in LockName : lockOwner[l] = t <=> \E i \in 1 .. n : i < k /\ l = ls[i]
  BY <1>3, <1>8, Zenon
<1>11. WaitsAt(t, n, ls, k)
  BY <1>3, <1>4, <1>6, <1>9, <1>10, Zenon DEF WaitsAt
<1> QED
  BY <1>11, Zenon

\* When nothing can go on, whoever has a lock waits for another one, which a
\* thread has, and somebody waits.
LEMMA HoldersWait ==
    ASSUME MultiInv, AllWait
    PROVE  /\ \E t \in SwapThread : WantsLock(t) # {}
           /\ \A t \in SwapThread, l \in LockName :
                lockOwner[l] = t => WantsLock(t) # {}
           /\ \A t \in SwapThread, l \in LockName :
                l \in WantsLock(t) => lockOwner[l] \in SwapThread
<1>1. \A t \in SwapThread : Finished(t) \/ \E l \in WantsLock(t) : lockOwner[l] # Unowned
  BY DEF AllWait, Finished
<1>2. \E t \in SwapThread : WantsLock(t) # {}
  <2>1. PICK t \in SwapThread : ~Finished(t)
    <3> SUFFICES ASSUME \A t \in SwapThread : Finished(t)
                 PROVE  FALSE
      OBVIOUS
    <3>1. {t \in SwapThread : Finished(t)} = SwapThread
      OBVIOUS
    <3> QED
      BY <3>1 DEF MultiInv, AllWait
  <2> QED
    BY <1>1, <2>1
<1>3. ASSUME NEW t \in SwapThread, NEW l \in LockName, lockOwner[l] = t
      PROVE  WantsLock(t) # {}
  <2> SUFFICES ASSUME Finished(t)
               PROVE  FALSE
    BY <1>1
  <2>1. code[t] = <<>> /\ ThreadOK(t)
    BY DEF Finished, MultiInv
  <2>2. ASSUME NEW c, NEW n, NEW ls, NEW a, NEW k, NestAt(t, c, n, ls, a, k)
        PROVE  FALSE
    <3>1. c \in Seq(Instruction) /\ k \in 1 .. Len(c) /\ code[t] = Rest(c, k)
      BY <2>2 DEF NestAt, Nest
    <3> QED
      BY <2>1, <3>1, RestIs
  <2>3. ASSUME NEW c, NEW a, NEW k, FastAt(t, c, a, k)
        PROVE  FALSE
    <3>1. c \in Seq(Instruction) /\ k \in 1 .. Len(c) /\ code[t] = Rest(c, k)
      BY <2>3 DEF FastAt, Fast
    <3> QED
      BY <2>1, <3>1, RestIs
  <2> QED
    BY <1>3, <2>1, <2>2, <2>3 DEF ThreadOK, Idle
<1>4. ASSUME NEW t \in SwapThread, NEW l \in LockName, l \in WantsLock(t)
      PROVE  lockOwner[l] \in SwapThread
  <2>1. \E m \in WantsLock(t) : lockOwner[m] # Unowned
    BY <1>1, <1>4 DEF Finished, WantsLock
  <2>2. WantsLock(t) = {l}
    BY <1>4 DEF WantsLock
  <2>3. lockOwner[l] # Unowned
    BY <2>1, <2>2
  <2> QED
    BY <2>3 DEF MultiInv, MultiTypes
<1> QED
  BY <1>2, <1>3, <1>4

\* A thread that has the lock for all, or waits for the first of its locks, is
\* what all wait for, and it need not wait.
LEMMA BigLockFirst ==
    ASSUME MultiInv, AllWait, test \notin {"D", "deadlock"}
    PROVE  FALSE
<1>1. \A t \in SwapThread : WantsLock(t) # {} =>
        \E l \in LockName :
          /\ WantsLock(t) = {l} /\ lockOwner[l] # t
          /\ l = BigLocker \/ lockOwner[BigLocker] = t
          /\ (\E m \in LockName : lockOwner[m] = t) => l # BigLocker
  <2> SUFFICES ASSUME NEW t \in SwapThread, WantsLock(t) # {}
               PROVE  \E l \in LockName :
                        /\ WantsLock(t) = {l} /\ lockOwner[l] # t
                        /\ l = BigLocker \/ lockOwner[BigLocker] = t
                        /\ (\E m \in LockName : lockOwner[m] = t) => l # BigLocker
    OBVIOUS
  <2>0. PICK n, ls, k : WaitsAt(t, n, ls, k)
    BY WaitsInNest
  <2>1. /\ n \in 1 .. 3 /\ k \in 1 .. n /\ ls \in [1 .. n -> LockName]
        /\ \A i, j \in 1 .. n : ls[i] = ls[j] => i = j
        /\ LocksInOrder(n, ls) /\ WantsLock(t) = {ls[k]}
        /\ \A l \in LockName : lockOwner[l] = t <=> \E i \in 1 .. n : i < k /\ l = ls[i]
    BY <2>0, Zenon DEF WaitsAt
  <2>2. ls[1] = BigLocker /\ 1 \in 1 .. n /\ ls[k] \in LockName /\ ls[1] \in LockName
    BY <2>1 DEF LocksInOrder
  <2>3. lockOwner[ls[k]] # t
    BY <2>1, <2>2
  <2>4. ls[k] = BigLocker \/ lockOwner[BigLocker] = t
    <3>1. CASE k = 1
      BY <2>2, <3>1
    <3>2. CASE k > 1
      BY <2>1, <2>2, <3>2
    <3> QED
      BY <2>1, <3>1, <3>2
  <2>5. ASSUME NEW m \in LockName, lockOwner[m] = t
        PROVE  ls[k] # BigLocker
    <3>1. PICK i \in 1 .. n : i < k
      BY <2>1, <2>5
    <3>2. k # 1
      BY <2>1, <3>1
    <3> QED
      BY <2>1, <2>2, <3>2
  <2> QED
    BY <2>1, <2>2, <2>3, <2>4, <2>5
<1>2. PICK t \in SwapThread : WantsLock(t) # {}
  BY HoldersWait
<1>3. lockOwner[BigLocker] \in SwapThread
  BY <1>1, <1>2, HoldersWait DEF LockName
<1>4. PICK w \in SwapThread : lockOwner[BigLocker] = w
  BY <1>3
<1>5. PICK l \in LockName : WantsLock(w) = {l} /\ lockOwner[l] # w /\ l # BigLocker
  BY <1>1, <1>4, HoldersWait DEF LockName
<1>6. PICK x \in SwapThread : lockOwner[l] = x
  BY <1>5, HoldersWait
<1>7. lockOwner[BigLocker] = x
  BY <1>1, <1>6, HoldersWait
<1> QED
  BY <1>4, <1>5, <1>6, <1>7

\* Of two locks, who has one and waits has the first of its program and waits
\* for the second.
LEMMA TwoInOppositeOrder ==
    ASSUME MultiInv, AllWait, test = "deadlock"
    PROVE  OppositeOrder
<1>1. ASSUME NEW t \in SwapThread, WantsLock(t) # {}
      PROVE  /\ \E p \in PlayerTable : WantsLock(t) = {p}
             /\ \A m \in LockName : lockOwner[m] = t =>
                  m \in PlayerTable /\ WantsLock(t) = {Other(m)}
  <2>0. PICK n, ls, k : WaitsAt(t, n, ls, k)
    BY <1>1, WaitsInNest
  <2>1. /\ n \in 1 .. 3 /\ k \in 1 .. n /\ ls \in [1 .. n -> LockName]
        /\ \A i, j \in 1 .. n : ls[i] = ls[j] => i = j
        /\ LocksInOrder(n, ls) /\ WantsLock(t) = {ls[k]}
        /\ \A l \in LockName : lockOwner[l] = t <=> \E i \in 1 .. n : i < k /\ l = ls[i]
    BY <2>0, Zenon DEF WaitsAt
  <2>2. n = 2 /\ ls \in [1 .. 2 -> PlayerTable]
    BY <2>1 DEF LocksInOrder
  <2>3. ls[1] \in PlayerTable /\ ls[2] \in PlayerTable /\ ls[1] # ls[2]
    BY <2>1, <2>2
  <2>4. k \in {1, 2}
    BY <2>1, <2>2
  <2>5. ls[2] = Other(ls[1])
    BY <2>3 DEF PlayerTable, Other
  <2>6. ASSUME NEW m \in LockName, lockOwner[m] = t
        PROVE  m \in PlayerTable /\ WantsLock(t) = {Other(m)}
    <3>1. PICK i \in 1 .. n : i < k /\ m = ls[i]
      BY <2>1, <2>6
    <3>2. i = 1 /\ k = 2
      BY <2>2, <2>4, <3>1
    <3> QED
      BY <2>1, <2>3, <2>5, <3>1, <3>2
  <2>7. ls[k] \in PlayerTable
    BY <2>3, <2>4
  <2> QED
    BY <2>1, <2>6, <2>7
<1>2. PlayerTable \subseteq LockName /\ \A p \in PlayerTable : Other(p) \in PlayerTable
      /\ Other(Other(p)) = p
  BY DEF LockName, PlayerTable, Other
<1>3. PICK s \in SwapThread : WantsLock(s) # {}
  BY HoldersWait
<1>4. PICK p \in PlayerTable : WantsLock(s) = {p}
  BY <1>1, <1>3
<1>5. PICK t \in SwapThread : lockOwner[p] = t
  BY <1>2, <1>4, HoldersWait
<1>6. WantsLock(t) = {Other(p)}
  <2>1. WantsLock(t) # {}
    BY <1>2, <1>5, HoldersWait
  <2> QED
    BY <1>1, <1>2, <1>5, <2>1
<1>7. PICK u \in SwapThread : lockOwner[Other(p)] = u
  BY <1>2, <1>6, HoldersWait
<1>8. WantsLock(u) = {p}
  <2>1. WantsLock(u) # {}
    BY <1>2, <1>7, HoldersWait
  <2>2. WantsLock(u) = {Other(Other(p))}
    BY <1>1, <1>2, <1>7, <2>1
  <2> QED
    BY <1>2, <2>2
<1> QED
  BY <1>5, <1>6, <1>7, <1>8 DEF OppositeOrder

\* Tutorial 3-3, for any number of threads and rounds: when neither main nor any
\* thread can go on, both deadlocking swaps run and two threads hold what the
\* other waits for; the swaps that its Create may start never come to that.
THEOREM StuckInOppositeOrder == MultiSpec => [](AllWait => OppositeOrder)
<1>1. MultiInit => MultiInv
  BY MultiInvHolds
<1>2. MultiInv /\ [MultiNext]_multiVars => MultiInv'
  BY MultiInvKept
<1>3. MultiInv => (AllWait => OppositeOrder)
  <2> SUFFICES ASSUME MultiInv, AllWait
               PROVE  OppositeOrder
    OBVIOUS
  <2>1. CASE test = "D"
    <3>1. FastHoldsOneLock
      BY SwapsSafeFollows DEF SwapsSafe
    <3>2. PICK t \in SwapThread : WantsLock(t) # {}
      BY HoldersWait
    <3>3. PICK l \in WantsLock(t) : l \in LockName
      <4>1. PICK c, a, k : FastAt(t, c, a, k)
        BY <2>1, <3>2 DEF MultiInv, ThreadOK, Idle, WantsLock
      <4>2. Fast(c, a) /\ k \in 1 .. Len(c) /\ code[t] = Rest(c, k)
        BY <4>1 DEF FastAt
      <4>3. /\ a \in PlayerTable /\ c \in Seq(Instruction) /\ k \in 1 .. 12
            /\ FastPlace(c, a, k)
        BY <4>2, FastPlaces
      <4>4. c[k].op = "lock" /\ WantsLock(t) = {c[k].on}
        BY <3>2, <4>2, <4>3, RestIs DEF WantsLock
      <4>5. c[k].on \in {a, Other(a)}
        BY <4>3, <4>4 DEF FastPlace
      <4> QED
        BY <4>3, <4>4, <4>5 DEF LockName, PlayerTable, Other
    <3>4. PICK u \in SwapThread : lockOwner[l] = u
      BY <3>3, HoldersWait
    <3> QED
      BY <2>1, <3>1, <3>3, <3>4, HoldersWait DEF FastHoldsOneLock
  <2>2. CASE test = "deadlock"
    BY <2>2, TwoInOppositeOrder
  <2> QED
    BY <2>1, <2>2, BigLockFirst
<1> QED
  BY <1>1, <1>2, <1>3, PTL DEF MultiSpec

-----------------------------------------------------------------------------
(***************************************************************************)
(* The component framework, for any tree and any callbacks: whatever is    *)
(* called was reached from a component that has been called already.       *)
(***************************************************************************)

Frame == [at : Component, do : {"call", "own", "children", "next"}]

\* Only the innermost of the calls under way has not called its component yet.
Reached(fs, g) ==
  \A i \in 1 .. Len(fs) :
    IF fs[i].do = "call" THEN i = Len(fs) ELSE g[fs[i].at] > 0

TreeInv ==
  /\ kids \in [Tree -> Seq(Component)]
  /\ got \in [Component -> Nat]
  /\ frames \in Seq(Frame)
  /\ Reached(frames, got)

\* A set of natural numbers has a least one.
LEMMA LeastOf ==
    ASSUME NEW T, T \subseteq Nat, T # {}
    PROVE  \E n \in T : \A m \in T : n <= m
<1> DEFINE Less == {ss \in Nat \X Nat : ss[1] < ss[2]}
<1>1. IsWellFoundedOn(Less, Nat)
  BY NatLessThanWellFounded, Zenon DEF OpToRel
<1>2. PICK n \in T : \A m \in T : ~ (<<m, n>> \in Less)
  <2> HIDE DEF Less
  <2> QED
    BY <1>1, WFMin
<1>3. ASSUME NEW m \in T
      PROVE  n <= m
  <2>1. n \in Nat /\ m \in Nat /\ ~ (<<m, n>> \in Less)
    BY <1>2
  <2>2. m < n => <<m, n>> \in Less
    BY <2>1
  <2> QED
    BY <2>1, <2>2
<1> QED
  BY <1>3

LEMMA TreeInvInit == TreeInit => TreeInv
BY DEF TreeInit, TreeInv, Reached

\* A component deleted or added leaves every ComponentList a sequence of them.
LEMMA ShapeKept ==
    ASSUME kids \in [Tree -> Seq(Component)],
           NEW p \in Tree, NEW c \in Component, NEW id,
           DelComponent(p, c) \/ AddComponent(p, c, id)
    PROVE  kids' \in [Tree -> Seq(Component)]
<1>1. CASE AddComponent(p, c, id)
  BY <1>1 DEF AddComponent
<1>2. CASE DelComponent(p, c)
  <2> DEFINE hits == {i \in 1 .. Len(kids[p]) : ID[kids[p][i]] = ID[c]}
             at == CHOOSE i \in hits : \A j \in hits : i <= j
             left == SubSeq(kids[p], 1, at - 1) \o
                     SubSeq(kids[p], at + 1, Len(kids[p]))
  <2>1. kids' = IF hits = {} THEN kids ELSE [kids EXCEPT ![p] = left]
    BY <1>2 DEF DelComponent
  <2>2. CASE hits = {}
    BY <2>1, <2>2
  <2>3. CASE hits # {}
    <3>1. hits \subseteq Nat /\ hits \subseteq 1 .. Len(kids[p])
      OBVIOUS
    <3>2. at \in hits
      <4>1. \E i \in hits : \A j \in hits : i <= j
        <5> HIDE DEF hits
        <5> QED
          BY <2>3, <3>1, LeastOf
      <4> HIDE DEF hits
      <4> QED
        BY <4>1, Zenon
    <3>3. kids[p] \in Seq(Component)
      OBVIOUS
    <3>4. at \in 1 .. Len(kids[p])
      BY <3>1, <3>2
    <3> HIDE DEF at
    <3>5. /\ SubSeq(kids[p], 1, at - 1) \in Seq(Component)
          /\ SubSeq(kids[p], at + 1, Len(kids[p])) \in Seq(Component)
      BY <3>3, <3>4
    <3>6. left \in Seq(Component)
      BY <3>5
    <3> QED
      BY <2>1, <2>3, <3>6
  <2> QED
    BY <2>2, <2>3, SMTT(40)
<1> QED
  BY <1>1, <1>2

\* The innermost frame goes, or is done with another part of its call, and
\* the one that a list is entered with may come after it.
LEMMA FramesKept ==
    ASSUME TreeInv, NEW g \in [Component -> Nat],
           \A c \in Component : got[c] <= g[c],
           frames # <<>>, NEW do \in {"own", "children", "next"},
           g[Top.at] > 0,
           NEW fs,
           \/ fs = Under
           \/ \E c \in Component : fs = Append(Under, [at |-> c, do |-> "call"])
           \/ fs = Append(Under, [Top EXCEPT !.do = do])
           \/ \E c \in Component :
                fs = Append(Append(Under, [Top EXCEPT !.do = do]),
                            [at |-> c, do |-> "call"])
    PROVE  fs \in Seq(Frame) /\ Reached(fs, g)
<1> DEFINE last == [Top EXCEPT !.do = do]
           Called(c) == [at |-> c, do |-> "call"]
<1>1. /\ Len(frames) \in Nat /\ Len(frames) > 0
      /\ Under \in Seq(Frame) /\ Len(Under) = Len(frames) - 1
      /\ \A i \in 1 .. Len(Under) : Under[i] = frames[i]
  <2>1. frames \in Seq(Frame) /\ Len(frames) \in Nat /\ Len(frames) > 0
    BY DEF TreeInv
  <2>2. Len(frames) - 1 \in 0 .. Len(frames)
    BY <2>1
  <2>3. \A k \in 0 .. Len(frames) :
          LET u == SubSeq(frames, 1, k)
          IN  u \in Seq(Frame) /\ Len(u) = k /\ \A i \in 1 .. k : u[i] = frames[i]
    BY <2>1, SubSeqProperties
  <2> QED
    BY <2>1, <2>2, <2>3 DEF Under
<1>2. Top \in Frame
  BY <1>1 DEF TreeInv, Top
<1>3. last \in Frame /\ last.at = Top.at /\ last.do = do
  BY <1>2 DEF Frame
<1>4. \A c \in Component : Called(c) \in Frame
  BY DEF Frame
<1>5. \A i \in 1 .. Len(Under) : Under[i].do # "call" /\ g[Under[i].at] > 0
  <2> SUFFICES ASSUME NEW i \in 1 .. Len(Under)
               PROVE  Under[i].do # "call" /\ g[Under[i].at] > 0
    OBVIOUS
  <2>1. /\ i \in 1 .. Len(frames) /\ i # Len(frames) /\ Under[i] = frames[i]
        /\ frames[i] \in Frame
    BY <1>1 DEF TreeInv
  <2>2. frames[i].do # "call" /\ got[frames[i].at] > 0
    BY <2>1 DEF TreeInv, Reached
  <2>3. frames[i].at \in Component
    BY <2>1 DEF Frame
  <2> QED
    BY <2>1, <2>2, <2>3 DEF TreeInv
<1> DEFINE two == Append(Under, last)
<1>6. /\ two \in Seq(Frame) /\ Len(two) = Len(frames)
      /\ \A i \in 1 .. Len(two) : two[i].do # "call" /\ g[two[i].at] > 0
  <2> HIDE DEF last
  <2> QED
    BY <1>1, <1>3, <1>5
<1> HIDE DEF last, two, Called
<1>7. CASE fs = Under
  BY <1>1, <1>5, <1>7 DEF Reached
<1>8. CASE fs = two
  BY <1>6, <1>8 DEF Reached
<1>9. ASSUME NEW c \in Component, fs = Append(Under, Called(c))
      PROVE  fs \in Seq(Frame) /\ Reached(fs, g)
  <2>1. Called(c).do = "call"
    BY DEF Called
  <2> QED
    BY <1>1, <1>4, <1>5, <1>9, <2>1, SMTT(40) DEF Reached
<1>10. ASSUME NEW c \in Component, fs = Append(two, Called(c))
       PROVE  fs \in Seq(Frame) /\ Reached(fs, g)
  <2>1. Called(c).do = "call"
    BY DEF Called
  <2> QED
    BY <1>1, <1>4, <1>6, <1>10, <2>1 DEF Reached
<1> QED
  BY <1>7, <1>8, <1>9, <1>10 DEF two, last, Called

\* What a list is entered with, behind the frame of the component that has it.
LEMMA Entered ==
    ASSUME NEW list \in Seq(Component), NEW fs \in Seq(Frame), NEW f \in Frame
    PROVE  /\ fs \o <<f>> = Append(fs, f)
           /\ \/ Enter(list) = <<>> /\ Append(fs, f) \o Enter(list) = Append(fs, f)
              \/ \E c \in Component :
                   /\ Enter(list) = <<[at |-> c, do |-> "call"]>>
                   /\ Append(fs, f) \o Enter(list) =
                        Append(Append(fs, f), [at |-> c, do |-> "call"])
           /\ fs \o (<<f>> \o Enter(list)) = Append(fs, f) \o Enter(list)
           /\ fs \o <<f>> \o Enter(list) = Append(fs, f) \o Enter(list)
<1>1. fs \o <<f>> = Append(fs, f) /\ Append(fs, f) \in Seq(Frame)
  BY AppendIsConcat, AppendProperties
<1>2. CASE list = <<>>
  <2>1. Enter(list) = <<>>
    BY <1>2 DEF Enter
  <2> QED
    BY <1>1, <2>1
<1>3. CASE list # <<>>
  <2>1. Head(list) \in Component
    BY <1>3
  <2> DEFINE call == [at |-> Head(list), do |-> "call"]
  <2>2. call \in Frame
    BY <2>1 DEF Frame
  <2>3. Enter(list) = <<call>>
    BY <1>3 DEF Enter
  <2>4. Append(fs, f) \o <<call>> = Append(Append(fs, f), call)
    BY <1>1, <2>2, AppendIsConcat
  <2>5. fs \o (<<f>> \o <<call>>) = fs \o <<f>> \o <<call>>
    <3>1. <<f>> \in Seq(Frame) /\ <<call>> \in Seq(Frame)
      BY <2>2
    <3> QED
      BY <3>1, ConcatAssociative
  <2> QED
    BY <1>1, <2>1, <2>3, <2>4, <2>5
<1> QED
  BY <1>2, <1>3

\* A traversal begins with nothing called.
LEMMA StartEventKeeps ==
    ASSUME TreeInv, StartEvent
    PROVE  TreeInv'
<1>1. kids' = kids /\ got' = [c \in Component |-> 0]
  BY DEF StartEvent, shapeVars
<1>2. \/ frames' = <<>>
      \/ \E c \in Component : frames' = <<[at |-> c, do |-> "call"]>>
  <2>1. frames' = <<>> \/ frames' = Enter(kids[Root])
    BY DEF StartEvent
  <2>2. kids[Root] \in Seq(Component)
    BY DEF TreeInv, Tree
  <2> QED
    BY <2>1, <2>2 DEF Enter
<1>3. frames' \in Seq(Frame) /\ Reached(frames', got')
  <2>1. CASE frames' = <<>>
    BY <2>1 DEF Reached
  <2>2. ASSUME NEW f, f \in Frame, f.do = "call", frames' = <<f>>
        PROVE  frames' \in Seq(Frame) /\ Reached(frames', got')
    BY <2>2 DEF Reached
  <2>3. \A c \in Component : /\ [at |-> c, do |-> "call"] \in Frame
                             /\ [at |-> c, do |-> "call"].do = "call"
    BY DEF Frame
  <2> QED
    BY <1>2, <2>1, <2>2, <2>3
<1> QED
  BY <1>1, <1>3 DEF TreeInv

LEMMA CallComponentKeeps ==
    ASSUME TreeInv, CallComponent
    PROVE  TreeInv'
<1>1. /\ frames # <<>> /\ kids' = kids
      /\ got' = [got EXCEPT ![Top.at] = @ + 1]
  BY DEF CallComponent, shapeVars
<1>2. Top \in Frame /\ Under \in Seq(Frame)
  BY <1>1 DEF TreeInv, Top, Under
<1>3. Top.at \in Component
  BY <1>2 DEF Frame
<1>4. /\ got' \in [Component -> Nat] /\ got'[Top.at] > 0
      /\ \A c \in Component : got[c] <= got'[c]
  BY <1>1, <1>3 DEF TreeInv
<1> DEFINE last(do) == [Top EXCEPT !.do = do]
<1>5. last("own") \in Frame /\ last("children") \in Frame
  BY <1>2 DEF Frame
<1> HIDE DEF last
<1>6. kids[Top.at] \in Seq(Component)
  BY <1>3, SMTT(40) DEF TreeInv, Tree
<1>7. \/ frames' = Append(Under, last("own"))
      \/ frames' = Append(Under, last("children"))
      \/ \E c \in Component :
           frames' = Append(Append(Under, last("children")),
                            [at |-> c, do |-> "call"])
  <2>1. \/ frames' = Under \o <<last("own")>>
        \/ frames' = Under \o (<<last("children")>> \o Enter(kids[Top.at]))
    BY DEF CallComponent, last
  <2>2. Under \o <<last("own")>> = Append(Under, last("own"))
    BY <1>2, <1>5, AppendIsConcat
  <2> DEFINE two == Append(Under, last("children"))
  <2>3. /\ Under \o (<<last("children")>> \o Enter(kids[Top.at]))
             = two \o Enter(kids[Top.at])
        /\ \/ two \o Enter(kids[Top.at]) = two
           \/ \E c \in Component :
                two \o Enter(kids[Top.at]) = Append(two, [at |-> c, do |-> "call"])
    BY <1>2, <1>5, <1>6, Entered, Zenon
  <2> QED
    BY <2>1, <2>2, <2>3
<1>8. frames' \in Seq(Frame) /\ Reached(frames', got')
  BY <1>1, <1>4, <1>7, FramesKept DEF last
<1> QED
  BY <1>1, <1>4, <1>8 DEF TreeInv

\* The frame on top has called its component.
LEMMA TopHasCalled ==
    ASSUME TreeInv, frames # <<>>, Top.do # "call"
    PROVE  /\ Top \in Frame /\ Under \in Seq(Frame) /\ Top.at \in Component
           /\ got[Top.at] > 0 /\ \A c \in Component : got[c] <= got[c]
<1>1. Top \in Frame /\ Under \in Seq(Frame)
  BY DEF TreeInv, Top, Under
<1>2. Top.at \in Component
  BY <1>1 DEF Frame
<1>3. Len(frames) \in 1 .. Len(frames)
  BY DEF TreeInv
<1>4. got[Top.at] > 0
  BY <1>3 DEF TreeInv, Reached, Top
<1> QED
  BY <1>1, <1>2, <1>4 DEF TreeInv

LEMMA OwnCallbackKeeps ==
    ASSUME TreeInv, OwnCallback
    PROVE  TreeInv'
<1>1. /\ frames # <<>> /\ Top.do # "call" /\ got' = got
      /\ frames' = Append(Under, [Top EXCEPT !.do = "children"])
  BY DEF OwnCallback
<1>2. frames' \in Seq(Frame) /\ Reached(frames', got)
  BY <1>1, TopHasCalled, FramesKept DEF TreeInv
<1>3. kids' \in [Tree -> Seq(Component)]
  <2>1. CASE \E p \in Tree, c \in Component :
               DelComponent(p, c) \/ \E id : AddComponent(p, c, id)
    BY <2>1, ShapeKept DEF TreeInv
  <2>2. CASE kids' = kids
    BY <2>2 DEF TreeInv
  <2>3. \/ kids' = kids
        \/ \E p \in Tree, c \in Component :
             DelComponent(p, c) \/ \E id : AddComponent(p, c, id)
    BY DEF OwnCallback, shapeVars
  <2> QED
    BY <2>1, <2>2, <2>3
<1> QED
  BY <1>1, <1>2, <1>3 DEF TreeInv

LEMMA RecurseToChildrenKeeps ==
    ASSUME TreeInv, RecurseToChildren
    PROVE  TreeInv'
<1> DEFINE last == [Top EXCEPT !.do = "next"]
<1>1. /\ frames # <<>> /\ Top.do # "call" /\ got' = got /\ kids' = kids
      /\ frames' = Under \o <<last>> \o Enter(kids[Top.at])
  BY DEF RecurseToChildren, shapeVars
<1>2. Top \in Frame /\ Under \in Seq(Frame) /\ kids[Top.at] \in Seq(Component)
  BY <1>1, TopHasCalled DEF TreeInv, Tree
<1>3. last \in Frame
  BY <1>2, SMTT(40) DEF Frame
<1> HIDE DEF last
<1>4. \/ frames' = Append(Under, last)
      \/ \E c \in Component :
           frames' = Append(Append(Under, last), [at |-> c, do |-> "call"])
  <2> DEFINE two == Append(Under, last)
  <2>1. /\ Under \o <<last>> \o Enter(kids[Top.at]) = two \o Enter(kids[Top.at])
        /\ \/ two \o Enter(kids[Top.at]) = two
           \/ \E c \in Component :
                two \o Enter(kids[Top.at]) = Append(two, [at |-> c, do |-> "call"])
    BY <1>2, <1>3, Entered, Zenon
  <2> QED
    BY <1>1, <2>1
<1>5. frames' \in Seq(Frame) /\ Reached(frames', got)
  BY <1>1, <1>4, TopHasCalled, FramesKept DEF TreeInv, last
<1> QED
  BY <1>1, <1>5 DEF TreeInv

LEMMA NextNodeKeeps ==
    ASSUME TreeInv, NextNode
    PROVE  TreeInv'
<1> DEFINE p == CHOOSE q \in Tree : In(Top.at, kids[q])
           i == CHOOSE j \in 1 .. Len(kids[p]) : kids[p][j] = Top.at
<1>1. /\ frames # <<>> /\ Top.do # "call" /\ got' = got /\ kids' = kids
      /\ frames' = IF ~ Linked2(Top.at) \/ i = Len(kids[p]) THEN Under
                   ELSE Append(Under, [at |-> kids[p][i + 1], do |-> "call"])
  BY DEF NextNode, shapeVars
<1>2. \/ frames' = Under
      \/ \E c \in Component : frames' = Append(Under, [at |-> c, do |-> "call"])
  <2>1. CASE ~ Linked2(Top.at) \/ i = Len(kids[p])
    BY <1>1, <2>1
  <2>2. CASE Linked2(Top.at) /\ i # Len(kids[p])
    <3>1. \E q \in Tree : In(Top.at, kids[q])
      BY <2>2 DEF Linked2
    <3>2. p \in Tree /\ In(Top.at, kids[p])
      BY <3>1, Zenon
    <3>3. \E j \in 1 .. Len(kids[p]) : kids[p][j] = Top.at
      BY <3>2 DEF In
    <3> HIDE DEF p
    <3>4. i \in 1 .. Len(kids[p])
      BY <3>3, Zenon
    <3> HIDE DEF i
    <3>5. kids[p] \in Seq(Component)
      BY <3>2 DEF TreeInv
    <3>6. kids[p][i + 1] \in Component
      BY <2>2, <3>4, <3>5
    <3> QED
      BY <1>1, <2>2, <3>6
  <2> QED
    BY <2>1, <2>2
<1>3. frames' \in Seq(Frame) /\ Reached(frames', got)
  BY <1>1, <1>2, TopHasCalled, FramesKept DEF TreeInv
<1> QED
  BY <1>1, <1>3 DEF TreeInv

LEMMA TreeInvNext == TreeInv /\ [TreeNext]_treeVars => TreeInv'
<1> SUFFICES ASSUME TreeInv, [TreeNext]_treeVars
             PROVE  TreeInv'
  OBVIOUS
<1>1. CASE Build
  <2>1. frames' = frames /\ got' = got
    BY <1>1 DEF Build
  <2>2. \E p \in Tree, c \in Component :
          DelComponent(p, c) \/ \E id : AddComponent(p, c, id)
    BY <1>1 DEF Build
  <2>3. kids' \in [Tree -> Seq(Component)]
    BY <2>2, ShapeKept DEF TreeInv
  <2> QED
    BY <2>1, <2>3 DEF TreeInv
<1>2. CASE UNCHANGED treeVars
  BY <1>2 DEF TreeInv, treeVars
<1> QED
  BY <1>1, <1>2, StartEventKeeps, CallComponentKeeps, OwnCallbackKeeps,
     RecurseToChildrenKeeps, NextNodeKeeps DEF TreeNext

\* Whatever callbacks do to the tree, a component is called only after the one
\* it was under: every frame below the innermost has called its component.
THEOREM ParentsFirst == TreeSpec => ParentFirst
<1>1. TreeInv => (CallComponent =>
                    \A i \in 1 .. Len(frames) - 1 : got[frames[i].at] > 0)
  <2> SUFFICES ASSUME TreeInv, NEW i \in 1 .. Len(frames) - 1
               PROVE  got[frames[i].at] > 0
    OBVIOUS
  <2>1. i \in 1 .. Len(frames) /\ i # Len(frames)
    BY DEF TreeInv
  <2> QED
    BY <2>1 DEF TreeInv, Reached
<1> QED
  BY <1>1, TreeInvInit, TreeInvNext, PTL DEF TreeSpec, ParentFirst

=============================================================================

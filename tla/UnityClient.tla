------------------------------ MODULE UnityClient ------------------------------
(***************************************************************************)
(* MintUnityClient's TCPClient: the game's thread, the heartbeat thread    *)
(* and the callback that finishes connecting.  Both threads number their   *)
(* packets with one counter and build them in one buffer, unlocked.  (Its  *)
(* receiving is in PacketStream.)                                          *)
(***************************************************************************)
EXTENDS Naturals, Sequences

CONSTANTS
  AlivePeriod,          \* the 30 rounds of one second without a packet
  TestMax,              \* bound: rounds of OnTest_Send_C2S_Message
  AliveMax              \* bound: heartbeats sent

ASSUME UnityAssumption == AlivePeriod \in Nat \ {0} /\ {TestMax, AliveMax} \subseteq Nat

SendingThread == {"game", "alive"}
BufferPart == 1 .. 4

VARIABLES
  TheSocket,            \* "null", "connecting", "connected" or "closed"
  TheWriter,            \* it is not null
  connectFinish,        \* the callback: "none", "pending", "streams", "done" or
                        \* "thrown"
  C2S_Number,           \* Client.C2S_PacketOrderNumber
  SendPacketBuffer,
  SendPacketBufferUseLength,
  AlivePacketTimer,
  AliveThreadProcRunFlag,
  FirstNamePacketFlag,
  gameStep,             \* "start", "run" or "quit"
  toSend,               \* types of packet a thread has still to send in this round
  making,               \* the packet it is making and the step it is at
  tests, alives,        \* rounds of each thread that have sent
  writes, lastWrite,    \* how often Write has written, and what
  overlapped,           \* a thread made a packet while the other did
  unconnected           \* a packet was dropped before the streams were there

unityVars == <<TheSocket, TheWriter, connectFinish, C2S_Number,
  SendPacketBuffer, SendPacketBufferUseLength, AlivePacketTimer,
  AliveThreadProcRunFlag, FirstNamePacketFlag, gameStep, toSend, making, tests,
  alives, writes, lastWrite, overlapped, unconnected>>
socketVars == <<TheSocket, TheWriter, connectFinish>>
bufferVars == <<SendPacketBuffer, SendPacketBufferUseLength>>
roundVars == <<AliveThreadProcRunFlag, FirstNamePacketFlag, gameStep, tests,
  alives>>
serverVars == <<writes, lastWrite>>
ghostVars == <<overlapped, unconnected>>

None == [type |-> "none", num |-> 0, at |-> "idle", parts |-> 0]

UnityInit ==
  /\ TheSocket = "null" /\ TheWriter = FALSE /\ connectFinish = "none"
  /\ C2S_Number = 0
  /\ SendPacketBuffer = [i \in BufferPart |-> <<>>]
  /\ SendPacketBufferUseLength = 0
  /\ AlivePacketTimer = 0 /\ AliveThreadProcRunFlag = TRUE
  /\ FirstNamePacketFlag = FALSE
  /\ gameStep = "start"
  /\ toSend = [t \in SendingThread |-> <<>>]
  /\ making = [t \in SendingThread |-> None]
  /\ tests = 0 /\ alives = 0 /\ writes = 0 /\ lastWrite = <<>>
  /\ overlapped = FALSE /\ unconnected = FALSE

-----------------------------------------------------------------------------
(* Connecting and closing. *)

\* Start creates the heartbeat thread first; ConnectToServer may throw.
StartAndConnect ==
  /\ gameStep = "start"
  /\ gameStep' = "run"
  /\ TheSocket' = "connecting"
  /\ connectFinish' \in {"pending", "none"}
  /\ UNCHANGED <<TheWriter, C2S_Number, bufferVars, AlivePacketTimer,
       AliveThreadProcRunFlag, FirstNamePacketFlag, toSend, making, tests, alives,
       serverVars, ghostVars>>

\* EndConnect succeeds, fails, or finds the socket closed, which is not the
\* exception that is caught.
EndConnect ==
  /\ connectFinish = "pending"
  /\ \/ /\ TheSocket = "connecting"
        /\ TheSocket' = "connected" /\ connectFinish' = "streams"
     \/ TheSocket = "connecting" /\ connectFinish' = "none" /\ UNCHANGED TheSocket
     \/ TheSocket = "closed" /\ connectFinish' = "thrown" /\ UNCHANGED TheSocket
  /\ UNCHANGED <<TheWriter, C2S_Number, bufferVars, AlivePacketTimer, roundVars,
       toSend, making, serverVars, ghostVars>>

\* GetStream, which throws when the socket has been closed, and the writer.
MakeStreams ==
  /\ connectFinish = "streams"
  /\ connectFinish' = IF TheSocket = "connected" THEN "done" ELSE "thrown"
  /\ TheWriter' = (TheSocket = "connected")
  /\ UNCHANGED <<TheSocket, C2S_Number, bufferVars, AlivePacketTimer, roundVars,
       toSend, making, serverVars, ghostVars>>

\* OnApplicationQuit, between two rounds of the game's thread.
CloseSocket ==
  /\ gameStep = "run" /\ making["game"] = None /\ toSend["game"] = <<>>
  /\ gameStep' = "quit"
  /\ AliveThreadProcRunFlag' = FALSE
  /\ TheSocket' = "closed"
  /\ UNCHANGED <<TheWriter, connectFinish, C2S_Number, bufferVars,
       AlivePacketTimer, FirstNamePacketFlag, toSend, making, tests, alives, serverVars,
       ghostVars>>

-----------------------------------------------------------------------------
(* Making and sending packets. *)

\* Every 1.5 s: a name the first time, and two messages.
OnTest_Send_C2S_Message ==
  /\ gameStep = "run" /\ making["game"] = None /\ toSend["game"] = <<>>
  /\ tests < TestMax
  /\ tests' = tests + 1
  /\ FirstNamePacketFlag' = TRUE
  /\ toSend' = [toSend EXCEPT !["game"] =
       (IF FirstNamePacketFlag THEN <<>> ELSE <<"C2S_NAME">>)
         \o <<"C2S_MESSAGE", "C2S_MESSAGE_2">>]
  /\ UNCHANGED <<socketVars, C2S_Number, bufferVars, AlivePacketTimer,
       AliveThreadProcRunFlag, gameStep, alives, making, serverVars, ghostVars>>

\* A round of the heartbeat thread, which Start has created.
OnAliveThreadProc ==
  /\ gameStep # "start" /\ AliveThreadProcRunFlag
  /\ making["alive"] = None /\ toSend["alive"] = <<>>
  /\ TheSocket = "connected"
  /\ IF AlivePacketTimer + 1 >= AlivePeriod
     THEN /\ alives < AliveMax
          /\ alives' = alives + 1
          /\ toSend' = [toSend EXCEPT !["alive"] = <<"C2S_ALIVE">>]
     ELSE UNCHANGED <<alives, toSend>>
  /\ AlivePacketTimer' = IF AlivePacketTimer < AlivePeriod
                         THEN AlivePacketTimer + 1 ELSE AlivePacketTimer
  /\ UNCHANGED <<socketVars, C2S_Number, bufferVars, AliveThreadProcRunFlag,
       FirstNamePacketFlag, gameStep, tests, making, serverVars, ghostVars>>

\* Send_C2S_Alive, _Name, _Message and _Message_2, up to the packet's number.
SendC2SPacket(t) ==
  /\ making[t] = None /\ toSend[t] # <<>>
  /\ toSend' = [toSend EXCEPT ![t] = Tail(@)]
  /\ C2S_Number' = C2S_Number + 1
  /\ making' = [making EXCEPT ![t] =
       [type |-> Head(toSend[t]), num |-> C2S_Number + 1, at |-> "make",
        parts |-> 0]]
  /\ overlapped' = (overlapped \/ \E u \in SendingThread : making[u] # None)
  /\ UNCHANGED <<socketVars, bufferVars, AlivePacketTimer, roundVars, serverVars,
       unconnected>>

\* A packet's parts: length, type, number and, but for ALIVE, its text.
PartsOf(type) == IF type = "C2S_ALIVE" THEN 3 ELSE 4
Part(p, i) == <<p.type, p.num, i>>

MakeSendPacketBuffer(t) ==
  LET p == making[t]
      end == SendPacketBufferUseLength + 1
  IN  /\ p.at = "make" /\ p.parts < PartsOf(p.type)
      /\ IF end \in BufferPart
         THEN /\ SendPacketBuffer' = [SendPacketBuffer EXCEPT
                                        ![end] = Part(p, p.parts + 1)]
              /\ SendPacketBufferUseLength' = end
         ELSE UNCHANGED bufferVars
      /\ making' = [making EXCEPT ![t].parts = @ + 1]
      /\ UNCHANGED <<socketVars, C2S_Number, AlivePacketTimer, roundVars, toSend,
           serverVars, ghostVars>>

\* Mutant of SendPacket: the buffer's length is not reset.
SendPacketKeeps(t) ==
  LET p == making[t]
  IN  /\ p.at = "make" /\ p.parts = PartsOf(p.type)
      /\ IF TheSocket # "connected" \/ ~TheWriter
         THEN /\ making' = [making EXCEPT ![t] = None]
              /\ unconnected' = (unconnected \/ TheSocket # "closed")
         ELSE /\ making' = [making EXCEPT ![t].at = "write",
                              ![t].parts = SendPacketBufferUseLength]
              /\ UNCHANGED unconnected
      /\ UNCHANGED <<socketVars, C2S_Number, bufferVars, AlivePacketTimer,
           roundVars, toSend, serverVars, overlapped>>

\* The length is passed by value; the buffer is the shared one.
SendPacket(t) ==
  LET p == making[t]
  IN  /\ p.at = "make" /\ p.parts = PartsOf(p.type)
      /\ SendPacketBufferUseLength' = 0
      /\ IF TheSocket # "connected" \/ ~TheWriter
         THEN /\ making' = [making EXCEPT ![t] = None]
              /\ unconnected' = (unconnected \/ TheSocket # "closed")
         ELSE /\ making' = [making EXCEPT ![t].at = "write",
                              ![t].parts = SendPacketBufferUseLength]
              /\ UNCHANGED unconnected
      /\ UNCHANGED <<socketVars, C2S_Number, SendPacketBuffer, AlivePacketTimer,
           roundVars, toSend, serverVars, overlapped>>

\* Write throws when the socket has been closed.
WritePacket(t) ==
  /\ making[t].at = "write"
  /\ making' = [making EXCEPT ![t] = None]
  /\ IF TheSocket = "connected"
     THEN /\ writes' = writes + 1
          /\ lastWrite' = SubSeq(SendPacketBuffer, 1, making[t].parts)
          /\ AlivePacketTimer' = 0
     ELSE UNCHANGED <<serverVars, AlivePacketTimer>>
  /\ UNCHANGED <<socketVars, C2S_Number, bufferVars, roundVars, toSend, ghostVars>>

Sends(t) ==
  SendC2SPacket(t) \/ MakeSendPacketBuffer(t) \/ SendPacket(t) \/ WritePacket(t)

UnityNext ==
  \/ StartAndConnect \/ EndConnect \/ MakeStreams \/ CloseSocket
  \/ OnTest_Send_C2S_Message \/ OnAliveThreadProc
  \/ \E t \in SendingThread : Sends(t)

UnitySpec ==
  /\ UnityInit /\ [][UnityNext]_unityVars
  /\ \A t \in SendingThread : WF_unityVars(Sends(t))

-----------------------------------------------------------------------------
\* Unless the two threads made packets at the same time or a packet was made
\* before the connection was up, each Write is one whole packet, numbered as
\* the server expects it, whichever thread wrote it.
WholeAndNumbered ==
  overlapped \/ unconnected \/ writes = 0 \/
    LET type == lastWrite[1][1]
    IN  lastWrite = [k \in 1 .. PartsOf(type) |-> <<type, writes, k>>]

\* After CloseSocket the heartbeat thread ends, also from inside a packet.
AliveThreadEnded ==
  gameStep = "quit" => /\ ~AliveThreadProcRunFlag
                       /\ making["alive"] = None /\ toSend["alive"] = <<>>
=============================================================================

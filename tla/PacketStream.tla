----------------------------- MODULE PacketStream -----------------------------
(***************************************************************************)
(* How packets cross a byte stream: the sending loop SendEx, which may     *)
(* give up in the middle of a packet, and the three receiving loops, that  *)
(* of the server, of MintClient and of the Unity client, any of which may  *)
(* find only a part of a packet.  A packet's first PACKET_LENGTH_SIZE      *)
(* bytes are its length; a byte is the number of its packet and its place. *)
(***************************************************************************)
EXTENDS Integers, Sequences

CONSTANTS
  PacketLengths,        \* the lengths packets may have
  PacketBufferMax,      \* the bytes of a receiver's buffer
  PacketMax,            \* bound: packets sent
  WireMax,              \* bound: bytes the two socket buffers hold
  RetryMax              \* send_retry_max and recv_retry_max, 5000

PACKET_LENGTH_SIZE == 2

ASSUME StreamAssumption ==
  /\ PacketBufferMax \in Nat /\ PACKET_LENGTH_SIZE <= PacketBufferMax
  /\ PacketLengths \subseteq PACKET_LENGTH_SIZE .. PacketBufferMax
  /\ WireMax \in Nat \ {0} /\ RetryMax \in Nat \ {0}

VARIABLES
  receiver,             \* which of the receiving loops
  lengths,              \* of the packets given to SendEx so far
  sendLeft, sendRetry,  \* send_packet_max and send_retry_count
  sendOpen,
  wire,                 \* bytes sent and not yet received
  recvAt,               \* the phase the receiver is in; "idle" between calls,
                        \* "overrun" once it has written behind its buffer
  recvBuffer,           \* the bytes of the packet under way
  recvLeft,             \* recv_packet_max, RecvPacketLength
  recvRetry,
  readContinue,         \* ReadPacket_ContinueReadFlag
  recvUp,               \* no receiving call has failed yet
  nodesTaken,            \* the server's nodes taken and not freed
  received,             \* the packets handed on
  whole,                \* the packets that were sent whole
  cut                   \* the sender gave up inside a packet

sendVars == <<lengths, sendLeft, sendRetry, sendOpen, whole, cut>>
recvVars == <<recvAt, recvBuffer, recvLeft, recvRetry, readContinue, recvUp,
              nodesTaken, received>>
streamVars == <<receiver, sendVars, wire, recvVars>>

StreamInit ==
  /\ receiver \in {"server", "client", "unity"}
  /\ lengths = <<>> /\ sendLeft = 0 /\ sendRetry = 0 /\ sendOpen = TRUE
  /\ wire = <<>>
  /\ recvAt = "idle" /\ recvBuffer = <<>> /\ recvLeft = PACKET_LENGTH_SIZE
  /\ recvRetry = 0 /\ readContinue = FALSE /\ recvUp = TRUE
  /\ nodesTaken = 0 /\ received = <<>>
  /\ whole = <<>> /\ cut = FALSE

Min2(a, b) == IF a < b THEN a ELSE b

-----------------------------------------------------------------------------
(* The sender. *)

NewPacket(n) == [k \in 1 .. n |-> [packet |-> Len(lengths), at |-> k]]
Unsent ==
  LET n == lengths[Len(lengths)] IN SubSeq(NewPacket(n), n - sendLeft + 1, n)

SendEx(n) ==
  /\ sendOpen /\ sendLeft = 0 /\ Len(lengths) < PacketMax
  /\ lengths' = Append(lengths, n)
  /\ sendLeft' = n /\ sendRetry' = 0
  /\ UNCHANGED <<receiver, sendOpen, whole, cut, wire, recvVars>>

\* send takes some of the bytes.
SendSome ==
  /\ sendLeft > 0
  /\ \E k \in 1 .. Min2(sendLeft, WireMax - Len(wire)) :
       /\ wire' = wire \o SubSeq(Unsent, 1, k)
       /\ sendLeft' = sendLeft - k
       /\ whole' = IF k = sendLeft THEN Append(whole, Len(lengths)) ELSE whole
  /\ UNCHANGED <<receiver, lengths, sendRetry, sendOpen, cut, recvVars>>

\* WSAEWOULDBLOCK; at last the rest of the packet is given up, and the caller
\* goes on as if it had been sent.
SendBlocked ==
  /\ sendLeft > 0 /\ Len(wire) = WireMax
  /\ sendRetry' = sendRetry + 1
  /\ IF sendRetry + 1 < RetryMax
     THEN UNCHANGED <<sendLeft, cut>>
     ELSE /\ sendLeft' = 0
          /\ cut' = (cut \/ sendLeft < lengths[Len(lengths)])
  /\ UNCHANGED <<receiver, lengths, sendOpen, whole, wire, recvVars>>

SenderCloses ==
  /\ sendOpen
  /\ sendOpen' = FALSE /\ sendLeft' = 0
  /\ UNCHANGED <<receiver, lengths, sendRetry, whole, cut, wire, recvVars>>

-----------------------------------------------------------------------------
(* The receivers. *)

\* What the first bytes of the buffer say.  When they are no packet's they may
\* say anything: too little for a packet, or more than the buffer holds.
PacketLengthIn(buf) ==
  IF /\ Len(buf) >= PACKET_LENGTH_SIZE
     /\ \A k \in 1 .. PACKET_LENGTH_SIZE :
          buf[k] = [packet |-> buf[1].packet, at |-> k]
  THEN {lengths[buf[1].packet]}
  ELSE PacketLengths \cup {0, PacketBufferMax + 1}

\* A call wants bytes.
Wanting == recvAt \in {"length", "content"} /\ recvLeft > 0
BufferRoom == PacketBufferMax - Len(recvBuffer)

\* ReceiveEx, after select: a node of its own and a packet from the start.
ServerReceiveEx ==
  /\ receiver = "server" /\ recvUp /\ recvAt = "idle"
  /\ wire # <<>> \/ ~sendOpen
  /\ recvAt' = "length"
  /\ recvBuffer' = <<>> /\ recvLeft' = PACKET_LENGTH_SIZE /\ recvRetry' = 0
  /\ nodesTaken' = nodesTaken + 1
  /\ UNCHANGED <<receiver, sendVars, wire, readContinue, recvUp, received>>

\* RecvEx, in every round of the chat loop: where the last call left off.
ClientRecvEx ==
  /\ receiver = "client" /\ recvUp /\ recvAt = "idle"
  /\ recvAt' = "length" /\ recvRetry' = 0
  /\ UNCHANGED <<receiver, sendVars, wire, recvBuffer, recvLeft, readContinue,
                 recvUp, nodesTaken, received>>

\* OnReadPacket, when DataAvailable.
OnReadPacket ==
  /\ receiver = "unity" /\ recvAt = "idle" /\ wire # <<>>
  /\ recvAt' = IF readContinue THEN "content" ELSE "length"
  /\ UNCHANGED <<receiver, sendVars, wire, recvBuffer, recvLeft, recvRetry,
                 readContinue, recvUp, nodesTaken, received>>

\* recv, or Read, takes what there is, and no more than is wanted.  Read first
\* compares what is wanted with the room behind the index, recv does not.
ReceiveSome ==
  /\ Wanting /\ wire # <<>>
  /\ receiver = "unity" => recvLeft <= BufferRoom
  /\ LET k == Min2(recvLeft, Len(wire))
     IN  /\ k <= BufferRoom
         /\ recvBuffer' = recvBuffer \o SubSeq(wire, 1, k)
         /\ wire' = SubSeq(wire, k + 1, Len(wire))
         /\ recvLeft' = recvLeft - k
  /\ UNCHANGED <<receiver, sendVars, recvAt, recvRetry, readContinue, recvUp,
                 nodesTaken, received>>

\* recv puts bytes behind the buffer: nothing is known of the receiver from
\* here on.
ReceiveOverrun ==
  /\ receiver # "unity"
  /\ Wanting /\ wire # <<>>
  /\ Min2(recvLeft, Len(wire)) > BufferRoom
  /\ recvAt' = "overrun"
  /\ UNCHANGED <<receiver, sendVars, wire, recvBuffer, recvLeft, recvRetry,
                 readContinue, recvUp, nodesTaken, received>>

\* Read throws, the exception is caught and the method returns, with the flag
\* still up: so it ends from now on.
ReadRefused ==
  /\ receiver = "unity"
  /\ Wanting /\ recvLeft > BufferRoom
  /\ recvAt' = IF recvAt = "length" THEN "content" ELSE "idle"
  /\ UNCHANGED <<receiver, sendVars, wire, recvBuffer, recvLeft, recvRetry,
                 readContinue, recvUp, nodesTaken, received>>

ClearRecvPacketInfo ==
  recvBuffer' = <<>> /\ recvLeft' = PACKET_LENGTH_SIZE

\* The call returns false, and the caller closes the socket.
ReceiveFails ==
  /\ recvAt' = "idle" /\ recvUp' = FALSE
  /\ nodesTaken' = IF receiver = "server" THEN nodesTaken - 1 ELSE nodesTaken
  /\ IF receiver = "client" /\ recvAt = "length"
     THEN UNCHANGED <<recvBuffer, recvLeft>>
     ELSE ClearRecvPacketInfo
  /\ UNCHANGED <<receiver, sendVars, wire, recvRetry, readContinue, received>>

\* WSAEWOULDBLOCK.  The Unity client's Read blocks instead.
ReceiveBlocked ==
  /\ receiver # "unity"
  /\ Wanting /\ wire = <<>> /\ sendOpen
  /\ IF receiver = "client" /\ recvAt = "length"
     THEN /\ recvAt' = "idle"
          /\ UNCHANGED <<receiver, sendVars, wire, recvBuffer, recvLeft,
                         recvRetry, readContinue, recvUp, nodesTaken, received>>
     ELSE IF recvRetry + 1 < RetryMax
     THEN /\ recvRetry' = recvRetry + 1
          /\ UNCHANGED <<receiver, sendVars, wire, recvAt, recvBuffer, recvLeft,
                         readContinue, recvUp, nodesTaken, received>>
     ELSE ReceiveFails

ReceiveClosed ==
  /\ receiver # "unity"
  /\ Wanting /\ wire = <<>> /\ ~sendOpen
  /\ ReceiveFails

\* Read returns 0: the method returns, and after ReadPacket_Length the content
\* is still tried.
ReadClosed ==
  /\ receiver = "unity"
  /\ Wanting /\ recvLeft <= BufferRoom /\ wire = <<>> /\ ~sendOpen
  /\ recvAt' = IF recvAt = "length" THEN "content" ELSE "idle"
  /\ UNCHANGED <<receiver, sendVars, wire, recvBuffer, recvLeft, recvRetry,
                 readContinue, recvUp, nodesTaken, received>>

\* Mutant of LengthRead: the length is taken for that of the rest.
LengthReadWhole ==
  /\ recvAt = "length" /\ recvLeft = 0
  /\ recvAt' = "content" /\ readContinue' = (receiver = "unity")
  /\ recvLeft' \in PacketLengthIn(recvBuffer)
  /\ UNCHANGED <<receiver, sendVars, wire, recvBuffer, recvRetry, recvUp,
                 nodesTaken, received>>

LengthRead ==
  /\ recvAt = "length" /\ recvLeft = 0
  /\ recvAt' = "content" /\ readContinue' = (receiver = "unity")
  /\ \E n \in PacketLengthIn(recvBuffer) : recvLeft' = n - PACKET_LENGTH_SIZE
  /\ UNCHANGED <<receiver, sendVars, wire, recvBuffer, recvRetry, recvUp,
                 nodesTaken, received>>

\* The packet is handed on; the server drops one whose length is too small.
ContentRead ==
  /\ recvAt = "content" /\ recvLeft <= 0
  /\ recvAt' = "idle" /\ readContinue' = FALSE
  /\ IF receiver = "server" /\ recvLeft < 0
     THEN nodesTaken' = nodesTaken - 1 /\ UNCHANGED received
     ELSE received' = Append(received, recvBuffer) /\ UNCHANGED nodesTaken
  /\ ClearRecvPacketInfo
  /\ UNCHANGED <<receiver, sendVars, wire, recvRetry, recvUp>>

Receiving ==
  \/ ReceiveSome \/ ReceiveOverrun \/ ReadRefused \/ ReceiveBlocked
  \/ ReceiveClosed \/ ReadClosed \/ LengthRead \/ ContentRead

Sending == SendSome \/ SendBlocked

StreamNext ==
  \/ \E n \in PacketLengths : SendEx(n)
  \/ Sending \/ SenderCloses
  \/ ServerReceiveEx \/ ClientRecvEx \/ OnReadPacket
  \/ Receiving

StreamSpec ==
  /\ StreamInit /\ [][StreamNext]_streamVars
  /\ WF_streamVars(Sending) /\ WF_streamVars(Receiving)

-----------------------------------------------------------------------------
\* Unless a sender gave up inside a packet, what is handed on is what was sent
\* whole, packet for packet and in order, however the stream was cut up.
InStep ==
  ~cut => received = [i \in 1 .. Len(received) |->
                        [k \in 1 .. lengths[whole[i]] |->
                           [packet |-> whole[i], at |-> k]]]

\* The server's ReceiveEx keeps no node that it has not handed on, on any of
\* the ways out of it.
NoNodeKept ==
  receiver = "server" =>
    nodesTaken = Len(received) + IF recvAt = "idle" THEN 0 ELSE 1

\* No length is looked for in the bytes of another packet, and so no bytes are
\* put behind the buffer, unless a sender gave up inside a packet.
BufferKept == recvAt = "overrun" => cut

\* A receiving call returns, whatever the sender does: the retries are counted
\* over both phases.  The Unity client has none: a sender that gives up inside
\* a packet stops the game until it sends again.  What a receiver does that has
\* written behind its buffer nobody knows.
ReceiveEnded ==
  recvAt = "idle" \/ (cut /\ (receiver = "unity" \/ recvAt = "overrun"))

\* Packets come out of the byte stream as they went in, no node is lost, and
\* no buffer is too small.
StreamSafe == InStep /\ NoNodeKept /\ BufferKept
=============================================================================

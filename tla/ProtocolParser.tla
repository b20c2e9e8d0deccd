---------------------------- MODULE ProtocolParser ----------------------------
(***************************************************************************)
(* The byte parser of the serial protocol as a function of what it has     *)
(* collected and the next byte.  A frame is shortened to one byte per      *)
(* decision of the parser: SOF1, SOF2, version, payload length, checksum;  *)
(* a frame as the host sends it has no payload.  A byte carries its place  *)
(* in the line's history and whether it is as it was sent, and the CRC     *)
(* accepts exactly the bytes of one frame, all intact.  Payloads that hold *)
(* the start of a frame are left out.                                      *)
(***************************************************************************)
EXTENDS Naturals, Sequences

CONSTANT MaxPayload     (* PROTOCOL_MAX_PAYLOAD_SIZE *)

ASSUME ParserAssumption == MaxPayload \in Nat

FrameBytes == <<"sof1", "sof2", "version", "empty", "crc">>
FrameLen == Len(FrameBytes)
HeaderLen == 4

\* "long" is the longest length there is, read from a corrupted byte; "junk"
\* and the frame bytes are not lengths when they stand in its place.
Values == {"sof1", "sof2", "version", "empty", "crc", "long", "junk"}
PayloadLength(v) == IF v = "long" THEN MaxPayload ELSE 0
IsLength(v) == v \in {"empty", "long"}

\* The frame byte that is sent as the i-th of the line.
Place(i) == ((i - 1) % FrameLen) + 1
SentByte(i) == [id |-> i, value |-> FrameBytes[Place(i)], intact |-> TRUE]

\* The CRC covers everything but the two SOF bytes.
CrcMatches(q) ==
  /\ Len(q) = FrameLen
  /\ \A i \in 3..FrameLen : q[i].intact /\ q[i].id = q[3].id + (i - 3)
  /\ Place(q[3].id) = 3

FrameOf(q) == ((q[FrameLen].id - 1) \div FrameLen) + 1

Expected(q) == FrameLen + PayloadLength(q[HeaderLen].value)
Complete(q) == Len(q) >= HeaderLen /\ Len(q) >= Expected(q)

\* Faulty variant: an SOF1 behind an SOF1 is dropped with it.
HuntForgetting(q, b) ==
  IF q = <<>> THEN IF b.value = "sof1" THEN <<b>> ELSE <<>>
  ELSE IF b.value = "sof2" THEN Append(q, b) ELSE <<>>

\* The search for SOF1 SOF2: a second SOF1 keeps the first.
Hunt(q, b) ==
  IF q = <<>> THEN IF b.value = "sof1" THEN <<b>> ELSE <<>>
  ELSE IF b.value = "sof2" THEN Append(q, b)
  ELSE IF b.value = "sof1" THEN q ELSE <<>>

\* A version or a length that no frame has.
HeaderFault(q) ==
  \/ Len(q) = 3 /\ q[3].value # "version"
  \/ Len(q) = HeaderLen /\ ~IsLength(q[HeaderLen].value)

\* Faulty variant: a frame with a wrong checksum is kept and collected on.
CollectKeepingBadFrames(q) ==
  IF HeaderFault(q) THEN <<>>
  ELSE IF Complete(q) /\ CrcMatches(q) THEN <<>> ELSE q

\* What is left of q: nothing after a fault, and nothing once the frame is
\* complete, whether its checksum is right or wrong.
Collect(q) ==
  IF HeaderFault(q) \/ Complete(q) THEN <<>> ELSE q

ProcessByte(q, b) == IF Len(q) < 2 THEN Hunt(q, b) ELSE Collect(Append(q, b))

\* PROTOCOL_PARSE_FRAME_READY.
FrameReady(q, b) ==
  /\ Len(q) + 1 >= FrameLen
  /\ Len(q) + 1 = Expected(Append(q, b))
  /\ CrcMatches(Append(q, b))
===============================================================================

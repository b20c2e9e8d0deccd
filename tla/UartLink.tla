------------------------------- MODULE UartLink -------------------------------
(***************************************************************************)
(* A serial command from the wire to its execution.  USART1's circular DMA *)
(* writes the bytes into a ring; CommunicationTask polls the ring, parses  *)
(* the bytes and queues the frames; SensorTask executes one per cycle.  A  *)
(* line error aborts the DMA, and the error interrupt restarts it at the   *)
(* start of the ring, in the middle of a poll if it comes then.            *)
(*                                                                         *)
(* A poll is BspUart_TryReadByte: it reads the DMA's position, compares it *)
(* with the one read before, adds the difference to the pending count, and *)
(* takes one byte.  Bytes arrive, and errors strike, between any two of    *)
(* these.  Each byte taken is parsed at once: CommunicationTask drains its *)
(* ring buffer in the same run (64 bytes parsed, 32 received), so that     *)
(* buffer never overflows and never holds a byte between two runs.         *)
(***************************************************************************)
EXTENDS ProtocolParser, Integers

CONSTANTS
  Capacity,     (* BSP_UART_RX_DMA_CAPACITY                                *)
  QueueLimit,   (* RTOS_COMMAND_QUEUE_LENGTH                               *)
  MaxFrames,    (* bound: frames the host sends, one after the other       *)
  MaxFaults,    (* bound: line errors, and bytes changed without one       *)
  MaxOverrun    (* bound: bytes that arrive when the ring is full          *)

ASSUME LinkAssumption ==
  /\ Capacity \in Nat /\ Capacity > FrameLen
  /\ QueueLimit \in Nat \ {0} /\ MaxFrames \in Nat
  /\ MaxFaults \in Nat /\ MaxOverrun \in Nat

VARIABLES
  sent,         (* bytes that have been on the line                        *)
  faults,       (* how many of them were changed, or line errors           *)
  storage,      (* s_rx_dma_storage                                        *)
  dmaPos,       (* where the DMA writes next                               *)
  readIndex, lastWrite, pending,    (* s_rx_dma_...                        *)
  poll,         (* the step of TryReadByte that is next                    *)
  position,     (* its write_index                                         *)
  fresh,        (* its new_bytes                                           *)
  collected,    (* the parser's buffer                                     *)
  queue,        (* s_command_queue                                         *)
  (* History only: *)
  due,          (* the byte the reader has to deliver next                 *)
  overrun,      (* bytes that filled, or overfilled, the ring              *)
  raced,        (* an error struck inside a poll                           *)
  heard,        (* bytes of the present frame delivered to a parser that   *)
                (* was hunting when it began; 0 if it was not              *)
  quiet,        (* consecutive intact bytes delivered, up to ResyncBound   *)
  accepted,     (* the last frame that was parsed                          *)
  accounted     (* frames executed or refused by the full queue            *)

lineVars == <<sent, faults>>
readVars == <<readIndex, lastWrite, pending>>
pollVars == <<poll, position, fresh>>
parseVars == <<collected, heard, quiet, accepted>>
linkVars == <<lineVars, storage, dmaPos, readVars, pollVars, parseVars, queue,
              due, overrun, raced, accounted>>

Cells == 0..(Capacity - 1)
Bytes == [id : 0..(MaxFrames * FrameLen), value : Values, intact : BOOLEAN]
Empty == [id |-> 0, value |-> "junk", intact |-> FALSE]

\* The rest of a swallowed payload, the rest of the frame it ended in, and
\* one whole frame.
ResyncBound == (1 + MaxPayload) + (FrameLen - 1) + FrameLen

LinkInit ==
  /\ sent = 0 /\ faults = 0
  /\ storage = [c \in Cells |-> Empty] /\ dmaPos = 0
  /\ readIndex = 0 /\ lastWrite = 0 /\ pending = 0
  /\ poll = "idle" /\ position = 0 /\ fresh = 0
  /\ collected = <<>> /\ queue = <<>>
  /\ due = 1 /\ overrun = 0 /\ raced = FALSE
  /\ heard = 0 /\ quiet = 0 /\ accepted = 0 /\ accounted = {}

-------------------------------------------------------------------------------
\* The line.

Unread == sent + 1 - due

ByteArrives ==
  /\ sent < MaxFrames * FrameLen /\ sent' = sent + 1
  /\ \/ storage' = [storage EXCEPT ![dmaPos] = SentByte(sent')] /\ UNCHANGED faults
     \/ /\ faults < MaxFaults /\ faults' = faults + 1
        /\ \E v \in {"sof1", "long", "junk"} \ {FrameBytes[Place(sent')]} :
             storage' = [storage EXCEPT ![dmaPos] =
                           [id |-> sent', value |-> v, intact |-> FALSE]]
  /\ dmaPos' = (dmaPos + 1) % Capacity
  /\ overrun' = IF Unread + 1 >= Capacity THEN overrun + 1 ELSE overrun
  /\ overrun' <= MaxOverrun
  /\ UNCHANGED <<readVars, pollVars, parseVars, queue, due, raced, accounted>>

\* Faulty variant: the restart leaves the pending count alone.
RestartKeepingPending ==
  dmaPos' = 0 /\ readIndex' = 0 /\ lastWrite' = 0 /\ UNCHANGED pending

\* StartRxDma: the DMA begins at the start of the ring, and so does the reader.
Restart == dmaPos' = 0 /\ readIndex' = 0 /\ lastWrite' = 0 /\ pending' = 0

\* A framing error, say, in a byte that is lost; HAL_UART_ErrorCallback.
LineError ==
  /\ faults < MaxFaults /\ faults' = faults + 1
  /\ sent < MaxFrames * FrameLen /\ sent' = sent + 1
  /\ Restart
  /\ due' = sent' + 1
  /\ raced' = (raced \/ poll # "idle")
  /\ heard' = 0 /\ quiet' = 0
  /\ UNCHANGED <<storage, pollVars, collected, accepted, queue, overrun, accounted>>

-------------------------------------------------------------------------------
\* CommunicationTask.

ReadPosition ==
  /\ poll = "idle" /\ poll' = "compare" /\ position' = dmaPos
  /\ UNCHANGED <<lineVars, storage, dmaPos, readVars, fresh, parseVars, queue,
                 due, overrun, raced, accounted>>

\* Faulty variant: a position behind the last one counts as nothing new.
NewBytesUnwrapped == IF position >= lastWrite THEN position - lastWrite ELSE 0

NewBytes ==
  IF position >= lastWrite THEN position - lastWrite ELSE Capacity - lastWrite + position

ComparePosition ==
  /\ poll = "compare" /\ poll' = "count"
  /\ fresh' = NewBytes
  /\ lastWrite' = position
  /\ UNCHANGED <<lineVars, storage, dmaPos, readIndex, pending, position, parseVars,
                 queue, due, overrun, raced, accounted>>

\* Faulty variant: the oldest bytes are not skipped when the ring is full.
LostNever == 0

Lost == IF fresh > Capacity - pending THEN fresh - (Capacity - pending) ELSE 0

\* Faulty variant: the count is not bounded by the ring.
PendingUnbounded == pending + fresh

PendingAfter == IF pending + fresh > Capacity THEN Capacity ELSE pending + fresh

\* More than a ring full: the oldest bytes are given up.
CountPending ==
  /\ poll = "count" /\ poll' = "take"
  /\ readIndex' = (readIndex + Lost) % Capacity
  /\ pending' = PendingAfter
  /\ UNCHANGED <<lineVars, storage, dmaPos, lastWrite, position, fresh, parseVars,
                 queue, due, overrun, raced, accounted>>

NothingToTake ==
  /\ poll = "take" /\ pending = 0 /\ poll' = "idle" /\ position' = 0 /\ fresh' = 0
  /\ UNCHANGED <<lineVars, storage, dmaPos, readVars, parseVars, queue,
                 due, overrun, raced, accounted>>

InOrder(b) == b.id = due /\ b.intact

HeardAfter(b) ==
  IF ~InOrder(b) THEN 0
  ELSE IF Place(b.id) = 1 THEN IF Len(collected) < 2 THEN 1 ELSE 0
  ELSE IF heard > 0 /\ heard = Place(b.id) - 1 THEN heard + 1 ELSE 0

QuietAfter(b) ==
  IF ~InOrder(b) THEN 0 ELSE IF quiet < ResyncBound THEN quiet + 1 ELSE quiet

\* RtosObjects_EnqueueCommand; a full queue refuses, and nobody is told.
Enqueue(f) ==
  IF Len(queue) < QueueLimit
  THEN queue' = Append(queue, f) /\ UNCHANGED accounted
  ELSE accounted' = accounted \union {f} /\ UNCHANGED queue

TakeByte ==
  /\ poll = "take" /\ pending > 0 /\ poll' = "idle" /\ position' = 0 /\ fresh' = 0
  /\ LET b == storage[readIndex] IN
       /\ collected' = ProcessByte(collected, b)
       /\ heard' = HeardAfter(b) /\ quiet' = QuietAfter(b)
       /\ due' = IF b.id >= due THEN b.id + 1 ELSE due
       /\ IF FrameReady(collected, b)
          THEN /\ accepted' = FrameOf(Append(collected, b))
               /\ Enqueue(FrameOf(Append(collected, b)))
          ELSE UNCHANGED <<accepted, queue, accounted>>
  /\ readIndex' = (readIndex + 1) % Capacity /\ pending' = pending - 1
  /\ UNCHANGED <<lineVars, storage, dmaPos, lastWrite, overrun, raced>>

Poll == ReadPosition \/ ComparePosition \/ CountPending \/ NothingToTake \/ TakeByte

\* SensorTask's TryDequeueCommand, and the execution of what it got.
Execute ==
  /\ queue # <<>>
  /\ queue' = Tail(queue) /\ accounted' = accounted \union {Head(queue)}
  /\ UNCHANGED <<lineVars, storage, dmaPos, readVars, pollVars, parseVars,
                 due, overrun, raced>>

LinkNext == ByteArrives \/ LineError \/ Poll \/ Execute

\* Both tasks run every period.
LinkSpec == LinkInit /\ [][LinkNext]_linkVars
FairLinkSpec == LinkSpec /\ WF_linkVars(Poll) /\ WF_linkVars(Execute)

-------------------------------------------------------------------------------

LinkTypeOK ==
  /\ sent \in 0..(MaxFrames * FrameLen)
  /\ faults \in 0..MaxFaults
  /\ storage \in [Cells -> Bytes]
  /\ dmaPos \in Cells /\ readIndex \in Cells /\ lastWrite \in Cells
  /\ pending \in 0..Capacity
  /\ poll \in {"idle", "compare", "count", "take"}
  /\ position \in Cells /\ fresh \in Cells
  /\ \A i \in 1..Len(collected) : collected[i] \in Bytes
  /\ Len(collected) < FrameLen + MaxPayload
  /\ Len(queue) <= QueueLimit /\ \A i \in 1..Len(queue) : queue[i] \in 1..MaxFrames
  /\ due \in 1..(MaxFrames * FrameLen + 1)
  /\ overrun \in 0..MaxOverrun /\ raced \in BOOLEAN
  /\ heard \in 0..FrameLen /\ quiet \in 0..ResyncBound
  /\ accepted \in 0..MaxFrames /\ accounted \subseteq 1..MaxFrames

\* While fewer than a ring full of bytes wait and no error strikes inside a
\* poll, the reader delivers every byte once, in order, and after a line
\* error goes on with the first byte behind it: the ring is a FIFO although
\* reader and DMA share no lock and only compare positions.
DeliversInOrder ==
  poll = "take" /\ pending > 0 /\ overrun = 0 /\ ~raced => storage[readIndex].id = due

\* Even after an overrun the reader is in step with the DMA again: between
\* two polls what it counts as pending ends where it last saw the DMA.
StaysInStep ==
  poll = "idle" /\ ~raced => (readIndex + pending) % Capacity = lastWrite

\* A parser that is hunting, or holds a lone SOF1, when an intact frame
\* begins accepts that frame, whatever garbage came before.
HuntingParserHears == heard = FrameLen => accepted = (due - 1) \div FrameLen

\* A corrupted length swallows what follows, but only so much: the first
\* whole frame behind ResyncBound - FrameLen good bytes is accepted.
ResyncIsBounded ==
  quiet = ResyncBound /\ Place(due - 1) = FrameLen /\ poll = "idle"
    => accepted = (due - 1) \div FrameLen

\* On an undisturbed line every frame that was sent is, in the end, executed
\* or refused by the full queue: no byte and no frame is left lying.
EverythingIsServed ==
  (sent = MaxFrames * FrameLen /\ faults = 0) ~>
    (accounted = 1..MaxFrames \/ overrun > 0)

\* "HAL aborts the channel after a DMA reception error; circular reception is
\* resumed at once, so that the link does not fail for good": the comment in
\* HAL_UART_ErrorCallback.  A reader that has taken all it knows of will take
\* the next byte from where the DMA writes it.
ReceptionIsResumed == poll = "idle" /\ pending = 0 => readIndex = lastWrite
===============================================================================

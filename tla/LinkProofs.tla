------------------------------ MODULE LinkProofs ------------------------------
(***************************************************************************)
(* Reception, for every size of the ring and of the queue, every longest   *)
(* payload and any number of bytes, errors and overruns: the reader stays  *)
(* in step with the DMA and delivers the bytes in order; the parser hears  *)
(* a frame that begins while it hunts, and is soon hunting again after     *)
(* whatever was on the line.                                               *)
(***************************************************************************)
EXTENDS UartLink, TLAPS

\* What % means, in a form that needs no further reasoning about division.
LEMMA ModOf ==
  ASSUME NEW m \in Nat \ {0}, NEW q \in Int, NEW r \in 0..(m - 1)
  PROVE  (m * q + r) % m = r
<1> DEFINE n == m * q + r
<1>1. n \in Int
  OBVIOUS
<1>2. n = m * (n \div m) + (n % m) /\ n % m \in 0..(m - 1) /\ n \div m \in Int
  BY <1>1, Z3
<1>3. m * (q - n \div m) = (n % m) - r
  BY <1>2
<1>4. q - n \div m = 0
  <2> DEFINE k == q - n \div m
  <2>1. k \in Int /\ m * k = (n % m) - r
    BY <1>2, <1>3
  <2> HIDE DEF k, n
  <2>2. ASSUME k >= 1 PROVE FALSE
    <3>1. m * k >= m * 1
      BY <2>1, <2>2
    <3>2. QED
      BY <1>2, <2>1, <3>1
  <2>3. ASSUME k <= -1 PROVE FALSE
    <3>1. m * k <= m * (-1)
      BY <2>1, <2>3
    <3>2. QED
      BY <1>2, <2>1, <3>1
  <2>4. QED
    BY <2>1, <2>2, <2>3 DEF k
<1> QED
  BY <1>2, <1>4

\* A remainder may be taken on the way.
LEMMA ModSum ==
  ASSUME NEW m \in Nat \ {0}, NEW a \in Int, NEW b \in Int
  PROVE  ((a % m) + b) % m = (a + b) % m
<1> DEFINE r == a % m
           q == a \div m
           s == (r + b) % m
           p == (r + b) \div m
<1>1. a = m * q + r /\ q \in Int /\ r \in 0..(m - 1)
  BY Z3
<1> HIDE DEF q, r
<1>2. r + b = m * p + s /\ p \in Int /\ s \in 0..(m - 1)
  BY <1>1, Z3
<1> HIDE DEF p, s
<1>3. a + b = m * (q + p) + s
  <2>1. m * (q + p) = m * q + m * p
    BY <1>1, <1>2
  <2> QED
    BY <1>1, <1>2, <2>1
<1>4. (m * (q + p) + s) % m = s
  BY <1>1, <1>2, ModOf
<1> QED
  BY <1>3, <1>4 DEF r, s

\* Where the reader will be when it has taken all it knows of.
Behind == IF poll = "count" THEN readIndex + pending + fresh ELSE readIndex + pending

\* The inductive invariant: that is where it last saw the DMA, also between
\* the comparison of the positions and the count.
RingInv ==
  /\ dmaPos \in Cells /\ readIndex \in Cells /\ lastWrite \in Cells
  /\ pending \in 0..Capacity /\ position \in Cells /\ fresh \in Cells
  /\ ~raced => Behind % Capacity = lastWrite

\* The ring has cells, and a remainder is one.
LEMMA CellsAre ==
  /\ Capacity \in Nat \ {0} /\ 0 \in Cells
  /\ \A n \in Int : n % Capacity \in Cells
<1>1. Capacity \in Nat \ {0}
  BY LinkAssumption DEF FrameLen, FrameBytes
<1>2. ASSUME NEW n \in Int PROVE n % Capacity \in 0..(Capacity - 1)
  BY <1>1, Z3
<1> QED
  BY <1>1, <1>2 DEF Cells

\* At first, and after a restart, all is at the start of the ring.
LEMMA StartInStep ==
  /\ 0 % Capacity = 0
  /\ LinkInit => RingInv
<1>1. Capacity \in Nat \ {0} /\ 0 \in Cells
  BY CellsAre
<1>2. 0 % Capacity = 0
  <2>1. (Capacity * 0 + 0) % Capacity = 0
    BY <1>1, ModOf
  <2> QED
    BY <1>1, <2>1
<1> QED
  BY <1>1, <1>2 DEF LinkInit, RingInv, Behind, Cells

\* The line: bytes move the DMA on; an error moves both to the start.
LEMMA LineKeepsStep == RingInv /\ (ByteArrives \/ LineError) => RingInv'
<1> SUFFICES ASSUME RingInv, ByteArrives \/ LineError PROVE RingInv'
  OBVIOUS
<1>1. CASE ByteArrives
  <2>1. dmaPos' \in Cells
    BY <1>1, CellsAre DEF ByteArrives, RingInv, Cells
  <2> QED
    BY <1>1, <2>1 DEF ByteArrives, RingInv, Behind, readVars, pollVars
<1>2. CASE LineError
  <2>1. /\ dmaPos' = 0 /\ readIndex' = 0 /\ lastWrite' = 0 /\ pending' = 0
        /\ UNCHANGED <<poll, position, fresh>>
        /\ ~raced' => poll = "idle"
    BY <1>2 DEF LineError, Restart, pollVars
  <2>2. ~raced' => Behind' = 0
    BY <2>1 DEF Behind
  <2> QED
    BY <2>1, <2>2, StartInStep, CellsAre DEF RingInv
<1> QED
  BY <1>1, <1>2

\* The difference of two positions, around the end of the ring or not, leads
\* from the one to the other.
LEMMA CompareKeepsStep == RingInv /\ ComparePosition => RingInv'
<1> SUFFICES ASSUME RingInv, ComparePosition PROVE RingInv'
  OBVIOUS
<1>1. /\ poll = "compare" /\ poll' = "count" /\ fresh' = NewBytes /\ lastWrite' = position
      /\ UNCHANGED <<dmaPos, readIndex, pending, position, raced>>
  BY DEF ComparePosition
<1>2. /\ Capacity \in Nat \ {0} /\ position \in 0..(Capacity - 1)
      /\ lastWrite \in 0..(Capacity - 1)
      /\ readIndex + pending \in Int
  BY CellsAre DEF RingInv, Cells
<1>3. /\ fresh' \in 0..(Capacity - 1)
      /\ \/ lastWrite + fresh' = Capacity * 0 + position
         \/ lastWrite + fresh' = Capacity * 1 + position
  BY <1>1, <1>2 DEF NewBytes
<1>4. (lastWrite + fresh') % Capacity = position
  <2>1. /\ (Capacity * 0 + position) % Capacity = position
        /\ (Capacity * 1 + position) % Capacity = position
    BY <1>2, ModOf
  <2> QED
    BY <1>3, <2>1
<1>5. ASSUME ~raced PROVE (readIndex + pending + fresh') % Capacity = position
  <2>1. (readIndex + pending) % Capacity = lastWrite
    BY <1>1, <1>5 DEF RingInv, Behind
  <2>2. (((readIndex + pending) % Capacity) + fresh') % Capacity
          = (readIndex + pending + fresh') % Capacity
    BY <1>2, <1>3, ModSum
  <2> QED
    BY <1>4, <2>1, <2>2
<1> QED
  BY <1>1, <1>3, <1>5 DEF RingInv, Behind, Cells

\* Whether the oldest bytes are given up or not, the end stays where it is.
LEMMA CountKeepsStep == RingInv /\ CountPending => RingInv'
<1> SUFFICES ASSUME RingInv, CountPending PROVE RingInv'
  OBVIOUS
<1>1. /\ poll = "count" /\ poll' = "take"
      /\ readIndex' = (readIndex + Lost) % Capacity /\ pending' = PendingAfter
      /\ UNCHANGED <<dmaPos, lastWrite, position, fresh, raced>>
  BY DEF CountPending
<1>2. /\ Capacity \in Nat \ {0} /\ readIndex \in Nat /\ fresh \in Nat
      /\ pending \in 0..Capacity
  BY CellsAre DEF RingInv, Cells
<1>3. /\ Lost \in Nat /\ PendingAfter \in 0..Capacity
      /\ Lost + PendingAfter = pending + fresh
  BY <1>2 DEF Lost, PendingAfter
<1> HIDE DEF Lost, PendingAfter
<1>4. readIndex' \in Cells
  BY <1>1, <1>2, <1>3, CellsAre
<1>5. (((readIndex + Lost) % Capacity) + PendingAfter) % Capacity
        = (readIndex + Lost + PendingAfter) % Capacity
  <2> DEFINE a == readIndex + Lost
  <2>1. a \in Int /\ PendingAfter \in Int
    BY <1>2, <1>3
  <2> HIDE DEF a
  <2>2. ((a % Capacity) + PendingAfter) % Capacity = (a + PendingAfter) % Capacity
    BY <1>2, <2>1, ModSum
  <2> QED
    BY <2>2 DEF a
<1>6. readIndex + Lost + PendingAfter = readIndex + pending + fresh
  BY <1>2, <1>3
<1> QED
  BY <1>1, <1>3, <1>4, <1>5, <1>6 DEF RingInv, Behind

\* A byte that is taken is one that is no longer pending.
LEMMA TakeKeepsStep == RingInv /\ TakeByte => RingInv'
<1> SUFFICES ASSUME RingInv, TakeByte PROVE RingInv'
  OBVIOUS
<1>1. /\ poll = "take" /\ pending > 0 /\ poll' = "idle" /\ position' = 0 /\ fresh' = 0
      /\ readIndex' = (readIndex + 1) % Capacity /\ pending' = pending - 1
      /\ UNCHANGED <<dmaPos, lastWrite, raced>>
  BY DEF TakeByte
<1>2. /\ Capacity \in Nat \ {0} /\ readIndex \in Nat /\ pending \in 1..Capacity
  BY <1>1, CellsAre DEF RingInv, Cells
<1>3. (((readIndex + 1) % Capacity) + (pending - 1)) % Capacity
        = (readIndex + 1 + (pending - 1)) % Capacity
  <2> DEFINE a == readIndex + 1
             b == pending - 1
  <2>1. a \in Int /\ b \in Int
    BY <1>2
  <2> HIDE DEF a, b
  <2>2. ((a % Capacity) + b) % Capacity = (a + b) % Capacity
    BY <1>2, <2>1, ModSum
  <2> QED
    BY <2>2 DEF a, b
<1>4. readIndex + 1 + (pending - 1) = readIndex + pending
  BY <1>2
<1>5. readIndex' \in Cells /\ pending' \in 0..Capacity
  BY <1>1, <1>2, CellsAre
<1> QED
  BY <1>1, <1>3, <1>4, <1>5, CellsAre DEF RingInv, Behind

\* Every step keeps the invariant.
LEMMA RingStepInv == RingInv /\ [LinkNext]_linkVars => RingInv'
<1> SUFFICES ASSUME RingInv, [LinkNext]_linkVars PROVE RingInv'
  OBVIOUS
<1>1. CASE ReadPosition
  BY <1>1 DEF ReadPosition, RingInv, Behind, readVars
<1>2. CASE NothingToTake
  BY <1>2, CellsAre DEF NothingToTake, RingInv, Behind, readVars
<1>3. CASE Execute \/ UNCHANGED linkVars
  BY <1>3 DEF Execute, RingInv, Behind, linkVars, readVars, pollVars
<1> QED
  BY <1>1, <1>2, <1>3, LineKeepsStep, CompareKeepsStep, CountKeepsStep, TakeKeepsStep
  DEF LinkNext, Poll

\* Between two polls what the reader counts as pending ends where it last saw
\* the DMA (bsp_uart.c, BspUart_TryReadByte), also after an overrun and after
\* a line error, as long as no error strikes inside a poll.
THEOREM ReaderStaysInStep == FairLinkSpec => []StaysInStep
<1>1. RingInv => StaysInStep
  BY DEF RingInv, Behind, StaysInStep
<1> QED
  BY <1>1, StartInStep, RingStepInv, PTL DEF FairLinkSpec, LinkSpec

\* The error inside a poll is the only thing that keeps reception from being
\* resumed (bsp_uart.c, HAL_UART_ErrorCallback): without it a reader that has
\* taken all it knows of stands where it last saw the DMA.
THEOREM ResumedUnlessRaced == FairLinkSpec => [](raced \/ ReceptionIsResumed)
<1>1. RingInv => raced \/ ReceptionIsResumed
  <2> SUFFICES ASSUME RingInv, ~raced, poll = "idle", pending = 0 PROVE readIndex = lastWrite
    BY DEF ReceptionIsResumed
  <2>1. Capacity \in Nat \ {0} /\ readIndex \in 0..(Capacity - 1)
    BY CellsAre DEF RingInv, Cells
  <2>2. readIndex % Capacity = lastWrite
    BY <2>1 DEF RingInv, Behind
  <2>3. (Capacity * 0 + readIndex) % Capacity = readIndex
    BY <2>1, ModOf
  <2> QED
    BY <2>1, <2>2, <2>3
<1> QED
  BY <1>1, StartInStep, RingStepInv, PTL DEF FairLinkSpec, LinkSpec

-------------------------------------------------------------------------------
(* The ring is a FIFO.                                                     *)

\* The cell of the byte that is the j-th after the next to be delivered.
Cell(j) == (readIndex + j) % Capacity

\* As long as there was no overrun: what has not been read lies between the
\* reader and the DMA in the order of its arrival, and all that the reader
\* knows of, or has just seen the DMA's position for, is part of it.
Fifo ==
  /\ Unread \in 0..(Capacity - 1) /\ Cell(Unread) = dmaPos
  /\ \A j \in 0..(Unread - 1) : storage[Cell(j)].id = due + j
  /\ pending <= Unread
  /\ poll = "compare" => \E p \in pending..Unread : Cell(p) = position
  /\ poll = "count" => pending + fresh <= Unread

\* The inductive invariant.
FifoInv ==
  /\ RingInv
  /\ sent \in Nat /\ due \in Nat /\ overrun \in Nat
  /\ storage \in [Cells -> [id : Nat, value : Values, intact : BOOLEAN]]
  /\ overrun = 0 /\ ~raced => Fifo

\* A byte as it is sent.
LEMMA SentByteTyped ==
  ASSUME NEW i \in Nat \ {0}
  PROVE  /\ SentByte(i) \in [id : Nat, value : Values, intact : BOOLEAN]
         /\ SentByte(i).id = i /\ SentByte(i).intact
<1>1. FrameLen = 5
  BY DEF FrameLen, FrameBytes
<1>2. Place(i) \in 1..5
  BY <1>1, Z3 DEF Place
<1>3. \A k \in 1..5 : FrameBytes[k] \in Values
  BY DEF FrameBytes, Values
<1> QED
  BY <1>2, <1>3 DEF SentByte

\* Less than a turn around the ring leads to another cell.
LEMMA CellsDiffer ==
  ASSUME NEW m \in Nat \ {0}, NEW a \in Int, NEW j \in Int, NEW k \in Int,
         j < k, k < j + m
  PROVE  (a + j) % m # (a + k) % m
<1> SUFFICES ASSUME (a + j) % m = (a + k) % m PROVE FALSE
  OBVIOUS
<1> DEFINE p == (a + j) \div m
           q == (a + k) \div m
           r == (a + j) % m
<1>1. a + j = m * p + r /\ a + k = m * q + r /\ p \in Int /\ q \in Int /\ r \in Int
  BY Z3
<1> HIDE DEF p, q, r
<1> DEFINE d == q - p
<1>2. d \in Int /\ m * d = k - j
  BY <1>1
<1> HIDE DEF d
<1>3. ASSUME d >= 1 PROVE FALSE
  <2>1. m * d >= m * 1
    BY <1>2, <1>3
  <2> QED
    BY <1>2, <2>1
<1>4. ASSUME d <= 0 PROVE FALSE
  <2>1. m * d <= m * 0
    BY <1>2, <1>4
  <2> QED
    BY <1>2, <2>1
<1> QED
  BY <1>2, <1>3, <1>4

\* A step from one cell to the next.
LEMMA NextCell ==
  ASSUME RingInv
  PROVE  /\ \A j \in Int : Cell(j) \in Cells
         /\ Cell(0) = readIndex
         /\ \A j \in Int : (Cell(j) + 1) % Capacity = Cell(j + 1)
         /\ \A j \in Int : (Cell(1) + j) % Capacity = Cell(j + 1)
<1>1. Capacity \in Nat \ {0} /\ readIndex \in 0..(Capacity - 1) /\ readIndex \in Int
  BY CellsAre DEF RingInv, Cells
<1>2. \A j \in Int : Cell(j) \in Cells
  BY <1>1, CellsAre DEF Cell
<1>3. Cell(0) = readIndex
  <2>1. (Capacity * 0 + readIndex) % Capacity = readIndex
    BY <1>1, ModOf
  <2> QED
    BY <1>1, <2>1 DEF Cell
<1>4. ASSUME NEW j \in Int
      PROVE  /\ (Cell(j) + 1) % Capacity = Cell(j + 1)
             /\ (Cell(1) + j) % Capacity = Cell(j + 1)
  <2>1. ASSUME NEW k \in Int, NEW l \in Int PROVE (Cell(k) + l) % Capacity = (readIndex + k + l) % Capacity
    <3> DEFINE a == readIndex + k
    <3>1. a \in Int
      BY <1>1
    <3> HIDE DEF a
    <3>2. ((a % Capacity) + l) % Capacity = (a + l) % Capacity
      BY <1>1, <3>1, ModSum
    <3> QED
      BY <3>2 DEF a, Cell
  <2>2. readIndex + j + 1 = readIndex + (j + 1) /\ readIndex + 1 + j = readIndex + (j + 1)
    BY <1>1
  <2> QED
    BY <2>1, <2>2 DEF Cell
<1> QED
  BY <1>2, <1>3, <1>4

\* At first, nothing has arrived.
LEMMA FifoInit == LinkInit => FifoInv
<1> SUFFICES ASSUME LinkInit PROVE FifoInv
  OBVIOUS
<1>1. RingInv
  BY StartInStep
<1>2. Capacity \in Nat \ {0} /\ Unread = 0 /\ 0 \in 0..(Capacity - 1)
  BY CellsAre DEF LinkInit, Unread
<1>3. Cell(0) = dmaPos
  BY <1>1, NextCell DEF LinkInit
<1>4. Fifo
  BY <1>2, <1>3 DEF LinkInit, Fifo
<1>5. storage \in [Cells -> [id : Nat, value : Values, intact : BOOLEAN]]
  BY DEF LinkInit, Empty, Values
<1> QED
  BY <1>1, <1>4, <1>5 DEF LinkInit, FifoInv

\* A byte arrives behind those that wait, and overwrites none of them.
LEMMA ArrivalKeepsFifo == FifoInv /\ ByteArrives => FifoInv'
<1> SUFFICES ASSUME FifoInv, ByteArrives PROVE FifoInv'
  OBVIOUS
<1>1. RingInv /\ RingInv'
  BY LineKeepsStep DEF FifoInv
<1>2. /\ sent \in Nat /\ sent' = sent + 1 /\ due \in Nat /\ overrun \in Nat
      /\ UNCHANGED <<due, readIndex, pending, poll, position, fresh, raced>>
      /\ dmaPos' = (dmaPos + 1) % Capacity
      /\ overrun' = IF Unread + 1 >= Capacity THEN overrun + 1 ELSE overrun
  BY DEF FifoInv, ByteArrives, readVars, pollVars
<1>3. PICK b \in [id : Nat, value : Values, intact : BOOLEAN] :
        b.id = sent' /\ storage' = [storage EXCEPT ![dmaPos] = b]
  <2>1. SentByte(sent') \in [id : Nat, value : Values, intact : BOOLEAN] /\ SentByte(sent').id = sent'
    BY <1>2, SentByteTyped
  <2>2. \A v \in Values : [id |-> sent', value |-> v, intact |-> FALSE]
                            \in [id : Nat, value : Values, intact : BOOLEAN]
    BY <1>2
  <2> QED
    BY <2>1, <2>2 DEF ByteArrives, Values
<1>4. /\ dmaPos \in Cells /\ storage \in [Cells -> [id : Nat, value : Values, intact : BOOLEAN]]
      /\ storage' \in [Cells -> [id : Nat, value : Values, intact : BOOLEAN]]
      /\ overrun' \in Nat
  BY <1>1, <1>2, <1>3 DEF RingInv, FifoInv
<1>5. ASSUME overrun' = 0, ~raced' PROVE Fifo'
  <2>1. Fifo /\ Unread + 1 < Capacity /\ Unread \in Nat
    BY <1>2, <1>5, CellsAre DEF FifoInv, Fifo
  <2>2. Unread' = Unread + 1 /\ sent' = due + Unread
    BY <1>2, <2>1 DEF Unread
  <2>3. \A j \in Int : Cell(j)' = Cell(j)
    BY <1>2 DEF Cell
  <2>4. Cell(Unread + 1) = dmaPos'
    BY <1>1, <1>2, <2>1, NextCell DEF Fifo
  <2>5. ASSUME NEW j \in 0..Unread PROVE storage'[Cell(j)].id = due + j
    <3>1. Cell(j) \in Cells
      BY <1>1, NextCell
    <3>2. CASE j = Unread
      BY <1>3, <1>4, <2>1, <2>2, <3>2 DEF Fifo
    <3>3. CASE j < Unread
      <4>1. Cell(j) # Cell(Unread)
        <5>1. readIndex \in Int /\ Capacity \in Nat \ {0} /\ Unread < j + Capacity
          BY <1>1, <2>1, CellsAre DEF RingInv, Cells
        <5>2. PICK u \in Nat : u = Unread
          BY <2>1
        <5>3. j \in Int /\ u \in Int /\ j < u /\ u < j + Capacity
          BY <2>1, <3>3, <5>1, <5>2
        <5>4. (readIndex + j) % Capacity # (readIndex + u) % Capacity
          BY ONLY <5>1, <5>3, CellsDiffer
        <5> QED
          BY <5>2, <5>4 DEF Cell
      <4>2. storage'[Cell(j)] = storage[Cell(j)]
        BY <1>3, <1>4, <2>1, <3>1, <4>1 DEF Fifo
      <4> QED
        BY <2>1, <3>3, <4>2 DEF Fifo
    <3> QED
      BY <2>1, <3>2, <3>3
  <2>6. Cell(Unread)' = dmaPos'
    BY <1>2, <2>2, <2>4 DEF Cell
  <2>7. (\A j \in 0..(Unread - 1) : storage[Cell(j)].id = due + j)'
    BY <1>2, <2>1, <2>2, <2>3, <2>5
  <2>8. (poll = "compare" => \E p \in pending..Unread : Cell(p) = position)'
    BY <1>1, <1>2, <2>1, <2>2, <2>3 DEF Fifo, RingInv
  <2>9. (pending <= Unread /\ (poll = "count" => pending + fresh <= Unread))'
    BY <1>1, <1>2, <2>1, <2>2 DEF Fifo, RingInv, Cells
  <2> QED
    BY <2>1, <2>2, <2>6, <2>7, <2>8, <2>9, CellsAre DEF Fifo
<1> QED
  BY <1>1, <1>2, <1>4, <1>5 DEF FifoInv

\* After a line error nothing waits, and reader and DMA are at the start.
LEMMA ErrorKeepsFifo == FifoInv /\ LineError => FifoInv'
<1> SUFFICES ASSUME FifoInv, LineError PROVE FifoInv'
  OBVIOUS
<1>1. RingInv'
  BY LineKeepsStep DEF FifoInv
<1>2. /\ dmaPos' = 0 /\ readIndex' = 0 /\ pending' = 0 /\ sent' = sent + 1 /\ due' = sent' + 1
      /\ UNCHANGED <<storage, overrun, poll>> /\ sent \in Nat
      /\ ~raced' => poll = "idle"
  BY DEF LineError, Restart, pollVars, FifoInv
<1>3. Unread' = 0 /\ sent' \in Nat /\ due' \in Nat
  BY <1>2 DEF Unread
<1>4. ASSUME ~raced' PROVE Fifo'
  <2>1. Cell(Unread)' = dmaPos'
    BY <1>2, <1>3, StartInStep DEF Cell
  <2> QED
    BY <1>2, <1>3, <1>4, <2>1, CellsAre DEF Fifo
<1> QED
  BY <1>1, <1>2, <1>3, <1>4 DEF FifoInv

\* What the comparison counts as new has arrived since the last one.
LEMMA CompareKeepsFifo == FifoInv /\ ComparePosition => FifoInv'
<1> SUFFICES ASSUME FifoInv, ComparePosition PROVE FifoInv'
  OBVIOUS
<1>1. RingInv /\ RingInv'
  BY CompareKeepsStep DEF FifoInv
<1>2. /\ poll = "compare" /\ poll' = "count"
      /\ UNCHANGED <<sent, due, storage, dmaPos, readIndex, pending, overrun, raced>>
      /\ fresh' \in 0..(Capacity - 1)
      /\ lastWrite' = position
  BY <1>1 DEF ComparePosition, lineVars, RingInv, Cells
<1>3. ASSUME overrun = 0, ~raced PROVE Fifo'
  <2>1. Fifo
    BY <1>3 DEF FifoInv
  <2>2. PICK p \in pending..Unread : Cell(p) = position
    BY <1>2, <2>1 DEF Fifo
  <2>3. /\ p \in Int /\ pending \in Int /\ Unread \in Int
        /\ pending <= p /\ p <= Unread /\ Unread < Capacity /\ pending >= 0
    BY <1>1, <2>1, <2>2, CellsAre DEF Fifo, RingInv
  <2>4. Cell(pending + fresh') = Cell(p)
    <3>1. (readIndex + pending + fresh') % Capacity = position
      BY <1>1, <1>2, <1>3 DEF RingInv, Behind
    <3>2. readIndex + pending + fresh' = readIndex + (pending + fresh')
      BY <1>1, <1>2, <2>3 DEF RingInv, Cells
    <3> QED
      BY <2>2, <3>1, <3>2 DEF Cell
  <2> DEFINE q == pending + fresh'
  <2>5. q \in Int /\ pending <= q /\ q < pending + Capacity
    <3>1. PICK n \in 0..(Capacity - 1) : n = fresh'
      BY <1>2
    <3>2. PICK k \in Int : k = pending
      BY <2>3
    <3>3. Capacity \in Int
      BY CellsAre
    <3>4. k + n \in Int /\ k <= k + n /\ k + n < k + Capacity
      BY ONLY <3>3, k \in Int, n \in 0..(Capacity - 1)
    <3> QED
      BY <3>1, <3>2, <3>4
  <2>6. q = p
    <3>1. Capacity \in Nat \ {0} /\ readIndex \in Int
      BY <1>1, CellsAre DEF RingInv, Cells
    <3>2. (readIndex + q) % Capacity = (readIndex + p) % Capacity
      BY <2>4 DEF Cell
    <3>3. q < p + Capacity /\ p < q + Capacity
      BY <2>3, <2>5, <3>1
    <3> HIDE DEF q
    <3>4. ~(q < p)
      BY ONLY <2>3, <2>5, <3>1, <3>2, <3>3, CellsDiffer
    <3>5. ~(p < q)
      BY ONLY <2>3, <2>5, <3>1, <3>2, <3>3, CellsDiffer
    <3> QED
      BY <2>3, <2>5, <3>4, <3>5
  <2>7. pending + fresh' <= Unread
    BY <2>3, <2>5, <2>6
  <2> QED
    BY <1>2, <2>1, <2>7 DEF Fifo, Cell, Unread
<1> QED
  BY <1>1, <1>2, <1>3 DEF FifoInv

\* Nothing is given up, since there is room for all that is new.
LEMMA CountKeepsFifo == FifoInv /\ CountPending => FifoInv'
<1> SUFFICES ASSUME FifoInv, CountPending PROVE FifoInv'
  OBVIOUS
<1>1. RingInv /\ RingInv'
  BY CountKeepsStep DEF FifoInv
<1>2. /\ poll = "count" /\ poll' = "take"
      /\ UNCHANGED <<sent, due, storage, dmaPos, overrun, raced>>
      /\ readIndex' = (readIndex + Lost) % Capacity /\ pending' = PendingAfter
  BY DEF CountPending, lineVars
<1>3. ASSUME overrun = 0, ~raced PROVE Fifo'
  <2>1. Fifo
    BY <1>3 DEF FifoInv
  <2>2. /\ pending + fresh <= Unread /\ Unread < Capacity /\ Unread \in Int
        /\ pending \in Nat /\ fresh \in Nat /\ Capacity \in Nat
    BY <1>1, <1>2, <2>1, CellsAre DEF Fifo, RingInv, Cells
  <2>3. Lost = 0 /\ PendingAfter = pending + fresh
    BY <2>2 DEF Lost, PendingAfter
  <2>4. readIndex' = readIndex
    BY <1>1, <1>2, <2>3, NextCell DEF Cell
  <2> QED
    BY <1>2, <2>1, <2>2, <2>3, <2>4 DEF Fifo, Cell, Unread
<1> QED
  BY <1>1, <1>2, <1>3 DEF FifoInv

\* What is taken is the byte that is due.
LEMMA TakenIsDue ==
  ASSUME FifoInv, overrun = 0, ~raced, pending > 0
  PROVE  Unread >= 1 /\ storage[readIndex].id = due
<1>1. Fifo /\ RingInv
  BY DEF FifoInv
<1>2. Unread >= 1 /\ Unread \in Int
  BY <1>1, CellsAre DEF Fifo, RingInv
<1>3. storage[Cell(0)].id = due + 0
  BY <1>1, <1>2 DEF Fifo
<1>4. Cell(0) = readIndex /\ due \in Nat
  BY <1>1, NextCell DEF FifoInv
<1> QED
  BY <1>2, <1>3, <1>4

LEMMA TakeKeepsFifo == FifoInv /\ TakeByte => FifoInv'
<1> SUFFICES ASSUME FifoInv, TakeByte PROVE FifoInv'
  OBVIOUS
<1>1. RingInv /\ RingInv'
  BY TakeKeepsStep DEF FifoInv
<1>2. /\ poll = "take" /\ pending > 0 /\ poll' = "idle"
      /\ UNCHANGED <<sent, storage, dmaPos, overrun, raced>>
      /\ readIndex' = (readIndex + 1) % Capacity /\ pending' = pending - 1
      /\ due' = IF storage[readIndex].id >= due THEN storage[readIndex].id + 1 ELSE due
  BY DEF TakeByte, lineVars
<1>3. due' \in Nat
  <2>1. storage[readIndex] \in [id : Nat, value : Values, intact : BOOLEAN]
    BY <1>1 DEF FifoInv, RingInv
  <2>2. storage[readIndex].id \in Nat
    BY <2>1
  <2> QED
    BY <1>2, <2>2 DEF FifoInv
<1>4. ASSUME overrun = 0, ~raced PROVE Fifo'
  <2>1. Fifo /\ due \in Nat /\ sent \in Nat
    BY <1>4 DEF FifoInv
  <2>2. due' = due + 1 /\ Unread >= 1
    BY <1>2, <1>4, <2>1, TakenIsDue
  <2>3. Unread' = Unread - 1 /\ Unread \in Int /\ Unread < Capacity
    BY <1>2, <2>1, <2>2, CellsAre DEF Unread, Fifo
  <2>4. \A j \in Int : Cell(j)' = Cell(j + 1)
    BY <1>1, <1>2, NextCell DEF Cell
  <2>5. (\A j \in 0..(Unread - 1) : storage[Cell(j)].id = due + j)'
    <3> SUFFICES ASSUME NEW j \in 0..(Unread' - 1) PROVE (storage[Cell(j)].id = due + j)'
      OBVIOUS
    <3>1. j + 1 \in 0..(Unread - 1) /\ due' + j = due + (j + 1)
      BY <2>1, <2>2, <2>3
    <3>2. storage[Cell(j + 1)].id = due + (j + 1)
      BY <2>1, <3>1 DEF Fifo
    <3> QED
      BY <1>2, <2>4, <3>1, <3>2
  <2>6. Cell(Unread)' = dmaPos'
    <3>1. PICK u \in Int : u = Unread - 1 /\ u + 1 = Unread
      BY <2>3
    <3>2. Cell(u)' = Cell(u + 1)
      BY <2>4
    <3>3. Cell(Unread)' = Cell(u)'
      BY <2>3, <3>1 DEF Cell
    <3> QED
      BY <1>2, <2>1, <3>1, <3>2, <3>3 DEF Fifo
  <2>7. (Unread \in 0..(Capacity - 1) /\ pending <= Unread)'
    BY <1>1, <1>2, <2>1, <2>2, <2>3, CellsAre DEF Fifo, RingInv
  <2> QED
    BY <1>2, <2>5, <2>6, <2>7 DEF Fifo
<1> QED
  BY <1>1, <1>2, <1>3, <1>4 DEF FifoInv

\* Every step keeps the invariant.
LEMMA FifoStepInv == FifoInv /\ [LinkNext]_linkVars => FifoInv'
<1> SUFFICES ASSUME FifoInv, [LinkNext]_linkVars PROVE FifoInv'
  OBVIOUS
<1>1. RingInv /\ RingInv'
  BY RingStepInv DEF FifoInv
<1>2. CASE ReadPosition
  <2>1. /\ poll' = "compare" /\ position' = dmaPos
        /\ UNCHANGED <<sent, due, storage, dmaPos, readIndex, pending, overrun, raced>>
    BY <1>2 DEF ReadPosition, lineVars, readVars
  <2>2. Fifo => Fifo'
    BY <1>1, <2>1 DEF Fifo, Cell, Unread, RingInv
  <2> QED
    BY <1>1, <2>1, <2>2 DEF FifoInv
<1>3. CASE NothingToTake \/ Execute \/ UNCHANGED linkVars
  <2>1. /\ UNCHANGED <<sent, due, storage, dmaPos, readIndex, pending, overrun, raced>>
        /\ poll' = "idle" \/ UNCHANGED <<poll, position, fresh>>
    BY <1>3 DEF NothingToTake, Execute, linkVars, lineVars, readVars, pollVars
  <2>2. Fifo => Fifo'
    BY <2>1 DEF Fifo, Cell, Unread
  <2> QED
    BY <1>1, <2>1, <2>2 DEF FifoInv
<1> QED
  BY <1>2, <1>3, ArrivalKeepsFifo, ErrorKeepsFifo, CompareKeepsFifo, CountKeepsFifo, TakeKeepsFifo
  DEF LinkNext, Poll

\* While fewer than a ring full of bytes wait and no error strikes inside a
\* poll, every byte is delivered once and in order, without a lock between
\* DMA and reader (bsp_uart.c, BspUart_TryReadByte, HAL_UART_ErrorCallback).
THEOREM RingIsFifo == FairLinkSpec => []DeliversInOrder
<1>1. FifoInv => DeliversInOrder
  BY TakenIsDue DEF DeliversInOrder
<1> QED
  BY <1>1, FifoInit, FifoStepInv, PTL DEF FairLinkSpec, LinkSpec

-------------------------------------------------------------------------------
(* The parser.                                                             *)

\* What counts as intact is as it was sent.
Genuine(b) == b.intact => b.id >= 1 /\ b = SentByte(b.id)

\* What the parser holds of a frame it has heard so far.
Hearing ==
  heard > 0 =>
    /\ due >= 2 /\ heard = Place(due - 1)
    /\ heard < FrameLen => Len(collected) = heard
    /\ heard \in {3, 4} => collected[heard] = SentByte(due - 1)
    /\ heard = 4 => collected[3] = SentByte(due - 2)
    /\ heard = FrameLen => accepted = (due - 1) \div FrameLen

\* A payload that is being swallowed ends in time.
Swallowing ==
  Len(collected) >= HeaderLen /\ Expected(collected) - Len(collected) <= 1 + MaxPayload - quiet

\* In phase with the line, and since the last frame began, heard.
InPhase ==
  /\ \/ collected = <<>>
     \/ Len(collected) < FrameLen /\ Len(collected) = Place(due - 1)
  /\ Len(collected) = HeaderLen => collected[HeaderLen].value = "empty"
  /\ heard = Place(due - 1) \/ quiet <= MaxPayload + Place(due - 1)

\* The parser never holds a complete frame, nor a length no frame has.
Unfinished(q) ==
  Len(q) >= HeaderLen => Expected(q) > Len(q) /\ IsLength(q[HeaderLen].value)

\* The inductive invariant.
ParserInv ==
  /\ due \in Nat \ {0} /\ heard \in Nat /\ quiet \in Nat
  /\ sent \in Nat
  /\ storage \in [Cells -> Bytes] /\ \A c \in Cells : Genuine(storage[c])
  /\ collected \in Seq(Bytes)
  /\ Unfinished(collected)
  /\ Hearing
  /\ quiet > 0 => due >= 2 /\ (Swallowing \/ InPhase)

\* The frame and its bytes.
LEMMA FrameFacts ==
  /\ FrameLen = 5 /\ HeaderLen = 4 /\ MaxPayload \in Nat
  /\ FrameBytes[1] = "sof1" /\ FrameBytes[2] = "sof2" /\ FrameBytes[3] = "version"
  /\ FrameBytes[4] = "empty" /\ FrameBytes[5] = "crc"
BY ParserAssumption DEF FrameLen, FrameBytes, HeaderLen

\* Places follow one another, and a frame ends at the fifth.
LEMMA PlaceFacts ==
  ASSUME NEW i \in Nat \ {0}
  PROVE  /\ Place(i) \in 1..5
         /\ Place(i + 1) = IF Place(i) = 5 THEN 1 ELSE Place(i) + 1
         /\ Place(i) <= i
         /\ Place(i) = 5 => ((i - 1) \div 5) + 1 = i \div 5
<1> DEFINE q == (i - 1) \div 5
           r == (i - 1) % 5
<1>1. i - 1 = 5 * q + r /\ q \in Nat /\ r \in 0..4
  BY Z3
<1>2. Place(i) = r + 1
  BY FrameFacts DEF Place
<1>3. Place(i + 1) = (i % 5) + 1
  BY FrameFacts DEF Place
<1> HIDE DEF q, r
<1>4. i = 5 * q + (r + 1) /\ 5 * (q + 1) = 5 * q + 5
  BY <1>1
<1>5. CASE r = 4
  <2>1. i = 5 * (q + 1)
    BY <1>4, <1>5
  <2>2. i % 5 = 0 /\ i \div 5 = q + 1
    BY <1>1, <2>1, Z3
  <2> QED
    BY <1>1, <1>2, <1>3, <1>5, <2>2 DEF q
<1>6. CASE r < 4
  <2>1. i % 5 = r + 1
    BY <1>1, <1>4, <1>6, Z3
  <2> QED
    BY <1>1, <1>2, <1>3, <1>6, <2>1
<1> QED
  BY <1>1, <1>5, <1>6

\* What becomes of what has been collected when a byte comes.
LEMMA Appended ==
  ASSUME NEW q \in Seq(Bytes), NEW b \in Bytes
  PROVE  /\ Append(q, b) \in Seq(Bytes) /\ Len(q) \in Nat /\ Len(Append(q, b)) = Len(q) + 1
         /\ \A k \in 1..Len(q) : Append(q, b)[k] = q[k]
         /\ Append(q, b)[Len(q) + 1] = b
         /\ <<b>> \in Seq(Bytes) /\ Len(<<b>>) = 1 /\ <<>> \in Seq(Bytes)
         /\ Len(q) = 0 <=> q = <<>>
OBVIOUS

\* Behind the two start bytes, and before the length is known.
LEMMA HeaderProcessed ==
  ASSUME NEW q \in Seq(Bytes), NEW b \in Bytes
  PROVE  /\ Len(q) = 2 => ProcessByte(q, b) = IF b.value = "version" THEN Append(q, b) ELSE <<>>
         /\ Len(q) = 3 => ProcessByte(q, b) = IF IsLength(b.value) THEN Append(q, b) ELSE <<>>
<1> DEFINE a == Append(q, b)
<1>1. Len(q) \in Nat /\ Len(a) = Len(q) + 1 /\ a[Len(q) + 1] = b
  BY Appended
<1>2. Len(q) >= 2 => ProcessByte(q, b) = Collect(a)
  BY <1>1 DEF ProcessByte
<1> HIDE DEF a
<1>3. CASE Len(q) = 2
  <2>1. Len(a) = 3 /\ a[3] = b
    BY <1>1, <1>3
  <2> QED
    BY <1>2, <1>3, <2>1, FrameFacts DEF Collect, HeaderFault, Complete, a
<1>4. CASE Len(q) = 3
  <2>1. Len(a) = 4 /\ a[4] = b
    BY <1>1, <1>4
  <2>2. Expected(a) >= 5 /\ Expected(a) \in Nat
    BY FrameFacts DEF Expected, PayloadLength
  <2> QED
    BY <1>2, <1>4, <2>1, <2>2, FrameFacts DEF Collect, HeaderFault, Complete, a
<1> QED
  BY <1>3, <1>4

\* Behind the length.
LEMMA PayloadProcessed ==
  ASSUME NEW q \in Seq(Bytes), NEW b \in Bytes, Len(q) >= 4
  PROVE  /\ Expected(Append(q, b)) = Expected(q) /\ Expected(q) \in Nat
         /\ ProcessByte(q, b) = IF Len(q) + 1 >= Expected(q) THEN <<>> ELSE Append(q, b)
<1> DEFINE a == Append(q, b)
<1>1. Len(q) \in Nat /\ Len(a) = Len(q) + 1 /\ a[4] = q[4]
  BY Appended
<1>2. ProcessByte(q, b) = Collect(a)
  BY <1>1 DEF ProcessByte
<1> HIDE DEF a
<1>3. Expected(a) = Expected(q) /\ Expected(q) \in Nat
  BY <1>1, FrameFacts DEF Expected, PayloadLength
<1> QED
  BY <1>1, <1>2, <1>3, FrameFacts DEF Collect, HeaderFault, Complete, a

\* After each byte that is still so.
LEMMA StaysUnfinished ==
  ASSUME NEW q \in Seq(Bytes), NEW b \in Bytes, Unfinished(q)
  PROVE  ProcessByte(q, b) \in Seq(Bytes) /\ Unfinished(ProcessByte(q, b))
<1> DEFINE a == Append(q, b)
           r == ProcessByte(q, b)
<1>1. /\ a \in Seq(Bytes) /\ Len(q) \in Nat /\ Len(a) = Len(q) + 1 /\ a[Len(q) + 1] = b
      /\ Len(q) >= 4 => a[4] = q[4]
      /\ <<b>> \in Seq(Bytes) /\ Len(<<b>>) = 1 /\ <<>> \in Seq(Bytes) /\ Len(<<>>) = 0
  BY Appended
<1>2. Len(q) < 2 => r \in {<<>>, <<b>>, q, a}
  BY DEF ProcessByte, Hunt
<1>3. /\ Len(q) = 2 => r \in {<<>>, a}
      /\ Len(q) = 3 => r = IF IsLength(b.value) THEN a ELSE <<>>
      /\ Len(q) >= 4 => /\ Expected(a) = Expected(q) /\ Expected(q) \in Nat
                        /\ r = IF Len(q) + 1 >= Expected(q) THEN <<>> ELSE a
  BY HeaderProcessed, PayloadProcessed
<1>4. Len(q) = 3 => Expected(a) >= 5 /\ Expected(a) \in Nat
  BY FrameFacts DEF Expected, PayloadLength
<1> HIDE DEF a, r
<1>5. Len(q) < 2 \/ Len(q) = 2 \/ Len(q) = 3 \/ Len(q) >= 4
  <2>1. \A n \in Nat : n < 2 \/ n = 2 \/ n = 3 \/ n >= 4
    OBVIOUS
  <2> QED
    BY <1>1, <2>1
<1>6. r \in {<<>>, <<b>>, q, a}
  BY <1>2, <1>3, <1>5
<1>7. Unfinished(<<>>) /\ Unfinished(<<b>>)
  BY <1>1, FrameFacts DEF Unfinished
<1>8. ASSUME r = a PROVE Unfinished(a)
  <2>1. CASE Len(q) < 3
    BY <1>1, <2>1, FrameFacts DEF Unfinished
  <2>2. CASE Len(q) = 3
    <3>1. Len(a) = 4 /\ a[4] = b /\ (a # <<>>)
      BY <1>1, <2>2
    <3> QED
      BY <1>3, <1>4, <1>8, <2>2, <3>1, FrameFacts DEF Unfinished
  <2>3. CASE Len(q) >= 4
    <3>1. a # <<>>
      BY <1>1
    <3> QED
      BY <1>1, <1>3, <1>8, <2>3, <3>1, FrameFacts DEF Unfinished
  <2>4. \A n \in Nat : n < 3 \/ n = 3 \/ n >= 4
    OBVIOUS
  <2> QED
    BY <1>1, <2>1, <2>2, <2>3, <2>4
<1> QED
  BY <1>1, <1>6, <1>7, <1>8 DEF r

\* What taking a byte does to the parser and to what is said of it.
LEMMA TakenByte ==
  ASSUME RingInv, ParserInv, TakeByte
  PROVE  \E b \in Bytes :
           /\ b = storage[readIndex] /\ b.id \in Nat
           /\ collected' = ProcessByte(collected, b)
           /\ heard' = HeardAfter(b) /\ quiet' = QuietAfter(b)
           /\ due' \in Nat \ {0} /\ UNCHANGED <<sent, storage>>
           /\ InOrder(b) => b = SentByte(due) /\ due' = due + 1
           /\ FrameReady(collected, b) => accepted' = FrameOf(Append(collected, b))
<1>1. PICK b \in Bytes : b = storage[readIndex] /\ Genuine(b)
  BY DEF RingInv, ParserInv
<1>2. b.id \in Nat
  BY DEF Bytes
<1>3. /\ collected' = ProcessByte(collected, b)
      /\ heard' = HeardAfter(b) /\ quiet' = QuietAfter(b)
      /\ due' = IF b.id >= due THEN b.id + 1 ELSE due
      /\ UNCHANGED <<sent, storage>>
      /\ FrameReady(collected, b) => accepted' = FrameOf(Append(collected, b))
  BY <1>1 DEF TakeByte, lineVars
<1>4. due' \in Nat \ {0}
  BY <1>2, <1>3 DEF ParserInv
<1>5. InOrder(b) => b = SentByte(due) /\ due' = due + 1
  <2>1. InOrder(b) => b.id = due /\ b = SentByte(b.id)
    BY <1>1 DEF Genuine, InOrder
  <2> QED
    BY <1>3, <2>1 DEF ParserInv
<1> QED
  BY <1>1, <1>2, <1>3, <1>4, <1>5

\* The start bytes.
LEMMA StartProcessed ==
  ASSUME NEW q \in Seq(Bytes), NEW b \in Bytes
  PROVE  /\ Len(q) < 2 /\ b.value = "sof1" => Len(ProcessByte(q, b)) = 1
         /\ Len(q) = 1 /\ b.value = "sof2" => Len(ProcessByte(q, b)) = 2
         /\ Len(q) < 2 /\ b.value \notin {"sof1", "sof2"} => ProcessByte(q, b) = <<>>
         /\ Len(q) = 0 /\ b.value = "sof2" => ProcessByte(q, b) = <<>>
<1> DEFINE a == Append(q, b)
           r == ProcessByte(q, b)
<1>1. /\ Len(q) \in Nat /\ Len(a) = Len(q) + 1 /\ Len(<<b>>) = 1 /\ (Len(q) = 0 <=> q = <<>>)
  BY Appended
<1>2. Len(q) < 2 =>
        r = IF q = <<>> THEN IF b.value = "sof1" THEN <<b>> ELSE <<>>
            ELSE IF b.value = "sof2" THEN a ELSE IF b.value = "sof1" THEN q ELSE <<>>
  BY DEF ProcessByte, Hunt
<1>3. Len(q) < 2 => Len(q) = 0 \/ Len(q) = 1
  <2>1. \A n \in Nat : n < 2 => n = 0 \/ n = 1
    OBVIOUS
  <2> QED
    BY <1>1, <2>1
<1> HIDE DEF a, r
<1>4. Len(q) < 2 /\ b.value = "sof1" => Len(r) = 1
  BY <1>1, <1>2, <1>3
<1>5. /\ Len(q) = 1 /\ b.value = "sof2" => Len(r) = 2
      /\ Len(q) = 0 /\ b.value = "sof2" => r = <<>>
  <2>1. b.value = "sof2" => b.value # "sof1"
    OBVIOUS
  <2>2. CASE Len(q) = 1
    <3>1. q # <<>> /\ Len(a) = 2 /\ Len(q) < 2
      BY <1>1, <2>2
    <3> QED
      BY <1>2, <2>2, <3>1
  <2>3. CASE Len(q) = 0
    <3>1. q = <<>> /\ Len(q) < 2
      BY <1>1, <2>3
    <3> QED
      BY <1>2, <2>1, <2>3, <3>1
  <2> QED
    BY <2>2, <2>3
<1>6. Len(q) < 2 /\ b.value \notin {"sof1", "sof2"} => r = <<>>
  BY <1>1, <1>2
<1> QED
  BY <1>4, <1>5, <1>6 DEF r

\* A frame that is heard to its end is accepted.
LEMMA HeardToTheEnd ==
  ASSUME ParserInv, NEW b \in Bytes, heard = 4, b = SentByte(due), Place(due) = 5
  PROVE  /\ FrameReady(collected, b)
         /\ FrameOf(Append(collected, b)) = due \div FrameLen
<1> DEFINE a == Append(collected, b)
<1>1. /\ due \in Nat \ {0} /\ due >= 2 /\ Place(due - 1) = 4
      /\ collected \in Seq(Bytes) /\ Len(collected) = 4
      /\ collected[4] = SentByte(due - 1) /\ collected[3] = SentByte(due - 2)
  BY FrameFacts DEF ParserInv, Hearing
<1>2. /\ Len(a) = 5 /\ a[3] = SentByte(due - 2) /\ a[4] = SentByte(due - 1) /\ a[5] = SentByte(due)
  <2>1. /\ Len(a) = Len(collected) + 1 /\ a[Len(collected) + 1] = b
        /\ \A k \in 1..Len(collected) : a[k] = collected[k]
    BY <1>1, Appended
  <2>2. 3 \in 1..4 /\ 4 \in 1..4
    OBVIOUS
  <2> QED
    BY <1>1, <2>1, <2>2
<1> HIDE DEF a
<1>3. due - 2 \in Nat \ {0} /\ Place(due - 2) = 3
  <2>1. due - 1 \in Nat \ {0} /\ 4 <= due - 1
    BY <1>1, PlaceFacts
  <2>2. PICK i \in Nat \ {0} : i = due - 2 /\ i + 1 = due - 1
    BY <1>1, <2>1
  <2>3. /\ Place(i) \in 1..5
        /\ Place(i + 1) = IF Place(i) = 5 THEN 1 ELSE Place(i) + 1
    BY PlaceFacts
  <2> QED
    BY <1>1, <2>2, <2>3
<1>4. a[4].value = "empty"
  BY <1>1, <1>2, FrameFacts DEF SentByte
<1>5. Expected(a) = 5
  BY <1>4, FrameFacts DEF Expected, PayloadLength
<1>6. CrcMatches(a)
  <2>1. /\ a[3].id = due - 2 /\ a[4].id = due - 1 /\ a[5].id = due
        /\ a[3].intact /\ a[4].intact /\ a[5].intact
    BY <1>2 DEF SentByte
  <2>2. \A i \in 3..5 : a[i].intact /\ a[i].id = a[3].id + (i - 3)
    <3> SUFFICES ASSUME NEW i \in 3..5 PROVE a[i].intact /\ a[i].id = a[3].id + (i - 3)
      OBVIOUS
    <3>1. i = 3 \/ i = 4 \/ i = 5
      OBVIOUS
    <3> QED
      BY <1>1, <2>1, <3>1
  <2> QED
    BY <1>2, <1>3, <2>1, <2>2, FrameFacts DEF CrcMatches
<1>7. FrameReady(collected, b)
  BY <1>1, <1>5, <1>6, FrameFacts DEF FrameReady, a
<1>8. FrameOf(a) = due \div FrameLen
  <2>1. a[5].id = due
    BY <1>2 DEF SentByte
  <2> QED
    BY <1>1, <2>1, FrameFacts, PlaceFacts DEF FrameOf
<1> QED
  BY <1>7, <1>8 DEF a

\* What is heard of a frame is what the parser holds of it.
LEMMA TakeKeepsHearing ==
  ASSUME RingInv, ParserInv, TakeByte
  PROVE  Hearing' /\ heard' \in Nat
<1>1. PICK b \in Bytes :
        /\ collected' = ProcessByte(collected, b)
        /\ heard' = HeardAfter(b) /\ due' \in Nat \ {0}
        /\ InOrder(b) => b = SentByte(due) /\ due' = due + 1
        /\ FrameReady(collected, b) => accepted' = FrameOf(Append(collected, b))
  BY TakenByte
<1>2. CASE heard' = 0
  BY <1>2 DEF Hearing
<1>3. CASE heard' # 0
  <2>1. InOrder(b) /\ b = SentByte(due) /\ due' = due + 1 /\ due \in Nat \ {0}
    BY <1>1, <1>3 DEF HeardAfter, ParserInv
  <2>2. b.id = due /\ b.value = FrameBytes[Place(due)] /\ Place(due) \in 1..5
    BY <2>1, PlaceFacts DEF SentByte
  <2>3. /\ heard' = Place(due)
        /\ Place(due) = 1 => Len(collected) < 2
        /\ Place(due) # 1 => heard > 0 /\ heard = Place(due) - 1
    BY <1>1, <1>3, <2>1, <2>2 DEF HeardAfter, ParserInv
  <2>4. due' >= 2 /\ heard' = Place(due' - 1) /\ due' - 1 = due /\ due' - 2 = due - 1
    BY <2>1, <2>3
  <2>5. /\ collected \in Seq(Bytes)
        /\ heard > 0 /\ heard < 5 => Len(collected) = heard
        /\ heard = 3 => collected[3] = SentByte(due - 1)
    BY FrameFacts DEF ParserInv, Hearing
  <2>6. CASE Place(due) \in {1, 2}
    <3>1. Place(due) = 2 => Len(collected) = 1
      <4>1. Place(due) = 2 => heard = 1 /\ heard > 0 /\ heard < 5
        BY <2>3
      <4> QED
        BY <2>5, <4>1
    <3>2. Len(collected') = Place(due)
      BY <1>1, <2>2, <2>3, <2>5, <2>6, <3>1, FrameFacts, StartProcessed
    <3> QED
      BY <2>3, <2>4, <2>6, <3>2, FrameFacts DEF Hearing
  <2>7. CASE Place(due) = 3
    <3>1. Len(collected) = 2 /\ b.value = "version"
      BY <2>2, <2>3, <2>5, <2>7, FrameFacts
    <3>2. collected' = Append(collected, b)
      BY <1>1, <2>5, <3>1, HeaderProcessed
    <3>3. Len(collected') = 3 /\ collected'[3] = b
      <4>1. Len(collected') = Len(collected) + 1 /\ collected'[Len(collected) + 1] = b
        BY <2>5, <3>2, Appended
      <4> QED
        BY <3>1, <4>1
    <3> QED
      BY <2>1, <2>3, <2>4, <2>7, <3>3, FrameFacts DEF Hearing
  <2>8. CASE Place(due) = 4
    <3>1. Len(collected) = 3 /\ b.value = "empty" /\ collected[3] = SentByte(due - 1)
      BY <2>2, <2>3, <2>5, <2>8, FrameFacts
    <3>2. collected' = Append(collected, b)
      BY <1>1, <2>5, <3>1, HeaderProcessed DEF IsLength
    <3>3. Len(collected') = 4 /\ collected'[4] = b /\ collected'[3] = SentByte(due - 1)
      <4>1. /\ Len(collected') = Len(collected) + 1 /\ collected'[Len(collected) + 1] = b
            /\ \A k \in 1..Len(collected) : collected'[k] = collected[k]
        BY <2>5, <3>2, Appended
      <4> QED
        BY <3>1, <4>1
    <3> QED
      BY <2>1, <2>3, <2>4, <2>8, <3>3, FrameFacts DEF Hearing
  <2>9. CASE Place(due) = 5
    <3>1. heard = 4
      BY <2>3, <2>9
    <3>2. accepted' = due \div FrameLen
      BY <1>1, <2>1, <2>9, <3>1, HeardToTheEnd
    <3> QED
      BY <2>3, <2>4, <2>9, <3>2, FrameFacts DEF Hearing
  <2> QED
    BY <2>2, <2>3, <2>6, <2>7, <2>8, <2>9
<1> QED
  BY <1>1, <1>2, <1>3, PlaceFacts DEF HeardAfter, ParserInv

\* Before the length is known, a good byte leaves the parser in phase.
Shape(q, place) ==
  /\ q = <<>> \/ (Len(q) < FrameLen /\ Len(q) = place)
  /\ Len(q) = HeaderLen => q[HeaderLen].value = "empty"

LEMMA EmptyShape == \A place \in Nat : Shape(<<>>, place)
BY FrameFacts DEF Shape

LEMMA ShapeOf ==
  ASSUME NEW q, NEW place \in 1..4, Len(q) = place, place = 4 => q[4].value = "empty"
  PROVE  Shape(q, place)
BY FrameFacts DEF Shape

LEMMA GoodByteInPhase ==
  ASSUME NEW q \in Seq(Bytes), NEW b \in Bytes, NEW place \in 1..5,
         b.value = FrameBytes[place], Len(q) < 4
  PROVE  Shape(ProcessByte(q, b), place)
<1> DEFINE a == Append(q, b)
           r == ProcessByte(q, b)
<1>1. /\ Len(q) \in Nat /\ Len(a) = Len(q) + 1 /\ a[Len(q) + 1] = b
  BY Appended
<1>2. /\ place = 1 <=> b.value = "sof1"
      /\ place = 2 <=> b.value = "sof2"
      /\ place = 3 <=> b.value = "version"
      /\ place = 4 <=> IsLength(b.value)
      /\ place = 4 => b.value = "empty"
  BY FrameFacts DEF IsLength
<1>3. PICK n \in Nat : n = Len(q) /\ n \in 0..3
  <2>1. \A m \in Nat : m < 4 => m \in 0..3
    OBVIOUS
  <2> QED
    BY <1>1, <2>1
<1>4. CASE n = 0 \/ n = 1
  <2>1. Len(q) < 2
    BY <1>3, <1>4
  <2>2. /\ place = 1 => Len(r) = 1
        /\ place = 2 => r = <<>> \/ Len(r) = 2
        /\ place \notin {1, 2} => r = <<>>
    BY <1>2, <1>3, <1>4, <2>1, StartProcessed
  <2> HIDE DEF r
  <2>3. place = 1 => Len(r) = place
    BY <2>2, Zenon
  <2>4. place = 2 => r = <<>> \/ Len(r) = place
    BY <2>2, Zenon
  <2>5. r = <<>> \/ (Len(r) = place /\ place < 4)
    BY <2>2, <2>3, <2>4
  <2> QED
    BY <2>5, FrameFacts, EmptyShape DEF Shape, r
<1>5. CASE n = 2
  <2>1. r = IF place = 3 THEN a ELSE <<>>
    BY <1>2, <1>3, <1>5, HeaderProcessed
  <2>2. place = 3 => Len(a) = place
    BY <1>1, <1>3, <1>5
  <2> HIDE DEF a, r
  <2>3. place # 3 => Shape(r, place)
    BY <2>1, EmptyShape
  <2>4. place = 3 => Shape(r, place)
    <3>1. place = 3 => place \in 1..4 /\ place # 4
      OBVIOUS
    <3> QED
      BY <2>1, <2>2, <3>1, ShapeOf, Zenon
  <2> QED
    BY <2>3, <2>4 DEF r
<1>6. CASE n = 3
  <2>1. r = IF place = 4 THEN a ELSE <<>>
    BY <1>2, <1>3, <1>6, HeaderProcessed
  <2>2. place = 4 => Len(a) = place /\ a[4] = b
    BY <1>1, <1>3, <1>6
  <2> HIDE DEF a, r
  <2>3. place # 4 => Shape(r, place)
    BY <2>1, EmptyShape
  <2>4. place = 4 => Shape(r, place)
    <3>1. place = 4 => place \in 1..4 /\ a[4].value = "empty"
      BY <1>2, <2>2
    <3> QED
      BY <2>1, <2>2, <3>1, ShapeOf, Zenon
  <2> QED
    BY <2>3, <2>4 DEF r
<1> QED
  BY <1>3, <1>4, <1>5, <1>6

\* In phase, a good byte is heard, or it is not long since the line was bad.
LEMMA PhaseIsTracked ==
  ASSUME ParserInv, NEW b \in Bytes, b = SentByte(due), InOrder(b),
         quiet > 0 => due >= 2 /\ InPhase
  PROVE  HeardAfter(b) = Place(due) \/ QuietAfter(b) <= MaxPayload + Place(due)
<1>1. /\ due \in Nat \ {0} /\ quiet \in Nat /\ heard \in Nat /\ Place(due) \in 1..5 /\ MaxPayload \in Nat
      /\ Len(collected) \in Nat
  BY PlaceFacts, FrameFacts DEF ParserInv
<1>2. QuietAfter(b) <= quiet + 1 /\ QuietAfter(b) \in Nat
  BY <1>1, FrameFacts DEF QuietAfter
<1>3. b.id = due
  BY DEF SentByte
<1>4. CASE quiet = 0
  BY <1>1, <1>2, <1>4
<1>5. CASE quiet > 0
  <2>1. PICK i \in Nat \ {0} : i = due - 1 /\ i + 1 = due
    BY <1>1, <1>5
  <2>2. Place(i) \in 1..5 /\ Place(due) = IF Place(i) = 5 THEN 1 ELSE Place(i) + 1
    BY <2>1, PlaceFacts
  <2>3. heard = Place(i) \/ quiet <= MaxPayload + Place(i)
    BY <1>5, <2>1 DEF InPhase
  <2>4. CASE Place(i) = 5
    <3>1. Len(collected) < 2
      BY <1>1, <1>5, <2>1, <2>4, FrameFacts DEF InPhase
    <3>2. HeardAfter(b) = 1
      BY <1>3, <2>2, <2>4, <3>1 DEF HeardAfter
    <3> QED
      BY <2>2, <2>4, <3>2
  <2>5. CASE Place(i) # 5 /\ heard = Place(i)
    <3>1. HeardAfter(b) = heard + 1
      BY <1>1, <1>3, <2>2, <2>5 DEF HeardAfter
    <3> QED
      BY <2>2, <2>5, <3>1
  <2>6. CASE Place(i) # 5 /\ quiet <= MaxPayload + Place(i)
    BY <1>1, <1>2, <2>2, <2>6
  <2> QED
    BY <2>3, <2>4, <2>5, <2>6
<1> QED
  BY <1>1, <1>4, <1>5

\* Good bytes end what is being swallowed, and then keep the parser in phase.
LEMMA TakeKeepsResync ==
  ASSUME RingInv, ParserInv, TakeByte
  PROVE  quiet' \in Nat /\ (quiet' > 0 => due' >= 2 /\ (Swallowing' \/ InPhase'))
<1>1. PICK b \in Bytes :
        /\ collected' = ProcessByte(collected, b)
        /\ heard' = HeardAfter(b) /\ quiet' = QuietAfter(b)
        /\ InOrder(b) => b = SentByte(due) /\ due' = due + 1
  BY TakenByte
<1>2. /\ quiet \in Nat /\ due \in Nat \ {0} /\ collected \in Seq(Bytes) /\ MaxPayload \in Nat
      /\ Unfinished(collected) /\ (quiet > 0 => due >= 2 /\ (Swallowing \/ InPhase))
      /\ Place(due) \in 1..5
  BY PlaceFacts, FrameFacts DEF ParserInv
<1>3. quiet' \in Nat
  BY <1>1, <1>2 DEF QuietAfter
<1>4. ASSUME quiet' > 0 PROVE due' >= 2 /\ (Swallowing' \/ InPhase')
  <2>1. InOrder(b) /\ b = SentByte(due) /\ due' = due + 1 /\ due' >= 2 /\ due' - 1 = due
    BY <1>1, <1>2, <1>4 DEF QuietAfter
  <2>2. b.value = FrameBytes[Place(due)]
    BY <2>1 DEF SentByte
  <2>3. quiet' <= quiet + 1
    BY <1>1, <1>2, <2>1 DEF QuietAfter
  <2>4. ASSUME Shape(collected', Place(due)), heard' = Place(due) \/ quiet' <= MaxPayload + Place(due)
        PROVE  InPhase'
    BY <2>1, <2>4 DEF InPhase, Shape
  <2>5. CASE Len(collected) < 4
    <3>1. Shape(collected', Place(due))
      BY <1>1, <1>2, <2>2, <2>5, GoodByteInPhase
    <3>2. quiet > 0 => due >= 2 /\ InPhase
      BY <1>2, <2>5, FrameFacts DEF Swallowing
    <3>3. heard' = Place(due) \/ quiet' <= MaxPayload + Place(due)
      BY <1>1, <2>1, <3>2, PhaseIsTracked
    <3> QED
      BY <2>1, <2>4, <3>1, <3>3
  <2>6. CASE Len(collected) >= 4
    <3>1. /\ Expected(collected) \in Nat /\ Expected(collected) > Len(collected)
          /\ Expected(Append(collected, b)) = Expected(collected)
          /\ Expected(collected) <= 5 + MaxPayload
          /\ collected' = IF Len(collected) + 1 >= Expected(collected)
                          THEN <<>> ELSE Append(collected, b)
          /\ Len(Append(collected, b)) = Len(collected) + 1 /\ Len(collected) \in Nat
      <4>1. Expected(collected) <= 5 + MaxPayload
        BY <1>2, FrameFacts DEF Expected, PayloadLength
      <4>2. Expected(collected) > Len(collected)
        BY <1>2, <2>6, FrameFacts DEF Unfinished
      <4> QED
        BY <1>1, <1>2, <2>6, <4>1, <4>2, Appended, PayloadProcessed
    <3>2. CASE Swallowing \/ quiet = 0
      <4>1. Expected(collected) - Len(collected) <= 1 + MaxPayload - quiet
        BY <1>2, <2>6, <3>1, <3>2 DEF Swallowing
      <4>2. CASE Len(collected) + 1 >= Expected(collected)
        <5>1. collected' = <<>> /\ quiet' <= MaxPayload + 1
          BY <1>2, <1>3, <2>3, <3>1, <4>1, <4>2
        <5> QED
          BY <1>2, <1>3, <2>1, <2>4, <5>1, EmptyShape
      <4>3. CASE Len(collected) + 1 < Expected(collected)
        <5>1. collected' = Append(collected, b)
          BY <3>1, <4>3
        <5>2. /\ Len(collected') = Len(collected) + 1 /\ Expected(collected') = Expected(collected)
          BY <3>1, <5>1
        <5>3. Expected(collected') - Len(collected') <= 1 + MaxPayload - quiet'
          BY <1>2, <1>3, <2>3, <3>1, <4>1, <5>2
        <5>4. Swallowing'
          BY <2>6, <3>1, <5>2, <5>3, FrameFacts DEF Swallowing
        <5> QED
          BY <2>1, <5>4
      <4> QED
        BY <3>1, <4>2, <4>3
    <3>3. CASE InPhase /\ quiet > 0
      <4>1. PICK n \in Nat : n = Len(collected) /\ n = 4
        <5>1. \A m \in Nat : m >= 4 /\ m < 5 => m = 4
          OBVIOUS
        <5>2. Len(collected) < 5
          <6>1. collected # <<>>
            BY <2>6
          <6> QED
            BY <3>3, <6>1, FrameFacts DEF InPhase
        <5> QED
          BY <2>6, <3>1, <5>1, <5>2
      <4>0. collected[4].value = "empty"
        BY <3>3, <4>1, FrameFacts DEF InPhase
      <4>2. Expected(collected) = 5
        BY <4>0, FrameFacts DEF Expected, PayloadLength
      <4>3. collected' = <<>>
        BY <3>1, <4>1, <4>2
      <4>4. heard' = Place(due) \/ quiet' <= MaxPayload + Place(due)
        BY <1>1, <1>2, <2>1, <3>3, PhaseIsTracked
      <4> QED
        BY <1>2, <2>1, <2>4, <4>3, <4>4, EmptyShape
    <3> QED
      BY <1>2, <3>2, <3>3
  <2> QED
    BY <1>2, <2>5, <2>6
<1> QED
  BY <1>3, <1>4

LEMMA ParserInit == LinkInit => ParserInv
<1> SUFFICES ASSUME LinkInit PROVE ParserInv
  OBVIOUS
<1>1. /\ sent = 0 /\ due = 1 /\ heard = 0 /\ quiet = 0 /\ collected = <<>>
      /\ storage = [c \in Cells |-> Empty]
  BY DEF LinkInit
<1>2. Empty \in Bytes /\ Genuine(Empty)
  BY LinkAssumption, FrameFacts DEF Empty, Bytes, Values, Genuine
<1>3. <<>> \in Seq(Bytes) /\ Unfinished(<<>>)
  BY FrameFacts DEF Unfinished
<1> QED
  BY <1>1, <1>2, <1>3 DEF ParserInv, Hearing

\* What arrives is as it was sent, or marked.
LEMMA ArrivalKeepsParser == RingInv /\ ParserInv /\ ByteArrives => ParserInv'
<1> SUFFICES ASSUME RingInv, ParserInv, ByteArrives PROVE ParserInv'
  OBVIOUS
<1>1. /\ sent' = sent + 1 /\ sent < MaxFrames * FrameLen /\ sent \in Nat /\ dmaPos \in Cells
      /\ UNCHANGED <<due, heard, quiet, collected, accepted>>
  BY DEF ByteArrives, ParserInv, RingInv, parseVars
<1>2. MaxFrames * FrameLen \in Nat
  BY LinkAssumption, FrameFacts
<1>3. PICK b \in Bytes : storage' = [storage EXCEPT ![dmaPos] = b] /\ Genuine(b)
  <2>1. CASE storage' = [storage EXCEPT ![dmaPos] = SentByte(sent')]
    <3>1. SentByte(sent') \in Bytes /\ SentByte(sent').id = sent'
      BY <1>1, <1>2, SentByteTyped DEF Bytes, SentByte
    <3>2. SentByte(sent') = SentByte(SentByte(sent').id) /\ sent' >= 1
      BY <1>1, <3>1
    <3>3. Genuine(SentByte(sent'))
      BY <3>1, <3>2 DEF Genuine
    <3> QED
      BY <2>1, <3>1, <3>3
  <2>2. CASE \E v \in {"sof1", "long", "junk"} \ {FrameBytes[Place(sent')]} :
               storage' = [storage EXCEPT ![dmaPos] =
                             [id |-> sent', value |-> v, intact |-> FALSE]]
    <3>1. PICK v \in {"sof1", "long", "junk"} :
            storage' = [storage EXCEPT ![dmaPos] =
                          [id |-> sent', value |-> v, intact |-> FALSE]]
      BY <2>2
    <3>2. [id |-> sent', value |-> v, intact |-> FALSE] \in Bytes
      BY <1>1, <1>2 DEF Bytes, Values
    <3> QED
      BY <3>1, <3>2 DEF Genuine
  <2> QED
    BY <2>1, <2>2 DEF ByteArrives
<1>4. storage' \in [Cells -> Bytes] /\ \A c \in Cells : Genuine(storage'[c])
  BY <1>1, <1>3 DEF ParserInv
<1>5. Hearing' /\ (quiet' > 0 => due' >= 2 /\ (Swallowing' \/ InPhase'))
  BY <1>1 DEF ParserInv, Hearing, Swallowing, InPhase
<1>6. /\ due' \in Nat \ {0} /\ heard' \in Nat /\ quiet' \in Nat /\ sent' \in Nat
      /\ collected' \in Seq(Bytes) /\ Unfinished(collected')
  BY <1>1 DEF ParserInv
<1> QED
  BY <1>4, <1>5, <1>6 DEF ParserInv, Genuine

LEMMA TakeKeepsParser == RingInv /\ ParserInv /\ TakeByte => ParserInv'
<1> SUFFICES ASSUME RingInv, ParserInv, TakeByte PROVE ParserInv'
  OBVIOUS
<1>1. PICK b \in Bytes :
        /\ collected' = ProcessByte(collected, b)
        /\ due' \in Nat \ {0} /\ UNCHANGED <<sent, storage>>
  BY TakenByte
<1>2. collected' \in Seq(Bytes) /\ Unfinished(collected')
  BY <1>1, StaysUnfinished DEF ParserInv
<1>3. /\ sent' \in Nat /\ storage' \in [Cells -> Bytes]
      /\ \A c \in Cells : Genuine(storage'[c])
  BY <1>1 DEF ParserInv
<1> QED
  BY <1>1, <1>2, <1>3, TakeKeepsHearing, TakeKeepsResync DEF ParserInv, Genuine

\* Every step keeps the invariant.
LEMMA ParserStepInv == RingInv /\ ParserInv /\ [LinkNext]_linkVars => ParserInv'
<1> SUFFICES ASSUME RingInv, ParserInv, [LinkNext]_linkVars PROVE ParserInv'
  OBVIOUS
<1>1. CASE LineError
  <2>1. /\ heard' = 0 /\ quiet' = 0 /\ sent' = sent + 1 /\ due' = sent' + 1
        /\ UNCHANGED <<storage, collected>>
    BY <1>1 DEF LineError
  <2> QED
    BY <2>1 DEF ParserInv, Hearing, Genuine
<1>2. CASE ReadPosition \/ ComparePosition \/ CountPending \/ NothingToTake \/ Execute
           \/ UNCHANGED linkVars
  <2>1. UNCHANGED <<sent, storage, due, collected, heard, quiet, accepted>>
    BY <1>2 DEF ReadPosition, ComparePosition, CountPending, NothingToTake, Execute,
                linkVars, lineVars, parseVars
  <2> QED
    BY <2>1 DEF ParserInv, Hearing, Swallowing, InPhase, Genuine
<1> QED
  BY <1>1, <1>2, ArrivalKeepsParser, TakeKeepsParser DEF LinkNext, Poll

\* Both together, as temporal facts.
LEMMA LinkInvariants == FairLinkSpec => [](RingInv /\ ParserInv)
BY StartInStep, RingStepInv, ParserInit, ParserStepInv, PTL DEF FairLinkSpec, LinkSpec

\* A parser that is hunting, or holds a lone SOF1, when an intact frame begins
\* accepts that frame, whatever was on the line before
\* (protocol_parser.c, ProtocolParser_ProcessByte).
THEOREM HuntingIsHeard == FairLinkSpec => []HuntingParserHears
<1>1. ParserInv => HuntingParserHears
  BY FrameFacts DEF ParserInv, Hearing, HuntingParserHears
<1> QED
  BY <1>1, LinkInvariants, PTL

\* However a corrupted length sets the parser to swallow what follows, it
\* accepts the first whole frame that ends behind ResyncBound good bytes
\* (protocol_parser.c, ResetFrame after every verdict).
THEOREM ResyncWithinBound == FairLinkSpec => []ResyncIsBounded
<1>1. ParserInv => ResyncIsBounded
  <2> SUFFICES ASSUME ParserInv, quiet = ResyncBound, Place(due - 1) = FrameLen
               PROVE  accepted = (due - 1) \div FrameLen
    BY DEF ResyncIsBounded
  <2>1. quiet = MaxPayload + 10 /\ quiet > 0 /\ MaxPayload \in Nat
    BY FrameFacts DEF ResyncBound
  <2>2. ~Swallowing
    <3> SUFFICES ASSUME Swallowing PROVE FALSE
      OBVIOUS
    <3>1. Len(collected) \in Nat /\ Len(collected) >= 4 /\ Expected(collected) > Len(collected)
      BY FrameFacts DEF ParserInv, Unfinished, Swallowing
    <3>2. Expected(collected) \in Nat
      BY <2>1, FrameFacts DEF Expected, PayloadLength
    <3>3. Expected(collected) - Len(collected) <= 1 + MaxPayload - quiet
      BY DEF Swallowing
    <3> QED
      BY <2>1, <3>1, <3>2, <3>3
  <2>3. due >= 2 /\ (heard = Place(due - 1) \/ quiet <= MaxPayload + Place(due - 1))
    BY <2>1, <2>2 DEF ParserInv, InPhase
  <2>4. heard = 5
    BY <2>1, <2>3, FrameFacts
  <2> QED
    BY <2>4, FrameFacts DEF ParserInv, Hearing
<1> QED
  BY <1>1, LinkInvariants, PTL

-------------------------------------------------------------------------------
(* Nothing leaves its range: no index its ring, no frame its parser's      *)
(* buffer, no queue its length.                                            *)

LineTyped ==
  /\ sent \in 0..(MaxFrames * FrameLen) /\ faults \in 0..MaxFaults
  /\ due \in 1..(MaxFrames * FrameLen + 1)
  /\ overrun \in 0..MaxOverrun /\ raced \in BOOLEAN

ReaderTyped ==
  /\ poll \in {"idle", "compare", "count", "take"}
  /\ heard \in 0..FrameLen /\ quiet \in 0..ResyncBound

QueueTyped ==
  /\ queue \in Seq(1..MaxFrames) /\ Len(queue) <= QueueLimit
  /\ accepted \in 0..MaxFrames /\ accounted \subseteq 1..MaxFrames

LinkTyped == LineTyped /\ ReaderTyped /\ QueueTyped

LEMMA LinkTypedInit == LinkInit => LinkTyped
<1> SUFFICES ASSUME LinkInit PROVE LinkTyped
  OBVIOUS
<1>1. MaxFrames * FrameLen \in Nat /\ ResyncBound \in Nat
  BY LinkAssumption, FrameFacts DEF ResyncBound
<1>2. LineTyped /\ ReaderTyped
  <2>1. /\ sent = 0 /\ faults = 0 /\ due = 1 /\ overrun = 0 /\ raced = FALSE
        /\ poll = "idle" /\ heard = 0 /\ quiet = 0
    BY DEF LinkInit
  <2>2. \A n \in Nat : 0 \in 0..n /\ 1 \in 1..(n + 1)
    OBVIOUS
  <2> QED
    BY <1>1, <2>1, <2>2, LinkAssumption, FrameFacts DEF LineTyped, ReaderTyped
<1>3. queue = <<>> /\ accepted = 0 /\ accounted = {}
  BY DEF LinkInit
<1>4. <<>> \in Seq(1..MaxFrames) /\ Len(<<>>) <= QueueLimit /\ 0 \in 0..MaxFrames
  BY LinkAssumption
<1> QED
  BY <1>2, <1>3, <1>4 DEF LinkTyped, QueueTyped

\* A frame with the right checksum is one that was sent.
LEMMA AcceptedWasSent ==
  ASSUME NEW q \in Seq(Bytes), NEW b \in Bytes, FrameReady(q, b)
  PROVE  FrameOf(Append(q, b)) \in 1..MaxFrames
<1> DEFINE a == Append(q, b)
<1>1. /\ a \in Seq(Bytes) /\ Len(q) \in Nat /\ Len(a) = Len(q) + 1
  BY Appended
<1>2. Len(a) = FrameLen /\ CrcMatches(a)
  BY DEF FrameReady, CrcMatches
<1> HIDE DEF a
<1>3. \A k \in 3..5 : a[k] \in Bytes
  <2>1. \A k \in 1..Len(a) : a[k] \in Bytes
    BY <1>1
  <2> QED
    BY <1>2, <2>1, FrameFacts
<1>4. a[5].id \in 2..(MaxFrames * 5)
  <2>1. a[5].id = a[3].id + 2
    BY <1>2, FrameFacts DEF CrcMatches
  <2>2. 3 \in 3..5 /\ 5 \in 3..5
    OBVIOUS
  <2>3. a[3].id \in 0..(MaxFrames * 5) /\ a[5].id \in 0..(MaxFrames * 5)
    BY <1>3, <2>2, FrameFacts DEF Bytes
  <2> QED
    BY <2>1, <2>3, LinkAssumption
<1>5. ASSUME NEW i \in 1..(MaxFrames * 5) PROVE ((i - 1) \div 5) + 1 \in 1..MaxFrames
  <2> DEFINE d == (i - 1) \div 5
             r == (i - 1) % 5
  <2>1. i - 1 = 5 * d + r /\ d \in Int /\ r \in 0..4
    BY Z3
  <2> HIDE DEF d, r
  <2>2. d >= 0 /\ d < MaxFrames
    BY <1>5, <2>1, LinkAssumption
  <2> QED
    BY <2>1, <2>2, LinkAssumption DEF d
<1>6. PICK i \in 1..(MaxFrames * 5) : i = a[5].id
  BY <1>4, LinkAssumption
<1>7. FrameOf(a) = ((i - 1) \div 5) + 1
  BY <1>6, FrameFacts DEF FrameOf
<1> QED
  BY <1>5, <1>7 DEF a

LEMMA TakeKeepsTyped == RingInv /\ ParserInv /\ LinkTyped /\ TakeByte => LinkTyped'
<1> SUFFICES ASSUME RingInv, ParserInv, LinkTyped, TakeByte PROVE LinkTyped'
  OBVIOUS
<1>1. PICK b \in Bytes : b = storage[readIndex] /\ Genuine(b)
  BY DEF RingInv, ParserInv
<1>2. b.id \in 0..(MaxFrames * FrameLen) /\ MaxFrames * FrameLen \in Nat
  BY LinkAssumption, FrameFacts DEF Bytes
<1>3. /\ poll' = "idle" /\ heard' = HeardAfter(b) /\ quiet' = QuietAfter(b)
      /\ due' = IF b.id >= due THEN b.id + 1 ELSE due
      /\ IF FrameReady(collected, b)
         THEN /\ accepted' = FrameOf(Append(collected, b))
              /\ Enqueue(FrameOf(Append(collected, b)))
         ELSE UNCHANGED <<accepted, queue, accounted>>
      /\ UNCHANGED <<sent, faults, overrun, raced>>
  BY <1>1 DEF TakeByte, lineVars
<1>4. LineTyped'
  BY <1>2, <1>3 DEF LinkTyped, LineTyped
<1>5. heard' \in 0..FrameLen
  <2>1. CASE InOrder(b)
    <3>1. b.id \in Nat \ {0}
      BY <1>2, <2>1 DEF InOrder, LinkTyped, LineTyped
    <3>2. Place(b.id) \in 1..5
      BY <3>1, PlaceFacts
    <3> QED
      BY <1>3, <2>1, <3>2, FrameFacts DEF HeardAfter, LinkTyped, ReaderTyped
  <2>2. CASE ~InOrder(b)
    BY <1>3, <2>2, FrameFacts DEF HeardAfter
  <2> QED
    BY <2>1, <2>2
<1>6. quiet' \in 0..ResyncBound
  <2>1. ResyncBound \in Nat
    BY FrameFacts DEF ResyncBound
  <2> QED
    BY <1>3, <2>1 DEF QuietAfter, LinkTyped, ReaderTyped
<1>7. QueueTyped'
  <2>1. CASE FrameReady(collected, b)
    <3>1. PICK f \in 1..MaxFrames : accepted' = f /\ Enqueue(f)
      BY <1>3, <2>1, AcceptedWasSent DEF ParserInv
    <3>2. /\ queue \in Seq(1..MaxFrames) /\ Len(queue) \in Nat /\ Len(queue) <= QueueLimit
          /\ accounted \subseteq 1..MaxFrames
      BY DEF LinkTyped, QueueTyped
    <3>3. Append(queue, f) \in Seq(1..MaxFrames) /\ Len(Append(queue, f)) = Len(queue) + 1
      BY <3>2
    <3>4. /\ queue' \in Seq(1..MaxFrames) /\ Len(queue') <= QueueLimit
          /\ accounted' \subseteq 1..MaxFrames
      <4>1. CASE Len(queue) < QueueLimit
        <5>1. queue' = Append(queue, f) /\ accounted' = accounted
          BY <3>1, <4>1 DEF Enqueue
        <5> QED
          BY <3>2, <3>3, <4>1, <5>1, LinkAssumption
      <4>2. CASE ~(Len(queue) < QueueLimit)
        BY <3>1, <3>2, <4>2 DEF Enqueue
      <4> QED
        BY <4>1, <4>2
    <3>5. accepted' \in 0..MaxFrames
      BY <3>1, LinkAssumption
    <3> QED
      BY <3>4, <3>5 DEF QueueTyped
  <2>2. CASE ~FrameReady(collected, b)
    BY <1>3, <2>2 DEF LinkTyped, QueueTyped
  <2> QED
    BY <2>1, <2>2
<1> QED
  BY <1>3, <1>4, <1>5, <1>6, <1>7 DEF LinkTyped, ReaderTyped

LEMMA LinkTypedStep == RingInv /\ ParserInv /\ LinkTyped /\ [LinkNext]_linkVars => LinkTyped'
<1> SUFFICES ASSUME RingInv, ParserInv, LinkTyped, [LinkNext]_linkVars PROVE LinkTyped'
  OBVIOUS
<1>1. MaxFrames * FrameLen \in Nat /\ MaxFaults \in Nat /\ MaxOverrun \in Nat /\ ResyncBound \in Nat
  BY LinkAssumption, FrameFacts DEF ResyncBound
<1>2. CASE ByteArrives
  <2>1. /\ sent < MaxFrames * FrameLen /\ sent' = sent + 1
        /\ faults' = faults \/ (faults < MaxFaults /\ faults' = faults + 1)
        /\ overrun' \in {overrun, overrun + 1} /\ overrun' <= MaxOverrun
        /\ UNCHANGED <<poll, heard, quiet, queue, accepted, accounted, due, raced>>
    BY <1>2 DEF ByteArrives, pollVars, parseVars
  <2> QED
    BY <1>1, <2>1 DEF LinkTyped, LineTyped, ReaderTyped, QueueTyped
<1>3. CASE LineError
  <2>1. /\ sent < MaxFrames * FrameLen /\ sent' = sent + 1
        /\ faults < MaxFaults /\ faults' = faults + 1
        /\ due' = sent' + 1 /\ raced' \in BOOLEAN /\ heard' = 0 /\ quiet' = 0
        /\ UNCHANGED <<poll, queue, accepted, accounted, overrun>>
    BY <1>3 DEF LineError, pollVars, LinkTyped, LineTyped
  <2> QED
    BY <1>1, <2>1, FrameFacts DEF LinkTyped, LineTyped, ReaderTyped, QueueTyped
<1>4. CASE ReadPosition \/ ComparePosition \/ CountPending \/ NothingToTake \/ UNCHANGED linkVars
  <2>1. /\ UNCHANGED <<sent, faults, due, overrun, raced, heard, quiet, queue, accepted, accounted>>
        /\ poll' \in {"idle", "compare", "count", "take"}
    BY <1>4 DEF ReadPosition, ComparePosition, CountPending, NothingToTake, linkVars,
                lineVars, parseVars, pollVars, LinkTyped, ReaderTyped
  <2> QED
    BY <2>1 DEF LinkTyped, LineTyped, ReaderTyped, QueueTyped
<1>5. CASE Execute
  <2>1. /\ UNCHANGED <<sent, faults, due, overrun, raced, heard, quiet, accepted, poll>>
        /\ queue # <<>> /\ queue' = Tail(queue) /\ accounted' = accounted \union {Head(queue)}
    BY <1>5 DEF Execute, lineVars, parseVars, pollVars
  <2>2. /\ Tail(queue) \in Seq(1..MaxFrames) /\ Head(queue) \in 1..MaxFrames
        /\ Len(Tail(queue)) <= QueueLimit
    BY <2>1, LinkAssumption DEF LinkTyped, QueueTyped
  <2> QED
    BY <2>1, <2>2 DEF LinkTyped, LineTyped, ReaderTyped, QueueTyped
<1> QED
  BY <1>2, <1>3, <1>4, <1>5, TakeKeepsTyped DEF LinkNext, Poll

\* Every index stays in the ring, the parser's buffer never holds more than
\* its longest frame, the queue never more than its length, and only frames
\* that were sent are executed or refused.
THEOREM LinkIsTyped == FairLinkSpec => []LinkTypeOK
<1>1. RingInv /\ ParserInv /\ LinkTyped => LinkTypeOK
  <2> SUFFICES ASSUME RingInv, ParserInv, LinkTyped PROVE LinkTypeOK
    OBVIOUS
  <2>1. /\ collected \in Seq(Bytes) /\ Len(collected) \in Nat
        /\ \A i \in 1..Len(collected) : collected[i] \in Bytes
    BY DEF ParserInv
  <2>2. Len(collected) < FrameLen + MaxPayload
    <3>1. Len(collected) >= 4 => /\ Expected(collected) > Len(collected)
                                 /\ Expected(collected) \in Nat
                                 /\ Expected(collected) <= 5 + MaxPayload
      BY FrameFacts DEF ParserInv, Unfinished, Expected, PayloadLength
    <3> QED
      BY <2>1, <3>1, FrameFacts
  <2>3. \A i \in 1..Len(queue) : queue[i] \in 1..MaxFrames
    <3>1. \A S : queue \in Seq(S) => \A i \in 1..Len(queue) : queue[i] \in S
      OBVIOUS
    <3> QED
      BY <3>1 DEF LinkTyped, QueueTyped
  <2> QED
    BY <2>1, <2>2, <2>3
    DEF RingInv, ParserInv, LinkTyped, LineTyped, ReaderTyped, QueueTyped, LinkTypeOK
<1> QED
  BY <1>1, LinkInvariants, LinkTypedInit, LinkTypedStep, PTL DEF FairLinkSpec, LinkSpec
===============================================================================

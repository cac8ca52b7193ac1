--------------------------------- MODULE Uart ---------------------------------
(***************************************************************************)
(* The driver of the serial port (driver_lib/driver/uart.c): the FIFOs of  *)
(* the hardware, the interrupt handler, the task it posts to and, in a     *)
(* build with UART_BUFF_EN, the ring buffers between them and the          *)
(* application.  Without them the task echoes what comes in.               *)
(*                                                                         *)
(* Bytes are numbered in the order they come in or are written.            *)
(***************************************************************************)
EXTENDS Data

CONSTANTS
  FIFO_LEN,    \* UART_FIFO_LEN (128)
  TX_LIMIT,    \* fill level at which uart_tx_one_char() waits (126)
  RX_FULL,     \* threshold of the "rx fifo full" interrupt (100)
  TX_EMPTY,    \* threshold of the "tx fifo empty" interrupt (16)
  RX_SIZE,     \* UART_RX_BUFFER_SIZE (256)
  TX_SIZE,     \* UART_TX_BUFFER_SIZE (256)
  EVENTS,      \* uart_recvTaskQueueLen (10)
  MaxBytes     \* bound: bytes that come in and bytes that are written, together

ASSUME FifoAssumption == FIFO_LEN \in Nat /\ {TX_LIMIT, RX_FULL, TX_EMPTY} \subseteq 1..FIFO_LEN
ASSUME RingAssumption ==
  RX_SIZE \in Nat /\ RX_SIZE > FIFO_LEN /\ TX_SIZE \in Nat \ {0} /\ EVENTS \in Nat \ {0}

VARIABLES
  buffered,        \* UART_BUFF_EN
  rxFifo, txFifo,  \* the hardware's FIFOs
  rxRing, txRing,  \* pRxBuffer, pTxBuffer
  ena,             \* enabled interrupts
  latched,         \* interrupts that wait and are not a matter of a fill level
  fresh,           \* a byte came in since the last time-out of the receiver
  events,          \* events for uart_recvTask()
  echo,            \* bytes uart_recvTask() still has to echo, or -1
  came, taken,     \* history: bytes that came in and were kept; those the application got
  written, wire    \* history: bytes accepted for sending; those that left

uartVars == <<buffered, rxFifo, txFifo, rxRing, txRing, ena, latched, fresh, events, echo,
              came, taken, written, wire>>
uartTx == <<txFifo, txRing, written, wire>>
uartRx == <<rxFifo, rxRing, latched, fresh, events, came, taken>>

RX_INTS == {"FULL", "TOUT"}
NoEcho == -1
GARBAGE == 0

-------------------------------------------------------------------------------
(* struct UartBuffer.  What is read or written past its end is lost.       *)
UartBufInit(size) == [bytes |-> [i \in 0..(size - 1) |-> GARBAGE], in |-> 0, out |-> 0,
                      space |-> size, size |-> size]

CopyIn(ring, data) ==
  [ring EXCEPT
     !.bytes = [i \in DOMAIN @ |-> IF i \in ring.in..(ring.in + Len(data) - 1)
                                   THEN data[i - ring.in + 1] ELSE @[i]],
     !.in = (@ + Len(data)) % ring.size, !.space = @ - Len(data)]

CopyOut(ring, n) ==
  [i \in 1..n |-> IF ring.out + i <= ring.size THEN ring.bytes[ring.out + i - 1] ELSE GARBAGE]

UartBufCpy(ring, data) ==
  LET tail == ring.size - ring.in
  IN  IF tail >= Len(data) THEN CopyIn(ring, data)
      ELSE CopyIn(CopyIn(ring, Take(data, tail)), Drop(data, tail))

Consumed(ring, n) == [ring EXCEPT !.out = (@ + n) % ring.size, !.space = @ + n]

(* rx_buff_deq() on the ring: [ring, data].  The out position is wrapped   *)
(* only when it is behind the in position.                                 *)
Dequeued(ring, n) ==
  LET stored == ring.size - ring.space
      len == Lesser(n, stored)
      tail == ring.size - ring.out
      first == Consumed(ring, tail)
  IN  CASE ring.out <= ring.in ->
             [ring |-> [ring EXCEPT !.out = @ + len, !.space = @ + len], data |-> CopyOut(ring, len)]
        [] ring.out > ring.in /\ len > tail ->
             [ring |-> Consumed(first, len - tail),
              data |-> CopyOut(ring, tail) \o CopyOut(first, len - tail)]
        [] OTHER -> [ring |-> Consumed(ring, len), data |-> CopyOut(ring, len)]

(* Byte by byte, with the position wrapped at the end.                     *)
EnqueuedEach(ring, data) ==
  [ring EXCEPT
     !.bytes = [i \in DOMAIN @ |->
                  LET k == (i - ring.in + ring.size) % ring.size
                  IN  IF k < Len(data) THEN data[k + 1] ELSE @[i]],
     !.in = (@ + Len(data)) % ring.size, !.space = @ - Len(data)]
DequeuedEach(ring, n) ==
  [i \in 1..n |-> ring.bytes[(ring.out + i - 1) % ring.size]]

-------------------------------------------------------------------------------
(* The hardware.                                                           *)
Pending(int) ==
  CASE int = "FULL" -> Len(rxFifo) >= RX_FULL
    [] int = "EMPTY" -> Len(txFifo) < TX_EMPTY
    [] OTHER -> int \in latched

NextByte == Len(came) + Len(written) + 1

ByteArrives ==
  /\ NextByte <= MaxBytes
  /\ IF Len(rxFifo) < FIFO_LEN
     THEN /\ rxFifo' = Append(rxFifo, NextByte)
          /\ came' = Append(came, NextByte)
          /\ UNCHANGED latched
     ELSE /\ latched' = latched \cup {"OVF"}
          /\ UNCHANGED <<rxFifo, came>>
  /\ fresh' = TRUE
  /\ UNCHANGED <<buffered, uartTx, rxRing, ena, events, echo, taken>>

LineIdle ==
  /\ fresh
  /\ rxFifo # <<>>
  /\ fresh' = FALSE
  /\ latched' = latched \cup {"TOUT"}
  /\ UNCHANGED <<buffered, uartTx, rxFifo, rxRing, ena, events, echo, came, taken>>

FrameError ==
  /\ latched' = latched \cup {"FRM_ERR"}
  /\ UNCHANGED <<buffered, uartTx, rxFifo, rxRing, ena, fresh, events, echo, came, taken>>

ByteLeaves ==
  /\ txFifo # <<>>
  /\ txFifo' = Tail(txFifo)
  /\ wire' = Append(wire, Head(txFifo))
  /\ UNCHANGED <<buffered, uartRx, txRing, ena, echo, written>>

-------------------------------------------------------------------------------
(* uart0_rx_intr_handler(): one branch for each call.                      *)
Interrupt(int) == int \in ena /\ Pending(int)

RxInterrupt(int) ==
  /\ Interrupt(int)
  /\ ~Interrupt("FRM_ERR")
  /\ int = "TOUT" => ~Interrupt("FULL")
  /\ ena' = ena \ RX_INTS
  /\ latched' = latched \ {int}
  /\ events' = Lesser(events + 1, EVENTS)
  /\ UNCHANGED <<buffered, uartTx, rxFifo, rxRing, fresh, echo, came, taken>>

(* tx_start_uart_buffer() and tx_fifo_insert()                             *)
TxStart ==
  LET room == FIFO_LEN - Len(txFifo)
      stored == txRing.size - txRing.space
      n == Lesser(stored, room)
  IN  /\ txFifo' = txFifo \o DequeuedEach(txRing, n)
      /\ txRing' = Consumed(txRing, n)
      /\ ena' = IF stored > room THEN ena ELSE ena \ {"EMPTY"}

TxEmptyInterrupt ==
  /\ Interrupt("EMPTY")
  /\ \A int \in RX_INTS \cup {"FRM_ERR"} : ~Interrupt(int)
  /\ TxStart
  /\ UNCHANGED <<buffered, uartRx, echo, written, wire>>

ErrorInterrupt(int) ==
  /\ Interrupt(int)
  /\ int = "OVF" => \A other \in RX_INTS \cup {"FRM_ERR", "EMPTY"} : ~Interrupt(other)
  /\ latched' = latched \ {int}
  /\ UNCHANGED <<buffered, uartTx, rxFifo, rxRing, ena, fresh, events, echo, came, taken>>

-------------------------------------------------------------------------------
(* uart_recvTask() with the ring buffers: Uart_rx_buff_enq().              *)
RxBuffEnq ==
  /\ buffered
  /\ events > 0
  /\ events' = events - 1
  /\ IF Len(rxFifo) >= rxRing.space THEN UNCHANGED <<rxFifo, rxRing, ena>>
     ELSE /\ rxRing' = EnqueuedEach(rxRing, rxFifo)
          /\ rxFifo' = <<>>
          /\ ena' = IF rxRing'.space >= FIFO_LEN THEN ena \cup RX_INTS ELSE ena
  /\ UNCHANGED <<buffered, uartTx, latched, fresh, echo, came, taken>>

(* Without them: the bytes that are there are echoed, waiting for the FIFO.*)
EchoBegins ==
  /\ ~buffered
  /\ events > 0 /\ echo = NoEcho
  /\ echo' = Len(rxFifo)
  /\ UNCHANGED <<buffered, uartTx, uartRx, ena>>

EchoByte ==
  /\ echo > 0
  /\ Len(txFifo) < TX_LIMIT
  /\ echo' = echo - 1
  /\ rxFifo' = Tail(rxFifo)
  /\ taken' = Append(taken, Head(rxFifo))
  /\ txFifo' = Append(txFifo, Head(rxFifo))
  /\ written' = Append(written, Head(rxFifo))
  /\ UNCHANGED <<buffered, rxRing, txRing, ena, latched, fresh, events, came, wire>>

EchoEnds ==
  /\ echo = 0
  /\ echo' = NoEcho
  /\ events' = events - 1
  /\ latched' = latched \ {"TOUT"}
  /\ ena' = ena \cup RX_INTS
  /\ UNCHANGED <<buffered, uartTx, rxFifo, rxRing, fresh, came, taken>>

-------------------------------------------------------------------------------
(* The application: rx_buff_deq() and tx_buff_enq().                       *)
RxBuffDeqStaysMasked(n) ==
  /\ buffered
  /\ LET read == Dequeued(rxRing, n)
     IN  /\ rxRing' = read.ring
         /\ taken' = taken \o read.data
  /\ UNCHANGED <<buffered, uartTx, rxFifo, latched, fresh, ena, events, echo, came>>

RxBuffDeq(n) ==
  /\ buffered
  /\ LET read == Dequeued(rxRing, n)
     IN  /\ rxRing' = read.ring
         /\ taken' = taken \o read.data
         /\ ena' = IF read.ring.space >= FIFO_LEN THEN ena \cup RX_INTS ELSE ena
  /\ UNCHANGED <<buffered, uartTx, rxFifo, latched, fresh, events, echo, came>>

TxBuffEnq(n) ==
  LET data == [i \in 1..n |-> NextByte + i - 1]
  IN  /\ buffered
      /\ NextByte + n - 1 <= MaxBytes
      /\ IF n <= txRing.space
         THEN txRing' = UartBufCpy(txRing, data) /\ written' = written \o data
         ELSE UNCHANGED <<txRing, written>>
      /\ ena' = ena \cup {"EMPTY"}
      /\ UNCHANGED <<buffered, uartRx, txFifo, wire, echo>>

(* uart0_write_char_no_wait() in the build without rings: a full FIFO      *)
(* swallows the character.                                                 *)
TxOneCharNoWait ==
  /\ ~buffered /\ echo = NoEcho
  /\ NextByte <= MaxBytes
  /\ IF Len(txFifo) < TX_LIMIT
     THEN txFifo' = Append(txFifo, NextByte) /\ written' = Append(written, NextByte)
     ELSE UNCHANGED <<txFifo, written>>
  /\ UNCHANGED <<buffered, uartRx, txRing, ena, wire, echo>>

UartInit ==
  /\ buffered \in BOOLEAN
  /\ rxFifo = <<>> /\ txFifo = <<>>
  /\ rxRing = UartBufInit(RX_SIZE) /\ txRing = UartBufInit(TX_SIZE)
  /\ ena = RX_INTS \cup {"OVF", "FRM_ERR"}
  /\ latched = {} /\ fresh = FALSE
  /\ events = 0 /\ echo = NoEcho
  /\ came = <<>> /\ taken = <<>> /\ written = <<>> /\ wire = <<>>

UartNext ==
  \/ ByteArrives \/ LineIdle \/ FrameError \/ ByteLeaves
  \/ \E int \in RX_INTS : RxInterrupt(int)
  \/ TxEmptyInterrupt
  \/ \E int \in {"OVF", "FRM_ERR"} : ErrorInterrupt(int)
  \/ RxBuffEnq
  \/ EchoBegins \/ EchoByte \/ EchoEnds
  \/ \E n \in 1..RX_SIZE : RxBuffDeq(n)
  \/ \E n \in 1..TX_SIZE : TxBuffEnq(n)
  \/ TxOneCharNoWait

UartSpec == UartInit /\ [][UartNext]_uartVars

-------------------------------------------------------------------------------
Stored(ring) == DequeuedEach(ring, ring.size - ring.space)

(* Every byte that found room in the FIFO reaches the application, once    *)
(* and in order, however the ring buffer wraps: it must never be filled to *)
(* the brim, for rx_buff_deq() takes equal positions for an empty ring.    *)
RxIntact == taken \o Stored(rxRing) \o rxFifo = came

(* What was accepted for sending leaves once and in order.                 *)
TxIntact == wire \o txFifo \o Stored(txRing) = written

(* The driver is never deaf for good: the receive interrupts are off only  *)
(* while an event or data for the application wait, and handling the one   *)
(* or reading the other switches them on again.  If bytes wait to be sent, *)
(* the interrupt that sends them is on.                                    *)
UartAwake ==
  buffered =>
    /\ RX_INTS \subseteq ena \/ events > 0 \/ Stored(rxRing) # <<>>
    /\ Stored(txRing) # <<>> => "EMPTY" \in ena

(* No byte is lost, repeated or reordered between the two FIFOs and the    *)
(* ring buffers, and no interrupt stays masked that is needed to go on.    *)
UartLossless == RxIntact /\ TxIntact /\ UartAwake
===============================================================================

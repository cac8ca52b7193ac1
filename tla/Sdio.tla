---------------------------------- MODULE Sdio ----------------------------------
(***************************************************************************)
(* The SDIO slave (driver_lib/driver/sdio_slv.c): data for the host are    *)
(* collected in a fixed set of buffers, which wander between two linked    *)
(* lists: those that may be filled (pHead_Sended) and those that wait for  *)
(* the host to read them (pHead_ToSend).  A status register tells the host *)
(* what there is to read and whether it may write.                         *)
(*                                                                         *)
(* sdio_load_data() is taken in pieces, from one access of the lists to    *)
(* the next, and so is the handler of the interrupt; the host may read and *)
(* write between any two.  The driver does not turn its interrupt off      *)
(* while it loads, so LoadsMasked says whether the application does.       *)
(* An access through a pointer that is NULL ends the behaviour.            *)
(* Bytes are numbered in the order in which the application loads them.    *)
(***************************************************************************)
EXTENDS Data, FiniteSets

CONSTANTS
  RX_BUFFER_SIZE,  \* bytes of a buffer (512 in the code)
  RX_BUFFER_NUM,   \* buffers (4)
  LoadsMasked,     \* the application loads with the interrupt of the slave off
  LoadSizes,       \* how much it loads at once
  MaxLoaded,       \* bound: bytes loaded
  MaxHeard,        \* bound: the host reads until it has heard so many
  MaxHostWrites    \* bound: packets from the host

ASSUME SdioAssumption ==
  /\ RX_BUFFER_SIZE \in Nat \ {0} /\ RX_BUFFER_NUM \in Nat \ {0, 1}
  /\ LoadsMasked \in BOOLEAN /\ LoadSizes \subseteq Nat

Buffers == 1..RX_BUFFER_NUM
NIL == 0

VARIABLES
  link,        \* next of every buffer
  filled,      \* what is in it: the bytes up to its tail
  toSend,      \* [head, tail]: pHead_ToSend and pTail_ToSend
  sended,      \* [head, tail]: pHead_Sended and pTail_Sended
  has_read,    \* the host has read what was offered
  rxQue,       \* what the hardware holds ready for the host
  status,      \* the status register
  load,        \* [at, left, last, inCallback]: sdio_load_data(), where it is
  isr,         \* [at, serves]: sdio_slave_isr(), where it is and what it has still to serve
  pending,     \* the interrupts that wait
  heardByHost, \* history: what the host has read
  loaded,      \* history: how many bytes were taken from the application
  hostWrites   \* history: [sent, handled]: packets from the host

sdioQueues == <<link, filled, toSend, sended, has_read, rxQue, status>>
sdioVars == <<sdioQueues, load, isr, pending, heardByHost, loaded, hostWrites>>

-------------------------------------------------------------------------------
(* The functions of the driver work on all of this at once: q is           *)
(* [link, filled, toSend, sended, has_read, rxQue, status].                *)
Now == [link |-> link, filled |-> filled, toSend |-> toSend, sended |-> sended,
        has_read |-> has_read, rxQue |-> rxQue, status |-> status]

Becomes(q) ==
  /\ link' = q.link /\ filled' = q.filled /\ toSend' = q.toSend /\ sended' = q.sended
  /\ has_read' = q.has_read /\ rxQue' = q.rxQue /\ status' = q.status

Count(s) == (s.comm_cnt + 1) % 8

RxBuffReadDone(q) ==
  [q EXCEPT !.status = [@ EXCEPT !.comm_cnt = Count(q.status), !.rd_empty = TRUE,
                                 !.rx_length = 0, !.rx_available = FALSE]]

TxBuffWriteDone(q) ==
  [q EXCEPT !.status = [@ EXCEPT !.comm_cnt = Count(q.status), !.wr_busy = TRUE,
                                 !.tx_available = FALSE]]

TxBuffHandleDone(q) ==
  [q EXCEPT !.status = [@ EXCEPT !.wr_busy = FALSE, !.tx_available = TRUE]]

(* rx_buff_load_done() for the buffer at the head of those to send         *)
RxBuffLoadDone(q) ==
  LET data == q.filled[q.toSend.head]
  IN  IF data = <<>> THEN q
      ELSE [q EXCEPT !.rxQue = data,
                     !.status = [@ EXCEPT !.rd_empty = FALSE, !.rx_available = TRUE,
                                          !.rx_length = Len(data)]]

Offer(q) == [RxBuffLoadDone(q) EXCEPT !.has_read = FALSE]

SdioTryToLoad(q) == IF q.has_read /\ q.toSend.head # NIL THEN Offer(q) ELSE q

(* The first buffer that may be filled goes to those to send, in three     *)
(* pieces: it becomes their tail, the next one becomes the head of those   *)
(* that may be filled, and the list to send ends with it.                  *)
LinkTail(q) ==
  LET b == q.sended.head
  IN  IF q.toSend.head = NIL THEN [q EXCEPT !.toSend = [head |-> b, tail |-> b]]
      ELSE [q EXCEPT !.link[q.toSend.tail] = b, !.toSend.tail = b]

NextSended(q) == [q EXCEPT !.sended.head = q.link[q.sended.head]]

EndToSend(q) == [q EXCEPT !.link[q.toSend.tail] = NIL]

PutToSend(q) == EndToSend(NextSended(LinkTail(q)))

-------------------------------------------------------------------------------
(* sdio_load_data().  In the task it goes on when no handler runs, in the  *)
(* callback for a packet of the host it runs within the handler.           *)
Loads(at) == load.at = at /\ isr.at = IF load.inCallback THEN "callback" ELSE "idle"

SdioLoadData(len) ==
  /\ load.at = "idle" /\ isr.at \in {"idle", "callback"}
  /\ sended.head # NIL
  /\ loaded + len <= MaxLoaded
  /\ load' = [at |-> IF len = 0 THEN "test" ELSE "fill", left |-> len, last |-> FALSE,
              inCallback |-> isr.at = "callback"]
  /\ UNCHANGED <<sdioQueues, isr, pending, heardByHost, loaded, hostWrites>>

FillBuffer ==
  /\ Loads("fill")
  /\ sended.head # NIL
  /\ LET room == RX_BUFFER_SIZE - Len(filled[sended.head])
         n == Lesser(load.left, room)
     IN  /\ Becomes([Now EXCEPT !.filled[sended.head] = @ \o [i \in 1..n |-> loaded + i]])
         /\ loaded' = loaded + n
         /\ load' = [load EXCEPT !.left = @ - n,
                                 !.at = IF load.left < room THEN "test" ELSE "link"]
  /\ UNCHANGED <<isr, pending, heardByHost, hostWrites>>

Piece(at, q, next) ==
  /\ Loads(at)
  /\ Becomes(q)
  /\ load' = [load EXCEPT !.at = next]
  /\ UNCHANGED <<isr, pending, heardByHost, loaded, hostWrites>>

LoadLinks == sended.head # NIL /\ Piece("link", LinkTail(Now), "next")

LoadNext == sended.head # NIL /\ Piece("next", NextSended(Now), "end")

AfterEnd ==
  IF load.last THEN "offer" ELSE IF sended.head = NIL \/ load.left = 0 THEN "test" ELSE "fill"

LoadEnds == toSend.tail # NIL /\ Piece("end", EndToSend(Now), AfterEnd)

(* When nothing waits for the host, a buffer that is not full goes to it.  *)
LoadTests ==
  /\ Loads("test")
  /\ load' = IF toSend.head = NIL THEN [load EXCEPT !.at = "link", !.last = TRUE]
             ELSE [load EXCEPT !.at = "idle"]
  /\ UNCHANGED <<sdioQueues, isr, pending, heardByHost, loaded, hostWrites>>

LoadOffers == Piece("offer", SdioTryToLoad(Now), "idle")

-------------------------------------------------------------------------------
RecycleKeepsLink(q) ==
  LET b == q.toSend.head
      linked == IF q.sended.head = NIL THEN q.link ELSE [q.link EXCEPT ![q.sended.tail] = b]
  IN  [q EXCEPT !.filled[b] = <<>>,
                !.sended = [head |-> IF q.sended.head = NIL THEN b ELSE q.sended.head, tail |-> b],
                !.toSend.head = linked[b],
                !.link = linked]

(* sdio_read_done_process(): the buffer that was read may be filled again, *)
(* and the next one is offered, or the one that is being filled.           *)
Recycle(q) ==
  LET b == q.toSend.head
      linked == IF q.sended.head = NIL THEN q.link ELSE [q.link EXCEPT ![q.sended.tail] = b]
  IN  [q EXCEPT !.filled[b] = <<>>,
                !.sended = [head |-> IF q.sended.head = NIL THEN b ELSE q.sended.head, tail |-> b],
                !.toSend.head = linked[b],
                !.link = [linked EXCEPT ![b] = NIL]]

SdioReadDoneProcess(q) ==
  LET r == Recycle([q EXCEPT !.has_read = TRUE])
  IN  CASE r.toSend.head # NIL -> Offer(r)
        [] r.toSend.head = NIL /\ r.filled[r.sended.head] # <<>> -> Offer(PutToSend(r))
        [] OTHER -> r

ToHostDoneLate(q) == RxBuffReadDone(SdioReadDoneProcess(q))

ToHostDone(q) == SdioReadDoneProcess(RxBuffReadDone(q))

(* The handler takes the interrupts that wait, serves the reading, then    *)
(* the writing, and clears what came up meanwhile without serving it.  It  *)
(* interrupts a load, unless that runs with the interrupt off.             *)
Handles(at) ==
  /\ isr.at = at
  /\ load.at = "idle" \/ (~LoadsMasked /\ ~load.inCallback)

SdioSlaveIsr ==
  /\ Handles("idle")
  /\ pending # {}
  /\ isr' = [at |-> "read", serves |-> pending]
  /\ pending' = {}
  /\ UNCHANGED <<sdioQueues, load, heardByHost, loaded, hostWrites>>

IsrRead ==
  /\ Handles("read")
  /\ IF "rx_eof" \in isr.serves THEN toSend.head # NIL /\ Becomes(ToHostDone(Now))
     ELSE UNCHANGED sdioQueues
  /\ isr' = [at |-> "write", serves |-> isr.serves \ {"rx_eof"}]
  /\ UNCHANGED <<load, pending, heardByHost, loaded, hostWrites>>

IsrWrite ==
  /\ Handles("write")
  /\ IF "tx_eof" \in isr.serves
     THEN Becomes(TxBuffWriteDone(Now)) /\ isr' = [at |-> "callback", serves |-> {}]
     ELSE UNCHANGED sdioQueues /\ isr' = [at |-> "clear", serves |-> {}]
  /\ UNCHANGED <<load, pending, heardByHost, loaded, hostWrites>>

IsrHandled ==
  /\ Handles("callback")
  /\ Becomes(TxBuffHandleDone(Now))
  /\ isr' = [isr EXCEPT !.at = "clear"]
  /\ hostWrites' = [hostWrites EXCEPT !.handled = @ + 1]
  /\ UNCHANGED <<load, pending, heardByHost, loaded>>

IsrClears ==
  /\ Handles("clear")
  /\ isr' = [isr EXCEPT !.at = "idle"]
  /\ pending' = {}
  /\ UNCHANGED <<sdioQueues, load, heardByHost, loaded, hostWrites>>

-------------------------------------------------------------------------------
(* The host goes by the status register and by the hardware: what it has   *)
(* read is not offered again, what it has written waits to be handled, as  *)
(* long as the interrupt waits or is being served.                         *)
InHand == pending \cup isr.serves

HostReads ==
  /\ status.rx_available
  /\ "rx_eof" \notin InHand
  /\ Len(heardByHost) < MaxHeard
  /\ heardByHost' = heardByHost \o Take(rxQue, status.rx_length)
  /\ pending' = pending \cup {"rx_eof"}
  /\ UNCHANGED <<sdioQueues, load, isr, loaded, hostWrites>>

HostWrites ==
  /\ ~status.wr_busy
  /\ "tx_eof" \notin InHand
  /\ hostWrites.sent < MaxHostWrites
  /\ hostWrites' = [hostWrites EXCEPT !.sent = @ + 1]
  /\ pending' = pending \cup {"tx_eof"}
  /\ UNCHANGED <<sdioQueues, load, isr, heardByHost, loaded>>

SdioInit ==
  /\ link = [b \in Buffers |-> IF b < RX_BUFFER_NUM THEN b + 1 ELSE NIL]
  /\ filled = [b \in Buffers |-> <<>>]
  /\ toSend = [head |-> NIL, tail |-> NIL]
  /\ sended = [head |-> 1, tail |-> RX_BUFFER_NUM]
  /\ has_read = TRUE
  /\ rxQue = <<>>
  /\ status = [comm_cnt |-> 7, wr_busy |-> FALSE, rd_empty |-> TRUE, rx_length |-> 0,
               rx_available |-> FALSE, tx_available |-> FALSE]
  /\ load = [at |-> "idle", left |-> 0, last |-> FALSE, inCallback |-> FALSE]
  /\ isr = [at |-> "idle", serves |-> {}]
  /\ pending = {}
  /\ heardByHost = <<>>
  /\ loaded = 0
  /\ hostWrites = [sent |-> 0, handled |-> 0]

SdioNext ==
  \/ \E len \in LoadSizes : SdioLoadData(len)
  \/ FillBuffer \/ LoadLinks \/ LoadNext \/ LoadEnds \/ LoadTests \/ LoadOffers
  \/ SdioSlaveIsr \/ IsrRead \/ IsrWrite \/ IsrHandled \/ IsrClears
  \/ HostReads
  \/ HostWrites

SdioSpec == SdioInit /\ [][SdioNext]_sdioVars

-------------------------------------------------------------------------------
(* The buffers from b on, in the order of their links.                     *)
Chain(b0) ==
  LET step[n \in 0..RX_BUFFER_NUM] ==
        IF n = 0 THEN [at |-> b0, seen |-> <<>>]
        ELSE LET s == step[n - 1]
             IN  IF s.at = NIL THEN s ELSE [at |-> link[s.at], seen |-> Append(s.seen, s.at)]
  IN  step[RX_BUFFER_NUM].seen

SeqSet(s) == {s[i] : i \in DOMAIN s}

(* Between the three pieces by which a load moves a buffer the lists are   *)
(* not whole.                                                              *)
Moving == load.at \in {"next", "end"}

(* If loads run with the interrupt off: whatever the order of loads (empty *)
(* ones and those of the callback, too), reads and interrupts, every       *)
(* buffer is on exactly one of the lists, once, and the tails are the      *)
(* ends.  An interrupt during a load can break it, see                     *)
(* IntrWhileLoading.cfg.                                                   *)
BuffersOnOneList ==
  ~Moving =>
    LET waiting == Chain(toSend.head)
        free == Chain(sended.head)
    IN  /\ Len(waiting) + Len(free) = RX_BUFFER_NUM
        /\ SeqSet(waiting) \cup SeqSet(free) = Buffers
        /\ waiting # <<>> => toSend.tail = waiting[Len(waiting)]
        /\ free # <<>> => sended.tail = free[Len(free)]

(* What is in these buffers.                                               *)
Bytes(chain) ==
  LET bytes[n \in 0..Len(chain)] == IF n = 0 THEN <<>> ELSE bytes[n - 1] \o filled[chain[n]]
  IN  bytes[Len(chain)]

(* The buffers hold the last of the bytes that were taken from the         *)
(* application, in their order; the host has heard those before them, and  *)
(* none before the one that was loaded before it.  That it hears every     *)
(* byte only once the code does not give: see HostHearsOnce.               *)
HostMissesNothing ==
  ~Moving =>
    LET unread == Bytes(Chain(toSend.head) \o Chain(sended.head))
        first == loaded - Len(unread)
    IN  /\ unread = [i \in 1..Len(unread) |-> first + i]
        /\ 1..first \subseteq SeqSet(heardByHost)
        /\ \A i \in DOMAIN heardByHost :
             heardByHost[i] = 1 \/ \E j \in 1..(i - 1) : heardByHost[j] = heardByHost[i] - 1

(* What is offered is the first buffer that waits, and the status register *)
(* gives its length; only an empty buffer is offered without a word.       *)
StatusTellsWhatIsOffered ==
  IF has_read THEN ~status.rx_available
  ELSE ~Moving =>
         /\ toSend.head # NIL
         /\ IF status.rx_available
            THEN rxQue = filled[toSend.head] /\ status.rx_length = Len(rxQue)
            ELSE filled[toSend.head] = <<>>

(* The host hears the bytes in the order in which they were loaded and     *)
(* misses none, and the status register tells it what is offered.          *)
HostServed == HostMissesNothing /\ StatusTellsWhatIsOffered

-------------------------------------------------------------------------------
(* What comments of the source say and the code does not give: the handler *)
(* processes every interrupt (sdio_slv.c:212), so that the host does not   *)
(* find on offer what it has read already,                                 *)
HostHearsOnce == \A i, j \in DOMAIN heardByHost : heardByHost[i] = heardByHost[j] => i = j

(* and a buffer that waits is ready for being read (sdio_slv.c:332).       *)
WaitingIsOffered == load.at = "idle" /\ isr.at = "idle" => (toSend.head # NIL => ~has_read)
===============================================================================

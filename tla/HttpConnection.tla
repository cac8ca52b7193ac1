---------------------------- MODULE HttpConnection ----------------------------
(***************************************************************************)
(* One connection of the web server (libesphttpd/core/httpd.c): the send   *)
(* buffer of the handler that runs, the chunked framing of an answer, the  *)
(* backlog of packets that espconn_sent() refused, and the end of a CGI.   *)
(*                                                                         *)
(* A handler runs to its end, so it is computed on a record h:             *)
(*   h.c  the connection (HttpdConnData, its post and priv),               *)
(*   h.t  the TCP connection below it and what the client has received,    *)
(*   h.s  what all connections share (the state of the web interface),     *)
(*   h.e  what fails while the handler runs: espconn_sent() (refuse), the  *)
(*        memory for the send buffer (nomem) or for a packet in the backlog *)
(*        (noitem), a call of a CGI function (refuses_call).                *)
(* Lengths are in bytes.  The contents of an answer are pieces, numbered   *)
(* in the order in which the CGI functions hand them to httpdSend().       *)
(***************************************************************************)
EXTENDS Integers, Sequences, FiniteSets, SequencesExt

CONSTANTS
  HttpFaults,  \* what may fail: see HttpFaultKinds
  MaxUnsent    \* packets espconn_sent() takes before one is acknowledged

HttpFaultKinds == {"refuse", "nomem", "post_alloc"}

ASSUME HttpFaultsAssumption == HttpFaults \subseteq HttpFaultKinds
ASSUME MaxUnsentAssumption == MaxUnsent \in Nat \ {0}

HTTPD_MAX_SENDBUFF_LEN == 2048
HTTPD_MAX_BACKLOG_SIZE == 4096

(* "NULL" for a pointer to a CGI function, NoData for cgiData.             *)
NoData == -1
NoUrl == [name |-> "NULL", bytes |-> 0]

(* A connection as httpdConnectCb() leaves it in its slot.                 *)
NewConnection(client) ==
  [remote |-> client, conn |-> TRUE, url |-> NoUrl, cgi |-> "NULL",
   cgiData |-> NoData, len |-> -1, buffSize |-> 0, received |-> 0,
   buff |-> <<>>, chunked |-> FALSE, sendingBody |-> FALSE, discon |-> FALSE,
   backlog |-> <<>>, made |-> 0, out |-> <<>>, outLen |-> 0, chunkHdr |-> FALSE,
   framed |-> TRUE]

(* httpdSend(): data that does not fit is not sent at all, and no CGI looks *)
(* at the result.  The first data of a body opens a chunk.                 *)
Send(h, len) ==
  LET opens == h.c.chunked /\ h.c.sendingBody /\ ~h.c.chunkHdr
      size == len + (IF opens THEN 6 ELSE 0)
  IN  CASE ~h.c.conn \/ len = 0 -> h
        [] h.c.conn /\ len # 0 /\ h.c.outLen + size > HTTPD_MAX_SENDBUFF_LEN ->
             [h EXCEPT !.c.made = @ + 1]
        [] OTHER ->
             [h EXCEPT !.c.made = @ + 1,
                       !.c.out = Append(@, h.c.made + 1),
                       !.c.outLen = @ + size,
                       !.c.chunkHdr = @ \/ opens]

(* httpdStartResponse(), httpdHeader() and httpdEndHeaders().              *)
Headers(h, len) == [Send(h, len) EXCEPT !.c.sendingBody = TRUE]

-------------------------------------------------------------------------------
(* The client receives packets in the order in which espconn_sent() took   *)
(* them.  It notices a missing piece and a chunk of the wrong length.      *)
Transmitted(h, packet) ==
  [h EXCEPT
     !.t.unsent = @ + 1,
     !.t.got = IF packet.ends THEN 0 ELSE @ + Len(packet.pieces),
     !.t.garbled = \/ @ \/ ~packet.framed
                   \/ packet.pieces # [i \in 1..Len(packet.pieces) |-> h.t.got + i],
     !.t.waiting = @ /\ ~packet.ends]

TakesAlways(h) == ~h.e.refuse

(* espconn_sent() by way of httpdPlatSendData().                           *)
Takes(h) == h.t.unsent < MaxUnsent /\ ~h.e.refuse

BacklogSize(backlog) ==
  FoldSeq(LAMBDA packet, size : size + packet.len, 0, backlog)

Emptied(h) == [h EXCEPT !.c.out = <<>>, !.c.outLen = 0, !.c.framed = TRUE]

(* The end of a chunk: its "\r\n" goes through httpdSend(), which may have *)
(* no room for it; the length put in the header is computed as if it had.  *)
FixUpChunk(h) ==
  IF ~h.c.chunkHdr THEN h
  ELSE LET fits == h.c.outLen + 2 <= HTTPD_MAX_SENDBUFF_LEN
       IN  [h EXCEPT !.c.outLen = IF fits THEN @ + 2 ELSE @,
                     !.c.framed = @ /\ fits,
                     !.c.chunkHdr = FALSE]

(* The empty chunk that ends an answer.                                    *)
EndsAnswer(h) == h.c.chunked /\ h.c.sendingBody /\ h.c.cgi = "NULL"

LastChunk(h) ==
  IF ~EndsAnswer(h) THEN h
  ELSE [h EXCEPT !.c.outLen = @ + 5, !.c.made = @ + 1,
                 !.c.out = Append(@, h.c.made + 1)]

FlushWithoutBacklog(h) ==
  LET full == LastChunk(FixUpChunk(h))
      packet == [len |-> full.c.outLen, pieces |-> full.c.out,
                 ends |-> EndsAnswer(h), framed |-> full.c.framed]
  IN  CASE ~h.c.conn -> h
        [] h.c.conn /\ packet.len # 0 /\ Takes(h) -> Emptied(Transmitted(full, packet))
        [] OTHER -> Emptied(full)

(* httpdFlushSendBuffer(): hand the buffer to espconn_sent(), or keep it in *)
(* the backlog when that refuses; it is dropped when the backlog is full,  *)
(* and stays in the (freed) buffer when no memory is left for the item.    *)
FlushSendBuffer(h) ==
  LET full == LastChunk(FixUpChunk(h))
      packet == [len |-> full.c.outLen, pieces |-> full.c.out,
                 ends |-> EndsAnswer(h), framed |-> full.c.framed]
      refused == h.c.conn /\ packet.len # 0 /\ ~Takes(h)
      fits == BacklogSize(h.c.backlog) + packet.len <= HTTPD_MAX_BACKLOG_SIZE
  IN  CASE ~h.c.conn -> h
        [] h.c.conn /\ packet.len # 0 /\ Takes(h) -> Emptied(Transmitted(full, packet))
        [] refused /\ fits /\ h.e.noitem -> full
        [] refused /\ fits /\ ~h.e.noitem -> Emptied([full EXCEPT !.c.backlog = Append(@, packet)])
        [] OTHER -> Emptied(full)

CgiIsDoneKeepsPost(h) ==
  LET done == [h EXCEPT !.c.cgi = "NULL", !.c.url = NoUrl, !.c.cgiData = NoData]
  IN  IF h.c.chunked THEN FlushSendBuffer(done) ELSE [done EXCEPT !.c.discon = TRUE]

(* httpdCgiIsDone(): a chunked answer is flushed and the connection made   *)
(* ready for its next request; any other connection will be closed once    *)
(* the answer has been sent.  (url and cgiData, set again before they are  *)
(* read again, are forgotten here.)                                        *)
CgiIsDone(h) ==
  LET done == [h EXCEPT !.c.cgi = "NULL", !.c.url = NoUrl, !.c.cgiData = NoData]
  IN  IF ~h.c.chunked THEN [done EXCEPT !.c.discon = TRUE]
      ELSE [FlushSendBuffer(done) EXCEPT
              !.c.len = -1, !.c.chunked = FALSE, !.c.sendingBody = FALSE,
              !.c.discon = FALSE, !.c.buff = <<>>, !.c.received = 0, !.c.made = 0]
===============================================================================

---------------------------- MODULE WebServerProofs ----------------------------
(***************************************************************************)
(* Proofs about the web server, for any number of clients and any size of  *)
(* the connection pool: slots and files come back, the scan flag is true,  *)
(* and nothing that is left to do is forgotten.                            *)
(*                                                                         *)
(* A callback is a chain of functions on a handler's record; the lemmas    *)
(* follow that chain from httpdSend() up to httpdRecvCb().                 *)
(***************************************************************************)
EXTENDS WebServer, FiniteSetTheorems, WellFoundedInduction, TLAPS

Handlers == [c : Connections, t : TcpConnections, s : SharedVariables, e : Outcomes]

SameRequest(c, d) ==
  /\ d.remote = c.remote /\ d.conn = c.conn /\ d.url = c.url
  /\ d.cgi = c.cgi /\ d.cgiData = c.cgiData /\ d.len = c.len
  /\ d.buffSize = c.buffSize /\ d.received = c.received /\ d.buff = c.buff
  /\ d.chunked = c.chunked /\ d.discon = c.discon

(* What sending leaves alone: all but the buffers and what is under way.   *)
OnlySends(h, g) ==
  /\ g \in Handlers
  /\ g.s = h.s /\ g.e = h.e /\ g.t.state = h.t.state
  /\ SameRequest(h.c, g.c)

(* A packet is on its way, or data that the end of the handler will send.  *)
Awaits(h) == h.t.unsent > 0 \/ h.c.outLen > 0

(* Nothing has failed and the connection stands.                           *)
Calm(h) ==
  /\ ~faulted /\ h.t.state = "OPEN" /\ h.c.conn
  /\ ~h.e.refuse /\ ~h.e.nomem /\ ~h.e.noitem

(* What sending does then: what is on its way stays so, and nothing is     *)
(* kept back but behind a packet that is.                                  *)
Moves(h, g) ==
  Calm(h) => /\ Awaits(h) => Awaits(g)
             /\ g.c.backlog # <<>> => h.c.backlog # <<>> \/ Awaits(g)

Sends(h, g) == OnlySends(h, g) /\ Moves(h, g)

(* What an empty send buffer takes, with the header of a chunk.            *)
Fits(len) == len \in 1..2042

-------------------------------------------------------------------------------
(* Records.                                                                *)
LEMMA HandlerFields ==
  ASSUME NEW h \in Handlers
  PROVE  /\ h.c \in Connections /\ h.t \in TcpConnections
         /\ h.s \in SharedVariables /\ h.e \in Outcomes
BY DEF Handlers

LEMMA NewFields ==
  ASSUME NEW h \in Handlers
  PROVE  /\ \A c \in Connections : /\ [h EXCEPT !.c = c] \in Handlers
                                   /\ [h EXCEPT !.c = c].c = c
                                   /\ [h EXCEPT !.c = c].t = h.t
                                   /\ [h EXCEPT !.c = c].s = h.s
                                   /\ [h EXCEPT !.c = c].e = h.e
         /\ \A t \in TcpConnections : /\ [h EXCEPT !.t = t] \in Handlers
                                      /\ [h EXCEPT !.t = t].c = h.c
                                      /\ [h EXCEPT !.t = t].t = t
                                      /\ [h EXCEPT !.t = t].s = h.s
                                      /\ [h EXCEPT !.t = t].e = h.e
         /\ \A s \in SharedVariables : /\ [h EXCEPT !.s = s] \in Handlers
                                       /\ [h EXCEPT !.s = s].c = h.c
                                       /\ [h EXCEPT !.s = s].t = h.t
                                       /\ [h EXCEPT !.s = s].s = s
                                       /\ [h EXCEPT !.s = s].e = h.e
BY DEF Handlers

LEMMA OnlySendsNothing ==
  ASSUME NEW h \in Handlers
  PROVE  OnlySends(h, h)
BY DEF OnlySends, SameRequest

LEMMA OnlySendsTwice ==
  ASSUME NEW f, NEW g, NEW h, OnlySends(f, g), OnlySends(g, h)
  PROVE  OnlySends(f, h)
BY DEF OnlySends, SameRequest

LEMMA SendsNothing ==
  ASSUME NEW h \in Handlers
  PROVE  Sends(h, h)
BY OnlySendsNothing DEF Sends, Moves

LEMMA SendsTwice ==
  ASSUME NEW f, NEW g, NEW h, Sends(f, g), Sends(g, h)
  PROVE  Sends(f, h)
<1>1. OnlySends(f, h)
  BY OnlySendsTwice DEF Sends
<1>2. Calm(f) => Calm(g)
  BY DEF Sends, OnlySends, SameRequest, Calm
<1> QED
  BY <1>1, <1>2 DEF Sends, Moves

LEMMA NewBuffers ==
  ASSUME NEW h \in Handlers, NEW c \in Connections, SameRequest(h.c, c)
  PROVE  OnlySends(h, [h EXCEPT !.c = c])
BY NewFields DEF OnlySends

-------------------------------------------------------------------------------
(* HttpConnection.                                                         *)
LEMMA SendSends ==
  ASSUME NEW h \in Handlers, NEW len \in Nat
  PROVE  /\ Sends(h, Send(h, len))
         /\ Calm(h) /\ Fits(len) => Awaits(Send(h, len))
<1> DEFINE opens == h.c.chunked /\ h.c.sendingBody /\ ~h.c.chunkHdr
           size == len + (IF opens THEN 6 ELSE 0)
           dropped == [h.c EXCEPT !.made = @ + 1]
           sent == [h.c EXCEPT !.made = @ + 1, !.out = Append(@, h.c.made + 1),
                               !.outLen = @ + size, !.chunkHdr = @ \/ opens]
<1>1. h.c \in Connections
  BY HandlerFields
<1>2. /\ h.c.made + 1 \in Nat
      /\ Append(h.c.out, h.c.made + 1) \in Seq(Nat)
      /\ h.c.outLen \in Nat /\ h.c.chunkHdr \in BOOLEAN
  BY <1>1 DEF Connections
<1>3. CASE ~h.c.conn \/ len = 0
  <2>1. Send(h, len) = h
    BY <1>3 DEF Send
  <2>2. ~(Calm(h) /\ Fits(len))
    BY <1>3 DEF Calm, Fits
  <2> QED
    BY <2>1, <2>2, SendsNothing
<1>4. CASE h.c.conn /\ len # 0 /\ h.c.outLen + size > HTTPD_MAX_SENDBUFF_LEN
  <2>1. Send(h, len) = [h EXCEPT !.c = dropped]
    <3>1. Send(h, len) = [h EXCEPT !.c.made = @ + 1]
      BY <1>4 DEF Send
    <3> QED
      BY <3>1
  <2>2. dropped \in Connections
    <3>1. \A n \in Nat : [h.c EXCEPT !.made = n] \in Connections
      BY <1>1 DEF Connections
    <3> QED
      BY <1>2, <3>1
  <2>3. /\ SameRequest(h.c, dropped)
        /\ dropped.backlog = h.c.backlog /\ dropped.outLen = h.c.outLen
    BY <1>1 DEF Connections, SameRequest
  <2>4. Fits(len) => h.c.outLen > 0
    BY <1>2, <1>4 DEF HTTPD_MAX_SENDBUFF_LEN, Fits
  <2> HIDE DEF dropped
  <2> DEFINE g == [h EXCEPT !.c = dropped]
  <2>5. OnlySends(h, g) /\ g.c = dropped /\ g.t = h.t
    BY <2>2, <2>3, NewBuffers, NewFields
  <2> HIDE DEF g
  <2>6. Send(h, len) = g
    BY <2>1 DEF g
  <2>7. Sends(h, g)
    BY <2>3, <2>4, <2>5 DEF Sends, Moves, Awaits
  <2>8. Fits(len) => Awaits(g)
    BY <2>3, <2>4, <2>5 DEF Awaits
  <2> QED
    BY <2>6, <2>7, <2>8
<1>5. CASE h.c.conn /\ len # 0 /\ ~(h.c.outLen + size > HTTPD_MAX_SENDBUFF_LEN)
  <2>1. Send(h, len) = [h EXCEPT !.c = sent]
    <3>1. Send(h, len) = [h EXCEPT !.c.made = @ + 1, !.c.out = Append(@, h.c.made + 1),
                                   !.c.outLen = @ + size, !.c.chunkHdr = @ \/ opens]
      BY <1>5 DEF Send
    <3> QED
      BY <3>1
  <2>2. sent \in Connections
    <3>1. \A n \in Nat, o \in Seq(Nat), l \in Nat, b \in BOOLEAN :
            [h.c EXCEPT !.made = n, !.out = o, !.outLen = l, !.chunkHdr = b] \in Connections
      BY <1>1, ZenonT(60) DEF Connections
    <3>2. size \in Nat /\ (h.c.chunkHdr \/ opens) \in BOOLEAN
      BY <1>2
    <3>3. h.c.outLen + size \in Nat
      BY <1>2, <3>2
    <3> HIDE DEF size, opens
    <3> QED
      BY <1>2, <3>1, <3>2, <3>3
  <2>3. /\ SameRequest(h.c, sent)
        /\ sent.backlog = h.c.backlog /\ sent.outLen = h.c.outLen + size
    BY <1>1 DEF Connections, SameRequest
  <2>4. sent.outLen > 0
    BY <1>2, <1>5, <2>3
  <2> HIDE DEF sent
  <2> DEFINE g == [h EXCEPT !.c = sent]
  <2>5. OnlySends(h, g) /\ g.c = sent /\ g.t = h.t
    BY <2>2, <2>3, NewBuffers, NewFields
  <2> HIDE DEF g
  <2>6. Send(h, len) = g
    BY <2>1 DEF g
  <2>7. Sends(h, g)
    BY <2>3, <2>4, <2>5 DEF Sends, Moves, Awaits
  <2>8. Fits(len) => Awaits(g)
    BY <2>3, <2>4, <2>5 DEF Awaits
  <2> QED
    BY <2>6, <2>7, <2>8
<1> QED
  BY <1>3, <1>4, <1>5

LEMMA HeadersSends ==
  ASSUME NEW h \in Handlers, NEW len \in Nat
  PROVE  /\ Sends(h, Headers(h, len))
         /\ Calm(h) /\ Fits(len) => Awaits(Headers(h, len))
<1> DEFINE sent == Send(h, len)
           c == [sent.c EXCEPT !.sendingBody = TRUE]
           g == [sent EXCEPT !.c = c]
<1>1. Sends(h, sent) /\ (Calm(h) /\ Fits(len) => Awaits(sent))
  BY SendSends
<1>2. Headers(h, len) = g
  BY DEF Headers
<1>3. sent \in Handlers /\ sent.c \in Connections
  BY <1>1, HandlerFields DEF Sends, OnlySends
<1> HIDE DEF sent
<1>4. c \in Connections
  BY <1>3 DEF Connections
<1>5. SameRequest(sent.c, c) /\ c.backlog = sent.c.backlog /\ c.outLen = sent.c.outLen
  BY <1>3 DEF Connections, SameRequest
<1> HIDE DEF c
<1>6. OnlySends(sent, g) /\ g.c = c /\ g.t = sent.t
  BY <1>3, <1>4, <1>5, NewBuffers, NewFields
<1> HIDE DEF g
<1>7. Sends(sent, g) /\ (Awaits(sent) => Awaits(g))
  BY <1>5, <1>6 DEF Sends, Moves, Awaits
<1> QED
  BY <1>1, <1>2, <1>7, SendsTwice

LEMMA TransmittedOnlySends ==
  ASSUME NEW h \in Handlers, h.t.unsent < MaxUnsent, NEW packet \in Packets
  PROVE  OnlySends(h, Transmitted(h, packet))
<1> DEFINE got == IF packet.ends THEN 0 ELSE h.t.got + Len(packet.pieces)
           garbled == \/ h.t.garbled \/ ~packet.framed
                      \/ packet.pieces # [i \in 1..Len(packet.pieces) |-> h.t.got + i]
           waiting == h.t.waiting /\ ~packet.ends
           t == [h.t EXCEPT !.unsent = h.t.unsent + 1, !.got = got, !.garbled = garbled,
                            !.waiting = waiting]
<1>1. h.t \in TcpConnections
  BY HandlerFields
<1>2. Transmitted(h, packet) = [h EXCEPT !.t = t]
  BY DEF Transmitted
<1>3. h.t.unsent + 1 \in 0..MaxUnsent
  BY <1>1, MaxUnsentAssumption DEF TcpConnections
<1>4. got \in Nat
  BY <1>1 DEF TcpConnections, Packets
<1>5. garbled \in BOOLEAN /\ waiting \in BOOLEAN
  BY <1>1 DEF TcpConnections, Packets
<1>6. \A u \in 0..MaxUnsent, n \in Nat, b1, b2 \in BOOLEAN :
        LET r == [h.t EXCEPT !.unsent = u, !.got = n, !.garbled = b1, !.waiting = b2]
        IN  r \in TcpConnections /\ r.state = h.t.state
  BY <1>1 DEF TcpConnections
<1> HIDE DEF got, garbled, waiting
<1>7. t \in TcpConnections /\ t.state = h.t.state
  BY <1>3, <1>4, <1>5, <1>6, ZenonT(60)
<1> HIDE DEF t
<1> QED
  BY <1>2, <1>7, NewFields DEF OnlySends, SameRequest

LEMMA FixUpChunkOnlySends ==
  ASSUME NEW h \in Handlers
  PROVE  OnlySends(h, FixUpChunk(h))
<1> DEFINE fits == h.c.outLen + 2 <= HTTPD_MAX_SENDBUFF_LEN
           len == IF fits THEN h.c.outLen + 2 ELSE h.c.outLen
           framed == h.c.framed /\ fits
           c == [h.c EXCEPT !.outLen = len, !.framed = framed, !.chunkHdr = FALSE]
<1>1. h.c \in Connections
  BY HandlerFields
<1>2. FixUpChunk(h) = h \/ FixUpChunk(h) = [h EXCEPT !.c = c]
  BY DEF FixUpChunk
<1>3. len \in Nat /\ framed \in BOOLEAN
  BY <1>1 DEF Connections
<1>4. \A l \in Nat, b \in BOOLEAN :
        [h.c EXCEPT !.outLen = l, !.framed = b, !.chunkHdr = FALSE] \in Connections
  BY <1>1 DEF Connections
<1>5. SameRequest(h.c, c)
  BY <1>1 DEF Connections, SameRequest
<1> HIDE DEF len, framed
<1>6. c \in Connections
  BY <1>3, <1>4
<1> HIDE DEF c
<1> QED
  BY <1>2, <1>5, <1>6, NewBuffers, OnlySendsNothing

LEMMA LastChunkOnlySends ==
  ASSUME NEW h \in Handlers
  PROVE  OnlySends(h, LastChunk(h))
<1> DEFINE c == [h.c EXCEPT !.outLen = h.c.outLen + 5, !.made = h.c.made + 1,
                            !.out = Append(h.c.out, h.c.made + 1)]
<1>1. h.c \in Connections
  BY HandlerFields
<1>2. LastChunk(h) = h \/ LastChunk(h) = [h EXCEPT !.c = c]
  BY DEF LastChunk
<1>3. h.c.outLen + 5 \in Nat /\ h.c.made + 1 \in Nat /\ Append(h.c.out, h.c.made + 1) \in Seq(Nat)
  BY <1>1 DEF Connections
<1>4. \A l, n \in Nat, o \in Seq(Nat) :
        [h.c EXCEPT !.outLen = l, !.made = n, !.out = o] \in Connections
  BY <1>1 DEF Connections
<1>5. SameRequest(h.c, c)
  BY <1>1 DEF Connections, SameRequest
<1>6. c \in Connections
  BY <1>3, <1>4
<1> HIDE DEF c
<1> QED
  BY <1>2, <1>5, <1>6, NewBuffers, OnlySendsNothing

LEMMA EmptiedOnlySends ==
  ASSUME NEW h \in Handlers
  PROVE  OnlySends(h, Emptied(h))
<1> DEFINE c == [h.c EXCEPT !.out = <<>>, !.outLen = 0, !.framed = TRUE]
<1>1. h.c \in Connections
  BY HandlerFields
<1>2. Emptied(h) = [h EXCEPT !.c = c]
  BY DEF Emptied
<1>3. \A o \in Seq(Nat), l \in Nat, b \in BOOLEAN :
        [h.c EXCEPT !.out = o, !.outLen = l, !.framed = b] \in Connections
  BY <1>1 DEF Connections
<1>4. <<>> \in Seq(Nat) /\ 0 \in Nat /\ TRUE \in BOOLEAN
  OBVIOUS
<1>5. c \in Connections
  BY <1>3, <1>4
<1>6. SameRequest(h.c, c)
  BY <1>1 DEF Connections, SameRequest
<1> HIDE DEF c
<1> QED
  BY <1>2, <1>5, <1>6, NewBuffers

(* Keeping a packet in the backlog.                                        *)
LEMMA KeptOnlySends ==
  ASSUME NEW h \in Handlers, NEW packet \in Packets
  PROVE  OnlySends(h, [h EXCEPT !.c.backlog = Append(@, packet)])
<1> DEFINE kept == Append(h.c.backlog, packet)
           c == [h.c EXCEPT !.backlog = kept]
<1>1. h.c \in Connections
  BY HandlerFields
<1>2. [h EXCEPT !.c.backlog = Append(@, packet)] = [h EXCEPT !.c = c]
  OBVIOUS
<1>3. kept \in Seq(Packets)
  BY <1>1 DEF Connections
<1> HIDE DEF kept
<1>4. c \in Connections
  BY <1>1, <1>3 DEF Connections
<1>5. SameRequest(h.c, c)
  BY <1>1 DEF Connections, SameRequest
<1> HIDE DEF c
<1> QED
  BY <1>2, <1>4, <1>5, NewBuffers

LEMMA FlushOnlySends ==
  ASSUME NEW h \in Handlers
  PROVE  OnlySends(h, FlushSendBuffer(h))
<1> DEFINE fixed == FixUpChunk(h)
           full == LastChunk(fixed)
           packet == [len |-> full.c.outLen, pieces |-> full.c.out,
                      ends |-> EndsAnswer(h), framed |-> full.c.framed]
           fits == BacklogSize(h.c.backlog) + packet.len <= HTTPD_MAX_BACKLOG_SIZE
           kept == [full EXCEPT !.c.backlog = Append(@, packet)]
<1>1. OnlySends(h, fixed)
  BY FixUpChunkOnlySends
<1>2. fixed \in Handlers
  BY <1>1 DEF OnlySends
<1> HIDE DEF fixed
<1>3. OnlySends(h, full) /\ full \in Handlers
  BY <1>1, <1>2, LastChunkOnlySends, OnlySendsTwice DEF OnlySends
<1>4. h.c \in Connections /\ full.c \in Connections
  BY <1>3, HandlerFields
<1>5. EndsAnswer(h) \in BOOLEAN
  BY <1>4 DEF EndsAnswer, Connections
<1>6. packet \in Packets
  BY <1>4, <1>5 DEF Packets, Connections
<1>7. full.t.unsent = h.t.unsent
  BY DEF full, fixed, FixUpChunk, LastChunk, Handlers
<1>8. \/ FlushSendBuffer(h) = h
      \/ h.t.unsent < MaxUnsent /\ FlushSendBuffer(h) = Emptied(Transmitted(full, packet))
      \/ FlushSendBuffer(h) = full
      \/ FlushSendBuffer(h) = Emptied(kept)
      \/ FlushSendBuffer(h) = Emptied(full)
  BY DEF FlushSendBuffer, fixed, Takes
<1> HIDE DEF full, packet
<1>9. OnlySends(full, kept)
  BY <1>3, <1>6, KeptOnlySends
<1>10. OnlySends(h, kept) /\ kept \in Handlers
  BY <1>3, <1>9, OnlySendsTwice, ZenonT(60) DEF OnlySends
<1>11. ASSUME h.t.unsent < MaxUnsent
       PROVE  OnlySends(h, Transmitted(full, packet)) /\ Transmitted(full, packet) \in Handlers
  <2>1. OnlySends(full, Transmitted(full, packet))
    BY <1>3, <1>6, <1>7, <1>11, TransmittedOnlySends
  <2> QED
    BY <1>3, <2>1, OnlySendsTwice DEF OnlySends
<1> HIDE DEF kept
<1> QED
  BY <1>3, <1>8, <1>10, <1>11, EmptiedOnlySends, OnlySendsNothing, OnlySendsTwice

(* With something to send, flushing leaves a packet on its way.            *)
LEMMA FlushSends ==
  ASSUME NEW h \in Handlers
  PROVE  LET g == FlushSendBuffer(h)
         IN  /\ Sends(h, g)
             /\ Calm(h) /\ Awaits(h) => g.t.unsent > 0
             /\ Calm(h) /\ g.c.backlog # <<>> => h.c.backlog # <<>> \/ g.t.unsent > 0
<1> DEFINE fixed == FixUpChunk(h)
           full == LastChunk(fixed)
           packet == [len |-> full.c.outLen, pieces |-> full.c.out,
                      ends |-> EndsAnswer(h), framed |-> full.c.framed]
           kept == [full EXCEPT !.c.backlog = Append(@, packet)]
           g == FlushSendBuffer(h)
<1>1. /\ h.c \in Connections /\ h.t \in TcpConnections
      /\ h.t.unsent \in Nat /\ h.c.outLen \in Nat
  BY HandlerFields, MaxUnsentAssumption DEF Connections, TcpConnections
<1>2. /\ fixed \in Handlers /\ fixed.t = h.t
      /\ fixed.c.backlog = h.c.backlog /\ fixed.c.outLen >= h.c.outLen
  <2> DEFINE fits == h.c.outLen + 2 <= HTTPD_MAX_SENDBUFF_LEN
             len == IF fits THEN h.c.outLen + 2 ELSE h.c.outLen
             c == [h.c EXCEPT !.outLen = len, !.framed = h.c.framed /\ fits,
                              !.chunkHdr = FALSE]
  <2>1. fixed \in Handlers
    BY FixUpChunkOnlySends DEF OnlySends
  <2>2. fixed = h \/ fixed = [h EXCEPT !.c = c]
    BY DEF FixUpChunk
  <2>3. len >= h.c.outLen
    BY <1>1
  <2> HIDE DEF fits, len, fixed
  <2>4. c.backlog = h.c.backlog /\ c.outLen = len
    BY <1>1 DEF Connections
  <2> HIDE DEF c
  <2> QED
    BY <1>1, <2>1, <2>2, <2>3, <2>4 DEF Handlers
<1> HIDE DEF fixed
<1>3. /\ full \in Handlers /\ full.t = h.t
      /\ full.c.backlog = h.c.backlog /\ full.c.outLen >= h.c.outLen
  <2>1. full \in Handlers
    BY <1>2, LastChunkOnlySends DEF OnlySends
  <2>2. fixed.c \in Connections /\ fixed.c.outLen \in Nat
    BY <1>2, HandlerFields DEF Connections
  <2> QED
    BY <1>1, <1>2, <2>1, <2>2 DEF LastChunk, Handlers, Connections
<1>4. ASSUME Calm(h)
      PROVE  \/ g.t.unsent = h.t.unsent + 1 /\ g.c.backlog = h.c.backlog
             \/ g.t = h.t /\ g.c.backlog = h.c.backlog /\ full.c.outLen = 0
             \/ g.t = h.t /\ h.t.unsent > 0
  <2>1. h.c.conn /\ ~h.e.refuse /\ ~h.e.noitem
    BY <1>4 DEF Calm
  <2>2. \/ g = Emptied(Transmitted(full, packet))
        \/ ~Takes(h) /\ g \in {Emptied(kept), Emptied(full)}
        \/ full.c.outLen = 0 /\ g = Emptied(full)
    BY <2>1 DEF FlushSendBuffer, fixed
  <2>3. ~Takes(h) => h.t.unsent > 0
    BY <1>1, <2>1, MaxUnsentAssumption DEF Takes
  <2> HIDE DEF g, full, packet
  <2>4. full.c \in Connections /\ full.t \in TcpConnections
    BY <1>3, HandlerFields
  <2>5. LET sent == Emptied(Transmitted(full, packet))
        IN  sent.t.unsent = h.t.unsent + 1 /\ sent.c.backlog = h.c.backlog
    BY <1>3, <2>4, ZenonT(60) DEF Emptied, Transmitted, Handlers, Connections, TcpConnections
  <2>6. Emptied(kept).t = h.t
    BY <1>3, <2>4 DEF Emptied, Handlers
  <2>7. Emptied(full).t = h.t /\ Emptied(full).c.backlog = h.c.backlog
    BY <1>3, <2>4 DEF Emptied, Handlers, Connections
  <2> HIDE DEF kept
  <2> QED
    BY <2>2, <2>3, <2>5, <2>6, <2>7
<1> HIDE DEF g, full
<1>5. Calm(h) /\ Awaits(h) => g.t.unsent > 0
  <2>1. full.c.outLen \in Nat
    BY <1>3, HandlerFields DEF Connections
  <2> QED
    BY <1>1, <1>3, <1>4, <2>1 DEF Awaits
<1>6. Calm(h) /\ g.c.backlog # <<>> => h.c.backlog # <<>> \/ g.t.unsent > 0
  BY <1>1, <1>4
<1>7. OnlySends(h, g)
  BY FlushOnlySends DEF g
<1> QED
  BY <1>5, <1>6, <1>7 DEF Sends, Moves, Awaits, g

(* The end of a CGI: no CGI, and without chunks no further request.        *)
LEMMA DoneFacts ==
  ASSUME NEW h \in Handlers
  PROVE  LET g == CgiIsDone(h)
         IN  /\ g \in Handlers
             /\ g.s = h.s /\ g.e = h.e /\ g.t.state = h.t.state
             /\ g.c.remote = h.c.remote /\ g.c.conn = h.c.conn
             /\ g.c.cgi = "NULL" /\ g.c.discon = ~h.c.chunked
             /\ g.c.len = IF h.c.chunked THEN -1 ELSE h.c.len
             /\ Moves(h, g)
<1> DEFINE c1 == [h.c EXCEPT !.cgi = "NULL", !.url = NoUrl, !.cgiData = NoData]
           done == [h EXCEPT !.c = c1]
           c2 == [c1 EXCEPT !.discon = TRUE]
           flushed == FlushSendBuffer(done)
           c3 == [flushed.c EXCEPT !.len = -1, !.chunked = FALSE, !.sendingBody = FALSE,
                                   !.discon = FALSE, !.buff = <<>>, !.received = 0, !.made = 0]
<1>1. h.c \in Connections
  BY HandlerFields
<1>2. [h EXCEPT !.c.cgi = "NULL", !.c.url = NoUrl, !.c.cgiData = NoData] = done
  OBVIOUS
<1>3. /\ c1 \in Connections /\ c1.remote = h.c.remote /\ c1.conn = h.c.conn
      /\ c1.cgi = "NULL" /\ c1.len = h.c.len /\ c1.chunked = h.c.chunked
      /\ c1.backlog = h.c.backlog /\ c1.outLen = h.c.outLen
  <2>1. \A f \in CgiFunctions, u \in Requests \cup {NoUrl}, n \in Nat \cup {NoData} :
          [h.c EXCEPT !.cgi = f, !.url = u, !.cgiData = n] \in Connections
    BY <1>1 DEF Connections
  <2>2. c1 \in Connections
    BY <2>1 DEF CgiFunctions
  <2> QED
    BY <1>1, <2>2 DEF Connections
<1> HIDE DEF c1
<1>4. /\ done \in Handlers /\ done.c = c1 /\ done.t = h.t /\ done.s = h.s /\ done.e = h.e
  BY <1>3, NewFields
<1>5. CASE ~h.c.chunked
  <2>1. CgiIsDone(h) = [done EXCEPT !.c.discon = TRUE]
    BY <1>2, <1>5 DEF CgiIsDone
  <2>2. [done EXCEPT !.c.discon = TRUE] = [done EXCEPT !.c = c2]
    BY <1>4
  <2>3. /\ c2 \in Connections /\ c2.remote = c1.remote /\ c2.conn = c1.conn
        /\ c2.cgi = c1.cgi /\ c2.len = c1.len /\ c2.discon
        /\ c2.backlog = c1.backlog /\ c2.outLen = c1.outLen
    BY <1>3 DEF Connections
  <2> HIDE DEF c2, done
  <2> DEFINE g == [done EXCEPT !.c = c2]
  <2>4. g \in Handlers /\ g.c = c2 /\ g.t = done.t /\ g.s = done.s /\ g.e = done.e
    BY <1>4, <2>3, NewFields
  <2>5. CgiIsDone(h) = g
    BY <2>1, <2>2
  <2> HIDE DEF g
  <2>6. Moves(h, g)
    BY <1>3, <1>4, <2>3, <2>4 DEF Moves, Awaits
  <2>7. g.c.discon = ~h.c.chunked
    <3>1. c2.discon \in BOOLEAN /\ h.c.chunked \in BOOLEAN
      BY <1>1, <2>3 DEF Connections
    <3> QED
      BY <1>5, <2>3, <2>4, <3>1
  <2> QED
    BY <1>3, <1>4, <1>5, <2>3, <2>4, <2>5, <2>6, <2>7
<1>6. CASE h.c.chunked
  <2> HIDE DEF done
  <2>1. OnlySends(done, flushed) /\ Moves(done, flushed)
    BY <1>4, FlushSends DEF Sends
  <2>2. /\ flushed \in Handlers /\ flushed.s = h.s /\ flushed.e = h.e
        /\ flushed.t.state = h.t.state /\ flushed.c \in Connections
        /\ flushed.c.remote = c1.remote /\ flushed.c.conn = c1.conn /\ flushed.c.cgi = c1.cgi
    BY <1>4, <2>1, HandlerFields DEF OnlySends, SameRequest
  <2>3. CgiIsDone(h) =
          [flushed EXCEPT !.c.len = -1, !.c.chunked = FALSE, !.c.sendingBody = FALSE,
                          !.c.discon = FALSE, !.c.buff = <<>>, !.c.received = 0, !.c.made = 0]
    BY <1>2, <1>6 DEF CgiIsDone
  <2> HIDE DEF flushed
  <2>4. [flushed EXCEPT !.c.len = -1, !.c.chunked = FALSE, !.c.sendingBody = FALSE,
                        !.c.discon = FALSE, !.c.buff = <<>>, !.c.received = 0, !.c.made = 0]
          = [flushed EXCEPT !.c = c3]
    OBVIOUS
  <2>5. c3 \in Connections
    <3> DEFINE d == [flushed.c EXCEPT !.len = -1, !.chunked = FALSE, !.sendingBody = FALSE,
                                      !.discon = FALSE]
    <3>1. d \in Connections
      BY <2>2 DEF Connections
    <3>2. c3 = [d EXCEPT !.buff = <<>>, !.received = 0, !.made = 0]
      OBVIOUS
    <3> HIDE DEF d
    <3>3. \A p \in Seq(Parts), n, m \in Nat :
            [d EXCEPT !.buff = p, !.received = n, !.made = m] \in Connections
      BY <3>1 DEF Connections
    <3>4. <<>> \in Seq(Parts) /\ 0 \in Nat
      OBVIOUS
    <3> QED
      BY <3>2, <3>3, <3>4
  <2>6. /\ c3.remote = c1.remote /\ c3.conn = c1.conn /\ c3.cgi = c1.cgi /\ c3.len = -1
        /\ c3.discon = FALSE
        /\ c3.backlog = flushed.c.backlog /\ c3.outLen = flushed.c.outLen
    BY <2>2 DEF Connections
  <2> HIDE DEF c3
  <2> DEFINE g == [flushed EXCEPT !.c = c3]
  <2>7. g \in Handlers /\ g.c = c3 /\ g.t = flushed.t /\ g.s = flushed.s /\ g.e = flushed.e
    BY <2>2, <2>5, NewFields
  <2>8. CgiIsDone(h) = g
    BY <2>3, <2>4
  <2> HIDE DEF g
  <2>9. Calm(h) => Calm(done)
    BY <1>3, <1>4 DEF Calm
  <2>10. Moves(h, g)
    BY <1>3, <1>4, <2>1, <2>6, <2>7, <2>9 DEF Moves, Awaits
  <2>11. g.c.discon = ~h.c.chunked
    <3>1. h.c.chunked \in BOOLEAN
      BY <1>1 DEF Connections
    <3> QED
      BY <1>6, <2>6, <2>7, <3>1
  <2> QED
    BY <1>3, <1>6, <2>2, <2>6, <2>7, <2>8, <2>10, <2>11
<1> QED
  BY <1>5, <1>6

-------------------------------------------------------------------------------
(* WebInterface.                                                           *)
SharedOK(s) == (s.waiting <=> s.scanning) /\ s.index <= Len(s.form)

(* What a CGI leaves alone.                                                *)
SameCall(c, d) ==
  /\ d.remote = c.remote /\ d.conn = c.conn /\ d.url = c.url /\ d.cgi = c.cgi
  /\ d.len = c.len /\ d.chunked = c.chunked /\ d.discon = c.discon

Works(h, g) ==
  /\ g \in Handlers
  /\ g.e = h.e /\ g.t.state = h.t.state
  /\ SameCall(h.c, g.c)
  /\ Moves(h, g)
  /\ SharedOK(g.s)
  /\ \A client \in Clients \ {h.c.remote} : client \in g.s.files <=> client \in h.s.files

(* A CGI that goes on with a file, or ends a connection with it, has sent. *)
Progresses(h, result) ==
  FilesEndInside /\ ReadsOn(h.c) =>
    /\ ReadsOn(result.h.c)
    /\ Calm(h) => /\ result.r = "MORE" /\ ReadsFile(h.c) => Awaits(result.h)
                  /\ result.r = "DONE" /\ h.c.cgi = "espfs" => Awaits(result.h)

(* A CGI that is done has no file open; one that goes on has, if it reads. *)
Called(h, result) ==
  /\ result.r \in {"DONE", "MORE"}
  /\ Works(h, result.h)
  /\ result.r = "DONE" => h.c.remote \notin result.h.s.files
  /\ result.r = "MORE" => (h.c.remote \in result.h.s.files <=> ReadsFile(h.c))
  /\ Progresses(h, result)

(* What a CGI is called with.                                              *)
MayCall(h) ==
  /\ h \in Handlers
  /\ SharedOK(h.s)
  /\ h.c.remote \in h.s.files => ReadsFile(h.c)
  /\ ReadsFile(h.c) /\ h.c.cgiData # NoData => h.c.remote \in h.s.files
  /\ ItsCgi(h.c)

LEMMA WorksCalm ==
  ASSUME NEW h, NEW g, Works(h, g)
  PROVE  Calm(g) <=> Calm(h)
BY DEF Works, Calm, SameCall

LEMMA WorksSends ==
  ASSUME NEW f, NEW g, NEW h, Works(f, g), Sends(g, h)
  PROVE  Works(f, h) /\ h.s = g.s
<1>1. Moves(f, h)
  BY WorksCalm DEF Works, Sends, Moves
<1> QED
  BY <1>1 DEF Works, Sends, OnlySends, SameRequest, SameCall

LEMMA WorksNothing ==
  ASSUME NEW h, MayCall(h)
  PROVE  Works(h, h)
BY DEF Works, MayCall, SameCall, Moves

LEMMA WorksShared ==
  ASSUME NEW f, NEW g, Works(f, g), NEW s \in SharedVariables, SharedOK(s), s.files = g.s.files
  PROVE  LET h == [g EXCEPT !.s = s] IN Works(f, h) /\ h.s = s /\ h.c = g.c
<1> DEFINE h == [g EXCEPT !.s = s]
<1>1. g \in Handlers
  BY DEF Works
<1>2. h \in Handlers /\ h.s = s /\ h.c = g.c /\ h.t = g.t /\ h.e = g.e
  BY <1>1, NewFields
<1> HIDE DEF h
<1>3. Moves(f, h)
  BY <1>2 DEF Works, Moves, Awaits
<1>4. Works(f, h)
  BY <1>2, <1>3 DEF Works, SameCall
<1> QED
  BY <1>2, <1>4 DEF h

LEMMA NoFileProgresses ==
  ASSUME NEW h, ~ReadsFile(h.c), NEW result, Works(h, result.h)
  PROVE  Progresses(h, result)
BY DEF Progresses, ReadsOn, ReadsFile, Works, SameCall

(* Functions that answer at once and read no file.                         *)
LEMMA AnswerCalled ==
  ASSUME NEW h, NEW g, MayCall(h), ~ReadsFile(h.c), Works(h, g), g.s.files = h.s.files,
         NEW len \in Nat
  PROVE  /\ Called(h, Answer(g, len))
         /\ Called(h, Done(Headers(g, HEADERS)))
         /\ Called(h, More(g))
<1> DEFINE headed == Headers(g, HEADERS)
           sent == Send(headed, len)
<1>1. g \in Handlers /\ HEADERS \in Nat
  BY DEF Works, HEADERS
<1>2. Sends(g, headed)
  BY <1>1, HeadersSends
<1>3. headed \in Handlers
  BY <1>2 DEF Sends, OnlySends
<1>4. Sends(headed, sent)
  BY <1>3, SendSends
<1>5. Sends(g, sent)
  BY <1>2, <1>4, SendsTwice
<1>6. /\ Answer(g, len) = [h |-> sent, r |-> "DONE"]
      /\ Done(headed) = [h |-> headed, r |-> "DONE"]
      /\ More(g) = [h |-> g, r |-> "MORE"]
  BY DEF Answer, Done, More
<1> HIDE DEF headed, sent
<1>7. Works(h, headed) /\ Works(h, sent) /\ headed.s = g.s /\ sent.s = g.s
  BY <1>2, <1>5, WorksSends
<1>8. h.c.remote \notin g.s.files
  BY DEF MayCall
<1>9. \A f, r : Works(h, f) => Progresses(h, [h |-> f, r |-> r])
  BY NoFileProgresses
<1> QED
  BY <1>6, <1>7, <1>8, <1>9 DEF Called, headed

LEMMA ScanCalled ==
  ASSUME NEW h, MayCall(h), ~ReadsFile(h.c)
  PROVE  Called(h, CgiStartWifiScan(h))
<1> DEFINE s == StartWifiScan(h.s, h.e.refuses_call)
           g == [h EXCEPT !.s = s]
<1>1. h \in Handlers /\ h.s \in SharedVariables /\ SharedOK(h.s) /\ Works(h, h)
  BY WorksNothing, HandlerFields DEF MayCall
<1>2. /\ s \in SharedVariables /\ SharedOK(s) /\ s.files = h.s.files
  <2>1. CASE s = h.s
    BY <1>1, <2>1
  <2>2. CASE s = [h.s EXCEPT !.waiting = TRUE, !.scanning = TRUE]
    BY <1>1, <2>2 DEF SharedVariables, SharedOK
  <2> QED
    BY <2>1, <2>2 DEF StartWifiScan
<1> HIDE DEF s
<1>3. Works(h, g) /\ g.s.files = h.s.files
  BY <1>1, <1>2, WorksShared
<1>4. STATUS_JSON \in Nat
  BY DEF STATUS_JSON
<1>5. CgiStartWifiScan(h) = Answer(g, STATUS_JSON)
  BY DEF CgiStartWifiScan, s
<1> HIDE DEF g
<1> QED
  BY <1>3, <1>4, <1>5, AnswerCalled

(* A part of a form goes behind the index, which stays inside the form.    *)
LEMMA AccumulateWorks ==
  ASSUME NEW h, MayCall(h)
  PROVE  /\ Works(h, Accumulate(h))
         /\ Accumulate(h).s.files = h.s.files
         /\ Accumulate(h).c = h.c
<1> DEFINE old == h.s.form
           index == h.s.index
           part == h.c.buff
           before == SubSeq(old, 1, index)
           after == SubSeq(old, index + Len(part) + 1, Len(old))
           form == before \o part \o after
           s == [h.s EXCEPT !.form = form, !.index = index + Len(part)]
<1>1. /\ h \in Handlers /\ h.s \in SharedVariables /\ SharedOK(h.s) /\ Works(h, h)
      /\ h.c \in Connections
  BY WorksNothing, HandlerFields DEF MayCall
<1>2. old \in Seq(Parts) /\ index \in Nat /\ part \in Seq(Parts) /\ index <= Len(old)
  BY <1>1 DEF SharedVariables, Connections, SharedOK
<1>3. Accumulate(h) = [h EXCEPT !.s = s]
  BY DEF Accumulate
<1> HIDE DEF old, index, part
<1>4. before \in Seq(Parts) /\ Len(before) = index
  BY <1>2
<1>5. after \in Seq(Parts)
  <2>1. Len(part) \in Nat /\ Len(old) \in Nat
    BY <1>2
  <2> QED
    BY <1>2, <2>1
<1> HIDE DEF before, after
<1>6. form \in Seq(Parts) /\ index + Len(part) \in Nat /\ index + Len(part) <= Len(form)
  <2>1. before \o part \in Seq(Parts) /\ Len(before \o part) = index + Len(part)
    BY <1>2, <1>4
  <2> QED
    BY <1>2, <1>5, <2>1
<1> HIDE DEF form
<1>7. s \in SharedVariables /\ SharedOK(s) /\ s.files = h.s.files
  <2>1. \A f \in Seq(Parts), n \in Nat : [h.s EXCEPT !.form = f, !.index = n] \in SharedVariables
    BY <1>1 DEF SharedVariables
  <2>2. /\ s.form = form /\ s.index = index + Len(part) /\ s.files = h.s.files
        /\ s.waiting = h.s.waiting /\ s.scanning = h.s.scanning
    BY <1>1 DEF SharedVariables
  <2> QED
    BY <1>1, <1>6, <2>1, <2>2 DEF SharedOK
<1> HIDE DEF s
<1> QED
  BY <1>1, <1>3, <1>7, WorksShared

LEMMA SavedWorks ==
  ASSUME NEW h, NEW g, Works(h, g)
  PROVE  Works(h, Saved(g)) /\ Saved(g).s.files = g.s.files
<1> DEFINE exactly == Exactly(DataJson(g.s.form), g.c.remote)
           s == [g.s EXCEPT !.restart = TRUE, !.savedExactly = exactly]
<1>1. g.s \in SharedVariables /\ SharedOK(g.s)
  BY HandlerFields DEF Works
<1>2. exactly \in BOOLEAN
  BY DEF Exactly
<1>3. Saved(g) = g \/ Saved(g) = [g EXCEPT !.s = s]
  BY DEF Saved
<1> HIDE DEF exactly
<1>4. s \in SharedVariables /\ SharedOK(s) /\ s.files = g.s.files
  BY <1>1, <1>2 DEF SharedVariables, SharedOK
<1> DEFINE new == [g EXCEPT !.s = s]
<1> HIDE DEF s
<1>5. Works(h, new) /\ new.s = s
  BY <1>4, WorksShared
<1> HIDE DEF new
<1>6. Saved(g) = g \/ Saved(g) = new
  BY <1>3 DEF new
<1> QED
  BY <1>4, <1>5, <1>6

LEMMA SaveCalled ==
  ASSUME NEW h, MayCall(h), ~ReadsFile(h.c)
  PROVE  Called(h, CgiSaveConfig(h))
<1> DEFINE arrived == Accumulate(h)
           s == [arrived.s EXCEPT !.index = 0]
           complete == [arrived EXCEPT !.s = s]
           saved == Saved(complete)
<1>1. Works(h, arrived) /\ arrived.s.files = h.s.files
  BY AccumulateWorks
<1>2. /\ CgiSaveConfig(h) \in {More(arrived), Done(Headers(complete, HEADERS)),
                               Answer(saved, STATUS_JSON)}
  BY DEF CgiSaveConfig
<1> HIDE DEF arrived
<1>3. arrived.s \in SharedVariables /\ SharedOK(arrived.s)
  BY <1>1, HandlerFields DEF Works
<1>4. s \in SharedVariables /\ SharedOK(s) /\ s.files = h.s.files
  BY <1>1, <1>3 DEF SharedVariables, SharedOK
<1> HIDE DEF s
<1>5. Works(h, complete) /\ complete.s.files = h.s.files
  BY <1>1, <1>4, WorksShared
<1> HIDE DEF complete
<1>6. Works(h, saved) /\ saved.s.files = h.s.files
  BY <1>5, SavedWorks
<1> HIDE DEF saved
<1>7. STATUS_JSON \in Nat
  BY DEF STATUS_JSON
<1> QED
  BY <1>1, <1>2, <1>5, <1>6, <1>7, AnswerCalled

-------------------------------------------------------------------------------
(* The files.                                                              *)
LEMMA OpenedWorks ==
  ASSUME NEW h, MayCall(h), NEW bytes \in Nat
  PROVE  /\ Works(h, Opened(h, bytes))
         /\ h.c.remote \in Opened(h, bytes).s.files
         /\ Opened(h, bytes).c.cgiData = bytes
<1> DEFINE c == [h.c EXCEPT !.cgiData = bytes]
           s == [h.s EXCEPT !.files = @ \cup {h.c.remote}]
           g == [h EXCEPT !.c = c]
           opened == [g EXCEPT !.s = s]
<1>1. /\ h \in Handlers /\ h.s \in SharedVariables /\ SharedOK(h.s) /\ h.c \in Connections
      /\ h.c.remote \in Clients
  BY HandlerFields DEF MayCall, Connections
<1>2. Opened(h, bytes) = opened
  BY <1>1 DEF Opened, Handlers
<1>3. /\ c \in Connections /\ SameCall(h.c, c) /\ c.cgiData = bytes
      /\ c.backlog = h.c.backlog /\ c.outLen = h.c.outLen
  BY <1>1 DEF Connections, SameCall
<1>4. s \in SharedVariables /\ SharedOK(s) /\ s.files = h.s.files \cup {h.c.remote}
  BY <1>1 DEF SharedVariables, SharedOK
<1> HIDE DEF c, s
<1>5. g \in Handlers /\ g.c = c /\ g.t = h.t /\ g.e = h.e
  BY <1>1, <1>3, NewFields
<1> HIDE DEF g
<1>6. opened \in Handlers /\ opened.c = c /\ opened.t = h.t /\ opened.e = h.e /\ opened.s = s
  BY <1>4, <1>5, NewFields
<1> HIDE DEF opened
<1>7. Moves(h, opened)
  BY <1>3, <1>6 DEF Moves, Awaits
<1> QED
  BY <1>2, <1>3, <1>4, <1>6, <1>7 DEF Works

(* A file is closed by the last of its calls.                              *)
LEMMA CloseCalled ==
  ASSUME NEW h, NEW g, Works(h, g), Progresses(h, [h |-> g, r |-> "DONE"])
  PROVE  Called(h, Done(CloseFile(g)))
<1> DEFINE s == [g.s EXCEPT !.files = @ \ {g.c.remote}]
           closed == [g EXCEPT !.s = s]
<1>1. /\ g \in Handlers /\ g.s \in SharedVariables /\ SharedOK(g.s)
      /\ g.c.remote = h.c.remote
  BY HandlerFields DEF Works, SameCall
<1>2. CloseFile(g) = closed
  BY DEF CloseFile
<1>3. s \in SharedVariables /\ SharedOK(s) /\ s.files = g.s.files \ {h.c.remote}
  BY <1>1 DEF SharedVariables, SharedOK
<1> HIDE DEF s
<1>4. closed \in Handlers /\ closed.c = g.c /\ closed.t = g.t /\ closed.e = g.e /\ closed.s = s
  BY <1>1, <1>3, NewFields
<1> HIDE DEF closed
<1>5. Works(h, closed)
  <2>1. Moves(h, closed)
    BY <1>4 DEF Works, Moves, Awaits
  <2> QED
    BY <1>3, <1>4, <2>1 DEF Works
<1>6. Done(closed) = [h |-> closed, r |-> "DONE"]
  BY DEF Done
<1>7. Progresses(h, Done(closed))
  BY <1>4, <1>6 DEF Progresses, Awaits
<1> QED
  BY <1>2, <1>3, <1>4, <1>5, <1>6, <1>7 DEF Called

(* With a file that ends inside a read every read finds something.         *)
LEMMA ReadsSomething ==
  ASSUME NEW n, n \in Nat, EndsInside(n)
  PROVE  /\ Fits(Least(n, READ))
         /\ Least(n, READ) = READ => EndsInside(n - READ)
BY DEF Least, READ, EndsInside, Fits

LEMMA AfterReadCalled ==
  ASSUME NEW h, NEW g, Works(h, g), ReadsFile(h.c), h.c.remote \in g.s.files,
         g.c.cgiData \in Nat, g.c.cgiData = h.c.cgiData,
         Calm(h) /\ Fits(Least(g.c.cgiData, READ)) => Awaits(g)
  PROVE  Called(h, AfterRead(g, Least(g.c.cgiData, READ)))
<1> DEFINE bytes == Least(g.c.cgiData, READ)
           c == [g.c EXCEPT !.cgiData = @ - READ]
           more == [g EXCEPT !.c = c]
<1>1. FilesEndInside /\ ReadsOn(h.c) =>
        /\ ReadsOn(g.c)
        /\ Calm(h) => Awaits(g)
        /\ bytes = READ => EndsInside(g.c.cgiData - READ)
  <2> SUFFICES ASSUME ReadsOn(h.c)
               PROVE  /\ ReadsOn(g.c)
                      /\ Calm(h) => Awaits(g)
                      /\ bytes = READ => EndsInside(g.c.cgiData - READ)
    OBVIOUS
  <2>1. EndsInside(g.c.cgiData)
    BY DEF ReadsOn, NoData
  <2>2. Fits(bytes) /\ (bytes = READ => EndsInside(g.c.cgiData - READ))
    BY <2>1, ReadsSomething
  <2> QED
    BY <2>1, <2>2 DEF ReadsOn
<1> HIDE DEF bytes
<1>2. CASE bytes # READ
  <2>1. Progresses(h, [h |-> g, r |-> "DONE"])
    BY <1>1 DEF Progresses
  <2> QED
    BY <1>2, <2>1, CloseCalled DEF AfterRead, bytes
<1>3. CASE bytes = READ
  <2>1. AfterRead(g, bytes) = [h |-> more, r |-> "MORE"]
    BY <1>3 DEF AfterRead, More
  <2>2. g.c.cgiData - READ \in Nat
    BY <1>3 DEF Least, READ, bytes
  <2>3. g \in Handlers /\ g.c \in Connections
    BY HandlerFields DEF Works
  <2>4. /\ c \in Connections /\ SameCall(g.c, c) /\ c.cgiData = g.c.cgiData - READ
        /\ c.backlog = g.c.backlog /\ c.outLen = g.c.outLen
    BY <2>2, <2>3 DEF Connections, SameCall
  <2> HIDE DEF c
  <2>5. more \in Handlers /\ more.c = c /\ more.t = g.t /\ more.s = g.s /\ more.e = g.e
    BY <2>3, <2>4, NewFields
  <2> HIDE DEF more
  <2>6. Works(h, more)
    <3>1. Moves(h, g) /\ more.t = g.t
          /\ more.c.backlog = g.c.backlog /\ more.c.outLen = g.c.outLen
      BY <2>4, <2>5 DEF Works
    <3>2. Moves(h, more)
      BY <3>1 DEF Moves, Awaits
    <3> QED
      BY <2>4, <2>5, <3>2 DEF Works, SameCall
  <2>7. Progresses(h, [h |-> more, r |-> "MORE"])
    BY <1>1, <1>3, <2>4, <2>5 DEF Progresses, ReadsOn, Awaits
  <2>8. Called(h, [h |-> more, r |-> "MORE"])
    BY <2>5, <2>6, <2>7 DEF Called
  <2> QED
    BY <2>1, <2>8 DEF bytes
<1> QED
  BY <1>2, <1>3

LEMMA UrlBytes ==
  ASSUME NEW h \in Handlers
  PROVE  h.c.url.bytes \in Nat
<1>1. h.c.url \in Requests \cup {NoUrl}
  BY HandlerFields DEF Connections
<1> DEFINE pages == [name : Urls \ Files, bytes : {0}]
           files == [name : Urls \cap Files, bytes : FileBytes]
<1>2. \A url \in pages : url.bytes \in Nat
  OBVIOUS
<1>3. \A url \in files : url.bytes \in Nat
  BY FileBytesAssumption
<1>4. NoUrl.bytes \in Nat
  BY DEF NoUrl
<1>5. Requests = pages \cup files
  BY DEF Requests
<1> HIDE DEF pages, files
<1> QED
  BY <1>1, <1>2, <1>3, <1>4, <1>5

(* What reads a file was asked for one.                                    *)
LEMMA FileOfReader ==
  ASSUME NEW h \in Handlers, ReadsFile(h.c), ItsCgi(h.c)
  PROVE  h.c.url.bytes \in FileBytes
<1>1. h.c.url \in Requests \cup {NoUrl}
  BY HandlerFields DEF Connections
<1>2. CgiNames(h.c.url) \in {"template", "espfs"}
  BY DEF ReadsFile, ItsCgi
<1> DEFINE pages == [name : Urls \ Files, bytes : {0}]
           files == [name : Urls \cap Files, bytes : FileBytes]
<1>3. h.c.url \notin pages
  <2>1. \A url \in pages : url.name \in UrlNames \ Files
    BY UrlsAssumption
  <2> HIDE DEF pages
  <2>2. \A url \in pages : CgiNames(url) \notin {"template", "espfs"}
    BY <2>1 DEF CgiNames, UrlNames, Files
  <2> QED
    BY <1>2, <2>2
<1>4. h.c.url # NoUrl
  BY <1>2 DEF CgiNames, NoUrl
<1>5. \A url \in files : url.bytes \in FileBytes
  OBVIOUS
<1>6. Requests = pages \cup files
  BY DEF Requests
<1> HIDE DEF pages, files
<1> QED
  BY <1>1, <1>3, <1>4, <1>5, <1>6

(* The parts of the two functions that are the same.                       *)
LEMMA ReadCalled ==
  ASSUME NEW h, MayCall(h), ReadsFile(h.c)
  PROVE  /\ ~h.c.conn => Called(h, Done(CloseFile(h)))
         /\ Called(h, More(Headers(Opened(h, h.c.url.bytes), HEADERS)))
         /\ \A g : /\ h.c.cgiData # NoData /\ Sends(h, g)
                   /\ Calm(h) /\ Fits(Least(h.c.cgiData, READ)) => Awaits(g)
                   => Called(h, AfterRead(g, Least(h.c.cgiData, READ)))
<1>1. ~h.c.conn => Called(h, Done(CloseFile(h)))
  <2>1. ~h.c.conn => Progresses(h, [h |-> h, r |-> "DONE"])
    BY DEF Progresses, Calm
  <2> QED
    BY <2>1, WorksNothing, CloseCalled
<1>2. Called(h, More(Headers(Opened(h, h.c.url.bytes), HEADERS)))
  <2> DEFINE opened == Opened(h, h.c.url.bytes)
             headed == Headers(opened, HEADERS)
  <2>1. /\ Works(h, opened) /\ h.c.remote \in opened.s.files
        /\ opened.c.cgiData = h.c.url.bytes
    BY UrlBytes, OpenedWorks DEF MayCall
  <2> HIDE DEF opened
  <2>2. Sends(opened, headed) /\ (Calm(opened) => Awaits(headed))
    <3>1. HEADERS \in Nat /\ Fits(HEADERS)
      BY DEF HEADERS, Fits
    <3> QED
      BY <2>1, <3>1, HeadersSends DEF Works
  <2>3. Works(h, headed) /\ headed.s = opened.s /\ headed.c.cgiData = h.c.url.bytes
    BY <2>1, <2>2, WorksSends DEF Sends, OnlySends, SameRequest
  <2>4. Calm(h) => Awaits(headed)
    BY <2>1, <2>2, WorksCalm
  <2> HIDE DEF headed
  <2>5. More(headed) = [h |-> headed, r |-> "MORE"]
    BY DEF More
  <2>6. FilesEndInside => EndsInside(h.c.url.bytes)
    BY FileOfReader DEF MayCall, FilesEndInside
  <2>7. Progresses(h, [h |-> headed, r |-> "MORE"])
    BY <2>3, <2>4, <2>6 DEF Progresses, ReadsOn
  <2> QED
    BY <2>1, <2>3, <2>5, <2>7 DEF Called, headed, opened
<1>3. ASSUME NEW g, h.c.cgiData # NoData, Sends(h, g),
             Calm(h) /\ Fits(Least(h.c.cgiData, READ)) => Awaits(g)
      PROVE  Called(h, AfterRead(g, Least(h.c.cgiData, READ)))
  <2>1. h.c.cgiData \in Nat
    BY <1>3, HandlerFields DEF MayCall, Connections
  <2>2. Works(h, g) /\ g.s = h.s
    BY <1>3, WorksNothing, WorksSends
  <2>3. g.c.cgiData = h.c.cgiData
    BY <1>3 DEF Sends, OnlySends, SameRequest
  <2>4. h.c.remote \in g.s.files
    BY <1>3, <2>2 DEF MayCall
  <2>5. g.c.cgiData \in Nat /\ (Calm(h) /\ Fits(Least(g.c.cgiData, READ)) => Awaits(g))
    BY <1>3, <2>1, <2>3
  <2>6. Called(h, AfterRead(g, Least(g.c.cgiData, READ)))
    BY <2>2, <2>3, <2>4, <2>5, AfterReadCalled
  <2> QED
    BY <2>3, <2>6
<1> QED
  BY <1>1, <1>2, <1>3

LEMMA EspFsHookCalled ==
  ASSUME NEW h, MayCall(h), ReadsFile(h.c)
  PROVE  Called(h, CgiEspFsHook(h)) /\ Called(h, CgiEspFsTemplate(h))
<1> DEFINE bytes == Least(h.c.cgiData, READ)
           first == Send(h, bytes - PLANT_NAME)
           whole == Send(h, bytes)
           named == IF bytes >= PLANT_NAME /\ h.c.cgiData = h.c.url.bytes
                    THEN Send(first, PLANT_NAME) ELSE whole
<1>1. h \in Handlers /\ h.c.conn \in BOOLEAN /\ h.c.cgiData \in Nat \cup {NoData}
  BY HandlerFields DEF MayCall, Connections
<1>2. CASE ~h.c.conn
  <2>1. CgiEspFsHook(h) = Done(CloseFile(h)) /\ CgiEspFsTemplate(h) = Done(CloseFile(h))
    BY <1>2 DEF CgiEspFsHook, CgiEspFsTemplate
  <2> QED
    BY <1>2, <2>1, ReadCalled
<1>3. CASE h.c.conn /\ h.c.cgiData = NoData
  <2> DEFINE headed == More(Headers(Opened(h, h.c.url.bytes), HEADERS))
  <2>1. CgiEspFsHook(h) = headed /\ CgiEspFsTemplate(h) = headed
    BY <1>3 DEF CgiEspFsHook, CgiEspFsTemplate
  <2> HIDE DEF headed
  <2> QED
    BY <2>1, ReadCalled DEF headed
<1>4. CASE h.c.conn /\ h.c.cgiData # NoData
  <2>1. bytes \in Nat /\ (bytes >= PLANT_NAME => bytes - PLANT_NAME \in Nat) /\ PLANT_NAME \in Nat
    BY <1>1, <1>4 DEF Least, READ, PLANT_NAME
  <2>2. CgiEspFsHook(h) = AfterRead(whole, bytes) /\ CgiEspFsTemplate(h) = AfterRead(named, bytes)
    BY <1>4 DEF CgiEspFsHook, CgiEspFsTemplate
  <2> HIDE DEF bytes
  <2>3. Sends(h, whole) /\ (Calm(h) /\ Fits(bytes) => Awaits(whole))
    BY <1>1, <2>1, SendSends
  <2>4. Sends(h, named) /\ (Calm(h) /\ Fits(bytes) => Awaits(named))
    <3>1. CASE ~(bytes >= PLANT_NAME /\ h.c.cgiData = h.c.url.bytes)
      BY <2>3, <3>1
    <3>2. CASE bytes >= PLANT_NAME /\ h.c.cgiData = h.c.url.bytes
      <4>1. Sends(h, first)
        BY <1>1, <2>1, <3>2, SendSends
      <4> HIDE DEF first
      <4>2. first \in Handlers /\ (Calm(h) => Calm(first))
        BY <4>1 DEF Sends, OnlySends, SameRequest, Calm
      <4>3. Fits(PLANT_NAME)
        BY DEF PLANT_NAME, Fits
      <4>4. Sends(first, Send(first, PLANT_NAME)) /\ (Calm(first) => Awaits(Send(first, PLANT_NAME)))
        BY <2>1, <4>2, <4>3, SendSends
      <4>5. named = Send(first, PLANT_NAME)
        BY <3>2
      <4> QED
        BY <4>1, <4>2, <4>4, <4>5, SendsTwice
    <3> QED
      BY <3>1, <3>2
  <2> HIDE DEF named, whole
  <2> QED
    BY <1>4, <2>2, <2>3, <2>4, ReadCalled DEF bytes
<1> QED
  BY <1>1, <1>2, <1>3, <1>4

(* Every function of the page.                                             *)
LEMMA CgiCalled ==
  ASSUME NEW h, MayCall(h), h.c.cgi # "NULL"
  PROVE  Called(h, Cgi(h))
<1>1. h.c.cgi \in CgiFunctions
  BY HandlerFields DEF MayCall, Connections
<1>2. /\ CONFIG_JSON \in Nat /\ STATUS_JSON \in Nat /\ PLANT_NAME \in Nat
      /\ STATUS_JSON + ScanResult(h.s) \in Nat
  <2>1. h.s.aps \in Nat
    BY HandlerFields DEF MayCall, SharedVariables
  <2> QED
    BY <2>1 DEF CONFIG_JSON, STATUS_JSON, PLANT_NAME, ScanResult, AP_JSON
<1>3. Works(h, h)
  BY WorksNothing
<1>4. CASE ReadsFile(h.c)
  <2>1. Cgi(h) \in {CgiEspFsHook(h), CgiEspFsTemplate(h)}
    BY <1>4 DEF Cgi, ReadsFile
  <2> QED
    BY <1>4, <2>1, EspFsHookCalled
<1>5. CASE ~ReadsFile(h.c)
  <2>1. CASE h.c.cgi = "start_scan"
    BY <1>5, <2>1, ScanCalled DEF Cgi
  <2>2. CASE h.c.cgi = "save"
    BY <1>5, <2>2, SaveCalled DEF Cgi
  <2>3. CASE h.c.cgi \in {"root", "missing"}
    <3>1. Cgi(h) = Answer(h, PLANT_NAME)
      BY <2>3 DEF Cgi, CgiRedirect, CgiNotFound
    <3> QED
      BY <1>2, <1>3, <1>5, <3>1, AnswerCalled
  <2>4. CASE h.c.cgi = "get_config"
    <3>1. Cgi(h) = Answer(h, CONFIG_JSON)
      BY <2>4 DEF Cgi, CgiGetConfig
    <3> QED
      BY <1>2, <1>3, <1>5, <3>1, AnswerCalled
  <2>5. CASE h.c.cgi = "sensor"
    <3>1. Cgi(h) = Answer(h, STATUS_JSON)
      BY <2>5 DEF Cgi, CgiGetSensorReading
    <3> QED
      BY <1>2, <1>3, <1>5, <3>1, AnswerCalled
  <2>6. CASE h.c.cgi = "scan_result"
    <3>1. Cgi(h) = Answer(h, STATUS_JSON + ScanResult(h.s))
      BY <2>6 DEF Cgi, CgiGetWifiScanResult
    <3> QED
      BY <1>2, <1>3, <1>5, <3>1, AnswerCalled
  <2> QED
    BY <1>1, <1>5, <2>1, <2>2, <2>3, <2>4, <2>5, <2>6 DEF CgiFunctions, ReadsFile
<1> QED
  BY <1>4, <1>5

-------------------------------------------------------------------------------
(* Handlers.                                                               *)
Orderly(h) ==
  /\ h \in Handlers
  /\ AtRest(h.c)
  /\ SharedOK(h.s)
  /\ h.c.remote \in h.s.files <=> ReadsFile(h.c)
  /\ FilesEndInside => ReadsOn(h.c)

(* What is left to do will be done, by the end of this handler or by the   *)
(* sent callback of a packet.                                              *)
Sound(h) ==
  Orderly(h) /\ (FilesEndInside /\ Calm(h) /\ LeftToDo(h.c) => Awaits(h))

Serves(h, g) ==
  /\ Sound(g)
  /\ g.e = h.e /\ g.t.state = h.t.state /\ g.c.remote = h.c.remote
  /\ \A client \in Clients \ {h.c.remote} : client \in g.s.files <=> client \in h.s.files

(* A connection whose request is known and has a CGI function.             *)
HasRequest(h) ==
  /\ h.c.conn
  /\ h.c.len # -1
  /\ h.c.len > 0 => h.c.url.name = "save" /\ h.c.chunked
  /\ FilesEndInside => ReadsOn(h.c)
  /\ Calm(h) /\ FilesEndInside /\ (h.c.backlog # <<>> \/ h.c.discon) => Awaits(h)

LEMMA ServesItself ==
  ASSUME NEW h, Sound(h)
  PROVE  Serves(h, h)
BY DEF Serves, Sound, Orderly

LEMMA ServesTwice ==
  ASSUME NEW f, NEW g, NEW h, Serves(f, g), Serves(g, h)
  PROVE  Serves(f, h)
BY DEF Serves

LEMMA ServesSends ==
  ASSUME NEW f, NEW g, NEW h, Serves(f, g), Sends(g, h)
  PROVE  Serves(f, h)
<1>1. Orderly(h)
  BY DEF Serves, Sound, Orderly, Sends, OnlySends, SameRequest, AtRest, ItsCgi, ReadsFile, ReadsOn
<1>2. Calm(h) /\ LeftToDo(h.c) => Calm(g) /\ (LeftToDo(g.c) \/ Awaits(h))
  BY DEF Sends, OnlySends, SameRequest, Calm, Moves, LeftToDo
<1>3. Sound(h)
  BY <1>1, <1>2 DEF Serves, Sound, Sends, Moves
<1> QED
  BY <1>3 DEF Serves, Sends, OnlySends, SameRequest

(* The end of a handler: what is left to do waits for a packet.            *)
Settled(h) == FilesEndInside /\ Calm(h) /\ LeftToDo(h.c) => h.t.unsent > 0

LEMMA FlushSettles ==
  ASSUME NEW f, NEW g, Serves(f, g)
  PROVE  Serves(f, FlushSendBuffer(g)) /\ Settled(FlushSendBuffer(g))
<1> DEFINE h == FlushSendBuffer(g)
<1>1. g \in Handlers
  BY DEF Serves, Sound, Orderly
<1>2. /\ Sends(g, h)
      /\ Calm(g) /\ Awaits(g) => h.t.unsent > 0
      /\ Calm(g) /\ h.c.backlog # <<>> => g.c.backlog # <<>> \/ h.t.unsent > 0
  BY <1>1, FlushSends
<1> HIDE DEF h
<1>3. Serves(f, h)
  BY <1>2, ServesSends
<1>4. Calm(h) /\ LeftToDo(h.c) => Calm(g) /\ (LeftToDo(g.c) \/ h.t.unsent > 0)
  BY <1>2 DEF Sends, OnlySends, SameRequest, Calm, LeftToDo
<1>5. Settled(h)
  BY <1>2, <1>4 DEF Settled, Serves, Sound
<1> QED
  BY <1>3, <1>5 DEF h

LEMMA FinishServes ==
  ASSUME NEW h, MayCall(h), h.c.cgi # "NULL", HasRequest(h)
  PROVE  /\ Serves(h, Finish(Cgi(h)))
         /\ Cgi(h).r = "MORE" => Serves(h, Cgi(h).h)
<1> DEFINE called == Cgi(h)
           g == called.h
           done == CgiIsDone(g)
<1>1. Called(h, called)
  BY CgiCalled
<1> HIDE DEF called
<1>2. /\ called.r \in {"DONE", "MORE"}
      /\ g \in Handlers /\ g.e = h.e /\ g.t.state = h.t.state
      /\ SameCall(h.c, g.c) /\ SharedOK(g.s) /\ Works(h, g)
      /\ \A client \in Clients \ {h.c.remote} : client \in g.s.files <=> client \in h.s.files
      /\ called.r = "DONE" => h.c.remote \notin g.s.files
      /\ called.r = "MORE" => (h.c.remote \in g.s.files <=> ReadsFile(h.c))
  BY <1>1 DEF Called, Works
<1>3. FilesEndInside =>
        /\ ReadsOn(g.c)
        /\ Calm(h) => /\ g.c.backlog # <<>> \/ g.c.discon => Awaits(g)
                      /\ called.r = "MORE" /\ ReadsFile(h.c) => Awaits(g)
                      /\ called.r = "DONE" /\ h.c.cgi = "espfs" => Awaits(g)
  <2>1. Progresses(h, called) /\ Moves(h, g) /\ g.c.discon = h.c.discon
    BY <1>1, <1>2 DEF Called, Works, SameCall
  <2> HIDE DEF g
  <2> QED
    BY <2>1 DEF Progresses, HasRequest, Moves, g
<1>4. ASSUME called.r = "MORE" PROVE Serves(h, g)
  <2>1. Orderly(g)
    BY <1>2, <1>3, <1>4
       DEF Orderly, AtRest, ItsCgi, SameCall, HasRequest, MayCall, ReadsFile
  <2>2. ReadsFile(g.c) <=> ReadsFile(h.c)
    BY <1>2 DEF SameCall, ReadsFile
  <2>3. FilesEndInside /\ Calm(g) /\ LeftToDo(g.c) => Awaits(g)
    BY <1>2, <1>3, <1>4, <2>2, WorksCalm DEF LeftToDo, ReadsFile
  <2> QED
    BY <1>2, <2>1, <2>3 DEF Serves, Sound, SameCall
<1>5. ASSUME called.r = "DONE" PROVE Serves(h, done)
  <2>1. /\ done \in Handlers
        /\ done.s = g.s /\ done.e = g.e /\ done.t.state = g.t.state
        /\ done.c.remote = g.c.remote /\ done.c.conn = g.c.conn
        /\ done.c.cgi = "NULL" /\ done.c.discon = ~g.c.chunked
        /\ done.c.len = IF g.c.chunked THEN -1 ELSE g.c.len
        /\ Moves(g, done)
    BY <1>2, DoneFacts
  <2> HIDE DEF done, g
  <2>2. AtRest(done.c) /\ ~ReadsFile(done.c) /\ ReadsOn(done.c)
    BY <1>2, <2>1 DEF AtRest, ItsCgi, SameCall, HasRequest, ReadsFile, ReadsOn
  <2>3. Orderly(done)
    BY <1>2, <1>5, <2>1, <2>2 DEF Orderly, SameCall
  <2>4. ~g.c.chunked => h.c.cgi = "espfs"
    BY <1>2 DEF MayCall, ItsCgi, SameCall, CgiNames
  <2>5. Calm(done) => Calm(g) /\ Calm(h)
    BY <1>2, <2>1, WorksCalm DEF Calm
  <2>6. FilesEndInside /\ Calm(done) /\ LeftToDo(done.c) => Awaits(done)
    <3> SUFFICES ASSUME FilesEndInside, Calm(done), LeftToDo(done.c) PROVE Awaits(done)
      OBVIOUS
    <3>1. CASE done.c.backlog # <<>>
      BY <1>3, <2>1, <2>5, <3>1 DEF Moves
    <3>2. CASE done.c.discon
      BY <1>3, <1>5, <2>1, <2>4, <2>5, <3>2 DEF Moves
    <3> QED
      BY <2>2, <3>1, <3>2 DEF LeftToDo, ReadsFile
  <2> QED
    BY <1>2, <2>1, <2>3, <2>6 DEF Serves, Sound, SameCall
<1>6. Finish(called) = IF called.r = "DONE" THEN done ELSE g
  BY DEF Finish
<1> HIDE DEF done, g
<1>7. Serves(h, Finish(called)) /\ (called.r = "MORE" => Serves(h, called.h))
  BY <1>2, <1>4, <1>5, <1>6 DEF g
<1> QED
  BY <1>7 DEF called

LEMMA ProcessRequestServes ==
  ASSUME NEW h \in Handlers, HasRequest(h), SharedOK(h.s), h.c.url \in Requests,
         h.c.remote \notin h.s.files, h.c.chunked <=> h.c.url.name # "file"
  PROVE  Serves(h, ProcessRequest(h))
<1> DEFINE c == [h.c EXCEPT !.cgi = CgiNames(h.c.url), !.cgiData = NoData]
           g == [h EXCEPT !.c = c]
<1>1. h.c \in Connections
  BY HandlerFields
<1>2. h.c.url.name \in UrlNames
  <2>1. \A url \in [name : Urls \ Files, bytes : {0}] : url.name \in Urls
    OBVIOUS
  <2>2. \A url \in [name : Urls \cap Files, bytes : FileBytes] : url.name \in Urls
    OBVIOUS
  <2>3. h.c.url.name \in Urls
    BY <2>1, <2>2, Zenon DEF Requests
  <2> QED
    BY <2>3, UrlsAssumption
<1>3. CgiNames(h.c.url) \in CgiFunctions \ {"NULL"}
  <2>1. CASE h.c.url.name = "index"
    BY <2>1 DEF CgiNames, CgiFunctions
  <2>2. CASE h.c.url.name = "file"
    BY <2>2 DEF CgiNames, CgiFunctions
  <2>3. CASE h.c.url.name \notin {"index", "file"}
    <3>1. CgiNames(h.c.url) = h.c.url.name
      BY <2>3 DEF CgiNames
    <3> QED
      BY <1>2, <2>3, <3>1 DEF UrlNames, CgiFunctions
  <2> QED
    BY <2>1, <2>2, <2>3
<1>4. /\ c \in Connections /\ c.cgi = CgiNames(h.c.url) /\ c.cgiData = NoData
      /\ c.remote = h.c.remote /\ c.conn = h.c.conn /\ c.url = h.c.url
      /\ c.len = h.c.len /\ c.chunked = h.c.chunked /\ c.discon = h.c.discon
      /\ c.backlog = h.c.backlog /\ c.outLen = h.c.outLen
  <2>1. \A f \in CgiFunctions, n \in Nat \cup {NoData} :
          [h.c EXCEPT !.cgi = f, !.cgiData = n] \in Connections
    BY <1>1 DEF Connections
  <2>2. c \in Connections
    BY <1>3, <2>1
  <2> QED
    BY <1>1, <2>2 DEF Connections
<1>5. [h EXCEPT !.c.cgi = CgiNames(h.c.url), !.c.cgiData = NoData] = g
  OBVIOUS
<1>6. ProcessRequest(h) = IF Cgi(g).r = "MORE" THEN FlushSendBuffer(Cgi(g).h) ELSE Finish(Cgi(g))
  BY <1>5 DEF ProcessRequest
<1> HIDE DEF c
<1>7. g \in Handlers /\ g.c = c /\ g.t = h.t /\ g.s = h.s /\ g.e = h.e
  BY <1>4, NewFields
<1> HIDE DEF g
<1>8. MayCall(g) /\ g.c.cgi # "NULL" /\ HasRequest(g)
  <2>1. ReadsOn(g.c)
    BY <1>4, <1>7 DEF ReadsOn
  <2>2. (Calm(g) => Calm(h)) /\ (Awaits(h) => Awaits(g))
    BY <1>4, <1>7 DEF Calm, Awaits
  <2>3. HasRequest(g)
    BY <1>4, <1>7, <2>1, <2>2 DEF HasRequest
  <2>4. ItsCgi(g.c)
    BY <1>4, <1>7 DEF ItsCgi
  <2> QED
    BY <1>3, <1>4, <1>7, <2>3, <2>4 DEF MayCall
<1>9. /\ Serves(g, Finish(Cgi(g)))
      /\ Cgi(g).r = "MORE" => Serves(g, Cgi(g).h)
  BY <1>8, FinishServes
<1>10. Cgi(g).r = "MORE" => Serves(g, FlushSendBuffer(Cgi(g).h))
  BY <1>9, FlushSettles
<1>11. Serves(g, ProcessRequest(h))
  BY <1>6, <1>9, <1>10
<1> QED
  BY <1>4, <1>7, <1>11 DEF Serves

LEMMA HeadersCompleteServes ==
  ASSUME NEW h, Sound(h), h.c.len = -1, NEW request \in Requests
  PROVE  Serves(h, HeadersComplete(h, request))
<1> DEFINE length == IF request.name = "save" THEN FormParts ELSE 0
           size == Least(length, HTTPD_MAX_POST_LEN)
           chunked == request.name # "file"
           c == [h.c EXCEPT !.url = request, !.chunked = chunked, !.len = length,
                            !.made = 0, !.buffSize = size, !.buff = <<>>]
           g == [h EXCEPT !.c = c]
<1>1. /\ h \in Handlers /\ h.c \in Connections /\ h.c.conn /\ h.c.cgi = "NULL"
      /\ h.c.remote \notin h.s.files /\ SharedOK(h.s)
  BY HandlerFields DEF Sound, Orderly, AtRest, ReadsFile
<1>2. [h EXCEPT !.c.url = request, !.c.chunked = chunked, !.c.len = length,
                !.c.made = 0, !.c.buffSize = size, !.c.buff = <<>>] = g
  OBVIOUS
<1>3. HeadersComplete(h, request) = IF length = 0 THEN ProcessRequest(g) ELSE g
  BY <1>2 DEF HeadersComplete
<1>4. length \in Nat /\ size \in Nat /\ chunked \in BOOLEAN
  BY FormPartsAssumption DEF Least, HTTPD_MAX_POST_LEN
<1>5. /\ length > 0 => request.name = "save" /\ chunked
      /\ chunked <=> request.name # "file"
  OBVIOUS
<1> HIDE DEF length, size, chunked
<1>6. c \in Connections
  <2> DEFINE d == [h.c EXCEPT !.url = request, !.chunked = chunked, !.len = length]
  <2>1. d \in Connections
    BY <1>1, <1>4 DEF Connections
  <2>2. c = [d EXCEPT !.made = 0, !.buffSize = size, !.buff = <<>>]
    OBVIOUS
  <2> HIDE DEF d
  <2>3. \A n, m \in Nat, p \in Seq(Parts) :
          [d EXCEPT !.made = n, !.buffSize = m, !.buff = p] \in Connections
    BY <2>1 DEF Connections
  <2>4. 0 \in Nat /\ <<>> \in Seq(Parts)
    OBVIOUS
  <2> QED
    BY <1>4, <2>2, <2>3, <2>4
<1>7. /\ c.remote = h.c.remote /\ c.conn = h.c.conn /\ c.url = request
      /\ c.cgi = h.c.cgi /\ c.len = length /\ c.chunked = chunked
      /\ c.cgiData = h.c.cgiData /\ c.discon = h.c.discon
      /\ c.backlog = h.c.backlog /\ c.outLen = h.c.outLen
  BY <1>1 DEF Connections
<1> HIDE DEF c
<1>8. g \in Handlers /\ g.c = c /\ g.t = h.t /\ g.s = h.s /\ g.e = h.e
  BY <1>1, <1>6, NewFields
<1> HIDE DEF g
<1>9. /\ FilesEndInside => ReadsOn(g.c)
      /\ FilesEndInside /\ Calm(g) /\ LeftToDo(g.c) => Awaits(g)
  <2>1. /\ FilesEndInside => ReadsOn(h.c)
        /\ FilesEndInside /\ Calm(h) /\ LeftToDo(h.c) => Awaits(h)
    BY DEF Sound, Orderly
  <2>2. (ReadsOn(h.c) => ReadsOn(g.c)) /\ (LeftToDo(g.c) => LeftToDo(h.c))
    BY <1>7, <1>8 DEF ReadsOn, ReadsFile, LeftToDo
  <2>3. (Calm(g) => Calm(h)) /\ (Awaits(h) => Awaits(g))
    BY <1>7, <1>8 DEF Calm, Awaits
  <2> QED
    BY <2>1, <2>2, <2>3
<1>10. HasRequest(g)
  <2>1. g.c.conn
    BY <1>1, <1>7, <1>8
  <2>2. g.c.len = length /\ length # -1
    BY <1>4, <1>7, <1>8
  <2>3. length > 0 => g.c.url.name = "save"
    BY <1>5, <1>7, <1>8
  <2>4. length > 0 => g.c.chunked
    BY <1>5, <1>7, <1>8, Zenon
  <2> QED
    BY <1>9, <2>1, <2>2, <2>3, <2>4 DEF HasRequest, LeftToDo
<1>11. g.c.chunked <=> g.c.url.name # "file"
  BY <1>5, <1>7, <1>8, Zenon
<1>12. Serves(g, ProcessRequest(g))
  BY <1>1, <1>7, <1>8, <1>10, <1>11, ProcessRequestServes
<1>13. Sound(g)
  <2>1. AtRest(g.c)
    BY <1>1, <1>7, <1>8, <1>10 DEF AtRest, ItsCgi, HasRequest
  <2>2. Orderly(g)
    BY <1>1, <1>7, <1>8, <1>9, <2>1 DEF Orderly, ReadsFile
  <2> QED
    BY <1>9, <2>2 DEF Sound
<1>14. Serves(g, HeadersComplete(h, request))
  BY <1>3, <1>12, <1>13, ServesItself
<1> QED
  BY <1>7, <1>8, <1>14 DEF Serves

(* What "sound" speaks of; the POST buffer is not part of it.              *)
SameRecord(h, g) ==
  /\ g.t = h.t /\ g.s = h.s /\ g.e = h.e
  /\ g.c.remote = h.c.remote /\ g.c.conn = h.c.conn /\ g.c.url = h.c.url
  /\ g.c.cgi = h.c.cgi /\ g.c.cgiData = h.c.cgiData /\ g.c.len = h.c.len
  /\ g.c.chunked = h.c.chunked /\ g.c.discon = h.c.discon
  /\ g.c.backlog = h.c.backlog /\ g.c.outLen = h.c.outLen

LEMMA SoundAgain ==
  ASSUME NEW h, Sound(h), NEW g \in Handlers, SameRecord(h, g)
  PROVE  Sound(g)
<1>1. Orderly(g)
  BY DEF Sound, Orderly, SameRecord, AtRest, ItsCgi, ReadsFile, ReadsOn
<1>2. /\ Calm(g) => Calm(h)
      /\ LeftToDo(g.c) => LeftToDo(h.c)
      /\ Awaits(h) => Awaits(g)
  BY DEF SameRecord, Calm, LeftToDo, Awaits
<1> QED
  BY <1>1, <1>2 DEF Sound

LEMMA FormChunkServes ==
  ASSUME NEW h, Sound(h), h.c.len > 0
  PROVE  Serves(h, FormChunk(h))
<1> DEFINE handled == IF h.c.cgi # "NULL" THEN Finish(Cgi(h)) ELSE ProcessRequest(h)
           c == [handled.c EXCEPT !.buff = <<>>]
           g == [handled EXCEPT !.c = c]
<1>1. /\ h \in Handlers /\ h.c \in Connections /\ h.c.conn /\ SharedOK(h.s)
      /\ h.c.remote \in h.s.files <=> ReadsFile(h.c)
      /\ h.c.url.name = "save" /\ h.c.chunked /\ h.c.len # -1 /\ ItsCgi(h.c)
  BY HandlerFields DEF Sound, Orderly, AtRest, ReadsFile
<1>2. HasRequest(h)
  BY <1>1 DEF HasRequest, Sound, Orderly, LeftToDo
<1>3. Serves(h, handled)
  <2>1. CASE h.c.cgi # "NULL"
    BY <1>1, <1>2, <2>1, FinishServes DEF MayCall
  <2>2. CASE h.c.cgi = "NULL"
    <3>1. h.c.url \in Requests
      BY <1>1 DEF Connections, NoUrl
    <3>2. h.c.remote \notin h.s.files
      BY <1>1, <2>2 DEF ReadsFile
    <3> QED
      BY <1>1, <1>2, <2>2, <3>1, <3>2, ProcessRequestServes
  <2> QED
    BY <2>1, <2>2
<1>4. FormChunk(h) = h \/ FormChunk(h) = g
  BY DEF FormChunk
<1> HIDE DEF handled
<1>5. handled \in Handlers /\ handled.c \in Connections
  BY <1>3, HandlerFields DEF Serves, Sound, Orderly
<1>6. c \in Connections
  <2>1. \A p \in Seq(Parts) : [handled.c EXCEPT !.buff = p] \in Connections
    BY <1>5 DEF Connections
  <2>2. <<>> \in Seq(Parts)
    OBVIOUS
  <2> QED
    BY <2>1, <2>2
<1>7. /\ c.remote = handled.c.remote /\ c.conn = handled.c.conn /\ c.url = handled.c.url
      /\ c.cgi = handled.c.cgi /\ c.len = handled.c.len /\ c.chunked = handled.c.chunked
      /\ c.cgiData = handled.c.cgiData /\ c.discon = handled.c.discon
      /\ c.backlog = handled.c.backlog /\ c.outLen = handled.c.outLen
  BY <1>5 DEF Connections
<1> HIDE DEF c
<1>8. g \in Handlers /\ g.c = c /\ g.t = handled.t /\ g.s = handled.s /\ g.e = handled.e
  BY <1>5, <1>6, NewFields
<1> HIDE DEF g
<1>9. Serves(h, g)
  <2>1. SameRecord(handled, g)
    BY <1>7, <1>8 DEF SameRecord
  <2>2. Sound(g)
    BY <1>3, <1>8, <2>1, SoundAgain DEF Serves
  <2> QED
    BY <1>3, <1>7, <1>8, <2>2 DEF Serves
<1> QED
  BY <1>4, <1>9, ServesItself

LEMMA ReceivedServes ==
  ASSUME NEW h, Sound(h), NEW segment \in AllSegments
  PROVE  Serves(h, Received(h, segment))
<1>1. h \in Handlers /\ h.c \in Connections
  BY HandlerFields DEF Sound, Orderly
<1>2. CASE h.c.len < 0 /\ segment.kind = "head"
  <2>1. h.c.len = -1
    BY <1>1, <1>2 DEF Connections
  <2>2. segment.request \in Requests
    BY <1>2 DEF AllSegments
  <2>3. Received(h, segment) = HeadersComplete(h, segment.request)
    BY <1>2 DEF Received
  <2> QED
    BY <2>1, <2>2, <2>3, HeadersCompleteServes
<1>3. CASE h.c.len > 0 /\ segment.kind = "form"
  <2> DEFINE buff == Append(h.c.buff, segment.part)
             received == h.c.received + 1
             c == [h.c EXCEPT !.buff = buff, !.received = received]
             g == [h EXCEPT !.c = c]
  <2>1. segment.part \in Parts
    BY <1>3 DEF AllSegments
  <2>2. buff \in Seq(Parts) /\ received \in Nat
    <3>1. h.c.buff \in Seq(Parts) /\ h.c.received \in Nat
      BY <1>1 DEF Connections
    <3> QED
      BY <2>1, <3>1
  <2>3. [h EXCEPT !.c.buff = Append(@, segment.part), !.c.received = @ + 1] = g
    OBVIOUS
  <2>4. Received(h, segment) = FormChunk(g)
    BY <1>3, <2>3 DEF Received
  <2> HIDE DEF buff, received
  <2>5. c \in Connections
    BY <1>1, <2>2 DEF Connections
  <2>6. /\ c.remote = h.c.remote /\ c.conn = h.c.conn /\ c.url = h.c.url
        /\ c.cgi = h.c.cgi /\ c.len = h.c.len /\ c.chunked = h.c.chunked
        /\ c.cgiData = h.c.cgiData /\ c.discon = h.c.discon
        /\ c.backlog = h.c.backlog /\ c.outLen = h.c.outLen
    BY <1>1 DEF Connections
  <2> HIDE DEF c
  <2>7. g \in Handlers /\ g.c = c /\ g.t = h.t /\ g.s = h.s /\ g.e = h.e
    BY <1>1, <2>5, NewFields
  <2> HIDE DEF g
  <2>8. Sound(g)
    BY <2>6, <2>7, SoundAgain DEF SameRecord
  <2>9. Serves(g, FormChunk(g))
    BY <1>3, <2>6, <2>7, <2>8, FormChunkServes
  <2> QED
    BY <2>4, <2>6, <2>7, <2>9 DEF Serves
<1>4. CASE ~(h.c.len < 0 /\ segment.kind = "head") /\ ~(h.c.len > 0 /\ segment.kind = "form")
  <2>1. Received(h, segment) = h
    BY <1>4 DEF Received
  <2> QED
    BY <2>1, ServesItself
<1> QED
  BY <1>2, <1>3, <1>4

LEMMA LeastElement ==
  ASSUME NEW T, T \subseteq Nat, T # {}
  PROVE  \E m \in T : \A n \in T : m <= n
<1> DEFINE R == OpToRel(<, Nat)
<1>1. PICK m \in T : \A n \in T : <<n, m>> \notin R
  <2>1. IsWellFoundedOn(R, Nat)
    BY NatLessThanWellFounded
  <2> HIDE DEF R
  <2> QED
    BY <2>1, WFMin
<1>2. \A x, y \in Nat : <<y, x>> \in R <=> y < x
  BY DEF OpToRel
<1>3. \A n \in T : ~(n < m)
  BY <1>1, <1>2
<1> QED
  BY <1>3

(* What holds at 0 and is passed on holds for every number.                *)
LEMMA Upwards ==
  ASSUME NEW S, 0 \in S, \A n \in Nat : n \in S => n + 1 \in S
  PROVE  Nat \subseteq S
<1> SUFFICES ASSUME NEW k \in Nat, k \notin S PROVE FALSE
  OBVIOUS
<1> DEFINE T == {n \in Nat : n \notin S}
<1>1. PICK m \in T : \A n \in T : m <= n
  <2>1. T \subseteq Nat /\ T # {}
    OBVIOUS
  <2> HIDE DEF T
  <2> QED
    BY <2>1, LeastElement
<1>2. m # 0 /\ m - 1 \in Nat
  OBVIOUS
<1>3. m - 1 \in S
  BY <1>1, <1>2
<1>4. (m - 1) + 1 \in S
  BY <1>2, <1>3
<1> QED
  BY <1>4

(* httpdRecvCb() segment by segment.                                       *)
LEMMA ReceivedInSteps ==
  ASSUME NEW h, NEW segments \in Seq(AllSegments)
  PROVE  \E after : /\ after[0] = h /\ ReceivedAll(h, segments) = after[Len(segments)]
                    /\ \A n \in 1..Len(segments) :
                         after[n] = Received(after[n - 1], segments[n])
<1> DEFINE Step(f, n) == IF n = 0 THEN h ELSE Received(f[n - 1], segments[n])
           Upto(f, k) == f = [n \in 0..k |-> Step(f, n)]
           S == {k \in Nat : \E f : Upto(f, k)}
           after == CHOOSE f : Upto(f, Len(segments))
<1>1. Len(segments) \in Nat
  OBVIOUS
<1>2. 0 \in S
  <2>1. Upto([n \in 0..0 |-> h], 0)
    OBVIOUS
  <2> QED
    BY <2>1
<1>3. ASSUME NEW k \in Nat, k \in S PROVE k + 1 \in S
  <2>1. PICK f : Upto(f, k)
    BY <1>3
  <2> DEFINE g == [n \in 0..(k + 1) |-> IF n = k + 1 THEN Step(f, n) ELSE f[n]]
  <2>2. \A n \in 0..k : f[n] = Step(f, n)
    BY <2>1
  <2>3. \A n \in 0..(k + 1) : g[n] = Step(f, n)
    BY <2>2
  <2>4. \A n \in 0..k : g[n] = f[n]
    OBVIOUS
  <2>5. \A n \in 0..(k + 1) : Step(g, n) = Step(f, n)
    BY <2>4
  <2>6. g = [n \in 0..(k + 1) |-> g[n]]
    OBVIOUS
  <2> HIDE DEF g, Step
  <2>7. Upto(g, k + 1)
    BY <2>3, <2>5, <2>6
  <2> QED
    BY <2>7
<1>4. Upto(after, Len(segments))
  <2>1. Nat \subseteq S
    <3> HIDE DEF S
    <3> QED
      BY <1>2, <1>3, Upwards
  <2>2. \E f : Upto(f, Len(segments))
    BY <1>1, <2>1
  <2> HIDE DEF Upto
  <2> QED
    BY <2>2
<1>5. ReceivedAll(h, segments) = after[Len(segments)]
  BY DEF ReceivedAll
<1> HIDE DEF after
<1>6. \A n \in 0..Len(segments) : after[n] = Step(after, n)
  BY <1>4
<1>7. after[0] = h /\ \A n \in 1..Len(segments) : after[n] = Received(after[n - 1], segments[n])
  BY <1>1, <1>6
<1> QED
  BY <1>5, <1>7

LEMMA ReceivedAllServes ==
  ASSUME NEW h, Sound(h), NEW segments \in Seq(AllSegments)
  PROVE  Serves(h, ReceivedAll(h, segments))
<1>1. PICK after : /\ after[0] = h /\ ReceivedAll(h, segments) = after[Len(segments)]
                   /\ \A n \in 1..Len(segments) : after[n] = Received(after[n - 1], segments[n])
  BY ReceivedInSteps
<1>2. Len(segments) \in Nat /\ \A n \in 1..Len(segments) : segments[n] \in AllSegments
  OBVIOUS
<1> DEFINE T == {k \in Nat : k <= Len(segments) => Serves(h, after[k])}
<1>3. 0 \in T
  BY <1>1, ServesItself
<1>4. ASSUME NEW k \in Nat, k \in T PROVE k + 1 \in T
  <2> SUFFICES ASSUME k + 1 <= Len(segments) PROVE Serves(h, after[k + 1])
    OBVIOUS
  <2>1. Serves(h, after[k])
    BY <1>2, <1>4
  <2>2. after[k + 1] = Received(after[k], segments[k + 1])
    <3>1. k + 1 \in 1..Len(segments) /\ (k + 1) - 1 = k
      BY <1>2
    <3> QED
      BY <1>1, <3>1
  <2>3. segments[k + 1] \in AllSegments
    BY <1>2
  <2>4. Serves(after[k], after[k + 1])
    BY <2>1, <2>2, <2>3, ReceivedServes DEF Serves
  <2> QED
    BY <2>1, <2>4, ServesTwice
<1> QED
  <2>1. Nat \subseteq T
    <3> HIDE DEF T
    <3> QED
      BY <1>3, <1>4, Upwards
  <2> QED
    BY <1>1, <1>2, <2>1

LEMMA ClosingTcp ==
  /\ NoTcp \in TcpConnections /\ NoTcp.state = "CLOSED"
  /\ \A garbled \in BOOLEAN :
       LET t == [NoTcp EXCEPT !.state = "CLOSING", !.garbled = garbled]
       IN  t \in TcpConnections /\ t.state = "CLOSING"
<1>1. 0 \in 0..MaxUnsent
  BY MaxUnsentAssumption
<1>2. \A garbled \in BOOLEAN, state \in TcpStates :
        LET t == [state |-> state, unsent |-> 0, got |-> 0, garbled |-> garbled,
                  waiting |-> FALSE]
        IN  t \in TcpConnections /\ t.state = state
  BY <1>1 DEF TcpConnections
<1>3. NoTcp = [state |-> "CLOSED", unsent |-> 0, got |-> 0, garbled |-> FALSE,
               waiting |-> FALSE]
  BY DEF NoTcp
<1>4. "CLOSED" \in TcpStates /\ "CLOSING" \in TcpStates
  BY DEF TcpStates
<1>5. NoTcp \in TcpConnections /\ NoTcp.state = "CLOSED"
  BY <1>2, <1>3, <1>4
<1>6. \A garbled \in BOOLEAN :
        LET t == [NoTcp EXCEPT !.state = "CLOSING", !.garbled = garbled]
        IN  t \in TcpConnections /\ t.state = "CLOSING"
  BY <1>4, <1>5 DEF TcpConnections
<1> QED
  BY <1>5, <1>6

(* httpdContinue() serves the connection or closes it, and leaves a packet *)
(* on its way where there is more to do.                                   *)
LEMMA ContinueServes ==
  ASSUME NEW h, Orderly(h), h.t.unsent < MaxUnsent
  PROVE  /\ Orderly(Continue(h)) /\ Settled(Continue(h))
         /\ Continue(h).e = h.e /\ Continue(h).c.remote = h.c.remote
         /\ Continue(h).t.state \in {h.t.state, "CLOSING"}
         /\ \A client \in Clients \ {h.c.remote} :
              client \in Continue(h).s.files <=> client \in h.s.files
<1>1. h \in Handlers /\ h.c \in Connections /\ h.t \in TcpConnections
  BY HandlerFields DEF Orderly
<1>2. CASE h.c.backlog # <<>>
  <2> DEFINE sent == IF Takes(h) THEN Transmitted(h, Head(h.c.backlog)) ELSE h
             rest == Tail(sent.c.backlog)
             c == [sent.c EXCEPT !.backlog = rest]
             g == [sent EXCEPT !.c = c]
  <2>1. OnlySends(h, sent)
    <3>1. Head(h.c.backlog) \in Packets
      BY <1>1, <1>2 DEF Connections
    <3> QED
      BY <1>1, <3>1, TransmittedOnlySends, OnlySendsNothing DEF Takes
  <2>2. sent.c.backlog = h.c.backlog
    BY <1>1 DEF Transmitted, Handlers
  <2>3. Continue(h) = [sent EXCEPT !.c.backlog = Tail(@)]
    BY <1>2 DEF Continue
  <2> HIDE DEF sent
  <2>4. sent \in Handlers /\ sent.c \in Connections
    BY <2>1, HandlerFields DEF OnlySends
  <2>5. rest \in Seq(Packets)
    BY <1>1, <1>2, <2>2 DEF Connections
  <2>6. Continue(h) = g
    BY <2>3
  <2> HIDE DEF rest
  <2>7. c \in Connections /\ SameRequest(sent.c, c)
    BY <2>4, <2>5 DEF Connections, SameRequest
  <2> HIDE DEF c
  <2>8. OnlySends(sent, g)
    BY <2>4, <2>7, NewBuffers
  <2> HIDE DEF g
  <2>9. OnlySends(h, g)
    BY <2>1, <2>8, OnlySendsTwice
  <2>10. Orderly(g)
    BY <2>9 DEF OnlySends, SameRequest, Orderly, AtRest, ItsCgi, ReadsFile, ReadsOn
  <2>11. Calm(g) => g.t.unsent > 0
    <3>1. Calm(g) => Takes(h)
      BY <2>9 DEF Calm, Takes, OnlySends
    <3>2. Takes(h) => g.t = Transmitted(h, Head(h.c.backlog)).t
      BY <2>4 DEF g, sent, Handlers
    <3>3. Transmitted(h, Head(h.c.backlog)).t.unsent = h.t.unsent + 1
      BY <1>1 DEF Transmitted, TcpConnections, Orderly, Handlers
    <3>4. h.t.unsent \in Nat
      BY <1>1, MaxUnsentAssumption DEF TcpConnections
    <3> QED
      BY <3>1, <3>2, <3>3, <3>4
  <2> QED
    BY <2>6, <2>9, <2>10, <2>11 DEF OnlySends, SameRequest, Settled
<1>3. CASE h.c.backlog = <<>> /\ h.c.discon
  <2> DEFINE t == [NoTcp EXCEPT !.state = "CLOSING", !.garbled = h.t.garbled]
             g == [h EXCEPT !.t = t]
  <2>1. Continue(h) = g
    BY <1>3 DEF Continue
  <2>2. t \in TcpConnections /\ t.state = "CLOSING"
    <3>1. h.t.garbled \in BOOLEAN
      BY <1>1 DEF TcpConnections
    <3> QED
      BY <3>1, ClosingTcp
  <2> HIDE DEF t
  <2>3. g \in Handlers /\ g.c = h.c /\ g.t = t /\ g.s = h.s /\ g.e = h.e
    BY <1>1, <2>2, NewFields
  <2> HIDE DEF g
  <2>4. ~Calm(g)
    BY <2>2, <2>3 DEF Calm
  <2>5. Orderly(g)
    BY <2>3 DEF Orderly
  <2> QED
    BY <2>1, <2>2, <2>3, <2>4, <2>5 DEF Settled
<1>4. CASE h.c.backlog = <<>> /\ ~h.c.discon /\ (h.c.cgi = "NULL" \/ h.e.nomem)
  <2>1. Continue(h) = h
    BY <1>4 DEF Continue
  <2>2. Settled(h)
    BY <1>4 DEF Settled, Calm, LeftToDo
  <2> QED
    BY <2>1, <2>2
<1>5. CASE h.c.backlog = <<>> /\ ~h.c.discon /\ ~(h.c.cgi = "NULL" \/ h.e.nomem)
  <2> DEFINE g == Finish(Cgi(h))
  <2>1. Continue(h) = FlushSendBuffer(g)
    BY <1>5 DEF Continue
  <2>2. MayCall(h) /\ HasRequest(h)
    BY <1>5 DEF Orderly, AtRest, MayCall, HasRequest
  <2>3. Serves(h, g)
    BY <1>5, <2>2, FinishServes
  <2> HIDE DEF g
  <2>4. Serves(h, FlushSendBuffer(g)) /\ Settled(FlushSendBuffer(g))
    BY <2>3, FlushSettles
  <2> QED
    BY <2>1, <2>4 DEF Serves, Sound
<1> QED
  BY <1>1, <1>2, <1>3, <1>4, <1>5 DEF Connections

(* httpdRecvCb() from the record it begins with to the one it leaves.      *)
LEMMA ReceivedFlushed ==
  ASSUME NEW h, Sound(h), NEW segments \in Seq(AllSegments)
  PROVE  LET g == FlushSendBuffer(ReceivedAll(h, segments))
         IN  Serves(h, g) /\ Settled(g)
BY ReceivedAllServes, FlushSettles

(* The disconnect callback: the CGI is called without a connection.        *)
LEMMA DisconnectedCalled ==
  ASSUME NEW h \in Handlers, ~h.c.conn, SharedOK(h.s), h.c.cgi # "NULL",
         h.c.remote \in h.s.files <=> ReadsFile(h.c), ItsCgi(h.c)
  PROVE  LET s == Cgi(h).h.s
         IN  /\ s \in SharedVariables /\ SharedOK(s)
             /\ h.c.remote \notin s.files
             /\ \A client \in Clients \ {h.c.remote} : client \in s.files <=> client \in h.s.files
<1> DEFINE called == Cgi(h)
<1>1. MayCall(h)
  BY DEF MayCall
<1>2. Called(h, called)
  BY <1>1, CgiCalled
<1>3. ReadsFile(h.c) => called = Done(CloseFile(h))
  BY DEF Cgi, ReadsFile, CgiEspFsHook, CgiEspFsTemplate
<1>4. ReadsFile(h.c) => called.r = "DONE"
  BY <1>3 DEF Done
<1> HIDE DEF called
<1>5. h.c.remote \notin called.h.s.files
  BY <1>2, <1>4 DEF Called
<1> QED
  BY <1>2, <1>5, HandlerFields DEF Called, Works, called

-------------------------------------------------------------------------------
(* The pool.                                                               *)
LEMMA SlotKinds ==
  ASSUME TypeOK, NEW slot \in Slots
  PROVE  /\ slot \in UsedSlots <=> connData[slot] \in Connections
         /\ slot \notin UsedSlots => connData[slot] \in {Free, Leaked}
         /\ connData[slot].remote \in Clients <=> slot \in UsedSlots
<1>1. \A c \in Connections : c.remote \in Clients
  BY DEF Connections
<1>2. Free.remote \notin Clients /\ Leaked.remote \notin Clients
  BY ClientsAssumption DEF Free, Leaked
<1>3. connData[slot] \in Connections \cup {Free, Leaked}
  BY DEF TypeOK
<1> QED
  BY <1>1, <1>2, <1>3 DEF UsedSlots

(* A client with an open connection has exactly one slot.                  *)
LEMMA SlotFound ==
  ASSUME ServerInv, NEW client \in Clients, tcp[client].state \in {"OPEN", "CLOSING"}
  PROVE  /\ SlotOf(client) \in UsedSlots /\ SlotOf(client) \in Slots
         /\ connData[SlotOf(client)].remote = client
         /\ connData[SlotOf(client)] \in Connections
         /\ \A slot \in Slots : connData[slot].remote = client => slot = SlotOf(client)
<1>1. \E slot \in Slots : connData[slot].remote = client
  BY DEF ServerInv, OneSlotEach, UsedSlots
<1>2. SlotOf(client) \in Slots /\ connData[SlotOf(client)].remote = client
  BY <1>1 DEF SlotOf
<1>3. SlotOf(client) \in UsedSlots
  BY <1>2 DEF UsedSlots
<1>4. connData[SlotOf(client)] \in Connections
  BY <1>2, <1>3, SlotKinds DEF ServerInv
<1>5. \A slot \in Slots : connData[slot].remote = client => slot = SlotOf(client)
  BY <1>2, <1>3 DEF ServerInv, OneSlotEach, UsedSlots
<1> QED
  BY <1>2, <1>3, <1>4, <1>5

(* A handler begins with a connection at rest.                             *)
LEMMA HandlerSound ==
  ASSUME ServerInv, NEW client \in Clients, tcp[client].state \in {"OPEN", "CLOSING"},
         NEW outcome \in Outcomes
  PROVE  LET h == Handler(client, outcome)
         IN  /\ Orderly(h) /\ Sound(h)
             /\ h.c = connData[SlotOf(client)] /\ h.c.remote = client
             /\ h.t = tcp[client] /\ h.s = shared /\ h.e = outcome
<1> DEFINE h == Handler(client, outcome)
<1>1. /\ connData[SlotOf(client)] \in Connections
      /\ connData[SlotOf(client)].remote = client /\ SlotOf(client) \in UsedSlots
  BY SlotFound
<1>2. tcp[client] \in TcpConnections /\ shared \in SharedVariables
  BY DEF ServerInv, TypeOK
<1>3. /\ h \in Handlers /\ h.c = connData[SlotOf(client)]
      /\ h.t = tcp[client] /\ h.s = shared /\ h.e = outcome
  BY <1>1, <1>2 DEF Handler, Handlers
<1> HIDE DEF h
<1>4. AtRest(h.c)
  BY <1>1, <1>3 DEF ServerInv
<1>5. SharedOK(h.s)
  BY <1>3 DEF ServerInv, SharedOK, ScanFlagTrue
<1>6. h.c.remote \in h.s.files <=> ReadsFile(h.c)
  BY <1>1, <1>3 DEF ServerInv
<1>7. FilesEndInside => ReadsOn(h.c) /\ GoesOn(h.c)
  BY <1>1, <1>3 DEF ServerInv
<1>8. Orderly(h) /\ h.c.remote = client
  BY <1>1, <1>3, <1>4, <1>5, <1>6, <1>7 DEF Orderly
<1>9. FilesEndInside /\ Calm(h) /\ LeftToDo(h.c) => Awaits(h)
  BY <1>3, <1>7, <1>8 DEF GoesOn, Calm, Awaits
<1> QED
  BY <1>3, <1>8, <1>9 DEF h, Sound

LEMMA OutcomeFaults ==
  ASSUME NEW outcome \in Outcomes
  PROVE  /\ outcome.refuse \in BOOLEAN /\ outcome.nomem \in BOOLEAN
         /\ outcome.noitem \in BOOLEAN
BY DEF Outcomes, MayFail, Fails

(* What a handler leaves in the place of what it began with.               *)
LEMMA Handled ==
  ASSUME ServerInv, NEW client \in Clients, tcp[client].state \in {"OPEN", "CLOSING"},
         NEW c \in Connections, NEW t \in TcpConnections, NEW s \in SharedVariables,
         c.remote = client, AtRest(c), SharedOK(s), client \in s.files <=> ReadsFile(c),
         t.state \in {"OPEN", "CLOSING"},
         \A other \in Clients \ {client} : other \in s.files <=> other \in shared.files,
         connData' = [connData EXCEPT ![SlotOf(client)] = c],
         tcp' = [tcp EXCEPT ![client] = t],
         shared' = s,
         stream' \in [Clients -> Seq(AllSegments)],
         faulted' \in BOOLEAN, disturbed' \in BOOLEAN, faulted => faulted',
         FilesEndInside =>
           ReadsOn(c) /\ (LeftToDo(c) /\ t.state = "OPEN" => t.unsent > 0 \/ faulted')
  PROVE  ServerInv' /\ LostSlots' = LostSlots /\ (faulted => faulted')
<1>1. /\ SlotOf(client) \in UsedSlots /\ SlotOf(client) \in Slots
      /\ connData[SlotOf(client)].remote = client
  BY SlotFound
<1>2. /\ connData \in [Slots -> Connections \cup {Free, Leaked}]
      /\ tcp \in [Clients -> TcpConnections] /\ shared.files \subseteq Clients
      /\ s.files \subseteq Clients
  BY DEF ServerInv, TypeOK, SharedVariables
<1>3. TypeOK'
  BY <1>1, <1>2 DEF TypeOK
<1>4. /\ connData'[SlotOf(client)] = c
      /\ \A slot \in Slots \ {SlotOf(client)} : connData'[slot] = connData[slot]
  BY <1>1, <1>2
<1>5. /\ tcp'[client] = t
      /\ \A other \in Clients \ {client} : tcp'[other] = tcp[other]
  BY <1>2
<1>6. \A slot \in Slots : connData'[slot].remote = connData[slot].remote
  BY <1>1, <1>4
<1>7. UsedSlots' = UsedSlots
  BY <1>6 DEF UsedSlots
<1>8. OneSlotEach'
  <2>1. \A slot, other \in UsedSlots :
          connData'[slot].remote = connData'[other].remote => slot = other
    BY <1>6 DEF ServerInv, OneSlotEach, UsedSlots
  <2>2. \A other \in Clients : tcp'[other].state \in {"OPEN", "CLOSING"} <=>
                                 tcp[other].state \in {"OPEN", "CLOSING"}
    BY <1>5
  <2>3. \A other \in Clients :
          tcp'[other].state \in {"OPEN", "CLOSING"} <=>
            \E slot \in UsedSlots : connData'[slot].remote = other
    BY <1>6, <2>2 DEF ServerInv, OneSlotEach, UsedSlots
  <2> QED
    BY <1>7, <2>1, <2>3 DEF OneSlotEach
<1>9. \A slot \in UsedSlots : AtRest(connData'[slot])
  BY <1>4 DEF ServerInv, UsedSlots
<1>10. \A slot \in UsedSlots : connData'[slot].remote \in s.files <=> ReadsFile(connData'[slot])
  <2> TAKE slot \in UsedSlots
  <2>1. CASE slot = SlotOf(client)
    BY <1>4, <2>1
  <2>2. CASE slot # SlotOf(client)
    <3>1. connData'[slot] = connData[slot] /\ connData[slot].remote \in Clients \ {client}
      BY <1>1, <1>4, <2>2 DEF ServerInv, OneSlotEach, UsedSlots
    <3>2. connData[slot].remote \in shared.files <=> ReadsFile(connData[slot])
      BY DEF ServerInv
    <3> QED
      BY <3>1, <3>2
  <2> QED
    BY <2>1, <2>2
<1>11. \A other \in s.files : \E slot \in UsedSlots : connData'[slot].remote = other
  <2> TAKE other \in s.files
  <2>1. \E slot \in UsedSlots : connData[slot].remote = other
    BY <1>1, <1>2 DEF ServerInv
  <2> QED
    BY <1>6, <2>1 DEF UsedSlots
<1>12. ScanFlagTrue' /\ shared'.index <= Len(shared'.form)
  BY DEF SharedOK, ScanFlagTrue
<1>13. ASSUME FilesEndInside, NEW slot \in UsedSlots
       PROVE  ReadsOn(connData'[slot]) /\ GoesOn(connData[slot])'
  <2>1. CASE slot = SlotOf(client)
    BY <1>4, <1>5, <1>13, <2>1 DEF GoesOn
  <2>2. CASE slot # SlotOf(client)
    <3>1. connData'[slot] = connData[slot] /\ connData[slot].remote \in Clients \ {client}
      BY <1>1, <1>4, <2>2 DEF ServerInv, OneSlotEach, UsedSlots
    <3>2. ReadsOn(connData[slot]) /\ GoesOn(connData[slot])
      BY <1>13 DEF ServerInv
    <3> QED
      BY <1>5, <3>1, <3>2 DEF GoesOn
  <2> QED
    BY <2>1, <2>2
<1>14. LostSlots' = LostSlots
  <2>1. connData[SlotOf(client)] \in Connections
    BY SlotFound
  <2>2. \A d \in Connections : d # Leaked
    BY ClientsAssumption DEF Connections, Leaked
  <2>3. connData[SlotOf(client)] # Leaked /\ connData'[SlotOf(client)] # Leaked
    BY <1>4, <2>1, <2>2
  <2> QED
    BY <1>4, <2>3 DEF LostSlots
<1> QED
  BY <1>3, <1>7, <1>8, <1>9, <1>10, <1>11, <1>12, <1>13, <1>14 DEF ServerInv, FilesEndInside

LEMMA Committed ==
  ASSUME ServerInv, NEW client \in Clients, tcp[client].state = "OPEN",
         NEW g, NEW uploads,
         Orderly(g), Settled(g), g.c.remote = client, g.e \in Outcomes,
         g.t.state \in {"OPEN", "CLOSING"},
         \A other \in Clients \ {client} : other \in g.s.files <=> other \in shared.files,
         Commit(client, g, uploads), stream' \in [Clients -> Seq(AllSegments)]
  PROVE  ServerInv' /\ LostSlots' = LostSlots /\ (faulted => faulted')
<1> DEFINE c == Emptied(g).c
<1>1. /\ g \in Handlers /\ g.t \in TcpConnections /\ g.s \in SharedVariables
      /\ SharedOK(g.s) /\ AtRest(g.c)
      /\ g.c.remote \in g.s.files <=> ReadsFile(g.c)
      /\ FilesEndInside => ReadsOn(g.c)
  BY HandlerFields DEF Orderly
<1>2. Emptied(g) \in Handlers /\ SameRequest(g.c, c)
  BY <1>1, EmptiedOnlySends DEF OnlySends
<1>3. c \in Connections /\ c.backlog = g.c.backlog
  <2>1. g.c \in Connections
    BY <1>1, HandlerFields
  <2> QED
    BY <1>1, <1>2, <2>1, HandlerFields DEF Emptied, Handlers, Connections
<1>4. /\ connData' = [connData EXCEPT ![SlotOf(client)] = c]
      /\ tcp' = [tcp EXCEPT ![client] = g.t] /\ shared' = g.s
      /\ faulted' = (faulted \/ g.e.refuse \/ g.e.nomem \/ g.e.noitem)
  BY DEF Commit
<1>5. faulted' \in BOOLEAN
  BY <1>4
<1>6. disturbed' \in BOOLEAN
  BY DEF Commit
<1> HIDE DEF c
<1>7. c.remote = client /\ AtRest(c) /\ (client \in g.s.files <=> ReadsFile(c))
  BY <1>1, <1>2 DEF SameRequest, AtRest, ItsCgi, ReadsFile
<1>8. FilesEndInside => ReadsOn(c)
  BY <1>1, <1>2 DEF SameRequest, ReadsOn, ReadsFile
<1>9. LeftToDo(c) => LeftToDo(g.c)
  BY <1>2, <1>3 DEF SameRequest, LeftToDo
<1>10. g.t.state = "OPEN" /\ ~faulted' => Calm(g)
  BY <1>1, <1>4 DEF Calm, AtRest
<1>11. FilesEndInside /\ LeftToDo(c) /\ g.t.state = "OPEN" => g.t.unsent > 0 \/ faulted'
  BY <1>9, <1>10 DEF Settled
<1>12. faulted => faulted'
  BY <1>4
<1> QED
  BY <1>1, <1>3, <1>4, <1>5, <1>6, <1>7, <1>8, <1>11, <1>12, Handled

LEMMA RecvCbKeeps ==
  ASSUME ServerInv, NEW client \in Clients, NEW n, RecvCb(client, n)
  PROVE  ServerInv' /\ LostSlots' = LostSlots /\ (faulted => faulted')
<1> DEFINE segments == SubSeq(stream[client], 1, n)
<1>1. /\ stream \in [Clients -> Seq(AllSegments)] /\ stream[client] \in Seq(AllSegments)
      /\ n \in 1..Len(stream[client]) /\ tcp[client].state = "OPEN"
  BY DEF ServerInv, TypeOK, RecvCb
<1>2. segments \in Seq(AllSegments)
  BY <1>1
<1>3. stream' \in [Clients -> Seq(AllSegments)]
  <2>1. SubSeq(stream[client], n + 1, Len(stream[client])) \in Seq(AllSegments)
    BY <1>1
  <2> QED
    BY <1>1, <2>1 DEF RecvCb
<1>4. PICK outcome \in Outcomes :
        LET h == Handler(client, outcome)
        IN  Commit(client, IF outcome.nomem THEN h ELSE FlushSendBuffer(ReceivedAll(h, segments)),
                   Uploads \ {SlotOf(client)})
  BY DEF RecvCb
<1> DEFINE h == Handler(client, outcome)
           g == IF outcome.nomem THEN h ELSE FlushSendBuffer(ReceivedAll(h, segments))
<1>5. Sound(h) /\ h.c.remote = client /\ h.t = tcp[client] /\ h.s = shared /\ h.e = outcome
  BY <1>1, HandlerSound
<1> HIDE DEF h, segments
<1>6. Serves(h, g) /\ Settled(g)
  <2>1. CASE outcome.nomem
    BY <1>5, <2>1, ServesItself DEF Settled, Calm
  <2>2. CASE ~outcome.nomem
    BY <1>2, <1>5, <2>2, ReceivedFlushed
  <2> QED
    BY <2>1, <2>2
<1>7. Commit(client, g, Uploads \ {SlotOf(client)})
  BY <1>4 DEF h
<1> HIDE DEF g
<1> QED
  BY <1>1, <1>3, <1>5, <1>6, <1>7, Committed DEF Serves, Sound

LEMMA SentCbKeeps ==
  ASSUME ServerInv, NEW client \in Clients, SentCb(client)
  PROVE  ServerInv' /\ LostSlots' = LostSlots /\ (faulted => faulted')
<1>1. /\ stream' \in [Clients -> Seq(AllSegments)] /\ tcp[client].state = "OPEN"
      /\ tcp[client] \in TcpConnections /\ tcp[client].unsent > 0
  BY DEF ServerInv, TypeOK, SentCb
<1>2. PICK outcome \in Outcomes :
        LET h == Handler(client, outcome)
        IN  Commit(client, Continue([h EXCEPT !.t.unsent = @ - 1]), Uploads)
  BY DEF SentCb
<1> DEFINE h == Handler(client, outcome)
           t == [h.t EXCEPT !.unsent = @ - 1]
           sent == [h EXCEPT !.t = t]
           g == Continue(sent)
<1>3. Orderly(h) /\ h.c.remote = client /\ h.t = tcp[client] /\ h.s = shared /\ h.e = outcome
  BY <1>1, HandlerSound
<1> HIDE DEF h
<1>4. [h EXCEPT !.t.unsent = @ - 1] = sent
  OBVIOUS
<1>5. Commit(client, g, Uploads)
  BY <1>2, <1>4 DEF h
<1>6. t \in TcpConnections /\ t.state = "OPEN" /\ t.unsent < MaxUnsent
  <2>1. h.t.unsent - 1 \in 0..MaxUnsent /\ h.t.unsent - 1 < MaxUnsent
    BY <1>1, <1>3, MaxUnsentAssumption DEF TcpConnections
  <2> QED
    BY <1>1, <1>3, <2>1 DEF TcpConnections
<1> HIDE DEF t
<1>7. sent \in Handlers /\ sent.c = h.c /\ sent.t = t /\ sent.s = h.s /\ sent.e = h.e
  BY <1>3, <1>6, NewFields DEF Orderly
<1> HIDE DEF sent
<1>8. Orderly(sent)
  BY <1>3, <1>7 DEF Orderly
<1>9. /\ Orderly(g) /\ Settled(g) /\ g.e = outcome /\ g.c.remote = client /\ g.t.state \in {"OPEN", "CLOSING"}
      /\ \A other \in Clients \ {client} : other \in g.s.files <=> other \in shared.files
  BY <1>3, <1>6, <1>7, <1>8, ContinueServes
<1> HIDE DEF g
<1> QED
  BY <1>1, <1>5, <1>9, Committed

(* A step that leaves the used slots as they are.                          *)
LEMMA PoolUntouched ==
  ASSUME ServerInv, TypeOK', UsedSlots' = UsedSlots,
         \A slot \in UsedSlots : connData'[slot] = connData[slot],
         \A client \in Clients : tcp'[client].state \in {"OPEN", "CLOSING"} <=>
                                   tcp[client].state \in {"OPEN", "CLOSING"},
         \A client \in Clients : tcp'[client].state = "OPEN" =>
           tcp[client].state = "OPEN" /\ tcp'[client].unsent = tcp[client].unsent,
         faulted => faulted',
         shared'.files = shared.files, SharedOK(shared')
  PROVE  ServerInv'
<1>1. OneSlotEach'
  BY DEF ServerInv, OneSlotEach
<1>2. \A slot \in UsedSlots : AtRest(connData'[slot])
  BY DEF ServerInv
<1>3. \A slot \in UsedSlots : connData'[slot].remote \in shared'.files <=> ReadsFile(connData'[slot])
  BY DEF ServerInv
<1>4. \A client \in shared'.files : \E slot \in UsedSlots : connData'[slot].remote = client
  BY DEF ServerInv
<1>5. ScanFlagTrue' /\ shared'.index <= Len(shared'.form)
  BY DEF SharedOK, ScanFlagTrue
<1>6. ASSUME FilesEndInside, NEW slot \in UsedSlots
      PROVE  ReadsOn(connData'[slot]) /\ GoesOn(connData[slot])'
  <2>1. ReadsOn(connData[slot]) /\ GoesOn(connData[slot])
    BY <1>6 DEF ServerInv
  <2>2. connData'[slot] = connData[slot] /\ connData[slot].remote \in Clients
    BY DEF UsedSlots
  <2> QED
    BY <2>1, <2>2 DEF GoesOn
<1> QED
  BY <1>1, <1>2, <1>3, <1>4, <1>5, <1>6 DEF ServerInv, FilesEndInside

LEMMA SharedIsOK == ServerInv => SharedOK(shared)
BY DEF ServerInv, SharedOK, ScanFlagTrue

LEMMA DisconCbKeeps ==
  ASSUME ServerInv, NEW client \in Clients, DisconCb(client)
  PROVE  ServerInv'
<1> DEFINE x == SlotOf(client)
<1>1. /\ x \in UsedSlots /\ x \in Slots /\ connData[x].remote = client /\ connData[x] \in Connections
      /\ \A slot \in Slots : connData[slot].remote = client => slot = x
      /\ tcp[client].state = "CLOSING"
  BY SlotFound DEF DisconCb
<1>2. PICK outcome \in Outcomes :
        LET h == [Handler(client, outcome) EXCEPT !.c.conn = FALSE]
        IN  shared' = IF h.c.cgi = "NULL" THEN h.s ELSE Cgi(h).h.s
  BY DEF DisconCb
<1> DEFINE begun == Handler(client, outcome)
           c == [begun.c EXCEPT !.conn = FALSE]
           h == [begun EXCEPT !.c = c]
<1>3. Orderly(begun) /\ begun.c.remote = client /\ begun.s = shared
  BY <1>1, HandlerSound
<1>4. [begun EXCEPT !.c.conn = FALSE] = h
  OBVIOUS
<1>5. shared' = IF h.c.cgi = "NULL" THEN h.s ELSE Cgi(h).h.s
  BY <1>2, <1>4
<1> HIDE DEF begun
<1>6. begun \in Handlers /\ begun.c \in Connections
  BY <1>3, HandlerFields DEF Orderly
<1>7. /\ c \in Connections /\ c.remote = client /\ ~c.conn /\ c.cgi = begun.c.cgi
      /\ c.url = begun.c.url /\ c.chunked = begun.c.chunked
  BY <1>3, <1>6 DEF Connections
<1> HIDE DEF c
<1>8. h \in Handlers /\ h.c = c /\ h.s = begun.s
  BY <1>6, <1>7, NewFields
<1> HIDE DEF h
<1>9. /\ ~h.c.conn /\ h.c.remote = client /\ SharedOK(h.s)
      /\ h.c.remote \in h.s.files <=> ReadsFile(h.c)
      /\ ItsCgi(h.c)
  BY <1>3, <1>7, <1>8 DEF Orderly, ReadsFile, AtRest, ItsCgi
<1>10. /\ shared' \in SharedVariables /\ SharedOK(shared')
       /\ client \notin shared'.files
       /\ \A other \in Clients \ {client} : other \in shared'.files <=> other \in shared.files
  <2>1. CASE h.c.cgi = "NULL"
    BY <1>3, <1>5, <1>8, <1>9, <2>1, HandlerFields DEF ReadsFile
  <2>2. CASE h.c.cgi # "NULL"
    BY <1>3, <1>5, <1>8, <1>9, <2>2, DisconnectedCalled
  <2> QED
    BY <2>1, <2>2
<1>11. /\ connData' = [connData EXCEPT ![x] = Free] /\ tcp' = [tcp EXCEPT ![client] = NoTcp]
       /\ stream' = stream /\ faulted' = faulted
       /\ disturbed' \in BOOLEAN
  BY DEF DisconCb, RetireConn
<1>12. /\ connData \in [Slots -> Connections \cup {Free, Leaked}]
       /\ tcp \in [Clients -> TcpConnections] /\ stream \in [Clients -> Seq(AllSegments)]
       /\ faulted \in BOOLEAN
  BY DEF ServerInv, TypeOK
<1> HIDE DEF x
<1>13. TypeOK'
  BY <1>1, <1>10, <1>11, <1>12, ClosingTcp DEF TypeOK
<1>14. /\ connData'[x] = Free
       /\ \A slot \in Slots \ {x} : connData'[slot] = connData[slot]
  BY <1>1, <1>11, <1>12
<1>15. UsedSlots' = UsedSlots \ {x}
  <2>1. Free.remote \notin Clients
    BY ClientsAssumption DEF Free
  <2> QED
    BY <1>1, <1>14, <2>1 DEF UsedSlots
<1>16. \A slot \in UsedSlots' : /\ slot \in UsedSlots /\ connData'[slot] = connData[slot]
                                /\ connData[slot].remote \in Clients \ {client}
  BY <1>1, <1>14, <1>15 DEF UsedSlots
<1>17. OneSlotEach'
  <2>1. \A slot, other \in UsedSlots' :
          connData'[slot].remote = connData'[other].remote => slot = other
    BY <1>16 DEF ServerInv, OneSlotEach
  <2>2. tcp'[client].state = "CLOSED" /\ \A other \in Clients \ {client} : tcp'[other] = tcp[other]
    BY <1>11, <1>12, ClosingTcp
  <2>3. \A other \in Clients \ {client} :
          (\E slot \in UsedSlots : connData[slot].remote = other) <=>
            \E slot \in UsedSlots' : connData'[slot].remote = other
    BY <1>1, <1>15, <1>16
  <2>4. \A other \in Clients \ {client} :
          tcp'[other].state \in {"OPEN", "CLOSING"} <=>
            \E slot \in UsedSlots' : connData'[slot].remote = other
    BY <2>2, <2>3 DEF ServerInv, OneSlotEach
  <2>5. ~ \E slot \in UsedSlots' : connData'[slot].remote = client
    BY <1>16
  <2> QED
    BY <2>1, <2>2, <2>4, <2>5 DEF OneSlotEach
<1>18. \A slot \in UsedSlots' : AtRest(connData'[slot])
  BY <1>16 DEF ServerInv
<1>19. \A slot \in UsedSlots' :
         connData'[slot].remote \in shared'.files <=> ReadsFile(connData'[slot])
  <2> TAKE slot \in UsedSlots'
  <2>1. connData[slot].remote \in shared.files <=> ReadsFile(connData[slot])
    BY <1>16 DEF ServerInv
  <2> QED
    BY <1>10, <1>16, <2>1
<1>20. \A other \in shared'.files : \E slot \in UsedSlots' : connData'[slot].remote = other
  <2> TAKE other \in shared'.files
  <2>1. other \in Clients \ {client} /\ other \in shared.files
    BY <1>10 DEF SharedVariables
  <2>2. PICK slot \in UsedSlots : connData[slot].remote = other
    BY <2>1 DEF ServerInv
  <2> QED
    BY <1>1, <1>15, <1>16, <2>1, <2>2
<1>21. ScanFlagTrue' /\ shared'.index <= Len(shared'.form)
  BY <1>10 DEF SharedOK, ScanFlagTrue
<1>22. ASSUME FilesEndInside, NEW slot \in UsedSlots'
       PROVE  ReadsOn(connData'[slot]) /\ GoesOn(connData[slot])'
  <2>1. ReadsOn(connData[slot]) /\ GoesOn(connData[slot])
    BY <1>16, <1>22 DEF ServerInv
  <2>2. tcp'[connData'[slot].remote] = tcp[connData[slot].remote]
    BY <1>11, <1>12, <1>16
  <2> QED
    BY <1>11, <1>16, <2>1, <2>2 DEF GoesOn
<1> QED
  BY <1>13, <1>17, <1>18, <1>19, <1>20, <1>21, <1>22 DEF ServerInv, FilesEndInside

(* httpdConnectCb() finds a free slot where there is one.                  *)
LEMMA FreeSlotFound == FreeSlots # {} => Min(FreeSlots) \in FreeSlots
<1> SUFFICES ASSUME FreeSlots # {} PROVE Min(FreeSlots) \in FreeSlots
  OBVIOUS
<1>1. FreeSlots \subseteq Nat
  BY DEF FreeSlots, Slots
<1>2. \E m \in FreeSlots : \A n \in FreeSlots : m <= n
  BY <1>1, LeastElement
<1> QED
  BY <1>2 DEF Min

LEMMA NewConnectionRests ==
  ASSUME NEW client \in Clients
  PROVE  LET c == NewConnection(client)
         IN  /\ c \in Connections /\ AtRest(c) /\ ~ReadsFile(c)
             /\ c.remote = client /\ ~LeftToDo(c)
<1>1. <<>> \in Seq(Parts) /\ <<>> \in Seq(Packets) /\ <<>> \in Seq(Nat)
  OBVIOUS
<1> QED
  BY <1>1 DEF NewConnection, Connections, AtRest, ItsCgi, ReadsFile, LeftToDo, CgiFunctions, NoData

LEMMA ConnectCbKeeps ==
  ASSUME ServerInv, NEW client \in Clients, ConnectCb(client)
  PROVE  ServerInv'
<1> DEFINE x == Min(FreeSlots)
<1>1. /\ connData \in [Slots -> Connections \cup {Free, Leaked}]
      /\ tcp \in [Clients -> TcpConnections] /\ stream \in [Clients -> Seq(AllSegments)]
      /\ shared \in SharedVariables /\ faulted \in BOOLEAN /\ disturbed \in BOOLEAN
      /\ SharedOK(shared)
  BY SharedIsOK DEF ServerInv, TypeOK
<1>2. tcp[client].state = "CONNECTING"
      /\ UNCHANGED <<stream, shared, disturbed>>
  BY DEF ConnectCb
<1>3. \A slot \in UsedSlots : connData[slot].remote # client
  BY <1>2 DEF ServerInv, OneSlotEach
<1>4. FreeSlots # {} => x \in Slots /\ x \notin UsedSlots
  <2>1. Free.remote \notin Clients
    BY ClientsAssumption DEF Free
  <2> QED
    BY <2>1, FreeSlotFound DEF FreeSlots, UsedSlots
<1> HIDE DEF x
<1>5. CASE /\ FreeSlots # {}
           /\ connData' = [connData EXCEPT ![x] = NewConnection(client)]
           /\ tcp' = [tcp EXCEPT ![client].state = "OPEN"]
           /\ UNCHANGED faulted
  <2> DEFINE c == NewConnection(client)
             t == [tcp[client] EXCEPT !.state = "OPEN"]
  <2>1. c \in Connections /\ AtRest(c) /\ ~ReadsFile(c) /\ c.remote = client /\ ~LeftToDo(c)
    BY NewConnectionRests
  <2>2. t \in TcpConnections /\ t.state = "OPEN"
    BY <1>1 DEF TcpConnections, TcpStates
  <2>3. tcp' = [tcp EXCEPT ![client] = t] /\ connData' = [connData EXCEPT ![x] = c]
    BY <1>1, <1>5
  <2> HIDE DEF c, t
  <2>4. TypeOK'
    <3>1. connData' \in [Slots -> Connections \cup {Free, Leaked}]
      BY <1>1, <2>1, <2>3
    <3>2. tcp' \in [Clients -> TcpConnections]
      BY <1>1, <2>2, <2>3
    <3> QED
      BY <1>1, <1>2, <1>5, <3>1, <3>2 DEF TypeOK
  <2>5. /\ connData'[x] = c /\ \A slot \in Slots \ {x} : connData'[slot] = connData[slot]
        /\ tcp'[client] = t /\ \A other \in Clients \ {client} : tcp'[other] = tcp[other]
    BY <1>1, <1>4, <1>5, <2>3
  <2>6. UsedSlots' = UsedSlots \cup {x}
    BY <1>4, <1>5, <2>1, <2>5 DEF UsedSlots
  <2>7. \A slot \in UsedSlots : connData'[slot] = connData[slot]
    BY <1>4, <1>5, <2>5 DEF UsedSlots
  <2>8. OneSlotEach'
    <3>1. \A slot, other \in UsedSlots \cup {x} :
            connData'[slot].remote = connData'[other].remote => slot = other
      BY <1>3, <2>1, <2>5, <2>7 DEF ServerInv, OneSlotEach
    <3>2. \A other \in Clients \ {client} :
            tcp'[other].state \in {"OPEN", "CLOSING"} <=>
              \E slot \in UsedSlots \cup {x} : connData'[slot].remote = other
      BY <2>1, <2>5, <2>7 DEF ServerInv, OneSlotEach
    <3>3. tcp'[client].state = "OPEN" /\ connData'[x].remote = client
      BY <2>1, <2>2, <2>5
    <3> QED
      BY <2>6, <3>1, <3>2, <3>3 DEF OneSlotEach
  <2>9. \A slot \in UsedSlots' : AtRest(connData'[slot])
    BY <2>1, <2>5, <2>6, <2>7 DEF ServerInv
  <2>10. client \notin shared.files
    BY <1>3 DEF ServerInv
  <2>11. \A slot \in UsedSlots' : connData'[slot].remote \in shared.files <=> ReadsFile(connData'[slot])
    <3>1. \A slot \in UsedSlots : connData'[slot].remote \in shared.files <=> ReadsFile(connData'[slot])
      BY <2>7 DEF ServerInv
    <3>2. connData'[x].remote \notin shared.files /\ ~ReadsFile(connData'[x])
      BY <2>1, <2>5, <2>10
    <3> QED
      BY <2>6, <3>1, <3>2
  <2>12. \A other \in shared.files : \E slot \in UsedSlots' : connData'[slot].remote = other
    BY <2>6, <2>7 DEF ServerInv
  <2>13. ScanFlagTrue' /\ shared'.index <= Len(shared'.form)
    BY <1>1, <1>2 DEF SharedOK, ScanFlagTrue
  <2>14. ASSUME FilesEndInside, NEW slot \in UsedSlots'
         PROVE  ReadsOn(connData'[slot]) /\ GoesOn(connData[slot])'
    <3>1. CASE slot = x
      BY <2>1, <2>5, <3>1 DEF ReadsOn, GoesOn
    <3>2. CASE slot \in UsedSlots
      <4>1. ReadsOn(connData[slot]) /\ GoesOn(connData[slot])
        BY <2>14, <3>2 DEF ServerInv
      <4>2. /\ connData'[slot] = connData[slot]
            /\ tcp'[connData[slot].remote] = tcp[connData[slot].remote]
        BY <1>3, <2>5, <2>7, <3>2 DEF UsedSlots
      <4> QED
        BY <1>5, <4>1, <4>2 DEF GoesOn
    <3> QED
      BY <2>6, <3>1, <3>2
  <2> QED
    BY <1>2, <2>4, <2>8, <2>9, <2>11, <2>12, <2>13, <2>14 DEF ServerInv, FilesEndInside
<1>6. CASE /\ FreeSlots = {} \/ Fails("nomem")
           /\ tcp' = [tcp EXCEPT ![client] = NoTcp]
           /\ faulted' = (faulted \/ FreeSlots # {})
           /\ UNCHANGED connData
  <2>1. TypeOK'
    BY <1>1, <1>2, <1>6, ClosingTcp DEF TypeOK
  <2>2. UsedSlots' = UsedSlots
    BY <1>6 DEF UsedSlots
  <2>3. \A other \in Clients : tcp'[other].state \in {"OPEN", "CLOSING"} <=>
                                 tcp[other].state \in {"OPEN", "CLOSING"}
    BY <1>1, <1>2, <1>6, ClosingTcp
  <2>4. \A other \in Clients : tcp'[other].state = "OPEN" => tcp'[other] = tcp[other]
    BY <1>1, <1>6, ClosingTcp
  <2> QED
    BY <1>1, <1>2, <1>6, <2>1, <2>2, <2>3, <2>4, PoolUntouched
<1>7. CASE /\ FreeSlots # {}
           /\ Fails("post_alloc")
           /\ connData' = [connData EXCEPT ![x] = Leaked]
           /\ tcp' = [tcp EXCEPT ![client] = NoTcp]
           /\ faulted' = TRUE
  <2>1. TypeOK'
    BY <1>1, <1>2, <1>4, <1>7, ClosingTcp DEF TypeOK
  <2>2. /\ connData'[x] = Leaked
        /\ \A slot \in Slots \ {x} : connData'[slot] = connData[slot]
    BY <1>1, <1>4, <1>7
  <2>3. UsedSlots' = UsedSlots
    <3>1. Leaked.remote \notin Clients
      BY ClientsAssumption DEF Leaked
    <3> QED
      BY <1>4, <1>7, <2>2, <3>1 DEF UsedSlots
  <2>4. \A slot \in UsedSlots : connData'[slot] = connData[slot]
    BY <1>4, <1>7, <2>2 DEF UsedSlots
  <2>5. \A other \in Clients : tcp'[other].state \in {"OPEN", "CLOSING"} <=>
                                 tcp[other].state \in {"OPEN", "CLOSING"}
    BY <1>1, <1>2, <1>7, ClosingTcp
  <2>6. \A other \in Clients : tcp'[other].state = "OPEN" => tcp'[other] = tcp[other]
    BY <1>1, <1>7, ClosingTcp
  <2> QED
    BY <1>1, <1>2, <1>7, <2>1, <2>3, <2>4, <2>5, <2>6, PoolUntouched
<1> QED
  BY <1>5, <1>6, <1>7 DEF ConnectCb, x

-------------------------------------------------------------------------------
(* The clients, the scan and the restart.                                  *)
LEMMA SegmentsAreSegments ==
  ASSUME NEW client \in Clients, NEW request \in Requests
  PROVE  Segments(client, request) \in Seq(AllSegments)
<1> DEFINE head == [kind |-> "head", request |-> request]
           form == [k \in 1..FormParts |-> [kind |-> "form", part |-> Part(client, k)]]
<1>1. <<head>> \in Seq(AllSegments)
  BY DEF AllSegments
<1>2. form \in Seq(AllSegments)
  <2>1. \A k \in 1..FormParts : [kind |-> "form", part |-> Part(client, k)] \in AllSegments
    BY DEF AllSegments, Parts, Part
  <2>2. FormParts \in Nat
    BY FormPartsAssumption
  <2> QED
    BY <2>1, <2>2
<1>3. <<>> \in Seq(AllSegments)
  OBVIOUS
<1>4. Segments(client, request) = <<head>> \o IF request.name # "save" THEN <<>> ELSE form
  BY DEF Segments
<1> HIDE DEF head, form
<1> QED
  BY <1>1, <1>2, <1>3, <1>4

(* A step of a client that has no connection, or keeps or loses one.       *)
LEMMA ClientKeeps ==
  ASSUME ServerInv, NEW client \in Clients, NEW t \in TcpConnections,
         t.state \in {"OPEN", "CLOSING"} <=> tcp[client].state \in {"OPEN", "CLOSING"},
         t.state = "OPEN" => tcp[client].state = "OPEN" /\ t.unsent = tcp[client].unsent,
         tcp' = [tcp EXCEPT ![client] = t],
         stream' \in [Clients -> Seq(AllSegments)],
         UNCHANGED <<connData, shared, history>>
  PROVE  ServerInv'
<1>1. /\ TypeOK /\ tcp \in [Clients -> TcpConnections]
      /\ connData' = connData /\ shared' = shared /\ faulted' = faulted /\ disturbed' = disturbed
  BY DEF ServerInv, TypeOK, history
<1>2. TypeOK'
  BY <1>1 DEF TypeOK
<1>3. UsedSlots' = UsedSlots
  BY <1>1 DEF UsedSlots
<1>4. \A other \in Clients : tcp'[other].state \in {"OPEN", "CLOSING"} <=>
                               tcp[other].state \in {"OPEN", "CLOSING"}
  BY <1>1
<1>5. \A other \in Clients : tcp'[other].state = "OPEN" =>
        tcp[other].state = "OPEN" /\ tcp'[other].unsent = tcp[other].unsent
  BY <1>1
<1> QED
  BY <1>1, <1>2, <1>3, <1>4, <1>5, SharedIsOK, PoolUntouched

LEMMA ClientsKeep ==
  ASSUME ServerInv, NEW client \in Clients,
         \/ ClientConnects(client) \/ ConnectionLost(client)
         \/ \E request \in Requests : ClientAsks(client, request)
  PROVE  ServerInv'
<1>1. /\ tcp \in [Clients -> TcpConnections] /\ stream \in [Clients -> Seq(AllSegments)]
      /\ tcp[client] \in TcpConnections
  BY DEF ServerInv, TypeOK
<1>2. CASE ClientConnects(client)
  <2> DEFINE t == [tcp[client] EXCEPT !.state = "CONNECTING"]
  <2>1. t \in TcpConnections /\ t.state = "CONNECTING"
    BY <1>1 DEF TcpConnections, TcpStates
  <2>2. tcp' = [tcp EXCEPT ![client] = t] /\ tcp[client].state = "CLOSED"
        /\ stream' = stream /\ UNCHANGED <<connData, shared, history>>
    BY <1>1, <1>2 DEF ClientConnects
  <2> HIDE DEF t
  <2> QED
    BY <1>1, <2>1, <2>2, ClientKeeps
<1>3. CASE ConnectionLost(client)
  <2> DEFINE t == [NoTcp EXCEPT !.state = "CLOSING"]
  <2>1. t \in TcpConnections /\ t.state = "CLOSING"
    BY ClosingTcp DEF TcpConnections, TcpStates
  <2>2. tcp' = [tcp EXCEPT ![client] = t] /\ tcp[client].state = "OPEN"
        /\ stream' = [stream EXCEPT ![client] = <<>>] /\ UNCHANGED <<connData, shared, history>>
    BY <1>3 DEF ConnectionLost
  <2>3. stream' \in [Clients -> Seq(AllSegments)]
    BY <1>1, <2>2
  <2> HIDE DEF t
  <2> QED
    BY <2>1, <2>2, <2>3, ClientKeeps
<1>4. CASE \E request \in Requests : ClientAsks(client, request)
  <2>1. PICK request \in Requests : ClientAsks(client, request)
    BY <1>4
  <2> DEFINE t == [tcp[client] EXCEPT !.waiting = TRUE, !.got = 0]
  <2>2. t \in TcpConnections /\ t.state = tcp[client].state /\ t.unsent = tcp[client].unsent
    BY <1>1 DEF TcpConnections
  <2>3. tcp' = [tcp EXCEPT ![client] = t] /\ UNCHANGED <<connData, shared, history>>
        /\ stream' = [stream EXCEPT ![client] = Segments(client, request)]
    BY <2>1 DEF ClientAsks
  <2>4. stream' \in [Clients -> Seq(AllSegments)]
    BY <1>1, <2>3, SegmentsAreSegments
  <2> HIDE DEF t
  <2> QED
    BY <2>2, <2>3, <2>4, ClientKeeps
<1> QED
  BY <1>2, <1>3, <1>4

LEMMA ScanCbKeeps ==
  ASSUME ServerInv, ScanCb
  PROVE  ServerInv'
<1>1. /\ TypeOK /\ shared \in SharedVariables /\ SharedOK(shared)
      /\ connData' = connData /\ tcp' = tcp /\ stream' = stream
      /\ faulted' = faulted /\ disturbed' = disturbed
  BY SharedIsOK DEF ServerInv, TypeOK, ScanCb, history
<1>2. /\ shared' \in SharedVariables /\ SharedOK(shared') /\ shared'.files = shared.files
  <2>1. CASE shared' = ScanFailed(shared)
    BY <1>1, <2>1 DEF ScanFailed, SharedVariables, SharedOK
  <2>2. CASE \E found \in ApCounts : shared' = ScanDone(shared, found)
    <3>1. PICK found \in Nat : shared' = ScanDone(shared, found)
      BY <2>2, ApCountsAssumption
    <3> QED
      BY <1>1, <3>1 DEF ScanDone, SharedVariables, SharedOK
  <2> QED
    BY <2>1, <2>2 DEF ScanCb
<1>3. TypeOK' /\ UsedSlots' = UsedSlots
  BY <1>1, <1>2 DEF TypeOK, UsedSlots
<1> QED
  BY <1>1, <1>2, <1>3, PoolUntouched

(* After every restart as in the beginning.                                *)
LEMMA StartRests ==
  /\ Init => ServerInv
  /\ Restart => ServerInv'
<1>1. SharedInit \in SharedVariables /\ SharedOK(SharedInit) /\ SharedInit.files = {}
  <2>1. <<>> \in Seq(Parts) /\ Len(<<>>) = 0
    OBVIOUS
  <2> QED
    BY <2>1 DEF SharedInit, SharedVariables, SharedOK
<1>2. Free.remote \notin Clients
  BY ClientsAssumption DEF Free
<1>3. <<>> \in Seq(AllSegments)
  OBVIOUS
<1>4. ASSUME Init PROVE ServerInv
  <2>1. TypeOK
    <3>1. tcp \in [Clients -> TcpConnections] /\ stream \in [Clients -> Seq(AllSegments)]
      BY <1>3, <1>4, ClosingTcp DEF Init
    <3> QED
      BY <1>1, <1>4, <3>1 DEF Init, TypeOK
  <2>2. UsedSlots = {}
    BY <1>2, <1>4 DEF Init, UsedSlots
  <2>3. OneSlotEach
    BY <1>4, <2>2, ClosingTcp DEF Init, OneSlotEach
  <2> QED
    BY <1>1, <1>4, <2>1, <2>2, <2>3 DEF Init, ServerInv, SharedOK, ScanFlagTrue
<1>5. ASSUME Restart PROVE ServerInv'
  <2>1. TypeOK'
    <3>1. tcp' \in [Clients -> TcpConnections] /\ stream' \in [Clients -> Seq(AllSegments)]
      BY <1>3, <1>5, ClosingTcp DEF Restart
    <3> QED
      BY <1>1, <1>5, <3>1 DEF Restart, TypeOK
  <2>2. UsedSlots' = {}
    BY <1>2, <1>5 DEF Restart, UsedSlots
  <2>3. OneSlotEach'
    BY <1>5, <2>2, ClosingTcp DEF Restart, OneSlotEach
  <2> QED
    BY <1>1, <1>5, <2>1, <2>2, <2>3 DEF Restart, ServerInv, SharedOK, ScanFlagTrue
<1> QED
  BY <1>4, <1>5

-------------------------------------------------------------------------------
LEMMA StepKeeps ==
  ASSUME ServerInv, [Next]_vars
  PROVE  ServerInv'
<1>1. CASE ScanCb
  BY <1>1, ScanCbKeeps
<1>2. CASE Restart
  BY <1>2, StartRests
<1>3. CASE \E client \in Clients : ConnectCb(client)
  BY <1>3, ConnectCbKeeps
<1>4. CASE \E client \in Clients : SentCb(client)
  BY <1>4, SentCbKeeps
<1>5. CASE \E client \in Clients : DisconCb(client)
  BY <1>5, DisconCbKeeps
<1>6. CASE \E client \in Clients : \E n \in 1..(FormParts + 1) : RecvCb(client, n)
  BY <1>6, RecvCbKeeps
<1>7. CASE \E client \in Clients :
             \/ ClientConnects(client) \/ ConnectionLost(client)
             \/ \E request \in Requests : ClientAsks(client, request)
  BY <1>7, ClientsKeep
<1>8. CASE UNCHANGED vars
  <2>1. TypeOK' /\ UsedSlots' = UsedSlots
    BY <1>8 DEF vars, ServerInv, TypeOK, UsedSlots
  <2> QED
    BY <1>8, <2>1, SharedIsOK, PoolUntouched DEF vars
<1> QED
  BY <1>1, <1>2, <1>3, <1>4, <1>5, <1>6, <1>7, <1>8 DEF Next, AnyStep

(* The web server keeps its inductive invariant: whatever the clients ask, *)
(* in whatever segments it arrives and whatever the SDK refuses, callbacks *)
(* find and leave the pool of httpd-nonos.c, the connections of httpd.c,   *)
(* the files of httpdespfs.c and the scan of web_interface.c in order.     *)
THEOREM Invariance == Spec => []ServerInv
<1>1. Init => ServerInv
  BY StartRests
<1>2. ServerInv /\ [Next]_vars => ServerInv'
  BY StepKeeps
<1> QED
  BY <1>1, <1>2, PTL DEF Spec

(* Every variable keeps its type.                                          *)
THEOREM TypeCorrect == Spec => []TypeOK
<1>1. ServerInv => TypeOK
  BY DEF ServerInv
<1> QED
  BY <1>1, Invariance, PTL

(* The flag that keeps a second scan from starting is set exactly while    *)
(* the SDK scans (web_interface_start_wifi_scan(), its callback).          *)
THEOREM ScanFlagCorrect == Spec => []ScanFlagTrue
<1>1. ServerInv => ScanFlagTrue
  BY DEF ServerInv
<1> QED
  BY <1>1, Invariance, PTL

(* No connection is forgotten with something left to do: a packet is on    *)
(* its way, and its sent callback, httpdContinue(), goes on with the       *)
(* backlog, the rest of a file or the closing.  A read of httpdespfs.c     *)
(* that fills its buffer with the end of a file sends nothing after it, so *)
(* the lengths of the files are assumed to be no multiple of the buffer's. *)
THEOREM NothingStalls ==
  ASSUME FilesEndInside
  PROVE  Spec => []SomethingUnsent
<1>1. ASSUME ServerInv PROVE SomethingUnsent
  <2> SUFFICES ASSUME NEW slot \in Slots, connData[slot] \notin {Free, Leaked}
               PROVE  GoesOn(connData[slot])
    BY DEF SomethingUnsent
  <2>1. slot \in UsedSlots
    BY <1>1, SlotKinds DEF ServerInv
  <2> QED
    BY <1>1, <2>1 DEF ServerInv
<1> QED
  BY <1>1, Invariance, PTL

(* Where slots are lost: in httpdConnectCb() and nowhere else.             *)
LEMMA LostSlotsStep ==
  ASSUME ServerInv, SlotsAccounted, [Next]_vars
  PROVE  SlotsAccounted'
<1>1. CASE LostSlots' = LostSlots /\ (faulted => faulted')
  BY <1>1 DEF SlotsAccounted
<1>2. CASE \/ ScanCb \/ UNCHANGED vars
           \/ \E client \in Clients :
                \/ ClientConnects(client) \/ ConnectionLost(client)
                \/ \E request \in Requests : ClientAsks(client, request)
  <2>1. connData' = connData /\ faulted' = faulted
    BY <1>2 DEF ScanCb, ClientConnects, ConnectionLost, ClientAsks, history, vars
  <2> QED
    BY <1>1, <2>1 DEF LostSlots
<1>3. CASE \E client \in Clients :
             SentCb(client) \/ \E n \in 1..(FormParts + 1) : RecvCb(client, n)
  BY <1>1, <1>3, SentCbKeeps, RecvCbKeeps
<1>4. Free # Leaked /\ \A client \in Clients : NewConnection(client) # Leaked
  BY ClientsAssumption DEF Free, Leaked, NewConnection
<1>5. connData \in [Slots -> Connections \cup {Free, Leaked}]
  BY DEF ServerInv, TypeOK
<1>6. CASE Restart
  BY <1>4, <1>6 DEF Restart, LostSlots, SlotsAccounted
<1>7. CASE \E client \in Clients : DisconCb(client)
  <2>1. PICK client \in Clients : DisconCb(client)
    BY <1>7
  <2>2. connData' = [connData EXCEPT ![SlotOf(client)] = Free] /\ faulted' = faulted
    BY <2>1 DEF DisconCb, RetireConn
  <2>3. \A slot \in Slots : connData'[slot] \in {Free, connData[slot]}
    BY <1>5, <2>2
  <2>4. LostSlots' \subseteq LostSlots
    BY <1>4, <2>3 DEF LostSlots
  <2> QED
    BY <2>2, <2>4 DEF SlotsAccounted
<1>8. CASE \E client \in Clients : ConnectCb(client)
  <2>1. PICK client \in Clients : ConnectCb(client)
    BY <1>8
  <2> DEFINE x == Min(FreeSlots)
  <2>2. \/ connData' = connData /\ (faulted => faulted')
        \/ connData' = [connData EXCEPT ![x] = NewConnection(client)] /\ faulted' = faulted
        \/ /\ connData' = [connData EXCEPT ![x] = Leaked]
           /\ faulted' = TRUE /\ Fails("post_alloc")
    BY <2>1 DEF ConnectCb
  <2> HIDE DEF x
  <2>3. CASE connData' = connData /\ (faulted => faulted')
    BY <1>1, <2>3 DEF LostSlots
  <2>4. CASE connData' = [connData EXCEPT ![x] = NewConnection(client)] /\ faulted' = faulted
    <3>1. \A slot \in Slots : connData'[slot] \in {NewConnection(client), connData[slot]}
      BY <1>5, <2>4
    <3>2. LostSlots' \subseteq LostSlots
      BY <1>4, <3>1 DEF LostSlots
    <3> QED
      BY <2>4, <3>2 DEF SlotsAccounted
  <2>5. CASE /\ connData' = [connData EXCEPT ![x] = Leaked]
             /\ faulted' = TRUE /\ Fails("post_alloc")
    <3>1. LostSlots = {}
      BY <2>5 DEF Fails, SlotsAccounted
    <3>2. \A slot \in Slots \ {x} : connData'[slot] = connData[slot]
      BY <1>5, <2>5
    <3>3. LostSlots' \subseteq {x}
      BY <3>1, <3>2 DEF LostSlots
    <3> QED
      BY <2>5, <3>3 DEF SlotsAccounted, Fails
  <2> QED
    BY <2>2, <2>3, <2>4, <2>5
<1> QED
  BY <1>2, <1>3, <1>6, <1>7, <1>8 DEF Next, AnyStep

(* For any number of clients and slots: a connection that is served has    *)
(* its own slot and gives it back whichever way it ends, no file stays     *)
(* open behind its reader, and the only slot that can be lost is the one   *)
(* whose POST record could not be allocated (httpdConnectCb(),             *)
(* httpdRetireConn(), cgiEspFsHook()).                                     *)
THEOREM PoolCorrect == Spec => []PoolKept
<1>1. ASSUME ServerInv PROVE SlotsAreConnections
  <2> SUFFICES ASSUME NEW client \in Clients
               PROVE  Cardinality({slot \in Slots : connData[slot].remote = client})
                        = IF tcp[client].state \in {"OPEN", "CLOSING"} THEN 1 ELSE 0
    BY DEF SlotsAreConnections
  <2>1. CASE tcp[client].state \in {"OPEN", "CLOSING"}
    <3>1. {slot \in Slots : connData[slot].remote = client} = {SlotOf(client)}
      BY <1>1, <2>1, SlotFound
    <3> QED
      BY <2>1, <3>1, FS_Singleton
  <2>2. CASE tcp[client].state \notin {"OPEN", "CLOSING"}
    <3>1. {slot \in Slots : connData[slot].remote = client} = {}
      BY <1>1, <2>2 DEF ServerInv, OneSlotEach, UsedSlots
    <3> QED
      BY <2>2, <3>1, FS_EmptySet
  <2> QED
    BY <2>1, <2>2
<1>2. ASSUME ServerInv PROVE FilesBelongToReaders
  <2>1. \A client \in Clients : Known(client) =>
          tcp[client].state \in {"OPEN", "CLOSING"}
    BY <1>2 DEF ServerInv, OneSlotEach, UsedSlots, Known
  <2>2. \A client \in Clients : Known(client) =>
          (client \in shared.files <=> connData[SlotOf(client)].cgi \in {"template", "espfs"})
    BY <1>2, <2>1, SlotFound DEF ServerInv, ReadsFile
  <2>3. \A client \in shared.files : client \in Clients /\ Known(client)
    BY <1>2 DEF ServerInv, TypeOK, SharedVariables, UsedSlots, Known
  <2> QED
    BY <2>2, <2>3 DEF FilesBelongToReaders
<1>3. Init => SlotsAccounted
  BY ClientsAssumption DEF Init, SlotsAccounted, LostSlots, Free, Leaked
<1>4. ServerInv /\ SlotsAccounted /\ [Next]_vars => SlotsAccounted'
  BY LostSlotsStep
<1>5. Spec => []SlotsAccounted
  BY <1>3, <1>4, Invariance, PTL DEF Spec
<1>6. ServerInv /\ SlotsAccounted => PoolKept
  BY <1>1, <1>2 DEF PoolKept
<1> QED
  BY <1>5, <1>6, Invariance, PTL
===============================================================================

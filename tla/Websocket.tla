------------------------------- MODULE Websocket -------------------------------
(***************************************************************************)
(* The web sockets of libesphttpd (util/cgiwebsocket.c): the list of open  *)
(* sockets, the parser that a connection feeds with segments of any length *)
(* and the frames that are sent.                                           *)
(***************************************************************************)
EXTENDS Data, FiniteSets, Bitwise

CONSTANTS
  Sockets,       \* connections that may become web sockets
  Talkers,       \* those whose clients send frames
  MaxFrames,     \* bound: frames a client sends; two only if the first is left open or a PING
  SegmentSizes,  \* lengths of the segments a client's bytes come in, besides all that is left
  MaxBroadcasts  \* bound: messages the application broadcasts

ASSUME SocketsAssumption == Sockets \subseteq Nat \ {0} /\ Talkers \subseteq Sockets
ASSUME FramesAssumption == MaxFrames \in Nat /\ MaxBroadcasts \in Nat /\ SegmentSizes \subseteq Nat \ {0}

VARIABLES
  sock,       \* Websock with its WebsockPriv and what went in and out
  llStart,    \* head of the list of sockets
  broadcasts  \* how many so far

socketVars == <<sock, llStart, broadcasts>>

NONE == 0  \* the NULL pointer
CONTINUE == 0
TEXT == 1
BINARY == 2
CLOSE == 8
PING == 9
PONG == 10
FIN == 128
MASKED == 128

(* What a client sends: the payload and, unless it is <<>>, the mask.  The *)
(* length is given in 7 bits or, as a long form, in 16 or 64.  Of the last *)
(* frame only the first byte of the payload comes.                         *)
Mask == <<17, 34, 51, 68>>
Frame(flags, form, mask, payload) ==
  [flags |-> flags, form |-> form, mask |-> mask, len |-> Len(payload), payload |-> payload]
Frames ==
  {Frame(FIN + TEXT, 7, Mask, <<1, 2, 3, 4, 5>>), Frame(FIN + TEXT, 16, Mask, <<>>),
   Frame(BINARY, 64, Mask, <<6>>), Frame(FIN + CONTINUE, 7, Mask, <<7, 8>>),
   Frame(FIN + TEXT, 7, <<>>, <<9>>), Frame(FIN + PING, 7, Mask, <<10, 11>>),
   Frame(FIN + PING, 7, <<>>, <<>>), Frame(FIN + CLOSE, 7, Mask, <<3, 232>>),
   Frame(FIN + 3, 7, Mask, <<12>>), [Frame(FIN + PING, 16, Mask, <<13>>) EXCEPT !.len = 126]}

Masked(bytes, mask) ==
  IF mask = <<>> THEN bytes ELSE [i \in DOMAIN bytes |-> bytes[i] ^^ mask[((i - 1) % 4) + 1]]

Header(frame) ==
  LET len == frame.len
      mask == IF frame.mask = <<>> THEN 0 ELSE MASKED
  IN  <<frame.flags>>
      \o (CASE frame.form = 7 -> <<mask + len>>
            [] frame.form = 16 -> <<mask + 126, 0, len>>
            [] frame.form = 64 -> <<mask + 127, 0, 0, 0, 0, 0, 0, 0, len>>)
      \o frame.mask
Encoded(frame) == Header(frame) \o Masked(frame.payload, frame.mask)

Encodings(frames) ==
  LET bytes[n \in 0..Len(frames)] ==
        IF n = 0 THEN <<>> ELSE bytes[n - 1] \o Encoded(frames[n])
  IN  bytes[Len(frames)]

(* A socket that is not open; script is what its client will send.         *)
NewSocket(script) ==
  [open |-> FALSE, script |-> script, rest |-> Encodings(script), status |-> "FLAGS",
   lens |-> 0, flags |-> 0, len8 |-> 0, len |-> 0, mask |-> <<0, 0, 0, 0>>, masks |-> 0,
   maskCtr |-> 0, frameCont |-> FALSE, closedHere |-> FALSE, next |-> NONE,
   heard |-> <<>>, sent |-> <<>>, inPong |-> FALSE, torn |-> FALSE, done |-> FALSE]

-------------------------------------------------------------------------------
(* Sending.  w.sent holds a talker's frames and, after the head of a PONG, *)
(* the bytes sent for it.  A frame sent while the rest of a PONG is still  *)
(* to come tears it.                                                       *)
SendFrame(w, opcode, payload) ==
  IF w.script = <<>> THEN w
  ELSE [w EXCEPT !.sent = Append(@, [op |-> opcode, payload |-> payload]), !.torn = @ \/ w.inPong]

CgiWebsocketClose(w, reason) == [SendFrame(w, CLOSE, reason) EXCEPT !.closedHere = TRUE]

-------------------------------------------------------------------------------
(* cgiWebSocketRecv(): one byte of a header.                               *)
HeaderByte(w, byte) ==
  LET afterLength == IF w.len8 \div MASKED = 1 THEN "MASK" ELSE "PAYLOAD"
      wide == IF w.len8 % 128 = 126 THEN 2 ELSE 8
  IN  CASE w.status = "FLAGS" ->
             [w EXCEPT !.maskCtr = 0, !.frameCont = FALSE, !.flags = byte, !.status = "LEN0"]
        [] w.status = "LEN0" /\ byte % 128 >= 126 ->
             [w EXCEPT !.len8 = byte, !.len = 0, !.lens = 0, !.status = "LEN"]
        [] w.status = "LEN0" /\ byte % 128 < 126 ->
             [w EXCEPT !.len8 = byte, !.len = byte % 128, !.masks = 0,
                       !.status = IF byte \div MASKED = 1 THEN "MASK" ELSE "PAYLOAD"]
        [] w.status = "LEN" ->
             [w EXCEPT !.len = @ * 256 + byte, !.lens = @ + 1, !.masks = 0,
                       !.status = IF w.lens + 1 = wide THEN afterLength ELSE "LEN"]
        [] w.status = "MASK" ->
             [w EXCEPT !.mask[w.masks + 1] = byte, !.masks = @ + 1,
                       !.status = IF w.masks = 3 THEN "PAYLOAD" ELSE "MASK"]

(* The part of the payload that has come; bytes of a CLOSE frame that have *)
(* not are read all the same and are anything (UNKNOWN).                   *)
UNKNOWN == <<>>
Opcode(w) == w.flags % 16

ReplyPing(w, bytes) ==
  LET pong == IF w.frameCont THEN w ELSE SendFrame(w, PONG, <<>>)
      last == Len(pong.sent)
  IN  [pong EXCEPT !.sent[last].payload = IF w.frameCont /\ w.torn THEN @ ELSE @ \o bytes,
                   !.inPong = Len(bytes) < w.len]

Deliver(w, bytes) ==
  [w EXCEPT !.heard = @ \o [i \in DOMAIN bytes |->
     <<bytes[i], Opcode(w) = BINARY, w.flags \div FIN = 0>>]]

Payload(w, bytes) ==
  CASE Opcode(w) = PING /\ w.len > 125 ->
         [IF w.frameCont THEN w ELSE CgiWebsocketClose(w, <<3, 234>>) EXCEPT !.done = TRUE]
    [] Opcode(w) = PING /\ w.len <= 125 -> ReplyPing(w, bytes)
    [] Opcode(w) \in {TEXT, BINARY, CONTINUE} /\ w.len8 \div MASKED = 0 ->
         [CgiWebsocketClose(w, <<3, 234>>) EXCEPT !.done = TRUE]
    [] Opcode(w) \in {TEXT, BINARY, CONTINUE} /\ w.len8 \div MASKED = 1 -> Deliver(w, bytes)
    [] Opcode(w) = CLOSE ->
         [IF w.closedHere THEN w
          ELSE CgiWebsocketClose(w, IF Len(bytes) >= 2 THEN Take(bytes, 2) ELSE UNKNOWN)
          EXCEPT !.done = TRUE]
    [] OTHER -> w

UnmaskFromFirst(w, bytes) ==
  [i \in DOMAIN bytes |-> bytes[i] ^^ w.mask[((i - 1) % 4) + 1]]

Unmask(w, bytes) ==
  [i \in DOMAIN bytes |-> bytes[i] ^^ w.mask[((w.maskCtr + i - 1) % 4) + 1]]

TakePayload(w, data) ==
  LET bytes == Unmask(w, Take(data, w.len))
      step == Payload([w EXCEPT !.maskCtr = @ + Len(bytes)], bytes)
  IN  IF step.done THEN step
      ELSE [step EXCEPT !.len = @ - Len(bytes), !.frameCont = Len(bytes) < w.len,
                        !.status = IF Len(bytes) = w.len THEN "FLAGS" ELSE "PAYLOAD"]

(* A header that ends with the segment is handled at once, with no payload *)
(* yet.                                                                    *)
RECURSIVE Segment(_, _)
Segment(w, data) ==
  LET header == w.status # "PAYLOAD"
      parsed == IF header THEN HeaderByte(w, data[1]) ELSE w
      left == IF header THEN Tail(data) ELSE data
      step == TakePayload(parsed, left)
  IN  CASE data = <<>> -> w
        [] data # <<>> /\ parsed.status # "PAYLOAD" -> Segment(parsed, left)
        [] data # <<>> /\ parsed.status = "PAYLOAD" /\ step.done -> step
        [] OTHER -> Segment(step, Drop(left, parsed.len))

-------------------------------------------------------------------------------
(* The list.                                                               *)
RECURSIVE LastFrom(_)
LastFrom(s) == IF sock[s].next = NONE THEN s ELSE LastFrom(sock[s].next)

(* websockFree().  A talker's history is kept; it does not come back.      *)
Left(w) ==
  IF w.script = <<>> THEN NewSocket(<<>>) ELSE [w EXCEPT !.open = FALSE, !.next = NONE]

Freed(socks, s) ==
  [t \in Sockets |->
     CASE t = s -> Left(socks[s])
       [] t # s /\ llStart # s /\ socks[t].open /\ socks[t].next = s ->
            [socks[t] EXCEPT !.next = socks[s].next]
       [] OTHER -> socks[t]]
StartWithout(s) == IF llStart = s THEN sock[s].next ELSE llStart

Scripts ==
  {script \in UNION {[1..n -> Frames] : n \in 0..MaxFrames} :
     Len(script) > 1 => script[1].flags \in {BINARY, FIN + PING}}

(* cgiWebsocket(): the first call, a new Websock at the end of the list.   *)
CgiWebsocketOpen(s) ==
  /\ ~sock[s].open
  /\ ~sock[s].done
  /\ sock' = [t \in Sockets |->
       CASE t = s -> [NewSocket(sock[s].script) EXCEPT !.open = TRUE]
         [] t # s /\ llStart # NONE /\ t = LastFrom(llStart) -> [sock[t] EXCEPT !.next = s]
         [] OTHER -> sock[t]]
  /\ llStart' = IF llStart = NONE THEN s ELSE llStart
  /\ UNCHANGED broadcasts

(* A segment of n bytes arrives.                                           *)
Recv(s, n) ==
  /\ sock[s].open
  /\ n \in 1..Len(sock[s].rest)
  /\ LET w == [Segment(sock[s], Take(sock[s].rest, n)) EXCEPT !.rest = Drop(@, n)]
         after == [sock EXCEPT ![s] = w]
     IN  IF w.done
         THEN sock' = Freed(after, s) /\ llStart' = StartWithout(s)
         ELSE sock' = after /\ UNCHANGED llStart
  /\ UNCHANGED broadcasts

(* cgiWebsocket() of a connection that is gone.                            *)
Gone(s) ==
  /\ sock[s].open
  /\ sock' = Freed([sock EXCEPT ![s].done = TRUE], s)
  /\ llStart' = StartWithout(s)
  /\ UNCHANGED broadcasts

(* cgiWebsockBroadcast(), following the list.                              *)
RECURSIVE Listed(_, _)
Listed(s, seen) ==
  IF s = NONE \/ s \in seen THEN seen ELSE Listed(sock[s].next, seen \cup {s})

Broadcast ==
  /\ broadcasts < MaxBroadcasts
  /\ broadcasts' = broadcasts + 1
  /\ sock' = [s \in Sockets |->
       IF s \in Listed(llStart, {}) THEN SendFrame(sock[s], TEXT, <<broadcasts>>) ELSE sock[s]]
  /\ UNCHANGED llStart

(* The application closes a socket and waits for the client's answer.      *)
(* (Only that of a talker: only there a CLOSE frame can come.)             *)
AppClose(s) ==
  /\ s \in Talkers
  /\ sock[s].open
  /\ ~sock[s].closedHere
  /\ sock' = [sock EXCEPT ![s] = CgiWebsocketClose(@, <<3, 233>>)]
  /\ UNCHANGED <<llStart, broadcasts>>

SocketInit ==
  /\ \E script \in [Talkers -> Scripts] :
       sock = [s \in Sockets |-> NewSocket(IF s \in Talkers THEN script[s] ELSE <<>>)]
  /\ llStart = NONE
  /\ broadcasts = 0

SocketNext ==
  \/ \E s \in Sockets : CgiWebsocketOpen(s) \/ Gone(s) \/ AppClose(s)
  \/ \E s \in Talkers : \E n \in SegmentSizes \cup {Len(sock[s].rest)} : Recv(s, n)
  \/ Broadcast

-------------------------------------------------------------------------------
(* The data a client's frames carry within the first n bytes it sent, byte *)
(* by byte with the flags of its frame, up to a frame that ends the socket.*)
RECURSIVE Carried(_, _)
Carried(frames, n) ==
  LET frame == frames[1]
      op == frame.flags % 16
      head == Len(Header(frame))
      data == op \in {TEXT, BINARY, CONTINUE}
      bytes == Take(frame.payload, n - head)
      last == op = CLOSE \/ frame.len > 125 \/ (data /\ frame.mask = <<>>)
  IN  CASE frames = <<>> \/ n < head -> <<>>
        [] frames # <<>> /\ n >= head /\ last -> <<>>
        [] OTHER ->
             (IF data THEN [i \in DOMAIN bytes |->
                              <<bytes[i], op = BINARY, frame.flags \div FIN = 0>>]
                      ELSE <<>>)
             \o Carried(Tail(frames), n - head - Len(frame.payload))

(* The application hears what the client said, whatever segments it came   *)
(* in: every byte once, unmasked with the right part of the mask and with  *)
(* the flags of its frame.                                                 *)
HearsWhatWasSaid ==
  \A s \in Talkers :
    sock[s].heard = Carried(sock[s].script, Len(Encodings(sock[s].script)) - Len(sock[s].rest))

(* The list holds the open sockets and no other, in spite of sockets that  *)
(* leave from its middle, its end or its start.                            *)
ListHoldsOpenSockets == Listed(llStart, {}) = {s \in Sockets : sock[s].open}

(* A client that keeps to the protocol gets one CLOSE frame at most, and   *)
(* the answer to its PING has the payload of the PING, unless another      *)
(* frame was sent in the middle of it.                                     *)
Sent(w, opcode) == {i \in DOMAIN w.sent : w.sent[i].op = opcode}
Pings(w) == {i \in DOMAIN w.script : w.script[i].flags = FIN + PING}
KeepsToProtocol(w) ==
  \A i \in DOMAIN w.script : w.script[i].mask # <<>> /\ w.script[i].len = Len(w.script[i].payload)

AnswersWhole ==
  \A s \in Sockets :
    /\ KeepsToProtocol(sock[s]) => Cardinality(Sent(sock[s], CLOSE)) <= 1
    /\ ~sock[s].torn /\ ~sock[s].inPong =>
         \A i \in Sent(sock[s], PONG) :
           \E k \in Pings(sock[s]) : sock[s].sent[i].payload = sock[s].script[k].payload

(* What the three say together of cgiWebsocketRecv() and its list: every   *)
(* frame is heard as it was said, every answer is a whole frame, and a     *)
(* broadcast reaches exactly the sockets that are open.                    *)
FramesKept == HearsWhatWasSaid /\ AnswersWhole /\ ListHoldsOpenSockets
===============================================================================

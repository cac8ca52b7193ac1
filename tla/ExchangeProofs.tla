---------------------------- MODULE ExchangeProofs -----------------------------
(***************************************************************************)
(* Proofs about what the web server does for a client, for any number of   *)
(* clients, slots, parts of a form and lengths of files: answers arrive as *)
(* they were made, and a form is saved as it was sent.                     *)
(*                                                                         *)
(* WebServerProofs follows a callback up from httpdSend() with the pool in *)
(* mind; the lemmas here go up the same way once more, each with the three *)
(* layers that ServerIInv puts on ServerInv: where a connection stands in  *)
(* its exchange of a request and an answer (Exchange), the pieces of the   *)
(* answer (Intact), and the parts of the form (Alone, Apart).              *)
(***************************************************************************)
EXTENDS WebServerProofs, SequenceTheorems

(* What filling the send buffer leaves alone.                              *)
Leaves(h, g) ==
  /\ g \in Handlers
  /\ g.t = h.t /\ g.e = h.e
  /\ SameCall(h.c, g.c)
  /\ g.c.received = h.c.received /\ g.c.buff = h.c.buff /\ g.c.buffSize = h.c.buffSize
  /\ g.c.backlog = h.c.backlog /\ g.c.framed = h.c.framed
  /\ h.c.sendingBody => g.c.sendingBody

SameBuffer(h, g) ==
  /\ g.c.out = h.c.out /\ g.c.outLen = h.c.outLen /\ g.c.made = h.c.made
  /\ g.c.chunkHdr = h.c.chunkHdr /\ g.c.sendingBody = h.c.sendingBody

(* The buffer holds all pieces since the first m, in n bytes with the      *)
(* header of a chunk.                                                      *)
Composed(h, m, n) ==
  /\ h.c.framed
  /\ m <= h.c.made /\ h.c.out = Pieces(m, h.c.made)
  /\ h.c.outLen = 0 => h.c.made = m
  /\ h.c.outLen + (IF h.c.chunkHdr THEN 0 ELSE 6) <= n

FULL == 2046

-------------------------------------------------------------------------------
LEMMA LeavesTwice ==
  ASSUME NEW f, NEW g, NEW h, Leaves(f, g), Leaves(g, h)
  PROVE  Leaves(f, h)
BY DEF Leaves, SameCall

LEMMA LeavesNothing ==
  ASSUME NEW h \in Handlers
  PROVE  Leaves(h, h)
BY DEF Leaves, SameCall

LEMMA ComposedAgain ==
  ASSUME NEW h, NEW g \in Handlers, NEW m \in Nat, NEW n \in Nat, NEW l \in Nat,
         Leaves(h, g), SameBuffer(h, g), Composed(h, m, n), n <= l
  PROVE  Composed(g, m, l)
<1>1. g.c.outLen \in Nat
  BY HandlerFields DEF Connections
<1> QED
  BY <1>1 DEF Leaves, SameBuffer, Composed

LEMMA NextPiece ==
  ASSUME NEW m \in Nat, NEW n \in Nat, m <= n
  PROVE  Append(Pieces(m, n), n + 1) = Pieces(m, n + 1)
<1> DEFINE old == Pieces(m, n)
           new == Pieces(m, n + 1)
<1>1. old \in Seq(Nat) /\ Len(old) = n - m /\ \A i \in 1..(n - m) : old[i] = m + i
  BY DEF Pieces
<1>2. new \in Seq(Nat) /\ Len(new) = n + 1 - m /\ \A i \in 1..(n + 1 - m) : new[i] = m + i
  BY DEF Pieces
<1> HIDE DEF old, new
<1>3. Append(old, n + 1) \in Seq(Nat) /\ Len(Append(old, n + 1)) = Len(new)
  BY <1>1, <1>2
<1>4. \A i \in 1..Len(new) : Append(old, n + 1)[i] = new[i]
  BY <1>1, <1>2
<1> QED
  BY <1>2, <1>3, <1>4, SeqEqual DEF old, new

LEMMA SendFills ==
  ASSUME NEW h \in Handlers, NEW len \in Nat
  PROVE  LET g == Send(h, len)
         IN  /\ Leaves(h, g) /\ g.s = h.s
             /\ g.c.cgiData = h.c.cgiData /\ g.c.sendingBody = h.c.sendingBody
             /\ \A m, n \in Nat :
                  Composed(h, m, n) /\ n + len <= FULL => Composed(g, m, n + len)
<1> DEFINE opens == h.c.chunked /\ h.c.sendingBody /\ ~h.c.chunkHdr
           size == len + (IF opens THEN 6 ELSE 0)
           g == Send(h, len)
<1>1. h.c \in Connections /\ h.c.outLen \in Nat /\ h.c.made \in Nat /\ h.c.chunkHdr \in BOOLEAN
  BY HandlerFields DEF Connections
<1>2. g \in Handlers /\ g.e = h.e /\ g.s = h.s /\ SameRequest(h.c, g.c)
  BY SendSends DEF Sends, OnlySends
<1>3. CASE ~h.c.conn \/ len = 0
  <2>1. g = h
    BY <1>3 DEF Send
  <2>2. \A m, n \in Nat : Composed(h, m, n) => Composed(h, m, n + len)
    BY <1>1 DEF Composed
  <2> QED
    BY <2>1, <2>2, LeavesNothing
<1>4. CASE h.c.conn /\ len # 0 /\ h.c.outLen + size > HTTPD_MAX_SENDBUFF_LEN
  <2>1. g = [h EXCEPT !.c.made = @ + 1]
    BY <1>4 DEF Send
  <2>2. /\ g.t = h.t /\ g.c.backlog = h.c.backlog /\ g.c.framed = h.c.framed
        /\ g.c.sendingBody = h.c.sendingBody
    BY <1>1, <2>1 DEF Handlers, Connections
  <2>3. \A m, n \in Nat : ~(Composed(h, m, n) /\ n + len <= FULL)
    BY <1>1, <1>4 DEF Composed, FULL, HTTPD_MAX_SENDBUFF_LEN
  <2> HIDE DEF g, opens, size
  <2> QED
    BY <1>2, <2>2, <2>3 DEF Leaves, SameCall, SameRequest, g
<1>5. CASE h.c.conn /\ len # 0 /\ ~(h.c.outLen + size > HTTPD_MAX_SENDBUFF_LEN)
  <2> DEFINE c == [h.c EXCEPT !.made = @ + 1, !.out = Append(@, h.c.made + 1),
                              !.outLen = @ + size, !.chunkHdr = @ \/ opens]
  <2>1. g = [h EXCEPT !.c = c]
    <3>1. g = [h EXCEPT !.c.made = @ + 1, !.c.out = Append(@, h.c.made + 1),
                        !.c.outLen = @ + size, !.c.chunkHdr = @ \/ opens]
      BY <1>5 DEF Send
    <3> QED
      BY <3>1
  <2>2. size \in Nat /\ size > 0 /\ (opens => size = len + 6) /\ (~opens => size = len)
    BY <1>5
  <2> HIDE DEF opens, size, g
  <2>3. /\ g.t = h.t /\ g.c.backlog = h.c.backlog /\ g.c.framed = h.c.framed
        /\ g.c.sendingBody = h.c.sendingBody
        /\ g.c.made = h.c.made + 1 /\ g.c.out = Append(h.c.out, h.c.made + 1)
        /\ g.c.outLen = h.c.outLen + size /\ (g.c.chunkHdr <=> h.c.chunkHdr \/ opens)
    <3>1. /\ c.backlog = h.c.backlog /\ c.framed = h.c.framed
          /\ c.sendingBody = h.c.sendingBody
          /\ c.made = h.c.made + 1 /\ c.out = Append(h.c.out, h.c.made + 1)
          /\ c.outLen = h.c.outLen + size /\ c.chunkHdr = (h.c.chunkHdr \/ opens)
      BY <1>1 DEF Connections
    <3> HIDE DEF c
    <3>2. g.c = c /\ g.t = h.t
      BY <2>1 DEF Handlers
    <3> QED
      BY <3>1, <3>2
  <2> HIDE DEF g
  <2>4. ASSUME NEW m \in Nat, NEW n \in Nat, Composed(h, m, n)
        PROVE  Composed(g, m, n + len)
    <3>1. Append(Pieces(m, h.c.made), h.c.made + 1) = Pieces(m, h.c.made + 1)
      BY <1>1, <2>4, NextPiece DEF Composed
    <3>2. g.c.out = Pieces(m, g.c.made) /\ m <= g.c.made /\ g.c.outLen # 0 /\ g.c.framed
      BY <1>1, <2>2, <2>3, <2>4, <3>1 DEF Composed
    <3>3. h.c.outLen + (IF h.c.chunkHdr THEN 0 ELSE 6) <= n
      BY <2>4 DEF Composed
    <3>4. opens => ~h.c.chunkHdr
      BY DEF opens
    <3>5. g.c.outLen + (IF g.c.chunkHdr THEN 0 ELSE 6) <= n + len
      BY <1>1, <2>2, <2>3, <3>3, <3>4
    <3> QED
      BY <3>2, <3>5 DEF Composed
  <2> QED
    BY <1>2, <2>3, <2>4 DEF Leaves, SameCall, SameRequest, g
<1> QED
  BY <1>3, <1>4, <1>5

LEMMA HeadersFills ==
  ASSUME NEW h \in Handlers, NEW len \in Nat
  PROVE  LET g == Headers(h, len)
         IN  /\ Leaves(h, g) /\ g.s = h.s
             /\ g.c.cgiData = h.c.cgiData /\ g.c.sendingBody
             /\ \A m, n \in Nat :
                  Composed(h, m, n) /\ n + len <= FULL => Composed(g, m, n + len)
<1> DEFINE sent == Send(h, len)
           g == Headers(h, len)
<1>1. /\ Leaves(h, sent) /\ sent.s = h.s /\ sent.c.cgiData = h.c.cgiData
      /\ \A m, n \in Nat :
           Composed(h, m, n) /\ n + len <= FULL => Composed(sent, m, n + len)
  BY SendFills
<1>2. g = [sent EXCEPT !.c.sendingBody = TRUE]
  BY DEF Headers
<1>3. g \in Handlers
  BY HeadersSends DEF Sends, OnlySends
<1> HIDE DEF sent
<1>4. sent \in Handlers /\ sent.c \in Connections
  BY <1>1, HandlerFields DEF Leaves
<1>5. /\ Leaves(sent, g) /\ g.s = sent.s /\ g.c.cgiData = sent.c.cgiData /\ g.c.sendingBody
      /\ g.c.made = sent.c.made /\ g.c.out = sent.c.out /\ g.c.outLen = sent.c.outLen
      /\ g.c.chunkHdr = sent.c.chunkHdr /\ g.c.framed = sent.c.framed
  <2> DEFINE c == [sent.c EXCEPT !.sendingBody = TRUE]
  <2>1. g = [sent EXCEPT !.c = c]
    BY <1>2
  <2>2. /\ SameCall(sent.c, c) /\ c.received = sent.c.received /\ c.buff = sent.c.buff
        /\ c.buffSize = sent.c.buffSize /\ c.backlog = sent.c.backlog
        /\ c.made = sent.c.made /\ c.out = sent.c.out /\ c.outLen = sent.c.outLen
        /\ c.chunkHdr = sent.c.chunkHdr /\ c.framed = sent.c.framed
        /\ c.cgiData = sent.c.cgiData /\ c.sendingBody
    BY <1>4 DEF Connections, SameCall
  <2> HIDE DEF c, g
  <2>3. g.c = c /\ g.t = sent.t /\ g.s = sent.s /\ g.e = sent.e
    BY <1>4, <2>1 DEF Handlers
  <2> QED
    BY <1>3, <2>2, <2>3 DEF Leaves
<1> HIDE DEF g
<1>6. \A m, n \in Nat : Composed(sent, m, n) => Composed(g, m, n)
  BY <1>5 DEF Composed
<1>7. \A m, n \in Nat :
        Composed(h, m, n) /\ n + len <= FULL => Composed(g, m, n + len)
  BY <1>1, <1>6
<1>8. Leaves(h, g)
  BY <1>1, <1>5, LeavesTwice
<1>9. g.s = h.s /\ g.c.cgiData = h.c.cgiData /\ g.c.sendingBody
  BY <1>1, <1>5
<1> QED
  BY <1>7, <1>8, <1>9 DEF g

FormOf(s) == <<s.form, s.index, s.savedExactly>>

(* What a CGI function leaves behind.                                      *)
Fulfils(h, called) ==
  LET g == called.h
  IN  /\ Leaves(h, g)
      /\ g.s.aps = h.s.aps
      /\ h.c.cgi # "save" => FormOf(g.s) = FormOf(h.s)
      /\ called.r = "MORE" => ReadsFile(h.c) \/ h.c.cgi = "save"
      /\ called.r = "DONE" => g.c.sendingBody
      /\ SendsItsFile(g.c)
      /\ \A m \in Nat :
           Composed(h, m, 6) /\ ListsFit /\ h.s.aps \in ApCounts \cup {0} => Composed(g, m, FULL)

LEMMA AnswerFills ==
  ASSUME NEW h \in Handlers, NEW len \in Nat
  PROVE  LET a == Answer(h, len)
         IN  /\ a.r = "DONE" /\ Leaves(h, a.h) /\ a.h.s = h.s /\ a.h.c.sendingBody
             /\ \A m \in Nat : Composed(h, m, 6) /\ len + 126 <= FULL => Composed(a.h, m, FULL)
<1> DEFINE headed == Headers(h, HEADERS)
           g == Send(headed, len)
<1>1. HEADERS \in Nat /\ HEADERS = 120 /\ FULL \in Nat /\ FULL = 2046
  BY DEF HEADERS, FULL
<1>2. /\ Leaves(h, headed) /\ headed.s = h.s /\ headed.c.sendingBody
      /\ \A m, n \in Nat :
           Composed(h, m, n) /\ n + HEADERS <= FULL => Composed(headed, m, n + HEADERS)
  BY <1>1, HeadersFills
<1> HIDE DEF headed
<1>3. headed \in Handlers
  BY <1>2 DEF Leaves
<1>4. /\ Leaves(headed, g) /\ g.s = headed.s /\ g.c.sendingBody = headed.c.sendingBody
      /\ \A m, n \in Nat :
           Composed(headed, m, n) /\ n + len <= FULL => Composed(g, m, n + len)
  BY <1>3, SendFills
<1>5. Answer(h, len) = [h |-> g, r |-> "DONE"]
  BY DEF Answer, Done, headed
<1> HIDE DEF g
<1>6. ASSUME NEW m \in Nat, Composed(h, m, 6), len + 126 <= FULL
      PROVE  Composed(g, m, FULL)
  <2>1. Composed(headed, m, 126)
    BY <1>1, <1>2, <1>6
  <2>2. Composed(g, m, 126 + len)
    BY <1>1, <1>4, <1>6, <2>1
  <2>3. g.c.outLen \in Nat
    BY <1>4, HandlerFields DEF Leaves, Connections
  <2> QED
    BY <1>1, <1>6, <2>2, <2>3 DEF Composed
<1>7. Leaves(h, g) /\ g.s = h.s /\ g.c.sendingBody
  BY <1>2, <1>4, LeavesTwice
<1>8. \A m \in Nat : Composed(h, m, 6) /\ len + 126 <= FULL => Composed(g, m, FULL)
  BY <1>6
<1> QED
  BY <1>5, <1>7, <1>8

(* The functions that answer at once.                                      *)
LEMMA AnswerFulfils ==
  ASSUME NEW h \in Handlers, ~ReadsFile(h.c), NEW g \in Handlers, Leaves(h, g), SameBuffer(h, g),
         g.s.aps = h.s.aps, h.c.cgi # "save" => FormOf(g.s) = FormOf(h.s),
         NEW len \in Nat,
         ListsFit /\ h.s.aps \in ApCounts \cup {0} => len + 126 <= FULL
  PROVE  /\ Fulfils(h, Answer(g, len))
         /\ Fulfils(h, Done(Headers(g, HEADERS)))
<1>1. \A a, r : Leaves(g, a) => Leaves(h, a) /\ SendsItsFile(a.c)
  BY LeavesTwice DEF SendsItsFile, Leaves, SameCall, ReadsFile
<1>2. \A m \in Nat : Composed(h, m, 6) => Composed(g, m, 6)
  BY ComposedAgain
<1>3. Fulfils(h, Answer(g, len))
  <2> DEFINE a == Answer(g, len)
  <2>1. /\ a.r = "DONE" /\ Leaves(g, a.h) /\ a.h.s = g.s /\ a.h.c.sendingBody
        /\ \A m \in Nat : Composed(g, m, 6) /\ len + 126 <= FULL => Composed(a.h, m, FULL)
    BY AnswerFills
  <2> HIDE DEF a
  <2>2. Fulfils(h, a)
    BY <1>1, <1>2, <2>1 DEF Fulfils
  <2> QED
    BY <2>2 DEF a
<1>4. Fulfils(h, Done(Headers(g, HEADERS)))
  <2> DEFINE headed == Headers(g, HEADERS)
  <2>1. HEADERS \in Nat /\ HEADERS = 120 /\ FULL \in Nat /\ FULL = 2046
    BY DEF HEADERS, FULL
  <2>2. /\ Leaves(g, headed) /\ headed.s = g.s /\ headed.c.sendingBody
        /\ \A m, n \in Nat :
             Composed(g, m, n) /\ n + HEADERS <= FULL => Composed(headed, m, n + HEADERS)
    BY <2>1, HeadersFills
  <2>3. Done(headed) = [h |-> headed, r |-> "DONE"]
    BY DEF Done
  <2> HIDE DEF headed
  <2>4. ASSUME NEW m \in Nat, Composed(g, m, 6) PROVE Composed(headed, m, FULL)
    <3>1. Composed(headed, m, 126)
      BY <2>1, <2>2, <2>4
    <3>2. headed.c.outLen \in Nat
      BY <2>2, HandlerFields DEF Leaves, Connections
    <3> QED
      BY <2>1, <3>1, <3>2 DEF Composed
  <2>5. Fulfils(h, Done(headed))
    BY <1>1, <1>2, <2>2, <2>3, <2>4 DEF Fulfils
  <2> QED
    BY <2>5 DEF headed
<1> QED
  BY <1>3, <1>4

LEMMA LeavesShared ==
  ASSUME NEW f \in Handlers, NEW g \in Handlers, Leaves(f, g), SameBuffer(f, g),
         NEW s \in SharedVariables
  PROVE  LET h == [g EXCEPT !.s = s]
         IN  h \in Handlers /\ Leaves(f, h) /\ SameBuffer(f, h) /\ h.s = s /\ h.c = g.c
<1> DEFINE h == [g EXCEPT !.s = s]
<1>1. h \in Handlers /\ h.c = g.c /\ h.t = g.t /\ h.s = s /\ h.e = g.e
  BY NewFields
<1> HIDE DEF h
<1>2. Leaves(f, h) /\ SameBuffer(f, h)
  BY <1>1 DEF Leaves, SameBuffer
<1> QED
  BY <1>1, <1>2 DEF h

LEMMA SavedLeaves ==
  ASSUME NEW f \in Handlers, NEW g \in Handlers, Leaves(f, g), SameBuffer(f, g)
  PROVE  LET h == Saved(g)
         IN  /\ h \in Handlers /\ Leaves(f, h) /\ SameBuffer(f, h)
             /\ h.s.form = g.s.form /\ h.s.index = g.s.index /\ h.s.aps = g.s.aps
             /\ h.s.savedExactly \in {g.s.savedExactly, Exactly(DataJson(g.s.form), g.c.remote)}
<1> DEFINE exactly == Exactly(DataJson(g.s.form), g.c.remote)
           s == [g.s EXCEPT !.restart = TRUE, !.savedExactly = exactly]
<1>1. g.s \in SharedVariables
  BY HandlerFields
<1>2. exactly \in BOOLEAN
  BY DEF Exactly
<1>3. Saved(g) = g \/ Saved(g) = [g EXCEPT !.s = s]
  BY DEF Saved
<1> HIDE DEF exactly
<1>4. /\ s \in SharedVariables /\ s.form = g.s.form /\ s.index = g.s.index
      /\ s.aps = g.s.aps /\ s.savedExactly = exactly
  BY <1>1, <1>2 DEF SharedVariables
<1> DEFINE new == [g EXCEPT !.s = s]
<1> HIDE DEF s
<1>5. new \in Handlers /\ Leaves(f, new) /\ SameBuffer(f, new) /\ new.s = s
  BY <1>4, LeavesShared
<1> HIDE DEF new
<1>6. Saved(g) = g \/ Saved(g) = new
  BY <1>3 DEF new
<1>7. CASE Saved(g) = g
  BY <1>7
<1>8. CASE Saved(g) = new
  BY <1>4, <1>5, <1>8 DEF exactly
<1> QED
  BY <1>6, <1>7, <1>8

(* The form behind the accumulated parts; the last call saves it.          *)
LEMMA SaveFulfils ==
  ASSUME NEW h, MayCall(h), h.c.cgi = "save"
  PROVE  LET called == CgiSaveConfig(h)
             g == called.h
             arrived == Accumulate(h)
         IN  /\ Fulfils(h, called)
             /\ h.c.len # h.c.received =>
                  called.r = "MORE" /\ g.c = h.c /\ FormOf(g.s) = FormOf(arrived.s)
             /\ h.c.len = h.c.received =>
                  /\ called.r = "DONE"
                  /\ g.s.form = arrived.s.form /\ g.s.index = 0
                  /\ g.s.savedExactly \in {h.s.savedExactly,
                                           Exactly(DataJson(g.s.form), h.c.remote)}
             /\ arrived.s.savedExactly = h.s.savedExactly
<1> DEFINE arrived == Accumulate(h)
           s == [arrived.s EXCEPT !.index = 0]
           complete == [arrived EXCEPT !.s = s]
           saved == Saved(complete)
           headed == Headers(complete, HEADERS)
           called == CgiSaveConfig(h)
<1>1. h \in Handlers /\ ~ReadsFile(h.c) /\ h.s \in SharedVariables /\ h.c \in Connections
  BY HandlerFields DEF MayCall, ReadsFile
<1>2. /\ arrived \in Handlers /\ arrived.c = h.c /\ arrived.t = h.t /\ arrived.e = h.e
      /\ arrived.s.savedExactly = h.s.savedExactly /\ arrived.s.aps = h.s.aps
  <2> DEFINE form == SubSeq(h.s.form, 1, h.s.index) \o h.c.buff
                       \o SubSeq(h.s.form, h.s.index + Len(h.c.buff) + 1, Len(h.s.form))
             new == [h.s EXCEPT !.form = form, !.index = @ + Len(h.c.buff)]
  <2>1. arrived \in Handlers /\ arrived.c = h.c /\ arrived.e = h.e
    BY AccumulateWorks DEF Works
  <2>2. arrived = [h EXCEPT !.s = new]
    BY DEF Accumulate
  <2> HIDE DEF form, arrived
  <2>3. new.savedExactly = h.s.savedExactly /\ new.aps = h.s.aps
    BY <1>1 DEF SharedVariables
  <2> HIDE DEF new
  <2>4. arrived.s = new /\ arrived.t = h.t
    BY <1>1, <2>2 DEF Handlers
  <2> QED
    BY <2>1, <2>3, <2>4
<1>3. /\ h.c.len # h.c.received => called = More(arrived)
      /\ h.c.len = h.c.received => called \in {Done(headed), Answer(saved, STATUS_JSON)}
  BY DEF CgiSaveConfig
<1> HIDE DEF arrived, called
<1>4. arrived.s \in SharedVariables /\ Leaves(h, arrived) /\ SameBuffer(h, arrived)
  BY <1>2, HandlerFields DEF Leaves, SameBuffer, SameCall
<1>5. /\ s \in SharedVariables /\ s.form = arrived.s.form /\ s.index = 0 /\ s.aps = h.s.aps
      /\ s.savedExactly = h.s.savedExactly
  BY <1>2, <1>4 DEF SharedVariables
<1> HIDE DEF s
<1>6. /\ complete \in Handlers /\ Leaves(h, complete) /\ SameBuffer(h, complete)
      /\ complete.s = s /\ complete.c = arrived.c
  BY <1>1, <1>2, <1>4, <1>5, LeavesShared
<1> HIDE DEF complete
<1>7. /\ saved \in Handlers /\ Leaves(h, saved) /\ SameBuffer(h, saved)
      /\ saved.s.form = s.form /\ saved.s.index = 0 /\ saved.s.aps = h.s.aps
      /\ saved.s.savedExactly \in {h.s.savedExactly, Exactly(DataJson(s.form), h.c.remote)}
  BY <1>1, <1>2, <1>5, <1>6, SavedLeaves
<1> HIDE DEF saved
<1>8. STATUS_JSON \in Nat /\ STATUS_JSON + 126 <= FULL /\ HEADERS \in Nat
  BY DEF STATUS_JSON, FULL, HEADERS
<1>9. CASE h.c.len # h.c.received
  <2>1. called = [h |-> arrived, r |-> "MORE"]
    BY <1>3, <1>9 DEF More
  <2>2. \A m \in Nat : Composed(h, m, 6) => Composed(arrived, m, FULL)
    BY <1>1, <1>2, <1>4, ComposedAgain DEF FULL
  <2>3. SendsItsFile(arrived.c)
    BY <1>1, <1>2 DEF SendsItsFile
  <2>4. Fulfils(h, called)
    BY <1>2, <1>4, <2>1, <2>2, <2>3 DEF Fulfils
  <2> QED
    BY <1>2, <1>9, <2>1, <2>4 DEF called, arrived
<1>10. CASE h.c.len = h.c.received
  <2>1. CASE called = Done(headed)
    <3>1. Fulfils(h, called)
      BY <1>1, <1>5, <1>6, <1>8, <2>1, AnswerFulfils
    <3>2. headed.s = s
      BY <1>6, <1>8, HeadersFills
    <3>3. called = [h |-> headed, r |-> "DONE"]
      BY <2>1 DEF Done
    <3> HIDE DEF headed
    <3>4. called.r = "DONE" /\ called.h.s = s
      BY <3>2, <3>3
    <3> QED
      BY <1>2, <1>5, <1>10, <3>1, <3>4 DEF called, arrived
  <2>2. CASE called = Answer(saved, STATUS_JSON)
    <3>1. Fulfils(h, called)
      BY <1>1, <1>7, <1>8, <2>2, AnswerFulfils
    <3>2. called.r = "DONE" /\ called.h.s = saved.s
      BY <1>7, <1>8, <2>2, AnswerFills
    <3> QED
      BY <1>2, <1>5, <1>7, <1>10, <3>1, <3>2 DEF called, arrived
  <2> QED
    BY <1>3, <1>10, <2>1, <2>2
<1> QED
  BY <1>9, <1>10

(* The next read of a file, and its end.                                   *)
LEMMA AfterReadFulfils ==
  ASSUME NEW h \in Handlers, ReadsFile(h.c), NEW g \in Handlers, Leaves(h, g), g.s = h.s,
         g.c.sendingBody, g.c.cgiData \in Nat,
         \A m \in Nat : Composed(h, m, 6) => Composed(g, m, FULL)
  PROVE  Fulfils(h, AfterRead(g, Least(g.c.cgiData, READ)))
<1> DEFINE bytes == Least(g.c.cgiData, READ)
           s == [g.s EXCEPT !.files = @ \ {g.c.remote}]
           closed == [g EXCEPT !.s = s]
           c == [g.c EXCEPT !.cgiData = @ - READ]
           more == [g EXCEPT !.c = c]
<1>1. g.c \in Connections /\ g.s \in SharedVariables /\ FULL \in Nat
  BY HandlerFields DEF FULL
<1>2. CASE bytes = READ
  <2>1. AfterRead(g, bytes) = [h |-> more, r |-> "MORE"]
    BY <1>2 DEF AfterRead, More
  <2>2. g.c.cgiData - READ \in Nat
    BY <1>2 DEF Least, READ
  <2>3. /\ c \in Connections /\ SameCall(g.c, c)
        /\ c.received = g.c.received /\ c.buff = g.c.buff /\ c.buffSize = g.c.buffSize
        /\ c.backlog = g.c.backlog /\ c.framed = g.c.framed /\ c.sendingBody = g.c.sendingBody
        /\ c.out = g.c.out /\ c.outLen = g.c.outLen /\ c.made = g.c.made
        /\ c.chunkHdr = g.c.chunkHdr
    BY <1>1, <2>2 DEF Connections, SameCall
  <2> HIDE DEF c, bytes
  <2>4. more \in Handlers /\ more.c = c /\ more.t = g.t /\ more.s = g.s /\ more.e = g.e
    BY <2>3, NewFields
  <2> HIDE DEF more
  <2>5. Leaves(g, more) /\ SameBuffer(g, more)
    BY <2>3, <2>4 DEF Leaves, SameBuffer
  <2>6. \A m \in Nat : Composed(g, m, FULL) => Composed(more, m, FULL)
    BY <1>1, <2>4, <2>5, ComposedAgain
  <2>7. Leaves(h, more) /\ more.c.sendingBody
    BY <2>3, <2>4, <2>5, LeavesTwice
  <2>8. Fulfils(h, [h |-> more, r |-> "MORE"])
    BY <2>4, <2>6, <2>7 DEF Fulfils, SendsItsFile
  <2> QED
    BY <2>1, <2>8 DEF bytes
<1>3. CASE bytes # READ
  <2>1. AfterRead(g, bytes) = [h |-> closed, r |-> "DONE"]
    BY <1>3 DEF AfterRead, Done, CloseFile
  <2>2. s \in SharedVariables /\ FormOf(s) = FormOf(g.s) /\ s.aps = g.s.aps
    BY <1>1 DEF SharedVariables, FormOf
  <2> HIDE DEF s, bytes
  <2>3. /\ closed \in Handlers /\ Leaves(g, closed) /\ SameBuffer(g, closed)
        /\ closed.s = s /\ closed.c = g.c
    BY <2>2, LeavesNothing, LeavesShared DEF SameBuffer
  <2> HIDE DEF closed
  <2>4. \A m \in Nat : Composed(g, m, FULL) => Composed(closed, m, FULL)
    BY <1>1, <2>3, ComposedAgain
  <2>5. Leaves(h, closed)
    BY <2>3, LeavesTwice
  <2>6. Fulfils(h, [h |-> closed, r |-> "DONE"])
    BY <2>2, <2>3, <2>4, <2>5 DEF Fulfils, SendsItsFile
  <2> QED
    BY <2>1, <2>6 DEF bytes
<1> QED
  BY <1>2, <1>3

LEMMA OpenFulfils ==
  ASSUME NEW h, MayCall(h), ReadsFile(h.c)
  PROVE  Fulfils(h, More(Headers(Opened(h, h.c.url.bytes), HEADERS)))
<1> DEFINE bytes == h.c.url.bytes
           c == [h.c EXCEPT !.cgiData = bytes]
           s == [h.s EXCEPT !.files = @ \cup {h.c.remote}]
           opened == Opened(h, bytes)
           headed == Headers(opened, HEADERS)
<1>1. h \in Handlers /\ h.c \in Connections /\ h.s \in SharedVariables /\ bytes \in Nat
  BY HandlerFields, UrlBytes DEF MayCall
<1>2. opened \in Handlers
  BY <1>1, OpenedWorks DEF Works
<1>3. opened = [h EXCEPT !.c.cgiData = bytes, !.s = s]
  BY DEF Opened
<1>4. /\ SameCall(h.c, c)
      /\ c.received = h.c.received /\ c.buff = h.c.buff /\ c.buffSize = h.c.buffSize
      /\ c.backlog = h.c.backlog /\ c.framed = h.c.framed /\ c.sendingBody = h.c.sendingBody
      /\ c.out = h.c.out /\ c.outLen = h.c.outLen /\ c.made = h.c.made
      /\ c.chunkHdr = h.c.chunkHdr
  BY <1>1 DEF Connections, SameCall
<1>5. FormOf(s) = FormOf(h.s) /\ s.aps = h.s.aps
  BY <1>1 DEF SharedVariables, FormOf
<1> HIDE DEF opened, bytes, s
<1>6. opened.c = c /\ opened.s = s /\ opened.t = h.t /\ opened.e = h.e
  BY <1>1, <1>3 DEF Handlers
<1> HIDE DEF c
<1>7. Leaves(h, opened) /\ SameBuffer(h, opened)
  BY <1>2, <1>4, <1>6 DEF Leaves, SameBuffer
<1>8. HEADERS = 120 /\ HEADERS \in Nat /\ FULL = 2046 /\ FULL \in Nat
  BY DEF HEADERS, FULL
<1>9. /\ Leaves(opened, headed) /\ headed.s = opened.s /\ headed.c.sendingBody
      /\ \A m, n \in Nat :
           Composed(opened, m, n) /\ n + HEADERS <= FULL => Composed(headed, m, n + HEADERS)
  BY <1>2, <1>8, HeadersFills
<1> HIDE DEF headed
<1>10. ASSUME NEW m \in Nat, Composed(h, m, 6) PROVE Composed(headed, m, FULL)
  <2>1. Composed(opened, m, 6)
    BY <1>1, <1>2, <1>7, <1>10, ComposedAgain
  <2>2. Composed(headed, m, 126)
    BY <1>8, <1>9, <2>1
  <2>3. headed.c.outLen \in Nat
    BY <1>9, HandlerFields DEF Leaves, Connections
  <2> QED
    BY <1>8, <2>2, <2>3 DEF Composed
<1>11. Leaves(h, headed)
  BY <1>7, <1>9, LeavesTwice
<1>12. Fulfils(h, [h |-> headed, r |-> "MORE"])
  BY <1>5, <1>6, <1>9, <1>10, <1>11 DEF Fulfils, SendsItsFile
<1>13. More(headed) = [h |-> headed, r |-> "MORE"]
  BY DEF More
<1> QED
  BY <1>12, <1>13 DEF headed, opened, bytes

LEMMA FileFulfils ==
  ASSUME NEW h, MayCall(h), ReadsFile(h.c), h.c.conn, SendsItsFile(h.c)
  PROVE  Fulfils(h, CgiEspFsHook(h)) /\ Fulfils(h, CgiEspFsTemplate(h))
<1> DEFINE bytes == Least(h.c.cgiData, READ)
           first == Send(h, bytes - PLANT_NAME)
           whole == Send(h, bytes)
           named == IF bytes >= PLANT_NAME /\ h.c.cgiData = h.c.url.bytes
                    THEN Send(first, PLANT_NAME) ELSE whole
<1>1. h \in Handlers /\ h.c.cgiData \in Nat \cup {NoData} /\ FULL = 2046 /\ FULL \in Nat
  BY HandlerFields DEF MayCall, Connections, FULL
<1>2. CASE h.c.cgiData = NoData
  <2> DEFINE headed == More(Headers(Opened(h, h.c.url.bytes), HEADERS))
  <2>1. CgiEspFsHook(h) = headed /\ CgiEspFsTemplate(h) = headed
    BY <1>2 DEF CgiEspFsHook, CgiEspFsTemplate
  <2> HIDE DEF headed
  <2> QED
    BY <2>1, OpenFulfils DEF headed
<1>3. CASE h.c.cgiData # NoData
  <2>1. /\ bytes \in Nat /\ bytes <= 1024 /\ (bytes >= PLANT_NAME => bytes - PLANT_NAME \in Nat)
        /\ PLANT_NAME \in Nat /\ h.c.cgiData \in Nat /\ h.c.sendingBody
    BY <1>1, <1>3 DEF Least, READ, PLANT_NAME, SendsItsFile
  <2>2. CgiEspFsHook(h) = AfterRead(whole, bytes) /\ CgiEspFsTemplate(h) = AfterRead(named, bytes)
    BY <1>3 DEF CgiEspFsHook, CgiEspFsTemplate
  <2> HIDE DEF bytes
  <2> DEFINE Reads(g) == /\ Leaves(h, g) /\ g.s = h.s /\ g.c.sendingBody
                         /\ g.c.cgiData = h.c.cgiData
                         /\ \A m \in Nat : Composed(h, m, 6) => Composed(g, m, 6 + bytes)
  <2>3. Reads(whole)
    BY <1>1, <2>1, SendFills
  <2>4. Reads(named)
    <3>1. CASE ~(bytes >= PLANT_NAME /\ h.c.cgiData = h.c.url.bytes)
      BY <2>3, <3>1
    <3>2. CASE bytes >= PLANT_NAME /\ h.c.cgiData = h.c.url.bytes
      <4>1. /\ Leaves(h, first) /\ first.s = h.s /\ first.c.sendingBody
            /\ first.c.cgiData = h.c.cgiData
            /\ \A m \in Nat : Composed(h, m, 6) => Composed(first, m, 6 + (bytes - PLANT_NAME))
        BY <1>1, <2>1, <3>2, SendFills
      <4> HIDE DEF first
      <4> DEFINE both == Send(first, PLANT_NAME)
      <4>2. /\ Leaves(first, both) /\ both.s = first.s /\ both.c.sendingBody = first.c.sendingBody
            /\ both.c.cgiData = first.c.cgiData
            /\ \A m, n \in Nat : Composed(first, m, n) /\ n + PLANT_NAME <= FULL
                                   => Composed(both, m, n + PLANT_NAME)
        BY <2>1, <4>1, SendFills DEF Leaves
      <4> HIDE DEF both
      <4>3. ASSUME NEW m \in Nat, Composed(h, m, 6) PROVE Composed(both, m, 6 + bytes)
        <5>1. Composed(first, m, 6 + (bytes - PLANT_NAME))
          BY <4>1, <4>3
        <5>2. /\ 6 + (bytes - PLANT_NAME) \in Nat
              /\ (6 + (bytes - PLANT_NAME)) + PLANT_NAME = 6 + bytes
          BY <2>1, <3>2
        <5> QED
          BY <1>1, <2>1, <4>2, <5>1, <5>2
      <4>4. Leaves(h, both)
        BY <4>1, <4>2, LeavesTwice
      <4>5. Reads(both)
        BY <4>1, <4>2, <4>3, <4>4
      <4>6. named = both
        BY <3>2 DEF both
      <4> HIDE DEF named
      <4> QED
        BY <4>5, <4>6
    <3> QED
      BY <3>1, <3>2
  <2> HIDE DEF named, whole
  <2>5. ASSUME NEW g, Reads(g) PROVE Fulfils(h, AfterRead(g, bytes))
    <3>1. g \in Handlers /\ g.c.outLen \in Nat
      BY <2>5, HandlerFields DEF Leaves, Connections
    <3>2. \A m \in Nat : Composed(g, m, 6 + bytes) => Composed(g, m, FULL)
      BY <1>1, <2>1, <3>1 DEF Composed
    <3>3. Fulfils(h, AfterRead(g, Least(g.c.cgiData, READ)))
      BY <1>1, <2>1, <2>5, <3>1, <3>2, AfterReadFulfils
    <3> QED
      BY <2>5, <3>3 DEF bytes
  <2> HIDE DEF Reads
  <2> QED
    BY <2>2, <2>3, <2>4, <2>5
<1> QED
  BY <1>2, <1>3

LEMMA ScanFulfils ==
  ASSUME NEW h \in Handlers, h.c.cgi = "start_scan"
  PROVE  Fulfils(h, CgiStartWifiScan(h))
<1> DEFINE s == StartWifiScan(h.s, h.e.refuses_call)
           g == [h EXCEPT !.s = s]
<1>1. h.s \in SharedVariables /\ ~ReadsFile(h.c) /\ SameBuffer(h, h)
  BY HandlerFields DEF ReadsFile, SameBuffer
<1>2. s \in SharedVariables /\ FormOf(s) = FormOf(h.s) /\ s.aps = h.s.aps
  <2>1. CASE s = h.s
    BY <1>1, <2>1
  <2>2. CASE s = [h.s EXCEPT !.waiting = TRUE, !.scanning = TRUE]
    BY <1>1, <2>2 DEF SharedVariables, FormOf
  <2> QED
    BY <2>1, <2>2 DEF StartWifiScan
<1> HIDE DEF s
<1>3. g \in Handlers /\ Leaves(h, g) /\ SameBuffer(h, g) /\ g.s = s
  BY <1>1, <1>2, LeavesNothing, LeavesShared
<1>4. STATUS_JSON \in Nat /\ STATUS_JSON + 126 <= FULL
  BY DEF STATUS_JSON, FULL
<1>5. CgiStartWifiScan(h) = Answer(g, STATUS_JSON)
  BY DEF CgiStartWifiScan, s
<1> HIDE DEF g
<1> QED
  BY <1>1, <1>2, <1>3, <1>4, <1>5, AnswerFulfils

(* Every function of the page.                                             *)
LEMMA CgiFulfils ==
  ASSUME NEW h, MayCall(h), h.c.cgi # "NULL", ReadsFile(h.c) => h.c.conn, SendsItsFile(h.c)
  PROVE  Fulfils(h, Cgi(h))
<1>1. h \in Handlers /\ h.c.cgi \in CgiFunctions /\ h.s.aps \in Nat
  BY HandlerFields DEF MayCall, Connections, SharedVariables
<1>2. CASE ReadsFile(h.c)
  <2>1. Cgi(h) \in {CgiEspFsHook(h), CgiEspFsTemplate(h)}
    BY <1>2 DEF Cgi, ReadsFile
  <2> QED
    BY <1>2, <2>1, FileFulfils
<1>3. CASE h.c.cgi = "start_scan"
  BY <1>1, <1>3, ScanFulfils DEF Cgi
<1>4. CASE h.c.cgi = "save"
  BY <1>4, SaveFulfils DEF Cgi
<1>5. CASE ~ReadsFile(h.c) /\ h.c.cgi \notin {"start_scan", "save"}
  <2>1. ASSUME NEW len \in Nat, ListsFit /\ h.s.aps \in ApCounts \cup {0} => len + 126 <= FULL
        PROVE  Fulfils(h, Answer(h, len))
    <3>1. Leaves(h, h) /\ SameBuffer(h, h)
      BY <1>1, LeavesNothing DEF SameBuffer
    <3> QED
      BY <1>1, <1>5, <2>1, <3>1, AnswerFulfils
  <2>2. CASE h.c.cgi \in {"root", "missing"}
    <3>1. Cgi(h) = Answer(h, PLANT_NAME)
      BY <2>2 DEF Cgi, CgiRedirect, CgiNotFound
    <3>2. PLANT_NAME \in Nat /\ PLANT_NAME + 126 <= FULL
      BY DEF PLANT_NAME, FULL
    <3> QED
      BY <2>1, <3>1, <3>2
  <2>3. CASE h.c.cgi = "get_config"
    <3>1. Cgi(h) = Answer(h, CONFIG_JSON)
      BY <2>3 DEF Cgi, CgiGetConfig
    <3>2. CONFIG_JSON \in Nat /\ CONFIG_JSON + 126 <= FULL
      BY DEF CONFIG_JSON, FULL
    <3> QED
      BY <2>1, <3>1, <3>2
  <2>4. CASE h.c.cgi = "sensor"
    <3>1. Cgi(h) = Answer(h, STATUS_JSON)
      BY <2>4 DEF Cgi, CgiGetSensorReading
    <3>2. STATUS_JSON \in Nat /\ STATUS_JSON + 126 <= FULL
      BY DEF STATUS_JSON, FULL
    <3> QED
      BY <2>1, <3>1, <3>2
  <2>5. CASE h.c.cgi = "scan_result"
    <3> DEFINE len == STATUS_JSON + ScanResult(h.s)
    <3>1. Cgi(h) = Answer(h, len)
      BY <2>5 DEF Cgi, CgiGetWifiScanResult
    <3>2. len \in Nat /\ len = 40 + h.s.aps * 95
      BY <1>1 DEF STATUS_JSON, ScanResult, AP_JSON
    <3>3. ASSUME ListsFit, h.s.aps \in ApCounts \cup {0} PROVE len + 126 <= FULL
      <4>1. CASE h.s.aps = 0
        BY <3>2, <4>1 DEF FULL
      <4>2. CASE h.s.aps \in ApCounts
        <5>1. HEADERS + 6 + STATUS_JSON + h.s.aps * AP_JSON + 2 <= HTTPD_MAX_SENDBUFF_LEN
          BY <3>3, <4>2 DEF ListsFit
        <5> QED
          BY <1>1, <3>2, <5>1 DEF FULL, HEADERS, STATUS_JSON, AP_JSON, HTTPD_MAX_SENDBUFF_LEN
      <4> QED
        BY <3>3, <4>1, <4>2
    <3> HIDE DEF len
    <3> QED
      BY <2>1, <3>1, <3>2, <3>3
  <2> QED
    BY <1>1, <1>5, <2>2, <2>3, <2>4, <2>5 DEF CgiFunctions, ReadsFile
<1> QED
  BY <1>2, <1>3, <1>4, <1>5

(* The packet that a flush makes of the send buffer.                       *)
PacketOf(h) ==
  LET full == LastChunk(FixUpChunk(h))
  IN  [len |-> full.c.outLen, pieces |-> full.c.out, ends |-> EndsAnswer(h),
       framed |-> full.c.framed]

(* Nothing in the send buffer that a flush would send.                     *)
Quiet(h) ==
  /\ h \in Handlers /\ h.c.conn
  /\ ~h.c.chunkHdr
  /\ h.c.outLen = 0 => h.c.out = <<>> /\ h.c.framed
  /\ h.c.outLen = 0 \/ (~Takes(h) /\ h.e.noitem)

Flushes(h, g) ==
  /\ Quiet(g)
  /\ g.s = h.s /\ g.e = h.e /\ g.t.state = h.t.state
  /\ SameRequest(h.c, g.c) /\ g.c.sendingBody = h.c.sendingBody

LEMMA NothingKept == BacklogSize(<<>>) = 0
<1> DEFINE R(f, s) == IF s = {} THEN 0
                      ELSE LET x == CHOOSE i \in s : TRUE IN f[s \ {x}] + <<>>[x].len
           IsIter(f) == f = [s \in SUBSET (DOMAIN <<>>) |-> R(f, s)]
           iter == CHOOSE f : IsIter(f)
<1>1. BacklogSize(<<>>) = iter[DOMAIN <<>>]
  BY Zenon DEF BacklogSize, FoldSeq, FoldFunction, FoldFunctionOnSet, MapThenFoldSet
<1>2. DOMAIN <<>> = {}
  OBVIOUS
<1>3. IsIter([s \in SUBSET (DOMAIN <<>>) |-> 0])
  BY <1>2
<1>4. IsIter(iter)
  <2> HIDE DEF IsIter
  <2> QED
    BY <1>3
<1>5. iter[DOMAIN <<>>] = R(iter, DOMAIN <<>>)
  <2> HIDE DEF iter
  <2> QED
    BY <1>4
<1> QED
  BY <1>1, <1>2, <1>5

(* The buffer with the end of its chunk, and the end of the answer.        *)
LEMMA FullBuffer ==
  ASSUME NEW h \in Handlers
  PROVE  LET full == LastChunk(FixUpChunk(h))
             ends == EndsAnswer(h)
         IN  /\ full \in Handlers /\ full.t = h.t /\ full.s = h.s /\ full.e = h.e
             /\ SameRequest(h.c, full.c) /\ full.c.sendingBody = h.c.sendingBody
             /\ full.c.backlog = h.c.backlog /\ full.c.chunkHdr = FALSE
             /\ ends \in BOOLEAN
             /\ full.c.made = h.c.made + (IF ends THEN 1 ELSE 0)
             /\ ~ends => full.c.out = h.c.out
             /\ ends => full.c.out = Append(h.c.out, h.c.made + 1)
             /\ full.c.outLen = h.c.outLen + (IF ends THEN 5 ELSE 0)
                  + (IF h.c.chunkHdr /\ h.c.outLen + 2 <= HTTPD_MAX_SENDBUFF_LEN THEN 2 ELSE 0)
             /\ h.c.framed /\ h.c.outLen + 2 <= HTTPD_MAX_SENDBUFF_LEN => full.c.framed
             /\ ~h.c.chunkHdr => full.c.framed = h.c.framed
<1> DEFINE fixed == FixUpChunk(h)
           full == LastChunk(fixed)
           ends == EndsAnswer(h)
           fits == h.c.outLen + 2 <= HTTPD_MAX_SENDBUFF_LEN
           fix == IF h.c.chunkHdr /\ fits THEN 2 ELSE 0
<1>1. h.c \in Connections /\ h.c.outLen \in Nat /\ h.c.made \in Nat
  BY HandlerFields DEF Connections
<1>2. /\ fixed \in Handlers /\ fixed.t = h.t /\ fixed.s = h.s /\ fixed.e = h.e
      /\ SameRequest(h.c, fixed.c) /\ fixed.c.sendingBody = h.c.sendingBody
      /\ fixed.c.backlog = h.c.backlog /\ fixed.c.chunkHdr = FALSE
      /\ fixed.c.made = h.c.made /\ fixed.c.out = h.c.out
      /\ fixed.c.outLen = h.c.outLen + fix
      /\ h.c.framed /\ fits => fixed.c.framed
      /\ ~h.c.chunkHdr => fixed.c.framed = h.c.framed
  <2>1. fixed \in Handlers /\ fixed.s = h.s /\ fixed.e = h.e /\ SameRequest(h.c, fixed.c)
    BY FixUpChunkOnlySends DEF OnlySends
  <2>2. CASE ~h.c.chunkHdr
    BY <1>1, <2>1, <2>2 DEF FixUpChunk, Connections
  <2>3. CASE h.c.chunkHdr
    <3> DEFINE len == IF fits THEN h.c.outLen + 2 ELSE h.c.outLen
               c == [h.c EXCEPT !.outLen = len, !.framed = h.c.framed /\ fits,
                                !.chunkHdr = FALSE]
    <3>1. fixed = [h EXCEPT !.c = c]
      BY <2>3 DEF FixUpChunk
    <3>2. len = h.c.outLen + fix
      BY <1>1, <2>3
    <3> HIDE DEF fits, len, fixed
    <3>3. /\ c.sendingBody = h.c.sendingBody /\ c.backlog = h.c.backlog /\ c.chunkHdr = FALSE
          /\ c.made = h.c.made /\ c.out = h.c.out /\ c.outLen = len
          /\ c.framed = (h.c.framed /\ fits)
      BY <1>1 DEF Connections
    <3> HIDE DEF c, fix
    <3>4. fixed.c = c /\ fixed.t = h.t
      BY <3>1 DEF Handlers
    <3> QED
      BY <2>1, <2>3, <3>2, <3>3, <3>4
  <2> QED
    BY <2>2, <2>3
<1> HIDE DEF fixed
<1>3. fixed.c \in Connections /\ fix \in Nat
  BY <1>2, HandlerFields
<1>4. ends \in BOOLEAN /\ (EndsAnswer(fixed) <=> ends)
  BY <1>1, <1>2 DEF EndsAnswer, SameRequest, Connections
<1>5. /\ full \in Handlers /\ full.s = fixed.s /\ full.e = fixed.e /\ SameRequest(fixed.c, full.c)
      /\ full.t = fixed.t /\ full.c.sendingBody = fixed.c.sendingBody
      /\ full.c.backlog = fixed.c.backlog /\ full.c.chunkHdr = fixed.c.chunkHdr
      /\ full.c.made = fixed.c.made + (IF ends THEN 1 ELSE 0)
      /\ ~ends => full.c.out = fixed.c.out
      /\ ends => full.c.out = Append(fixed.c.out, fixed.c.made + 1)
      /\ full.c.outLen = fixed.c.outLen + (IF ends THEN 5 ELSE 0)
      /\ full.c.framed = fixed.c.framed
  <2>1. full \in Handlers /\ full.s = fixed.s /\ full.e = fixed.e /\ SameRequest(fixed.c, full.c)
    BY <1>2, LastChunkOnlySends DEF OnlySends
  <2>2. fixed.c.outLen \in Nat /\ fixed.c.made \in Nat
    BY <1>3 DEF Connections
  <2> HIDE DEF ends
  <2>3. CASE ~ends
    BY <1>4, <2>1, <2>2, <2>3 DEF LastChunk
  <2>4. CASE ends
    <3> DEFINE c == [fixed.c EXCEPT !.outLen = @ + 5, !.made = @ + 1,
                                    !.out = Append(@, fixed.c.made + 1)]
    <3>1. full = [fixed EXCEPT !.c = c]
      <4>1. full = [fixed EXCEPT !.c.outLen = @ + 5, !.c.made = @ + 1,
                                 !.c.out = Append(@, fixed.c.made + 1)]
        BY <1>4, <2>4 DEF LastChunk
      <4> QED
        BY <4>1
    <3> HIDE DEF full
    <3>2. /\ c.sendingBody = fixed.c.sendingBody /\ c.backlog = fixed.c.backlog
          /\ c.chunkHdr = fixed.c.chunkHdr /\ c.made = fixed.c.made + 1
          /\ c.out = Append(fixed.c.out, fixed.c.made + 1) /\ c.outLen = fixed.c.outLen + 5
          /\ c.framed = fixed.c.framed
      BY <1>3 DEF Connections
    <3> HIDE DEF c
    <3>3. full.c = c /\ full.t = fixed.t
      BY <1>2, <3>1 DEF Handlers
    <3> QED
      BY <2>1, <2>4, <3>2, <3>3
  <2> QED
    BY <2>3, <2>4
<1> HIDE DEF full, ends, fix
<1>6. SameRequest(h.c, full.c)
  BY <1>2, <1>5 DEF SameRequest
<1>7. full.c.outLen = h.c.outLen + (IF ends THEN 5 ELSE 0) + fix
  BY <1>1, <1>2, <1>3, <1>5
<1> QED
  BY <1>2, <1>4, <1>5, <1>6, <1>7 DEF full, fixed, ends, fix

LEMMA EmptiedFields ==
  ASSUME NEW h \in Handlers
  PROVE  LET g == Emptied(h)
         IN  /\ g \in Handlers /\ g.t = h.t /\ g.s = h.s /\ g.e = h.e
             /\ SameRequest(h.c, g.c) /\ g.c.sendingBody = h.c.sendingBody
             /\ g.c.backlog = h.c.backlog /\ g.c.chunkHdr = h.c.chunkHdr
             /\ g.c.made = h.c.made
             /\ g.c.out = <<>> /\ g.c.outLen = 0 /\ g.c.framed = TRUE
<1> DEFINE c == [h.c EXCEPT !.out = <<>>, !.outLen = 0, !.framed = TRUE]
           g == Emptied(h)
<1>1. h.c \in Connections
  BY HandlerFields
<1>2. g \in Handlers /\ SameRequest(h.c, g.c) /\ g.s = h.s /\ g.e = h.e
  BY EmptiedOnlySends DEF OnlySends
<1>3. g = [h EXCEPT !.c = c]
  BY DEF Emptied
<1>4. /\ c.sendingBody = h.c.sendingBody /\ c.backlog = h.c.backlog /\ c.chunkHdr = h.c.chunkHdr
      /\ c.made = h.c.made /\ c.out = <<>> /\ c.outLen = 0 /\ c.framed = TRUE
  BY <1>1 DEF Connections
<1> HIDE DEF c, g
<1>5. g.c = c /\ g.t = h.t
  BY <1>3 DEF Handlers
<1>6. /\ g \in Handlers /\ g.t = h.t /\ g.s = h.s /\ g.e = h.e
      /\ SameRequest(h.c, g.c) /\ g.c.sendingBody = h.c.sendingBody
      /\ g.c.backlog = h.c.backlog /\ g.c.chunkHdr = h.c.chunkHdr
      /\ g.c.made = h.c.made
      /\ g.c.out = <<>> /\ g.c.outLen = 0 /\ g.c.framed = TRUE
  BY <1>2, <1>4, <1>5
<1> QED
  BY <1>6 DEF g

LEMMA TransmittedFields ==
  ASSUME NEW h \in Handlers, h.t.unsent < MaxUnsent, NEW packet \in Packets
  PROVE  LET g == Transmitted(h, packet)
             pieces == packet.pieces
         IN  /\ g \in Handlers /\ g.c = h.c /\ g.s = h.s /\ g.e = h.e
             /\ g.t.state = h.t.state
             /\ g.t.waiting <=> h.t.waiting /\ ~packet.ends
             /\ g.t.got = IF packet.ends THEN 0 ELSE h.t.got + Len(pieces)
             /\ g.t.garbled <=> \/ h.t.garbled \/ ~packet.framed
                                \/ pieces # [i \in 1..Len(pieces) |-> h.t.got + i]
<1> DEFINE got == IF packet.ends THEN 0 ELSE h.t.got + Len(packet.pieces)
           garbled == \/ h.t.garbled \/ ~packet.framed
                      \/ packet.pieces # [i \in 1..Len(packet.pieces) |-> h.t.got + i]
           waiting == h.t.waiting /\ ~packet.ends
           t == [h.t EXCEPT !.unsent = h.t.unsent + 1, !.got = got, !.garbled = garbled,
                            !.waiting = waiting]
           g == Transmitted(h, packet)
<1>1. h.t \in TcpConnections
  BY HandlerFields
<1>2. g = [h EXCEPT !.t = t]
  BY DEF Transmitted
<1>3. g \in Handlers
  BY TransmittedOnlySends DEF OnlySends
<1> HIDE DEF got, garbled, waiting, g
<1>4. t.state = h.t.state /\ t.got = got /\ t.garbled = garbled /\ t.waiting = waiting
  BY <1>1 DEF TcpConnections
<1> HIDE DEF t
<1>5. g.c = h.c /\ g.t = t /\ g.s = h.s /\ g.e = h.e
  BY <1>2 DEF Handlers
<1>6. (g.t.waiting <=> waiting) /\ g.t.got = got /\ (g.t.garbled <=> garbled)
  BY <1>4, <1>5, Zenon
<1> QED
  BY <1>3, <1>4, <1>5, <1>6 DEF g, got, garbled, waiting

(* What a packet that is taken changes for its client.                     *)
Delivers(t, packet, u) ==
  /\ u.state = t.state
  /\ u.waiting <=> t.waiting /\ ~packet.ends
  /\ u.got = IF packet.ends THEN 0 ELSE t.got + Len(packet.pieces)
  /\ u.garbled <=> \/ t.garbled \/ ~packet.framed
                   \/ packet.pieces # [i \in 1..Len(packet.pieces) |-> t.got + i]

(* A packet is sent, kept in the backlog, or lost.                         *)
Hands(h, g, packet) ==
  \/ Takes(h) /\ packet.len # 0 /\ Delivers(h.t, packet, g.t) /\ g.c.backlog = h.c.backlog
  \/ /\ ~Takes(h) /\ packet.len # 0 /\ ~h.e.noitem
     /\ g.t = h.t /\ g.c.backlog = Append(h.c.backlog, packet)
  \/ /\ g.t = h.t /\ g.c.backlog = h.c.backlog
     /\ \/ packet.len = 0
        \/ ~Takes(h) /\ h.e.noitem
        \/ ~(BacklogSize(h.c.backlog) + packet.len <= HTTPD_MAX_BACKLOG_SIZE)

LEMMA FlushDoes ==
  ASSUME NEW h \in Handlers, h.c.conn
  PROVE  LET g == FlushSendBuffer(h)
             packet == PacketOf(h)
         IN  /\ Flushes(h, g)
             /\ packet \in Packets /\ packet.ends = EndsAnswer(h)
             /\ g.c.made = h.c.made + (IF EndsAnswer(h) THEN 1 ELSE 0)
             /\ Hands(h, g, packet)
<1> DEFINE full == LastChunk(FixUpChunk(h))
           packet == PacketOf(h)
           fits == BacklogSize(h.c.backlog) + packet.len <= HTTPD_MAX_BACKLOG_SIZE
           kept == [full EXCEPT !.c.backlog = Append(@, packet)]
           g == FlushSendBuffer(h)
           ends == EndsAnswer(h)
<1>1. /\ full \in Handlers /\ full.t = h.t /\ full.s = h.s /\ full.e = h.e
      /\ SameRequest(h.c, full.c) /\ full.c.sendingBody = h.c.sendingBody
      /\ full.c.backlog = h.c.backlog /\ full.c.chunkHdr = FALSE
      /\ ends \in BOOLEAN
      /\ full.c.made = h.c.made + (IF ends THEN 1 ELSE 0)
  BY FullBuffer
<1>2. /\ packet.len = full.c.outLen /\ packet.pieces = full.c.out
      /\ packet.ends = ends /\ packet.framed = full.c.framed
      /\ packet = [len |-> full.c.outLen, pieces |-> full.c.out,
                   ends |-> ends, framed |-> full.c.framed]
  BY DEF PacketOf
<1>3. \/ packet.len # 0 /\ Takes(h) /\ g = Emptied(Transmitted(full, packet))
      \/ packet.len # 0 /\ ~Takes(h) /\ fits /\ h.e.noitem /\ g = full
      \/ packet.len # 0 /\ ~Takes(h) /\ fits /\ ~h.e.noitem /\ g = Emptied(kept)
      \/ (packet.len = 0 \/ ~fits) /\ g = Emptied(full)
  BY DEF FlushSendBuffer, PacketOf
<1> HIDE DEF full, packet, g, ends
<1>4. full.c \in Connections /\ full.c.outLen \in Nat /\ h.t \in TcpConnections
  BY <1>1, HandlerFields DEF Connections
<1>5. packet \in Packets
  BY <1>1, <1>2, <1>4 DEF Packets, Connections
<1>6. \A f \in Handlers : /\ SameRequest(h.c, f.c) /\ f.c.sendingBody = h.c.sendingBody
                          /\ f.s = h.s /\ f.e = h.e /\ f.t.state = h.t.state
                          /\ f.c.chunkHdr = FALSE
                          => Flushes(h, Emptied(f))
  <2> TAKE f \in Handlers
  <2> DEFINE d == Emptied(f)
  <2>1. /\ d \in Handlers /\ d.t = f.t /\ d.s = f.s /\ d.e = f.e
        /\ SameRequest(f.c, d.c) /\ d.c.sendingBody = f.c.sendingBody
        /\ d.c.backlog = f.c.backlog /\ d.c.chunkHdr = f.c.chunkHdr
        /\ d.c.out = <<>> /\ d.c.outLen = 0 /\ d.c.framed = TRUE
    BY EmptiedFields
  <2> HIDE DEF d
  <2>2. /\ SameRequest(h.c, f.c) /\ f.c.sendingBody = h.c.sendingBody
        /\ f.s = h.s /\ f.e = h.e /\ f.t.state = h.t.state
        /\ f.c.chunkHdr = FALSE
        => Flushes(h, d)
    BY <2>1 DEF Flushes, Quiet, SameRequest
  <2> QED
    BY <2>2 DEF d
<1>7. CASE packet.len # 0 /\ Takes(h) /\ g = Emptied(Transmitted(full, packet))
  <2> DEFINE sent == Transmitted(full, packet)
  <2>1. full.t.unsent < MaxUnsent
    BY <1>1, <1>7 DEF Takes
  <2>2. /\ sent \in Handlers /\ sent.c = full.c /\ sent.s = full.s /\ sent.e = full.e
        /\ Delivers(full.t, packet, sent.t)
    BY <1>1, <1>5, <2>1, TransmittedFields DEF Delivers
  <2> HIDE DEF sent
  <2>3. Flushes(h, Emptied(sent))
    BY <1>1, <1>6, <2>2 DEF Delivers
  <2>4. /\ Emptied(sent).t = sent.t /\ Emptied(sent).c.backlog = full.c.backlog
        /\ Emptied(sent).c.made = full.c.made
    BY <2>2, EmptiedFields
  <2> QED
    BY <1>1, <1>2, <1>5, <1>7, <2>2, <2>3, <2>4 DEF sent, g, packet, ends, Hands
<1>8. CASE packet.len # 0 /\ ~Takes(h) /\ fits /\ h.e.noitem /\ g = full
  <2>1. Flushes(h, full)
    BY <1>1, <1>2, <1>8 DEF Flushes, Quiet, SameRequest, Takes
  <2> QED
    BY <1>1, <1>2, <1>5, <1>8, <2>1 DEF g, packet, ends, Hands
<1>9. CASE packet.len # 0 /\ ~Takes(h) /\ fits /\ ~h.e.noitem /\ g = Emptied(kept)
  <2> DEFINE all == Append(full.c.backlog, packet)
             c == [full.c EXCEPT !.backlog = all]
  <2>1. kept \in Handlers /\ kept.s = full.s /\ kept.e = full.e /\ SameRequest(full.c, kept.c)
    BY <1>1, <1>5, KeptOnlySends DEF OnlySends
  <2>2. kept = [full EXCEPT !.c = c]
    OBVIOUS
  <2> HIDE DEF kept, all
  <2>3. /\ c.sendingBody = full.c.sendingBody /\ c.chunkHdr = full.c.chunkHdr
        /\ c.made = full.c.made /\ c.backlog = all
    BY <1>4 DEF Connections
  <2> HIDE DEF c
  <2>4. kept.c = c /\ kept.t = full.t
    BY <1>1, <2>2 DEF Handlers
  <2>5. SameRequest(h.c, kept.c)
    BY <1>1, <2>1 DEF SameRequest
  <2>6. Flushes(h, Emptied(kept))
    BY <1>1, <1>6, <2>1, <2>3, <2>4, <2>5
  <2>7. /\ Emptied(kept).t = kept.t /\ Emptied(kept).c.backlog = all
        /\ Emptied(kept).c.made = full.c.made
    BY <2>1, <2>3, <2>4, EmptiedFields
  <2>8. all = Append(h.c.backlog, packet)
    BY <1>1 DEF all
  <2> QED
    BY <1>1, <1>2, <1>5, <1>9, <2>4, <2>6, <2>7, <2>8 DEF g, packet, ends, Hands
<1>10. CASE (packet.len = 0 \/ ~fits) /\ g = Emptied(full)
  <2>1. Flushes(h, Emptied(full))
    BY <1>1, <1>6
  <2>2. /\ Emptied(full).t = full.t /\ Emptied(full).c.backlog = full.c.backlog
        /\ Emptied(full).c.made = full.c.made
    BY <1>1, EmptiedFields
  <2> QED
    BY <1>1, <1>2, <1>5, <1>10, <2>1, <2>2 DEF g, packet, ends, Hands
<1> QED
  BY <1>3, <1>7, <1>8, <1>9, <1>10

(* With nothing to send a flush sends nothing.                             *)
LEMMA QuietFlush ==
  ASSUME NEW h, Quiet(h), ~EndsAnswer(h)
  PROVE  LET g == FlushSendBuffer(h)
         IN  Flushes(h, g) /\ g.t = h.t /\ g.c.backlog = h.c.backlog /\ g.c.made = h.c.made
<1> DEFINE g == FlushSendBuffer(h)
           packet == PacketOf(h)
<1>1. h \in Handlers /\ h.c.conn /\ h.c.outLen \in Nat /\ h.c.made \in Nat
  BY HandlerFields DEF Quiet, Connections
<1>2. packet.len = h.c.outLen
  <2> DEFINE full == LastChunk(FixUpChunk(h))
             ends == EndsAnswer(h)
             fix == IF h.c.chunkHdr /\ h.c.outLen + 2 <= HTTPD_MAX_SENDBUFF_LEN THEN 2 ELSE 0
  <2>1. full.c.outLen = h.c.outLen + (IF ends THEN 5 ELSE 0) + fix
    BY <1>1, FullBuffer
  <2>2. packet.len = full.c.outLen
    BY DEF PacketOf
  <2>3. fix = 0 /\ ~ends
    BY DEF Quiet
  <2> HIDE DEF full, packet, fix, ends
  <2> QED
    BY <1>1, <2>1, <2>2, <2>3
<1>3. /\ Flushes(h, g) /\ g.c.made = h.c.made + 0
      /\ \/ Takes(h) /\ packet.len # 0
         \/ ~Takes(h) /\ packet.len # 0 /\ ~h.e.noitem
         \/ g.t = h.t /\ g.c.backlog = h.c.backlog
  BY <1>1, FlushDoes DEF Hands
<1> HIDE DEF g, packet
<1>4. h.c.outLen = 0 \/ (~Takes(h) /\ h.e.noitem)
  BY DEF Quiet
<1>5. g.t = h.t /\ g.c.backlog = h.c.backlog /\ g.c.made = h.c.made
  BY <1>1, <1>2, <1>3, <1>4
<1> QED
  BY <1>3, <1>5 DEF g

(* The packet made of a composed answer.                                   *)
LEMMA ComposedPacket ==
  ASSUME NEW h \in Handlers, NEW m \in Nat, Composed(h, m, FULL)
  PROVE  LET packet == PacketOf(h)
             all == h.c.made + (IF EndsAnswer(h) THEN 1 ELSE 0)
         IN  /\ packet.framed /\ m <= all /\ packet.pieces = Pieces(m, all)
             /\ packet.len \in Nat /\ packet.len <= HTTPD_MAX_BACKLOG_SIZE
             /\ packet.len = 0 => ~EndsAnswer(h) /\ all = m
<1> DEFINE full == LastChunk(FixUpChunk(h))
           ends == EndsAnswer(h)
           fix == IF h.c.chunkHdr /\ h.c.outLen + 2 <= HTTPD_MAX_SENDBUFF_LEN THEN 2 ELSE 0
<1>1. /\ ends \in BOOLEAN
      /\ ~ends => full.c.out = h.c.out
      /\ ends => full.c.out = Append(h.c.out, h.c.made + 1)
      /\ full.c.outLen = h.c.outLen + (IF ends THEN 5 ELSE 0) + fix
      /\ h.c.framed /\ h.c.outLen + 2 <= HTTPD_MAX_SENDBUFF_LEN => full.c.framed
  BY FullBuffer
<1>2. /\ h.c.made \in Nat /\ h.c.outLen \in Nat /\ h.c.outLen <= 2046 /\ fix \in 0..2
      /\ h.c.framed /\ m <= h.c.made /\ h.c.out = Pieces(m, h.c.made)
      /\ h.c.outLen = 0 => h.c.made = m
  BY HandlerFields DEF Connections, Composed, FULL
<1> HIDE DEF full, fix, ends
<1>3. h.c.outLen + 2 <= HTTPD_MAX_SENDBUFF_LEN
  BY <1>2 DEF HTTPD_MAX_SENDBUFF_LEN
<1>4. full.c.framed /\ full.c.outLen \in Nat /\ full.c.outLen <= HTTPD_MAX_BACKLOG_SIZE
      /\ (full.c.outLen = 0 => ~ends /\ h.c.outLen = 0)
  <2>1. full.c.framed
    BY <1>1, <1>2, <1>3
  <2>2. HTTPD_MAX_BACKLOG_SIZE \in Nat /\ HTTPD_MAX_BACKLOG_SIZE >= 2053
    BY DEF HTTPD_MAX_BACKLOG_SIZE
  <2>3. full.c.outLen = h.c.outLen + (IF ends THEN 5 ELSE 0) + fix
    BY <1>1
  <2>4. h.c.outLen \in Nat /\ h.c.outLen <= 2046 /\ fix \in 0..2
    BY <1>2
  <2>5. CASE ends
    BY <2>1, <2>2, <2>3, <2>4, <2>5
  <2>6. CASE ~ends
    BY <2>1, <2>2, <2>3, <2>4, <2>6
  <2> QED
    BY <2>5, <2>6
<1>5. full.c.out = Pieces(m, h.c.made + (IF ends THEN 1 ELSE 0))
  <2>1. Append(Pieces(m, h.c.made), h.c.made + 1) = Pieces(m, h.c.made + 1)
    <3>1. h.c.made \in Nat /\ m <= h.c.made
      BY <1>2
    <3> QED
      BY <3>1, NextPiece
  <2>2. h.c.made + 0 = h.c.made
    BY <1>2
  <2>3. CASE ends
    <3>1. full.c.out = Append(h.c.out, h.c.made + 1)
      BY <1>1, <2>3
    <3>2. full.c.out = Pieces(m, h.c.made + 1)
      BY <1>2, <2>1, <3>1
    <3> QED
      BY <2>3, <3>2
  <2>4. CASE ~ends
    BY <1>1, <1>2, <2>2, <2>4
  <2> QED
    BY <2>3, <2>4
<1>6. /\ m <= h.c.made + (IF ends THEN 1 ELSE 0)
      /\ ~ends => h.c.made + (IF ends THEN 1 ELSE 0) = h.c.made
  BY <1>2
<1> QED
  BY <1>2, <1>4, <1>5, <1>6 DEF PacketOf, full, ends

(* A connection that is ready for its next request.                        *)
ReadyAgain(h, g) ==
  /\ Quiet(g)
  /\ g.s = h.s /\ g.e = h.e /\ g.t.state = h.t.state /\ g.c.remote = h.c.remote
  /\ g.c.cgi = "NULL" /\ g.c.len = -1 /\ g.c.received = 0 /\ g.c.buff = <<>>
  /\ ~g.c.chunked /\ ~g.c.sendingBody /\ ~g.c.discon /\ g.c.made = 0

LEMMA DoneChunked ==
  ASSUME NEW h \in Handlers, h.c.conn, h.c.chunked
  PROVE  LET g == CgiIsDone(h)
         IN  /\ ReadyAgain(h, g)
             /\ \E packet \in Packets :
                  /\ packet.ends = h.c.sendingBody
                  /\ Hands(h, g, packet)
                  /\ \A m \in Nat : h.c.sendingBody /\ Composed(h, m, FULL) =>
                       /\ packet.framed /\ packet.pieces = Pieces(m, h.c.made + 1)
                       /\ packet.len # 0 /\ packet.len <= HTTPD_MAX_BACKLOG_SIZE
<1> DEFINE c1 == [h.c EXCEPT !.cgi = "NULL", !.url = NoUrl, !.cgiData = NoData]
           done == [h EXCEPT !.c = c1]
           flushed == FlushSendBuffer(done)
           c2 == [flushed.c EXCEPT !.len = -1, !.chunked = FALSE, !.sendingBody = FALSE,
                                   !.discon = FALSE, !.buff = <<>>, !.received = 0, !.made = 0]
           g == CgiIsDone(h)
           packet == PacketOf(done)
<1>1. h.c \in Connections
  BY HandlerFields
<1>2. [h EXCEPT !.c.cgi = "NULL", !.c.url = NoUrl, !.c.cgiData = NoData] = done
  OBVIOUS
<1>3. /\ c1 \in Connections /\ c1.remote = h.c.remote /\ c1.conn = h.c.conn
      /\ c1.cgi = "NULL" /\ c1.chunked = h.c.chunked /\ c1.sendingBody = h.c.sendingBody
      /\ c1.backlog = h.c.backlog /\ c1.outLen = h.c.outLen /\ c1.out = h.c.out
      /\ c1.made = h.c.made /\ c1.framed = h.c.framed /\ c1.chunkHdr = h.c.chunkHdr
  <2>1. \A f \in CgiFunctions, u \in Requests \cup {NoUrl}, n \in Nat \cup {NoData} :
          [h.c EXCEPT !.cgi = f, !.url = u, !.cgiData = n] \in Connections
    BY <1>1 DEF Connections
  <2>2. c1 \in Connections
    BY <2>1 DEF CgiFunctions
  <2> QED
    BY <1>1, <2>2 DEF Connections
<1> HIDE DEF c1
<1>4. done \in Handlers /\ done.c = c1 /\ done.t = h.t /\ done.s = h.s /\ done.e = h.e
  BY <1>3, NewFields
<1> HIDE DEF done
<1>5. /\ Flushes(done, flushed) /\ packet \in Packets /\ packet.ends = EndsAnswer(done)
      /\ Hands(done, flushed, packet)
  BY <1>3, <1>4, FlushDoes
<1>6. EndsAnswer(done) = h.c.sendingBody
  <2>1. h.c.sendingBody \in BOOLEAN
    BY <1>1 DEF Connections
  <2> QED
    BY <1>3, <1>4, <2>1 DEF EndsAnswer
<1>7. ASSUME NEW m \in Nat, h.c.sendingBody, Composed(h, m, FULL)
      PROVE  /\ packet.framed /\ packet.pieces = Pieces(m, h.c.made + 1)
             /\ packet.len # 0 /\ packet.len <= HTTPD_MAX_BACKLOG_SIZE
  <2>1. Composed(done, m, FULL)
    BY <1>3, <1>4, <1>7 DEF Composed
  <2>2. EndsAnswer(done)
    BY <1>6, <1>7
  <2>3. h.c.made + (IF EndsAnswer(done) THEN 1 ELSE 0) = h.c.made + 1
    BY <2>2
  <2>4. /\ packet.framed
        /\ packet.pieces = Pieces(m, done.c.made + (IF EndsAnswer(done) THEN 1 ELSE 0))
        /\ packet.len <= HTTPD_MAX_BACKLOG_SIZE
        /\ packet.len = 0 => ~EndsAnswer(done)
    BY <1>4, <2>1, ComposedPacket
  <2> QED
    BY <1>3, <1>4, <2>2, <2>3, <2>4
<1> HIDE DEF packet
<1>8. g = [flushed EXCEPT !.c.len = -1, !.c.chunked = FALSE, !.c.sendingBody = FALSE,
                          !.c.discon = FALSE, !.c.buff = <<>>, !.c.received = 0, !.c.made = 0]
  BY <1>2 DEF CgiIsDone
<1> HIDE DEF flushed
<1>9. flushed \in Handlers /\ flushed.c \in Connections
  BY <1>5, HandlerFields DEF Flushes, Quiet
<1>10. [flushed EXCEPT !.c.len = -1, !.c.chunked = FALSE, !.c.sendingBody = FALSE,
                       !.c.discon = FALSE, !.c.buff = <<>>, !.c.received = 0, !.c.made = 0]
         = [flushed EXCEPT !.c = c2]
  OBVIOUS
<1>11. /\ c2.remote = flushed.c.remote /\ c2.conn = flushed.c.conn /\ c2.cgi = flushed.c.cgi
       /\ c2.backlog = flushed.c.backlog /\ c2.outLen = flushed.c.outLen
       /\ c2.out = flushed.c.out /\ c2.framed = flushed.c.framed
       /\ c2.chunkHdr = flushed.c.chunkHdr
       /\ c2.len = -1 /\ c2.received = 0 /\ c2.buff = <<>> /\ c2.made = 0
       /\ c2.chunked = FALSE /\ c2.sendingBody = FALSE /\ c2.discon = FALSE
  BY <1>9 DEF Connections
<1>12. g \in Handlers
  BY DoneFacts
<1> HIDE DEF c2, g
<1>13. g.c = c2 /\ g.t = flushed.t /\ g.s = flushed.s /\ g.e = flushed.e
  BY <1>8, <1>9, <1>10 DEF Handlers
<1>14. Quiet(g)
  BY <1>5, <1>11, <1>12, <1>13 DEF Flushes, Quiet, Takes
<1>15. ReadyAgain(h, g)
  BY <1>3, <1>4, <1>5, <1>11, <1>13, <1>14 DEF ReadyAgain, Flushes, SameRequest
<1>16. Hands(h, g, packet)
  BY <1>3, <1>4, <1>5, <1>11, <1>13 DEF Hands, Takes
<1> QED
  BY <1>5, <1>6, <1>7, <1>15, <1>16 DEF g

LEMMA DoneUnchunked ==
  ASSUME NEW h \in Handlers, ~h.c.chunked
  PROVE  LET g == CgiIsDone(h)
         IN  /\ g \in Handlers /\ g.t = h.t /\ g.s = h.s /\ g.e = h.e
             /\ g.c.remote = h.c.remote /\ g.c.conn = h.c.conn /\ g.c.len = h.c.len
             /\ g.c.cgi = "NULL" /\ g.c.discon /\ ~g.c.chunked /\ g.c.url = NoUrl
             /\ g.c.received = h.c.received /\ g.c.buff = h.c.buff
             /\ g.c.backlog = h.c.backlog /\ g.c.framed = h.c.framed
             /\ SameBuffer(h, g)
<1> DEFINE c == [h.c EXCEPT !.cgi = "NULL", !.url = NoUrl, !.cgiData = NoData, !.discon = TRUE]
           g == CgiIsDone(h)
<1>1. h.c \in Connections
  BY HandlerFields
<1>2. g = [h EXCEPT !.c = c]
  BY DEF CgiIsDone
<1>3. g \in Handlers
  BY DoneFacts
<1>4. /\ c.remote = h.c.remote /\ c.conn = h.c.conn /\ c.len = h.c.len
      /\ c.cgi = "NULL" /\ c.discon = TRUE /\ c.chunked = h.c.chunked /\ c.url = NoUrl
      /\ c.received = h.c.received /\ c.buff = h.c.buff
      /\ c.backlog = h.c.backlog /\ c.framed = h.c.framed
      /\ c.out = h.c.out /\ c.outLen = h.c.outLen /\ c.made = h.c.made
      /\ c.chunkHdr = h.c.chunkHdr /\ c.sendingBody = h.c.sendingBody
  BY <1>1 DEF Connections
<1> HIDE DEF c, g
<1>5. g.c = c /\ g.t = h.t /\ g.s = h.s /\ g.e = h.e
  BY <1>2 DEF Handlers
<1>6. SameBuffer(h, g)
  BY <1>4, <1>5 DEF SameBuffer
<1> QED
  BY <1>3, <1>4, <1>5, <1>6 DEF g

(* What a packet holds of an answer that can be composed: its pieces from  *)
(* the first m up to n, in no more bytes than the backlog has room for.    *)
Holds(packet, m, n) ==
  /\ packet.framed /\ n \in Nat /\ m <= n /\ packet.pieces = Pieces(m, n)
  /\ packet.len <= HTTPD_MAX_BACKLOG_SIZE
  /\ packet.len = 0 => ~packet.ends /\ n = m

(* Before a call of a CGI function: an empty buffer, a list that fits.     *)
Begins(h, m) == Composed(h, m, 6) /\ ListsFit /\ h.s.aps \in ApCounts \cup {0}

(* The answer ends, and the connection is ready for its next request.      *)
Ended(h, g) ==
  /\ Quiet(g)
  /\ g.e = h.e /\ g.t.state = h.t.state /\ g.c.remote = h.c.remote
  /\ g.c.cgi = "NULL" /\ g.c.len = -1 /\ g.c.received = 0 /\ g.c.buff = <<>>
  /\ ~g.c.chunked /\ ~g.c.sendingBody /\ ~g.c.discon /\ g.c.made = 0
  /\ \E packet \in Packets :
       /\ packet.ends /\ Hands(h, g, packet)
       /\ \A m \in Nat : Begins(h, m) => \E n : Holds(packet, m, n)

(* A part of a file goes out; with the last part of one that is not sent   *)
(* in chunks the connection is to be closed.                               *)
Partly(h, g) ==
  /\ Quiet(g)
  /\ g.e = h.e /\ g.t.state = h.t.state /\ g.c.remote = h.c.remote
  /\ g.c.len = h.c.len /\ g.c.url \in {h.c.url, NoUrl}
  /\ ReadsFile(g.c) \/ (g.c.cgi = "NULL" /\ ~g.c.chunked)
  /\ SendsItsFile(g.c)
  /\ \E packet \in Packets :
       /\ ~packet.ends /\ Hands(h, g, packet)
       /\ \A m \in Nat : Begins(h, m) => Holds(packet, m, g.c.made)

LEMMA HandsAgain ==
  ASSUME NEW f, NEW h, NEW g, NEW packet,
         h.t = f.t, h.e = f.e, h.c.backlog = f.c.backlog, Hands(h, g, packet)
  PROVE  Hands(f, g, packet)
BY DEF Hands, Takes

(* A flush in the middle of an answer.                                     *)
LEMMA FlushPartly ==
  ASSUME NEW h, NEW f \in Handlers, f.c.conn, ~EndsAnswer(f),
         f.t = h.t, f.e = h.e, f.c.backlog = h.c.backlog,
         f.c.remote = h.c.remote, f.c.len = h.c.len, f.c.url \in {h.c.url, NoUrl},
         ReadsFile(f.c) \/ (f.c.cgi = "NULL" /\ ~f.c.chunked), SendsItsFile(f.c),
         \A m \in Nat : Begins(h, m) => Composed(f, m, FULL)
  PROVE  Partly(h, FlushSendBuffer(f)) /\ FlushSendBuffer(f).s = f.s
<1> DEFINE g == FlushSendBuffer(f)
           packet == PacketOf(f)
<1>1. /\ Flushes(f, g) /\ packet \in Packets /\ packet.ends = EndsAnswer(f)
      /\ g.c.made = f.c.made + (IF EndsAnswer(f) THEN 1 ELSE 0)
      /\ Hands(f, g, packet)
  BY FlushDoes
<1>2. f.c.made \in Nat
  BY HandlerFields DEF Connections
<1>3. ASSUME NEW m \in Nat, Composed(f, m, FULL)
      PROVE  /\ packet.framed /\ m <= f.c.made /\ packet.pieces = Pieces(m, f.c.made)
             /\ packet.len <= HTTPD_MAX_BACKLOG_SIZE
             /\ packet.len = 0 => f.c.made = m
  <2> DEFINE all == f.c.made + (IF EndsAnswer(f) THEN 1 ELSE 0)
  <2>1. /\ packet.framed /\ m <= all /\ packet.pieces = Pieces(m, all)
        /\ packet.len <= HTTPD_MAX_BACKLOG_SIZE
        /\ packet.len = 0 => all = m
    BY <1>3, ComposedPacket
  <2>2. all = f.c.made
    BY <1>2
  <2> HIDE DEF all, packet
  <2> QED
    BY <2>1, <2>2
<1> HIDE DEF g, packet
<1>4. g.c.made = f.c.made /\ ~packet.ends
  BY <1>1, <1>2
<1>5. \A m \in Nat : Begins(h, m) => Holds(packet, m, g.c.made)
  BY <1>2, <1>3, <1>4 DEF Holds
<1>6. Hands(h, g, packet)
  BY <1>1, HandsAgain
<1>7. /\ Quiet(g) /\ g.e = h.e /\ g.t.state = h.t.state /\ g.c.remote = h.c.remote
      /\ g.c.len = h.c.len /\ g.c.url \in {h.c.url, NoUrl} /\ g.s = f.s
      /\ g.c.cgi = f.c.cgi /\ g.c.chunked = f.c.chunked /\ g.c.cgiData = f.c.cgiData
      /\ g.c.sendingBody = f.c.sendingBody
  BY <1>1 DEF Flushes, SameRequest
<1>8. /\ ReadsFile(g.c) \/ (g.c.cgi = "NULL" /\ ~g.c.chunked)
      /\ SendsItsFile(g.c)
  BY <1>7 DEF ReadsFile, SendsItsFile
<1> QED
  BY <1>1, <1>4, <1>5, <1>6, <1>7, <1>8 DEF Partly, g

LEMMA CallDoes ==
  ASSUME NEW h, MayCall(h), h.c.cgi # "NULL", h.c.conn, SendsItsFile(h.c)
  PROVE  LET called == Cgi(h)
             g == Finish(called)
         IN  /\ called.r = "DONE" /\ h.c.chunked => Ended(h, g) /\ g.s = called.h.s
             /\ called.r = "DONE" /\ ~h.c.chunked =>
                  Partly(h, FlushSendBuffer(g)) /\ FlushSendBuffer(g).s = called.h.s
             /\ called.r = "MORE" /\ ReadsFile(h.c) =>
                  /\ g = called.h
                  /\ Partly(h, FlushSendBuffer(g)) /\ FlushSendBuffer(g).s = called.h.s
<1> DEFINE called == Cgi(h)
           f == called.h
           done == CgiIsDone(f)
<1>1. Fulfils(h, called)
  BY CgiFulfils
<1>2. Finish(called) = IF called.r = "DONE" THEN done ELSE f
  BY DEF Finish
<1> HIDE DEF called
<1>3. /\ Leaves(h, f) /\ SendsItsFile(f.c) /\ (called.r = "DONE" => f.c.sendingBody)
      /\ \A m \in Nat : Begins(h, m) => Composed(f, m, FULL)
  BY <1>1 DEF Fulfils, Begins
<1> HIDE DEF f
<1>4. /\ f \in Handlers /\ f.c.conn /\ f.t = h.t /\ f.e = h.e
      /\ f.c.remote = h.c.remote /\ f.c.len = h.c.len /\ f.c.url = h.c.url
      /\ f.c.cgi = h.c.cgi /\ f.c.chunked = h.c.chunked /\ f.c.backlog = h.c.backlog
  BY <1>3 DEF Leaves, SameCall
<1>5. ASSUME called.r = "DONE", h.c.chunked PROVE Ended(h, done) /\ done.s = f.s
  <2>1. /\ ReadyAgain(f, done)
        /\ \E packet \in Packets :
             /\ packet.ends = f.c.sendingBody
             /\ Hands(f, done, packet)
             /\ \A m \in Nat : f.c.sendingBody /\ Composed(f, m, FULL) =>
                  /\ packet.framed /\ packet.pieces = Pieces(m, f.c.made + 1)
                  /\ packet.len # 0 /\ packet.len <= HTTPD_MAX_BACKLOG_SIZE
    BY <1>4, <1>5, DoneChunked
  <2> HIDE DEF done
  <2>2. PICK packet \in Packets :
          /\ packet.ends = f.c.sendingBody
          /\ Hands(f, done, packet)
          /\ \A m \in Nat : f.c.sendingBody /\ Composed(f, m, FULL) =>
               /\ packet.framed /\ packet.pieces = Pieces(m, f.c.made + 1)
               /\ packet.len # 0 /\ packet.len <= HTTPD_MAX_BACKLOG_SIZE
    BY <2>1
  <2>3. f.c.made \in Nat
    BY <1>4, HandlerFields DEF Connections
  <2>4. \A m \in Nat : Composed(f, m, FULL) => m <= f.c.made + 1
    BY <2>3 DEF Composed
  <2>5. ASSUME NEW m \in Nat, Begins(h, m) PROVE \E n : Holds(packet, m, n)
    <3>1. Holds(packet, m, f.c.made + 1)
      BY <1>3, <1>5, <2>2, <2>3, <2>4, <2>5 DEF Holds
    <3> QED
      BY <3>1
  <2>6. Hands(h, done, packet) /\ packet.ends
    BY <1>3, <1>4, <1>5, <2>2, HandsAgain
  <2>7. \E p \in Packets : /\ p.ends /\ Hands(h, done, p)
                           /\ \A m \in Nat : Begins(h, m) => \E n : Holds(p, m, n)
    BY <2>5, <2>6
  <2> QED
    BY <1>4, <2>1, <2>7 DEF ReadyAgain, Ended
<1>6. ASSUME called.r = "DONE", ~h.c.chunked
      PROVE  Partly(h, FlushSendBuffer(done)) /\ FlushSendBuffer(done).s = f.s
  <2>1. /\ done \in Handlers /\ done.t = f.t /\ done.s = f.s /\ done.e = f.e
        /\ done.c.remote = f.c.remote /\ done.c.conn = f.c.conn /\ done.c.len = f.c.len
        /\ done.c.cgi = "NULL" /\ ~done.c.chunked /\ done.c.url = NoUrl
        /\ done.c.backlog = f.c.backlog /\ done.c.framed = f.c.framed
        /\ SameBuffer(f, done)
    BY <1>4, <1>6, DoneUnchunked
  <2> HIDE DEF done
  <2>2. ~EndsAnswer(done) /\ SendsItsFile(done.c)
    BY <2>1 DEF EndsAnswer, SendsItsFile, ReadsFile
  <2>3. \A m \in Nat : Begins(h, m) => Composed(done, m, FULL)
    BY <1>3, <2>1 DEF Composed, SameBuffer
  <2> QED
    BY <1>4, <2>1, <2>2, <2>3, FlushPartly
<1>7. ASSUME called.r = "MORE", ReadsFile(h.c)
      PROVE  Partly(h, FlushSendBuffer(f)) /\ FlushSendBuffer(f).s = f.s
  <2>1. ~EndsAnswer(f) /\ ReadsFile(f.c)
    BY <1>4, <1>7 DEF EndsAnswer, ReadsFile
  <2> QED
    BY <1>3, <1>4, <2>1, FlushPartly
<1> HIDE DEF done
<1>8. called.r = "MORE" => Finish(called) = f
  BY <1>2
<1>9. called.r = "DONE" => Finish(called) = done
  BY <1>2
<1> QED
  BY <1>5, <1>6, <1>7, <1>8, <1>9 DEF called, f

(* A connection in the middle of a handler, and what is to arrive yet.     *)
Serving(h, rest) == Quiet(h) /\ Exchange(h.c, h.t, rest)

(* Nothing fails in this handler.                                          *)
Clean(h) == ListsFit /\ ~h.e.refuse /\ ~h.e.noitem

Answering(h) == Intact(h.c, h.t) /\ h.s.aps \in ApCounts \cup {0}

(* The client has all that was made.                                       *)
Even(h) == Clean(h) /\ ~h.t.garbled /\ h.t.got = h.c.made /\ h.s.aps \in ApCounts \cup {0}

LEMMA EvenBegins ==
  ASSUME NEW h, Quiet(h), Even(h)
  PROVE  Begins(h, h.c.made) /\ h.c.made \in Nat
<1>1. h.c.made \in Nat /\ h.c.outLen = 0 /\ h.c.out = <<>> /\ h.c.framed /\ ~h.c.chunkHdr
  BY HandlerFields DEF Quiet, Even, Clean, Connections
<1>2. Pieces(h.c.made, h.c.made) = <<>>
  BY <1>1 DEF Pieces
<1>3. Composed(h, h.c.made, 6)
  BY <1>1, <1>2 DEF Composed
<1> QED
  BY <1>1, <1>3 DEF Begins, Even, Clean

(* Nothing is lost of a packet that holds what follows.                    *)
LEMMA HandsIntact ==
  ASSUME NEW h \in Handlers, NEW g \in Handlers, NEW packet \in Packets, Hands(h, g, packet),
         h.c.backlog = <<>>, Clean(h), ~h.t.garbled, NEW n, Holds(packet, h.t.got, n)
  PROVE  /\ ~g.t.garbled
         /\ \/ g.c.backlog = <<>> /\ g.t.got = IF packet.ends THEN 0 ELSE n
            \/ g.c.backlog = <<packet>> /\ g.t.got = h.t.got
<1> DEFINE got == h.t.got
<1>1. got \in Nat /\ n \in Nat /\ got <= n /\ packet.pieces = Pieces(got, n)
  BY HandlerFields DEF TcpConnections, Holds
<1>2. Len(packet.pieces) = n - got /\ packet.pieces = [i \in 1..Len(packet.pieces) |-> got + i]
  BY <1>1 DEF Pieces
<1>3. packet.framed /\ packet.len <= HTTPD_MAX_BACKLOG_SIZE /\ packet.len \in Nat
      /\ (packet.len = 0 => ~packet.ends /\ n = got) /\ packet.ends \in BOOLEAN
  BY DEF Holds, Packets
<1>4. CASE Takes(h) /\ packet.len # 0 /\ Delivers(h.t, packet, g.t) /\ g.c.backlog = h.c.backlog
  <2>1. ~g.t.garbled /\ g.t.got = IF packet.ends THEN 0 ELSE got + Len(packet.pieces)
    BY <1>2, <1>3, <1>4 DEF Delivers
  <2>2. got + Len(packet.pieces) = n
    BY <1>1, <1>2
  <2> QED
    BY <1>4, <2>1, <2>2
<1>5. CASE ~Takes(h) /\ packet.len # 0 /\ ~h.e.noitem /\ g.t = h.t
           /\ g.c.backlog = Append(h.c.backlog, packet)
  BY <1>5
<1>6. CASE /\ g.t = h.t /\ g.c.backlog = h.c.backlog
           /\ \/ packet.len = 0
              \/ ~Takes(h) /\ h.e.noitem
              \/ ~(BacklogSize(h.c.backlog) + packet.len <= HTTPD_MAX_BACKLOG_SIZE)
  <2>1. packet.len = 0
    <3>1. BacklogSize(h.c.backlog) = 0
      BY NothingKept
    <3>2. BacklogSize(h.c.backlog) + packet.len <= HTTPD_MAX_BACKLOG_SIZE
      BY <1>3, <3>1
    <3> QED
      BY <1>6, <3>2 DEF Clean
  <2> QED
    BY <1>3, <1>6, <2>1
<1> QED
  BY <1>4, <1>5, <1>6 DEF Hands

LEMMA HandsOne ==
  ASSUME NEW h, NEW g, NEW packet \in Packets, Hands(h, g, packet), h.c.backlog = <<>>
  PROVE  /\ g.c.backlog = <<>> \/ (g.c.backlog = <<packet>> /\ g.t = h.t)
         /\ ~packet.ends => (g.t.waiting <=> h.t.waiting)
BY DEF Hands, Delivers

LEMMA OnePacket ==
  ASSUME NEW packet
  PROVE  <<packet>> # <<>> /\ Len(<<packet>>) = 1 /\ <<packet>>[1] = packet
OBVIOUS

LEMMA EndedServes ==
  ASSUME NEW h, NEW g, Ended(h, g), Quiet(h), h.c.backlog = <<>>, h.t.waiting
  PROVE  Serving(g, <<>>) /\ (Even(h) => Intact(g.c, g.t))
<1>1. PICK packet \in Packets :
        /\ packet.ends /\ Hands(h, g, packet)
        /\ \A m \in Nat : Begins(h, m) => \E n : Holds(packet, m, n)
  BY DEF Ended
<1>2. /\ Quiet(g) /\ g.c.cgi = "NULL" /\ g.c.len = -1 /\ g.c.received = 0 /\ g.c.buff = <<>>
      /\ ~g.c.sendingBody /\ ~g.c.discon /\ g.c.made = 0 /\ g \in Handlers /\ h \in Handlers
  BY DEF Ended, Quiet
<1>3. \/ g.c.backlog = <<>>
      \/ /\ g.c.backlog # <<>> /\ Len(g.c.backlog) = 1 /\ g.c.backlog[1] = packet
         /\ g.t = h.t
  BY <1>1, HandsOne, OnePacket
<1>4. Exchange(g.c, g.t, <<>>)
  BY <1>2, <1>3 DEF Exchange, SendsItsFile, ReadsFile, IsRest
<1>5. ASSUME Even(h) PROVE Intact(g.c, g.t)
  <2>1. h.t.got = h.c.made /\ h.c.made \in Nat /\ Begins(h, h.c.made) /\ ~h.t.garbled /\ Clean(h)
    BY <1>5, EvenBegins DEF Even
  <2>2. PICK n : Holds(packet, h.t.got, n)
    BY <1>1, <2>1
  <2>3. /\ ~g.t.garbled
        /\ \/ g.c.backlog = <<>> /\ g.t.got = IF packet.ends THEN 0 ELSE n
           \/ /\ g.c.backlog # <<>> /\ g.c.backlog[1] = packet
              /\ g.t.got = h.t.got
    <3>1. /\ ~g.t.garbled
          /\ \/ g.c.backlog = <<>> /\ g.t.got = IF packet.ends THEN 0 ELSE n
             \/ g.c.backlog = <<packet>> /\ g.t.got = h.t.got
      BY <1>1, <1>2, <2>1, <2>2, HandsIntact
    <3> QED
      BY <3>1, OnePacket
  <2>4. h.t.got + Len(packet.pieces) = n /\ packet.framed /\ packet.pieces = Pieces(h.t.got, n)
    BY <2>1, <2>2 DEF Holds, Pieces
  <2> QED
    BY <1>1, <1>2, <2>3, <2>4 DEF Intact
<1> QED
  BY <1>2, <1>4, <1>5 DEF Serving

LEMMA PartlyServes ==
  ASSUME NEW h, NEW g, Partly(h, g), Quiet(h), h.c.backlog = <<>>, h.t.waiting,
         h.c.len = 0, h.c.url.name # "save"
  PROVE  Serving(g, <<>>) /\ (Even(h) => Intact(g.c, g.t))
<1>1. PICK packet \in Packets :
        /\ ~packet.ends /\ Hands(h, g, packet)
        /\ \A m \in Nat : Begins(h, m) => Holds(packet, m, g.c.made)
  BY DEF Partly
<1>2. /\ Quiet(g) /\ g.c.len = 0 /\ g.c.url \in {h.c.url, NoUrl}
      /\ ReadsFile(g.c) \/ (g.c.cgi = "NULL" /\ ~g.c.chunked)
      /\ SendsItsFile(g.c) /\ g \in Handlers /\ h \in Handlers
  BY DEF Partly, Quiet
<1>3. \/ g.c.backlog = <<>>
      \/ /\ g.c.backlog # <<>> /\ Len(g.c.backlog) = 1 /\ g.c.backlog[1] = packet
         /\ g.t = h.t
  <2>1. g.c.backlog = <<>> \/ (g.c.backlog = <<packet>> /\ g.t = h.t)
    BY <1>1, HandsOne
  <2> QED
    BY <2>1, OnePacket
<1>4. g.t.waiting
  BY <1>1, HandsOne
<1>5. g.c.url.name # "save" /\ (g.c.cgi = "NULL" => ~g.c.chunked)
  BY <1>2 DEF NoUrl, ReadsFile
<1>6. Exchange(g.c, g.t, <<>>)
  BY <1>1, <1>2, <1>3, <1>4, <1>5 DEF Exchange
<1>7. ASSUME Even(h) PROVE Intact(g.c, g.t)
  <2>1. h.t.got = h.c.made /\ h.c.made \in Nat /\ Begins(h, h.c.made) /\ ~h.t.garbled /\ Clean(h)
    BY <1>7, EvenBegins DEF Even
  <2>2. Holds(packet, h.t.got, g.c.made)
    BY <1>1, <2>1
  <2>3. /\ ~g.t.garbled
        /\ \/ g.c.backlog = <<>> /\ g.t.got = IF packet.ends THEN 0 ELSE g.c.made
           \/ /\ g.c.backlog # <<>> /\ g.c.backlog[1] = packet
              /\ g.t.got = h.t.got
    <3>1. /\ ~g.t.garbled
          /\ \/ g.c.backlog = <<>> /\ g.t.got = IF packet.ends THEN 0 ELSE g.c.made
             \/ g.c.backlog = <<packet>> /\ g.t.got = h.t.got
      BY <1>1, <1>2, <2>1, <2>2, HandsIntact
    <3> QED
      BY <3>1, OnePacket
  <2>4. /\ h.t.got + Len(packet.pieces) = g.c.made /\ packet.framed
        /\ packet.pieces = Pieces(h.t.got, g.c.made)
    BY <2>1, <2>2 DEF Holds, Pieces
  <2> QED
    BY <1>1, <1>2, <2>3, <2>4 DEF Intact
<1> QED
  BY <1>2, <1>6, <1>7 DEF Serving

(* The flush at the end of httpdRecvCb() adds nothing.                     *)
LEMMA FlushServes ==
  ASSUME NEW h, NEW rest, Serving(h, rest)
  PROVE  LET g == FlushSendBuffer(h)
         IN  /\ Serving(g, rest) /\ g.s = h.s /\ g.c.cgi = h.c.cgi /\ g.c.remote = h.c.remote
             /\ SameRequest(h.c, g.c)
             /\ Answering(h) => Answering(g)
<1> DEFINE g == FlushSendBuffer(h)
<1>1. Quiet(h) /\ Exchange(h.c, h.t, rest) /\ h.c.len \in Nat \cup {-1}
  BY HandlerFields DEF Serving, Quiet, Connections
<1>2. ~EndsAnswer(h)
  BY <1>1 DEF Exchange, EndsAnswer
<1>3. Flushes(h, g) /\ g.t = h.t /\ g.c.backlog = h.c.backlog /\ g.c.made = h.c.made
  BY <1>1, <1>2, QuietFlush
<1> HIDE DEF g
<1>4. /\ g.c.remote = h.c.remote /\ g.c.cgi = h.c.cgi /\ g.c.cgiData = h.c.cgiData
      /\ g.c.len = h.c.len /\ g.c.received = h.c.received /\ g.c.buff = h.c.buff
      /\ g.c.chunked = h.c.chunked /\ g.c.discon = h.c.discon /\ g.c.url = h.c.url
      /\ g.c.sendingBody = h.c.sendingBody /\ g.s = h.s /\ Quiet(g)
  BY <1>3 DEF Flushes, SameRequest
<1>5. Exchange(g.c, g.t, rest)
  BY <1>1, <1>3, <1>4 DEF Exchange, SendsItsFile, ReadsFile, Uploading, Handed, InStep
<1>6. Answering(h) => Answering(g)
  BY <1>3, <1>4 DEF Answering, Intact
<1> QED
  BY <1>3, <1>4, <1>5, <1>6 DEF Serving, Flushes, g

-------------------------------------------------------------------------------
(* The request and the parts of a form, as they arrive.                    *)
LEMMA FormArrives ==
  ASSUME NEW client, NEW k \in 0..FormParts
  PROVE  LET form == FormFrom(client, k)
         IN  /\ form = <<>> <=> k = FormParts
             /\ k # FormParts => /\ Head(form) = [kind |-> "form", part |-> Part(client, k + 1)]
                                 /\ k + 1 \in 0..FormParts
                                 /\ Tail(form) = FormFrom(client, k + 1)
             /\ Len(form) = FormParts - k
<1> DEFINE form == FormFrom(client, k)
           T == {[kind |-> "form", part |-> Part(client, j)] : j \in 1..FormParts}
           tail == FormFrom(client, k + 1)
<1>1. FormParts \in Nat
  BY FormPartsAssumption
<1>2. /\ form \in Seq(T) /\ Len(form) = FormParts - k
      /\ \A i \in 1..(FormParts - k) : form[i] = [kind |-> "form", part |-> Part(client, k + i)]
  <2>1. FormParts - k \in Nat
    BY <1>1
  <2>2. \A i \in 1..(FormParts - k) : [kind |-> "form", part |-> Part(client, k + i)] \in T
    BY <1>1
  <2> HIDE DEF T
  <2> QED
    BY <2>1, <2>2 DEF FormFrom
<1>3. CASE k = FormParts
  <2>1. Len(form) = 0
    BY <1>1, <1>2, <1>3
  <2> HIDE DEF form, T
  <2>2. form = <<>>
    BY <1>2, <2>1
  <2> QED
    BY <1>2, <1>3, <2>2 DEF form
<1>4. CASE k # FormParts
  <2>1. k + 1 \in 0..FormParts /\ FormParts - (k + 1) \in Nat
    BY <1>1, <1>4
  <2>2. /\ tail \in Seq(T) /\ Len(tail) = FormParts - (k + 1)
        /\ \A i \in 1..(FormParts - (k + 1)) :
             tail[i] = [kind |-> "form", part |-> Part(client, (k + 1) + i)]
    <3>1. \A i \in 1..(FormParts - (k + 1)) :
            [kind |-> "form", part |-> Part(client, (k + 1) + i)] \in T
      BY <1>1, <1>4
    <3> HIDE DEF T
    <3> QED
      BY <2>1, <3>1 DEF FormFrom
  <2> HIDE DEF form, T, tail
  <2>3. form # <<>> /\ Len(form) > 0
    BY <1>1, <1>2, <1>4
  <2>4. Head(form) = [kind |-> "form", part |-> Part(client, k + 1)]
    <3>1. Head(form) = form[1]
      BY <1>2, <2>3
    <3>2. 1 \in 1..(FormParts - k)
      BY <1>1, <1>4
    <3> QED
      BY <1>2, <3>1, <3>2
  <2>5. Tail(form) \in Seq(T) /\ Len(Tail(form)) = Len(tail)
    BY <1>1, <1>2, <2>2, <2>3
  <2>6. ASSUME NEW i \in 1..Len(tail) PROVE Tail(form)[i] = tail[i]
    <3>1. i + 1 \in 1..(FormParts - k) /\ i \in 1..(FormParts - (k + 1))
          /\ k + (i + 1) = (k + 1) + i /\ i \in 1..Len(Tail(form))
      BY <1>1, <2>1, <2>2, <2>5
    <3>2. Tail(form)[i] = form[i + 1]
      BY <1>2, <2>3, <3>1
    <3>3. form[i + 1] = [kind |-> "form", part |-> Part(client, k + (i + 1))]
      BY <1>2, <3>1
    <3>4. tail[i] = [kind |-> "form", part |-> Part(client, (k + 1) + i)]
      BY <2>2, <3>1
    <3> QED
      BY <3>1, <3>2, <3>3, <3>4
  <2>7. Tail(form) = tail
    BY <2>2, <2>5, <2>6, SeqEqual
  <2> QED
    BY <1>2, <1>4, <2>1, <2>3, <2>4, <2>7 DEF form, tail
<1> QED
  BY <1>3, <1>4

LEMMA RequestArrives ==
  ASSUME NEW client, NEW request
  PROVE  LET all == Segments(client, request)
         IN  /\ all # <<>> /\ Head(all) = [kind |-> "head", request |-> request]
             /\ Tail(all) = IF request.name = "save" THEN FormFrom(client, 0) ELSE <<>>
<1> DEFINE head == [kind |-> "head", request |-> request]
           form == [k \in 1..FormParts |-> [kind |-> "form", part |-> Part(client, k)]]
           rest == IF request.name = "save" THEN form ELSE <<>>
           T == {[kind |-> "form", part |-> Part(client, j)] : j \in 1..FormParts}
<1>1. FormParts \in Nat
  BY FormPartsAssumption
<1>2. form = FormFrom(client, 0)
  BY <1>1 DEF FormFrom
<1>3. rest \in Seq(T)
  <2>1. form \in Seq(T)
    BY <1>1
  <2>2. <<>> \in Seq(T)
    OBVIOUS
  <2> QED
    BY <2>1, <2>2
<1>4. Segments(client, request) = <<head>> \o rest
  BY DEF Segments
<1> HIDE DEF head, form, T
<1>5. <<head>> \o rest # <<>> /\ Head(<<head>> \o rest) = head /\ Tail(<<head>> \o rest) = rest
  <2> DEFINE U == {head} \cup T
  <2>1. rest \in Seq(U) /\ head \in U
    BY <1>3
  <2> HIDE DEF U, rest
  <2>2. <<head>> \o rest \in Seq(U) /\ Len(<<head>> \o rest) = 1 + Len(rest)
        /\ (<<head>> \o rest)[1] = head
    BY <2>1
  <2>3. <<head>> \o rest # <<>>
    BY <2>1, <2>2
  <2>4. Tail(<<head>> \o rest) \in Seq(U) /\ Len(Tail(<<head>> \o rest)) = Len(rest)
    BY <2>1, <2>2, <2>3
  <2>5. \A i \in 1..Len(rest) : Tail(<<head>> \o rest)[i] = rest[i]
    BY <2>1, <2>2, <2>3
  <2>6. Tail(<<head>> \o rest) = rest
    BY <2>1, <2>4, <2>5, SeqEqual
  <2> QED
    BY <2>2, <2>3, <2>6
<1> QED
  BY <1>2, <1>4, <1>5 DEF head

(* httpdProcessRequest() calls the CGI function of the URL.                *)
Assigned(h) == [h EXCEPT !.c.cgi = CgiNames(h.c.url), !.c.cgiData = NoData]

LEMMA AssignedFields ==
  ASSUME NEW h \in Handlers, h.c.conn, SharedOK(h.s), h.c.url \in Requests,
         h.c.remote \notin h.s.files, h.c.chunked <=> h.c.url.name # "file"
  PROVE  LET g == Assigned(h)
         IN  /\ g \in Handlers /\ MayCall(g) /\ g.c.cgi # "NULL" /\ SendsItsFile(g.c)
             /\ g.c.cgiData = NoData /\ g.c.conn
             /\ g.t = h.t /\ g.s = h.s /\ g.e = h.e
             /\ g.c.remote = h.c.remote /\ g.c.url = h.c.url /\ g.c.len = h.c.len
             /\ g.c.chunked = h.c.chunked /\ g.c.discon = h.c.discon
             /\ g.c.backlog = h.c.backlog /\ g.c.received = h.c.received /\ g.c.buff = h.c.buff
             /\ g.c.framed = h.c.framed /\ g.c.buffSize = h.c.buffSize /\ SameBuffer(h, g)
             /\ g.c.cgi = "save" <=> h.c.url.name = "save"
             /\ ReadsFile(g.c) <=> h.c.url.name \in Files
             /\ h.c.url.name = "file" => g.c.cgi = "espfs"
<1> DEFINE name == CgiNames(h.c.url)
           c == [h.c EXCEPT !.cgi = name, !.cgiData = NoData]
           g == Assigned(h)
<1>1. h.c \in Connections
  BY HandlerFields
<1>2. h.c.url.name \in UrlNames
  <2>1. \A url \in [name : Urls \ Files, bytes : {0}] : url.name \in Urls
    OBVIOUS
  <2>2. \A url \in [name : Urls \cap Files, bytes : FileBytes] : url.name \in Urls
    OBVIOUS
  <2>3. h.c.url.name \in Urls
    BY <2>1, <2>2, Zenon DEF Requests
  <2> QED
    BY <2>3, UrlsAssumption
<1>3. /\ name \in CgiFunctions \ {"NULL"}
      /\ name = "save" <=> h.c.url.name = "save"
      /\ name \in {"template", "espfs"} <=> h.c.url.name \in Files
      /\ h.c.url.name = "file" => name = "espfs"
  <2>1. CASE h.c.url.name = "index"
    BY <2>1 DEF CgiNames, CgiFunctions, Files
  <2>2. CASE h.c.url.name = "file"
    BY <2>2 DEF CgiNames, CgiFunctions, Files
  <2>3. CASE h.c.url.name \notin {"index", "file"}
    <3>1. name = h.c.url.name
      BY <2>3 DEF CgiNames
    <3> QED
      BY <1>2, <2>3, <3>1 DEF UrlNames, CgiFunctions, Files
  <2> QED
    BY <2>1, <2>2, <2>3
<1>4. g = [h EXCEPT !.c = c]
  BY DEF Assigned
<1> HIDE DEF name
<1>5. /\ c \in Connections /\ c.cgi = name /\ c.cgiData = NoData
      /\ c.remote = h.c.remote /\ c.conn = h.c.conn /\ c.url = h.c.url
      /\ c.len = h.c.len /\ c.chunked = h.c.chunked /\ c.discon = h.c.discon
      /\ c.backlog = h.c.backlog /\ c.received = h.c.received /\ c.buff = h.c.buff
      /\ c.framed = h.c.framed /\ c.out = h.c.out /\ c.outLen = h.c.outLen
      /\ c.made = h.c.made /\ c.chunkHdr = h.c.chunkHdr /\ c.sendingBody = h.c.sendingBody
      /\ c.buffSize = h.c.buffSize
  <2>1. \A f \in CgiFunctions, n \in Nat \cup {NoData} :
          [h.c EXCEPT !.cgi = f, !.cgiData = n] \in Connections
    BY <1>1 DEF Connections
  <2>2. c \in Connections
    BY <1>3, <2>1
  <2> QED
    BY <1>1, <2>2 DEF Connections
<1> HIDE DEF c, g
<1>6. g \in Handlers /\ g.c = c /\ g.t = h.t /\ g.s = h.s /\ g.e = h.e
  BY <1>4, <1>5, NewFields
<1>7. SendsItsFile(g.c) /\ SameBuffer(h, g)
  BY <1>5, <1>6 DEF SendsItsFile, SameBuffer
<1>8. ReadsFile(g.c) <=> h.c.url.name \in Files
  BY <1>3, <1>5, <1>6 DEF ReadsFile
<1>9. MayCall(g)
  <2>1. ItsCgi(g.c)
    BY <1>5, <1>6 DEF ItsCgi, name
  <2> QED
    BY <1>5, <1>6, <2>1 DEF MayCall
<1> QED
  BY <1>3, <1>5, <1>6, <1>7, <1>8, <1>9 DEF g

(* A request without a form: answered at once, or with a file.             *)
LEMMA RequestDoes ==
  ASSUME NEW h \in Handlers, h.c.conn, SharedOK(h.s), h.c.url \in Requests,
         h.c.remote \notin h.s.files, h.c.chunked <=> h.c.url.name # "file",
         h.c.url.name # "save"
  PROVE  LET f == Assigned(h)
             g == ProcessRequest(h)
         IN  /\ Ended(f, g) \/ Partly(f, g)
             /\ FormOf(g.s) = FormOf(h.s) /\ g.s.aps = h.s.aps
<1> DEFINE f == Assigned(h)
           called == Cgi(f)
           g == ProcessRequest(h)
<1>1. /\ f \in Handlers /\ MayCall(f) /\ f.c.cgi # "NULL" /\ SendsItsFile(f.c)
      /\ f.c.conn /\ f.c.cgiData = NoData /\ f.s = h.s
      /\ f.c.chunked = h.c.chunked /\ f.c.cgi # "save"
      /\ h.c.url.name = "file" => f.c.cgi = "espfs"
  BY AssignedFields
<1>2. g = IF called.r = "MORE" THEN FlushSendBuffer(called.h) ELSE Finish(called)
  BY DEF ProcessRequest, Assigned
<1>3. Fulfils(f, called)
  BY <1>1, CgiFulfils
<1>4. /\ called.r = "DONE" /\ f.c.chunked =>
           Ended(f, Finish(called)) /\ Finish(called).s = called.h.s
      /\ called.r = "MORE" /\ ReadsFile(f.c) =>
           /\ Finish(called) = called.h
           /\ Partly(f, FlushSendBuffer(Finish(called)))
           /\ FlushSendBuffer(Finish(called)).s = called.h.s
  BY <1>1, CallDoes
<1>5. ~f.c.chunked => called.r = "MORE"
  <2>1. ~f.c.chunked => f.c.cgi = "espfs"
    BY <1>1
  <2>2. f.c.cgi = "espfs" => called = CgiEspFsHook(f)
    BY DEF Cgi
  <2>3. CgiEspFsHook(f) = More(Headers(Opened(f, f.c.url.bytes), HEADERS))
    BY <1>1 DEF CgiEspFsHook
  <2>4. CgiEspFsHook(f).r = "MORE"
    BY <2>3 DEF More
  <2> QED
    BY <2>1, <2>2, <2>4
<1>6. called.r \in {"DONE", "MORE"}
  BY <1>1, CgiCalled DEF Called
<1> HIDE DEF called, f, g
<1>7. /\ FormOf(called.h.s) = FormOf(f.s) /\ called.h.s.aps = f.s.aps
      /\ called.r = "MORE" => ReadsFile(f.c)
  BY <1>1, <1>3 DEF Fulfils
<1>8. (Ended(f, g) \/ Partly(f, g)) /\ g.s = called.h.s
  BY <1>2, <1>4, <1>5, <1>6, <1>7
<1> QED
  BY <1>1, <1>7, <1>8 DEF f, g

(* The accumulator when no other connection hands over a form ...          *)
Alone(h, rest) ==
  /\ h.s.savedExactly
  /\ Len(h.s.form) <= FormParts
  /\ h.c.cgi # "save" => h.s.index = 0
  /\ h.c.cgi = "save" =>
       /\ h.s.index > 0 /\ h.s.index = Handed(h.c)
       /\ InStep(h.c, rest) => \A i \in 1..h.s.index : h.s.form[i] = Part(h.c.remote, i)

(* ... and when another one does, which this one then disturbs.            *)
Apart(h, rest, s) ==
  \/ FormOf(h.s) = FormOf(s) /\ h.c.cgi # "save"
  \/ h.s.index > s.index
  \/ h.s.index = 0 /\ rest = <<>>

Answers(h) == Clean(h) /\ Answering(h)

(* What a step of httpdRecvCb() keeps of a connection, its answer and its  *)
(* form.                                                                   *)
Keeps(h, before, g, after) ==
  /\ Serving(g, after)
  /\ Answers(h) => Answers(g)
  /\ Alone(h, before) => Alone(g, after)
  /\ \A s \in SharedVariables : s.index > 0 /\ Apart(h, before, s) => Apart(g, after, s)

LEMMA NothingToKeep ==
  ASSUME NEW h, NEW before, NEW g, NEW after, Serving(g, after),
         Answers(h) => Answers(g), h.s.index \in Nat, before # <<>>,
         FormOf(g.s) = FormOf(h.s), h.c.cgi # "save", g.c.cgi # "save"
  PROVE  Keeps(h, before, g, after)
<1>1. g.s.index = h.s.index /\ g.s.form = h.s.form /\ g.s.savedExactly = h.s.savedExactly
  BY DEF FormOf
<1>2. Alone(h, before) => Alone(g, after)
  BY <1>1 DEF Alone
<1>3. \A s \in SharedVariables : s.index > 0 /\ Apart(h, before, s) => Apart(g, after, s)
  BY <1>1 DEF Apart
<1> QED
  BY <1>2, <1>3 DEF Keeps

(* httpdRecvCb() at the end of a request's headers.                        *)
LEMMA HeadersKeep ==
  ASSUME NEW h, Sound(h), h.c.len = -1, NEW request \in Requests, NEW before, before # <<>>,
         Serving(h, before),
         Tail(before) = IF request.name = "save" THEN FormFrom(h.c.remote, 0) ELSE <<>>
  PROVE  Keeps(h, before, HeadersComplete(h, request), Tail(before))
<1> DEFINE length == IF request.name = "save" THEN FormParts ELSE 0
           size == Least(length, HTTPD_MAX_POST_LEN)
           chunked == request.name # "file"
           c == [h.c EXCEPT !.url = request, !.chunked = chunked, !.len = length,
                            !.made = 0, !.buffSize = size, !.buff = <<>>]
           g == [h EXCEPT !.c = c]
           f == Assigned(g)
           all == HeadersComplete(h, request)
           rest == Tail(before)
<1>1. /\ h \in Handlers /\ h.c \in Connections /\ h.c.conn /\ h.c.cgi = "NULL"
      /\ h.c.remote \notin h.s.files /\ SharedOK(h.s) /\ h.s \in SharedVariables
  BY HandlerFields DEF Sound, Orderly, AtRest, ReadsFile
<1>2. /\ Quiet(h) /\ Exchange(h.c, h.t, before)
      /\ h.c.received = 0 /\ ~h.c.sendingBody /\ ~h.c.discon
      /\ h.t.waiting /\ h.c.backlog = <<>>
  BY DEF Serving, Exchange
<1>3. [h EXCEPT !.c.url = request, !.c.chunked = chunked, !.c.len = length,
                !.c.made = 0, !.c.buffSize = size, !.c.buff = <<>>] = g
  OBVIOUS
<1>4. all = IF length = 0 THEN ProcessRequest(g) ELSE g
  BY <1>3 DEF HeadersComplete
<1>5. length \in Nat /\ size \in Nat /\ chunked \in BOOLEAN /\ FormParts \in Nat \ {0}
  BY FormPartsAssumption DEF Least, HTTPD_MAX_POST_LEN
<1>6. /\ request.name = "save" => length = FormParts
      /\ request.name # "save" => length = 0
      /\ chunked <=> request.name # "file"
  OBVIOUS
<1> HIDE DEF length, size, chunked
<1>7. c \in Connections
  <2> DEFINE d == [h.c EXCEPT !.url = request, !.chunked = chunked, !.len = length]
  <2>1. d \in Connections
    BY <1>1, <1>5 DEF Connections
  <2>2. c = [d EXCEPT !.made = 0, !.buffSize = size, !.buff = <<>>]
    OBVIOUS
  <2> HIDE DEF d
  <2>3. \A n, m \in Nat, p \in Seq(Parts) :
          [d EXCEPT !.made = n, !.buffSize = m, !.buff = p] \in Connections
    BY <2>1 DEF Connections
  <2>4. 0 \in Nat /\ <<>> \in Seq(Parts)
    OBVIOUS
  <2> QED
    BY <1>5, <2>2, <2>3, <2>4
<1>8. /\ c.remote = h.c.remote /\ c.conn = h.c.conn /\ c.url = request
      /\ c.cgi = h.c.cgi /\ c.len = length /\ c.chunked = chunked
      /\ c.cgiData = h.c.cgiData /\ c.discon = h.c.discon
      /\ c.backlog = h.c.backlog /\ c.outLen = h.c.outLen /\ c.out = h.c.out
      /\ c.received = h.c.received /\ c.buff = <<>> /\ c.made = 0
      /\ c.framed = h.c.framed /\ c.chunkHdr = h.c.chunkHdr /\ c.sendingBody = h.c.sendingBody
  BY <1>1 DEF Connections
<1> HIDE DEF c
<1>9. g \in Handlers /\ g.c = c /\ g.t = h.t /\ g.s = h.s /\ g.e = h.e
  BY <1>1, <1>7, NewFields
<1> HIDE DEF g
<1>10. Quiet(g) /\ (Answers(h) => Answers(g) /\ Even(g))
  <2>1. Quiet(g)
    BY <1>2, <1>8, <1>9 DEF Quiet, Takes
  <2>2. ASSUME Answers(h) PROVE Answers(g) /\ Even(g)
    BY <1>2, <1>8, <1>9, <2>2 DEF Answers, Clean, Answering, Intact, Even
  <2> QED
    BY <2>1, <2>2
<1>11. h.s.index \in Nat
  BY <1>1 DEF SharedVariables
<1>12. CASE request.name = "save"
  <2>1. all = g /\ length = FormParts
    BY <1>4, <1>5, <1>6, <1>12
  <2>2. rest = FormFrom(h.c.remote, 0)
    BY <1>12
  <2>3. Uploading(g.c, rest)
    <3>1. 0 \in 0..FormParts
      BY <1>5
    <3>2. g.c.len = FormParts /\ g.c.received = 0 /\ Len(g.c.buff) = 0 /\ g.c.remote = h.c.remote
      BY <1>2, <1>8, <1>9, <2>1
    <3> QED
      BY <1>5, <2>2, <3>1, <3>2 DEF Uploading, Handed
  <2> HIDE DEF rest
  <2>4. SendsItsFile(g.c)
    BY <1>1, <1>8, <1>9 DEF SendsItsFile, ReadsFile
  <2>5. g.c.len > 0
    BY <1>5, <1>8, <1>9, <2>1
  <2>6. Exchange(g.c, g.t, rest)
    BY <1>2, <1>8, <1>9, <2>3, <2>4, <2>5 DEF Exchange
  <2>7. g.c.cgi # "save"
    BY <1>1, <1>8, <1>9
  <2>8. Serving(g, rest)
    BY <1>10, <2>6 DEF Serving
  <2>9. Keeps(h, before, g, rest)
    BY <1>1, <1>9, <1>10, <1>11, <2>7, <2>8, NothingToKeep
  <2> QED
    BY <2>1, <2>9 DEF rest, all
<1>13. CASE request.name # "save"
  <2>1. all = ProcessRequest(g) /\ length = 0 /\ rest = <<>>
    BY <1>4, <1>6, <1>13
  <2>2. /\ g.c.conn /\ SharedOK(g.s) /\ g.c.url \in Requests /\ g.c.remote \notin g.s.files
        /\ g.c.url.name # "save"
    BY <1>1, <1>8, <1>9, <1>13
  <2>3. g.c.chunked <=> g.c.url.name # "file"
    BY <1>6, <1>8, <1>9, Zenon
  <2>4. /\ Ended(f, all) \/ Partly(f, all)
        /\ FormOf(all.s) = FormOf(g.s) /\ all.s.aps = g.s.aps
    BY <1>9, <2>1, <2>2, <2>3, RequestDoes
  <2>5. /\ f \in Handlers /\ f.c.conn /\ f.t = g.t /\ f.s = g.s /\ f.e = g.e
        /\ f.c.url = g.c.url /\ f.c.len = g.c.len
        /\ f.c.backlog = g.c.backlog /\ f.c.framed = g.c.framed /\ SameBuffer(g, f)
    BY <1>9, <2>2, <2>3, AssignedFields
  <2> HIDE DEF f, all, rest
  <2>6. Quiet(f) /\ (Even(g) => Even(f))
    BY <1>10, <2>5 DEF Quiet, Even, Clean, SameBuffer, Takes
  <2>7. f.c.backlog = <<>> /\ f.t.waiting /\ f.c.len = 0 /\ f.c.url.name # "save"
    BY <1>2, <1>8, <1>9, <1>13, <2>1, <2>5
  <2>8. Serving(all, <<>>) /\ (Even(f) => Intact(all.c, all.t))
    BY <2>4, <2>6, <2>7, EndedServes, PartlyServes
  <2>9. all.c.cgi # "save" /\ all.e = h.e
    BY <1>9, <2>4, <2>5 DEF Ended, Partly, ReadsFile
  <2>10. Answers(h) => Answers(all)
    <3> SUFFICES ASSUME Answers(h) PROVE Answers(all)
      OBVIOUS
    <3>1. Even(f) /\ Intact(all.c, all.t)
      BY <1>10, <2>6, <2>8
    <3>2. all.s.aps = h.s.aps
      BY <1>9, <2>4
    <3> QED
      BY <2>9, <3>1, <3>2 DEF Answers, Answering, Clean
  <2>11. Keeps(h, before, all, <<>>)
    BY <1>1, <1>9, <1>11, <2>4, <2>8, <2>9, <2>10, NothingToKeep
  <2> QED
    BY <2>1, <2>11 DEF rest, all
<1> QED
  BY <1>12, <1>13

-------------------------------------------------------------------------------
(* The form.                                                               *)
LEMMA FirstFound ==
  ASSUME NEW form \in Seq(Parts), form # <<>>, IsFirst(form[1])
  PROVE  SelectInSeq(form, IsFirst) = 1
<1> DEFINE I == {i \in 1..Len(form) : IsFirst(form[i])}
<1>1. SelectInSeq(form, IsFirst) = IF I # {} THEN Min(I) ELSE 0
  BY Zenon DEF SelectInSeq
<1>2. 1 \in I /\ \A i \in I : i \in Nat /\ 1 <= i
  OBVIOUS
<1> HIDE DEF I
<1>3. Min(I) = 1
  BY <1>2 DEF Min
<1> QED
  BY <1>1, <1>2, <1>3

(* A form that is there part by part is found and saved as it was sent.    *)
LEMMA WholeForm ==
  ASSUME NEW form \in Seq(Parts), Len(form) = FormParts, NEW client,
         \A i \in 1..FormParts : form[i] = Part(client, i)
  PROVE  Exactly(DataJson(form), client)
<1> DEFINE Ends(s, n) ==
             /\ n = Len(s) \/ IsLast(s[n]) \/ IsFirst(s[n + 1])
             /\ \A m \in 1..(n - 1) : ~IsLast(s[m]) /\ ~IsFirst(s[m + 1])
           first == SelectInSeq(form, IsFirst)
           rest == SubSeq(form, first, Len(form))
           last == CHOOSE n \in 1..Len(rest) : Ends(rest, n)
<1>1. FormParts \in Nat /\ FormParts >= 1
  BY FormPartsAssumption
<1>2. \A i \in 1..FormParts : (IsFirst(form[i]) <=> i = 1) /\ (IsLast(form[i]) <=> i = FormParts)
  BY <1>1 DEF Part, IsFirst, IsLast
<1>3. first = 1
  <2>1. form # <<>> /\ IsFirst(form[1])
    BY <1>1, <1>2
  <2> HIDE DEF first
  <2> QED
    BY <2>1, FirstFound DEF first
<1>4. DataJson(form) = SubSeq(rest, 1, last)
  BY DEF DataJson
<1> HIDE DEF first, last
<1>5. rest = form
  BY <1>3
<1> HIDE DEF rest
<1>6. Ends(rest, FormParts)
  BY <1>1, <1>2, <1>5
<1>7. \A n \in 1..Len(rest) : Ends(rest, n) => n = FormParts
  <2> TAKE n \in 1..Len(rest)
  <2> SUFFICES ASSUME Ends(rest, n), n # FormParts PROVE FALSE
    OBVIOUS
  <2>1. n \in 1..FormParts /\ n + 1 \in 1..FormParts /\ n + 1 # 1
    BY <1>1, <1>5
  <2> QED
    BY <1>1, <1>2, <1>5, <2>1
<1> HIDE DEF Ends
<1>8. last = FormParts
  <2>1. \E n \in 1..Len(rest) : Ends(rest, n)
    BY <1>1, <1>5, <1>6
  <2>2. last \in 1..Len(rest) /\ Ends(rest, last)
    BY <2>1 DEF last
  <2> QED
    BY <1>7, <2>2
<1>9. DataJson(form) = form
  BY <1>1, <1>4, <1>5, <1>8
<1>10. ToSet(form) = {Part(client, k) : k \in 1..FormParts}
  BY <1>1 DEF ToSet
<1> QED
  BY <1>9, <1>10 DEF Exactly

LEMMA WhatFollows ==
  ASSUME NEW T, NEW s \in Seq(T), NEW n \in Nat
  PROVE  LET tail == SubSeq(s, n + 1, Len(s))
         IN  tail \in Seq(T) /\ Len(tail) = IF n < Len(s) THEN Len(s) - n ELSE 0
<1>1. Len(s) \in Nat
  OBVIOUS
<1>2. SubSeq(s, n + 1, Len(s)) \in Seq(T)
  OBVIOUS
<1>3. CASE n < Len(s)
  BY <1>1, <1>3
<1>4. CASE ~(n < Len(s))
  BY <1>1, <1>4
<1> QED
  BY <1>2, <1>3, <1>4

Joins(u, s, t) ==
  /\ u \in Seq(Parts) /\ Len(u) = Len(s) + Len(t)
  /\ Len(s) \in Nat /\ Len(t) \in Nat /\ Len(u) \in Nat
  /\ \A i \in 1..Len(s) : u[i] = s[i]
  /\ \A i \in 1..Len(t) : u[Len(s) + i] = t[i]

LEMMA Joined ==
  ASSUME NEW s \in Seq(Parts), NEW t \in Seq(Parts)
  PROVE  Joins(s \o t, s, t)
BY DEF Joins

(* What one call of the save CGI adds to the accumulator.                  *)
LEMMA AccumulateAdds ==
  ASSUME NEW h \in Handlers, h.s.index <= Len(h.s.form), Len(h.s.form) <= FormParts,
         h.s.index + Len(h.c.buff) <= FormParts
  PROVE  LET s == Accumulate(h).s
             end == h.s.index + Len(h.c.buff)
         IN  /\ s.index = end /\ s.form \in Seq(Parts)
             /\ end <= Len(s.form) /\ Len(s.form) <= FormParts
             /\ \A i \in 1..h.s.index : s.form[i] = h.s.form[i]
             /\ \A i \in 1..Len(h.c.buff) : s.form[h.s.index + i] = h.c.buff[i]
<1> DEFINE old == h.s.form
           index == h.s.index
           buff == h.c.buff
           end == index + Len(buff)
           before == SubSeq(old, 1, index)
           behind == SubSeq(old, end + 1, Len(old))
           form == before \o buff \o behind
           s == [h.s EXCEPT !.form = form, !.index = index + Len(buff)]
           g == Accumulate(h)
<1>1. /\ h.s \in SharedVariables /\ old \in Seq(Parts) /\ index \in Nat /\ buff \in Seq(Parts)
      /\ FormParts \in Nat
  BY HandlerFields, FormPartsAssumption DEF SharedVariables, Connections
<1>2. SubSeq(old, 1, index) \o buff \o SubSeq(old, index + Len(buff) + 1, Len(old)) = form
  BY <1>1
<1>3. g = [h EXCEPT !.s = s]
  BY <1>1, <1>2 DEF Accumulate
<1>4. end \in Nat /\ Len(old) \in Nat /\ Len(buff) \in Nat /\ end = index + Len(buff)
  BY <1>1
<1>5. before \in Seq(Parts) /\ Len(before) = index /\ \A i \in 1..index : before[i] = old[i]
  BY <1>1
<1>6. behind \in Seq(Parts) /\ Len(behind) = IF end < Len(old) THEN Len(old) - end ELSE 0
  <2> HIDE DEF end, old
  <2> QED
    BY <1>1, <1>4, WhatFollows
<1> HIDE DEF end, before, behind, old, index, buff
<1>7. /\ form \in Seq(Parts) /\ Len(form) = index + Len(buff) + Len(behind)
      /\ \A i \in 1..index : form[i] = old[i]
      /\ \A i \in 1..Len(buff) : form[index + i] = buff[i]
  <2> DEFINE left == before \o buff
  <2>1. before \in Seq(Parts) /\ buff \in Seq(Parts) /\ behind \in Seq(Parts)
    BY <1>1, <1>5, <1>6
  <2>2. Joins(left, before, buff)
    BY <2>1, Joined
  <2> HIDE DEF left
  <2>3. left \in Seq(Parts)
    BY <2>2 DEF Joins
  <2>4. Joins(form, left, behind)
    BY <2>1, <2>3, Joined DEF left
  <2> HIDE DEF form
  <2>5. /\ Len(left) = index + Len(buff) /\ Len(form) = Len(left) + Len(behind)
        /\ Len(buff) \in Nat /\ Len(behind) \in Nat /\ form \in Seq(Parts)
    BY <1>5, <2>2, <2>4 DEF Joins
  <2>6. \A i \in 1..index : form[i] = old[i]
    <3> TAKE i \in 1..index
    <3>1. i \in 1..Len(before) /\ i \in 1..Len(left)
      BY <1>1, <1>5, <2>5
    <3> QED
      BY <1>5, <2>2, <2>4, <3>1 DEF Joins
  <2>7. \A i \in 1..Len(buff) : form[index + i] = buff[i]
    <3> TAKE i \in 1..Len(buff)
    <3>1. index + i \in 1..Len(left)
      BY <1>1, <2>5
    <3>2. left[index + i] = buff[i]
      BY <1>5, <2>2 DEF Joins
    <3> QED
      BY <2>4, <3>1, <3>2 DEF Joins
  <2>8. Len(form) = index + Len(buff) + Len(behind)
    BY <1>1, <2>5
  <2> QED
    BY <2>5, <2>6, <2>7, <2>8
<1>8. end <= Len(form) /\ Len(form) <= FormParts
  <2>1. Len(form) = end + Len(behind) /\ Len(old) <= FormParts /\ end <= FormParts
    BY <1>1, <1>4, <1>7 DEF old, index, buff
  <2> HIDE DEF form
  <2>2. CASE end < Len(old)
    BY <1>1, <1>4, <1>6, <2>1, <2>2
  <2>3. CASE ~(end < Len(old))
    BY <1>1, <1>4, <1>6, <2>1, <2>3
  <2> QED
    BY <2>2, <2>3
<1> HIDE DEF form
<1>9. s.form = form /\ s.index = end
  BY <1>1, <1>4 DEF SharedVariables
<1> HIDE DEF s, g
<1>10. g.s = s
  BY <1>3 DEF Handlers
<1>11. /\ g.s.index = end /\ g.s.form \in Seq(Parts)
       /\ end <= Len(g.s.form) /\ Len(g.s.form) <= FormParts
       /\ \A i \in 1..index : g.s.form[i] = old[i]
       /\ \A i \in 1..Len(buff) : g.s.form[index + i] = buff[i]
  BY <1>7, <1>8, <1>9, <1>10
<1> QED
  BY <1>11 DEF g, end, old, index, buff

(* The POST buffer is emptied after a call.                                *)
LEMMA BuffDropped ==
  ASSUME NEW h \in Handlers
  PROVE  LET g == [h EXCEPT !.c.buff = <<>>]
         IN  /\ g \in Handlers /\ g.t = h.t /\ g.s = h.s /\ g.e = h.e
             /\ g.c.buff = <<>> /\ g.c.remote = h.c.remote /\ g.c.conn = h.c.conn
             /\ g.c.url = h.c.url /\ g.c.cgi = h.c.cgi /\ g.c.cgiData = h.c.cgiData
             /\ g.c.len = h.c.len /\ g.c.received = h.c.received
             /\ g.c.chunked = h.c.chunked /\ g.c.sendingBody = h.c.sendingBody
             /\ g.c.discon = h.c.discon /\ g.c.backlog = h.c.backlog /\ g.c.made = h.c.made
             /\ g.c.out = h.c.out /\ g.c.outLen = h.c.outLen /\ g.c.chunkHdr = h.c.chunkHdr
             /\ g.c.framed = h.c.framed
<1> DEFINE c == [h.c EXCEPT !.buff = <<>>]
           d == [h EXCEPT !.c = c]
<1>1. h.c \in Connections
  BY HandlerFields
<1>2. c \in Connections
  <2>1. \A p \in Seq(Parts) : [h.c EXCEPT !.buff = p] \in Connections
    BY <1>1 DEF Connections
  <2>2. <<>> \in Seq(Parts)
    OBVIOUS
  <2> QED
    BY <2>1, <2>2
<1>3. /\ c.buff = <<>> /\ c.remote = h.c.remote /\ c.conn = h.c.conn
      /\ c.url = h.c.url /\ c.cgi = h.c.cgi /\ c.cgiData = h.c.cgiData
      /\ c.len = h.c.len /\ c.received = h.c.received
      /\ c.chunked = h.c.chunked /\ c.sendingBody = h.c.sendingBody
      /\ c.discon = h.c.discon /\ c.backlog = h.c.backlog /\ c.made = h.c.made
      /\ c.out = h.c.out /\ c.outLen = h.c.outLen /\ c.chunkHdr = h.c.chunkHdr
      /\ c.framed = h.c.framed
  BY <1>1 DEF Connections
<1>4. [h EXCEPT !.c.buff = <<>>] = d
  OBVIOUS
<1> HIDE DEF c
<1>5. d \in Handlers /\ d.c = c /\ d.t = h.t /\ d.s = h.s /\ d.e = h.e
  BY <1>2, NewFields
<1> HIDE DEF d
<1> QED
  BY <1>3, <1>4, <1>5

(* A part of the form has just been put into the POST buffer.              *)
Loaded(h, rest) ==
  /\ Quiet(h) /\ MayCall(h)
  /\ h.c.cgi \in {"NULL", "save"} /\ h.c.url \in Requests /\ h.c.url.name = "save"
  /\ h.c.chunked /\ h.c.remote \notin h.s.files
  /\ h.c.len = FormParts /\ h.c.received <= FormParts
  /\ Handed(h.c) >= 0 /\ Len(h.c.buff) > 0
  /\ h.c.cgi = "NULL" => Handed(h.c) = 0
  /\ \E k \in h.c.received..FormParts : rest = FormFrom(h.c.remote, k)
  /\ InStep(h.c, rest) =>
       \A i \in 1..Len(h.c.buff) : h.c.buff[i] = Part(h.c.remote, Handed(h.c) + i)
  /\ ~h.c.sendingBody /\ ~h.c.discon /\ h.c.backlog = <<>> /\ h.t.waiting

LEMMA PartLoads ==
  ASSUME NEW h, Sound(h), h.c.len > 0, NEW before, before # <<>>, Serving(h, before)
  PROVE  LET part == Head(before).part
             g == [h EXCEPT !.c.buff = Append(@, part), !.c.received = @ + 1]
         IN  /\ Head(before).kind = "form"
             /\ Loaded(g, Tail(before))
             /\ g.t = h.t /\ g.s = h.s /\ g.e = h.e
             /\ g.c.cgi = h.c.cgi /\ g.c.remote = h.c.remote /\ g.c.made = h.c.made
             /\ Handed(g.c) = Handed(h.c)
             /\ InStep(g.c, Tail(before)) => InStep(h.c, before)
<1> DEFINE rest == Tail(before)
           part == Head(before).part
           buff == Append(h.c.buff, part)
           received == h.c.received + 1
           c == [h.c EXCEPT !.buff = buff, !.received = received]
           g == [h EXCEPT !.c = c]
<1>1. /\ h \in Handlers /\ h.c \in Connections /\ h.c.conn /\ SharedOK(h.s)
      /\ h.c.remote \in h.s.files <=> ReadsFile(h.c)
      /\ h.c.url.name = "save" /\ h.c.chunked /\ ItsCgi(h.c)
  BY HandlerFields DEF Sound, Orderly, AtRest
<1>2. /\ Quiet(h) /\ Uploading(h.c, before) /\ ~h.c.sendingBody /\ ~h.c.discon
      /\ h.t.waiting /\ h.c.backlog = <<>>
  BY <1>1 DEF Serving, Exchange, Connections
<1>3. /\ h.c.remote \in Clients /\ h.c.received \in Nat /\ h.c.buff \in Seq(Parts)
      /\ FormParts \in Nat /\ Len(h.c.buff) \in Nat /\ h.c.url \in Requests
  <2>1. h.c.url \in Requests
    BY <1>1 DEF Connections, NoUrl
  <2> QED
    BY <1>1, <2>1, FormPartsAssumption DEF Connections
<1>4. PICK k \in h.c.received..FormParts : before = FormFrom(h.c.remote, k)
  BY <1>2 DEF Uploading
<1>5. /\ k \in 0..FormParts /\ k # FormParts /\ k + 1 \in 0..FormParts
      /\ Head(before) = [kind |-> "form", part |-> Part(h.c.remote, k + 1)]
      /\ rest = FormFrom(h.c.remote, k + 1)
  <2>1. k \in 0..FormParts
    BY <1>3, <1>4
  <2> QED
    BY <1>4, <2>1, FormArrives
<1>6. part = Part(h.c.remote, k + 1) /\ Head(before).kind = "form" /\ part \in Parts
  <2>1. k + 1 \in 1..FormParts
    BY <1>3, <1>5
  <2>2. part = Part(h.c.remote, k + 1) /\ Head(before).kind = "form"
    BY <1>5
  <2> HIDE DEF part
  <2> QED
    BY <1>3, <2>1, <2>2 DEF Part, Parts
<1>7. /\ buff \in Seq(Parts) /\ received \in Nat /\ Len(buff) = Len(h.c.buff) + 1
      /\ \A i \in 1..Len(h.c.buff) : buff[i] = h.c.buff[i]
      /\ buff[Len(h.c.buff) + 1] = part
  <2> HIDE DEF part
  <2> QED
    BY <1>3, <1>6
<1>8. [h EXCEPT !.c.buff = Append(@, part), !.c.received = @ + 1] = g
  OBVIOUS
<1>9. received = h.c.received + 1
  OBVIOUS
<1> HIDE DEF rest, part, buff, received
<1>10. /\ c \in Connections /\ c.buff = buff /\ c.received = received
       /\ c.remote = h.c.remote /\ c.conn = h.c.conn /\ c.url = h.c.url
       /\ c.cgi = h.c.cgi /\ c.cgiData = h.c.cgiData /\ c.len = h.c.len
       /\ c.chunked = h.c.chunked /\ c.discon = h.c.discon /\ c.sendingBody = h.c.sendingBody
       /\ c.backlog = h.c.backlog /\ c.outLen = h.c.outLen /\ c.out = h.c.out
       /\ c.made = h.c.made /\ c.framed = h.c.framed /\ c.chunkHdr = h.c.chunkHdr
  BY <1>1, <1>7 DEF Connections
<1> HIDE DEF c
<1>11. g \in Handlers /\ g.c = c /\ g.t = h.t /\ g.s = h.s /\ g.e = h.e
  BY <1>1, <1>10, NewFields
<1> HIDE DEF g
<1>12. h.c.cgi \in {"NULL", "save"}
  <2>1. CgiNames(h.c.url) = "save"
    BY <1>1 DEF CgiNames
  <2>2. h.c.cgi # "NULL" => h.c.cgi = CgiNames(h.c.url)
    BY <1>1 DEF ItsCgi
  <2> QED
    BY <2>1, <2>2
<1>13. Quiet(g) /\ MayCall(g) /\ g.c.remote \notin g.s.files
  <2>1. Quiet(g)
    BY <1>2, <1>10, <1>11 DEF Quiet, Takes
  <2>2. ~ReadsFile(h.c) /\ ~ReadsFile(g.c)
    BY <1>10, <1>11, <1>12 DEF ReadsFile
  <2>3. ItsCgi(g.c)
    BY <1>1, <1>10, <1>11 DEF ItsCgi
  <2> QED
    BY <1>1, <1>10, <1>11, <2>1, <2>2, <2>3 DEF MayCall
<1>14. Handed(g.c) = Handed(h.c)
  <2>1. g.c.received = h.c.received + 1 /\ Len(g.c.buff) = Len(h.c.buff) + 1
    BY <1>7, <1>9, <1>10, <1>11
  <2>2. ASSUME NEW m \in Nat, NEW n \in Nat PROVE (m + 1) - (n + 1) = m - n
    OBVIOUS
  <2> QED
    BY <1>3, <2>1, <2>2 DEF Handed
<1>15. g.c.received \in Nat /\ g.c.received <= FormParts /\ k + 1 \in g.c.received..FormParts
  BY <1>3, <1>4, <1>5, <1>9, <1>10, <1>11
<1>16. ASSUME InStep(g.c, rest)
       PROVE  /\ InStep(h.c, before)
              /\ \A i \in 1..Len(g.c.buff) : g.c.buff[i] = Part(g.c.remote, Handed(g.c) + i)
  <2>1. FormFrom(h.c.remote, k + 1) = FormFrom(h.c.remote, g.c.received)
    BY <1>5, <1>10, <1>11, <1>16 DEF InStep
  <2>2. g.c.received \in 0..FormParts
    BY <1>15, <1>3
  <2>3. /\ Len(FormFrom(h.c.remote, k + 1)) = FormParts - (k + 1)
        /\ Len(FormFrom(h.c.remote, g.c.received)) = FormParts - g.c.received
    BY <1>5, <2>2, FormArrives
  <2>4. FormParts - (k + 1) = FormParts - g.c.received
    BY <2>1, <2>3
  <2>5. k = h.c.received
    BY <1>3, <1>4, <1>9, <1>10, <1>11, <2>2, <2>4
  <2>6. InStep(h.c, before)
    BY <1>4, <2>5 DEF InStep
  <2>7. \A i \in 1..Len(h.c.buff) : h.c.buff[i] = Part(h.c.remote, Handed(h.c) + i)
    BY <1>2, <2>6 DEF Uploading
  <2>8. Handed(h.c) + (Len(h.c.buff) + 1) = k + 1
    BY <1>3, <2>5 DEF Handed
  <2>9. ASSUME NEW i \in 1..Len(buff) PROVE buff[i] = Part(h.c.remote, Handed(h.c) + i)
    <3>1. CASE i = Len(h.c.buff) + 1
      <4>1. buff[i] = Part(h.c.remote, k + 1)
        BY <1>6, <1>7, <3>1
      <4> QED
        BY <2>8, <3>1, <4>1
    <3>2. CASE i # Len(h.c.buff) + 1
      <4>1. i \in 1..Len(h.c.buff)
        BY <1>3, <1>7, <3>2
      <4> QED
        BY <1>7, <2>7, <4>1
    <3> QED
      BY <3>1, <3>2
  <2> QED
    BY <1>10, <1>11, <1>14, <2>6, <2>9
<1>17. /\ Handed(g.c) >= 0 /\ (g.c.cgi = "NULL" => Handed(g.c) = 0)
       /\ g.c.len = FormParts
  BY <1>2, <1>10, <1>11, <1>14 DEF Uploading
<1>18. Len(g.c.buff) > 0
  BY <1>3, <1>7, <1>10, <1>11
<1>19. /\ g.c.url \in Requests /\ g.c.url.name = "save" /\ g.c.chunked
       /\ ~g.c.sendingBody /\ ~g.c.discon /\ g.c.backlog = <<>> /\ g.t.waiting
       /\ g.c.cgi = h.c.cgi /\ g.c.remote = h.c.remote /\ g.c.made = h.c.made
  BY <1>1, <1>2, <1>3, <1>10, <1>11
<1>20. Loaded(g, rest)
  BY <1>5, <1>12, <1>13, <1>15, <1>16, <1>17, <1>18, <1>19 DEF Loaded
<1> QED
  BY <1>6, <1>8, <1>11, <1>14, <1>16, <1>19, <1>20 DEF rest, part

(* Whoever has the form in the accumulator up to here has it with the next *)
(* call.                                                                   *)
Accumulating(h, rest) ==
  /\ h.s.savedExactly
  /\ Len(h.s.form) <= FormParts
  /\ h.s.index = Handed(h.c)
  /\ InStep(h.c, rest) => \A i \in 1..h.s.index : h.s.form[i] = Part(h.c.remote, i)

LEMMA AloneAccumulates ==
  ASSUME NEW h, NEW rest, Loaded(h, rest), Accumulating(h, rest)
  PROVE  LET s == Accumulate(h).s
         IN  /\ s.index = h.c.received /\ s.index > 0 /\ s.form \in Seq(Parts)
             /\ s.index <= Len(s.form) /\ Len(s.form) <= FormParts
             /\ InStep(h.c, rest) => \A i \in 1..s.index : s.form[i] = Part(h.c.remote, i)
<1> DEFINE s == Accumulate(h).s
           index == h.s.index
           buff == h.c.buff
<1>1. /\ h \in Handlers /\ index \in Nat /\ Len(buff) \in Nat /\ h.c.received \in Nat
      /\ index <= Len(h.s.form) /\ Len(h.s.form) <= FormParts
  BY HandlerFields DEF Loaded, MayCall, SharedOK, SharedVariables, Connections, Accumulating
<1>2. index + Len(buff) = h.c.received /\ h.c.received <= FormParts /\ Len(buff) > 0
  BY <1>1 DEF Accumulating, Handed, Loaded
<1>3. /\ s.index = index + Len(buff) /\ s.form \in Seq(Parts)
      /\ index + Len(buff) <= Len(s.form) /\ Len(s.form) <= FormParts
      /\ \A i \in 1..index : s.form[i] = h.s.form[i]
      /\ \A i \in 1..Len(buff) : s.form[index + i] = buff[i]
  BY <1>1, <1>2, AccumulateAdds
<1> HIDE DEF s
<1>4. ASSUME InStep(h.c, rest), NEW i \in 1..s.index
      PROVE  s.form[i] = Part(h.c.remote, i)
  <2>1. CASE i <= index
    BY <1>1, <1>3, <1>4, <2>1 DEF Accumulating
  <2>2. CASE ~(i <= index)
    <3>1. i - index \in 1..Len(buff) /\ index + (i - index) = i
      BY <1>1, <1>3, <2>2
    <3>2. buff[i - index] = Part(h.c.remote, Handed(h.c) + (i - index))
      BY <1>4, <3>1 DEF Loaded
    <3>3. Handed(h.c) + (i - index) = i
      BY <3>1 DEF Accumulating
    <3>4. s.form[index + (i - index)] = buff[i - index]
      BY <1>3, <3>1
    <3> QED
      BY <3>1, <3>2, <3>3, <3>4
  <2> QED
    BY <2>1, <2>2
<1>5. s.index = h.c.received /\ s.index > 0 /\ s.index <= Len(s.form)
  BY <1>1, <1>2, <1>3
<1> QED
  BY <1>3, <1>4, <1>5 DEF s

LEMMA AnswersEven ==
  ASSUME NEW h, Answers(h), h.c.backlog = <<>>
  PROVE  Even(h)
BY DEF Answers, Answering, Intact, Even

(* The save CGI is the one of a form, whether it is called for the first   *)
(* time or again.                                                          *)
LEMMA SaveAssigned ==
  ASSUME NEW g, NEW rest, Loaded(g, rest)
  PROVE  LET f == IF g.c.cgi # "NULL" THEN g ELSE Assigned(g)
         IN  /\ Loaded(f, rest) /\ f.c.cgi = "save" /\ SendsItsFile(f.c)
             /\ f.t = g.t /\ f.s = g.s /\ f.e = g.e
             /\ f.c.received = g.c.received /\ f.c.len = g.c.len
             /\ Answers(g) => Answers(f)
             /\ Accumulating(g, rest) => Accumulating(f, rest)
<1> DEFINE f == IF g.c.cgi # "NULL" THEN g ELSE Assigned(g)
<1>1. CASE g.c.cgi # "NULL"
  <2>1. f = g /\ g.c.cgi = "save"
    BY <1>1 DEF Loaded
  <2>2. SendsItsFile(g.c)
    BY <2>1 DEF SendsItsFile, ReadsFile
  <2> HIDE DEF f
  <2>3. /\ Loaded(f, rest) /\ f.c.cgi = "save" /\ SendsItsFile(f.c)
        /\ f.t = g.t /\ f.s = g.s /\ f.e = g.e
        /\ f.c.received = g.c.received /\ f.c.len = g.c.len
        /\ Answers(g) => Answers(f)
        /\ Accumulating(g, rest) => Accumulating(f, rest)
    BY <2>1, <2>2
  <2> QED
    BY <2>3 DEF f
<1>2. CASE g.c.cgi = "NULL"
  <2>1. f = Assigned(g)
    BY <1>2
  <2>2. /\ g \in Handlers /\ g.c.conn /\ SharedOK(g.s) /\ g.c.url \in Requests
        /\ g.c.remote \notin g.s.files /\ g.c.url.name = "save" /\ g.c.chunked
    BY DEF Loaded, MayCall, Quiet
  <2>3. g.c.chunked <=> g.c.url.name # "file"
    BY <2>2
  <2> HIDE DEF f
  <2>4. /\ f \in Handlers /\ MayCall(f) /\ SendsItsFile(f.c) /\ f.c.conn
        /\ f.t = g.t /\ f.s = g.s /\ f.e = g.e
        /\ f.c.remote = g.c.remote /\ f.c.url = g.c.url /\ f.c.len = g.c.len
        /\ f.c.chunked = g.c.chunked /\ f.c.discon = g.c.discon
        /\ f.c.backlog = g.c.backlog /\ f.c.received = g.c.received /\ f.c.buff = g.c.buff
        /\ f.c.framed = g.c.framed /\ SameBuffer(g, f)
        /\ f.c.cgi = "save" <=> g.c.url.name = "save"
    BY <2>1, <2>2, <2>3, AssignedFields
  <2>5. f.c.cgi = "save"
    BY <2>2, <2>4
  <2>6. Quiet(f)
    BY <2>4 DEF Loaded, Quiet, SameBuffer, Takes
  <2>7. Handed(f.c) = Handed(g.c) /\ (InStep(f.c, rest) <=> InStep(g.c, rest))
    BY <2>4 DEF Handed, InStep
  <2>8. Loaded(f, rest)
    <3>1. \E k \in f.c.received..FormParts : rest = FormFrom(f.c.remote, k)
      BY <2>4 DEF Loaded
    <3>2. InStep(f.c, rest) =>
            \A i \in 1..Len(f.c.buff) : f.c.buff[i] = Part(f.c.remote, Handed(f.c) + i)
      BY <2>4, <2>7 DEF Loaded
    <3> QED
      BY <2>4, <2>5, <2>6, <2>7, <3>1, <3>2 DEF Loaded, SameBuffer
  <2>9. Answers(g) => Answers(f)
    BY <2>4 DEF Answers, Clean, Answering, Intact, SameBuffer
  <2>10. Accumulating(g, rest) => Accumulating(f, rest)
    BY <2>4, <2>7 DEF Accumulating
  <2> QED
    BY <2>4, <2>5, <2>8, <2>9, <2>10 DEF f
<1> QED
  BY <1>1, <1>2

(* The form goes on.                                                       *)
LEMMA MiddleKeeps ==
  ASSUME NEW f, NEW rest, Loaded(f, rest), f.c.cgi = "save", SendsItsFile(f.c),
         f.c.received # f.c.len,
         NEW handled, handled = Cgi(f).h \/ handled = FlushSendBuffer(Cgi(f).h)
  PROVE  LET g == [handled EXCEPT !.c.buff = <<>>]
         IN  /\ Cgi(f).r = "MORE" /\ Serving(g, rest) /\ g.c.cgi = "save"
             /\ Answers(f) => Answers(g)
             /\ g.s.index > f.s.index
             /\ Accumulating(f, rest) => Alone(g, rest)
<1> DEFINE called == Cgi(f)
           s == Accumulate(f).s
           g == [handled EXCEPT !.c.buff = <<>>]
<1>1. /\ Quiet(f) /\ MayCall(f) /\ f \in Handlers /\ f.c.conn /\ f.c.len = FormParts
      /\ f.c.received <= FormParts /\ Handed(f.c) >= 0 /\ f.t.waiting
      /\ ~f.c.sendingBody /\ ~f.c.discon /\ f.c.backlog = <<>>
  BY DEF Loaded, Quiet
<1>2. /\ f.s \in SharedVariables /\ f.s.index \in Nat /\ Len(f.c.buff) \in Nat
      /\ f.c.received \in Nat /\ FormParts \in Nat \ {0} /\ Len(f.c.buff) > 0
  BY <1>1, HandlerFields, FormPartsAssumption DEF SharedVariables, Connections, Loaded
<1>3. called = CgiSaveConfig(f)
  BY DEF Cgi
<1>4. /\ called.r = "MORE" /\ called.h.c = f.c /\ FormOf(called.h.s) = FormOf(s)
      /\ Fulfils(f, called) /\ s.savedExactly = f.s.savedExactly
  BY <1>1, <1>3, SaveFulfils
<1>5. /\ called.h \in Handlers /\ called.h.t = f.t /\ called.h.e = f.e
      /\ called.h.s.aps = f.s.aps
  BY <1>4 DEF Fulfils, Leaves
<1>6. s.index = f.s.index + Len(f.c.buff)
  <2> DEFINE form == SubSeq(f.s.form, 1, f.s.index) \o f.c.buff
                     \o SubSeq(f.s.form, f.s.index + Len(f.c.buff) + 1, Len(f.s.form))
             index == f.s.index + Len(f.c.buff)
             t == [f.s EXCEPT !.form = form, !.index = index]
  <2>1. Accumulate(f) = [f EXCEPT !.s = t]
    BY <1>1 DEF Accumulate
  <2> HIDE DEF form, index
  <2>2. t.index = index
    BY <1>2 DEF SharedVariables
  <2> HIDE DEF t
  <2>3. s = t
    BY <1>1, <2>1 DEF Handlers
  <2> QED
    BY <2>2, <2>3 DEF index
<1> HIDE DEF called, s
<1>7. /\ Quiet(called.h) /\ ~EndsAnswer(called.h)
  BY <1>1, <1>4, <1>5 DEF Quiet, Takes, EndsAnswer
<1>8. /\ Quiet(handled) /\ handled.t = f.t /\ handled.e = f.e /\ handled.s = called.h.s
      /\ SameRequest(f.c, handled.c) /\ handled.c.backlog = <<>>
      /\ handled.c.sendingBody = f.c.sendingBody /\ handled.c.made = f.c.made
  <2>1. CASE handled = called.h
    BY <1>1, <1>4, <1>5, <1>7, <2>1 DEF SameRequest
  <2>2. CASE handled = FlushSendBuffer(called.h)
    <3>1. /\ Flushes(called.h, handled) /\ handled.t = called.h.t
          /\ handled.c.backlog = called.h.c.backlog /\ handled.c.made = called.h.c.made
      BY <1>7, <2>2, QuietFlush
    <3>2. /\ Quiet(handled) /\ handled.s = called.h.s /\ handled.e = called.h.e
          /\ SameRequest(called.h.c, handled.c)
          /\ handled.c.sendingBody = called.h.c.sendingBody
      BY <3>1 DEF Flushes
    <3> QED
      BY <1>1, <1>4, <1>5, <3>1, <3>2
  <2> QED
    BY <2>1, <2>2 DEF called
<1>9. /\ g \in Handlers /\ g.t = f.t /\ g.s = called.h.s /\ g.e = f.e
      /\ g.c.buff = <<>> /\ g.c.remote = f.c.remote /\ g.c.conn
      /\ g.c.url = f.c.url /\ g.c.cgi = "save" /\ g.c.cgiData = f.c.cgiData
      /\ g.c.len = FormParts /\ g.c.received = f.c.received
      /\ g.c.chunked = f.c.chunked /\ ~g.c.sendingBody
      /\ ~g.c.discon /\ g.c.backlog = <<>> /\ g.c.made = f.c.made /\ Quiet(g)
  <2>1. handled \in Handlers
    BY <1>8 DEF Quiet
  <2>2. /\ g \in Handlers /\ g.t = handled.t /\ g.s = handled.s /\ g.e = handled.e
        /\ g.c.buff = <<>> /\ g.c.remote = handled.c.remote /\ g.c.conn = handled.c.conn
        /\ g.c.url = handled.c.url /\ g.c.cgi = handled.c.cgi /\ g.c.cgiData = handled.c.cgiData
        /\ g.c.len = handled.c.len /\ g.c.received = handled.c.received
        /\ g.c.chunked = handled.c.chunked /\ g.c.sendingBody = handled.c.sendingBody
        /\ g.c.discon = handled.c.discon /\ g.c.backlog = handled.c.backlog
        /\ g.c.made = handled.c.made
        /\ g.c.out = handled.c.out /\ g.c.outLen = handled.c.outLen
        /\ g.c.chunkHdr = handled.c.chunkHdr /\ g.c.framed = handled.c.framed
    BY <2>1, BuffDropped
  <2> HIDE DEF g
  <2>3. Quiet(g)
    BY <1>8, <2>2 DEF Quiet, Takes
  <2> QED
    BY <1>1, <1>8, <2>2, <2>3 DEF SameRequest
<1> HIDE DEF g
<1>10. Handed(g.c) = g.c.received
  BY <1>2, <1>9 DEF Handed
<1>11. InStep(g.c, rest) <=> InStep(f.c, rest)
  BY <1>9 DEF InStep
<1>12. Uploading(g.c, rest)
  <2>1. \E k \in g.c.received..FormParts : rest = FormFrom(g.c.remote, k)
    BY <1>9 DEF Loaded
  <2>2. g.c.received < FormParts /\ Handed(g.c) >= 0 /\ Len(g.c.buff) = 0
    BY <1>1, <1>2, <1>9, <1>10
  <2>3. \A i \in 1..Len(g.c.buff) : g.c.buff[i] = Part(g.c.remote, Handed(g.c) + i)
    BY <2>2
  <2> QED
    BY <1>9, <2>1, <2>2, <2>3 DEF Uploading
<1>13. Serving(g, rest)
  <2>1. g.c.len > 0 /\ g.c.len # -1
    BY <1>2, <1>9
  <2>2. SendsItsFile(g.c)
    BY <1>9 DEF SendsItsFile, ReadsFile
  <2> QED
    BY <1>1, <1>9, <1>12, <2>1, <2>2 DEF Serving, Exchange
<1>14. Answers(f) => Answers(g)
  BY <1>1, <1>2, <1>5, <1>9 DEF Answers, Clean, Answering, Intact
<1>15. g.s.index = s.index /\ g.s.form = s.form /\ g.s.savedExactly = s.savedExactly
  BY <1>4, <1>9 DEF FormOf
<1>16. g.s.index > f.s.index
  BY <1>2, <1>6, <1>15
<1>17. ASSUME Accumulating(f, rest) PROVE Alone(g, rest)
  <2>1. /\ s.index = f.c.received /\ s.index > 0 /\ Len(s.form) <= FormParts
        /\ InStep(f.c, rest) => \A i \in 1..s.index : s.form[i] = Part(f.c.remote, i)
    BY <1>17, AloneAccumulates DEF s
  <2>2. s.savedExactly
    BY <1>4, <1>17 DEF Accumulating
  <2> QED
    BY <1>9, <1>10, <1>11, <1>15, <2>1, <2>2 DEF Alone
<1> QED
  BY <1>4, <1>9, <1>13, <1>14, <1>16, <1>17 DEF called, g

(* The form is complete.                                                   *)
LEMMA LastKeeps ==
  ASSUME NEW f, NEW rest, Loaded(f, rest), f.c.cgi = "save", SendsItsFile(f.c),
         f.c.received = f.c.len
  PROVE  LET g == [Finish(Cgi(f)) EXCEPT !.c.buff = <<>>]
         IN  /\ Cgi(f).r = "DONE" /\ rest = <<>> /\ Serving(g, <<>>) /\ g.c.cgi = "NULL"
             /\ Answers(f) => Answers(g)
             /\ g.s.index = 0
             /\ Accumulating(f, rest) => Alone(g, <<>>)
<1> DEFINE called == Cgi(f)
           s == Accumulate(f).s
           handled == Finish(called)
           g == [handled EXCEPT !.c.buff = <<>>]
<1>1. /\ Quiet(f) /\ MayCall(f) /\ f \in Handlers /\ f.c.conn /\ f.c.len = FormParts
      /\ f.c.chunked /\ f.t.waiting /\ f.c.backlog = <<>> /\ FormParts \in Nat \ {0}
  BY FormPartsAssumption DEF Loaded, Quiet
<1>2. called = CgiSaveConfig(f)
  BY DEF Cgi
<1>3. /\ called.r = "DONE" /\ called.h.s.form = s.form /\ called.h.s.index = 0
      /\ called.h.s.savedExactly \in {f.s.savedExactly,
                                      Exactly(DataJson(called.h.s.form), f.c.remote)}
      /\ Fulfils(f, called)
  BY <1>1, <1>2, SaveFulfils
<1>4. Ended(f, handled) /\ handled.s = called.h.s
  BY <1>1, <1>3, CallDoes
<1>5. rest = <<>> /\ InStep(f.c, rest)
  <2>1. PICK k \in f.c.received..FormParts : rest = FormFrom(f.c.remote, k)
    BY DEF Loaded
  <2>2. k = FormParts /\ FormParts \in 0..FormParts
    BY <1>1, <2>1
  <2>3. FormFrom(f.c.remote, FormParts) = <<>>
    BY <2>2, FormArrives
  <2> QED
    BY <1>1, <2>1, <2>2, <2>3 DEF InStep
<1> HIDE DEF called, s, handled
<1>6. Serving(handled, <<>>) /\ (Even(f) => Intact(handled.c, handled.t))
  BY <1>1, <1>4, EndedServes
<1>7. /\ Quiet(handled) /\ handled \in Handlers /\ handled.e = f.e /\ handled.c.cgi = "NULL"
      /\ handled.c.len = -1 /\ handled.c.buff = <<>>
  BY <1>4 DEF Ended, Quiet
<1>8. /\ g \in Handlers /\ g.t = handled.t /\ g.s = handled.s /\ g.e = handled.e
      /\ g.c.buff = <<>> /\ g.c.remote = handled.c.remote /\ g.c.conn = handled.c.conn
      /\ g.c.url = handled.c.url /\ g.c.cgi = handled.c.cgi /\ g.c.cgiData = handled.c.cgiData
      /\ g.c.len = handled.c.len /\ g.c.received = handled.c.received
      /\ g.c.chunked = handled.c.chunked /\ g.c.sendingBody = handled.c.sendingBody
      /\ g.c.discon = handled.c.discon /\ g.c.backlog = handled.c.backlog
      /\ g.c.made = handled.c.made
      /\ g.c.out = handled.c.out /\ g.c.outLen = handled.c.outLen
      /\ g.c.chunkHdr = handled.c.chunkHdr /\ g.c.framed = handled.c.framed
  BY <1>7, BuffDropped
<1> HIDE DEF g
<1>9. Serving(g, <<>>)
  <2>1. Quiet(g)
    BY <1>7, <1>8 DEF Quiet, Takes
  <2>2. Exchange(g.c, g.t, <<>>)
    BY <1>6, <1>7, <1>8 DEF Serving, Exchange, SendsItsFile, ReadsFile
  <2> QED
    BY <2>1, <2>2 DEF Serving
<1>10. Answers(f) => Answers(g)
  <2> SUFFICES ASSUME Answers(f) PROVE Answers(g)
    OBVIOUS
  <2>1. Intact(handled.c, handled.t)
    BY <1>1, <1>6, AnswersEven
  <2>2. Intact(g.c, g.t)
    BY <1>8, <2>1 DEF Intact
  <2>3. g.s.aps = f.s.aps
    BY <1>3, <1>4, <1>8 DEF Fulfils
  <2> QED
    BY <1>7, <1>8, <2>2, <2>3 DEF Answers, Answering, Clean
<1>11. g.s.index = 0 /\ g.s.form = s.form /\ g.s.savedExactly = called.h.s.savedExactly
  BY <1>3, <1>4, <1>8
<1>12. ASSUME Accumulating(f, rest) PROVE Alone(g, <<>>)
  <2>1. /\ s.index = f.c.received /\ s.form \in Seq(Parts)
        /\ s.index <= Len(s.form) /\ Len(s.form) <= FormParts
        /\ \A i \in 1..s.index : s.form[i] = Part(f.c.remote, i)
    BY <1>5, <1>12, AloneAccumulates DEF s
  <2>2. Len(s.form) = FormParts /\ \A i \in 1..FormParts : s.form[i] = Part(f.c.remote, i)
    <3>1. Len(s.form) \in Nat /\ s.index = FormParts
      BY <1>1, <2>1
    <3> QED
      BY <1>1, <2>1, <3>1
  <2>3. Exactly(DataJson(s.form), f.c.remote)
    BY <2>1, <2>2, WholeForm
  <2>4. g.s.savedExactly
    BY <1>3, <1>11, <1>12, <2>3 DEF Accumulating
  <2> QED
    BY <1>7, <1>8, <1>11, <2>1, <2>4 DEF Alone
<1> QED
  BY <1>3, <1>5, <1>7, <1>8, <1>9, <1>10, <1>11, <1>12 DEF called, handled, g

(* httpdRecvCb() with a part of a form.                                    *)
LEMMA FormKeeps ==
  ASSUME NEW h, Sound(h), h.c.len > 0, NEW before, before # <<>>, Serving(h, before)
  PROVE  Keeps(h, before, Received(h, Head(before)), Tail(before))
<1> DEFINE rest == Tail(before)
           g == [h EXCEPT !.c.buff = Append(@, Head(before).part), !.c.received = @ + 1]
           f == IF g.c.cgi # "NULL" THEN g ELSE Assigned(g)
           all == Received(h, Head(before))
<1>1. /\ Head(before).kind = "form"
      /\ Loaded(g, rest)
      /\ g.t = h.t /\ g.s = h.s /\ g.e = h.e
      /\ g.c.cgi = h.c.cgi /\ g.c.remote = h.c.remote /\ g.c.made = h.c.made
      /\ Handed(g.c) = Handed(h.c)
      /\ InStep(g.c, rest) => InStep(h.c, before)
  BY PartLoads
<1>2. all = FormChunk(g)
  BY <1>1 DEF Received
<1>3. h.c.backlog = <<>> /\ h.c.len \in Nat /\ h.c.len # 0 /\ h.s.index \in Nat
      /\ h.s \in SharedVariables
  BY HandlerFields DEF Serving, Exchange, Quiet, Connections, SharedVariables
<1> HIDE DEF g, rest, all
<1>4. /\ Quiet(g) /\ g \in Handlers /\ g.c.len = FormParts /\ FormParts \in Nat \ {0}
      /\ g.c.received \in Nat /\ g.c.received <= FormParts /\ g.c.backlog = <<>>
      /\ g.c.cgi \in {"NULL", "save"} /\ ~g.c.sendingBody /\ ~g.c.discon /\ g.t.waiting
      /\ Handed(g.c) >= 0 /\ (g.c.cgi = "NULL" => Handed(g.c) = 0)
  BY <1>1, HandlerFields, FormPartsAssumption DEF Loaded, MayCall, Connections
<1>5. Answers(h) => Answers(g)
  BY <1>1, <1>3, <1>4 DEF Answers, Clean, Answering, Intact
<1>6. Alone(h, before) => Accumulating(g, rest)
  BY <1>1, <1>4 DEF Alone, Accumulating
<1>7. CASE Len(g.c.buff) < g.c.buffSize /\ g.c.received # g.c.len
  <2>1. all = g
    BY <1>2, <1>7 DEF FormChunk
  <2>2. Uploading(g.c, rest)
    <3>1. g.c.received < FormParts
      BY <1>4, <1>7
    <3> QED
      BY <1>1, <1>4, <3>1 DEF Uploading, Loaded
  <2>3. Serving(g, rest)
    <3>1. SendsItsFile(g.c)
      BY <1>4 DEF SendsItsFile, ReadsFile
    <3>2. g.c.len > 0 /\ g.c.len # -1
      BY <1>4
    <3> QED
      BY <1>4, <2>2, <3>1, <3>2 DEF Serving, Exchange
  <2>4. Alone(h, before) => Alone(g, rest)
    BY <1>1, <1>6 DEF Alone, Accumulating
  <2>5. \A s \in SharedVariables : s.index > 0 /\ Apart(h, before, s) => Apart(g, rest, s)
    BY <1>1 DEF Apart
  <2> QED
    BY <1>5, <2>1, <2>3, <2>4, <2>5 DEF Keeps, all, rest
<1>8. CASE ~(Len(g.c.buff) < g.c.buffSize /\ g.c.received # g.c.len)
  <2> DEFINE handled == IF g.c.cgi # "NULL" THEN Finish(Cgi(g)) ELSE ProcessRequest(g)
  <2>1. all = [handled EXCEPT !.c.buff = <<>>]
    BY <1>2, <1>8 DEF FormChunk
  <2>2. /\ Loaded(f, rest) /\ f.c.cgi = "save" /\ SendsItsFile(f.c)
        /\ f.t = g.t /\ f.s = g.s /\ f.e = g.e
        /\ f.c.received = g.c.received /\ f.c.len = g.c.len
        /\ Answers(g) => Answers(f)
        /\ Accumulating(g, rest) => Accumulating(f, rest)
    BY <1>1, SaveAssigned
  <2>3. handled = IF g.c.cgi = "NULL" /\ Cgi(f).r = "MORE" THEN FlushSendBuffer(Cgi(f).h)
                                                          ELSE Finish(Cgi(f))
    <3>1. CASE g.c.cgi = "NULL"
      <4>1. f = [g EXCEPT !.c.cgi = CgiNames(g.c.url), !.c.cgiData = NoData]
        BY <3>1 DEF Assigned
      <4> HIDE DEF f
      <4> QED
        BY <3>1, <4>1 DEF ProcessRequest
    <3>2. CASE g.c.cgi # "NULL"
      BY <3>2
    <3> QED
      BY <3>1, <3>2
  <2> HIDE DEF f, handled
  <2>4. CASE f.c.received # f.c.len
    <3>1. handled = Cgi(f).h \/ handled = FlushSendBuffer(Cgi(f).h)
      <4>1. Cgi(f).r = "MORE"
        BY <2>2, <2>4, MiddleKeeps
      <4>2. Finish(Cgi(f)) = Cgi(f).h
        BY <4>1 DEF Finish
      <4> QED
        BY <2>3, <4>2
    <3>2. /\ Serving(all, rest) /\ all.c.cgi = "save"
          /\ Answers(f) => Answers(all)
          /\ all.s.index > f.s.index
          /\ Accumulating(f, rest) => Alone(all, rest)
      BY <2>1, <2>2, <2>4, <3>1, MiddleKeeps
    <3>3. all.s.index \in Nat
      BY <3>2, HandlerFields DEF Serving, Quiet, SharedVariables
    <3>4. ASSUME NEW s \in SharedVariables, s.index > 0, Apart(h, before, s)
          PROVE  Apart(all, rest, s)
      <4>1. s.index \in Nat /\ h.s.index >= s.index
        <5>1. CASE FormOf(h.s) = FormOf(s)
          <6>1. h.s.index = s.index
            BY <5>1 DEF FormOf
          <6> QED
            BY <1>3, <6>1
        <5>2. CASE h.s.index > s.index
          BY <1>3, <5>2 DEF SharedVariables
        <5> QED
          BY <3>4, <5>1, <5>2 DEF Apart
      <4>2. all.s.index > s.index
        BY <1>1, <1>3, <2>2, <3>2, <3>3, <4>1
      <4> QED
        BY <4>2 DEF Apart
    <3>5. (Answers(h) => Answers(all)) /\ (Alone(h, before) => Alone(all, rest))
      BY <1>5, <1>6, <2>2, <3>2
    <3>6. Keeps(h, before, all, rest)
      BY <3>2, <3>4, <3>5 DEF Keeps
    <3> QED
      BY <3>6 DEF all, rest
  <2>5. CASE f.c.received = f.c.len
    <3>1. handled = Finish(Cgi(f))
      <4>1. Cgi(f).r = "DONE"
        BY <2>2, <2>5, LastKeeps
      <4> QED
        BY <2>3, <4>1
    <3>2. /\ rest = <<>> /\ Serving(all, rest)
          /\ Answers(f) => Answers(all)
          /\ all.s.index = 0
          /\ Accumulating(f, rest) => Alone(all, rest)
      <4>1. /\ rest = <<>> /\ Serving(all, <<>>)
            /\ Answers(f) => Answers(all)
            /\ all.s.index = 0
            /\ Accumulating(f, rest) => Alone(all, <<>>)
        <5> DEFINE last == [Finish(Cgi(f)) EXCEPT !.c.buff = <<>>]
        <5>1. /\ Cgi(f).r = "DONE" /\ rest = <<>> /\ Serving(last, <<>>) /\ last.c.cgi = "NULL"
              /\ Answers(f) => Answers(last)
              /\ last.s.index = 0
              /\ Accumulating(f, rest) => Alone(last, <<>>)
          BY <2>2, <2>5, LastKeeps
        <5>2. all = last
          BY <2>1, <3>1
        <5> HIDE DEF last
        <5> QED
          BY <5>1, <5>2
      <4> QED
        BY <4>1
    <3>3. \A s \in SharedVariables : s.index > 0 /\ Apart(h, before, s) => Apart(all, rest, s)
      BY <3>2 DEF Apart
    <3>4. (Answers(h) => Answers(all)) /\ (Alone(h, before) => Alone(all, rest))
      BY <1>5, <1>6, <2>2, <3>2
    <3>5. Keeps(h, before, all, rest)
      BY <3>2, <3>3, <3>4 DEF Keeps
    <3> QED
      BY <3>5 DEF all, rest
  <2> QED
    BY <2>4, <2>5
<1> QED
  BY <1>7, <1>8

LEMMA KeepsTwice ==
  ASSUME NEW f, NEW g, NEW h, NEW a, NEW b, NEW c, Keeps(f, a, g, b), Keeps(g, b, h, c)
  PROVE  Keeps(f, a, h, c)
BY DEF Keeps

LEMMA KeepsItself ==
  ASSUME NEW h, NEW rest, Serving(h, rest)
  PROVE  Keeps(h, rest, h, rest)
BY DEF Keeps

(* httpdRecvCb() with the next segment.                                    *)
LEMMA ReceivedKeeps ==
  ASSUME NEW h, Sound(h), NEW before \in Seq(AllSegments), before # <<>>, Serving(h, before)
  PROVE  Keeps(h, before, Received(h, Head(before)), Tail(before))
<1>1. /\ h \in Handlers /\ h.c.len \in Nat \cup {-1} /\ h.s.index \in Nat
      /\ Exchange(h.c, h.t, before) /\ Quiet(h)
  BY HandlerFields DEF Serving, Quiet, Connections, SharedVariables
<1>2. h.t.waiting /\ h.c.backlog = <<>> /\ h.c.len # 0
  BY <1>1 DEF Exchange
<1>3. CASE h.c.len = -1
  <2>1. h.c.cgi = "NULL"
    BY <1>3 DEF Sound, Orderly, AtRest
  <2>2. IsRest(h.c.remote, before) /\ h.c.received = 0 /\ h.c.buff = <<>>
        /\ ~h.c.sendingBody /\ ~h.c.discon /\ SendsItsFile(h.c)
    BY <1>1, <1>3 DEF Exchange
  <2>3. CASE \E request \in Requests : before = Segments(h.c.remote, request)
    <3>1. PICK request \in Requests : before = Segments(h.c.remote, request)
      BY <2>3
    <3>2. /\ Head(before) = [kind |-> "head", request |-> request]
          /\ Tail(before) = IF request.name = "save" THEN FormFrom(h.c.remote, 0) ELSE <<>>
      BY <3>1, RequestArrives
    <3>3. Head(before).kind = "head" /\ Head(before).request = request
      BY <3>2
    <3>4. Received(h, Head(before)) = HeadersComplete(h, request)
      BY <1>3, <3>3 DEF Received
    <3>5. Keeps(h, before, HeadersComplete(h, request), Tail(before))
      BY <1>3, <3>2, HeadersKeep
    <3> QED
      BY <3>4, <3>5
  <2>4. CASE \E k \in 0..FormParts : before = FormFrom(h.c.remote, k)
    <3>1. PICK k \in 0..FormParts : before = FormFrom(h.c.remote, k)
      BY <2>4
    <3>2. /\ k # FormParts /\ Head(before) = [kind |-> "form", part |-> Part(h.c.remote, k + 1)]
          /\ k + 1 \in 0..FormParts /\ Tail(before) = FormFrom(h.c.remote, k + 1)
      BY <3>1, FormArrives
    <3>3. Head(before).kind = "form"
      BY <3>2
    <3>4. Received(h, Head(before)) = h
      BY <1>3, <3>3 DEF Received
    <3>5. IsRest(h.c.remote, Tail(before))
      BY <3>2 DEF IsRest
    <3>6. Serving(h, Tail(before))
      BY <1>1, <1>2, <1>3, <2>2, <3>5 DEF Serving, Exchange
    <3>7. Keeps(h, before, h, Tail(before))
      BY <1>1, <2>1, <3>6, NothingToKeep
    <3> QED
      BY <3>4, <3>7
  <2> QED
    BY <2>2, <2>3, <2>4 DEF IsRest
<1>4. CASE h.c.len > 0
  BY <1>4, FormKeeps
<1> QED
  BY <1>1, <1>2, <1>3, <1>4

(* What is left of a sequence after its first k elements.                  *)
LEMMA SuffixStep ==
  ASSUME NEW T, NEW s \in Seq(T), NEW k \in Nat, k < Len(s)
  PROVE  LET u == SubSeq(s, k + 1, Len(s))
         IN  /\ u \in Seq(T) /\ u # <<>> /\ Head(u) = s[k + 1]
             /\ Tail(u) = SubSeq(s, (k + 1) + 1, Len(s))
<1> DEFINE u == SubSeq(s, k + 1, Len(s))
           v == SubSeq(s, (k + 1) + 1, Len(s))
<1>1. /\ u \in Seq(T) /\ Len(u) = Len(s) - k /\ Len(s) \in Nat
      /\ \A i \in 1..(Len(s) - k) : u[i] = s[k + i]
  OBVIOUS
<1>2. /\ v \in Seq(T) /\ Len(v) = Len(s) - k - 1
      /\ \A i \in 1..(Len(s) - k - 1) : v[i] = s[k + 1 + i]
  OBVIOUS
<1> HIDE DEF u, v
<1>3. u # <<>> /\ Head(u) = s[k + 1]
  BY <1>1
<1>4. Tail(u) \in Seq(T) /\ Len(Tail(u)) = Len(s) - k - 1
      /\ \A i \in 1..(Len(s) - k - 1) : Tail(u)[i] = u[i + 1]
  BY <1>1
<1>5. Tail(u) = v
  <2>1. \A i \in 1..(Len(s) - k - 1) : Tail(u)[i] = v[i]
    BY <1>1, <1>2, <1>4
  <2> QED
    BY <1>2, <1>4, <2>1, SeqEqual
<1> QED
  BY <1>1, <1>3, <1>5 DEF u, v

LEMMA ReceivedAllKeeps ==
  ASSUME NEW h, Sound(h), NEW rest \in Seq(AllSegments), NEW n \in 0..Len(rest), Serving(h, rest)
  PROVE  Keeps(h, rest, ReceivedAll(h, SubSeq(rest, 1, n)), SubSeq(rest, n + 1, Len(rest)))
<1> DEFINE segments == SubSeq(rest, 1, n)
           Left(k) == SubSeq(rest, k + 1, Len(rest))
<1>1. /\ segments \in Seq(AllSegments) /\ Len(segments) = n /\ n \in Nat /\ Len(rest) \in Nat
      /\ \A k \in 1..n : segments[k] = rest[k]
  OBVIOUS
<1>2. Left(0) = rest
  <2>1. /\ Left(0) \in Seq(AllSegments) /\ Len(Left(0)) = Len(rest)
        /\ \A i \in 1..Len(rest) : Left(0)[i] = rest[i]
    OBVIOUS
  <2> HIDE DEF Left
  <2> QED
    BY <2>1, SeqEqual
<1> HIDE DEF segments
<1>3. PICK after : /\ after[0] = h /\ ReceivedAll(h, segments) = after[Len(segments)]
                   /\ \A k \in 1..Len(segments) : after[k] = Received(after[k - 1], segments[k])
  <2>1. segments \in Seq(AllSegments)
    BY <1>1
  <2> HIDE DEF Left
  <2>2. \E after : /\ after[0] = h /\ ReceivedAll(h, segments) = after[Len(segments)]
                   /\ \A k \in 1..Len(segments) : after[k] = Received(after[k - 1], segments[k])
    BY <2>1, ReceivedInSteps
  <2> QED
    BY <2>2
<1> DEFINE T == {k \in Nat : k <= n => Serves(h, after[k]) /\ Keeps(h, rest, after[k], Left(k))}
<1>4. 0 \in T
  <2>1. Keeps(h, rest, h, rest)
    BY KeepsItself
  <2> HIDE DEF Left
  <2> QED
    BY <1>2, <1>3, <2>1, ServesItself
<1>5. ASSUME NEW k \in Nat, k \in T PROVE k + 1 \in T
  <2> SUFFICES ASSUME k + 1 <= n
               PROVE  Serves(h, after[k + 1]) /\ Keeps(h, rest, after[k + 1], Left(k + 1))
    OBVIOUS
  <2>1. k < n /\ k < Len(rest) /\ k + 1 \in 1..n
    BY <1>1
  <2>2. Serves(h, after[k]) /\ Keeps(h, rest, after[k], Left(k))
    BY <1>5, <2>1
  <2>3. after[k + 1] = Received(after[k], rest[k + 1])
    <3>1. after[k + 1] = Received(after[(k + 1) - 1], segments[k + 1])
      BY <1>1, <1>3, <2>1
    <3>2. (k + 1) - 1 = k
      OBVIOUS
    <3> QED
      BY <1>1, <2>1, <3>1, <3>2
  <2>4. /\ Left(k) \in Seq(AllSegments) /\ Left(k) # <<>> /\ Head(Left(k)) = rest[k + 1]
        /\ Tail(Left(k)) = Left(k + 1)
    BY <2>1, SuffixStep
  <2>5. rest[k + 1] \in AllSegments
    BY <2>1
  <2> HIDE DEF Left
  <2>6. Sound(after[k]) /\ Serving(after[k], Left(k))
    BY <2>2 DEF Serves, Keeps
  <2>7. Serves(after[k], after[k + 1])
    BY <2>3, <2>5, <2>6, ReceivedServes
  <2>8. Keeps(after[k], Left(k), after[k + 1], Left(k + 1))
    BY <2>3, <2>4, <2>6, ReceivedKeeps
  <2>9. Serves(h, after[k + 1])
    BY <2>2, <2>7, ServesTwice
  <2>10. Keeps(h, rest, after[k + 1], Left(k + 1))
    BY <2>2, <2>8, KeepsTwice
  <2> QED
    BY <2>9, <2>10
<1>6. n \in T
  <2>1. Nat \subseteq T
    <3> HIDE DEF T
    <3> QED
      BY <1>4, <1>5, Upwards
  <2> HIDE DEF T
  <2> QED
    BY <1>1, <2>1
<1>7. Keeps(h, rest, after[n], Left(n))
  BY <1>1, <1>6
<1> HIDE DEF Left
<1>8. Keeps(h, rest, ReceivedAll(h, segments), Left(n))
  BY <1>1, <1>3, <1>7
<1> QED
  BY <1>8 DEF segments, Left

(* What httpdRecvCb() leaves of a connection.                              *)
LEMMA RecvKeeps ==
  ASSUME NEW h, Sound(h), NEW rest \in Seq(AllSegments), NEW n \in 1..Len(rest), Serving(h, rest)
  PROVE  Keeps(h, rest, FlushSendBuffer(ReceivedAll(h, SubSeq(rest, 1, n))),
               SubSeq(rest, n + 1, Len(rest)))
<1> DEFINE all == ReceivedAll(h, SubSeq(rest, 1, n))
           g == FlushSendBuffer(all)
           after == SubSeq(rest, n + 1, Len(rest))
<1>1. Keeps(h, rest, all, after)
  BY ReceivedAllKeeps
<1> HIDE DEF all, after
<1>2. Serving(all, after)
  BY <1>1 DEF Keeps
<1>3. /\ Serving(g, after) /\ g.s = all.s /\ g.c.cgi = all.c.cgi /\ g.c.remote = all.c.remote
      /\ SameRequest(all.c, g.c) /\ (Answering(all) => Answering(g))
  BY <1>2, FlushServes
<1>4. g.e = all.e
  BY <1>2, FlushOnlySends DEF Serving, Quiet, OnlySends
<1> HIDE DEF g
<1>5. Answers(all) => Answers(g)
  BY <1>3, <1>4 DEF Answers, Clean
<1>6. Alone(all, after) => Alone(g, after)
  BY <1>3 DEF Alone, SameRequest, Handed, InStep
<1>7. \A s \in SharedVariables : Apart(all, after, s) => Apart(g, after, s)
  BY <1>3 DEF Apart
<1>8. Keeps(all, after, g, after)
  BY <1>3, <1>5, <1>6, <1>7 DEF Keeps
<1>9. Keeps(h, rest, g, after)
  BY <1>1, <1>8, KeepsTwice
<1> QED
  BY <1>9 DEF g, all, after

-------------------------------------------------------------------------------
LEMMA OnlyElement ==
  ASSUME NEW T, NEW b \in Seq(T), Len(b) = 1
  PROVE  b[1] \in T /\ Head(b) = b[1] /\ Tail(b) = <<>>
<1>1. b[1] \in T /\ Head(b) = b[1] /\ b # <<>>
  OBVIOUS
<1>2. Tail(b) \in Seq(T) /\ Len(Tail(b)) = 0
  BY <1>1
<1>3. Tail(b) = <<>>
  BY <1>2, EmptySeq
<1> QED
  BY <1>1, <1>3

(* httpdContinue().  A packet leaves the backlog.                          *)
LEMMA DrainServes ==
  ASSUME NEW h, NEW rest, Serving(h, rest), h.c.backlog # <<>>, h.t.unsent < MaxUnsent
  PROVE  LET g == Continue(h)
         IN  /\ Serving(g, rest) /\ g.e = h.e /\ g.s = h.s /\ g.t.state = h.t.state
             /\ SameRequest(h.c, g.c)
             /\ Answers(h) => Answers(g)
<1> DEFINE packet == h.c.backlog[1]
           sent == IF Takes(h) THEN Transmitted(h, packet) ELSE h
           c == [h.c EXCEPT !.backlog = <<>>]
           g == [sent EXCEPT !.c = c]
<1>1. /\ h \in Handlers /\ h.c \in Connections /\ h.t \in TcpConnections
      /\ Quiet(h) /\ Exchange(h.c, h.t, rest)
  BY HandlerFields DEF Serving, Quiet
<1>2. /\ rest = <<>> /\ h.c.len <= 0 /\ Len(h.c.backlog) = 1
      /\ packet.ends => h.c.len = -1
  BY <1>1 DEF Exchange
<1>3. /\ h.c.backlog \in Seq(Packets) /\ packet \in Packets /\ Head(h.c.backlog) = packet
      /\ Tail(h.c.backlog) = <<>> /\ packet.pieces \in Seq(Nat)
      /\ packet.ends \in BOOLEAN /\ packet.framed \in BOOLEAN
  <2>1. h.c.backlog \in Seq(Packets)
    BY <1>1 DEF Connections
  <2>2. packet \in Packets /\ Head(h.c.backlog) = packet /\ Tail(h.c.backlog) = <<>>
    BY <1>2, <2>1, OnlyElement
  <2> HIDE DEF packet
  <2>3. /\ packet.pieces \in Seq(Nat)
        /\ packet.ends \in BOOLEAN /\ packet.framed \in BOOLEAN
    BY <2>2 DEF Packets
  <2> QED
    BY <1>2, <2>1, <2>2, <2>3
<1>4. /\ sent \in Handlers /\ sent.c = h.c /\ sent.s = h.s /\ sent.e = h.e
      /\ sent.t.state = h.t.state
      /\ IF Takes(h)
         THEN /\ sent.t.waiting <=> h.t.waiting /\ ~packet.ends
              /\ sent.t.got = IF packet.ends THEN 0 ELSE h.t.got + Len(packet.pieces)
              /\ sent.t.garbled <=>
                   \/ h.t.garbled \/ ~packet.framed
                   \/ packet.pieces # [i \in 1..Len(packet.pieces) |-> h.t.got + i]
         ELSE sent.t = h.t
  <2> HIDE DEF packet
  <2>1. CASE Takes(h)
    <3>1. sent = Transmitted(h, packet)
      BY <2>1
    <3> HIDE DEF sent
    <3> QED
      BY <1>1, <1>3, <2>1, <3>1, TransmittedFields
  <2>2. CASE ~Takes(h)
    BY <1>1, <2>2
  <2> QED
    BY <2>1, <2>2
<1>5. Continue(h) = [sent EXCEPT !.c.backlog = Tail(@)]
  <2> HIDE DEF packet
  <2> QED
    BY <1>3 DEF Continue
<1> HIDE DEF sent, packet
<1>6. Continue(h) = g
  BY <1>3, <1>4, <1>5
<1>7. /\ c \in Connections /\ SameRequest(h.c, c) /\ c.backlog = <<>>
      /\ c.sendingBody = h.c.sendingBody /\ c.made = h.c.made
      /\ c.out = h.c.out /\ c.outLen = h.c.outLen /\ c.chunkHdr = h.c.chunkHdr
      /\ c.framed = h.c.framed
  <2>1. <<>> \in Seq(Packets)
    OBVIOUS
  <2> QED
    BY <1>1, <2>1 DEF Connections, SameRequest
<1> HIDE DEF c
<1>8. g \in Handlers /\ g.c = c /\ g.t = sent.t /\ g.s = h.s /\ g.e = h.e
  BY <1>4, <1>7, NewFields
<1> HIDE DEF g
<1>9. /\ SameRequest(h.c, g.c) /\ g.c.backlog = <<>> /\ g.c.len = h.c.len /\ g.c.conn
      /\ g.c.made = h.c.made /\ g.c.sendingBody = h.c.sendingBody
      /\ g.c.remote = h.c.remote /\ g.c.received = h.c.received /\ g.c.buff = h.c.buff
      /\ g.c.url = h.c.url /\ g.c.cgi = h.c.cgi /\ g.c.cgiData = h.c.cgiData
      /\ g.c.chunked = h.c.chunked /\ g.c.discon = h.c.discon
      /\ g.c.out = h.c.out /\ g.c.outLen = h.c.outLen /\ g.c.chunkHdr = h.c.chunkHdr
      /\ g.c.framed = h.c.framed
  BY <1>1, <1>7, <1>8 DEF SameRequest, Quiet
<1>10. h.c.outLen = 0 \/ ~Takes(g)
  <2>1. h.c.outLen # 0 => ~Takes(h) /\ h.e.noitem
    BY <1>1 DEF Quiet
  <2>2. ~Takes(h) => g.t = h.t
    BY <1>4, <1>8
  <2> QED
    BY <1>8, <2>1, <2>2 DEF Takes
<1>11. Quiet(g)
  BY <1>1, <1>8, <1>9, <1>10 DEF Quiet
<1>12. Exchange(g.c, g.t, rest)
  <2>1. g.t.waiting \/ g.c.len = -1
    <3>1. h.t.waiting \/ h.c.len = -1
      BY <1>1 DEF Exchange
    <3> QED
      BY <1>2, <1>4, <1>8, <1>9, <3>1
  <2>2. SendsItsFile(g.c)
    BY <1>1, <1>9 DEF Exchange, SendsItsFile, ReadsFile
  <2>3. ~(g.c.len > 0)
    BY <1>1, <1>2, <1>9 DEF Connections
  <2> QED
    BY <1>1, <1>2, <1>9, <2>1, <2>2, <2>3 DEF Exchange
<1>13. ASSUME Answers(h) PROVE Answers(g)
  <2>1. Takes(h)
    BY <1>13 DEF Answers, Clean, Takes
  <2> DEFINE all == h.t.got + Len(packet.pieces)
  <2>2. /\ ~h.t.garbled /\ packet.framed /\ packet.pieces = Pieces(h.t.got, all)
        /\ (packet.ends <=> h.c.len # 0) /\ (~packet.ends => all = h.c.made)
        /\ h.c.len # 0 => h.c.made = 0
    BY <1>13 DEF Answers, Answering, Intact, packet
  <2>3. packet.pieces = [i \in 1..Len(packet.pieces) |-> h.t.got + i]
    <3>1. h.t.got \in Nat /\ Len(packet.pieces) \in Nat
      BY <1>1, <1>3 DEF TcpConnections
    <3>2. all - h.t.got = Len(packet.pieces)
      BY <3>1
    <3> QED
      BY <2>2, <3>2 DEF Pieces
  <2>4. ~g.t.garbled /\ g.t.got = g.c.made
    BY <1>4, <1>8, <1>9, <2>1, <2>2, <2>3
  <2>5. Intact(g.c, g.t)
    BY <1>9, <2>2, <2>4 DEF Intact
  <2> QED
    BY <1>8, <1>13, <2>5 DEF Answers, Answering, Clean
<1> QED
  BY <1>4, <1>6, <1>8, <1>9, <1>11, <1>12, <1>13 DEF Serving

(* Only the request of a form has its CGI.                                 *)
LEMMA SaveHasForm ==
  ASSUME NEW h, Orderly(h), NEW rest, Serving(h, rest), h.c.cgi = "save"
  PROVE  h.c.len > 0
<1>1. /\ h.c.len \in Nat \cup {-1} /\ Exchange(h.c, h.t, rest) /\ AtRest(h.c)
  BY HandlerFields DEF Serving, Quiet, Connections, Orderly
<1>2. h.c.cgi = CgiNames(h.c.url)
  BY <1>1 DEF AtRest, ItsCgi
<1>3. h.c.url.name = "save"
  BY <1>2 DEF CgiNames
<1> QED
  BY <1>1, <1>3 DEF AtRest, Exchange

(* The CGI of a form is called again.                                      *)
LEMMA SaveAgainServes ==
  ASSUME NEW h, Orderly(h), NEW rest, Serving(h, rest), h.c.cgi = "save"
  PROVE  LET g == FlushSendBuffer(Finish(Cgi(h)))
         IN  /\ Serving(g, rest) /\ g.e = h.e /\ g.t = h.t /\ SameRequest(h.c, g.c)
             /\ g.s.savedExactly = h.s.savedExactly
             /\ Answers(h) => Answers(g)
<1> DEFINE called == Cgi(h)
           g == FlushSendBuffer(Finish(called))
<1>1. /\ h \in Handlers /\ h.c.len \in Nat \cup {-1} /\ h.c.received \in Nat /\ FormParts \in Nat
      /\ Quiet(h) /\ Exchange(h.c, h.t, rest) /\ AtRest(h.c)
  BY HandlerFields, FormPartsAssumption DEF Serving, Quiet, Connections, Orderly
<1>2. h.c.len > 0
  BY SaveHasForm
<1>3. Uploading(h.c, rest) /\ h.c.len # h.c.received /\ h.c.backlog = <<>>
      /\ ~h.c.sendingBody
  BY <1>1, <1>2 DEF Exchange, Uploading
<1>4. MayCall(h) /\ called = CgiSaveConfig(h)
  BY DEF Orderly, AtRest, MayCall, Cgi
<1>5. /\ called.r = "MORE" /\ called.h.c = h.c /\ Fulfils(h, called)
      /\ FormOf(called.h.s) = FormOf(Accumulate(h).s)
      /\ Accumulate(h).s.savedExactly = h.s.savedExactly
  BY <1>3, <1>4, SaveFulfils
<1> HIDE DEF called
<1>6. /\ called.h \in Handlers /\ called.h.t = h.t /\ called.h.e = h.e
      /\ called.h.s.aps = h.s.aps /\ called.h.s.savedExactly = h.s.savedExactly
      /\ g = FlushSendBuffer(called.h)
  BY <1>5 DEF Fulfils, Leaves, FormOf, Finish
<1>7. Quiet(called.h) /\ ~EndsAnswer(called.h)
  BY <1>1, <1>3, <1>5, <1>6 DEF Quiet, Takes, EndsAnswer
<1>8. /\ Flushes(called.h, g) /\ g.t = called.h.t
      /\ g.c.backlog = called.h.c.backlog /\ g.c.made = called.h.c.made
  BY <1>6, <1>7, QuietFlush
<1> HIDE DEF g
<1>9. /\ Quiet(g) /\ g.s = called.h.s /\ g.e = h.e /\ g.t = h.t
      /\ SameRequest(h.c, g.c) /\ g.c.sendingBody = h.c.sendingBody
      /\ g.c.backlog = h.c.backlog /\ g.c.made = h.c.made
  BY <1>5, <1>6, <1>8 DEF Flushes
<1>10. Exchange(g.c, g.t, rest)
  BY <1>1, <1>2, <1>9 DEF Exchange, SendsItsFile, ReadsFile, Uploading, Handed, InStep, SameRequest
<1>11. Answers(h) => Answers(g)
  BY <1>6, <1>9 DEF Answers, Clean, Answering, Intact, SameRequest
<1> QED
  BY <1>6, <1>9, <1>10, <1>11 DEF Serving, called, g

(* Any other function is called again.                                     *)
LEMMA OtherAgainServes ==
  ASSUME NEW h, Orderly(h), NEW rest, Serving(h, rest), h.c.backlog = <<>>,
         h.c.cgi \notin {"NULL", "save"}
  PROVE  LET g == FlushSendBuffer(Finish(Cgi(h)))
         IN  /\ Serving(g, rest) /\ g.e = h.e /\ g.t.state = h.t.state
             /\ g.c.remote = h.c.remote /\ g.c.cgi # "save"
             /\ FormOf(g.s) = FormOf(h.s)
             /\ Answers(h) => Answers(g)
<1> DEFINE called == Cgi(h)
           handled == Finish(called)
           g == FlushSendBuffer(handled)
<1>1. /\ h \in Handlers /\ h.c.len \in Nat \cup {-1}
      /\ Quiet(h) /\ Exchange(h.c, h.t, rest) /\ AtRest(h.c) /\ h.c.conn
  BY HandlerFields DEF Serving, Quiet, Connections, Orderly
<1>2. h.c.len = 0
  <2>1. h.c.cgi = CgiNames(h.c.url) /\ h.c.len # -1
    BY <1>1 DEF AtRest, ItsCgi
  <2>2. h.c.url.name # "save"
    BY <2>1 DEF CgiNames
  <2> QED
    BY <1>1, <2>1, <2>2 DEF AtRest
<1>3. rest = <<>> /\ h.c.url.name # "save" /\ h.t.waiting /\ SendsItsFile(h.c)
  BY <1>1, <1>2 DEF Exchange
<1>4. MayCall(h)
  BY DEF Orderly, AtRest, MayCall
<1>5. Fulfils(h, called) /\ called.r \in {"DONE", "MORE"}
  BY <1>1, <1>3, <1>4, CgiFulfils, CgiCalled DEF Called
<1>6. /\ called.r = "DONE" /\ h.c.chunked => Ended(h, handled) /\ handled.s = called.h.s
      /\ called.r = "DONE" /\ ~h.c.chunked => Partly(h, g) /\ g.s = called.h.s
      /\ called.r = "MORE" /\ ReadsFile(h.c) => Partly(h, g) /\ g.s = called.h.s
  BY <1>1, <1>3, <1>4, CallDoes
<1>7. h.c.cgi # "save" /\ (called.r = "MORE" => ReadsFile(h.c))
      /\ FormOf(called.h.s) = FormOf(h.s) /\ called.h.s.aps = h.s.aps
  BY <1>5 DEF Fulfils
<1>8. CASE called.r = "DONE" /\ h.c.chunked
  <2>1. Ended(h, handled) /\ handled.s = called.h.s
    BY <1>6, <1>8
  <2> HIDE DEF handled, called
  <2>2. Serving(handled, <<>>) /\ (Even(h) => Intact(handled.c, handled.t))
    BY <1>1, <1>3, <2>1, EndedServes
  <2>3. /\ Serving(g, <<>>) /\ g.s = handled.s /\ g.c.cgi = handled.c.cgi
        /\ g.c.remote = handled.c.remote /\ (Answering(handled) => Answering(g))
    BY <2>2, FlushServes
  <2>4. g.e = handled.e /\ g.t.state = handled.t.state
    BY <2>2, FlushOnlySends DEF Serving, Quiet, OnlySends
  <2> HIDE DEF g
  <2>5. /\ g.e = h.e /\ g.t.state = h.t.state /\ g.c.remote = h.c.remote /\ g.c.cgi = "NULL"
        /\ g.s = called.h.s
    BY <2>1, <2>3, <2>4 DEF Ended
  <2>6. ASSUME Answers(h) PROVE Answers(g)
    <3>1. Intact(handled.c, handled.t)
      BY <2>2, <2>6, AnswersEven
    <3>2. Answering(handled)
      BY <1>7, <2>1, <2>6, <3>1 DEF Answers, Answering
    <3> QED
      BY <2>3, <2>5, <2>6, <3>2 DEF Answers, Clean
  <2> QED
    BY <1>3, <1>7, <2>3, <2>5, <2>6 DEF g, handled, called
<1>9. CASE ~(called.r = "DONE" /\ h.c.chunked)
  <2>1. Partly(h, g) /\ g.s = called.h.s
    BY <1>5, <1>6, <1>7, <1>9
  <2> HIDE DEF g, handled, called
  <2>2. Serving(g, <<>>) /\ (Even(h) => Intact(g.c, g.t))
    BY <1>1, <1>2, <1>3, <2>1, PartlyServes
  <2>3. /\ g.e = h.e /\ g.t.state = h.t.state /\ g.c.remote = h.c.remote /\ g.c.cgi # "save"
    BY <2>1 DEF Partly, ReadsFile
  <2>4. ASSUME Answers(h) PROVE Answers(g)
    <3>1. Intact(g.c, g.t)
      BY <2>2, <2>4, AnswersEven
    <3> QED
      BY <1>7, <2>1, <2>3, <2>4, <3>1 DEF Answers, Answering, Clean
  <2> QED
    BY <1>3, <1>7, <2>1, <2>2, <2>3, <2>4 DEF g, handled, called
<1> QED
  BY <1>8, <1>9

(* What httpdContinue() keeps.                                             *)
LEMMA ContinueKeeps ==
  ASSUME NEW h, Orderly(h), NEW rest, Serving(h, rest), h.t.unsent < MaxUnsent,
         h.t.state = "OPEN"
  PROVE  LET g == Continue(h)
         IN  /\ g.t.state = "OPEN" => Serving(g, rest)
             /\ g.t.state # "OPEN" => rest = <<>> /\ g.t.state = "CLOSING"
             /\ g.e = h.e
             /\ Answers(h) => /\ ~g.t.garbled /\ g.s.aps \in ApCounts \cup {0}
                              /\ g.t.state = "OPEN" => Intact(g.c, g.t)
             /\ h.c.cgi # "save" => FormOf(g.s) = FormOf(h.s) /\ g.c.cgi # "save"
             /\ h.c.cgi = "save" => /\ SameRequest(h.c, g.c) /\ g.t.state = "OPEN"
                                    /\ g.s.savedExactly = h.s.savedExactly
<1> DEFINE g == Continue(h)
<1>1. /\ h \in Handlers /\ h.c.len \in Nat \cup {-1}
      /\ Exchange(h.c, h.t, rest) /\ Quiet(h) /\ h.c.backlog \in Seq(Packets)
      /\ h.c.discon \in BOOLEAN /\ h.t \in TcpConnections
  BY HandlerFields DEF Serving, Quiet, Connections
<1>2. ASSUME NEW f, Answers(f)
      PROVE  ~f.t.garbled /\ f.s.aps \in ApCounts \cup {0} /\ Intact(f.c, f.t)
  BY <1>2 DEF Answers, Answering, Intact
<1>3. CASE h.c.backlog # <<>>
  <2>1. /\ Serving(g, rest) /\ g.e = h.e /\ g.s = h.s /\ g.t.state = h.t.state
        /\ SameRequest(h.c, g.c)
        /\ Answers(h) => Answers(g)
    BY <1>3, DrainServes
  <2> HIDE DEF g
  <2>2. g.c.cgi = h.c.cgi
    BY <2>1 DEF SameRequest
  <2> QED
    BY <1>2, <2>1, <2>2 DEF g
<1>4. CASE h.c.backlog = <<>> /\ h.c.discon
  <2> DEFINE t == [NoTcp EXCEPT !.state = "CLOSING", !.garbled = h.t.garbled]
             f == [h EXCEPT !.t = t]
  <2>1. g = f
    BY <1>4 DEF Continue
  <2>2. t \in TcpConnections /\ t.state = "CLOSING" /\ t.garbled = h.t.garbled
    <3>1. h.t.garbled \in BOOLEAN
      BY <1>1 DEF TcpConnections
    <3>2. t \in TcpConnections /\ t.state = "CLOSING"
      BY <3>1, ClosingTcp
    <3>3. t.garbled = h.t.garbled
      BY DEF NoTcp
    <3> QED
      BY <3>2, <3>3
  <2> HIDE DEF t, g
  <2>3. f.c = h.c /\ f.t = t /\ f.s = h.s /\ f.e = h.e
    BY <1>1, <2>2, NewFields
  <2> HIDE DEF f
  <2>4. rest = <<>>
    BY <1>1, <1>4 DEF Exchange
  <2>5. h.c.cgi # "save"
    <3>1. ~(h.c.len > 0)
      BY <1>1, <1>4 DEF Exchange
    <3> QED
      BY <3>1, SaveHasForm
  <2> QED
    BY <1>2, <2>1, <2>2, <2>3, <2>4, <2>5 DEF g
<1>5. CASE h.c.backlog = <<>> /\ ~h.c.discon /\ (h.c.cgi = "NULL" \/ h.e.nomem)
  <2>1. g = h
    BY <1>5 DEF Continue
  <2> HIDE DEF g
  <2>2. SameRequest(h.c, h.c)
    BY DEF SameRequest
  <2> QED
    BY <1>2, <2>1, <2>2 DEF g
<1>6. CASE h.c.backlog = <<>> /\ ~h.c.discon /\ ~(h.c.cgi = "NULL" \/ h.e.nomem)
  <2>1. g = FlushSendBuffer(Finish(Cgi(h)))
    BY <1>6 DEF Continue
  <2> HIDE DEF g
  <2>2. CASE h.c.cgi = "save"
    <3>1. /\ Serving(g, rest) /\ g.e = h.e /\ g.t = h.t /\ SameRequest(h.c, g.c)
          /\ g.s.savedExactly = h.s.savedExactly
          /\ Answers(h) => Answers(g)
      BY <2>1, <2>2, SaveAgainServes
    <3> QED
      BY <1>2, <2>2, <3>1 DEF g
  <2>3. CASE h.c.cgi # "save"
    <3>1. /\ Serving(g, rest) /\ g.e = h.e /\ g.t.state = h.t.state
          /\ g.c.remote = h.c.remote /\ g.c.cgi # "save"
          /\ FormOf(g.s) = FormOf(h.s)
          /\ Answers(h) => Answers(g)
      BY <1>6, <2>1, <2>3, OtherAgainServes
    <3> QED
      BY <1>2, <2>3, <3>1 DEF g
  <2> QED
    BY <2>2, <2>3
<1> QED
  BY <1>1, <1>3, <1>4, <1>5, <1>6

-------------------------------------------------------------------------------
(* The invariants of all connections.  A handler begins with what the      *)
(* handlers before it have left.                                           *)
LEMMA HandlerServing ==
  ASSUME ServerInv, ExchangesKept, NEW client \in Clients, tcp[client].state = "OPEN",
         NEW outcome \in Outcomes
  PROVE  /\ Serving(Handler(client, outcome), stream[client])
         /\ SlotOf(client) \in OpenSlots
<1> DEFINE h == Handler(client, outcome)
<1>1. /\ Orderly(h) /\ h.c = connData[SlotOf(client)] /\ h.c.remote = client
      /\ h.t = tcp[client]
  BY HandlerSound
<1>2. SlotOf(client) \in UsedSlots /\ connData[SlotOf(client)].remote = client
  BY SlotFound
<1>3. SlotOf(client) \in OpenSlots
  BY <1>2 DEF OpenSlots
<1>4. /\ Exchange(connData[SlotOf(client)], tcp[client], stream[client])
      /\ SendBufferEmpty(connData[SlotOf(client)])
  BY <1>2, <1>3 DEF ExchangesKept
<1> HIDE DEF h
<1>5. Quiet(h)
  BY <1>1, <1>4 DEF Quiet, SendBufferEmpty, Orderly, AtRest
<1> QED
  BY <1>1, <1>3, <1>4, <1>5 DEF Serving, h

LEMMA HandlerAnswering ==
  ASSUME ServerInv, ExchangesKept, AnswersKept, ListsFit, ~faulted,
         NEW client \in Clients, tcp[client].state = "OPEN", NEW outcome \in Outcomes
  PROVE  Answering(Handler(client, outcome))
<1> DEFINE h == Handler(client, outcome)
<1>1. /\ h.c = connData[SlotOf(client)] /\ h.t = tcp[client] /\ h.s = shared
      /\ h.c.remote = client
  BY HandlerSound
<1>2. SlotOf(client) \in OpenSlots
  BY HandlerServing
<1> HIDE DEF h
<1>3. Answering(h)
  BY <1>1, <1>2 DEF Answering, AnswersKept
<1> QED
  BY <1>3 DEF h

(* The connections that upload a form are slots in use.                    *)
LEMMA UploadSlot ==
  ASSUME NEW f \in [Slots -> Connections \cup {Free, Leaked}], NEW slot \in Slots
  PROVE  f[slot] \notin {Free, Leaked} <=> f[slot].remote \in Clients
<1>1. \A c \in Connections : c.remote \in Clients
  BY DEF Connections
<1>2. Free.remote \notin Clients /\ Leaked.remote \notin Clients
  BY ClientsAssumption DEF Free, Leaked
<1>3. f[slot] \in Connections \cup {Free, Leaked}
  OBVIOUS
<1> QED
  BY <1>1, <1>2, <1>3

LEMMA UploadsAre ==
  ASSUME ServerInv
  PROVE  \A slot \in Slots : slot \in Uploads <=> slot \in UsedSlots /\ connData[slot].cgi = "save"
<1>1. connData \in [Slots -> Connections \cup {Free, Leaked}]
  BY DEF ServerInv, TypeOK
<1> QED
  BY <1>1, UploadSlot DEF Uploads, UsedSlots

LEMMA UploadsWillBe ==
  ASSUME TypeOK'
  PROVE  \A slot \in Slots :
           slot \in Uploads' <=> slot \in UsedSlots' /\ connData'[slot].cgi = "save"
<1>1. connData' \in [Slots -> Connections \cup {Free, Leaked}]
  BY DEF TypeOK
<1> QED
  BY <1>1, UploadSlot DEF Uploads, UsedSlots

(* What a handler leaves, and what it leaves alone.                        *)
Replaced(client, g, rest) ==
  LET x == SlotOf(client)
      c == Emptied(g).c
  IN  /\ x \in UsedSlots /\ connData[x].remote = client
      /\ connData'[x] = c
      /\ \A slot \in Slots \ {x} : connData'[slot] = connData[slot]
      /\ tcp'[client] = g.t /\ stream'[client] = rest
      /\ \A other \in Clients \ {client} :
           tcp'[other] = tcp[other] /\ stream'[other] = stream[other]
      /\ UsedSlots' = UsedSlots
      /\ \A slot \in UsedSlots \ {x} : connData[slot].remote \in Clients \ {client}
      /\ SameRequest(g.c, c) /\ c.sendingBody = g.c.sendingBody
      /\ c.backlog = g.c.backlog /\ c.chunkHdr = g.c.chunkHdr /\ c.made = g.c.made
      /\ c.out = <<>> /\ c.outLen = 0 /\ c.framed = TRUE
      /\ c.remote = client
      /\ shared' = g.s
      /\ faulted' = (faulted \/ g.e.refuse \/ g.e.nomem \/ g.e.noitem)

LEMMA CommitReplaces ==
  ASSUME ServerInv, NEW client \in Clients, tcp[client].state = "OPEN",
         NEW g \in Handlers, g.c.remote = client, NEW uploads, Commit(client, g, uploads),
         NEW rest, stream' = [stream EXCEPT ![client] = rest]
  PROVE  Replaced(client, g, rest)
<1> DEFINE x == SlotOf(client)
           c == Emptied(g).c
<1>1. /\ x \in UsedSlots /\ x \in Slots /\ connData[x].remote = client
      /\ \A slot \in Slots : connData[slot].remote = client => slot = x
  BY SlotFound
<1>2. /\ connData \in [Slots -> Connections \cup {Free, Leaked}]
      /\ tcp \in [Clients -> TcpConnections] /\ stream \in [Clients -> Seq(AllSegments)]
  BY DEF ServerInv, TypeOK
<1>3. /\ SameRequest(g.c, c) /\ c.sendingBody = g.c.sendingBody
      /\ c.backlog = g.c.backlog /\ c.chunkHdr = g.c.chunkHdr /\ c.made = g.c.made
      /\ c.out = <<>> /\ c.outLen = 0 /\ c.framed = TRUE
  BY EmptiedFields
<1>4. /\ connData' = [connData EXCEPT ![x] = c] /\ tcp' = [tcp EXCEPT ![client] = g.t]
      /\ shared' = g.s
      /\ faulted' = (faulted \/ g.e.refuse \/ g.e.nomem \/ g.e.noitem)
  BY DEF Commit
<1> HIDE DEF x, c
<1>5. c.remote = client
  BY <1>3 DEF SameRequest
<1>6. /\ connData'[x] = c /\ \A slot \in Slots \ {x} : connData'[slot] = connData[slot]
  BY <1>1, <1>2, <1>4
<1>7. /\ tcp'[client] = g.t /\ stream'[client] = rest
      /\ \A other \in Clients \ {client} :
           tcp'[other] = tcp[other] /\ stream'[other] = stream[other]
  BY <1>2, <1>4
<1>8. UsedSlots' = UsedSlots
  <2>1. \A slot \in Slots : connData'[slot].remote = connData[slot].remote
    BY <1>1, <1>5, <1>6
  <2> QED
    BY <2>1 DEF UsedSlots
<1>9. \A slot \in UsedSlots \ {x} : connData[slot].remote \in Clients \ {client}
  BY <1>1 DEF UsedSlots
<1> QED
  BY <1>1, <1>3, <1>4, <1>5, <1>6, <1>7, <1>8, <1>9 DEF Replaced, x, c

LEMMA CommitExchanges ==
  ASSUME ServerInv, ExchangesKept, NEW client \in Clients, NEW g, NEW rest,
         Replaced(client, g, rest), g \in Handlers,
         g.t.state = "OPEN" => Serving(g, rest),
         g.t.state # "OPEN" => rest = <<>>
  PROVE  ExchangesKept'
<1> DEFINE x == SlotOf(client)
           c == Emptied(g).c
<1>1. /\ connData'[x] = c /\ c.remote = client /\ x \in Slots
      /\ \A slot \in Slots \ {x} : connData'[slot] = connData[slot]
      /\ tcp'[client] = g.t /\ stream'[client] = rest
      /\ \A other \in Clients \ {client} :
           tcp'[other] = tcp[other] /\ stream'[other] = stream[other]
      /\ UsedSlots' = UsedSlots
      /\ \A slot \in UsedSlots \ {x} : connData[slot].remote \in Clients \ {client}
  BY DEF Replaced, UsedSlots
<1>2. /\ SameRequest(g.c, c) /\ c.sendingBody = g.c.sendingBody
      /\ c.backlog = g.c.backlog /\ c.chunkHdr = g.c.chunkHdr
      /\ c.out = <<>> /\ c.outLen = 0 /\ c.framed = TRUE
  BY DEF Replaced
<1> HIDE DEF x, c
<1>3. ASSUME g.t.state = "OPEN" PROVE Exchange(c, g.t, rest) /\ SendBufferEmpty(c)
  <2>1. Exchange(g.c, g.t, rest) /\ ~g.c.chunkHdr
    BY <1>3 DEF Serving, Quiet
  <2>2. Exchange(c, g.t, rest)
    BY <1>2, <2>1 DEF Exchange, SameRequest, SendsItsFile, ReadsFile, Uploading, Handed, InStep
  <2> QED
    BY <1>2, <2>1, <2>2 DEF SendBufferEmpty
<1>4. ASSUME NEW slot \in OpenSlots'
      PROVE  LET d == connData'[slot]
             IN  Exchange(d, tcp'[d.remote], stream'[d.remote]) /\ SendBufferEmpty(d)
  <2>1. slot \in UsedSlots /\ slot \in Slots /\ tcp'[connData'[slot].remote].state = "OPEN"
    BY <1>1 DEF OpenSlots, UsedSlots
  <2>2. CASE slot = x
    BY <1>1, <1>3, <2>1, <2>2
  <2>3. CASE slot # x
    <3>1. /\ connData'[slot] = connData[slot] /\ connData[slot].remote \in Clients \ {client}
      BY <1>1, <2>1, <2>3
    <3>2. slot \in OpenSlots
      BY <1>1, <2>1, <3>1 DEF OpenSlots
    <3> QED
      BY <1>1, <3>1, <3>2 DEF ExchangesKept
  <2> QED
    BY <2>2, <2>3
<1>5. ASSUME NEW other \in Clients, tcp'[other].state # "OPEN" PROVE stream'[other] = <<>>
  <2>1. CASE other = client
    BY <1>1, <1>5, <2>1
  <2>2. CASE other # client
    BY <1>1, <1>5, <2>2 DEF ExchangesKept
  <2> QED
    BY <2>1, <2>2
<1> QED
  BY <1>4, <1>5 DEF ExchangesKept

LEMMA CommitAnswers ==
  ASSUME ServerInv, AnswersKept, NEW client \in Clients, NEW g, NEW rest,
         Replaced(client, g, rest), g.t.state \in {"OPEN", "CLOSING"},
         ListsFit /\ ~faulted' =>
           /\ ~g.t.garbled /\ g.s.aps \in ApCounts \cup {0}
           /\ g.t.state = "OPEN" => Intact(g.c, g.t)
  PROVE  AnswersKept'
<1> DEFINE x == SlotOf(client)
           c == Emptied(g).c
<1>1. /\ connData'[x] = c /\ c.remote = client /\ x \in Slots
      /\ \A slot \in Slots \ {x} : connData'[slot] = connData[slot]
      /\ tcp'[client] = g.t
      /\ \A other \in Clients \ {client} : tcp'[other] = tcp[other]
      /\ UsedSlots' = UsedSlots /\ shared' = g.s
      /\ \A slot \in UsedSlots \ {x} : connData[slot].remote \in Clients \ {client}
  BY DEF Replaced, UsedSlots
<1>2. /\ c.len = g.c.len /\ c.backlog = g.c.backlog /\ c.made = g.c.made
      /\ ~faulted' => ~faulted
  BY DEF Replaced, SameRequest
<1> HIDE DEF x, c
<1> SUFFICES ASSUME ListsFit, ~faulted'
             PROVE  /\ \A slot \in OpenSlots' :
                         Intact(connData'[slot], tcp'[connData'[slot].remote])
                    /\ \A other \in Clients :
                         /\ ~tcp'[other].garbled
                         /\ tcp'[other].state \in {"CLOSED", "CONNECTING"} => tcp'[other].got = 0
                    /\ shared'.aps \in ApCounts \cup {0}
  BY DEF AnswersKept, ListsFit
<1>3. g.t.state = "OPEN" => Intact(c, g.t)
  BY <1>2 DEF Intact
<1>4. ASSUME NEW slot \in OpenSlots'
      PROVE  Intact(connData'[slot], tcp'[connData'[slot].remote])
  <2>1. slot \in UsedSlots /\ slot \in Slots /\ tcp'[connData'[slot].remote].state = "OPEN"
    BY <1>1 DEF OpenSlots, UsedSlots
  <2>2. CASE slot = x
    BY <1>1, <1>3, <2>1, <2>2
  <2>3. CASE slot # x
    <3>1. /\ connData'[slot] = connData[slot] /\ connData[slot].remote \in Clients \ {client}
      BY <1>1, <2>1, <2>3
    <3>2. slot \in OpenSlots
      BY <1>1, <2>1, <3>1 DEF OpenSlots
    <3> QED
      BY <1>1, <1>2, <3>1, <3>2 DEF AnswersKept
  <2> QED
    BY <2>2, <2>3
<1>5. ASSUME NEW other \in Clients
      PROVE  /\ ~tcp'[other].garbled
             /\ tcp'[other].state \in {"CLOSED", "CONNECTING"} => tcp'[other].got = 0
  <2>1. CASE other = client
    BY <1>1, <2>1
  <2>2. CASE other # client
    BY <1>1, <1>2, <2>2 DEF AnswersKept
  <2> QED
    BY <2>1, <2>2
<1> QED
  BY <1>1, <1>4, <1>5

(* The slots of a step in which only one connection changes.               *)
LEMMA OtherUploads ==
  ASSUME ServerInv, TypeOK', NEW client \in Clients, NEW g, NEW rest, Replaced(client, g, rest)
  PROVE  LET x == SlotOf(client)
         IN  /\ x \in Slots /\ connData[x].remote = client /\ connData'[x].remote = client
             /\ x \in Uploads <=> connData[x].cgi = "save"
             /\ x \in Uploads' <=> g.c.cgi = "save"
             /\ Uploads' \ {x} = Uploads \ {x}
             /\ \A slot \in Uploads \ {x} :
                  /\ connData'[slot] = connData[slot]
                  /\ tcp'[connData[slot].remote] = tcp[connData[slot].remote]
                  /\ stream'[connData[slot].remote] = stream[connData[slot].remote]
<1> DEFINE x == SlotOf(client)
           c == Emptied(g).c
<1>1. /\ connData'[x] = c /\ c.remote = client /\ x \in UsedSlots /\ x \in Slots
      /\ connData[x].remote = client
      /\ \A slot \in Slots \ {x} : connData'[slot] = connData[slot]
      /\ \A other \in Clients \ {client} :
           tcp'[other] = tcp[other] /\ stream'[other] = stream[other]
      /\ UsedSlots' = UsedSlots
      /\ \A slot \in UsedSlots \ {x} : connData[slot].remote \in Clients \ {client}
      /\ c.cgi = g.c.cgi
  BY DEF Replaced, UsedSlots, SameRequest
<1> HIDE DEF x, c
<1>2. \A slot \in Slots : slot \in Uploads <=> slot \in UsedSlots /\ connData[slot].cgi = "save"
  BY UploadsAre
<1>3. \A slot \in Slots : slot \in Uploads' <=> slot \in UsedSlots' /\ connData'[slot].cgi = "save"
  BY UploadsWillBe
<1>4. Uploads \subseteq Slots /\ Uploads' \subseteq Slots
  BY DEF Uploads
<1>5. Uploads' \ {x} = Uploads \ {x}
  BY <1>1, <1>2, <1>3, <1>4
<1>6. ASSUME NEW slot \in Uploads \ {x}
      PROVE  /\ connData'[slot] = connData[slot]
             /\ tcp'[connData[slot].remote] = tcp[connData[slot].remote]
             /\ stream'[connData[slot].remote] = stream[connData[slot].remote]
  <2>1. slot \in Slots \ {x} /\ slot \in UsedSlots \ {x}
    BY <1>2, <1>4, <1>6
  <2> QED
    BY <1>1, <2>1
<1> QED
  BY <1>1, <1>2, <1>3, <1>5, <1>6 DEF x

(* Nothing of the form changes, and no connection begins or ends one.      *)
LEMMA FormStays ==
  ASSUME FormKept, ~disturbed,
         FormOf(shared') = FormOf(shared), Uploads' = Uploads,
         \A slot \in Uploads :
           /\ Handed(connData'[slot]) = Handed(connData[slot])
           /\ connData'[slot].remote = connData[slot].remote
           /\ LET c == connData'[slot]
              IN  tcp'[c.remote].state = "OPEN" /\ InStep(c, stream'[c.remote]) =>
                    /\ tcp[c.remote].state = "OPEN"
                    /\ InStep(connData[slot], stream[c.remote])
  PROVE  FormKept'
<1>1. /\ shared'.form = shared.form /\ shared'.index = shared.index
      /\ shared'.savedExactly = shared.savedExactly
  BY DEF FormOf
<1>2. /\ shared.savedExactly /\ Len(shared.form) <= FormParts
      /\ Uploads = {} => shared.index = 0
  BY DEF FormKept
<1>3. ASSUME NEW slot \in Uploads
      PROVE  LET c == connData'[slot]
             IN  /\ Uploads = {slot}
                 /\ shared.index > 0 /\ shared.index = Handed(c)
                 /\ tcp'[c.remote].state = "OPEN" /\ InStep(c, stream'[c.remote]) =>
                      \A i \in 1..shared.index : shared.form[i] = Part(c.remote, i)
  BY DEF FormKept
<1> QED
  BY <1>1, <1>2, <1>3 DEF FormKept

(* httpdRecvCb() and the form: that of the only upload, or of another one. *)
LEMMA RecvForm ==
  ASSUME ServerInv, TypeOK', FormKept, NEW client \in Clients, tcp[client].state = "OPEN",
         NEW h, NEW g, NEW rest, Replaced(client, g, rest), g \in Handlers,
         h.c = connData[SlotOf(client)], h.s = shared,
         Keeps(h, stream[client], g, rest),
         disturbed' = \/ disturbed
                      \/ /\ <<g.s.form, g.s.index>> # <<shared.form, shared.index>>
                         /\ Uploads \ {SlotOf(client)} # {}
  PROVE  FormKept'
<1> DEFINE x == SlotOf(client)
           u == Uploads \ {x}
<1>1. /\ x \in Slots /\ connData[x].remote = client /\ connData'[x].remote = client
      /\ x \in Uploads <=> connData[x].cgi = "save"
      /\ x \in Uploads' <=> g.c.cgi = "save"
      /\ Uploads' \ {x} = u
      /\ \A slot \in u :
           /\ connData'[slot] = connData[slot]
           /\ tcp'[connData[slot].remote] = tcp[connData[slot].remote]
           /\ stream'[connData[slot].remote] = stream[connData[slot].remote]
  BY OtherUploads
<1>2. /\ shared' = g.s /\ stream'[client] = rest /\ shared \in SharedVariables
      /\ g.s \in SharedVariables
  BY HandlerFields DEF Replaced, ServerInv, TypeOK
<1>3. Handed(connData'[x]) = Handed(g.c) /\ (InStep(connData'[x], rest) <=> InStep(g.c, rest))
      /\ g.c.remote = client
  BY DEF Replaced, SameRequest, Handed, InStep
<1> HIDE DEF x
<1> SUFFICES ASSUME ~disturbed' PROVE FormKept'
  BY DEF FormKept
<1>4. /\ ~disturbed
      /\ u # {} => g.s.form = shared.form /\ g.s.index = shared.index
  BY DEF x
<1>5. CASE u # {}
  <2>1. PICK slot \in u : TRUE
    BY <1>5
  <2>2. Uploads = {slot} /\ shared.index > 0 /\ x \notin Uploads
    BY <1>4, <2>1 DEF FormKept
  <2>3. h.c.cgi # "save"
    BY <1>1, <2>2 DEF x
  <2>4. Apart(h, stream[client], shared)
    BY <2>3 DEF Apart
  <2>5. Apart(g, rest, shared)
    BY <1>2, <2>2, <2>4 DEF Keeps
  <2>6. FormOf(g.s) = FormOf(shared) /\ g.c.cgi # "save"
    <3>1. g.s.index = shared.index /\ shared.index \in Nat
      BY <1>2, <1>4, <1>5 DEF SharedVariables
    <3> QED
      BY <2>2, <2>5, <3>1 DEF Apart
  <2>7. Uploads' = Uploads /\ u = Uploads
    BY <1>1, <2>2, <2>6
  <2> QED
    BY <1>1, <1>2, <1>4, <2>6, <2>7, FormStays
<1>6. CASE u = {}
  <2>1. /\ shared.savedExactly /\ Len(shared.form) <= FormParts
        /\ Uploads = {} => shared.index = 0
        /\ \A slot \in Uploads :
             LET c == connData[slot]
             IN  /\ shared.index > 0 /\ shared.index = Handed(c)
                 /\ tcp[c.remote].state = "OPEN" /\ InStep(c, stream[c.remote]) =>
                      \A i \in 1..shared.index : shared.form[i] = Part(c.remote, i)
    BY <1>4 DEF FormKept
  <2>2. h.c = connData[x]
    BY DEF x
  <2>3. Alone(h, stream[client])
    <3>1. CASE h.c.cgi = "save"
      <4>1. x \in Uploads
        BY <1>1, <2>2, <3>1
      <4> QED
        BY <1>1, <2>1, <2>2, <3>1, <4>1 DEF Alone
    <3>2. CASE h.c.cgi # "save"
      <4>1. Uploads = {}
        BY <1>1, <1>6, <2>2, <3>2
      <4> QED
        BY <2>1, <3>2, <4>1 DEF Alone
    <3> QED
      BY <3>1, <3>2
  <2>4. Alone(g, rest)
    BY <2>3 DEF Keeps
  <2>5. /\ g.s.savedExactly /\ Len(g.s.form) <= FormParts
        /\ g.c.cgi # "save" => g.s.index = 0
        /\ g.c.cgi = "save" =>
             /\ g.s.index > 0 /\ g.s.index = Handed(g.c)
             /\ InStep(g.c, rest) => \A i \in 1..g.s.index : g.s.form[i] = Part(g.c.remote, i)
    BY <2>4 DEF Alone
  <2>6. CASE g.c.cgi = "save"
    <3>1. Uploads' = {x}
      BY <1>1, <1>6, <2>6
    <3>2. \A slot \in Uploads' :
            LET c == connData'[slot]
            IN  /\ Uploads' = {slot}
                /\ shared'.index > 0 /\ shared'.index = Handed(c)
                /\ tcp'[c.remote].state = "OPEN" /\ InStep(c, stream'[c.remote]) =>
                     \A i \in 1..shared'.index : shared'.form[i] = Part(c.remote, i)
      BY <1>1, <1>2, <1>3, <2>5, <2>6, <3>1
    <3> QED
      BY <1>2, <2>5, <3>1, <3>2 DEF FormKept
  <2>7. CASE g.c.cgi # "save"
    <3>1. Uploads' = {}
      BY <1>1, <1>6, <2>7
    <3> QED
      BY <1>2, <2>5, <2>7, <3>1 DEF FormKept
  <2> QED
    BY <2>6, <2>7
<1> QED
  BY <1>5, <1>6

(* httpdSentCb() and the form: while there is an upload it may not change. *)
LEMMA SentForm ==
  ASSUME ServerInv, TypeOK', FormKept, NEW client \in Clients, tcp[client].state = "OPEN",
         NEW h, NEW g, Replaced(client, g, stream[client]),
         h.c = connData[SlotOf(client)], h.s = shared,
         h.c.cgi # "save" => FormOf(g.s) = FormOf(h.s) /\ g.c.cgi # "save",
         h.c.cgi = "save" => SameRequest(h.c, g.c) /\ g.s.savedExactly = h.s.savedExactly,
         disturbed' = \/ disturbed
                      \/ /\ <<g.s.form, g.s.index>> # <<shared.form, shared.index>>
                         /\ Uploads # {}
  PROVE  FormKept'
<1> DEFINE x == SlotOf(client)
           u == Uploads \ {x}
<1>1. /\ x \in Slots /\ connData[x].remote = client /\ connData'[x].remote = client
      /\ x \in Uploads <=> connData[x].cgi = "save"
      /\ x \in Uploads' <=> g.c.cgi = "save"
      /\ Uploads' \ {x} = u
      /\ \A slot \in u :
           /\ connData'[slot] = connData[slot]
           /\ tcp'[connData[slot].remote] = tcp[connData[slot].remote]
           /\ stream'[connData[slot].remote] = stream[connData[slot].remote]
  BY OtherUploads
<1>2. shared' = g.s /\ stream'[client] = stream[client]
  BY DEF Replaced
<1>3. h.c.cgi = "save" =>
        /\ Handed(connData'[x]) = Handed(connData[x])
        /\ InStep(connData'[x], stream[client]) <=> InStep(connData[x], stream[client])
        /\ g.c.cgi = "save"
  BY DEF Replaced, SameRequest, Handed, InStep
<1>4. h.c = connData[x]
  OBVIOUS
<1> SUFFICES ASSUME ~disturbed' PROVE FormKept'
  BY DEF FormKept
<1>5. /\ ~disturbed
      /\ Uploads # {} => g.s.form = shared.form /\ g.s.index = shared.index
  OBVIOUS
<1> HIDE DEF x
<1>6. FormOf(g.s) = FormOf(shared)
  <2>1. CASE h.c.cgi # "save"
    BY <2>1
  <2>2. CASE h.c.cgi = "save"
    <3>1. Uploads # {}
      BY <1>1, <1>4, <2>2
    <3> QED
      BY <1>5, <2>2, <3>1 DEF FormOf
  <2> QED
    BY <2>1, <2>2
<1>7. Uploads' = Uploads
  <2>1. x \in Uploads' <=> x \in Uploads
    BY <1>1, <1>3, <1>4
  <2>2. Uploads' \ {x} = Uploads \ {x}
    BY <1>1
  <2>3. \A slot : slot \in Uploads' <=> slot \in Uploads
    BY <2>1, <2>2, Zenon
  <2> QED
    BY <2>3, Zenon
<1>8. ASSUME NEW slot \in Uploads
      PROVE  /\ Handed(connData'[slot]) = Handed(connData[slot])
             /\ connData'[slot].remote = connData[slot].remote
             /\ LET c == connData'[slot]
                IN  tcp'[c.remote].state = "OPEN" /\ InStep(c, stream'[c.remote]) =>
                      /\ tcp[c.remote].state = "OPEN"
                      /\ InStep(connData[slot], stream[c.remote])
  <2>1. CASE slot = x
    <3>1. h.c.cgi = "save"
      BY <1>1, <1>4, <1>8, <2>1
    <3>2. /\ Handed(connData'[x]) = Handed(connData[x])
          /\ InStep(connData'[x], stream[client]) <=> InStep(connData[x], stream[client])
      BY <1>3, <3>1
    <3>3. tcp[connData[slot].remote].state = "OPEN"
      BY <1>1, <2>1
    <3>4. stream'[connData'[slot].remote] = stream[client] /\ connData[slot].remote = client
      BY <1>1, <1>2, <2>1
    <3>5. connData'[slot].remote = connData[slot].remote
      BY <1>1, <2>1
    <3> QED
      BY <2>1, <3>2, <3>3, <3>4, <3>5
  <2>2. CASE slot # x
    BY <1>1, <1>8, <2>2
  <2> QED
    BY <2>1, <2>2
<1> QED
  BY <1>2, <1>5, <1>6, <1>7, <1>8, FormStays

(* Memory is refused: a segment is lost, and so is the form it belongs to. *)
LEMMA DropKeeps ==
  ASSUME NEW h, Orderly(h), NEW before \in Seq(AllSegments), before # <<>>, Serving(h, before)
  PROVE  Keeps(h, before, h, Tail(before))
<1>1. /\ h \in Handlers /\ h.c.len \in Nat \cup {-1} /\ h.c.received \in Nat
      /\ Exchange(h.c, h.t, before) /\ Quiet(h)
  BY HandlerFields DEF Serving, Quiet, Connections
<1>2. h.t.waiting /\ h.c.backlog = <<>> /\ h.c.len # 0 /\ SendsItsFile(h.c)
      /\ ~h.c.sendingBody /\ ~h.c.discon
  BY <1>1 DEF Exchange
<1>3. \A s \in SharedVariables : Apart(h, before, s) => Apart(h, Tail(before), s)
  BY DEF Apart
<1>4. CASE h.c.len = -1
  <2>1. h.c.cgi = "NULL"
    BY <1>4 DEF Orderly, AtRest
  <2>2. IsRest(h.c.remote, before) /\ h.c.received = 0 /\ h.c.buff = <<>>
    BY <1>1, <1>4 DEF Exchange
  <2>3. IsRest(h.c.remote, Tail(before))
    <3>1. CASE \E request \in Requests : before = Segments(h.c.remote, request)
      <4>1. PICK request \in Requests : before = Segments(h.c.remote, request)
        BY <3>1
      <4>2. Tail(before) = IF request.name = "save" THEN FormFrom(h.c.remote, 0) ELSE <<>>
        BY <4>1, RequestArrives
      <4>3. 0 \in 0..FormParts
        BY FormPartsAssumption
      <4> QED
        BY <4>2, <4>3 DEF IsRest
    <3>2. CASE \E k \in 0..FormParts : before = FormFrom(h.c.remote, k)
      <4>1. PICK k \in 0..FormParts : before = FormFrom(h.c.remote, k)
        BY <3>2
      <4>2. k + 1 \in 0..FormParts /\ Tail(before) = FormFrom(h.c.remote, k + 1)
        BY <4>1, FormArrives
      <4> QED
        BY <4>2 DEF IsRest
    <3> QED
      BY <2>2, <3>1, <3>2 DEF IsRest
  <2>4. Serving(h, Tail(before))
    BY <1>1, <1>2, <1>4, <2>2, <2>3 DEF Serving, Exchange
  <2>5. Alone(h, before) => Alone(h, Tail(before))
    BY <2>1 DEF Alone
  <2> QED
    BY <1>3, <2>4, <2>5 DEF Keeps
<1>5. CASE h.c.len > 0
  <2>1. Uploading(h.c, before)
    BY <1>1, <1>5 DEF Exchange
  <2>2. PICK k \in h.c.received..FormParts : before = FormFrom(h.c.remote, k)
    BY <2>1 DEF Uploading
  <2>3. k \in 0..FormParts /\ FormParts \in Nat
    BY <1>1, FormPartsAssumption
  <2>4. /\ k + 1 \in 0..FormParts /\ Tail(before) = FormFrom(h.c.remote, k + 1)
        /\ Len(Tail(before)) = FormParts - (k + 1)
    <3>1. k + 1 \in 0..FormParts /\ Tail(before) = FormFrom(h.c.remote, k + 1)
      BY <2>2, <2>3, FormArrives
    <3>2. Len(FormFrom(h.c.remote, k + 1)) = FormParts - (k + 1)
      BY <3>1, FormArrives
    <3> QED
      BY <3>1, <3>2
  <2>5. ~InStep(h.c, Tail(before))
    <3>1. h.c.received \in 0..FormParts
      BY <1>1, <2>2, <2>3
    <3>2. Len(FormFrom(h.c.remote, h.c.received)) = FormParts - h.c.received
      BY <3>1, FormArrives
    <3>3. FormParts - (k + 1) # FormParts - h.c.received
      BY <1>1, <2>2, <2>3
    <3> QED
      BY <2>4, <3>2, <3>3 DEF InStep
  <2>6. Uploading(h.c, Tail(before))
    <3>1. k + 1 \in h.c.received..FormParts
      BY <1>1, <2>2, <2>3, <2>4
    <3>2. \E j \in h.c.received..FormParts : Tail(before) = FormFrom(h.c.remote, j)
      BY <2>4, <3>1
    <3> QED
      BY <2>1, <2>5, <3>2 DEF Uploading
  <2>7. Serving(h, Tail(before))
    BY <1>1, <1>2, <1>5, <2>6 DEF Serving, Exchange
  <2>8. Alone(h, before) => Alone(h, Tail(before))
    BY <2>5 DEF Alone
  <2> QED
    BY <1>3, <2>7, <2>8 DEF Keeps
<1> QED
  BY <1>1, <1>2, <1>4, <1>5

LEMMA AllDropKeeps ==
  ASSUME NEW h, Orderly(h), NEW rest \in Seq(AllSegments), NEW n \in 0..Len(rest), Serving(h, rest)
  PROVE  Keeps(h, rest, h, SubSeq(rest, n + 1, Len(rest)))
<1> DEFINE Left(k) == SubSeq(rest, k + 1, Len(rest))
           T == {k \in Nat : k <= n => Keeps(h, rest, h, Left(k))}
<1>1. n \in Nat /\ Len(rest) \in Nat /\ n <= Len(rest)
  OBVIOUS
<1>2. Left(0) = rest
  <2>1. /\ Left(0) \in Seq(AllSegments) /\ Len(Left(0)) = Len(rest)
        /\ \A i \in 1..Len(rest) : Left(0)[i] = rest[i]
    OBVIOUS
  <2> HIDE DEF Left
  <2> QED
    BY <2>1, SeqEqual
<1>3. 0 \in T
  <2> HIDE DEF Left
  <2> QED
    BY <1>2, KeepsItself
<1>4. ASSUME NEW k \in Nat, k \in T PROVE k + 1 \in T
  <2> SUFFICES ASSUME k + 1 <= n PROVE Keeps(h, rest, h, Left(k + 1))
    OBVIOUS
  <2>1. k < Len(rest) /\ k <= n
    BY <1>1
  <2>2. Keeps(h, rest, h, Left(k))
    BY <1>4, <2>1
  <2>3. /\ Left(k) \in Seq(AllSegments) /\ Left(k) # <<>> /\ Tail(Left(k)) = Left(k + 1)
    BY <2>1, SuffixStep
  <2> HIDE DEF Left
  <2>4. Keeps(h, Left(k), h, Left(k + 1))
    <3>1. Serving(h, Left(k))
      BY <2>2 DEF Keeps
    <3> QED
      BY <2>3, <3>1, DropKeeps
  <2> QED
    BY <2>2, <2>4, KeepsTwice
<1>5. n \in T
  <2>1. Nat \subseteq T
    <3> HIDE DEF T
    <3> QED
      BY <1>3, <1>4, Upwards
  <2> HIDE DEF T
  <2> QED
    BY <1>1, <2>1
<1> QED
  BY <1>1, <1>5

(* The layers of the invariant that are kept along with ServerInv.         *)
Layers == ExchangesKept /\ AnswersKept /\ FormKept

LEMMA RecvCbLayers ==
  ASSUME ServerInv, Layers, NEW client \in Clients, NEW n, RecvCb(client, n)
  PROVE  Layers'
<1> DEFINE segments == SubSeq(stream[client], 1, n)
           rest == SubSeq(stream[client], n + 1, Len(stream[client]))
<1>1. /\ stream[client] \in Seq(AllSegments)
      /\ n \in 1..Len(stream[client]) /\ tcp[client].state = "OPEN"
      /\ stream' = [stream EXCEPT ![client] = rest]
  BY DEF ServerInv, TypeOK, RecvCb
<1>2. PICK outcome \in Outcomes :
        LET h == Handler(client, outcome)
        IN  Commit(client, IF outcome.nomem THEN h ELSE FlushSendBuffer(ReceivedAll(h, segments)),
                   Uploads \ {SlotOf(client)})
  BY DEF RecvCb
<1> DEFINE h == Handler(client, outcome)
           g == IF outcome.nomem THEN h ELSE FlushSendBuffer(ReceivedAll(h, segments))
<1>3. /\ Sound(h) /\ Orderly(h) /\ h.c.remote = client /\ h.t = tcp[client] /\ h.s = shared
      /\ h.e = outcome /\ h.c = connData[SlotOf(client)]
  BY <1>1, HandlerSound
<1>4. ServerInv' /\ TypeOK'
  <2>1. ServerInv'
    BY RecvCbKeeps
  <2> QED
    BY <2>1 DEF ServerInv
<1>5. Serving(h, stream[client]) /\ ExchangesKept /\ AnswersKept /\ FormKept
  BY <1>1, HandlerServing DEF Layers
<1>6. ListsFit /\ ~faulted => Answering(h)
  BY <1>1, <1>5, HandlerAnswering
<1>7. Commit(client, g, Uploads \ {SlotOf(client)})
  BY <1>2
<1> HIDE DEF h
<1>8. /\ Keeps(h, stream[client], g, rest) /\ Serves(h, g)
  <2>1. CASE outcome.nomem
    <3>1. n \in 0..Len(stream[client])
      BY <1>1
    <3>2. Keeps(h, stream[client], h, rest)
      BY <1>1, <1>3, <1>5, <3>1, AllDropKeeps
    <3> QED
      BY <1>3, <2>1, <3>2, ServesItself
  <2>2. CASE ~outcome.nomem
    <3>1. Keeps(h, stream[client], FlushSendBuffer(ReceivedAll(h, segments)), rest)
      BY <1>1, <1>3, <1>5, RecvKeeps
    <3>2. segments \in Seq(AllSegments)
      BY <1>1
    <3> HIDE DEF segments, rest
    <3>3. Serves(h, FlushSendBuffer(ReceivedAll(h, segments)))
      BY <1>3, <3>2, ReceivedFlushed
    <3> QED
      BY <2>2, <3>1, <3>3
  <2> QED
    BY <2>1, <2>2
<1> HIDE DEF g, segments, rest
<1>9. /\ g \in Handlers /\ g.c.remote = client /\ g.t.state = "OPEN" /\ g.e = outcome
      /\ Serving(g, rest) /\ (Answers(h) => Answers(g))
  BY <1>1, <1>3, <1>8 DEF Serves, Sound, Orderly, Keeps
<1>10. Replaced(client, g, rest)
  BY <1>1, <1>7, <1>9, CommitReplaces
<1>11. ExchangesKept'
  BY <1>5, <1>9, <1>10, CommitExchanges
<1>12. AnswersKept'
  <2>1. ASSUME ListsFit, ~faulted'
        PROVE  ~g.t.garbled /\ g.s.aps \in ApCounts \cup {0} /\ Intact(g.c, g.t)
    <3>1. ~faulted /\ ~outcome.refuse /\ ~outcome.noitem
      BY <1>9, <1>10, <2>1 DEF Replaced
    <3>2. Answers(h)
      BY <1>3, <1>6, <2>1, <3>1 DEF Answers, Clean
    <3> QED
      BY <1>9, <3>2 DEF Answers, Answering, Intact
  <2> QED
    BY <1>5, <1>9, <1>10, <2>1, CommitAnswers
<1>13. FormKept'
  <2>1. disturbed' = \/ disturbed
                     \/ /\ <<g.s.form, g.s.index>> # <<shared.form, shared.index>>
                        /\ Uploads \ {SlotOf(client)} # {}
    BY <1>7 DEF Commit
  <2> QED
    BY <1>1, <1>3, <1>4, <1>5, <1>8, <1>9, <1>10, <2>1, RecvForm
<1> QED
  BY <1>11, <1>12, <1>13 DEF Layers

LEMMA SentCbLayers ==
  ASSUME ServerInv, Layers, NEW client \in Clients, SentCb(client)
  PROVE  Layers'
<1>1. /\ stream' = stream /\ tcp[client].state = "OPEN"
      /\ tcp[client] \in TcpConnections /\ tcp[client].unsent > 0
      /\ stream \in [Clients -> Seq(AllSegments)]
  BY DEF ServerInv, TypeOK, SentCb
<1>2. PICK outcome \in Outcomes :
        LET h == Handler(client, outcome)
        IN  Commit(client, Continue([h EXCEPT !.t.unsent = @ - 1]), Uploads)
  BY DEF SentCb
<1> DEFINE h == Handler(client, outcome)
           t == [h.t EXCEPT !.unsent = @ - 1]
           sent == [h EXCEPT !.t = t]
           g == Continue(sent)
           rest == stream[client]
<1>3. /\ Orderly(h) /\ h.c.remote = client /\ h.t = tcp[client] /\ h.s = shared
      /\ h.e = outcome /\ h.c = connData[SlotOf(client)]
  BY <1>1, HandlerSound
<1>4. Serving(h, rest) /\ ExchangesKept /\ AnswersKept /\ FormKept
      /\ connData[SlotOf(client)].outLen = 0
  <2>1. SlotOf(client) \in OpenSlots /\ Serving(h, rest)
    BY <1>1, HandlerServing DEF Layers
  <2> QED
    BY <2>1 DEF Layers, ExchangesKept, SendBufferEmpty
<1>5. ListsFit /\ ~faulted => Answering(h)
  BY <1>1, <1>4, HandlerAnswering
<1>6. [h EXCEPT !.t.unsent = @ - 1] = sent
  OBVIOUS
<1>7. Commit(client, g, Uploads)
  BY <1>2, <1>6
<1> HIDE DEF h
<1>8. /\ t \in TcpConnections /\ t.state = "OPEN" /\ t.unsent < MaxUnsent
      /\ t.got = h.t.got /\ t.garbled = h.t.garbled /\ t.waiting = h.t.waiting
  <2>1. h.t.unsent - 1 \in 0..MaxUnsent /\ h.t.unsent - 1 < MaxUnsent
    BY <1>1, <1>3, MaxUnsentAssumption DEF TcpConnections
  <2> QED
    BY <1>1, <1>3, <2>1 DEF TcpConnections
<1> HIDE DEF t
<1>9. sent \in Handlers /\ sent.c = h.c /\ sent.t = t /\ sent.s = h.s /\ sent.e = h.e
  BY <1>3, <1>8, NewFields DEF Orderly
<1> HIDE DEF sent
<1>10. Orderly(sent)
  BY <1>3, <1>9 DEF Orderly
<1>11. Serving(sent, rest) /\ (Answering(h) => Answering(sent))
  <2>1. Quiet(sent)
    BY <1>3, <1>4, <1>9 DEF Serving, Quiet
  <2>2. Exchange(sent.c, sent.t, rest)
    BY <1>4, <1>8, <1>9 DEF Serving, Exchange
  <2>3. Answering(h) => Answering(sent)
    BY <1>8, <1>9 DEF Answering, Intact
  <2> QED
    BY <2>1, <2>2, <2>3 DEF Serving
<1>12. /\ Orderly(g) /\ g.e = outcome /\ g.c.remote = client /\ g.t.state \in {"OPEN", "CLOSING"}
  BY <1>3, <1>8, <1>9, <1>10, ContinueServes
<1>13. /\ g.t.state = "OPEN" => Serving(g, rest)
       /\ g.t.state # "OPEN" => rest = <<>> /\ g.t.state = "CLOSING"
       /\ g.e = sent.e
       /\ Answers(sent) => /\ ~g.t.garbled /\ g.s.aps \in ApCounts \cup {0}
                           /\ g.t.state = "OPEN" => Intact(g.c, g.t)
       /\ sent.c.cgi # "save" => FormOf(g.s) = FormOf(sent.s) /\ g.c.cgi # "save"
       /\ sent.c.cgi = "save" => /\ SameRequest(sent.c, g.c) /\ g.t.state = "OPEN"
                                 /\ g.s.savedExactly = sent.s.savedExactly
  BY <1>8, <1>9, <1>10, <1>11, ContinueKeeps
<1> HIDE DEF g
<1>14. stream' = [stream EXCEPT ![client] = rest]
  BY <1>1
<1>15. g \in Handlers
  BY <1>12 DEF Orderly
<1> HIDE DEF rest
<1>16. Replaced(client, g, rest)
  BY <1>1, <1>7, <1>12, <1>14, <1>15, CommitReplaces
<1>17. ExchangesKept'
  BY <1>4, <1>13, <1>15, <1>16, CommitExchanges
<1>18. AnswersKept'
  <2>1. ASSUME ListsFit, ~faulted'
        PROVE  /\ ~g.t.garbled /\ g.s.aps \in ApCounts \cup {0}
               /\ g.t.state = "OPEN" => Intact(g.c, g.t)
    <3>1. ~faulted /\ ~outcome.refuse /\ ~outcome.noitem
      BY <1>12, <1>16, <2>1 DEF Replaced
    <3>2. Answers(sent)
      BY <1>3, <1>5, <1>9, <1>11, <2>1, <3>1 DEF Answers, Clean
    <3> QED
      BY <1>13, <3>2
  <2> QED
    BY <1>4, <1>12, <1>16, <2>1, CommitAnswers
<1>19. FormKept'
  <2>1. disturbed' = \/ disturbed
                     \/ /\ <<g.s.form, g.s.index>> # <<shared.form, shared.index>>
                        /\ Uploads # {}
    BY <1>7 DEF Commit
  <2>2. TypeOK'
    <3>1. ServerInv'
      BY SentCbKeeps
    <3> QED
      BY <3>1 DEF ServerInv
  <2>3. Replaced(client, g, stream[client])
    BY <1>16 DEF rest
  <2> QED
    BY <1>1, <1>3, <1>4, <1>9, <1>13, <2>1, <2>2, <2>3, SentForm
<1> QED
  BY <1>17, <1>18, <1>19 DEF Layers

(* Without a connection a CGI function only closes its file, and that of   *)
(* another's form leaves the accumulator alone.                            *)
LEMMA DisconnectedStays ==
  ASSUME NEW h, MayCall(h), h.c.cgi # "NULL", ~h.c.conn
  PROVE  LET s == Cgi(h).h.s
         IN  s.aps = h.s.aps /\ (h.c.cgi # "save" => FormOf(s) = FormOf(h.s))
<1>1. CASE ReadsFile(h.c)
  <2> DEFINE s == [h.s EXCEPT !.files = @ \ {h.c.remote}]
             g == [h EXCEPT !.s = s]
  <2>1. Cgi(h) = Done(CloseFile(h))
    BY <1>1 DEF Cgi, ReadsFile, CgiEspFsHook, CgiEspFsTemplate
  <2>2. CloseFile(h) = g
    BY DEF CloseFile
  <2>3. h \in Handlers /\ h.s \in SharedVariables
    BY HandlerFields DEF MayCall
  <2>4. /\ s \in SharedVariables /\ s.aps = h.s.aps /\ s.form = h.s.form /\ s.index = h.s.index
        /\ s.savedExactly = h.s.savedExactly
    BY <2>3 DEF SharedVariables
  <2> HIDE DEF s
  <2>5. g.s = s
    BY <2>3, <2>4, NewFields
  <2> HIDE DEF g
  <2>6. Cgi(h).h.s = s
    BY <2>1, <2>2, <2>5 DEF Done
  <2> QED
    BY <2>4, <2>6 DEF FormOf
<1>2. CASE ~ReadsFile(h.c)
  <2>1. SendsItsFile(h.c)
    BY <1>2 DEF SendsItsFile
  <2>2. Fulfils(h, Cgi(h))
    BY <1>2, <2>1, CgiFulfils
  <2> QED
    BY <2>2 DEF Fulfils
<1> QED
  BY <1>1, <1>2

LEMMA DisconCbLayers ==
  ASSUME ServerInv, Layers, NEW client \in Clients, DisconCb(client)
  PROVE  Layers'
<1> DEFINE x == SlotOf(client)
<1>1. /\ x \in UsedSlots /\ x \in Slots
      /\ connData[x].remote = client /\ connData[x] \in Connections
      /\ \A slot \in Slots : connData[slot].remote = client => slot = x
      /\ tcp[client].state = "CLOSING"
  BY SlotFound DEF DisconCb
<1>2. PICK outcome \in Outcomes :
        LET h == [Handler(client, outcome) EXCEPT !.c.conn = FALSE]
        IN  shared' = IF h.c.cgi = "NULL" THEN h.s ELSE Cgi(h).h.s
  BY DEF DisconCb
<1> DEFINE begun == Handler(client, outcome)
           c == [begun.c EXCEPT !.conn = FALSE]
           h == [begun EXCEPT !.c = c]
<1>3. Orderly(begun) /\ begun.c.remote = client /\ begun.s = shared /\ begun.c = connData[x]
  BY <1>1, HandlerSound
<1>4. [begun EXCEPT !.c.conn = FALSE] = h
  OBVIOUS
<1>5. shared' = IF h.c.cgi = "NULL" THEN h.s ELSE Cgi(h).h.s
  BY <1>2, <1>4
<1> HIDE DEF begun
<1>6. begun \in Handlers /\ begun.c \in Connections
  BY <1>3, HandlerFields DEF Orderly
<1>7. /\ c \in Connections /\ c.remote = client /\ ~c.conn /\ c.cgi = begun.c.cgi
      /\ c.url = begun.c.url /\ c.chunked = begun.c.chunked /\ c.cgiData = begun.c.cgiData
  BY <1>3, <1>6 DEF Connections
<1> HIDE DEF c
<1>8. h \in Handlers /\ h.c = c /\ h.s = begun.s
  BY <1>6, <1>7, NewFields
<1> HIDE DEF h
<1>9. MayCall(h)
  BY <1>3, <1>7, <1>8 DEF MayCall, Orderly, ReadsFile, AtRest, ItsCgi
<1>10. shared'.aps = shared.aps /\ (connData[x].cgi # "save" => FormOf(shared') = FormOf(shared))
  <2>1. CASE h.c.cgi = "NULL"
    BY <1>3, <1>5, <1>8, <2>1
  <2>2. CASE h.c.cgi # "NULL"
    BY <1>3, <1>5, <1>7, <1>8, <1>9, <2>2, DisconnectedStays
  <2> QED
    BY <2>1, <2>2
<1>11. /\ connData' = [connData EXCEPT ![x] = Free] /\ tcp' = [tcp EXCEPT ![client] = NoTcp]
       /\ stream' = stream /\ faulted' = faulted
       /\ disturbed' = (disturbed \/ x \in Uploads)
  BY DEF DisconCb, RetireConn
<1>12. /\ connData \in [Slots -> Connections \cup {Free, Leaked}]
       /\ tcp \in [Clients -> TcpConnections] /\ stream \in [Clients -> Seq(AllSegments)]
       /\ ExchangesKept /\ AnswersKept /\ FormKept
  BY DEF ServerInv, TypeOK, Layers
<1>13. TypeOK'
  <2>1. ServerInv'
    BY DisconCbKeeps
  <2> QED
    BY <2>1 DEF ServerInv
<1> HIDE DEF x
<1>14. /\ connData'[x] = Free /\ connData'[x].remote \notin Clients
       /\ \A slot \in Slots \ {x} : connData'[slot] = connData[slot]
  BY <1>1, <1>11, <1>12, ClientsAssumption DEF Free
<1>15. /\ tcp'[client] = NoTcp /\ \A other \in Clients \ {client} : tcp'[other] = tcp[other]
  BY <1>11, <1>12
<1>16. ASSUME NEW slot \in UsedSlots'
       PROVE  /\ slot \in UsedSlots /\ connData'[slot] = connData[slot] /\ slot # x
              /\ connData[slot].remote \in Clients \ {client}
  BY <1>1, <1>14, <1>16 DEF UsedSlots
<1>17. ASSUME NEW slot \in OpenSlots'
       PROVE  /\ slot \in OpenSlots /\ connData'[slot] = connData[slot]
              /\ connData[slot].remote \in Clients \ {client}
  BY <1>15, <1>16, <1>17 DEF OpenSlots
<1>18. ExchangesKept'
  <2>1. ASSUME NEW slot \in OpenSlots'
        PROVE  LET d == connData'[slot]
               IN  Exchange(d, tcp'[d.remote], stream'[d.remote]) /\ SendBufferEmpty(d)
    BY <1>11, <1>12, <1>15, <1>17, <2>1 DEF ExchangesKept
  <2>2. ASSUME NEW other \in Clients, tcp'[other].state # "OPEN" PROVE stream'[other] = <<>>
    BY <1>1, <1>11, <1>12, <1>15, <2>2 DEF ExchangesKept
  <2> QED
    BY <2>1, <2>2 DEF ExchangesKept
<1>19. AnswersKept'
  <2> SUFFICES ASSUME ListsFit, ~faulted'
               PROVE  /\ \A slot \in OpenSlots' :
                           Intact(connData'[slot], tcp'[connData'[slot].remote])
                      /\ \A other \in Clients :
                           /\ ~tcp'[other].garbled
                           /\ tcp'[other].state \in {"CLOSED", "CONNECTING"} => tcp'[other].got = 0
                      /\ shared'.aps \in ApCounts \cup {0}
    BY DEF AnswersKept, ListsFit
  <2>1. ~faulted
    BY <1>11
  <2>2. \A slot \in OpenSlots' : Intact(connData'[slot], tcp'[connData'[slot].remote])
    BY <1>12, <1>15, <1>17, <2>1 DEF AnswersKept
  <2>3. ~NoTcp.garbled /\ NoTcp.got = 0
    BY DEF NoTcp
  <2> QED
    BY <1>10, <1>12, <1>15, <2>1, <2>2, <2>3 DEF AnswersKept
<1>20. FormKept'
  <2> SUFFICES ASSUME ~disturbed' PROVE FormKept'
    BY DEF FormKept
  <2>1. ~disturbed /\ x \notin Uploads
    BY <1>11
  <2>2. \A slot \in Slots : slot \in Uploads <=> slot \in UsedSlots /\ connData[slot].cgi = "save"
    BY UploadsAre
  <2>3. \A slot \in Slots :
          slot \in Uploads' <=> slot \in UsedSlots' /\ connData'[slot].cgi = "save"
    BY <1>13, UploadsWillBe
  <2>4. FormOf(shared') = FormOf(shared)
    BY <1>1, <1>10, <2>1, <2>2
  <2>5. UsedSlots' = UsedSlots \ {x}
    BY <1>14, <1>16 DEF UsedSlots
  <2>6. Uploads' = Uploads
    <3>1. Uploads \subseteq Slots /\ Uploads' \subseteq Slots
      BY DEF Uploads
    <3>2. \A slot \in Slots : slot \in Uploads' <=> slot \in Uploads
      BY <1>14, <2>1, <2>2, <2>3, <2>5
    <3> QED
      BY <3>1, <3>2
  <2>7. ASSUME NEW slot \in Uploads
        PROVE  connData'[slot] = connData[slot] /\ connData[slot].remote \in Clients \ {client}
    <3>1. slot \in Slots
      BY DEF Uploads
    <3>2. slot \in UsedSlots'
      BY <2>1, <2>2, <2>5, <2>7, <3>1
    <3> QED
      BY <1>16, <3>2
  <2>8. ASSUME NEW slot \in Uploads
        PROVE  /\ Handed(connData'[slot]) = Handed(connData[slot])
               /\ connData'[slot].remote = connData[slot].remote
               /\ LET d == connData'[slot]
                  IN  tcp'[d.remote].state = "OPEN" /\ InStep(d, stream'[d.remote]) =>
                        /\ tcp[d.remote].state = "OPEN"
                        /\ InStep(connData[slot], stream[d.remote])
    BY <1>11, <1>15, <2>7, <2>8
  <2> QED
    BY <1>12, <2>1, <2>4, <2>6, <2>8, FormStays
<1> QED
  BY <1>18, <1>19, <1>20 DEF Layers

(* Slots, connections and segments of the other clients are untouched, and *)
(* the form is.                                                            *)
LEMMA LayersStay ==
  ASSUME ServerInv, Layers, ServerInv', NEW client \in Clients,
         FormOf(shared') = FormOf(shared), shared'.aps \in ApCounts \cup {0, shared.aps},
         faulted => faulted', disturbed' = disturbed,
         \A other \in Clients \ {client} :
           tcp'[other] = tcp[other] /\ stream'[other] = stream[other],
         tcp'[client].state # "OPEN" => stream'[client] = <<>>,
         \A slot \in UsedSlots :
           slot \in UsedSlots' /\ connData'[slot] = connData[slot],
         \A slot \in UsedSlots' \ UsedSlots : connData'[slot].cgi # "save",
         \A slot \in OpenSlots' :
           connData'[slot].remote = client =>
             LET c == connData'[slot]
             IN  Exchange(c, tcp'[client], stream'[client]) /\ SendBufferEmpty(c),
         \A slot \in OpenSlots' :
           connData'[slot].remote = client /\ connData'[slot].cgi = "save" =>
             /\ tcp[client].state = "OPEN"
             /\ stream'[client] = stream[client],
         ListsFit /\ ~faulted' =>
           /\ \A slot \in OpenSlots' :
                connData'[slot].remote = client => Intact(connData'[slot], tcp'[client])
           /\ ~tcp'[client].garbled
           /\ tcp'[client].state \in {"CLOSED", "CONNECTING"} => tcp'[client].got = 0
  PROVE  Layers'
<1>1. ExchangesKept /\ AnswersKept /\ FormKept /\ TypeOK'
  BY DEF Layers, ServerInv
<1>2. ASSUME NEW slot \in OpenSlots', connData'[slot].remote # client
      PROVE  /\ slot \in OpenSlots /\ connData'[slot] = connData[slot]
             /\ connData[slot].remote \in Clients \ {client}
  <2>1. slot \in UsedSlots' /\ slot \in Slots /\ connData'[slot].remote \in Clients \ {client}
        /\ tcp'[connData'[slot].remote].state = "OPEN"
    BY <1>2 DEF OpenSlots, UsedSlots
  <2>2. tcp[connData'[slot].remote].state = "OPEN"
    BY <2>1
  <2>3. PICK old \in UsedSlots : connData[old].remote = connData'[slot].remote
    BY <2>1, <2>2 DEF ServerInv, OneSlotEach
  <2>4. old \in UsedSlots' /\ connData'[old].remote = connData'[slot].remote
    BY <2>3
  <2>5. old = slot
    BY <2>1, <2>4 DEF ServerInv, OneSlotEach
  <2> QED
    BY <2>1, <2>2, <2>3, <2>5 DEF OpenSlots
<1>3. ExchangesKept'
  <2>1. ASSUME NEW slot \in OpenSlots'
        PROVE  LET d == connData'[slot]
               IN  Exchange(d, tcp'[d.remote], stream'[d.remote]) /\ SendBufferEmpty(d)
    <3>1. CASE connData'[slot].remote = client
      BY <2>1, <3>1
    <3>2. CASE connData'[slot].remote # client
      <4>1. /\ slot \in OpenSlots /\ connData'[slot] = connData[slot]
            /\ connData[slot].remote \in Clients \ {client}
        BY <1>2, <2>1, <3>2
      <4> QED
        BY <1>1, <4>1 DEF ExchangesKept
    <3> QED
      BY <3>1, <3>2
  <2>2. ASSUME NEW other \in Clients, tcp'[other].state # "OPEN" PROVE stream'[other] = <<>>
    BY <1>1, <2>2 DEF ExchangesKept
  <2> QED
    BY <2>1, <2>2 DEF ExchangesKept
<1>4. AnswersKept'
  <2> SUFFICES ASSUME ListsFit, ~faulted'
               PROVE  /\ \A slot \in OpenSlots' :
                           Intact(connData'[slot], tcp'[connData'[slot].remote])
                      /\ \A other \in Clients :
                           /\ ~tcp'[other].garbled
                           /\ tcp'[other].state \in {"CLOSED", "CONNECTING"} => tcp'[other].got = 0
                      /\ shared'.aps \in ApCounts \cup {0}
    BY DEF AnswersKept, ListsFit
  <2>1. ~faulted
    OBVIOUS
  <2>2. ASSUME NEW slot \in OpenSlots'
        PROVE  Intact(connData'[slot], tcp'[connData'[slot].remote])
    <3>1. CASE connData'[slot].remote = client
      BY <2>2, <3>1
    <3>2. CASE connData'[slot].remote # client
      <4>1. /\ slot \in OpenSlots /\ connData'[slot] = connData[slot]
            /\ connData[slot].remote \in Clients \ {client}
        BY <1>2, <2>2, <3>2
      <4> QED
        BY <1>1, <2>1, <4>1 DEF AnswersKept
    <3> QED
      BY <3>1, <3>2
  <2>3. ASSUME NEW other \in Clients
        PROVE  /\ ~tcp'[other].garbled
               /\ tcp'[other].state \in {"CLOSED", "CONNECTING"} => tcp'[other].got = 0
    BY <1>1, <2>1 DEF AnswersKept
  <2>4. shared'.aps \in ApCounts \cup {0}
    BY <1>1, <2>1 DEF AnswersKept
  <2> QED
    BY <2>2, <2>3, <2>4
<1>5. FormKept'
  <2> SUFFICES ASSUME ~disturbed' PROVE FormKept'
    BY DEF FormKept
  <2>1. ~disturbed
    OBVIOUS
  <2>2. \A slot \in Slots : slot \in Uploads <=> slot \in UsedSlots /\ connData[slot].cgi = "save"
    BY UploadsAre
  <2>3. \A slot \in Slots :
          slot \in Uploads' <=> slot \in UsedSlots' /\ connData'[slot].cgi = "save"
    BY <1>1, UploadsWillBe
  <2>4. Uploads' = Uploads
    <3>1. Uploads \subseteq Slots /\ Uploads' \subseteq Slots
      BY DEF Uploads
    <3>2. \A slot \in Slots : slot \in Uploads' <=> slot \in Uploads
      BY <2>2, <2>3
    <3> QED
      BY <3>1, <3>2
  <2>5. ASSUME NEW slot \in Uploads
        PROVE  /\ Handed(connData'[slot]) = Handed(connData[slot])
               /\ connData'[slot].remote = connData[slot].remote
               /\ LET d == connData'[slot]
                  IN  tcp'[d.remote].state = "OPEN" /\ InStep(d, stream'[d.remote]) =>
                        /\ tcp[d.remote].state = "OPEN"
                        /\ InStep(connData[slot], stream[d.remote])
    <3>1. slot \in Slots /\ slot \in UsedSlots /\ slot \in UsedSlots'
          /\ connData'[slot] = connData[slot] /\ connData[slot].cgi = "save"
      BY <2>2 DEF Uploads
    <3>2. CASE connData[slot].remote = client
      <4>1. tcp'[client].state = "OPEN" => slot \in OpenSlots'
        BY <3>1, <3>2 DEF OpenSlots
      <4> QED
        BY <3>1, <3>2, <4>1
    <3>3. CASE connData[slot].remote # client
      <4>1. connData[slot].remote \in Clients \ {client}
        BY <3>1, <3>3 DEF UsedSlots
      <4> QED
        BY <3>1, <4>1
    <3> QED
      BY <3>2, <3>3
  <2> QED
    BY <1>1, <2>1, <2>4, <2>5, FormStays
<1> QED
  BY <1>3, <1>4, <1>5 DEF Layers

LEMMA ConnectCbLayers ==
  ASSUME ServerInv, Layers, NEW client \in Clients, ConnectCb(client)
  PROVE  Layers'
<1> DEFINE x == Min(FreeSlots)
<1>1. /\ connData \in [Slots -> Connections \cup {Free, Leaked}]
      /\ tcp \in [Clients -> TcpConnections] /\ stream \in [Clients -> Seq(AllSegments)]
      /\ faulted \in BOOLEAN
  BY DEF ServerInv, TypeOK
<1>2. /\ tcp[client].state = "CONNECTING" /\ UNCHANGED <<stream, shared, disturbed>>
      /\ stream[client] = <<>>
  BY DEF ConnectCb, Layers, ExchangesKept
<1>3. ServerInv'
  BY ConnectCbKeeps
<1>4. \A slot \in UsedSlots : connData[slot].remote # client
  BY <1>2 DEF ServerInv, OneSlotEach
<1>5. FreeSlots # {} => x \in Slots /\ x \notin UsedSlots
  <2>1. Free.remote \notin Clients
    BY ClientsAssumption DEF Free
  <2> QED
    BY <2>1, FreeSlotFound DEF FreeSlots, UsedSlots
<1>6. FormOf(shared') = FormOf(shared) /\ shared'.aps \in ApCounts \cup {0, shared.aps}
  BY <1>2
<1>7. /\ NoTcp.state = "CLOSED" /\ ~NoTcp.garbled /\ NoTcp.got = 0
      /\ Free.remote \notin Clients /\ Leaked.remote \notin Clients
  BY ClientsAssumption DEF NoTcp, Free, Leaked
<1>8. ListsFit /\ ~faulted => ~tcp[client].garbled /\ tcp[client].got = 0
  BY <1>2 DEF Layers, AnswersKept
<1> HIDE DEF x
<1>9. CASE /\ FreeSlots # {}
           /\ connData' = [connData EXCEPT ![x] = NewConnection(client)]
           /\ tcp' = [tcp EXCEPT ![client].state = "OPEN"]
           /\ UNCHANGED faulted
  <2> DEFINE c == NewConnection(client)
             t == [tcp[client] EXCEPT !.state = "OPEN"]
  <2>1. /\ c.remote = client /\ c.cgi = "NULL" /\ c.len = -1 /\ c.received = 0 /\ c.buff = <<>>
        /\ c.backlog = <<>> /\ ~c.sendingBody /\ ~c.discon /\ c.made = 0 /\ c.out = <<>>
        /\ c.outLen = 0 /\ ~c.chunkHdr /\ c.framed
    BY DEF NewConnection
  <2>2. t.state = "OPEN" /\ t.got = tcp[client].got /\ t.garbled = tcp[client].garbled
    BY <1>1 DEF TcpConnections
  <2>3. tcp' = [tcp EXCEPT ![client] = t] /\ connData' = [connData EXCEPT ![x] = c]
    BY <1>1, <1>9
  <2> HIDE DEF c, t
  <2>4. /\ connData'[x] = c /\ \A slot \in Slots \ {x} : connData'[slot] = connData[slot]
        /\ tcp'[client] = t /\ \A other \in Clients \ {client} : tcp'[other] = tcp[other]
    BY <1>1, <1>5, <1>9, <2>3
  <2>5. UsedSlots' = UsedSlots \cup {x}
    BY <1>5, <1>9, <2>1, <2>4 DEF UsedSlots
  <2>6. \A slot \in UsedSlots : slot \in UsedSlots' /\ connData'[slot] = connData[slot]
    BY <1>5, <1>9, <2>4, <2>5 DEF UsedSlots
  <2>7. ASSUME NEW slot \in OpenSlots', connData'[slot].remote = client PROVE connData'[slot] = c
    BY <1>4, <2>4, <2>5, <2>6, <2>7 DEF OpenSlots
  <2>8. Exchange(c, t, <<>>) /\ SendBufferEmpty(c)
    BY <2>1 DEF Exchange, SendBufferEmpty, SendsItsFile, ReadsFile, IsRest
  <2>9. ListsFit /\ ~faulted => Intact(c, t)
    BY <1>8, <2>1, <2>2 DEF Intact
  <2>10. \A slot \in OpenSlots' :
           connData'[slot].remote = client =>
             LET d == connData'[slot]
             IN  Exchange(d, tcp'[client], stream'[client]) /\ SendBufferEmpty(d)
    BY <1>2, <2>4, <2>7, <2>8
  <2>11. \A slot \in OpenSlots' : connData'[slot].remote = client => connData'[slot].cgi # "save"
    BY <2>1, <2>7
  <2>12. ListsFit /\ ~faulted' =>
           /\ \A slot \in OpenSlots' :
                connData'[slot].remote = client => Intact(connData'[slot], tcp'[client])
           /\ ~tcp'[client].garbled
           /\ tcp'[client].state \in {"CLOSED", "CONNECTING"} => tcp'[client].got = 0
    BY <1>8, <1>9, <2>2, <2>4, <2>7, <2>9
  <2>13. \A slot \in UsedSlots' \ UsedSlots : connData'[slot].cgi # "save"
    BY <2>1, <2>4, <2>5
  <2> QED
    BY <1>2, <1>3, <1>6, <1>9, <2>2, <2>4, <2>6, <2>10, <2>11, <2>12, <2>13, LayersStay
<1>10. CASE /\ tcp' = [tcp EXCEPT ![client] = NoTcp] /\ (faulted => faulted')
            /\ \/ connData' = connData
               \/ FreeSlots # {} /\ connData' = [connData EXCEPT ![x] = Leaked]
  <2>1. /\ tcp'[client] = NoTcp /\ \A other \in Clients \ {client} : tcp'[other] = tcp[other]
    BY <1>1, <1>10
  <2>2. UsedSlots' = UsedSlots /\ \A slot \in UsedSlots : connData'[slot] = connData[slot]
    <3>1. CASE connData' = connData
      BY <3>1 DEF UsedSlots
    <3>2. CASE FreeSlots # {} /\ connData' = [connData EXCEPT ![x] = Leaked]
      <4>1. connData'[x] = Leaked /\ \A slot \in Slots \ {x} : connData'[slot] = connData[slot]
        BY <1>1, <1>5, <3>2
      <4> QED
        BY <1>5, <1>7, <3>2, <4>1 DEF UsedSlots
    <3> QED
      BY <1>10, <3>1, <3>2
  <2>3. \A slot \in OpenSlots' : connData'[slot].remote # client
    BY <1>7, <2>1 DEF OpenSlots
  <2> QED
    BY <1>2, <1>3, <1>6, <1>7, <1>10, <2>1, <2>2, <2>3, LayersStay
<1> QED
  BY <1>9, <1>10 DEF ConnectCb, x

LEMMA ClientsLayers ==
  ASSUME ServerInv, Layers, NEW client \in Clients,
         \/ ClientConnects(client) \/ ConnectionLost(client)
         \/ \E request \in Requests : ClientAsks(client, request)
  PROVE  Layers'
<1>1. /\ tcp \in [Clients -> TcpConnections] /\ stream \in [Clients -> Seq(AllSegments)]
      /\ tcp[client] \in TcpConnections
  BY DEF ServerInv, TypeOK
<1>2. /\ ServerInv' /\ connData' = connData /\ shared' = shared
      /\ faulted' = faulted /\ disturbed' = disturbed
  BY ClientsKeep DEF ClientConnects, ConnectionLost, ClientAsks, history
<1>3. /\ UsedSlots' = UsedSlots /\ FormOf(shared') = FormOf(shared)
      /\ shared'.aps \in ApCounts \cup {0, shared.aps}
  BY <1>2 DEF UsedSlots
<1>4. ExchangesKept /\ AnswersKept
  BY DEF Layers
<1>5. CASE tcp'[client].state # "OPEN" /\ \A other \in Clients \ {client} :
             tcp'[other] = tcp[other] /\ stream'[other] = stream[other]
  <2>1. \A slot \in OpenSlots' : connData'[slot].remote # client
    BY <1>5 DEF OpenSlots
  <2>2. /\ stream'[client] = <<>>
        /\ ListsFit /\ ~faulted =>
             /\ ~tcp'[client].garbled
             /\ tcp'[client].state \in {"CLOSED", "CONNECTING"} => tcp'[client].got = 0
    <3>1. CASE ClientConnects(client)
      <4> DEFINE t == [tcp[client] EXCEPT !.state = "CONNECTING"]
      <4>1. t.got = tcp[client].got /\ t.garbled = tcp[client].garbled
        BY <1>1 DEF TcpConnections
      <4>2. tcp'[client] = t /\ stream' = stream /\ tcp[client].state = "CLOSED"
        BY <1>1, <3>1 DEF ClientConnects
      <4> HIDE DEF t
      <4> QED
        BY <1>4, <4>1, <4>2 DEF AnswersKept, ExchangesKept
    <3>2. CASE ConnectionLost(client)
      <4> DEFINE t == [NoTcp EXCEPT !.state = "CLOSING"]
      <4>1. ~t.garbled /\ t.got = 0
        BY DEF NoTcp
      <4>2. tcp'[client] = t /\ stream'[client] = <<>>
        BY <1>1, <3>2 DEF ConnectionLost
      <4> QED
        BY <4>1, <4>2
    <3>3. CASE \E request \in Requests : ClientAsks(client, request)
      <4>1. tcp[client].state = "OPEN"
            /\ tcp' = [tcp EXCEPT ![client] = [@ EXCEPT !.waiting = TRUE, !.got = 0]]
        BY <3>3 DEF ClientAsks
      <4>2. tcp'[client] = [tcp[client] EXCEPT !.waiting = TRUE, !.got = 0]
        BY <1>1, <4>1
      <4>3. tcp'[client].state = "OPEN"
        BY <1>1, <4>1, <4>2 DEF TcpConnections
      <4> QED
        BY <1>5, <4>3
    <3> QED
      BY <3>1, <3>2, <3>3
  <2> QED
    BY <1>2, <1>3, <1>5, <2>1, <2>2, LayersStay
<1>6. CASE \E request \in Requests : ClientAsks(client, request)
  <2>1. PICK request \in Requests : ClientAsks(client, request)
    BY <1>6
  <2> DEFINE t == [tcp[client] EXCEPT !.waiting = TRUE, !.got = 0]
             rest == Segments(client, request)
  <2>2. /\ tcp[client].state = "OPEN" /\ ~tcp[client].waiting
        /\ tcp' = [tcp EXCEPT ![client] = t] /\ stream' = [stream EXCEPT ![client] = rest]
    BY <2>1 DEF ClientAsks
  <2>3. t.state = "OPEN" /\ t.waiting /\ t.got = 0 /\ t.garbled = tcp[client].garbled
    BY <1>1, <2>2 DEF TcpConnections
  <2>4. IsRest(client, rest)
    BY DEF IsRest
  <2> HIDE DEF t, rest
  <2>5. /\ tcp'[client] = t /\ stream'[client] = rest
        /\ \A other \in Clients \ {client} :
             tcp'[other] = tcp[other] /\ stream'[other] = stream[other]
    BY <1>1, <2>2
  <2>6. ASSUME NEW slot \in OpenSlots', connData'[slot].remote = client
        PROVE  LET c == connData[slot]
               IN  /\ Exchange(c, t, rest) /\ SendBufferEmpty(c) /\ c.cgi # "save"
                   /\ ListsFit /\ ~faulted => Intact(c, t)
    <3> DEFINE c == connData[slot]
    <3>1. slot \in OpenSlots /\ slot \in UsedSlots /\ c.remote = client
      BY <1>2, <1>3, <2>2, <2>6 DEF OpenSlots
    <3>2. Exchange(c, tcp[client], stream[client]) /\ SendBufferEmpty(c) /\ AtRest(c)
      BY <1>4, <3>1 DEF ExchangesKept, ServerInv
    <3>3. ListsFit /\ ~faulted => Intact(c, tcp[client])
      BY <1>4, <3>1 DEF AnswersKept
    <3> HIDE DEF c
    <3>4. c.len = -1 /\ c.backlog = <<>> /\ c.cgi = "NULL"
      BY <2>2, <3>2 DEF Exchange, AtRest
    <3>5. Exchange(c, t, rest)
      BY <2>3, <2>4, <3>1, <3>2, <3>4 DEF Exchange
    <3>6. ListsFit /\ ~faulted => Intact(c, t)
      BY <2>3, <3>3, <3>4 DEF Intact
    <3> QED
      BY <3>2, <3>4, <3>5, <3>6 DEF c
  <2>7. ListsFit /\ ~faulted' => ~tcp'[client].garbled
    BY <1>2, <1>4, <2>3, <2>5 DEF AnswersKept
  <2> QED
    BY <1>2, <1>3, <2>3, <2>5, <2>6, <2>7, LayersStay
<1>7. ClientConnects(client) \/ ConnectionLost(client) =>
        /\ tcp'[client].state # "OPEN"
        /\ \A other \in Clients \ {client} :
             tcp'[other] = tcp[other] /\ stream'[other] = stream[other]
  <2>1. CASE ClientConnects(client)
    BY <1>1, <2>1 DEF ClientConnects
  <2>2. CASE ConnectionLost(client)
    <3>1. [NoTcp EXCEPT !.state = "CLOSING"].state # "OPEN"
      BY DEF NoTcp
    <3> QED
      BY <1>1, <2>2, <3>1 DEF ConnectionLost
  <2> QED
    BY <2>1, <2>2
<1> QED
  BY <1>5, <1>6, <1>7

(* Nothing happens to a connection.                                        *)
LEMMA IdleLayers ==
  ASSUME ServerInv, Layers, ScanCb \/ UNCHANGED vars
  PROVE  Layers'
<1>1. /\ connData' = connData /\ tcp' = tcp /\ stream' = stream
      /\ faulted' = faulted /\ disturbed' = disturbed
  BY DEF ScanCb, history, vars
<1>2. FormOf(shared') = FormOf(shared) /\ shared'.aps \in ApCounts \cup {0, shared.aps}
  <2>1. shared \in SharedVariables
    BY DEF ServerInv, TypeOK
  <2>2. CASE shared' = ScanFailed(shared)
    BY <2>1, <2>2 DEF ScanFailed, SharedVariables, FormOf
  <2>3. CASE \E found \in ApCounts : shared' = ScanDone(shared, found)
    <3>1. PICK found \in ApCounts : shared' = ScanDone(shared, found)
      BY <2>3
    <3> QED
      BY <2>1, <3>1 DEF ScanDone, SharedVariables, FormOf
  <2>4. CASE UNCHANGED vars
    BY <2>4 DEF vars
  <2> QED
    BY <2>2, <2>3, <2>4 DEF ScanCb
<1>3. ExchangesKept /\ AnswersKept /\ FormKept
  BY DEF Layers
<1>4. OpenSlots' = OpenSlots /\ Uploads' = Uploads
  BY <1>1 DEF OpenSlots, UsedSlots, Uploads
<1>5. ExchangesKept'
  BY <1>1, <1>3, <1>4 DEF ExchangesKept
<1>6. AnswersKept'
  BY <1>1, <1>2, <1>3, <1>4 DEF AnswersKept, ListsFit
<1>7. FormKept'
  <2>1. CASE disturbed
    BY <1>1, <2>1 DEF FormKept
  <2>2. CASE ~disturbed
    BY <1>1, <1>2, <1>3, <1>4, <2>2, FormStays
  <2> QED
    BY <2>1, <2>2
<1> QED
  BY <1>5, <1>6, <1>7 DEF Layers

LEMMA StartLayers ==
  /\ Init => Layers
  /\ Restart => Layers'
<1>1. /\ SharedInit.savedExactly /\ SharedInit.form = <<>> /\ SharedInit.index = 0
      /\ SharedInit.aps = 0
  BY DEF SharedInit
<1>2. Free.remote \notin Clients /\ FormParts \in Nat /\ Len(<<>>) = 0
  BY ClientsAssumption, FormPartsAssumption DEF Free
<1>3. NoTcp.state = "CLOSED" /\ ~NoTcp.garbled /\ NoTcp.got = 0
  BY DEF NoTcp
<1>4. ASSUME Init PROVE Layers
  <2>1. OpenSlots = {} /\ Uploads = {}
    BY <1>2, <1>4 DEF Init, OpenSlots, UsedSlots, Uploads
  <2>2. ExchangesKept
    BY <1>4, <2>1 DEF Init, ExchangesKept
  <2>3. AnswersKept
    BY <1>1, <1>3, <1>4, <2>1 DEF Init, AnswersKept
  <2>4. FormKept
    BY <1>1, <1>2, <1>4, <2>1 DEF Init, FormKept
  <2> QED
    BY <2>2, <2>3, <2>4 DEF Layers
<1>5. ASSUME Restart PROVE Layers'
  <2>1. OpenSlots' = {} /\ Uploads' = {}
    BY <1>2, <1>5 DEF Restart, OpenSlots, UsedSlots, Uploads
  <2>2. ExchangesKept'
    BY <1>5, <2>1 DEF Restart, ExchangesKept
  <2>3. AnswersKept'
    BY <1>1, <1>3, <1>5, <2>1 DEF Restart, AnswersKept
  <2>4. FormKept'
    BY <1>1, <1>2, <1>5, <2>1 DEF Restart, FormKept
  <2> QED
    BY <2>2, <2>3, <2>4 DEF Layers
<1> QED
  BY <1>4, <1>5

LEMMA StepLayers ==
  ASSUME ServerInv, Layers, [Next]_vars
  PROVE  Layers'
<1>1. CASE ScanCb \/ UNCHANGED vars
  BY <1>1, IdleLayers
<1>2. CASE Restart
  BY <1>2, StartLayers
<1>3. CASE \E client \in Clients : ConnectCb(client)
  BY <1>3, ConnectCbLayers
<1>4. CASE \E client \in Clients : SentCb(client)
  BY <1>4, SentCbLayers
<1>5. CASE \E client \in Clients : DisconCb(client)
  BY <1>5, DisconCbLayers
<1>6. CASE \E client \in Clients : \E n \in 1..(FormParts + 1) : RecvCb(client, n)
  BY <1>6, RecvCbLayers
<1>7. CASE \E client \in Clients :
             \/ ClientConnects(client) \/ ConnectionLost(client)
             \/ \E request \in Requests : ClientAsks(client, request)
  BY <1>7, ClientsLayers
<1> QED
  BY <1>1, <1>2, <1>3, <1>4, <1>5, <1>6, <1>7 DEF Next, AnyStep

(* The whole inductive invariant: with the pool in order, each connection  *)
(* keeps its place in its exchange of a request and an answer, what it has *)
(* made is what its client has and its backlog holds, and the accumulator  *)
(* of web_interface_cgi_save_config() holds what the upload handed over.   *)
THEOREM ServerInvariance == Spec => []ServerIInv
<1>1. Init => ServerIInv
  BY StartRests, StartLayers DEF ServerIInv, Layers
<1>2. ServerIInv /\ [Next]_vars => ServerIInv'
  <2> SUFFICES ASSUME ServerIInv, [Next]_vars PROVE ServerIInv'
    OBVIOUS
  <2>1. ServerInv /\ Layers
    BY DEF ServerIInv, Layers
  <2>2. ServerInv' /\ Layers'
    BY <2>1, StepKeeps, StepLayers
  <2> QED
    BY <2>2 DEF ServerIInv, Layers
<1> QED
  BY <1>1, <1>2, PTL DEF Spec

(* No answer is garbled on its way through send buffer, chunks and backlog *)
(* (httpdSend(), httpdFlushSendBuffer(), httpdContinue()) for any number   *)
(* of clients and lengths of files, unless the SDK refused a packet or     *)
(* memory.  httpdSend() drops what does not fit, so the scan is assumed to *)
(* find no more access points than one send buffer can list.               *)
THEOREM AnswersCorrect ==
  ASSUME ListsFit
  PROVE  Spec => []AnswersIntact
<1>1. ServerIInv => AnswersIntact
  BY DEF ServerIInv, AnswersKept, AnswersIntact
<1> QED
  BY <1>1, ServerInvariance, PTL

(* A form that fits in the 4096 bytes of its buffer and is uploaded alone  *)
(* and undisturbed stays inside the buffer and is saved as it was sent, in *)
(* whatever segments it arrives (web_interface_cgi_save_config(),          *)
(* httpdRecvCb()), for any number of clients.                              *)
THEOREM SavedCorrect == Spec => []SavedAsSentAlone
<1>1. FormFits /\ Len(shared.form) <= FormParts /\ Len(shared.form) \in Nat => FormInBuffer
  BY FormPartsAssumption DEF FormFits, FormInBuffer, WEB_INTERFACE_FORM_POST_BUFFER_SIZE
<1>2. ServerInv => Len(shared.form) \in Nat
  BY DEF ServerInv, TypeOK, SharedVariables
<1>3. ServerIInv => SavedAsSentAlone
  BY <1>1, <1>2 DEF ServerIInv, FormKept, SavedAsSentAlone
<1> QED
  BY <1>3, ServerInvariance, PTL
================================================================================

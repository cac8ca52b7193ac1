------------------------------ MODULE Heatshrink ------------------------------
(***************************************************************************)
(* The compressor and the decompressor of lib/heatshrink: two machines that *)
(* are fed and emptied piece by piece.  Every definition is a function of   *)
(* the encoder's record e or the decoder's record d; bytes are numbers,     *)
(* bits are sequences of 0 and 1, and e.out and d.out hold what the present *)
(* call of poll() has written to its buffer of the given size.             *)
(***************************************************************************)
EXTENDS Data, SequencesExt

(* Parameters that heatshrink_encoder_alloc() and _decoder_alloc() accept. *)
Parameters(w, l) == w \in 4..15 /\ l >= 3 /\ l < w

-------------------------------------------------------------------------------
(* The encoder.  The buffer holds 2^w bytes of input after 2^w bytes that   *)
(* are scanned for matches; the older part is kept as the bytes it received *)
(* (e.back), before which it is zero.                                      *)
NoMatch == [length |-> 0, pos |-> 0]

NewEncoder(w, l) ==
  [w |-> w, l |-> l, state |-> "NOT_FULL", finishing |-> FALSE, back |-> <<>>,
   input |-> <<>>, scan |-> 0, match |-> NoMatch, outgoing |-> <<>>,
   current |-> <<>>, out |-> <<>>]

(* The byte at a place counted from the start of the input.                *)
BufferAt(e, i) ==
  CASE i >= 0 -> e.input[i + 1]
    [] i < 0 /\ Len(e.back) + i >= 0 -> e.back[Len(e.back) + i + 1]
    [] OTHER -> 0

(* heatshrink_encoder_sink(): how much of the data fits, and the encoder   *)
(* with it.                                                                *)
Sunk(e, data) == Lesser(2^e.w - Len(e.input), Len(data))
Sink(e, data) ==
  LET n == Sunk(e, data)
  IN  [e EXCEPT !.input = @ \o Take(data, n),
                !.state = IF Len(e.input) + n = 2^e.w THEN "FILLED" ELSE @]

FinishEncoder(e) ==
  [e EXCEPT !.finishing = TRUE, !.state = IF @ = "NOT_FULL" THEN "FILLED" ELSE @]

(* find_longest_match(), with the index that do_indexing() built: of the   *)
(* longest matches within the window the nearest, if it pays.              *)
MatchLength(e, pos, maxlen) ==
  CHOOSE n \in 0..maxlen :
    /\ \A k \in 0..(n - 1) : BufferAt(e, pos + k) = BufferAt(e, e.scan + k)
    /\ n < maxlen => BufferAt(e, pos + n) # BufferAt(e, e.scan + n)

FindMatchFar(e) ==
  LET maxlen == Lesser(2^e.l, Len(e.input) - e.scan)
      same == {pos \in (e.scan - 2^e.w - 1)..(e.scan - 1) : BufferAt(e, pos) = BufferAt(e, e.scan)}
      longest == IF same = {} THEN 0 ELSE Max({MatchLength(e, pos, maxlen) : pos \in same})
      nearest == Max({pos \in same : MatchLength(e, pos, maxlen) = longest})
  IN  IF longest > (1 + e.w + e.l) \div 8
      THEN [length |-> longest, pos |-> e.scan - nearest] ELSE NoMatch

FindMatch(e) ==
  LET maxlen == Lesser(2^e.l, Len(e.input) - e.scan)
      same == {pos \in (e.scan - 2^e.w)..(e.scan - 1) : BufferAt(e, pos) = BufferAt(e, e.scan)}
      longest == IF same = {} THEN 0 ELSE Max({MatchLength(e, pos, maxlen) : pos \in same})
      nearest == Max({pos \in same : MatchLength(e, pos, maxlen) = longest})
  IN  IF longest > (1 + e.w + e.l) \div 8
      THEN [length |-> longest, pos |-> e.scan - nearest] ELSE NoMatch

(* st_step_search(): without FinishEncoder() the last 2^l bytes wait for    *)
(* more input.                                                             *)
Search(e) ==
  LET match == FindMatch(e)
  IN  CASE e.scan > Len(e.input) - (IF e.finishing THEN 1 ELSE 2^e.l) ->
             [e EXCEPT !.state = IF e.finishing THEN "FLUSH_BITS" ELSE "SAVE_BACKLOG"]
        [] OTHER ->
             [e EXCEPT !.state = "YIELD_TAG_BIT", !.match = match,
                       !.scan = IF match = NoMatch THEN @ + 1 ELSE @]

(* push_bits(): at most 8 bits, so at most one byte is completed.          *)
Push(e, bits) ==
  LET all == e.current \o bits
  IN  [e EXCEPT !.current = IF Len(all) < 8 THEN all ELSE Drop(all, 8),
                !.out = IF Len(all) < 8 THEN @ ELSE Append(@, ValueOf(Take(all, 8)))]

YieldTagBit(e) ==
  IF e.match = NoMatch
  THEN [Push(e, <<1>>) EXCEPT !.state = "YIELD_LITERAL"]
  ELSE [Push(e, <<0>>) EXCEPT !.state = "YIELD_BR_INDEX",
                              !.outgoing = Bits(e.match.pos - 1, e.w)]

YieldLiteral(e) == [Push(e, Bits(e.input[e.scan], 8)) EXCEPT !.state = "SEARCH"]

PushOutgoing(e) == [Push(e, Take(e.outgoing, 8)) EXCEPT !.outgoing = Drop(@, 8)]

YieldIndex(e) ==
  IF e.outgoing # <<>> THEN PushOutgoing(e)
  ELSE [e EXCEPT !.state = "YIELD_BR_LENGTH", !.outgoing = Bits(e.match.length - 1, e.l)]

YieldLength(e) ==
  IF e.outgoing # <<>> THEN PushOutgoing(e)
  ELSE [e EXCEPT !.state = "SEARCH", !.scan = @ + e.match.length, !.match = NoMatch]

(* save_backlog(): the bytes that were scanned become the window.          *)
SaveBacklog(e) ==
  LET old == e.back \o Take(e.input, e.scan)
  IN  [e EXCEPT !.state = "NOT_FULL", !.scan = 0, !.input = Drop(@, e.scan),
                !.back = Drop(old, Len(old) - Lesser(Len(old), 2^e.w))]

FlushBits(e, size) ==
  CASE e.current = <<>> -> [e EXCEPT !.state = "DONE"]
    [] e.current # <<>> /\ Len(e.out) < size ->
         [e EXCEPT !.state = "DONE",
                   !.out = Append(@, ValueOf(Take(e.current \o Bits(0, 7), 8)))]
    [] OTHER -> e

EncoderStep(e, size) ==
  CASE e.state = "FILLED" -> [e EXCEPT !.state = "SEARCH"]
    [] e.state = "SEARCH" -> Search(e)
    [] e.state = "SAVE_BACKLOG" -> SaveBacklog(e)
    [] e.state = "YIELD_TAG_BIT" /\ Len(e.out) < size -> YieldTagBit(e)
    [] e.state = "YIELD_LITERAL" /\ Len(e.out) < size -> YieldLiteral(e)
    [] e.state = "YIELD_BR_INDEX" /\ Len(e.out) < size -> YieldIndex(e)
    [] e.state = "YIELD_BR_LENGTH" /\ Len(e.out) < size -> YieldLength(e)
    [] OTHER -> e

(* heatshrink_encoder_poll(): FLUSH_BITS falls through to the EMPTY of DONE *)
(* even when the buffer had no room for the last byte.                     *)
RECURSIVE EncoderRun(_, _)
EncoderRun(e, size) ==
  LET From(next) ==
        IF next.state = e.state /\ Len(next.out) = size
        THEN [e |-> next, result |-> "MORE"] ELSE EncoderRun(next, size)
  IN  CASE e.state \in {"NOT_FULL", "DONE"} -> [e |-> e, result |-> "EMPTY"]
        [] e.state = "FLUSH_BITS" -> [e |-> FlushBits(e, size), result |-> "EMPTY"]
        [] OTHER -> From(EncoderStep(e, size))

EncoderPoll(e, size) ==
  IF size = 0 THEN [e |-> e, result |-> "MISUSE"]
              ELSE EncoderRun([e EXCEPT !.out = <<>>], size)

-------------------------------------------------------------------------------
(* The decoder.  d.window holds what was decoded last, before it is zero.  *)
NewDecoder(size, w, l) ==
  [size |-> size, w |-> w, l |-> l, state |-> "TAG_BIT", input |-> <<>>, index |-> 0,
   bits |-> <<>>, offset |-> 0, count |-> 0, window |-> <<>>, out |-> <<>>]

(* heatshrink_decoder_sink(): bytes that were read make room only when all *)
(* have been read.                                                         *)
DecoderSunk(d, data) == Lesser(d.size - Len(d.input), Len(data))
DecoderSink(d, data) == [d EXCEPT !.input = @ \o Take(data, DecoderSunk(d, data))]

(* get_bits(): none when there are fewer than wanted.                      *)
HasBits(d, count) == d.input # <<>> \/ Len(d.bits) >= count

Bit(d, count) ==
  LET fetch == Len(d.bits) < count
      all == IF fetch THEN d.bits \o Bits(d.input[d.index + 1], 8) ELSE d.bits
      last == fetch /\ d.index + 1 = Len(d.input)
  IN  [value |-> ValueOf(Take(all, count)),
       d |-> [d EXCEPT !.bits = Drop(all, count),
                       !.input = IF last THEN <<>> ELSE @,
                       !.index = IF last THEN 0 ELSE IF fetch THEN @ + 1 ELSE @]]

Emit(d, byte) ==
  LET old == Append(d.window, byte)
  IN  [d EXCEPT !.out = Append(@, byte),
                !.window = Drop(old, Len(old) - Lesser(Len(old), 2^d.w))]

TagBit(d) ==
  LET tag == Bit(d, 1)
  IN  [tag.d EXCEPT !.offset = IF tag.value = 0 /\ d.w <= 8 THEN 0 ELSE @,
                    !.state = CASE tag.value = 1 -> "YIELD_LITERAL"
                                [] tag.value = 0 /\ d.w > 8 -> "BACKREF_INDEX_MSB"
                                [] OTHER -> "BACKREF_INDEX_LSB"]

DecodeLiteral(d) ==
  LET literal == Bit(d, 8)
  IN  [Emit(literal.d, literal.value) EXCEPT !.state = "TAG_BIT"]

IndexMsb(d) ==
  LET msb == Bit(d, d.w - 8)
  IN  [msb.d EXCEPT !.offset = msb.value * 2^8, !.state = "BACKREF_INDEX_LSB"]

IndexLsb(d) ==
  LET lsb == Bit(d, Lesser(d.w, 8))
  IN  [lsb.d EXCEPT !.offset = @ + lsb.value + 1, !.count = 0,
                    !.state = IF d.l > 8 THEN "BACKREF_COUNT_MSB" ELSE "BACKREF_COUNT_LSB"]

CountMsb(d) ==
  LET msb == Bit(d, d.l - 8)
  IN  [msb.d EXCEPT !.count = msb.value * 2^8, !.state = "BACKREF_COUNT_LSB"]

CountLsb(d) ==
  LET lsb == Bit(d, Lesser(d.l, 8))
  IN  [lsb.d EXCEPT !.count = @ + lsb.value + 1, !.state = "YIELD_BACKREF"]

(* st_yield_backref(): as much as the buffer takes; the copy may overlap   *)
(* what it produces.                                                       *)
CopyOne(d) ==
  Emit(d, IF d.offset <= Len(d.window) THEN d.window[Len(d.window) - d.offset + 1] ELSE 0)

YieldBackref(d, size) ==
  LET n == Lesser(size - Len(d.out), d.count)
      copied[i \in 0..n] == IF i = 0 THEN d ELSE CopyOne(copied[i - 1])
  IN  [copied[n] EXCEPT !.count = @ - n, !.state = IF d.count = n THEN "TAG_BIT" ELSE @]

WantedBits(d) ==
  CASE d.state = "TAG_BIT" -> 1
    [] d.state = "YIELD_LITERAL" -> 8
    [] d.state = "BACKREF_INDEX_MSB" -> d.w - 8
    [] d.state = "BACKREF_INDEX_LSB" -> Lesser(d.w, 8)
    [] d.state = "BACKREF_COUNT_MSB" -> d.l - 8
    [] d.state = "BACKREF_COUNT_LSB" -> Lesser(d.l, 8)
    [] OTHER -> 0

Starved(d, size) ==
  \/ d.state # "YIELD_BACKREF" /\ ~HasBits(d, WantedBits(d))
  \/ d.state \in {"YIELD_LITERAL", "YIELD_BACKREF"} /\ Len(d.out) = size

DecoderStep(d, size) ==
  CASE Starved(d, size) -> d
    [] ~Starved(d, size) /\ d.state = "TAG_BIT" -> TagBit(d)
    [] ~Starved(d, size) /\ d.state = "YIELD_LITERAL" -> DecodeLiteral(d)
    [] ~Starved(d, size) /\ d.state = "BACKREF_INDEX_MSB" -> IndexMsb(d)
    [] ~Starved(d, size) /\ d.state = "BACKREF_INDEX_LSB" -> IndexLsb(d)
    [] ~Starved(d, size) /\ d.state = "BACKREF_COUNT_MSB" -> CountMsb(d)
    [] ~Starved(d, size) /\ d.state = "BACKREF_COUNT_LSB" -> CountLsb(d)
    [] ~Starved(d, size) /\ d.state = "YIELD_BACKREF" -> YieldBackref(d, size)

RECURSIVE DecoderRun(_, _)
DecoderRun(d, size) ==
  LET From(next) ==
        IF next.state # d.state THEN DecoderRun(next, size)
        ELSE [d |-> next, result |-> IF Len(next.out) = size THEN "MORE" ELSE "EMPTY"]
  IN  From(DecoderStep(d, size))

DecoderPoll(d, size) == DecoderRun([d EXCEPT !.out = <<>>], size)

(* heatshrink_decoder_finish()                                             *)
DecoderFinished(d) == d.state # "YIELD_BACKREF" /\ d.input = <<>>
===============================================================================

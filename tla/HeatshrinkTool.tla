---------------------------- MODULE HeatshrinkTool ----------------------------
(***************************************************************************)
(* The command line tool heatshrink (lib/heatshrink/heatshrink.c): encode() *)
(* and decode() read their input through an io_handle of limited size, in  *)
(* whatever pieces read() returns, and write through another.              *)
(*                                                                         *)
(* An io_handle for reading is [rest, buf, open]: what the file still      *)
(* holds, what lies between the indices read and fill, and whether the     *)
(* descriptor is open.  One for writing is [buf, written].                 *)
(***************************************************************************)
EXTENDS Heatshrink

CONSTANTS
  BUFFER_SIZE,  \* of an io_handle (64 KiB in the code)
  OUT_SIZE      \* of out_buf (4096 in the code)

ASSUME BufferSizeAssumption == BUFFER_SIZE \in Nat \ {0}
ASSUME OutSizeAssumption == OUT_SIZE \in 1..BUFFER_SIZE

OpenRead(content) == [rest |-> content, buf |-> <<>>, open |-> TRUE]
OpenWrite == [buf |-> <<>>, written |-> <<>>]

(* handle_read(): read() may return less than the room that is left (n).   *)
Replenishes(io, size) == Len(io.buf) < size /\ io.open
Readable(io, n) == Lesser(n, Lesser(Len(io.rest), BUFFER_SIZE - Len(io.buf)))
Replenished(io, n) ==
  [rest |-> Drop(io.rest, n), buf |-> io.buf \o Take(io.rest, n), open |-> n > 0]

HandleDrop(io, size) == [io EXCEPT !.buf = Drop(@, size)]

(* handle_sink(): the buffer is written when the data does not fit.        *)
HandleSink(io, data) ==
  IF Len(io.buf) + Len(data) > BUFFER_SIZE
  THEN [buf |-> data, written |-> io.written \o io.buf]
  ELSE [io EXCEPT !.buf = @ \o data]

HandleClose(io) == io.written \o io.buf

-------------------------------------------------------------------------------
(* encoder_sink_read(): feed the data and write what comes of it; without  *)
(* data left, finish as soon as nothing came.                              *)
RECURSIVE WriteEncoded(_, _)
WriteEncoded(e, out) ==
  LET With(polled, sunk) ==
        IF polled.result = "MORE" THEN WriteEncoded(polled.e, sunk)
        ELSE [m |-> polled.e, out |-> sunk, last |-> Len(polled.e.out)]
      Written(polled) == With(polled, HandleSink(out, polled.e.out))
  IN  Written(EncoderPoll(e, OUT_SIZE))

RECURSIVE EncodeData(_, _, _)
EncodeData(e, out, data) ==
  LET rest == Drop(data, Sunk(e, data))
      With(step) == IF rest = <<>> THEN step ELSE EncodeData(step.m, step.out, rest)
  IN  With(WriteEncoded(Sink(e, data), out))

EncoderSinkRead(e, out, data) ==
  LET With(step, finished) ==
        IF data = <<>> /\ step.last = 0
        THEN [m |-> finished, out |-> step.out, done |-> finished.state = "DONE"]
        ELSE [m |-> step.m, out |-> step.out, done |-> FALSE]
      Polled(step) == With(step, FinishEncoder(step.m))
  IN  Polled(IF data = <<>> THEN WriteEncoded(e, out) ELSE EncodeData(e, out, data))

(* decoder_sink_read()                                                     *)
RECURSIVE WriteDecoded(_, _)
WriteDecoded(d, out) ==
  LET With(polled, sunk) ==
        IF polled.result = "MORE" THEN WriteDecoded(polled.d, sunk)
                                  ELSE [m |-> polled.d, out |-> sunk]
      Written(polled) == With(polled, HandleSink(out, polled.d.out))
  IN  Written(DecoderPoll(d, OUT_SIZE))

RECURSIVE DecoderSinkRead(_, _, _)
DecoderSinkRead(d, out, data) ==
  LET rest == Drop(data, DecoderSunk(d, data))
      With(step) == IF rest = <<>> THEN step ELSE DecoderSinkRead(step.m, step.out, rest)
  IN  With(WriteDecoded(DecoderSink(d, data), out))

-------------------------------------------------------------------------------
(* One turn of the loop of encode(): size is window_sz.                    *)
EncodeTurn(tool, n) ==
  LET io == IF Replenishes(tool.in, 2^tool.m.w) THEN Replenished(tool.in, n) ELSE tool.in
      data == Take(io.buf, 2^tool.m.w)
      With(step) == [tool EXCEPT !.m = step.m, !.out = step.out, !.done = step.done,
                                 !.in = HandleDrop(io, Len(data))]
  IN  With(EncoderSinkRead(tool.m, tool.out, data))

(* One turn of the loop of decode(), which ends at the end of the input if *)
(* heatshrink_decoder_finish() has nothing left.                           *)
DecodeTurn(tool, n) ==
  LET io == IF Replenishes(tool.in, 2^tool.m.w) THEN Replenished(tool.in, n) ELSE tool.in
      data == Take(io.buf, 2^tool.m.w)
      With(step) ==
        [tool EXCEPT !.m = step.m, !.out = step.out, !.in = HandleDrop(io, Len(data))]
  IN  IF data = <<>> THEN [tool EXCEPT !.in = io, !.done = DecoderFinished(tool.m)]
                     ELSE With(DecoderSinkRead(tool.m, tool.out, data))
===============================================================================

--------------------------------- MODULE EspFs ---------------------------------
(***************************************************************************)
(* The file system of the web server: mkespfsimage (espfs/mkespfsimage)    *)
(* writes the image on the build host, espfs.c finds and decompresses its  *)
(* files on the device, and cgiEspFsTemplate() of httpdespfs.c expands the *)
(* tokens of a file while it is sent.                                      *)
(*                                                                         *)
(* An image is [level, end, entries]: the options of mkespfsimage (level 0  *)
(* stands for "-c 0"), its length and the headers with their name and data, *)
(* each at the offset where it was written.                                *)
(***************************************************************************)
EXTENDS Heatshrink

CONSTANTS
  TOKEN_MAX,     \* characters of a token that are kept (63 in the code)
  DECODER_INPUT  \* bytes the decoder is fed at most with (16 in the code)

ASSUME TokenMaxAssumption == TOKEN_MAX \in Nat \ {0}
ASSUME DecoderInputAssumption == DECODER_INPUT \in Nat \ {0}

HEADER_SIZE == 16

Aligned(n) == ((n + 3) \div 4) * 4

(* The parameters of the levels 1 to 9 of mkespfsimage.                    *)
Window(level) == <<5, 6, 8, 11, 13>>[(level - 1) \div 2 + 1]
Lookahead(level) == <<3, 3, 4, 4, 4>>[(level - 1) \div 2 + 1]

-------------------------------------------------------------------------------
(* mkespfsimage.  The inner loop of compressHeatshrink() polls until there *)
(* is no more or the output buffer is used up.                             *)
RECURSIVE Drained(_, _, _)
Drained(e, out, room) ==
  LET With(polled) ==
        CASE polled.result = "MISUSE" -> [e |-> e, out |-> out]
          [] polled.result = "EMPTY" -> [e |-> polled.e, out |-> out \o polled.e.out]
          [] polled.result = "MORE" ->
               Drained(polled.e, out \o polled.e.out, room - Len(polled.e.out))
  IN  With(EncoderPoll(e, room))

RECURSIVE Fed(_, _, _, _)
Fed(e, data, out, outsize) ==
  LET rest == Drop(data, Sunk(e, data))
      sunk == IF data = <<>> THEN e
              ELSE IF rest = <<>> THEN FinishEncoder(Sink(e, data)) ELSE Sink(e, data)
      With(polled) == IF rest = <<>> THEN polled.out
                                     ELSE Fed(polled.e, rest, polled.out, outsize)
  IN  With(Drained(sunk, out, outsize - Len(out)))

(* compressHeatshrink(): the parameters, then what the encoder yields, in a *)
(* buffer of twice the size of the file.                                   *)
CompressHeatshrink(data, level) ==
  <<Window(level) * 16 + Lookahead(level)>>
  \o Fed(NewEncoder(Window(level), Lookahead(level)), data, <<>>, 2 * Len(data) - 1)

EmptyImage(level) == [level |-> level, end |-> 0, entries |-> {}]

(* handleFile(): what compression would make longer is stored as it is.    *)
HandleFile(image, name, data) ==
  LET nameLen == Aligned(name.length + 1)
      Stored(plain, stored) ==
        [level |-> image.level,
         end |-> image.end + HEADER_SIZE + nameLen + Aligned(Len(stored)),
         entries |-> image.entries \cup
           {[at |-> image.end, last |-> FALSE, name |-> name.text, nameLen |-> nameLen,
             heatshrink |-> ~plain, fileLenDecomp |-> Len(data), data |-> stored]}]
      Shorter(compressed) ==
        IF Len(compressed) > Len(data) THEN Stored(TRUE, data) ELSE Stored(FALSE, compressed)
  IN  IF image.level = 0 THEN Stored(TRUE, data)
                         ELSE Shorter(CompressHeatshrink(data, image.level))

FinishArchive(image) ==
  [level |-> image.level, end |-> image.end + HEADER_SIZE,
   entries |-> image.entries \cup
     {[at |-> image.end, last |-> TRUE, name |-> "", nameLen |-> 0,
       heatshrink |-> FALSE, fileLenDecomp |-> 0, data |-> <<>>]}]

-------------------------------------------------------------------------------
(* espFsOpen(): header by header, until the name is found, the last header *)
(* is met or there is no header where one should be.                       *)
NoFile == [found |-> FALSE]

OpenEntry(entry) ==
  LET parm == entry.data[1]
  IN  [found |-> TRUE, entry |-> entry, posDecomp |-> 0,
       posComp |-> IF entry.heatshrink THEN 1 ELSE 0,
       dec |-> IF entry.heatshrink
               THEN NewDecoder(DECODER_INPUT, parm \div 16, parm % 16)
               ELSE NewDecoder(DECODER_INPUT, 4, 3)]

RECURSIVE FileFrom(_, _, _)
FileFrom(image, text, p) ==
  LET here == {entry \in image.entries : entry.at = p}
      entry == CHOOSE found \in here : TRUE
  IN  CASE here = {} \/ (\E found \in here : found.last) -> NoFile
        [] (\E found \in here : ~found.last /\ found.name = text) -> OpenEntry(entry)
        [] OTHER -> FileFrom(image, text,
                      Aligned(p + HEADER_SIZE + entry.nameLen + Len(entry.data)))

EspFsOpen(image, text) == FileFrom(image, text, 0)

(* espFsRead(): the file afterwards and the bytes.                         *)
ReadPlain(file, len) ==
  LET bytes == Take(Drop(file.entry.data, file.posComp), len)
  IN  [file |-> [file EXCEPT !.posComp = @ + Len(bytes), !.posDecomp = @ + Len(bytes)],
       bytes |-> bytes]

RECURSIVE ReadHeatshrink(_, _, _)
ReadHeatshrink(file, len, decoded) ==
  LET left == Drop(file.entry.data, file.posComp)
      chunk == Take(left, DECODER_INPUT)
      On(next, all) == IF left = <<>> \/ Len(all) = len THEN [file |-> next, bytes |-> all]
                                                        ELSE ReadHeatshrink(next, len, all)
      With(polled) ==
        On([file EXCEPT !.dec = polled,
                        !.posComp = @ + DecoderSunk(file.dec, chunk),
                        !.posDecomp = @ + Len(polled.out)],
           decoded \o polled.out)
  IN  With(DecoderPoll(DecoderSink(file.dec, chunk), len - Len(decoded)).d)

EspFsRead(file, len) ==
  CASE ~file.entry.heatshrink -> ReadPlain(file, len)
    [] file.entry.heatshrink /\ file.posDecomp = file.entry.fileLenDecomp ->
         [file |-> file, bytes |-> <<>>]
    [] OTHER -> ReadHeatshrink(file, len, <<>>)

-------------------------------------------------------------------------------
(* The templates of cgiEspFsTemplate(): tpl.pos is tokenPos, which lasts   *)
(* from one read to the next.  What the callback sends for a token is      *)
(* written as the token between two marks.                                 *)
NewTemplate == [pos |-> -1, token |-> <<>>, sent |-> <<>>]
MARK == -1
Value(token) == <<MARK>> \o token \o <<MARK>>

ExpandChar(tpl, c) ==
  CASE tpl.pos = -1 /\ c # PERCENT -> [tpl EXCEPT !.sent = Append(@, c)]
    [] tpl.pos = -1 /\ c = PERCENT -> [tpl EXCEPT !.pos = 0, !.token = <<>>]
    [] tpl.pos >= 0 /\ c # PERCENT ->
         IF tpl.pos < TOKEN_MAX THEN [tpl EXCEPT !.pos = @ + 1, !.token = Append(@, c)]
                                ELSE tpl
    [] OTHER ->
         [tpl EXCEPT !.pos = -1,
                     !.sent = @ \o (IF tpl.pos = 0 THEN <<PERCENT>> ELSE Value(tpl.token))]

ExpandFrom(tpl, bytes) ==
  LET expanded[n \in 0..Len(bytes)] ==
        IF n = 0 THEN tpl ELSE ExpandChar(expanded[n - 1], bytes[n])
  IN  expanded[Len(bytes)]

ExpandEachRead(tpl, bytes) == ExpandFrom([tpl EXCEPT !.pos = -1], bytes)

Expand(tpl, bytes) == ExpandFrom(tpl, bytes)
===============================================================================

------------------------------ MODULE FlashImage ------------------------------
(***************************************************************************)
(* From the files on the build host to what a client of the web server     *)
(* receives: mkespfsimage packs two files, the device opens one of them    *)
(* and sends it read by read, as it is or as a template; and, in other     *)
(* behaviours, the tool heatshrink compresses a file and decompresses it   *)
(* again.                                                                  *)
(***************************************************************************)
EXTENDS EspFs, HeatshrinkTool

CONSTANTS
  Chars,      \* the bytes that files consist of
  RunLengths, \* lengths of runs of equal bytes
  MaxRuns,    \* bound: runs in a file
  Levels,     \* of mkespfsimage; 0 for "-c 0"
  Reads,      \* bytes asked for with one call of espFsRead() (1024 in the CGIs)
  ToolWindow, \* option -w of heatshrink; option -l is 3
  ToolInput,  \* option -i of heatshrink
  ReadPieces      \* what read() returns, if the file and the buffer have it

ASSUME CharsAssumption == Chars \subseteq 0..255
ASSUME RunsAssumption == RunLengths \subseteq Nat \ {0} /\ MaxRuns \in Nat
ASSUME LevelsAssumption == Levels \subseteq 0..9
ASSUME ReadsAssumption == Reads \subseteq Nat \ {0}
ASSUME ToolAssumption == Parameters(ToolWindow, 3) /\ ToolInput \in Nat \ {0}
ASSUME PiecesAssumption == ReadPieces \subseteq Nat \ {0}

VARIABLES
  files,   \* the contents of the files to pack, or of the one to compress
  image,   \* what mkespfsimage has written
  reader,  \* the request that is served
  tool     \* the tool heatshrink

imageVars == <<files, image, reader, tool>>

FileNames == <<[text |-> "index.html", length |-> 10],
           [text |-> "140medley.min.js", length |-> 16]>>

Runs == [char : Chars, length : RunLengths]
Content(runs) == FlattenSeq([k \in DOMAIN runs |-> [i \in 1..runs[k].length |-> runs[k].char]])

Idle == [kind |-> "none"]

(* espFsTest() of espfs/espfstest reads until nothing comes, the CGI       *)
(* functions until less than they asked for comes.                         *)
Kinds == {"test", "plain", "template"}

Packed == Cardinality(image.entries)

(* mkespfsimage                                                            *)
Pack ==
  /\ tool = Idle
  /\ Packed < Len(files)
  /\ image' = HandleFile(image, FileNames[Packed + 1], files[Packed + 1])
  /\ UNCHANGED <<files, reader, tool>>

EndImage ==
  /\ tool = Idle
  /\ Packed = Len(files)
  /\ image' = FinishArchive(image)
  /\ UNCHANGED <<files, reader, tool>>

(* The device.                                                             *)
Open(k, kind, len) ==
  /\ tool = Idle
  /\ Packed = Len(files) + 1
  /\ reader = Idle
  /\ reader' = [kind |-> kind, k |-> k, len |-> len, done |-> FALSE,
                file |-> EspFsOpen(image, FileNames[k].text), tpl |-> NewTemplate]
  /\ UNCHANGED <<files, image, tool>>

Read ==
  /\ reader # Idle
  /\ reader.file.found
  /\ ~reader.done
  /\ LET Sent(bytes) ==
           IF reader.kind = "template" THEN Expand(reader.tpl, bytes)
           ELSE [reader.tpl EXCEPT !.sent = @ \o bytes]
         Ends(bytes) ==
           IF reader.kind = "test" THEN bytes = <<>> ELSE Len(bytes) # reader.len
         After(got) == [reader EXCEPT !.file = got.file, !.tpl = Sent(got.bytes),
                                      !.done = Ends(got.bytes)]
     IN  reader' = After(EspFsRead(reader.file, reader.len))
  /\ UNCHANGED <<files, image, tool>>

(* The tool: encode, then decode what was written.                         *)
EncodePiece(n) ==
  /\ tool # Idle
  /\ tool.mode = "encode"
  /\ ~tool.done
  /\ tool' = EncodeTurn(tool, Readable(tool.in, n))
  /\ UNCHANGED <<files, image, reader>>

DecodeNext ==
  /\ tool # Idle
  /\ tool.mode = "encode"
  /\ tool.done
  /\ tool' = [mode |-> "decode", done |-> FALSE, out |-> OpenWrite,
              in |-> OpenRead(HandleClose(tool.out)),
              m |-> NewDecoder(ToolInput, ToolWindow, 3)]
  /\ UNCHANGED <<files, image, reader>>

DecodePiece(n) ==
  /\ tool # Idle
  /\ tool.mode = "decode"
  /\ ~tool.done
  /\ tool' = DecodeTurn(tool, Readable(tool.in, n))
  /\ UNCHANGED <<files, image, reader>>

Ended ==
  \/ reader # Idle /\ reader.file.found /\ reader.done
  \/ tool # Idle /\ tool.mode = "decode" /\ tool.done

EncoderOf(content) ==
  [mode |-> "encode", done |-> FALSE, in |-> OpenRead(content), out |-> OpenWrite,
   m |-> NewEncoder(ToolWindow, 3)]

ImageInit ==
  /\ reader = Idle
  /\ \E n \in 0..MaxRuns : \E runs \in [1..n -> Runs] :
       \/ /\ image \in {EmptyImage(level) : level \in Levels}
          /\ files = <<Content(runs), <<PERCENT>>>>
          /\ tool = Idle
       \/ /\ image = EmptyImage(0)
          /\ files = <<Content(runs)>>
          /\ tool = EncoderOf(Content(runs))

ImageNext ==
  \/ Pack
  \/ EndImage
  \/ \E k \in 1..Len(files), kind \in Kinds, len \in Reads : Open(k, kind, len)
  \/ Read
  \/ \E n \in ReadPieces : EncodePiece(n) \/ DecodePiece(n)
  \/ DecodeNext

-------------------------------------------------------------------------------
(* What a template stands for, token by token of the whole file.           *)
RECURSIVE Expanded(_)
Expanded(content) ==
  LET first == SelectInSeq(content, LAMBDA c : c = PERCENT)
      rest == Drop(content, first)
      second == SelectInSeq(rest, LAMBDA c : c = PERCENT)
  IN  CASE first = 0 -> content
        [] first # 0 /\ second = 0 -> Take(content, first - 1)
        [] OTHER -> Take(content, first - 1)
                    \o (IF second = 1 THEN <<PERCENT>>
                        ELSE Value(Take(rest, Lesser(second - 1, TOKEN_MAX))))
                    \o Expanded(Drop(rest, second))

(* Every file that was packed is found, wherever the alignment of names    *)
(* and data put it.                                                        *)
FilesFound == reader # Idle => reader.file.found

(* A client receives the whole file, whichever way it was stored and       *)
(* however it is read: a read that returns less than was asked for is the  *)
(* last one, and a token may lie across two reads.                         *)
ServedWhole ==
  Ended /\ tool = Idle =>
    reader.tpl.sent = IF reader.kind = "template" THEN Expanded(files[reader.k])
                                                  ELSE files[reader.k]

(* Decompressing undoes compressing, in whatever pieces the data came.     *)
RoundTrip == Ended /\ tool # Idle => HandleClose(tool.out) = files[1]

(* No machine holds more than its buffers do.                              *)
HoldsEncoder(e) == Len(e.input) <= 2^e.w /\ Len(e.back) <= 2^e.w /\ Len(e.current) < 8
HoldsDecoder(d) ==
  Len(d.input) <= d.size /\ Len(d.window) <= 2^d.w /\ Len(d.bits) < 8 /\ d.offset <= 2^d.w

BuffersHold ==
  /\ tool # Idle =>
       /\ Len(tool.in.buf) <= BUFFER_SIZE /\ Len(tool.out.buf) <= BUFFER_SIZE
       /\ IF tool.mode = "encode" THEN HoldsEncoder(tool.m) ELSE HoldsDecoder(tool.m)
  /\ reader # Idle /\ reader.file.found => HoldsDecoder(reader.file.dec)

(* decode() asks again and again at the end of its input until the decoder *)
(* has nothing left, so nothing may be left in it then.                    *)
NothingLeftInside ==
  tool # Idle /\ tool.mode = "decode" /\ ~tool.in.open /\ tool.in.buf = <<>>
    => DecoderFinished(tool.m)

(* From handleFile() of mkespfsimage to the client: every file is found    *)
(* under its name and sent whole.                                          *)
FilesServed == FilesFound /\ ServedWhole

(* Compression with heatshrink loses nothing: neither in the data, nor     *)
(* beyond a buffer, nor inside a machine at its end.                       *)
Lossless == RoundTrip /\ BuffersHold /\ NothingLeftInside
===============================================================================

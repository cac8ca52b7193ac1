---------------------------------- MODULE Codec ----------------------------------
(***************************************************************************)
(* The two encodings of the web server: Base64 (core/base64.c), with the   *)
(* basic authentication that decodes it (core/auth.c), and the percent     *)
(* encoding of forms and addresses (httpdUrlDecode() in core/httpd.c).     *)
(***************************************************************************)
EXTENDS Data

CONSTANTS
  TextBytes,  \* bytes of a text
  MaxText,    \* bound: bytes of a text
  OutSizes    \* sizes of the buffers that are written to

ASSUME CodecAssumption == TextBytes \subseteq 1..255 /\ MaxText \in Nat /\ OutSizes \subseteq Nat

VARIABLES
  job,        \* what is encoded: [kind, plain, size], a text and the size of buffers
  encoded,    \* what became of it, or NOTDONE
  decoded,    \* and what became of that
  entered,    \* did authBasic() let it in?
  terminated  \* does a zero in the buffer end what was decoded?

codecVars == <<job, encoded, decoded, entered, terminated>>

NOTDONE == <<-2>>
FAILED == <<-1>>
SPACE == 32
PLUS == 43
COLON == 58
EQUALS == 61

-------------------------------------------------------------------------------
(* base64enc_tab and base64dec_tab                                         *)
EncTab(v) ==
  CASE v < 26 -> 65 + v
    [] v \in 26..51 -> 97 + v - 26
    [] v \in 52..61 -> 48 + v - 52
    [] v = 62 -> 43
    [] v = 63 -> 47

DecTab(c) ==
  CASE c \in 65..90 -> c - 65
    [] c \in 97..122 -> c - 97 + 26
    [] c \in 48..57 -> c - 48 + 52
    [] c = 43 -> 62
    [] c = 47 -> 63
    [] c = EQUALS -> 0
    [] OTHER -> 255

IsSpace(c) == c = SPACE \/ c \in 9..13

(* base64_encode(): of v only the bits that are still needed are kept.     *)
EncodeByte(s, ch) ==
  LET v == s.v * 256 + ch
      rem == s.rem + 8
  IN  [out |-> s.out \o [k \in 1..(rem \div 6) |-> EncTab((v \div 2^(rem - 6 * k)) % 64)],
       rem |-> rem % 6,
       v |-> v % 2^(rem % 6)]

LastSextet(s) == EncTab(s.v * 2^(6 - s.rem))

Base64Encode(in, out_len) ==
  LET loop[n \in 0..Len(in)] == IF n = 0 THEN [out |-> <<>>, rem |-> 0, v |-> 0]
                                ELSE EncodeByte(loop[n - 1], in[n])
      s == loop[Len(in)]
      out == s.out \o (IF s.rem = 0 THEN <<>> ELSE <<LastSextet(s)>>)
      padded == out \o [k \in 1..((4 - (Len(out) % 4)) % 4) |-> EQUALS]
  IN  IF Len(padded) >= out_len THEN FAILED ELSE padded

(* base64_decode()                                                         *)
DecodeCharLate(s, c, out_len) ==
  LET v == s.v * 64 + DecTab(c)
      rem == s.rem + 6
  IN  CASE s.stop \/ IsSpace(c) -> s
        [] ~s.stop /\ ~IsSpace(c) /\ (c = EQUALS \/ DecTab(c) = 255) -> [s EXCEPT !.stop = TRUE]
        [] OTHER ->
             IF rem <= 8 THEN [s EXCEPT !.v = v, !.rem = rem]
             ELSE [s EXCEPT !.v = v % 2^(rem - 8), !.rem = rem - 8,
                            !.out = Append(@, v \div 2^(rem - 8))]

DecodeChar(s, c, out_len) ==
  LET v == s.v * 64 + DecTab(c)
      rem == s.rem + 6
  IN  CASE s.stop \/ IsSpace(c) -> s
        [] ~s.stop /\ ~IsSpace(c) /\ (c = EQUALS \/ DecTab(c) = 255) -> [s EXCEPT !.stop = TRUE]
        [] OTHER ->
             IF rem < 8 THEN [s EXCEPT !.v = v, !.rem = rem]
             ELSE IF Len(s.out) >= out_len THEN [s EXCEPT !.stop = TRUE, !.failed = TRUE]
             ELSE [s EXCEPT !.v = v % 2^(rem - 8), !.rem = rem - 8,
                            !.out = Append(@, v \div 2^(rem - 8))]

Base64Decode(in, out_len) ==
  LET loop[n \in 0..Len(in)] ==
        IF n = 0 THEN [out |-> <<>>, rem |-> 0, v |-> 0, stop |-> FALSE, failed |-> FALSE]
        ELSE DecodeChar(loop[n - 1], in[n], out_len)
  IN  IF loop[Len(in)].failed THEN FAILED ELSE loop[Len(in)].out

-------------------------------------------------------------------------------
(* httpdHexVal() and httpdUrlDecode()                                      *)
HttpdHexVal(c) ==
  CASE c \in 48..57 -> c - 48
    [] c \in 65..70 -> c - 65 + 10
    [] c \in 97..102 -> c - 97 + 10
    [] OTHER -> 0

UrlChar(s, c) ==
  CASE s.esced = 1 -> [s EXCEPT !.escVal = HttpdHexVal(c) * 16, !.esced = 2]
    [] s.esced = 2 -> [s EXCEPT !.out = Append(@, s.escVal + HttpdHexVal(c)), !.esced = 0]
    [] s.esced = 0 /\ c = PERCENT -> [s EXCEPT !.esced = 1]
    [] s.esced = 0 /\ c = PLUS -> [s EXCEPT !.out = Append(@, SPACE)]
    [] OTHER -> [s EXCEPT !.out = Append(@, c)]

HttpdUrlDecode(val, retLen) ==
  LET loop[n \in 0..Len(val)] ==
        IF n = 0 THEN [out |-> <<>>, esced |-> 0, escVal |-> 0]
        ELSE IF Len(loop[n - 1].out) >= retLen THEN loop[n - 1]
        ELSE UrlChar(loop[n - 1], val[n])
  IN  loop[Len(val)].out

-------------------------------------------------------------------------------
(* authBasic(): what was decoded is compared with every user the           *)
(* application knows.                                                      *)
Users == {<<<<97>>, <<98>>>>, <<<<97>>, <<>>>>}

Matches(userpass, user, pass) ==
  /\ Len(userpass) = Len(user) + Len(pass) + 1
  /\ Take(userpass, Len(user)) = user
  /\ userpass[Len(user) + 1] = COLON
  /\ Drop(userpass, Len(user) + 1) = pass

(* base64_decode() may fill the whole of userpass, and then the terminator *)
(* is written behind it.  Nobody else's byte there: the string ends well   *)
(* all the same; the byte of a name that is filled in next: it does not.   *)
AuthBasic ==
  /\ job.kind = "login" /\ encoded # NOTDONE /\ decoded = NOTDONE
  /\ LET r == Base64Decode(encoded, job.size)
         userpass == IF r = FAILED THEN <<>> ELSE r
         matched == \E u \in Users : Matches(userpass, u[1], u[2])
     IN  /\ decoded' = r
         /\ terminated' = (Len(userpass) < job.size)
         /\ entered' \in IF terminated' THEN {matched} ELSE {matched, FALSE}
  /\ UNCHANGED <<job, encoded>>

-------------------------------------------------------------------------------
(* What browsers make of a text.                                           *)
HexDigit(v, letter) == IF v < 10 THEN 48 + v ELSE letter + v - 10
Escaped(c, letter) == <<PERCENT, HexDigit(c \div 16, letter), HexDigit(c % 16, letter)>>
UrlForms(c) ==
  {Escaped(c, 65), Escaped(c, 97)}
  \cup (IF c = SPACE THEN {<<PLUS>>} ELSE IF c \in {PLUS, PERCENT} THEN {} ELSE {<<c>>})

Begin ==
  /\ encoded = NOTDONE
  /\ \/ /\ job.kind = "base64"
        /\ encoded' = Base64Encode(job.plain, job.size)
     \/ /\ job.kind = "login"
        /\ encoded' = Base64Encode(job.plain, 100)
     \/ /\ job.kind = "form"
        /\ encoded' = <<>>
  /\ UNCHANGED <<job, decoded, entered, terminated>>

(* The browser encodes the next byte; done marks how many.                 *)
EncodeForm ==
  /\ job.kind = "form" /\ encoded # NOTDONE /\ decoded = NOTDONE
  /\ job.done < Len(job.plain)
  /\ \E form \in UrlForms(job.plain[job.done + 1]) : encoded' = encoded \o form
  /\ job' = [job EXCEPT !.done = @ + 1]
  /\ UNCHANGED <<decoded, entered, terminated>>

DecodeForm ==
  /\ job.kind = "form" /\ encoded # NOTDONE /\ decoded = NOTDONE
  /\ job.done = Len(job.plain)
  /\ decoded' = HttpdUrlDecode(encoded, job.size)
  /\ terminated' = (Len(decoded') < job.size)
  /\ UNCHANGED <<job, encoded, entered>>

(* Whoever passes Base64 on may break its lines.                           *)
DecodeBase64 ==
  /\ job.kind = "base64" /\ encoded \notin {NOTDONE, FAILED} /\ decoded = NOTDONE
  /\ \E at \in 0..Len(encoded) :
       decoded' = Base64Decode(Take(encoded, at) \o <<10>> \o Drop(encoded, at), job.size)
  /\ UNCHANGED <<job, encoded, entered, terminated>>

CodecInit ==
  /\ job \in [kind : {"base64", "login", "form"},
              plain : UNION {[1..n -> TextBytes] : n \in 0..MaxText},
              size : OutSizes, done : {0}]
  /\ job.kind = "login" => job.size > 0
  /\ encoded = NOTDONE /\ decoded = NOTDONE
  /\ entered = FALSE /\ terminated = TRUE

CodecNext == Begin \/ EncodeForm \/ DecodeForm \/ DecodeBase64 \/ AuthBasic

-------------------------------------------------------------------------------
(* Base64 is the text's bits in groups of six, filled up with zeros to a   *)
(* group and with "=" to four groups, unless the buffer, which also takes  *)
(* the terminator, is too small.                                           *)
EncodesBits ==
  job.kind = "base64" /\ encoded # NOTDONE =>
    LET n == Len(job.plain)
        groups == (8 * n + 5) \div 6
        length == 4 * ((n + 2) \div 3)
        bit(k) == IF k > 8 * n THEN 0 ELSE Bits(job.plain[(k - 1) \div 8 + 1], 8)[((k - 1) % 8) + 1]
    IN  encoded = IF length + 1 > job.size THEN FAILED
                  ELSE [i \in 1..length |-> IF i > groups THEN EQUALS
                          ELSE EncTab(ValueOf([b \in 1..6 |-> bit(6 * (i - 1) + b)]))]

(* Decoding gives the text back, wherever a line was broken.               *)
DecodesBase64 ==
  job.kind = "base64" /\ decoded # NOTDONE =>
    decoded = IF Len(job.plain) > job.size THEN FAILED ELSE job.plain

(* A form's value arrives as it was typed, however the browser encodes it; *)
(* of a longer one arrives what the buffer takes.                          *)
DecodesForms ==
  job.kind = "form" /\ decoded # NOTDONE => decoded = Take(job.plain, job.size)

(* A login succeeds for a user's name, a colon and that user's password    *)
(* that leave room for a terminator, and never for anything else; of one   *)
(* that just fills the buffer nothing is said (UserpassTerminated).        *)
OnlyUsersEnter ==
  job.kind = "login" /\ decoded # NOTDONE =>
    LET known == \E u \in Users : job.plain = u[1] \o <<COLON>> \o u[2]
    IN  /\ entered => known
        /\ known /\ Len(job.plain) < job.size => entered

(* base64.c and httpdUrlDecode() agree with their definitions up to the    *)
(* last byte of the buffers they are given, and authBasic() up to the last *)
(* but one.                                                                *)
CodecsExact == EncodesBits /\ DecodesBase64 /\ DecodesForms /\ OnlyUsersEnter

(* "zero-terminate user:pass string" (auth.c:36): the terminator lies in   *)
(* userpass.                                                               *)
UserpassTerminated == job.kind = "login" => terminated

(* "The zero-terminated result is written in buff, with at most buffLen    *)
(* bytes used" (httpd.c:164-165).                                          *)
ValueTerminated == job.kind = "form" => terminated
===============================================================================

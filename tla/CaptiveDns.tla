------------------------------- MODULE CaptiveDns -------------------------------
(***************************************************************************)
(* The DNS server that answers every question with the device itself       *)
(* (libesphttpd/util/captdns.c).  A packet is a sequence of bytes; the     *)
(* code's offsets count from 0, sequences from 1.                          *)
(*                                                                         *)
(* Questions are for names of at least one label, written out or ended by  *)
(* one reference to an earlier name.  (For the root's name, and for a      *)
(* reference to a reference, the code finds the wrong end of the name.)    *)
(***************************************************************************)
EXTENDS Data

CONSTANTS
  Labels,       \* labels of names, by a number below 64 that is their length, too
  MaxLabels,    \* bound: labels of a name
  MaxQuestions  \* bound: questions of a packet

ASSUME DnsAssumption == Labels \subseteq 1..63 /\ MaxLabels \in Nat /\ MaxQuestions \in Nat

VARIABLES
  query,  \* [questions, body, ancount, tc]: what a client asks, and as bytes
  reply   \* what captdnsRecv() sends: [body, answers, ancount], or NOREPLY

dnsVars == <<query, reply>>

NOREPLY == [body |-> <<>>, answers |-> <<>>, ancount |-> -1]

HEADER == 12  \* sizeof(DnsHeader)
QTYPE_A == <<0, 1>>
QTYPE_NS == <<0, 2>>
QTYPE_URI == <<1, 0>>
QTYPE_OTHER == <<0, 28>>
QCLASS_IN == <<0, 1>>
QCLASS_URI == <<1, 0>>
DOT == 46
ANY == -1  \* a byte that is not set

Flatten(seqs) ==
  LET all[n \in 0..Len(seqs)] == IF n = 0 THEN <<>> ELSE all[n - 1] \o seqs[n]
  IN  all[Len(seqs)]

(* The letters of a label.                                                 *)
Text(label) == [i \in 1..label |-> 96 + label]
Encode(name) == Flatten([i \in DOMAIN name |-> <<name[i]>> \o Text(name[i])])
Dotted(name) == Flatten([i \in DOMAIN name |-> (IF i = 1 THEN <<>> ELSE <<DOT>>) \o Text(name[i])])

-------------------------------------------------------------------------------
(* labelToStr(): the name at offset p0 of a packet, and the offset after   *)
(* it.  A step of its loop reads a label or follows a reference.           *)
ByteAt(body, p) == IF p - HEADER + 1 \in DOMAIN body THEN body[p - HEADER + 1] ELSE 0

LabelStep(body, s) ==
  LET c == ByteAt(body, s.at)
  IN  IF c < 64
      THEN [s EXCEPT !.res = @ \o (IF @ = <<>> THEN <<>> ELSE <<DOT>>)
                               \o [k \in 1..c |-> ByteAt(body, s.at + k)],
                     !.at = @ + c + 1]
      ELSE [s EXCEPT !.end = s.at + 2,
                     !.at = (256 * c + ByteAt(body, s.at + 1)) % 2^14]

LabelToStrEndsAtTarget(body, p0) ==
  LET size == HEADER + Len(body)
      step[n \in 0..size] ==
        IF n = 0 THEN [at |-> p0, res |-> <<>>, end |-> 0]
        ELSE LET s == step[n - 1]
             IN  IF n > 1 /\ (s.at > size \/ ByteAt(body, s.at) = 0) THEN s ELSE LabelStep(body, s)
      last == step[size]
  IN  [fits |-> last.at <= size, res |-> last.res, next |-> last.at + 1]

LabelToStr(body, p0) ==
  LET size == HEADER + Len(body)
      step[n \in 0..size] ==
        IF n = 0 THEN [at |-> p0, res |-> <<>>, end |-> 0]
        ELSE LET s == step[n - 1]
             IN  IF n > 1 /\ (s.at > size \/ ByteAt(body, s.at) = 0) THEN s ELSE LabelStep(body, s)
      last == step[size]
  IN  [fits |-> last.at <= size, res |-> last.res,
       next |-> IF last.end = 0 THEN last.at + 1 ELSE last.end]

(* strToLabel()                                                            *)
StrToLabel(str) ==
  LET cuts == SelectSeq([i \in 1..(Len(str) + 1) |-> i],
                        LAMBDA i : i > Len(str) \/ str[i] = DOT)
      part(k) == LET from == IF k = 1 THEN 1 ELSE cuts[k - 1] + 1
                 IN  <<cuts[k] - from>> \o SubSeq(str, from, cuts[k] - 1)
  IN  Flatten([k \in DOMAIN cuts |-> part(k)]) \o <<0>>

-------------------------------------------------------------------------------
(* captdnsRecv(): the record for a question, after the name, or nothing.   *)
ShortTtl == <<0, 0, ANY, ANY>>  \* setn16() on a ttl of 32 bits

Record(type) ==
  CASE type = QTYPE_A -> QTYPE_A \o QCLASS_IN \o <<0, 0, 0, 0>> \o <<0, 4>> \o <<192, 168, 4, 1>>
    [] type = QTYPE_NS -> QTYPE_NS \o QCLASS_IN \o ShortTtl \o <<0, 4>> \o <<2, 110, 115, 0>>
    [] type = QTYPE_URI -> QTYPE_URI \o QCLASS_URI \o ShortTtl \o <<0, 4 + 16>>
                           \o <<0, 10>> \o <<0, 1>> \o [i \in 1..16 |-> ANY]
    [] OTHER -> <<>>

AnswerAll(body, count) ==
  LET q[n \in 0..count] ==
        IF n = 0 THEN [p |-> HEADER, answers |-> <<>>, ancount |-> 0, ok |-> TRUE]
        ELSE LET s == q[n - 1]
                 name == LabelToStr(body, s.p)
                 type == <<ByteAt(body, name.next), ByteAt(body, name.next + 1)>>
             IN  IF ~s.ok \/ ~name.fits THEN [s EXCEPT !.ok = FALSE]
                 ELSE IF Record(type) = <<>> THEN [s EXCEPT !.p = name.next + 4]
                 ELSE [s EXCEPT !.p = name.next + 4,
                                !.answers = @ \o StrToLabel(name.res) \o Record(type),
                                !.ancount = @ + 1]
  IN  q[count]

CaptdnsRecv ==
  /\ query.body # <<>>
  /\ reply = NOREPLY
  /\ LET a == AnswerAll(query.body, Len(query.questions))
     IN  reply' = IF query.ancount > 0 \/ query.tc \/ ~a.ok THEN NOREPLY
                  ELSE [body |-> query.body, answers |-> a.answers, ancount |-> a.ancount]
  /\ UNCHANGED query

-------------------------------------------------------------------------------
(* A client adds a question to its packet: the first keep labels are       *)
(* written out, the others referred to where they stand in the first       *)
(* question.                                                               *)
Names == UNION {[1..n -> Labels] : n \in 1..MaxLabels}
Types == {QTYPE_A, QTYPE_NS, QTYPE_URI, QTYPE_OTHER}

Suffix(name, keep) == SubSeq(name, keep + 1, Len(name))
Referred(first, suffix) ==
  LET at == HEADER + Len(Encode(SubSeq(first, 1, Len(first) - Len(suffix))))
  IN  <<192 + at \div 256, at % 256>>

Ask(name, type, keep) ==
  /\ reply = NOREPLY
  /\ Len(query.questions) < MaxQuestions
  /\ keep < Len(name) =>
       /\ query.questions # <<>>
       /\ LET first == query.questions[1].name
          IN  /\ Len(first) >= Len(name) - keep
              /\ Suffix(first, Len(first) - (Len(name) - keep)) = Suffix(name, keep)
  /\ query' = [query EXCEPT
       !.questions = Append(@, [name |-> name, type |-> type]),
       !.body = @ \o Encode(SubSeq(name, 1, keep))
                  \o (IF keep = Len(name) THEN <<0>>
                      ELSE Referred(query.questions[1].name, Suffix(name, keep)))
                  \o type \o QCLASS_IN]
  /\ UNCHANGED reply

DnsInit ==
  /\ query \in [questions : {<<>>}, body : {<<>>}, ancount : {0, 1}, tc : BOOLEAN]
  /\ reply = NOREPLY

DnsNext ==
  \/ \E name \in Names, type \in Types : \E keep \in 0..Len(name) : Ask(name, type, keep)
  \/ CaptdnsRecv

-------------------------------------------------------------------------------
(* A reply answers exactly the questions that were asked of the kinds it   *)
(* knows, in their order, each under its full name, wherever the packet    *)
(* refers to an earlier name; a reply or a cut packet is not answered.     *)
AnswersNameTheQuestions ==
  reply # NOREPLY =>
    LET known == SelectSeq(query.questions, LAMBDA q : q.type # QTYPE_OTHER)
    IN  /\ query.ancount = 0 /\ ~query.tc
        /\ reply.ancount = Len(known)
        /\ reply.answers = Flatten([i \in DOMAIN known |->
             Encode(known[i].name) \o <<0>> \o Record(known[i].type)])

(* Every record is as long as it says.                                     *)
ASSUME RecordLengths ==
  \A type \in {QTYPE_A, QTYPE_NS, QTYPE_URI} :
    LET r == Record(type) IN 256 * r[9] + r[10] = Len(r) - 10
===============================================================================

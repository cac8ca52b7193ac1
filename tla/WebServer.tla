------------------------------- MODULE WebServer -------------------------------
(***************************************************************************)
(* The web server of the configuration mode: the connection pool and the   *)
(* callbacks of libesphttpd (core/httpd.c on core/httpd-nonos.c) serving   *)
(* the CGI functions of WebInterface to several clients at once.           *)
(*                                                                         *)
(* The SDK runs one callback at a time, so each callback is one action on   *)
(* a handler's record h.  What the client sends arrives in segments of any *)
(* length: the end of a header and the parts of a form.                    *)
(***************************************************************************)
EXTENDS WebInterface

CONSTANTS
  Clients,   \* remote addresses
  HTTPD_MAX_CONNECTIONS,
  Urls,      \* names of what the clients ask for
  MaxForm    \* bound: once the form buffer holds more parts, no new upload begins

UrlNames == {"root", "index", "get_config", "start_scan", "scan_result",
             "sensor", "save", "file", "missing"}

ASSUME ClientsAssumption == Clients \cap {NoClient, "FREE", "LEAKED"} = {}
ASSUME PoolAssumption == HTTPD_MAX_CONNECTIONS \in Nat \ {0}
ASSUME UrlsAssumption == Urls \subseteq UrlNames
ASSUME MaxFormAssumption == MaxForm \in Nat

VARIABLES
  connData,  \* the pool: a connection, Free or Leaked
  tcp,       \* the TCP connection of each client, as SDK and client see it
  stream,    \* what each client sent that the server has not received
  shared,    \* the variables of web_interface.c
  faulted,   \* has the SDK refused a packet or memory so far? (history)
  disturbed  \* has an upload not gone through alone and undisturbed? (history)

history == <<faulted, disturbed>>
vars == <<connData, tcp, stream, shared, faulted, disturbed>>

Slots == 1..HTTPD_MAX_CONNECTIONS
Free == [remote |-> "FREE"]
Leaked == [remote |-> "LEAKED"]

(* CLOSING: closed by either side, the disconnect callback is to come.     *)
TcpStates == {"CLOSED", "CONNECTING", "OPEN", "CLOSING"}

NoTcp == [state |-> "CLOSED", unsent |-> 0, got |-> 0, garbled |-> FALSE,
          waiting |-> FALSE]

HTTPD_MAX_POST_LEN == 2  \* parts of a form, one KiB each

(* A request: with HTTP/1.1 the connection is kept for the next one, with  *)
(* HTTP/1.0 or "Connection: close" it is not.  The page and its requests   *)
(* use the first, "file" is fetched by a client that uses the second.      *)
Files == {"index", "file"}
Requests ==
  [name : Urls \ Files, bytes : {0}] \cup [name : Urls \cap Files, bytes : FileBytes]

Segments(client, request) ==
  <<[kind |-> "head", request |-> request]>>
  \o IF request.name # "save" THEN <<>>
     ELSE [k \in 1..FormParts |-> [kind |-> "form", part |-> Part(client, k)]]

(* What may fail in one handler (bound: the SDK runs out of buffers or     *)
(* memory once between two restarts).                                      *)
Fails(kind) == kind \in HttpFaults /\ ~faulted
MayFail(kind) == {FALSE, Fails(kind)}
Outcomes ==
  [refuse : MayFail("refuse"), nomem : MayFail("nomem"), noitem : MayFail("nomem"),
   refuses_call : BOOLEAN]

SlotOf(client) == CHOOSE slot \in Slots : connData[slot].remote = client
Known(client) == \E slot \in Slots : connData[slot].remote = client

-------------------------------------------------------------------------------
(* httpdProcessRequest(): the CGI functions whose URL matches are called in *)
(* the order of the table until one handles the request.                   *)
CgiNames(url) ==
  CASE url.name = "index" -> "template"
    [] url.name = "file" -> "espfs"
    [] OTHER -> url.name

Cgi(h) ==
  CASE h.c.cgi = "root" -> CgiRedirect(h)
    [] h.c.cgi = "template" -> CgiEspFsTemplate(h)
    [] h.c.cgi = "espfs" -> CgiEspFsHook(h)
    [] h.c.cgi = "get_config" -> CgiGetConfig(h)
    [] h.c.cgi = "start_scan" -> CgiStartWifiScan(h)
    [] h.c.cgi = "scan_result" -> CgiGetWifiScanResult(h)
    [] h.c.cgi = "sensor" -> CgiGetSensorReading(h)
    [] h.c.cgi = "save" -> CgiSaveConfig(h)
    [] h.c.cgi = "missing" -> CgiNotFound(h)

Finish(called) == IF called.r = "DONE" THEN CgiIsDone(called.h) ELSE called.h

ProcessRequest(h) ==
  LET called == Cgi([h EXCEPT !.c.cgi = CgiNames(h.c.url), !.c.cgiData = NoData])
  IN  IF called.r = "MORE" THEN FlushSendBuffer(called.h) ELSE Finish(called)

-------------------------------------------------------------------------------
(* httpdRecvCb(), segment by segment; post->len tells where it is.         *)
HeadersComplete(h, request) ==
  LET length == IF request.name = "save" THEN FormParts ELSE 0
      parsed == [h EXCEPT !.c.url = request, !.c.chunked = request.name # "file",
                          !.c.len = length, !.c.made = 0,
                          !.c.buffSize = Least(length, HTTPD_MAX_POST_LEN),
                          !.c.buff = <<>>]
  IN  IF length = 0 THEN ProcessRequest(parsed) ELSE parsed

(* The POST buffer is full, or the form is complete: let the CGI have it.  *)
FormChunk(h) ==
  IF Len(h.c.buff) < h.c.buffSize /\ h.c.received # h.c.len THEN h
  ELSE LET handled == IF h.c.cgi # "NULL" THEN Finish(Cgi(h)) ELSE ProcessRequest(h)
       IN  [handled EXCEPT !.c.buff = <<>>]

Received(h, segment) ==
  CASE h.c.len < 0 /\ segment.kind = "head" -> HeadersComplete(h, segment.request)
    [] h.c.len > 0 /\ segment.kind = "form" ->
         FormChunk([h EXCEPT !.c.buff = Append(@, segment.part), !.c.received = @ + 1])
    [] OTHER -> h

ReceivedAll(h, segments) ==
  LET after[n \in 0..Len(segments)] ==
        IF n = 0 THEN h ELSE Received(after[n - 1], segments[n])
  IN  after[Len(segments)]

-------------------------------------------------------------------------------
(* A handler begins and ends with an empty send buffer.                    *)
Handler(client, outcome) ==
  [c |-> connData[SlotOf(client)], t |-> tcp[client], s |-> shared, e |-> outcome]

(* The connections that have handed over the first part of a form.         *)
Uploads == {slot \in Slots : connData[slot] \notin {Free, Leaked} /\ connData[slot].cgi = "save"}

(* An upload is disturbed when the form changes for another one, is broken  *)
(* off, or is handed to the CGI again by an acknowledgement (SentCb): the   *)
(* CGI then accumulates once more what the POST buffer holds.               *)
Commit(client, h, uploads) ==
  /\ connData' = [connData EXCEPT ![SlotOf(client)] = Emptied(h).c]
  /\ tcp' = [tcp EXCEPT ![client] = h.t]
  /\ shared' = h.s
  /\ faulted' = (faulted \/ h.e.refuse \/ h.e.nomem \/ h.e.noitem)
  /\ disturbed' = \/ disturbed
                  \/ /\ <<h.s.form, h.s.index>> # <<shared.form, shared.index>>
                     /\ uploads # {}

(* httpdRecvCb() with the next n segments.                                 *)
RecvCb(client, n) ==
  /\ tcp[client].state = "OPEN"
  /\ n \in 1..Len(stream[client])
  /\ stream' = [stream EXCEPT ![client] = SubSeq(@, n + 1, Len(@))]
  /\ \E outcome \in Outcomes :
       LET h == Handler(client, outcome)
           handled == ReceivedAll(h, SubSeq(stream[client], 1, n))
       IN  Commit(client, IF outcome.nomem THEN h ELSE FlushSendBuffer(handled),
                  Uploads \ {SlotOf(client)})

(* httpdContinue(): first the backlog, one packet at a time and whether or *)
(* not it is taken; then the end of the connection; then the CGI again.    *)
Continue(h) ==
  CASE h.c.backlog # <<>> ->
         [(IF Takes(h) THEN Transmitted(h, Head(h.c.backlog)) ELSE h)
            EXCEPT !.c.backlog = Tail(@)]
    [] h.c.backlog = <<>> /\ h.c.discon ->
         [h EXCEPT !.t = [NoTcp EXCEPT !.state = "CLOSING", !.garbled = h.t.garbled]]
    [] h.c.backlog = <<>> /\ ~h.c.discon /\ (h.c.cgi = "NULL" \/ h.e.nomem) -> h
    [] OTHER -> FlushSendBuffer(Finish(Cgi(h)))

(* platSentCb(), httpdSentCb(): a packet has been acknowledged.            *)
SentCb(client) ==
  /\ tcp[client].state = "OPEN"
  /\ tcp[client].unsent > 0
  /\ \E outcome \in Outcomes :
       LET h == Handler(client, outcome)
       IN  Commit(client, Continue([h EXCEPT !.t.unsent = @ - 1]), Uploads)
  /\ UNCHANGED stream

RetireConnKeepsSlot(client) ==
  [connData EXCEPT ![SlotOf(client)] = NewConnection(client)]

(* httpdRetireConn()                                                       *)
RetireConn(client) == [connData EXCEPT ![SlotOf(client)] = Free]

(* platDisconCb() or platReconCb(): the CGI cleans up, the slot is free.   *)
DisconCb(client) ==
  /\ tcp[client].state = "CLOSING"
  /\ \E outcome \in Outcomes :
       LET h == [Handler(client, outcome) EXCEPT !.c.conn = FALSE]
       IN  shared' = IF h.c.cgi = "NULL" THEN h.s ELSE Cgi(h).h.s
  /\ connData' = RetireConn(client)
  /\ tcp' = [tcp EXCEPT ![client] = NoTcp]
  /\ disturbed' = (disturbed \/ SlotOf(client) \in Uploads)
  /\ UNCHANGED <<stream, faulted>>

(* httpdConnectCb(): a slot is taken; without one, or without memory for   *)
(* what goes in it, the connection is closed again.  When it is the POST   *)
(* record for which there is no memory, the slot is not given back: no     *)
(* callback finds it, and only a restart frees it.                         *)
FreeSlots == {slot \in Slots : connData[slot] = Free}

ConnectCb(client) ==
  /\ tcp[client].state = "CONNECTING"
  /\ \/ /\ FreeSlots # {}
        /\ connData' = [connData EXCEPT ![Min(FreeSlots)] = NewConnection(client)]
        /\ tcp' = [tcp EXCEPT ![client].state = "OPEN"]
        /\ UNCHANGED faulted
     \/ /\ FreeSlots = {} \/ Fails("nomem")
        /\ tcp' = [tcp EXCEPT ![client] = NoTcp]
        /\ faulted' = (faulted \/ FreeSlots # {})
        /\ UNCHANGED connData
     \/ /\ FreeSlots # {}
        /\ Fails("post_alloc")
        /\ connData' = [connData EXCEPT ![Min(FreeSlots)] = Leaked]
        /\ tcp' = [tcp EXCEPT ![client] = NoTcp]
        /\ faulted' = TRUE
  /\ UNCHANGED <<stream, shared, disturbed>>

-------------------------------------------------------------------------------
(* The clients and the SDK.  The SDK admits a client while it counts fewer *)
(* open connections than httpdPlatInit() allowed.                          *)
Admitted == Cardinality({client \in Clients : tcp[client].state \in {"CONNECTING", "OPEN"}})

ClientConnects(client) ==
  /\ tcp[client].state = "CLOSED"
  /\ Admitted < HTTPD_MAX_CONNECTIONS
  /\ tcp' = [tcp EXCEPT ![client].state = "CONNECTING"]
  /\ UNCHANGED <<connData, stream, shared, history>>

(* A client asks for one thing at a time.  Bounds: nobody asks for more     *)
(* once a restart is armed, and MaxForm.                                   *)
ClientAsks(client, request) ==
  /\ tcp[client].state = "OPEN"
  /\ ~tcp[client].waiting
  /\ ~shared.restart
  /\ request.name = "save" => Len(shared.form) <= MaxForm
  /\ tcp' = [tcp EXCEPT ![client] =
               [@ EXCEPT !.waiting = TRUE, !.got = 0]]
  /\ stream' = [stream EXCEPT ![client] = Segments(client, request)]
  /\ UNCHANGED <<connData, shared, history>>

(* The client goes away, or the SDK gives an idle connection up.           *)
ConnectionLost(client) ==
  /\ tcp[client].state = "OPEN"
  /\ tcp' = [tcp EXCEPT ![client] = [NoTcp EXCEPT !.state = "CLOSING"]]
  /\ stream' = [stream EXCEPT ![client] = <<>>]
  /\ UNCHANGED <<connData, shared, history>>

ScanCb ==
  /\ shared.scanning
  /\ \/ \E found \in ApCounts : shared' = ScanDone(shared, found)
     \/ shared' = ScanFailed(shared)
  /\ UNCHANGED <<connData, tcp, stream, history>>

(* The restart after a saved configuration, into configuration mode again. *)
Restart ==
  /\ shared.restart
  /\ connData' = [slot \in Slots |-> Free]
  /\ tcp' = [client \in Clients |-> NoTcp]
  /\ stream' = [client \in Clients |-> <<>>]
  /\ shared' = SharedInit
  /\ faulted' = FALSE
  /\ disturbed' = FALSE

Init ==
  /\ connData = [slot \in Slots |-> Free]
  /\ tcp = [client \in Clients |-> NoTcp]
  /\ stream = [client \in Clients |-> <<>>]
  /\ shared = SharedInit
  /\ faulted = FALSE
  /\ disturbed = FALSE

AnyStep ==
  \/ ScanCb
  \/ Restart
  \/ \E client \in Clients :
       \/ ConnectCb(client) \/ SentCb(client) \/ DisconCb(client)
       \/ \E n \in 1..(FormParts + 1) : RecvCb(client, n)
       \/ ClientConnects(client) \/ ConnectionLost(client)
       \/ \E request \in Requests : ClientAsks(client, request)

(* Nothing was written past the end of the form buffer.                    *)
FormInBuffer == Len(shared.form) <= WEB_INTERFACE_FORM_POST_BUFFER_SIZE

(* What lies behind the buffer on the heap is anything's: once a form has  *)
(* been copied over it the program is undefined and is followed no further. *)
Next ==
  \/ FormInBuffer /\ AnyStep
  \/ ~FormInBuffer /\ UNCHANGED vars

Spec == Init /\ [][Next]_vars

Symmetry == Permutations(Clients)

-------------------------------------------------------------------------------
Parts == [by : Clients, k : 1..FormParts]
AllSegments ==
  [kind : {"head"}, request : Requests] \cup [kind : {"form"}, part : Parts]
CgiFunctions ==
  {"NULL", "root", "template", "espfs", "get_config", "start_scan", "scan_result",
   "sensor", "save", "missing"}
Packets == [len : Nat, pieces : Seq(Nat), ends : BOOLEAN, framed : BOOLEAN]
Connections ==
  [remote : Clients, conn : BOOLEAN, url : Requests \cup {NoUrl}, cgi : CgiFunctions,
   cgiData : Nat \cup {NoData}, len : Nat \cup {-1}, buffSize : Nat, received : Nat,
   buff : Seq(Parts), chunked : BOOLEAN, sendingBody : BOOLEAN, discon : BOOLEAN,
   backlog : Seq(Packets), made : Nat, out : Seq(Nat), outLen : Nat,
   chunkHdr : BOOLEAN, framed : BOOLEAN]
TcpConnections ==
  [state : TcpStates, unsent : 0..MaxUnsent, got : Nat, garbled : BOOLEAN,
   waiting : BOOLEAN]
SharedVariables ==
  [form : Seq(Parts), index : Nat, savedExactly : BOOLEAN, restart : BOOLEAN,
   waiting : BOOLEAN, scanning : BOOLEAN, aps : Nat, files : SUBSET Clients]

TypeOK ==
  /\ connData \in [Slots -> Connections \cup {Free, Leaked}]
  /\ tcp \in [Clients -> TcpConnections]
  /\ stream \in [Clients -> Seq(AllSegments)]
  /\ shared \in SharedVariables
  /\ faulted \in BOOLEAN /\ disturbed \in BOOLEAN

(* A TCP connection that is served has one slot of the pool, and the slot  *)
(* goes back to the pool with it, on whichever side and at whichever step  *)
(* of a request it ends.                                                   *)
SlotsAreConnections ==
  \A client \in Clients :
    Cardinality({slot \in Slots : connData[slot].remote = client})
      = IF tcp[client].state \in {"OPEN", "CLOSING"} THEN 1 ELSE 0

(* A file is open exactly while a connection reads it: neither an answer   *)
(* that ends nor a client that goes away leaves one open.                  *)
FilesBelongToReaders ==
  shared.files =
    {client \in Clients : Known(client)
       /\ connData[SlotOf(client)].cgi \in {"template", "espfs"}}

(* Slots that are taken though no connection has them.                     *)
LostSlots == {slot \in Slots : connData[slot] = Leaked}

(* A slot is lost only to the POST record for which there was no memory    *)
(* when its connection began, and that failure costs no more than one.     *)
SlotsAccounted ==
  LostSlots # {} =>
    /\ faulted /\ "post_alloc" \in HttpFaults
    /\ \A slot, other \in LostSlots : slot = other

(* Served connections have one slot each and give it back, no file stays   *)
(* open behind its reader, and no slot is lost but the one whose POST      *)
(* record could not be allocated (httpdConnectCb(), httpdRetireConn(),     *)
(* cgiEspFsHook()).                                                        *)
PoolKept == SlotsAreConnections /\ SlotsAccounted /\ FilesBelongToReaders

(* Every slot is either free or serves a connection, memory or not         *)
(* ("retires a connection for re-use").                                    *)
SlotsReturn == LostSlots = {}

(* Whatever is left to be done for a connection (a packet in the backlog,  *)
(* more data of a file, closing it) is done when a packet is acknowledged, *)
(* so there is a packet to be acknowledged.  (Not so with a file that ends *)
(* with a full read of httpdespfs.c and is fetched without chunks.)        *)
LeftToDo(c) ==
  c.backlog # <<>> \/ c.discon \/ c.cgi \in {"template", "espfs"}

GoesOn(c) ==
  LeftToDo(c) /\ tcp[c.remote].state = "OPEN" => tcp[c.remote].unsent > 0 \/ faulted

SomethingUnsent ==
  \A slot \in Slots : connData[slot] \notin {Free, Leaked} => GoesOn(connData[slot])

(* Answers arrive complete, in order and well framed, through send buffer, *)
(* backlog and whatever else is served at the same time.                   *)
AnswersIntact ==
  \A client \in Clients : tcp[client].garbled => faulted

(* The flag that keeps a second scan from starting is set exactly while    *)
(* the SDK scans: it is neither stuck nor early.                           *)
ScanFlagTrue == shared.waiting <=> shared.scanning

(* The form of a client, by itself, is no longer than the buffer.          *)
FormFits == FormParts <= WEB_INTERFACE_FORM_POST_BUFFER_SIZE

(* A client told that its configuration is saved has saved what it sent,   *)
(* and nothing is written past the form buffer, as long as forms fit in    *)
(* it, were uploaded one after the other and to their ends, and no         *)
(* acknowledgement of an earlier answer came between their parts.  (The    *)
(* other property of the buffer, without these conditions, is FormInBuffer *)
(* above: "used to process partial arrival of POST data".)                 *)
SavedAsSentAlone == FormFits /\ ~disturbed => shared.savedExactly /\ FormInBuffer

-------------------------------------------------------------------------------
(* The inductive invariant of WebServerProofs.                             *)
ReadsFile(c) == c.cgi \in {"template", "espfs"}

(* The CGI is that of the request; only "file" is answered without chunks. *)
ItsCgi(c) ==
  c.cgi # "NULL" => c.cgi = CgiNames(c.url) /\ (c.chunked <=> c.url.name # "file")

(* A connection between two handlers: no CGI before the headers are        *)
(* complete, a body only for the request that has one.                     *)
AtRest(c) ==
  /\ c.conn
  /\ c.len = -1 => c.cgi = "NULL"
  /\ c.len > 0 => c.url.name = "save" /\ c.chunked
  /\ ItsCgi(c)

(* No file ends with a read, so the last call of its CGI finds something.  *)
EndsInside(bytes) == bytes % READ # 0
FilesEndInside == \A bytes \in FileBytes : EndsInside(bytes)

ReadsOn(c) == ReadsFile(c) /\ c.cgiData # NoData => EndsInside(c.cgiData)

UsedSlots == {slot \in Slots : connData[slot].remote \in Clients}

(* One slot for each open connection, and none for any other.              *)
OneSlotEach ==
  /\ \A slot, other \in UsedSlots :
       connData[slot].remote = connData[other].remote => slot = other
  /\ \A client \in Clients :
       tcp[client].state \in {"OPEN", "CLOSING"} <=>
         \E slot \in UsedSlots : connData[slot].remote = client

ServerInv ==
  /\ TypeOK
  /\ OneSlotEach
  /\ \A slot \in UsedSlots : AtRest(connData[slot])
  /\ \A slot \in UsedSlots :
       connData[slot].remote \in shared.files <=> ReadsFile(connData[slot])
  /\ \A client \in shared.files : \E slot \in UsedSlots : connData[slot].remote = client
  /\ ScanFlagTrue
  /\ shared.index <= Len(shared.form)
  /\ FilesEndInside =>
       \A slot \in UsedSlots : ReadsOn(connData[slot]) /\ GoesOn(connData[slot])

(* What of a form follows its part k, as it arrives.                       *)
FormFrom(client, k) ==
  [i \in 1..(FormParts - k) |-> [kind |-> "form", part |-> Part(client, k + i)]]

IsRest(client, rest) ==
  \/ rest = <<>>
  \/ \E request \in Requests : rest = Segments(client, request)
  \/ \E k \in 0..FormParts : rest = FormFrom(client, k)

(* Parts of the form that the CGI has had.                                 *)
Handed(c) == c.received - Len(c.buff)

(* No part of the form has been lost on its way.                           *)
InStep(c, rest) == rest = FormFrom(c.remote, c.received)

Uploading(c, rest) ==
  /\ c.len = FormParts /\ c.received < FormParts /\ Handed(c) >= 0
  /\ c.cgi = "NULL" => Handed(c) = 0
  /\ \E k \in c.received..FormParts : rest = FormFrom(c.remote, k)
  /\ InStep(c, rest) => \A i \in 1..Len(c.buff) : c.buff[i] = Part(c.remote, Handed(c) + i)

(* The headers are sent before the first read of a file.                   *)
SendsItsFile(c) == ReadsFile(c) /\ c.cgiData # NoData => c.sendingBody

(* Where a connection stands in its exchange of a request and an answer:   *)
(* the client asks again only when nothing of either is left anywhere.     *)
Exchange(c, t, rest) ==
  /\ c.len = -1 => c.received = 0 /\ c.buff = <<>> /\ IsRest(c.remote, rest)
  /\ c.len = 0 => rest = <<>> /\ c.url.name # "save" /\ (c.cgi = "NULL" => ~c.chunked)
  /\ c.len > 0 => Uploading(c, rest)
  /\ c.len # 0 => ~c.sendingBody /\ ~c.discon
  /\ SendsItsFile(c)
  /\ ~t.waiting => c.len = -1 /\ rest = <<>> /\ c.backlog = <<>>
  /\ c.backlog # <<>> => /\ rest = <<>> /\ c.len <= 0 /\ Len(c.backlog) = 1
                         /\ c.backlog[1].ends => c.len = -1

SendBufferEmpty(c) == c.out = <<>> /\ c.outLen = 0 /\ c.framed /\ ~c.chunkHdr

(* The pieces of an answer that follow its first n, up to piece m.         *)
Pieces(n, m) == [i \in 1..(m - n) |-> n + i]

(* What the client has and what waits in the backlog is all that was made. *)
Intact(c, t) ==
  /\ ~t.garbled
  /\ c.len # 0 => c.made = 0
  /\ c.backlog = <<>> => t.got = c.made
  /\ c.backlog # <<>> =>
       LET packet == c.backlog[1]
           all == t.got + Len(packet.pieces)
       IN  /\ packet.framed /\ packet.pieces = Pieces(t.got, all)
           /\ packet.ends <=> c.len # 0
           /\ ~packet.ends => all = c.made

OpenSlots == {slot \in UsedSlots : tcp[connData[slot].remote].state = "OPEN"}

ExchangesKept ==
  /\ \A slot \in OpenSlots :
       LET c == connData[slot]
       IN  Exchange(c, tcp[c.remote], stream[c.remote]) /\ SendBufferEmpty(c)
  /\ \A client \in Clients : tcp[client].state # "OPEN" => stream[client] = <<>>

(* A list of access points is answered in one piece: more than a send      *)
(* buffer holds is dropped by httpdSend().                                 *)
ListsFit ==
  \A found \in ApCounts :
    HEADERS + 6 + STATUS_JSON + found * AP_JSON + 2 <= HTTPD_MAX_SENDBUFF_LEN

AnswersKept ==
  ListsFit /\ ~faulted =>
    /\ \A slot \in OpenSlots : Intact(connData[slot], tcp[connData[slot].remote])
    /\ \A client \in Clients :
         /\ ~tcp[client].garbled
         /\ tcp[client].state \in {"CLOSED", "CONNECTING"} => tcp[client].got = 0
    /\ shared.aps \in ApCounts \cup {0}

(* The accumulator holds what the only upload has handed over.             *)
FormKept ==
  ~disturbed =>
    /\ shared.savedExactly
    /\ Len(shared.form) <= FormParts
    /\ Uploads = {} => shared.index = 0
    /\ \A slot \in Uploads :
         LET c == connData[slot]
         IN  /\ Uploads = {slot}
             /\ shared.index > 0 /\ shared.index = Handed(c)
             /\ tcp[c.remote].state = "OPEN" /\ InStep(c, stream[c.remote]) =>
                  \A i \in 1..shared.index : shared.form[i] = Part(c.remote, i)

ServerIInv == ServerInv /\ ExchangesKept /\ AnswersKept /\ FormKept
===============================================================================

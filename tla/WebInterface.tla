----------------------------- MODULE WebInterface -----------------------------
(***************************************************************************)
(* The CGI functions of the configuration page (web_interface.c) and the   *)
(* two of libesphttpd that serve its files (httpdespfs.c), as steps of a   *)
(* handler of the web server: each takes the handler's record h and gives  *)
(* [h |-> the record afterwards, r |-> the result of the CGI].             *)
(*                                                                         *)
(* h.s holds the variables of web_interface.c that all connections share:  *)
(*   form, index  what was written from web_interface_buffer_post_form on  *)
(*                since the start, and the index into it,                  *)
(*   savedExactly  is what was saved last the form that was sent? (history) *)
(*   restart      sys_timer_sw is armed with the restart,                  *)
(*   waiting      web_interface_waiting_wifi_scan_cb,                      *)
(*   scanning     the SDK is scanning,                                     *)
(*   aps          how many access points the list holds,                   *)
(*   files        clients for which a file of the file system is open.     *)
(*                                                                         *)
(* A form is urlencoded text that arrives in parts: the first begins with  *)
(* "request=..&data_json=", the last ends with "&data_json_len=..", and    *)
(* every part carries settings.                                            *)
(***************************************************************************)
EXTENDS HttpConnection

CONSTANTS
  FormParts,  \* parts of a configuration form, one KiB each
  FileBytes,  \* lengths of the files on the web server, index.html included
  ApCounts    \* how many access points a scan may find

ASSUME FormPartsAssumption == FormParts \in Nat \ {0}
ASSUME FileBytesAssumption == FileBytes \subseteq Nat
ASSUME ApCountsAssumption == ApCounts \subseteq Nat

NoClient == "NOBODY"

(* web_interface_init(), and the buffer the system allocated.              *)
SharedInit ==
  [form |-> <<>>, index |-> 0, savedExactly |-> TRUE, restart |-> FALSE,
   waiting |-> FALSE, scanning |-> FALSE, aps |-> 0, files |-> {}]

Done(h) == [h |-> h, r |-> "DONE"]
More(h) == [h |-> h, r |-> "MORE"]

(* Lengths of what is sent (web_interface.h, httpd.c).                     *)
HEADERS == 120
STATUS_JSON == 40
CONFIG_JSON == 1200
AP_JSON == 95
READ == 1024
PLANT_NAME == 12
WEB_INTERFACE_FORM_POST_BUFFER_SIZE == 4  \* parts of a form

Answer(h, len) == Done(Send(Headers(h, HEADERS), len))

-------------------------------------------------------------------------------
(* web_interface_cgi_save_config(): the parts of the form.                 *)
Part(client, k) == [by |-> client, k |-> k]
IsFirst(part) == part.k = 1
IsLast(part) == part.k = FormParts

(* Copied at the index; what was there before stays behind it.  There is   *)
(* no test against the size of the buffer: a form longer than              *)
(* WEB_INTERFACE_FORM_POST_BUFFER_SIZE lies partly behind it on the heap.  *)
Accumulate(h) ==
  [h EXCEPT
     !.s.form = SubSeq(@, 1, h.s.index) \o h.c.buff
                \o SubSeq(@, h.s.index + Len(h.c.buff) + 1, Len(@)),
     !.s.index = @ + Len(h.c.buff)]

(* httpdFindArg(form, "data_json"): the first value of that name, up to    *)
(* the next "&", which the first and the last part contain.                *)
DataJson(form) ==
  LET first == SelectInSeq(form, IsFirst)
      rest == SubSeq(form, first, Len(form))
      last == CHOOSE n \in 1..Len(rest) :
                /\ n = Len(rest) \/ IsLast(rest[n]) \/ IsFirst(rest[n + 1])
                /\ \A m \in 1..(n - 1) : ~IsLast(rest[m]) /\ ~IsFirst(rest[m + 1])
  IN  SubSeq(rest, 1, last)

(* What the parser finds replaces the old settings; a setting that is not  *)
(* found keeps its old value (only the first four bytes of config_current  *)
(* are cleared before).                                                    *)
Exactly(value, client) ==
  /\ ToSet(value) = {Part(client, k) : k \in 1..FormParts}
  /\ Len(value) = FormParts

(* web_interface_save_config_to_flash() and the armed restart, or a failure *)
(* of RTC memory or flash that the answer reports.                         *)
Saved(h) ==
  IF h.e.refuses_call THEN h
  ELSE [h EXCEPT !.s.restart = TRUE,
                 !.s.savedExactly = Exactly(DataJson(h.s.form), h.c.remote)]

CgiSaveConfigKeepsIndex(h) ==
  LET arrived == Accumulate(h)
      form == arrived.s.form
  IN  IF h.c.len # h.c.received THEN More(arrived)
      ELSE IF ~(\E i \in 1..Len(form) : IsLast(form[i])) \/ SelectInSeq(form, IsFirst) = 0
           THEN Done(Headers(arrived, HEADERS))
           ELSE Answer(Saved(arrived), STATUS_JSON)

CgiSaveConfig(h) ==
  LET arrived == Accumulate(h)
      form == arrived.s.form
      complete == [arrived EXCEPT !.s.index = 0]
  IN  IF h.c.len # h.c.received THEN More(arrived)
      ELSE IF ~(\E i \in 1..Len(form) : IsLast(form[i])) \/ SelectInSeq(form, IsFirst) = 0
           THEN Done(Headers(complete, HEADERS))
           ELSE Answer(Saved(complete), STATUS_JSON)

-------------------------------------------------------------------------------
(* The other requests of the page.                                         *)
CgiGetConfig(h) == Answer(h, CONFIG_JSON)
CgiGetSensorReading(h) == Answer(h, STATUS_JSON)

(* web_interface_start_wifi_scan(): one scan at a time.                    *)
StartWifiScan(s, refused) ==
  IF s.waiting \/ refused THEN s
  ELSE [s EXCEPT !.waiting = TRUE, !.scanning = TRUE]

CgiStartWifiScan(h) ==
  Answer([h EXCEPT !.s = StartWifiScan(@, h.e.refuses_call)], STATUS_JSON)

(* web_interface_get_wifi_scan_result(): how long the list is as text.      *)
ScanResult(s) == s.aps * AP_JSON

CgiGetWifiScanResult(h) == Answer(h, STATUS_JSON + ScanResult(h.s))

ScanDoneKeepsFlag(s, found) ==
  [s EXCEPT !.scanning = FALSE, !.aps = found]

(* web_interface_cb_wifi_scan_done() with a list of access points.         *)
ScanDone(s, found) ==
  [s EXCEPT !.scanning = FALSE, !.waiting = FALSE, !.aps = found]

(* The scan failed or found nothing: the list of the last scan is kept.    *)
ScanFailed(s) == [s EXCEPT !.scanning = FALSE, !.waiting = FALSE]

-------------------------------------------------------------------------------
(* Files.  cgiData of a connection counts the bytes that are not read yet. *)
Opened(h, bytes) ==
  [h EXCEPT !.c.cgiData = bytes, !.s.files = @ \cup {h.c.remote}]

CloseFile(h) == [h EXCEPT !.s.files = @ \ {h.c.remote}]

Least(a, b) == IF a < b THEN a ELSE b

AfterReadToTheEnd(h, bytes) ==
  IF bytes > 0 THEN More([h EXCEPT !.c.cgiData = @ - bytes])
               ELSE Done(CloseFile(h))

(* A read that fills the buffer is not the last one.                       *)
AfterRead(h, bytes) ==
  IF bytes = READ THEN More([h EXCEPT !.c.cgiData = @ - READ])
                  ELSE Done(CloseFile(h))

(* cgiEspFsHook(): the headers with the first call, then one read a call.  *)
CgiEspFsHook(h) ==
  LET bytes == Least(h.c.cgiData, READ)
  IN  CASE ~h.c.conn -> Done(CloseFile(h))
        [] h.c.conn /\ h.c.cgiData = NoData ->
             More(Headers(Opened(h, h.c.url.bytes), HEADERS))
        [] OTHER -> AfterRead(Send(h, bytes), bytes)

(* cgiEspFsTemplate() with web_interface_cgi_root(): the first read holds  *)
(* the token for the plant's name, taken to be as long as the name.        *)
CgiEspFsTemplate(h) ==
  LET bytes == Least(h.c.cgiData, READ)
      named == IF bytes >= PLANT_NAME /\ h.c.cgiData = h.c.url.bytes
               THEN Send(Send(h, bytes - PLANT_NAME), PLANT_NAME) ELSE Send(h, bytes)
  IN  CASE ~h.c.conn -> Done(CloseFile(h))
        [] h.c.conn /\ h.c.cgiData = NoData ->
             More(Headers(Opened(h, h.c.url.bytes), HEADERS))
        [] OTHER -> AfterRead(named, bytes)

(* cgiRedirect() of "/", and cgiNotFound().                                *)
CgiRedirect(h) == Answer(h, PLANT_NAME)
CgiNotFound(h) == Answer(h, PLANT_NAME)
===============================================================================

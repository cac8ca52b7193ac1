-------------------------------- MODULE WifiScan --------------------------------
(***************************************************************************)
(* The list of access points of libesphttpd's own set-up pages             *)
(* (util/cgiwifi.c): a scan fills a list that all requests share, and a    *)
(* request sends it one entry per call of cgiWiFiScan(), so that scans and *)
(* other requests run between two entries.                                 *)
(*                                                                         *)
(* A piece of an answer is <<kind, scan, entry>>.                          *)
(***************************************************************************)
EXTENDS Integers, Sequences, SequencesExt

CONSTANTS
  Browsers,  \* requests that can be open at the same time
  ApsFound,  \* how many access points a scan finds
  MaxScans,  \* bound: scans that end
  MaxAsked   \* bound: requests that are made

ASSUME WifiScanAssumption == ApsFound \subseteq Nat /\ {MaxScans, MaxAsked} \subseteq Nat

VARIABLES
  cgiWifiAps,  \* [scanInProgress, there, noAps, filled, scan]: is there a list
               \* (apData), how long is it, how many entries were allocated, and
               \* by which scan
  sdkScans,    \* does the SDK scan?
  scans,       \* scans that have ended
  cgiData,     \* place in the list of every request, or -1
  answer,      \* history: what every request was sent
  disturbed,   \* history: requests during which another one started a scan
  lostList,    \* history: a scan found no memory for its list
  refused      \* history: the SDK refused to start a scan

scanVars == <<cgiWifiAps, sdkScans, scans, cgiData, answer, disturbed, lostList, refused>>

NoRequest == -1
Pieces(kind) == <<<<kind, 0, 0>>>>

-------------------------------------------------------------------------------
(* wifiScanDoneCb(): the list is replaced; there may be no memory for it,  *)
(* or for one of its entries: that one and those after it stay unset.      *)
ScanFailsKeepsFlag ==
  /\ sdkScans
  /\ scans < MaxScans
  /\ sdkScans' = FALSE
  /\ scans' = scans + 1
  /\ UNCHANGED <<cgiWifiAps, cgiData, answer, disturbed, lostList, refused>>

ScanFails ==
  /\ sdkScans
  /\ scans < MaxScans
  /\ sdkScans' = FALSE
  /\ scans' = scans + 1
  /\ cgiWifiAps' = [cgiWifiAps EXCEPT !.scanInProgress = FALSE]
  /\ UNCHANGED <<cgiData, answer, disturbed, lostList, refused>>

NoMemoryForList ==
  /\ sdkScans
  /\ scans < MaxScans
  /\ sdkScans' = FALSE
  /\ scans' = scans + 1
  /\ cgiWifiAps' = [cgiWifiAps EXCEPT !.there = FALSE]
  /\ lostList' = TRUE
  /\ UNCHANGED <<cgiData, answer, disturbed, refused>>

WifiScanDoneCb ==
  /\ sdkScans
  /\ scans < MaxScans
  /\ sdkScans' = FALSE
  /\ scans' = scans + 1
  /\ \E n \in ApsFound : \E filled \in 0..n :
       cgiWifiAps' = [scanInProgress |-> FALSE, there |-> TRUE, noAps |-> n,
                      filled |-> filled, scan |-> scans + 1]
  /\ UNCHANGED <<cgiData, answer, disturbed, lostList, refused>>

(* wifiStartScan(), by request r.  It does not look at the result of       *)
(* wifi_station_scan(): the flag is set also if the SDK refuses.           *)
WifiStartScan(r) ==
  IF cgiWifiAps.scanInProgress THEN UNCHANGED <<cgiWifiAps, sdkScans, disturbed, refused>>
  ELSE /\ cgiWifiAps' = [cgiWifiAps EXCEPT !.scanInProgress = TRUE]
       /\ sdkScans' \in BOOLEAN
       /\ refused' = ~sdkScans'
       /\ disturbed' = disturbed \cup {q \in Browsers \ {r} : cgiData[q] # NoRequest}

-------------------------------------------------------------------------------
(* cgiWiFiScan(): one call.  gone: the connection was closed, and what is  *)
(* sent reaches nobody.                                                    *)
Sends(r, pieces, gone) ==
  answer' = IF gone THEN answer ELSE [answer EXCEPT ![r] = @ \o pieces]

Entry(pos) ==
  IF pos > cgiWifiAps.noAps THEN <<>>
  ELSE IF pos > cgiWifiAps.filled THEN Pieces("garbage")
  ELSE <<<<"ap", cgiWifiAps.scan, pos>>>>

NextEntry(r, gone) ==
  LET pos == cgiData[r]
      last == pos >= cgiWifiAps.noAps
  IN  /\ ~cgiWifiAps.scanInProgress /\ pos > 0
      /\ Sends(r, Entry(pos) \o (IF last THEN Pieces("end") ELSE <<>>), gone)
      /\ cgiData' = [cgiData EXCEPT ![r] = IF last \/ gone THEN NoRequest ELSE pos + 1]
      /\ IF last THEN WifiStartScan(r) ELSE UNCHANGED <<cgiWifiAps, sdkScans, disturbed, refused>>

StillScanning(r, gone) ==
  /\ cgiWifiAps.scanInProgress /\ cgiData[r] >= 0
  /\ Sends(r, Pieces("head") \o Pieces("busy"), gone)
  /\ cgiData' = [cgiData EXCEPT ![r] = NoRequest]
  /\ UNCHANGED <<cgiWifiAps, sdkScans, disturbed, refused>>

StartList(r, gone) ==
  /\ ~cgiWifiAps.scanInProgress /\ cgiData[r] = 0
  /\ Sends(r, Pieces("head") \o Pieces("list"), gone)
  /\ cgiData' = [cgiData EXCEPT ![r] = IF gone THEN NoRequest ELSE 1]
  /\ cgiWifiAps' = IF cgiWifiAps.there THEN cgiWifiAps ELSE [cgiWifiAps EXCEPT !.noAps = 0]
  /\ UNCHANGED <<sdkScans, disturbed, refused>>

CgiWiFiScan(r, gone) ==
  /\ NextEntry(r, gone) \/ StillScanning(r, gone) \/ StartList(r, gone)
  /\ UNCHANGED <<scans, lostList>>

(* A browser asks; the answer to its last request is forgotten.            *)
BrowserAsks(r) ==
  /\ cgiData[r] = NoRequest
  /\ scans < MaxAsked
  /\ cgiData' = [cgiData EXCEPT ![r] = 0]
  /\ answer' = [answer EXCEPT ![r] = <<>>]
  /\ disturbed' = disturbed \ {r}
  /\ UNCHANGED <<cgiWifiAps, sdkScans, scans, lostList, refused>>

WifiScanInit ==
  /\ cgiWifiAps = [scanInProgress |-> FALSE, there |-> FALSE, noAps |-> 0, filled |-> 0, scan |-> 0]
  /\ sdkScans = FALSE
  /\ scans = 0
  /\ cgiData = [r \in Browsers |-> NoRequest]
  /\ answer = [r \in Browsers |-> <<>>]
  /\ disturbed = {}
  /\ lostList = FALSE /\ refused = FALSE

WifiScanNext ==
  \/ ScanFails \/ NoMemoryForList \/ WifiScanDoneCb
  \/ \E r \in Browsers : \/ BrowserAsks(r)
                         \/ \E gone \in BOOLEAN : CgiWiFiScan(r, gone)

WifiScanSpec == WifiScanInit /\ [][WifiScanNext]_scanVars

-------------------------------------------------------------------------------
(* An answer that is complete is one document: that a scan is under way,   *)
(* or the entries of one scan, each once and in order, whatever scans end  *)
(* and requests begin meanwhile; but not if another request, which came to *)
(* its own end, started a scan between two entries.  (Where an entry could *)
(* not be allocated, what is sent for it is anything.)                     *)
Busy == Pieces("head") \o Pieces("busy")
ListOf(scan, n, garbage) ==
  Pieces("head") \o Pieces("list")
  \o [i \in 1..n |-> IF i > n - garbage THEN <<"garbage", 0, 0>> ELSE <<"ap", scan, i>>]
  \o Pieces("end")

OneDocument ==
  \A r \in Browsers : r \notin disturbed =>
    \/ IsPrefix(answer[r], Busy)
    \/ \E scan \in 0..MaxScans, n \in ApsFound \cup {0} : \E garbage \in 0..n :
         IsPrefix(answer[r], ListOf(scan, n, garbage))

(* The flag that keeps requests from the list is up only while a scan is   *)
(* under way; if it stayed up, no list would ever be sent again.  It does  *)
(* after a scan that found no memory for its list, and after one that the  *)
(* SDK refused to start.                                                   *)
ScanEnds == cgiWifiAps.scanInProgress <=> sdkScans \/ lostList \/ refused

(* Whoever asks cgiWiFiScan() gets one document, and the flag that keeps   *)
(* further scans from starting is not left set by one that is over.        *)
ScansAnswered == OneDocument /\ ScanEnds
===============================================================================

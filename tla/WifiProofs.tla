------------------------------- MODULE WifiProofs -------------------------------
(***************************************************************************)
(* Proofs about libesphttpd's set-up pages: joining a network, for any     *)
(* networks and any number of attempts and restarts, and the list of       *)
(* access points, for any number of browsers and lists of any length.      *)
(***************************************************************************)
EXTENDS WifiConnect, WifiScan, SequenceTheorems, TLAPS

-------------------------------------------------------------------------------
(* Joining a network.                                                      *)
ConnectTypeOK ==
  /\ opmode \in 1..3
  /\ attempt \in Nat /\ lookTimer \in Nat /\ failed \in Nat
  /\ connTryStatus \in {"idle", "working", "fail"}

(* Unless the device is a station only, an armed resetTimer is that of the *)
(* last attempt.                                                           *)
TimerOfLastAttempt == opmode # 1 => lookTimer \in {0, attempt}

ConnectIInv ==
  ConnectTypeOK /\ TimerOfLastAttempt /\ FailureIsOfThisAttempt /\ AttemptIsLookedAfter

LEMMA ConnectInitial == WifiConnectInit => ConnectIInv
  BY DEF WifiConnectInit, ConnectIInv, ConnectTypeOK, TimerOfLastAttempt,
     FailureIsOfThisAttempt, AttemptIsLookedAfter

LEMMA ConnectStep == ConnectIInv /\ [WifiConnectNext]_connectVars => ConnectIInv'
<1> SUFFICES ASSUME ConnectIInv, [WifiConnectNext]_connectVars
             PROVE  ConnectIInv'
  OBVIOUS
<1> USE DEF ConnectIInv, ConnectTypeOK, TimerOfLastAttempt, FailureIsOfThisAttempt,
            AttemptIsLookedAfter
<1>1. ASSUME NEW network \in Networks, CgiWiFiConnect(network)
      PROVE  ConnectIInv'
  BY <1>1 DEF CgiWiFiConnect
<1>2. CASE ReassTimerCb
  BY <1>2 DEF ReassTimerCb
<1>3. ASSUME NEW mode \in 1..3, SystemRestart(mode)
      PROVE  ConnectIInv'
  BY <1>3 DEF SystemRestart
<1>4. CASE StaysStation
  BY <1>3, <1>4 DEF StaysStation
<1>5. CASE GivesUp
  BY <1>5 DEF GivesUp
<1>6. CASE CgiWiFiConnStatus
  BY <1>6 DEF CgiWiFiConnStatus
<1>7. ASSUME NEW mode \in 1..3, CgiWiFiSetMode(mode)
      PROVE  ConnectIInv'
  BY <1>3, <1>7 DEF CgiWiFiSetMode
<1>8. ASSUME NEW ip \in BOOLEAN, StationIp(ip)
      PROVE  ConnectIInv'
  BY <1>8 DEF StationIp
<1>9. CASE UNCHANGED connectVars
  BY <1>9 DEF connectVars
<1> QED
  BY <1>1, <1>2, <1>4, <1>5, <1>6, <1>7, <1>8, <1>9 DEF WifiConnectNext

(* The verdict on an attempt is its own and comes: neither timer of        *)
(* cgiwifi.c is left from an earlier attempt (reassTimerCb(), resetTimerCb(), *)
(* cgiWiFiConnStatus(): cgiwifi.c:172-292), however they interleave.       *)
THEOREM ConnectCorrect == WifiConnectSpec => []AttemptsResolved
<1>1. ConnectIInv => AttemptsResolved
  BY DEF ConnectIInv, AttemptsResolved
<1> QED
  BY <1>1, ConnectInitial, ConnectStep, PTL DEF WifiConnectSpec

-------------------------------------------------------------------------------
(* The list of access points.                                              *)
Piece(kind) == <<kind, 0, 0>>
ApOf(scan, i) == <<"ap", scan, i>>
AllPieces ==
  {Piece(kind) : kind \in {"head", "list", "busy", "garbage", "end"}}
  \cup {ApOf(scan, i) : scan \in Nat, i \in Nat}

ScanTypeOK ==
  /\ cgiWifiAps \in [scanInProgress : BOOLEAN, there : BOOLEAN, noAps : ApsFound \cup {0},
                     filled : Nat, scan : 0..MaxScans]
  /\ sdkScans \in BOOLEAN /\ lostList \in BOOLEAN /\ refused \in BOOLEAN
  /\ scans \in 0..MaxScans
  /\ cgiData \in [Browsers -> Nat \cup {NoRequest}]
  /\ answer \in [Browsers -> Seq(AllPieces)]
  /\ disturbed \subseteq Browsers

(* The entries of a list are filled from its beginning, and no list is no  *)
(* entry; a scan that lost its list or was refused was the last one.       *)
ListIsKnown ==
  /\ cgiWifiAps.filled \in 0..cgiWifiAps.noAps
  /\ ~cgiWifiAps.there /\ ~lostList => cgiWifiAps.noAps = 0
  /\ lostList \/ refused => ~sdkScans

(* The piece at place i of a list, and the list up to entry pos.           *)
PieceAt(scan, n, garbage, i) ==
  IF i = 1 THEN Piece("head")
  ELSE IF i = 2 THEN Piece("list")
  ELSE IF i = n + 3 THEN Piece("end")
  ELSE IF i - 2 > n - garbage THEN Piece("garbage")
  ELSE ApOf(scan, i - 2)

FirstPieces(scan, n, garbage, k) == [i \in 1..k |-> PieceAt(scan, n, garbage, i)]
ListUpTo(pos) ==
  FirstPieces(cgiWifiAps.scan, cgiWifiAps.noAps, cgiWifiAps.noAps - cgiWifiAps.filled, pos + 1)

(* A request that nothing disturbed has sent the head of the list up to    *)
(* its place, and that list is still there.                                *)
Following(r) ==
  /\ cgiData[r] = 0 => answer[r] = <<>>
  /\ cgiData[r] > 0 =>
       /\ ~cgiWifiAps.scanInProgress
       /\ cgiData[r] <= cgiWifiAps.noAps \/ cgiData[r] = 1
       /\ answer[r] = ListUpTo(cgiData[r])

ScanIInv ==
  /\ ScanTypeOK
  /\ ScanEnds
  /\ ListIsKnown
  /\ \A r \in Browsers : r \notin disturbed => Following(r)
  /\ OneDocument

(* A document or the beginning of one.                                     *)
IsDocument(pieces) ==
  \/ IsPrefix(pieces, Busy)
  \/ \E scan \in 0..MaxScans, n \in ApsFound \cup {0} : \E garbage \in 0..n :
       IsPrefix(pieces, ListOf(scan, n, garbage))

LEMMA PiecesAreSequences ==
  ASSUME NEW kind \in {"head", "list", "busy", "garbage", "end"}
  PROVE  /\ Pieces(kind) \in Seq(AllPieces) /\ Len(Pieces(kind)) = 1
         /\ Pieces(kind)[1] = Piece(kind) /\ Piece(kind) \in AllPieces
<1>1. Pieces(kind) = <<Piece(kind)>>
  BY DEF Pieces, Piece
<1>2. Piece(kind) \in AllPieces
  BY DEF AllPieces
<1> QED
  BY <1>1, <1>2

LEMMA PieceTypes ==
  ASSUME NEW scan \in Nat, NEW n \in Nat, NEW garbage \in Int, NEW i \in Nat \ {0}
  PROVE  PieceAt(scan, n, garbage, i) \in AllPieces
<1>1. i > 2 => ApOf(scan, i - 2) \in AllPieces
  <2>1. i > 2 => i - 2 \in Nat
    OBVIOUS
  <2> QED
    BY <2>1 DEF AllPieces
<1> QED
  BY <1>1, PiecesAreSequences DEF PieceAt

LEMMA FirstPiecesTypes ==
  ASSUME NEW scan \in Nat, NEW n \in Nat, NEW garbage \in Int, NEW k \in Nat
  PROVE  FirstPieces(scan, n, garbage, k) \in Seq(AllPieces) /\ Len(FirstPieces(scan, n, garbage, k)) = k
<1>1. ASSUME NEW i \in 1..k
      PROVE  PieceAt(scan, n, garbage, i) \in AllPieces
  <2>1. i \in Nat \ {0}
    OBVIOUS
  <2> QED
    BY <2>1, PieceTypes
<1> QED
  BY <1>1 DEF FirstPieces

LEMMA ListAsPieces ==
  ASSUME NEW scan \in Nat, NEW n \in Nat, NEW garbage \in Int
  PROVE  ListOf(scan, n, garbage) = FirstPieces(scan, n, garbage, n + 3)
<1> DEFINE entries == [i \in 1..n |-> IF i > n - garbage THEN <<"garbage", 0, 0>> ELSE <<"ap", scan, i>>]
           begun == Pieces("head") \o Pieces("list")
           all == begun \o entries
           list == all \o Pieces("end")
           first == FirstPieces(scan, n, garbage, n + 3)
<1>1. ListOf(scan, n, garbage) = list
  BY DEF ListOf
<1>2. entries = [i \in 1..n |-> PieceAt(scan, n, garbage, i + 2)]
  BY DEF PieceAt, Piece, ApOf
<1> HIDE DEF entries
<1>3. /\ entries \in Seq(AllPieces) /\ Len(entries) = n
      /\ \A i \in 1..n : entries[i] = PieceAt(scan, n, garbage, i + 2)
  <2>1. \A i \in 1..n : PieceAt(scan, n, garbage, i + 2) \in AllPieces
    <3> TAKE i \in 1..n
    <3>1. i + 2 \in Nat \ {0}
      OBVIOUS
    <3> QED
      BY <3>1, PieceTypes
  <2> QED
    BY <1>2, <2>1
<1>4. /\ begun \in Seq(AllPieces) /\ Len(begun) = 2
      /\ begun[1] = Piece("head") /\ begun[2] = Piece("list")
  BY PiecesAreSequences, ConcatProperties
<1> HIDE DEF begun
<1>5. /\ all \in Seq(AllPieces) /\ Len(all) = n + 2
      /\ \A i \in 1..(n + 2) : all[i] = IF i <= 2 THEN begun[i] ELSE entries[i - 2]
  <2>1. /\ all \in Seq(AllPieces) /\ Len(all) = Len(begun) + Len(entries)
        /\ \A i \in 1..(Len(begun) + Len(entries)) :
             all[i] = IF i <= Len(begun) THEN begun[i] ELSE entries[i - Len(begun)]
    BY <1>3, <1>4, ConcatProperties
  <2>2. Len(begun) = 2 /\ Len(begun) + Len(entries) = n + 2
    BY <1>3, <1>4
  <2> HIDE DEF all
  <2> QED
    BY <2>1, <2>2
<1> HIDE DEF all
<1>6. /\ list \in Seq(AllPieces) /\ Len(list) = n + 3
      /\ \A i \in 1..(n + 3) : list[i] = IF i <= n + 2 THEN all[i] ELSE Pieces("end")[i - (n + 2)]
  <2> DEFINE end == Pieces("end")
  <2>1. end \in Seq(AllPieces) /\ Len(end) = 1
    BY PiecesAreSequences
  <2>2. /\ all \o end \in Seq(AllPieces) /\ Len(all \o end) = Len(all) + Len(end)
        /\ \A i \in 1..(Len(all) + Len(end)) :
             (all \o end)[i] = IF i <= Len(all) THEN all[i] ELSE end[i - Len(all)]
    <3> HIDE DEF end
    <3> QED
      BY <1>5, <2>1, ConcatProperties
  <2>3. Len(all) = n + 2 /\ Len(all) + Len(end) = n + 3
    <3> HIDE DEF end
    <3>1. Len(all) = n + 2
      BY <1>5, Zenon
    <3> QED
      BY <2>1, <3>1
  <2>4. list = all \o end
    OBVIOUS
  <2> HIDE DEF list, end
  <2>5. /\ list \in Seq(AllPieces) /\ Len(list) = n + 3
        /\ \A i \in 1..(n + 3) : list[i] = IF i <= n + 2 THEN all[i] ELSE end[i - (n + 2)]
    BY <2>2, <2>3, <2>4
  <2> QED
    BY <2>5 DEF end
<1> HIDE DEF list
<1>7. ASSUME NEW i \in 1..(n + 3)
      PROVE  list[i] = PieceAt(scan, n, garbage, i)
  <2>1. CASE i <= 2
    BY <1>4, <1>5, <1>6, <2>1 DEF PieceAt
  <2>2. CASE i > 2 /\ i <= n + 2
    <3>1. list[i] = entries[i - 2] /\ i - 2 \in 1..n /\ (i - 2) + 2 = i
      BY <1>5, <1>6, <2>2
    <3> QED
      BY <1>3, <3>1
  <2>3. CASE i = n + 3
    <3>1. list[i] = Pieces("end")[1]
      BY <1>6, <2>3
    <3> QED
      BY <2>3, <3>1, PiecesAreSequences DEF PieceAt
  <2> QED
    BY <2>1, <2>2, <2>3
<1>8. /\ first \in Seq(AllPieces) /\ Len(first) = n + 3
      /\ \A i \in 1..(n + 3) : first[i] = PieceAt(scan, n, garbage, i)
  <2>1. n + 3 \in Nat
    OBVIOUS
  <2>2. first \in Seq(AllPieces) /\ Len(first) = n + 3
    BY <2>1, FirstPiecesTypes
  <2>3. \A i \in 1..(n + 3) : first[i] = PieceAt(scan, n, garbage, i)
    BY DEF FirstPieces
  <2> QED
    BY <2>2, <2>3
<1> HIDE DEF first
<1> QED
  BY <1>1, <1>6, <1>7, <1>8, SeqEqual DEF first

(* What is sent of a list is a document.                                   *)
LEMMA FirstPiecesAreDocument ==
  ASSUME NEW scan \in 0..MaxScans, NEW n \in ApsFound \cup {0}, NEW garbage \in 0..n,
         NEW k \in 0..(n + 3)
  PROVE  IsDocument(FirstPieces(scan, n, garbage, k))
<1>1. scan \in Nat /\ n \in Nat /\ k \in Nat /\ n + 3 \in Nat
  BY WifiScanAssumption
<1>2. ListOf(scan, n, garbage) = FirstPieces(scan, n, garbage, n + 3)
  BY <1>1, ListAsPieces
<1>3. IsPrefix(FirstPieces(scan, n, garbage, k), FirstPieces(scan, n, garbage, n + 3))
  BY <1>1 DEF IsPrefix, FirstPieces
<1> QED
  BY <1>2, <1>3 DEF IsDocument

LEMMA NextPiece ==
  ASSUME NEW scan \in Nat, NEW n \in Nat, NEW garbage \in Int, NEW m \in Nat \ {0}
  PROVE  FirstPieces(scan, n, garbage, m - 1) \o <<PieceAt(scan, n, garbage, m)>>
           = FirstPieces(scan, n, garbage, m)
<1> DEFINE k == m - 1
           before == FirstPieces(scan, n, garbage, k)
           after == FirstPieces(scan, n, garbage, m)
           piece == PieceAt(scan, n, garbage, m)
<1>0. k \in Nat /\ m \in Nat
  OBVIOUS
<1>b. m = k + 1
  OBVIOUS
<1> HIDE DEF k
<1>1. /\ before \in Seq(AllPieces) /\ Len(before) = k
      /\ \A i \in 1..k : before[i] = PieceAt(scan, n, garbage, i)
  <2>1. before \in Seq(AllPieces) /\ Len(before) = k
    BY <1>0, FirstPiecesTypes
  <2>2. \A i \in 1..k : before[i] = PieceAt(scan, n, garbage, i)
    BY DEF FirstPieces
  <2> QED
    BY <2>1, <2>2
<1>2. /\ after \in Seq(AllPieces) /\ Len(after) = m
      /\ \A i \in 1..m : after[i] = PieceAt(scan, n, garbage, i)
  <2>1. after \in Seq(AllPieces) /\ Len(after) = m
    BY <1>0, FirstPiecesTypes
  <2>2. \A i \in 1..m : after[i] = PieceAt(scan, n, garbage, i)
    BY DEF FirstPieces
  <2> QED
    BY <2>1, <2>2
<1>3. piece \in AllPieces
  BY <1>0, PieceTypes
<1>4. \A i \in 1..m : i \in 1..k \/ i = k + 1
  BY <1>0, <1>b
<1> HIDE DEF before, after
<1>5. Append(before, piece) = after
  <2>1. Append(before, piece) \in Seq(AllPieces) /\ Len(Append(before, piece)) = m
    BY <1>0, <1>b, <1>1, <1>3, AppendProperties
  <2>2. \A i \in 1..m : Append(before, piece)[i] = after[i]
    BY <1>0, <1>b, <1>1, <1>2, <1>3, <1>4, AppendProperties
  <2> QED
    BY <1>2, <2>1, <2>2, SeqEqual
<1> HIDE DEF piece
<1>6. before \o <<piece>> = Append(before, piece)
  BY <1>1, <1>3, AppendIsConcat
<1> QED
  BY <1>5, <1>6 DEF k, before, after, piece

(* What one call sends of the entry at pos.                                *)
EntryOf(scan, n, garbage, pos) ==
  IF pos > n THEN <<>> ELSE IF pos > n - garbage THEN <<Piece("garbage")>> ELSE <<ApOf(scan, pos)>>

(* The answer with entries before pos, and what the next call adds to it.  *)
SendsNext(scan, n, garbage, pos) ==
  LET sent == FirstPieces(scan, n, garbage, pos + 1)
      entry == EntryOf(scan, n, garbage, pos)
  IN  /\ pos < n => sent \o (entry \o <<>>) = FirstPieces(scan, n, garbage, pos + 2)
      /\ pos >= n => sent \o (entry \o Pieces("end")) = FirstPieces(scan, n, garbage, n + 3)

LEMMA NextPieces ==
  ASSUME NEW scan \in Nat, NEW n \in Nat, NEW garbage \in Int,
         NEW pos \in Nat, pos = 1 \/ pos \in 1..n
  PROVE  SendsNext(scan, n, garbage, pos)
<1> DEFINE sent == FirstPieces(scan, n, garbage, pos + 1)
           more == FirstPieces(scan, n, garbage, pos + 2)
           list == FirstPieces(scan, n, garbage, n + 3)
           entry == EntryOf(scan, n, garbage, pos)
           end == Pieces("end")
<1>1. sent \in Seq(AllPieces) /\ end \in Seq(AllPieces)
  <2>1. pos + 1 \in Nat
    OBVIOUS
  <2> QED
    BY <2>1, FirstPiecesTypes, PiecesAreSequences
<1>2. end = <<PieceAt(scan, n, garbage, n + 3)>>
  BY DEF Pieces, Piece, PieceAt
<1>3. ASSUME pos <= n
      PROVE  entry \in Seq(AllPieces) /\ sent \o entry = more
  <2>1. pos + 2 # 1 /\ pos + 2 # 2 /\ pos + 2 # n + 3 /\ (pos + 2) - 2 = pos
    BY <1>3
  <2>2. PieceAt(scan, n, garbage, pos + 2) = IF pos > n - garbage THEN Piece("garbage") ELSE ApOf(scan, pos)
    BY <2>1 DEF PieceAt
  <2>3. entry = <<PieceAt(scan, n, garbage, pos + 2)>>
    BY <1>3, <2>2 DEF EntryOf
  <2>4. entry \in Seq(AllPieces)
    <3>1. Piece("garbage") \in AllPieces /\ ApOf(scan, pos) \in AllPieces
      BY PiecesAreSequences DEF AllPieces
    <3> QED
      BY <2>2, <2>3, <3>1
  <2>5. pos + 2 \in Nat \ {0} /\ (pos + 2) - 1 = pos + 1
    OBVIOUS
  <2>6. sent \o <<PieceAt(scan, n, garbage, pos + 2)>> = more
    BY <2>5, NextPiece
  <2> QED
    BY <2>3, <2>4, <2>6
<1>4. CASE pos < n
  <2>1. pos <= n /\ ~(pos >= n)
    BY <1>4
  <2> HIDE DEF entry, sent, more
  <2>2. entry \o <<>> = entry /\ sent \o entry = more
    BY <1>3, <2>1, ConcatEmptySeq
  <2>3. sent \o (entry \o <<>>) = more
    BY <2>2
  <2> QED
    BY <2>1, <2>3 DEF entry, sent, more, SendsNext
<1>5. CASE pos = n
  <2>1. pos <= n /\ ~(pos < n) /\ n + 3 \in Nat \ {0} /\ (n + 3) - 1 = n + 2
    BY <1>5
  <2>2. more \o end = list
    <3>1. FirstPieces(scan, n, garbage, n + 2) \o <<PieceAt(scan, n, garbage, n + 3)>> = list
      BY <2>1, NextPiece
    <3> QED
      BY <1>2, <1>5, <3>1
  <2> HIDE DEF entry, sent, end, list, more
  <2>3. sent \o (entry \o end) = (sent \o entry) \o end
    BY <1>1, <1>3, <2>1, ConcatAssociative
  <2>4. sent \o (entry \o end) = list
    BY <1>3, <2>1, <2>2, <2>3
  <2> QED
    BY <2>1, <2>4 DEF entry, sent, end, list, SendsNext
<1>6. CASE pos > n
  <2>1. n = 0 /\ pos = 1 /\ pos + 1 = 2 /\ n + 3 = 3 /\ ~(pos < n)
    BY <1>6
  <2>2. entry = <<>>
    BY <1>6 DEF EntryOf
  <2>3. sent \o end = list
    <3>1. 3 \in Nat \ {0} /\ 3 - 1 = 2
      OBVIOUS
    <3>2. FirstPieces(scan, n, garbage, 2) \o <<PieceAt(scan, n, garbage, 3)>> = FirstPieces(scan, n, garbage, 3)
      BY <3>1, NextPiece
    <3> QED
      BY <1>2, <2>1, <3>2
  <2> HIDE DEF entry, sent, end, list
  <2>4. <<>> \o end = end
    BY <1>1, ConcatEmptySeq
  <2>5. sent \o (entry \o end) = list
    BY <2>2, <2>3, <2>4
  <2> QED
    BY <2>1, <2>5 DEF entry, sent, end, list, SendsNext
<1>7. pos < n \/ pos = n \/ pos > n
  OBVIOUS
<1> QED
  BY <1>4, <1>5, <1>6, <1>7

LEMMA BusyIsDocument == IsDocument(Busy) /\ IsDocument(<<>>) /\ Busy \in Seq(AllPieces)
<1>1. Busy \in Seq(AllPieces) /\ Len(Busy) = 2
  BY PiecesAreSequences, ConcatProperties DEF Busy
<1>2. IsPrefix(Busy, Busy) /\ IsPrefix(<<>>, Busy)
  BY <1>1 DEF IsPrefix
<1> QED
  BY <1>1, <1>2 DEF IsDocument

LEMMA DocumentsOfAll ==
  OneDocument <=> \A r \in Browsers : r \notin disturbed => IsDocument(answer[r])
BY DEF OneDocument, IsDocument

LEMMA ScanInitial == WifiScanInit => ScanIInv
<1> SUFFICES ASSUME WifiScanInit PROVE ScanIInv
  OBVIOUS
<1>1. ScanTypeOK
  <2>1. <<>> \in Seq(AllPieces)
    OBVIOUS
  <2> QED
    <3>1. cgiWifiAps \in [scanInProgress : BOOLEAN, there : BOOLEAN, noAps : ApsFound \cup {0},
                          filled : Nat, scan : 0..MaxScans]
      BY WifiScanAssumption DEF WifiScanInit
    <3>2. scans \in 0..MaxScans
      BY WifiScanAssumption DEF WifiScanInit
    <3> QED
      BY <2>1, <3>1, <3>2 DEF WifiScanInit, ScanTypeOK
<1>2. ScanEnds /\ ListIsKnown
  BY DEF WifiScanInit, ScanEnds, ListIsKnown
<1>3. \A r \in Browsers : Following(r) /\ answer[r] = <<>>
  BY DEF WifiScanInit, Following, NoRequest
<1> QED
  BY <1>1, <1>2, <1>3, BusyIsDocument, DocumentsOfAll DEF ScanIInv

(* A scan ends.                                                            *)
LEMMA ScanEndKeeps ==
  ASSUME ScanIInv, ScanFails \/ NoMemoryForList \/ WifiScanDoneCb
  PROVE  ScanIInv'
<1>1. /\ ScanTypeOK /\ ScanEnds /\ ListIsKnown /\ sdkScans /\ cgiWifiAps.scanInProgress
      /\ ~lostList /\ ~refused
  BY DEF ScanIInv, ScanEnds, ListIsKnown, ScanFails, NoMemoryForList, WifiScanDoneCb
<1>2. ASSUME NEW r \in Browsers, r \notin disturbed
      PROVE  cgiData[r] \in {0, NoRequest} /\ (cgiData[r] = 0 => answer[r] = <<>>)
  <2>1. Following(r) /\ cgiData[r] \in Nat \cup {NoRequest}
    BY <1>1, <1>2 DEF ScanIInv, ScanTypeOK
  <2> QED
    BY <1>1, <2>1 DEF Following
<1>3. UNCHANGED <<cgiData, answer, disturbed, refused>> /\ scans < MaxScans /\ scans' = scans + 1 /\ sdkScans' = FALSE
  BY DEF ScanFails, NoMemoryForList, WifiScanDoneCb
<1>4. scans' \in 0..MaxScans
  BY <1>1, <1>3, WifiScanAssumption DEF ScanTypeOK
<1>5. CASE ScanFails \/ NoMemoryForList
  <2>1. lostList' \in BOOLEAN /\ cgiWifiAps' \in [scanInProgress : BOOLEAN, there : BOOLEAN,
            noAps : ApsFound \cup {0}, filled : Nat, scan : 0..MaxScans]
    BY <1>1, <1>5 DEF ScanFails, NoMemoryForList, ScanTypeOK
  <2>2. ScanTypeOK'
    BY <1>1, <1>3, <1>4, <2>1 DEF ScanTypeOK
  <2>3. cgiWifiAps'.noAps = cgiWifiAps.noAps /\ cgiWifiAps'.filled = cgiWifiAps.filled
    BY <1>1, <1>5 DEF ScanFails, NoMemoryForList, ScanTypeOK
  <2>4. ScanEnds' /\ ListIsKnown'
    BY <1>1, <1>3, <1>5, <2>3 DEF ScanFails, NoMemoryForList, ScanTypeOK, ScanEnds, ListIsKnown
  <2> QED
    BY <1>2, <1>3, <2>2, <2>4, DocumentsOfAll DEF ScanIInv, Following, NoRequest, OneDocument
<1>6. CASE WifiScanDoneCb
  <2>1. PICK n \in ApsFound : \E filled \in 0..n :
       cgiWifiAps' = [scanInProgress |-> FALSE, there |-> TRUE, noAps |-> n,
                      filled |-> filled, scan |-> scans + 1]
    BY <1>6 DEF WifiScanDoneCb
  <2>2. PICK filled \in 0..n :
       cgiWifiAps' = [scanInProgress |-> FALSE, there |-> TRUE, noAps |-> n,
                      filled |-> filled, scan |-> scans + 1]
    BY <2>1
  <2>3. n \in Nat /\ filled \in Nat
    BY WifiScanAssumption
  <2>4. cgiWifiAps' \in [scanInProgress : BOOLEAN, there : BOOLEAN,
            noAps : ApsFound \cup {0}, filled : Nat, scan : 0..MaxScans]
    BY <1>3, <1>4, <2>2, <2>3
  <2>5. lostList' = lostList
    BY <1>6 DEF WifiScanDoneCb
  <2>6. ScanTypeOK'
    BY <1>1, <1>3, <1>4, <2>4, <2>5 DEF ScanTypeOK
  <2>7. ScanEnds' /\ ListIsKnown'
    BY <1>1, <1>3, <2>2, <2>3, <2>5 DEF ScanEnds, ListIsKnown
  <2> QED
    BY <1>2, <1>3, <2>6, <2>7, DocumentsOfAll DEF ScanIInv, Following, NoRequest, OneDocument
<1> QED
  BY <1>5, <1>6

(* A request's next call, while its list is there.                         *)
LEMMA NextEntryKeeps ==
  ASSUME ScanIInv, NEW r \in Browsers, NEW gone \in BOOLEAN, NextEntry(r, gone),
         UNCHANGED <<scans, lostList>>
  PROVE  ScanIInv'
<1> DEFINE pos == cgiData[r]
           last == pos >= cgiWifiAps.noAps
           scan == cgiWifiAps.scan
           n == cgiWifiAps.noAps
           garbage == n - cgiWifiAps.filled
           rest == Entry(pos) \o (IF last THEN Pieces("end") ELSE <<>>)
<1>1. /\ ScanTypeOK /\ ScanEnds /\ ListIsKnown
      /\ \A q \in Browsers : q \notin disturbed => Following(q) /\ IsDocument(answer[q])
  BY DocumentsOfAll DEF ScanIInv
<1>2. /\ ~cgiWifiAps.scanInProgress /\ pos > 0
      /\ answer' = IF gone THEN answer ELSE [answer EXCEPT ![r] = @ \o rest]
      /\ cgiData' = [cgiData EXCEPT ![r] = IF last \/ gone THEN NoRequest ELSE pos + 1]
      /\ IF last THEN WifiStartScan(r) ELSE UNCHANGED <<cgiWifiAps, sdkScans, disturbed, refused>>
  BY DEF NextEntry, Sends
<1>3. /\ n \in Nat /\ n \in ApsFound \cup {0} /\ scan \in 0..MaxScans /\ scan \in Nat
      /\ garbage \in Int /\ garbage \in 0..n
      /\ pos \in Nat /\ cgiWifiAps.filled \in Nat
      /\ n - garbage = cgiWifiAps.filled
  <2>1. cgiWifiAps.filled \in Nat /\ n \in ApsFound \cup {0} /\ scan \in 0..MaxScans
        /\ pos \in Nat \cup {-1} /\ cgiWifiAps.filled \in 0..n
    BY <1>1 DEF ScanTypeOK, ListIsKnown, NoRequest
  <2>2. n \in Nat /\ scan \in Nat
    <3>1. ApsFound \cup {0} \subseteq Nat /\ 0..MaxScans \subseteq Nat
      BY WifiScanAssumption
    <3> HIDE DEF n, scan
    <3> QED
      BY <2>1, <3>1
  <2>3. pos \in Nat
    BY <1>2, <2>1
  <2>4. garbage \in Int /\ garbage \in 0..n /\ n - garbage = cgiWifiAps.filled
    BY <2>1, <2>2
  <2> QED
    BY <2>1, <2>2, <2>3, <2>4
<1>4. rest \in Seq(AllPieces)
  <2>1. Entry(pos) \in Seq(AllPieces)
    <3>1. Pieces("garbage") \in Seq(AllPieces) /\ <<>> \in Seq(AllPieces)
      BY PiecesAreSequences
    <3>2. <<<<"ap", scan, pos>>>> = <<ApOf(scan, pos)>> /\ ApOf(scan, pos) \in AllPieces
      BY <1>3 DEF ApOf, AllPieces
    <3>3. <<<<"ap", scan, pos>>>> \in Seq(AllPieces)
      BY <3>2
    <3> QED
      BY <3>1, <3>3 DEF Entry
  <2>2. (IF last THEN Pieces("end") ELSE <<>>) \in Seq(AllPieces)
    BY PiecesAreSequences
  <2> QED
    BY <2>1, <2>2, ConcatProperties
<1>5. r \notin disturbed => answer[r] = FirstPieces(scan, n, garbage, pos + 1)
                            /\ (pos <= n \/ pos = 1)
  BY <1>1, <1>2 DEF Following, ListUpTo
<1>6. /\ answer \in [Browsers -> Seq(AllPieces)] /\ cgiData \in [Browsers -> Nat \cup {NoRequest}]
      /\ answer[r] \in Seq(AllPieces)
  BY <1>1 DEF ScanTypeOK
<1>7. r \notin disturbed =>
        /\ ~last => answer[r] \o rest = FirstPieces(scan, n, garbage, pos + 2) /\ pos + 1 <= n
        /\ last => answer[r] \o rest = FirstPieces(scan, n, garbage, n + 3)
  <2>1. (~last => pos < n /\ pos + 1 <= n) /\ (last => pos >= n)
    BY <1>3
  <2>2. pos = 1 \/ pos <= n => pos = 1 \/ pos \in 1..n
    BY <1>2, <1>3
  <2>3. Entry(pos) = EntryOf(scan, n, garbage, pos)
    BY <1>3 DEF Entry, EntryOf, Pieces, Piece, ApOf
  <2>4. (~last => rest = Entry(pos) \o <<>>) /\ (last => rest = Entry(pos) \o Pieces("end"))
    OBVIOUS
  <2> DEFINE entry == EntryOf(scan, n, garbage, pos)
             sent == FirstPieces(scan, n, garbage, pos + 1)
  <2>5. r \notin disturbed =>
          /\ pos < n => sent \o (entry \o <<>>) = FirstPieces(scan, n, garbage, pos + 2)
          /\ pos >= n => sent \o (entry \o Pieces("end")) = FirstPieces(scan, n, garbage, n + 3)
    <3> HIDE DEF rest, last, pos, scan, n, garbage
    <3>1. r \notin disturbed => pos = 1 \/ pos \in 1..n
      BY <1>5, <2>2
    <3>2. r \notin disturbed => SendsNext(scan, n, garbage, pos)
      BY <1>3, <3>1, NextPieces
    <3> QED
      BY <3>2 DEF SendsNext
  <2>6. r \notin disturbed => answer[r] = sent
    BY <1>5
  <2> HIDE DEF rest, last, entry, sent, pos, scan, n, garbage
  <2>7. Entry(pos) = entry
    BY <2>3 DEF entry
  <2> QED
    BY <2>1, <2>4, <2>5, <2>6, <2>7
<1>9. r \notin disturbed => IsDocument(answer'[r])
  <2>1. CASE gone
    BY <1>1, <1>2, <2>1
  <2>2. CASE ~gone
    <3>1. answer'[r] = answer[r] \o rest
      BY <1>2, <1>6, <2>2
    <3>2. r \notin disturbed => \E k \in 0..(n + 3) : answer'[r] = FirstPieces(scan, n, garbage, k)
      <4>1. (pos + 1 <= n => pos + 2 \in 0..(n + 3)) /\ n + 3 \in 0..(n + 3)
        <5>1. pos \in Nat /\ n \in Nat
          BY <1>3
        <5> HIDE DEF pos, n
        <5> QED
          BY <5>1
      <4> QED
        BY <1>7, <3>1, <4>1
    <3> QED
      BY <1>3, <3>2, FirstPiecesAreDocument
  <2> QED
    BY <2>1, <2>2
<1>10. \A q \in Browsers \ {r} : answer'[q] = answer[q] /\ cgiData'[q] = cgiData[q]
  BY <1>2, <1>6
<1>11. answer' \in [Browsers -> Seq(AllPieces)] /\ cgiData' \in [Browsers -> Nat \cup {NoRequest}]
  <2>1. answer[r] \o rest \in Seq(AllPieces)
    BY <1>4, <1>6, ConcatProperties
  <2>2. pos + 1 \in Nat
    BY <1>3
  <2>3. answer' \in [Browsers -> Seq(AllPieces)]
    BY <1>2, <1>6, <2>1
  <2>4. cgiData' \in [Browsers -> Nat \cup {NoRequest}]
    BY <1>2, <1>6, <2>2
  <2> QED
    BY <2>3, <2>4
<1> HIDE DEF rest
<1>12. CASE last
  <2>1. /\ cgiWifiAps' = [cgiWifiAps EXCEPT !.scanInProgress = TRUE]
        /\ sdkScans' \in BOOLEAN /\ refused' = ~sdkScans'
        /\ disturbed' = disturbed \cup {q \in Browsers \ {r} : cgiData[q] # NoRequest}
        /\ cgiData'[r] = NoRequest
    BY <1>2, <1>6, <1>12 DEF WifiStartScan
  <2>2. ScanTypeOK'
    BY <1>1, <1>11, <2>1 DEF ScanTypeOK
  <2>3. /\ cgiWifiAps'.noAps = cgiWifiAps.noAps /\ cgiWifiAps'.filled = cgiWifiAps.filled
        /\ cgiWifiAps'.there = cgiWifiAps.there /\ cgiWifiAps'.scanInProgress
    BY <1>1, <2>1 DEF ScanTypeOK
  <2>4. ScanEnds' /\ ListIsKnown'
    BY <1>1, <1>2, <2>1, <2>3 DEF ScanEnds, ListIsKnown
  <2>5. ASSUME NEW q \in Browsers, q \notin disturbed'
        PROVE  cgiData'[q] = NoRequest /\ IsDocument(answer'[q])
    BY <1>1, <1>9, <1>10, <2>1, <2>5
  <2>6. ASSUME NEW q \in Browsers, q \notin disturbed'
        PROVE  Following(q)'
    BY <2>5, <2>6 DEF Following, NoRequest
  <2>7. OneDocument'
    BY <2>5 DEF OneDocument, IsDocument
  <2> QED
    BY <2>2, <2>4, <2>6, <2>7 DEF ScanIInv
<1>13. CASE ~last
  <2>1. UNCHANGED <<cgiWifiAps, sdkScans, disturbed, refused>>
    BY <1>2, <1>13
  <2>2. ScanTypeOK' /\ ScanEnds' /\ ListIsKnown'
    BY <1>1, <1>11, <2>1 DEF ScanTypeOK, ScanEnds, ListIsKnown
  <2>3. \A q \in Browsers : q \notin disturbed => IsDocument(answer'[q])
    BY <1>1, <1>9, <1>10
  <2>4. OneDocument'
    BY <2>1, <2>3 DEF OneDocument, IsDocument
  <2>5. ASSUME r \notin disturbed
        PROVE  Following(r)'
    <3>1. CASE gone
      BY <1>2, <1>6, <3>1 DEF Following, NoRequest
    <3>2. CASE ~gone
      <4>1. cgiData'[r] = pos + 1 /\ answer'[r] = FirstPieces(scan, n, garbage, pos + 2) /\ pos + 1 <= n
        BY <1>2, <1>6, <1>7, <1>13, <2>5, <3>2
      <4>2. pos + 1 > 0 /\ (pos + 1) + 1 = pos + 2
        BY <1>3
      <4> QED
        BY <1>2, <2>1, <4>1, <4>2 DEF Following, ListUpTo
    <3> QED
      BY <3>1, <3>2
  <2>6. ASSUME NEW q \in Browsers \ {r}, q \notin disturbed
        PROVE  Following(q)'
    BY <1>1, <1>10, <2>1, <2>6 DEF Following, ListUpTo
  <2> QED
    BY <2>1, <2>2, <2>4, <2>5, <2>6 DEF ScanIInv
<1> QED
  BY <1>12, <1>13

(* A request while a scan is under way is told so.                         *)
LEMMA StillScanningKeeps ==
  ASSUME ScanIInv, NEW r \in Browsers, NEW gone \in BOOLEAN, StillScanning(r, gone),
         UNCHANGED <<scans, lostList>>
  PROVE  ScanIInv'
<1>1. /\ ScanTypeOK /\ ScanEnds /\ ListIsKnown
      /\ \A q \in Browsers : q \notin disturbed => Following(q) /\ IsDocument(answer[q])
  BY DocumentsOfAll DEF ScanIInv
<1>2. /\ cgiWifiAps.scanInProgress /\ cgiData[r] >= 0
      /\ answer' = IF gone THEN answer ELSE [answer EXCEPT ![r] = @ \o Busy]
      /\ cgiData' = [cgiData EXCEPT ![r] = NoRequest]
      /\ UNCHANGED <<cgiWifiAps, sdkScans, disturbed, refused>>
  BY DEF StillScanning, Sends, Busy
<1>3. /\ answer \in [Browsers -> Seq(AllPieces)] /\ cgiData \in [Browsers -> Nat \cup {NoRequest}]
      /\ answer[r] \in Seq(AllPieces)
  BY <1>1 DEF ScanTypeOK
<1>4. /\ answer' \in [Browsers -> Seq(AllPieces)] /\ cgiData' \in [Browsers -> Nat \cup {NoRequest}]
      /\ cgiData'[r] = NoRequest
      /\ \A q \in Browsers \ {r} : answer'[q] = answer[q] /\ cgiData'[q] = cgiData[q]
  <2>1. answer[r] \o Busy \in Seq(AllPieces)
    BY <1>3, BusyIsDocument, ConcatProperties
  <2> QED
    BY <1>2, <1>3, <2>1
<1>5. r \notin disturbed => IsDocument(answer'[r])
  <2> SUFFICES ASSUME r \notin disturbed PROVE IsDocument(answer'[r])
    OBVIOUS
  <2>1. answer[r] = <<>>
    <3>1. cgiData[r] \in Nat \cup {-1}
      BY <1>3 DEF NoRequest
    <3>2. cgiData[r] = 0
      BY <1>1, <1>2, <3>1 DEF Following
    <3> QED
      BY <1>1, <3>2 DEF Following
  <2>2. answer[r] \o Busy = Busy
    BY <2>1, BusyIsDocument, ConcatEmptySeq
  <2>3. answer'[r] = answer[r] \/ answer'[r] = Busy
    BY <1>2, <1>3, <2>2
  <2> QED
    BY <1>1, <2>3, BusyIsDocument
<1>6. ScanTypeOK' /\ ScanEnds' /\ ListIsKnown'
  BY <1>1, <1>2, <1>4 DEF ScanTypeOK, ScanEnds, ListIsKnown
<1>7. OneDocument'
  BY <1>1, <1>2, <1>4, <1>5 DEF OneDocument, IsDocument
<1>8. ASSUME NEW q \in Browsers, q \notin disturbed
      PROVE  Following(q)'
  <2>1. CASE q = r
    BY <1>4, <2>1 DEF Following, NoRequest
  <2>2. CASE q # r
    BY <1>1, <1>2, <1>4, <1>8, <2>2 DEF Following, ListUpTo
  <2> QED
    BY <2>1, <2>2
<1> QED
  BY <1>2, <1>6, <1>7, <1>8 DEF ScanIInv

(* A request finds the list that the last scan left, or none.              *)
LEMMA StartListKeeps ==
  ASSUME ScanIInv, NEW r \in Browsers, NEW gone \in BOOLEAN, StartList(r, gone),
         UNCHANGED <<scans, lostList>>
  PROVE  ScanIInv'
<1> DEFINE scan == cgiWifiAps.scan
           n == cgiWifiAps.noAps
           garbage == n - cgiWifiAps.filled
           begun == Pieces("head") \o Pieces("list")
<1>1. /\ ScanTypeOK /\ ScanEnds /\ ListIsKnown
      /\ \A q \in Browsers : q \notin disturbed => Following(q) /\ IsDocument(answer[q])
  BY DocumentsOfAll DEF ScanIInv
<1>2. /\ ~cgiWifiAps.scanInProgress /\ cgiData[r] = 0
      /\ answer' = IF gone THEN answer ELSE [answer EXCEPT ![r] = @ \o begun]
      /\ cgiData' = [cgiData EXCEPT ![r] = IF gone THEN NoRequest ELSE 1]
      /\ cgiWifiAps' = IF cgiWifiAps.there THEN cgiWifiAps ELSE [cgiWifiAps EXCEPT !.noAps = 0]
      /\ UNCHANGED <<sdkScans, disturbed, refused>>
  BY DEF StartList, Sends
<1>3. /\ answer \in [Browsers -> Seq(AllPieces)] /\ cgiData \in [Browsers -> Nat \cup {NoRequest}]
      /\ answer[r] \in Seq(AllPieces)
  BY <1>1 DEF ScanTypeOK
<1>4. cgiWifiAps' = cgiWifiAps
  <2>1. ~cgiWifiAps.there => cgiWifiAps.noAps = 0
    BY <1>1, <1>2 DEF ScanEnds, ListIsKnown
  <2>2. ~cgiWifiAps.there => [cgiWifiAps EXCEPT !.noAps = 0] = cgiWifiAps
    BY <1>1, <2>1 DEF ScanTypeOK
  <2> QED
    BY <1>2, <2>2
<1>5. /\ n \in Nat /\ n \in ApsFound \cup {0} /\ scan \in 0..MaxScans /\ scan \in Nat
      /\ garbage \in Int /\ garbage \in 0..n /\ 2 \in 0..(n + 3)
  <2>1. cgiWifiAps.filled \in Nat /\ n \in ApsFound \cup {0} /\ scan \in 0..MaxScans
        /\ cgiWifiAps.filled \in 0..n
    BY <1>1 DEF ScanTypeOK, ListIsKnown
  <2>2. n \in Nat /\ scan \in Nat
    <3>1. ApsFound \cup {0} \subseteq Nat /\ 0..MaxScans \subseteq Nat
      BY WifiScanAssumption
    <3> HIDE DEF n, scan
    <3> QED
      BY <2>1, <3>1
  <2>3. garbage \in Int /\ garbage \in 0..n /\ 2 \in 0..(n + 3)
    BY <2>1, <2>2
  <2> QED
    BY <2>1, <2>2, <2>3
<1>6. begun = FirstPieces(scan, n, garbage, 2) /\ begun \in Seq(AllPieces)
  <2> HIDE DEF scan, n, garbage
  <2>1. /\ begun \in Seq(AllPieces) /\ Len(begun) = 2
        /\ begun[1] = Piece("head") /\ begun[2] = Piece("list")
    BY PiecesAreSequences, ConcatProperties
  <2>2. /\ FirstPieces(scan, n, garbage, 2) \in Seq(AllPieces) /\ Len(FirstPieces(scan, n, garbage, 2)) = 2
        /\ FirstPieces(scan, n, garbage, 2)[1] = Piece("head")
        /\ FirstPieces(scan, n, garbage, 2)[2] = Piece("list")
    <3>1. PieceAt(scan, n, garbage, 1) = Piece("head") /\ PieceAt(scan, n, garbage, 2) = Piece("list")
      BY DEF PieceAt
    <3>2. FirstPieces(scan, n, garbage, 2) \in Seq(AllPieces) /\ Len(FirstPieces(scan, n, garbage, 2)) = 2
      <4>1. \A k \in Nat : FirstPieces(scan, n, garbage, k) \in Seq(AllPieces)
                            /\ Len(FirstPieces(scan, n, garbage, k)) = k
        BY <1>5, FirstPiecesTypes
      <4> QED
        BY <4>1
    <3>3. \A i \in 1..2 : FirstPieces(scan, n, garbage, 2)[i] = PieceAt(scan, n, garbage, i)
      BY DEF FirstPieces
    <3> QED
      BY <3>1, <3>2, <3>3
  <2> DEFINE two == FirstPieces(scan, n, garbage, 2)
  <2> HIDE DEF begun, two
  <2>3. \A i \in 1..2 : begun[i] = two[i]
    BY <2>1, <2>2 DEF two
  <2> QED
    BY <2>1, <2>2, <2>3, SeqEqual DEF two
<1> HIDE DEF begun
<1>7. /\ answer' \in [Browsers -> Seq(AllPieces)] /\ cgiData' \in [Browsers -> Nat \cup {NoRequest}]
      /\ \A q \in Browsers \ {r} : answer'[q] = answer[q] /\ cgiData'[q] = cgiData[q]
  <2>1. answer[r] \o begun \in Seq(AllPieces)
    BY <1>3, <1>6, ConcatProperties
  <2> QED
    BY <1>2, <1>3, <2>1
<1>8. r \notin disturbed /\ ~gone => answer'[r] = FirstPieces(scan, n, garbage, 2) /\ cgiData'[r] = 1
  <2>1. r \notin disturbed => answer[r] = <<>>
    BY <1>1, <1>2 DEF Following
  <2>2. <<>> \o begun = begun
    BY <1>6, ConcatEmptySeq
  <2> QED
    BY <1>2, <1>3, <1>6, <2>1, <2>2
<1>9. r \notin disturbed => IsDocument(answer'[r])
  <2>1. CASE gone
    BY <1>1, <1>2, <2>1
  <2>2. CASE ~gone
    <3> HIDE DEF scan, n, garbage
    <3> QED
      BY <1>5, <1>8, <2>2, FirstPiecesAreDocument
  <2> QED
    BY <2>1, <2>2
<1>10. ScanTypeOK' /\ ScanEnds' /\ ListIsKnown'
  BY <1>1, <1>2, <1>4, <1>7 DEF ScanTypeOK, ScanEnds, ListIsKnown
<1>11. OneDocument'
  <2>1. \A q \in Browsers : q \notin disturbed => IsDocument(answer'[q])
    BY <1>1, <1>7, <1>9
  <2> QED
    BY <1>2, <2>1 DEF OneDocument, IsDocument
<1>12. ASSUME NEW q \in Browsers, q \notin disturbed
       PROVE  Following(q)'
  <2>1. CASE q = r /\ gone
    <3>1. cgiData'[q] = NoRequest
      BY <1>2, <1>3, <2>1
    <3> QED
      BY <3>1 DEF Following, NoRequest
  <2>2. CASE q = r /\ ~gone
    <3>1. cgiData'[q] = 1 /\ cgiData'[q] + 1 = 2
      BY <1>8, <1>12, <2>2
    <3>2. (answer[q] = ListUpTo(cgiData[q]))'
      <4>1. answer'[q] = FirstPieces(scan, n, garbage, cgiData'[q] + 1)
        BY <1>8, <1>12, <2>2, <3>1
      <4> HIDE DEF scan, n, garbage
      <4>2. cgiWifiAps'.scan = scan /\ cgiWifiAps'.noAps = n /\ (cgiWifiAps'.noAps - cgiWifiAps'.filled) = garbage
        BY <1>4 DEF scan, n, garbage
      <4> QED
        BY <4>1, <4>2 DEF ListUpTo
    <3>3. (~cgiWifiAps.scanInProgress)' /\ (cgiData[q] = 1)' /\ (cgiData[q] # 0)'
      BY <1>2, <1>4, <3>1
    <3> QED
      BY <3>2, <3>3 DEF Following
  <2>3. CASE q # r
    BY <1>1, <1>4, <1>7, <1>12, <2>3 DEF Following, ListUpTo
  <2> QED
    BY <2>1, <2>2, <2>3
<1> QED
  BY <1>2, <1>10, <1>11, <1>12 DEF ScanIInv

(* A new request has been sent nothing yet.                                *)
LEMMA BrowserAsksKeeps ==
  ASSUME ScanIInv, NEW r \in Browsers, BrowserAsks(r)
  PROVE  ScanIInv'
<1>1. /\ ScanTypeOK /\ ScanEnds /\ ListIsKnown
      /\ \A q \in Browsers : q \notin disturbed => Following(q) /\ IsDocument(answer[q])
  BY DocumentsOfAll DEF ScanIInv
<1>2. /\ cgiData' = [cgiData EXCEPT ![r] = 0]
      /\ answer' = [answer EXCEPT ![r] = <<>>]
      /\ disturbed' = disturbed \ {r}
      /\ UNCHANGED <<cgiWifiAps, sdkScans, scans, lostList, refused>>
  BY DEF BrowserAsks
<1>3. /\ answer \in [Browsers -> Seq(AllPieces)] /\ cgiData \in [Browsers -> Nat \cup {NoRequest}]
      /\ disturbed \subseteq Browsers
  BY <1>1 DEF ScanTypeOK
<1>4. /\ answer' \in [Browsers -> Seq(AllPieces)] /\ cgiData' \in [Browsers -> Nat \cup {NoRequest}]
      /\ answer'[r] = <<>> /\ cgiData'[r] = 0
      /\ \A q \in Browsers \ {r} : answer'[q] = answer[q] /\ cgiData'[q] = cgiData[q]
  <2>1. <<>> \in Seq(AllPieces)
    OBVIOUS
  <2> QED
    BY <1>2, <1>3, <2>1
<1>5. ScanTypeOK' /\ ScanEnds' /\ ListIsKnown'
  BY <1>1, <1>2, <1>3, <1>4 DEF ScanTypeOK, ScanEnds, ListIsKnown
<1>6. \A q \in Browsers : q \notin disturbed' => IsDocument(answer'[q])
  <2>1. IsDocument(answer'[r])
    BY <1>4, BusyIsDocument
  <2> QED
    BY <1>1, <1>2, <1>4, <2>1
<1>7. OneDocument'
  BY <1>6 DEF OneDocument, IsDocument
<1>8. ASSUME NEW q \in Browsers, q \notin disturbed'
      PROVE  Following(q)'
  <2>1. CASE q = r
    BY <1>4, <2>1 DEF Following
  <2>2. CASE q # r
    BY <1>1, <1>2, <1>4, <1>8, <2>2 DEF Following, ListUpTo
  <2> QED
    BY <2>1, <2>2
<1> QED
  BY <1>5, <1>7, <1>8 DEF ScanIInv

LEMMA ScanStep == ScanIInv /\ [WifiScanNext]_scanVars => ScanIInv'
<1> SUFFICES ASSUME ScanIInv, [WifiScanNext]_scanVars
             PROVE  ScanIInv'
  OBVIOUS
<1>1. CASE ScanFails \/ NoMemoryForList \/ WifiScanDoneCb
  BY <1>1, ScanEndKeeps
<1>2. ASSUME NEW r \in Browsers, BrowserAsks(r)
      PROVE  ScanIInv'
  BY <1>2, BrowserAsksKeeps
<1>3. ASSUME NEW r \in Browsers, NEW gone \in BOOLEAN, CgiWiFiScan(r, gone)
      PROVE  ScanIInv'
  <2>1. UNCHANGED <<scans, lostList>>
    BY <1>3 DEF CgiWiFiScan
  <2>2. CASE NextEntry(r, gone)
    BY <2>1, <2>2, NextEntryKeeps
  <2>3. CASE StillScanning(r, gone)
    BY <2>1, <2>3, StillScanningKeeps
  <2>4. CASE StartList(r, gone)
    BY <2>1, <2>4, StartListKeeps
  <2> QED
    BY <1>3, <2>2, <2>3, <2>4 DEF CgiWiFiScan
<1>4. CASE UNCHANGED scanVars
  <2>1. UNCHANGED <<cgiWifiAps, sdkScans, scans, cgiData, answer, disturbed, lostList,
                  refused>>
    BY <1>4 DEF scanVars
  <2>2. ScanTypeOK' /\ ScanEnds' /\ ListIsKnown'
    BY <2>1 DEF ScanIInv, ScanTypeOK, ScanEnds, ListIsKnown
  <2>3. OneDocument'
    BY <2>1 DEF ScanIInv, OneDocument
  <2>4. \A r \in Browsers : r \notin disturbed' => Following(r)'
    BY <2>1 DEF ScanIInv, Following, ListUpTo
  <2> QED
    BY <2>2, <2>3, <2>4 DEF ScanIInv
<1> QED
  BY <1>1, <1>2, <1>3, <1>4 DEF WifiScanNext

(* Whoever asks for the list of access points is sent one document: that a *)
(* scan is under way, or the entries of one scan, unless another request   *)
(* started a scan meanwhile; and the flag that keeps further scans from    *)
(* starting is up only while one is under way, was refused or has lost its *)
(* list.                                                                   *)
THEOREM ScansCorrect == WifiScanSpec => []ScansAnswered
<1>1. ScanIInv => ScansAnswered
  BY DEF ScanIInv, ScansAnswered
<1> QED
  BY <1>1, ScanInitial, ScanStep, PTL DEF WifiScanSpec
===============================================================================

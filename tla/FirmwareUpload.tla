---------------------------- MODULE FirmwareUpload ----------------------------
(***************************************************************************)
(* Replacing the firmware through the web server (libesphttpd/util/         *)
(* cgiflash.c): a file posted in blocks is written to the half of the      *)
(* flash that does not run, page by page, and another request reboots into *)
(* it.  The file that holds both halves is made by mkupgimg.  Every        *)
(* connection has an UploadState of its own, and all write to one flash.   *)
(*                                                                         *)
(* A byte is named by the part of the file it belongs to, the number of    *)
(* the upload and its place, so that no two are equal by accident.         *)
(***************************************************************************)
EXTENDS Data

CONSTANTS
  PAGELEN,     \* bytes collected for one write to the flash (64 in the code)
  SECTOR,      \* SPI_FLASH_SEC_SIZE, erased at once
  POST_BLOCK,  \* bytes of the body the server collects for one call (1024)
  OTA_HEADER,  \* sizeof(OtaHeader) (40)
  FW_SIZE,     \* def->fwSize
  ImageSizes,  \* sizes of user1.bin and user2.bin in a file for both halves
  FileSizes,   \* sizes of a file for one half or for the file system
  Surplus,     \* bytes posted after the end of the file
  FileKinds,   \* what is posted: "ota", "bin", "espfs", "other"
  Uploaders,   \* connections
  MaxUploads,  \* bound: uploads that begin
  MaxFlashFaults  \* bound: blocks during which the flash fails

ASSUME PageAssumption == PAGELEN \in Nat \ {0} /\ SECTOR % PAGELEN = 0
ASSUME SizeAssumption == FW_SIZE % SECTOR = 0 /\ ImageSizes \cup FileSizes \subseteq 1..(2 * FW_SIZE)
ASSUME BlockAssumption == OTA_HEADER \in 1..POST_BLOCK /\ \A len \in ImageSizes : len > 1

VARIABLES
  upload,      \* per connection: file, number, bytes received, UploadState and answer
  flash,       \* its content, address by address
  running,     \* the half that runs
  resetTimer,  \* is it armed?
  uploads,     \* how many have begun
  flashFaults  \* how many blocks met a flash that fails

uploadVars == <<upload, flash, running, resetTimer, uploads, flashFaults>>

ERASED == <<"erased", 0, 0>>
GARBLED == <<"garbled", 0, 0>>

(* CgiUploadFlashDef: the two halves, and a third area for file systems.   *)
Position(area) ==
  CASE area = "user1" -> 0 [] area = "user2" -> FW_SIZE [] area = "espfs" -> 2 * FW_SIZE
Area(area) == Position(area)..(Position(area) + FW_SIZE - 1)

(* mkupgimg: the header with both lengths, then both files.                *)
PackOta(len1, len2) ==
  [kind |-> "ota", len1 |-> len1, len2 |-> len2, len |-> OTA_HEADER + len1 + len2]

(* What clients post: [..., tag]: does the tag match or "force" override   *)
(* the check?  A file for both halves may be cut short or be followed by   *)
(* other bytes; of the others the code knows no length but that of the     *)
(* body.  Neither mkupgimg nor the code asks whether each image fits a     *)
(* half.                                                                   *)
Post(f, len, tag) ==
  [kind |-> f.kind, len1 |-> f.len1, len2 |-> f.len2, len |-> len, whole |-> f.len, tag |-> tag]

Posts ==
  LET both == {PackOta(len1, len2) : len1, len2 \in ImageSizes}
      one == [kind : {"bin", "espfs"}, len1 : {0}, len2 : {0}, len : FileSizes]
      unknown == [kind |-> "other", len1 |-> 0, len2 |-> 0, len |-> 1]
      whole == {Post(f, f.len, TRUE) : f \in both \cup one \cup {unknown}}
      cut == {Post(f, f.len - 1, TRUE) : f \in both}
      longer == {Post(f, f.len + n, TRUE) : <<f, n>> \in both \X Surplus}
      untagged == {Post(f, f.len, FALSE) : f \in both}
  IN  {post \in whole \cup cut \cup longer \cup untagged : post.kind \in FileKinds}

Byte(file, number, i) ==
  CASE file.kind # "ota" -> <<file.kind, number, i>>
    [] file.kind = "ota" /\ i <= OTA_HEADER -> <<"header", number, i>>
    [] file.kind = "ota" /\ i > OTA_HEADER /\ i - OTA_HEADER <= file.len1 ->
         <<"user1", number, i - OTA_HEADER>>
    [] OTHER -> <<"user2", number, i - OTA_HEADER - file.len1>>

NoUpload == [file |-> [kind |-> "none"], answer |-> "none"]
Begun(c) == upload[c].file.kind # "none"
Uploading(c) == Begun(c) /\ upload[c].answer = "none"
NewState == [state |-> "START", page |-> <<>>, address |-> 0, len |-> 0, skip |-> 0]

-------------------------------------------------------------------------------
(* The loop of cgiUploadFirmware() on s: the UploadState s.u, the flash,   *)
(* the offset s.at of data in the file and s.left, dataLen; s.fault is the *)
(* call of the SDK that fails: nobody looks at its result.                 *)
StartOtaSameHalf(s, file) ==
  LET here == [s EXCEPT !.at = @ + OTA_HEADER, !.left = @ - OTA_HEADER]
  IN  CASE ~file.tag \/ file.len > FW_SIZE * 2 + OTA_HEADER -> [s EXCEPT !.u.state = "ERROR"]
        [] file.tag /\ file.len <= FW_SIZE * 2 + OTA_HEADER /\ running = "user1" ->
             [here EXCEPT !.u = [state |-> "WRITE", page |-> <<>>, len |-> file.len1,
                                 skip |-> file.len2, address |-> Position("user1")]]
        [] OTHER ->
             [here EXCEPT !.u = [state |-> "SKIP", page |-> <<>>, len |-> file.len2,
                                 skip |-> file.len1, address |-> Position("user2")]]

StartOta(s, file) ==
  LET here == [s EXCEPT !.at = @ + OTA_HEADER, !.left = @ - OTA_HEADER]
  IN  CASE ~file.tag \/ file.len > FW_SIZE * 2 + OTA_HEADER -> [s EXCEPT !.u.state = "ERROR"]
        [] file.tag /\ file.len <= FW_SIZE * 2 + OTA_HEADER /\ running = "user2" ->
             [here EXCEPT !.u = [state |-> "WRITE", page |-> <<>>, len |-> file.len1,
                                 skip |-> file.len2, address |-> Position("user1")]]
        [] OTHER ->
             [here EXCEPT !.u = [state |-> "SKIP", page |-> <<>>, len |-> file.len2,
                                 skip |-> file.len1, address |-> Position("user2")]]

(* A file for one half goes to the first, whichever half runs.             *)
StartImage(s, file, area) ==
  IF file.len > FW_SIZE THEN [s EXCEPT !.u.state = "ERROR"]
  ELSE [s EXCEPT !.u = [state |-> "WRITE", page |-> <<>>, len |-> file.len, skip |-> 0,
                        address |-> Position(area)]]

Start(s, file) ==
  CASE file.kind = "ota" -> StartOta(s, file)
    [] file.kind = "bin" -> StartImage(s, file, "user1")
    [] file.kind = "espfs" -> StartImage(s, file, "espfs")
    [] file.kind = "other" -> [s EXCEPT !.u.state = "ERROR"]

Skip(s) ==
  IF s.u.skip > s.left THEN [s EXCEPT !.u.skip = @ - s.left, !.left = 0]
  ELSE [s EXCEPT !.left = @ - s.u.skip, !.at = @ + s.u.skip, !.u.skip = 0,
                 !.u.state = IF s.u.len # 0 THEN "WRITE" ELSE "DONE"]

(* A sector is erased with its first page; flash that is not erased keeps  *)
(* neither the old nor the new byte.                                       *)
Programmed(s, page) ==
  LET address == s.u.address
      erased == IF address % SECTOR = 0 /\ s.fault # "erase"
                THEN address..(address + SECTOR - 1) ELSE {}
      written == IF s.fault # "write" THEN address..(address + Len(page) - 1) ELSE {}
      old(a) == IF a \in erased THEN ERASED ELSE s.flash[a]
  IN  [a \in DOMAIN s.flash |->
         CASE a \notin written -> old(a)
           [] a \in written /\ old(a) = ERASED -> page[a - address + 1]
           [] OTHER -> GARBLED]

WriteFullPages(s, file, number) ==
  LET room == PAGELEN - Len(s.u.page)
      n == Lesser(s.left, room)
      page == s.u.page \o [i \in 1..n |-> Byte(file, number, s.at + i)]
      rest == [s EXCEPT !.at = @ + n, !.left = @ - n, !.u.len = @ - Lesser(n, s.u.len)]
  IN  IF s.left < room THEN [rest EXCEPT !.u.page = page]
      ELSE [rest EXCEPT !.flash = Programmed(s, page),
                        !.u.address = @ + PAGELEN, !.u.page = <<>>,
                        !.u.state = CASE s.u.len > n -> "WRITE"
                                      [] s.u.len <= n /\ s.u.skip # 0 -> "SKIP"
                                      [] OTHER -> "DONE"]

Write(s, file, number) ==
  LET room == Lesser(PAGELEN - Len(s.u.page), s.u.len)
      n == Lesser(s.left, room)
      page == s.u.page \o [i \in 1..n |-> Byte(file, number, s.at + i)]
      rest == [s EXCEPT !.at = @ + n, !.left = @ - n, !.u.len = @ - n]
  IN  IF s.left < room THEN [rest EXCEPT !.u.page = page]
      ELSE [rest EXCEPT !.flash = Programmed(s, page),
                        !.u.address = @ + PAGELEN, !.u.page = <<>>,
                        !.u.state = CASE s.u.len > n -> "WRITE"
                                      [] s.u.len = n /\ s.u.skip # 0 -> "SKIP"
                                      [] OTHER -> "DONE"]

RECURSIVE UploadBlock(_, _, _)
UploadBlock(s, file, number) ==
  CASE s.left = 0 -> s
    [] s.left # 0 /\ s.u.state = "START" -> UploadBlock(Start(s, file), file, number)
    [] s.left # 0 /\ s.u.state = "SKIP" -> UploadBlock(Skip(s), file, number)
    [] s.left # 0 /\ s.u.state = "WRITE" -> UploadBlock(Write(s, file, number), file, number)
    [] OTHER -> [s EXCEPT !.left = 0]

-------------------------------------------------------------------------------
(* The first call.  Without memory for the UploadState it ends the         *)
(* connection: as AbortUpload does.                                        *)
BeginUpload(c, file) ==
  /\ ~Uploading(c)
  /\ uploads < MaxUploads
  /\ uploads' = uploads + 1
  /\ upload' = [upload EXCEPT ![c] =
       [file |-> file, number |-> uploads + 1, received |-> 0, u |-> NewState,
        answer |-> "none", disturbed |-> FALSE, stored |-> FALSE]]
  /\ UNCHANGED <<flash, running, resetTimer, flashFaults>>

(* cgiGetFirmwareNext(): the half that an upload should be made for.       *)
FirmwareNext == IF running = "user2" THEN "user1" ELSE "user2"

Target(file) ==
  CASE file.kind = "ota" -> FirmwareNext
    [] file.kind = "espfs" -> "espfs"
    [] OTHER -> "user1"
ImageLen(file) ==
  CASE file.kind = "ota" /\ FirmwareNext = "user1" -> file.len1
    [] file.kind = "ota" /\ FirmwareNext = "user2" -> file.len2
    [] OTHER -> file.len
Image(file, number) ==
  LET part == IF file.kind = "ota" THEN FirmwareNext ELSE file.kind
  IN  [i \in 1..ImageLen(file) |-> <<part, number, i>>]
Holds(content, address, bytes) == \A i \in DOMAIN bytes : content[address + i - 1] = bytes[i]

(* The sectors that the upload of c has erased so far.                     *)
Prepared(c) ==
  IF upload[c].u.state = "START" THEN {}
  ELSE {a \in DOMAIN flash : /\ a >= Position(Target(upload[c].file))
                             /\ SECTOR * (a \div SECTOR) < upload[c].u.address}

(* The response: 400 only for a file that was refused; one that ended too  *)
(* early is answered 200, with the text of an error.                       *)
Answer(state) ==
  CASE state = "ERROR" -> "refused"
    [] state = "DONE" -> "ok"
    [] OTHER -> "premature end"

(* cgiUploadFirmware() with the next block.  Histories: stored is what the *)
(* flash held at the time of the answer; disturbed that something else     *)
(* than the own upload changed its sectors, or that the flash failed.      *)
CgiUploadFirmware(c, fault) ==
  /\ Uploading(c)
  /\ fault # "none" => flashFaults < MaxFlashFaults
  /\ LET r == upload[c]
         block == Lesser(POST_BLOCK, r.file.len - r.received)
         s == UploadBlock([u |-> r.u, flash |-> flash, at |-> r.received,
                           left |-> block, fault |-> fault], r.file, r.number)
         received == r.received + block
         answer == IF received < r.file.len THEN "none" ELSE Answer(s.u.state)
         disturbs(o) == \E a \in Prepared(o) : s.flash[a] # flash[a]
     IN  /\ flash' = s.flash
         /\ upload' = [o \in Uploaders |->
              CASE o = c ->
                     [r EXCEPT !.u = s.u, !.received = received, !.answer = answer,
                               !.disturbed = @ \/ fault # "none",
                               !.stored = /\ answer = "ok"
                                          /\ Holds(s.flash, Position(Target(r.file)),
                                                   Image(r.file, r.number))]
                [] o # c /\ Uploading(o) -> [upload[o] EXCEPT !.disturbed = @ \/ disturbs(o)]
                [] OTHER -> upload[o]]
  /\ flashFaults' = IF fault = "none" THEN flashFaults ELSE flashFaults + 1
  /\ UNCHANGED <<running, resetTimer, uploads>>

(* The connection is lost, and the state freed.                            *)
AbortUpload(c) ==
  /\ Uploading(c)
  /\ upload' = [upload EXCEPT ![c] = NoUpload]
  /\ UNCHANGED <<flash, running, resetTimer, uploads, flashFaults>>

CgiRebootFirmware ==
  /\ resetTimer' = TRUE
  /\ UNCHANGED <<upload, flash, running, uploads, flashFaults>>

(* resetTimerCb(): the other half runs from now on.                        *)
ResetTimerCb ==
  /\ resetTimer
  /\ resetTimer' = FALSE
  /\ running' = FirmwareNext
  /\ upload' = [c \in Uploaders |-> NoUpload]
  /\ UNCHANGED <<flash, uploads, flashFaults>>

UploadInit ==
  /\ upload = [c \in Uploaders |-> NoUpload]
  /\ flash = [a \in 0..(3 * FW_SIZE - 1) |-> <<"factory", 0, a>>]
  /\ running \in {"user1", "user2"}
  /\ resetTimer = FALSE
  /\ uploads = 0
  /\ flashFaults = 0

UploadNext ==
  \/ \E c \in Uploaders, file \in Posts : BeginUpload(c, file)
  \/ \E c \in Uploaders, fault \in {"none", "erase", "write"} : CgiUploadFirmware(c, fault)
  \/ \E c \in Uploaders : AbortUpload(c)
  \/ CgiRebootFirmware
  \/ ResetTimerCb

-------------------------------------------------------------------------------
Refused(file) ==
  \/ file.kind = "ota" /\ (~file.tag \/ file.len > 2 * FW_SIZE + OTA_HEADER)
  \/ file.kind \in {"bin", "espfs"} /\ file.len > FW_SIZE
  \/ file.kind = "other"

(* However the file was cut into blocks, whatever an upload that was       *)
(* broken off has left in the flash, and while another connection uploads: *)
(* the answer is 400 exactly if the file was refused, and then none of it  *)
(* was written; it has no text of an error exactly if the file was         *)
(* accepted and complete, and then the whole image was in the flash unless *)
(* the flash failed or another upload wrote into its sectors: of these two *)
(* the code knows nothing.                                                 *)
UploadAnswerTrue ==
  \A c \in Uploaders : upload[c].answer # "none" =>
    LET r == upload[c]
    IN  /\ r.answer = "refused" <=> Refused(r.file)
        /\ r.answer = "refused" => \A a \in DOMAIN flash : flash[a][2] # r.number
        /\ r.answer = "ok" <=> ~Refused(r.file) /\ r.file.len >= r.file.whole
        /\ r.answer = "ok" /\ ~r.disturbed => r.stored

(* The half that runs is changed by no upload but two: a file for one half *)
(* while the first half runs, for it goes there, and a file for both       *)
(* halves, made while the second one runs, whose first image is longer     *)
(* than a half.  Both are findings (RunningHalfSpared).                    *)
RunningHalfKept ==
  [][(\E a \in Area(running) : flash'[a] # flash[a]) =>
       \E c \in Uploaders :
         /\ upload'[c] # upload[c]
         /\ \/ upload[c].file.kind = "bin" /\ running = "user1"
            \/ upload[c].file.kind = "ota" /\ running = "user2" /\ upload[c].file.len1 > FW_SIZE]_uploadVars

(* "Cgi that allows the firmware to be replaced via http POST [...] with   *)
(* either the firmware given by cgiGetFirmwareNext or an OTA upgrade       *)
(* image" (cgiflash.c:65-67): the half that runs holds nothing of an       *)
(* upload made since the boot.                                             *)
RunningHalfSpared ==
  \A c \in Uploaders, a \in Area(running) : Begun(c) => flash[a][2] # upload[c].number
===============================================================================

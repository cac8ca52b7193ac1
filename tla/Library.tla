-------------------------------- MODULE Library --------------------------------
(***************************************************************************)
(* The parts of libesphttpd and of driver_lib that do not touch each       *)
(* other, in one model: a behaviour is one of any one of them, while the   *)
(* others rest in an initial state.                                        *)
(***************************************************************************)
EXTENDS FlashImage, FirmwareUpload, Websocket, FreertosServer, WifiScan, WifiConnect,
  CaptiveDns, Codec, Uart, Key, I2cMaster, Sdio, TLC

VARIABLE part  \* the part that runs

Resting(name, state) == part = name \/ state

Parts ==
  {"image", "upload", "websocket", "freertos", "scan", "connect", "dns", "codec",
   "uart", "key", "i2c", "sdio"}

LibraryInit ==
  /\ part \in Parts
  /\ ImageInit
  /\ Resting("image", tool = Idle /\ files = <<<<>>, <<PERCENT>>>> /\ image.level = 0)
  /\ UploadInit /\ Resting("upload", running = "user1")
  /\ SocketInit /\ Resting("websocket", \A s \in Talkers : sock[s].script = <<>>)
  /\ RtosInit
  /\ WifiScanInit
  /\ WifiConnectInit /\ Resting("connect", opmode = 1)
  /\ DnsInit /\ Resting("dns", query.ancount = 0 /\ ~query.tc)
  /\ CodecInit /\ Resting("codec", job.kind = "form" /\ job.plain = <<>> /\ job.size = 0)
  /\ UartInit /\ Resting("uart", ~buffered)
  /\ KeyInit
  /\ I2cInit
  /\ SdioInit

Rests(name, v) == part # name /\ UNCHANGED v

LibraryNext ==
  /\ UNCHANGED part
  /\ (part = "image" /\ ImageNext) \/ Rests("image", imageVars)
  /\ (part = "upload" /\ UploadNext) \/ Rests("upload", uploadVars)
  /\ (part = "websocket" /\ SocketNext) \/ Rests("websocket", socketVars)
  /\ (part = "freertos" /\ RtosNext) \/ Rests("freertos", rtosVars)
  /\ (part = "scan" /\ WifiScanNext) \/ Rests("scan", scanVars)
  /\ (part = "connect" /\ WifiConnectNext) \/ Rests("connect", connectVars)
  /\ (part = "dns" /\ DnsNext) \/ Rests("dns", dnsVars)
  /\ (part = "codec" /\ CodecNext) \/ Rests("codec", codecVars)
  /\ (part = "uart" /\ UartNext) \/ Rests("uart", uartVars)
  /\ (part = "key" /\ KeyNext) \/ Rests("key", keyVars)
  /\ (part = "i2c" /\ I2cNext) \/ Rests("i2c", i2cVars)
  /\ (part = "sdio" /\ SdioNext) \/ Rests("sdio", sdioVars)

(* The connections that upload are told apart only by their names.         *)
Symmetry == Permutations(Uploaders)
===============================================================================

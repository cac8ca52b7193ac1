# A TLA+ model of Thirst

Thirst is the firmware of a plant-moisture sensor on an ESP8266 (NON-OS SDK). The
device sleeps for two hours at a time, counts its sleeps in RTC memory, and on every
twelfth boot measures the soil, compares the reading with a threshold and, if need be,
asks a gateway over TLS to send an e-mail. With the button held at start-up, or without
a valid configuration, it opens an access point and serves a configuration page.

This directory holds a formal model of that behaviour, the model-checking runs and the
machine-checked proofs. `T:` stands for `src/firmware/thirst/src/thirst.c`, `W:` for
`web_interface.c` beside it, `system.h` for `src/firmware/thirst/src/include/system.h`;
`core/`, `util/`, `espfs/` and `lib/` are directories of `src/firmware/libesphttpd`, and
`driver/` is `src/firmware/driver_lib/driver`.

## 1. The system and its parts

Everything runs on one core, in callbacks of the SDK and one task, each to its end.
What is concurrent is the *order* in which the SDK delivers WiFi events, task signals,
timer expiries and socket callbacks, and what the world does in between: resets, power
cuts, a lost access point, a server that is slow or gone.

| Part | State | Operations | Talks to | What makes it hard | What makes it correct |
|---|---|---|---|---|---|
| **Deep sleep schedule** (T:806-930) | `sleep_count` in RTC memory; reset reason; radio option programmed into the chip | `sys_deep_sleep_cycle` | the next boot, through RTC memory and the sleep option | RAM is lost at every sleep; the radio of a boot is chosen one boot before; garbage in RTC memory after power-up; resets at any point | the radio is on when a boot measures and off otherwise; never more than a cycle without a measurement; never two notifications within a cycle |
| **State machine** (T:687-804, 932-1671) | `sys_state` (last transition), WiFi mode, task queue of length 1, one software timer, LED | start-up callback, `sys_cb_wifi_event`, `sys_task_handler_main`, LED toggle | everything else, by changing the WiFi mode: the *event* of the mode change posts the signal that belongs to the transition | the mode is looked up when the event is delivered; nobody looks at the result of `system_os_post()`; one timer for four purposes; error paths that go on | a device joins a network only with its radio and a saved configuration; a signal is not lost; an error is shown with the WiFi off; every measuring boot ends |
| **Gateway client** (T:108-505) | `gateway_sock`, response timer, sleep parameters | DNS, connect, receive, timeout and disconnect callbacks | lwIP/espconn; the state machine | timeout against answer against close against a lost link; answers in several pieces; no error callback registered | sleeps after a request only if it was accepted; always reaches sleep or the error LED |
| **Threshold decision** (T:1065-1104) | configuration, one reading | GOT_IP handler | sensor | unsigned wrap-around, integer division | no alarm missed, no false alarm |
| **Configuration storage** (T:509-599) | `config_current`, one flash sector, an 8-bit Pearson checksum | read, validate, default | flash | torn sectors; 8-bit checksum | a damaged configuration is not used |
| **Saving** (W:163-296, 542-899) | RTC counter, sector, restart timer | `save_config.cgi`, restart timeout | flash, RTC memory, state machine | several failing steps; reset in the middle; repeated saves | a saved configuration restarts the device; a failed save leaves no usable rubbish |
| **Web requests** (W:62-160, 298-1008) | POST accumulator and its index, scan flag and list | get config, sensor reading, scan, save; the scan callback | HTTP server, WiFi | one accumulator, of 4096 bytes, and one flag for all connections; clients that vanish | a form is saved as it was sent and stays inside the buffer; the flag is up only during a scan |
| **HTTP server** (`core/httpd.c`, `httpd-nonos.c`, `httpdespfs.c`) | pool of connections, send buffer, backlog, open files | receive, send and disconnect callbacks | lwIP, the CGI functions | pool and backlog at their limits; a packet refused in the middle of an answer; everything further happens in a sent callback | answers arrive whole and in order; a slot and a file come back; no connection stalls |
| **Flash image** (`espfs/`, templates of `core/httpdespfs.c`) | image, open file, token being read | `mkespfsimage` on the build host; open, read, expand | heatshrink | alignment, compressed files read in pieces, tokens across reads | every file is found and served whole |
| **Compression** (`lib/heatshrink`) | two bit-level machines, buffers of the tool | sink, poll, finish; the tool's read loop | mkespfsimage, espfs | sliding window, arbitrary piece sizes, the end of the data | decompression undoes compression |
| **Firmware upload** (`util/cgiflash.c`, `mkupgimg`) | page buffer, state, address; two halves of the flash | POST blocks, reboot | flash | blocks match neither pages nor sectors; broken-off uploads, two at a time; results of the flash ignored | the answer is true; the running half is kept |
| **Web sockets** (`util/cgiwebsocket.c`) | list of sockets, one parser each | handshake, receive, send, broadcast, close | HTTP server | frames split anywhere; sockets that leave during a broadcast | frames are heard as they were said |
| **Socket loop of FreeRTOS** (`core/httpd-freertos.c`) | table of connections, the sets of `select()` | one task | lwIP sockets | a flag changed between `select()` and its evaluation | no socket is forgotten, no callback lost |
| **WiFi set-up pages** (`util/cgiwifi.c`) | list of access points, status of joining, two timers | scan, list, connect, status, mode | WiFi | everything is shared by all requests | a complete answer is one document; a verdict is on the last attempt |
| **Captive DNS** (`util/captdns.c`) | none between packets | one UDP packet | lwIP | compressed names | the answers name the questions |
| **Encodings** (`core/base64.c`, `core/auth.c`, `httpdUrlDecode`) | none | encode, decode, authenticate | HTTP server | boundaries of the buffers | exact up to the last byte |
| **UART, key, I2C, SDIO** (`driver/uart.c`, `key.c`, `i2c_master.c`, `sdio_slv.c`) | ring buffers and interrupt masks; key and timers; two lines; two lists of buffers | interrupt handlers, timers, calls | hardware | interrupts between and within calls | see section 3 |
| **Page** (`web_interface/index.html`) | form | client of the above | | form checks are the only checks | not modelled |
| SDK, lwIP, mbedTLS | | | | | external: module `Platform` states what a call does to the firmware |

Thirst itself links libesphttpd and uses its server and file system (`user_main`, W). The
firmware upload, web sockets, WiFi set-up pages, captive DNS and the FreeRTOS loop come
with the library and are in the repository, but Thirst's table of URLs does not
name them; they are modelled as the library offers them, under callers
that keep to their interface. Of the
drivers Thirst uses `uart.c` alone, to set the speed of its debug output (T:748).

`PROJECT.json` lists every part with its status, and under `hazards` what in this code a
test would hardly reach, with the property that watches it or the reason none does yet.

## 2. Modules

```
SleepCycle  <-- implemented by --  Thirst  =  Gateway + ConfigMode     Threshold
    |                                |             |        |              |
SleepCycleProofs -------------- ThirstProofs       System --+       ThresholdProofs
                                                     |
                                                  Platform

WebServer -- WebInterface -- HttpConnection
    |
WebServerProofs
    |
ExchangeProofs

Library  =  FlashImage + FirmwareUpload + Websocket + FreertosServer + WifiScan
            (EspFs, HeatshrinkTool: Heatshrink)
          + WifiConnect + CaptiveDns + Codec + Uart + Key + I2cMaster + Sdio
                                                |      |        |        |
                                                +----- DriverProofs -----+
            (WifiProofs for WifiScan and WifiConnect, FreertosProofs for FreertosServer)
```

* **`Platform`** (external): the chip (`power`, `reset_reason`, `radio`,
  `rtc_sleep_count`, the programmed `deep_sleep`), the task queue, the software timer,
  the WiFi mode with its undelivered events, the link and the socket. `Posted` is
  `system_os_post()` (a full queue drops the signal), `SetOpmode` is
  `wifi_set_opmode_current()` (an event becomes pending), `StationDisconnect` and its
  failure are `wifi_station_disconnect()`. `Faults`, a constant, is the set of things
  the environment may do in a run.
* **`System`**: the state machine; one action per handler branch. `InitDone` is
  `sys_cb_init_done`; the `NullMode...`, `StationMode` and `StationApMode` actions are the
  branches of EVENT_OPMODE_CHANGED; `Disconnected`, `DhcpTimeout`, `GotIp` the other WiFi
  events; the `Task...` actions the cases of `sys_task_handler_main`, with
  `sys_deep_sleep_cycle` inlined in the three `TaskCycle...` ones; `ToggleErrorLed` the
  LED timer. `Reset`, `PowerCycle`, `Restart`, `EnterSleep`, `Wake` are the chip's.
* **`Gateway`**: the `gateway_cb_*` callbacks. `Receive(ok)` is `gateway_cb_sock_rx` for
  one piece of the answer; `ReceiveRest` the second piece of a split one. `SocketError`
  is the error espconn would report to a reconnect callback, which is not registered: it
  changes nothing but the socket. `SocketConnectedNoMemory` is the unchecked allocation
  of T:386.
* **`ConfigMode`**: `save_config.cgi` from a complete request on, and the restart timer;
  failures in RTC memory or flash and interruptions between erase and write are actions.
* **`Thirst`**: all of these over any number of boots, the fairness and the properties.
* **`SleepCycle`**: the abstract promise. A boot is a decision (nap, measure, or give up)
  and its end; `Thirst` implements it under the mapping `Phase` (`ImplementsSleepCycle`).
* **`Threshold`**: the arithmetic of the decision modulo `Word`, beside an exact
  reference (`Beyond`).
* **`HttpConnection`**: one connection of the server. A callback of the SDK runs to its end,
  so a handler is computed on a record (connection, TCP state, shared variables, what
  fails); `Send`, `FlushSendBuffer`, `SentCb`... carry the names of `core/httpd.c`.
* **`WebInterface`**: the CGI functions of `web_interface.c` and the two of
  `httpdespfs.c`, as functions on that record.
* **`WebServer`**: the pool, the callbacks of `httpd-nonos.c` as actions (one per callback),
  the clients, which send in segments and may vanish at any moment, and the scan. It
  shows how the complete save request, which `ConfigMode` begins with, comes about.
* **`Heatshrink`**: encoder and decoder, one operator per state of their state machines;
  **`HeatshrinkTool`**: the io handles and the loops of the command line tool;
  **`EspFs`**: packing, opening, reading and expanding; **`FlashImage`**: the way of a file
  from the build host to the client, and through the tool and back.
* **`FirmwareUpload`**: `cgiUploadFirmware` of several connections, each with an `UploadState` of
  its own, on one flash whose erasing and writing may fail; the file of `mkupgimg`; the
  reboot into the other half.
* **`Websocket`**, **`FreertosServer`**, **`WifiScan`**, **`WifiConnect`**,
  **`CaptiveDns`**, **`Codec`**: the other parts of libesphttpd, one action per callback or
  CGI function; in `FreertosServer` one action per system call of the task, since other
  tasks run between them. `WifiConnect` counts attempts and restarts.
* **`Uart`**, **`Key`**, **`I2cMaster`**, **`Sdio`**: the drivers, one action per piece that
  an interrupt or the hardware can separate. `Key`'s handler takes several steps because
  the pin moves meanwhile. In `Sdio` both `sdio_load_data()` and the handler go from one access of
  the lists to the next (`FillBuffer`, `LoadLinks`, `LoadNext`, `LoadEnds`, `LoadTests`, `LoadOffers`;
  `SdioSlaveIsr`, `IsrRead`, `IsrWrite`, `IsrHandled`, `IsrClears`), the host reads and writes between any
  two, and `LoadsMasked` says whether the application turns the interrupt off while it loads. `I2cMaster`'s calls are sequences of levels on the two lines,
  heard by a listener that knows only the rules of the bus.
* **`Library`**: any one of its twelve parts while the others rest. They share no
  variable, no call and no hardware, so the states of all together would show nothing
  more than the states of each.
* **`Data`**: bytes, bits and pieces of sequences.
* **`SleepCycleProofs`**, **`ThirstProofs`**, **`ThresholdProofs`**, **`WebServerProofs`**,
  **`ExchangeProofs`**, **`FreertosProofs`**, **`DriverProofs`**, **`WifiProofs`**:
  theorems, see section 5.

Definitions keep the names of the source. Operators whose names end in `...Late`,
`...Early`, `...Unchecked`, `...Without...`, `...Keeps...` and the like sit before a definition of the
model and are not used by it: they are plausible mistakes in that code, and show that a
property would notice.

History variables, which the code does not have: `naps` (sleeps since the last measuring
boot, saving or power-up), `cooldown` (boots still to pass before another notification),
`notified` (this boot handed its request to the gateway), `accepted` (it was answered 202).

### What the model takes as given

* A handler runs to its end; the SDK delivers at most what was asked for (events for mode
  changes, one outcome per join, lookup, connection, close).
* The order of pending deliveries is free, except that the TLS layer hands over the rest
  of an answer before anything else runs.
* Setting the mode it already has may or may not raise an event (`SetOpmode` has both).
* A reset that is not the end of a sleep starts with the radio on and keeps RTC memory.
* A deep sleep of duration 0 never ends by itself.
* The DNS call does not answer from its cache: RAM is empty after every boot.
* A second allocation that fails (T:1287-1307) writes through NULL and is an exception,
  hence a reset; so is the unchecked one of T:386.
* `WebServer`: the SDK refuses a packet, or the memory of the send buffer or of an item of the
  backlog, at most once between two restarts; one packet is unacknowledged at a time (`MaxUnsent`). A piece of an answer is a number and
  a length, not text.
* `FreertosServer`: the server above sends, closes or does nothing in a callback; what
  it really does is `HttpConnection`.
* `CaptiveDns`: names have a label, and a reference leads to labels, not to a reference.
* `WebServer`: what lies behind the form buffer on the heap is anything's. After a form has been
  copied over it the program is undefined and is not followed further (`FormInBuffer` in `Next`).
* `FirmwareUpload`: of the flash only the content counts: what is written over a byte that is
  not erased is neither the old nor the new one. A block of the file is at least as long as its header.
* `Sdio`: the driver leaves it to the application to load with the interrupt off (`LoadsMasked`);
  `SdioLinked` and the run `Library` assume it, `IntrWhileLoading.cfg` shows what happens
  otherwise. The host reads again what is offered again, and gets the same bytes. A load by
  the callback that interrupts a load of the task is not modelled.
* `Key`: an edge while the interrupt is disabled or armed for the other edge is not remembered.
* `Uart`: bytes that find the hardware FIFO full are lost by the hardware and not claimed.

## 3. Runs

Counts are distinct states.

| Run | Module | Shows |
|---|---|---|
| `SleepCycle` | SleepCycle | 12 boots per measurement, five contents of RTC memory at power-up (0, in the cycle, its last boot, at and beyond the limit), resets anywhere: `RadioForMeasurement`, `MeasuresInTime`, `NoEarlyRepeat`, and the invariant `IInv` of the proof, which contains the rest (5 386) |
| `ThirstSafety` | Thirst | the whole firmware, 12 boots per measurement, every fault but a checksum collision, debug build: the safety invariants, the inductive invariant `FirmwareInv` of the proofs, `ErrorLedStays`, and the refinement of `SleepCycle` (38 849) |
| `Progress` | Thirst | liveness: `MeasurementEnds`, `InitFailureShown` (debug build), `SaveRestarts`; and `SignalKept` (7 699) |
| `DailyMeasurement` | Thirst | release build: a sleeping device measures again, with every fault a measuring boot can meet and 12 boots per measurement (838) |
| `Threshold` | Threshold | `NoAlarmMissed`, `NoFalseAlarmAboveNoise` at the boundaries (8 640) |
| `WebServer` | WebServer | two clients and a pool of two: the inductive invariant `ServerIInv` of the proofs, `PoolKept` (no slot is lost but the one whose POST record could not be allocated, and no file), `SomethingUnsent` (no connection stalls), `AnswersIntact`, `ScanFlagTrue`, `SavedAsSentAlone` (a form that fits the buffer and that nothing disturbs is saved as sent, inside it) (1 101 932) |
| `Library` | Library | twelve parts, one or two properties each, below (471 972) |
| `SocketErrorHangs` | Thirst | violated: a connection that is not made ends in no callback |
| `ApLossHangs` | Thirst | violated: losing the access point while sending is not shown |
| `ChunkedAnswer` | Thirst | violated: an accepted answer in two pieces ends in the error state |
| `ThresholdFalseAlarm` | Threshold | violated: readings below 4 wrap and notify |
| `FormOverrun` | WebServer | violated: two forms that overlap are copied past the end of the form buffer |

Beside them there are configurations that show other defects of the code, each by one violated
invariant (`tlc -config SlotLost.cfg WebServer`, and so on; seconds each):

| Configuration | Module | Violated |
|---|---|---|
| `SlotLost` | WebServer | `SlotsReturn`: a POST record that is not allocated costs the slot |
| `ImageOverRunningHalf` | FirmwareUpload | `RunningHalfSpared`: a file for one half is written to the first half while it runs |
| `LargeHalf` | FirmwareUpload | `RunningHalfSpared`: a first image longer than a half runs into the second, which runs |
| `AuthTerminator` | Codec | `UserpassTerminated`: credentials that fill the buffer are terminated one byte behind it |
| `FormTerminator` | Codec | `ValueTerminated`: a value that fills its buffer is not terminated |
| `KeyMissed` | Key | `KeyLevelTrue`: a press or a release can go unnoticed |
| `IntrWhileLoading` | Sdio | `BuffersOnOneList`: a handler within a load takes the lists apart |
| `LateInterrupt` | Sdio | `HostHearsOnce`: an interrupt that comes late in the handler is cleared unserved |
| `FullBufferWaits` | Sdio | `WaitingIsOffered`: a buffer that a load just fills is never offered |

The properties of `Library`:

| Part | Property | Bounds |
|---|---|---|
| FlashImage | `FilesServed`: a file is found and the client receives all of it, however it was stored and read, and as a template expanded token by token; `Lossless`: compression round trip, no buffer overrun, nothing left inside at the end | two byte values, one of them the mark of a token; up to three runs of 2 or 9 bytes (shorter and longer than a match that pays, across the tool's window of 16); reads of 4 (inside tokens and matches) and 20 bytes; levels 0, 1 and 8 (window below and above 8 bits) |
| FirmwareUpload | `UploadAnswerTrue`: 400 exactly for a refused file, of which nothing was written; no error text exactly for one that is accepted and complete, and then the image was in the flash unless the flash failed or another upload wrote there; `RunningHalfKept`: only the two kinds of upload of findings 7 and 8 change the half that runs | see below |
| Websocket | `FramesKept`: heard byte by byte as sent, with the mask continued across segments; whole answers; the list holds the open sockets | three sockets, two frames, segments of 3 and 8 bytes and of all that is left: as frames begin at any place, these cut every field |
| FreertosServer | `SocketsServed`: one place per socket; who sent is watched for writing | two places, three clients, other tasks that send |
| WifiScan | `ScansAnswered`: a complete answer is one document of one scan; the flag is up only while a scan runs | two browsers, lists of 0, 2 and 3, three scans |
| WifiConnect | `AttemptsResolved`: a verdict is on the last attempt; an attempt under way is looked after | two networks, three attempts, two restarts |
| CaptiveDns | `AnswersNameTheQuestions` | names of two labels, two questions, every possible reference |
| Codec | `CodecsExact`: Base64, percent encoding and login against their definitions | texts up to three bytes, a whole group of Base64; buffers from nothing to ample |
| Uart | `UartLossless`: nothing lost, repeated or reordered between FIFO and application; no needed interrupt stays masked | five bytes through rings of 4 and 3, so that both wrap |
| Key | `KeyHeard`: presses that were noticed and calls match, no call of a bounce, never deaf | eight edges |
| I2cMaster | `BusKept`: the listener hears what was asked, lines left as the next call expects | four bytes of a transfer, all bit patterns of interest |
| Sdio | `BuffersOnOneList`, `HostServed`: no buffer on two lists; the host misses no byte and hears them in order; the status register says what is offered. Loads with the interrupt off | three buffers of 2 bytes, loads of 0 to 3 bytes, six loaded, eight heard, one write of the host |

### Bounds

* `SYS_DEEP_SLEEP_TIMES` is 12, the program's value, in the safety and refinement runs and
  in `DailyMeasurement`; 3 in the other liveness runs, the least with a first, a middle
  and a last boot of a cycle.
* `MaxOpmodeEvents = 3` bounds undelivered mode events: with 4, 5, 6 and 8 the state space
  of `ThirstSafety` is the same, so the bound is never felt.
* One unread piece of an answer: a third piece would meet the same code with the same
  state as the second.
* `PowerUpCounts` holds a value of each class the code distinguishes: 0, inside a cycle,
  the last boot, the limit, beyond it.
* `Word = 2^18` in `Threshold`: TLC's integers have 32 bits and 2^32 does not fit. The
  proofs hold for every `Word` above 102400, so for 2^32. Readings lie at, below
  and above every boundary of the chosen registered values and percentages.
* `Faults` is all fault kinds but `hash` in the safety runs. With a damaged sector
  whose 8-bit checksum matches by chance, `StationReady` is false, as one would expect of
  eight bits; the refinement and liveness runs that name `hash` include it.
* `WebServer`: a file of 1500 bytes is more than one packet and less than two; a form of
  three parts has a first, a middle and a last segment, and one part more than a POST
  buffer holds; two clients fill the pool and a
  third request of one of them meets it full. What shows only with two whole POST buffers is
  in the proofs, which hold for every form that fits the buffer (section 5). `ApCounts` keeps the scan result within
  the send buffer (see below). The clients are interchangeable (`Symmetry`). A part of a form stands for a KiB: the POST buffer
  (2048 bytes, `HTTPD_MAX_POST_LEN`) holds two and the form buffer (4096) four.
* `FirmwareUpload`: halves of 8 bytes, sectors of 4, pages of 2 and blocks of 9, so that a page
  may lie across two blocks; a file for both halves holds images of 7 and 9 bytes, a byte less
  and more than a half, and is posted whole, cut short by one or followed by two bytes: 7 + 9
  is just twice the size and the header, and one byte less or two more are its neighbours; a
  file for one half or for the file system has 8 bytes, just its size, or 9; two uploads, each
  by either of two connections (interchangeable, `Symmetry`), and one block during which
  erasing or writing fails.
* `Codec`: in `AuthTerminator` and `FormTerminator` the buffer holds exactly the longest text.

### Faults left out of the liveness runs, and why

`MeasurementEnds` is checked without `socket`, `ap_loss` and `peer_close`, because with them it is
false; the first two are the findings below. After a server has closed before it answered,
the device leaves the network without a transition and the 30 s timer keeps running. When it
expires, `wifi_station_disconnect()` is called in NULL_MODE: if the SDK refuses, the error
state is reached by setting the mode, and if it accepts, no event is left that could post
anything. The SDK's documentation does not say which, so the model has both and no
finding is claimed.
`SignalKept` fails with `ap_loss` too: if the access point goes away while the socket
closes after an accepted notification, SEND_DATA_DONE is posted by the first NULL_MODE event
and a later STATE_ERROR finds the queue full. The device then sleeps, which is what the
accepted notification called for (`SleepsOnlyIfAccepted` holds with all faults).
`DailyMeasurement` leaves out the faults that keep a device from its measurement by
intent or for good (button, failed initialisation or allocation, unreadable flash or RTC
memory, endless resets).

### Fairness

Only the runs of `Thirst` state liveness. `Fairness` assumes that the SDK delivers what is pending: mode events, queued
signals, expired timers, the outcome of a join, a lookup, a connection attempt or a close
that was asked for, and that a requested sleep or restart takes effect. Each is weak:
nothing the firmware does can disable these for ever and still owe an answer. Where the
outcome is a choice (GOT_IP, DHCP timeout or disconnection; answer or timeout) only the
disjunction is fair, so no outcome is promised. Nothing is assumed of faults, nor of the
user: in `SaveRestarts`, saving again and again would put the restart off, but a
save while the timer is armed leaves the model's state as it is and so is a stutter.
The liveness claim is therefore about a user who stops saving.

## 4. Findings

The first five are the expected violations of `PROJECT.json`, the others have a configuration of
their own (section 3).

1. **A failed connection hangs the device** (T:380; `SocketErrorHangs`). No reconnect
   callback is registered and the response timer is armed only after the connection.
2. **An access point lost while sending is not an error** (T:1026; `ApLossHangs`), contrary to
   the comment at T:1019-1025.
3. **An answer in two pieces turns success into failure** (T:172; `ChunkedAnswer`).
4. **Readings below 4 always alarm in simple mode "more"** (T:1095; `ThresholdFalseAlarm`).
5. **Overlapping forms run past their buffer** (W:567; `FormOverrun`). The index of the
   accumulator is one for all connections, is reset only by a complete body, and is not compared
   with the 4096 bytes of the buffer. A form whose client vanished, or one that arrives at the
   same time, stays in front of the next: 2 KiB of one and then 3 KiB of another need 5 KiB. Shorter ones are mixed
   inside the buffer, which the run does not show.
   One connection alone can do it too. If a packet sent earlier is acknowledged while the second
   POST buffer of a form is being filled, `httpdContinue()` calls the CGI (`core/httpd.c:502`)
   with what the buffer holds so far; `buffLen` is set back by `httpdRecvCb()` only (:759), so
   the same bytes are accumulated again with the rest of the buffer. Nothing in the code keeps
   the sent callback out of an upload. `SavedAsSentAlone` counts this as a disturbance; it came
   up in the proof of that property, for the form of the run is too short for it to do harm.
6. **A slot is lost with its POST record** (`core/httpd.c:821`; `SlotLost`). When the record
   cannot be allocated the slot is already taken, and no callback finds it again.
7. **A file for one half goes to the first half, also while it runs** (`util/cgiflash.c:180`;
   `ImageOverRunningHalf`).
8. **A first image longer than a half is written into the second** (`util/cgiflash.c:152`;
   `LargeHalf`): only the sum of both lengths is tested.
9. **Terminators at the end of a buffer** (`core/auth.c:36`, `AuthTerminator`: one byte behind it;
   `core/httpd.c:159`, `FormTerminator`: none).
10. **Presses that are not noticed** (`driver/key.c:126`; `KeyMissed`): a release before the rising
    edge is armed, so that two presses are one call, or a press between the reading of the
    pin and the arming of the falling edge.
11. **A load with the interrupt on** (`driver/sdio_slv.c:368`; `IntrWhileLoading`). The statements
    that would turn it off are commented out (:323, :334).
12. **Interrupts cleared unserved** (`driver/sdio_slv.c:251`; `LateInterrupt`): the host reads the same
    buffer twice.
13. **A full buffer that is never offered** (`driver/sdio_slv.c:389`; `FullBufferWaits`): the host
    waits for an offer and the driver for a reading. An empty load when nothing waits does
    the same.

### Behaviour the model has, without a text that forbids it

The model does these things as the code does, and the properties are stated so that they
say what is true in spite of them:

* A release build shows no failed initialisation: both error transitions of
  `sys_cb_init_done` are inside `#if (PERIPH_ENABLE_DEBUG == 1)` (T:767).
* `httpdSend()` drops what does not fit and nobody looks at its result: a scan that
  finds many access points is answered by its headers alone (`core/httpd.c:359`).
* An upload that ends too early is answered 200 with the text of an error, and the results of
  erasing and writing the flash are ignored (`util/cgiflash.c:231-256`): success says only what
  `UploadAnswerTrue` says.
* A web socket's PONG is torn when a broadcast is sent between its two parts; a CLOSE
  without a mask is unmasked with that of the frame before it, and the reason of a CLOSE
  whose payload has not come is read from behind the segment (`util/cgiwebsocket.c`).
* With FreeRTOS, a send by another task during `select()` gets its callback only when
  something else wakes the task (`core/httpd-freertos.c:200`).
* A file whose length is a multiple of 1024, fetched without chunks (HTTP/1.0 or
  "Connection: close"), ends with a call of its CGI that has nothing to send: the end is
  noticed only by a read that does not fill the buffer (`if (len!=1024)` of
  `core/httpdespfs.c`). The connection is marked to be closed after the next packet
  is acknowledged, and there is none: it stays open until the SDK gives it up, 7199 s
  later (`core/httpd-nonos.c:73`). `SomethingUnsent` is therefore a statement about
  other lengths (`FilesEndInside`), that of Thirst's page among them.
* A WiFi scan that finds no memory for its list, or that the SDK refuses to start, leaves the flag set
  for good (`util/cgiwifi.c:73-76`, :116), and an entry that cannot be allocated is sent as garbage.
* As a station only, the status timer armed for one attempt may end the next
  (`util/cgiwifi.c:191`).
* In a build without ring buffers the UART's task clears a time-out of the line that came
  while it echoed: the bytes behind it wait for the next ones (`driver/uart.c`).
* `mkespfsimage` never finishes the encoder of an empty file (`mkespfsimage/main.c:69`),
  without effect, for the file is then stored as it is.

## 5. Proofs

`tlapm` checks the eight proof modules to the last leaf.

**`SleepCycleProofs`**, for every cycle length (a positive natural) and every set of
power-up contents:

* `TypeCorrect`: `Spec => []TypeOK`
* `RadioCorrect`: the radio is on in every measuring boot, and programmed on only for one
* `InTime`: `naps` never exceeds the cycle length
* `NotRepeated`: a boot that may notify has no cooldown left

None of these is inductive. `IInv` adds what the code relies on without saying it: after a
power-up both histories are empty (`PowerUpIsFresh`); the count lies inside the cycle in a
nap and at its end in a measurement (`CountMatchesPhase`); every boot that is *going* to
measure already has its radio (`RadioDecided`), which is what the option chosen one boot ahead
must achieve; the sleeps since a measurement are bounded by the count as the next boot will
read it (`NapsCounted`); and the boots still owed are bounded by those the count leaves
(`CooldownCounted`). There is one lemma per action, and the theorems follow from
`Init => IInv`, `IInv /\ [Next]_vars => IInv'` and `IInv => ...`. TLC checks `IInv`
in run `SleepCycle`.

**`ThirstProofs`**, the whole firmware over any number of boots, for every cycle length,
every bound on undelivered mode events, both builds and, where nothing else is said, every set
of faults:

* `Invariance`, `TypeCorrect`: `Spec => []FirmwareInv`, and the types in it
* `ServerBuffered`: `Spec => []ServerHasBuffers`
* `ErrorQuiet`: `Spec => []ErrorStopsWifi`
* `AcceptedBeforeSleep`: `Spec => []SleepsOnlyIfAccepted`
* `ErrorLedStaysOn`: `Spec => ErrorLedStays`, an action property
* `SignalsKept`: `Spec => SignalKept`, an action property, unless an access point can
  be lost (`"ap_loss" \notin Faults`); with it the property is false, see section 3

What one handler does is safe only because of what can be pending when it runs, and no
variable says so. `FirmwareInv` is therefore a list of *stages*: `Cleared`, `Initialised`,
`Failed`, `Configuring`, `Configured`, `CycleAhead`, `Napping`, `Joining`, `Sending`,
`SleepAhead`, `Done`, `SendFailed`. Each ties the last transition in `sys_state` to the WiFi mode, the
undelivered mode events, the one place of the task queue, what the one timer is armed for, the
link and the socket. Beside the stages it has the buffers (`ServerHasBuffers`), the
configuration a station runs on (`ConfigChecked`) and the sleep in force (`SleepDecided`).
`StageStep` proves, action by action, to which stages a step leads.

The second part of **`ThirstProofs`**: the firmware keeps its promise.

* `RefinesSleepCycle`: `Spec => ImplementsSleepCycle`. Under the mapping `Phase` every initial state
  is one of `SleepCycle` and every step of the firmware a step of it or a stutter (`RefinementStep`).
* `ScheduleInvariance`, `OnSchedule`: the theorems of `SleepCycleProofs`, taken through the
  mapping, hold of the firmware: never more than a cycle of sleeps without a
  measurement, never two notifications within one.
* `SoundSleep`: `Spec => []SleepsSoundly`; it needs both invariants, that of the stages and that of
  the schedule.
* `StationIsReady`: `Spec => []StationReady`, unless a damaged sector may have a matching
  checksum (`"hash" \notin Faults`).

**`ThresholdProofs`**, for every word size that holds the product of a reading and a
percentage:

* `AlarmsComplete`: no reading beyond the threshold goes unreported
* `AlarmsSound`: from a reading of 4 on, nothing within the threshold is reported, but
  for the unit that the integer division may add

The lemmas state that nothing overflows (`UnsignedFits`, `PercentageExact`) and where
the rounded percentage lies (`QuotientBounds`); the decisions are then compared with the
reference for each mode and direction. The assumption that a percentage is in 1..100 is
what the web page enforces and the firmware does not check (W:759).

**`WebServerProofs`**, for any number of clients, any size of the pool, any files, forms of any
number of parts, segments of any number, and every set of faults:

* `Invariance`, `TypeCorrect`: `Spec => []ServerInv`, the first part of `ServerIInv`, and the types in it
* `PoolCorrect`: `Spec => []PoolKept`. `SlotsAccounted`, a part of it, says which slot may be lost
* `ScanFlagCorrect`: `Spec => []ScanFlagTrue`
* `NothingStalls`: `Spec => []SomethingUnsent`, if no file ends with a full read
  (`FilesEndInside`, section 4: the 42835 bytes of `index.html` are no multiple of 1024)

A callback is a chain of functions on a handler's record, and the lemmas follow the chain: what
sending leaves alone (`OnlySends`) and keeps going (`Moves`), what a CGI function may do to a
connection, to the files and to the shared variables (`Called`), what serving a segment keeps
(`Serves`) and how a handler ends (`Settled`), then the callbacks.
`ServerInv` adds to the properties that open connections and used slots belong to each other one to one, that
a connection between two callbacks has a CGI only after its headers and a body only for a form
(`AtRest`), that the clients with an open file are the slots that read one, and that the index of the
form never passes its end. Its last part, under `FilesEndInside`, is what `SomethingUnsent`
needs: every slot has a packet on its way when something is left to do (`GoesOn`), and a
file that is being read is never at a multiple of the buffer (`ReadsOn`), so the call that
ends it finds data to send. Within a handler the packet may still be in the send buffer
(`Awaits`). A callback with several segments is a recursive function
(`ReceivedAll`); that it keeps the invariant is proved by induction on their number.

**`ExchangeProofs`**, on top of it and as general, says what the server does for a client:

* `ServerInvariance`: `Spec => []ServerIInv`
* `AnswersCorrect`: `Spec => []AnswersIntact`, if a list of access points fits the send buffer
  (`ListsFit`: up to 19 access points with the lengths of the model; of a longer list `httpdSend()`
  drops all)
* `SavedCorrect`: `Spec => []SavedAsSentAlone`, of forms that fit the buffer (`FormFits`)

`ServerIInv` puts three layers on `ServerInv`, each of which relies on those below it:

* `ExchangesKept`: where a connection stands in its exchange of a request and an answer
  (`Exchange`). While the server lacks a part of a request, nothing of an answer has been begun, and what
  is still to arrive is a suffix of the form; a client that waits for nothing has nothing under
  way in either direction; at most one packet is in the backlog. Between two
  callbacks the send buffer is empty (`SendBufferEmpty`). The headers go out before the first read
  of a file (`SendsItsFile`), or the last chunk of the answer would not be sent.
* `AnswersKept`: what the client has, followed by what the packet in the backlog holds, is all that
  was made, without a gap and in frames (`Intact`).
* `FormKept`: while no upload was disturbed, there is at most one; the accumulator's index is
  what that connection handed over, and unless a segment of its form was lost, what it holds is
  the beginning of the form.

Each layer is followed up the same chain of functions. In the proof of the second, the send buffer
is `Composed` of the pieces after those the client has, and what limits its length is the limit of what a
CGI function may send in one call: headers, one read of a file or one list. In the third, the
accumulator is seen by the uploading connection (`Alone`) and by the others (`Apart`), whose
only effect on it is a disturbance. `Keeps` joins the layers for one segment, and
the induction over the segments of a callback carries it (`ReceivedAll`).
The history variable `disturbed` records what the proof cannot do without, and the code does not
prevent: a second upload, one broken off, and the call of the CGI by an acknowledgement.

**`FreertosProofs`**, for any number of places and of connections:

* `RtosCorrect`: `RtosSpec => []SocketsServed`. The strengthening `RtosIInv` adds that a socket on
  which the server waits is marked in its place (`WaitingIsMarked`), that `select()` and
  `accept()` are only asked for a connection there is a place for (`RoomToAccept`), and that
  no set given to `select()` holds a socket closed since (`NoStaleSockets`).

**`DriverProofs`**, for any number of edges of the pin, FIFOs and ring buffers of any size, SDIO
buffers of any number and size, and any bytes on the I2C bus:

* `KeyCorrect`: `KeySpec => []KeyHeard`, which speaks of presses that were noticed. The strengthening `KeyIInv` adds that the interrupt is
  disabled exactly while the handler runs or the short timer is armed, never both
  (`OneAtATime`), and that only a key believed down has a short timer (`ReleaseOfPressed`):
  otherwise a bounce could count a release twice.
* `UartCorrect`: `UartSpec => []UartLossless`. The strengthening `UartIInv` adds that in both
  rings the in position is the out position plus what is stored, round the end (`RingOK`),
  that the receive ring never fills up and that both are empty in a build without them
  (`RingsKept`), and that what the task has still to echo is in the FIFO, with its event not over
  (`EchoHasBytes`). `rx_buff_deq()` takes bytes out of the receive ring with one copy or two, and
  `UartBufCpy()` puts bytes into a ring likewise: both are compared with a byte at a time
  (`DequeuedInOrder`, `CopiedRing`). The assumption that the ring is larger than the FIFO is
  true of the driver's sizes, 256 and 128 bytes.
* `SdioLinked`: `LoadsMasked => (SdioSpec => []BuffersOnOneList)`. The strengthening `SdioIInv` says
  that there is one order of all buffers of which the first k wait for the host and the others may be
  filled (`Ordered`); between the pieces of a load the lists are those of such an order but for
  the pieces done (`Lists`); and whenever the host may read, or has read and not been
  answered, a buffer waits (`OneIsOffered`), so that the handler finds one although it clears
  interrupts that it has not served. Every operation keeps the order or moves it on by one:
  `PutToSend`, in one piece or three, makes k one larger (`PutMoves`), `Recycle` takes the first buffer to the
  end (`RecycleMoves`). Without the premise `IntrWhileLoading.cfg` shows the property violated.
* `BusCorrect`: `I2cSpec => []BusKept`, without the bound on calls playing a part. The strengthening
  `I2cIInv` adds what the lines may be and that a start leaves the data line low and the clock
  high. The listener is followed level by level: `Speaks` says what state a sequence of levels
  takes it to, and two sequences one behind the other do what the first does and then the second
  (`SpeaksOn`). Every bit of `i2c_master_writeByte()` and `i2c_master_readByte()` tells that bit,
  whatever went before (`WriteBitTells`, `ReadBitTells`), so eight of them tell the byte (`BitsTold`),
  and what the code samples in the middle of each adds up to it (`ByteBits`). One lemma per
  function then says what it means and which levels it leaves (`StartMeans`, `WriteByteMeans`
  and so on).

**`WifiProofs`**, for any set of networks, any number of attempts, restarts, browsers and scans, and
lists of any length:

* `ConnectCorrect`: `WifiConnectSpec => []AttemptsResolved`. The strengthening `ConnectIInv` adds
  that, unless the device is a station only, an armed `resetTimer` is that of the last
  attempt (`TimerOfLastAttempt`), for a verdict is passed by that timer.
* `ScansCorrect`: `WifiScanSpec => []ScansAnswered`. The strengthening `ScanIInv` adds that a request
  no other one disturbed has sent exactly the pieces of the present list up to its place, and that no
  scan is under way then (`Following`): only a request that comes to its end starts a scan,
  and that is what disturbs the others. It also needs that no list means no entry
  (`ListIsKnown`). `NextPieces` is the step: what a call sends, appended to the
  pieces before it, are the pieces up to the next place, or the whole list.

**Only model-checked**: all liveness (fairness and ENABLED are out of the prover's reach); of the
parts of `Library`, `AnswersNameTheQuestions` of `CaptiveDns`,
`CodecsExact` of `Codec` and `HostServed` of `Sdio`; and of the modules with RECURSIVE operators, which cannot carry theorems
(`EspFs`, `FlashImage`, `Heatshrink`, `HeatshrinkTool`, `FirmwareUpload`, `Websocket`), `FilesServed`,
`Lossless`, `UploadAnswerTrue`, `RunningHalfKept` and `FramesKept`. The library's induction theorems take an operator as parameter, which no
installed prover can instantiate. Induction over numbers is possible all the same in the form of a set
of numbers and its least element (`LeastElement`, `Upwards` in `WebServerProofs`,
`FirstExists` in `FreertosProofs`, `Ascending` in `DriverProofs`, from `NatLessThanWellFounded`).

## 6. Not modelled

* The text of requests, answers and debug output, GPIO and ADC access.
* `SYS_TASK_SIGNAL_SEND_DATA`: its case exists (T:1630-1639), nothing posts it.
* The Pearson checksum as a function: a sector is valid, damaged, or damaged with a
  checksum that matches (fault `hash`). That the checksum of the default configuration
  is computed over the pointer to it (T:582) changes nothing the model tells apart: the
  default serves the configuration mode only (T:1376-1382), where no one checks it.
* Header fields other than the length and the transfer mode, multipart bodies and
  redirects by host name, which Thirst's pages do not use.
* `driver/spi*.c`, `hw_timer.c`, `gpio16.c` and the setters of the UART: register writes
  with no state but the hardware's.
* `core/sha1.c`: arithmetic modulo 2^32 throughout, beyond TLC's integers; the handshake of
  the web sockets is one step. `tplWlan` of `util/cgiwifi.c` only reads. What the next scan does
  with the entries that could not be allocated (it frees pointers that were never set, `cgiwifi.c:61`) is not followed.
* gzip and the squishing of scripts in `mkespfsimage`: other programs.
* A broadcast of a web socket in pieces: it is one step, so a socket that leaves the list within it is
  not seen. Replies of the captive DNS that outgrow their buffer (`util/captdns.c:162`).
* Two parts of `Library` at once, see section 2; `WebServer` together with `Thirst`: the
  server runs in the configuration mode only, and its effect on the rest is the save,
  which `ConfigMode` has with every failure.
* The flash partition table (`user_pre_init`), scripts, hardware: no behaviour.

## 7. Plan

Done: `SleepCycle` (what the system promises), `Platform`, `System`, `Gateway`,
`ConfigMode`, `Thirst` (the promise implemented), `Threshold`; the server
(`HttpConnection`, `WebInterface`, `WebServer`); the firmware upload; the parts of `Library`; the proofs of
`SleepCycle`, of `Thirst` and of the refinement between them, of `Threshold`, of the server (pool,
progress, answers and forms), of `FreertosServer`, `Key`, `Uart`, `Sdio`, `I2cMaster`, `WifiConnect`
and `WifiScan`.

Next, prove `HostServed` of `Sdio` beside `SdioLinked`, and `AnswersNameTheQuestions` of `CaptiveDns`: what is missing is the length of the walk of
`labelToStr()` through a compressed name, and `StrToLabel` without `SelectSeq`, of which the
provers know nothing.

Next, model: an abstract specification of the server (each request is answered once, from
one complete body) that `WebServer` implements, with the form's accumulator per connection.

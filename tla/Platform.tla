------------------------------- MODULE Platform -------------------------------
(***************************************************************************)
(* The ESP8266 and its NON-OS SDK, as far as the firmware uses them: the   *)
(* chip (power, reset reason, radio, RTC memory, deep sleep), the task     *)
(* queue, the one software timer, the WiFi operating mode and the link, and *)
(* the TLS socket of the espconn library.                                  *)
(*                                                                         *)
(* The SDK runs tasks, timers and callbacks one at a time and to the end,  *)
(* so a handler is one action.  Every other definition here is external to *)
(* the firmware: it says what a call of the firmware does to the platform, *)
(* and with which failures.                                                *)
(***************************************************************************)
EXTENDS Integers, Sequences

CONSTANTS
  Faults,               \* what the environment may do to the device
  PERIPH_ENABLE_DEBUG,  \* debug build? (peripherals.h, off by default)
  SYS_DEEP_SLEEP_TIMES, \* boots per measurement (12 in system.h)
  PowerUpCounts,        \* what the RTC memory may hold after power-up
  MaxOpmodeEvents       \* bound: undelivered mode events (further ones merge)

FaultKinds == {
  "button",       \* the user holds the configuration button at start-up
  "init",         \* main task or firmware initialisation fails
  "alloc",        \* a buffer of the INIT_OK handler is not allocated
  "flash_read",   \* reading the configuration fails
  "flash_write",  \* erasing or writing the configuration fails
  "hash",         \* a damaged configuration has a matching checksum
  "rtc",          \* RTC memory read or write fails
  "join",         \* the access point is not joined, or DHCP times out
  "ap_loss",      \* the access point goes away after it was joined
  "dns",          \* the lookup fails, at once or later
  "connect_call", \* setting up or starting the TLS connection fails
  "socket",       \* TCP/TLS error: handshake refused, reset, timeout
  "send",         \* handing the request to the TLS layer fails
  "peer_close",   \* the server closes before it answers
  "no_answer",    \* the server does not answer within the timeout
  "reject",       \* the server answers with another code than 202
  "chunked",      \* the answer is delivered in two pieces
  "station_call", \* wifi_station_disconnect() fails
  "reset",        \* external reset, exception or watchdog
  "power"}        \* power is removed and applied again

ASSUME FaultsAssumption == Faults \subseteq FaultKinds
ASSUME DebugAssumption == PERIPH_ENABLE_DEBUG \in BOOLEAN
ASSUME TimesAssumption == SYS_DEEP_SLEEP_TIMES \in Nat \ {0}
ASSUME PowerUpAssumption == PowerUpCounts \subseteq Nat
ASSUME EventsAssumption == MaxOpmodeEvents \in Nat \ {0}

Fault(kind) == kind \in Faults

(* Operators named LongerQueue, DisconnectedPosts and the like, here and   *)
(* in the other modules, are plausible mistakes: the model does not use    *)
(* them, they serve to see that a property would notice.                   *)
LongerQueue == 2
SYS_TASK_QUEUE_MAIN_LEN == 1

VARIABLES
  power,           \* life of the chip, see PowerStates
  reset_reason,    \* rst_info.reason of this boot
  radio,           \* is the RF part enabled in this boot?
  rtc_sleep_count, \* sleep_count in the RTC memory
  deep_sleep,      \* option and duration handed to the chip
  task_queue,      \* signals posted to the main task
  sys_timer_sw,    \* callback the software timer is armed with, or "OFF"
  opmode,          \* wifi_get_opmode()
  opmode_events,   \* EVENT_OPMODE_CHANGED not delivered yet
  link,            \* station interface, see LinkStates
  socket,          \* gateway_sock, see SocketStates
  unread           \* pieces of the answer still in the TLS buffer

chip == <<reset_reason, radio>>
wifi == <<opmode, opmode_events, link>>

(* SLEEPING and RESTARTING: requested, but the handlers still run.         *)
PowerStates == {"BOOTING", "ON", "SLEEPING", "RESTARTING", "ASLEEP"}
ResetReasons == {"DEFAULT_RST", "FAULT_RST", "SOFT_RESTART", "DEEP_SLEEP_AWAKE"}
OpModes == {"FLASH_DEFAULT", "NULL_MODE", "STATION_MODE", "STATIONAP_MODE"}
LinkStates == {"DOWN", "JOINING", "UP", "LEAVING"}
SocketStates == {"NONE", "RESOLVING", "CONNECTING", "OPEN", "CLOSING"}
TimerStates == {"OFF", "RX", "LED", "RESTART"}
SleepTypes == {"UNSET", "SAME_AS_PWRUP", "NO_RADIO"}
Durations == {"ZERO", "TWO_HOURS"}
SleepParams == [sleep_type : SleepTypes, sleep_duration : Durations]
Signals == {"CONFIG_MODE", "DEEP_SLEEP_CYCLE", "DEEP_SLEEP", "STATE_ERROR",
            "SEND_DATA_DONE", "RESET_AFTER_CONFIG_SAVE"}

NoParams == [sleep_type |-> "UNSET", sleep_duration |-> "ZERO"]

(* The part of the type invariant about the platform.                      *)
PlatformTypeOK ==
  /\ power \in PowerStates
  /\ reset_reason \in ResetReasons
  /\ radio \in BOOLEAN
  /\ rtc_sleep_count \in Nat
  /\ deep_sleep \in SleepParams
  /\ task_queue \in Seq(Signals)
  /\ Len(task_queue) <= SYS_TASK_QUEUE_MAIN_LEN
  /\ sys_timer_sw \in TimerStates
  /\ opmode \in OpModes
  /\ opmode_events \in 0..MaxOpmodeEvents
  /\ link \in LinkStates
  /\ socket \in SocketStates
  /\ unread \in 0..1

Running == power \in {"ON", "SLEEPING", "RESTARTING"}

-------------------------------------------------------------------------------
(* system_os_post(): false, and the signal is lost, when the queue is full. *)
(* No caller in the firmware looks at the result.                          *)
Posted(queue, signal) ==
  IF Len(queue) < SYS_TASK_QUEUE_MAIN_LEN THEN Append(queue, signal) ELSE queue

(* wifi_set_opmode_current(): a change of mode raises EVENT_OPMODE_CHANGED; *)
(* whether setting the same mode again does is not documented, so either.  *)
(* "pending" counts the events not delivered before the call.              *)
OneMore(pending) == IF pending < MaxOpmodeEvents THEN pending + 1 ELSE pending

SetOpmode(mode, pending) ==
  /\ opmode' = mode
  /\ \/ opmode_events' = OneMore(pending)
     \/ mode = opmode /\ opmode_events' = pending

(* wifi_station_disconnect(): accepted, EVENT_STAMODE_DISCONNECTED follows *)
(* if there was a link; or refused, always possible without station mode.  *)
StationDisconnect ==
  /\ link' = IF link \in {"JOINING", "UP"} THEN "LEAVING" ELSE link
  /\ UNCHANGED <<opmode, opmode_events>>

StationDisconnectFails == Fault("station_call") \/ opmode # "STATION_MODE"

(* Switching station mode off takes a link down, with or without an event. *)
StationOff ==
  IF link \in {"JOINING", "UP"} THEN link' \in {"DOWN", "LEAVING"}
                                ELSE UNCHANGED link
===============================================================================

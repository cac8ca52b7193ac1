-------------------------------- MODULE Thirst --------------------------------
(***************************************************************************)
(* The whole firmware: start-up, main task, WiFi events, gateway callbacks *)
(* and configuration mode, over one platform, through any number of boots. *)
(***************************************************************************)
EXTENDS Gateway, ConfigMode

vars == <<power, reset_reason, radio, rtc_sleep_count, deep_sleep, task_queue,
          sys_timer_sw, opmode, opmode_events, link, socket, unread, sys_state,
          sys_deep_sleep_params, config_current, form_buffer, flash, httpd, led,
          sys_state_error_led, naps, cooldown, notified, accepted>>

(* Power-up of a device that was configured, or never was.                 *)
Init ==
  /\ power = "BOOTING"
  /\ reset_reason = "DEFAULT_RST"
  /\ radio = TRUE
  /\ rtc_sleep_count \in PowerUpCounts
  /\ deep_sleep = NoParams
  /\ task_queue = <<>>
  /\ sys_timer_sw = "OFF"
  /\ opmode = "FLASH_DEFAULT"
  /\ opmode_events = 0
  /\ link = "DOWN"
  /\ socket = "NONE"
  /\ unread = 0
  /\ sys_state = Transition("NONE", "NONE")
  /\ sys_deep_sleep_params = NoParams
  /\ config_current = "NULL"
  /\ form_buffer = FALSE
  /\ flash \in {"SAVED", "INVALID"}
  /\ httpd = FALSE
  /\ led = FALSE
  /\ sys_state_error_led = FALSE
  /\ naps = 0
  /\ cooldown = 0
  /\ notified = FALSE
  /\ accepted = FALSE

Chip == Reset \/ PowerCycle \/ Restart \/ EnterSleep \/ Wake

Events ==
  \/ InitDone \/ OpmodeChanged \/ MainTask \/ ToggleErrorLed
  \/ Disconnected \/ DhcpTimeout \/ GotIp
  \/ DnsResolved \/ DnsFailed \/ SocketConnected
  \/ SocketConnectedNoMemory \/ ReceiveFirst
  \/ ReceiveTimeout \/ SocketDisconnected \/ SocketError
  \/ SaveFailsInRtc \/ SaveFailsInFlash \/ SaveConfig \/ SaveInterrupted
  \/ RestartTimeout

(* While a part of the answer is unread, the receive callback runs next.   *)
Next ==
  \/ Chip
  \/ ReceiveRest
  \/ unread = 0 /\ Events

Spec == Init /\ [][Next]_vars

(* The SDK delivers what is pending: events, signals, expired timers, the  *)
(* outcome of a join, a lookup, a connection attempt or a close that was   *)
(* asked for.  Nothing is assumed of failures and of the user.             *)
Fairness ==
  /\ WF_vars(ReceiveRest)
  /\ WF_vars(Restart)
  /\ WF_vars(EnterSleep)
  /\ WF_vars(Wake)
  /\ WF_vars(unread = 0 /\ InitDone)
  /\ WF_vars(unread = 0 /\ OpmodeChanged)
  /\ WF_vars(unread = 0 /\ MainTask)
  /\ WF_vars(unread = 0 /\ link = "LEAVING" /\ Disconnected)
  /\ WF_vars(unread = 0 /\ (GotIp \/ DhcpTimeout \/ Disconnected))
  /\ WF_vars(unread = 0 /\ (DnsResolved \/ DnsFailed))
  /\ WF_vars(unread = 0 /\ (SocketConnected \/ SocketError))
  /\ WF_vars(unread = 0 /\ (ReceiveFirst \/ ReceiveTimeout))
  /\ WF_vars(unread = 0 /\ socket = "CLOSING" /\ SocketDisconnected)
  /\ WF_vars(unread = 0 /\ RestartTimeout)

FairSpec == Spec /\ Fairness

-------------------------------------------------------------------------------
(* Safety.                                                                 *)

(* The radio is enabled and the configuration is the saved one whenever the *)
(* device joins a network, in whatever boot of whatever history of resets: *)
(* "normal operation can not continue" with the default configuration, and *)
(* the sleep option was chosen one boot earlier.                           *)
StationReady ==
  opmode = "STATION_MODE" => radio /\ config_current = "SAVED"

(* The web server runs only with both of its buffers allocated.  After a   *)
(* failed allocation the INIT_OK handler goes on and posts a second signal; *)
(* only because the queue holds one signal is CONFIG_MODE dropped.         *)
ServerHasBuffers == httpd => config_current # "NULL" /\ form_buffer

(* Will the boot that finds this RTC memory after a sleep measure?         *)
NextBootMeasures ==
  LET count == IF rtc_sleep_count >= SYS_DEEP_SLEEP_TIMES THEN 0 ELSE rtc_sleep_count
  IN  count + 1 >= SYS_DEEP_SLEEP_TIMES

(* A device that is asleep wakes up again, and wakes with the radio on     *)
(* exactly if the boot to come measures: sys_deep_sleep_cycle() and the two *)
(* ends of a measuring boot agree on the parameters of the sleep.          *)
SleepProgrammed ==
  power \in {"SLEEPING", "ASLEEP"} =>
    /\ deep_sleep.sleep_duration # "ZERO"
    /\ deep_sleep.sleep_type = IF NextBootMeasures THEN "SAME_AS_PWRUP" ELSE "NO_RADIO"

(* Deep sleep is asked for only with the WiFi off and no timer armed that  *)
(* could still act on the state machine.                                   *)
SleepsQuietly ==
  power = "SLEEPING" => opmode = "NULL_MODE" /\ sys_timer_sw # "RX"

(* What must hold of every deep sleep: its parameters and what is still    *)
(* running then.                                                           *)
SleepsSoundly == SleepProgrammed /\ SleepsQuietly

(* The error state does not drain the battery: while the error LED blinks  *)
(* the WiFi is off.                                                        *)
ErrorStopsWifi == sys_timer_sw = "LED" => opmode = "NULL_MODE"

(* A boot that has sent its request sleeps only if the gateway answered it *)
(* with 202: no failed notification is taken for a success, whichever of   *)
(* response, timeout and disconnection comes first.                        *)
SleepsOnlyIfAccepted ==
  power = "SLEEPING" /\ notified => accepted

(* The queue of the main task holds one signal and no caller looks whether *)
(* system_os_post() took his.  A signal posted because of a mode event is   *)
(* the one that will be handled: what is dropped is a repetition of it.    *)
SignalKept ==
  [][NullModePost => \A signal \in NullModeSignals(sys_state) : task_queue' = <<signal>>]_vars

(* The error LED, once blinking, blinks until the next boot although three *)
(* other users share its timer.                                            *)
ErrorLedStays ==
  [][sys_timer_sw = "LED" => sys_timer_sw' = "LED" \/ power' \in {"BOOTING", "ASLEEP"}]_vars

-------------------------------------------------------------------------------
(* The firmware implements the sleep cycle.                                *)
PhaseOf(life, state) ==
  CASE life \in {"SLEEPING", "ASLEEP"} -> "asleep"
    [] life = "BOOTING" -> "boot"
    [] life \in {"ON", "RESTARTING"} ->
         CASE state.state_next \in {"NONE", "INIT_OK", "DEEP_SLEEP_CYCLE"} -> "boot"
           [] state = Transition("DEEP_SLEEP_CYCLE", "DEEP_SLEEP") -> "nap"
           [] \/ state.state_next = "PRE_SEND_DATA"
              \/ state.state_current \in {"PRE_SEND_DATA", "SEND_DATA"} -> "measure"
           [] OTHER -> "idle"
Phase == PhaseOf(power, sys_state)

Cycle == INSTANCE SleepCycle WITH
  wakeRadio <- deep_sleep.sleep_type = "SAME_AS_PWRUP",
  phase <- Phase

(* Every boot of the firmware keeps the schedule of SleepCycle, with all   *)
(* the tasks, events and failures in between.                              *)
ImplementsSleepCycle == Cycle!Spec

-------------------------------------------------------------------------------
(* The stages of a boot: what the queue, the timer, the link and the socket *)
(* can be while sys_state is a given transition.  The inductive invariant  *)
(* of ThirstProofs, from which the safety properties above follow.         *)
At(current, next) == sys_state = Transition(current, next)

Unsent == socket = "NONE" /\ unread = 0 /\ ~notified /\ ~accepted
Offline == link = "DOWN" /\ Unsent
Linked == opmode = "STATION_MODE" /\ opmode_events = 0 /\ link \in {"UP", "LEAVING"}
Unlinked == opmode = "NULL_MODE" /\ link = "DOWN"

(* Nothing is armed or posted but what shows an error.                     *)
AtMostError ==
  /\ task_queue \in {<<>>, <<"STATE_ERROR">>}
  /\ sys_timer_sw \in {"OFF", "LED"}

(* Before the firmware runs, in a release build whose initialisation failed *)
(* and asleep.                                                             *)
Cleared ==
  /\ power \in {"BOOTING", "ON", "ASLEEP"}
  /\ At("NONE", "NONE")
  /\ task_queue = <<>>
  /\ sys_timer_sw = "OFF"
  /\ opmode = "FLASH_DEFAULT"
  /\ opmode_events = 0
  /\ link = "DOWN"
  /\ socket = "NONE"
  /\ unread = 0
  /\ ~httpd
  /\ power # "ASLEEP" => ~notified /\ ~accepted

Initialised ==
  /\ power = "ON"
  /\ At("INIT", "INIT_OK")
  /\ task_queue = <<>>
  /\ sys_timer_sw = "OFF"
  /\ opmode = "NULL_MODE"
  /\ opmode_events <= 1
  /\ Offline
  /\ ~httpd

Failed ==
  /\ power = "ON"
  /\ \/ At("INIT", "ERROR_INIT_MAIN_TASK")
     \/ \E current \in {"INIT", "INIT_OK", "DEEP_SLEEP_CYCLE", "PRE_SEND_DATA"} :
          At(current, "ERROR")
  /\ opmode = "NULL_MODE"
  /\ AtMostError
  /\ Offline

Configuring ==
  /\ power = "ON"
  /\ At("INIT_OK", "CONFIG")
  /\ Offline
  /\ \/ opmode = "NULL_MODE" /\ AtMostError
     \/ /\ opmode = "NULL_MODE"
        /\ task_queue = <<"CONFIG_MODE">>
        /\ sys_timer_sw = "OFF"
        /\ form_buffer /\ config_current # "NULL"
     \/ /\ opmode = "STATIONAP_MODE"
        /\ task_queue = <<>>
        /\ sys_timer_sw \in {"OFF", "RESTART"}
        /\ form_buffer /\ config_current # "NULL"

Configured ==
  /\ power \in {"ON", "RESTARTING"}
  /\ At("CONFIG", "RESET_AFTER_CONFIG_SAVE")
  /\ task_queue \in {<<>>, <<"RESET_AFTER_CONFIG_SAVE">>}
  /\ sys_timer_sw = "OFF"
  /\ opmode = "NULL_MODE"
  /\ Offline

CycleAhead ==
  /\ power = "ON"
  /\ At("INIT_OK", "DEEP_SLEEP_CYCLE")
  /\ opmode = "NULL_MODE"
  /\ opmode_events = 0
  /\ Offline
  /\ config_current \in {"SAVED", "DAMAGED"}
  /\ \/ AtMostError
     \/ task_queue = <<"DEEP_SLEEP_CYCLE">> /\ sys_timer_sw = "OFF"

Napping ==
  /\ At("DEEP_SLEEP_CYCLE", "DEEP_SLEEP")
  /\ \/ power = "ON" /\ task_queue = <<"DEEP_SLEEP">>
     \/ power = "SLEEPING" /\ task_queue = <<>>
  /\ sys_timer_sw = "OFF"
  /\ opmode = "NULL_MODE"
  /\ Offline
  /\ sys_deep_sleep_params = [sleep_type |-> SleepTypeAfterNap(rtc_sleep_count),
                              sleep_duration |-> "TWO_HOURS"]

Joining ==
  /\ power = "ON"
  /\ At("DEEP_SLEEP_CYCLE", "PRE_SEND_DATA")
  /\ task_queue = <<>>
  /\ sys_timer_sw = "OFF"
  /\ opmode = "STATION_MODE"
  /\ \/ link = "DOWN" /\ opmode_events <= 1
     \/ link = "JOINING" /\ opmode_events = 0
  /\ Unsent

Sending ==
  /\ power = "ON"
  /\ At("PRE_SEND_DATA", "SEND_DATA")
  /\ task_queue = <<>>
  /\ sys_timer_sw \in {"OFF", "RX"}
  /\ Linked \/ Unlinked
  /\ socket # "CLOSING"
  /\ socket \in {"RESOLVING", "CONNECTING"} => sys_timer_sw = "OFF" /\ ~notified
  /\ unread = 0
  /\ ~accepted

(* Nothing to report: leave the network and sleep.                         *)
SleepAhead ==
  /\ At("SEND_DATA", "DEEP_SLEEP")
  /\ \/ power = "ON" /\ Linked /\ task_queue = <<>>
     \/ /\ power \in {"ON", "SLEEPING"}
        /\ Unlinked
        /\ task_queue \in {<<>>, <<"DEEP_SLEEP">>}
  /\ sys_timer_sw = "OFF"
  /\ Unsent
  /\ sys_deep_sleep_params = SleepAfterMeasurement

Done ==
  /\ At("SEND_DATA", "SEND_DATA_DONE")
  /\ \/ power = "ON" /\ Linked /\ task_queue = <<>>
     \/ /\ power \in {"ON", "SLEEPING"}
        /\ Unlinked
        /\ task_queue \in {<<>>, <<"SEND_DATA_DONE">>}
        /\ unread = 0
  /\ sys_timer_sw = "OFF"
  /\ socket \in {"NONE", "CLOSING"}
  /\ accepted
  /\ sys_deep_sleep_params = SleepAfterMeasurement

(* Among the failures is the rest of an answer whose first part was        *)
(* accepted; the signal of that part may still be queued.                  *)
SendFailed ==
  /\ At("SEND_DATA", "ERROR")
  /\ \/ power = "ON" /\ Linked /\ task_queue = <<>> /\ sys_timer_sw = "OFF"
     \/ /\ power = "ON" \/ (power = "SLEEPING" /\ accepted)
        /\ opmode = "NULL_MODE"
        /\ link \in {"DOWN", "LEAVING"}
        /\ \/ task_queue \in {<<>>, <<"STATE_ERROR">>}
           \/ task_queue = <<"SEND_DATA_DONE">> /\ accepted
        /\ sys_timer_sw \in {"OFF", "RX", "LED"}
        /\ unread = 0
  /\ socket \in {"NONE", "CLOSING"}
  /\ accepted => sys_deep_sleep_params = SleepAfterMeasurement /\ sys_timer_sw # "RX"

Staged ==
  \/ Cleared \/ Initialised \/ Failed \/ Configuring \/ Configured
  \/ CycleAhead \/ Napping \/ Joining \/ Sending \/ SleepAhead \/ Done
  \/ SendFailed

(* A station runs on a configuration whose checksum matched.               *)
ConfigChecked ==
  /\ flash = "COLLIDING" \/ config_current = "DAMAGED" => Fault("hash")
  /\ opmode = "STATION_MODE" => config_current \in {"SAVED", "DAMAGED"}

(* The sleep in force is the one that was decided on, and it ends.         *)
SleepDecided ==
  /\ power = "SLEEPING" => deep_sleep = sys_deep_sleep_params
  /\ power \in {"SLEEPING", "ASLEEP"} =>
       /\ deep_sleep.sleep_type \in {"SAME_AS_PWRUP", "NO_RADIO"}
       /\ deep_sleep.sleep_duration = "TWO_HOURS"

FirmwareInv ==
  /\ SystemTypeOK
  /\ Staged
  /\ ServerHasBuffers
  /\ ConfigChecked
  /\ SleepDecided

(* Unless the access point is lost, the socket is closed before the station *)
(* leaves, so that no end of the request finds another one's signal queued. *)
SignalInv ==
  /\ At("PRE_SEND_DATA", "SEND_DATA") \/ At("SEND_DATA", "SEND_DATA_DONE") =>
       (socket # "NONE" => link = "UP")
  /\ At("SEND_DATA", "ERROR") => task_queue # <<"SEND_DATA_DONE">>

-------------------------------------------------------------------------------
(* Liveness.                                                               *)

ErrorShown == sys_timer_sw = "LED"
BootOver == power \in {"ASLEEP", "BOOTING"}

(* A measuring boot ends: asleep again, or with the error LED blinking.    *)
MeasurementEnds ==
  sys_state.state_next = "PRE_SEND_DATA" ~> BootOver \/ ErrorShown

(* An access point lost while data is being sent is an error that is shown *)
(* (comment of the handler: an error in the send data state).              *)
ApLossShown ==
  link = "DOWN" /\ sys_state.state_next = "SEND_DATA" ~> BootOver \/ ErrorShown

InitFailed ==
  /\ power = "ON"
  /\ config_current = "NULL"
  /\ sys_state # Transition("INIT", "INIT_OK")

(* A failed initialisation blinks the error LED (comment of the handler).  *)
InitFailureShown ==
  InitFailed ~> ErrorShown \/ power = "BOOTING"

(* A saved configuration takes effect: the device restarts.                *)
SaveRestarts == sys_timer_sw = "RESTART" ~> power = "BOOTING"

(* Once asleep, the device measures again (README: once every day).        *)
DailyMeasurement == power = "ASLEEP" ~> sys_state.state_next = "PRE_SEND_DATA"

(* A boot whose notification was accepted goes back to sleep.              *)
AcceptedSleeps == accepted ~> BootOver
===============================================================================

-------------------------------- MODULE System --------------------------------
(***************************************************************************)
(* The state machine of thirst.c: start-up, the deep sleep cycle, the WiFi *)
(* event handler and the main task.                                        *)
(*                                                                         *)
(* The handlers meet in sys_state, the pair (current, next), which each of *)
(* them overwrites without looking and which decides, when the WiFi mode   *)
(* has become NULL_MODE, what is posted to the main task.                  *)
(***************************************************************************)
EXTENDS Platform

VARIABLES
  sys_state,             \* the last transition: state_current, state_next
  sys_deep_sleep_params, \* option and duration of the sleep to come
  config_current,        \* the configuration in RAM, see ConfigStates
  form_buffer,           \* is web_interface_buffer_post_form allocated?
  flash,                 \* the configuration sector, see SectorStates
  httpd,                 \* is the web server listening?
  led,                   \* the blue LED
  sys_state_error_led,   \* what the next toggle sets it to
  naps,                  \* history: sleeps since the last measuring boot
  cooldown,              \* history: boots owed before the next notification
  notified,              \* history: has this boot sent its request?
  accepted               \* history: has the gateway accepted it (code 202)?

leds == <<led, sys_state_error_led>>
buffers == <<config_current, form_buffer>>
history == <<naps, cooldown, notified, accepted>>

(* Variables the callbacks of a connected device leave alone.              *)
idleVars == <<power, chip, rtc_sleep_count, deep_sleep, flash, buffers, httpd,
              leds>>

States == {"NONE", "INIT", "CONFIG", "INIT_OK", "SEND_DATA", "DEEP_SLEEP",
           "PRE_SEND_DATA", "SEND_DATA_DONE", "DEEP_SLEEP_CYCLE",
           "RESET_AFTER_CONFIG_SAVE", "ERROR", "ERROR_INIT_MAIN_TASK"}
SectorStates == {"SAVED", "INVALID", "COLLIDING"}
ConfigStates == {"NULL", "UNREAD", "SAVED", "DAMAGED", "DEFAULT", "EDITED"}

Transition(current, next) == [state_current |-> current, state_next |-> next]

(* The type invariant of the whole firmware.                               *)
SystemTypeOK ==
  /\ PlatformTypeOK
  /\ sys_state \in [state_current : States, state_next : States]
  /\ sys_deep_sleep_params \in SleepParams
  /\ config_current \in ConfigStates
  /\ form_buffer \in BOOLEAN
  /\ flash \in SectorStates
  /\ httpd \in BOOLEAN
  /\ led \in BOOLEAN
  /\ sys_state_error_led \in BOOLEAN
  /\ naps \in Nat
  /\ cooldown \in 0..SYS_DEEP_SLEEP_TIMES
  /\ notified \in BOOLEAN
  /\ accepted \in BOOLEAN

-------------------------------------------------------------------------------
(* Resets.  RAM and the SDK start afresh; the RTC memory, the flash and the *)
(* programmed deep sleep stay.                                             *)
RamCleared ==
  /\ task_queue' = <<>>
  /\ sys_timer_sw' = "OFF"
  /\ opmode' = "FLASH_DEFAULT"
  /\ opmode_events' = 0
  /\ link' = "DOWN"
  /\ socket' = "NONE"
  /\ unread' = 0
  /\ sys_state' = Transition("NONE", "NONE")
  /\ sys_deep_sleep_params' = NoParams
  /\ config_current' = "NULL"
  /\ form_buffer' = FALSE
  /\ httpd' = FALSE
  /\ led' = FALSE
  /\ sys_state_error_led' = FALSE

Reboot(why, rf) ==
  /\ power' = "BOOTING"
  /\ reset_reason' = why
  /\ radio' = rf
  /\ UNCHANGED deep_sleep
  /\ RamCleared
  /\ notified' = FALSE
  /\ accepted' = FALSE

(* External reset, watchdog or exception, at any moment, asleep or awake.  *)
Reset ==
  /\ Fault("reset")
  /\ Reboot("FAULT_RST", TRUE)
  /\ UNCHANGED <<rtc_sleep_count, flash, naps, cooldown>>

PowerCycle ==
  /\ Fault("power")
  /\ Reboot("DEFAULT_RST", TRUE)
  /\ rtc_sleep_count' \in PowerUpCounts
  /\ naps' = 0
  /\ cooldown' = 0
  /\ UNCHANGED flash

(* system_restart() takes effect.                                          *)
Restart ==
  /\ power = "RESTARTING"
  /\ Reboot("SOFT_RESTART", TRUE)
  /\ UNCHANGED <<rtc_sleep_count, flash, naps, cooldown>>

(* system_deep_sleep() takes effect.                                       *)
EnterSleep ==
  /\ power = "SLEEPING"
  /\ power' = "ASLEEP"
  /\ RamCleared
  /\ UNCHANGED <<chip, rtc_sleep_count, deep_sleep, flash, history>>

(* The RTC timer ends the sleep, unless the duration was 0: then it never  *)
(* does.                                                                   *)
Wake ==
  /\ power = "ASLEEP"
  /\ deep_sleep.sleep_duration # "ZERO"
  /\ Reboot("DEEP_SLEEP_AWAKE", deep_sleep.sleep_type # "NO_RADIO")
  /\ UNCHANGED <<rtc_sleep_count, flash, naps, cooldown>>

-------------------------------------------------------------------------------
(* Start-up: sys_cb_init_done().  Both error transitions are compiled only *)
(* into the debug build; the release build just returns.                   *)
InitFails(next) ==
  /\ Fault("init")
  /\ IF PERIPH_ENABLE_DEBUG
     THEN /\ sys_state' = Transition("INIT", next)
          /\ SetOpmode("NULL_MODE", opmode_events)
     ELSE UNCHANGED <<sys_state, opmode, opmode_events>>

InitDone ==
  /\ power = "BOOTING"
  /\ power' = "ON"
  /\ \/ InitFails("ERROR_INIT_MAIN_TASK") /\ UNCHANGED leds
     \/ /\ led' = FALSE
        /\ sys_state_error_led' = TRUE
        /\ \/ InitFails("ERROR")
           \/ /\ sys_state' = Transition("INIT", "INIT_OK")
              /\ SetOpmode("NULL_MODE", opmode_events)
  /\ UNCHANGED <<chip, rtc_sleep_count, deep_sleep, task_queue, sys_timer_sw,
                 link, socket, unread, sys_deep_sleep_params, buffers, flash,
                 httpd, history>>

-------------------------------------------------------------------------------
(* EVENT_OPMODE_CHANGED.  The handler asks for the mode when the event is  *)
(* delivered, which need not be the mode that raised it.                   *)
ModeEvent(mode) ==
  /\ Running
  /\ opmode_events > 0
  /\ opmode = mode

(* What no branch of this handler changes.                                 *)
modeIdle == <<rtc_sleep_count, deep_sleep, socket, unread, flash, leds,
              sys_deep_sleep_params, history>>

(* The first NULL_MODE of a boot: allocate, read the configuration, look at *)
(* the button (a 4 s busy wait) and decide how to go on.  A failed         *)
(* allocation posts the error but does not return: a NULL config_current   *)
(* is then written through, which raises an exception; with only the form  *)
(* buffer missing the handler carries on.                                  *)
ConfigReadUnchecked ==
  \/ flash = "SAVED" /\ config_current' = "SAVED"
  \/ flash # "SAVED" /\ config_current' = "DAMAGED"
ConfigRead ==
  \/ flash = "SAVED" /\ config_current' = "SAVED"
  \/ flash = "INVALID" /\ config_current' = "DEFAULT"
  \/ flash = "COLLIDING" /\ config_current' = "DAMAGED"

InitOkDecides(queue) ==
  \/ /\ Fault("flash_read")
     /\ config_current' = "UNREAD"
     /\ sys_state' = Transition("INIT_OK", "ERROR")
     /\ task_queue' = Posted(queue, "STATE_ERROR")
  \/ /\ ConfigRead
     /\ \E buttonPressed \in {FALSE, Fault("button")} :
          IF config_current' = "DEFAULT" \/ buttonPressed
          THEN /\ sys_state' = Transition("INIT_OK", "CONFIG")
               /\ task_queue' = Posted(queue, "CONFIG_MODE")
          ELSE /\ sys_state' = Transition("INIT_OK", "DEEP_SLEEP_CYCLE")
               /\ task_queue' = Posted(queue, "DEEP_SLEEP_CYCLE")

NullModeInitOk ==
  /\ ModeEvent("NULL_MODE")
  /\ sys_state = Transition("INIT", "INIT_OK")
  /\ opmode_events' = opmode_events - 1
  /\ \/ form_buffer' = TRUE /\ InitOkDecides(task_queue)
     \/ /\ Fault("alloc")
        /\ form_buffer' = FALSE
        /\ InitOkDecides(Posted(task_queue, "STATE_ERROR"))
  /\ UNCHANGED <<modeIdle, power, chip, opmode, link, sys_timer_sw, httpd>>

NullModeInitOkNoMemory ==
  /\ ModeEvent("NULL_MODE")
  /\ sys_state = Transition("INIT", "INIT_OK")
  /\ Fault("alloc")
  /\ Reboot("FAULT_RST", TRUE)
  /\ UNCHANGED <<rtc_sleep_count, flash, naps, cooldown>>

NullModeInitTaskFailed ==
  /\ ModeEvent("NULL_MODE")
  /\ sys_state = Transition("INIT", "ERROR_INIT_MAIN_TASK")
  /\ opmode_events' = opmode_events - 1
  /\ sys_timer_sw' = "LED"
  /\ UNCHANGED <<modeIdle, power, chip, opmode, link, sys_state, task_queue,
                 buffers, httpd>>

(* The other NULL_MODE branches post the signal that belongs to the last   *)
(* transition, if one does.                                                *)
NullModeSignalsWithoutDone(state) ==
  CASE state = Transition("SEND_DATA", "DEEP_SLEEP") -> {"DEEP_SLEEP"}
    [] state.state_next = "ERROR" -> {"STATE_ERROR"}
    [] OTHER -> {}
NullModeSignalsWithoutError(state) ==
  IF state = Transition("SEND_DATA", "SEND_DATA_DONE")
  THEN {"SEND_DATA_DONE"} ELSE {}
NullModeSignals(state) ==
  CASE state = Transition("CONFIG", "RESET_AFTER_CONFIG_SAVE")
         -> {"RESET_AFTER_CONFIG_SAVE"}
    [] state = Transition("SEND_DATA", "DEEP_SLEEP") -> {"DEEP_SLEEP"}
    [] state = Transition("SEND_DATA", "SEND_DATA_DONE") -> {"SEND_DATA_DONE"}
    [] state.state_next = "ERROR" -> {"STATE_ERROR"}
    [] OTHER -> {}

NullModePost ==
  /\ ModeEvent("NULL_MODE")
  /\ sys_state \notin {Transition("INIT", "INIT_OK"),
                       Transition("INIT", "ERROR_INIT_MAIN_TASK")}
  /\ opmode_events' = opmode_events - 1
  /\ \/ \E signal \in NullModeSignals(sys_state) :
          task_queue' = Posted(task_queue, signal)
     \/ NullModeSignals(sys_state) = {} /\ UNCHANGED task_queue
  /\ UNCHANGED <<modeIdle, power, chip, opmode, link, sys_timer_sw, sys_state,
                 buffers, httpd>>

(* STATION_MODE: configure and join; without the radio joining fails.      *)
StationMode ==
  /\ ModeEvent("STATION_MODE")
  /\ \/ /\ radio
        /\ link' = "JOINING"
        /\ opmode_events' = opmode_events - 1
        /\ UNCHANGED <<opmode, sys_state>>
     \/ /\ Fault("join") \/ ~radio
        /\ sys_state' = Transition("PRE_SEND_DATA", "ERROR")
        /\ SetOpmode("NULL_MODE", opmode_events - 1)
        /\ UNCHANGED link
  /\ UNCHANGED <<modeIdle, power, chip, sys_timer_sw, task_queue, buffers,
                 httpd>>

(* STATIONAP_MODE: start the access point and the web server.              *)
StationApMode ==
  /\ ModeEvent("STATIONAP_MODE")
  /\ opmode_events' = opmode_events - 1
  /\ httpd' = TRUE
  /\ UNCHANGED <<modeIdle, power, chip, opmode, link, sys_timer_sw, task_queue,
                 sys_state, buffers>>

OpmodeChanged ==
  \/ NullModeInitOk \/ NullModeInitOkNoMemory \/ NullModeInitTaskFailed
  \/ NullModePost \/ StationMode \/ StationApMode

-------------------------------------------------------------------------------
(* The main task: one signal is taken off the queue, then handled.         *)
Task(signals) ==
  /\ Running
  /\ task_queue # <<>>
  /\ Head(task_queue) \in signals

TaskConfigMode ==
  /\ Task({"CONFIG_MODE"})
  /\ task_queue' = Tail(task_queue)
  /\ led' = TRUE
  /\ SetOpmode("STATIONAP_MODE", opmode_events)
  /\ UNCHANGED <<power, chip, rtc_sleep_count, deep_sleep, sys_timer_sw, link,
                 socket, unread, sys_state, sys_deep_sleep_params, buffers,
                 flash, httpd, sys_state_error_led, history>>

TaskStateError ==
  /\ Task({"STATE_ERROR"})
  /\ task_queue' = Tail(task_queue)
  /\ sys_timer_sw' = "LED"
  /\ UNCHANGED <<idleVars, wifi, socket, unread, sys_state,
                 sys_deep_sleep_params, history>>

TaskDeepSleep ==
  /\ Task({"DEEP_SLEEP", "SEND_DATA_DONE"})
  /\ task_queue' = Tail(task_queue)
  /\ deep_sleep' = sys_deep_sleep_params
  /\ power' = "SLEEPING"
  /\ naps' = IF power = "SLEEPING" THEN naps ELSE naps + 1
  /\ UNCHANGED <<chip, rtc_sleep_count, sys_timer_sw, wifi, socket, unread,
                 sys_state, sys_deep_sleep_params, buffers, flash, httpd, leds,
                 cooldown, notified, accepted>>

TaskReset ==
  /\ Task({"RESET_AFTER_CONFIG_SAVE"})
  /\ task_queue' = Tail(task_queue)
  /\ power' = "RESTARTING"
  /\ UNCHANGED <<chip, rtc_sleep_count, deep_sleep, sys_timer_sw, wifi, socket,
                 unread, sys_state, sys_deep_sleep_params, buffers, flash,
                 httpd, leds, history>>

(* sys_deep_sleep_cycle(), called by the task.  The count is written before *)
(* the boot goes on, whether it naps or measures.                          *)
Paid(n) == IF n > 0 THEN n - 1 ELSE 0

CountedSleepsUnlessPowerUp ==
  IF rtc_sleep_count >= SYS_DEEP_SLEEP_TIMES THEN 0 ELSE rtc_sleep_count
CountedSleeps ==
  IF reset_reason = "DEFAULT_RST" \/ rtc_sleep_count >= SYS_DEEP_SLEEP_TIMES
  THEN 0 ELSE rtc_sleep_count

SleepTypeAfterNapLate(count) ==
  IF count >= SYS_DEEP_SLEEP_TIMES THEN "SAME_AS_PWRUP" ELSE "NO_RADIO"
SleepTypeAfterNap(count) ==
  IF count >= SYS_DEEP_SLEEP_TIMES - 1 THEN "SAME_AS_PWRUP" ELSE "NO_RADIO"

TaskCycleFails ==
  /\ Task({"DEEP_SLEEP_CYCLE"})
  /\ Fault("rtc")
  /\ sys_state' = Transition("DEEP_SLEEP_CYCLE", "ERROR")
  /\ task_queue' = Posted(Tail(task_queue), "STATE_ERROR")
  /\ UNCHANGED <<idleVars, wifi, socket, unread, sys_timer_sw,
                 sys_deep_sleep_params, history>>

TaskCycleNap ==
  /\ Task({"DEEP_SLEEP_CYCLE"})
  /\ CountedSleeps + 1 < SYS_DEEP_SLEEP_TIMES
  /\ rtc_sleep_count' = CountedSleeps + 1
  /\ sys_deep_sleep_params' = [sleep_type |-> SleepTypeAfterNap(CountedSleeps + 1),
                               sleep_duration |-> "TWO_HOURS"]
  /\ sys_state' = Transition("DEEP_SLEEP_CYCLE", "DEEP_SLEEP")
  /\ task_queue' = Posted(Tail(task_queue), "DEEP_SLEEP")
  /\ cooldown' = Paid(cooldown)
  /\ UNCHANGED <<power, chip, deep_sleep, sys_timer_sw, wifi, socket, unread,
                 buffers, flash, httpd, leds, naps, notified, accepted>>

TaskCycleMeasure ==
  /\ Task({"DEEP_SLEEP_CYCLE"})
  /\ CountedSleeps + 1 >= SYS_DEEP_SLEEP_TIMES
  /\ rtc_sleep_count' = CountedSleeps + 1
  /\ sys_state' = Transition("DEEP_SLEEP_CYCLE", "PRE_SEND_DATA")
  /\ SetOpmode("STATION_MODE", opmode_events)
  /\ task_queue' = Tail(task_queue)
  /\ naps' = 0
  /\ cooldown' = Paid(cooldown)
  /\ UNCHANGED <<power, chip, deep_sleep, sys_timer_sw, link, socket, unread,
                 sys_deep_sleep_params, buffers, flash, httpd, leds, notified,
                 accepted>>

MainTask ==
  \/ TaskConfigMode \/ TaskStateError \/ TaskDeepSleep \/ TaskReset
  \/ TaskCycleFails \/ TaskCycleNap \/ TaskCycleMeasure

(* The periodic timer of the error state.                                  *)
ToggleErrorLed ==
  /\ Running
  /\ sys_timer_sw = "LED"
  /\ led' = sys_state_error_led
  /\ sys_state_error_led' = ~sys_state_error_led
  /\ UNCHANGED <<power, chip, rtc_sleep_count, deep_sleep, task_queue,
                 sys_timer_sw, wifi, socket, unread, sys_state,
                 sys_deep_sleep_params, buffers, flash, httpd, history>>

-------------------------------------------------------------------------------
(* The other WiFi events.                                                  *)

(* The way out of SEND_DATA: having made the transition "left", leave the  *)
(* access point; if that call fails, go to ERROR by way of NULL_MODE.      *)
LeaveNetwork(left) ==
  \/ StationDisconnect /\ sys_state' = left
  \/ /\ StationDisconnectFails
     /\ sys_state' = Transition("SEND_DATA", "ERROR")
     /\ SetOpmode("NULL_MODE", opmode_events)
     /\ StationOff

DisconnectedPosts ==
  /\ Running
  /\ \/ link = "JOINING" /\ Fault("join")
     \/ link = "UP" /\ Fault("ap_loss")
     \/ link = "LEAVING"
  /\ link' = "DOWN"
  /\ task_queue' = Posted(task_queue, "STATE_ERROR")
  /\ SetOpmode("NULL_MODE", opmode_events)
  /\ UNCHANGED <<idleVars, sys_state, sys_timer_sw, socket, unread,
                 sys_deep_sleep_params, history>>
(* EVENT_STAMODE_DISCONNECTED: an error only if nothing has happened yet.  *)
Disconnected ==
  /\ Running
  /\ \/ link = "JOINING" /\ Fault("join")
     \/ link = "UP" /\ Fault("ap_loss")
     \/ link = "LEAVING"
  /\ link' = "DOWN"
  /\ sys_state' = IF sys_state.state_next = "PRE_SEND_DATA"
                  THEN Transition("PRE_SEND_DATA", "ERROR") ELSE sys_state
  /\ SetOpmode("NULL_MODE", opmode_events)
  /\ UNCHANGED <<idleVars, task_queue, sys_timer_sw, socket, unread,
                 sys_deep_sleep_params, history>>

(* EVENT_STAMODE_DHCP_TIMEOUT                                              *)
DhcpTimeout ==
  /\ Running
  /\ link = "JOINING"
  /\ Fault("join")
  /\ LeaveNetwork(Transition("SEND_DATA", "ERROR"))
  /\ UNCHANGED <<idleVars, task_queue, sys_timer_sw, socket, unread,
                 sys_deep_sleep_params, history>>

(* EVENT_STAMODE_GOT_IP: measure (module Threshold has the decision); look *)
(* the gateway up, or sleep.                                               *)
SleepWithoutDuration ==
  [sleep_type |-> IF SYS_DEEP_SLEEP_TIMES = 1 THEN "SAME_AS_PWRUP" ELSE "NO_RADIO",
   sleep_duration |-> "ZERO"]
SleepAfterMeasurement ==
  [sleep_type |-> IF SYS_DEEP_SLEEP_TIMES = 1 THEN "SAME_AS_PWRUP" ELSE "NO_RADIO",
   sleep_duration |-> "TWO_HOURS"]

GotIpNotify ==
  /\ \/ /\ socket' = "RESOLVING"
        /\ link' = "UP"
        /\ sys_state' = Transition("PRE_SEND_DATA", "SEND_DATA")
        /\ UNCHANGED <<opmode, opmode_events>>
     \/ /\ Fault("dns")
        /\ LeaveNetwork(Transition("SEND_DATA", "ERROR"))
        /\ UNCHANGED socket
  /\ UNCHANGED sys_deep_sleep_params

GotIpSleep ==
  /\ sys_deep_sleep_params' = SleepAfterMeasurement
  /\ LeaveNetwork(Transition("SEND_DATA", "DEEP_SLEEP"))
  /\ UNCHANGED socket

GotIp ==
  /\ Running
  /\ link = "JOINING"
  /\ GotIpNotify \/ GotIpSleep
  /\ UNCHANGED <<idleVars, task_queue, sys_timer_sw, unread, history>>
===============================================================================

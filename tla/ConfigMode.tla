------------------------------ MODULE ConfigMode ------------------------------
(***************************************************************************)
(* Saving a configuration from the web interface (web_interface.c): clear  *)
(* the RTC counter, checksum, erase and write the sector, then restart 4 s *)
(* later on the timer that the rest of the firmware uses as well.          *)
(***************************************************************************)
EXTENDS System

(* A request can reach the web server.                                     *)
Served ==
  /\ Running
  /\ httpd
  /\ radio
  /\ opmode = "STATIONAP_MODE"

saveIdle == <<power, chip, deep_sleep, task_queue, wifi, socket, unread,
              sys_state, sys_deep_sleep_params, form_buffer, httpd, leds,
              cooldown, notified, accepted>>

(* A sector that was erased but not written to the end.  Its 8-bit checksum *)
(* does not match, or by chance does ("COLLIDING").                        *)
DamagedSector ==
  {"INVALID"} \cup {sector \in {"COLLIDING"} : Fault("hash")}

(* The configuration in RAM is overwritten first, whatever becomes of it.  *)
SaveFailsInRtc ==
  /\ Served
  /\ Fault("rtc")
  /\ config_current' = "EDITED"
  /\ UNCHANGED <<saveIdle, rtc_sleep_count, flash, naps, sys_timer_sw>>

(* Erase or write fails: the counter is cleared already, and the sector is *)
(* as it was or damaged.  A restart armed by an earlier save stays armed.  *)
SaveFailsInFlash ==
  /\ Served
  /\ Fault("flash_write")
  /\ config_current' = "EDITED"
  /\ rtc_sleep_count' = 0
  /\ naps' = 0
  /\ flash' \in {flash} \cup DamagedSector
  /\ UNCHANGED <<saveIdle, sys_timer_sw>>

SaveConfig ==
  /\ Served
  /\ config_current' = "EDITED"
  /\ rtc_sleep_count' = 0
  /\ naps' = 0
  /\ flash' = "SAVED"
  /\ sys_timer_sw' = "RESTART"
  /\ UNCHANGED saveIdle

(* A reset or a power cut between the erasure and the end of the write.    *)
SaveInterrupted ==
  /\ Served
  /\ flash' \in DamagedSector
  /\ naps' = 0
  /\ \/ /\ Fault("reset")
        /\ Reboot("FAULT_RST", TRUE)
        /\ rtc_sleep_count' = 0
        /\ UNCHANGED cooldown
     \/ /\ Fault("power")
        /\ Reboot("DEFAULT_RST", TRUE)
        /\ rtc_sleep_count' \in PowerUpCounts
        /\ cooldown' = 0

RestartTimeoutSwapped ==
  /\ Running
  /\ sys_timer_sw = "RESTART"
  /\ sys_timer_sw' = "OFF"
  /\ sys_state' = Transition("RESET_AFTER_CONFIG_SAVE", "CONFIG")
  /\ SetOpmode("NULL_MODE", opmode_events)
  /\ UNCHANGED <<idleVars, link, task_queue, socket, unread,
                 sys_deep_sleep_params, history>>

(* web_interface_cb_timeout_restart()                                      *)
RestartTimeout ==
  /\ Running
  /\ sys_timer_sw = "RESTART"
  /\ sys_timer_sw' = "OFF"
  /\ sys_state' = Transition("CONFIG", "RESET_AFTER_CONFIG_SAVE")
  /\ SetOpmode("NULL_MODE", opmode_events)
  /\ UNCHANGED <<idleVars, link, task_queue, socket, unread,
                 sys_deep_sleep_params, history>>
===============================================================================

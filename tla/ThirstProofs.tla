----------------------------- MODULE ThirstProofs -----------------------------
(***************************************************************************)
(* The firmware keeps FirmwareInv, for every set of faults, every cycle    *)
(* length and every number of undelivered mode events.                     *)
(*                                                                         *)
(* The invariant goes boot by boot through the stages of module Thirst:    *)
(* the last transition of the state machine tells which signal can be      *)
(* queued, which timer armed, and how far the WiFi and the socket have got. *)
(* TypeStep, StageStep, BuffersStep, ConfigStep and SleepStep preserve one *)
(* part of it each, relying on the others; the safety properties follow.   *)
(***************************************************************************)
EXTENDS Thirst, TLAPS

(* A transition keeps its two states.                                      *)
LEMMA TransitionFields ==
  \A current, next : /\ Transition(current, next).state_current = current
                     /\ Transition(current, next).state_next = next
BY DEF Transition

(* The queue holds one signal: posting to an empty queue enters the signal, *)
(* posting to another loses it, and taking a signal off empties the queue. *)
LEMMA QueueFacts ==
  /\ \A s : /\ <<s>> # <<>> /\ Head(<<s>>) = s /\ Tail(<<s>>) = <<>>
            /\ Posted(<<>>, s) = <<s>>
  /\ \A s, t : Posted(<<s>>, t) = <<s>>
BY DEF Posted, SYS_TASK_QUEUE_MAIN_LEN

Queues == {queue \in Seq(Signals) : Len(queue) <= SYS_TASK_QUEUE_MAIN_LEN}
Transitions == [state_current : States, state_next : States]

(* Posting and taking keep a queue of signals within its length.           *)
LEMMA QueueType ==
  /\ <<>> \in Queues
  /\ \A queue \in Queues, signal \in Signals : Posted(queue, signal) \in Queues
  /\ \A queue \in Queues : queue # <<>> => Tail(queue) \in Queues
BY DEF Queues, Posted, SYS_TASK_QUEUE_MAIN_LEN

(* A transition between two states is one.                                 *)
LEMMA TransitionType ==
  \A current, next \in States : Transition(current, next) \in Transitions
BY DEF Transition, Transitions

(* A change of the operating mode keeps the types.                         *)
LEMMA SetOpmodeType ==
  ASSUME NEW mode \in OpModes, NEW pending \in 0..MaxOpmodeEvents, SetOpmode(mode, pending)
  PROVE  opmode' \in OpModes /\ opmode_events' \in 0..MaxOpmodeEvents
BY EventsAssumption DEF SetOpmode, OneMore

(* So does leaving the network,                                            *)
LEMMA LeaveType ==
  ASSUME SystemTypeOK, NEW left \in Transitions, LeaveNetwork(left)
  PROVE  /\ opmode' \in OpModes /\ opmode_events' \in 0..MaxOpmodeEvents
         /\ link' \in LinkStates /\ sys_state' \in Transitions
<1> USE DEF SystemTypeOK, PlatformTypeOK
<1>1. CASE StationDisconnect /\ sys_state' = left
  BY <1>1 DEF StationDisconnect, LinkStates
<1>2. CASE /\ StationDisconnectFails
     /\ sys_state' = Transition("SEND_DATA", "ERROR")
     /\ SetOpmode("NULL_MODE", opmode_events)
     /\ StationOff
   <2>1. sys_state' \in Transitions BY <1>2, TransitionType DEF States
   <2>2. link' \in LinkStates BY <1>2 DEF StationOff, LinkStates
   <2>3. opmode' \in OpModes /\ opmode_events' \in 0..MaxOpmodeEvents
     BY <1>2, SetOpmodeType DEF OpModes
   <2> QED BY <2>1, <2>2, <2>3
<1> QED BY <1>1, <1>2 DEF LeaveNetwork

(* closing the socket to the gateway,                                      *)
LEMMA CloseType ==
  ASSUME SystemTypeOK, NEW left \in Transitions, CloseSocket(left)
  PROVE  /\ opmode' \in OpModes /\ opmode_events' \in 0..MaxOpmodeEvents
         /\ link' \in LinkStates /\ sys_state' \in Transitions
         /\ socket' \in SocketStates
<1>1. CASE socket \in {"CONNECTING", "OPEN"}
  BY <1>1 DEF CloseSocket, SystemTypeOK, PlatformTypeOK, SocketStates, wifi
<1>2. CASE socket \notin {"CONNECTING", "OPEN"}
  BY <1>2, LeaveType DEF CloseSocket, SystemTypeOK, PlatformTypeOK
<1> QED BY <1>1, <1>2

(* (The type invariant, conjunct by conjunct.)                             *)
LEMMA TypeMeaning ==
  SystemTypeOK <=>
  /\ power \in PowerStates
  /\ reset_reason \in ResetReasons
  /\ radio \in BOOLEAN
  /\ rtc_sleep_count \in Nat
  /\ deep_sleep \in SleepParams
  /\ task_queue \in Queues
  /\ sys_timer_sw \in TimerStates
  /\ opmode \in OpModes
  /\ opmode_events \in 0..MaxOpmodeEvents
  /\ link \in LinkStates
  /\ socket \in SocketStates
  /\ unread \in 0..1
  /\ sys_state \in Transitions
  /\ sys_deep_sleep_params \in SleepParams
  /\ config_current \in ConfigStates
  /\ form_buffer \in BOOLEAN
  /\ flash \in SectorStates
  /\ httpd \in BOOLEAN
  /\ led \in BOOLEAN
  /\ sys_state_error_led \in BOOLEAN
  /\ naps \in Nat
  /\ cooldown \in 0..SYS_DEEP_SLEEP_TIMES
  /\ notified \in BOOLEAN
  /\ accepted \in BOOLEAN
BY DEF SystemTypeOK, PlatformTypeOK, Queues, Transitions

(* a reboot,                                                               *)
LEMMA RebootType ==
  ASSUME SystemTypeOK, NEW why \in ResetReasons, NEW rf \in BOOLEAN, Reboot(why, rf),
         rtc_sleep_count' \in Nat, flash' \in SectorStates,
         naps' \in Nat, cooldown' \in 0..SYS_DEEP_SLEEP_TIMES
  PROVE  SystemTypeOK'
<1>1. sys_state' \in Transitions
  BY TransitionType DEF Reboot, RamCleared, States
<1>2. task_queue' \in Queues
  BY QueueType DEF Reboot, RamCleared
<1>3. sys_deep_sleep_params' \in SleepParams
  BY DEF Reboot, RamCleared, SleepParams, NoParams, SleepTypes, Durations
<1>4. opmode_events' \in 0..MaxOpmodeEvents /\ unread' \in 0..1
  BY EventsAssumption DEF Reboot, RamCleared
<1> QED
  BY <1>1, <1>2, <1>3, <1>4 DEF SystemTypeOK, PlatformTypeOK, Reboot, RamCleared,
     Transitions, Queues, PowerStates, TimerStates, OpModes, LinkStates,
     SocketStates, ConfigStates

(* and every step.                                                         *)
LEMMA TypeStep == SystemTypeOK /\ [Next]_vars => SystemTypeOK'
<1> SUFFICES ASSUME SystemTypeOK, [Next]_vars PROVE SystemTypeOK'
  OBVIOUS
<1>0. /\ 0 \in 0..SYS_DEEP_SLEEP_TIMES /\ SYS_DEEP_SLEEP_TIMES \in 0..SYS_DEEP_SLEEP_TIMES
      /\ 0 \in 0..1 /\ 1 \in 0..1
      /\ ToDone \in Transitions /\ ToError \in Transitions
      /\ SleepAfterMeasurement \in SleepParams
  BY TimesAssumption, TransitionType DEF ToDone, ToError, States, SleepAfterMeasurement,
     SleepParams, SleepTypes, Durations
<1>1. CASE Reset
  BY <1>1, RebootType DEF Reset, ResetReasons, SystemTypeOK, PlatformTypeOK
<1>2. CASE PowerCycle
  BY <1>0, <1>2, RebootType, PowerUpAssumption DEF PowerCycle, ResetReasons, SystemTypeOK
<1>3. CASE Restart
  BY <1>3, RebootType DEF Restart, ResetReasons, SystemTypeOK, PlatformTypeOK
<1>4. CASE EnterSleep
  <2>1. sys_state' \in Transitions
    BY <1>4, TransitionType DEF EnterSleep, RamCleared, States
  <2>2. task_queue' \in Queues
    BY <1>4, QueueType DEF EnterSleep, RamCleared
  <2>3. sys_deep_sleep_params' \in SleepParams
    BY <1>4 DEF EnterSleep, RamCleared, SleepParams, NoParams, SleepTypes, Durations
  <2>4. opmode_events' \in 0..MaxOpmodeEvents /\ unread' \in 0..1
    BY <1>4, EventsAssumption DEF EnterSleep, RamCleared
  <2> QED
    BY <1>4, <2>1, <2>2, <2>3, <2>4 DEF SystemTypeOK, PlatformTypeOK, EnterSleep,
       RamCleared, Transitions, Queues, PowerStates, TimerStates, OpModes,
       LinkStates, SocketStates, ConfigStates, chip, history
<1>5. CASE Wake
  <2>1. Reboot("DEEP_SLEEP_AWAKE", deep_sleep.sleep_type # "NO_RADIO")
    BY <1>5 DEF Wake
  <2>2. (deep_sleep.sleep_type # "NO_RADIO") \in BOOLEAN
    OBVIOUS
  <2> QED
    BY <1>5, <2>1, <2>2, RebootType DEF Wake, ResetReasons, SystemTypeOK, PlatformTypeOK
<1>6. CASE InitDone
  <2>1. sys_state' \in Transitions
    BY <1>6, TransitionType DEF InitDone, InitFails, States, SystemTypeOK, Transitions
  <2>2. opmode' \in OpModes /\ opmode_events' \in 0..MaxOpmodeEvents
    BY <1>6, SetOpmodeType DEF InitDone, InitFails, OpModes, SystemTypeOK, PlatformTypeOK
  <2> QED
    BY <1>6, <2>1, <2>2 DEF InitDone, SystemTypeOK, PlatformTypeOK, chip, buffers,
       history, PowerStates, leds, Transitions
<1>7. ASSUME NEW mode, ModeEvent(mode) PROVE opmode_events - 1 \in 0..MaxOpmodeEvents
  BY <1>7, EventsAssumption DEF ModeEvent, SystemTypeOK, PlatformTypeOK
<1>8. CASE NullModeInitOk
  <2>1. sys_state' \in Transitions
    BY <1>8, TransitionType DEF NullModeInitOk, InitOkDecides, States
  <2>2. config_current' \in ConfigStates
    BY <1>8 DEF NullModeInitOk, InitOkDecides, ConfigRead, ConfigStates
  <2>3. task_queue' \in Queues
    BY <1>8, QueueType, TypeMeaning DEF NullModeInitOk, InitOkDecides, Signals
  <2>4. opmode_events' \in 0..MaxOpmodeEvents
    BY <1>7, <1>8 DEF NullModeInitOk
  <2> QED
    BY <1>8, <2>1, <2>2, <2>3, <2>4 DEF NullModeInitOk, SystemTypeOK, PlatformTypeOK,
       chip, modeIdle, history, leds, Transitions, Queues
<1>9. CASE NullModeInitOkNoMemory
  BY <1>9, RebootType DEF NullModeInitOkNoMemory, ResetReasons, SystemTypeOK, PlatformTypeOK
<1>10. CASE NullModeInitTaskFailed
  BY <1>7, <1>10 DEF NullModeInitTaskFailed, SystemTypeOK, PlatformTypeOK, chip, modeIdle,
     buffers, history, leds, TimerStates
<1>11. CASE NullModePost
  <2>1. task_queue' \in Queues
    <3>1. NullModeSignals(sys_state) \subseteq Signals
      BY DEF NullModeSignals, Signals
    <3> QED
      BY <1>11, <3>1, QueueType, TypeMeaning DEF NullModePost
  <2> QED
    BY <1>7, <1>11, <2>1 DEF NullModePost, SystemTypeOK, PlatformTypeOK, chip, modeIdle,
       buffers, history, leds, Queues
<1>12. CASE StationMode
  <2>1. sys_state' \in Transitions
    BY <1>12, TransitionType DEF StationMode, States, SystemTypeOK, Transitions
  <2>2. opmode' \in OpModes /\ opmode_events' \in 0..MaxOpmodeEvents
    BY <1>7, <1>12, SetOpmodeType DEF StationMode, OpModes, SystemTypeOK, PlatformTypeOK
  <2>3. link' \in LinkStates
    BY <1>12 DEF StationMode, LinkStates, SystemTypeOK, PlatformTypeOK
  <2> QED
    BY <1>12, <2>1, <2>2, <2>3 DEF StationMode, SystemTypeOK, PlatformTypeOK, chip,
       modeIdle, buffers, history, leds, Transitions
<1>13. CASE StationApMode
  BY <1>7, <1>13 DEF StationApMode, SystemTypeOK, PlatformTypeOK, chip, modeIdle,
     buffers, history, leds
<1>14. ASSUME NEW signals, Task(signals) PROVE Tail(task_queue) \in Queues
  BY <1>14, QueueType, TypeMeaning DEF Task
<1>15. CASE TaskConfigMode
  <2>1. opmode' \in OpModes /\ opmode_events' \in 0..MaxOpmodeEvents
    BY <1>15, SetOpmodeType DEF TaskConfigMode, OpModes, SystemTypeOK, PlatformTypeOK
  <2> QED
    BY <1>14, <1>15, <2>1 DEF TaskConfigMode, SystemTypeOK, PlatformTypeOK, chip,
       buffers, history, Queues
<1>16. CASE TaskStateError
  BY <1>14, <1>16 DEF TaskStateError, SystemTypeOK, PlatformTypeOK, idleVars, chip,
     wifi, buffers, history, leds, Queues, TimerStates
<1>17. CASE TaskDeepSleep
  BY <1>14, <1>17 DEF TaskDeepSleep, SystemTypeOK, PlatformTypeOK, chip,
     wifi, buffers, leds, Queues, PowerStates
<1>18. CASE TaskReset
  BY <1>14, <1>18 DEF TaskReset, SystemTypeOK, PlatformTypeOK, chip,
     wifi, buffers, leds, history, Queues, PowerStates
<1>19. CASE TaskCycleFails
  <2>1. sys_state' \in Transitions
    BY <1>19, TransitionType DEF TaskCycleFails, States
  <2>2. task_queue' \in Queues
    BY <1>14, <1>19, QueueType DEF TaskCycleFails, Signals
  <2> QED
    BY <1>19, <2>1, <2>2 DEF TaskCycleFails, SystemTypeOK, PlatformTypeOK, idleVars,
       chip, wifi, buffers, leds, history, Queues, Transitions
<1>20. CountedSleeps \in Nat /\ Paid(cooldown) \in 0..SYS_DEEP_SLEEP_TIMES
  BY TimesAssumption DEF CountedSleeps, Paid, SystemTypeOK, PlatformTypeOK
<1>21. CASE TaskCycleNap
  <2>1. sys_state' \in Transitions
    BY <1>21, TransitionType DEF TaskCycleNap, States
  <2>2. task_queue' \in Queues
    BY <1>14, <1>21, QueueType DEF TaskCycleNap, Signals
  <2>3. sys_deep_sleep_params' \in SleepParams
    BY <1>21 DEF TaskCycleNap, SleepParams, SleepTypeAfterNap, SleepTypes, Durations
  <2> QED
    BY <1>20, <1>21, <2>1, <2>2, <2>3 DEF TaskCycleNap, SystemTypeOK, PlatformTypeOK,
       chip, wifi, buffers, leds, Transitions, Queues
<1>22. CASE TaskCycleMeasure
  <2>1. sys_state' \in Transitions
    BY <1>22, TransitionType DEF TaskCycleMeasure, States
  <2>2. opmode' \in OpModes /\ opmode_events' \in 0..MaxOpmodeEvents
    BY <1>22, SetOpmodeType DEF TaskCycleMeasure, OpModes, SystemTypeOK, PlatformTypeOK
  <2> QED
    BY <1>14, <1>20, <1>22, <2>1, <2>2 DEF TaskCycleMeasure, SystemTypeOK,
       PlatformTypeOK, chip, buffers, leds, Transitions, Queues
<1>23. CASE ToggleErrorLed
  BY <1>23 DEF ToggleErrorLed, SystemTypeOK, PlatformTypeOK, chip, wifi, buffers, history
<1>24. CASE Disconnected
  <2>1. sys_state' \in Transitions
    BY <1>24, TransitionType DEF Disconnected, States, SystemTypeOK, Transitions
  <2>2. opmode' \in OpModes /\ opmode_events' \in 0..MaxOpmodeEvents
    BY <1>24, SetOpmodeType DEF Disconnected, OpModes, SystemTypeOK, PlatformTypeOK
  <2> QED
    BY <1>24, <2>1, <2>2 DEF Disconnected, SystemTypeOK, PlatformTypeOK, idleVars, chip,
       buffers, leds, history, Transitions, LinkStates
<1>25. CASE DhcpTimeout
  BY <1>0, <1>25, LeaveType DEF DhcpTimeout, ToError, SystemTypeOK, PlatformTypeOK,
     idleVars, chip, buffers, leds, history, Transitions
<1>26. CASE GotIp
  <2>1. CASE GotIpNotify
    <3>1. /\ sys_state' \in Transitions /\ link' \in LinkStates
          /\ opmode' \in OpModes /\ opmode_events' \in 0..MaxOpmodeEvents
      BY <1>0, <2>1, LeaveType, TransitionType DEF GotIpNotify, ToError, LinkStates,
         States, SystemTypeOK, PlatformTypeOK
    <3>2. socket' \in SocketStates
      BY <2>1 DEF GotIpNotify, SocketStates, SystemTypeOK, PlatformTypeOK
    <3> QED
      BY <1>26, <2>1, <3>1, <3>2 DEF GotIp, GotIpNotify, SystemTypeOK, PlatformTypeOK,
         idleVars, chip, buffers, leds, history, Transitions
  <2>2. CASE GotIpSleep
    <3>1. Transition("SEND_DATA", "DEEP_SLEEP") \in Transitions
      BY TransitionType DEF States
    <3> QED
      BY <1>0, <1>26, <2>2, <3>1, LeaveType DEF GotIp, GotIpSleep, SystemTypeOK,
         PlatformTypeOK, idleVars, chip, buffers, leds, history, Transitions
  <2> QED
    BY <1>26, <2>1, <2>2 DEF GotIp
<1>27. CASE DnsResolved
  <2>1. /\ sys_state' \in Transitions /\ link' \in LinkStates
        /\ opmode' \in OpModes /\ opmode_events' \in 0..MaxOpmodeEvents
    BY <1>0, <1>27, LeaveType DEF DnsResolved, wifi, SystemTypeOK, PlatformTypeOK, Transitions
  <2> QED
    BY <1>27, <2>1 DEF DnsResolved, SocketStates, SystemTypeOK, PlatformTypeOK,
       gatewayIdle, idleVars, chip, buffers, leds, history, Transitions
<1>28. CASE DnsFailed
  BY <1>0, <1>28, LeaveType DEF DnsFailed, SocketStates, SystemTypeOK, PlatformTypeOK,
     gatewayIdle, idleVars, chip, buffers, leds, history, Transitions
<1>29. CASE SocketConnected
  <2>1. /\ sys_state' \in Transitions /\ link' \in LinkStates /\ socket' \in SocketStates
        /\ opmode' \in OpModes /\ opmode_events' \in 0..MaxOpmodeEvents
    BY <1>0, <1>29, CloseType DEF SocketConnected, wifi, SystemTypeOK, PlatformTypeOK,
       Transitions, SocketStates
  <2> QED
    BY <1>0, <1>29, <2>1 DEF SocketConnected, TimerStates, SystemTypeOK, PlatformTypeOK,
       gatewayIdle, idleVars, chip, buffers, leds, Transitions
<1>30. CASE SocketConnectedNoMemory
  BY <1>30, RebootType DEF SocketConnectedNoMemory, ResetReasons, SystemTypeOK, PlatformTypeOK
<1>31. ASSUME NEW ok \in BOOLEAN, Receive(ok), unread' \in 0..1
       PROVE  SystemTypeOK'
  <2>1. /\ sys_state' \in Transitions /\ link' \in LinkStates /\ socket' \in SocketStates
        /\ opmode' \in OpModes /\ opmode_events' \in 0..MaxOpmodeEvents
    BY <1>0, <1>31, CloseType DEF Receive
  <2> QED
    BY <1>0, <1>31, <2>1 DEF Receive, TimerStates, SystemTypeOK, PlatformTypeOK,
       gatewayIdle, idleVars, chip, buffers, leds, Transitions
<1>32. CASE ReceiveFirst
  BY <1>0, <1>31, <1>32 DEF ReceiveFirst
<1>33. CASE ReceiveRest
  BY <1>0, <1>31, <1>33 DEF ReceiveRest
<1>34. CASE ReceiveTimeout
  BY <1>0, <1>34, CloseType DEF ReceiveTimeout, TimerStates, SystemTypeOK, PlatformTypeOK,
     gatewayIdle, idleVars, chip, buffers, leds, history, Transitions
<1>35. CASE SocketDisconnected
  <2>1. sys_state \in Transitions
    BY DEF SystemTypeOK, Transitions
  <2> QED
    BY <1>35, <2>1, LeaveType DEF SocketDisconnected, SocketStates, SystemTypeOK, PlatformTypeOK,
       gatewayIdle, idleVars, chip, buffers, leds, history, Transitions
<1>36. CASE SocketError
  BY <1>36 DEF SocketError, SocketStates, SystemTypeOK, PlatformTypeOK,
     gatewayIdle, idleVars, chip, wifi, buffers, leds, history
<1>37. DamagedSector \subseteq SectorStates
  BY DEF DamagedSector, SectorStates
<1>38. CASE SaveFailsInRtc
  BY <1>38 DEF SaveFailsInRtc, saveIdle, ConfigStates, SystemTypeOK, PlatformTypeOK,
     chip, wifi, leds
<1>39. CASE SaveFailsInFlash
  BY <1>37, <1>39 DEF SaveFailsInFlash, saveIdle, ConfigStates, SystemTypeOK, PlatformTypeOK,
     chip, wifi, leds
<1>40. CASE SaveConfig
  BY <1>40 DEF SaveConfig, saveIdle, ConfigStates, SectorStates, TimerStates, SystemTypeOK,
     PlatformTypeOK, chip, wifi, leds
<1>41. CASE SaveInterrupted
  <2>1. flash' \in SectorStates /\ naps' \in Nat
    BY <1>37, <1>41 DEF SaveInterrupted
  <2>2. CASE /\ Reboot("FAULT_RST", TRUE)
             /\ rtc_sleep_count' = 0 /\ cooldown' = cooldown
    BY <2>1, <2>2, RebootType DEF ResetReasons, SystemTypeOK
  <2>3. CASE /\ Reboot("DEFAULT_RST", TRUE)
             /\ rtc_sleep_count' \in PowerUpCounts /\ cooldown' = 0
    BY <1>0, <2>1, <2>3, RebootType, PowerUpAssumption DEF ResetReasons
  <2> QED
    BY <1>41, <2>2, <2>3 DEF SaveInterrupted
<1>42. CASE RestartTimeout
  <2>1. sys_state' \in Transitions
    BY <1>42, TransitionType DEF RestartTimeout, States
  <2>2. opmode' \in OpModes /\ opmode_events' \in 0..MaxOpmodeEvents
    BY <1>42, SetOpmodeType DEF RestartTimeout, OpModes, SystemTypeOK, PlatformTypeOK
  <2> QED
    BY <1>42, <2>1, <2>2 DEF RestartTimeout, TimerStates, SystemTypeOK, PlatformTypeOK,
       idleVars, chip, buffers, leds, history, Transitions
<1>43. CASE UNCHANGED vars
  BY <1>43 DEF vars, SystemTypeOK, PlatformTypeOK
<1> QED
  BY <1>1, <1>2, <1>3, <1>4, <1>5, <1>6, <1>8, <1>9, <1>10, <1>11, <1>12, <1>13, <1>15,
     <1>16, <1>17, <1>18, <1>19, <1>21, <1>22, <1>23, <1>24, <1>25, <1>26, <1>27, <1>28,
     <1>29, <1>30, <1>32, <1>33, <1>34, <1>35, <1>36, <1>38, <1>39, <1>40, <1>41, <1>42,
     <1>43 DEF Next, Chip, Events, OpmodeChanged, MainTask

(* Leaving the network keeps a linked station until the link is down, or   *)
(* fails and switches the station off.                                     *)
LEMMA LeaveLinked ==
  ASSUME NEW left, LeaveNetwork(left), opmode = "STATION_MODE", opmode_events = 0,
         link \in {"JOINING", "UP", "LEAVING"}
  PROVE  \/ Linked' /\ sys_state' = left
         \/ /\ opmode' = "NULL_MODE" /\ link' \in {"DOWN", "LEAVING"}
            /\ At("SEND_DATA", "ERROR")'
BY DEF Linked, LeaveNetwork, StationDisconnect, StationDisconnectFails, StationOff, SetOpmode, At

(* With the WiFi off nothing changes but the transition.                   *)
LEMMA LeaveUnlinked ==
  ASSUME NEW left, LeaveNetwork(left), opmode = "NULL_MODE", link \in {"DOWN", "LEAVING"}
  PROVE  /\ opmode' = "NULL_MODE" /\ link' = link
         /\ sys_state' = left \/ At("SEND_DATA", "ERROR")'
BY DEF LeaveNetwork, StationDisconnect, StationDisconnectFails, StationOff, SetOpmode, At

-------------------------------------------------------------------------------
(* Which stage a handler finds: the transition, the signal, the link or the *)
(* socket it looks at leaves one.  The handler of INIT_OK runs once.       *)
LEMMA InitOkStage ==
  ASSUME Staged, sys_state = Transition("INIT", "INIT_OK")
  PROVE  Initialised
BY TransitionFields DEF Staged, Cleared, Failed, Configuring, Configured, CycleAhead,
   Napping, Joining, Sending, SleepAhead, Done, SendFailed, At

(* The access point is up in configuration mode only.                      *)
LEMMA ServedStage ==
  ASSUME Staged, opmode = "STATIONAP_MODE"
  PROVE  Configuring
BY DEF Staged, Cleared, Initialised, Failed, Configured, CycleAhead, Napping, Joining,
   Sending, SleepAhead, Done, SendFailed, Linked, Unlinked

(* The decision of the sleep cycle is taken from CycleAhead, and its signal *)
(* is the only one.                                                        *)
LEMMA CycleStage ==
  ASSUME Staged, Task({"DEEP_SLEEP_CYCLE"})
  PROVE  CycleAhead /\ Tail(task_queue) = <<>> /\ sys_timer_sw = "OFF"
BY QueueFacts DEF Task, Staged, Cleared, Initialised, Failed, Configuring, Configured,
   CycleAhead, Napping, Joining, Sending, SleepAhead, Done, SendFailed, AtMostError

(* Deep sleep is entered from the four ends of a boot.                     *)
LEMMA SleepStage ==
  ASSUME Staged, TaskDeepSleep
  PROVE  /\ task_queue \in {<<"DEEP_SLEEP">>, <<"SEND_DATA_DONE">>}
         /\ \/ Napping \/ SleepAhead \/ Done
            \/ SendFailed /\ accepted
BY QueueFacts DEF TaskDeepSleep, Task, Staged, Cleared, Initialised, Failed, Configuring,
   Configured, CycleAhead, Napping, Joining, Sending, SleepAhead, Done, SendFailed,
   AtMostError

(* A station joins a network before anything is sent.                      *)
LEMMA JoiningStage ==
  ASSUME Staged, link = "JOINING"
  PROVE  Joining
BY DEF Staged, Cleared, Initialised, Failed, Configuring, Configured, CycleAhead,
   Napping, Sending, SleepAhead, Done, SendFailed, Offline, Linked, Unlinked

(* A socket that has not been closed belongs to a boot that is sending.    *)
LEMMA SocketStage ==
  ASSUME Staged, socket \in {"RESOLVING", "CONNECTING", "OPEN"}
  PROVE  Sending
BY DEF Staged, Cleared, Initialised, Failed, Configuring, Configured, CycleAhead,
   Napping, Joining, SleepAhead, Done, SendFailed, Offline, Unsent

(* The rest of an answer is read after the first part was judged, with the *)
(* station still linked.                                                   *)
LEMMA RestStage ==
  ASSUME Staged, unread = 1
  PROVE  /\ Done \/ SendFailed
         /\ Linked /\ power = "ON" /\ task_queue = <<>>
BY DEF Staged, Cleared, Initialised, Failed, Configuring, Configured, CycleAhead,
   Napping, Joining, Sending, SleepAhead, Done, SendFailed, Offline, Unsent

(* Every step leads from a stage to a stage.                               *)
LEMMA StageStep ==
  SystemTypeOK /\ Staged /\ [Next]_vars => Staged'
<1> SUFFICES ASSUME SystemTypeOK, Staged, [Next]_vars PROVE Staged'
  OBVIOUS
<1>1. ASSUME NEW why, NEW rf, Reboot(why, rf) PROVE Staged'
  <2>1. Cleared'
    BY <1>1 DEF Reboot, RamCleared, Cleared, At
  <2> QED
    BY <2>1 DEF Staged
<1>2. CASE Reset \/ PowerCycle \/ Restart \/ Wake
  BY <1>1, <1>2 DEF Reset, PowerCycle, Restart, Wake
<1>3. CASE EnterSleep
  <2>1. Cleared'
    BY <1>3 DEF EnterSleep, RamCleared, Cleared, At
  <2> QED
    BY <2>1 DEF Staged
<1>4. CASE InitDone
  <2>1. Cleared /\ power = "BOOTING"
    BY <1>4 DEF InitDone, Staged, Initialised, Failed, Configuring, Configured,
       CycleAhead, Napping, Joining, Sending, SleepAhead, Done, SendFailed
  <2>2. /\ power' = "ON" /\ task_queue' = <<>> /\ sys_timer_sw' = "OFF" /\ ~httpd'
        /\ Offline'
    BY <1>4, <2>1 DEF InitDone, Cleared, Offline, Unsent, history
  <2>3. CASE InitFails("ERROR_INIT_MAIN_TASK") \/ InitFails("ERROR")
    <3>1. CASE PERIPH_ENABLE_DEBUG
      <4>1. /\ opmode' = "NULL_MODE"
            /\ At("INIT", "ERROR")' \/ At("INIT", "ERROR_INIT_MAIN_TASK")'
        BY <2>3, <3>1 DEF InitFails, SetOpmode, At
      <4>2. Failed'
        BY <2>2, <4>1 DEF Failed, AtMostError
      <4> QED
        BY <4>2 DEF Staged
    <3>2. CASE ~PERIPH_ENABLE_DEBUG
      <4>1. UNCHANGED <<sys_state, opmode, opmode_events>>
        BY <2>3, <3>2 DEF InitFails
      <4>2. Cleared'
        BY <2>1, <2>2, <4>1 DEF Cleared, At, Offline, Unsent
      <4> QED
        BY <4>2 DEF Staged
    <3> QED
      BY <3>1, <3>2
  <2>4. CASE /\ sys_state' = Transition("INIT", "INIT_OK")
             /\ SetOpmode("NULL_MODE", opmode_events)
    <3>1. Initialised'
      BY <2>1, <2>2, <2>4 DEF SetOpmode, OneMore, Cleared, Initialised, At
    <3> QED
      BY <3>1 DEF Staged
  <2> QED
    BY <1>4, <2>3, <2>4 DEF InitDone
<1>5. CASE NullModeInitOk
  <2>1. Initialised
    BY <1>5, InitOkStage DEF NullModeInitOk
  <2>2. /\ power' = "ON" /\ opmode' = "NULL_MODE" /\ sys_timer_sw' = "OFF"
        /\ opmode_events' = 0 /\ Offline'
    BY <1>5, <2>1 DEF NullModeInitOk, ModeEvent, Initialised, Offline, Unsent, modeIdle,
       history, SystemTypeOK, PlatformTypeOK
  <2>3. ASSUME NEW queue \in {<<>>, <<"STATE_ERROR">>}, InitOkDecides(queue),
               queue = <<>> => form_buffer' = TRUE
        PROVE  Staged'
    <3>1. CASE /\ sys_state' = Transition("INIT_OK", "ERROR")
               /\ task_queue' = Posted(queue, "STATE_ERROR")
      <4>1. Failed'
        BY <2>2, <2>3, <3>1, QueueFacts DEF Failed, At, AtMostError
      <4> QED
        BY <4>1 DEF Staged
    <3>2. CASE /\ ConfigRead
               /\ sys_state' = Transition("INIT_OK", "CONFIG")
               /\ task_queue' = Posted(queue, "CONFIG_MODE")
      <4>1. config_current' # "NULL"
        BY <3>2 DEF ConfigRead
      <4>2. Configuring'
        BY <2>2, <2>3, <3>2, <4>1, QueueFacts DEF Configuring, At, AtMostError
      <4> QED
        BY <4>2 DEF Staged
    <3>3. CASE /\ ConfigRead
               /\ config_current' # "DEFAULT"
               /\ sys_state' = Transition("INIT_OK", "DEEP_SLEEP_CYCLE")
               /\ task_queue' = Posted(queue, "DEEP_SLEEP_CYCLE")
      <4>1. config_current' \in {"SAVED", "DAMAGED"}
        BY <3>3 DEF ConfigRead
      <4>2. CycleAhead'
        BY <2>2, <2>3, <3>3, <4>1, QueueFacts DEF CycleAhead, At, AtMostError
      <4> QED
        BY <4>2 DEF Staged
    <3> QED
      BY <2>3, <3>1, <3>2, <3>3 DEF InitOkDecides
  <2>4. task_queue = <<>> /\ Posted(task_queue, "STATE_ERROR") = <<"STATE_ERROR">>
    BY <2>1, QueueFacts DEF Initialised
  <2>5. CASE form_buffer' = TRUE /\ InitOkDecides(task_queue)
    BY <2>3, <2>4, <2>5
  <2>6. CASE InitOkDecides(Posted(task_queue, "STATE_ERROR"))
    BY <2>3, <2>4, <2>6, QueueFacts
  <2> QED
    BY <1>5, <2>5, <2>6 DEF NullModeInitOk
<1>6. CASE NullModeInitOkNoMemory \/ SocketConnectedNoMemory \/ SaveInterrupted
  BY <1>1, <1>6 DEF NullModeInitOkNoMemory, SocketConnectedNoMemory, SaveInterrupted
<1>7. CASE NullModeInitTaskFailed
  <2>1. Failed
    BY <1>7, TransitionFields DEF NullModeInitTaskFailed, Staged, Cleared, Initialised,
       Configuring, Configured, CycleAhead, Napping, Joining, Sending, SleepAhead, Done,
       SendFailed, At
  <2>2. Failed'
    BY <1>7, <2>1 DEF NullModeInitTaskFailed, Failed, AtMostError, Offline, Unsent, At,
       modeIdle, history
  <2> QED
    BY <2>2 DEF Staged
<1>8. CASE NullModePost
  <2>1. /\ Running /\ opmode = "NULL_MODE" /\ opmode_events > 0
        /\ opmode_events' = opmode_events - 1
        /\ sys_state # Transition("INIT", "INIT_OK")
        /\ sys_state # Transition("INIT", "ERROR_INIT_MAIN_TASK")
        /\ \/ \E signal \in NullModeSignals(sys_state) :
                task_queue' = Posted(task_queue, signal)
           \/ NullModeSignals(sys_state) = {} /\ UNCHANGED task_queue
        /\ UNCHANGED <<modeIdle, power, chip, opmode, link, sys_timer_sw, sys_state,
                       buffers, httpd>>
    BY <1>8 DEF NullModePost, ModeEvent
  <2>2. CASE Failed
    <3>1. NullModeSignals(sys_state) = {"STATE_ERROR"}
      <4>1. sys_state.state_next = "ERROR"
        BY <2>1, <2>2, TransitionFields DEF Failed, At
      <4> QED
        BY <4>1, TransitionFields DEF NullModeSignals
    <3>2. AtMostError'
      <4>1. task_queue \in {<<>>, <<"STATE_ERROR">>} /\ sys_timer_sw \in {"OFF", "LED"}
        BY <2>2 DEF Failed, AtMostError
      <4>2. task_queue' = Posted(task_queue, "STATE_ERROR")
        BY <2>1, <3>1
      <4>3. task_queue' = <<"STATE_ERROR">>
        BY <4>1, <4>2, QueueFacts
      <4> QED
        BY <2>1, <4>1, <4>3 DEF AtMostError
    <3>3. Failed'
      BY <2>1, <2>2, <3>2 DEF Failed, Offline, Unsent, At, modeIdle, history
    <3> QED
      BY <3>3 DEF Staged
  <2>3. CASE Configuring
    <3>1. NullModeSignals(sys_state) = {}
      BY <2>3, TransitionFields DEF Configuring, At, NullModeSignals
    <3>2. Configuring'
      BY <2>1, <2>3, <3>1 DEF Configuring, AtMostError, Offline, Unsent, At,
         modeIdle, history, buffers
    <3> QED
      BY <3>2 DEF Staged
  <2>4. CASE Configured
    <3>1. NullModeSignals(sys_state) = {"RESET_AFTER_CONFIG_SAVE"}
      BY <2>4, TransitionFields DEF Configured, At, NullModeSignals
    <3>2. Configured'
      BY <2>1, <2>4, <3>1, QueueFacts DEF Configured, Offline, Unsent, At,
         modeIdle, history
    <3> QED
      BY <3>2 DEF Staged
  <2>5. CycleAhead => FALSE
    BY <2>1 DEF CycleAhead
  <2>6. CASE Napping
    <3>1. NullModeSignals(sys_state) = {}
      BY <2>6, TransitionFields DEF Napping, At, NullModeSignals
    <3>2. Napping'
      BY <2>1, <2>6, <3>1 DEF Napping, Offline, Unsent, At, modeIdle, history
    <3> QED
      BY <3>2 DEF Staged
  <2>7. CASE Sending
    <3>1. NullModeSignals(sys_state) = {}
      BY <2>7, TransitionFields DEF Sending, At, NullModeSignals
    <3>2. Sending'
      BY <2>1, <2>7, <3>1 DEF Sending, Linked, Unlinked, At, modeIdle, history
    <3> QED
      BY <3>2 DEF Staged
  <2>8. CASE SleepAhead
    <3>1. NullModeSignals(sys_state) = {"DEEP_SLEEP"}
      BY <2>8, TransitionFields DEF SleepAhead, At, NullModeSignals
    <3>2. SleepAhead'
      BY <2>1, <2>8, <3>1, QueueFacts DEF SleepAhead, SleepAfterMeasurement, Linked,
         Unlinked, Unsent, At, modeIdle, history
    <3> QED
      BY <3>2 DEF Staged
  <2>9. CASE Done
    <3>1. NullModeSignals(sys_state) = {"SEND_DATA_DONE"}
      BY <2>9, TransitionFields DEF Done, At, NullModeSignals
    <3>2. Done'
      BY <2>1, <2>9, <3>1, QueueFacts DEF Done, SleepAfterMeasurement, Linked,
         Unlinked, At, modeIdle, history
    <3> QED
      BY <3>2 DEF Staged
  <2>10. CASE SendFailed
    <3>1. NullModeSignals(sys_state) = {"STATE_ERROR"}
      BY <2>10, TransitionFields DEF SendFailed, At, NullModeSignals
    <3>2. SendFailed'
      BY <2>1, <2>10, <3>1, QueueFacts DEF SendFailed, SleepAfterMeasurement, Linked,
         At, modeIdle, history
    <3> QED
      BY <3>2 DEF Staged
  <2>11. Cleared \/ Initialised \/ Joining => FALSE
    BY <2>1 DEF Cleared, Initialised, Joining, At
  <2> QED
    BY <2>2, <2>3, <2>4, <2>5, <2>6, <2>7, <2>8, <2>9, <2>10, <2>11 DEF Staged
<1>9. CASE StationMode
  <2>1. Joining
    BY <1>9 DEF StationMode, ModeEvent, Staged, Cleared, Initialised, Failed, Configuring,
       Configured, CycleAhead, Napping, Sending, SleepAhead, Done, SendFailed, Linked,
       Unlinked
  <2>2. /\ power' = "ON" /\ task_queue' = <<>> /\ sys_timer_sw' = "OFF" /\ Unsent'
        /\ link = "DOWN" /\ opmode_events = 1
    BY <1>9, <2>1 DEF StationMode, ModeEvent, Joining, Unsent, modeIdle, history,
       SystemTypeOK, PlatformTypeOK
  <2>3. CASE /\ link' = "JOINING"
             /\ opmode_events' = opmode_events - 1
             /\ UNCHANGED <<opmode, sys_state>>
    <3>1. Joining'
      BY <2>1, <2>2, <2>3 DEF Joining, At
    <3> QED
      BY <3>1 DEF Staged
  <2>4. CASE /\ sys_state' = Transition("PRE_SEND_DATA", "ERROR")
             /\ SetOpmode("NULL_MODE", opmode_events - 1)
             /\ UNCHANGED link
    <3>1. Failed'
      BY <2>2, <2>4 DEF SetOpmode, Failed, AtMostError, Offline, At
    <3> QED
      BY <3>1 DEF Staged
  <2> QED
    BY <1>9, <2>3, <2>4 DEF StationMode
<1>10. CASE StationApMode
  <2>1. Configuring
    BY <1>10, ServedStage DEF StationApMode, ModeEvent
  <2>2. Configuring'
    BY <1>10, <2>1 DEF StationApMode, Configuring, AtMostError, Offline, Unsent, At,
       modeIdle, history, buffers
  <2> QED
    BY <2>2 DEF Staged
<1>11. CASE TaskConfigMode
  <2>1. Configuring /\ task_queue = <<"CONFIG_MODE">>
    BY <1>11, QueueFacts DEF TaskConfigMode, Task, Staged, Cleared, Initialised, Failed,
       Configuring, Configured, CycleAhead, Napping, Joining, Sending, SleepAhead, Done,
       SendFailed, AtMostError
  <2>2. task_queue' = <<>> /\ opmode' = "STATIONAP_MODE"
    BY <1>11, <2>1, QueueFacts DEF TaskConfigMode, SetOpmode
  <2>3. Configuring'
    BY <1>11, <2>1, <2>2, QueueFacts DEF TaskConfigMode, Configuring, AtMostError,
       Offline, Unsent, At, history, buffers
  <2> QED
    BY <2>3 DEF Staged
<1>12. CASE TaskStateError
  <2>1. /\ task_queue = <<"STATE_ERROR">>
        /\ Failed \/ Configuring \/ CycleAhead \/ SendFailed
    BY <1>12, QueueFacts DEF TaskStateError, Task, Staged, Cleared, Initialised, Failed,
       Configuring, Configured, CycleAhead, Napping, Joining, Sending, SleepAhead, Done,
       SendFailed, AtMostError
  <2>2. task_queue' = <<>> /\ sys_timer_sw' = "LED"
    BY <1>12, <2>1, QueueFacts DEF TaskStateError
  <2>3. ASSUME Failed PROVE Failed'
    BY <1>12, <2>2, <2>3 DEF TaskStateError, Failed, AtMostError, Offline, Unsent, At,
       idleVars, wifi, history
  <2>4. ASSUME Configuring PROVE Configuring'
    BY <1>12, <2>1, <2>2, <2>4, QueueFacts DEF TaskStateError, Configuring, AtMostError,
       Offline, Unsent, At, idleVars, wifi, history, buffers
  <2>5. ASSUME CycleAhead PROVE CycleAhead'
    BY <1>12, <2>2, <2>5 DEF TaskStateError, CycleAhead, AtMostError, Offline, Unsent, At,
       idleVars, wifi, history, buffers
  <2>6. ASSUME SendFailed PROVE SendFailed'
    BY <1>12, <2>1, <2>2, <2>6, QueueFacts DEF TaskStateError, SendFailed,
       SleepAfterMeasurement, At, idleVars, wifi, history
  <2> QED
    BY <2>1, <2>3, <2>4, <2>5, <2>6 DEF Staged
<1>13. CASE TaskDeepSleep
  <2>1. /\ task_queue \in {<<"DEEP_SLEEP">>, <<"SEND_DATA_DONE">>}
        /\ Napping \/ SleepAhead \/ Done \/ SendFailed
    BY <1>13, SleepStage
  <2>2. task_queue' = <<>> /\ power' = "SLEEPING"
    BY <1>13, <2>1, QueueFacts DEF TaskDeepSleep
  <2>3. ASSUME Napping PROVE Napping'
    BY <1>13, <2>2, <2>3 DEF TaskDeepSleep, Napping, Offline, Unsent, At, wifi
  <2>4. ASSUME SleepAhead PROVE SleepAhead'
    BY <1>13, <2>1, <2>2, <2>4, QueueFacts DEF TaskDeepSleep, SleepAhead, Unlinked,
       SleepAfterMeasurement, Unsent, At, wifi
  <2>5. ASSUME Done PROVE Done'
    BY <1>13, <2>1, <2>2, <2>5, QueueFacts DEF TaskDeepSleep, Done, Unlinked,
       SleepAfterMeasurement, At, wifi
  <2>6. ASSUME SendFailed PROVE SendFailed'
    BY <1>13, <2>1, <2>2, <2>6, QueueFacts DEF TaskDeepSleep, SendFailed,
       SleepAfterMeasurement, At, wifi
  <2> QED
    BY <2>1, <2>3, <2>4, <2>5, <2>6 DEF Staged
<1>14. CASE TaskReset
  <2>1. Configured /\ task_queue = <<"RESET_AFTER_CONFIG_SAVE">>
    BY <1>14, QueueFacts DEF TaskReset, Task, Staged, Cleared, Initialised, Failed,
       Configuring, Configured, CycleAhead, Napping, Joining, Sending, SleepAhead, Done,
       SendFailed, AtMostError
  <2>2. Configured'
    BY <1>14, <2>1, QueueFacts DEF TaskReset, Configured, Offline, Unsent, At, wifi, history
  <2> QED
    BY <2>2 DEF Staged
<1>15. CASE TaskCycleFails
  <2>1. /\ CycleAhead /\ sys_timer_sw = "OFF"
        /\ task_queue' = <<"STATE_ERROR">>
    BY <1>15, CycleStage, QueueFacts DEF TaskCycleFails
  <2>2. Failed'
    BY <1>15, <2>1 DEF TaskCycleFails, CycleAhead, Failed, AtMostError, Offline, Unsent,
       At, idleVars, wifi, history
  <2> QED
    BY <2>2 DEF Staged
<1>16. CASE TaskCycleNap
  <2>1. /\ CycleAhead /\ sys_timer_sw = "OFF"
        /\ task_queue' = <<"DEEP_SLEEP">>
    BY <1>16, CycleStage, QueueFacts DEF TaskCycleNap
  <2>2. Napping'
    BY <1>16, <2>1 DEF TaskCycleNap, CycleAhead, Napping, Offline, Unsent, At, wifi,
       SleepTypeAfterNap
  <2> QED
    BY <2>2 DEF Staged
<1>17. CASE TaskCycleMeasure
  <2>1. /\ CycleAhead /\ sys_timer_sw = "OFF"
        /\ task_queue' = <<>>
    BY <1>17, CycleStage DEF TaskCycleMeasure
  <2>2. Joining'
    BY <1>17, <2>1 DEF TaskCycleMeasure, CycleAhead, Joining, Offline, Unsent, At,
       SetOpmode, OneMore
  <2> QED
    BY <2>2 DEF Staged
<1>18. CASE ToggleErrorLed \/ UNCHANGED vars
  <2>1. UNCHANGED <<power, rtc_sleep_count, task_queue, sys_timer_sw, opmode,
                    opmode_events, link, socket, unread, sys_state,
                    sys_deep_sleep_params, config_current, form_buffer, httpd,
                    notified, accepted>>
    BY <1>18 DEF ToggleErrorLed, vars, wifi, buffers, history
  <2> QED
    BY <2>1 DEF Staged, Cleared, Initialised, Failed, Configuring, Configured, CycleAhead,
       Napping, Joining, Sending, SleepAhead, Done, SendFailed, AtMostError, Offline,
       Unsent, Linked, Unlinked, At, SleepTypeAfterNap, SleepAfterMeasurement
<1>19. CASE unread = 0 /\ Disconnected
  <2>1. Joining \/ Sending \/ SleepAhead \/ Done \/ SendFailed
    BY <1>19 DEF Disconnected, Staged, Cleared, Initialised, Failed, Configuring,
       Configured, CycleAhead, Napping, Offline
  <2>2. opmode' = "NULL_MODE" /\ link' = "DOWN"
    BY <1>19 DEF Disconnected, SetOpmode
  <2>3. ASSUME Joining PROVE Failed'
    <3>1. At("PRE_SEND_DATA", "ERROR")'
      BY <1>19, <2>3, TransitionFields DEF Disconnected, Joining, At
    <3> QED
      BY <1>19, <2>2, <2>3, <3>1 DEF Disconnected, Joining, Failed, Offline, Unsent,
         AtMostError, idleVars, history
  <2>4. ASSUME sys_state.state_next # "PRE_SEND_DATA" PROVE sys_state' = sys_state
    BY <1>19, <2>4 DEF Disconnected
  <2>5. ASSUME Sending PROVE Sending'
    <3>1. sys_state' = sys_state
      BY <2>4, <2>5, TransitionFields DEF Sending, At
    <3> QED
      BY <1>19, <2>2, <2>5, <3>1 DEF Disconnected, Sending, At, Unlinked, idleVars, history
  <2>6. ASSUME SleepAhead PROVE SleepAhead'
    <3>1. sys_state' = sys_state
      BY <2>4, <2>6, TransitionFields DEF SleepAhead, At
    <3> QED
      BY <1>19, <2>2, <2>6, <3>1 DEF Disconnected, SleepAhead, At, Unlinked, Unsent,
         SleepAfterMeasurement, idleVars, history
  <2>7. ASSUME Done PROVE Done'
    <3>1. sys_state' = sys_state
      BY <2>4, <2>7, TransitionFields DEF Done, At
    <3> QED
      BY <1>19, <2>2, <2>7, <3>1 DEF Disconnected, Done, At, Unlinked,
         SleepAfterMeasurement, idleVars, history
  <2>8. ASSUME SendFailed PROVE SendFailed'
    <3>1. sys_state' = sys_state
      BY <2>4, <2>8, TransitionFields DEF SendFailed, At
    <3> QED
      BY <1>19, <2>2, <2>8, <3>1 DEF Disconnected, SendFailed, At,
         SleepAfterMeasurement, idleVars, history
  <2> QED
    BY <2>1, <2>3, <2>5, <2>6, <2>7, <2>8 DEF Staged
<1>20. ASSUME Joining, link = "JOINING", LeaveNetwork(ToError),
              UNCHANGED <<idleVars, task_queue, sys_timer_sw, socket, unread, history>>
       PROVE  SendFailed'
  <2>1. /\ At("SEND_DATA", "ERROR")'
        /\ Linked' \/ (opmode' = "NULL_MODE" /\ link' \in {"DOWN", "LEAVING"})
    BY <1>20, LeaveLinked DEF Joining, ToError, At
  <2> QED
    BY <1>20, <2>1 DEF Joining, SendFailed, Unsent, idleVars, history
<1>21. CASE DhcpTimeout
  <2>1. SendFailed'
    BY <1>20, <1>21, JoiningStage DEF DhcpTimeout, ToError
  <2> QED
    BY <2>1 DEF Staged
<1>22. CASE GotIp
  <2>1. Joining /\ link = "JOINING"
    BY <1>22, JoiningStage DEF GotIp
  <2>2. CASE /\ socket' = "RESOLVING" /\ link' = "UP"
             /\ sys_state' = Transition("PRE_SEND_DATA", "SEND_DATA")
             /\ UNCHANGED <<opmode, opmode_events>>
    <3>1. Sending'
      BY <1>22, <2>1, <2>2 DEF GotIp, Joining, Sending, Linked, Unsent, At, idleVars,
         history
    <3> QED
      BY <3>1 DEF Staged
  <2>3. CASE LeaveNetwork(ToError) /\ UNCHANGED socket
    <3>1. SendFailed'
      BY <1>20, <1>22, <2>1, <2>3 DEF GotIp
    <3> QED
      BY <3>1 DEF Staged
  <2>4. CASE GotIpSleep
    <3>1. \/ Linked' /\ At("SEND_DATA", "DEEP_SLEEP")'
          \/ /\ opmode' = "NULL_MODE" /\ link' \in {"DOWN", "LEAVING"}
             /\ At("SEND_DATA", "ERROR")'
      BY <2>1, <2>4, LeaveLinked DEF GotIpSleep, Joining, At
    <3>2. SleepAhead' \/ SendFailed'
      BY <1>22, <2>1, <2>4, <3>1 DEF GotIp, GotIpSleep, Joining, SleepAhead, SendFailed,
         Unsent, SleepAfterMeasurement, idleVars, history
    <3> QED
      BY <3>2 DEF Staged
  <2> QED
    BY <1>22, <2>2, <2>3, <2>4 DEF GotIp, GotIpNotify, ToError
<1>23. ASSUME NEW left, LeaveNetwork(left), Linked \/ Unlinked
       PROVE  \/ Linked' /\ Linked /\ sys_state' = left
              \/ Unlinked' /\ Unlinked /\ sys_state' = left
              \/ /\ opmode' = "NULL_MODE" /\ link' \in {"DOWN", "LEAVING"}
                 /\ At("SEND_DATA", "ERROR")'
  BY <1>23, LeaveLinked, LeaveUnlinked DEF Linked, Unlinked
<1>24. ASSUME Sending, LeaveNetwork(ToError), socket' = "NONE",
              UNCHANGED <<gatewayIdle, unread, accepted>>,
              sys_timer_sw' = sys_timer_sw, sys_timer_sw = "OFF"
       PROVE  SendFailed'
  <2>1. /\ At("SEND_DATA", "ERROR")'
        /\ Linked' \/ (opmode' = "NULL_MODE" /\ link' \in {"DOWN", "LEAVING"})
    BY <1>23, <1>24 DEF Sending, ToError, At, Unlinked
  <2> QED
    BY <1>24, <2>1 DEF Sending, SendFailed, gatewayIdle, idleVars
<1>25. CASE DnsResolved
  <2>1. Sending /\ sys_timer_sw = "OFF" /\ ~notified
    BY <1>25, SocketStage DEF DnsResolved, Sending
  <2>2. CASE socket' = "CONNECTING" /\ UNCHANGED <<sys_state, wifi>>
    <3>1. Sending'
      BY <1>25, <2>1, <2>2 DEF DnsResolved, Sending, Linked, Unlinked, At, gatewayIdle,
         idleVars, wifi, history
    <3> QED
      BY <3>1 DEF Staged
  <2>3. CASE socket' = "NONE" /\ LeaveNetwork(ToError)
    <3>1. SendFailed'
      BY <1>24, <1>25, <2>1, <2>3 DEF DnsResolved, history
    <3> QED
      BY <3>1 DEF Staged
  <2> QED
    BY <1>25, <2>2, <2>3 DEF DnsResolved
<1>26. CASE DnsFailed
  <2>1. SendFailed'
    BY <1>24, <1>26, SocketStage DEF DnsFailed, Sending, history
  <2> QED
    BY <2>1 DEF Staged
<1>27. CASE SocketConnected
  <2>1. /\ Sending /\ sys_timer_sw = "OFF" /\ Linked
    BY <1>27, SocketStage DEF SocketConnected, Sending, Unlinked
  <2>2. CASE /\ socket' = "OPEN" /\ sys_timer_sw' = "RX" /\ UNCHANGED <<sys_state, wifi>>
    <3>1. Sending'
      BY <1>27, <2>1, <2>2 DEF SocketConnected, Sending, Linked, At, gatewayIdle,
         idleVars, wifi
    <3> QED
      BY <3>1 DEF Staged
  <2>3. CASE CloseSocket(ToError) /\ UNCHANGED sys_timer_sw
    <3>1. socket' = "CLOSING" /\ sys_state' = ToError /\ UNCHANGED wifi
      BY <1>27, <2>3 DEF SocketConnected, CloseSocket
    <3>2. SendFailed'
      BY <1>27, <2>1, <2>3, <3>1 DEF SocketConnected, Sending, SendFailed, Linked, ToError,
         At, gatewayIdle, idleVars, wifi
    <3> QED
      BY <3>2 DEF Staged
  <2> QED
    BY <1>27, <2>2, <2>3 DEF SocketConnected
<1>28. CASE ReceiveFirst
  <2>1. Sending /\ Linked /\ socket = "OPEN"
    BY <1>28, SocketStage DEF ReceiveFirst, Sending, Unlinked
  <2>2. CASE Receive(TRUE)
    <3>1. /\ socket' = "CLOSING" /\ sys_state' = ToDone /\ UNCHANGED wifi
          /\ sys_timer_sw' = "OFF" /\ accepted' = TRUE
          /\ sys_deep_sleep_params' = SleepAfterMeasurement
          /\ power' = power /\ task_queue' = task_queue
      BY <2>1, <2>2 DEF Receive, CloseSocket, gatewayIdle, idleVars
    <3>2. Done'
      BY <2>1, <3>1 DEF Sending, Done, Linked, ToDone, At, wifi, SleepAfterMeasurement
    <3> QED
      BY <3>2 DEF Staged
  <2>3. CASE Receive(FALSE)
    <3>1. /\ socket' = "CLOSING" /\ sys_state' = ToError /\ UNCHANGED wifi
          /\ sys_timer_sw' = "OFF" /\ accepted' = accepted
          /\ power' = power /\ task_queue' = task_queue
      BY <2>1, <2>3 DEF Receive, CloseSocket, gatewayIdle, idleVars
    <3>2. SendFailed'
      BY <2>1, <3>1 DEF Sending, SendFailed, Linked, ToError, At, wifi
    <3> QED
      BY <3>2 DEF Staged
  <2> QED
    BY <1>28, <2>2, <2>3 DEF ReceiveFirst
<1>29. CASE ReceiveRest
  <2>1. /\ Done \/ SendFailed
        /\ Linked /\ power = "ON" /\ task_queue = <<>>
    BY <1>29, RestStage DEF ReceiveRest
  <2>2. /\ sys_timer_sw' = "OFF" /\ power' = "ON" /\ task_queue' = <<>>
        /\ accepted' = accepted /\ sys_deep_sleep_params' = sys_deep_sleep_params
        /\ unread' = 0
    BY <1>29, <2>1 DEF ReceiveRest, Receive, gatewayIdle, idleVars
  <2>3. LeaveNetwork(ToError) /\ socket' = socket
    BY <1>29, <2>1 DEF ReceiveRest, Receive, CloseSocket, Done, SendFailed
  <2>4. /\ At("SEND_DATA", "ERROR")'
        /\ Linked' \/ (opmode' = "NULL_MODE" /\ link' \in {"DOWN", "LEAVING"})
    BY <1>23, <2>1, <2>3 DEF ToError, At, Unlinked
  <2>5. SendFailed'
    BY <2>1, <2>2, <2>3, <2>4 DEF Done, SendFailed, SleepAfterMeasurement
  <2> QED
    BY <2>5 DEF Staged
<1>30. CASE unread = 0 /\ ReceiveTimeout
  <2>1. Sending \/ SendFailed
    BY <1>30 DEF ReceiveTimeout, Staged, Cleared, Initialised, Failed, Configuring,
       Configured, CycleAhead, Napping, Joining, SleepAhead, Done, SendFailed, AtMostError
  <2>2. /\ sys_timer_sw' = "OFF" /\ power' = power /\ task_queue' = task_queue
        /\ accepted' = accepted /\ sys_deep_sleep_params' = sys_deep_sleep_params
        /\ unread' = unread
    BY <1>30 DEF ReceiveTimeout, gatewayIdle, idleVars, history
  <2>3. CASE Sending /\ socket = "OPEN"
    <3>1. socket' = "CLOSING" /\ sys_state' = ToError /\ UNCHANGED wifi
      BY <1>30, <2>3 DEF ReceiveTimeout, CloseSocket
    <3>2. SendFailed'
      BY <2>2, <2>3, <3>1 DEF Sending, SendFailed, Linked, Unlinked, ToError, At, wifi
    <3> QED
      BY <3>2 DEF Staged
  <2>4. CASE Sending /\ socket # "OPEN"
    <3>1. socket = "NONE" /\ LeaveNetwork(ToError) /\ socket' = socket
      BY <1>30, <2>4 DEF ReceiveTimeout, CloseSocket, Sending, SystemTypeOK,
         PlatformTypeOK, SocketStates
    <3>2. /\ At("SEND_DATA", "ERROR")'
          /\ Linked' \/ (opmode' = "NULL_MODE" /\ link' \in {"DOWN", "LEAVING"})
      BY <1>23, <2>4, <3>1 DEF Sending, ToError, At, Unlinked
    <3>3. SendFailed'
      BY <2>2, <2>4, <3>1, <3>2 DEF Sending, SendFailed
    <3> QED
      BY <3>3 DEF Staged
  <2>5. CASE SendFailed
    <3>1. /\ LeaveNetwork(ToError) /\ socket' = socket
          /\ opmode = "NULL_MODE" /\ link \in {"DOWN", "LEAVING"}
      BY <1>30, <2>5 DEF ReceiveTimeout, CloseSocket, SendFailed
    <3>2. opmode' = "NULL_MODE" /\ link' = link /\ At("SEND_DATA", "ERROR")'
      BY <3>1, LeaveUnlinked DEF ToError, At
    <3>3. SendFailed'
      BY <1>30, <2>2, <2>5, <3>1, <3>2 DEF SendFailed, SleepAfterMeasurement, Linked
    <3> QED
      BY <3>3 DEF Staged
  <2> QED
    BY <2>1, <2>3, <2>4, <2>5
<1>31. CASE unread = 0 /\ SocketDisconnected
  <2>1. Sending \/ Done \/ SendFailed
    BY <1>31 DEF SocketDisconnected, Staged, Cleared, Initialised, Failed, Configuring,
       Configured, CycleAhead, Napping, Joining, SleepAhead, Offline, Unsent
  <2>2. /\ sys_timer_sw' = sys_timer_sw /\ power' = power /\ task_queue' = task_queue
        /\ accepted' = accepted /\ notified' = notified
        /\ sys_deep_sleep_params' = sys_deep_sleep_params
        /\ unread' = unread /\ socket' = "NONE" /\ LeaveNetwork(sys_state)
    BY <1>31 DEF SocketDisconnected, gatewayIdle, idleVars, history
  <2>3. ASSUME Sending PROVE Sending' \/ SendFailed'
    <3>1. Linked \/ Unlinked
      BY <2>3 DEF Sending
    <3>2. CASE (Linked' \/ Unlinked') /\ sys_state' = sys_state
      BY <2>2, <2>3, <3>2 DEF Sending, At
    <3>3. CASE /\ opmode' = "NULL_MODE" /\ link' \in {"DOWN", "LEAVING"}
               /\ At("SEND_DATA", "ERROR")'
      BY <1>31, <2>2, <2>3, <3>3 DEF Sending, SendFailed
    <3> QED
      BY <1>23, <2>2, <3>1, <3>2, <3>3
  <2>4. ASSUME Done PROVE Done' \/ SendFailed'
    <3>1. Linked \/ Unlinked
      BY <2>4 DEF Done
    <3>2. CASE Linked /\ Linked' /\ sys_state' = sys_state
      BY <1>31, <2>2, <2>4, <3>2 DEF Done, At, SleepAfterMeasurement, Linked, Unlinked
    <3>3. CASE Unlinked /\ Unlinked' /\ sys_state' = sys_state
      BY <1>31, <2>2, <2>4, <3>3 DEF Done, At, SleepAfterMeasurement, Linked, Unlinked
    <3>4. CASE /\ opmode' = "NULL_MODE" /\ link' \in {"DOWN", "LEAVING"}
               /\ At("SEND_DATA", "ERROR")'
      BY <1>31, <2>2, <2>4, <3>4 DEF Done, SendFailed, SleepAfterMeasurement
    <3> QED
      BY <1>23, <2>2, <3>1, <3>2, <3>3, <3>4
  <2>5. ASSUME SendFailed PROVE SendFailed'
    <3>1. CASE Linked /\ power = "ON" /\ task_queue = <<>> /\ sys_timer_sw = "OFF"
      <4>1. /\ At("SEND_DATA", "ERROR")'
            /\ Linked' \/ (opmode' = "NULL_MODE" /\ link' \in {"DOWN", "LEAVING"})
        BY <1>23, <2>2, <2>5, <3>1 DEF SendFailed, At, Unlinked
      <4> QED
        BY <1>31, <2>2, <2>5, <3>1, <4>1 DEF SendFailed, SleepAfterMeasurement
    <3>2. CASE opmode = "NULL_MODE"
      <4>1. link \in {"DOWN", "LEAVING"}
        BY <2>5, <3>2 DEF SendFailed, Linked
      <4>2. opmode' = "NULL_MODE" /\ link' = link /\ At("SEND_DATA", "ERROR")'
        BY <2>2, <2>5, <3>2, <4>1, LeaveUnlinked DEF SendFailed, At
      <4> QED
        BY <1>31, <2>2, <2>5, <3>2, <4>2 DEF SendFailed, SleepAfterMeasurement, Linked
    <3> QED
      BY <2>5, <3>1, <3>2 DEF SendFailed
  <2> QED
    BY <2>1, <2>3, <2>4, <2>5 DEF Staged
<1>32. CASE SocketError
  <2>1. Sending'
    BY <1>32, SocketStage DEF SocketError, Sending, Linked, Unlinked, At, gatewayIdle, idleVars,
       wifi, history
  <2> QED
    BY <2>1 DEF Staged
<1>33. ASSUME Served \/ (Running /\ sys_timer_sw = "RESTART")
       PROVE  Configuring /\ opmode = "STATIONAP_MODE"
  BY <1>33 DEF Served, Staged, Cleared, Initialised, Failed, Configuring, Configured,
     CycleAhead, Napping, Joining, Sending, SleepAhead, Done, SendFailed, AtMostError,
     Linked, Unlinked
<1>34. CASE SaveFailsInRtc \/ SaveFailsInFlash \/ SaveConfig
  <2>1. Configuring /\ opmode = "STATIONAP_MODE"
    BY <1>33, <1>34 DEF SaveFailsInRtc, SaveFailsInFlash, SaveConfig
  <2>2. /\ UNCHANGED saveIdle /\ config_current' = "EDITED"
        /\ sys_timer_sw' \in {sys_timer_sw, "RESTART"}
    BY <1>34 DEF SaveFailsInRtc, SaveFailsInFlash, SaveConfig
  <2>3. Configuring'
    BY <2>1, <2>2 DEF Configuring, Offline, Unsent, At, saveIdle, wifi
  <2> QED
    BY <2>3 DEF Staged
<1>35. CASE RestartTimeout
  <2>1. Configuring /\ opmode = "STATIONAP_MODE"
    BY <1>33, <1>35 DEF RestartTimeout
  <2>2. Configured'
    BY <1>35, <2>1 DEF RestartTimeout, Configuring, Configured, SetOpmode, Offline, Unsent,
       At, idleVars, history
  <2> QED
    BY <2>2 DEF Staged
<1> QED
  BY <1>2, <1>3, <1>4, <1>5, <1>6, <1>7, <1>8, <1>9, <1>10, <1>11, <1>12, <1>13, <1>14,
     <1>15, <1>16, <1>17, <1>18, <1>19, <1>21, <1>22, <1>25, <1>26, <1>27, <1>28, <1>29,
     <1>30, <1>31, <1>32, <1>34, <1>35 DEF Next, Chip, Events, OpmodeChanged, MainTask

(* Apart from start-up, configuration mode and resets no step touches the  *)
(* configuration, the buffers or the web server.                           *)
LEMMA ConfigurationKept ==
  [Next]_vars =>
    \/ /\ \E why, rf : Reboot(why, rf)
       /\ flash' \in {flash} \cup DamagedSector
    \/ EnterSleep \/ NullModeInitOk \/ StationApMode
    \/ SaveFailsInRtc \/ SaveFailsInFlash \/ SaveConfig
    \/ UNCHANGED <<flash, config_current, form_buffer, httpd>>
<1> SUFFICES ASSUME [Next]_vars
             PROVE  \/ /\ \E why, rf : Reboot(why, rf)
                       /\ flash' \in {flash} \cup DamagedSector
                    \/ EnterSleep \/ NullModeInitOk \/ StationApMode
                    \/ SaveFailsInRtc \/ SaveFailsInFlash \/ SaveConfig
                    \/ UNCHANGED <<flash, config_current, form_buffer, httpd>>
  OBVIOUS
<1>1. CASE Reset \/ PowerCycle \/ Restart \/ Wake
  BY <1>1 DEF Reset, PowerCycle, Restart, Wake
<1>2. CASE NullModeInitOkNoMemory \/ SocketConnectedNoMemory \/ SaveInterrupted
  BY <1>2 DEF NullModeInitOkNoMemory, SocketConnectedNoMemory, SaveInterrupted
<1>3. CASE InitDone
  BY <1>3 DEF InitDone, buffers
<1>4. CASE NullModeInitTaskFailed \/ NullModePost \/ StationMode
  BY <1>4 DEF NullModeInitTaskFailed, NullModePost, StationMode, modeIdle, buffers
<1>5. CASE TaskConfigMode \/ TaskStateError \/ TaskDeepSleep \/ TaskReset
  BY <1>5 DEF TaskConfigMode, TaskStateError, TaskDeepSleep, TaskReset, idleVars, buffers
<1>6. CASE TaskCycleFails \/ TaskCycleNap \/ TaskCycleMeasure \/ ToggleErrorLed
  BY <1>6 DEF TaskCycleFails, TaskCycleNap, TaskCycleMeasure, ToggleErrorLed, idleVars,
     buffers
<1>7. CASE Disconnected \/ DhcpTimeout \/ GotIp \/ RestartTimeout
  BY <1>7 DEF Disconnected, DhcpTimeout, GotIp, RestartTimeout, idleVars, buffers
<1>8. CASE DnsResolved \/ DnsFailed \/ SocketConnected \/ ReceiveTimeout
  BY <1>8 DEF DnsResolved, DnsFailed, SocketConnected, ReceiveTimeout, gatewayIdle,
     idleVars, buffers
<1>9. CASE ReceiveFirst \/ ReceiveRest \/ SocketDisconnected \/ SocketError
  BY <1>9 DEF ReceiveFirst, ReceiveRest, Receive, SocketDisconnected, SocketError,
     gatewayIdle, idleVars, buffers
<1>10. CASE UNCHANGED vars
  BY <1>10 DEF vars
<1> QED
  BY <1>1, <1>2, <1>3, <1>4, <1>5, <1>6, <1>7, <1>8, <1>9, <1>10
  DEF Next, Chip, Events, OpmodeChanged, MainTask

(* The web server keeps its buffers.                                       *)
LEMMA BuffersStep ==
  Staged /\ ServerHasBuffers /\ [Next]_vars => ServerHasBuffers'
<1> SUFFICES ASSUME Staged, ServerHasBuffers, [Next]_vars PROVE ServerHasBuffers'
  OBVIOUS
<1>1. CASE \/ EnterSleep
           \/ \E why, rf : Reboot(why, rf)
  BY <1>1 DEF EnterSleep, Reboot, RamCleared, ServerHasBuffers
<1>2. CASE NullModeInitOk
  <2>1. Initialised
    BY <1>2, InitOkStage DEF NullModeInitOk
  <2> QED
    BY <1>2, <2>1 DEF NullModeInitOk, Initialised, ServerHasBuffers
<1>3. CASE StationApMode
  <2>1. Configuring /\ opmode = "STATIONAP_MODE"
    BY <1>3, ServedStage DEF StationApMode, ModeEvent
  <2> QED
    BY <1>3, <2>1 DEF StationApMode, Configuring, ServerHasBuffers, buffers
<1>4. CASE SaveFailsInRtc \/ SaveFailsInFlash \/ SaveConfig
  BY <1>4 DEF SaveFailsInRtc, SaveFailsInFlash, SaveConfig, saveIdle, ServerHasBuffers
<1>5. CASE UNCHANGED <<flash, config_current, form_buffer, httpd>>
  BY <1>5 DEF ServerHasBuffers
<1> QED
  BY <1>1, <1>2, <1>3, <1>4, <1>5, ConfigurationKept

(* Station mode is entered by the main task only.                          *)
LEMMA StationEntered ==
  [Next]_vars /\ opmode' = "STATION_MODE" => opmode = "STATION_MODE" \/ TaskCycleMeasure
<1> SUFFICES ASSUME [Next]_vars, opmode' = "STATION_MODE"
             PROVE  opmode = "STATION_MODE" \/ TaskCycleMeasure
  OBVIOUS
<1>1. CASE \/ EnterSleep
           \/ \E why, rf : Reboot(why, rf)
  BY <1>1 DEF EnterSleep, Reboot, RamCleared
<1>2. CASE NullModeInitOk \/ NullModeInitTaskFailed \/ NullModePost \/ StationApMode
  BY <1>2 DEF NullModeInitOk, NullModeInitTaskFailed, NullModePost, StationApMode
<1>3. CASE StationMode
  BY <1>3 DEF StationMode, ModeEvent
<1>4. CASE InitDone
  BY <1>4 DEF InitDone, InitFails, SetOpmode
<1>5. CASE TaskConfigMode \/ TaskStateError \/ TaskDeepSleep \/ TaskReset
  BY <1>5 DEF TaskConfigMode, TaskStateError, TaskDeepSleep, TaskReset, wifi, SetOpmode
<1>6. CASE TaskCycleFails \/ TaskCycleNap \/ ToggleErrorLed
  BY <1>6 DEF TaskCycleFails, TaskCycleNap, ToggleErrorLed, wifi
<1>7. CASE Disconnected \/ RestartTimeout
  BY <1>7 DEF Disconnected, RestartTimeout, SetOpmode
<1>8. ASSUME NEW left, LeaveNetwork(left) PROVE opmode = "STATION_MODE"
  BY <1>8 DEF LeaveNetwork, StationDisconnect, SetOpmode
<1>9. ASSUME NEW left, CloseSocket(left) PROVE opmode = "STATION_MODE"
  BY <1>8, <1>9 DEF CloseSocket, wifi
<1>10. CASE DhcpTimeout \/ GotIp
  BY <1>8, <1>10 DEF DhcpTimeout, GotIp, GotIpNotify, GotIpSleep
<1>11. CASE DnsResolved \/ DnsFailed \/ SocketConnected
  BY <1>8, <1>9, <1>11 DEF DnsResolved, DnsFailed, SocketConnected, wifi
<1>12. CASE ReceiveFirst \/ ReceiveRest \/ ReceiveTimeout
  BY <1>9, <1>12 DEF ReceiveFirst, ReceiveRest, Receive, ReceiveTimeout
<1>13. CASE SocketDisconnected \/ SocketError
  BY <1>8, <1>13 DEF SocketDisconnected, SocketError, wifi
<1>14. CASE SaveFailsInRtc \/ SaveFailsInFlash \/ SaveConfig
  BY <1>14 DEF SaveFailsInRtc, SaveFailsInFlash, SaveConfig, saveIdle, wifi
<1>15. CASE UNCHANGED vars
  BY <1>15 DEF vars
<1> QED
  BY <1>1, <1>2, <1>3, <1>4, <1>5, <1>6, <1>7, <1>10, <1>11, <1>12, <1>13, <1>14, <1>15
  DEF Next, Chip, Events, OpmodeChanged, MainTask, Reset, PowerCycle, Restart, Wake,
      NullModeInitOkNoMemory, SocketConnectedNoMemory, SaveInterrupted

(* A damaged configuration is in use only if its checksum matched.         *)
LEMMA ConfigStep ==
  SystemTypeOK /\ Staged /\ ConfigChecked /\ [Next]_vars => ConfigChecked'
<1> SUFFICES ASSUME SystemTypeOK, Staged, ConfigChecked, [Next]_vars PROVE ConfigChecked'
  OBVIOUS
<1>1. flash' = "COLLIDING" => Fault("hash")
  <2>1. ASSUME flash' \in {flash} \cup DamagedSector \cup {"SAVED"}
        PROVE  flash' = "COLLIDING" => Fault("hash")
    BY <2>1 DEF DamagedSector, ConfigChecked
  <2>2. flash' \in {flash} \cup DamagedSector \cup {"SAVED"}
    BY ConfigurationKept DEF EnterSleep, NullModeInitOk, StationApMode, modeIdle,
       SaveFailsInRtc, SaveFailsInFlash, SaveConfig
  <2> QED
    BY <2>1, <2>2
<1>2. config_current' = "DAMAGED" => Fault("hash")
  <2>1. CASE NullModeInitOk
    BY <2>1 DEF NullModeInitOk, InitOkDecides, ConfigRead, ConfigChecked, SystemTypeOK,
       SectorStates
  <2>2. CASE EnterSleep \/ \E why, rf : Reboot(why, rf)
    BY <2>2 DEF EnterSleep, Reboot, RamCleared
  <2>3. CASE StationApMode
    BY <2>3 DEF StationApMode, buffers, ConfigChecked
  <2>4. CASE SaveFailsInRtc \/ SaveFailsInFlash \/ SaveConfig
    BY <2>4 DEF SaveFailsInRtc, SaveFailsInFlash, SaveConfig
  <2> QED
    BY <2>1, <2>2, <2>3, <2>4, ConfigurationKept DEF ConfigChecked
<1>3. opmode' = "STATION_MODE" => config_current' \in {"SAVED", "DAMAGED"}
  <2> SUFFICES ASSUME opmode' = "STATION_MODE" PROVE config_current' \in {"SAVED", "DAMAGED"}
    OBVIOUS
  <2>1. CASE opmode = "STATION_MODE"
    <3>1. ~NullModeInitOk /\ ~StationApMode
      BY <2>1 DEF NullModeInitOk, StationApMode, ModeEvent
    <3>2. ~SaveFailsInRtc /\ ~SaveFailsInFlash /\ ~SaveConfig
      BY <2>1 DEF SaveFailsInRtc, SaveFailsInFlash, SaveConfig, Served
    <3>3. ~EnterSleep /\ ~\E why, rf : Reboot(why, rf)
      BY DEF EnterSleep, Reboot, RamCleared
    <3> QED
      BY <2>1, <3>1, <3>2, <3>3, ConfigurationKept DEF ConfigChecked
  <2>2. CASE TaskCycleMeasure
    BY <2>2, CycleStage DEF TaskCycleMeasure, CycleAhead, buffers
  <2> QED
    BY <2>1, <2>2, StationEntered
<1> QED
  BY <1>1, <1>2, <1>3 DEF ConfigChecked

(* While the device sleeps, or is about to, only going to sleep touches the *)
(* parameters of the sleep.                                                *)
LEMMA SleepKept ==
  Staged /\ [Next]_vars /\ power' \in {"SLEEPING", "ASLEEP"} =>
    TaskDeepSleep \/ EnterSleep \/ UNCHANGED <<power, deep_sleep, sys_deep_sleep_params>>
<1> SUFFICES ASSUME Staged, [Next]_vars, power' \in {"SLEEPING", "ASLEEP"}
             PROVE  \/ TaskDeepSleep \/ EnterSleep
                    \/ UNCHANGED <<power, deep_sleep, sys_deep_sleep_params>>
  OBVIOUS
<1>1. ~\E why, rf : Reboot(why, rf)
  BY DEF Reboot
<1>2. ~InitDone /\ ~TaskReset
  BY DEF InitDone, TaskReset
<1>3. CASE NullModeInitOk \/ NullModeInitTaskFailed \/ NullModePost
  BY <1>3 DEF NullModeInitOk, NullModeInitTaskFailed, NullModePost, modeIdle
<1>4. CASE StationMode \/ StationApMode
  BY <1>4 DEF StationMode, StationApMode, modeIdle
<1>5. CASE TaskConfigMode \/ TaskStateError \/ TaskCycleFails \/ ToggleErrorLed
  BY <1>5 DEF TaskConfigMode, TaskStateError, TaskCycleFails, ToggleErrorLed, idleVars
<1>6. ~TaskCycleNap /\ ~TaskCycleMeasure
  BY CycleStage DEF TaskCycleNap, TaskCycleMeasure, CycleAhead
<1>7. CASE Disconnected \/ DhcpTimeout \/ RestartTimeout
  BY <1>7 DEF Disconnected, DhcpTimeout, RestartTimeout, idleVars
<1>8. ~GotIp
  BY JoiningStage DEF GotIp, Joining, idleVars
<1>9. CASE DnsResolved \/ DnsFailed \/ SocketConnected
  BY <1>9 DEF DnsResolved, DnsFailed, SocketConnected, gatewayIdle, idleVars
<1>10. ~ReceiveFirst
  BY SocketStage DEF ReceiveFirst, Receive, Sending, gatewayIdle, idleVars
<1>11. CASE ReceiveRest \/ ReceiveTimeout
  BY <1>11 DEF ReceiveRest, Receive, ReceiveTimeout, gatewayIdle, idleVars
<1>12. CASE SocketDisconnected \/ SocketError
  BY <1>12 DEF SocketDisconnected, SocketError, gatewayIdle, idleVars
<1>13. CASE SaveFailsInRtc \/ SaveFailsInFlash \/ SaveConfig
  BY <1>13 DEF SaveFailsInRtc, SaveFailsInFlash, SaveConfig, saveIdle
<1>14. CASE UNCHANGED vars
  BY <1>14 DEF vars
<1> QED
  BY <1>1, <1>2, <1>3, <1>4, <1>5, <1>6, <1>7, <1>8, <1>9, <1>10, <1>11, <1>12, <1>13, <1>14
  DEF Next, Chip, Events, OpmodeChanged, MainTask, Reset, PowerCycle, Restart, Wake,
      NullModeInitOkNoMemory, SocketConnectedNoMemory, SaveInterrupted

(* The sleep that is programmed is the one that was decided on.            *)
LEMMA SleepStep ==
  Staged /\ SleepDecided /\ [Next]_vars => SleepDecided'
<1> SUFFICES ASSUME Staged, SleepDecided, [Next]_vars,
                    power' \in {"SLEEPING", "ASLEEP"}
             PROVE  SleepDecided'
  BY DEF SleepDecided
<1>1. CASE TaskDeepSleep
  <2>1. sys_deep_sleep_params \in
          {SleepAfterMeasurement,
           [sleep_type |-> SleepTypeAfterNap(rtc_sleep_count),
            sleep_duration |-> "TWO_HOURS"]}
    BY <1>1, SleepStage DEF Napping, SleepAhead, Done, SendFailed
  <2>2. /\ sys_deep_sleep_params.sleep_type \in {"SAME_AS_PWRUP", "NO_RADIO"}
        /\ sys_deep_sleep_params.sleep_duration = "TWO_HOURS"
    BY <2>1 DEF SleepAfterMeasurement, SleepTypeAfterNap
  <2> QED
    BY <1>1, <2>2 DEF TaskDeepSleep, SleepDecided
<1>2. CASE EnterSleep
  BY <1>2 DEF EnterSleep, SleepDecided
<1>3. CASE UNCHANGED <<power, deep_sleep, sys_deep_sleep_params>>
  BY <1>3 DEF SleepDecided
<1> QED
  BY <1>1, <1>2, <1>3, SleepKept

(* Power-up establishes the invariant.                                     *)
LEMMA InitInv == Init => FirmwareInv
<1> SUFFICES ASSUME Init PROVE FirmwareInv
  OBVIOUS
<1>1. SystemTypeOK
  <2>1. sys_state \in Transitions /\ task_queue \in Queues
    BY TransitionType, QueueType DEF Init, States
  <2>2. rtc_sleep_count \in Nat /\ opmode_events \in 0..MaxOpmodeEvents /\ unread \in 0..1
        /\ cooldown \in 0..SYS_DEEP_SLEEP_TIMES
    BY PowerUpAssumption, EventsAssumption, TimesAssumption DEF Init
  <2>3. NoParams \in SleepParams
    BY DEF NoParams, SleepParams, SleepTypes, Durations
  <2> QED
    BY <2>1, <2>2, <2>3 DEF Init, SystemTypeOK, PlatformTypeOK, Transitions, Queues,
       PowerStates, ResetReasons, TimerStates, OpModes, LinkStates, SocketStates,
       ConfigStates, SectorStates
<1>2. Cleared
  BY DEF Init, Cleared, At
<1> QED
  BY <1>1, <1>2 DEF Init, FirmwareInv, Staged, ServerHasBuffers, ConfigChecked, SleepDecided

(* A step keeps the invariant.                                             *)
LEMMA InvStep == FirmwareInv /\ [Next]_vars => FirmwareInv'
BY TypeStep, StageStep, BuffersStep, ConfigStep, SleepStep DEF FirmwareInv

(* The invariant implies the safety properties that do not depend on the   *)
(* schedule.                                                               *)
LEMMA InvSafe ==
  FirmwareInv => ErrorStopsWifi /\ SleepsOnlyIfAccepted /\ SleepsQuietly
<1> SUFFICES ASSUME FirmwareInv PROVE ErrorStopsWifi /\ SleepsOnlyIfAccepted /\ SleepsQuietly
  OBVIOUS
<1>1. ErrorStopsWifi
  BY DEF FirmwareInv, ErrorStopsWifi, Staged, Cleared, Initialised, Failed, Configuring,
     Configured, CycleAhead, Napping, Joining, Sending, SleepAhead, Done, SendFailed
<1>2. SleepsOnlyIfAccepted
  BY DEF FirmwareInv, SleepsOnlyIfAccepted, Staged, Cleared, Initialised, Failed,
     Configuring, Configured, CycleAhead, Napping, Joining, Sending, SleepAhead, Done,
     SendFailed, Offline, Unsent
<1>3. SleepsQuietly
  BY DEF FirmwareInv, SleepsQuietly, Staged, Cleared, Initialised, Failed, Configuring,
     Configured, CycleAhead, Napping, Joining, Sending, SleepAhead, Done, SendFailed,
     Unlinked
<1> QED
  BY <1>1, <1>2, <1>3

(* While the error LED blinks no handler that arms or stops the timer can  *)
(* run: those of the answer need a socket, those of configuration mode an  *)
(* access point.                                                           *)
LEMMA LedStep == FirmwareInv /\ [Next]_vars =>
   (sys_timer_sw = "LED" => sys_timer_sw' = "LED" \/ power' \in {"BOOTING", "ASLEEP"})
<1> SUFFICES ASSUME FirmwareInv, [Next]_vars, sys_timer_sw = "LED"
             PROVE  sys_timer_sw' = "LED" \/ power' \in {"BOOTING", "ASLEEP"}
  OBVIOUS
<1>1. /\ opmode = "NULL_MODE"
      /\ socket \notin {"CONNECTING", "OPEN"}
      /\ unread = 0
  BY DEF FirmwareInv, Staged, Cleared, Initialised, Failed, Configuring, Configured, CycleAhead,
     Napping, Joining, Sending, SleepAhead, Done, SendFailed, AtMostError, Offline, Unsent
<1>2. CASE Chip
  BY <1>2 DEF Chip, Reset, PowerCycle, Restart, EnterSleep, Wake, Reboot
<1>3. CASE NullModeInitOkNoMemory \/ SocketConnectedNoMemory \/ SaveInterrupted
  BY <1>3 DEF NullModeInitOkNoMemory, SocketConnectedNoMemory, SaveInterrupted, Reboot
<1>4. CASE InitDone \/ NullModeInitOk \/ NullModeInitTaskFailed \/ NullModePost
  BY <1>4 DEF InitDone, NullModeInitOk, NullModeInitTaskFailed, NullModePost
<1>5. CASE StationMode \/ StationApMode \/ TaskConfigMode \/ TaskStateError
  BY <1>5 DEF StationMode, StationApMode, TaskConfigMode, TaskStateError
<1>6. CASE TaskDeepSleep \/ TaskReset \/ TaskCycleFails \/ TaskCycleNap \/ TaskCycleMeasure
  BY <1>6 DEF TaskDeepSleep, TaskReset, TaskCycleFails, TaskCycleNap, TaskCycleMeasure
<1>7. CASE ToggleErrorLed \/ Disconnected \/ DhcpTimeout \/ GotIp
  BY <1>7 DEF ToggleErrorLed, Disconnected, DhcpTimeout, GotIp
<1>8. CASE DnsResolved \/ DnsFailed \/ SocketDisconnected \/ SocketError
  BY <1>8 DEF DnsResolved, DnsFailed, SocketDisconnected, SocketError
<1>9. ~SocketConnected /\ ~ReceiveFirst /\ ~ReceiveRest /\ ~ReceiveTimeout
  <2>1. ~SocketConnected
    BY <1>1 DEF SocketConnected
  <2>2. ~ReceiveFirst
    BY <1>1 DEF ReceiveFirst
  <2>3. ~ReceiveRest
    BY <1>1 DEF ReceiveRest
  <2>4. ~ReceiveTimeout
    BY DEF ReceiveTimeout
  <2> QED
    BY <2>1, <2>2, <2>3, <2>4
<1>10. ~SaveFailsInRtc /\ ~SaveFailsInFlash /\ ~SaveConfig /\ ~RestartTimeout
  BY <1>1 DEF SaveFailsInRtc, SaveFailsInFlash, SaveConfig, Served, RestartTimeout
<1>11. CASE UNCHANGED vars
  BY <1>11 DEF vars
<1> QED
  BY <1>2, <1>3, <1>4, <1>5, <1>6, <1>7, <1>8, <1>9, <1>10, <1>11
  DEF Next, Events, OpmodeChanged, MainTask

(* At the end of a request the station is still linked, or the socket is   *)
(* closed, so that an error does not meet the signal of a success.         *)
LEMMA SignalStep ==
  ASSUME "ap_loss" \notin Faults
  PROVE  FirmwareInv /\ SignalInv /\ [Next]_vars => SignalInv'
<1> SUFFICES ASSUME FirmwareInv, SignalInv, [Next]_vars PROVE SignalInv'
  OBVIOUS
<1>s. Staged /\ (task_queue # <<>> => Tail(task_queue) = <<>>)
  BY DEF FirmwareInv, SystemTypeOK, PlatformTypeOK, SYS_TASK_QUEUE_MAIN_LEN
<1> DEFINE Failing == At("SEND_DATA", "ERROR")
           Elsewhere == ~At("PRE_SEND_DATA", "SEND_DATA")
                        /\ ~At("SEND_DATA", "SEND_DATA_DONE") /\ ~Failing
<1>e. Elsewhere' => SignalInv'
  BY DEF SignalInv
<1>f. Failing' /\ task_queue' = <<>> => SignalInv'
  BY TransitionFields, QueueFacts DEF SignalInv, At
<1>u. UNCHANGED <<sys_state, task_queue, socket, link>> => SignalInv'
  BY DEF SignalInv, At
<1>1. ASSUME NEW why, NEW rf, Reboot(why, rf) PROVE SignalInv'
  <2>1. Elsewhere'
    BY <1>1, TransitionFields DEF Reboot, RamCleared, At
  <2> QED
    BY <2>1, <1>e
<1>2. CASE EnterSleep \/ InitDone \/ NullModeInitOk
  <2>1. ASSUME EnterSleep \/ InitDone PROVE Elsewhere'
    <3>1. EnterSleep => sys_state'.state_current = "NONE"
      BY TransitionFields DEF EnterSleep, RamCleared
    <3>2. power = "BOOTING" => sys_state.state_current = "NONE"
      BY <1>s, TransitionFields DEF Staged, Cleared, Initialised, Failed, Configuring,
         Configured, CycleAhead, Napping, Joining, Sending, SleepAhead, Done, SendFailed, At
    <3>3. InitDone => sys_state'.state_current = "INIT" \/ sys_state' = sys_state
      BY TransitionFields DEF InitDone, InitFails
    <3> QED
      BY <2>1, <3>1, <3>2, <3>3, TransitionFields DEF InitDone, At
  <2>2. ASSUME NullModeInitOk PROVE Elsewhere'
    <3>1. sys_state.state_current = "INIT"
      BY <2>2, TransitionFields DEF NullModeInitOk
    <3>2. sys_state' = sys_state \/ sys_state'.state_current = "INIT_OK"
      BY <2>2, TransitionFields DEF NullModeInitOk, InitOkDecides
    <3> QED
      BY <3>1, <3>2, TransitionFields DEF At
  <2> QED
    BY <1>2, <2>1, <2>2, <1>e
<1>3. CASE NullModeInitTaskFailed \/ StationApMode \/ ToggleErrorLed
  BY <1>3, <1>u DEF NullModeInitTaskFailed, StationApMode, ToggleErrorLed, modeIdle, wifi
<1>4. CASE NullModePost
  <2>1. UNCHANGED <<sys_state, socket, link>>
    BY <1>4 DEF NullModePost, modeIdle
  <2>2. ASSUME Failing' PROVE task_queue' # <<"SEND_DATA_DONE">>
    <3>1. Failing /\ NullModeSignals(sys_state) = {"STATE_ERROR"}
      BY <2>1, <2>2, TransitionFields DEF At, NullModeSignals
    <3>2. task_queue \in {<<>>, <<"STATE_ERROR">>}
      BY <3>1, <1>s, TransitionFields DEF SignalInv, Staged, Cleared, Initialised, Failed,
         Configuring, Configured, CycleAhead, Napping, Joining, Sending, SleepAhead, Done,
         SendFailed, At
    <3>3. task_queue' = <<"STATE_ERROR">>
      BY <1>4, <3>1, <3>2, QueueFacts DEF NullModePost
    <3> QED
      BY <3>3
  <2> QED
    BY <2>1, <2>2 DEF SignalInv, At
<1>5. CASE StationMode \/ TaskCycleFails \/ TaskCycleNap \/ TaskCycleMeasure \/ RestartTimeout
  <2>1. CASE StationMode
    <3>1. Joining
      BY <1>s, <2>1 DEF StationMode, ModeEvent, Staged, Cleared, Initialised, Failed,
         Configuring, Configured, CycleAhead, Napping, Sending, SleepAhead, Done, SendFailed,
         Linked, Unlinked
    <3>2. Elsewhere'
      BY <2>1, <3>1, TransitionFields DEF StationMode, Joining, At
    <3> QED
      BY <3>2, <1>e
  <2>2. CASE TaskCycleFails \/ TaskCycleNap \/ TaskCycleMeasure \/ RestartTimeout
    <3>1. Elsewhere'
      BY <2>2, TransitionFields DEF TaskCycleFails, TaskCycleNap, TaskCycleMeasure,
         RestartTimeout, At
    <3> QED
      BY <3>1, <1>e
  <2> QED
    BY <1>5, <2>1, <2>2
<1>6. CASE TaskConfigMode \/ TaskStateError \/ TaskDeepSleep \/ TaskReset
  <2>1. UNCHANGED <<sys_state, socket, link>> /\ task_queue' = <<>>
    BY <1>6, <1>s DEF TaskConfigMode, TaskStateError, TaskDeepSleep, TaskReset, Task, wifi
  <2> QED
    BY <2>1, QueueFacts DEF SignalInv, At
<1>l. ASSUME NEW left, LeaveNetwork(left) \/ CloseSocket(left)
      PROVE  sys_state' = left \/ Failing'
  BY <1>l DEF LeaveNetwork, CloseSocket, At
<1>7. CASE Disconnected
  <2>1. ASSUME link = "JOINING" PROVE Elsewhere'
    <3>1. Joining
      BY <1>s, <2>1, JoiningStage
    <3> QED
      BY <1>7, <3>1, TransitionFields DEF Disconnected, Joining, At
  <2>2. ASSUME link = "LEAVING" PROVE SignalInv'
    BY <1>7, <2>2, TransitionFields DEF Disconnected, SignalInv, At
  <2> QED
    BY <1>7, <2>1, <2>2, <1>e DEF Disconnected, Fault
<1>8. CASE DhcpTimeout
  <2>1. Joining
    BY <1>8, <1>s, JoiningStage DEF DhcpTimeout
  <2>2. Failing' /\ task_queue' = <<>>
    BY <1>8, <1>l, <2>1 DEF DhcpTimeout, Joining, At
  <2> QED
    BY <2>2, <1>f
<1>9. CASE GotIp
  <2>1. Joining /\ task_queue' = <<>>
    BY <1>9, <1>s, JoiningStage DEF GotIp, Joining
  <2>2. CASE GotIpSleep
    <3>1. Failing' \/ Elsewhere'
      BY <2>2, <1>l, TransitionFields DEF GotIpSleep, At
    <3> QED
      BY <2>1, <3>1, <1>e, <1>f
  <2>3. CASE GotIpNotify
    <3>1. \/ link' = "UP" /\ At("PRE_SEND_DATA", "SEND_DATA")'
          \/ Failing'
      BY <2>3, <1>l DEF GotIpNotify, At
    <3>2. CASE link' = "UP" /\ At("PRE_SEND_DATA", "SEND_DATA")'
      BY <3>2, TransitionFields DEF SignalInv, At
    <3> QED
      BY <2>1, <3>1, <3>2, <1>f
  <2> QED
    BY <1>9, <2>2, <2>3 DEF GotIp
<1>10. CASE DnsResolved \/ DnsFailed \/ SocketConnected
  <2>1. Sending /\ link = "UP" /\ task_queue' = <<>>
    BY <1>10, <1>s, SocketStage DEF DnsResolved, DnsFailed, SocketConnected, gatewayIdle,
       Sending, SignalInv
  <2>2. Failing' \/ UNCHANGED <<sys_state, link>>
    BY <1>10, <1>l DEF DnsResolved, DnsFailed, SocketConnected, ToError, At, wifi
  <2>3. CASE UNCHANGED <<sys_state, link>>
    BY <2>1, <2>3, TransitionFields DEF Sending, SignalInv, At
  <2> QED
    BY <2>1, <2>2, <2>3, <1>f
<1>11. CASE ReceiveFirst
  <2>1. Sending /\ link = "UP" /\ task_queue' = <<>>
    BY <1>11, <1>s, SocketStage DEF ReceiveFirst, Receive, gatewayIdle, Sending, SignalInv
  <2>2. link' = "UP" /\ sys_state' \in {ToDone, ToError}
    BY <1>11, <2>1 DEF ReceiveFirst, Receive, CloseSocket, wifi
  <2> QED
    BY <2>1, <2>2, TransitionFields, QueueFacts DEF SignalInv, At, ToDone, ToError
<1>12. CASE ReceiveRest
  <2>1. Failing' /\ task_queue' = <<>>
    BY <1>12, <1>s, <1>l, RestStage DEF ReceiveRest, Receive, gatewayIdle, ToError, At,
       SystemTypeOK
  <2> QED
    BY <2>1, <1>f
<1>13. CASE ReceiveTimeout
  <2>1. Failing' /\ task_queue' = task_queue
    BY <1>13, <1>l DEF ReceiveTimeout, gatewayIdle, ToError, At
  <2>2. task_queue # <<"SEND_DATA_DONE">>
    BY <1>13, <1>s DEF ReceiveTimeout, SignalInv, Staged, Cleared, Initialised, Failed,
       Configuring, Configured, CycleAhead, Napping, Joining, Sending, SleepAhead, Done,
       SendFailed, AtMostError
  <2> QED
    BY <2>1, <2>2, TransitionFields DEF SignalInv, At
<1>14. CASE SocketDisconnected
  <2>1. socket # "NONE" /\ socket' = "NONE" /\ task_queue' = task_queue
        /\ (sys_state' = sys_state \/ Failing')
    BY <1>14, <1>l DEF SocketDisconnected, gatewayIdle
  <2>2. task_queue # <<"SEND_DATA_DONE">>
    BY <1>s, <2>1 DEF SignalInv, Staged, Cleared, Initialised, Failed, Configuring, Configured,
       CycleAhead, Napping, Joining, Sending, SleepAhead, Done, SendFailed, AtMostError,
       Offline, Unsent, Linked, Unlinked
  <2> QED
    BY <2>1, <2>2 DEF SignalInv
<1>15. CASE SocketError
  BY <1>15 DEF SocketError, gatewayIdle, wifi, SignalInv, At
<1>16. CASE SaveFailsInRtc \/ SaveFailsInFlash \/ SaveConfig
  BY <1>16, <1>u DEF SaveFailsInRtc, SaveFailsInFlash, SaveConfig, saveIdle, wifi
<1>17. CASE UNCHANGED vars
  BY <1>17, <1>u DEF vars
<1> QED
  BY <1>1, <1>2, <1>3, <1>4, <1>5, <1>6, <1>7, <1>8, <1>9, <1>10, <1>11, <1>12, <1>13, <1>14,
     <1>15, <1>16, <1>17
  DEF Next, Chip, Events, OpmodeChanged, MainTask, Reset, PowerCycle, Restart, Wake,
      NullModeInitOkNoMemory, SocketConnectedNoMemory, SaveInterrupted

(* A mode event that posts finds the queue empty or holding the signal it  *)
(* posts.                                                                  *)
LEMMA PostStep ==
  FirmwareInv /\ SignalInv /\ NullModePost =>
    \A signal \in NullModeSignals(sys_state) : task_queue' = <<signal>>
<1> SUFFICES ASSUME FirmwareInv, SignalInv, NullModePost,
                    NEW signal \in NullModeSignals(sys_state)
             PROVE  task_queue' = <<signal>>
  OBVIOUS
<1>1. NullModeSignals(sys_state) = {signal}
  BY DEF NullModeSignals
<1>2. task_queue \in {<<>>, <<signal>>}
  <2>1. opmode_events > 0 /\ opmode = "NULL_MODE"
        /\ ~At("INIT", "INIT_OK") /\ ~At("INIT", "ERROR_INIT_MAIN_TASK")
    BY DEF NullModePost, ModeEvent, At
  <2>2. \/ Failed \/ Configured \/ SleepAhead \/ Done \/ SendFailed
    <3>1. ~Cleared /\ ~Initialised /\ ~CycleAhead /\ ~Joining
      BY <2>1 DEF Cleared, Initialised, CycleAhead, Joining
    <3>2. ~Configuring /\ ~Napping /\ ~Sending
      BY <1>1, TransitionFields DEF Configuring, Napping, Sending, At, NullModeSignals
    <3> QED
      BY <3>1, <3>2 DEF FirmwareInv, Staged
  <2>3. CASE Failed
    BY <1>1, <2>1, <2>3, TransitionFields DEF Failed, AtMostError, At, NullModeSignals
  <2>4. CASE Configured
    <3>1. sys_state = Transition("CONFIG", "RESET_AFTER_CONFIG_SAVE")
      BY <2>4 DEF Configured, At
    <3>2. /\ sys_state # Transition("SEND_DATA", "DEEP_SLEEP")
          /\ sys_state # Transition("SEND_DATA", "SEND_DATA_DONE")
          /\ sys_state.state_next # "ERROR"
      BY <3>1, TransitionFields
    <3>3. signal = "RESET_AFTER_CONFIG_SAVE"
      BY <3>1, <3>2 DEF NullModeSignals
    <3> QED
      BY <2>4, <3>3 DEF Configured
  <2>5. CASE SleepAhead
    BY <1>1, <2>5, TransitionFields DEF SleepAhead, At, NullModeSignals
  <2>6. CASE Done
    BY <1>1, <2>6, TransitionFields DEF Done, At, NullModeSignals
  <2>7. CASE SendFailed
    BY <1>1, <2>7, TransitionFields DEF SendFailed, At, NullModeSignals, SignalInv
  <2> QED
    BY <2>2, <2>3, <2>4, <2>5, <2>6, <2>7
<1> QED
  BY <1>1, <1>2, QueueFacts DEF NullModePost

-------------------------------------------------------------------------------
(* The firmware is always in one of its stages, with the queue, the timer, *)
(* the link and the socket that go with it.                                *)
THEOREM Invariance == Spec => []FirmwareInv
<1> QED
  BY InitInv, InvStep, PTL DEF Spec

(* The types of all state, over any number of boots.                       *)
THEOREM TypeCorrect == Spec => []SystemTypeOK
<1>1. FirmwareInv => SystemTypeOK
  BY DEF FirmwareInv
<1> QED
  BY <1>1, Invariance, PTL

(* The web server never runs without its buffers, although the handler of  *)
(* INIT_OK goes on after a failed allocation.                              *)
THEOREM ServerBuffered == Spec => []ServerHasBuffers
<1>1. FirmwareInv => ServerHasBuffers
  BY DEF FirmwareInv
<1> QED
  BY <1>1, Invariance, PTL

(* While the error LED blinks the WiFi is off.                             *)
THEOREM ErrorQuiet == Spec => []ErrorStopsWifi
<1> QED
  BY InvSafe, Invariance, PTL

(* A boot that sent its request sleeps only if the gateway accepted it,    *)
(* whichever of answer, timeout and disconnection comes first.             *)
THEOREM AcceptedBeforeSleep == Spec => []SleepsOnlyIfAccepted
<1> QED
  BY InvSafe, Invariance, PTL

(* The error LED blinks until the next boot, although the answer timeout   *)
(* and the restart use the same timer.                                     *)
THEOREM ErrorLedStaysOn == Spec => ErrorLedStays
<1>1. FirmwareInv /\ [Next]_vars =>
        [sys_timer_sw = "LED" => sys_timer_sw' = "LED" \/ power' \in {"BOOTING", "ASLEEP"}]_vars
  BY LedStep
<1> QED
  BY <1>1, Invariance, PTL DEF Spec, ErrorLedStays

(* A signal posted because of a mode event is the one that is handled, if  *)
(* no access point is lost: nobody looks whether system_os_post() took it. *)
THEOREM SignalsKept ==
  ASSUME "ap_loss" \notin Faults
  PROVE  Spec => SignalKept
<1>1. Init => SignalInv
  BY TransitionFields DEF Init, SignalInv, At
<1>2. FirmwareInv /\ SignalInv /\ [Next]_vars =>
        [NullModePost => \A signal \in NullModeSignals(sys_state) : task_queue' = <<signal>>]_vars
  BY PostStep
<1> QED
  BY <1>1, <1>2, SignalStep, Invariance, PTL DEF Spec, SignalKept

-------------------------------------------------------------------------------
(* The firmware implements the sleep cycle, and so inherits what is proved *)
(* of it.  Every step of module Thirst, in a state of FirmwareInv, is a    *)
(* step of SleepCycle under the mapping of Thirst or changes none of its   *)
(* variables; the theorems of SleepCycleProofs, instantiated with the same *)
(* mapping, then hold of the firmware.                                     *)

(* The phase of a boot depends on the chip and the last transition only.   *)
Measuring ==
  {Transition("DEEP_SLEEP_CYCLE", "PRE_SEND_DATA"), Transition("PRE_SEND_DATA", "SEND_DATA"),
   Transition("PRE_SEND_DATA", "ERROR"), Transition("SEND_DATA", "ERROR"),
   Transition("SEND_DATA", "DEEP_SLEEP"), Transition("SEND_DATA", "SEND_DATA_DONE")}
Idling ==
  {Transition("INIT", "ERROR"), Transition("INIT", "ERROR_INIT_MAIN_TASK"),
   Transition("INIT_OK", "ERROR"), Transition("INIT_OK", "CONFIG"),
   Transition("CONFIG", "RESET_AFTER_CONFIG_SAVE"), Transition("DEEP_SLEEP_CYCLE", "ERROR")}
Starting ==
  {Transition("NONE", "NONE"), Transition("INIT", "INIT_OK"),
   Transition("INIT_OK", "DEEP_SLEEP_CYCLE")}

LEMMA PhaseFacts ==
  /\ \A state : /\ PhaseOf("BOOTING", state) = "boot"
                /\ PhaseOf("SLEEPING", state) = "asleep"
                /\ PhaseOf("ASLEEP", state) = "asleep"
  /\ \A life \in {"ON", "RESTARTING"} :
       /\ \A state \in Starting : PhaseOf(life, state) = "boot"
       /\ \A state \in Idling : PhaseOf(life, state) = "idle"
       /\ \A state \in Measuring : PhaseOf(life, state) = "measure"
       /\ PhaseOf(life, Transition("DEEP_SLEEP_CYCLE", "DEEP_SLEEP")) = "nap"
<1>1. \A state : /\ PhaseOf("BOOTING", state) = "boot"
                /\ PhaseOf("SLEEPING", state) = "asleep"
                /\ PhaseOf("ASLEEP", state) = "asleep"
  BY DEF PhaseOf
<1>2. ASSUME NEW life \in {"ON", "RESTARTING"}
      PROVE  /\ \A state \in Starting : PhaseOf(life, state) = "boot"
             /\ \A state \in Idling : PhaseOf(life, state) = "idle"
             /\ \A state \in Measuring : PhaseOf(life, state) = "measure"
             /\ PhaseOf(life, Transition("DEEP_SLEEP_CYCLE", "DEEP_SLEEP")) = "nap"
  <2>1. ASSUME NEW state \in Starting PROVE PhaseOf(life, state) = "boot"
    <3>1. /\ state.state_next \in {"NONE", "INIT_OK", "DEEP_SLEEP_CYCLE"}
          /\ state.state_current \notin {"PRE_SEND_DATA", "SEND_DATA"}
      BY <2>1, TransitionFields DEF Starting
    <3>2. state # Transition("DEEP_SLEEP_CYCLE", "DEEP_SLEEP")
      BY <3>1, TransitionFields
    <3> QED
      BY <3>1, <3>2 DEF PhaseOf
  <2>2. ASSUME NEW state \in Idling PROVE PhaseOf(life, state) = "idle"
    <3>1. /\ state.state_next \notin {"NONE", "INIT_OK", "DEEP_SLEEP_CYCLE", "PRE_SEND_DATA",
                                     "DEEP_SLEEP"}
          /\ state.state_current \notin {"PRE_SEND_DATA", "SEND_DATA"}
      BY <2>2, TransitionFields DEF Idling
    <3>2. state # Transition("DEEP_SLEEP_CYCLE", "DEEP_SLEEP")
      BY <3>1, TransitionFields
    <3> QED
      BY <3>1, <3>2 DEF PhaseOf
  <2>3. ASSUME NEW state \in Measuring PROVE PhaseOf(life, state) = "measure"
    <3>1. /\ state.state_next \notin {"NONE", "INIT_OK", "DEEP_SLEEP_CYCLE"}
          /\ \/ state.state_next = "PRE_SEND_DATA"
             \/ state.state_current \in {"PRE_SEND_DATA", "SEND_DATA"}
          /\ state.state_next = "DEEP_SLEEP" => state.state_current = "SEND_DATA"
      BY <2>3, TransitionFields DEF Measuring
    <3>2. state # Transition("DEEP_SLEEP_CYCLE", "DEEP_SLEEP")
      BY <3>1, TransitionFields
    <3> QED
      BY <3>1, <3>2 DEF PhaseOf
  <2>4. PhaseOf(life, Transition("DEEP_SLEEP_CYCLE", "DEEP_SLEEP")) = "nap"
    BY TransitionFields DEF PhaseOf
  <2> QED
    BY <2>1, <2>2, <2>3, <2>4
<1> QED
  BY <1>1, <1>2

(* The stages of a measuring boot.                                         *)
LEMMA MeasuringStages ==
  /\ Joining \/ Sending \/ SleepAhead \/ Done \/ SendFailed => sys_state \in Measuring
  /\ \A left : left \in Measuring /\ (LeaveNetwork(left) \/ CloseSocket(left))
        => sys_state' \in Measuring
  /\ ToError \in Measuring /\ ToDone \in Measuring
BY DEF Joining, Sending, SleepAhead, Done, SendFailed, Measuring, At, LeaveNetwork,
   CloseSocket, ToError, ToDone

(* What no variable of SleepCycle sees.                                    *)
LEMMA Stutter ==
  ASSUME Phase' = Phase, UNCHANGED <<chip, rtc_sleep_count, deep_sleep, history>>
  PROVE  UNCHANGED Cycle!vars
BY DEF Cycle!vars, chip, history

LEMMA PhaseKept ==
  ASSUME power' = power, \/ sys_state' = sys_state
                         \/ power \in PowerStates /\ sys_state \in Measuring /\ sys_state' \in Measuring
  PROVE  Phase' = Phase
<1>1. CASE sys_state' = sys_state
  BY <1>1 DEF Phase
<1>2. CASE power \in PowerStates /\ sys_state \in Measuring /\ sys_state' \in Measuring
  BY <1>2, PhaseFacts DEF Phase, PowerStates
<1> QED
  BY <1>1, <1>2

LEMMA RebootRefined ==
  ASSUME NEW why \in {"FAULT_RST", "SOFT_RESTART"}, Reboot(why, TRUE),
         UNCHANGED <<rtc_sleep_count, naps, cooldown>>
  PROVE  Cycle!Reset
<1>1. Phase' = "boot"
  BY PhaseFacts DEF Reboot, Phase
<1>2. Cycle!Reboot(why)
  BY <1>1 DEF Cycle!Reboot, Reboot
<1> QED
  BY <1>2 DEF Cycle!Reset, Reboot

(* Every step of the firmware is a step of the cycle or none.              *)
LEMMA RefinementStep ==
  FirmwareInv /\ [Next]_vars => [Cycle!Next]_(Cycle!vars)
<1> SUFFICES ASSUME FirmwareInv, [Next]_vars PROVE Cycle!Next \/ UNCHANGED Cycle!vars
  OBVIOUS
<1>s. Staged /\ power \in PowerStates
  BY DEF FirmwareInv, SystemTypeOK, PlatformTypeOK
<1>1. CASE Reset \/ Restart \/ NullModeInitOkNoMemory \/ SocketConnectedNoMemory
  <2>1. Cycle!Reset
    BY <1>1, RebootRefined DEF Reset, Restart, NullModeInitOkNoMemory,
       SocketConnectedNoMemory
  <2> QED
    BY <2>1 DEF Cycle!Next
<1>2. CASE PowerCycle
  <2>1. Phase' = "boot"
    BY <1>2, PhaseFacts DEF PowerCycle, Reboot, Phase
  <2>2. Cycle!PowerUp
    BY <1>2, <2>1 DEF PowerCycle, Reboot, Cycle!PowerUp, Cycle!Reboot
  <2> QED
    BY <2>2 DEF Cycle!Next
<1>3. CASE Wake
  <2>1. Phase = "asleep" /\ Phase' = "boot"
    BY <1>3, PhaseFacts DEF Wake, Reboot, Phase
  <2>2. radio' = (deep_sleep.sleep_type = "SAME_AS_PWRUP")
    BY <1>3 DEF Wake, Reboot, FirmwareInv, SleepDecided
  <2>3. Cycle!Wake
    BY <1>3, <2>1, <2>2 DEF Wake, Reboot, Cycle!Wake, Cycle!Reboot
  <2> QED
    BY <2>3 DEF Cycle!Next
<1>4. CASE EnterSleep
  <2>1. Phase' = Phase
    BY <1>4, PhaseFacts DEF EnterSleep, Phase
  <2> QED
    BY <1>4, <2>1, Stutter DEF EnterSleep
<1>5. CASE InitDone
  <2>1. /\ Phase = "boot" /\ power' = "ON" /\ sys_state = Transition("NONE", "NONE")
        /\ UNCHANGED <<chip, rtc_sleep_count, deep_sleep, history>>
    BY <1>5, <1>s, PhaseFacts DEF InitDone, Phase, Staged, Cleared, Initialised, Failed,
       Configuring, Configured, CycleAhead, Napping, Joining, Sending, SleepAhead, Done,
       SendFailed, At
  <2>2. CASE sys_state' \in Starting
    <3>1. Phase' = "boot"
      BY <2>1, <2>2, PhaseFacts DEF Phase
    <3> QED
      BY <2>1, <3>1, Stutter
  <2>3. CASE sys_state' \in Idling
    <3>1. Phase' = "idle"
      BY <2>1, <2>3, PhaseFacts DEF Phase
    <3>2. Cycle!GiveUp
      BY <2>1, <3>1 DEF Cycle!GiveUp, chip, history
    <3> QED
      BY <3>2 DEF Cycle!Next
  <2> QED
    BY <1>5, <2>1, <2>2, <2>3 DEF InitDone, InitFails, Starting, Idling
<1>6. CASE NullModeInitOk
  <2>1. Initialised
    BY <1>6, <1>s, InitOkStage DEF NullModeInitOk
  <2>2. /\ Phase = "boot" /\ power' = "ON"
        /\ UNCHANGED <<chip, rtc_sleep_count, deep_sleep, history>>
    BY <1>6, <2>1, PhaseFacts DEF NullModeInitOk, Initialised, At, Phase, modeIdle, Starting
  <2>3. CASE sys_state' = Transition("INIT_OK", "DEEP_SLEEP_CYCLE")
    <3>1. Phase' = "boot"
      BY <2>2, <2>3, PhaseFacts DEF Phase, Starting
    <3> QED
      BY <2>2, <3>1, Stutter
  <2>4. CASE sys_state' \in {Transition("INIT_OK", "CONFIG"), Transition("INIT_OK", "ERROR")}
    <3>1. Phase' = "idle"
      BY <2>2, <2>4, PhaseFacts DEF Phase, Idling
    <3>2. Cycle!GiveUp
      BY <2>2, <3>1 DEF Cycle!GiveUp, chip, history
    <3> QED
      BY <3>2 DEF Cycle!Next
  <2> QED
    BY <1>6, <2>3, <2>4 DEF NullModeInitOk, InitOkDecides
<1>7. CASE NullModeInitTaskFailed \/ NullModePost \/ StationApMode
  BY <1>7, PhaseKept, Stutter DEF NullModeInitTaskFailed, NullModePost, StationApMode, modeIdle
<1>8. CASE StationMode
  <2>1. sys_state \in Measuring
    BY <1>8, <1>s, MeasuringStages DEF StationMode, ModeEvent, Staged, Cleared,
       Initialised, Failed, Configuring, Configured, CycleAhead, Napping, Unlinked
  <2>2. sys_state' \in Measuring
    BY <1>8, <2>1 DEF StationMode, Measuring
  <2> QED
    BY <1>8, <1>s, <2>1, <2>2, PhaseKept, Stutter DEF StationMode, modeIdle
<1>9. CASE TaskConfigMode \/ TaskStateError \/ ToggleErrorLed
  BY <1>9, PhaseKept, Stutter DEF TaskConfigMode, TaskStateError, ToggleErrorLed, idleVars
<1>10. CASE TaskDeepSleep
  <2>1. \/ Napping
        \/ SleepAhead \/ Done \/ SendFailed
    BY <1>10, <1>s, SleepStage
  <2>2. power' = "SLEEPING" /\ Phase' = "asleep"
    BY <1>10, PhaseFacts DEF TaskDeepSleep, Phase
  <2>3. CASE power = "SLEEPING"
    <3>1. Phase = "asleep"
      BY <2>3, PhaseFacts DEF Phase
    <3>2. deep_sleep' = deep_sleep
      BY <1>10, <2>3 DEF TaskDeepSleep, FirmwareInv, SleepDecided
    <3> QED
      BY <1>10, <2>2, <2>3, <3>1, <3>2, Stutter DEF TaskDeepSleep, history
  <2>4. CASE power = "ON"
    <3>1. CASE Napping
      <4>1. Phase = "nap"
        BY <2>4, <3>1, PhaseFacts DEF Napping, At, Phase
      <4>2. (deep_sleep'.sleep_type = "SAME_AS_PWRUP") = Cycle!RadioAfterNap(rtc_sleep_count)
        BY <1>10, <3>1 DEF TaskDeepSleep, Napping, SleepTypeAfterNap, Cycle!RadioAfterNap
      <4>3. Cycle!Sleep
        BY <1>10, <2>2, <2>4, <4>1, <4>2 DEF TaskDeepSleep, Cycle!Sleep, chip
      <4> QED
        BY <4>3 DEF Cycle!Next
    <3>2. CASE SleepAhead \/ Done \/ SendFailed
      <4>1. Phase = "measure"
        BY <2>4, <3>2, MeasuringStages, PhaseFacts DEF Phase
      <4>2. (deep_sleep'.sleep_type = "SAME_AS_PWRUP") = (SYS_DEEP_SLEEP_TIMES = 1)
        <5>1. deep_sleep' = SleepAfterMeasurement
          BY <1>10, <1>s, <3>2, SleepStage DEF TaskDeepSleep, SleepAhead, Done, SendFailed, Napping, At
        <5> QED
          BY <5>1 DEF SleepAfterMeasurement
      <4>3. Cycle!Sleep
        BY <1>10, <2>2, <2>4, <4>1, <4>2 DEF TaskDeepSleep, Cycle!Sleep, chip
      <4> QED
        BY <4>3 DEF Cycle!Next
    <3> QED
      BY <2>1, <3>1, <3>2
  <2> QED
    BY <2>1, <2>3, <2>4 DEF Napping, SleepAhead, Done, SendFailed
<1>11. CASE TaskReset
  <2>1. Configured
    BY <1>11, <1>s, QueueFacts DEF TaskReset, Task, Staged, Cleared, Initialised, Failed,
       Configuring, CycleAhead, Napping, Joining, Sending, SleepAhead, Done, SendFailed,
       AtMostError
  <2>2. Phase' = Phase
    BY <1>11, <2>1, PhaseFacts DEF TaskReset, Configured, At, Phase, Idling
  <2> QED
    BY <1>11, <2>2, Stutter DEF TaskReset
<1>12. CASE TaskCycleFails \/ TaskCycleNap \/ TaskCycleMeasure
  <2>1. CycleAhead
    BY <1>12, <1>s, CycleStage DEF TaskCycleFails, TaskCycleNap, TaskCycleMeasure
  <2>2. Phase = "boot"
    BY <2>1, PhaseFacts DEF CycleAhead, At, Phase, Starting
  <2>3. CountedSleeps = Cycle!Effective(rtc_sleep_count, reset_reason)
    BY DEF CountedSleeps, Cycle!Effective, Cycle!Restarted
  <2>4. CASE TaskCycleFails
    <3>1. Phase' = "idle"
      BY <2>1, <2>4, PhaseFacts DEF TaskCycleFails, idleVars, CycleAhead, Phase, Idling
    <3>2. Cycle!GiveUp
      BY <2>2, <2>4, <3>1 DEF TaskCycleFails, Cycle!GiveUp, idleVars, chip, history
    <3> QED
      BY <3>2 DEF Cycle!Next
  <2>5. CASE TaskCycleNap
    <3>1. Phase' = "nap"
      BY <2>1, <2>5, PhaseFacts DEF TaskCycleNap, CycleAhead, Phase
    <3>2. Cycle!CountNap
      BY <2>2, <2>3, <2>5, <3>1 DEF TaskCycleNap, Cycle!CountNap, Paid, Cycle!Paid, chip
    <3> QED
      BY <3>2 DEF Cycle!Next
  <2>6. CASE TaskCycleMeasure
    <3>1. Phase' = "measure"
      BY <2>1, <2>6, PhaseFacts DEF TaskCycleMeasure, CycleAhead, Phase, Measuring
    <3>2. Cycle!StartMeasurement
      BY <2>2, <2>3, <2>6, <3>1 DEF TaskCycleMeasure, Cycle!StartMeasurement, Paid,
         Cycle!Paid, chip
    <3> QED
      BY <3>2 DEF Cycle!Next
  <2> QED
    BY <1>12, <2>4, <2>5, <2>6
<1>13. CASE unread = 0 /\ Disconnected
  <2>1. sys_state \in Measuring
    BY <1>13, <1>s, MeasuringStages DEF Disconnected, Staged, Cleared, Initialised, Failed,
       Configuring, Configured, CycleAhead, Napping, Offline
  <2>2. sys_state' \in Measuring
    BY <1>13, <2>1 DEF Disconnected, Measuring
  <2> QED
    BY <1>13, <1>s, <2>1, <2>2, PhaseKept, Stutter DEF Disconnected, idleVars
<1>14. CASE DhcpTimeout \/ GotIp
  <2>1. sys_state \in Measuring
    BY <1>14, <1>s, JoiningStage, MeasuringStages DEF DhcpTimeout, GotIp
  <2>2. sys_state' \in Measuring
    BY <1>14, MeasuringStages DEF DhcpTimeout, GotIp, GotIpNotify, GotIpSleep, Measuring, ToError
  <2> QED
    BY <1>14, <1>s, <2>1, <2>2, PhaseKept, Stutter DEF DhcpTimeout, GotIp, idleVars
<1>15. CASE DnsResolved \/ DnsFailed
  <2>1. sys_state \in Measuring
    BY <1>15, <1>s, SocketStage, MeasuringStages DEF DnsResolved, DnsFailed
  <2>2. sys_state' \in Measuring
    BY <1>15, <2>1, MeasuringStages DEF DnsResolved, DnsFailed
  <2> QED
    BY <1>15, <1>s, <2>1, <2>2, PhaseKept, Stutter DEF DnsResolved, DnsFailed, gatewayIdle,
       idleVars
<1>16. CASE SocketConnected
  <2>1. Sending /\ sys_state \in Measuring /\ ~notified
    BY <1>16, <1>s, SocketStage, MeasuringStages DEF SocketConnected, Sending
  <2>2. CASE /\ notified' = TRUE
             /\ cooldown' = SYS_DEEP_SLEEP_TIMES
             /\ UNCHANGED <<sys_state, wifi>>
    <3>1. Phase = "measure" /\ Phase' = "measure"
      BY <1>16, <2>1, <2>2, PhaseFacts DEF SocketConnected, gatewayIdle, idleVars, Sending,
         Phase
    <3>2. Cycle!Notify
      BY <1>16, <2>1, <2>2, <3>1 DEF SocketConnected, gatewayIdle, idleVars, chip, Cycle!Notify
    <3> QED
      BY <3>2 DEF Cycle!Next
  <2>3. CASE CloseSocket(ToError) /\ UNCHANGED <<notified, cooldown>>
    <3>1. sys_state' \in Measuring
      BY <2>3, MeasuringStages
    <3> QED
      BY <1>16, <1>s, <2>1, <2>3, <3>1, PhaseKept, Stutter DEF SocketConnected, gatewayIdle,
         idleVars, history
  <2> QED
    BY <1>16, <2>2, <2>3 DEF SocketConnected
<1>17. CASE ReceiveFirst \/ ReceiveRest
  <2>1. sys_state \in Measuring
    BY <1>17, <1>s, SocketStage, RestStage, MeasuringStages DEF ReceiveFirst, ReceiveRest
  <2>2. /\ sys_state' \in Measuring
        /\ power' = power /\ UNCHANGED <<chip, rtc_sleep_count, deep_sleep>>
        /\ UNCHANGED <<naps, cooldown, notified>>
    BY <1>17, MeasuringStages DEF ReceiveFirst, ReceiveRest, Receive, gatewayIdle, idleVars
  <2>3. Phase' = Phase
    BY <1>s, <2>1, <2>2, PhaseKept
  <2> QED
    BY <2>2, <2>3 DEF Cycle!vars, chip
<1>18. CASE unread = 0 /\ ReceiveTimeout
  <2>1. sys_state \in Measuring
    BY <1>18, <1>s, MeasuringStages DEF ReceiveTimeout, Staged, Cleared, Initialised, Failed,
       Configuring, Configured, CycleAhead, Napping, AtMostError
  <2>2. sys_state' \in Measuring
    BY <1>18, MeasuringStages DEF ReceiveTimeout
  <2> QED
    BY <1>18, <1>s, <2>1, <2>2, PhaseKept, Stutter DEF ReceiveTimeout, gatewayIdle, idleVars
<1>19. CASE unread = 0 /\ SocketDisconnected
  <2>1. sys_state \in Measuring
    BY <1>19, <1>s, MeasuringStages DEF SocketDisconnected, Staged, Cleared, Initialised,
       Failed, Configuring, Configured, CycleAhead, Napping, Offline, Unsent
  <2>2. sys_state' \in Measuring
    BY <1>19, <2>1, MeasuringStages DEF SocketDisconnected
  <2> QED
    BY <1>19, <1>s, <2>1, <2>2, PhaseKept, Stutter DEF SocketDisconnected, gatewayIdle,
       idleVars
<1>20. CASE SocketError
  BY <1>20, PhaseKept, Stutter DEF SocketError, gatewayIdle, idleVars
<1>21. ASSUME Configuring PROVE Phase = "idle"
  BY <1>21, PhaseFacts DEF Configuring, At, Phase, Idling
<1>22. CASE SaveFailsInRtc \/ SaveFailsInFlash \/ SaveConfig
  <2>1. Phase = "idle" /\ Phase' = Phase
    BY <1>22, <1>s, <1>21, ServedStage, PhaseKept DEF SaveFailsInRtc, SaveFailsInFlash,
       SaveConfig, Served, saveIdle
  <2>2. CASE SaveFailsInRtc
    BY <2>1, <2>2, Stutter DEF SaveFailsInRtc, saveIdle, history
  <2>3. CASE SaveFailsInFlash \/ SaveConfig
    <3>1. Cycle!ClearCount
      BY <2>1, <2>3 DEF SaveFailsInFlash, SaveConfig, saveIdle, chip, Cycle!ClearCount
    <3> QED
      BY <3>1 DEF Cycle!Next
  <2> QED
    BY <1>22, <2>2, <2>3
<1>23. CASE SaveInterrupted
  <2>1. Phase = "idle"
    BY <1>23, <1>s, <1>21, ServedStage DEF SaveInterrupted, Served
  <2>2. Phase' = "boot"
    BY <1>23, PhaseFacts DEF SaveInterrupted, Reboot, Phase
  <2>3. CASE Reboot("FAULT_RST", TRUE) /\ rtc_sleep_count' = 0 /\ UNCHANGED cooldown
    <3>1. Cycle!ClearAndReset
      BY <1>23, <2>1, <2>2, <2>3 DEF SaveInterrupted, Reboot, Cycle!ClearAndReset,
         Cycle!Reboot
    <3> QED
      BY <3>1 DEF Cycle!Next
  <2>4. CASE /\ Reboot("DEFAULT_RST", TRUE)
             /\ rtc_sleep_count' \in PowerUpCounts
             /\ cooldown' = 0
    <3>1. Cycle!PowerUp
      BY <1>23, <2>2, <2>4 DEF SaveInterrupted, Reboot, Cycle!PowerUp, Cycle!Reboot
    <3> QED
      BY <3>1 DEF Cycle!Next
  <2> QED
    BY <1>23, <2>3, <2>4 DEF SaveInterrupted
<1>24. CASE RestartTimeout
  <2>1. Configuring
    BY <1>24, <1>s DEF RestartTimeout, Staged, Cleared, Initialised, Failed, Configured,
       CycleAhead, Napping, Joining, Sending, SleepAhead, Done, SendFailed, AtMostError
  <2>2. Phase' = "idle"
    BY <1>24, <2>1, PhaseFacts DEF RestartTimeout, Configuring, idleVars, Phase, Idling
  <2> QED
    BY <1>21, <1>24, <2>1, <2>2, Stutter DEF RestartTimeout, idleVars
<1>25. CASE UNCHANGED vars
  BY <1>25, PhaseKept, Stutter DEF vars, chip, history
<1> QED
  BY <1>1, <1>2, <1>3, <1>4, <1>5, <1>6, <1>7, <1>8, <1>9, <1>10, <1>11, <1>12, <1>13,
     <1>14, <1>15, <1>16, <1>17, <1>18, <1>19, <1>20, <1>22, <1>23, <1>24, <1>25
  DEF Next, Chip, Events, OpmodeChanged, MainTask

-------------------------------------------------------------------------------
(* Power-up of the firmware is power-up of the cycle.                      *)
LEMMA InitRefined == Init => Cycle!Init
<1> SUFFICES ASSUME Init PROVE Cycle!Init
  OBVIOUS
<1>1. Phase = "boot"
  BY PhaseFacts DEF Init, Phase
<1>2. deep_sleep.sleep_type # "SAME_AS_PWRUP"
  BY DEF Init, NoParams
<1> QED
  BY <1>1, <1>2 DEF Init, Cycle!Init

(* The firmware implements the sleep cycle: tasks, events, callbacks and   *)
(* failures in any order never take it off the schedule.                   *)
THEOREM RefinesSleepCycle == Spec => ImplementsSleepCycle
<1> QED
  BY InitRefined, Invariance, RefinementStep, PTL DEF Spec, ImplementsSleepCycle, Cycle!Spec

-------------------------------------------------------------------------------
(* What SleepCycleProofs proves of the cycle, for the cycle of the firmware. *)
CycleProofs == INSTANCE SleepCycleProofs WITH
  wakeRadio <- deep_sleep.sleep_type = "SAME_AS_PWRUP",
  phase <- Phase

(* The two instances of SleepCycle are one specification.                  *)
LEMMA SameCycle ==
  /\ Cycle!Init <=> CycleProofs!Init
  /\ [Cycle!Next]_(Cycle!vars) <=> [CycleProofs!Next]_(CycleProofs!vars)
<1>1. Cycle!Init <=> CycleProofs!Init
  BY DEF Cycle!Init, CycleProofs!Init
<1>2. Cycle!CountNap <=> CycleProofs!CountNap
  BY DEF Cycle!CountNap, CycleProofs!CountNap, Cycle!Effective, CycleProofs!Effective,
     Cycle!Restarted, CycleProofs!Restarted, Cycle!Paid, CycleProofs!Paid
<1>3. Cycle!StartMeasurement <=> CycleProofs!StartMeasurement
  BY DEF Cycle!StartMeasurement, CycleProofs!StartMeasurement, Cycle!Effective,
     CycleProofs!Effective, Cycle!Restarted, CycleProofs!Restarted, Cycle!Paid,
     CycleProofs!Paid
<1>4. /\ Cycle!Notify <=> CycleProofs!Notify
      /\ Cycle!GiveUp <=> CycleProofs!GiveUp
      /\ Cycle!ClearCount <=> CycleProofs!ClearCount
  BY DEF Cycle!Notify, CycleProofs!Notify, Cycle!GiveUp, CycleProofs!GiveUp,
     Cycle!ClearCount, CycleProofs!ClearCount
<1>5. Cycle!Sleep <=> CycleProofs!Sleep
  BY DEF Cycle!Sleep, CycleProofs!Sleep, Cycle!RadioAfterNap, CycleProofs!RadioAfterNap
<1>6. Cycle!Wake <=> CycleProofs!Wake
  BY DEF Cycle!Wake, CycleProofs!Wake, Cycle!Reboot, CycleProofs!Reboot
<1>7. Cycle!Reset <=> CycleProofs!Reset
  BY DEF Cycle!Reset, CycleProofs!Reset, Cycle!Reboot, CycleProofs!Reboot
<1>8. Cycle!ClearAndReset <=> CycleProofs!ClearAndReset
  BY DEF Cycle!ClearAndReset, CycleProofs!ClearAndReset, Cycle!Reboot, CycleProofs!Reboot
<1>9. Cycle!PowerUp <=> CycleProofs!PowerUp
  BY DEF Cycle!PowerUp, CycleProofs!PowerUp, Cycle!Reboot, CycleProofs!Reboot
<1>10. Cycle!Next <=> CycleProofs!Next
  BY <1>2, <1>3, <1>4, <1>5, <1>6, <1>7, <1>8, <1>9 DEF Cycle!Next, CycleProofs!Next
<1>11. UNCHANGED Cycle!vars <=> UNCHANGED CycleProofs!vars
  BY DEF Cycle!vars, CycleProofs!vars
<1> QED
  BY <1>1, <1>10, <1>11

(* The inductive invariant of the cycle holds of the firmware.             *)
THEOREM ScheduleInvariance == Spec => []CycleProofs!IInv
<1>1. CycleProofs!Init => CycleProofs!IInv
  BY CycleProofs!InitInv, TimesAssumption, PowerUpAssumption
<1>2. CycleProofs!IInv /\ [CycleProofs!Next]_(CycleProofs!vars) => CycleProofs!IInv'
  BY CycleProofs!InvStep, TimesAssumption, PowerUpAssumption
<1>3. Init => CycleProofs!IInv
  BY <1>1, InitRefined, SameCycle
<1>4. FirmwareInv /\ CycleProofs!IInv /\ [Next]_vars => CycleProofs!IInv'
  BY <1>2, RefinementStep, SameCycle
<1> QED
  BY <1>3, <1>4, Invariance, PTL DEF Spec

(* The programmed radio option agrees with the boot to come.               *)
LEMMA ScheduleSleep == FirmwareInv /\ CycleProofs!IInv => SleepsSoundly
<1> SUFFICES ASSUME FirmwareInv, CycleProofs!IInv PROVE SleepsSoundly
  OBVIOUS
<1>1. ASSUME power \in {"SLEEPING", "ASLEEP"}
      PROVE  /\ deep_sleep.sleep_duration # "ZERO"
             /\ deep_sleep.sleep_type = IF NextBootMeasures THEN "SAME_AS_PWRUP" ELSE "NO_RADIO"
  <2>1. Phase = "asleep"
    BY <1>1, PhaseFacts DEF Phase
  <2>2. deep_sleep.sleep_type = "SAME_AS_PWRUP" <=> CycleProofs!Measures(rtc_sleep_count)
    BY <2>1 DEF CycleProofs!IInv, CycleProofs!RadioOnlyForMeasurement
  <2>3. CycleProofs!Measures(rtc_sleep_count) <=> NextBootMeasures
    BY DEF CycleProofs!Measures, CycleProofs!Restarted, NextBootMeasures
  <2>4. /\ deep_sleep.sleep_type \in {"SAME_AS_PWRUP", "NO_RADIO"}
        /\ deep_sleep.sleep_duration = "TWO_HOURS"
    BY <1>1 DEF FirmwareInv, SleepDecided
  <2> QED
    BY <2>2, <2>3, <2>4
<1> QED
  BY <1>1, InvSafe DEF SleepsSoundly, SleepProgrammed

(* Whatever the boot was about and however it ended, the device goes to    *)
(* sleep quietly, for two hours, and wakes with the radio on exactly if it *)
(* is going to measure.                                                    *)
THEOREM SoundSleep == Spec => []SleepsSoundly
<1> QED
  BY ScheduleSleep, Invariance, ScheduleInvariance, PTL

(* A station has its radio: it is one in a boot that measures.             *)
LEMMA ScheduleStation ==
  ASSUME "hash" \notin Faults
  PROVE  FirmwareInv /\ CycleProofs!IInv => StationReady
<1> SUFFICES ASSUME FirmwareInv, CycleProofs!IInv, opmode = "STATION_MODE"
             PROVE  radio /\ config_current = "SAVED"
  BY DEF StationReady
<1>1. config_current = "SAVED"
  BY DEF FirmwareInv, ConfigChecked, Fault
<1>2. Joining \/ Sending \/ SleepAhead \/ Done \/ SendFailed
  BY DEF FirmwareInv, Staged, Cleared, Initialised, Failed, Configuring, Configured,
     CycleAhead, Napping
<1>3. power = "ON"
  BY <1>2 DEF Joining, Sending, SleepAhead, Done, SendFailed, Unlinked
<1>4. Phase = "measure"
  BY <1>2, <1>3, PhaseFacts, MeasuringStages DEF Phase
<1>5. radio
  BY <1>4 DEF CycleProofs!IInv, CycleProofs!RadioForMeasurement
<1> QED
  BY <1>1, <1>5

(* The device joins a network only with the radio on and with the          *)
(* configuration that was saved, if no damaged sector has the checksum of  *)
(* a whole one.                                                            *)
THEOREM StationIsReady ==
  ASSUME "hash" \notin Faults
  PROVE  Spec => []StationReady
<1> QED
  BY ScheduleStation, Invariance, ScheduleInvariance, PTL

(* At most SYS_DEEP_SLEEP_TIMES sleeps of the firmware between two         *)
(* measurements, and as many boots between two notifications.              *)
THEOREM OnSchedule == Spec => [](Cycle!MeasuresInTime /\ Cycle!NoEarlyRepeat)
<1>1. CycleProofs!IInv => CycleProofs!MeasuresInTime
  BY CycleProofs!InvBoundsNaps, TimesAssumption, PowerUpAssumption
<1>2. CycleProofs!IInv => CycleProofs!NoEarlyRepeat
  BY DEF CycleProofs!IInv
<1>3. CycleProofs!IInv => Cycle!MeasuresInTime /\ Cycle!NoEarlyRepeat
  BY <1>1, <1>2 DEF Cycle!MeasuresInTime, CycleProofs!MeasuresInTime, Cycle!NoEarlyRepeat,
     CycleProofs!NoEarlyRepeat
<1> QED
  BY <1>3, ScheduleInvariance, PTL
===============================================================================

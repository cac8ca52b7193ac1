------------------------------ MODULE SleepCycle ------------------------------
(***************************************************************************)
(* What the firmware promises across reboots: the device sleeps, wakes and *)
(* counts, and every SYS_DEEP_SLEEP_TIMES-th boot is a measuring boot that *)
(* may send one notification.                                              *)
(*                                                                         *)
(* Nothing but the RTC memory survives a deep sleep, so the counter kept   *)
(* there, the reset reason and the radio option programmed into the chip   *)
(* are all that carries the schedule from one boot to the next.  A boot is *)
(* cut down here to the decision of sys_deep_sleep_cycle() and its end;    *)
(* module Thirst has the tasks, callbacks and timers of a boot and         *)
(* implements this specification.                                          *)
(***************************************************************************)
EXTENDS Integers

CONSTANTS
  SYS_DEEP_SLEEP_TIMES,  \* boots per measurement (12 in system.h)
  PowerUpCounts          \* what the RTC memory may hold after power-up

ASSUME TimesAssumption == SYS_DEEP_SLEEP_TIMES \in Nat \ {0}
ASSUME PowerUpAssumption == PowerUpCounts \subseteq Nat

VARIABLES
  rtc_sleep_count,  \* sleep_count in the RTC memory
  reset_reason,     \* why the chip booted last
  radio,            \* is the RF part enabled in this boot?
  wakeRadio,        \* asleep: will it be enabled on the next wake-up?
  phase,            \* what this boot is about
  notified,         \* has this boot sent its notification?
  naps,             \* history: sleeps since the last measuring boot
  cooldown          \* history: boots owed before the next notification

vars == <<rtc_sleep_count, reset_reason, radio, wakeRadio, phase, notified,
          naps, cooldown>>

(* "boot": before the decision.  "nap": count up and sleep.  "measure":    *)
(* read the sensor, perhaps notify, sleep.  "idle": configuration mode or  *)
(* a failure; left only by a reset.                                        *)
Phases == {"boot", "nap", "measure", "idle", "asleep"}
Reasons == {"DEFAULT_RST", "FAULT_RST", "SOFT_RESTART", "DEEP_SLEEP_AWAKE"}

(* The type invariant.                                                     *)
TypeOK ==
  /\ rtc_sleep_count \in Nat
  /\ reset_reason \in Reasons
  /\ radio \in BOOLEAN
  /\ wakeRadio \in BOOLEAN
  /\ phase \in Phases
  /\ notified \in BOOLEAN
  /\ naps \in Nat
  /\ cooldown \in Nat

-------------------------------------------------------------------------------
(* The counter the decision works on: cleared after a power-up and at the  *)
(* end of a cycle.  (Operators named ...Late, ...Early and the like, here  *)
(* and in the other modules, are plausible mistakes: the model does not    *)
(* use them, they serve to see that a property would notice.)              *)
RestartedLate(count) == IF count > SYS_DEEP_SLEEP_TIMES THEN 0 ELSE count
Restarted(count) == IF count >= SYS_DEEP_SLEEP_TIMES THEN 0 ELSE count
Effective(count, why) == IF why = "DEFAULT_RST" THEN 0 ELSE Restarted(count)

Paid(n) == IF n > 0 THEN n - 1 ELSE 0

Init ==
  /\ rtc_sleep_count \in PowerUpCounts
  /\ reset_reason = "DEFAULT_RST"
  /\ radio = TRUE
  /\ wakeRadio = FALSE
  /\ phase = "boot"
  /\ notified = FALSE
  /\ naps = 0
  /\ cooldown = 0

CountNapWithoutCounting ==
  LET count == Effective(rtc_sleep_count, reset_reason) IN
  /\ phase = "boot"
  /\ count + 1 < SYS_DEEP_SLEEP_TIMES
  /\ rtc_sleep_count' = count
  /\ phase' = "nap"
  /\ cooldown' = Paid(cooldown)
  /\ UNCHANGED <<reset_reason, radio, wakeRadio, notified, naps>>

(* One branch of the decision: count up; this boot only goes back to sleep.*)
CountNap ==
  LET count == Effective(rtc_sleep_count, reset_reason) IN
  /\ phase = "boot"
  /\ count + 1 < SYS_DEEP_SLEEP_TIMES
  /\ rtc_sleep_count' = count + 1
  /\ phase' = "nap"
  /\ cooldown' = Paid(cooldown)
  /\ UNCHANGED <<reset_reason, radio, wakeRadio, notified, naps>>

(* The other branch: the count that ends the cycle is written before       *)
(* anything else, then the boot measures.                                  *)
StartMeasurement ==
  LET count == Effective(rtc_sleep_count, reset_reason) IN
  /\ phase = "boot"
  /\ count + 1 >= SYS_DEEP_SLEEP_TIMES
  /\ rtc_sleep_count' = count + 1
  /\ phase' = "measure"
  /\ naps' = 0
  /\ cooldown' = Paid(cooldown)
  /\ UNCHANGED <<reset_reason, radio, wakeRadio, notified>>

(* The request for the e-mail is handed to the gateway.                    *)
Notify ==
  /\ phase = "measure"
  /\ ~notified
  /\ notified' = TRUE
  /\ cooldown' = SYS_DEEP_SLEEP_TIMES
  /\ UNCHANGED <<rtc_sleep_count, reset_reason, radio, wakeRadio, phase, naps>>

(* Configuration mode, or a failure in the start-up: no sleep follows.     *)
GiveUp ==
  /\ phase = "boot"
  /\ phase' = "idle"
  /\ UNCHANGED <<rtc_sleep_count, reset_reason, radio, wakeRadio, notified,
                 naps, cooldown>>

(* Saving a configuration clears the counter.                              *)
ClearCount ==
  /\ phase = "idle"
  /\ rtc_sleep_count' = 0
  /\ naps' = 0
  /\ UNCHANGED <<reset_reason, radio, wakeRadio, phase, notified, cooldown>>

(* The sleep option of a nap boot: SAME_AS_PWRUP when the count has reached *)
(* the last but one, NO_RADIO otherwise.                                   *)
RadioAfterNapLate(count) == count >= SYS_DEEP_SLEEP_TIMES
RadioAfterNapEarly(count) == count >= SYS_DEEP_SLEEP_TIMES - 2
RadioAfterNap(count) == count >= SYS_DEEP_SLEEP_TIMES - 1

(* Deep sleep; a measuring boot asks for the radio only if every boot      *)
(* measures.                                                               *)
Sleep ==
  /\ phase \in {"nap", "measure"}
  /\ phase' = "asleep"
  /\ wakeRadio' = IF phase = "nap"
                   THEN RadioAfterNap(rtc_sleep_count)
                   ELSE SYS_DEEP_SLEEP_TIMES = 1
  /\ naps' = naps + 1
  /\ UNCHANGED <<rtc_sleep_count, reset_reason, radio, notified, cooldown>>

Reboot(why) ==
  /\ phase' = "boot"
  /\ reset_reason' = why
  /\ notified' = FALSE
  /\ UNCHANGED wakeRadio

(* The RTC timer ends the sleep; the programmed radio option takes effect. *)
Wake ==
  /\ phase = "asleep"
  /\ Reboot("DEEP_SLEEP_AWAKE")
  /\ radio' = wakeRadio
  /\ UNCHANGED <<rtc_sleep_count, naps, cooldown>>

(* Any other reset keeps the RTC memory and starts with the radio on.      *)
Reset ==
  /\ \E why \in {"FAULT_RST", "SOFT_RESTART"} : Reboot(why)
  /\ radio' = TRUE
  /\ UNCHANGED <<rtc_sleep_count, naps, cooldown>>

(* A reset in the middle of saving, after the counter was cleared.         *)
ClearAndReset ==
  /\ phase = "idle"
  /\ Reboot("FAULT_RST")
  /\ radio' = TRUE
  /\ rtc_sleep_count' = 0
  /\ naps' = 0
  /\ UNCHANGED cooldown

(* Power-up: the RTC memory holds garbage.                                 *)
PowerUp ==
  /\ Reboot("DEFAULT_RST")
  /\ radio' = TRUE
  /\ rtc_sleep_count' \in PowerUpCounts
  /\ naps' = 0
  /\ cooldown' = 0

Next ==
  \/ CountNap \/ StartMeasurement \/ Notify \/ GiveUp \/ ClearCount
  \/ Sleep \/ Wake \/ Reset \/ ClearAndReset \/ PowerUp

Spec == Init /\ [][Next]_vars

-------------------------------------------------------------------------------
(* Safety.                                                                 *)

(* Will a boot that finds this count measure?                              *)
Measures(count) == Restarted(count) + 1 >= SYS_DEEP_SLEEP_TIMES

(* The radio was programmed to be on for every boot that measures, however *)
(* many resets came in between (sys_deep_sleep_cycle() chooses the option  *)
(* one boot ahead).                                                        *)
RadioForMeasurement == phase = "measure" => radio

(* Energy: the device never wakes with the radio on only to go back to     *)
(* sleep (SYS_DEEP_SLEEP_OPTION_NO_RADIO between measurements).            *)
RadioOnlyForMeasurement == phase = "asleep" => (wakeRadio <=> Measures(rtc_sleep_count))

(* Once a day: at most SYS_DEEP_SLEEP_TIMES sleeps (of two hours) separate *)
(* a measuring boot from the previous one, from power-up or from saving a  *)
(* configuration, whatever resets happen.                                  *)
MeasuresInTime == naps <= SYS_DEEP_SLEEP_TIMES

(* No flood of e-mails: a boot that has not notified yet but may do so is  *)
(* at least SYS_DEEP_SLEEP_TIMES boots after the last notification, even   *)
(* if the device keeps crashing after sending (the counter is written      *)
(* before the measurement starts).                                         *)
NoEarlyRepeat == phase = "measure" /\ ~notified => cooldown = 0

(* The inductive strengthening of the four (SleepCycleProofs): how the     *)
(* counter bounds the two histories, and what it says of the phase.        *)
PowerUpIsFresh ==
  phase = "boot" /\ reset_reason = "DEFAULT_RST" => naps = 0 /\ cooldown = 0

CountMatchesPhase ==
  /\ phase = "nap" => rtc_sleep_count \in 1..(SYS_DEEP_SLEEP_TIMES - 1)
  /\ phase = "measure" => rtc_sleep_count >= SYS_DEEP_SLEEP_TIMES

RadioDecided ==
  /\ reset_reason # "DEEP_SLEEP_AWAKE" => radio
  /\ phase = "boot" /\ Measures(rtc_sleep_count) => radio

NapsCounted ==
  naps <= CASE phase = "nap" -> rtc_sleep_count
            [] phase = "measure" -> 0
            [] OTHER -> Restarted(rtc_sleep_count) + 1

CooldownCounted == cooldown <= SYS_DEEP_SLEEP_TIMES - Restarted(rtc_sleep_count)

IInv ==
  /\ TypeOK
  /\ PowerUpIsFresh
  /\ CountMatchesPhase
  /\ RadioDecided
  /\ RadioForMeasurement
  /\ RadioOnlyForMeasurement
  /\ NapsCounted
  /\ CooldownCounted
  /\ NoEarlyRepeat

===============================================================================

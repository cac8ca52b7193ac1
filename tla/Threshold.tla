------------------------------- MODULE Threshold -------------------------------
(***************************************************************************)
(* The decision of the GOT_IP handler of thirst.c: is the moisture beyond  *)
(* the threshold the user registered?  The code computes with uint32_t, so *)
(* with numbers modulo Word = 2^32; the reference below does not.          *)
(***************************************************************************)
EXTENDS Integers

(* The converter of the chip has ten bits; its scale ends at 1024.         *)
MaxReading == 1024

CONSTANTS
  Word,              \* 2^32 in the program; smaller for model checking
  Readings,          \* results of periph_read_adc()
  RegisteredValues,  \* sensor reading stored with the configuration
  Percents           \* threshold of the advanced mode

ASSUME WordAssumption == Word \in Nat /\ Word > 100 * MaxReading
ASSUME ReadingsAssumption == Readings \subseteq 0..MaxReading
ASSUME RegisteredAssumption == RegisteredValues \subseteq 0..MaxReading
ASSUME PercentsAssumption == Percents \subseteq 1..100

VARIABLES
  config_current,    \* the configuration the device runs with
  adc,               \* the last reading
  measured,          \* has this configuration been measured against?
  send_notification  \* the decision

vars == <<config_current, adc, measured, send_notification>>

(* What the page lets the user save (its form checks the percentage); the  *)
(* registered value is a reading of the same sensor.                       *)
Configs == [threshold_mode : {"SIMPLE", "ADVANCED"},
            threshold_lt_gt : {"LT", "GT"},
            threshold_percent : Percents,
            registered_value : RegisteredValues]

(* The type invariant: the configuration the device runs with is one the   *)
(* page offered, although the firmware cuts the numbers to their widths.   *)
TypeOK ==
  /\ config_current \in Configs
  /\ adc \in Readings
  /\ measured \in BOOLEAN
  /\ send_notification \in BOOLEAN

-------------------------------------------------------------------------------
Unsigned(n) == n % Word

(* A plausible mistake, not used: dividing before multiplying.             *)
PercentageOfHundreds(config) ==
  Unsigned((config.registered_value \div 100) * config.threshold_percent)

Percentage(config) ==
  Unsigned(config.registered_value * config.threshold_percent) \div 100

AdvancedLess(config, reading) ==
  reading <= Unsigned(config.registered_value - Percentage(config))
AdvancedMore(config, reading) ==
  reading >= Unsigned(config.registered_value + Percentage(config))
(* A plausible mistake, not used: the sign of the other direction.         *)
SimpleLessBySubtraction(config, reading) ==
  Unsigned(reading - 4) < config.registered_value
SimpleLess(config, reading) ==
  Unsigned(reading + 4) < config.registered_value
SimpleMore(config, reading) ==
  Unsigned(reading - 4) > config.registered_value

Decision(config, reading) ==
  CASE config.threshold_mode = "ADVANCED" /\ config.threshold_lt_gt = "LT"
         -> AdvancedLess(config, reading)
    [] config.threshold_mode = "ADVANCED" /\ config.threshold_lt_gt = "GT"
         -> AdvancedMore(config, reading)
    [] config.threshold_mode = "SIMPLE" /\ config.threshold_lt_gt = "LT"
         -> SimpleLess(config, reading)
    [] config.threshold_mode = "SIMPLE" /\ config.threshold_lt_gt = "GT"
         -> SimpleMore(config, reading)

Init ==
  /\ config_current \in Configs
  /\ adc \in Readings
  /\ measured = FALSE
  /\ send_notification = FALSE

(* The form carries numbers of up to three digits; the firmware does not   *)
(* check them and keeps eight bits of the percentage.                      *)
Stored(number) == number % 256

(* The page saves a new configuration; the device restarts with it.        *)
SaveConfig ==
  /\ \E form \in Configs :
       config_current' = [form EXCEPT !.threshold_percent =
                                Stored(form.threshold_percent)]
  /\ measured' = FALSE
  /\ send_notification' = FALSE
  /\ UNCHANGED adc

(* One measuring boot.                                                     *)
Measure ==
  /\ adc' \in Readings
  /\ measured' = TRUE
  /\ send_notification' = Decision(config_current, adc')
  /\ UNCHANGED config_current

Next == SaveConfig \/ Measure

Spec == Init /\ [][Next]_vars

-------------------------------------------------------------------------------
(* The reference: the reading differs from the registered value, in the    *)
(* direction asked for, by more than the noise of 4 or by at least the     *)
(* percentage, with exact arithmetic.                                      *)
Beyond(config, reading, slack) ==
  LET registered == config.registered_value
      less == config.threshold_lt_gt = "LT"
  IN  IF config.threshold_mode = "SIMPLE"
      THEN IF less THEN reading < registered - 4 ELSE reading > registered + 4
      ELSE IF less
           THEN 100 * (reading - slack) <= registered * (100 - config.threshold_percent)
           ELSE 100 * (reading + slack) >= registered * (100 + config.threshold_percent)

(* No alarm is missed: a reading beyond the threshold notifies, whatever   *)
(* the integer division and the unsigned arithmetic do to it.              *)
NoAlarmMissed ==
  measured /\ Beyond(config_current, adc, 0) => send_notification

(* No false alarm (README: "above or below a pre-configured threshold"),   *)
(* but for the unit the integer division may add.                          *)
NoFalseAlarm ==
  measured /\ send_notification => Beyond(config_current, adc, 1)

(* The same, for readings from which 4 can be subtracted.                  *)
NoFalseAlarmAboveNoise == adc >= 4 => NoFalseAlarm
===============================================================================

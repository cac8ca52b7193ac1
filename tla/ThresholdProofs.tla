----------------------------- MODULE ThresholdProofs -----------------------------
(***************************************************************************)
(* Proofs about the threshold decision, for every word size that holds the *)
(* product of a reading and a percentage (2^32 in the program), and for    *)
(* every set of readings, registered values and percentages.               *)
(***************************************************************************)
EXTENDS Threshold, TLAPS

(* Numbers that fit the word are not changed by the unsigned arithmetic.   *)
LEMMA UnsignedFits ==
  ASSUME NEW n \in Nat, n < Word
  PROVE  Unsigned(n) = n
BY WordAssumption DEF Unsigned

(* A percentage of a number is at most that number times 100.              *)
LEMMA ProductBounds ==
  ASSUME NEW r \in 0..MaxReading, NEW p \in 1..100
  PROVE  /\ r * p \in Nat
         /\ r * p <= r * 100
         /\ r * (100 - p) = r * 100 - r * p
         /\ r * (100 + p) = r * 100 + r * p
OBVIOUS

(* The quotient by 100 is the exact one, rounded down.                     *)
LEMMA QuotientBounds ==
  ASSUME NEW n \in Nat
  PROVE  /\ n \div 100 \in Nat
         /\ 100 * (n \div 100) <= n
         /\ n < 100 * (n \div 100) + 100
OBVIOUS

(* The fields of a configuration are in range.                             *)
LEMMA ConfigFields ==
  ASSUME NEW config \in Configs
  PROVE  /\ config.registered_value \in 0..MaxReading
         /\ config.threshold_percent \in 1..100
         /\ config.threshold_mode \in {"SIMPLE", "ADVANCED"}
         /\ config.threshold_lt_gt \in {"LT", "GT"}
<1>1. /\ config.registered_value \in RegisteredValues
      /\ config.threshold_percent \in Percents
      /\ config.threshold_mode \in {"SIMPLE", "ADVANCED"}
      /\ config.threshold_lt_gt \in {"LT", "GT"}
  BY DEF Configs
<1>2. config.registered_value \in 0..MaxReading
  BY <1>1, RegisteredAssumption, Zenon
<1>3. config.threshold_percent \in 1..100
  BY <1>1, PercentsAssumption, Zenon
<1> QED
  BY <1>1, <1>2, <1>3

(* A configuration of the page is stored as it was sent.                   *)
LEMMA StoredWhole ==
  ASSUME NEW form \in Configs
  PROVE  [form EXCEPT !.threshold_percent = Stored(form.threshold_percent)] = form
<1>1. form.threshold_percent \in 1..100
  BY ConfigFields
<1>2. Stored(form.threshold_percent) = form.threshold_percent
  BY <1>1 DEF Stored
<1> QED
  BY <1>2 DEF Configs

(* The percentage of a registered value: the exact one, rounded down;      *)
(* neither the sum nor the difference of the two leaves the word.          *)
LEMMA PercentageExact ==
  ASSUME NEW r \in 0..MaxReading, NEW p \in 1..100
  PROVE  LET q == Unsigned(r * p) \div 100 IN
         /\ q \in 0..r
         /\ 100 * q <= r * p
         /\ r * p < 100 * q + 100
         /\ Unsigned(r - q) = r - q
         /\ Unsigned(r + q) = r + q
<1> DEFINE n == r * p
           q == Unsigned(n) \div 100
<1>1. n \in Nat /\ n <= r * 100
  BY ProductBounds
<1> HIDE DEF n
<1>2. n < Word
  BY <1>1, WordAssumption DEF MaxReading
<1>3. q = n \div 100
  BY <1>1, <1>2, UnsignedFits DEF n
<1>4. q \in Nat /\ 100 * q <= n /\ n < 100 * q + 100
  BY <1>1, <1>3, QuotientBounds
<1> HIDE DEF q
<1>5. q <= r
  BY <1>1, <1>4
<1>6. r - q \in Nat /\ r - q < Word /\ r + q \in Nat /\ r + q < Word
  <2>1. Word \in Nat /\ Word > 2048
    BY WordAssumption DEF MaxReading
  <2>2. q \in Nat /\ q <= r
    BY <1>4, <1>5
  <2> QED
    BY <2>1, <2>2 DEF MaxReading
<1>7. Unsigned(r - q) = r - q /\ Unsigned(r + q) = r + q
  BY <1>6, UnsignedFits
<1>8. q \in 0..r
  BY <1>4, <1>5
<1> QED
  BY <1>4, <1>7, <1>8 DEF n, q

(* The advanced decision, with the arithmetic done.                        *)
LEMMA AdvancedDecision ==
  ASSUME NEW config \in Configs, NEW reading \in 0..MaxReading,
         config.threshold_mode = "ADVANCED"
  PROVE  /\ Decision(config, reading) \in BOOLEAN
         /\ Beyond(config, reading, 0) => Decision(config, reading)
         /\ Decision(config, reading) => Beyond(config, reading, 1)
<1> DEFINE r == config.registered_value
           p == config.threshold_percent
           q == Percentage(config)
           n == r * p
<1>1. r \in 0..MaxReading /\ p \in 1..100
  BY ConfigFields
<1>d. q = Unsigned(n) \div 100
  BY DEF Percentage
<1> HIDE DEF r, p, q
<1>2. /\ q \in 0..r /\ 100 * q <= n /\ n < 100 * q + 100
      /\ Unsigned(r - q) = r - q /\ Unsigned(r + q) = r + q
  <2>1. LET k == Unsigned(r * p) \div 100 IN
        /\ k \in 0..r
        /\ 100 * k <= r * p
        /\ r * p < 100 * k + 100
        /\ Unsigned(r - k) = r - k
        /\ Unsigned(r + k) = r + k
    BY <1>1, PercentageExact, Zenon
  <2>2. q = Unsigned(r * p) \div 100
    BY <1>d
  <2>3. q \in 0..r
    BY <2>1, <2>2
  <2>4. 100 * q <= n /\ n < 100 * q + 100
    BY <2>1, <2>2
  <2>5. Unsigned(r - q) = r - q /\ Unsigned(r + q) = r + q
    BY <2>1, <2>2
  <2> QED
    BY <2>3, <2>4, <2>5
<1>3. n \in Nat /\ r * (100 - p) = r * 100 - n /\ r * (100 + p) = r * 100 + n
  BY <1>1, ProductBounds
<1>4. CASE config.threshold_lt_gt = "LT"
  <2>1. Decision(config, reading) <=> reading <= r - q
    BY <1>2, <1>4 DEF Decision, AdvancedLess, r, q
  <2>2. /\ Beyond(config, reading, 0) <=> 100 * reading <= 100 * r - n
        /\ Beyond(config, reading, 1) <=> 100 * (reading - 1) <= 100 * r - n
    <3>1. /\ Beyond(config, reading, 0) <=> 100 * (reading - 0) <= r * (100 - p)
          /\ Beyond(config, reading, 1) <=> 100 * (reading - 1) <= r * (100 - p)
      BY <1>4, Zenon DEF Beyond, r, p
    <3> HIDE DEF n
    <3> QED
      BY <1>1, <1>3, <3>1
  <2>3. Decision(config, reading) \in BOOLEAN
    BY <1>4 DEF Decision, AdvancedLess, r, q
  <2> HIDE DEF n
  <2> QED
    BY <1>1, <1>2, <1>3, <2>1, <2>2, <2>3
<1>5. CASE config.threshold_lt_gt = "GT"
  <2>1. Decision(config, reading) <=> reading >= r + q
    BY <1>2, <1>5 DEF Decision, AdvancedMore, r, q
  <2>2. /\ Beyond(config, reading, 0) <=> 100 * reading >= 100 * r + n
        /\ Beyond(config, reading, 1) <=> 100 * (reading + 1) >= 100 * r + n
    <3>1. /\ Beyond(config, reading, 0) <=> 100 * (reading + 0) >= r * (100 + p)
          /\ Beyond(config, reading, 1) <=> 100 * (reading + 1) >= r * (100 + p)
      BY <1>5, Zenon DEF Beyond, r, p
    <3> HIDE DEF n
    <3> QED
      BY <1>1, <1>3, <3>1
  <2>3. Decision(config, reading) \in BOOLEAN
    BY <1>5 DEF Decision, AdvancedMore, r, q
  <2> HIDE DEF n
  <2> QED
    BY <1>1, <1>2, <1>3, <2>1, <2>2, <2>3
<1> QED
  BY <1>4, <1>5, ConfigFields

(* The simple decision is exact, except that 4 cannot be subtracted from a *)
(* reading below 4.                                                        *)
LEMMA SimpleDecision ==
  ASSUME NEW config \in Configs, NEW reading \in 0..MaxReading,
         config.threshold_mode = "SIMPLE"
  PROVE  /\ Decision(config, reading) \in BOOLEAN
         /\ Beyond(config, reading, 0) => Decision(config, reading)
         /\ reading >= 4 /\ Decision(config, reading) => Beyond(config, reading, 1)
<1> DEFINE r == config.registered_value
<1>0. r \in 0..MaxReading
  BY ConfigFields
<1>1. Unsigned(reading + 4) = reading + 4
  BY UnsignedFits, WordAssumption DEF MaxReading
<1>2. reading >= 4 => Unsigned(reading - 4) = reading - 4
  BY UnsignedFits, WordAssumption DEF MaxReading
<1>3. CASE config.threshold_lt_gt = "LT"
  <2>1. Decision(config, reading) <=> reading + 4 < r
    BY <1>1, <1>3 DEF Decision, SimpleLess
  <2>2. /\ Beyond(config, reading, 0) <=> reading < r - 4
        /\ Beyond(config, reading, 1) <=> reading < r - 4
    BY <1>3 DEF Beyond
  <2>3. Decision(config, reading) \in BOOLEAN
    BY <1>3 DEF Decision, SimpleLess
  <2> HIDE DEF r
  <2> QED
    BY <1>0, <2>1, <2>2, <2>3
<1>4. CASE config.threshold_lt_gt = "GT"
  <2>1. reading >= 4 => (Decision(config, reading) <=> reading - 4 > r)
    BY <1>2, <1>4 DEF Decision, SimpleMore
  <2>2. /\ Beyond(config, reading, 0) <=> reading > r + 4
        /\ Beyond(config, reading, 1) <=> reading > r + 4
    BY <1>4 DEF Beyond
  <2>3. Decision(config, reading) \in BOOLEAN
    BY <1>4 DEF Decision, SimpleMore
  <2> HIDE DEF r
  <2> QED
    BY <1>0, <2>1, <2>2, <2>3
<1> QED
  BY <1>3, <1>4, ConfigFields

(* Both modes together.                                                    *)
LEMMA DecisionCorrect ==
  ASSUME NEW config \in Configs, NEW reading \in Readings
  PROVE  /\ Decision(config, reading) \in BOOLEAN
         /\ Beyond(config, reading, 0) => Decision(config, reading)
         /\ reading >= 4 /\ Decision(config, reading) => Beyond(config, reading, 1)
<1>1. reading \in 0..MaxReading
  BY ReadingsAssumption
<1>2. CASE config.threshold_mode = "ADVANCED"
  <2>1. Decision(config, reading) \in BOOLEAN
    BY <1>1, <1>2, AdvancedDecision, Zenon
  <2>2. Beyond(config, reading, 0) => Decision(config, reading)
    BY <1>1, <1>2, AdvancedDecision, Zenon
  <2>3. Decision(config, reading) => Beyond(config, reading, 1)
    BY <1>1, <1>2, AdvancedDecision, Zenon
  <2> QED
    BY <2>1, <2>2, <2>3
<1>3. CASE config.threshold_mode = "SIMPLE"
  BY <1>1, <1>3, SimpleDecision
<1> QED
  BY <1>2, <1>3, ConfigFields

(* The invariants, which are inductive together.                           *)
IInv == TypeOK /\ NoAlarmMissed /\ NoFalseAlarmAboveNoise

LEMMA Invariance == Spec => []IInv
<1>1. Init => IInv
  BY DEF Init, IInv, TypeOK, NoAlarmMissed, NoFalseAlarmAboveNoise, NoFalseAlarm
<1>2. IInv /\ [Next]_vars => IInv'
  <2> SUFFICES ASSUME IInv, [Next]_vars PROVE IInv'
    OBVIOUS
  <2>1. CASE SaveConfig
    <3>1. config_current' \in Configs
      BY <2>1, StoredWhole DEF SaveConfig
    <3> QED
      BY <2>1, <3>1 DEF SaveConfig, IInv, TypeOK, NoAlarmMissed,
                            NoFalseAlarmAboveNoise, NoFalseAlarm
  <2>2. CASE Measure
    <3>1. PICK config \in Configs, reading \in Readings :
             config = config_current /\ reading = adc'
      BY <2>2 DEF Measure, IInv, TypeOK
    <3>2. config_current' = config /\ measured' = TRUE
          /\ send_notification' = Decision(config, reading)
      BY <2>2, <3>1 DEF Measure
    <3>3. TypeOK'
      BY <3>1, <3>2, DecisionCorrect DEF TypeOK
    <3>4. NoAlarmMissed' /\ NoFalseAlarmAboveNoise'
      BY <3>1, <3>2, DecisionCorrect DEF NoAlarmMissed, NoFalseAlarmAboveNoise,
         NoFalseAlarm
    <3> QED
      BY <3>3, <3>4 DEF IInv
  <2>3. CASE UNCHANGED vars
    BY <2>3 DEF vars, IInv, TypeOK, NoAlarmMissed, NoFalseAlarmAboveNoise,
       NoFalseAlarm
  <2> QED
    BY <2>1, <2>2, <2>3 DEF Next
<1> QED
  BY <1>1, <1>2, PTL DEF Spec

(* No reading beyond the threshold goes unreported, in either mode and     *)
(* direction.                                                              *)
THEOREM AlarmsComplete == Spec => []NoAlarmMissed
<1>1. IInv => NoAlarmMissed
  BY DEF IInv
<1> QED
  BY <1>1, Invariance, PTL

(* From a reading of 4 upwards, no reading within the threshold is         *)
(* reported, but for the unit the integer division adds.                   *)
THEOREM AlarmsSound == Spec => []NoFalseAlarmAboveNoise
<1>1. IInv => NoFalseAlarmAboveNoise
  BY DEF IInv
<1> QED
  BY <1>1, Invariance, PTL
===============================================================================

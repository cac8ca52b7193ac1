---------------------------- MODULE SleepCycleProofs ----------------------------
(***************************************************************************)
(* Proofs of the safety properties of SleepCycle, for every number of boots *)
(* per measurement and every content of the RTC memory after power-up.     *)
(***************************************************************************)
EXTENDS SleepCycle, TLAPS

(* The counter the decision works on is a number below the cycle length,   *)
(* and the counter itself unless the cycle is over.                        *)
LEMMA RestartedBounds ==
  ASSUME NEW count \in Nat
  PROVE  /\ Restarted(count) \in Nat
         /\ Restarted(count) < SYS_DEEP_SLEEP_TIMES
         /\ count < SYS_DEEP_SLEEP_TIMES => Restarted(count) = count
         /\ count >= SYS_DEEP_SLEEP_TIMES => Restarted(count) = 0
BY TimesAssumption DEF Restarted

(* Power-up establishes the inductive invariant.                           *)
LEMMA InitInv == Init => IInv
<1> SUFFICES ASSUME Init PROVE IInv
  OBVIOUS
<1>1. rtc_sleep_count \in Nat
  BY PowerUpAssumption DEF Init
<1>2. TypeOK
  BY <1>1 DEF Init, TypeOK, Reasons, Phases
<1>3. NapsCounted /\ CooldownCounted
  BY <1>1, RestartedBounds, TimesAssumption DEF Init, NapsCounted, CooldownCounted
<1> QED
  BY <1>2, <1>3 DEF Init, IInv, PowerUpIsFresh, CountMatchesPhase, RadioDecided,
     RadioForMeasurement, RadioOnlyForMeasurement, NoEarlyRepeat

(* A step keeps the type invariant.                                        *)
LEMMA TypeStep == TypeOK /\ [Next]_vars => TypeOK'
<1> SUFFICES ASSUME TypeOK, [Next]_vars PROVE TypeOK'
  OBVIOUS
<1>1. Effective(rtc_sleep_count, reset_reason) \in Nat
  BY RestartedBounds DEF Effective, TypeOK
<1>2. CASE CountNap
  BY <1>1, <1>2 DEF CountNap, Paid, TypeOK, Phases
<1>3. CASE StartMeasurement
  BY <1>1, <1>3 DEF StartMeasurement, Paid, TypeOK, Phases
<1>4. CASE Notify
  BY <1>4, TimesAssumption DEF Notify, TypeOK
<1>5. CASE GiveUp
  BY <1>5 DEF GiveUp, TypeOK, Phases
<1>6. CASE ClearCount
  BY <1>6 DEF ClearCount, TypeOK
<1>7. CASE Sleep
  <2>1. wakeRadio' \in BOOLEAN
    <3>1. CASE phase = "nap"
      BY <1>7, <3>1 DEF Sleep, RadioAfterNap
    <3>2. CASE phase # "nap"
      BY <1>7, <3>2 DEF Sleep
    <3> QED
      BY <3>1, <3>2
  <2>2. /\ rtc_sleep_count' \in Nat /\ naps' \in Nat /\ cooldown' \in Nat
        /\ reset_reason' \in Reasons /\ phase' \in Phases
        /\ radio' \in BOOLEAN /\ notified' \in BOOLEAN
    BY <1>7 DEF Sleep, TypeOK, Phases
  <2> QED
    BY <2>1, <2>2 DEF TypeOK
<1>8. ASSUME NEW why \in Reasons, Reboot(why)
      PROVE  /\ reset_reason' \in Reasons /\ phase' \in Phases
             /\ wakeRadio' \in BOOLEAN /\ notified' \in BOOLEAN
  BY <1>8 DEF Reboot, TypeOK, Phases
<1>9. CASE Wake
  <2>1. Reboot("DEEP_SLEEP_AWAKE")
    BY <1>9 DEF Wake
  <2>2. /\ rtc_sleep_count' \in Nat /\ naps' \in Nat /\ cooldown' \in Nat
        /\ radio' \in BOOLEAN
    BY <1>9 DEF Wake, TypeOK
  <2> QED
    BY <2>1, <2>2, <1>8 DEF TypeOK, Reasons
<1>10. CASE Reset
  <2>1. PICK why \in {"FAULT_RST", "SOFT_RESTART"} : Reboot(why)
    BY <1>10 DEF Reset
  <2>2. /\ rtc_sleep_count' \in Nat /\ naps' \in Nat /\ cooldown' \in Nat
        /\ radio' \in BOOLEAN
    BY <1>10 DEF Reset, TypeOK
  <2> QED
    BY <2>1, <2>2, <1>8 DEF TypeOK, Reasons
<1>11. CASE ClearAndReset
  <2>1. Reboot("FAULT_RST")
    BY <1>11 DEF ClearAndReset
  <2>2. /\ rtc_sleep_count' \in Nat /\ naps' \in Nat /\ cooldown' \in Nat
        /\ radio' \in BOOLEAN
    BY <1>11 DEF ClearAndReset, TypeOK
  <2> QED
    BY <2>1, <2>2, <1>8 DEF TypeOK, Reasons
<1>12. CASE PowerUp
  <2>1. Reboot("DEFAULT_RST")
    BY <1>12 DEF PowerUp
  <2>2. /\ rtc_sleep_count' \in Nat /\ naps' \in Nat /\ cooldown' \in Nat
        /\ radio' \in BOOLEAN
    BY <1>12, PowerUpAssumption DEF PowerUp
  <2> QED
    BY <2>1, <2>2, <1>8 DEF TypeOK, Reasons
<1>13. CASE UNCHANGED vars
  BY <1>13 DEF vars, TypeOK
<1> QED
  BY <1>2, <1>3, <1>4, <1>5, <1>6, <1>7, <1>9, <1>10, <1>11, <1>12, <1>13 DEF Next

(* A step keeps the inductive invariant.                                   *)
LEMMA InvStep == IInv /\ [Next]_vars => IInv'
<1> SUFFICES ASSUME IInv, [Next]_vars PROVE IInv'
  OBVIOUS
<1>t. TypeOK /\ TypeOK'
  BY TypeStep DEF IInv
<1> DEFINE T == SYS_DEEP_SLEEP_TIMES
           count == Effective(rtc_sleep_count, reset_reason)
<1>n. T \in Nat /\ T >= 1
  BY TimesAssumption
<1>r. /\ rtc_sleep_count \in Nat
      /\ Restarted(rtc_sleep_count) \in Nat
      /\ Restarted(rtc_sleep_count) < T
      /\ rtc_sleep_count < T => Restarted(rtc_sleep_count) = rtc_sleep_count
      /\ rtc_sleep_count >= T => Restarted(rtc_sleep_count) = 0
  BY <1>t, RestartedBounds DEF TypeOK
<1>s. /\ rtc_sleep_count' \in Nat
      /\ Restarted(rtc_sleep_count') \in Nat
      /\ Restarted(rtc_sleep_count') < T
      /\ rtc_sleep_count' < T => Restarted(rtc_sleep_count') = rtc_sleep_count'
      /\ rtc_sleep_count' >= T => Restarted(rtc_sleep_count') = 0
  BY <1>t, RestartedBounds DEF TypeOK
<1>c. /\ count \in Nat /\ count < T
      /\ phase = "boot" => naps <= count + 1 /\ cooldown <= T - count
  <2>1. CASE reset_reason = "DEFAULT_RST"
    BY <2>1, <1>n, <1>t DEF Effective, IInv, PowerUpIsFresh, TypeOK
  <2>2. CASE reset_reason # "DEFAULT_RST"
    BY <2>2, <1>r DEF Effective, IInv, NapsCounted, CooldownCounted
  <2> QED
    BY <2>1, <2>2
<1>1. CASE CountNap
  <2>1. /\ phase = "boot" /\ phase' = "nap"
        /\ count + 1 < T /\ rtc_sleep_count' = count + 1
        /\ naps' = naps /\ cooldown' = Paid(cooldown)
        /\ UNCHANGED <<reset_reason, radio, wakeRadio, notified>>
    BY <1>1 DEF CountNap
  <2>2. NapsCounted'
    BY <1>c, <2>1 DEF NapsCounted
  <2>3. CooldownCounted'
    BY <1>c, <1>n, <1>s, <1>t, <2>1 DEF CooldownCounted, Paid, TypeOK
  <2>4. CountMatchesPhase'
    BY <1>c, <1>n, <2>1 DEF CountMatchesPhase
  <2>5. RadioDecided'
    BY <2>1 DEF IInv, RadioDecided
  <2> QED
    BY <1>t, <2>1, <2>2, <2>3, <2>4, <2>5 DEF IInv, PowerUpIsFresh,
       RadioForMeasurement, RadioOnlyForMeasurement, NoEarlyRepeat
<1>2. CASE StartMeasurement
  <2>1. /\ phase = "boot" /\ phase' = "measure"
        /\ count + 1 >= T /\ rtc_sleep_count' = count + 1
        /\ naps' = 0 /\ cooldown' = Paid(cooldown)
        /\ UNCHANGED <<reset_reason, radio, wakeRadio, notified>>
    BY <1>2 DEF StartMeasurement
  <2>2. cooldown' = 0
    BY <1>c, <1>n, <1>t, <2>1 DEF Paid, TypeOK
  <2>3. radio
    <3>1. CASE reset_reason = "DEEP_SLEEP_AWAKE"
      BY <2>1, <3>1 DEF IInv, RadioDecided, Measures, Effective
    <3>2. CASE reset_reason # "DEEP_SLEEP_AWAKE"
      BY <3>2 DEF IInv, RadioDecided
    <3> QED
      BY <3>1, <3>2
  <2>4. NapsCounted'
    BY <2>1 DEF NapsCounted
  <2>5. CooldownCounted'
    BY <1>n, <1>s, <2>2 DEF CooldownCounted
  <2>6. CountMatchesPhase'
    BY <1>c, <1>n, <2>1 DEF CountMatchesPhase
  <2>7. RadioDecided' /\ RadioForMeasurement'
    BY <2>1, <2>3 DEF RadioDecided, RadioForMeasurement
  <2> QED
    BY <1>t, <2>1, <2>2, <2>4, <2>5, <2>6, <2>7 DEF IInv, PowerUpIsFresh,
       RadioOnlyForMeasurement, NoEarlyRepeat
<1>3. CASE Notify
  <2>1. /\ phase = "measure" /\ notified' = TRUE /\ cooldown' = T
        /\ UNCHANGED <<rtc_sleep_count, reset_reason, radio, wakeRadio, phase, naps>>
    BY <1>3 DEF Notify
  <2>2. rtc_sleep_count >= T
    BY <2>1 DEF IInv, CountMatchesPhase
  <2>3. CooldownCounted'
    BY <1>n, <1>s, <2>1, <2>2 DEF CooldownCounted
  <2> QED
    BY <1>t, <2>1, <2>3 DEF IInv, PowerUpIsFresh, CountMatchesPhase, RadioDecided,
       RadioForMeasurement, RadioOnlyForMeasurement, NapsCounted, NoEarlyRepeat
<1>4. CASE GiveUp
  <2>1. /\ phase = "boot" /\ phase' = "idle"
        /\ UNCHANGED <<rtc_sleep_count, reset_reason, radio, wakeRadio, notified,
                       naps, cooldown>>
    BY <1>4 DEF GiveUp
  <2> QED
    BY <1>t, <2>1 DEF IInv, PowerUpIsFresh, CountMatchesPhase, RadioDecided,
       RadioForMeasurement, RadioOnlyForMeasurement, NapsCounted,
       CooldownCounted, NoEarlyRepeat
<1>5. CASE ClearCount
  <2>1. /\ phase = "idle" /\ phase' = "idle" /\ rtc_sleep_count' = 0 /\ naps' = 0
        /\ UNCHANGED <<reset_reason, radio, wakeRadio, notified, cooldown>>
    BY <1>5 DEF ClearCount
  <2>2. Restarted(rtc_sleep_count') = 0
    BY <1>n, <1>s, <2>1
  <2>3. NapsCounted' /\ CooldownCounted'
    BY <1>n, <1>r, <1>t, <2>1, <2>2 DEF IInv, NapsCounted, CooldownCounted, TypeOK
  <2> QED
    BY <1>t, <2>1, <2>3 DEF IInv, PowerUpIsFresh, CountMatchesPhase, RadioDecided,
       RadioForMeasurement, RadioOnlyForMeasurement, NoEarlyRepeat
<1>6. CASE Sleep
  <2>1. /\ phase \in {"nap", "measure"} /\ phase' = "asleep" /\ naps' = naps + 1
        /\ UNCHANGED <<rtc_sleep_count, reset_reason, radio, notified, cooldown>>
    BY <1>6 DEF Sleep
  <2>2. RadioOnlyForMeasurement'
    <3>1. CASE phase = "nap"
      <4>1. wakeRadio' <=> rtc_sleep_count >= T - 1
        BY <1>6, <3>1 DEF Sleep, RadioAfterNap
      <4>2. rtc_sleep_count < T
        BY <1>n, <1>r, <3>1 DEF IInv, CountMatchesPhase
      <4> QED
        BY <1>n, <1>r, <2>1, <4>1, <4>2 DEF RadioOnlyForMeasurement, Measures
    <3>2. CASE phase = "measure"
      <4>1. wakeRadio' <=> T = 1
        BY <1>6, <3>2 DEF Sleep
      <4>2. rtc_sleep_count >= T
        BY <3>2 DEF IInv, CountMatchesPhase
      <4> QED
        BY <1>n, <1>r, <2>1, <4>1, <4>2 DEF RadioOnlyForMeasurement, Measures
    <3> QED
      BY <2>1, <3>1, <3>2
  <2>3. NapsCounted'
    BY <1>n, <1>r, <1>t, <2>1 DEF IInv, CountMatchesPhase, NapsCounted, TypeOK
  <2> QED
    BY <1>t, <2>1, <2>2, <2>3 DEF IInv, PowerUpIsFresh, CountMatchesPhase,
       RadioDecided, RadioForMeasurement, CooldownCounted, NoEarlyRepeat
<1>7. CASE Wake
  <2>1. /\ phase = "asleep" /\ phase' = "boot" /\ reset_reason' = "DEEP_SLEEP_AWAKE"
        /\ radio' = wakeRadio
        /\ UNCHANGED <<rtc_sleep_count, naps, cooldown>>
    BY <1>7 DEF Wake, Reboot
  <2>2. RadioDecided'
    BY <2>1 DEF IInv, RadioOnlyForMeasurement, RadioDecided, Measures
  <2> QED
    BY <1>t, <2>1, <2>2 DEF IInv, PowerUpIsFresh, CountMatchesPhase,
       RadioForMeasurement, RadioOnlyForMeasurement, NapsCounted,
       CooldownCounted, NoEarlyRepeat
<1>8. CASE Reset
  <2>1. /\ phase' = "boot" /\ reset_reason' \in {"FAULT_RST", "SOFT_RESTART"}
        /\ radio' = TRUE
        /\ UNCHANGED <<rtc_sleep_count, naps, cooldown>>
    BY <1>8 DEF Reset, Reboot
  <2>2. NapsCounted'
    BY <1>n, <1>r, <1>t, <2>1 DEF IInv, CountMatchesPhase, NapsCounted, TypeOK
  <2> QED
    BY <1>t, <2>1, <2>2 DEF IInv, PowerUpIsFresh, CountMatchesPhase, RadioDecided,
       RadioForMeasurement, RadioOnlyForMeasurement, CooldownCounted, NoEarlyRepeat
<1>9. CASE ClearAndReset
  <2>1. /\ phase' = "boot" /\ reset_reason' = "FAULT_RST" /\ radio' = TRUE
        /\ rtc_sleep_count' = 0 /\ naps' = 0 /\ cooldown' = cooldown
    BY <1>9 DEF ClearAndReset, Reboot
  <2>2. Restarted(rtc_sleep_count') = 0
    BY <1>n, <1>s, <2>1
  <2>3. NapsCounted' /\ CooldownCounted'
    BY <1>n, <1>r, <1>t, <2>1, <2>2 DEF IInv, NapsCounted, CooldownCounted, TypeOK
  <2> QED
    BY <1>t, <2>1, <2>3 DEF IInv, PowerUpIsFresh, CountMatchesPhase, RadioDecided,
       RadioForMeasurement, RadioOnlyForMeasurement, NoEarlyRepeat
<1>10. CASE PowerUp
  <2>1. /\ phase' = "boot" /\ reset_reason' = "DEFAULT_RST" /\ radio' = TRUE
        /\ naps' = 0 /\ cooldown' = 0
    BY <1>10 DEF PowerUp, Reboot
  <2>2. NapsCounted' /\ CooldownCounted'
    BY <1>n, <1>s, <2>1 DEF NapsCounted, CooldownCounted
  <2> QED
    BY <1>t, <2>1, <2>2 DEF IInv, PowerUpIsFresh, CountMatchesPhase, RadioDecided,
       RadioForMeasurement, RadioOnlyForMeasurement, NoEarlyRepeat
<1>11. CASE UNCHANGED vars
  BY <1>t, <1>11 DEF vars, IInv, PowerUpIsFresh, CountMatchesPhase, RadioDecided,
     RadioForMeasurement, RadioOnlyForMeasurement, NapsCounted, CooldownCounted,
     NoEarlyRepeat, Measures, Restarted
<1> QED
  BY <1>1, <1>2, <1>3, <1>4, <1>5, <1>6, <1>7, <1>8, <1>9, <1>10, <1>11 DEF Next

(* IInv holds in every reachable state.                                    *)
THEOREM Invariance == Spec => []IInv
<1> QED
  BY InitInv, InvStep, PTL DEF Spec

(* IInv bounds the naps by the cycle length.                               *)
LEMMA InvBoundsNaps == IInv => MeasuresInTime
<1> SUFFICES ASSUME IInv PROVE MeasuresInTime
  OBVIOUS
<1>1. /\ rtc_sleep_count \in Nat
      /\ Restarted(rtc_sleep_count) < SYS_DEEP_SLEEP_TIMES
      /\ Restarted(rtc_sleep_count) \in Nat
  BY RestartedBounds DEF IInv, TypeOK
<1> QED
  BY <1>1, TimesAssumption DEF IInv, TypeOK, CountMatchesPhase, NapsCounted,
     MeasuresInTime

(* The counter, the radio option and the two histories are always of their *)
(* types.                                                                  *)
THEOREM TypeCorrect == Spec => []TypeOK
<1>1. IInv => TypeOK
  BY DEF IInv
<1> QED
  BY <1>1, Invariance, PTL

(* The boot that measures has its radio, although the option was chosen by *)
(* the boot before, whatever number of resets intervenes.                  *)
THEOREM RadioCorrect == Spec => [](RadioForMeasurement /\ RadioOnlyForMeasurement)
<1>1. IInv => RadioForMeasurement /\ RadioOnlyForMeasurement
  BY DEF IInv
<1> QED
  BY <1>1, Invariance, PTL

(* A measuring boot follows within SYS_DEEP_SLEEP_TIMES sleeps.            *)
THEOREM InTime == Spec => []MeasuresInTime
<1> QED
  BY InvBoundsNaps, Invariance, PTL

(* Notifications are at least SYS_DEEP_SLEEP_TIMES boots apart, even if the *)
(* device crashes right after sending.                                     *)
THEOREM NotRepeated == Spec => []NoEarlyRepeat
<1>1. IInv => NoEarlyRepeat
  BY DEF IInv
<1> QED
  BY <1>1, Invariance, PTL
===============================================================================

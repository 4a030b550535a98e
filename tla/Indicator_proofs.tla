-------------------------- MODULE Indicator_proofs --------------------------
(***************************************************************************)
(* The indicator for any averaged readings: IndicatorInv is inductive.     *)
(* What the driver's own steps keep is taken from LowPowerPwm_proofs.      *)
(***************************************************************************)
EXTENDS Indicator, LowPowerPwm_proofs

LEMMA AllLeds ==
  ASSUME pwm' \in [Leds -> low_power_pwm_t],
         timer' \in [Leds -> {"stopped", "running", "stopping", "late"}],
         pedaling' \in BOOLEAN, blink' \in [Leds -> Nat],
         \A c \in Leds : LedInv(pwm'[c], timer'[c])
  PROVE  PwmInv'
<1>1. PwmTypeOK'
  BY DEF PwmTypeOK, low_power_pwm_t
<1>2. TimersAndStates' /\ PhaseLegal' /\ StoppedIsDark'
  BY Zenon DEF LedInv, TimersAndStates, PhaseLegal, StoppedIsDark
<1> QED
  BY <1>1, <1>2 DEF PwmInv

LEMMA Numbers ==
  /\ Volt2Digit(375) = 350 /\ Volt2Digit(360) = 336
  /\ Volt2Digit(300) = 280 /\ Volt2Digit(359) = 335
  BY DEF Volt2Digit

LEMMA Patterns ==
  ASSUME NEW level \in Levels, NEW c \in Leds
  PROVE  Pattern(level)[c].period \in Periods /\ Pattern(level)[c].duty \in Duties
<1>1. level \in {"NORMAL", "LOW", "WEAK", "EMPTY", "UNDEFINE"}
  BY DEF Levels
<1> QED
  BY <1>1, SettingsAssumption

LEMMA LevelType == \A r : Level(r) \in Levels
  BY DEF Level, Levels

\* Other settings leave the phase that runs, and whether the PWM is on.
LEMMA StorePeriod ==
  ASSUME NEW p \in low_power_pwm_t, NEW tm, LedInv(p, tm), NEW t \in Periods
  PROVE  LET q == [p EXCEPT !.period = t] IN
         /\ LedInv(q, tm) /\ q \in low_power_pwm_t
         /\ q.period = t /\ q.duty_cycle = p.duty_cycle /\ q.pwm_state = p.pwm_state
<1> DEFINE q == [p EXCEPT !.period = t]
<1>1. /\ q \in low_power_pwm_t /\ q.pwm_state = p.pwm_state /\ q.period = t
      /\ q.duty_cycle = p.duty_cycle /\ q.timeout_ticks = p.timeout_ticks
  BY DEF low_power_pwm_t
<1>2. q.handler = p.handler /\ q.lit = p.lit
  BY Zenon DEF low_power_pwm_t
<1> HIDE DEF q
<1>3. LedInv(q, tm)
  BY <1>1, <1>2, Zenon DEF LedInv
<1> QED
  BY <1>1, <1>3 DEF q

LEMMA StoreDuty ==
  ASSUME NEW p \in low_power_pwm_t, NEW tm, LedInv(p, tm), NEW d \in Duties
  PROVE  LET q == [p EXCEPT !.duty_cycle = d] IN
         /\ LedInv(q, tm) /\ q \in low_power_pwm_t
         /\ q.period = p.period /\ q.duty_cycle = d /\ q.pwm_state = p.pwm_state
<1> DEFINE q == [p EXCEPT !.duty_cycle = d]
<1>1. /\ q \in low_power_pwm_t /\ q.pwm_state = p.pwm_state /\ q.period = p.period
      /\ q.duty_cycle = d /\ q.timeout_ticks = p.timeout_ticks
  BY DEF low_power_pwm_t
<1>2. q.handler = p.handler /\ q.lit = p.lit
  BY Zenon DEF low_power_pwm_t
<1> HIDE DEF q
<1>3. LedInv(q, tm)
  BY <1>1, <1>2, Zenon DEF LedInv
<1> QED
  BY <1>1, <1>3 DEF q

\* A PWM that was on is off and dark, whatever its timer still does.
LEMMA Stop ==
  ASSUME NEW p \in low_power_pwm_t, NEW tm, LedInv(p, tm),
         p.pwm_state # "UNINITIALIZED"
  PROVE  LET q == [pin_off(p) EXCEPT !.pwm_state = "INITIALIZED"] IN
         /\ LedInv(q, "stopping") /\ q \in low_power_pwm_t
         /\ q.pwm_state = "INITIALIZED"
         /\ q.period = p.period /\ q.duty_cycle = p.duty_cycle
<1> DEFINE q == [pin_off(p) EXCEPT !.pwm_state = "INITIALIZED"]
<1>1. /\ q \in low_power_pwm_t /\ q.pwm_state = "INITIALIZED"
      /\ q.period = p.period /\ q.duty_cycle = p.duty_cycle
  BY DEF pin_off, low_power_pwm_t
<1>2. ~q.lit /\ q.handler = p.handler
  BY Zenon DEF pin_off, low_power_pwm_t
<1>3. p.handler /\ p.period \in Periods
  BY DEF LedInv
<1> HIDE DEF q
<1>4. LedInv(q, "stopping")
  BY <1>1, <1>2, <1>3, Zenon DEF LedInv
<1> QED
  BY <1>1, <1>4 DEF q

\* The two LEDs and their instances.
LEMMA TwoLeds ==
  ASSUME PwmInv
  PROVE  /\ "power" \in Leds /\ "battery" \in Leds
         /\ pwm \in [Leds -> low_power_pwm_t]
         /\ timer \in [Leds -> {"stopped", "running", "stopping", "late"}]
         /\ pedaling \in BOOLEAN /\ blink \in [Leds -> Nat]
         /\ \A c \in Leds : LedInv(pwm[c], timer[c])
  BY LedAssumption, PwmInvByLed

-----------------------------------------------------------------------------
(* The driver's steps.                                                     *)

\* A timeout changes neither settings nor whether a PWM is on.
LEMMA TimeoutKeeps ==
  ASSUME PwmInv, NEW c \in Leds, Timeout(c)
  PROVE  \A d \in Leds : /\ pwm'[d].period = pwm[d].period
                         /\ pwm'[d].duty_cycle = pwm[d].duty_cycle
                         /\ pwm'[d].pwm_state = pwm[d].pwm_state
<1> DEFINE q == NextSlope(pwm[c])
<1>1. pwm' = [pwm EXCEPT ![c] = q] /\ timer[c] \in {"running", "stopping"}
  BY DEF Timeout, pwm_timeout_handler
<1>2. pwm[c] \in low_power_pwm_t /\ LedInv(pwm[c], timer[c]) /\ pedaling \in BOOLEAN
  BY TwoLeds
<1>3. pwm[c].period \in Periods
  BY <1>1, <1>2 DEF LedInv
<1>4. q.pwm_state = pwm[c].pwm_state /\ q.period = pwm[c].period
  BY <1>2, <1>3, SlopeStep
<1>5. q.duty_cycle = pwm[c].duty_cycle
  BY <1>2 DEF NextSlope, Corrected, PeriodSlope, DutySlope, pin_on, pin_off, low_power_pwm_t
<1> HIDE DEF q
<1>6. pwm \in [Leds -> low_power_pwm_t]
  BY TwoLeds
<1> QED
  BY <1>1, <1>4, <1>5, <1>6, Zenon

LEMMA TimeoutKeepsInv ==
  ASSUME IndicatorCore, PwmTimeout
  PROVE  IndicatorCore'
<1>1. PICK c \in Leds : Timeout(c)
  BY DEF PwmTimeout
<1>2. UNCHANGED levelVars /\ UNCHANGED <<boot, batlvl, batlvl_copy, off>>
  BY DEF PwmTimeout, levelVars
<1>3. PwmInv'
  BY <1>1, PwmStepInv DEF IndicatorCore, PwmNext, PwmTimer
<1>4. TypeOK'
  BY <1>2, <1>3 DEF IndicatorCore, TypeOK, PwmInv
<1>5. /\ \A d \in Leds : /\ pwm'[d].period = pwm[d].period
                         /\ pwm'[d].duty_cycle = pwm[d].duty_cycle
                         /\ pwm'[d].pwm_state = pwm[d].pwm_state
      /\ "power" \in Leds /\ "battery" \in Leds
  BY <1>1, TimeoutKeeps, TwoLeds DEF IndicatorCore
<1>6. FirstPattern'
  BY <1>2, <1>5 DEF IndicatorCore, FirstPattern, Storing, Ready
<1>7. Initialised' /\ OffIsStopped' /\ EmptyIsOff'
  BY <1>2, <1>5 DEF IndicatorCore, Initialised, OffIsStopped, EmptyIsOff, power
<1> QED
  BY <1>3, <1>4, <1>6, <1>7 DEF IndicatorCore

LEMMA PedalKeepsInv ==
  ASSUME IndicatorCore, Pedalled
  PROVE  IndicatorCore'
<1>1. PwmInv' /\ UNCHANGED <<pwm, boot, batlvl, batlvl_copy, off>>
  BY PwmStepInv DEF IndicatorCore, Pedalled, PwmNext, Pedal, levelVars
<1> QED
  BY <1>1 
  DEF IndicatorCore, TypeOK, PwmInv, FirstPattern, Storing, Ready, Initialised, OffIsStopped,
      EmptyIsOff, power

-----------------------------------------------------------------------------
(* Start-up.                                                               *)

LEMMA AllSteps ==
  {<<"duty", "power">>, <<"init", "battery">>, <<"duty", "battery">>,
   <<"start", "power">>, <<"start", "battery">>, <<"level", "both">>,
   <<"store duty", "power">>, <<"store period", "battery">>,
   <<"store duty", "battery">>, <<"ready", "both">>} \subseteq BootSteps
<1>1. \A c \in Leds : /\ <<"init", c>> \in BootSteps /\ <<"duty", c>> \in BootSteps
                      /\ <<"start", c>> \in BootSteps /\ <<"store period", c>> \in BootSteps
                      /\ <<"store duty", c>> \in BootSteps
  BY DEF BootSteps
<1>2. <<"level", "both">> \in BootSteps /\ <<"ready", "both">> \in BootSteps
  BY DEF BootSteps
<1> QED
  BY <1>1, <1>2, LedAssumption

LEMMA PairFields == \A s, c : <<s, c>>[1] = s /\ <<s, c>>[2] = c
  OBVIOUS

LEMMA LedInitKeepsInv ==
  ASSUME IndicatorCore, power, lppwm_led_init
  PROVE  IndicatorCore'
<1>1. PICK c \in Leds :
        \/ /\ Booted(<<"init", c>>, <<"duty", c>>)
           /\ low_power_pwm_init(c, TimerTicks(2000))
        \/ /\ Booted(<<"duty", c>>, Then(c, "init", <<"start", "power">>))
           /\ low_power_pwm_duty_set(c, InitialDuty(c))
        \/ /\ Booted(<<"start", c>>, Then(c, "start", <<"level", "both">>))
           /\ low_power_pwm_start(c)
  BY DEF lppwm_led_init
<1>2. UNCHANGED <<batlvl, batlvl_copy, off>>
  BY Zenon DEF lppwm_led_init
<1>3. TimerTicks(2000) \in Periods /\ InitialDuty(c) \in Duties
  BY SettingsAssumption DEF InitialDuty
<1>4. PwmInv'
  <2>1. PwmNext
    BY <1>1, <1>3 DEF PwmNext
  <2> QED
    BY <2>1, PwmStepInv DEF IndicatorCore
<1>5. /\ boot' \in BootSteps /\ boot' # <<"ready", "both">>
      /\ \A d \in Leds : boot' # <<"store duty", d>>
      /\ boot'[1] \notin {"store period", "store duty"}
  <2>1. boot' \in {<<"duty", "power">>, <<"init", "battery">>, <<"duty", "battery">>,
                   <<"start", "power">>, <<"start", "battery">>, <<"level", "both">>}
    BY <1>1, LedAssumption DEF Booted, Then
  <2> QED
    <3>1. boot' \in BootSteps
      BY <2>1, AllSteps
    <3>2. boot'[1] \in {"init", "duty", "start", "level"}
      BY <2>1, PairFields
    <3>3. boot'[1] \notin {"ready", "store duty", "store period"}
      BY <3>2
    <3> QED
      BY <3>1, <3>3, PairFields
<1>6. TypeOK' /\ OffIsStopped' /\ EmptyIsOff'
  BY <1>2, <1>4, <1>5 DEF IndicatorCore, TypeOK, PwmInv, OffIsStopped, EmptyIsOff, power
<1>7. FirstPattern'
  BY <1>5 DEF FirstPattern, Storing, Ready
<1>8. pwm \in [Leds -> low_power_pwm_t]
  BY TwoLeds DEF IndicatorCore
<1>9. \A d \in Leds : pwm'[d].pwm_state = "UNINITIALIZED" => pwm[d].pwm_state = "UNINITIALIZED"
  <2>1. CASE low_power_pwm_init(c, TimerTicks(2000))
    BY <1>8, <2>1 DEF low_power_pwm_init
  <2>2. CASE low_power_pwm_duty_set(c, InitialDuty(c))
    BY <1>8, <2>2 DEF low_power_pwm_duty_set, low_power_pwm_t
  <2>3. CASE low_power_pwm_start(c)
    <3>1. \E q : pwm' = [pwm EXCEPT ![c] = q]
      BY <2>3, Zenon DEF low_power_pwm_start
    <3>2. timer'[c] = "running"
      BY <2>3, TwoLeds DEF low_power_pwm_start, IndicatorCore
    <3>3. pwm'[c].pwm_state = "POWERED_ON"
      BY <1>4, <3>2 DEF PwmInv, TimersAndStates
    <3> QED
      BY <1>8, <3>1, <3>3
  <2> QED
    BY <1>1, <2>1, <2>2, <2>3
<1>10. Initialised'
  <2>1. CASE boot = <<"init", c>>
    <3>1. low_power_pwm_init(c, TimerTicks(2000)) /\ boot' = <<"duty", c>>
      BY <1>1, <2>1 DEF Booted
    <3>2. pwm'[c].pwm_state # "UNINITIALIZED"
      BY <1>8, <3>1 DEF low_power_pwm_init, low_power_pwm_t, pin_off
    <3> QED
      BY <1>9, <2>1, <3>1, <3>2, LedAssumption DEF IndicatorCore, Initialised
  <2>2. CASE boot = <<"duty", c>>
    BY <1>1, <1>9, <2>2, LedAssumption DEF IndicatorCore, Initialised, Booted, Then
  <2>3. CASE boot = <<"start", c>>
    BY <1>1, <1>9, <2>3, LedAssumption DEF IndicatorCore, Initialised, Booted, Then
  <2> QED
    BY <1>1, <2>1, <2>2, <2>3 DEF Booted
<1> QED
  BY <1>4, <1>6, <1>7, <1>10 DEF IndicatorCore

LEMMA LevelKeepsInv ==
  ASSUME IndicatorCore, power, InitialLevel
  PROVE  IndicatorCore'
<1>1. /\ UNCHANGED <<pwm, timer, pedaling, blink, off>>
      /\ boot = <<"level", "both">> /\ boot' = <<"store period", "power">>
      /\ batlvl' = Level(-1) /\ batlvl_copy' = Level(-1)
  BY DEF InitialLevel, Booted, pwmVars
<1>2. Level(-1) = "UNDEFINE"
  BY DEF Level
<1>3. PwmInv' /\ PwmTypeOK'
  BY <1>1 DEF IndicatorCore, PwmInv, PwmTypeOK, TimersAndStates, PhaseLegal, StoppedIsDark,
              low_power_pwm_t
<1>4. TypeOK' /\ EmptyIsOff' /\ Initialised' /\ OffIsStopped'
  BY <1>1, <1>2, <1>3, LedAssumption
  DEF IndicatorCore, TypeOK, Levels, BootSteps, Initialised, OffIsStopped, EmptyIsOff, power
<1>5. FirstPattern'
  BY <1>1, <1>2, LedAssumption DEF FirstPattern, Storing, Ready
<1> QED
  BY <1>3, <1>4, <1>5 DEF IndicatorCore

LEMMA PatternKeepsInv ==
  ASSUME IndicatorCore, power, InitialPattern
  PROVE  IndicatorCore'
<1>1. PICK c \in Leds :
        \/ /\ Booted(<<"store period", c>>, <<"store duty", c>>)
           /\ pwm' = [pwm EXCEPT ![c].period = Pattern(batlvl)[c].period]
           /\ blink' = Unblink({c})
        \/ /\ Booted(<<"store duty", c>>, Then(c, "store period", <<"ready", "both">>))
           /\ pwm' = [pwm EXCEPT ![c].duty_cycle = Pattern(batlvl)[c].duty]
           /\ blink' = Unblink({c})
  BY DEF InitialPattern
<1>2. UNCHANGED <<timer, pedaling, batlvl, batlvl_copy, off>>
  BY Zenon DEF InitialPattern
<1>3. /\ pwm \in [Leds -> low_power_pwm_t]
      /\ timer \in [Leds -> {"stopped", "running", "stopping", "late"}]
      /\ pedaling \in BOOLEAN /\ blink \in [Leds -> Nat]
      /\ \A d \in Leds : LedInv(pwm[d], timer[d])
  BY TwoLeds DEF IndicatorCore
<1>4. Pattern(batlvl)[c].period \in Periods /\ Pattern(batlvl)[c].duty \in Duties
  BY Patterns DEF IndicatorCore, TypeOK
<1> DEFINE t == Pattern(batlvl)[c].period
           d == Pattern(batlvl)[c].duty
           q == pwm'[c]
<1>5. /\ pwm' = [pwm EXCEPT ![c] = q] /\ q \in low_power_pwm_t
      /\ LedInv(q, timer[c]) /\ q.pwm_state = pwm[c].pwm_state
      /\ boot = <<"store period", c>> =>
           q.period = t /\ q.duty_cycle = pwm[c].duty_cycle
      /\ boot = <<"store duty", c>> => q.period = pwm[c].period /\ q.duty_cycle = d
      /\ boot = <<"store period", c>> \/ boot = <<"store duty", c>>
  <2>1. CASE Booted(<<"store period", c>>, <<"store duty", c>>)
             /\ pwm' = [pwm EXCEPT ![c].period = t]
    <3>1. boot = <<"store period", c>> /\ boot # <<"store duty", c>>
      BY <2>1 DEF Booted
    <3>2. q = [pwm[c] EXCEPT !.period = t]
      BY <1>3, <2>1
    <3>3. /\ LedInv(q, timer[c]) /\ q \in low_power_pwm_t
          /\ q.period = t /\ q.duty_cycle = pwm[c].duty_cycle /\ q.pwm_state = pwm[c].pwm_state
      BY <1>3, <1>4, <3>2, StorePeriod
    <3> QED
      BY <1>3, <2>1, <3>1, <3>2, <3>3
  <2>2. CASE /\ Booted(<<"store duty", c>>, Then(c, "store period", <<"ready", "both">>))
             /\ pwm' = [pwm EXCEPT ![c].duty_cycle = d]
    <3>1. boot = <<"store duty", c>> /\ boot # <<"store period", c>>
      BY <2>2 DEF Booted
    <3>2. q = [pwm[c] EXCEPT !.duty_cycle = d]
      BY <1>3, <2>2
    <3>3. /\ LedInv(q, timer[c]) /\ q \in low_power_pwm_t
          /\ q.period = pwm[c].period /\ q.duty_cycle = d /\ q.pwm_state = pwm[c].pwm_state
      BY <1>3, <1>4, <3>2, StoreDuty
    <3> QED
      BY <1>3, <2>2, <3>1, <3>2, <3>3
  <2> QED
    BY <1>1, <2>1, <2>2
<1> HIDE DEF q
<1>6. \A e \in Leds : pwm'[e].pwm_state = pwm[e].pwm_state
  BY <1>3, <1>5
<1>7. blink' \in [Leds -> Nat]
  <2>1. blink' = Unblink({c})
    BY <1>1
  <2> QED
    BY <1>3, <2>1 DEF Unblink
<1>8. PwmInv'
  <2>1. pwm' \in [Leds -> low_power_pwm_t]
    BY <1>3, <1>5
  <2>2. \A e \in Leds : LedInv(pwm'[e], timer'[e])
    BY <1>2, <1>3, <1>5, Zenon
  <2> QED
    BY <1>2, <1>3, <1>7, <2>1, <2>2, AllLeds
<1>9. boot' \in BootSteps
  <2>1. boot' \in {<<"store duty", "power">>, <<"store period", "battery">>,
                   <<"store duty", "battery">>, <<"ready", "both">>}
    BY <1>5, <1>1, LedAssumption DEF Booted, Then
  <2> QED
    BY <2>1, AllSteps, PairFields
<1>10. TypeOK' /\ OffIsStopped' /\ EmptyIsOff'
  BY <1>2, <1>6, <1>8, <1>9 DEF IndicatorCore, TypeOK, PwmInv, OffIsStopped, EmptyIsOff, power
<1>11. Initialised'
  <2>1. boot = <<"store period", c>> \/ boot = <<"store duty", c>>
    BY <1>1 DEF Booted
  <2>2. \A e \in Leds : pwm[e].pwm_state # "UNINITIALIZED"
    <3>1. boot[1] \in {"store period", "store duty"}
      BY <2>1, PairFields
    <3>2. boot[1] \notin {"init", "duty"}
      BY <3>1
    <3>3. boot \notin {<<"init", "power">>, <<"duty", "power">>, <<"init", "battery">>}
      BY <3>2, PairFields
    <3> QED
      BY <3>3 DEF IndicatorCore, Initialised
  <2> QED
    BY <1>6, <2>2 DEF Initialised
<1>12. FirstPattern'
  <2>1. batlvl_copy' = batlvl'
    <3>1. Storing
      BY <1>5, PairFields DEF Storing
    <3> QED
      BY <1>2, <3>1 DEF IndicatorCore, FirstPattern
  <2>2. CASE boot = <<"store period", c>>
    <3>1. boot' = <<"store duty", c>>
      BY <1>1, <2>2 DEF Booted
    <3>2. q.period = t /\ \A e \in Leds \ {c} : pwm'[e] = pwm[e]
      BY <1>3, <1>5, <2>2
    <3> QED
      BY <1>2, <2>1, <2>2, <3>1, <3>2, LedAssumption
      DEF IndicatorCore, FirstPattern, Storing, Ready, q
  <2>3. CASE boot = <<"store duty", c>>
    <3>1. boot' = Then(c, "store period", <<"ready", "both">>)
      BY <1>1, <2>3 DEF Booted
    <3>2. /\ q.period = pwm[c].period /\ q.duty_cycle = d
          /\ \A e \in Leds \ {c} : pwm'[e] = pwm[e]
      BY <1>3, <1>5, <2>3
    <3> QED
      BY <1>2, <2>1, <2>3, <3>1, <3>2, LedAssumption
      DEF IndicatorCore, FirstPattern, Storing, Ready, Then, q
  <2> QED
    BY <1>5, <2>2, <2>3
<1> QED
  BY <1>8, <1>10, <1>11, <1>12 DEF IndicatorCore

-----------------------------------------------------------------------------
(* The SAADC interrupt.                                                    *)

\* What SetIndicator leaves, whether it stores the pattern or finds it there.
LEMMA Shown ==
  ASSUME IndicatorCore, Ready, NEW level \in Levels
  PROVE  LET p == SetIndicator(level).p IN
         /\ p \in [Leds -> low_power_pwm_t]
         /\ \A c \in Leds : /\ LedInv(p[c], timer[c])
                            /\ p[c].period = Pattern(level)[c].period
                            /\ p[c].duty_cycle = Pattern(level)[c].duty
                            /\ p[c].pwm_state = pwm[c].pwm_state
         /\ SetIndicator(level).b \in [Leds -> Nat]
<1>1. /\ pwm \in [Leds -> low_power_pwm_t] /\ blink \in [Leds -> Nat]
      /\ \A c \in Leds : LedInv(pwm[c], timer[c])
  BY TwoLeds DEF IndicatorCore
<1>2. /\ batlvl_copy = batlvl
      /\ \A c \in Leds : /\ pwm[c].period = Pattern(batlvl)[c].period
                         /\ pwm[c].duty_cycle = Pattern(batlvl)[c].duty
  BY DEF IndicatorCore, FirstPattern
<1>3. CASE level = batlvl_copy
  BY <1>1, <1>2, <1>3 DEF SetIndicator
<1>4. CASE level # batlvl_copy
  <2>1. /\ SetIndicator(level).p = Configured(Pattern(level))
        /\ SetIndicator(level).b = Unblink(Leds)
    BY <1>4 DEF SetIndicator
  <2>2. Unblink(Leds) \in [Leds -> Nat]
    BY DEF Unblink
  <2>3. ASSUME NEW c \in Leds
        PROVE  LET q == Configured(Pattern(level))[c] IN
               /\ LedInv(q, timer[c]) /\ q \in low_power_pwm_t
               /\ q.period = Pattern(level)[c].period
               /\ q.duty_cycle = Pattern(level)[c].duty
               /\ q.pwm_state = pwm[c].pwm_state
    <3>1. Pattern(level)[c].period \in Periods /\ Pattern(level)[c].duty \in Duties
      BY Patterns
    <3>2. pwm[c] \in low_power_pwm_t /\ LedInv(pwm[c], timer[c])
      BY <1>1
    <3>3. Configured(Pattern(level))[c] = [pwm[c] EXCEPT !.period = Pattern(level)[c].period,
                                                         !.duty_cycle = Pattern(level)[c].duty]
      BY DEF Configured
    <3> DEFINE t == Pattern(level)[c].period
               d == Pattern(level)[c].duty
    <3> HIDE DEF t, d
    <3> DEFINE q == Configured(Pattern(level))[c]
    <3>4. q = [pwm[c] EXCEPT !.period = t, !.duty_cycle = d]
      BY <3>3 DEF t, d
    <3> HIDE DEF q
    <3>5. t \in Periods /\ d \in Duties
      BY <3>1 DEF t, d
    <3>6. /\ LedInv(q, timer[c]) /\ q \in low_power_pwm_t
          /\ q.period = t /\ q.duty_cycle = d /\ q.pwm_state = pwm[c].pwm_state
      <4> DEFINE p == [pwm[c] EXCEPT !.period = t]
      <4>1. /\ LedInv(p, timer[c]) /\ p \in low_power_pwm_t
            /\ p.period = t /\ p.pwm_state = pwm[c].pwm_state
        BY <3>2, <3>5, StorePeriod
      <4>2. q = [p EXCEPT !.duty_cycle = d]
        BY <3>2, <3>4 DEF low_power_pwm_t
      <4> HIDE DEF p
      <4> QED
        BY <3>5, <4>1, <4>2, StoreDuty
    <3> QED
      BY <3>6 DEF t, d, q
  <2>4. Configured(Pattern(level)) \in [Leds -> low_power_pwm_t]
    BY <2>3 DEF Configured
  <2> QED
    BY <2>1, <2>2, <2>3, <2>4
<1> QED
  BY <1>3, <1>4

LEMMA CallbackKeepsInv ==
  ASSUME IndicatorCore, NEW r \in Readings, saadc_callback(r)
  PROVE  IndicatorCore'
<1> DEFINE level == Level(r)
           p == SetIndicator(level).p
<1>1. /\ Ready /\ batlvl' = level /\ batlvl_copy' = level
      /\ blink' = SetIndicator(level).b /\ UNCHANGED <<boot, pedaling>>
  BY DEF saadc_callback
<1>2. level \in Levels
  BY LevelType
<1> HIDE DEF level
<1>3. /\ p \in [Leds -> low_power_pwm_t] /\ blink' \in [Leds -> Nat]
      /\ \A c \in Leds : /\ LedInv(p[c], timer[c])
                         /\ p[c].period = Pattern(level)[c].period
                         /\ p[c].duty_cycle = Pattern(level)[c].duty
                         /\ p[c].pwm_state = pwm[c].pwm_state
  BY <1>1, <1>2, Shown
<1>4. \A c \in Leds : pwm[c].pwm_state # "UNINITIALIZED"
  <2>1. boot[1] = "ready"
    BY <1>1, PairFields DEF Ready
  <2>2. boot[1] \notin {"init", "duty"}
    BY <2>1
  <2>3. boot \notin {<<"init", "power">>, <<"duty", "power">>, <<"init", "battery">>}
    BY <2>2, PairFields
  <2> QED
    BY <2>3 DEF IndicatorCore, Initialised
<1>5. /\ timer \in [Leds -> {"stopped", "running", "stopping", "late"}]
      /\ pedaling' \in BOOLEAN
  BY <1>1, TwoLeds DEF IndicatorCore
<1>6. /\ \A c \in Leds : /\ pwm'[c].period = Pattern(level)[c].period
                         /\ pwm'[c].duty_cycle = Pattern(level)[c].duty
                         /\ pwm'[c].pwm_state # "UNINITIALIZED"
      /\ PwmInv' /\ OffIsStopped' /\ off' \in {"no", "too low", "button"} /\ EmptyIsOff'
  <2> HIDE DEF p
  <2>1. CASE TooLow(r)
    <3>1. /\ pwm' = indicator_stop(p) /\ timer' = [c \in Leds |-> "stopping"]
      BY <2>1 DEF saadc_callback, p, level
    <3>2. off' = "too low"
      BY <2>1 DEF saadc_callback
    <3>3. ASSUME NEW c \in Leds
          PROVE  /\ LedInv(pwm'[c], timer'[c]) /\ pwm'[c] \in low_power_pwm_t
                 /\ pwm'[c].pwm_state = "INITIALIZED"
                 /\ pwm'[c].period = p[c].period /\ pwm'[c].duty_cycle = p[c].duty_cycle
      <4>1. pwm'[c] = [pin_off(p[c]) EXCEPT !.pwm_state = "INITIALIZED"]
        BY <3>1 DEF indicator_stop
      <4>2. timer'[c] = "stopping"
        BY <3>1
      <4>3. /\ p[c] \in low_power_pwm_t /\ LedInv(p[c], timer[c])
            /\ p[c].pwm_state # "UNINITIALIZED"
        BY <1>3, <1>4
      <4> QED
        BY <4>1, <4>2, <4>3, Stop
    <3>4. pwm' \in [Leds -> low_power_pwm_t]
      BY <3>1, <3>3 DEF indicator_stop
    <3>5. timer' \in [Leds -> {"stopped", "running", "stopping", "late"}]
      BY <3>1
    <3>6. PwmInv'
      BY <1>3, <1>5, <3>3, <3>4, <3>5, AllLeds
    <3>7. OffIsStopped'
      BY <3>3 DEF OffIsStopped
    <3>8. off' \in {"no", "too low", "button"} /\ EmptyIsOff'
      BY <3>2, Zenon DEF EmptyIsOff, power
    <3> QED
      BY <1>3, <3>3, <3>6, <3>7, <3>8
  <2>2. CASE ~TooLow(r)
    <3>1. pwm' = p /\ timer' = timer
      BY <2>2 DEF saadc_callback, p, level
    <3>2. off' = off
      BY <2>2 DEF saadc_callback
    <3>3. PwmInv'
      BY <1>3, <1>5, <3>1, AllLeds
    <3>4. OffIsStopped'
      <4>1. \A c \in Leds : pwm'[c].pwm_state = pwm[c].pwm_state
        BY <1>3, <3>1
      <4> QED
        BY <3>2, <4>1, Zenon DEF IndicatorCore, OffIsStopped
    <3>5. level # "EMPTY"
      <4>1. r \in Int /\ ~(r < 335)
        BY <2>2, Numbers, ReadingsAssumption DEF TooLow
      <4> QED
        BY <4>1, Numbers DEF Level, level
    <3>6. EmptyIsOff'
      BY <1>1, <3>5 DEF EmptyIsOff, power
    <3>7. off' \in {"no", "too low", "button"}
      BY <3>2, Zenon DEF IndicatorCore, TypeOK
    <3> QED
      BY <1>3, <1>4, <3>1, <3>3, <3>4, <3>6, <3>7
  <2> QED
    BY <2>1, <2>2
<1>10. PwmInv' /\ PwmTypeOK' /\ OffIsStopped' /\ EmptyIsOff' /\ off' \in {"no", "too low", "button"}
  BY <1>6, Zenon DEF PwmInv
<1>7. TypeOK'
  <2>1. boot' \in BootSteps /\ batlvl' \in Levels /\ batlvl_copy' \in Levels \cup {"END"}
    BY <1>1, <1>2 DEF IndicatorCore, TypeOK
  <2> QED
    BY <1>10, <2>1, Zenon DEF TypeOK
<1>8. FirstPattern'
  BY <1>1, <1>6 DEF FirstPattern, Storing, Ready
<1>9. Initialised'
  BY <1>6 DEF Initialised
<1> QED
  BY <1>10, <1>7, <1>8, <1>9, Zenon DEF IndicatorCore

-----------------------------------------------------------------------------
(* Power-up, reset and the whole specification.                            *)

PoweredUp == /\ pwm = [c \in Leds |-> Idle]
             /\ timer = [c \in Leds |-> "stopped"]
             /\ pedaling = FALSE
             /\ blink = [c \in Leds |-> 0]
             /\ boot = <<"init", "power">>
             /\ batlvl = "NORMAL" /\ batlvl_copy = "END"
             /\ off = "no"

LEMMA PowerUpInv == PoweredUp => IndicatorCore
<1> SUFFICES ASSUME PoweredUp PROVE IndicatorCore
  OBVIOUS
<1>1. PwmInv
  BY PwmInitInv DEF PwmInit, PoweredUp
<1>2. /\ boot = <<"init", "power">> /\ batlvl = "NORMAL" /\ batlvl_copy = "END"
      /\ pwm = [c \in Leds |-> Idle]
  BY DEF PoweredUp
<1>3. off = "no"
  BY DEF PoweredUp
<1>4. boot \in BootSteps /\ batlvl \in Levels /\ batlvl_copy \in Levels \cup {"END"}
  BY <1>2, LedAssumption DEF BootSteps, Levels
<1>5. boot[1] = "init"
  BY <1>2
<1>6. FirstPattern
  <2>1. ~Storing
    BY <1>5 DEF Storing
  <2>2. ~Ready /\ \A c \in Leds : boot # <<"store duty", c>>
    <3>1. boot[1] # "ready" /\ boot[1] # "store duty"
      BY <1>5
    <3>2. ~Ready
      BY <3>1, PairFields DEF Ready
    <3>3. \A c \in Leds : boot # <<"store duty", c>>
      BY <3>1, PairFields
    <3> QED
      BY <3>2, <3>3
  <2> QED
    BY <2>1, <2>2 DEF FirstPattern
<1>7. Initialised
  BY <1>2 DEF Initialised
<1>8. TypeOK
  BY <1>1, <1>3, <1>4, Zenon DEF TypeOK, PwmInv
<1>9. OffIsStopped /\ EmptyIsOff
  BY <1>2, <1>3 DEF OffIsStopped, EmptyIsOff, power
<1> QED
  BY <1>1, <1>6, <1>7, <1>8, <1>9 DEF IndicatorCore

\* A button changes nothing but the power.
LEMMA SleepKeepsInv ==
  ASSUME IndicatorCore, power, sleep_mode_enter
  PROVE  IndicatorCore'
<1>1. UNCHANGED <<pwm, timer, pedaling, blink, boot, batlvl, batlvl_copy>> /\ off' = "button"
  BY DEF sleep_mode_enter, pwmVars
<1>2. PwmInv'
  BY <1>1 DEF IndicatorCore, PwmInv, PwmTypeOK, TimersAndStates, PhaseLegal, StoppedIsDark
<1>3. TypeOK'
  BY <1>1, <1>2 DEF IndicatorCore, TypeOK, PwmInv
<1>4. FirstPattern' /\ Initialised'
  BY <1>1 DEF IndicatorCore, FirstPattern, Storing, Ready, Initialised
<1>5. OffIsStopped' /\ EmptyIsOff'
  BY <1>1 DEF OffIsStopped, EmptyIsOff, power
<1> QED
  BY <1>2, <1>3, <1>4, <1>5 DEF IndicatorCore

LEMMA CoreInit == Init => IndicatorCore
  BY PowerUpInv DEF Init, PwmInit, PoweredUp

LEMMA PowerUpInvNext == PoweredUp' => IndicatorCore'
  BY PowerUpInv, PTL

LEMMA CoreStep == IndicatorCore /\ [Next]_indicatorVars => IndicatorCore'
<1> SUFFICES ASSUME IndicatorCore, [Next]_indicatorVars PROVE IndicatorCore'
  OBVIOUS
<1>1. CASE power /\ lppwm_led_init
  BY <1>1, LedInitKeepsInv
<1>2. CASE power /\ InitialLevel
  BY <1>2, LevelKeepsInv
<1>3. CASE power /\ InitialPattern
  BY <1>3, PatternKeepsInv
<1>4. CASE \E r \in Readings : saadc_callback(r)
  BY <1>4, CallbackKeepsInv
<1>5. CASE PwmTimeout
  BY <1>5, TimeoutKeepsInv
<1>6. CASE Pedalled
  BY <1>6, PedalKeepsInv
<1>7. CASE Reset
  <2>1. PoweredUp'
    BY <1>7, Zenon DEF Reset, PoweredUp
  <2> QED
    BY <2>1, PowerUpInvNext
<1>9. CASE power /\ sleep_mode_enter
  BY <1>9, SleepKeepsInv
<1>8. CASE UNCHANGED indicatorVars
  BY <1>8
  DEF indicatorVars, pwmVars, levelVars, IndicatorCore, TypeOK, PwmInv, PwmTypeOK,
      TimersAndStates, PhaseLegal, StoppedIsDark, FirstPattern, Storing, Ready, Initialised,
      OffIsStopped, EmptyIsOff, power
<1> QED
  BY <1>1, <1>2, <1>3, <1>4, <1>5, <1>6, <1>7, <1>8, <1>9, Zenon DEF Next, Boot

-----------------------------------------------------------------------------
(* No LED gets stuck: NeverStuck on top of IndicatorCore.                  *)

\* NeverStuck of one LED, but for when it is started.
Ends(p, tm) == /\ p.pwm_state = "POWERED_ON" => tm = "running"
               /\ p.lit => p.evt_type = "DUTY_CYCLE"
               /\ p.duty_cycle # Full

LEMMA StuckByLed ==
  NeverStuck <=> \A c \in Leds : /\ power /\ Started(c) => pwm[c].pwm_state = "POWERED_ON"
                                 /\ Ends(pwm[c], timer[c])
  BY Zenon DEF NeverStuck, Ends

LEMMA StuckByLedNext ==
  NeverStuck' <=> \A c \in Leds : /\ power' /\ Started(c)' => pwm'[c].pwm_state = "POWERED_ON"
                                  /\ Ends(pwm'[c], timer'[c])
  BY Zenon DEF NeverStuck, Ends

\* Where the start-up is when which LED has been started.
StartOrder ==
  /\ boot[1] \in {"init", "duty"} => \A c : ~Started(c)
  /\ boot = <<"start", "power">> => \A c : ~Started(c)
  /\ boot = <<"start", "battery">> => \A c : Started(c) <=> c = "power"
  /\ boot[1] \in {"level", "store period", "store duty"} \/ Ready => \A c : Started(c)

LEMMA StartedWhen == StartOrder
<1>1. ASSUME boot[1] \in {"init", "duty"}, NEW c PROVE ~Started(c)
  <2>1. boot[1] \notin {"level", "store period", "store duty", "ready", "start"}
    BY <1>1
  <2>2. ~Ready /\ boot # <<"start", "battery">>
    BY <2>1, PairFields DEF Ready
  <2> QED
    BY <2>1, <2>2 DEF Started, Storing
<1>2. ASSUME NEW d, boot = <<"start", d>>, NEW c
      PROVE  Started(c) <=> d = "battery" /\ c = "power"
  <2>1. boot[1] = "start" /\ boot[2] = d
    BY <1>2, PairFields
  <2>2. boot[1] \notin {"level", "store period", "store duty", "ready"}
    BY <2>1
  <2>3. ~Ready
    BY <2>2, PairFields DEF Ready
  <2>4. boot = <<"start", "battery">> <=> d = "battery"
    BY <1>2, <2>1, PairFields
  <2> QED
    BY <2>2, <2>3, <2>4, Zenon DEF Started, Storing
<1>3. "power" # "battery"
  OBVIOUS
<1>4. boot[1] \in {"level", "store period", "store duty"} \/ Ready => \A c : Started(c)
  BY DEF Started, Storing
<1> QED
  BY <1>1, <1>2, <1>3, <1>4, Zenon DEF StartOrder

LEMMA StartedWhenNext == StartOrder'
  BY StartedWhen, PTL

LEMMA PatternDuties ==
  ASSUME NEW level \in Levels, NEW c \in Leds
  PROVE  Pattern(level)[c].duty # Full
<1>1. level \in {"NORMAL", "LOW", "WEAK", "EMPTY", "UNDEFINE"}
  BY DEF Levels
<1> QED
  BY <1>1, SettingsAssumption

LEMMA TimeoutNeverStuck ==
  ASSUME IndicatorCore, NeverStuck, PwmTimeout
  PROVE  NeverStuck' /\ \A c \in Leds : ~pwm[c].lit /\ pwm'[c].lit => ~pedaling
<1>1. PICK c \in Leds : Timeout(c)
  BY DEF PwmTimeout
<1>2. boot' = boot /\ power' = power
  BY DEF PwmTimeout, levelVars, power
<1> DEFINE q == NextSlope(pwm[c])
<1>3. /\ pwm' = [pwm EXCEPT ![c] = q] /\ timer[c] \in {"running", "stopping"}
      /\ timer' = [timer EXCEPT ![c] = IF q.pwm_state = "POWERED_ON" THEN "running" ELSE
                                       IF @ = "stopping" THEN "late" ELSE @]
  BY <1>1 DEF Timeout, pwm_timeout_handler
<1>4. /\ pwm \in [Leds -> low_power_pwm_t]
      /\ timer \in [Leds -> {"stopped", "running", "stopping", "late"}]
      /\ pedaling \in BOOLEAN
      /\ LedInv(pwm[c], timer[c])
  BY TwoLeds DEF IndicatorCore
<1>5. pwm[c] \in low_power_pwm_t /\ pwm[c].period \in Periods
  BY <1>3, <1>4 DEF LedInv
<1>6. \A d \in Leds : Ends(pwm[d], timer[d])
  BY StuckByLed
<1>7. /\ q.duty_cycle = pwm[c].duty_cycle
      /\ q.lit => q.evt_type = "DUTY_CYCLE"
      /\ q.lit => ~pwm[c].lit /\ ~pedaling
  BY <1>4, <1>5, <1>6, SlopeLight DEF Ends
<1>8. \A d \in Leds : pwm'[d].pwm_state = pwm[d].pwm_state
  BY <1>1, TimeoutKeeps DEF IndicatorCore
<1> HIDE DEF q
<1>9. /\ pwm'[c] = q /\ \A d \in Leds \ {c} : pwm'[d] = pwm[d] /\ timer'[d] = timer[d]
      /\ q.pwm_state = "POWERED_ON" => timer'[c] = "running"
  BY <1>3, <1>4
<1>10. Ends(pwm'[c], timer'[c])
  BY <1>6, <1>7, <1>9, Zenon DEF Ends
<1>11. \A d \in Leds : Ends(pwm'[d], timer'[d])
  BY <1>6, <1>9, <1>10
<1>12. \A d \in Leds : Started(d)' <=> Started(d)
  BY <1>2 DEF Started, Storing, Ready
<1>13. NeverStuck'
  BY <1>2, <1>8, <1>11, <1>12, StuckByLed, StuckByLedNext
<1>14. ASSUME NEW d \in Leds, ~pwm[d].lit, pwm'[d].lit PROVE ~pedaling
  BY <1>7, <1>9, <1>14, Zenon
<1> QED
  BY <1>13, <1>14

LEMMA LedInitNeverStuck ==
  ASSUME IndicatorCore, NeverStuck, power, lppwm_led_init
  PROVE  NeverStuck' /\ \A c \in Leds : ~pwm[c].lit /\ pwm'[c].lit => ~pedaling
<1>1. PICK c \in Leds :
        \/ /\ Booted(<<"init", c>>, <<"duty", c>>)
           /\ low_power_pwm_init(c, TimerTicks(2000))
        \/ /\ Booted(<<"duty", c>>, Then(c, "init", <<"start", "power">>))
           /\ low_power_pwm_duty_set(c, InitialDuty(c))
        \/ /\ Booted(<<"start", c>>, Then(c, "start", <<"level", "both">>))
           /\ low_power_pwm_start(c)
  BY DEF lppwm_led_init
<1>2. power' = power
  BY DEF lppwm_led_init, power
<1>3. /\ pwm \in [Leds -> low_power_pwm_t]
      /\ timer \in [Leds -> {"stopped", "running", "stopping", "late"}]
      /\ pedaling \in BOOLEAN
      /\ \A d \in Leds : LedInv(pwm[d], timer[d])
  BY TwoLeds DEF IndicatorCore
<1>4. \A d \in Leds : Ends(pwm[d], timer[d])
  BY StuckByLed
<1>5. pwm[c] \in low_power_pwm_t
  BY <1>3
<1>6. CASE /\ Booted(<<"init", c>>, <<"duty", c>>)
           /\ low_power_pwm_init(c, TimerTicks(2000))
  <2> DEFINE q == [pin_off(pwm[c]) EXCEPT !.handler = TRUE,
                                          !.period = TimerTicks(2000),
                                          !.pwm_state = "INITIALIZED"]
  <2>1. pwm' = [pwm EXCEPT ![c] = q] /\ timer' = timer
    BY <1>6, Zenon DEF low_power_pwm_init
  <2>2. /\ q.pwm_state = "INITIALIZED" /\ q.duty_cycle = pwm[c].duty_cycle
        /\ q.evt_type = pwm[c].evt_type
    BY <1>5 DEF pin_off, low_power_pwm_t
  <2>3. ~q.lit
    <3>1. q = [[[pin_off(pwm[c]) EXCEPT !.handler = TRUE] EXCEPT !.period = TimerTicks(2000)]
                 EXCEPT !.pwm_state = "INITIALIZED"]
      OBVIOUS
    <3> QED
      BY <1>5, <3>1, ZenonT(30) DEF pin_off, low_power_pwm_t
  <2>4. "INITIALIZED" # "POWERED_ON"
    OBVIOUS
  <2> HIDE DEF q
  <2>5. Ends(q, timer[c])
    BY <1>4, <2>2, <2>3, <2>4, Zenon DEF Ends
  <2>6. \A d \in Leds : Ends(pwm'[d], timer'[d])
    BY <1>3, <1>4, <2>1, <2>5
  <2>7. \A d \in Leds : ~Started(d)'
    <3>1. boot'[1] = "duty"
      BY <1>6, PairFields DEF Booted
    <3> QED
      BY <3>1, StartedWhenNext DEF StartOrder
  <2>8. \A d \in Leds : pwm'[d].lit => pwm[d].lit
    <3>1. pwm'[c] = q /\ \A d \in Leds \ {c} : pwm'[d] = pwm[d]
      BY <1>3, <2>1
    <3> QED
      BY <2>3, <3>1, Zenon
  <2> QED
    BY <2>6, <2>7, <2>8, StuckByLedNext, Zenon
<1>7. CASE /\ Booted(<<"duty", c>>, Then(c, "init", <<"start", "power">>))
           /\ low_power_pwm_duty_set(c, InitialDuty(c))
  <2> DEFINE q == [pwm[c] EXCEPT !.duty_cycle = InitialDuty(c)]
  <2>1. pwm' = [pwm EXCEPT ![c] = q] /\ timer' = timer
    BY <1>7, Zenon DEF low_power_pwm_duty_set
  <2>2. InitialDuty(c) # Full
    BY SettingsAssumption DEF InitialDuty
  <2>3. /\ q.pwm_state = pwm[c].pwm_state /\ q.duty_cycle = InitialDuty(c)
        /\ q.evt_type = pwm[c].evt_type
    BY <1>5 DEF low_power_pwm_t
  <2>4. q.lit = pwm[c].lit
    BY <1>5, Zenon DEF low_power_pwm_t
  <2> HIDE DEF q
  <2>5. Ends(q, timer[c])
    BY <1>4, <2>2, <2>3, <2>4, Zenon DEF Ends
  <2>6. \A d \in Leds : Ends(pwm'[d], timer'[d])
    BY <1>3, <1>4, <2>1, <2>5
  <2>7. \A d \in Leds : ~Started(d)'
    <3>1. boot'[1] = "init" \/ boot' = <<"start", "power">>
      BY <1>7, PairFields DEF Booted, Then
    <3>2. boot'[1] \in {"init", "duty"} \/ boot' = <<"start", "power">>
      BY <3>1
    <3> QED
      BY <3>2, StartedWhenNext DEF StartOrder
  <2>8. \A d \in Leds : pwm'[d].lit => pwm[d].lit
    <3>1. pwm'[c] = q /\ \A d \in Leds \ {c} : pwm'[d] = pwm[d]
      BY <1>3, <2>1
    <3> QED
      BY <2>4, <3>1, Zenon
  <2> QED
    BY <2>6, <2>7, <2>8, StuckByLedNext, Zenon
<1>8. CASE /\ Booted(<<"start", c>>, Then(c, "start", <<"level", "both">>))
           /\ low_power_pwm_start(c)
  <2> DEFINE o == [pin_off(pwm[c]) EXCEPT !.pwm_state = "POWERED_ON",
                                          !.evt_type = "PERIOD",
                                          !.handler = FALSE]
             p == NextSlope(o)
             q == [p EXCEPT !.handler = TRUE]
  <2>1. /\ pwm' = [pwm EXCEPT ![c] = q]
        /\ timer' = [timer EXCEPT ![c] = "running"]
        /\ pwm[c].pwm_state = "INITIALIZED"
    BY <1>8, Zenon DEF low_power_pwm_start
  <2>2. /\ o \in low_power_pwm_t /\ o.pwm_state = "POWERED_ON"
        /\ o.duty_cycle = pwm[c].duty_cycle /\ o.period = pwm[c].period
    BY <1>5 DEF pin_off, low_power_pwm_t
  <2>3. ~o.lit
    BY <1>5, Zenon DEF pin_off, low_power_pwm_t
  <2>4. o.period \in Periods
    BY <1>3, <2>1, <2>2 DEF LedInv
  <2>5. o.duty_cycle # Full
    BY <1>4, <2>2 DEF Ends
  <2> HIDE DEF o
  <2>6. /\ p.duty_cycle = o.duty_cycle
        /\ p.lit => p.evt_type = "DUTY_CYCLE"
        /\ p.lit => ~pedaling
    <3>1. o.lit => o.evt_type = "DUTY_CYCLE"
      BY <2>3, Zenon
    <3> QED
      BY <1>3, <2>2, <2>4, <2>5, <3>1, SlopeLight
  <2>7. p \in low_power_pwm_t /\ p.pwm_state = "POWERED_ON"
    BY <1>3, <2>2, <2>4, SlopeStep
  <2> HIDE DEF p
  <2>8. /\ q.pwm_state = "POWERED_ON" /\ q.duty_cycle = p.duty_cycle
        /\ q.evt_type = p.evt_type
    BY <2>7 DEF low_power_pwm_t
  <2>9. q.lit = p.lit
    BY <2>7, Zenon DEF low_power_pwm_t
  <2> HIDE DEF q
  <2>10. Ends(q, "running")
    BY <2>5, <2>6, <2>8, <2>9, Zenon DEF Ends
  <2>11. /\ pwm'[c] = q /\ timer'[c] = "running"
         /\ \A d \in Leds \ {c} : pwm'[d] = pwm[d] /\ timer'[d] = timer[d]
    BY <1>3, <2>1
  <2>12. \A d \in Leds : Ends(pwm'[d], timer'[d])
    BY <1>4, <2>10, <2>11
  <2>13. ASSUME NEW d \in Leds, Started(d)'
         PROVE  pwm'[d].pwm_state = "POWERED_ON"
    <3>1. CASE d = c
      BY <2>8, <2>11, <3>1
    <3>2. CASE d # c
      <4>1. c = "battery" /\ d = "power"
        <5>1. CASE c = "power"
          <6>1. boot' = <<"start", "battery">>
            BY <1>8, <5>1 DEF Booted, Then
          <6> QED
            BY <2>13, <3>2, <5>1, <6>1, StartedWhenNext DEF StartOrder
        <5> QED
          BY <3>2, <5>1, LedAssumption
      <4>2. Started(d)
        BY <1>8, <4>1, StartedWhen DEF Booted, StartOrder
      <4> QED
        BY <2>11, <3>2, <4>2, StuckByLed
    <3> QED
      BY <3>1, <3>2
  <2>14. ASSUME NEW d \in Leds, ~pwm[d].lit, pwm'[d].lit PROVE ~pedaling
    BY <2>6, <2>9, <2>11, <2>14, Zenon
  <2> QED
    BY <2>12, <2>13, <2>14, StuckByLedNext, Zenon
<1> QED
  BY <1>1, <1>6, <1>7, <1>8

LEMMA LevelNeverStuck ==
  ASSUME IndicatorCore, NeverStuck, power, InitialLevel
  PROVE  NeverStuck' /\ \A c \in Leds : pwm'[c].lit => pwm[c].lit
<1>1. /\ UNCHANGED <<pwm, timer>> /\ boot = <<"level", "both">>
  BY DEF InitialLevel, Booted, pwmVars
<1>2. \A c : Started(c)
  BY <1>1, PairFields, StartedWhen DEF StartOrder
<1> QED
  BY <1>1, <1>2, StuckByLed, StuckByLedNext, Zenon

LEMMA PatternNeverStuck ==
  ASSUME IndicatorCore, NeverStuck, power, InitialPattern
  PROVE  NeverStuck' /\ \A c \in Leds : pwm'[c].lit => pwm[c].lit
<1>1. PICK c \in Leds :
        \/ /\ Booted(<<"store period", c>>, <<"store duty", c>>)
           /\ pwm' = [pwm EXCEPT ![c].period = Pattern(batlvl)[c].period]
        \/ /\ Booted(<<"store duty", c>>, Then(c, "store period", <<"ready", "both">>))
           /\ pwm' = [pwm EXCEPT ![c].duty_cycle = Pattern(batlvl)[c].duty]
  BY DEF InitialPattern
<1>2. UNCHANGED timer
  BY Zenon DEF InitialPattern
<1>3. pwm \in [Leds -> low_power_pwm_t] /\ pwm[c] \in low_power_pwm_t
  BY TwoLeds DEF IndicatorCore
<1>4. Pattern(batlvl)[c].duty # Full
  BY PatternDuties DEF IndicatorCore, TypeOK
<1>5. /\ \A d \in Leds : Ends(pwm[d], timer[d])
      /\ \A d \in Leds : pwm[d].pwm_state = "POWERED_ON"
  <2>1. boot[1] \in {"store period", "store duty"}
    BY <1>1, PairFields DEF Booted
  <2> QED
    BY <2>1, StartedWhen, StuckByLed DEF StartOrder
<1> DEFINE t == Pattern(batlvl)[c].period
           u == Pattern(batlvl)[c].duty
           a == [pwm[c] EXCEPT !.period = t]
           b == [pwm[c] EXCEPT !.duty_cycle = u]
<1>6. pwm' = [pwm EXCEPT ![c] = a] \/ pwm' = [pwm EXCEPT ![c] = b]
  BY <1>1, Zenon
<1>7. /\ a.pwm_state = pwm[c].pwm_state /\ b.pwm_state = pwm[c].pwm_state
      /\ a.evt_type = pwm[c].evt_type /\ b.evt_type = pwm[c].evt_type
      /\ a.duty_cycle = pwm[c].duty_cycle /\ b.duty_cycle = u
  BY <1>3 DEF low_power_pwm_t
<1>8. a.lit = pwm[c].lit /\ b.lit = pwm[c].lit
  BY <1>3, Zenon DEF low_power_pwm_t
<1> HIDE DEF a, b
<1>9. PICK q : /\ pwm' = [pwm EXCEPT ![c] = q] /\ q.pwm_state = pwm[c].pwm_state
               /\ q.lit = pwm[c].lit /\ Ends(q, timer[c])
  <2>1. Ends(pwm[c], timer[c])
    BY <1>5
  <2>2. Ends(a, timer[c]) /\ Ends(b, timer[c])
    BY <1>4, <1>7, <1>8, <2>1, Zenon DEF Ends
  <2> QED
    BY <1>6, <1>7, <1>8, <2>2, Zenon
<1>10. pwm'[c] = q /\ \A d \in Leds \ {c} : pwm'[d] = pwm[d]
  BY <1>3, <1>9
<1>11. \A d \in Leds : Ends(pwm'[d], timer'[d]) /\ pwm'[d].pwm_state = "POWERED_ON"
  BY <1>2, <1>5, <1>9, <1>10
<1>12. \A d \in Leds : pwm'[d].lit => pwm[d].lit
  BY <1>9, <1>10, Zenon
<1> QED
  BY <1>11, <1>12, StuckByLedNext, Zenon

\* SetIndicator keeps an LED that is on and the phase that runs.
LEMMA ShownEnds ==
  ASSUME IndicatorCore, NeverStuck, NEW level \in Levels, NEW c \in Leds
  PROVE  LET q == SetIndicator(level).p[c] IN
         Ends(q, timer[c]) /\ q.pwm_state = pwm[c].pwm_state /\ q.lit = pwm[c].lit
<1>1. pwm[c] \in low_power_pwm_t /\ Ends(pwm[c], timer[c])
  BY TwoLeds, StuckByLed DEF IndicatorCore
<1>2. CASE level = batlvl_copy
  <2>1. SetIndicator(level).p[c] = pwm[c]
    BY <1>2 DEF SetIndicator
  <2> QED
    BY <1>1, <2>1
<1>3. CASE level # batlvl_copy
  <2> DEFINE t == Pattern(level)[c].period
             u == Pattern(level)[c].duty
             q == [pwm[c] EXCEPT !.period = t, !.duty_cycle = u]
  <2>1. SetIndicator(level).p[c] = q
    BY <1>3 DEF SetIndicator, Configured
  <2>2. u # Full
    BY PatternDuties
  <2> HIDE DEF t, u
  <2>3. /\ q.pwm_state = pwm[c].pwm_state /\ q.evt_type = pwm[c].evt_type
        /\ q.duty_cycle = u
    BY <1>1 DEF low_power_pwm_t
  <2>4. q.lit = pwm[c].lit
    BY <1>1, Zenon DEF low_power_pwm_t
  <2> HIDE DEF q
  <2>5. Ends(q, timer[c])
    BY <1>1, <2>2, <2>3, <2>4, Zenon DEF Ends
  <2> QED
    BY <2>1, <2>3, <2>4, <2>5
<1> QED
  BY <1>2, <1>3

LEMMA CallbackNeverStuck ==
  ASSUME IndicatorCore, NeverStuck, NEW r \in Readings, power, saadc_callback(r)
  PROVE  NeverStuck' /\ \A c \in Leds : pwm'[c].lit => pwm[c].lit
<1> DEFINE level == Level(r)
           p == SetIndicator(level).p
<1>1. Ready /\ level \in Levels
  BY LevelType DEF saadc_callback
<1>2. /\ p \in [Leds -> low_power_pwm_t]
      /\ \A c \in Leds : /\ Ends(p[c], timer[c]) /\ p[c].pwm_state = pwm[c].pwm_state
                         /\ p[c].lit = pwm[c].lit
  BY <1>1, Shown, ShownEnds
<1>3. \A c \in Leds : pwm[c].pwm_state = "POWERED_ON"
  BY <1>1, StartedWhen, StuckByLed DEF StartOrder
<1> HIDE DEF level, p
<1>4. CASE TooLow(r)
  <2>1. /\ pwm' = indicator_stop(p) /\ timer' = [c \in Leds |-> "stopping"]
    BY <1>4 DEF saadc_callback, p, level
  <2>2. ~power'
    BY <1>4 DEF saadc_callback, power
  <2>3. ASSUME NEW c \in Leds PROVE Ends(pwm'[c], timer'[c]) /\ ~pwm'[c].lit
    <3> DEFINE q == [pin_off(p[c]) EXCEPT !.pwm_state = "INITIALIZED"]
    <3>1. pwm'[c] = q
      BY <2>1 DEF indicator_stop
    <3>2. p[c] \in low_power_pwm_t
      BY <1>2
    <3>3. q.pwm_state = "INITIALIZED" /\ q.duty_cycle = p[c].duty_cycle
      BY <3>2 DEF pin_off, low_power_pwm_t
    <3>4. ~q.lit
      BY <3>2, Zenon DEF pin_off, low_power_pwm_t
    <3>5. "INITIALIZED" # "POWERED_ON"
      OBVIOUS
    <3> HIDE DEF q
    <3>6. Ends(p[c], timer[c])
      BY <1>2
    <3> QED
      BY <3>1, <3>3, <3>4, <3>5, <3>6, Zenon DEF Ends
  <2> QED
    BY <2>2, <2>3, StuckByLedNext, Zenon
<1>5. CASE ~TooLow(r)
  <2>1. pwm' = p /\ timer' = timer
    BY <1>5 DEF saadc_callback, p, level
  <2> QED
    BY <1>2, <1>3, <2>1, StuckByLedNext, Zenon
<1> QED
  BY <1>4, <1>5

AllDark == \A c \in Leds : ~pwm[c].lit

LEMMA PowerUpNeverStuck == PoweredUp => NeverStuck /\ AllDark
<1> SUFFICES ASSUME PoweredUp PROVE NeverStuck /\ AllDark
  OBVIOUS
<1>1. /\ boot[1] = "init"
      /\ \A c \in Leds : pwm[c] = Idle
  BY DEF PoweredUp
<1>2. Idle.pwm_state = "UNINITIALIZED" /\ Idle.duty_cycle # Full
  BY PwmAssumption DEF Idle
<1>3. ~Idle.lit
  BY Zenon DEF Idle
<1>4. "UNINITIALIZED" # "POWERED_ON"
  OBVIOUS
<1>5. \A c \in Leds : Ends(pwm[c], timer[c]) /\ ~pwm[c].lit
  BY <1>1, <1>2, <1>3, <1>4, Zenon DEF Ends
<1>6. \A c \in Leds : ~Started(c)
  <2>1. boot[1] \in {"init", "duty"}
    BY <1>1
  <2> QED
    BY <2>1, StartedWhen DEF StartOrder
<1> QED
  BY <1>5, <1>6, StuckByLed, Zenon DEF AllDark

LEMMA PowerUpNeverStuckNext == PoweredUp' => NeverStuck' /\ AllDark'
  BY PowerUpNeverStuck, PTL

LEMMA StuckStep ==
  IndicatorCore /\ NeverStuck /\ [Next]_indicatorVars =>
    NeverStuck' /\ \A c \in Leds : ~pwm[c].lit /\ pwm'[c].lit => ~pedaling
<1> SUFFICES ASSUME IndicatorCore, NeverStuck, [Next]_indicatorVars
             PROVE  NeverStuck' /\ \A c \in Leds : ~pwm[c].lit /\ pwm'[c].lit => ~pedaling
  OBVIOUS
<1>1. CASE power /\ lppwm_led_init
  BY <1>1, LedInitNeverStuck
<1>2. CASE power /\ InitialLevel
  BY <1>2, LevelNeverStuck
<1>3. CASE power /\ InitialPattern
  BY <1>3, PatternNeverStuck
<1>4. CASE power /\ \E r \in Readings : saadc_callback(r)
  BY <1>4, CallbackNeverStuck
<1>5. CASE PwmTimeout
  BY <1>5, TimeoutNeverStuck
<1>6. CASE Pedalled \/ (power /\ sleep_mode_enter) \/ UNCHANGED indicatorVars
  <2>1. UNCHANGED <<pwm, timer, boot>> /\ (power' => power)
    BY <1>6 DEF Pedalled, Pedal, sleep_mode_enter, indicatorVars, pwmVars, levelVars, power
  <2>2. \A c : Started(c)' <=> Started(c)
    BY <2>1 DEF Started, Storing, Ready
  <2> QED
    BY <2>1, <2>2, StuckByLed, StuckByLedNext, Zenon
<1>7. CASE Reset
  <2>1. PoweredUp'
    BY <1>7, Zenon DEF Reset, PoweredUp
  <2> QED
    BY <2>1, PowerUpNeverStuckNext, Zenon DEF AllDark
<1> QED
  BY <1>1, <1>2, <1>3, <1>4, <1>5, <1>6, <1>7, Zenon DEF Next, Boot

LEMMA InitInv == Init => IndicatorInv
<1>1. Init => PoweredUp
  BY DEF Init, PwmInit, PoweredUp
<1> QED
  BY <1>1, CoreInit, PowerUpNeverStuck DEF IndicatorInv

LEMMA StepInv == IndicatorInv /\ [Next]_indicatorVars => IndicatorInv'
  BY CoreStep, StuckStep DEF IndicatorInv

\* From power-up through every pattern to power-off and the next reset the
\* indicator and its two LEDs keep IndicatorInv (indicator.c, sadcmain.c).
THEOREM IndicatorInvariant == Spec => []IndicatorInv
  BY InitInv, StepInv, PTL DEF Spec

\* Types of the indicator.
THEOREM IndicatorTypes == Spec => []TypeOK
<1>1. IndicatorInv => TypeOK
  BY DEF IndicatorInv, IndicatorCore
<1> QED
  BY <1>1, IndicatorInvariant, PTL

\* Whatever the readings, and whatever the timers do between the stores of
\* indicator.c:123, a booted device shows the pattern of its last level.
THEOREM TheLevelIsShown == Spec => []LevelIsShown
<1>1. IndicatorInv => LevelIsShown
  <2> SUFFICES ASSUME IndicatorInv, Ready, NEW c \in Leds
               PROVE  [period |-> pwm[c].period, duty |-> pwm[c].duty_cycle]
                        = Pattern(batlvl)[c]
    BY DEF LevelIsShown
  <2>1. /\ pwm[c].period = Pattern(batlvl)[c].period
        /\ pwm[c].duty_cycle = Pattern(batlvl)[c].duty
    BY DEF IndicatorInv, IndicatorCore, FirstPattern
  <2>2. Pattern(batlvl)[c] = [period |-> Pattern(batlvl)[c].period,
                              duty |-> Pattern(batlvl)[c].duty]
    <3>1. batlvl \in Levels
      BY DEF IndicatorInv, IndicatorCore, TypeOK
    <3> QED
      BY <3>1, LedAssumption DEF Levels, Pattern, Led
  <2> QED
    BY <2>1, <2>2
<1> QED
  BY <1>1, IndicatorInvariant, PTL

\* No LED is lit in the system-off mode that PowerManage enters, whatever phase
\* the LEDs were in (sadcmain.c:161-169).
THEOREM TheDarkOfOff == Spec => []OffIsDark
<1>1. IndicatorInv => OffIsDark
  BY DEF IndicatorInv, IndicatorCore, PwmInv, OffIsStopped, StoppedIsDark, OffIsDark
<1> QED
  BY <1>1, IndicatorInvariant, PTL

\* A device that is on never shows the EMPTY pattern (indicator.c:181).
THEOREM EmptyMeansOff == Spec => []EmptyIsOff
<1>1. IndicatorInv => EmptyIsOff
  BY DEF IndicatorInv, IndicatorCore
<1> QED
  BY <1>1, IndicatorInvariant, PTL

\* The phases of the two LEDs stay legal under the indicator.
THEOREM PatternPhasesAreLegal == Spec => []PhaseLegal
<1>1. IndicatorInv => PhaseLegal
  BY DEF IndicatorInv, IndicatorCore, PwmInv
<1> QED
  BY <1>1, IndicatorInvariant, PTL

\* From its start on, while there is power, the timer of an LED runs, and a
\* light has an end: no order of timeouts, stops and new patterns leaves an LED
\* lit or dark for good (low_power_pwm.c:143-167).
THEOREM NoLedIsStuck == Spec => []NeverStuck
<1>1. IndicatorInv => NeverStuck
  BY DEF IndicatorInv
<1> QED
  BY <1>1, IndicatorInvariant, PTL

\* No step switches an LED on while the flag of pedalling is set (low_power_pwm.c:59): the
\* one that was lit before goes out at its next timeout, by NoLedIsStuck.
THEOREM NoLightWhilePedaling == Spec => LightsOnlyAtRest
<1>1. IndicatorInv /\ [Next]_indicatorVars
        => [\A c \in Leds : ~pwm[c].lit /\ pwm'[c].lit => ~pedaling]_indicatorVars
  BY StuckStep DEF IndicatorInv
<1> QED
  BY <1>1, IndicatorInvariant, PTL DEF Spec, LightsOnlyAtRest
=============================================================================

----------------------------- MODULE Indicator -----------------------------
(***************************************************************************)
(* indicator.c and the power management of sadcmain.c on top of the PWM    *)
(* driver: the SAADC interrupt classifies the battery reading, gives the   *)
(* two LEDs the pattern of its level and turns the device off when it is   *)
(* too low.  A button turns it off too, and leaves the LEDs as they are.   *)
(*                                                                         *)
(* Interrupts of the application share one priority, so that a callback is *)
(* one step.  indicator_init runs in the main program with the PWM timers  *)
(* already going: there every store is a step of its own.  The ADC and the *)
(* encoder are started only after that (main.c:801-816).                   *)
(***************************************************************************)
EXTENDS LowPowerPwm

CONSTANT Readings   \* averaged readings of the ADC, 93.57 to the volt

ASSUME LedAssumption == Leds = {"power", "battery"}

VARIABLES boot,                 \* the step of indicator_init to do next
          batlvl, batlvl_copy,  \* level shown, level of the last pattern
          off                   \* in system-off mode what has led to it,
                                \* "too low" or "button", otherwise "no"

levelVars == <<boot, batlvl, batlvl_copy, off>>
indicatorVars == <<pwmVars, levelVars>>

power == off = "no"

-----------------------------------------------------------------------------
Volt2Digit(centivolt) == (centivolt * 9357) \div 10000

\* APP_TIMER_TICKS of milliseconds, with the RTC at 32768 Hz.
TimerTicks(ms) == (ms * 32768 + 500) \div 1000

DUTY(period, on) == (on * 256) \div period

Level(reading) == IF reading < 0               THEN "UNDEFINE" ELSE
                  IF reading > Volt2Digit(375) THEN "NORMAL"   ELSE
                  IF reading > Volt2Digit(360) THEN "LOW"      ELSE
                  IF reading > Volt2Digit(300) THEN "WEAK"     ELSE "EMPTY"

\* The ledcfg_t of a level, as period and duty cycle of each LED.
Led(ms, duty) == [period |-> TimerTicks(ms), duty |-> duty]

Pattern(level) ==
  CASE level = "NORMAL" -> [power   |-> Led(2000, DUTY(2000, 300)),
                            battery |-> Led(2000, DUTY(2000, 0))]
    [] level = "LOW"    -> [power   |-> Led(2000, DUTY(2000, 300)),
                            battery |-> Led(5000, DUTY(5000, 500))]
    [] level = "WEAK"   -> [power   |-> Led(2000, DUTY(2000, 0)),
                            battery |-> Led(2000, DUTY(2000, 1000))]
    [] level = "EMPTY"  -> [power   |-> Led(2000, DUTY(2000, 0)),
                            battery |-> Led(2000, DUTY(2000, 0))]
    [] OTHER            -> [power   |-> Led(200, DUTY(20, 200)),
                            battery |-> Led(200, DUTY(20, 200))]

\* The driver is used with the settings of indicator.c.  None is 100%: that
\* phase would not end.
ASSUME SettingsAssumption ==
  /\ TimerTicks(2000) \in Periods
  /\ {DUTY(1000, 100), DUTY(1000, 500)} \subseteq Duties \ {Full}
  /\ \A level \in {"NORMAL", "LOW", "WEAK", "EMPTY", "UNDEFINE"}, c \in Leds :
       Pattern(level)[c].period \in Periods /\ Pattern(level)[c].duty \in Duties \ {Full}

ASSUME ReadingsAssumption == Readings \subseteq Int

-----------------------------------------------------------------------------
\* lppwm_led_cfg_set: the slopes that run go on, the next ones use the new
\* values.
Configured(cfg) ==
  [c \in Leds |-> [pwm[c] EXCEPT !.period = cfg[c].period,
                                 !.duty_cycle = cfg[c].duty]]

Unblink(leds) == [c \in Leds |-> IF c \in leds THEN 0 ELSE blink[c]]

Init == /\ PwmInit
        /\ boot = <<"init", "power">>
        /\ batlvl = "NORMAL" /\ batlvl_copy = "END"
        /\ off = "no"

Booted(step, next) == boot = step /\ boot' = next

InitialDuty(c) == IF c = "power" THEN DUTY(1000, 100) ELSE DUTY(1000, 500)

\* The step after the one done for LED c: the battery LED comes second.
Then(c, step, last) == IF c = "power" THEN <<step, "battery">> ELSE last

\* lppwm_led_init(1), one LED after the other.
lppwm_led_init ==
  /\ \E c \in Leds :
       \/ /\ Booted(<<"init", c>>, <<"duty", c>>)
          /\ low_power_pwm_init(c, TimerTicks(2000))
       \/ /\ Booted(<<"duty", c>>, Then(c, "init", <<"start", "power">>))
          /\ low_power_pwm_duty_set(c, InitialDuty(c))
       \/ /\ Booted(<<"start", c>>, Then(c, "start", <<"level", "both">>))
          /\ low_power_pwm_start(c)
  /\ UNCHANGED <<batlvl, batlvl_copy, off>>

\* SetIndicator(-1): the level, then the four stores, with timeouts between.
InitialLevel == /\ Booted(<<"level", "both">>, <<"store period", "power">>)
                /\ batlvl' = Level(-1) /\ batlvl_copy' = Level(-1)
                /\ UNCHANGED <<pwmVars, off>>

InitialPattern ==
  /\ \E c \in Leds :
       \/ /\ Booted(<<"store period", c>>, <<"store duty", c>>)
          /\ pwm' = [pwm EXCEPT ![c].period = Pattern(batlvl)[c].period]
          /\ blink' = Unblink({c})
       \/ /\ Booted(<<"store duty", c>>, Then(c, "store period", <<"ready", "both">>))
          /\ pwm' = [pwm EXCEPT ![c].duty_cycle = Pattern(batlvl)[c].duty]
          /\ blink' = Unblink({c})
  /\ UNCHANGED <<timer, pedaling, batlvl, batlvl_copy, off>>

-----------------------------------------------------------------------------
\* Fault: the level is compared with itself.
SetIndicator_same(level) ==
  [p |-> IF level # level THEN Configured(Pattern(level)) ELSE pwm,
   b |-> IF level # level THEN Unblink(Leds) ELSE blink]

\* SetIndicator: only a new level changes the pattern.
SetIndicator(level) ==
  [p |-> IF level # batlvl_copy THEN Configured(Pattern(level)) ELSE pwm,
   b |-> IF level # batlvl_copy THEN Unblink(Leds) ELSE blink]

\* Fault: one of the two is stopped.
indicator_stop_one(p) ==
  [p EXCEPT !["power"] = [pin_off(@) EXCEPT !.pwm_state = "INITIALIZED"]]

\* indicator_stop: low_power_pwm_stop of both.
indicator_stop(p) ==
  [c \in Leds |-> [pin_off(p[c]) EXCEPT !.pwm_state = "INITIALIZED"]]

\* Fault: the threshold of the comment in indicator.c:181.
TooLow_late(reading) == reading < Volt2Digit(300)

\* PowerManage: below 3.59 V the device goes off in this very callback.
TooLow(reading) == reading < Volt2Digit(359)

Ready == boot = <<"ready", "both">>

saadc_callback(reading) ==
  LET shown == SetIndicator(Level(reading)) IN
  /\ Ready
  /\ batlvl' = Level(reading) /\ batlvl_copy' = Level(reading)
  /\ blink' = shown.b
  /\ IF TooLow(reading)
     THEN /\ pwm' = indicator_stop(shown.p)
          /\ timer' = [c \in Leds |-> "stopping"]
          /\ off' = "too low"
     ELSE /\ pwm' = shown.p
          /\ UNCHANGED <<timer, off>>
  /\ UNCHANGED <<boot, pedaling>>

\* BSP_EVENT_SLEEP, from any moment on that the buttons are there (main.c:797):
\* sleep_mode_enter calls neither the indicator nor its timers.  What
\* BSP_INDICATE_IDLE does to the LEDs of the board is external and left out: the
\* pins keep their level.
sleep_mode_enter == off' = "button" /\ UNCHANGED <<pwmVars, boot, batlvl, batlvl_copy>>

\* Only a reset ends system-off mode: RAM and pins as after power-up.
Reset == /\ ~power
         /\ pwm' = [c \in Leds |-> Idle]
         /\ timer' = [c \in Leds |-> "stopped"]
         /\ pedaling' = FALSE
         /\ blink' = [c \in Leds |-> 0]
         /\ boot' = <<"init", "power">>
         /\ batlvl' = "NORMAL" /\ batlvl_copy' = "END"
         /\ off' = "no"

PwmTimeout == (\E c \in Leds : Timeout(c)) /\ UNCHANGED levelVars

Pedalled == Ready /\ Pedal /\ UNCHANGED levelVars

Boot == lppwm_led_init \/ InitialLevel \/ InitialPattern

Next == \/ power /\ ( \/ Boot
                      \/ \E r \in Readings : saadc_callback(r)
                      \/ PwmTimeout
                      \/ Pedalled
                      \/ sleep_mode_enter )
        \/ Reset

\* The boot goes on and a running timer expires, while there is power.
Fairness == /\ WF_indicatorVars(power /\ Boot)
            /\ \A c \in Leds :
                 WF_indicatorVars(power /\ Timeout(c) /\ UNCHANGED levelVars)

Spec == Init /\ [][Next]_indicatorVars /\ Fairness

-----------------------------------------------------------------------------
Levels == {"NORMAL", "LOW", "WEAK", "EMPTY", "UNDEFINE"}

BootSteps == {"init", "duty", "start", "store period", "store duty"} \X Leds
             \cup {<<"level", "both">>, <<"ready", "both">>}

\* Types of the indicator.
TypeOK == /\ PwmTypeOK
          /\ boot \in BootSteps
          /\ batlvl \in Levels /\ batlvl_copy \in Levels \cup {"END"}
          /\ off \in {"no", "too low", "button"}

\* Once booted the LEDs run the pattern of the last level: the comparison
\* with batlvl_copy (indicator.c:186) never leaves an old or a torn pattern.
LevelIsShown ==
  Ready =>
    \A c \in Leds : [period |-> pwm[c].period, duty |-> pwm[c].duty_cycle]
                      = Pattern(batlvl)[c]

\* The pins keep their level in system-off mode: a battery too low leaves no LED
\* lit, whichever phase they were in and whatever timeout was due
\* (sadcmain.c:161-169).  A button may (main.c:326-338).
OffIsDark == \A c \in Leds : off = "too low" => ~pwm[c].lit

\* The EMPTY pattern is never shown by a device that is on: PowerManage has
\* turned it off in the same callback (indicator.c:181 relies on it).
EmptyIsOff == power => batlvl # "EMPTY"

\* What they rest on.  The four stores of the first pattern are done in their
\* order, a PWM is initialised before anything stops it, and PowerManage has
\* stopped both.
Storing == boot[1] \in {"store period", "store duty"}

FirstPattern ==
  /\ (Storing \/ Ready) => batlvl_copy = batlvl
  /\ \A c \in Leds :
       LET before == Ready \/ (Storing /\ c = "power" /\ boot[2] = "battery") IN
       /\ (before \/ boot = <<"store duty", c>>)
            => pwm[c].period = Pattern(batlvl)[c].period
       /\ before => pwm[c].duty_cycle = Pattern(batlvl)[c].duty

Initialised ==
  \A c \in Leds :
    pwm[c].pwm_state = "UNINITIALIZED" =>
      \/ boot = <<"init", "power">>
      \/ c = "battery" /\ boot \in {<<"duty", "power">>, <<"init", "battery">>}

OffIsStopped == off = "too low" => \A c \in Leds : pwm[c].pwm_state # "POWERED_ON"

IndicatorCore == TypeOK /\ PwmInv /\ FirstPattern /\ Initialised /\ OffIsStopped
                 /\ EmptyIsOff

\* Behind LedsBlink: from its start on, while there is power, the timer of an
\* LED runs - whatever timeouts, stops and new patterns come between - and
\* the one of a lit LED runs to the end of its light.
Started(c) == \/ boot[1] = "level" \/ Storing \/ Ready
              \/ boot = <<"start", "battery">> /\ c = "power"

NeverStuck ==
  \A c \in Leds :
    /\ power /\ Started(c) => pwm[c].pwm_state = "POWERED_ON"
    /\ pwm[c].pwm_state = "POWERED_ON" => timer[c] = "running"
    /\ pwm[c].lit => pwm[c].evt_type = "DUTY_CYCLE"
    /\ pwm[c].duty_cycle # Full

IndicatorInv == IndicatorCore /\ NeverStuck

\* An LED is switched on only while the flag of pedalling is clear, whatever pattern, restart
\* or late timeout switches it (low_power_pwm.c:59).
LightsOnlyAtRest ==
  [][\A c \in Leds : ~pwm[c].lit /\ pwm'[c].lit => ~pedaling]_indicatorVars

\* While the flag of pedalling stays set the LEDs come to be dark, and stay so
\* (low_power_pwm.c:59).  A rider who goes on clears it every 256 reports
\* (qdecmain.c:174), and may then see a light.
PedalingDarkens ==
  <>[](pedaling /\ power) => <>[](\A c \in Leds : ~pwm[c].lit)

\* With nobody pedalling, an LED with a duty cycle blinks for ever and one
\* without stays dark: changing patterns never leave it stuck.
Watched == power /\ Ready /\ ~pedaling

LedsBlink ==
  \A c \in Leds :
    /\ <>[](Watched /\ pwm[c].duty_cycle > 0) => []<>(pwm[c].lit) /\ []<>(~pwm[c].lit)
    /\ <>[](Watched /\ pwm[c].duty_cycle = 0) => <>[](~pwm[c].lit)
=============================================================================

---------------------------- MODULE LowPowerPwm ----------------------------
(***************************************************************************)
(* low_power_pwm.c: LEDs dimmed by single-shot app_timers.  A period is an *)
(* on-phase and an off-phase; the timeout handler ends one, switches the   *)
(* pin and starts the timer for the other.                                 *)
(*                                                                         *)
(* A call and a timeout are one step each: the callers run at the priority *)
(* of the timer interrupt, or start a timer that is not running yet.  The  *)
(* app_timer library is external: app_timer_stop is a queued request, and  *)
(* a timeout that is already due still comes after it.                     *)
(***************************************************************************)
EXTENDS Integers

CONSTANTS Leds,      \* the PWM instances
          MinTicks,  \* APP_TIMER_MIN_TIMEOUT_TICKS
          Full,      \* the duty cycle of 100% (256)
          Periods,   \* periods and ...
          Duties     \* ... duty cycles in use

\* A duty cycle above 100% is so far above it that no off-phase comes out a
\* few ticks short of MinTicks: app_timer_start would refuse it.
ASSUME PwmAssumption ==
  /\ MinTicks \in Nat
  /\ Full \in Nat \ {0}
  /\ Periods \subseteq Nat
  /\ Duties \subseteq Nat
  /\ \A d \in Duties, t \in Periods : d <= Full \/ (d * t) \div Full > t + MinTicks

VARIABLES pwm,       \* the instances (low_power_pwm_t), lit being the GPIO pin
          timer,     \* their app_timers
          pedaling,  \* what KeepOnPedaling() returns
          blink      \* history: ticks of the on-phase that runs, 0 if none or
                     \* if its period or duty cycle has changed since

pwmVars == <<pwm, timer, pedaling, blink>>

-----------------------------------------------------------------------------
(* One instance p.                                                         *)

pin_off(p) == [p EXCEPT !.lit = FALSE, !.pin_is_on = FALSE]

\* Fault: the LED is switched on while pedalling.
pin_on_always(p) == [p EXCEPT !.lit = TRUE, !.pin_is_on = TRUE]

\* No light while pedalling; pin_is_on is set all the same.
pin_on(p) == LET q == IF pedaling THEN pin_off(p) ELSE [p EXCEPT !.lit = TRUE]
             IN  [q EXCEPT !.pin_is_on = TRUE]

HighTicks(p) == (p.duty_cycle * p.period) \div Full

\* Fault: the on-phase without the smallest timeout on top of it.
PeriodSlope_short(p) ==
  [pin_on(p) EXCEPT !.timeout_ticks = HighTicks(p), !.evt_type = "DUTY_CYCLE"]

PeriodSlope(p) ==
  CASE p.duty_cycle = Full ->
         [pin_on(p) EXCEPT !.timeout_ticks = p.period + MinTicks]
    [] p.duty_cycle = 0 ->
         [pin_off(p) EXCEPT !.timeout_ticks = p.period + MinTicks]
    [] OTHER ->
         [pin_on(p) EXCEPT !.timeout_ticks = HighTicks(p) + MinTicks,
                           !.evt_type = "DUTY_CYCLE"]

\* Faults: the off-phase as long as the on-phase; the pin left on.
DutySlope_high(p) == [pin_off(p) EXCEPT !.timeout_ticks = HighTicks(p) + MinTicks,
                                        !.evt_type = "PERIOD"]
DutySlope_lit(p) == [p EXCEPT !.timeout_ticks = p.period - HighTicks(p) + MinTicks,
                              !.evt_type = "PERIOD"]

DutySlope(p) ==
  [pin_off(p) EXCEPT !.timeout_ticks = p.period - HighTicks(p) + MinTicks,
                     !.evt_type = "PERIOD"]

\* Fault: the check of the driver state after the user's handler is missing.
Ignored_never(p) == FALSE

Ignored(p) == p.evt_type = "PERIOD" /\ p.handler /\ p.pwm_state # "POWERED_ON"

\* Fault: no correction.
Corrected_none(p) == p

\* timeout_ticks is a uint32_t: a difference below zero is a huge delay, and
\* is corrected like any other above the period.
Corrected(p) ==
  LET longest == p.period + MinTicks
  IN  IF p.timeout_ticks < 0 \/ p.timeout_ticks > longest
      THEN [p EXCEPT !.timeout_ticks = longest] ELSE p

\* pwm_timeout_handler up to the restart of the timer.  The user's handler is
\* pwm_handler of indicator.c, which is empty.
NextSlope(p) == IF Ignored(p) THEN p
                ELSE Corrected(IF p.evt_type = "PERIOD" THEN PeriodSlope(p)
                                                        ELSE DutySlope(p))

-----------------------------------------------------------------------------
\* pwm_timeout_handler for instance c in state p: the timer is started again
\* while the PWM is on.
pwm_timeout_handler(c, p) ==
  LET q == NextSlope(p) IN
  /\ pwm' = [pwm EXCEPT ![c] = q]
  /\ timer' = [timer EXCEPT ![c] = IF q.pwm_state = "POWERED_ON" THEN "running" ELSE
                                   IF @ = "stopping" THEN "late" ELSE @]
  /\ blink' = [blink EXCEPT ![c] = IF q.evt_type = "DUTY_CYCLE"
                                   THEN q.timeout_ticks ELSE 0]
  /\ UNCHANGED pedaling

\* The timer expires.  After app_timer_stop it still may, once.
Timeout(c) == /\ timer[c] \in {"running", "stopping"}
              /\ pwm_timeout_handler(c, pwm[c])

\* app_timer takes the queued stop request.
StopTaken(c) == /\ timer[c] \in {"stopping", "late"}
                /\ timer' = [timer EXCEPT ![c] = "stopped"]
                /\ UNCHANGED <<pwm, pedaling, blink>>

low_power_pwm_init(c, period) ==
  /\ pwm[c].pwm_state = "UNINITIALIZED"
  /\ pwm' = [pwm EXCEPT ![c] = [pin_off(@) EXCEPT !.handler = TRUE,
                                                  !.period = period,
                                                  !.pwm_state = "INITIALIZED"]]
  /\ UNCHANGED <<timer, pedaling, blink>>

\* The first period begins in the call, without the user's handler.  (The
\* ASSERT also admits a PWM that is on; nobody starts one twice.)
low_power_pwm_start(c) ==
  /\ pwm[c].pwm_state = "INITIALIZED"
  /\ LET p == NextSlope([pin_off(pwm[c]) EXCEPT !.pwm_state = "POWERED_ON",
                                                !.evt_type = "PERIOD",
                                                !.handler = FALSE])
     IN  /\ pwm' = [pwm EXCEPT ![c] = [p EXCEPT !.handler = TRUE]]
         /\ blink' = [blink EXCEPT ![c] = IF p.evt_type = "DUTY_CYCLE"
                                          THEN p.timeout_ticks ELSE 0]
  /\ timer' = [timer EXCEPT ![c] = "running"]
  /\ UNCHANGED pedaling

\* The PWM is off at once, its timer only when the request is taken.
low_power_pwm_stop(c) ==
  /\ pwm[c].pwm_state = "POWERED_ON"
  /\ pwm' = [pwm EXCEPT ![c] = [pin_off(@) EXCEPT !.pwm_state = "INITIALIZED"]]
  /\ timer' = [timer EXCEPT ![c] = "stopping"]
  /\ UNCHANGED <<pedaling, blink>>

\* Fault: the duty cycle of the dark part of the period.
low_power_pwm_duty_set_inverse(c, duty) ==
  /\ pwm[c].period >= duty
  /\ pwm' = [pwm EXCEPT ![c].duty_cycle = Full - duty]
  /\ blink' = [blink EXCEPT ![c] = 0]
  /\ UNCHANGED <<timer, pedaling>>

\* A duty cycle above the period is refused (NRF_ERROR_INVALID_PARAM).
low_power_pwm_duty_set(c, duty) ==
  /\ pwm[c].period >= duty
  /\ pwm' = [pwm EXCEPT ![c].duty_cycle = duty]
  /\ blink' = [blink EXCEPT ![c] = 0]
  /\ UNCHANGED <<timer, pedaling>>

\* A report of the encoder changes what KeepOnPedaling returns.
Pedal == /\ pedaling' = ~pedaling
         /\ UNCHANGED <<pwm, timer, blink>>

-----------------------------------------------------------------------------
Idle == [pwm_state |-> "UNINITIALIZED", period |-> 0, duty_cycle |-> 0,
         evt_type |-> "PERIOD", timeout_ticks |-> 0, handler |-> FALSE,
         pin_is_on |-> FALSE, lit |-> FALSE]

PwmInit == /\ pwm = [c \in Leds |-> Idle]
           /\ timer = [c \in Leds |-> "stopped"]
           /\ pedaling = FALSE
           /\ blink = [c \in Leds |-> 0]

PwmTimer == \E c \in Leds : Timeout(c) \/ StopTaken(c)

\* The driver under any use of its interface.
PwmNext == \/ \E c \in Leds :
                \/ \E t \in Periods : low_power_pwm_init(c, t)
                \/ \E d \in Duties : low_power_pwm_duty_set(c, d)
                \/ low_power_pwm_start(c)
                \/ low_power_pwm_stop(c)
           \/ PwmTimer
           \/ Pedal

\* A running timer expires; the RTC sees to that.
PwmFairness == \A c \in Leds : WF_pwmVars(Timeout(c))

PwmSpec == PwmInit /\ [][PwmNext]_pwmVars /\ PwmFairness

-----------------------------------------------------------------------------
low_power_pwm_t ==
  [pwm_state : {"UNINITIALIZED", "INITIALIZED", "POWERED_ON"},
   period : Periods \cup {0}, duty_cycle : Duties \cup {0},
   evt_type : {"PERIOD", "DUTY_CYCLE"}, timeout_ticks : Nat,
   handler : BOOLEAN, pin_is_on : BOOLEAN, lit : BOOLEAN]

\* Types of the driver.
PwmTypeOK ==
  /\ pwm \in [Leds -> low_power_pwm_t]
  /\ timer \in [Leds -> {"stopped", "running", "stopping", "late"}]
  /\ pedaling \in BOOLEAN
  /\ blink \in [Leds -> Nat]

\* Every phase the handler starts a timer for is one app_timer_start accepts
\* (its error would halt the device, line 164) and is no longer than a period:
\* no combination of period and duty cycle, changed between two phases or
\* not, puts an LED to sleep (the "very big" tick of line 152).
PhaseLegal ==
  \A c \in Leds : timer[c] = "running" =>
     /\ pwm[c].timeout_ticks >= MinTicks
     /\ \E t \in Periods : pwm[c].timeout_ticks <= t + MinTicks

\* A stopped PWM is dark, also after the timeout that was due when it was
\* stopped (lines 119-122).
StoppedIsDark == \A c \in Leds : pwm[c].pwm_state # "POWERED_ON" => ~pwm[c].lit

\* Part of the inductive invariant: only a PWM that is on has its timer
\* running, and only one that was initialised has a timer at work.
TimersAndStates ==
  \A c \in Leds :
    /\ timer[c] = "running" => pwm[c].pwm_state = "POWERED_ON"
    /\ timer[c] # "stopped" => pwm[c].pwm_state # "UNINITIALIZED"
    /\ pwm[c].pwm_state # "UNINITIALIZED" => pwm[c].handler /\ pwm[c].period \in Periods

PwmInv == PwmTypeOK /\ TimersAndStates /\ PhaseLegal /\ StoppedIsDark

\* A blink whose period and duty cycle are left alone takes one period, up to
\* the two MinTicks of its phases, for a duty cycle below 100%.
BlinkTakesPeriod ==
  [][\A c \in Leds :
       /\ blink[c] > 0
       /\ pwm[c].evt_type = "DUTY_CYCLE" /\ pwm'[c].evt_type = "PERIOD"
       /\ pwm[c].duty_cycle < Full
       => blink[c] + pwm'[c].timeout_ticks = pwm[c].period + 2 * MinTicks]_pwmVars

\* low_power_pwm.h:195 of the duty cycle: "255 means that it is always on".
FullIsAlwaysOn ==
  [][\A c \in Leds :
       /\ pwm[c].pwm_state = "POWERED_ON" /\ pwm'[c].pwm_state = "POWERED_ON"
       /\ pwm[c].duty_cycle = 255 /\ ~pedaling
       => (pwm[c].lit => pwm'[c].lit)]_pwmVars
=============================================================================

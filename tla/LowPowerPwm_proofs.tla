------------------------- MODULE LowPowerPwm_proofs -------------------------
(***************************************************************************)
(* Proofs about the PWM driver, for any number of LEDs, any periods and    *)
(* any duty cycles that meet PwmAssumption.                                *)
(***************************************************************************)
EXTENDS LowPowerPwm, TLAPS

\* The on-phase of a duty cycle up to 100% fits in the period.  Above 100%
\* (indicator.c's DUTY(20, 200) is 1000%) it is longer by more than MinTicks.
LEMMA OnPhase ==
  ASSUME NEW d \in Duties \cup {0}, NEW t \in Periods
  PROVE  LET h == (d * t) \div Full IN
         /\ h \in Nat
         /\ d <= Full => h <= t
         /\ d > Full => h > t + MinTicks
<1> DEFINE h == (d * t) \div Full
<1>1. d \in Nat /\ t \in Nat /\ Full \in Nat /\ Full > 0 /\ MinTicks \in Nat
  BY PwmAssumption
<1>2. d * t \in Nat
  BY <1>1
<1>3. h \in Nat
  BY <1>1, <1>2
<1>4. d <= Full => h <= t
  <2>1. SUFFICES ASSUME d <= Full PROVE h <= t
    OBVIOUS
  <2>2. d * t <= Full * t
    BY <1>1, <2>1
  <2>3. Full * h <= d * t
    BY <1>1, <1>2, <1>3
  <2>4. Full * h <= Full * t
    BY <1>1, <1>3, <2>2, <2>3
  <2> QED
    BY <1>1, <1>3, <2>4
<1>5. d > Full => h > t + MinTicks
  BY <1>1, PwmAssumption
<1> QED
  BY <1>3, <1>4, <1>5

\* The fields of an instance, and an instance with another pin and phase.
LEMMA Fields ==
  ASSUME NEW p \in low_power_pwm_t
  PROVE  /\ p.pwm_state \in {"UNINITIALIZED", "INITIALIZED", "POWERED_ON"}
         /\ p.period \in Nat /\ p.duty_cycle \in Duties \cup {0}
         /\ p.evt_type \in {"PERIOD", "DUTY_CYCLE"}
         /\ p.timeout_ticks \in Nat
         /\ p.handler \in BOOLEAN /\ p.lit \in BOOLEAN
<1>1. /\ p.period \in Periods \cup {0} /\ p.duty_cycle \in Duties \cup {0}
      /\ p.pwm_state \in {"UNINITIALIZED", "INITIALIZED", "POWERED_ON"}
      /\ p.evt_type \in {"PERIOD", "DUTY_CYCLE"}
      /\ p.timeout_ticks \in Nat
      /\ p.handler \in BOOLEAN /\ p.lit \in BOOLEAN
  BY DEF low_power_pwm_t
<1>2. Periods \subseteq Nat /\ 0 \in Nat
  BY PwmAssumption
<1>3. p.period \in Nat
  BY <1>1, <1>2
<1> QED
  BY <1>1, <1>3

Slope(p, b, l, k, e) ==
  [p EXCEPT !.pin_is_on = b, !.lit = l, !.timeout_ticks = k, !.evt_type = e]

LEMMA SlopeFields ==
  ASSUME NEW p \in low_power_pwm_t, NEW b \in BOOLEAN, NEW l \in BOOLEAN,
         NEW k \in Int, NEW e \in {"PERIOD", "DUTY_CYCLE"}
  PROVE  LET q == Slope(p, b, l, k, e) IN
         /\ q.pwm_state = p.pwm_state /\ q.period = p.period
         /\ q.handler = p.handler /\ q.evt_type = e
         /\ q.timeout_ticks = k
         /\ q.lit = l
         /\ k \in Nat => q \in low_power_pwm_t
         /\ \A j \in Int : [q EXCEPT !.timeout_ticks = j] = Slope(p, b, l, j, e)
<1> DEFINE q == Slope(p, b, l, k, e)
<1>1. /\ q.pwm_state = p.pwm_state /\ q.period = p.period
      /\ q.handler = p.handler /\ q.evt_type = e
      /\ q.timeout_ticks = k
  BY DEF Slope, low_power_pwm_t
<1>2. q.lit = l
  BY Zenon DEF Slope, low_power_pwm_t
<1>3. k \in Nat => q \in low_power_pwm_t
  BY DEF Slope, low_power_pwm_t
<1>4. ASSUME NEW j \in Int
      PROVE  [q EXCEPT !.timeout_ticks = j] = Slope(p, b, l, j, e)
  BY DEF Slope, low_power_pwm_t
<1> QED
  BY <1>1, <1>2, <1>3, <1>4

\* The two slopes.  They touch the pin and the next phase only; a light is
\* begun at the start of a period while nobody pedals, and has an end unless
\* its duty cycle is 100%.
LEMMA SlopeShape ==
  ASSUME NEW p \in low_power_pwm_t, p.period \in Periods, pedaling \in BOOLEAN
  PROVE  LET s == IF p.evt_type = "PERIOD" THEN PeriodSlope(p) ELSE DutySlope(p) IN
         \E b \in BOOLEAN, l \in BOOLEAN, k \in Int, e \in {"PERIOD", "DUTY_CYCLE"} :
           /\ s = Slope(p, b, l, k, e)
           /\ k < 0 \/ k >= MinTicks
           /\ l => p.evt_type = "PERIOD" /\ ~pedaling
           /\ l /\ p.duty_cycle # Full => e = "DUTY_CYCLE"
<1> DEFINE s == IF p.evt_type = "PERIOD" THEN PeriodSlope(p) ELSE DutySlope(p)
           h == HighTicks(p)
           longest == p.period + MinTicks
<1>1. /\ p.period \in Nat /\ MinTicks \in Nat /\ Full \in Nat /\ Full > 0
      /\ longest \in Int /\ longest >= MinTicks
  BY PwmAssumption, Fields
<1>2. /\ h \in Nat
      /\ p.duty_cycle <= Full => h <= p.period
      /\ p.duty_cycle > Full => h > p.period + MinTicks
  BY OnPhase, Fields DEF HighTicks
<1>3. p.duty_cycle \in Nat
  <2>1. p.duty_cycle \in Duties \cup {0} /\ Duties \cup {0} \subseteq Nat
    BY PwmAssumption, Fields
  <2> QED
    BY <2>1
<1>4. CASE p.evt_type = "PERIOD"
  <2>1. pin_off(p) = [p EXCEPT !.lit = FALSE, !.pin_is_on = FALSE]
    BY DEF pin_off
  <2>2. \E l \in BOOLEAN : /\ pin_on(p) = [p EXCEPT !.lit = l, !.pin_is_on = TRUE]
                           /\ l => ~pedaling
    <3>1. CASE pedaling
      <4>1. pin_on(p) = [p EXCEPT !.lit = FALSE, !.pin_is_on = TRUE]
        BY <3>1 DEF pin_off, pin_on, low_power_pwm_t
      <4> QED
        BY <4>1
    <3>2. CASE ~pedaling
      <4>1. pin_on(p) = [p EXCEPT !.lit = TRUE, !.pin_is_on = TRUE]
        BY <3>2 DEF pin_on, low_power_pwm_t
      <4> QED
        BY <3>2, <4>1
    <3> QED
      BY <3>1, <3>2
  <2>3. PICK l \in BOOLEAN : /\ pin_on(p) = [p EXCEPT !.lit = l, !.pin_is_on = TRUE]
                             /\ l => ~pedaling
    BY <2>2
  <2>4. s = PeriodSlope(p)
    BY <1>4
  <2>5. h + MinTicks \in Int /\ h + MinTicks >= MinTicks
    BY <1>1, <1>2
  <2>6. CASE p.duty_cycle = Full
    <3>1. s = [pin_on(p) EXCEPT !.timeout_ticks = longest]
      BY <2>4, <2>6, <1>1 DEF PeriodSlope
    <3>2. s = Slope(p, TRUE, l, longest, "PERIOD")
      BY <3>1, <2>3, <1>4 DEF Slope, low_power_pwm_t
    <3> QED
      BY <3>2, <1>1, <1>4, <2>3, <2>6, Zenon
  <2>7. CASE p.duty_cycle # Full /\ p.duty_cycle = 0
    <3>1. s = [pin_off(p) EXCEPT !.timeout_ticks = longest]
      BY <2>4, <2>7 DEF PeriodSlope
    <3>2. s = Slope(p, FALSE, FALSE, longest, "PERIOD")
      BY <3>1, <2>1, <1>4 DEF Slope, low_power_pwm_t
    <3> QED
      BY <3>2, <1>1, Zenon
  <2>8. CASE p.duty_cycle # Full /\ p.duty_cycle # 0
    <3>1. s = [pin_on(p) EXCEPT !.timeout_ticks = h + MinTicks,
                                !.evt_type = "DUTY_CYCLE"]
      BY <2>4, <2>8 DEF PeriodSlope
    <3>2. s = Slope(p, TRUE, l, h + MinTicks, "DUTY_CYCLE")
      BY <3>1, <2>3 DEF Slope, low_power_pwm_t
    <3> QED
      BY <3>2, <1>4, <2>3, <2>5, Zenon
  <2> QED
    BY <2>6, <2>7, <2>8
<1>5. CASE p.evt_type # "PERIOD"
  <2>1. s = Slope(p, FALSE, FALSE, p.period - h + MinTicks, "PERIOD")
    BY <1>5 DEF DutySlope, pin_off, Slope, low_power_pwm_t
  <2>2. /\ p.period - h + MinTicks \in Int
        /\ p.period - h + MinTicks < 0 \/ p.period - h + MinTicks >= MinTicks
    BY <1>1, <1>2, <1>3
  <2> QED
    BY <2>1, <2>2, Zenon
<1> QED
  BY <1>4, <1>5

\* What the handler makes of an instance that was initialised: it touches the
\* pin and the next phase only, leaves a PWM that is off dark, and the phase it
\* gives a PWM that is on is legal.
LEMMA SlopeStep ==
  ASSUME NEW p \in low_power_pwm_t, p.period \in Periods, pedaling \in BOOLEAN
  PROVE  LET q == NextSlope(p) IN
         /\ q \in low_power_pwm_t
         /\ q.pwm_state = p.pwm_state /\ q.period = p.period
         /\ q.handler = p.handler
         /\ p.handler /\ p.pwm_state # "POWERED_ON" /\ ~p.lit => ~q.lit
         /\ ~Ignored(p) => /\ q.timeout_ticks >= MinTicks
                           /\ q.timeout_ticks <= p.period + MinTicks
<1> DEFINE q == NextSlope(p)
           s == IF p.evt_type = "PERIOD" THEN PeriodSlope(p) ELSE DutySlope(p)
           longest == p.period + MinTicks
<1>a. MinTicks \in Nat
  BY PwmAssumption
<1>b. Full \in Nat /\ Full > 0
  BY PwmAssumption
<1>c. Duties \subseteq Nat /\ 0 \in Nat
  BY PwmAssumption
<1>d. p.period \in Nat /\ p.duty_cycle \in Duties \cup {0}
  BY Fields
<1>e. p.duty_cycle \in Nat
  BY <1>c, <1>d
<1>f. longest \in Nat /\ longest >= MinTicks
  BY <1>a, <1>d
<1>0. /\ p.period \in Nat /\ MinTicks \in Nat /\ Full \in Nat
      /\ p.duty_cycle \in Nat /\ longest \in Nat
  BY <1>a, <1>b, <1>d, <1>e, <1>f
<1>2. CASE Ignored(p)
  <2>1. q = p
    BY <1>2 DEF NextSlope
  <2> QED
    BY <1>2, <2>1
<1>3. CASE ~Ignored(p)
  <2>1. q = Corrected(s)
    BY <1>3 DEF NextSlope
  <2>2. \E b \in BOOLEAN, l \in BOOLEAN, k \in Int, e \in {"PERIOD", "DUTY_CYCLE"} :
          /\ s = Slope(p, b, l, k, e)
          /\ k < 0 \/ k >= MinTicks
          /\ p.evt_type # "PERIOD" => ~l
    BY SlopeShape
  <2>3. PICK b \in BOOLEAN, l \in BOOLEAN, k \in Int, e \in {"PERIOD", "DUTY_CYCLE"} :
          /\ s = Slope(p, b, l, k, e)
          /\ k < 0 \/ k >= MinTicks
          /\ p.evt_type # "PERIOD" => ~l
    BY <2>2
  <2> DEFINE j == IF k < 0 \/ k > longest THEN longest ELSE k
  <2>4. q = Slope(p, b, l, j, e)
    <3>1. s.timeout_ticks = k /\ s.period = p.period
      BY <2>3, SlopeFields
    <3>2. \A i \in Int : [s EXCEPT !.timeout_ticks = i] = Slope(p, b, l, i, e)
      BY <2>3, SlopeFields
    <3> QED
      BY <2>1, <2>3, <3>1, <3>2, <1>0 DEF Corrected
  <2>5. j \in Nat /\ j >= MinTicks /\ j <= longest
    BY <1>0, <2>3
  <2>a. j \in Int
    BY <2>5
  <2>b. b \in BOOLEAN /\ l \in BOOLEAN /\ e \in {"PERIOD", "DUTY_CYCLE"}
    OBVIOUS
  <2> HIDE DEF j, q
  <2>6. /\ q \in low_power_pwm_t
        /\ q.pwm_state = p.pwm_state /\ q.period = p.period
        /\ q.handler = p.handler
        /\ q.lit = l
        /\ q.timeout_ticks = j
    <3>1. LET r == Slope(p, b, l, j, e) IN
          /\ r.pwm_state = p.pwm_state /\ r.period = p.period
          /\ r.handler = p.handler
          /\ r.timeout_ticks = j
          /\ r.lit = l
          /\ j \in Nat => r \in low_power_pwm_t
      BY <2>a, <2>b, SlopeFields
    <3> QED
      BY <3>1, <2>4, <2>5
  <2>7. p.handler /\ p.pwm_state # "POWERED_ON" => ~q.lit
    BY <1>3, <2>3, <2>6 DEF Ignored
  <2>8. q.timeout_ticks >= MinTicks /\ q.timeout_ticks <= p.period + MinTicks
    BY <2>5, <2>6
  <2> QED
    BY <2>6, <2>7, <2>8, Zenon DEF q
<1> QED
  BY <1>2, <1>3

\* What the handler makes of an instance whose light, if it has one, has an
\* end: every light after it has one again, it begins none while someone
\* pedals, and the one that was on it has put out.
LEMMA SlopeLight ==
  ASSUME NEW p \in low_power_pwm_t, p.period \in Periods, pedaling \in BOOLEAN,
         p.duty_cycle # Full, p.lit => p.evt_type = "DUTY_CYCLE"
  PROVE  LET q == NextSlope(p) IN
         /\ q.duty_cycle = p.duty_cycle
         /\ q.lit => q.evt_type = "DUTY_CYCLE"
         /\ q.lit => ~p.lit /\ ~pedaling
<1> DEFINE q == NextSlope(p)
           s == IF p.evt_type = "PERIOD" THEN PeriodSlope(p) ELSE DutySlope(p)
           longest == p.period + MinTicks
<1>1. q.duty_cycle = p.duty_cycle
  BY DEF NextSlope, Corrected, PeriodSlope, DutySlope, pin_on, pin_off, low_power_pwm_t
<1>2. "PERIOD" # "DUTY_CYCLE"
  OBVIOUS
<1>3. CASE Ignored(p)
  <2>1. q = p /\ p.evt_type = "PERIOD"
    BY <1>3 DEF NextSlope, Ignored
  <2> HIDE DEF q
  <2>2. ~q.lit
    BY <1>2, <2>1, Zenon
  <2> QED
    BY <1>1, <2>2, Zenon DEF q
<1>4. CASE ~Ignored(p)
  <2>1. q = Corrected(s)
    BY <1>4 DEF NextSlope
  <2>2. PICK b \in BOOLEAN, l \in BOOLEAN, k \in Int, e \in {"PERIOD", "DUTY_CYCLE"} :
          /\ s = Slope(p, b, l, k, e)
          /\ l => p.evt_type = "PERIOD" /\ ~pedaling
          /\ l /\ p.duty_cycle # Full => e = "DUTY_CYCLE"
    BY SlopeShape
  <2> DEFINE j == IF k < 0 \/ k > longest THEN longest ELSE k
  <2>3. longest \in Int /\ j \in Int
    BY PwmAssumption, Fields
  <2>4. q = Slope(p, b, l, j, e)
    <3>1. s.timeout_ticks = k /\ s.period = p.period
      BY <2>2, SlopeFields
    <3>2. \A i \in Int : [s EXCEPT !.timeout_ticks = i] = Slope(p, b, l, i, e)
      BY <2>2, SlopeFields
    <3> QED
      BY <2>1, <2>2, <2>3, <3>1, <3>2 DEF Corrected
  <2> HIDE DEF j, q
  <2>5. q.lit = l /\ q.evt_type = e
    <3>1. LET r == Slope(p, b, l, j, e) IN r.lit = l /\ r.evt_type = e
      BY <2>3, SlopeFields
    <3> QED
      BY <2>4, <3>1
  <2> QED
    BY <1>1, <1>2, <2>2, <2>5, Zenon DEF q
<1> QED
  BY <1>3, <1>4

-----------------------------------------------------------------------------
\* PwmInv of one LED whose instance is p and whose timer is tm.
LedInv(p, tm) ==
  /\ p \in low_power_pwm_t
  /\ tm \in {"stopped", "running", "stopping", "late"}
  /\ tm = "running" => p.pwm_state = "POWERED_ON"
  /\ tm # "stopped" => p.pwm_state # "UNINITIALIZED"
  /\ p.pwm_state # "UNINITIALIZED" => p.handler /\ p.period \in Periods
  /\ tm = "running" => /\ p.timeout_ticks >= MinTicks
                       /\ \E t \in Periods : p.timeout_ticks <= t + MinTicks
  /\ p.pwm_state # "POWERED_ON" => ~p.lit

LEMMA PwmInvByLed ==
  PwmInv <=> /\ pwm \in [Leds -> low_power_pwm_t]
             /\ timer \in [Leds -> {"stopped", "running", "stopping", "late"}]
             /\ pedaling \in BOOLEAN
             /\ blink \in [Leds -> Nat]
             /\ \A c \in Leds : LedInv(pwm[c], timer[c])
<1>1. ASSUME PwmInv, NEW c \in Leds PROVE LedInv(pwm[c], timer[c])
  <2>1. pwm[c] \in low_power_pwm_t
    BY <1>1 DEF PwmInv, PwmTypeOK
  <2>2. timer[c] \in {"stopped", "running", "stopping", "late"}
    BY <1>1 DEF PwmInv, PwmTypeOK
  <2> QED
    BY <2>1, <2>2, <1>1, Zenon
    DEF PwmInv, TimersAndStates, PhaseLegal, StoppedIsDark, LedInv
<1>2. ASSUME \A c \in Leds : LedInv(pwm[c], timer[c])
      PROVE  TimersAndStates /\ PhaseLegal /\ StoppedIsDark
  BY <1>2, Zenon DEF TimersAndStates, PhaseLegal, StoppedIsDark, LedInv
<1>3. PwmTypeOK <=>
        /\ pwm \in [Leds -> low_power_pwm_t]
        /\ timer \in [Leds -> {"stopped", "running", "stopping", "late"}]
        /\ pedaling \in BOOLEAN
        /\ blink \in [Leds -> Nat]
  BY DEF PwmTypeOK
<1> QED
  BY <1>1, <1>2, <1>3, Zenon DEF PwmInv

\* A step that changes one LED keeps the invariant if it keeps that LED's.
LEMMA OneLed ==
  ASSUME PwmInv, NEW c \in Leds, NEW p, NEW tm, LedInv(p, tm),
         pwm' = [pwm EXCEPT ![c] = p], timer' = [timer EXCEPT ![c] = tm],
         pedaling' \in BOOLEAN, blink' \in [Leds -> Nat]
  PROVE  PwmInv'
<1>1. /\ pwm \in [Leds -> low_power_pwm_t]
      /\ timer \in [Leds -> {"stopped", "running", "stopping", "late"}]
      /\ \A x \in Leds : LedInv(pwm[x], timer[x])
  BY PwmInvByLed
<1>2. /\ p \in low_power_pwm_t
      /\ tm \in {"stopped", "running", "stopping", "late"}
  BY DEF LedInv
<1>3. /\ pwm' \in [Leds -> low_power_pwm_t]
      /\ timer' \in [Leds -> {"stopped", "running", "stopping", "late"}]
  BY <1>1, <1>2
<1>4. ASSUME NEW x \in Leds PROVE LedInv(pwm'[x], timer'[x])
  <2>1. CASE x = c
    <3>1. pwm'[x] = p /\ timer'[x] = tm
      BY <2>1, <1>1
    <3> QED
      BY <3>1, Zenon
  <2>2. CASE x # c
    <3>1. pwm'[x] = pwm[x] /\ timer'[x] = timer[x]
      BY <2>2, <1>1
    <3> QED
      BY <3>1, <1>1, Zenon
  <2> QED
    BY <2>1, <2>2
<1>5. PwmTypeOK'
  BY <1>3 DEF PwmTypeOK, low_power_pwm_t
<1>6. TimersAndStates' /\ PhaseLegal' /\ StoppedIsDark'
  BY <1>4, Zenon DEF LedInv, TimersAndStates, PhaseLegal, StoppedIsDark
<1> QED
  BY <1>5, <1>6 DEF PwmInv

-----------------------------------------------------------------------------
LEMMA PwmInitInv == PwmInit => PwmInv
<1> SUFFICES ASSUME PwmInit PROVE PwmInv
  OBVIOUS
<1>1. Idle \in low_power_pwm_t
  BY DEF Idle, low_power_pwm_t
<1>2. LedInv(Idle, "stopped")
  BY <1>1 DEF LedInv, Idle
<1>3. \A c \in Leds : pwm[c] = Idle /\ timer[c] = "stopped"
  BY DEF PwmInit
<1> QED
  BY <1>1, <1>2, <1>3, PwmInvByLed DEF PwmInit

LEMMA PwmStepInv == PwmInv /\ [PwmNext]_pwmVars => PwmInv'
<1> SUFFICES ASSUME PwmInv, [PwmNext]_pwmVars PROVE PwmInv'
  OBVIOUS
<1>0. /\ pwm \in [Leds -> low_power_pwm_t]
      /\ timer \in [Leds -> {"stopped", "running", "stopping", "late"}]
      /\ pedaling \in BOOLEAN
      /\ blink \in [Leds -> Nat]
      /\ \A c \in Leds : LedInv(pwm[c], timer[c])
  BY PwmInvByLed
<1>1. ASSUME NEW c \in Leds, Timeout(c) PROVE PwmInv'
  <2> DEFINE q == NextSlope(pwm[c])
             tm == IF q.pwm_state = "POWERED_ON" THEN "running" ELSE
                   IF timer[c] = "stopping" THEN "late" ELSE timer[c]
  <2>1. /\ pwm' = [pwm EXCEPT ![c] = q]
        /\ timer' = [timer EXCEPT ![c] = tm]
        /\ blink' = [blink EXCEPT ![c] = IF q.evt_type = "DUTY_CYCLE"
                                         THEN q.timeout_ticks ELSE 0]
        /\ pedaling' = pedaling
        /\ timer[c] \in {"running", "stopping"}
    BY <1>1 DEF Timeout, pwm_timeout_handler
  <2>2. LedInv(pwm[c], timer[c])
    BY <1>0
  <2>3. pwm[c] \in low_power_pwm_t /\ pwm[c].pwm_state # "UNINITIALIZED"
    BY <2>1, <2>2 DEF LedInv
  <2>4. pwm[c].handler /\ pwm[c].period \in Periods
    BY <2>2, <2>3 DEF LedInv
  <2>5. /\ q \in low_power_pwm_t
        /\ q.pwm_state = pwm[c].pwm_state /\ q.period = pwm[c].period
        /\ q.handler = pwm[c].handler
        /\ pwm[c].handler /\ pwm[c].pwm_state # "POWERED_ON" /\ ~pwm[c].lit => ~q.lit
        /\ ~Ignored(pwm[c]) => /\ q.timeout_ticks >= MinTicks
                               /\ q.timeout_ticks <= pwm[c].period + MinTicks
    BY <1>0, <2>3, <2>4, SlopeStep
  <2>6. pwm[c].pwm_state = "POWERED_ON" => ~Ignored(pwm[c])
    BY DEF Ignored
  <2> HIDE DEF q
  <2>7. LedInv(q, tm)
    <3>1. q.pwm_state # "POWERED_ON" => tm # "running"
      BY <2>1, <2>2, <2>5 DEF LedInv
    <3>2. tm \in {"stopped", "running", "stopping", "late"}
      BY <2>1
    <3>3. q.pwm_state # "POWERED_ON" => ~q.lit
      BY <2>2, <2>4, <2>5, Zenon DEF LedInv
    <3>4. q.pwm_state # "UNINITIALIZED" /\ q.handler /\ q.period \in Periods
      BY <2>3, <2>4, <2>5, Zenon
    <3>5. q.pwm_state = "POWERED_ON" => /\ q.timeout_ticks >= MinTicks
                                        /\ \E t \in Periods : q.timeout_ticks <= t + MinTicks
      BY <2>4, <2>5, <2>6, Zenon
    <3> HIDE DEF tm
    <3> QED
      BY <2>5, <3>1, <3>2, <3>3, <3>4, <3>5, Zenon DEF LedInv
  <2>8. blink' \in [Leds -> Nat]
    <3>1. q.timeout_ticks \in Nat
      BY <2>5, Fields
    <3> QED
      BY <3>1, <2>1, <1>0
  <2>9. pedaling' \in BOOLEAN
    BY <2>1, <1>0
  <2> HIDE DEF tm
  <2> QED
    BY <2>1, <2>7, <2>8, <2>9, OneLed, Zenon
<1>2. ASSUME NEW c \in Leds, StopTaken(c) PROVE PwmInv'
  <2>1. /\ timer' = [timer EXCEPT ![c] = "stopped"]
        /\ pwm' = pwm /\ pedaling' = pedaling /\ blink' = blink
    BY <1>2 DEF StopTaken
  <2>2. pwm' = [pwm EXCEPT ![c] = pwm[c]]
    BY <2>1, <1>0
  <2>3. LedInv(pwm[c], timer[c])
    BY <1>0
  <2>4. LedInv(pwm[c], "stopped")
    BY <2>3, Zenon DEF LedInv
  <2>5. pedaling' \in BOOLEAN /\ blink' \in [Leds -> Nat]
    BY <2>1, <1>0
  <2> QED
    BY <2>1, <2>2, <2>4, <2>5, OneLed, Zenon
<1>3. ASSUME NEW c \in Leds, NEW t \in Periods, low_power_pwm_init(c, t)
      PROVE  PwmInv'
  <2> DEFINE q == [pin_off(pwm[c]) EXCEPT !.handler = TRUE, !.period = t,
                                          !.pwm_state = "INITIALIZED"]
  <2>1. /\ pwm[c].pwm_state = "UNINITIALIZED"
        /\ pwm' = [pwm EXCEPT ![c] = q]
        /\ timer' = timer /\ pedaling' = pedaling /\ blink' = blink
    BY <1>3 DEF low_power_pwm_init
  <2>2. LedInv(pwm[c], timer[c])
    BY <1>0
  <2>3. pwm[c] \in low_power_pwm_t /\ timer[c] = "stopped"
    BY <2>1, <2>2 DEF LedInv
  <2>4. q \in low_power_pwm_t /\ q.pwm_state = "INITIALIZED" /\ q.period = t
    BY <2>3 DEF pin_off, low_power_pwm_t
  <2>5. q.handler /\ ~q.lit
    BY <2>3 DEF pin_off, low_power_pwm_t
  <2> HIDE DEF q
  <2>6. LedInv(q, "stopped")
    BY <2>4, <2>5 DEF LedInv
  <2>7. timer' = [timer EXCEPT ![c] = "stopped"]
    BY <2>1, <2>3, <1>0
  <2>8. pedaling' \in BOOLEAN /\ blink' \in [Leds -> Nat]
    BY <2>1, <1>0
  <2> QED
    BY <2>1, <2>6, <2>7, <2>8, OneLed, Zenon
<1>4. ASSUME NEW c \in Leds, low_power_pwm_start(c) PROVE PwmInv'
  <2> DEFINE r == [pin_off(pwm[c]) EXCEPT !.pwm_state = "POWERED_ON",
                                          !.evt_type = "PERIOD", !.handler = FALSE]
             n == NextSlope(r)
             q == [n EXCEPT !.handler = TRUE]
  <2>1. /\ pwm[c].pwm_state = "INITIALIZED"
        /\ pwm' = [pwm EXCEPT ![c] = q]
        /\ timer' = [timer EXCEPT ![c] = "running"]
        /\ blink' = [blink EXCEPT ![c] = IF n.evt_type = "DUTY_CYCLE"
                                         THEN n.timeout_ticks ELSE 0]
        /\ pedaling' = pedaling
    BY <1>4 DEF low_power_pwm_start
  <2>2. LedInv(pwm[c], timer[c])
    BY <1>0
  <2>3. pwm[c] \in low_power_pwm_t /\ pwm[c].period \in Periods
    BY <2>1, <2>2 DEF LedInv
  <2>4. /\ r \in low_power_pwm_t /\ r.pwm_state = "POWERED_ON"
        /\ r.period = pwm[c].period
    BY <2>3 DEF pin_off, low_power_pwm_t
  <2>5. ~Ignored(r)
    BY <2>4 DEF Ignored
  <2> HIDE DEF r
  <2>6. /\ n \in low_power_pwm_t
        /\ n.pwm_state = "POWERED_ON" /\ n.period = pwm[c].period
        /\ n.timeout_ticks >= MinTicks
        /\ n.timeout_ticks <= pwm[c].period + MinTicks
    BY <2>3, <2>4, <2>5, <1>0, SlopeStep
  <2> HIDE DEF n
  <2>7. /\ q \in low_power_pwm_t
        /\ q.pwm_state = "POWERED_ON" /\ q.period = pwm[c].period
        /\ q.timeout_ticks = n.timeout_ticks
    BY <2>6 DEF low_power_pwm_t
  <2>8. q.handler
    BY <2>6 DEF low_power_pwm_t
  <2> HIDE DEF q
  <2>9. LedInv(q, "running")
    BY <2>3, <2>6, <2>7, <2>8 DEF LedInv
  <2>10. blink' \in [Leds -> Nat]
    <3>1. n.timeout_ticks \in Nat
      BY <2>6, Fields
    <3> QED
      BY <3>1, <2>1, <1>0
  <2>11. pedaling' \in BOOLEAN
    BY <2>1, <1>0
  <2> QED
    BY <2>1, <2>9, <2>10, <2>11, OneLed, Zenon
<1>5. ASSUME NEW c \in Leds, low_power_pwm_stop(c) PROVE PwmInv'
  <2> DEFINE q == [pin_off(pwm[c]) EXCEPT !.pwm_state = "INITIALIZED"]
  <2>1. /\ pwm[c].pwm_state = "POWERED_ON"
        /\ pwm' = [pwm EXCEPT ![c] = q]
        /\ timer' = [timer EXCEPT ![c] = "stopping"]
        /\ pedaling' = pedaling /\ blink' = blink
    BY <1>5 DEF low_power_pwm_stop
  <2>2. LedInv(pwm[c], timer[c])
    BY <1>0
  <2>3. /\ pwm[c] \in low_power_pwm_t /\ pwm[c].handler
        /\ pwm[c].period \in Periods
    BY <2>1, <2>2 DEF LedInv
  <2>4. /\ q \in low_power_pwm_t /\ q.pwm_state = "INITIALIZED"
        /\ q.period = pwm[c].period /\ q.handler = pwm[c].handler
    BY <2>3 DEF pin_off, low_power_pwm_t
  <2>5. ~q.lit
    BY <2>3 DEF pin_off, low_power_pwm_t
  <2> HIDE DEF q
  <2>6. LedInv(q, "stopping")
    BY <2>3, <2>4, <2>5 DEF LedInv
  <2>7. pedaling' \in BOOLEAN /\ blink' \in [Leds -> Nat]
    BY <2>1, <1>0
  <2> QED
    BY <2>1, <2>6, <2>7, OneLed, Zenon
<1>6. ASSUME NEW c \in Leds, NEW d \in Duties, low_power_pwm_duty_set(c, d)
      PROVE  PwmInv'
  <2> DEFINE q == [pwm[c] EXCEPT !.duty_cycle = d]
  <2>1. /\ pwm' = [pwm EXCEPT ![c] = q]
        /\ timer' = timer /\ pedaling' = pedaling
        /\ blink' = [blink EXCEPT ![c] = 0]
    BY <1>6 DEF low_power_pwm_duty_set
  <2>2. LedInv(pwm[c], timer[c])
    BY <1>0
  <2>3. pwm[c] \in low_power_pwm_t
    BY <2>2 DEF LedInv
  <2>4. /\ q \in low_power_pwm_t /\ q.pwm_state = pwm[c].pwm_state
        /\ q.period = pwm[c].period /\ q.handler = pwm[c].handler
        /\ q.timeout_ticks = pwm[c].timeout_ticks
        /\ q.lit = pwm[c].lit
    BY <2>3 DEF low_power_pwm_t
  <2> HIDE DEF q
  <2>5. LedInv(q, timer[c])
    BY <2>2, <2>4, Zenon DEF LedInv
  <2>6. timer' = [timer EXCEPT ![c] = timer[c]]
    BY <2>1, <1>0
  <2>7. pedaling' \in BOOLEAN /\ blink' \in [Leds -> Nat]
    BY <2>1, <1>0
  <2> QED
    BY <2>1, <2>5, <2>6, <2>7, OneLed, Zenon
<1>7. CASE Pedal
  BY <1>7 DEF Pedal, PwmInv, PwmTypeOK, TimersAndStates, PhaseLegal, StoppedIsDark,
              low_power_pwm_t
<1>8. CASE UNCHANGED pwmVars
  BY <1>8 DEF pwmVars, PwmInv, PwmTypeOK, TimersAndStates, PhaseLegal, StoppedIsDark,
              low_power_pwm_t
<1> QED
  BY <1>1, <1>2, <1>3, <1>4, <1>5, <1>6, <1>7, <1>8, Zenon DEF PwmNext, PwmTimer

\* The driver's invariant under any use of its interface.
THEOREM PwmInvariant == PwmSpec => []PwmInv
  BY PwmInitInv, PwmStepInv, PTL DEF PwmSpec

\* Every phase a timer is started for is one app_timer_start accepts, and no
\* longer than a period (low_power_pwm.c:138-158).
THEOREM PhasesAreLegal == PwmSpec => []PhaseLegal
<1>1. PwmInv => PhaseLegal
  BY DEF PwmInv
<1> QED
  BY <1>1, PwmInvariant, PTL

\* A PWM that is off is dark, the timeout that comes after the stop included
\* (low_power_pwm.c:119-122).
THEOREM StopIsDark == PwmSpec => []StoppedIsDark
<1>1. PwmInv => StoppedIsDark
  BY DEF PwmInv
<1> QED
  BY <1>1, PwmInvariant, PTL

\* The state keeps its types; a phase never goes below zero (low_power_pwm.c:151).
THEOREM PwmTypes == PwmSpec => []PwmTypeOK
<1>1. PwmInv => PwmTypeOK
  BY DEF PwmInv
<1> QED
  BY <1>1, PwmInvariant, PTL

-----------------------------------------------------------------------------
\* What is known of the blink of an instance p that runs for b ticks so far.
Blinking(p, b) ==
  /\ p.pwm_state = "UNINITIALIZED" => p.evt_type = "PERIOD"
  /\ b > 0 /\ p.evt_type = "DUTY_CYCLE" /\ p.duty_cycle < Full =>
       p.duty_cycle > 0 /\ b = HighTicks(p) + MinTicks

\* The part of BlinkTakesPeriod about one LED, whose instance becomes q.
Takes(p, b, q) ==
  b > 0 /\ p.evt_type = "DUTY_CYCLE" /\ q.evt_type = "PERIOD" /\ p.duty_cycle < Full
    => b + q.timeout_ticks = p.period + 2 * MinTicks

\* The handler keeps the settings, and below 100% it needs no correction.
LEMMA SlopeExact ==
  ASSUME NEW p \in low_power_pwm_t, p.period \in Periods, ~Ignored(p)
  PROVE  LET q == NextSlope(p) IN
         /\ q.period = p.period /\ q.duty_cycle = p.duty_cycle
         /\ q.pwm_state = p.pwm_state
         /\ p.evt_type = "PERIOD" /\ p.duty_cycle > 0 /\ p.duty_cycle < Full =>
              q.evt_type = "DUTY_CYCLE" /\ q.timeout_ticks = HighTicks(p) + MinTicks
         /\ p.evt_type = "PERIOD" /\ p.duty_cycle = 0 => q.evt_type = "PERIOD"
         /\ p.evt_type = "DUTY_CYCLE" /\ p.duty_cycle < Full =>
              /\ q.evt_type = "PERIOD"
              /\ q.timeout_ticks = p.period - HighTicks(p) + MinTicks
<1> DEFINE q == NextSlope(p)
           s == IF p.evt_type = "PERIOD" THEN PeriodSlope(p) ELSE DutySlope(p)
           h == HighTicks(p)
<1>1. /\ MinTicks \in Nat /\ Full \in Nat /\ Full > 0 /\ Duties \subseteq Nat
      /\ p.period \in Nat /\ p.duty_cycle \in Duties \cup {0}
      /\ p.evt_type \in {"PERIOD", "DUTY_CYCLE"}
  BY PwmAssumption, Fields
<1>2. p.duty_cycle \in Nat
  <2>1. Duties \cup {0} \subseteq Nat
    BY <1>1
  <2> QED
    BY <1>1, <2>1
<1>3. h \in Nat /\ (p.duty_cycle <= Full => h <= p.period)
  BY <1>1, OnPhase DEF HighTicks
<1>4. q = Corrected(s)
  BY DEF NextSlope
<1>5. /\ {"pwm_state", "period", "duty_cycle", "evt_type"} \subseteq DOMAIN s
      /\ s.period = p.period /\ s.duty_cycle = p.duty_cycle /\ s.pwm_state = p.pwm_state
      /\ p.evt_type = "PERIOD" /\ p.duty_cycle > 0 /\ p.duty_cycle < Full =>
           s.evt_type = "DUTY_CYCLE" /\ s.timeout_ticks = h + MinTicks
      /\ p.evt_type = "PERIOD" /\ p.duty_cycle = 0 => s.evt_type = "PERIOD"
      /\ p.evt_type = "DUTY_CYCLE" =>
           s.evt_type = "PERIOD" /\ s.timeout_ticks = p.period - h + MinTicks
  <2>1. CASE p.evt_type = "PERIOD"
    <3> DEFINE f == [pin_off(p) EXCEPT !.timeout_ticks = p.period + MinTicks]
               o == [pin_on(p) EXCEPT !.timeout_ticks = p.period + MinTicks]
               n == [pin_on(p) EXCEPT !.timeout_ticks = h + MinTicks,
                                      !.evt_type = "DUTY_CYCLE"]
    <3>1. /\ f.period = p.period /\ f.duty_cycle = p.duty_cycle
          /\ f.pwm_state = p.pwm_state /\ f.evt_type = p.evt_type
          /\ {"pwm_state", "period", "duty_cycle", "evt_type"} \subseteq DOMAIN f
      BY DEF pin_off, low_power_pwm_t
    <3>2. /\ o.period = p.period /\ o.duty_cycle = p.duty_cycle
          /\ o.pwm_state = p.pwm_state /\ o.evt_type = p.evt_type
          /\ {"pwm_state", "period", "duty_cycle", "evt_type"} \subseteq DOMAIN o
      BY DEF pin_on, pin_off, low_power_pwm_t
    <3>3. /\ n.period = p.period /\ n.duty_cycle = p.duty_cycle
          /\ n.pwm_state = p.pwm_state /\ n.evt_type = "DUTY_CYCLE"
          /\ {"pwm_state", "period", "duty_cycle", "evt_type"} \subseteq DOMAIN n
          /\ n.timeout_ticks = h + MinTicks
      BY DEF pin_on, pin_off, low_power_pwm_t
    <3>4. s = PeriodSlope(p)
      BY <2>1
    <3>5. CASE p.duty_cycle = Full
      <4>1. s = o
        BY <1>1, <3>4, <3>5 DEF PeriodSlope
      <4> HIDE DEF f, o, n, s, h
      <4> QED
        BY <1>1, <2>1, <3>2, <3>5, <4>1
    <3>6. CASE p.duty_cycle # Full /\ p.duty_cycle = 0
      <4>1. s = f
        BY <3>4, <3>6 DEF PeriodSlope
      <4> HIDE DEF f, o, n, s, h
      <4> QED
        BY <2>1, <3>1, <3>6, <4>1
    <3>7. CASE p.duty_cycle # Full /\ p.duty_cycle # 0
      <4>1. s = n
        BY <3>4, <3>7 DEF PeriodSlope
      <4> HIDE DEF f, o, n, s, h
      <4> QED
        BY <1>2, <2>1, <3>3, <3>7, <4>1
    <3> QED
      BY <3>5, <3>6, <3>7
  <2>2. CASE p.evt_type = "DUTY_CYCLE"
    <3>1. s = [p EXCEPT !.lit = FALSE, !.pin_is_on = FALSE,
                        !.timeout_ticks = p.period - h + MinTicks, !.evt_type = "PERIOD"]
      BY <2>2 DEF DutySlope, pin_off, low_power_pwm_t
    <3> HIDE DEF s, h
    <3> QED
      BY <2>2, <3>1 DEF low_power_pwm_t
  <2> QED
    BY <1>1, <2>1, <2>2
<1>6. /\ q.period = s.period /\ q.duty_cycle = s.duty_cycle /\ q.pwm_state = s.pwm_state
      /\ q.evt_type = s.evt_type
      /\ ~(s.timeout_ticks < 0) /\ ~(s.timeout_ticks > s.period + MinTicks) => q = s
  <2>1. \/ q = s
        \/ /\ s.timeout_ticks < 0 \/ s.timeout_ticks > s.period + MinTicks
           /\ q = [s EXCEPT !.timeout_ticks = s.period + MinTicks]
    BY <1>4 DEF Corrected
  <2> HIDE DEF q, s
  <2> QED
    BY <1>5, <2>1
<1> HIDE DEF q, s, h
<1>7. p.evt_type = "PERIOD" /\ p.duty_cycle > 0 /\ p.duty_cycle < Full => q = s
  BY <1>1, <1>2, <1>3, <1>5, <1>6
<1>8. p.evt_type = "DUTY_CYCLE" /\ p.duty_cycle < Full => q = s
  BY <1>1, <1>2, <1>3, <1>5, <1>6
<1> QED
  BY <1>5, <1>6, <1>7, <1>8 DEF q, h

\* What a step of the handler does to the blink of an instance it does not
\* ignore: a dark phase is followed by the on-phase of the duty cycle, and the
\* on-phase by what is left of the period.
LEMMA BlinkByHandler ==
  ASSUME NEW p \in low_power_pwm_t, p.period \in Periods, ~Ignored(p),
         NEW b \in Nat, Blinking(p, b), p.pwm_state # "UNINITIALIZED"
  PROVE  LET q == NextSlope(p) IN
         /\ Blinking(q, IF q.evt_type = "DUTY_CYCLE" THEN q.timeout_ticks ELSE 0)
         /\ Takes(p, b, q)
<1> DEFINE q == NextSlope(p)
           d == IF q.evt_type = "DUTY_CYCLE" THEN q.timeout_ticks ELSE 0
<1>1. /\ MinTicks \in Nat /\ Full \in Nat
      /\ p.period \in Nat /\ p.duty_cycle \in Duties \cup {0}
      /\ p.evt_type \in {"PERIOD", "DUTY_CYCLE"}
  BY PwmAssumption, Fields
<1>2. p.duty_cycle \in Nat
  <2>1. Duties \cup {0} \subseteq Nat
    BY PwmAssumption
  <2> QED
    BY <1>1, <2>1
<1>3. HighTicks(p) \in Nat
  BY <1>1, OnPhase DEF HighTicks
<1>4. /\ q.period = p.period /\ q.duty_cycle = p.duty_cycle /\ q.pwm_state = p.pwm_state
      /\ p.evt_type = "PERIOD" /\ p.duty_cycle > 0 /\ p.duty_cycle < Full =>
           q.evt_type = "DUTY_CYCLE" /\ q.timeout_ticks = HighTicks(p) + MinTicks
      /\ p.evt_type = "PERIOD" /\ p.duty_cycle = 0 => q.evt_type = "PERIOD"
      /\ p.evt_type = "DUTY_CYCLE" /\ p.duty_cycle < Full =>
           /\ q.evt_type = "PERIOD"
           /\ q.timeout_ticks = p.period - HighTicks(p) + MinTicks
  BY SlopeExact
<1>5. HighTicks(q) = HighTicks(p)
  BY <1>4 DEF HighTicks
<1> HIDE DEF q
<1>6. Blinking(q, d)
  <2> SUFFICES ASSUME q.evt_type = "DUTY_CYCLE", q.duty_cycle < Full
               PROVE  q.duty_cycle > 0 /\ q.timeout_ticks = HighTicks(q) + MinTicks
    BY <1>4 DEF Blinking
  <2>1. p.evt_type = "PERIOD" /\ p.duty_cycle # 0
    BY <1>1, <1>4
  <2> QED
    BY <1>2, <1>4, <1>5, <2>1
<1>7. Takes(p, b, q)
  <2> SUFFICES ASSUME b > 0, p.evt_type = "DUTY_CYCLE", p.duty_cycle < Full
               PROVE  b + q.timeout_ticks = p.period + 2 * MinTicks
    BY DEF Takes
  <2>1. b = HighTicks(p) + MinTicks
    BY DEF Blinking
  <2> QED
    BY <1>1, <1>3, <1>4, <2>1
<1> QED
  BY <1>6, <1>7 DEF q

\* A step that changes one LED, whose blink it leaves known.
LEMMA BlinkOneLed ==
  ASSUME PwmInv, \A x \in Leds : Blinking(pwm[x], blink[x]),
         NEW c \in Leds, NEW p, NEW b,
         pwm' = [pwm EXCEPT ![c] = p], blink' = [blink EXCEPT ![c] = b],
         Blinking(p, b), Takes(pwm[c], blink[c], p)
  PROVE  \A x \in Leds : /\ Blinking(pwm'[x], blink'[x])
                         /\ Takes(pwm[x], blink[x], pwm'[x])
<1>1. pwm \in [Leds -> low_power_pwm_t] /\ blink \in [Leds -> Nat]
  BY PwmInvByLed
<1> SUFFICES ASSUME NEW x \in Leds
             PROVE  Blinking(pwm'[x], blink'[x]) /\ Takes(pwm[x], blink[x], pwm'[x])
  OBVIOUS
<1>2. CASE x = c
  <2>1. pwm'[x] = p /\ blink'[x] = b
    BY <1>1, <1>2
  <2> QED
    BY <1>2, <2>1, Zenon
<1>3. CASE x # c
  <2>1. pwm'[x] = pwm[x] /\ blink'[x] = blink[x]
    BY <1>1, <1>3
  <2>2. Takes(pwm[x], blink[x], pwm[x])
    BY DEF Takes
  <2> QED
    BY <2>1, <2>2, Zenon
<1> QED
  BY <1>2, <1>3

LEMMA BlinkStep ==
  ASSUME PwmInv, [PwmNext]_pwmVars, \A x \in Leds : Blinking(pwm[x], blink[x])
  PROVE  \A x \in Leds : /\ Blinking(pwm'[x], blink'[x])
                         /\ Takes(pwm[x], blink[x], pwm'[x])
<1>0. /\ pwm \in [Leds -> low_power_pwm_t] /\ blink \in [Leds -> Nat]
      /\ \A c \in Leds : LedInv(pwm[c], timer[c])
  BY PwmInvByLed
<1>1. ASSUME NEW c \in Leds, Timeout(c)
      PROVE  \A x \in Leds : /\ Blinking(pwm'[x], blink'[x])
                             /\ Takes(pwm[x], blink[x], pwm'[x])
  <2> DEFINE q == NextSlope(pwm[c])
             b == IF q.evt_type = "DUTY_CYCLE" THEN q.timeout_ticks ELSE 0
  <2>1. /\ pwm' = [pwm EXCEPT ![c] = q] /\ blink' = [blink EXCEPT ![c] = b]
        /\ timer[c] \in {"running", "stopping"}
    BY <1>1 DEF Timeout, pwm_timeout_handler
  <2>2. LedInv(pwm[c], timer[c])
    BY <1>0
  <2>3. /\ pwm[c] \in low_power_pwm_t /\ pwm[c].pwm_state # "UNINITIALIZED"
        /\ pwm[c].period \in Periods
    BY <2>1, <2>2 DEF LedInv
  <2>4. Blinking(pwm[c], blink[c]) /\ blink[c] \in Nat
    BY <1>0
  <2>5. Blinking(q, b) /\ Takes(pwm[c], blink[c], q)
    <3>1. CASE ~Ignored(pwm[c])
      BY <2>3, <2>4, <3>1, BlinkByHandler
    <3>2. CASE Ignored(pwm[c])
      <4>1. q = pwm[c] /\ pwm[c].evt_type = "PERIOD"
        BY <3>2 DEF NextSlope, Ignored
      <4> HIDE DEF q
      <4> QED
        BY <4>1 DEF Blinking, Takes
    <3> QED
      BY <3>1, <3>2
  <2> HIDE DEF q, b
  <2> QED
    BY <2>1, <2>5, BlinkOneLed, Zenon
<1>2. ASSUME NEW c \in Leds, NEW t \in Periods, low_power_pwm_init(c, t)
      PROVE  \A x \in Leds : /\ Blinking(pwm'[x], blink'[x])
                             /\ Takes(pwm[x], blink[x], pwm'[x])
  <2> DEFINE q == [pin_off(pwm[c]) EXCEPT !.handler = TRUE, !.period = t,
                                          !.pwm_state = "INITIALIZED"]
  <2>1. /\ pwm[c].pwm_state = "UNINITIALIZED"
        /\ pwm' = [pwm EXCEPT ![c] = q] /\ blink' = blink
    BY <1>2 DEF low_power_pwm_init
  <2>2. pwm[c] \in low_power_pwm_t /\ pwm[c].evt_type = "PERIOD"
    BY <1>0, <2>1 DEF Blinking
  <2>3. q.evt_type = "PERIOD"
    BY <2>2 DEF pin_off, low_power_pwm_t
  <2> HIDE DEF q
  <2>4. Blinking(q, blink[c]) /\ Takes(pwm[c], blink[c], q)
    BY <2>2, <2>3 DEF Blinking, Takes
  <2>5. blink' = [blink EXCEPT ![c] = blink[c]]
    BY <1>0, <2>1
  <2> QED
    BY <2>1, <2>4, <2>5, BlinkOneLed, Zenon
<1>3. ASSUME NEW c \in Leds, low_power_pwm_start(c)
      PROVE  \A x \in Leds : /\ Blinking(pwm'[x], blink'[x])
                             /\ Takes(pwm[x], blink[x], pwm'[x])
  <2> DEFINE r == [pin_off(pwm[c]) EXCEPT !.pwm_state = "POWERED_ON",
                                          !.evt_type = "PERIOD", !.handler = FALSE]
             n == NextSlope(r)
             q == [n EXCEPT !.handler = TRUE]
             b == IF n.evt_type = "DUTY_CYCLE" THEN n.timeout_ticks ELSE 0
  <2>1. /\ pwm[c].pwm_state = "INITIALIZED"
        /\ pwm' = [pwm EXCEPT ![c] = q] /\ blink' = [blink EXCEPT ![c] = b]
        /\ pedaling \in BOOLEAN
    BY <1>3, PwmInvByLed DEF low_power_pwm_start
  <2>2. pwm[c] \in low_power_pwm_t /\ pwm[c].period \in Periods
    BY <1>0, <2>1 DEF LedInv
  <2>3. /\ r \in low_power_pwm_t /\ r.period = pwm[c].period
        /\ r.duty_cycle = pwm[c].duty_cycle
        /\ r.pwm_state = "POWERED_ON" /\ r.evt_type = "PERIOD"
    BY <2>2 DEF pin_off, low_power_pwm_t
  <2>4. ~Ignored(r)
    BY <2>3 DEF Ignored
  <2>5. Blinking(r, 0)
    BY <2>3 DEF Blinking
  <2> HIDE DEF r
  <2>6. Blinking(n, b)
    BY <2>2, <2>3, <2>4, <2>5, BlinkByHandler
  <2>7. n \in low_power_pwm_t
    BY <2>1, <2>2, <2>3, SlopeStep
  <2>8. r.duty_cycle > 0 /\ r.duty_cycle < Full => n.evt_type = "DUTY_CYCLE"
    BY <2>2, <2>3, <2>4, SlopeExact
  <2> HIDE DEF n
  <2>9. /\ q.evt_type = n.evt_type /\ q.duty_cycle = n.duty_cycle
        /\ q.pwm_state = n.pwm_state /\ q.period = n.period
    BY <2>7 DEF low_power_pwm_t
  <2> HIDE DEF q, b
  <2>10. Blinking(q, b)
    BY <2>6, <2>9 DEF Blinking, HighTicks
  <2>11. Takes(pwm[c], blink[c], q)
    <3> SUFFICES ASSUME blink[c] > 0, pwm[c].evt_type = "DUTY_CYCLE",
                        q.evt_type = "PERIOD", pwm[c].duty_cycle < Full
                 PROVE  FALSE
      BY DEF Takes
    <3>1. pwm[c].duty_cycle > 0
      BY DEF Blinking
    <3> QED
      BY <2>3, <2>8, <2>9, <3>1
  <2> QED
    BY <2>1, <2>10, <2>11, BlinkOneLed, Zenon
<1>4. ASSUME NEW c \in Leds, low_power_pwm_stop(c)
      PROVE  \A x \in Leds : /\ Blinking(pwm'[x], blink'[x])
                             /\ Takes(pwm[x], blink[x], pwm'[x])
  <2> DEFINE q == [pin_off(pwm[c]) EXCEPT !.pwm_state = "INITIALIZED"]
  <2>1. pwm' = [pwm EXCEPT ![c] = q] /\ blink' = blink /\ pwm[c] \in low_power_pwm_t
    BY <1>0, <1>4 DEF low_power_pwm_stop
  <2>2. /\ q.evt_type = pwm[c].evt_type /\ q.duty_cycle = pwm[c].duty_cycle
        /\ q.pwm_state = "INITIALIZED" /\ q.period = pwm[c].period
    BY <2>1 DEF pin_off, low_power_pwm_t
  <2> HIDE DEF q
  <2>3. Blinking(q, blink[c]) /\ Takes(pwm[c], blink[c], q)
    BY <2>2 DEF Blinking, Takes, HighTicks
  <2>4. blink' = [blink EXCEPT ![c] = blink[c]]
    BY <1>0, <2>1
  <2> QED
    BY <2>1, <2>3, <2>4, BlinkOneLed, Zenon
<1>5. ASSUME NEW c \in Leds, NEW d \in Duties, low_power_pwm_duty_set(c, d)
      PROVE  \A x \in Leds : /\ Blinking(pwm'[x], blink'[x])
                             /\ Takes(pwm[x], blink[x], pwm'[x])
  <2> DEFINE q == [pwm[c] EXCEPT !.duty_cycle = d]
  <2>1. /\ pwm' = [pwm EXCEPT ![c] = q] /\ blink' = [blink EXCEPT ![c] = 0]
        /\ pwm[c] \in low_power_pwm_t
    BY <1>0, <1>5 DEF low_power_pwm_duty_set
  <2>2. q.evt_type = pwm[c].evt_type /\ q.pwm_state = pwm[c].pwm_state
    BY <2>1 DEF low_power_pwm_t
  <2> HIDE DEF q
  <2>3. Blinking(q, 0) /\ Takes(pwm[c], blink[c], q)
    BY <2>2 DEF Blinking, Takes
  <2> QED
    BY <2>1, <2>3, BlinkOneLed, Zenon
<1>6. CASE UNCHANGED <<pwm, blink>>
  BY <1>6 DEF Takes
<1> QED
  BY <1>1, <1>2, <1>3, <1>4, <1>5, <1>6, Zenon
  DEF PwmNext, PwmTimer, StopTaken, Pedal, pwmVars

\* A blink whose settings are left alone takes one period and the two smallest
\* timeouts, for every period and every duty cycle below 100%: the two phases
\* are computed one at a time, each from the settings at its own start
\* (low_power_pwm.c:118-164).
THEOREM BlinksTakeTheirPeriod == PwmSpec => BlinkTakesPeriod
<1>1. PwmInit => \A x \in Leds : Blinking(pwm[x], blink[x])
  BY DEF PwmInit, Idle, Blinking
<1>2. PwmInv /\ (\A x \in Leds : Blinking(pwm[x], blink[x])) /\ [PwmNext]_pwmVars
        => (\A x \in Leds : Blinking(pwm[x], blink[x]))'
  BY BlinkStep
<1>3. PwmInv /\ (\A x \in Leds : Blinking(pwm[x], blink[x])) /\ [PwmNext]_pwmVars
        => [\A c \in Leds :
              /\ blink[c] > 0
              /\ pwm[c].evt_type = "DUTY_CYCLE" /\ pwm'[c].evt_type = "PERIOD"
              /\ pwm[c].duty_cycle < Full
              => blink[c] + pwm'[c].timeout_ticks = pwm[c].period + 2 * MinTicks]_pwmVars
  BY BlinkStep DEF Takes
<1> QED
  BY <1>1, <1>2, <1>3, PwmInvariant, PTL DEF PwmSpec, BlinkTakesPeriod
=============================================================================

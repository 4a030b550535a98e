---------------------------- MODULE SaadcAverage ----------------------------
(***************************************************************************)
(* saadc_callback of sadcmain.c up to adc_reading_aved: one pass over the  *)
(* buffer of seven samples, then the mean of all but the largest and the   *)
(* smallest.  That mean decides whether the sensor turns itself off.  The   *)
(* callback keeps nothing from one buffer to the next: one call is all.    *)
(***************************************************************************)
EXTENDS Integers

CONSTANT Samples   \* values of nrf_saadc_value_t that a conversion yields

SAMPLES_IN_BUFFER == 7

\* An int16_t holds the sum: the resolution is 10 bits (12 would still do).
ASSUME ResolutionAssumption == \A s \in Samples : s \in Int /\ -4096 <= s /\ s <= 4095

VARIABLES p_buffer,          \* the samples
          i, sum, min, max,  \* locals of the callback
          adc_reading_aved,
          at                 \* where the callback is

saadcVars == <<p_buffer, i, sum, min, max, adc_reading_aved, at>>

-----------------------------------------------------------------------------
\* Division of C: towards zero.
CDiv(a, b) == IF a >= 0 THEN a \div b ELSE -((-a) \div b)

\* Fault: the smallest sample stays in.
Average_min(s, lo, hi) == CDiv(s - hi + (SAMPLES_IN_BUFFER - 2) \div 2, SAMPLES_IN_BUFFER - 2)

Average(s, lo, hi) ==
  CDiv(s - (hi + lo) + (SAMPLES_IN_BUFFER - 2) \div 2, SAMPLES_IN_BUFFER - 2)

Init == /\ p_buffer \in [0..SAMPLES_IN_BUFFER - 1 -> Samples]
        /\ i = 0 /\ sum = 0 /\ min = 32767 /\ max = 0
        /\ adc_reading_aved = 0
        /\ at = "loop"

\* The body of the loop.  max starts at 0: a buffer of negative samples, which
\* a grounded input may give, has the largest of them counted in.
Sample == /\ at = "loop" /\ i < SAMPLES_IN_BUFFER
          /\ LET reading == p_buffer[i] IN
             /\ sum' = sum + reading
             /\ max' = IF reading > max THEN reading ELSE max
             /\ min' = IF reading < min THEN reading ELSE min
          /\ i' = i + 1
          /\ UNCHANGED <<p_buffer, adc_reading_aved, at>>

Averaged == /\ at = "loop" /\ i = SAMPLES_IN_BUFFER
            /\ adc_reading_aved' = Average(sum, min, max)
            /\ at' = "done"
            /\ UNCHANGED <<p_buffer, i, sum, min, max>>

Next == Sample \/ Averaged

Spec == Init /\ [][Next]_saadcVars

-----------------------------------------------------------------------------
\* Types; the sum never leaves an int16_t.
TypeOK == /\ p_buffer \in [0..SAMPLES_IN_BUFFER - 1 -> Samples]
          /\ i \in 0..SAMPLES_IN_BUFFER
          /\ sum \in Int /\ -32768 <= sum /\ sum <= 32767
          /\ min \in Int /\ max \in Int /\ adc_reading_aved \in Int
          /\ at \in {"loop", "done"}

\* All samples but number k lie between lo and hi.
Steady(k, lo, hi) == \A j \in (0..SAMPLES_IN_BUFFER - 1) \ {k} : p_buffer[j] \in lo..hi

\* v is the sum of n numbers between lo and hi, as far as its size tells.
Between(v, n, lo, hi) == n * lo <= v /\ v <= n * hi

\* Part of the inductive invariant, for a buffer that is steady but for k: a
\* and b are the smallest and the largest of the steady samples read so far.
SteadySoFar(k, lo, hi) ==
  LET seen == i > k
      steady == IF seen THEN i - 1 ELSE i
      total == IF seen THEN sum - p_buffer[k] ELSE sum
  IN  IF steady = 0
      THEN /\ total = 0
           /\ min = IF seen THEN p_buffer[k] ELSE 32767
           /\ max = IF seen /\ p_buffer[k] > 0 THEN p_buffer[k] ELSE 0
      ELSE \E a, b \in Samples :
             /\ lo <= a /\ a <= b /\ b <= hi
             /\ IF steady = 1 THEN total = a /\ a = b
                              ELSE Between(total - a - b, steady - 2, lo, hi)
             /\ min = IF seen /\ p_buffer[k] < a THEN p_buffer[k] ELSE a
             /\ max = IF seen /\ p_buffer[k] > b THEN p_buffer[k] ELSE b

\* i samples of the converter's width.
SumFits == -(4096 * i) <= sum /\ sum <= 4095 * i

\* The inductive invariant.
AverageInv ==
  /\ TypeOK /\ SumFits
  /\ \A k \in 0..SAMPLES_IN_BUFFER - 1, lo, hi \in Samples :
       lo >= 0 /\ Steady(k, lo, hi) =>
         IF at = "loop" THEN SteadySoFar(k, lo, hi) ELSE adc_reading_aved \in lo..hi

\* One wild sample moves the reading no further than the others reach: a spike
\* neither turns the sensor off nor keeps a flat battery in use.
OneSpikeIsHarmless ==
  at = "done" =>
    \A k \in 0..SAMPLES_IN_BUFFER - 1, lo, hi \in Samples :
      lo >= 0 /\ Steady(k, lo, hi) => adc_reading_aved \in lo..hi
=============================================================================

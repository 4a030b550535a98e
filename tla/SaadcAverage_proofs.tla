------------------------ MODULE SaadcAverage_proofs ------------------------
(***************************************************************************)
(* The average of the ADC readings holds for every set of readings of the  *)
(* converter's width, not only for the few that TLC tries.                 *)
(***************************************************************************)
EXTENDS SaadcAverage, TLAPS

\* What the width of the converter gives.
LEMMA SampleRange ==
  ASSUME NEW s \in Samples
  PROVE  s \in Int /\ -4096 <= s /\ s <= 4095
  BY ResolutionAssumption

\* One more number between lo and hi.
LEMMA OneMore ==
  ASSUME NEW v \in Int, NEW n \in Int, NEW lo \in Int, NEW hi \in Int, NEW r \in Int,
         lo <= r, r <= hi, Between(v, n, lo, hi),
         NEW w, w = v + r, NEW m, m = n + 1
  PROVE  Between(w, m, lo, hi)
<1>1. (n + 1) * lo = n * lo + lo /\ (n + 1) * hi = n * hi + hi
  OBVIOUS
<1>2. n * lo \in Int /\ n * hi \in Int
  OBVIOUS
<1> QED
  BY <1>1, <1>2 DEF Between

\* The mean of five numbers between lo and hi, rounded.
LEMMA MeanOfFive ==
  ASSUME NEW s \in Int, NEW a \in Int, NEW b \in Int, NEW lo \in Nat, NEW hi \in Int,
         Between(s - (b + a), 5, lo, hi)
  PROVE  Average(s, a, b) \in lo..hi
<1>1. 5 * lo <= s - (b + a) /\ s - (b + a) <= 5 * hi
  BY DEF Between
<1>2. Average(s, a, b) = CDiv(s - (b + a) + 2, 5)
  BY DEF Average, SAMPLES_IN_BUFFER
<1>3. s - (b + a) + 2 >= 0
  BY <1>1
<1>4. CDiv(s - (b + a) + 2, 5) = (s - (b + a) + 2) \div 5
  BY <1>3 DEF CDiv
<1> QED
  BY <1>1, <1>2, <1>4

LEMMA AverageIsInt ==
  ASSUME NEW s \in Int, NEW a \in Int, NEW b \in Int
  PROVE  Average(s, a, b) \in Int
BY DEF Average, CDiv, SAMPLES_IN_BUFFER

LEMMA AverageInit == Init => AverageInv
<1> SUFFICES ASSUME Init PROVE AverageInv
  OBVIOUS
<1>1. TypeOK
  BY DEF Init, TypeOK, SAMPLES_IN_BUFFER
<1>2. SumFits
  BY DEF Init, SumFits
<1>3. ASSUME NEW k \in 0..SAMPLES_IN_BUFFER - 1, NEW lo \in Samples, NEW hi \in Samples
      PROVE  at = "loop" /\ SteadySoFar(k, lo, hi)
  BY DEF Init, SteadySoFar, SAMPLES_IN_BUFFER
<1> QED
  BY <1>1, <1>2, <1>3 DEF AverageInv

\* The loop reads one more sample.
LEMMA SampleStep ==
  ASSUME TypeOK, Sample,
         NEW k \in 0..SAMPLES_IN_BUFFER - 1, NEW lo \in Samples, NEW hi \in Samples,
         lo >= 0, Steady(k, lo, hi), SteadySoFar(k, lo, hi)
  PROVE  SteadySoFar(k, lo, hi)'
<1> DEFINE r == p_buffer[i]
           x == p_buffer[k]
           seen == i > k
           steady == IF seen THEN i - 1 ELSE i
           total == IF seen THEN sum - x ELSE sum
<1>1. /\ i \in 0..6 /\ i' = i + 1 /\ sum' = sum + r
      /\ max' = (IF r > max THEN r ELSE max)
      /\ min' = (IF r < min THEN r ELSE min)
      /\ p_buffer' = p_buffer
  BY DEF Sample, TypeOK, SAMPLES_IN_BUFFER
<1>3. /\ r \in Samples /\ x \in Samples /\ k \in 0..6
      /\ sum \in Int /\ min \in Int /\ max \in Int
  BY <1>1 DEF TypeOK, SAMPLES_IN_BUFFER
<1>4. /\ r \in Int /\ -4096 <= r /\ r <= 4095
      /\ x \in Int /\ -4096 <= x /\ x <= 4095
      /\ lo \in Int /\ hi \in Int
  BY <1>3, SampleRange
<1>5. i # k => lo <= r /\ r <= hi
  BY <1>1, <1>4 DEF Steady, SAMPLES_IN_BUFFER
<1> HIDE DEF r, x
<1>6. CASE steady = 0
  <2>1. /\ total = 0
        /\ min = IF seen THEN x ELSE 32767
        /\ max = IF seen /\ x > 0 THEN x ELSE 0
    BY <1>6 DEF SteadySoFar, x
  <2>2. CASE i = k
    <3>1. i = 0 /\ k = 0 /\ r = x
      BY <1>1, <1>3, <1>6, <2>2 DEF r, x
    <3> QED
      BY <3>1, <2>1, <1>1, <1>3, <1>4 DEF SteadySoFar, x
  <2>3. CASE i # k
    <3>1. \E a, b \in Samples :
             /\ lo <= a /\ a <= b /\ b <= hi
             /\ (IF i' > k THEN sum' - x ELSE sum') = a /\ a = b
             /\ min' = IF i' > k /\ x < a THEN x ELSE a
             /\ max' = IF i' > k /\ x > b THEN x ELSE b
      <4>1. /\ (IF i' > k THEN sum' - x ELSE sum') = r
            /\ min' = IF i' > k /\ x < r THEN x ELSE r
            /\ max' = IF i' > k /\ x > r THEN x ELSE r
        BY <2>1, <2>3, <1>1, <1>3, <1>4, <1>5, <1>6
      <4> QED
        BY <4>1, <2>3, <1>3, <1>4, <1>5
    <3>2. (IF i' > k THEN i' - 1 ELSE i') = 1
      BY <1>1, <1>3, <1>6, <2>3
    <3> QED
      BY <3>1, <3>2, <1>1 DEF SteadySoFar, x
  <2> QED
    BY <2>2, <2>3
<1>7. CASE steady # 0
  <2>1. PICK a \in Samples, b \in Samples :
             /\ lo <= a /\ a <= b /\ b <= hi
             /\ IF steady = 1 THEN total = a /\ a = b
                              ELSE Between(total - a - b, steady - 2, lo, hi)
             /\ min = IF seen /\ x < a THEN x ELSE a
             /\ max = IF seen /\ x > b THEN x ELSE b
    BY <1>7 DEF SteadySoFar, x
  <2>2. a \in Int /\ b \in Int /\ total \in Int /\ steady \in 1..6
    BY <1>1, <1>3, <1>4, <1>7, SampleRange
  <2>3. CASE i = k
    <3>1. r = x /\ ~seen /\ i' > k /\ sum' - x = total /\ i' - 1 = steady
      BY <2>3, <1>1, <1>3, <1>4 DEF r, x
    <3>2. /\ min' = IF x < a THEN x ELSE a
          /\ max' = IF x > b THEN x ELSE b
      BY <3>1, <2>1, <2>2, <1>1, <1>4
    <3> HIDE DEF total, steady
    <3> QED
      BY <3>1, <3>2, <2>1, <1>1, <1>7 DEF SteadySoFar, x
  <2>4. CASE i # k
    <3> DEFINE aa == IF r < a THEN r ELSE a
               bb == IF r > b THEN r ELSE b
    <3>1. /\ aa \in Samples /\ bb \in Samples
          /\ lo <= aa /\ aa <= bb /\ bb <= hi
      BY <2>1, <2>2, <2>4, <1>3, <1>4, <1>5
    <3>2. /\ (i' > k) = seen
          /\ (IF i' > k THEN sum' - x ELSE sum') = total + r
          /\ (IF i' > k THEN i' - 1 ELSE i') = steady + 1
      BY <2>4, <1>1, <1>3, <1>4
    <3>3. /\ min' = IF seen /\ x < aa THEN x ELSE aa
          /\ max' = IF seen /\ x > bb THEN x ELSE bb
      BY <2>1, <2>2, <1>1, <1>3, <1>4
    <3>4. Between(total + r - aa - bb, steady - 1, lo, hi)
      <4>1. CASE steady = 1
        BY <4>1, <2>1, <2>2, <1>4 DEF Between
      <4>2. CASE steady # 1
        <5> DEFINE v == total - a - b
                   w == total + r - aa - bb
                   d == w - v
                   n == steady - 2
                   m == steady - 1
        <5>1. Between(v, n, lo, hi)
          BY <4>2, <2>1
        <5>2. lo <= d /\ d <= hi
          BY <2>1, <2>2, <2>4, <1>4, <1>5
        <5>3. v \in Int /\ w \in Int /\ d \in Int /\ n \in Int /\ m \in Int
          BY <2>2, <1>4
        <5>4. w = v + d /\ m = n + 1
          BY <2>2, <1>4
        <5> HIDE DEF v, w, d, n, m
        <5>5. Between(w, m, lo, hi)
          <6>1. n * lo \in Int /\ n * hi \in Int
            BY <5>3, <1>4
          <6>2. (n + 1) * lo = n * lo + lo /\ (n + 1) * hi = n * hi + hi
            BY <5>3, <1>4
          <6>3. m * lo = n * lo + lo /\ m * hi = n * hi + hi
            BY <6>2, <5>4
          <6>4. n * lo <= v /\ v <= n * hi
            BY <5>1 DEF Between
          <6>5. n * lo + lo <= w /\ w <= n * hi + hi
            BY <6>1, <6>4, <5>2, <5>3, <5>4, <1>4
          <6> QED
            BY <6>3, <6>5 DEF Between
        <5> QED
          BY <5>5 DEF w, m
      <4> QED
        BY <4>1, <4>2
    <3> HIDE DEF aa, bb, total, steady, seen
    <3> DEFINE tt == IF i' > k THEN sum' - x ELSE sum'
               nn == IF i' > k THEN i' - 1 ELSE i'
    <3>5. tt = total + r /\ nn = steady + 1
      BY <3>2
    <3> HIDE DEF tt, nn
    <3>6. nn - 2 = steady - 1 /\ nn # 0 /\ nn # 1
      BY <3>5, <2>2
    <3>7. Between(tt - aa - bb, nn - 2, lo, hi)
      <4>0. total \in Int /\ r \in Int /\ aa \in Int /\ bb \in Int
        BY <2>2, <1>4, <3>1, SampleRange
      <4>1. tt - aa - bb = total + r - aa - bb
        BY <3>5, <4>0
      <4> QED
        BY <3>4, <3>6, <4>1 DEF Between
    <3>8. /\ min' = IF i' > k /\ x < aa THEN x ELSE aa
          /\ max' = IF i' > k /\ x > bb THEN x ELSE bb
      BY <3>2, <3>3
    <3>9. \E c, d \in Samples :
            /\ lo <= c /\ c <= d /\ d <= hi
            /\ Between(tt - c - d, nn - 2, lo, hi)
            /\ min' = IF i' > k /\ x < c THEN x ELSE c
            /\ max' = IF i' > k /\ x > d THEN x ELSE d
      BY <3>1, <3>7, <3>8, Zenon
    <3> QED
      BY <3>6, <3>9, <1>1 DEF SteadySoFar, x, tt, nn
  <2> QED
    BY <2>3, <2>4
<1> QED
  BY <1>6, <1>7

\* After the seven samples, the five that are left lie between lo and hi.
LEMMA MiddleFive ==
  ASSUME TypeOK, i = SAMPLES_IN_BUFFER,
         NEW k \in 0..SAMPLES_IN_BUFFER - 1, NEW lo \in Samples, NEW hi \in Samples,
         lo >= 0, SteadySoFar(k, lo, hi)
  PROVE  Between(sum - (max + min), 5, lo, hi)
<1> DEFINE x == p_buffer[k]
<1>2. k \in 0..6 /\ i = 7 /\ sum \in Int /\ x \in Samples
  BY DEF TypeOK, SAMPLES_IN_BUFFER
<1>3. x \in Int /\ lo \in Int /\ hi \in Int
  BY <1>2, SampleRange
<1> HIDE DEF x
<1>4. PICK a \in Samples, b \in Samples :
         /\ lo <= a /\ a <= b /\ b <= hi
         /\ Between(sum - x - a - b, 4, lo, hi)
         /\ min = IF x < a THEN x ELSE a
         /\ max = IF x > b THEN x ELSE b
  BY <1>2 DEF SteadySoFar, x
<1>5. a \in Int /\ b \in Int
  BY SampleRange
<1> QED
  BY <1>2, <1>3, <1>4, <1>5 DEF Between

LEMMA AverageStep == AverageInv /\ [Next]_saadcVars => AverageInv'
<1> SUFFICES ASSUME AverageInv, [Next]_saadcVars PROVE AverageInv'
  OBVIOUS
<1>0. TypeOK /\ SumFits
  BY DEF AverageInv
<1>1. CASE Sample
  <2>1. /\ i \in 0..6 /\ i' = i + 1 /\ sum' = sum + p_buffer[i]
        /\ max' = (IF p_buffer[i] > max THEN p_buffer[i] ELSE max)
        /\ min' = (IF p_buffer[i] < min THEN p_buffer[i] ELSE min)
        /\ p_buffer' = p_buffer /\ at = "loop" /\ at' = at
        /\ adc_reading_aved' = adc_reading_aved
    BY <1>0, <1>1 DEF Sample, TypeOK, SAMPLES_IN_BUFFER
  <2>2. p_buffer[i] \in Int /\ -4096 <= p_buffer[i] /\ p_buffer[i] <= 4095
    <3>1. p_buffer[i] \in Samples
      BY <1>0, <2>1 DEF TypeOK, SAMPLES_IN_BUFFER
    <3> QED
      BY <3>1, SampleRange
  <2>3. SumFits' /\ sum' \in Int /\ -32768 <= sum' /\ sum' <= 32767
    <3>1. sum \in Int /\ -(4096 * i) <= sum /\ sum <= 4095 * i
      BY <1>0 DEF TypeOK, SumFits
    <3>2. sum' \in Int /\ -(4096 * i') <= sum' /\ sum' <= 4095 * i'
      BY <3>1, <2>1, <2>2
    <3> QED
      BY <3>2, <2>1 DEF SumFits
  <2>5. TypeOK'
    <3>1. /\ p_buffer \in [0..SAMPLES_IN_BUFFER - 1 -> Samples]
          /\ min \in Int /\ max \in Int /\ adc_reading_aved \in Int
      BY <1>0 DEF TypeOK
    <3>2. min' \in Int /\ max' \in Int
      BY <3>1, <2>1, <2>2
    <3>3. i' \in 0..SAMPLES_IN_BUFFER
      BY <2>1 DEF SAMPLES_IN_BUFFER
    <3>4. (p_buffer \in [0..SAMPLES_IN_BUFFER - 1 -> Samples])'
      BY <3>1, <2>1 DEF SAMPLES_IN_BUFFER
    <3> QED
      BY <3>1, <3>2, <3>3, <3>4, <2>1, <2>3 DEF TypeOK
  <2>6. ASSUME NEW k \in 0..SAMPLES_IN_BUFFER - 1, NEW lo \in Samples, NEW hi \in Samples,
               lo >= 0, Steady(k, lo, hi)'
        PROVE  SteadySoFar(k, lo, hi)'
    <3>1. Steady(k, lo, hi)
      BY <2>1, <2>6 DEF Steady
    <3>2. SteadySoFar(k, lo, hi)
      BY <2>1, <2>6, <3>1 DEF AverageInv
    <3> QED
      BY <1>0, <1>1, <2>6, <3>1, <3>2, SampleStep
  <2> QED
    BY <2>1, <2>3, <2>5, <2>6 DEF AverageInv
<1>2. CASE Averaged
  <2>1. /\ at = "loop" /\ at' = "done" /\ i = SAMPLES_IN_BUFFER
        /\ adc_reading_aved' = Average(sum, min, max)
        /\ p_buffer' = p_buffer /\ i' = i /\ sum' = sum /\ min' = min /\ max' = max
    BY <1>2 DEF Averaged
  <2>2. sum \in Int /\ min \in Int /\ max \in Int
    BY <1>0 DEF TypeOK
  <2>3. TypeOK'
    <3>1. adc_reading_aved' \in Int
      BY <2>1, <2>2, AverageIsInt
    <3> QED
      BY <3>1, <1>0, <2>1 DEF TypeOK, SAMPLES_IN_BUFFER
  <2>4. SumFits'
    BY <1>0, <2>1 DEF SumFits
  <2>5. ASSUME NEW k \in 0..SAMPLES_IN_BUFFER - 1, NEW lo \in Samples, NEW hi \in Samples,
               lo >= 0, Steady(k, lo, hi)'
        PROVE  adc_reading_aved' \in lo..hi
    <3>1. Steady(k, lo, hi)
      BY <2>1, <2>5 DEF Steady
    <3>2. SteadySoFar(k, lo, hi)
      BY <2>1, <2>5, <3>1 DEF AverageInv
    <3>3. Between(sum - (max + min), 5, lo, hi)
      BY <1>0, <2>1, <2>5, <3>2, MiddleFive
    <3>4. lo \in Nat /\ hi \in Int
      BY <2>5, ResolutionAssumption
    <3> QED
      BY <3>3, <3>4, <2>1, <2>2, MeanOfFive
  <2> QED
    BY <2>1, <2>3, <2>4, <2>5 DEF AverageInv
<1>3. CASE UNCHANGED saadcVars
  <2>1. /\ p_buffer' = p_buffer /\ i' = i /\ sum' = sum /\ min' = min /\ max' = max
        /\ adc_reading_aved' = adc_reading_aved /\ at' = at
    BY <1>3 DEF saadcVars
  <2>2. TypeOK' /\ SumFits'
    BY <1>0, <2>1 DEF TypeOK, SumFits, SAMPLES_IN_BUFFER
  <2>3. ASSUME NEW k \in 0..SAMPLES_IN_BUFFER - 1, NEW lo \in Samples, NEW hi \in Samples,
               lo >= 0, Steady(k, lo, hi)'
        PROVE  IF at' = "loop" THEN SteadySoFar(k, lo, hi)' ELSE adc_reading_aved' \in lo..hi
    <3>1. Steady(k, lo, hi)
      BY <2>1, <2>3 DEF Steady
    <3>2. IF at = "loop" THEN SteadySoFar(k, lo, hi) ELSE adc_reading_aved \in lo..hi
      BY <2>3, <3>1 DEF AverageInv
    <3>3. SteadySoFar(k, lo, hi)' = SteadySoFar(k, lo, hi)
      BY <2>1 DEF SteadySoFar
    <3> QED
      BY <2>1, <3>2, <3>3
  <2> QED
    BY <2>2, <2>3 DEF AverageInv
<1> QED
  BY <1>1, <1>2, <1>3 DEF Next

\* The inductive invariant; the sum stays within an int16_t.
THEOREM AverageInvariant == Spec => []AverageInv
  BY AverageInit, AverageStep, PTL DEF Spec

\* With all samples but one between lo and hi, so is the reading that decides
\* about the LEDs and about turning off (sadcmain.c:187-197).
THEOREM SpikeIsHarmless == Spec => []OneSpikeIsHarmless
<1>1. AverageInv => OneSpikeIsHarmless
  BY DEF AverageInv, OneSpikeIsHarmless
<1> QED
  BY <1>1, AverageInvariant, PTL

=============================================================================

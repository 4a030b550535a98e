-------------------------- MODULE PedalMain_proofs --------------------------
(***************************************************************************)
(* First the window.  For every window size and every step that fits the   *)
(* int16_t, the sum that posbuf_add keeps is the travel over the window.   *)
(* Two facts carry the proof: the evicted slot is the oldest one, so that  *)
(* subtracting it shortens the span by exactly one report; and no span of  *)
(* a window can leave the int16_t, so that the conversion changes nothing. *)
(*                                                                         *)
(* Then the invariants of PedalMain for every window, threshold, counter   *)
(* width and bound.  The report interrupt is a posbuf_add, so that the     *)
(* window's invariant carries over; the rest is one step per action of the *)
(* loop and of the interrupts that preempt it.                             *)
(***************************************************************************)
EXTENDS PedalMain, TLAPS


\* The conversion to int16_t is the identity on the values of an int16_t.
LEMMA Int16Identity ==
  ASSUME NEW x \in -HalfWord .. HalfWord-1
  PROVE  Int16(x) = x
BY WindowAssumption DEF Int16

\* Products of a span and a step are ordered like the spans.
LEMMA SpanMonotone ==
  ASSUME NEW i \in 0..WinSize
  PROVE  /\ i * MaxStep \in Int
         /\ i * MaxStep <= WinSize * MaxStep
BY WindowAssumption

\* posbuf_init establishes the invariant: an empty ring, no travel.
LEMMA WindowInit == posbuf_init => WindowInv
BY WindowAssumption
   DEF posbuf_init, win_w_init, WindowInv, WindowTypeOK, RingHoldsReports,
       TravelBounded, SumIsTravel, Slots, Age, Promise!NoTravel, Promise!Steps

\* One posbuf_add preserves the invariant.
LEMMA WindowStep ==
  ASSUME WindowInv, NEW obj \in Promise!Steps, posbuf_add(obj)
  PROVE  WindowInv'
<1> USE WindowAssumption
<1> DEFINE W == WinSize
<1>1. /\ buf' = [buf EXCEPT ![index] = obj]
      /\ index' = IF index + 1 >= W THEN 0 ELSE index + 1
      /\ travel' = [i \in 0..W |-> IF i = 0 THEN 0 ELSE travel[i-1] + obj]
  BY DEF posbuf_add, win_w_add, Promise!Extend
<1>2. WindowTypeOK /\ travel[0] = 0 /\ RingHoldsReports /\ TravelBounded /\ SumIsTravel
  BY DEF WindowInv
<1>3. obj \in Int /\ -MaxStep <= obj /\ obj <= MaxStep
  BY DEF Promise!Steps
<1>4. index' \in Slots
  BY <1>1, <1>2 DEF WindowTypeOK, Slots
<1>5. travel' \in [0..W -> Int] /\ travel'[0] = 0
  BY <1>1, <1>2, <1>3 DEF WindowTypeOK
<1>6. \A i \in 1..W : travel'[i] = travel[i-1] + obj
  BY <1>1
<1>7. Evicted = travel[W] - travel[W-1]
  <2>1. index \in Slots /\ Age(index) = W
    BY <1>2 DEF WindowTypeOK, Slots, Age
  <2> QED BY <2>1, <1>2 DEF RingHoldsReports, Evicted
<1>8. TravelBounded'
  <2> SUFFICES ASSUME NEW i \in 0..W
               PROVE  -(i * MaxStep) <= travel'[i] /\ travel'[i] <= i * MaxStep
    BY DEF TravelBounded
  <2>1. CASE i = 0
    BY <2>1, <1>5
  <2>2. CASE i # 0
    <3>1. i-1 \in 0..W /\ i \in 1..W
      BY <2>2
    <3>2. -((i-1) * MaxStep) <= travel[i-1] /\ travel[i-1] <= (i-1) * MaxStep
      BY <3>1, <1>2 DEF TravelBounded
    <3>3. travel'[i] = travel[i-1] + obj /\ travel[i-1] \in Int
      BY <3>1, <1>6, <1>2 DEF WindowTypeOK
    <3>4. i * MaxStep = (i-1) * MaxStep + MaxStep /\ (i-1) * MaxStep \in Int
      OBVIOUS
    <3> QED BY <3>2, <3>3, <3>4, <1>3
  <2> QED BY <2>1, <2>2
<1>9. SumIsTravel' /\ sum' \in -HalfWord .. HalfWord-1
  <2>1. travel[W] \in Int /\ travel[W-1] \in Int
    BY <1>2 DEF WindowTypeOK
  <2>2. sum + obj - Evicted = travel[W-1] + obj
    BY <2>1, <1>2, <1>3, <1>7 DEF SumIsTravel
  <2>3. travel'[W] = travel[W-1] + obj
    BY <1>6
  <2>4. travel'[W] \in -HalfWord .. HalfWord-1
    <3>1. -(W * MaxStep) <= travel'[W] /\ travel'[W] <= W * MaxStep
      BY <1>8 DEF TravelBounded
    <3>2. travel'[W] \in Int /\ W * MaxStep \in Int
      BY <1>5
    <3> QED BY <3>1, <3>2
  <2>5. sum' = Int16(travel'[W])
    BY <2>2, <2>3 DEF posbuf_add
  <2>6. sum' = travel'[W]
    BY <2>4, <2>5, Int16Identity
  <2> QED BY <2>4, <2>6 DEF SumIsTravel
<1>10. RingHoldsReports'
  <2> SUFFICES ASSUME NEW k \in Slots
               PROVE  buf'[k] = travel'[Age(k)'] - travel'[Age(k)' - 1]
    BY DEF RingHoldsReports
  <2>1. index \in Slots /\ buf \in [Slots -> Promise!Steps] /\ travel \in [0..W -> Int]
    BY <1>2 DEF WindowTypeOK
  <2>2. CASE k = index
    <3>1. Age(k)' = 1
      BY <2>1, <2>2, <1>1 DEF Slots, Age
    <3>2. travel'[1] = obj /\ travel'[0] = 0
      BY <1>2, <1>3, <1>5, <1>6
    <3>3. buf'[k] = obj
      BY <1>1, <2>1, <2>2
    <3> QED BY <3>1, <3>2, <3>3, <1>3
  <2>3. CASE k # index
    <3>1. Age(k)' = Age(k) + 1 /\ Age(k) \in 1..(W-1)
      BY <2>1, <2>3, <1>1 DEF Slots, Age
    <3>2. buf'[k] = buf[k]
      BY <1>1, <2>1, <2>3
    <3>3. buf[k] = travel[Age(k)] - travel[Age(k) - 1]
      BY <1>2 DEF RingHoldsReports
    <3>4. /\ travel'[Age(k) + 1] = travel[Age(k)] + obj
          /\ travel'[Age(k)] = travel[Age(k) - 1] + obj
          /\ travel[Age(k)] \in Int /\ travel[Age(k) - 1] \in Int
      BY <3>1, <1>6, <2>1
    <3> QED BY <3>1, <3>2, <3>3, <3>4, <1>3
  <2> QED BY <2>2, <2>3
<1>11. buf' \in [Slots -> Promise!Steps]
  BY <1>1, <1>2 DEF WindowTypeOK
<1> QED BY <1>4, <1>5, <1>8, <1>9, <1>10, <1>11 DEF WindowInv, WindowTypeOK

\* The invariant holds in every state of the window, for every size of it.
THEOREM WindowInvariant == WindowSpec => []WindowInv
<1>1. posbuf_init => WindowInv
  BY WindowInit
<1>2. WindowInv /\ [WindowNext]_windowVars => WindowInv'
  <2>1. ASSUME WindowInv, WindowNext PROVE WindowInv'
    BY <2>1, WindowStep DEF WindowNext
  <2>2. ASSUME WindowInv, UNCHANGED windowVars PROVE WindowInv'
    BY <2>2 DEF windowVars, WindowInv, WindowTypeOK, RingHoldsReports,
                TravelBounded, SumIsTravel, Age
  <2> QED BY <2>1, <2>2
<1> QED BY <1>1, <1>2, PTL DEF WindowSpec

\* Types of the window (winbuf.c, posbuf.c).
THEOREM WindowTypes == WindowSpec => []WindowTypeOK
<1>1. WindowInv => WindowTypeOK
  BY DEF WindowInv
<1> QED BY <1>1, WindowInvariant, PTL

\* The sum posbuf_add returns is always the travel over the window.
THEOREM WindowSumCorrect == WindowSpec => []SumIsTravel
<1>1. WindowInv => SumIsTravel
  BY DEF WindowInv
<1> QED BY <1>1, WindowInvariant, PTL

\* The ring and its incremental sum implement the window's promise.
THEOREM WindowRefinesTravel == WindowSpec => ImplementsTravel
<1>1. posbuf_init => Promise!Init
  BY DEF posbuf_init, Promise!Init
<1>2. WindowInv /\ WindowInv' /\ [WindowNext]_windowVars => [Promise!Next]_(Promise!vars)
  <2>1. ASSUME WindowInv', NEW obj \in Promise!Steps, posbuf_add(obj)
        PROVE  Promise!Next
    BY <2>1 DEF posbuf_add, WindowInv, SumIsTravel, Promise!Next, Promise!Report
  <2>2. ASSUME UNCHANGED windowVars PROVE UNCHANGED Promise!vars
    BY <2>2 DEF windowVars, Promise!vars
  <2> QED BY <2>1, <2>2 DEF WindowNext
<1> QED BY <1>1, <1>2, WindowInvariant, PTL
        DEF WindowSpec, ImplementsTravel, Promise!Spec

-----------------------------------------------------------------------------

\* Init establishes the inductive invariant.
LEMMA PedalInit == Init => PedalCore
<1> SUFFICES ASSUME Init PROVE PedalCore
  OBVIOUS
<1>1. WindowInv
  BY WindowInit DEF Init
<1>2. PedalTypeOK
  <2>1. WindowTypeOK
    BY <1>1 DEF WindowInv
  <2>2. qdec \in [raw_pos : Promise!Steps, win_pos : -HalfWord .. HalfWord-1]
    BY WindowAssumption DEF Init, Promise!Steps
  <2>3. pedaling_count \in 0 .. CountMod-1 /\ duration_no_qdec_event \in 0 .. MaxIdle
    BY PedalAssumption DEF Init
  <2>4. seen \in [reports : Nat, streak : 0 .. KeepCount + 1, logged : Nat,
                 logs : Nat, quiet : 0 .. MaxIdle]
    BY PedalAssumption DEF Init
  <2> QED BY <2>1, <2>2, <2>3, <2>4 DEF Init, PedalTypeOK
<1>3. NoReportLoggedTwice /\ OneLogPerTick /\ NoFalseIdle
  BY DEF Init, NoReportLoggedTwice, OneLogPerTick, NoFalseIdle
<1> QED BY <1>1, <1>2, <1>3, PedalAssumption DEF Init, PedalCore

\* A report of the encoder preserves it, wherever it falls in the loop.
LEMMA ReportStep ==
  ASSUME PedalCore, NEW acc \in Promise!Steps, qdec_event_handler(acc)
  PROVE  PedalCore'
<1> USE PedalAssumption, WindowAssumption
<1>1. WindowInv'
  BY WindowStep DEF PedalCore, qdec_event_handler
<1>2. PedalTypeOK
  BY DEF PedalCore
<1>3. sum' \in -HalfWord .. HalfWord-1 /\ sum' \in Int /\ WindowTypeOK'
  BY <1>1 DEF WindowInv, WindowTypeOK
<1>4. /\ pedaling_count' = IF sum' > PedalLevel
                           THEN (pedaling_count + 1) % CountMod ELSE 0
      /\ seen' = [seen EXCEPT !.reports = @ + 1, !.quiet = 0,
                              !.streak = IF sum' > PedalLevel
                                         THEN Capped(@, KeepCount + 1) ELSE 0]
  BY DEF qdec_event_handler, CountPedaling
<1>5. /\ seen.streak \in 0 .. KeepCount + 1
      /\ seen'.streak = IF sum' > PedalLevel
                        THEN Capped(seen.streak, KeepCount + 1) ELSE 0
      /\ seen'.reports = seen.reports + 1 /\ seen'.quiet = 0
      /\ seen'.logged = seen.logged /\ seen'.logs = seen.logs
  BY <1>2, <1>4 DEF PedalTypeOK
<1>6. pedaling_count' \in 0 .. CountMod-1
  BY <1>2, <1>4 DEF PedalTypeOK
<1>7. PedalTypeOK'
  <2>1. qdec' \in [raw_pos : Promise!Steps, win_pos : -HalfWord .. HalfWord-1]
    BY <1>3 DEF qdec_event_handler
  <2>2. seen' \in [reports : Nat, streak : 0 .. KeepCount + 1, logged : Nat,
                  logs : Nat, quiet : 0 .. MaxIdle]
    <3> DEFINE streak == IF sum' > PedalLevel
                         THEN Capped(seen.streak, KeepCount + 1) ELSE 0
    <3>1. streak \in 0 .. KeepCount + 1
      BY <1>5 DEF Capped
    <3>2. seen' = [seen EXCEPT !.reports = seen.reports + 1, !.quiet = 0, !.streak = streak]
      BY <1>4
    <3>3. seen \in [reports : Nat, streak : 0 .. KeepCount + 1, logged : Nat,
                   logs : Nat, quiet : 0 .. MaxIdle]
      BY <1>2 DEF PedalTypeOK
    <3>4. seen.reports + 1 \in Nat /\ 0 \in 0 .. MaxIdle
      BY <3>3
    <3> QED BY ONLY <3>1, <3>2, <3>3, <3>4
  <2>3. /\ qdec_event' \in Nat /\ qdec_report_count' \in Nat
        /\ general_tick_count' \in Nat /\ duration_no_qdec_event' \in 0 .. MaxIdle
    BY <1>2 DEF PedalTypeOK, qdec_event_handler, loopVars
  <2>4. tick_pending' \in BOOLEAN /\ wake' \in BOOLEAN /\ pc' = pc
    BY <1>2 DEF PedalTypeOK, qdec_event_handler, loopVars
  <2> QED BY <2>1, <2>2, <2>3, <2>4, <1>2, <1>3, <1>6 DEF PedalTypeOK
<1>8. /\ (pedaling_count' > seen'.streak => seen'.streak > KeepCount)
      /\ (pedaling_count' > 0 => sum' > PedalLevel)
  <2>1. pedaling_count' = 0 \/ (sum' > PedalLevel /\ pedaling_count' = pedaling_count + 1)
    BY <1>2, <1>4 DEF PedalTypeOK
  <2>2. pedaling_count \in Nat /\ (pedaling_count > seen.streak => seen.streak > KeepCount)
    BY <1>2 DEF PedalCore, PedalTypeOK
  <2> QED BY <2>1, <2>2, <1>5 DEF Capped
<1>9. NoReportLoggedTwice' /\ OneLogPerTick' /\ NoFalseIdle'
  BY <1>2, <1>5 DEF PedalCore, PedalTypeOK, qdec_event_handler, loopVars,
              NoReportLoggedTwice, OneLogPerTick, NoFalseIdle
<1>10. (pc = "log" => tick_pending)' /\ (pc = "taken" => duration_no_qdec_event = 0)'
  BY DEF PedalCore, qdec_event_handler, loopVars
<1> QED BY <1>1, <1>7, <1>8, <1>9, <1>10 DEF PedalCore

\* Steps that leave the encoder side alone keep its part of the invariant.
LEMMA QdecKept ==
  ASSUME PedalCore, UNCHANGED qdecVars,
         seen'.streak = seen.streak
  PROVE  /\ WindowInv'
         /\ (pedaling_count > seen.streak => seen.streak > KeepCount)'
         /\ (pedaling_count > 0 => sum > PedalLevel)'
<1>1. WindowInv'
  BY DEF PedalCore, qdecVars, windowVars, WindowInv, WindowTypeOK,
         RingHoldsReports, TravelBounded, SumIsTravel, Age
<1> QED BY <1>1 DEF PedalCore, qdecVars, windowVars

\* The timer interrupt and the others preserve the invariant anywhere in the
\* loop: a tick raises the bound on the logs together with the flag.
LEMMA InterruptStep ==
  ASSUME PedalCore, general_timer_timeout_handler \/ OtherInterrupt
  PROVE  PedalCore'
<1>1. UNCHANGED <<qdecVars, qdec_event, qdec_report_count, loopVars, seen>>
  BY DEF general_timer_timeout_handler, OtherInterrupt
<1>2. /\ general_tick_count \in Nat /\ tick_pending \in BOOLEAN /\ wake' = TRUE
      /\ \/ general_tick_count' = general_tick_count + 1 /\ tick_pending' = TRUE
         \/ UNCHANGED <<general_tick_count, tick_pending>>
  BY DEF general_timer_timeout_handler, OtherInterrupt, PedalCore, PedalTypeOK
<1>3. PedalTypeOK'
  <2>1. WindowTypeOK'
    BY <1>1 DEF PedalCore, PedalTypeOK, qdecVars, windowVars, WindowTypeOK
  <2>2. general_tick_count' \in Nat
    BY <1>2
  <2>3. tick_pending' \in BOOLEAN /\ wake' \in BOOLEAN
    BY Zenon, <1>2
  <2>4. UNCHANGED <<qdec, pedaling_count, qdec_event, qdec_report_count, pc,
                    duration_no_qdec_event, seen>>
    BY <1>1 DEF qdecVars, loopVars
  <2> QED BY <2>1, <2>2, <2>3, <2>4 DEF PedalCore, PedalTypeOK
<1>4. NoReportLoggedTwice' /\ NoFalseIdle'
  BY <1>1 DEF PedalCore, NoReportLoggedTwice, NoFalseIdle, loopVars
<1>5. OneLogPerTick'
  BY <1>1, <1>2 DEF PedalCore, PedalTypeOK, OneLogPerTick, loopVars
<1>6. (pc = "log" => tick_pending)' /\ (pc = "taken" => duration_no_qdec_event = 0)'
  BY <1>1, <1>2 DEF PedalCore, loopVars
<1> QED BY <1>1, <1>3, <1>4, <1>5, <1>6, QdecKept DEF PedalCore

\* Every statement of the loop preserves the invariant.
LEMMA LoopStep ==
  ASSUME PedalCore, Loop
  PROVE  PedalCore'
<1> USE PedalAssumption
<1>1. PedalTypeOK /\ WindowTypeOK
  BY DEF PedalCore, PedalTypeOK
<1>2. UNCHANGED qdecVars /\ UNCHANGED general_tick_count
  BY DEF Loop, TestReport, LogReport, ResetCount, TestClear, Clear1000msPending,
         TestEvent, CountIdle, ResetIdle, qdec_event_clear, idle_state_handle, At
<1>3. WindowTypeOK' /\ UNCHANGED <<qdec, pedaling_count>>
  BY <1>1, <1>2 DEF qdecVars, windowVars, WindowTypeOK
<1> DEFINE Plain == UNCHANGED <<qdec_event, qdec_report_count, tick_pending,
                                duration_no_qdec_event, seen>>
           Typed == PedalTypeOK' /\ seen'.streak = seen.streak
           Kept == /\ NoReportLoggedTwice' /\ OneLogPerTick' /\ NoFalseIdle'
                   /\ (pc = "log" => tick_pending)'
                   /\ (pc = "taken" => duration_no_qdec_event = 0)'
<1>4. CASE TestReport \/ TestClear \/ TestEvent \/ idle_state_handle
  <2>1. Plain /\ wake' \in BOOLEAN
    BY <1>1, <1>4 DEF TestReport, TestClear, TestEvent, idle_state_handle, PedalTypeOK
  <2>2. \/ pc = "report?" /\ pc' = "log" /\ tick_pending
        \/ pc = "report?" /\ pc' = "clear?" /\ ~tick_pending
        \/ pc = "clear?" /\ pc' = "clear"
        \/ pc = "clear?" /\ pc' = "event?" /\ ~tick_pending
        \/ pc = "event?" /\ pc' \in {"idle", "active"}
        \/ pc = "sleep" /\ pc' = "report?"
    BY <1>4 DEF TestReport, TestClear, TestEvent, idle_state_handle, At
  <2>3. Typed
    BY <2>1, <2>2, <1>1, <1>2, <1>3 DEF PedalTypeOK
  <2>4. Kept
    BY <2>1, <2>2, <1>1, <1>2
       DEF PedalCore, PedalTypeOK, NoReportLoggedTwice, OneLogPerTick, NoFalseIdle
  <2> QED BY <2>3, <2>4, <1>2, QdecKept DEF PedalCore
<1>5. CASE LogReport
  <2>1. /\ pc = "log" /\ pc' = "reset"
        /\ UNCHANGED <<qdec_event, qdec_report_count, tick_pending,
                       duration_no_qdec_event, wake>>
    BY <1>5 DEF LogReport, At
  <2>2. /\ seen' = [seen EXCEPT !.logged = seen.logged + qdec_report_count,
                               !.logs = seen.logs + 1]
        /\ seen.logged + qdec_report_count \in Nat /\ seen.logs + 1 \in Nat
    BY <1>1, <1>5 DEF LogReport, PedalTypeOK
  <2>3. /\ seen'.streak = seen.streak /\ seen'.reports = seen.reports
        /\ seen'.quiet = seen.quiet /\ seen'.logs = seen.logs + 1
        /\ seen'.logged = seen.logged + qdec_report_count
    BY <1>1, <2>2 DEF PedalTypeOK
  <2>4. Typed
    BY <2>1, <2>2, <2>3, <1>1, <1>2, <1>3 DEF PedalTypeOK
  <2>5. Kept
    BY <2>1, <2>3, <1>1, <1>2
       DEF PedalCore, PedalTypeOK, NoReportLoggedTwice, OneLogPerTick, NoFalseIdle
  <2> QED BY <2>4, <2>5, <1>2, QdecKept DEF PedalCore
<1>6. CASE ResetCount
  <2>1. /\ pc = "reset" /\ pc' = "clear?" /\ qdec_report_count' = 0
        /\ UNCHANGED <<qdec_event, tick_pending, duration_no_qdec_event, wake, seen>>
    BY <1>6 DEF ResetCount, At
  <2>2. Typed
    BY <2>1, <1>1, <1>2, <1>3 DEF PedalTypeOK
  <2>3. Kept
    BY <2>1, <1>1, <1>2
       DEF PedalCore, PedalTypeOK, NoReportLoggedTwice, OneLogPerTick, NoFalseIdle
  <2> QED BY <2>2, <2>3, <1>2, QdecKept DEF PedalCore
<1>7. CASE Clear1000msPending
  <2>1. /\ pc = "clear" /\ pc' = "event?" /\ tick_pending' = FALSE
        /\ UNCHANGED <<qdec_event, qdec_report_count, duration_no_qdec_event, wake, seen>>
    BY <1>7 DEF Clear1000msPending, At
  <2>2. Typed
    BY <2>1, <1>1, <1>2, <1>3 DEF PedalTypeOK
  <2>3. Kept
    BY <2>1, <1>1, <1>2
       DEF PedalCore, PedalTypeOK, NoReportLoggedTwice, OneLogPerTick, NoFalseIdle
  <2> QED BY <2>2, <2>3, <1>2, QdecKept DEF PedalCore
<1>8. CASE CountIdle
  <2>1. /\ pc = "idle" /\ pc' = "sleep"
        /\ duration_no_qdec_event' = Capped(duration_no_qdec_event, MaxIdle)
        /\ UNCHANGED <<qdec_event, qdec_report_count, tick_pending, wake>>
    BY <1>8 DEF CountIdle, At
  <2>2. /\ seen' = [seen EXCEPT !.quiet = Capped(seen.quiet, MaxIdle)]
        /\ Capped(seen.quiet, MaxIdle) \in 0 .. MaxIdle
        /\ Capped(duration_no_qdec_event, MaxIdle) \in 0 .. MaxIdle
    BY <1>1, <1>8 DEF CountIdle, PedalTypeOK, Capped
  <2>3. /\ seen'.streak = seen.streak /\ seen'.reports = seen.reports
        /\ seen'.quiet = Capped(seen.quiet, MaxIdle) /\ seen'.logs = seen.logs
        /\ seen'.logged = seen.logged
    BY <1>1, <2>2 DEF PedalTypeOK
  <2>4. Typed
    BY <2>1, <2>2, <2>3, <1>1, <1>2, <1>3 DEF PedalTypeOK
  <2>5. duration_no_qdec_event <= seen.quiet =>
           Capped(duration_no_qdec_event, MaxIdle) <= Capped(seen.quiet, MaxIdle)
    BY <1>1 DEF PedalTypeOK, Capped
  <2>6. Kept
    BY <2>1, <2>3, <2>5, <1>1, <1>2
       DEF PedalCore, PedalTypeOK, NoReportLoggedTwice, OneLogPerTick, NoFalseIdle
  <2> QED BY <2>4, <2>6, <1>2, QdecKept DEF PedalCore
<1>9. CASE ResetIdle
  <2>1. /\ pc = "active" /\ pc' = "taken" /\ duration_no_qdec_event' = 0
        /\ UNCHANGED <<qdec_event, qdec_report_count, tick_pending, wake, seen>>
    BY <1>9 DEF ResetIdle, At
  <2>2. Typed
    BY <2>1, <1>1, <1>2, <1>3 DEF PedalTypeOK
  <2>3. Kept
    BY <2>1, <1>1, <1>2
       DEF PedalCore, PedalTypeOK, NoReportLoggedTwice, OneLogPerTick, NoFalseIdle
  <2> QED BY <2>2, <2>3, <1>2, QdecKept DEF PedalCore
<1>10. CASE qdec_event_clear
  <2>1. /\ pc = "taken" /\ pc' = "sleep" /\ qdec_event' = 0
        /\ UNCHANGED <<qdec_report_count, tick_pending, duration_no_qdec_event, wake, seen>>
    BY <1>10 DEF qdec_event_clear, At
  <2>2. Typed
    BY <2>1, <1>1, <1>2, <1>3 DEF PedalTypeOK
  <2>3. Kept
    BY <2>1, <1>1, <1>2
       DEF PedalCore, PedalTypeOK, NoReportLoggedTwice, OneLogPerTick, NoFalseIdle
  <2> QED BY <2>2, <2>3, <1>2, QdecKept DEF PedalCore
<1> QED BY <1>4, <1>5, <1>6, <1>7, <1>8, <1>9, <1>10 DEF Loop

\* Nothing the loop has still to do is left without a wake-up: only its own sleep
\* takes the wake-up away, and that leads back to the tests.
LEMMA WakeStep ==
  ASSUME PedalCore, NeverSleepsOnWork, [Next]_vars
  PROVE  NeverSleepsOnWork'
<1>1. CASE Next /\ ~Loop
  <2>1. UNCHANGED <<pc, tick_pending, qdec_event>> \/ wake'
    BY <1>1 DEF Next, qdec_event_handler, general_timer_timeout_handler, OtherInterrupt, loopVars
  <2>2. UNCHANGED wake \/ wake'
    BY <1>1 DEF Next, qdec_event_handler, general_timer_timeout_handler, OtherInterrupt
  <2> QED BY <2>1, <2>2 DEF NeverSleepsOnWork
<1>2. CASE TestReport \/ LogReport \/ ResetCount \/ TestClear \/ Clear1000msPending
  BY <1>2 DEF NeverSleepsOnWork, At, TestReport, LogReport, ResetCount, TestClear,
              Clear1000msPending
<1>3. CASE TestEvent \/ CountIdle \/ ResetIdle \/ qdec_event_clear
  BY <1>3 DEF NeverSleepsOnWork, At, TestEvent, CountIdle, ResetIdle, qdec_event_clear
<1>4. CASE idle_state_handle
  BY <1>4 DEF NeverSleepsOnWork, At, idle_state_handle
<1>5. CASE UNCHANGED vars
  BY <1>5 DEF NeverSleepsOnWork, vars, loopVars
<1> QED BY <1>1, <1>2, <1>3, <1>4, <1>5 DEF Loop

\* The inductive invariant holds in every reachable state, for every size of
\* the window, every threshold and every width of the counter.
THEOREM PedalInvariant == Spec => []PedalInv
<1>1. Init => PedalInv
  BY PedalInit DEF PedalInv, Init, NeverSleepsOnWork
<1>2. PedalCore /\ [Next]_vars => PedalCore'
  <2>1. ASSUME PedalCore, Next PROVE PedalCore'
    BY <2>1, ReportStep, InterruptStep, LoopStep DEF Next
  <2>2. ASSUME PedalCore, UNCHANGED vars PROVE PedalCore'
    <3>1. UNCHANGED <<qdecVars, windowVars, qdec, pedaling_count, qdec_event,
                      qdec_report_count, general_tick_count, tick_pending, pc,
                      duration_no_qdec_event, wake, seen>>
      BY <2>2 DEF vars, qdecVars, loopVars
    <3>2. PedalTypeOK'
      BY <2>2, <3>1, QdecKept DEF PedalCore, PedalTypeOK, WindowInv
    <3> QED BY <2>2, <3>1, <3>2, QdecKept
            DEF PedalCore, NoReportLoggedTwice, OneLogPerTick, NoFalseIdle
  <2> QED BY <2>1, <2>2
<1>3. PedalInv /\ [Next]_vars => PedalInv'
  BY <1>2, WakeStep DEF PedalInv
<1> QED BY <1>1, <1>3, PTL DEF Spec

\* Types of the measuring side.
THEOREM PedalTypes == Spec => []PedalTypeOK
<1>1. PedalInv => PedalTypeOK
  BY DEF PedalInv, PedalCore
<1> QED BY <1>1, PedalInvariant, PTL

\* KeepOnPedaling is never true without a ride that long and that far.
THEOREM PedalingIsReal == Spec => []PedalingMeansMoving
<1>1. PedalInv => PedalingMeansMoving
  <2> SUFFICES ASSUME PedalInv, KeepOnPedaling
               PROVE  seen.streak > KeepCount /\ travel[WinSize] > PedalLevel
    BY DEF PedalingMeansMoving
  <2>1. /\ pedaling_count \in Int /\ seen.streak \in Int
        /\ pedaling_count > KeepCount /\ sum = travel[WinSize]
    BY PedalAssumption
       DEF PedalInv, PedalCore, PedalTypeOK, KeepOnPedaling, WindowInv, SumIsTravel
  <2> QED BY <2>1, PedalAssumption DEF PedalInv, PedalCore
<1> QED BY <1>1, PedalInvariant, PTL

\* The log counts no report twice.
THEOREM LogCountsOnce == Spec => []NoReportLoggedTwice
<1>1. PedalInv => NoReportLoggedTwice
  BY DEF PedalInv, PedalCore
<1> QED BY <1>1, PedalInvariant, PTL

\* A tick makes at most one log.
THEOREM TickLogsOnce == Spec => []OneLogPerTick
<1>1. PedalInv => OneLogPerTick
  BY DEF PedalInv, PedalCore
<1> QED BY <1>1, PedalInvariant, PTL

\* The sensor is never taken for idle longer than it was.
THEOREM IdleIsReal == Spec => []NoFalseIdle
<1>1. PedalInv => NoFalseIdle
  BY DEF PedalInv, PedalCore
<1> QED BY <1>1, PedalInvariant, PTL

\* A tick or a report that comes while the loop is on its way to sleep wakes it,
\* wherever it falls between the tests and the call.
THEOREM NoLostWakeup == Spec => []NeverSleepsOnWork
<1>1. PedalInv => NeverSleepsOnWork
  BY DEF PedalInv
<1> QED BY <1>1, PedalInvariant, PTL

\* Pedalling only ends on a slow window or on the wrap of the counter.
THEOREM PedalingEnd == Spec => PedalingEndsForAReason
<1> DEFINE Ends == KeepOnPedaling /\ ~KeepOnPedaling'
                     => travel'[WinSize] <= PedalLevel \/ pedaling_count = CountMod - 1
<1>1. ASSUME PedalInv, PedalInv', [Next]_vars PROVE [Ends]_vars
  <2>1. CASE UNCHANGED pedaling_count
    BY <2>1 DEF KeepOnPedaling
  <2>2. CASE \E acc \in Promise!Steps : qdec_event_handler(acc)
    <3>1. /\ pedaling_count \in 0 .. CountMod-1 /\ sum' = travel'[WinSize] /\ sum' \in Int
          /\ pedaling_count' = IF sum' > PedalLevel
                               THEN (pedaling_count + 1) % CountMod ELSE 0
      BY <1>1, <2>2 DEF PedalInv, PedalCore, PedalTypeOK, WindowInv, WindowTypeOK, SumIsTravel,
                        qdec_event_handler, CountPedaling
    <3> QED BY <3>1, PedalAssumption DEF KeepOnPedaling
  <2>3. CASE Next /\ ~\E acc \in Promise!Steps : qdec_event_handler(acc)
    <3>1. UNCHANGED qdecVars
      BY <2>3 DEF Next, general_timer_timeout_handler, OtherInterrupt, Loop, TestReport,
                  LogReport, ResetCount, TestClear, Clear1000msPending, TestEvent,
                  CountIdle, ResetIdle, qdec_event_clear, idle_state_handle, At
    <3> QED BY <3>1, <2>1 DEF qdecVars
  <2>4. CASE UNCHANGED vars
    BY <2>4, <2>1 DEF vars, qdecVars
  <2> QED BY <1>1, <2>2, <2>3, <2>4
<1> QED BY <1>1, PedalInvariant, PTL DEF Spec, PedalingEndsForAReason
=============================================================================

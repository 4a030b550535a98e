----------------------------- MODULE PedalMain -----------------------------
(***************************************************************************)
(* The measuring side of the pedal sensor: the QDEC report interrupt of    *)
(* qdecmain.c, the 1 s app_timer interrupt and the endless loop of main.c  *)
(* that both of them preempt between any two of its statements.  All the   *)
(* application's interrupts have the same priority (7 in sdk_config.h), so *)
(* that a handler is one step here.                                        *)
(*                                                                         *)
(* Left out of the report handler: the notification of lines 177-183,      *)
(* which touches only the link (not this state), and m_pos, m_accdblread,  *)
(* m_report_ready_flag, which are written and never read.                  *)
(***************************************************************************)
EXTENDS PosWindow

CONSTANTS PedalLevel,  \* win_pos above this is pedalling (10)
          KeepCount,   \* KeepOnPedaling after more than this many (10)
          CountMod,    \* pedaling_count is a uint8_t (256)
          MaxReports,  \* bound: QDEC reports of a run
          MaxTicks,    \* bound: 1 s ticks of a run
          MaxIdle      \* bound: duration_no_qdec_event stays there

ASSUME PedalAssumption == /\ PedalLevel \in Nat
                          /\ KeepCount \in Nat
                          /\ CountMod \in Nat /\ CountMod > KeepCount + 1
                          /\ MaxReports \in Nat /\ MaxTicks \in Nat /\ MaxIdle \in Nat

VARIABLES
  qdec,              \* raw_pos and win_pos of the last report
  pedaling_count,
  qdec_event, qdec_report_count,
  general_tick_count, tick_pending,
  pc,                \* the statement of the main loop to run next
  duration_no_qdec_event,
  wake,              \* an interrupt came since the last sd_app_evt_wait
  seen               \* history, read by the properties only:
                     \*   reports  QDEC reports so far
                     \*   streak   reports in a row above PedalLevel,
                     \*            stopped at KeepCount + 1
                     \*   logged   sum of the counts the loop logged
                     \*   logs     how often it logged one
                     \*   quiet    loops without a report, as MaxIdle

qdecVars == <<windowVars, qdec, pedaling_count>>
loopVars == <<pc, duration_no_qdec_event>>
vars == <<qdecVars, qdec_event, qdec_report_count, general_tick_count,
          tick_pending, loopVars, wake, seen>>

KeepOnPedaling == pedaling_count > KeepCount

Capped(n, cap) == IF n < cap THEN n + 1 ELSE n

-----------------------------------------------------------------------------
Init == /\ posbuf_init
        /\ qdec = [raw_pos |-> 0, win_pos |-> 0]
        /\ pedaling_count = 0
        /\ qdec_event = 0 /\ qdec_report_count = 0
        /\ general_tick_count = 0 /\ tick_pending = FALSE
        /\ pc = "report?" /\ duration_no_qdec_event = 0
        /\ wake = FALSE
        /\ seen = [reports |-> 0, streak |-> 0, logged |-> 0, logs |-> 0,
                   quiet |-> 0]

\* Faults: a wider counter; a pause that does not reset it; the position of
\* one report taken for the one of the window.
CountPedaling_wide == pedaling_count' = IF sum' > PedalLevel
                                        THEN pedaling_count + 1 ELSE 0
CountPedaling_kept ==
  pedaling_count' = IF sum' > PedalLevel
                    THEN (pedaling_count + 1) % CountMod ELSE pedaling_count
CountPedaling_raw ==
  pedaling_count' = IF qdec'.raw_pos > PedalLevel
                    THEN (pedaling_count + 1) % CountMod ELSE 0

\* if (win_pos > 10) pedaling_count++; else pedaling_count = 0;
CountPedaling == pedaling_count' = IF sum' > PedalLevel
                                   THEN (pedaling_count + 1) % CountMod ELSE 0

\* REPORTRDY: acc steps since the last report.
qdec_event_handler(acc) ==
  /\ seen.reports < MaxReports
  /\ posbuf_add(acc)
  /\ qdec' = [raw_pos |-> acc, win_pos |-> sum']
  /\ CountPedaling
  /\ qdec_event' = qdec_event + 1
  /\ qdec_report_count' = qdec_report_count + 1
  /\ wake' = TRUE
  /\ seen' = [seen EXCEPT !.reports = @ + 1, !.quiet = 0,
                          !.streak = IF sum' > PedalLevel
                                     THEN Capped(@, KeepCount + 1) ELSE 0]
  /\ UNCHANGED <<general_tick_count, tick_pending, loopVars>>

\* Fault: the interrupt does not end a sleep that is about to begin.
general_timer_timeout_handler_nowake ==
  /\ general_tick_count < MaxTicks
  /\ general_tick_count' = general_tick_count + 1
  /\ tick_pending' = TRUE
  /\ UNCHANGED <<qdecVars, qdec_event, qdec_report_count, loopVars, wake, seen>>

\* The repeated 1 s timer of general_timer_create.
general_timer_timeout_handler ==
  /\ general_tick_count < MaxTicks
  /\ general_tick_count' = general_tick_count + 1
  /\ tick_pending' = TRUE
  /\ wake' = TRUE
  /\ UNCHANGED <<qdecVars, qdec_event, qdec_report_count, loopVars, seen>>

\* Any other interrupt (PWM timer, SAADC, BLE): it ends a sleep as well.
OtherInterrupt == /\ ~wake /\ wake' = TRUE
                  /\ UNCHANGED <<qdecVars, qdec_event, qdec_report_count,
                                 general_tick_count, tick_pending, loopVars, seen>>

-----------------------------------------------------------------------------
(* The loop.  Every step below leaves to the handlers what is theirs.      *)

At(here, next) == /\ pc = here /\ pc' = next
                  /\ UNCHANGED <<qdecVars, general_tick_count>>

\* if (Is1000msPending()), line 826
TestReport == /\ At("report?", IF tick_pending THEN "log" ELSE "clear?")
              /\ UNCHANGED <<qdec_event, qdec_report_count, tick_pending,
                             duration_no_qdec_event, wake, seen>>

\* The once-a-second report reads the count it logs ...
LogReport == /\ At("log", "reset")
             /\ seen' = [seen EXCEPT !.logged = @ + qdec_report_count,
                                     !.logs = @ + 1]
             /\ UNCHANGED <<qdec_event, qdec_report_count, tick_pending,
                            duration_no_qdec_event, wake>>

\* Fault: the count is not reset.
ResetCount_none == /\ At("reset", "clear?")
                   /\ UNCHANGED <<qdec_event, qdec_report_count, tick_pending,
                                  duration_no_qdec_event, wake, seen>>

\* ... and only then resets it: reports in between are not logged.
ResetCount == /\ At("reset", "clear?")
              /\ qdec_report_count' = 0
              /\ UNCHANGED <<qdec_event, tick_pending, duration_no_qdec_event,
                             wake, seen>>

\* The second if (Is1000msPending()), line 849
TestClear == /\ At("clear?", IF tick_pending THEN "clear" ELSE "event?")
             /\ UNCHANGED <<qdec_event, qdec_report_count, tick_pending,
                            duration_no_qdec_event, wake, seen>>

\* Fault: the flag stays set.
Clear1000msPending_none == /\ At("clear", "event?")
                           /\ UNCHANGED <<qdec_event, qdec_report_count, tick_pending,
                                          duration_no_qdec_event, wake, seen>>

Clear1000msPending == /\ At("clear", "event?")
                      /\ tick_pending' = FALSE
                      /\ UNCHANGED <<qdec_event, qdec_report_count,
                                     duration_no_qdec_event, wake, seen>>

\* Fault: a single report is overlooked.
TestEvent_one == /\ At("event?", IF qdec_event <= 1 THEN "idle" ELSE "active")
                 /\ UNCHANGED <<qdec_event, qdec_report_count, tick_pending,
                                duration_no_qdec_event, wake, seen>>

TestEvent == /\ At("event?", IF qdec_event = 0 THEN "idle" ELSE "active")
             /\ UNCHANGED <<qdec_event, qdec_report_count, tick_pending,
                            duration_no_qdec_event, wake, seen>>

CountIdle == /\ At("idle", "sleep")
             /\ duration_no_qdec_event' = Capped(duration_no_qdec_event, MaxIdle)
             /\ seen' = [seen EXCEPT !.quiet = Capped(@, MaxIdle)]
             /\ UNCHANGED <<qdec_event, qdec_report_count, tick_pending, wake>>

\* Fault: the event is taken, the idle time goes on.
ResetIdle_none == /\ At("active", "taken")
                  /\ UNCHANGED <<qdec_event, qdec_report_count, tick_pending,
                                 duration_no_qdec_event, wake, seen>>

ResetIdle == /\ At("active", "taken")
             /\ duration_no_qdec_event' = 0
             /\ UNCHANGED <<qdec_event, qdec_report_count, tick_pending, wake, seen>>

qdec_event_clear == /\ At("taken", "sleep")
                    /\ qdec_event' = 0
                    /\ UNCHANGED <<qdec_report_count, tick_pending,
                                   duration_no_qdec_event, wake, seen>>

\* idle_state_handle: sd_app_evt_wait returns once an application interrupt
\* was taken since the last call, before or during this one.
idle_state_handle == /\ At("sleep", "report?")
                     /\ wake /\ wake' = FALSE
                     /\ UNCHANGED <<qdec_event, qdec_report_count, tick_pending,
                                    duration_no_qdec_event, seen>>

Loop == \/ TestReport \/ LogReport \/ ResetCount
        \/ TestClear \/ Clear1000msPending
        \/ TestEvent \/ CountIdle \/ ResetIdle \/ qdec_event_clear
        \/ idle_state_handle

Next == \/ \E acc \in Promise!Steps : qdec_event_handler(acc)
        \/ general_timer_timeout_handler
        \/ OtherInterrupt
        \/ Loop

\* The loop is never left and interrupts do not starve it (they are rare
\* compared to its statements).  Nothing says that the pedal turns.
Spec == Init /\ [][Next]_vars /\ WF_vars(Loop)
-----------------------------------------------------------------------------
\* Types; pedaling_count stays in a uint8_t and the idle time in its bound.
PedalTypeOK ==
  /\ WindowTypeOK
  /\ qdec \in [raw_pos : Promise!Steps, win_pos : -HalfWord .. HalfWord-1]
  /\ pedaling_count \in 0 .. CountMod-1
  /\ qdec_event \in Nat /\ qdec_report_count \in Nat
  /\ general_tick_count \in Nat
  /\ tick_pending \in BOOLEAN /\ wake \in BOOLEAN
  /\ pc \in {"report?", "log", "reset", "clear?", "clear", "event?", "idle",
             "active", "taken", "sleep"}
  /\ duration_no_qdec_event \in 0 .. MaxIdle
  /\ seen \in [reports : Nat, streak : 0 .. KeepCount + 1, logged : Nat,
               logs : Nat, quiet : 0 .. MaxIdle]

\* KeepOnPedaling, which darkens the LEDs (low_power_pwm.c:59), is only true
\* while more than KeepCount reports in a row were above PedalLevel and the
\* pedal did travel further than that over the last window: the counter, its
\* wrap and the ring together never invent a rider.
PedalingMeansMoving ==
  KeepOnPedaling => /\ seen.streak > KeepCount
                    /\ travel[WinSize] > PedalLevel

\* A pause ends pedalling: the flag falls on a report at or below PedalLevel,
\* and otherwise only when the uint8_t wraps (qdecmain.c:174).
PedalingEndsForAReason ==
  [][KeepOnPedaling /\ ~KeepOnPedaling'
       => travel'[WinSize] <= PedalLevel \/ pedaling_count = CountMod - 1]_vars

\* The once-a-second log (main.c:841-842) may miss reports but never counts
\* one twice, wherever the report interrupt falls.
NoReportLoggedTwice ==
  seen.logged + (IF pc = "reset" THEN 0 ELSE qdec_report_count) <= seen.reports

\* One tick of the timer makes at most one log (main.c:826-853): the pending
\* flag that a log leaves set is the one of a tick that has not had its own.
OneLogPerTick ==
  seen.logs + (IF tick_pending /\ pc \notin {"reset", "clear?", "clear"}
               THEN 1 ELSE 0) <= general_tick_count

\* The loop never takes the sensor for idle longer than it was: with every
\* report accounted for, the idle time is at most the loops since the last
\* one (main.c:855-860).
NoFalseIdle == qdec_event = 0 => duration_no_qdec_event <= seen.quiet

\* A tick is always served, also one that comes as the loop goes to sleep.
TickServed == tick_pending ~> ~tick_pending

\* A report always ends the idle time, also one that comes between the test
\* of qdec_event and its reset.
ReportNoticed == qdec_event # 0 ~> duration_no_qdec_event = 0

\* The loop never goes to sleep on work that came after its tests: whatever
\* interrupt left a tick or a report behind them is one that ends the sleep
\* (main.c:849, 855, 864).
NeverSleepsOnWork ==
  /\ tick_pending /\ pc \in {"event?", "idle", "active", "taken", "sleep"} => wake
  /\ qdec_event # 0 /\ pc \in {"idle", "sleep"} => wake

\* What the window, the counter and the logs need to survive a step.
PedalCore ==
  /\ PedalTypeOK
  /\ WindowInv
  /\ pedaling_count > seen.streak => seen.streak > KeepCount
  /\ pedaling_count > 0 => sum > PedalLevel
  /\ NoReportLoggedTwice
  /\ OneLogPerTick
  /\ pc = "log" => tick_pending
  /\ NoFalseIdle
  /\ pc = "taken" => duration_no_qdec_event = 0

\* The inductive invariant of the proofs in PedalMain_proofs.
PedalInv == PedalCore /\ NeverSleepsOnWork
=============================================================================

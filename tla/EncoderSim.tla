----------------------------- MODULE EncoderSim -----------------------------
(***************************************************************************)
(* qenc.c: the encoder simulator.  A repeated timer reports a wave that a  *)
(* decay table fades in, holds and fades out again; "stop" only asks for   *)
(* the fading out, at whose end the timer stops itself.                    *)
(*                                                                         *)
(* Of a report only the factor is kept that scaled it: "zero" (at most     *)
(* 0.1), "mid", or "one" (above 0.98, or not scaled).  The report goes to  *)
(* posbuf_add (see PosWindow) and, with notifications on, to the client.   *)
(***************************************************************************)
EXTENDS Integers

CONSTANTS DECAY_TABLE_SIZE, \* 110 in the code
          Margin            \* 10: the table is 0 below it and 1 above the size less it

\* Between the margins 1 - exp(-i/30) is above 0.28 and below 0.97 at i = 10 .. 100.
ASSUME TableAssumption == /\ Margin \in Nat /\ Margin >= 2
                          /\ DECAY_TABLE_SIZE \in Nat /\ DECAY_TABLE_SIZE >= 2 * Margin

VARIABLES ss,           \* state of the simulation
          factor_index, \* place in the decay table
          start_sim,    \* the last command was "start"
          running,      \* the repeated timer m_qdec_period_read_timer_id runs
          raw_pos,      \* factor of the last report
          stopping      \* history, read by the properties only: ticks since the
                        \* last "stop", stopped at MaxFade + 1

simVars == <<ss, factor_index, start_sim, running, raw_pos, stopping>>

SimStates == {"SIM_IDLE", "SIM_TRANS_UP", "SIM_SETTLE", "SIM_TRANS_DOWN", "SIM_STOP"}

\* Fault: the formula alone, which never comes close enough to 1.
decaytable_formula(i) == IF i < Margin THEN "zero" ELSE "mid"

decaytable(i) == IF i < Margin THEN "zero"
                 ELSE IF i > DECAY_TABLE_SIZE - Margin THEN "one"
                 ELSE "mid"

\* Ticks of a whole way up and down, from the first report to the last.
MaxFade == 2 * (DECAY_TABLE_SIZE - Margin) + 6

-----------------------------------------------------------------------------
\* The first report comes unscaled.
Idle == /\ ss = "SIM_IDLE" /\ ss' = "SIM_TRANS_UP"
        /\ factor_index' = 0 /\ raw_pos' = "one"
        /\ UNCHANGED running

TransUp == /\ ss = "SIM_TRANS_UP"
           /\ raw_pos' = decaytable(factor_index)
           /\ factor_index' = factor_index + 1
           /\ ss' = IF raw_pos' = "one" THEN "SIM_SETTLE" ELSE ss
           /\ UNCHANGED running

Settle == /\ ss = "SIM_SETTLE" /\ raw_pos' = "one"
          /\ IF start_sim
             THEN UNCHANGED <<ss, factor_index>>
             ELSE ss' = "SIM_TRANS_DOWN" /\ factor_index' = DECAY_TABLE_SIZE - 1
          /\ UNCHANGED running

TransDown == /\ ss = "SIM_TRANS_DOWN"
             /\ raw_pos' = decaytable(factor_index)
             /\ factor_index' = factor_index - 1
             /\ ss' = IF raw_pos' = "zero" THEN "SIM_STOP" ELSE ss
             /\ UNCHANGED running

\* Fault: the timer goes on, and the simulation starts anew.
Stop_not == /\ ss = "SIM_STOP" /\ ss' = "SIM_IDLE" /\ raw_pos' = "one"
            /\ UNCHANGED <<running, factor_index>>

\* The last report comes unscaled, too.
Stop == /\ ss = "SIM_STOP" /\ ss' = "SIM_IDLE"
        /\ running' = FALSE /\ raw_pos' = "one"
        /\ UNCHANGED factor_index

qdec_period_read_timer_handler ==
  /\ running
  /\ Idle \/ TransUp \/ Settle \/ TransDown \/ Stop
  /\ stopping' = IF start_sim THEN 0 ELSE IF stopping > MaxFade THEN stopping ELSE stopping + 1
  /\ UNCHANGED start_sim

\* app_timer_start ignores a timer that runs, so that a "start" during the
\* fading out does not keep the simulation from ending.
qdec_period_read_ctrl(start) ==
  /\ start_sim' = start /\ running' = (running \/ start)
  /\ stopping' = IF start THEN 0 ELSE stopping
  /\ UNCHANGED <<ss, factor_index, raw_pos>>

-----------------------------------------------------------------------------
SimInit == /\ ss = "SIM_IDLE" /\ factor_index = 0 /\ start_sim = FALSE
           /\ running = FALSE /\ raw_pos = "zero" /\ stopping = 0

\* The timer and the static variables start anew.
SimReset == /\ ss' = "SIM_IDLE" /\ factor_index' = 0 /\ start_sim' = FALSE
            /\ running' = FALSE /\ raw_pos' = "zero" /\ stopping' = 0

\* The index that the next tick reads with is in the table, with the margin left
\* that ends the way up and the way down; and the way down has faded to zero
\* when the timer is about to stop (qenc.c:138, 152).
FactorInTable ==
  /\ ss = "SIM_TRANS_UP" => factor_index \in 0..DECAY_TABLE_SIZE - Margin + 1
  /\ ss = "SIM_TRANS_DOWN" => factor_index \in Margin - 1..DECAY_TABLE_SIZE - 1
  /\ ss = "SIM_STOP" => raw_pos = "zero"

\* How often the timer still fires once nothing holds the simulation up.
TicksLeft ==
  CASE ss = "SIM_IDLE"       -> MaxFade
    [] ss = "SIM_TRANS_UP"   -> MaxFade - 1 - factor_index
    [] ss = "SIM_SETTLE"     -> DECAY_TABLE_SIZE - Margin + 3
    [] ss = "SIM_TRANS_DOWN" -> factor_index - Margin + 3
    [] ss = "SIM_STOP"       -> 1

\* A "stop" is heard wherever it falls: even on the way up the timer ends after at
\* most MaxFade more ticks, since nothing but "start" leads away from the end
\* (qenc.c:146, 160, 197).
StopsInTime ==
  IF start_sim THEN stopping = 0
               ELSE stopping + (IF running THEN TicksLeft ELSE 0) <= MaxFade
=============================================================================

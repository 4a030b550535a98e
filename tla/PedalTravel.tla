---------------------------- MODULE PedalTravel ----------------------------
(***************************************************************************)
(* What the sliding window of posbuf.c promises, without its buffer:       *)
(* travel[i] is the net movement of the pedal over the last i reports, and *)
(* the position handed out is the travel over the last WinSize of them.    *)
(***************************************************************************)
EXTENDS Integers

CONSTANTS WinSize,   \* reports in the window (posbuf.c: win_size = 10)
          MaxStep    \* largest movement one report can carry

Steps == -MaxStep .. MaxStep

VARIABLES travel, winPos

vars == <<travel, winPos>>

NoTravel == [i \in 0..WinSize |-> 0]

\* The movement obj was just reported: every span grows by it and gets one
\* report longer.
Extend(t, obj) == [i \in 0..WinSize |-> IF i = 0 THEN 0 ELSE t[i-1] + obj]

Init == travel = NoTravel /\ winPos = 0

Report(obj) == /\ travel' = Extend(travel, obj)
               /\ winPos' = travel'[WinSize]

Next == \E obj \in Steps : Report(obj)

Spec == Init /\ [][Next]_vars
=============================================================================

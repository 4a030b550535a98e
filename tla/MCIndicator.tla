---------------------------- MODULE MCIndicator ----------------------------
(***************************************************************************)
(* The two LEDs with the periods and duty cycles of indicator.c, and ADC   *)
(* readings on both sides of every threshold of SetIndicator and of        *)
(* PowerManage, a negative one included.                                   *)
(***************************************************************************)
EXTENDS Indicator

BatteryReadings == {-1, 280, 281, 334, 335, 336, 337, 350, 351}
=============================================================================

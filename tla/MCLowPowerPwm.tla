--------------------------- MODULE MCLowPowerPwm ---------------------------
(***************************************************************************)
(* One LED under any use of the driver, with a period of 2 s, one so short *)
(* that its slopes are near the smallest timeout, and duty cycles from off *)
(* to the largest a uint8_t argument holds.                                *)
(***************************************************************************)
EXTENDS LowPowerPwm
=============================================================================

---------------------------- MODULE MCPedalMain ----------------------------
(***************************************************************************)
(* The loop and its interrupts with a window of three reports and a        *)
(* uint8_t narrowed to four values, so that a short ride wraps it.         *)
(***************************************************************************)
EXTENDS PedalMain
=============================================================================

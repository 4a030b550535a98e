----------------------------- MODULE MCStartup -----------------------------
(***************************************************************************)
(* Two serial numbers, so that a record may change or vanish between two   *)
(* starts.  Starts are not bounded: the state space is finite.             *)
(***************************************************************************)
EXTENDS Startup
=============================================================================

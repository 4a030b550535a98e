------------------------------ MODULE MCFdsCli ------------------------------
(***************************************************************************)
(* Two record keys, two texts and a queue of two operations, so that three *)
(* commands fill it.                                                       *)
(***************************************************************************)
EXTENDS FdsCli
=============================================================================

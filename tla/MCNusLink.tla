----------------------------- MODULE MCNusLink -----------------------------
(***************************************************************************)
(* A loop test, the commands that turn notifications on and off, and bytes *)
(* that are no packet: a length of 0, which a parser in step takes for a   *)
(* packet with data of 255 bytes.  A packet holds at most six bytes behind *)
(* its length, so that a torn one swallows more than the packet that       *)
(* follows it, and a connection has one packet after that.                 *)
(***************************************************************************)
EXTENDS NusLink

ClientPackets == {<<165, 192, 1, 32>>, <<165, 192, 2, 33, 0>>, <<165, 192, 3, 33, 1, 7>>,
                  <<165, 192, 0, 32>>}
=============================================================================

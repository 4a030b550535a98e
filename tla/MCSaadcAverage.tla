--------------------------- MODULE MCSaadcAverage ---------------------------
(***************************************************************************)
(* Two samples near each other, one far above and one below zero.          *)
(***************************************************************************)
EXTENDS SaadcAverage

SomeSamples == {-3, 0, 1, 1023}
=============================================================================

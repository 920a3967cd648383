---------------------------- MODULE MCMapLayouts ----------------------------
(* A small instance of MapLayouts for TLC: 4-bit words, 3-bit halves and a
   store of 6 bytes. *)
EXTENDS MapLayouts

MCUnits == 0 .. 15
=============================================================================

------------------------------ MODULE MCSurface ------------------------------
(* The high EQ of a mixer channel and the depth of the effect unit, which   *)
(* are the same CC on two channels, and a fast and a slow turn of the       *)
(* browse knob.                                                             *)
EXTENDS Surface

MCMoved == {<<0, 4>>, <<4, 4>>}
MCTurns == {-9, 3}
=============================================================================

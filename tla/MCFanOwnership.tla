--------------------------- MODULE MCFanOwnership ---------------------------
(* Two processes of FanOwnership for TLC. *)
EXTENDS FanOwnership

CONSTANTS p1, p2
=============================================================================

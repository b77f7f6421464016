--------------------------- MODULE MCLocationArray ---------------------------
(* Coordinates for TLC: the two ends of the range, and a tie. *)
EXTENDS LocationArray

Corners == {0, 9999}
=============================================================================

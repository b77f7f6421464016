--------------------------- MODULE MCMessageServer ---------------------------
(* Processes for TLC.  Exhibitors are alike, and so are emitters: nothing in *)
(* MessageServer chooses one of them by name.                              *)
EXTENDS MessageServer, TLC

CONSTANTS x1, x2, e1, e2

OneExhibitor == {x1}
TwoExhibitors == {x1, x2}
OneEmitter == {e1}
TwoEmitters == {e1, e2}

Symm == Permutations({x1, x2}) \cup Permutations({e1, e2})
=============================================================================

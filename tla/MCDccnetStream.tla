--------------------------- MODULE MCDccnetStream ---------------------------
(* A payload for TLC: with it the carry of a frame's words carries again. *)
EXTENDS DccnetStream

FEF800 == << <<15, 14, 15, 8, 0, 0>> >>

\* The two frames that TP02/checksum.py takes from the course, and their digits there.
Teste123 == <<5, 4, 6, 5, 7, 3, 7, 4, 6, 5, 3, 1, 3, 2, 3, 3>>
Mensagem == <<6, 13, 6, 5, 6, 14, 7, 3, 6, 1, 6, 7, 6, 5, 6, 13, 2, 0, 6, 4, 6, 5, 2, 0>>
              \o <<7, 4, 6, 5, 7, 3, 7, 4, 6, 5>>

ASSUME KnownChecksums ==
  /\ SubSeq(Frame(0, 0, Teste123), 17, 28) = <<0, 0, 0, 8, 9, 15, 11, 3, 0, 0, 0, 0>>
  /\ SubSeq(Frame(0, 0, Mensagem), 17, 28) = <<0, 0, 1, 1, 8, 9, 13, 12, 0, 0, 0, 0>>
=============================================================================

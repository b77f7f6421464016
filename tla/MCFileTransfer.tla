--------------------------- MODULE MCFileTransfer ---------------------------
(* Clients for TLC.  The first emitter gets id 1 and the first exhibitors 4096 and *)
(* 4097: the id of a client may also be the number of a chunk.                     *)
EXTENDS FileTransfer

Emitter1 == 1
Exhibitors == {4096, 4097}
ServerId == 65535
=============================================================================

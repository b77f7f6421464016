---------------------------- MODULE MCDccnetLink ----------------------------
(* Files for TLC.  A chunk is the amount it adds to its frame's checksum. *)
EXTENDS DccnetLink

\* One chunk each way: two frames with different ids, as few as there can be.
OneChunk == [p \in Peer |-> <<128>>]

\* The client's second data frame has the id of its END frame's successor, and
\* its first data frame the id of its END frame.
TwoToOne == [p \in Peer |-> IF p = "client" THEN <<64, 128>> ELSE <<128>>]

TwoChunks == [p \in Peer |-> <<64, 128>>]
=============================================================================

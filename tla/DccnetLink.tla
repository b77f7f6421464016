----------------------------- MODULE DccnetLink -----------------------------
(***************************************************************************)
(* The DCCNET link emulator of TP02.  Two ends, "client" and "server", run *)
(* the same stop-and-wait loop over one TCP connection: each sends a file  *)
(* cut into chunks, closed by an END frame, and stores what the other one  *)
(* sends.  Client.run and Server.run are the same text up to the socket    *)
(* they use, so one set of actions is parameterised by the end p.          *)
(*                                                                         *)
(* Frames are atomic here, as long as the reader begins where a frame      *)
(* begins.  A reader misled by damage, or cut short by a timeout, stops    *)
(* anywhere: its next search then begins inside a frame, and each block    *)
(* that is not a sync sequence waits for a key.                            *)
(***************************************************************************)
EXTENDS Integers, Sequences

CONSTANTS
  Input,      \* Input[p][i] is what the i-th chunk of p's file adds to a checksum
  Cap,        \* frames that one direction holds before sendall blocks
  MaxDamage   \* frames the medium damages, or delays half-way, in one run

Peer == {"client", "server"}
Other(p) == IF p = "client" THEN "server" ELSE "client"

\* An empty file makes create_frames fail (it reads an unset loop variable),
\* so no end ever runs with one.
ASSUME LinkAssumption ==
  /\ Input \in [Peer -> Seq(Nat)]
  /\ \A p \in Peer : Len(Input[p]) > 0
  /\ Cap \in Nat \ {0}
  /\ MaxDamage \in Nat

VARIABLES
  pc,           \* where each end is in run()
  send_idx,     \* index of the frame being sent
  last_id,      \* id of the last frame stored
  last_chksum,  \* checksum field of the last frame stored
  recv_frames,  \* the frames stored so far
  ack_id,       \* id of the ACK about to be sent
  wire,         \* wire[p]: frames in flight to p, a FIFO as TCP delivers
  astray,       \* astray[p]: p has read the beginning of Head(wire[p]) and lost it
  rst,          \* rst[p]: the kernel of the other end answers p with a reset
  damage        \* frames damaged so far

local == <<send_idx, last_id, last_chksum, recv_frames, ack_id>>
vars == <<pc, local, wire, astray, rst, damage>>

-----------------------------------------------------------------------------
(* Frames *)

Flag == {"data", "end", "ack"}

FlagByte(flag) == IF flag = "data" THEN 0 ELSE IF flag = "end" THEN 64 ELSE 128

\* The checksum of DccnetStream up to what all frames share (the sync words and the
\* final complement): two frames have the same one when these numbers are equal.
Ones == 256 * 256 - 1

compute_checksum(flag, id, sum) == (256 * id + FlagByte(flag) + sum) % Ones

\* seq is the position in the sender's list of frames, 0 for an ACK, and intact
\* is FALSE once the medium has damaged the frame.  No end reads seq.
Frame(flag, id, sum, seq) ==
  [flag |-> flag, id |-> id, chksum |-> compute_checksum(flag, id, sum),
   seq |-> seq, intact |-> TRUE]

NumFrames(p) == Len(Input[p]) + 1

\* Mutant of send_frames: the ids are not reduced modulo 2.
send_framesWideId(p, i) == Frame("data", i, 0, i + 1)

\* create_frames: data frames with alternating ids, then the END frame.
send_frames(p, i) ==
  IF i < Len(Input[p])
  THEN Frame("data", i % 2, Input[p][i + 1], i + 1)
  ELSE Frame("end", i % 2, 0, i + 1)

AckFrame(id) == Frame("ack", id, 0, 0)

\* The initial last_chksum of -1, which no frame carries.
NoChksum == -1

Checksum == 0..(Ones - 1) \cup {NoChksum}

FrameType ==
  [flag : Flag, id : {0, 1}, chksum : Checksum, seq : Nat, intact : BOOLEAN]

-----------------------------------------------------------------------------

Init ==
  /\ pc = [p \in Peer |-> "send"]
  /\ send_idx = [p \in Peer |-> 0]
  /\ last_id = [p \in Peer |-> 1]
  /\ last_chksum = [p \in Peer |-> NoChksum]
  /\ recv_frames = [p \in Peer |-> <<>>]
  /\ ack_id = [p \in Peer |-> 0]
  /\ wire = [p \in Peer |-> <<>>]
  /\ astray = [p \in Peer |-> FALSE]
  /\ rst = [p \in Peer |-> FALSE]
  /\ damage = 0

\* "done" has written its output file; "crashed" and "interrupted" have not.
Gone(p) == pc[p] \in {"done", "crashed", "interrupted"}

\* input(), called for each block of 16 digits that is no sync sequence.
AtInput(p) == pc[p] \in {"input", "drain_input"}

\* sendall: blocks while the connection is full.  After the other end closed,
\* the bytes go nowhere and a reset may come back before the next call.
sendall(p, f) ==
  LET q == Other(p) IN
  \/ /\ ~Gone(q)
     /\ Len(wire[q]) < Cap
     /\ wire' = [wire EXCEPT ![q] = Append(@, f)]
     /\ UNCHANGED <<astray, rst>>
  \/ /\ Gone(q)
     /\ rst' \in {rst, [rst EXCEPT ![p] = TRUE]}
     /\ UNCHANGED <<wire, astray>>

\* The process ends and its socket closes.  Bytes left unread make that a reset.
Leave(p, how) ==
  /\ pc' = [pc EXCEPT ![p] = how]
  /\ rst' = [rst EXCEPT ![Other(p)] = @ \/ wire'[p] # <<>>]
  /\ UNCHANGED local

-----------------------------------------------------------------------------
(* Sending *)

\* Top of the main loop: (re)send the current frame.
SendData(p) ==
  /\ pc[p] = "send"
  /\ sendall(p, send_frames(p, send_idx[p]))
  /\ pc' = [pc EXCEPT ![p] = "recv"]
  /\ UNCHANGED <<local, damage>>

\* send_ack_frame, after which the end goes back to the loop it came from.
SendAck(p) ==
  /\ pc[p] \in {"ack", "drain_ack"}
  /\ sendall(p, AckFrame(ack_id[p]))
  /\ pc' = [pc EXCEPT ![p] = IF @ = "ack" THEN "send" ELSE "drain"]
  /\ UNCHANGED <<local, damage>>

-----------------------------------------------------------------------------
(* Receiving *)

\* p goes by digits that are not those of a frame from its beginning.
Misled(p) == astray[p] \/ (wire[p] # <<>> /\ ~Head(wire[p]).intact)

\* A read that is misled, or cut short, ends just behind the n-th frame of the
\* connection, or inside the next one.
Pass(p, n) ==
  /\ n <= Len(wire[p])
  /\ wire' = [wire EXCEPT ![p] = SubSeq(@, n + 1, Len(@))]
  /\ \E inside \in BOOLEAN :
       /\ inside => n < Len(wire[p])
       /\ n = 0 => inside
       /\ astray' = [astray EXCEPT ![p] = inside]

\* search_frame hands p the frame Head(wire[p]), taking it off the connection.
Take(p) ==
  /\ wire[p] # <<>>
  /\ ~Misled(p)
  /\ wire' = [wire EXCEPT ![p] = Tail(@)]
  /\ UNCHANGED <<astray, rst, damage>>

\* A block of 16 digits is not a sync sequence: the search calls input().  A frame
\* is longer than a block, so a damaged one still has digits to come; the blocks
\* inside a frame that p is astray in change nothing, up to the one that reaches its
\* end.
Block(p) ==
  /\ pc[p] \in {"recv", "drain"}
  /\ Misled(p)
  /\ Pass(p, IF astray[p] THEN 1 ELSE 0)
  /\ pc' = [pc EXCEPT ![p] = IF @ = "recv" THEN "input" ELSE "drain_input"]
  /\ UNCHANGED <<local, rst, damage>>

\* The user presses a key, and the search goes on.
Key(p) ==
  /\ AtInput(p)
  /\ pc' = [pc EXCEPT ![p] = IF @ = "input" THEN "recv" ELSE "drain"]
  /\ UNCHANGED <<local, wire, astray, rst, damage>>

\* Mutant of IsCurrentAck: any ACK moves the sender on.
IsAnyAck(p, f) == f.flag = "ack"

IsCurrentAck(p, f) == f.flag = "ack" /\ f.id = send_idx[p] % 2
IsDuplicate(p, f) == f.id = last_id[p] /\ f.chksum = last_chksum[p]
IsMismatch(p, f) == f.id = last_id[p] /\ f.chksum # last_chksum[p]

Store(p, f) ==
  /\ last_id' = [last_id EXCEPT ![p] = f.id]
  /\ last_chksum' = [last_chksum EXCEPT ![p] = f.chksum]
  /\ recv_frames' = [recv_frames EXCEPT ![p] = Append(@, f)]

\* What both loops do with a frame that is not an ACK to act on: acknowledge a
\* duplicate, drop a frame of the last id with another checksum, or store it.
Answer(p, f, loop, ack) ==
  \/ /\ IsDuplicate(p, f)
     /\ ack_id' = [ack_id EXCEPT ![p] = last_id[p]]
     /\ pc' = [pc EXCEPT ![p] = ack]
     /\ UNCHANGED <<last_id, last_chksum, recv_frames>>
  \/ /\ IsMismatch(p, f)
     /\ pc' = [pc EXCEPT ![p] = loop]
     /\ UNCHANGED <<last_id, last_chksum, recv_frames, ack_id>>
  \/ /\ ~IsDuplicate(p, f) /\ ~IsMismatch(p, f)
     /\ Store(p, f)
     /\ ack_id' = [ack_id EXCEPT ![p] = f.id]
     /\ pc' = [pc EXCEPT ![p] = ack]

\* search_frame found a header and returns None: a field of it is refused, and the
\* payload stays on the connection, or the checksum, after as many digits as the
\* length field says.  The main loop resends, the drain loop searches on.
RecvDamaged(p) ==
  /\ pc[p] \in {"recv", "drain"}
  /\ Misled(p) /\ ~astray[p]
  /\ \E n \in 0..Len(wire[p]) : Pass(p, n)
  /\ pc' = [pc EXCEPT ![p] = IF @ = "recv" THEN "send" ELSE "drain"]
  /\ UNCHANGED <<local, rst, damage>>

\* Mutant of RecvAck: off by one, the END frame is never sent.
RecvAckSkipsEnd(p) ==
  /\ pc[p] = "recv"
  /\ Take(p)
  /\ IsCurrentAck(p, Head(wire[p]))
  /\ send_idx' = [send_idx EXCEPT ![p] = @ + 1]
  /\ pc' = [pc EXCEPT ![p] = IF send_idx[p] + 2 = NumFrames(p) THEN "drain" ELSE "send"]
  /\ UNCHANGED <<last_id, last_chksum, recv_frames, ack_id>>

\* Main loop: the ACK of the current frame; after the last one, go and drain.
RecvAck(p) ==
  /\ pc[p] = "recv"
  /\ Take(p)
  /\ IsCurrentAck(p, Head(wire[p]))
  /\ send_idx' = [send_idx EXCEPT ![p] = @ + 1]
  /\ pc' = [pc EXCEPT ![p] = IF send_idx[p] + 1 = NumFrames(p) THEN "drain" ELSE "send"]
  /\ UNCHANGED <<last_id, last_chksum, recv_frames, ack_id>>

\* Mutant of RecvFrame: the result of the integrity check is ignored.
RecvFrameUnchecked(p) ==
  /\ pc[p] = "recv"
  /\ wire[p] # <<>> /\ ~astray[p]
  /\ wire' = [wire EXCEPT ![p] = Tail(@)]
  /\ UNCHANGED <<astray, rst, damage>>
  /\ ~IsCurrentAck(p, Head(wire[p]))
  /\ Answer(p, Head(wire[p]), "send", "ack")
  /\ UNCHANGED send_idx

\* Main loop: anything else, an ACK of another id included.
RecvFrame(p) ==
  /\ pc[p] = "recv"
  /\ Take(p)
  /\ ~IsCurrentAck(p, Head(wire[p]))
  /\ Answer(p, Head(wire[p]), "send", "ack")
  /\ UNCHANGED send_idx

\* Drain loop: every ACK is ignored.
DrainIgnore(p) ==
  /\ pc[p] = "drain"
  /\ Take(p)
  /\ Head(wire[p]).flag = "ack"
  /\ UNCHANGED <<pc, local>>

DrainFrame(p) ==
  /\ pc[p] = "drain"
  /\ Take(p)
  /\ Head(wire[p]).flag # "ack"
  /\ Answer(p, Head(wire[p]), "drain", "drain_ack")
  /\ UNCHANGED send_idx

-----------------------------------------------------------------------------
(* Timeouts, end of file and failures *)

\* select saw nothing for a second, whatever is still in flight, and what the read
\* had taken is lost: nothing, or part of what a misled reader reads, or the
\* beginning of a frame whose rest is late, which counts as damage.
GiveUp(p) ==
  \/ UNCHANGED <<wire, astray, damage>>
  \/ /\ Misled(p)
     /\ \E n \in 0..Len(wire[p]) : Pass(p, n) /\ (astray[p] => n <= 1)
     /\ UNCHANGED damage
  \/ /\ wire[p] # <<>> /\ ~Misled(p)
     /\ damage < MaxDamage
     /\ damage' = damage + 1
     /\ Pass(p, 0)

\* Mutant of RecvTimeout: goes back to the frame before.
TimeoutGoesBack(p) ==
  /\ pc[p] = "recv"
  /\ GiveUp(p)
  /\ pc' = [pc EXCEPT ![p] = "send"]
  /\ send_idx' = [send_idx EXCEPT ![p] = IF @ = 0 THEN 0 ELSE @ - 1]
  /\ UNCHANGED <<last_id, last_chksum, recv_frames, ack_id, rst>>

\* The main loop resends.
RecvTimeout(p) ==
  /\ pc[p] = "recv"
  /\ GiveUp(p)
  /\ pc' = [pc EXCEPT ![p] = "send"]
  /\ UNCHANGED <<local, rst>>

\* Mutant of DrainTimeout: close_node is not set.
DrainTimeoutStays(p) ==
  /\ pc[p] = "drain"
  /\ GiveUp(p)
  /\ UNCHANGED <<pc, local, rst>>

\* The drain loop ends.
DrainTimeout(p) ==
  /\ pc[p] = "drain"
  /\ GiveUp(p)
  /\ Leave(p, "done")

\* The other end has closed and p reads behind the last digit: a misled read may
\* want more digits than there are, but a block wants fewer than a frame has.
ReadsPastEnd(p) ==
  /\ Gone(Other(p)) /\ ~rst[p]
  /\ wire[p] # <<>> => Misled(p) /\ (astray[p] => Len(wire[p]) = 1)
  /\ wire' = [wire EXCEPT ![p] = <<>>]
  /\ astray' = [astray EXCEPT ![p] = FALSE]
  /\ UNCHANGED damage

\* Mutant of Eof: the RuntimeError is handled like the timeout.
EofRetries(p) ==
  /\ pc[p] \in {"recv", "drain"}
  /\ ReadsPastEnd(p)
  /\ pc' = [pc EXCEPT ![p] = IF @ = "recv" THEN "send" ELSE "drain"]
  /\ UNCHANGED <<local, rst>>

\* recv returned no bytes: RuntimeError, and both loops go and write the output.
Eof(p) ==
  /\ pc[p] \in {"recv", "drain"}
  /\ ReadsPastEnd(p)
  /\ Leave(p, "done")

\* The reset arrived: recv or sendall raises ConnectionError, which no handler
\* of run() or of the main program catches.
Reset(p) ==
  /\ ~Gone(p) /\ ~AtInput(p)
  /\ rst[p]
  /\ UNCHANGED <<wire, astray, damage>>
  /\ Leave(p, "crashed")

\* Ctrl-C, which the main program turns into an exit without output.
Interrupt(p) ==
  /\ ~Gone(p)
  /\ UNCHANGED <<wire, astray, damage>>
  /\ Leave(p, "interrupted")

\* No key will come: input() raises EOFError, which nothing catches.
NoKey(p) ==
  /\ AtInput(p)
  /\ UNCHANGED <<wire, astray, damage>>
  /\ Leave(p, "crashed")

\* The emulated medium damages a frame so that its checksum no longer holds.
Damage(p) ==
  /\ damage < MaxDamage
  /\ damage' = damage + 1
  /\ \E i \in 1..Len(wire[p]) :
       /\ wire[p][i].intact
       /\ wire' = [wire EXCEPT ![p][i].intact = FALSE]
  /\ UNCHANGED <<pc, local, astray, rst>>

-----------------------------------------------------------------------------

\* A read that gets something: digits, the end of the connection or a reset.
Read(p) ==
  \/ Block(p)
  \/ RecvDamaged(p)
  \/ RecvAck(p)
  \/ RecvFrame(p)
  \/ DrainIgnore(p)
  \/ DrainFrame(p)
  \/ Eof(p)
  \/ Reset(p)

Run(p) ==
  \/ SendData(p)
  \/ SendAck(p)
  \/ Read(p)
  \/ RecvTimeout(p)
  \/ DrainTimeout(p)

ClientRun == Run("client")
ServerRun == Run("server")

User(p) == Key(p) \/ NoKey(p) \/ Interrupt(p)

Next ==
  \/ ClientRun
  \/ ServerRun
  \/ \E p \in Peer : User(p) \/ Damage(p)

Spec == Init /\ [][Next]_vars

\* Each process keeps running: its calls return once they can, and a select with
\* nothing to read returns after a second.  What the other end sent, and that it
\* closed, arrives at last, so a reader does not time out on it for ever.  No key is
\* ever sure to be pressed.
FairSpec ==
  /\ Spec
  /\ WF_vars(ClientRun) /\ WF_vars(ServerRun)
  /\ \A p \in Peer : SF_vars(Read(p))

-----------------------------------------------------------------------------
(* Properties *)

TypeOK ==
  /\ pc \in [Peer -> {"send", "recv", "input", "ack", "drain", "drain_input",
                      "drain_ack", "done", "crashed", "interrupted"}]
  /\ send_idx \in [Peer -> Nat]
  /\ last_id \in [Peer -> {0, 1}]
  /\ last_chksum \in [Peer -> Checksum]
  /\ recv_frames \in [Peer -> Seq(FrameType)]
  /\ ack_id \in [Peer -> {0, 1}]
  /\ wire \in [Peer -> Seq(FrameType)]
  /\ astray \in [Peer -> BOOLEAN]
  /\ \A p \in Peer : astray[p] => wire[p] # <<>>
  /\ rst \in [Peer -> BOOLEAN]
  /\ damage \in 0..MaxDamage

\* f is one of the first n frames of the other end, as create_frames built it.
Genuine(p, n, f) ==
  f.seq > 0 =>
    /\ f.seq <= n /\ f.seq <= NumFrames(Other(p))
    /\ f.intact => f = send_frames(Other(p), f.seq - 1)

\* How many frames p can have sent.
Sent(p) == send_idx[p] + 1

\* A frame of the file never comes before an earlier one; ACKs have no position.
Before(f, g) == f.seq > 0 /\ g.seq > 0 => f.seq <= g.seq

Ordered(s) == \A i, j \in 1..Len(s) : i < j => Before(s[i], s[j])

\* What p has stored is what the other end sends, in the order it sends it: no
\* damaged or foreign frame is ever stored and a later frame never precedes an
\* earlier one, whatever was resent, damaged or acknowledged out of turn.
InOrder ==
  \A p \in Peer :
    /\ \A i \in 1..Len(recv_frames[p]) :
         recv_frames[p][i].intact /\ Genuine(p, Sent(Other(p)), recv_frames[p][i])
    /\ Ordered(recv_frames[p])

\* Why: the connection itself holds frames of the file in order, and none of them
\* is earlier than a frame already stored.
LineInv ==
  \A p \in Peer :
    /\ \A i \in 1..Len(wire[p]) : Genuine(p, Sent(Other(p)), wire[p][i])
    /\ Ordered(wire[p])
    /\ \A i \in 1..Len(recv_frames[p]), j \in 1..Len(wire[p]) :
         Before(recv_frames[p][i], wire[p][j])

\* An end still in its main loop has a frame to send.
IndexInv ==
  \A p \in Peer :
    /\ send_idx[p] <= NumFrames(p)
    /\ pc[p] \in {"send", "recv", "input", "ack"} => send_idx[p] < NumFrames(p)

HasStored(p, i) == \E k \in 1..Len(recv_frames[p]) : recv_frames[p][k].seq = i

\* An end moves past a frame only after the other end stored it.
AckMeansStored == \A p \in Peer : \A i \in 1..send_idx[p] : HasStored(Other(p), i)

\* When both ends have written their output, nothing is missing from either file.
BothComplete ==
  (\A p \in Peer : pc[p] = "done") =>
    \A p \in Peer : \A i \in 1..NumFrames(Other(p)) : HasStored(p, i)

\* Both ends wait in sendall for the other one to read.
Wedged ==
  \A p \in Peer : pc[p] \in {"send", "ack", "drain_ack"} /\ Len(wire[p]) >= Cap

\* p reads from where a frame begins, and waits for no key.
InStep(p) == Gone(p) \/ (~astray[p] /\ ~AtInput(p))

\* A run ends, or both ends wait for each other in sendall, provided that an end put
\* out of step by damage gets back: the right number of digits and keys is not in the
\* hands of the program.
EndsOrWedges ==
  (\A p \in Peer : []<>InStep(p)) => <>((\A p \in Peer : Gone(p)) \/ Wedged)

\* When one end leaves, the other one does not stay behind, in step or not, unless
\* nobody presses the key that it waits for.
LeavesTogether ==
  \A p \in Peer : []<>(~AtInput(Other(p))) => (Gone(p) ~> Gone(Other(p)))
=============================================================================

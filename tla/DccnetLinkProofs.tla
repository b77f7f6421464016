-------------------------- MODULE DccnetLinkProofs --------------------------
(***************************************************************************)
(* Proofs about DccnetLink for every pair of files, every capacity of the  *)
(* connection and every number of damaged frames.                          *)
(***************************************************************************)
EXTENDS DccnetLink, TLAPS

-----------------------------------------------------------------------------
(* Types *)

\* There are exactly two ends, and each is the other one's other end.
LEMMA Ends ==
  ASSUME NEW p \in Peer
  PROVE  Other(p) \in Peer /\ Other(Other(p)) = p /\ Other(p) # p
         /\ \A q \in Peer : q = p \/ q = Other(p)
BY DEF Peer, Other

\* A checksum is a number of 16 bits, and never the initial last_chksum.
LEMMA Checksums ==
  ASSUME NEW flag \in Flag, NEW id \in {0, 1}, NEW sum \in Nat
  PROVE  /\ compute_checksum(flag, id, sum) \in Checksum
         /\ compute_checksum(flag, id, sum) # NoChksum
<1>0. Ones \in Nat /\ Ones > 0
  BY DEF Ones
<1>1. FlagByte(flag) \in Nat
  BY DEF FlagByte
<1>2. PICK n \in Nat : n = 256 * id + FlagByte(flag) + sum
  BY <1>1
<1>3. PICK c : c = n % Ones
  OBVIOUS
<1>4. compute_checksum(flag, id, sum) = c
  BY <1>2, <1>3 DEF compute_checksum
<1>5. c \in 0..(Ones - 1)
  BY <1>0, <1>3
<1>6. c # NoChksum
  BY <1>0, <1>5 DEF NoChksum
<1> QED
  BY <1>4, <1>5, <1>6, Zenon DEF Checksum

\* What a frame is made of.
LEMMA FrameFields ==
  ASSUME NEW flag \in Flag, NEW id \in {0, 1}, NEW sum \in Nat, NEW seq \in Nat
  PROVE  /\ Frame(flag, id, sum, seq) \in FrameType
         /\ Frame(flag, id, sum, seq).intact
         /\ Frame(flag, id, sum, seq).chksum # NoChksum
         /\ Frame(flag, id, sum, seq).flag = flag
         /\ Frame(flag, id, sum, seq).id = id
         /\ Frame(flag, id, sum, seq).seq = seq
BY Checksums DEF Frame, FrameType

\* create_frames builds well-formed frames, numbered from 1.
LEMMA SendFrames ==
  ASSUME NEW p \in Peer, NEW i \in Nat
  PROVE  /\ send_frames(p, i) \in FrameType
         /\ send_frames(p, i).seq = i + 1
         /\ send_frames(p, i).intact
<1>1. i % 2 \in {0, 1} /\ i + 1 \in Nat /\ "data" \in Flag /\ "end" \in Flag
  BY DEF Flag
<1>2. CASE i < Len(Input[p])
  <2>1. Input[p] \in Seq(Nat)
    BY LinkAssumption
  <2>2. Input[p][i + 1] \in Nat
    BY <1>2, <2>1
  <2> QED
    BY <1>1, <1>2, <2>2, FrameFields, SMTT(30) DEF send_frames
<1>3. CASE ~(i < Len(Input[p]))
  BY <1>1, <1>3, FrameFields DEF send_frames
<1> QED
  BY <1>2, <1>3

\* An ACK frame is well formed and carries no position.
LEMMA AckFrames ==
  ASSUME NEW id \in {0, 1}
  PROVE  AckFrame(id) \in FrameType /\ AckFrame(id).seq = 0
BY FrameFields DEF AckFrame, Flag

\* A reader that is inside a frame has some of it left on the connection.
Inside == \A p \in Peer : astray[p] => wire[p] # <<>>

LEMMA InitType == Init => TypeOK
<1> SUFFICES ASSUME Init PROVE TypeOK
  OBVIOUS
<1>1. MaxDamage \in Nat
  BY LinkAssumption
<1>2. NoChksum \in Checksum
  BY DEF NoChksum, Checksum
<1> QED
  BY <1>1, <1>2 DEF Init, TypeOK

\* sendall adds one well-formed frame to the connection, or none.
LEMMA SendallType ==
  ASSUME TypeOK, NEW p \in Peer, NEW f \in FrameType, sendall(p, f)
  PROVE  /\ wire' \in [Peer -> Seq(FrameType)] /\ rst' \in [Peer -> BOOLEAN]
         /\ astray' = astray /\ Inside'
<1>1. Other(p) \in Peer
  BY Ends
<1>2. Append(wire[Other(p)], f) \in Seq(FrameType)
  BY <1>1 DEF TypeOK
<1>3. [wire EXCEPT ![Other(p)] = Append(@, f)] \in [Peer -> Seq(FrameType)]
  BY <1>2 DEF TypeOK
<1>4. wire' = wire \/ wire' = [wire EXCEPT ![Other(p)] = Append(@, f)]
  BY DEF sendall
<1>5. rst' = rst \/ rst' = [rst EXCEPT ![p] = TRUE]
  BY DEF sendall
<1>6. rst' \in [Peer -> BOOLEAN]
  BY <1>5 DEF TypeOK
<1>7. astray' = astray
  BY DEF sendall
<1>8. Append(wire[Other(p)], f) # <<>>
  <2>1. wire[Other(p)] \in Seq(FrameType)
    BY <1>1 DEF TypeOK
  <2>2. Len(Append(wire[Other(p)], f)) = Len(wire[Other(p)]) + 1
    BY <2>1
  <2> QED
    BY <2>1, <2>2
<1>9. Inside'
  BY <1>1, <1>4, <1>7, <1>8 DEF TypeOK, Inside
<1> QED
  BY <1>3, <1>4, <1>6, <1>7, <1>9 DEF TypeOK

\* Taking a frame leaves a sequence of frames.
LEMMA TakeType ==
  ASSUME TypeOK, NEW p \in Peer, Take(p)
  PROVE  /\ Head(wire[p]) \in FrameType /\ wire' \in [Peer -> Seq(FrameType)]
         /\ Head(wire[p]).intact /\ ~astray[p] /\ Inside'
<1>1. wire[p] \in Seq(FrameType) /\ wire[p] # <<>>
  BY DEF TypeOK, Take
<1>2. Head(wire[p]) \in FrameType /\ Tail(wire[p]) \in Seq(FrameType)
  BY <1>1
<1>3. Head(wire[p]).intact /\ ~astray[p]
  BY DEF Take, Misled
<1> QED
  BY <1>2, <1>3 DEF TypeOK, Take, Inside

\* A misled read leaves the end of the connection, and stops inside a frame only when
\* there is one.
LEMMA PassType ==
  ASSUME TypeOK, NEW p \in Peer, NEW n \in Nat, Pass(p, n)
  PROVE  /\ n \in 0..Len(wire[p])
         /\ wire' = [wire EXCEPT ![p] = SubSeq(@, n + 1, Len(@))]
         /\ wire' \in [Peer -> Seq(FrameType)]
         /\ astray' \in [Peer -> BOOLEAN] /\ Inside'
<1>1. n \in 0..Len(wire[p]) /\ wire[p] \in Seq(FrameType)
  BY DEF TypeOK, Pass
<1>2. wire' = [wire EXCEPT ![p] = SubSeq(@, n + 1, Len(@))]
  BY DEF Pass
<1>3. PICK inside \in BOOLEAN :
        (inside => n < Len(wire[p])) /\ astray' = [astray EXCEPT ![p] = inside]
  BY DEF Pass
<1>4. /\ SubSeq(wire[p], n + 1, Len(wire[p])) \in Seq(FrameType)
      /\ n < Len(wire[p]) => SubSeq(wire[p], n + 1, Len(wire[p])) # <<>>
  BY <1>1
<1> QED
  BY <1>1, <1>2, <1>3, <1>4 DEF TypeOK, Inside

\* So does a read that times out.
LEMMA GiveUpType ==
  ASSUME TypeOK, NEW p \in Peer, GiveUp(p)
  PROVE  /\ \/ wire' = wire
            \/ \E n \in 0..Len(wire[p]) :
                 wire' = [wire EXCEPT ![p] = SubSeq(@, n + 1, Len(@))]
         /\ wire' \in [Peer -> Seq(FrameType)]
         /\ astray' \in [Peer -> BOOLEAN] /\ Inside'
         /\ damage' \in 0..MaxDamage
<1>1. CASE UNCHANGED <<wire, astray, damage>>
  BY <1>1 DEF TypeOK, Inside
<1>2. CASE UNCHANGED damage /\ \E n \in 0..Len(wire[p]) : Pass(p, n)
  <2>1. PICK n \in 0..Len(wire[p]) : Pass(p, n)
    BY <1>2
  <2>2. n \in Nat
    BY <2>1
  <2> QED
    BY <1>2, <2>1, <2>2, PassType DEF TypeOK
<1>3. CASE damage < MaxDamage /\ damage' = damage + 1 /\ Pass(p, 0)
  <2>1. damage' \in 0..MaxDamage
    BY <1>3, LinkAssumption DEF TypeOK
  <2> QED
    BY <1>3, <2>1, PassType
<1> QED
  BY <1>1, <1>2, <1>3 DEF GiveUp

\* Both loops answer a frame with well-typed state.
LEMMA AnswerType ==
  ASSUME TypeOK, NEW p \in Peer, NEW f \in FrameType,
         NEW loop \in {"send", "drain"}, NEW ack \in {"ack", "drain_ack"},
         Answer(p, f, loop, ack)
  PROVE  /\ pc' = [pc EXCEPT ![p] = loop] \/ pc' = [pc EXCEPT ![p] = ack]
         /\ last_id' \in [Peer -> {0, 1}]
         /\ last_chksum' \in [Peer -> Checksum]
         /\ recv_frames' \in [Peer -> Seq(FrameType)]
         /\ ack_id' \in [Peer -> {0, 1}]
<1>1. f.id \in {0, 1} /\ f.chksum \in Checksum /\ last_id[p] \in {0, 1}
  BY DEF FrameType, TypeOK
<1>2. Append(recv_frames[p], f) \in Seq(FrameType)
  BY DEF TypeOK
<1>3. /\ last_id \in [Peer -> {0, 1}] /\ last_chksum \in [Peer -> Checksum]
      /\ recv_frames \in [Peer -> Seq(FrameType)] /\ ack_id \in [Peer -> {0, 1}]
  BY DEF TypeOK
<1> QED
  BY <1>1, <1>2, <1>3 DEF Answer, Store

LEMMA LeaveType ==
  ASSUME TypeOK, NEW p \in Peer, NEW how \in {"done", "crashed", "interrupted"},
         Leave(p, how), wire' \in [Peer -> Seq(FrameType)],
         astray' \in [Peer -> BOOLEAN], Inside', damage' \in 0..MaxDamage
  PROVE  TypeOK'
<1>1. (rst[Other(p)] \/ wire'[p] # <<>>) \in BOOLEAN
  OBVIOUS
<1>2. rst' \in [Peer -> BOOLEAN]
  BY <1>1, Ends DEF Leave, TypeOK
<1> QED
  BY <1>2 DEF Leave, TypeOK, Inside, local

\* One case for each action: a step keeps the types.
LEMMA NextType == TypeOK /\ [Next]_vars => TypeOK'
<1> SUFFICES ASSUME TypeOK, [Next]_vars PROVE TypeOK'
  OBVIOUS
<1> USE DEF Inside
<1>1. ASSUME NEW p \in Peer, SendData(p) PROVE TypeOK'
  <2>1. send_frames(p, send_idx[p]) \in FrameType
    BY SendFrames DEF TypeOK
  <2>2. /\ wire' \in [Peer -> Seq(FrameType)] /\ rst' \in [Peer -> BOOLEAN]
        /\ astray' = astray /\ Inside'
    BY <1>1, <2>1, SendallType DEF SendData
  <2> QED
    BY <1>1, <2>2 DEF SendData, TypeOK, local
<1>2. ASSUME NEW p \in Peer, SendAck(p) PROVE TypeOK'
  <2>1. AckFrame(ack_id[p]) \in FrameType
    BY AckFrames DEF TypeOK
  <2>2. /\ wire' \in [Peer -> Seq(FrameType)] /\ rst' \in [Peer -> BOOLEAN]
        /\ astray' = astray /\ Inside'
    BY <1>2, <2>1, SendallType DEF SendAck
  <2> QED
    BY <1>2, <2>2 DEF SendAck, TypeOK, local
<1>3. ASSUME NEW p \in Peer, Block(p) \/ RecvDamaged(p) PROVE TypeOK'
  <2>1. PICK n \in Nat : Pass(p, n)
    BY <1>3 DEF Block, RecvDamaged
  <2> QED
    BY <1>3, <2>1, PassType DEF Block, RecvDamaged, TypeOK, local
<1>4. ASSUME NEW p \in Peer, RecvAck(p) PROVE TypeOK'
  <2>1. wire' \in [Peer -> Seq(FrameType)] /\ Inside' /\ UNCHANGED <<astray, rst, damage>>
    BY <1>4, TakeType DEF RecvAck, Take
  <2>2. send_idx' \in [Peer -> Nat]
    BY <1>4 DEF RecvAck, TypeOK
  <2>3. pc' = [pc EXCEPT ![p] = "drain"] \/ pc' = [pc EXCEPT ![p] = "send"]
    BY <1>4 DEF RecvAck
  <2> QED
    BY <1>4, <2>1, <2>2, <2>3 DEF RecvAck, TypeOK
<1>5. ASSUME NEW p \in Peer, RecvFrame(p) PROVE TypeOK'
  <2>1. Take(p) /\ Answer(p, Head(wire[p]), "send", "ack")
    BY <1>5 DEF RecvFrame
  <2>2. /\ Head(wire[p]) \in FrameType /\ wire' \in [Peer -> Seq(FrameType)]
        /\ Inside'
    BY <2>1, TakeType
  <2> QED
    BY <1>5, <2>1, <2>2, AnswerType, ZenonT(40) DEF RecvFrame, Take, TypeOK
<1>6. ASSUME NEW p \in Peer, DrainIgnore(p) PROVE TypeOK'
  BY <1>6, TakeType DEF DrainIgnore, Take, TypeOK, local
<1>7. ASSUME NEW p \in Peer, DrainFrame(p) PROVE TypeOK'
  <2>1. Take(p) /\ Answer(p, Head(wire[p]), "drain", "drain_ack")
    BY <1>7 DEF DrainFrame
  <2>2. /\ Head(wire[p]) \in FrameType /\ wire' \in [Peer -> Seq(FrameType)]
        /\ Inside'
    BY <2>1, TakeType
  <2> QED
    BY <1>7, <2>1, <2>2, AnswerType, ZenonT(40) DEF DrainFrame, Take, TypeOK
<1>8. ASSUME NEW p \in Peer, RecvTimeout(p) PROVE TypeOK'
  <2>1. GiveUp(p)
    BY <1>8 DEF RecvTimeout
  <2> QED
    BY <1>8, <2>1, GiveUpType DEF RecvTimeout, TypeOK, local
<1>9. ASSUME NEW p \in Peer, DrainTimeout(p) PROVE TypeOK'
  <2>1. GiveUp(p) /\ Leave(p, "done")
    BY <1>9 DEF DrainTimeout
  <2> QED
    BY <2>1, GiveUpType, LeaveType
<1>13. ASSUME NEW p \in Peer, Eof(p) PROVE TypeOK'
  <2>1. ReadsPastEnd(p) /\ Leave(p, "done")
    BY <1>13 DEF Eof
  <2>2. <<>> \in Seq(FrameType)
    OBVIOUS
  <2>3. /\ wire' \in [Peer -> Seq(FrameType)] /\ damage' = damage
        /\ astray' \in [Peer -> BOOLEAN] /\ Inside'
    BY <2>1, <2>2 DEF ReadsPastEnd, TypeOK
  <2> QED
    BY <2>1, <2>3, LeaveType DEF TypeOK
<1>14. ASSUME NEW p \in Peer, Reset(p) \/ Interrupt(p) \/ NoKey(p) PROVE TypeOK'
  <2>1. UNCHANGED <<wire, astray, damage>>
    BY <1>14 DEF Reset, Interrupt, NoKey
  <2>2. /\ wire' \in [Peer -> Seq(FrameType)] /\ damage' \in 0..MaxDamage
        /\ astray' \in [Peer -> BOOLEAN] /\ Inside'
    BY <2>1 DEF TypeOK
  <2> QED
    BY <1>14, <2>2, LeaveType DEF Reset, Interrupt, NoKey
<1>15. ASSUME NEW p \in Peer, Key(p) PROVE TypeOK'
  BY <1>15 DEF Key, TypeOK, local
<1>10. ASSUME NEW p \in Peer, Damage(p) PROVE TypeOK'
  <2>1. damage' \in 0..MaxDamage
    BY <1>10, LinkAssumption DEF Damage, TypeOK
  <2>2. PICK i \in 1..Len(wire[p]) : wire' = [wire EXCEPT ![p][i].intact = FALSE]
    BY <1>10 DEF Damage
  <2>3. wire[p] \in Seq(FrameType) /\ wire[p][i] \in FrameType
    BY <2>2 DEF TypeOK
  <2>4. [wire[p][i] EXCEPT !.intact = FALSE] \in FrameType
    BY <2>3 DEF FrameType
  <2>5. [wire[p] EXCEPT ![i] = [wire[p][i] EXCEPT !.intact = FALSE]] \in Seq(FrameType)
    BY <2>3, <2>4
  <2>6. wire' \in [Peer -> Seq(FrameType)]
    BY <2>2, <2>5 DEF TypeOK
  <2>7. [wire[p] EXCEPT ![i] = [wire[p][i] EXCEPT !.intact = FALSE]] # <<>>
    BY <2>2, <2>3
  <2>8. Inside'
    BY <1>10, <2>2, <2>7 DEF Damage, TypeOK
  <2> QED
    BY <1>10, <2>1, <2>6, <2>8 DEF Damage, TypeOK, local
<1>11. CASE UNCHANGED vars
  BY <1>11 DEF vars, local, TypeOK
<1>12. "client" \in Peer /\ "server" \in Peer
  BY DEF Peer
<1> QED
  BY <1>1, <1>2, <1>3, <1>4, <1>5, <1>6, <1>7, <1>8, <1>9, <1>10, <1>11, <1>12,
     <1>13, <1>14, <1>15
     DEF Next, ClientRun, ServerRun, Run, Read, User

\* Every variable keeps its type whatever the two files, the capacity and the
\* damage: in particular ids stay one bit and only well-formed frames are sent
\* or stored.
THEOREM TypeCorrect == Spec => []TypeOK
<1>1. Init => TypeOK
  BY InitType
<1>2. TypeOK /\ [Next]_vars => TypeOK'
  BY NextType
<1> QED
  BY <1>1, <1>2, PTL DEF Spec

-----------------------------------------------------------------------------
(* Order *)

\* The part of the invariant about one end and the connection towards it.
EndInv(p) ==
  /\ \A i \in 1..Len(recv_frames[p]) :
       recv_frames[p][i].intact /\ Genuine(p, Sent(Other(p)), recv_frames[p][i])
  /\ Ordered(recv_frames[p])
  /\ \A i \in 1..Len(wire[p]) : Genuine(p, Sent(Other(p)), wire[p][i])
  /\ Ordered(wire[p])
  /\ \A i \in 1..Len(recv_frames[p]), j \in 1..Len(wire[p]) :
       Before(recv_frames[p][i], wire[p][j])

\* The inductive invariant.
IInv == TypeOK /\ IndexInv /\ \A p \in Peer : EndInv(p)

\* A frame no earlier than those of an ordered sequence can be added to it.
LEMMA OrderedAppend ==
  ASSUME NEW s \in Seq(FrameType), NEW f \in FrameType, Ordered(s),
         \A i \in 1..Len(s) : Before(s[i], f)
  PROVE  Ordered(Append(s, f))
<1> SUFFICES ASSUME NEW i \in 1..Len(Append(s, f)), NEW j \in 1..Len(Append(s, f)), i < j
             PROVE  Before(Append(s, f)[i], Append(s, f)[j])
  BY DEF Ordered
<1>1. Len(Append(s, f)) = Len(s) + 1
  OBVIOUS
<1>2. i \in 1..Len(s) /\ Append(s, f)[i] = s[i]
  BY <1>1
<1>3. CASE j \in 1..Len(s)
  <2>1. Append(s, f)[j] = s[j]
    BY <1>3
  <2> QED
    BY <1>2, <1>3, <2>1 DEF Ordered
<1>4. CASE j = Len(s) + 1
  BY <1>2, <1>4
<1> QED
  BY <1>1, <1>3, <1>4

\* Dropping the first frame keeps the order.
LEMMA OrderedTail ==
  ASSUME NEW s \in Seq(FrameType), s # <<>>, Ordered(s)
  PROVE  Ordered(Tail(s))
<1>1. Len(Tail(s)) = Len(s) - 1 /\ \A i \in 1..Len(Tail(s)) : Tail(s)[i] = s[i + 1]
  OBVIOUS
<1> QED
  BY <1>1 DEF Ordered

\* What was sent stays sent: the sender's index never goes back.
LEMMA GenuineStays ==
  ASSUME NEW p \in Peer, NEW f \in FrameType, NEW m \in Nat, NEW n \in Nat,
         m <= n, Genuine(p, m, f)
  PROVE  Genuine(p, n, f)
BY DEF Genuine, FrameType

\* The indices of what an end stores and of what travels to it hold frames.
LEMMA FramesHeld ==
  ASSUME TypeOK, NEW p \in Peer
  PROVE  /\ \A i \in 1..Len(recv_frames[p]) : recv_frames[p][i] \in FrameType
         /\ \A i \in 1..Len(wire[p]) : wire[p][i] \in FrameType
         /\ Sent(p) \in Nat /\ Sent(Other(p)) \in Nat
BY Ends DEF TypeOK, Sent

LEMMA InitOrder == Init => IInv
<1> SUFFICES ASSUME Init PROVE IInv
  OBVIOUS
<1>1. TypeOK
  BY InitType
<1>2. \A p \in Peer : Input[p] \in Seq(Nat) /\ Len(Input[p]) > 0
  BY LinkAssumption
<1>3. IndexInv
  BY <1>2 DEF Init, IndexInv, NumFrames
<1>4. \A p \in Peer : recv_frames[p] = <<>> /\ wire[p] = <<>>
  BY DEF Init
<1>5. \A p \in Peer : EndInv(p)
  BY <1>4 DEF EndInv, Ordered
<1> QED
  BY <1>1, <1>3, <1>5 DEF IInv

\* An end the step does not touch keeps its part of the invariant.
LEMMA EndUntouched ==
  ASSUME TypeOK, TypeOK', NEW p \in Peer, EndInv(p),
         wire'[p] = wire[p], recv_frames'[p] = recv_frames[p],
         send_idx[Other(p)] <= send_idx'[Other(p)]
  PROVE  EndInv(p)'
<1>1. Sent(Other(p)) \in Nat /\ Sent(Other(p))' \in Nat /\ Sent(Other(p)) <= Sent(Other(p))'
  BY Ends DEF Sent, TypeOK
<1>2. /\ \A i \in 1..Len(recv_frames[p]) : Genuine(p, Sent(Other(p))', recv_frames[p][i])
      /\ \A i \in 1..Len(wire[p]) : Genuine(p, Sent(Other(p))', wire[p][i])
  BY <1>1, FramesHeld, GenuineStays DEF EndInv
<1> QED
  BY <1>2 DEF EndInv, Ordered

\* Sending the current frame or an ACK keeps the connection in order: the current
\* frame is the latest one in it.
LEMMA SendKeeps ==
  ASSUME IInv, TypeOK', NEW p \in Peer, NEW f \in FrameType, sendall(p, f),
         UNCHANGED <<recv_frames, send_idx>>,
         \/ f.seq = 0
         \/ send_idx[p] < NumFrames(p) /\ f = send_frames(p, send_idx[p])
  PROVE  \A r \in Peer : EndInv(r)'
<1> DEFINE q == Other(p)
<1>1. /\ q \in Peer /\ Other(q) = p /\ TypeOK /\ EndInv(q) /\ send_idx[p] \in Nat
      /\ Sent(p) \in Nat /\ Sent(p)' = Sent(p)
  BY Ends DEF IInv, TypeOK, Sent
<1>2. ASSUME NEW r \in Peer, wire'[r] = wire[r] PROVE EndInv(r)'
  <2>1. send_idx[Other(r)] \in Nat /\ EndInv(r)
    BY Ends DEF IInv, TypeOK
  <2> QED
    BY <1>1, <1>2, <2>1, EndUntouched
<1>3. CASE wire' = wire
  BY <1>2, <1>3
<1>4. CASE wire' = [wire EXCEPT ![q] = Append(@, f)]
  <2>1. \A r \in Peer : r # q => wire'[r] = wire[r]
    BY <1>1, <1>4 DEF TypeOK
  <2>2. wire'[q] = Append(wire[q], f) /\ wire[q] \in Seq(FrameType)
    BY <1>1, <1>4 DEF TypeOK
  <2>3. f.seq > 0 => f.seq = Sent(p) /\ f.seq <= NumFrames(p) /\ f = send_frames(p, f.seq - 1)
    <3>1. CASE f.seq = 0
      BY <3>1
    <3>2. CASE send_idx[p] < NumFrames(p) /\ f = send_frames(p, send_idx[p])
      <4>1. f.seq = send_idx[p] + 1
        BY <1>1, <3>2, SendFrames
      <4>2. Len(Input[p]) \in Nat
        BY LinkAssumption
      <4> QED
        BY <1>1, <3>2, <4>1, <4>2 DEF Sent, NumFrames
    <3> QED
      BY <3>1, <3>2
  <2>4. \A g \in FrameType : Genuine(q, Sent(p), g) => Before(g, f)
    BY <1>1, <2>3 DEF Genuine, Before, FrameType
  <2>5. Genuine(q, Sent(p), f)
    BY <1>1, <2>3 DEF Genuine
  <2>6. /\ \A i \in 1..Len(wire[q]) : wire[q][i] \in FrameType /\ Genuine(q, Sent(p), wire[q][i])
        /\ \A i \in 1..Len(recv_frames[q]) :
             recv_frames[q][i] \in FrameType /\ Genuine(q, Sent(p), recv_frames[q][i])
    BY <1>1, FramesHeld DEF EndInv
  <2>7. /\ Len(wire'[q]) = Len(wire[q]) + 1
        /\ \A i \in 1..Len(wire[q]) : wire'[q][i] = wire[q][i]
        /\ wire'[q][Len(wire[q]) + 1] = f
    BY <2>2
  <2>8. \A i \in 1..Len(wire'[q]) : Genuine(q, Sent(p), wire'[q][i])
    BY <2>2, <2>5, <2>6, <2>7
  <2>9. Ordered(wire'[q])
    BY <1>1, <2>2, <2>4, <2>6, OrderedAppend DEF EndInv
  <2>10. \A i \in 1..Len(recv_frames[q]), j \in 1..Len(wire'[q]) :
           Before(recv_frames[q][i], wire'[q][j])
    BY <1>1, <2>2, <2>4, <2>6, <2>7 DEF EndInv
  <2>11. EndInv(q)'
    BY <1>1, <2>8, <2>9, <2>10 DEF EndInv, Ordered
  <2> QED
    BY <1>2, <2>1, <2>11
<1> QED
  BY <1>3, <1>4 DEF sendall

\* What is left of the connection once its first frame f is taken.
LEMMA TakeLeaves ==
  ASSUME IInv, TypeOK', NEW p \in Peer, Take(p),
         \A r \in Peer : send_idx[r] <= send_idx'[r]
  PROVE  /\ Head(wire[p]) \in FrameType
         /\ Genuine(p, Sent(Other(p))', Head(wire[p]))
         /\ \A i \in 1..Len(recv_frames[p]) : Before(recv_frames[p][i], Head(wire[p]))
         /\ \A j \in 1..Len(wire'[p]) :
              /\ Genuine(p, Sent(Other(p))', wire'[p][j])
              /\ Before(Head(wire[p]), wire'[p][j])
              /\ \A i \in 1..Len(recv_frames[p]) : Before(recv_frames[p][i], wire'[p][j])
         /\ Ordered(wire'[p])
         /\ \A i \in 1..Len(recv_frames[p]) : Genuine(p, Sent(Other(p))', recv_frames[p][i])
<1>1. TypeOK /\ EndInv(p) /\ Other(p) \in Peer
  BY Ends DEF IInv
<1>2. Sent(Other(p)) \in Nat /\ Sent(Other(p))' \in Nat /\ Sent(Other(p)) <= Sent(Other(p))'
  BY <1>1, SMTT(30) DEF Sent, TypeOK
<1>3. wire[p] \in Seq(FrameType) /\ wire[p] # <<>> /\ wire'[p] = Tail(wire[p])
  BY <1>1 DEF Take, TypeOK
<1>4. /\ Len(wire'[p]) = Len(wire[p]) - 1
      /\ \A j \in 1..Len(wire'[p]) : wire'[p][j] = wire[p][j + 1]
      /\ Head(wire[p]) = wire[p][1] /\ Head(wire[p]) \in FrameType
  BY <1>3
<1>5. /\ \A i \in 1..Len(recv_frames[p]) : Genuine(p, Sent(Other(p))', recv_frames[p][i])
      /\ \A i \in 1..Len(wire[p]) : Genuine(p, Sent(Other(p))', wire[p][i])
  BY <1>1, <1>2, FramesHeld, GenuineStays DEF EndInv
<1>6. \A j \in 1..Len(wire'[p]) :
        /\ Genuine(p, Sent(Other(p))', wire'[p][j])
        /\ Before(Head(wire[p]), wire'[p][j])
        /\ \A i \in 1..Len(recv_frames[p]) : Before(recv_frames[p][i], wire'[p][j])
  BY <1>1, <1>3, <1>4, <1>5 DEF EndInv, Ordered
<1>7. \A i \in 1..Len(recv_frames[p]) : Before(recv_frames[p][i], Head(wire[p]))
  BY <1>1, <1>3, <1>4 DEF EndInv
<1>8. Genuine(p, Sent(Other(p))', Head(wire[p]))
  BY <1>3, <1>4, <1>5
<1>9. Ordered(wire'[p])
  BY <1>1, <1>3, OrderedTail DEF EndInv
<1> QED
  BY <1>4, <1>5, <1>6, <1>7, <1>8, <1>9

\* The other end keeps its part when p takes a frame.
LEMMA TakeElsewhere ==
  ASSUME IInv, TypeOK', NEW p \in Peer, Take(p), NEW r \in Peer, r # p,
         recv_frames'[r] = recv_frames[r], \A q \in Peer : send_idx[q] <= send_idx'[q]
  PROVE  EndInv(r)'
<1>1. wire'[r] = wire[r] /\ TypeOK /\ EndInv(r) /\ Other(r) \in Peer
  BY Ends DEF Take, TypeOK, IInv
<1> QED
  BY <1>1, EndUntouched

\* Taking the first frame keeps what is left in order, after what is stored.
LEMMA TakeKeeps ==
  ASSUME IInv, TypeOK', NEW p \in Peer, Take(p), UNCHANGED recv_frames,
         \A r \in Peer : send_idx[r] <= send_idx'[r]
  PROVE  \A r \in Peer : EndInv(r)'
<1>1. EndInv(p)'
  <2>1. EndInv(p)
    BY DEF IInv
  <2> QED
    BY <2>1, TakeLeaves DEF EndInv, Ordered
<1> QED
  BY <1>1, TakeElsewhere

\* Storing the intact frame just taken keeps the stored frames in order.
LEMMA StoreKeeps ==
  ASSUME IInv, TypeOK', NEW p \in Peer, Take(p),
         Head(wire[p]).intact, Store(p, Head(wire[p])), UNCHANGED send_idx
  PROVE  \A r \in Peer : EndInv(r)'
<1>1. TypeOK /\ EndInv(p)
  BY DEF IInv
<1>2. \A r \in Peer : send_idx[r] <= send_idx'[r]
  BY <1>1 DEF TypeOK
<1>3. ASSUME NEW r \in Peer, r # p PROVE EndInv(r)'
  <2>1. recv_frames'[r] = recv_frames[r]
    BY <1>1, <1>3 DEF Store, TypeOK
  <2> QED
    BY <1>2, <1>3, <2>1, TakeElsewhere
<1>4. EndInv(p)'
  <2>1. /\ recv_frames[p] \in Seq(FrameType)
        /\ recv_frames'[p] = Append(recv_frames[p], Head(wire[p]))
    BY <1>1 DEF Store, TypeOK
  <2>2. Head(wire[p]) \in FrameType
    BY <1>2, TakeLeaves
  <2>3. /\ Len(recv_frames'[p]) = Len(recv_frames[p]) + 1
        /\ \A i \in 1..Len(recv_frames[p]) : recv_frames'[p][i] = recv_frames[p][i]
        /\ recv_frames'[p][Len(recv_frames[p]) + 1] = Head(wire[p])
    BY <2>1, <2>2
  <2>4. Ordered(recv_frames'[p])
    BY <1>1, <1>2, <2>1, <2>2, TakeLeaves, OrderedAppend DEF EndInv
  <2>5. \A i \in 1..Len(recv_frames'[p]) :
          /\ recv_frames'[p][i].intact
          /\ Genuine(p, Sent(Other(p))', recv_frames'[p][i])
    BY <1>1, <1>2, <2>1, <2>3, TakeLeaves DEF EndInv
  <2>6. \A i \in 1..Len(recv_frames'[p]), j \in 1..Len(wire'[p]) :
          Before(recv_frames'[p][i], wire'[p][j])
    BY <1>2, <2>1, <2>3, TakeLeaves
  <2>7. /\ Ordered(wire'[p])
        /\ \A j \in 1..Len(wire'[p]) : Genuine(p, Sent(Other(p))', wire'[p][j])
    BY <1>2, TakeLeaves
  <2> QED
    BY <2>4, <2>5, <2>6, <2>7 DEF EndInv, Ordered
<1> QED
  BY <1>3, <1>4

\* Whatever either loop answers, the order is kept.
LEMMA AnswerKeeps ==
  ASSUME IInv, TypeOK', NEW p \in Peer, Take(p),
         NEW loop, NEW ack, Answer(p, Head(wire[p]), loop, ack), UNCHANGED send_idx
  PROVE  \A r \in Peer : EndInv(r)'
<1>1. (\A r \in Peer : send_idx[r] <= send_idx'[r]) /\ Head(wire[p]).intact
  BY TakeType DEF IInv, TypeOK
<1>2. UNCHANGED recv_frames \/ Store(p, Head(wire[p]))
  BY DEF Answer
<1> QED
  BY <1>1, <1>2, TakeKeeps, StoreKeeps

\* The rest of an ordered sequence is ordered.
LEMMA OrderedRest ==
  ASSUME NEW s \in Seq(FrameType), NEW n \in 0..Len(s)
  PROVE  /\ Len(SubSeq(s, n + 1, Len(s))) = Len(s) - n
         /\ \A j \in 1..(Len(s) - n) :
              j + n \in 1..Len(s) /\ SubSeq(s, n + 1, Len(s))[j] = s[j + n]
         /\ Ordered(s) => Ordered(SubSeq(s, n + 1, Len(s)))
<1> DEFINE t == SubSeq(s, n + 1, Len(s))
<1>1. /\ Len(s) \in Nat /\ Len(t) = Len(s) - n
      /\ \A j \in 1..(Len(s) - n) : j + n \in 1..Len(s) /\ t[j] = s[j + n]
  OBVIOUS
<1>2. ASSUME Ordered(s), NEW i \in 1..Len(t), NEW j \in 1..Len(t), i < j
      PROVE  Before(t[i], t[j])
  <2>1. i + n \in 1..Len(s) /\ j + n \in 1..Len(s) /\ i + n < j + n
    BY <1>1, <1>2
  <2> QED
    BY <1>1, <1>2, <2>1 DEF Ordered
<1> QED
  BY <1>1, <1>2 DEF Ordered

\* A read that throws away the beginning of what is in flight keeps the order.
LEMMA PassKeeps ==
  ASSUME IInv, TypeOK', NEW p \in Peer, NEW n \in 0..Len(wire[p]),
         wire' = [wire EXCEPT ![p] = SubSeq(@, n + 1, Len(@))],
         UNCHANGED <<recv_frames, send_idx>>
  PROVE  \A r \in Peer : EndInv(r)'
<1>1. TypeOK /\ EndInv(p) /\ wire[p] \in Seq(FrameType)
  BY DEF IInv, TypeOK
<1>2. ASSUME NEW r \in Peer, r # p PROVE EndInv(r)'
  <2>1. wire'[r] = wire[r] /\ send_idx[Other(r)] <= send_idx'[Other(r)] /\ EndInv(r)
    BY <1>1, <1>2, Ends DEF TypeOK, IInv
  <2> QED
    BY <1>1, <2>1, EndUntouched
<1>3. wire'[p] = SubSeq(wire[p], n + 1, Len(wire[p]))
  BY <1>1 DEF TypeOK
<1>4. /\ Len(wire'[p]) = Len(wire[p]) - n /\ Ordered(wire'[p])
      /\ \A j \in 1..(Len(wire[p]) - n) :
           j + n \in 1..Len(wire[p]) /\ wire'[p][j] = wire[p][j + n]
  BY <1>1, <1>3, OrderedRest DEF EndInv
<1>5. Sent(Other(p))' = Sent(Other(p))
  BY DEF Sent
<1>6. EndInv(p)'
  BY <1>1, <1>4, <1>5 DEF EndInv, Ordered
<1> QED
  BY <1>2, <1>6

\* Damage changes no position and leaves no intact frame behind.
LEMMA DamageKeeps ==
  ASSUME IInv, TypeOK', NEW p \in Peer, Damage(p)
  PROVE  \A r \in Peer : EndInv(r)'
<1>1. TypeOK /\ \A r \in Peer : EndInv(r)
  BY DEF IInv
<1>2. UNCHANGED <<recv_frames, send_idx>>
  BY DEF Damage, local
<1>3. PICK i \in 1..Len(wire[p]) : wire' = [wire EXCEPT ![p][i].intact = FALSE]
  BY DEF Damage
<1>4. ASSUME NEW r \in Peer, r # p PROVE EndInv(r)'
  <2>1. wire'[r] = wire[r] /\ send_idx[Other(r)] <= send_idx'[Other(r)]
    BY <1>1, <1>2, <1>3, <1>4, Ends DEF TypeOK
  <2> QED
    BY <1>1, <1>2, <2>1, EndUntouched
<1>5. EndInv(p)'
  <2>1. wire[p] \in Seq(FrameType) /\ wire[p][i] \in FrameType
    BY <1>1, <1>3 DEF TypeOK
  <2>2. wire'[p] = [wire[p] EXCEPT ![i] = [wire[p][i] EXCEPT !.intact = FALSE]]
    BY <1>1, <1>3 DEF TypeOK
  <2>3. /\ Len(wire'[p]) = Len(wire[p])
        /\ \A j \in 1..Len(wire[p]) : j # i => wire'[p][j] = wire[p][j]
        /\ wire'[p][i].seq = wire[p][i].seq /\ ~wire'[p][i].intact
    BY <2>1, <2>2 DEF FrameType
  <2>4. \A j \in 1..Len(wire[p]) :
          /\ wire'[p][j].seq = wire[p][j].seq
          /\ wire'[p][j].intact => wire'[p][j] = wire[p][j]
    BY <2>1, <2>3
  <2>5. \A j \in 1..Len(wire'[p]) : Genuine(p, Sent(Other(p)), wire'[p][j])
    BY <1>1, <2>3, <2>4 DEF EndInv, Genuine
  <2>6. Ordered(wire'[p])
    BY <1>1, <2>3, <2>4 DEF EndInv, Ordered, Before
  <2>7. \A k \in 1..Len(recv_frames[p]), j \in 1..Len(wire'[p]) :
          Before(recv_frames[p][k], wire'[p][j])
    BY <1>1, <2>3, <2>4 DEF EndInv, Before
  <2>8. Sent(Other(p))' = Sent(Other(p))
    BY <1>2 DEF Sent
  <2> QED
    BY <1>1, <1>2, <2>5, <2>6, <2>7, <2>8 DEF EndInv, Ordered
<1> QED
  BY <1>4, <1>5

\* A step that leaves the data alone keeps every end's part.
LEMMA QuietKeeps ==
  ASSUME IInv, TypeOK', UNCHANGED <<wire, recv_frames, send_idx>>
  PROVE  \A r \in Peer : EndInv(r)'
<1>1. \A r \in Peer : EndInv(r) /\ Other(r) \in Peer /\ send_idx[Other(r)] \in Nat
  BY Ends DEF IInv, TypeOK
<1> QED
  BY <1>1, EndUntouched DEF IInv

\* One case for each action: a step keeps the order.
LEMMA NextOrder == IInv /\ TypeOK' /\ [Next]_vars => \A r \in Peer : EndInv(r)'
<1> SUFFICES ASSUME IInv, TypeOK', [Next]_vars PROVE \A r \in Peer : EndInv(r)'
  OBVIOUS
<1> USE DEF local
<1>1. \A r \in Peer : send_idx[r] \in Nat
  BY DEF IInv, TypeOK
<1>2. ASSUME NEW p \in Peer, SendData(p) PROVE \A r \in Peer : EndInv(r)'
  <2>1. send_idx[p] < NumFrames(p) /\ send_frames(p, send_idx[p]) \in FrameType
    BY <1>1, <1>2, SendFrames DEF IInv, IndexInv, SendData
  <2> QED
    BY <1>2, <2>1, SendKeeps DEF SendData
<1>3. ASSUME NEW p \in Peer, SendAck(p) PROVE \A r \in Peer : EndInv(r)'
  <2>1. AckFrame(ack_id[p]) \in FrameType /\ AckFrame(ack_id[p]).seq = 0
    BY AckFrames DEF IInv, TypeOK
  <2> QED
    BY <1>3, <2>1, SendKeeps DEF SendAck
<1>4. ASSUME NEW p \in Peer, DrainIgnore(p) PROVE \A r \in Peer : EndInv(r)'
  BY <1>1, <1>4, TakeKeeps DEF DrainIgnore
<1>5. ASSUME NEW p \in Peer, RecvAck(p) PROVE \A r \in Peer : EndInv(r)'
  <2>1. \A r \in Peer : send_idx[r] <= send_idx'[r]
    BY <1>1, <1>5 DEF RecvAck, IInv, TypeOK
  <2> QED
    BY <1>5, <2>1, TakeKeeps DEF RecvAck
<1>6. ASSUME NEW p \in Peer, RecvFrame(p) PROVE \A r \in Peer : EndInv(r)'
  BY <1>6, AnswerKeeps DEF RecvFrame
<1>7. ASSUME NEW p \in Peer, DrainFrame(p) PROVE \A r \in Peer : EndInv(r)'
  BY <1>7, AnswerKeeps DEF DrainFrame
<1>8. ASSUME NEW p \in Peer, RecvTimeout(p) \/ DrainTimeout(p)
      PROVE  \A r \in Peer : EndInv(r)'
  <2>1. GiveUp(p) /\ UNCHANGED <<recv_frames, send_idx>>
    BY <1>8 DEF RecvTimeout, DrainTimeout, Leave
  <2>2. wire' = wire \/ \E n \in 0..Len(wire[p]) :
          wire' = [wire EXCEPT ![p] = SubSeq(@, n + 1, Len(@))]
    BY <2>1, GiveUpType DEF IInv
  <2> QED
    BY <2>1, <2>2, QuietKeeps, PassKeeps
<1>12. ASSUME NEW p \in Peer, Block(p) \/ RecvDamaged(p)
       PROVE  \A r \in Peer : EndInv(r)'
  <2>1. PICK n \in Nat : Pass(p, n)
    BY <1>12 DEF Block, RecvDamaged
  <2>2. UNCHANGED <<recv_frames, send_idx>>
    BY <1>12 DEF Block, RecvDamaged
  <2> QED
    BY <2>1, <2>2, PassType, PassKeeps DEF IInv
<1>13. ASSUME NEW p \in Peer, Eof(p) PROVE \A r \in Peer : EndInv(r)'
  <2>1. wire[p] \in Seq(FrameType)
    BY DEF IInv, TypeOK
  <2>2. Len(wire[p]) \in 0..Len(wire[p])
        /\ SubSeq(wire[p], Len(wire[p]) + 1, Len(wire[p])) = <<>>
    BY <2>1
  <2>3. wire' = [wire EXCEPT ![p] = <<>>] /\ UNCHANGED <<recv_frames, send_idx>>
    BY <1>13 DEF Eof, ReadsPastEnd, Leave
  <2> QED
    BY <2>2, <2>3, PassKeeps
<1>14. ASSUME NEW p \in Peer, Reset(p) \/ Interrupt(p) \/ NoKey(p) \/ Key(p)
       PROVE  \A r \in Peer : EndInv(r)'
  BY <1>14, QuietKeeps DEF Reset, Interrupt, NoKey, Key, Leave
<1>9. ASSUME NEW p \in Peer, Damage(p) PROVE \A r \in Peer : EndInv(r)'
  BY <1>9, DamageKeeps
<1>10. CASE UNCHANGED vars
  BY <1>10, QuietKeeps DEF vars
<1>11. "client" \in Peer /\ "server" \in Peer
  BY DEF Peer
<1> QED
  BY <1>2, <1>3, <1>4, <1>5, <1>6, <1>7, <1>8, <1>9, <1>10, <1>11, <1>12, <1>13, <1>14
     DEF Next, ClientRun, ServerRun, Run, Read, User

\* An end stays in its main loop only while it has a frame to send.
LEMMA NextIndex == TypeOK /\ IndexInv /\ [Next]_vars => IndexInv'
<1> SUFFICES ASSUME TypeOK, IndexInv, [Next]_vars PROVE IndexInv'
  OBVIOUS
<1> USE DEF local
<1>1. \A p \in Peer : NumFrames(p) \in Nat /\ send_idx[p] \in Nat
  BY LinkAssumption DEF NumFrames, TypeOK
<1>2. ASSUME NEW p \in Peer, SendData(p) PROVE IndexInv'
  BY <1>2 DEF SendData, IndexInv, TypeOK
<1>3. ASSUME NEW p \in Peer, SendAck(p) PROVE IndexInv'
  BY <1>3 DEF SendAck, IndexInv, TypeOK
<1>4. ASSUME NEW p \in Peer, Block(p) \/ RecvDamaged(p) \/ Key(p) PROVE IndexInv'
  BY <1>4 DEF Block, RecvDamaged, Key, IndexInv, TypeOK
<1>5. ASSUME NEW p \in Peer, RecvAck(p) PROVE IndexInv'
  BY <1>1, <1>5 DEF RecvAck, IndexInv, TypeOK
<1>6. ASSUME NEW p \in Peer, RecvFrame(p) PROVE IndexInv'
  BY <1>6 DEF RecvFrame, Answer, IndexInv, TypeOK
<1>7. ASSUME NEW p \in Peer, DrainIgnore(p) PROVE IndexInv'
  BY <1>7 DEF DrainIgnore, IndexInv
<1>8. ASSUME NEW p \in Peer, DrainFrame(p) PROVE IndexInv'
  BY <1>8 DEF DrainFrame, Answer, IndexInv, TypeOK
<1>9. ASSUME NEW p \in Peer, RecvTimeout(p) PROVE IndexInv'
  BY <1>9 DEF RecvTimeout, IndexInv, TypeOK
<1>10. ASSUME NEW p \in Peer,
              DrainTimeout(p) \/ Eof(p) \/ Reset(p) \/ Interrupt(p) \/ NoKey(p)
       PROVE  IndexInv'
  BY <1>10 DEF DrainTimeout, Eof, Reset, Interrupt, NoKey, Leave, IndexInv, TypeOK
<1>11. ASSUME NEW p \in Peer, Damage(p) PROVE IndexInv'
  BY <1>11 DEF Damage, IndexInv
<1>12. CASE UNCHANGED vars
  BY <1>12 DEF vars, IndexInv
<1>13. "client" \in Peer /\ "server" \in Peer
  BY DEF Peer
<1> QED
  BY <1>2, <1>3, <1>4, <1>5, <1>6, <1>7, <1>8, <1>9, <1>10, <1>11, <1>12, <1>13
     DEF Next, ClientRun, ServerRun, Run, Read, User

LEMMA Inductive == Spec => []IInv
<1>1. Init => IInv
  BY InitOrder
<1>2. IInv /\ [Next]_vars => IInv'
  BY NextType, NextIndex, NextOrder DEF IInv
<1> QED
  BY <1>1, <1>2, PTL DEF Spec

\* Whatever the files, the capacity and the damage, what an end stores is what the
\* other one sent, undamaged and in order: retransmission, duplicates and ACKs taken
\* for data never put a frame before an earlier one.
THEOREM DeliveryInOrder == Spec => []InOrder
<1>1. IInv => InOrder
  BY DEF IInv, EndInv, InOrder
<1> QED
  BY <1>1, Inductive, PTL

\* The same of the frames in flight: the connection towards an end never holds a
\* frame earlier than one it has stored.
THEOREM LineInOrder == Spec => []LineInv
<1>1. IInv => LineInv
  BY DEF IInv, EndInv, LineInv
<1> QED
  BY <1>1, Inductive, PTL

-----------------------------------------------------------------------------
(* Files of one chunk on a medium that damages nothing *)

\* The premise of every result from here on: then an ACK means what it says, and a run that
\* ends well has delivered both files.  With longer files ids repeat and an old ACK moves the
\* sender past a frame, so the second part cannot go.
SafeSetting == MaxDamage = 0 /\ \A p \in Peer : Len(Input[p]) = 1

-----------------------------------------------------------------------------
(* One end, and the connection towards it *)

\* What an end p keeps, as one value.
end(p) ==
  [pc |-> pc[p], idx |-> send_idx[p], last |-> last_id[p], chksum |-> last_chksum[p],
   stored |-> recv_frames[p], ack |-> ack_id[p]]

EndType ==
  [pc : {"send", "recv", "input", "ack", "drain", "drain_input", "drain_ack",
         "done", "crashed", "interrupted"},
   idx : Nat, last : {0, 1}, chksum : Checksum, stored : Seq(FrameType), ack : {0, 1}]

\* The end with state x has left; the i-th frame of a file is among those of s.
Left(x) == x.pc \in {"done", "crashed", "interrupted"}
Keeps(s, i) == \E k \in 1..Len(s) : s[k].seq = i

\* The two frames of p's file.
DataFrame(p) == send_frames(p, 0)
EndFrame(p) == send_frames(p, 1)

FramesTo(p) ==
  {DataFrame(Other(p)), EndFrame(Other(p)), AckFrame(0), AckFrame(1)}

\* f is in flight on u; g is nowhere on u without f before it.
On(u, f) == \E i \in 1..Len(u) : u[i] = f
Leads(u, f, g) == \A j \in 1..Len(u) : u[j] = g => \E i \in 1..(j - 1) : u[i] = f

-----------------------------------------------------------------------------
(* The invariant of one direction: p has state x, its peer has state y, and u is *)
(* in flight to p                                                                *)

\* An ACK that moved the peer on, is in flight to p or is about to be sent stands for a
\* frame that was stored.
AcksInv(x, u, y) ==
  /\ y.idx >= 1 => Keeps(x.stored, 1)
  /\ y.idx >= 2 => Keeps(x.stored, 2)
  /\ On(u, AckFrame(0)) => Keeps(y.stored, 1)
  /\ On(u, AckFrame(1)) => Keeps(y.stored, 2)
  /\ x.pc \in {"ack", "drain_ack"} => Keeps(x.stored, x.ack + 1)

\* What p remembers of the last frame is true, even when that frame was an ACK.
LastInv(x) ==
  /\ x.last = 0 => Keeps(x.stored, 1)
  /\ x.last = 1 /\ x.chksum # NoChksum => Keeps(x.stored, 2)
  /\ Keeps(x.stored, 1) => x.chksum # NoChksum

\* The first thing p ever reads is the data frame.
FirstInv(p, x, u, y) ==
  ~Keeps(x.stored, 1) =>
    /\ x.idx = 0 /\ x.last = 1
    /\ u # <<>> => Head(u) = DataFrame(Other(p))
    /\ u = <<>> /\ ~Left(x) /\ ~Left(y) => y.pc = "send"

\* ACK 0 of p's data frame comes to p before the END frame of the peer.
AckFirstInv(p, x, u, y) ==
  /\ Keeps(y.stored, 1) =>
       \/ x.idx >= 1 \/ On(u, AckFrame(0)) \/ Left(x) \/ Left(y)
       \/ y.pc = "ack" /\ y.ack = 0
  /\ x.idx >= 1 \/ Leads(u, AckFrame(0), EndFrame(Other(p)))
  /\ Keeps(x.stored, 2) => x.idx >= 1

\* The END frame of the peer comes to p before ACK 1 of p's END frame.
EndFirstInv(p, x, u, y) ==
  /\ Keeps(x.stored, 2) \/ On(u, EndFrame(Other(p))) => y.idx >= 1
  /\ y.idx >= 1 /\ y.pc # "send" =>
       Keeps(x.stored, 2) \/ On(u, EndFrame(Other(p))) \/ Left(x) \/ Left(y)
  /\ Keeps(x.stored, 2) \/ Leads(u, EndFrame(Other(p)), AckFrame(1))
  /\ x.idx = 2 => Keeps(x.stored, 2)

\* An end writes its output only after it drained, or after the other one left.
PlaceInv(x, y) ==
  /\ x.idx \in 0..2
  /\ x.pc \in {"drain", "drain_ack"} => x.idx = 2
  /\ x.pc \in {"send", "recv", "ack"} => x.idx < 2
  /\ x.pc = "done" => x.idx = 2 \/ y.idx = 2 \/ y.pc \in {"crashed", "interrupted"}

Half(p, x, u, y) ==
  /\ \A i \in 1..Len(u) : u[i] \in FramesTo(p)
  /\ AcksInv(x, u, y) /\ LastInv(x) /\ FirstInv(p, x, u, y)
  /\ AckFirstInv(p, x, u, y) /\ EndFirstInv(p, x, u, y) /\ PlaceInv(x, y)

Complete == \A p \in Peer : Half(p, end(p), wire[p], end(Other(p)))

-----------------------------------------------------------------------------
(* Frames, and sequences of them *)

\* The frames of a file of one chunk: their ids differ, and no checksum of theirs is
\* the initial one or that of the other.
LEMMA OneChunkFrames ==
  ASSUME SafeSetting, NEW p \in Peer
  PROVE  /\ NumFrames(p) = 2
         /\ DataFrame(p) = Frame("data", 0, Input[p][1], 1) /\ Input[p][1] \in Nat
         /\ EndFrame(p) = Frame("end", 1, 0, 2)
<1>1. Input[p] \in Seq(Nat) /\ Len(Input[p]) = 1
  BY LinkAssumption DEF SafeSetting
<1>2. 0 % 2 = 0 /\ 1 % 2 = 1
  OBVIOUS
<1> QED
  BY <1>1, <1>2 DEF NumFrames, DataFrame, EndFrame, send_frames

\* Everything the reader of a frame may ask of it.
LEMMA FrameFacts ==
  ASSUME SafeSetting, NEW p \in Peer, NEW f \in FramesTo(p)
  PROVE  /\ f \in FrameType /\ f.intact /\ f.chksum # NoChksum
         /\ \/ f = DataFrame(Other(p)) /\ f.flag = "data" /\ f.id = 0 /\ f.seq = 1
            \/ f = EndFrame(Other(p)) /\ f.flag = "end" /\ f.id = 1 /\ f.seq = 2
            \/ f = AckFrame(0) /\ f.flag = "ack" /\ f.id = 0 /\ f.seq = 0
            \/ f = AckFrame(1) /\ f.flag = "ack" /\ f.id = 1 /\ f.seq = 0
<1> DEFINE D == DataFrame(Other(p))
           F == EndFrame(Other(p))
<1>1. /\ D = Frame("data", 0, Input[Other(p)][1], 1) /\ Input[Other(p)][1] \in Nat
      /\ F = Frame("end", 1, 0, 2)
  BY OneChunkFrames, Ends
<1>2. "data" \in Flag /\ "end" \in Flag /\ "ack" \in Flag
  BY DEF Flag
<1>3. D \in FrameType /\ D.intact /\ D.chksum # NoChksum
      /\ D.flag = "data" /\ D.id = 0 /\ D.seq = 1
  <2>1. 0 \in {0, 1} /\ 1 \in Nat
    OBVIOUS
  <2> QED
    BY <1>1, <1>2, <2>1, FrameFields
<1>4. F \in FrameType /\ F.intact /\ F.chksum # NoChksum
      /\ F.flag = "end" /\ F.id = 1 /\ F.seq = 2
  <2>1. 1 \in {0, 1} /\ 0 \in Nat /\ 2 \in Nat
    OBVIOUS
  <2> QED
    BY <1>1, <1>2, <2>1, FrameFields
<1>5. \A id \in {0, 1} :
        /\ AckFrame(id) \in FrameType /\ AckFrame(id).intact /\ AckFrame(id).chksum # NoChksum
        /\ AckFrame(id).flag = "ack" /\ AckFrame(id).id = id /\ AckFrame(id).seq = 0
  <2>1. 0 \in Nat
    OBVIOUS
  <2> QED
    BY <1>2, <2>1, FrameFields DEF AckFrame
<1>6. 0 \in {0, 1} /\ 1 \in {0, 1}
  OBVIOUS
<1> HIDE DEF D, F
<1>7. f \in {D, F, AckFrame(0), AckFrame(1)}
  BY DEF FramesTo, D, F
<1> QED
  BY <1>3, <1>4, <1>5, <1>6, <1>7 DEF D, F

\* What an end sends, the other one may find.
LEMMA FrameOfP ==
  ASSUME NEW p \in Peer
  PROVE  FramesTo(Other(p)) = {DataFrame(p), EndFrame(p), AckFrame(0), AckFrame(1)}
BY Ends DEF FramesTo

\* A frame that is read was on the connection, and no frame it should follow was missing.
LEMMA OnTail ==
  ASSUME NEW u \in Seq(FrameType), u # <<>>, NEW f, NEW g
  PROVE  /\ On(u, f) <=> Head(u) = f \/ On(Tail(u), f)
         /\ Leads(u, f, g) => Head(u) # g
         /\ Leads(u, f, g) /\ Head(u) # f => Leads(Tail(u), f, g)
<1>1. /\ Len(u) \in Nat \ {0} /\ Head(u) = u[1] /\ Len(Tail(u)) = Len(u) - 1
      /\ \A i \in 1..Len(Tail(u)) : Tail(u)[i] = u[i + 1]
  OBVIOUS
<1>2. ASSUME On(u, f), Head(u) # f PROVE On(Tail(u), f)
  <2>1. PICK i \in 1..Len(u) : u[i] = f
    BY <1>2 DEF On
  <2>2. i - 1 \in 1..Len(Tail(u)) /\ Tail(u)[i - 1] = f
    BY <1>1, <1>2, <2>1
  <2> QED
    BY <2>2 DEF On
<1>3. ASSUME On(Tail(u), f) PROVE On(u, f)
  <2>1. PICK i \in 1..Len(Tail(u)) : Tail(u)[i] = f
    BY <1>3 DEF On
  <2>2. i + 1 \in 1..Len(u) /\ u[i + 1] = f
    BY <1>1, <2>1
  <2> QED
    BY <2>2 DEF On
<1>4. Head(u) = f => On(u, f)
  BY <1>1 DEF On
<1>5. Leads(u, f, g) => Head(u) # g
  BY <1>1 DEF Leads
<1>6. ASSUME Leads(u, f, g), Head(u) # f, NEW j \in 1..Len(Tail(u)), Tail(u)[j] = g
      PROVE  \E i \in 1..(j - 1) : Tail(u)[i] = f
  <2>1. j + 1 \in 1..Len(u) /\ u[j + 1] = g
    BY <1>1, <1>6
  <2>2. PICK i \in 1..j : u[i] = f
    BY <1>6, <2>1 DEF Leads
  <2>3. i - 1 \in 1..(j - 1) /\ Tail(u)[i - 1] = f
    BY <1>1, <1>6, <2>2
  <2> QED
    BY <2>3
<1> QED
  BY <1>2, <1>3, <1>4, <1>5, <1>6 DEF Leads

\* A frame that is sent goes behind everything in flight.
LEMMA OnAppend ==
  ASSUME NEW u \in Seq(FrameType), NEW h \in FrameType, NEW f, NEW g
  PROVE  /\ On(Append(u, h), f) <=> On(u, f) \/ h = f
         /\ Leads(u, f, g) /\ (h = g => On(u, f)) => Leads(Append(u, h), f, g)
         /\ Append(u, h) # <<>>
         /\ Head(Append(u, h)) = IF u = <<>> THEN h ELSE Head(u)
<1> DEFINE w == Append(u, h)
<1>1. /\ Len(u) \in Nat /\ Len(w) = Len(u) + 1 /\ w[Len(u) + 1] = h
      /\ \A i \in 1..Len(u) : w[i] = u[i]
      /\ w # <<>> /\ w \in Seq(FrameType) /\ Head(w) = w[1]
      /\ u # <<>> => Head(u) = u[1]
  OBVIOUS
<1>2. ASSUME On(w, f), h # f PROVE On(u, f)
  <2>1. PICK i \in 1..Len(w) : w[i] = f
    BY <1>2 DEF On
  <2>2. i \in 1..Len(u) /\ u[i] = f
    BY <1>1, <1>2, <2>1
  <2> QED
    BY <2>2 DEF On
<1>3. ASSUME On(u, f) \/ h = f PROVE On(w, f)
  BY <1>1, <1>3 DEF On
<1>4. ASSUME Leads(u, f, g), h = g => On(u, f), NEW j \in 1..Len(w), w[j] = g
      PROVE  \E i \in 1..(j - 1) : w[i] = f
  <2>1. CASE j \in 1..Len(u)
    <3>1. PICK i \in 1..(j - 1) : u[i] = f
      BY <1>1, <1>4, <2>1 DEF Leads
    <3> QED
      BY <1>1, <2>1, <3>1
  <2>2. CASE j = Len(u) + 1
    <3>1. PICK i \in 1..Len(u) : u[i] = f
      BY <1>1, <1>4, <2>2 DEF On
    <3> QED
      BY <1>1, <2>2, <3>1
  <2> QED
    BY <1>1, <2>1, <2>2
<1>5. Head(w) = IF u = <<>> THEN h ELSE Head(u)
  BY <1>1
<1> QED
  BY <1>1, <1>2, <1>3, <1>4, <1>5 DEF Leads

LEMMA KeepsAppend ==
  ASSUME NEW s \in Seq(FrameType), NEW f \in FrameType, NEW i
  PROVE  Keeps(Append(s, f), i) <=> Keeps(s, i) \/ f.seq = i
<1> DEFINE t == Append(s, f)
<1>1. /\ Len(s) \in Nat /\ Len(t) = Len(s) + 1 /\ t[Len(s) + 1] = f
      /\ \A k \in 1..Len(s) : t[k] = s[k]
  OBVIOUS
<1>2. ASSUME Keeps(t, i), f.seq # i PROVE Keeps(s, i)
  <2>1. PICK k \in 1..Len(t) : t[k].seq = i
    BY <1>2 DEF Keeps
  <2>2. k \in 1..Len(s) /\ s[k].seq = i
    BY <1>1, <1>2, <2>1
  <2> QED
    BY <2>2 DEF Keeps
<1>3. ASSUME Keeps(s, i) PROVE Keeps(t, i)
  BY <1>1, <1>3 DEF Keeps
<1>4. ASSUME f.seq = i PROVE Keeps(t, i)
  BY <1>1, <1>4 DEF Keeps
<1> QED
  BY <1>2, <1>3, <1>4

-----------------------------------------------------------------------------
(* Steps, on the state x of the end p that takes them, the state y of its peer, and *)
(* the connections u towards p and v towards the peer                               *)

Pair(p, x, u, y, v) == Half(p, x, u, y) /\ Half(Other(p), y, v, x)

\* Frames that p may send, told apart.
LEMMA FourFrames ==
  ASSUME SafeSetting, NEW p \in Peer
  PROVE  /\ DataFrame(p) # EndFrame(p) /\ AckFrame(0) # AckFrame(1)
         /\ AckFrame(0) \notin {DataFrame(p), EndFrame(p)}
         /\ AckFrame(1) \notin {DataFrame(p), EndFrame(p)}
BY OneChunkFrames DEF AckFrame, Frame

\* After sending, f is behind what was in flight, or the peer has left.
Puts(f, y, v, v2) == (Left(y) /\ v2 = v) \/ (~Left(y) /\ v2 = Append(v, f))

LEMMA KindsAppend ==
  ASSUME NEW p \in Peer, NEW v \in Seq(FrameType), NEW f \in FramesTo(p),
         \A i \in 1..Len(v) : v[i] \in FramesTo(p)
  PROVE  \A i \in 1..Len(Append(v, f)) : Append(v, f)[i] \in FramesTo(p)
OBVIOUS

LEMMA SendDataKeeps ==
  ASSUME SafeSetting, NEW p \in Peer, NEW x \in EndType, NEW y \in EndType,
         NEW u \in Seq(FrameType), NEW v \in Seq(FrameType), NEW v2, NEW x2,
         Pair(p, x, u, y, v), x.pc = "send", x2 = [x EXCEPT !.pc = "recv"],
         Puts(send_frames(p, x.idx), y, v, v2)
  PROVE  Pair(p, x2, u, y, v2)
<1> DEFINE q == Other(p)
           D == DataFrame(p)
           F == EndFrame(p)
           f == send_frames(p, x.idx)
<1>1. q \in Peer /\ Other(q) = p
  BY Ends
<1>2. /\ x2.pc = "recv" /\ x2.idx = x.idx /\ x2.last = x.last /\ x2.chksum = x.chksum
      /\ x2.stored = x.stored /\ x2.ack = x.ack
  BY DEF EndType
<1>3. Half(p, x, u, y) /\ Half(q, y, v, x)
  BY DEF Pair
<1>4. Half(p, x2, u, y)
  BY <1>2, <1>3
     DEF Half, AcksInv, LastInv, FirstInv, AckFirstInv, EndFirstInv, PlaceInv, Left
<1>5. x.idx \in {0, 1} /\ (x.idx = 0 => f = D) /\ (x.idx = 1 => f = F)
  BY <1>3 DEF Half, PlaceInv, DataFrame, EndFrame
<1>6. f \in FramesTo(q) /\ f \in FrameType
  BY <1>1, <1>5, FrameOfP, FrameFacts
<1>7. CASE Left(y) /\ v2 = v
  BY <1>2, <1>3, <1>7, <1>1, <1>4
     DEF Pair, Half, AcksInv, LastInv, FirstInv, AckFirstInv, EndFirstInv, PlaceInv, Left
<1>8. CASE ~Left(y) /\ v2 = Append(v, f)
  <2>1. \A i \in 1..Len(v2) : v2[i] \in FramesTo(q)
    BY <1>1, <1>3, <1>6, <1>8, KindsAppend DEF Half
  <2>2. x.idx = 1 => y.idx >= 1 \/ On(v, AckFrame(0))
    BY <1>1, <1>3, <1>8 DEF Half, FirstInv, AckFirstInv, Left
  <2>3. /\ On(v2, AckFrame(0)) <=> On(v, AckFrame(0))
        /\ On(v2, AckFrame(1)) <=> On(v, AckFrame(1))
        /\ On(v2, F) <=> On(v, F) \/ f = F
        /\ v2 # <<>> /\ Head(v2) = IF v = <<>> THEN f ELSE Head(v)
    <3>1. \A g : On(v2, g) <=> On(v, g) \/ f = g
      BY <1>6, <1>8, OnAppend
    <3>2. f # AckFrame(0) /\ f # AckFrame(1)
      BY <1>5, FourFrames
    <3>3. v2 # <<>> /\ Head(v2) = IF v = <<>> THEN f ELSE Head(v)
      BY <1>6, <1>8, OnAppend
    <3> HIDE DEF f
    <3> QED
      BY <3>1, <3>2, <3>3
  <2>4. Leads(v, F, AckFrame(1)) => Leads(v2, F, AckFrame(1))
    BY <1>5, <1>6, <1>8, OnAppend, FourFrames
  <2>5. Leads(v, AckFrame(0), F) => y.idx >= 1 \/ Leads(v2, AckFrame(0), F)
    BY <1>5, <1>6, <1>8, <2>2, OnAppend, FourFrames
  <2>6. AcksInv(y, v2, x2) /\ LastInv(y)
    BY <1>2, <1>3, <2>3 DEF Half, AcksInv
  <2>7. FirstInv(q, y, v2, x2)
    BY <1>1, <1>2, <1>3, <1>5, <2>3, <1>8 DEF Half, FirstInv, AcksInv
  <2>8. AckFirstInv(q, y, v2, x2)
    BY <1>1, <1>2, <1>3, <2>3, <2>5 DEF Half, AckFirstInv, Left
  <2>9. EndFirstInv(q, y, v2, x2)
    BY <1>1, <1>2, <1>3, <1>5, <2>3, <2>4, FourFrames DEF Half, EndFirstInv, Left
  <2>10. PlaceInv(y, x2)
    BY <1>2, <1>3 DEF Half, PlaceInv
  <2> QED
    BY <1>1, <1>4, <2>1, <2>6, <2>7, <2>8, <2>9, <2>10 DEF Pair, Half
<1> QED
  BY <1>7, <1>8 DEF Puts

LEMMA SendAckKeeps ==
  ASSUME SafeSetting, NEW p \in Peer, NEW x \in EndType, NEW y \in EndType,
         NEW u \in Seq(FrameType), NEW v \in Seq(FrameType), NEW v2, NEW x2,
         Pair(p, x, u, y, v), x.pc \in {"ack", "drain_ack"},
         x2 = [x EXCEPT !.pc = IF x.pc = "ack" THEN "send" ELSE "drain"],
         Puts(AckFrame(x.ack), y, v, v2)
  PROVE  Pair(p, x2, u, y, v2)
<1> DEFINE q == Other(p)
           F == EndFrame(p)
           f == AckFrame(x.ack)
<1>1. q \in Peer /\ Other(q) = p
  BY Ends
<1>2. /\ x2.pc = (IF x.pc = "ack" THEN "send" ELSE "drain")
      /\ x2.idx = x.idx /\ x2.last = x.last /\ x2.chksum = x.chksum
      /\ x2.stored = x.stored /\ x2.ack = x.ack /\ x.ack \in {0, 1}
  BY DEF EndType
<1>3. Half(p, x, u, y) /\ Half(q, y, v, x)
  BY DEF Pair
<1>4. Half(p, x2, u, y)
  BY <1>2, <1>3
     DEF Half, AcksInv, LastInv, FirstInv, AckFirstInv, EndFirstInv, PlaceInv, Left
<1>5. (x.ack = 0 /\ Keeps(x.stored, 1)) \/ (x.ack = 1 /\ Keeps(x.stored, 2))
  <2>1. Keeps(x.stored, x.ack + 1)
    BY <1>3 DEF Half, AcksInv
  <2>2. 0 + 1 = 1 /\ 1 + 1 = 2
    OBVIOUS
  <2> QED
    BY <1>2, <2>1, <2>2
<1>6. f \in FramesTo(q) /\ f \in FrameType
  BY <1>1, <1>5, FrameOfP, FrameFacts
<1>7. CASE Left(y) /\ v2 = v
  BY <1>2, <1>3, <1>7, <1>1, <1>4
     DEF Pair, Half, AcksInv, LastInv, FirstInv, AckFirstInv, EndFirstInv, PlaceInv, Left
<1>8. CASE ~Left(y) /\ v2 = Append(v, f)
  <2>1. \A i \in 1..Len(v2) : v2[i] \in FramesTo(q)
    BY <1>1, <1>3, <1>6, <1>8, KindsAppend DEF Half
  <2>2. x.ack = 1 => Keeps(y.stored, 2) \/ On(v, F)
    BY <1>1, <1>3, <1>5, <1>8 DEF Half, AckFirstInv, EndFirstInv, Left
  <2>3. /\ On(v2, AckFrame(0)) <=> On(v, AckFrame(0)) \/ x.ack = 0
        /\ On(v2, AckFrame(1)) <=> On(v, AckFrame(1)) \/ x.ack = 1
        /\ On(v2, F) <=> On(v, F)
        /\ v2 # <<>> /\ (v # <<>> => Head(v2) = Head(v))
    <3>1. \A g : On(v2, g) <=> On(v, g) \/ f = g
      BY <1>6, <1>8, OnAppend
    <3>2. f # F /\ (f = AckFrame(0) <=> x.ack = 0) /\ (f = AckFrame(1) <=> x.ack = 1)
      BY <1>5, FourFrames
    <3>3. v2 # <<>> /\ Head(v2) = IF v = <<>> THEN f ELSE Head(v)
      BY <1>6, <1>8, OnAppend
    <3> HIDE DEF f
    <3> QED
      BY <3>1, <3>2, <3>3
  <2>4. Leads(v, F, AckFrame(1)) => Keeps(y.stored, 2) \/ Leads(v2, F, AckFrame(1))
    BY <1>5, <1>6, <1>8, <2>2, OnAppend, FourFrames
  <2>5. Leads(v, AckFrame(0), F) => Leads(v2, AckFrame(0), F)
    BY <1>5, <1>6, <1>8, OnAppend, FourFrames
  <2>6. AcksInv(y, v2, x2) /\ LastInv(y)
    BY <1>2, <1>3, <1>5, <2>3 DEF Half, AcksInv
  <2>7. FirstInv(q, y, v2, x2)
    BY <1>1, <1>2, <1>3, <2>3, <1>8 DEF Half, FirstInv, Left
  <2>8. AckFirstInv(q, y, v2, x2)
    BY <1>1, <1>2, <1>3, <2>3, <2>5 DEF Half, AckFirstInv, Left
  <2>9. EndFirstInv(q, y, v2, x2)
    BY <1>1, <1>2, <1>3, <2>3, <2>4 DEF Half, EndFirstInv, Left
  <2>10. PlaceInv(y, x2)
    BY <1>2, <1>3 DEF Half, PlaceInv
  <2> QED
    BY <1>1, <1>4, <2>1, <2>6, <2>7, <2>8, <2>9, <2>10 DEF Pair, Half
<1> QED
  BY <1>7, <1>8 DEF Puts

\* What p knows of the frame it takes, and of those left on the connection.
LEMMA Taken ==
  ASSUME SafeSetting, NEW p \in Peer, NEW u \in Seq(FrameType), u # <<>>,
         \A i \in 1..Len(u) : u[i] \in FramesTo(p)
  PROVE  /\ Head(u) \in FramesTo(p) /\ Tail(u) \in Seq(FrameType)
         /\ \A i \in 1..Len(Tail(u)) : Tail(u)[i] \in FramesTo(p)
<1>1. /\ Len(u) \in Nat \ {0} /\ Head(u) = u[1] /\ Len(Tail(u)) = Len(u) - 1
      /\ \A i \in 1..Len(Tail(u)) : Tail(u)[i] = u[i + 1]
      /\ Tail(u) \in Seq(FrameType)
  OBVIOUS
<1> QED
  BY <1>1

\* The ACK that p waits for.
LEMMA CurrentAckKeeps ==
  ASSUME SafeSetting, NEW p \in Peer, NEW x \in EndType, NEW y \in EndType,
         NEW u \in Seq(FrameType), NEW v \in Seq(FrameType), NEW x2,
         Pair(p, x, u, y, v), x.pc = "recv", u # <<>>,
         Head(u).flag = "ack", Head(u).id = x.idx % 2,
         x2 = [pc |-> IF x.idx + 1 = 2 THEN "drain" ELSE "send", idx |-> x.idx + 1,
               last |-> x.last, chksum |-> x.chksum, stored |-> x.stored, ack |-> x.ack]
  PROVE  Pair(p, x2, Tail(u), y, v)
<1> DEFINE q == Other(p)
           F == EndFrame(q)
           u2 == Tail(u)
<1>1. q \in Peer /\ Other(q) = p
  BY Ends
<1>2. /\ x2.pc = (IF x.idx + 1 = 2 THEN "drain" ELSE "send")
      /\ x2.idx = x.idx + 1 /\ x2.last = x.last /\ x2.chksum = x.chksum
      /\ x2.stored = x.stored /\ x2.ack = x.ack
  BY DEF EndType
<1>3. Half(p, x, u, y) /\ Half(q, y, v, x)
  BY DEF Pair
<1>4. x.idx \in {0, 1}
  BY <1>3 DEF Half, PlaceInv
<1>5. Head(u) = AckFrame(x.idx)
  <2>1. Head(u) \in FramesTo(p)
    BY <1>3, Taken DEF Half
  <2>2. 0 % 2 = 0 /\ 1 % 2 = 1
    OBVIOUS
  <2> QED
    BY <1>4, <2>1, <2>2, FrameFacts
<1>6. /\ \A g : On(u, g) <=> Head(u) = g \/ On(u2, g)
      /\ \A g, h : Leads(u, g, h) => Head(u) # h /\ (Head(u) # g => Leads(u2, g, h))
  BY OnTail
<1>7. /\ Head(u) # DataFrame(q) /\ Head(u) # F
      /\ x.idx = 1 => Head(u) = AckFrame(1) /\ Keeps(y.stored, 2)
      /\ x.idx = 0 => Keeps(y.stored, 1)
  BY <1>1, <1>3, <1>4, <1>5, <1>6, FourFrames DEF Half, AcksInv
<1>8. Keeps(x.stored, 1)
  BY <1>3, <1>7 DEF Half, FirstInv
<1>9. x.idx = 1 => Keeps(x.stored, 2)
  BY <1>3, <1>6, <1>7 DEF Half, EndFirstInv
<1>10. Half(p, x2, u2, y)
  <2>1. \A i \in 1..Len(u2) : u2[i] \in FramesTo(p)
    BY <1>3, Taken DEF Half
  <2>2. AcksInv(x2, u2, y) /\ LastInv(x2) /\ FirstInv(p, x2, u2, y)
    BY <1>2, <1>3, <1>6, <1>8 DEF Half, AcksInv, LastInv, FirstInv
  <2>3. AckFirstInv(p, x2, u2, y)
    BY <1>2, <1>4 DEF AckFirstInv
  <2>4. EndFirstInv(p, x2, u2, y)
    BY <1>2, <1>3, <1>4, <1>6, <1>7, <1>9 DEF Half, EndFirstInv, Left
  <2>5. PlaceInv(x2, y)
    BY <1>2, <1>4 DEF PlaceInv
  <2> QED
    BY <2>1, <2>2, <2>3, <2>4, <2>5 DEF Half
<1>11. Half(q, y, v, x2)
  <2>1. AcksInv(y, v, x2) /\ FirstInv(q, y, v, x2)
    BY <1>2, <1>3, <1>4, <1>7 DEF Half, AcksInv, FirstInv
  <2>2. AckFirstInv(q, y, v, x2)
    BY <1>1, <1>2, <1>3 DEF Half, AckFirstInv, Left
  <2>3. EndFirstInv(q, y, v, x2)
    BY <1>1, <1>2, <1>3, <1>4, <1>7 DEF Half, EndFirstInv, Left
  <2>4. PlaceInv(y, x2)
    BY <1>2, <1>3, <1>4 DEF Half, PlaceInv
  <2> QED
    BY <1>3, <2>1, <2>2, <2>3, <2>4 DEF Half
<1> QED
  BY <1>10, <1>11 DEF Pair

\* What both loops do with a frame that is not an ACK they act on, as in Answer.
Answers(x, h, loop, ack, x2) ==
  \/ /\ h.id = x.last /\ h.chksum = x.chksum
     /\ x2 = [pc |-> ack, idx |-> x.idx, last |-> x.last, chksum |-> x.chksum,
              stored |-> x.stored, ack |-> x.last]
  \/ /\ h.id = x.last /\ h.chksum # x.chksum
     /\ x2 = [pc |-> loop, idx |-> x.idx, last |-> x.last, chksum |-> x.chksum,
              stored |-> x.stored, ack |-> x.ack]
  \/ /\ h.id # x.last
     /\ x2 = [pc |-> ack, idx |-> x.idx, last |-> h.id, chksum |-> h.chksum,
              stored |-> Append(x.stored, h), ack |-> h.id]

\* The main loop passes on an ACK of another id, the drain loop none.
PassesOn(x, h, loop, ack) ==
  \/ /\ x.pc = "recv" /\ ~(h.flag = "ack" /\ h.id = x.idx % 2)
     /\ loop = "send" /\ ack = "ack"
  \/ x.pc = "drain" /\ h.flag # "ack" /\ loop = "drain" /\ ack = "drain_ack"

\* The frame passed on is one of the file, or ACK 0 come late: ACK 1 is never early.
LEMMA PassedOn ==
  ASSUME SafeSetting, NEW p \in Peer, NEW x \in EndType, NEW y \in EndType,
         NEW u \in Seq(FrameType), NEW v \in Seq(FrameType), NEW loop, NEW ack,
         Pair(p, x, u, y, v), u # <<>>, PassesOn(x, Head(u), loop, ack)
  PROVE  \/ Head(u) = DataFrame(Other(p)) /\ (Keeps(x.stored, 1) \/ x.pc = "recv")
         \/ Head(u) = EndFrame(Other(p)) /\ x.idx >= 1 /\ y.idx >= 1
         \/ Head(u) = AckFrame(0) /\ x.idx = 1
<1> DEFINE q == Other(p)
<1>1. q \in Peer /\ Other(q) = p
  BY Ends
<1>2. Half(p, x, u, y) /\ Half(q, y, v, x)
  BY DEF Pair
<1>3. Head(u) \in FramesTo(p)
  BY <1>2, Taken DEF Half
<1>4. /\ \A g : On(u, g) <=> Head(u) = g \/ On(Tail(u), g)
      /\ \A g, h : Leads(u, g, h) => Head(u) # h
  BY OnTail
<1>5. CASE Head(u) = DataFrame(q)
  BY <1>2, <1>5 DEF PassesOn, Half, FirstInv, PlaceInv
<1>6. CASE Head(u) = EndFrame(q)
  BY <1>2, <1>4, <1>6 DEF Half, AckFirstInv, EndFirstInv
<1>7. 0 % 2 = 0 /\ 1 % 2 = 1 /\ x.idx \in {0, 1, 2} /\ (x.pc = "recv" => x.idx # 2)
  BY <1>2 DEF Half, PlaceInv
<1>8. CASE Head(u) = AckFrame(0)
  <2>1. Head(u).flag = "ack" /\ Head(u).id = 0
    BY <1>8 DEF AckFrame, Frame
  <2> QED
    BY <1>7, <1>8, <2>1 DEF PassesOn
<1>9. CASE Head(u) = AckFrame(1)
  <2>1. Head(u).flag = "ack" /\ Head(u).id = 1
    BY <1>9 DEF AckFrame, Frame
  <2>2. x.idx = 0
    BY <1>7, <2>1 DEF PassesOn
  <2>3. Keeps(y.stored, 2)
    BY <1>2, <1>4, <1>9 DEF Half, AcksInv
  <2> QED
    BY <1>2, <2>2, <2>3 DEF Half, EndFirstInv
<1> QED
  BY <1>3, <1>5, <1>6, <1>8, <1>9 DEF FramesTo

\* What p has and remembers after it: a frame of the file is always stored then.
AnsweredInv(p, x, h, loop, ack, x2) ==
  /\ x2.idx = x.idx /\ x2.pc \in {loop, ack} /\ LastInv(x2)
  /\ Keeps(x2.stored, 1)
  /\ Keeps(x2.stored, 2) <=> Keeps(x.stored, 2) \/ h = EndFrame(Other(p))
  /\ x2.pc = ack => Keeps(x2.stored, x2.ack + 1)
  /\ Keeps(x.stored, 1) \/ (x2.pc = "ack" /\ x2.ack = 0)

LEMMA AnsweredFrame ==
  ASSUME SafeSetting, NEW p \in Peer, NEW x \in EndType, NEW y \in EndType,
         NEW u \in Seq(FrameType), NEW v \in Seq(FrameType), NEW loop, NEW ack, NEW x2,
         Pair(p, x, u, y, v), u # <<>>, PassesOn(x, Head(u), loop, ack),
         Answers(x, Head(u), loop, ack, x2)
  PROVE  AnsweredInv(p, x, Head(u), loop, ack, x2)
<1> DEFINE q == Other(p)
           h == Head(u)
<1>1. q \in Peer /\ Other(q) = p
  BY Ends
<1>2. Half(p, x, u, y) /\ Half(q, y, v, x)
  BY DEF Pair
<1>3. h \in FramesTo(p) /\ h \in FrameType /\ h.chksum # NoChksum
  BY <1>2, Taken, FrameFacts DEF Half
<1>4. \/ h = DataFrame(q) /\ (Keeps(x.stored, 1) \/ x.pc = "recv") /\ h.id = 0 /\ h.seq = 1
      \/ h = EndFrame(q) /\ x.idx >= 1 /\ h.id = 1 /\ h.seq = 2
      \/ h = AckFrame(0) /\ x.idx = 1 /\ h.id = 0 /\ h.seq = 0
  BY <1>1, <1>3, PassedOn, FrameFacts, FourFrames
<1>5. x.last \in {0, 1} /\ x.idx \in Nat /\ x.stored \in Seq(FrameType)
  BY DEF EndType
<1>6. Keeps(x.stored, 1) \/ (h = DataFrame(q) /\ x.pc = "recv" /\ x.last = 1)
  BY <1>2, <1>4, <1>5 DEF Half, FirstInv
<1>7. \A i : Keeps(Append(x.stored, h), i) <=> Keeps(x.stored, i) \/ h.seq = i
  BY <1>3, <1>5, KeepsAppend
<1>8. /\ LastInv(x) /\ DataFrame(q) # EndFrame(q)
      /\ AckFrame(0) # EndFrame(q) /\ AckFrame(0) # DataFrame(q)
  BY <1>1, <1>2, FourFrames DEF Half
<1>9. 0 + 1 = 1 /\ 1 + 1 = 2
  OBVIOUS
<1>10. loop # ack /\ (x.pc = "recv" => ack = "ack")
  BY DEF PassesOn
<1> HIDE DEF h, q
<1>11. CASE /\ h.id = x.last /\ h.chksum = x.chksum
            /\ x2 = [pc |-> ack, idx |-> x.idx, last |-> x.last, chksum |-> x.chksum,
                     stored |-> x.stored, ack |-> x.last]
  <2>1. /\ x2.pc = ack /\ x2.idx = x.idx /\ x2.last = x.last /\ x2.chksum = x.chksum
        /\ x2.stored = x.stored /\ x2.ack = x.last
    BY <1>11 DEF EndType
  <2> QED
    BY <1>3, <1>4, <1>5, <1>6, <1>8, <1>9, <1>11, <2>1 DEF LastInv, AnsweredInv, h, q
<1>12. CASE /\ h.id = x.last /\ h.chksum # x.chksum
            /\ x2 = [pc |-> loop, idx |-> x.idx, last |-> x.last, chksum |-> x.chksum,
                     stored |-> x.stored, ack |-> x.ack]
  <2>1. /\ x2.pc = loop /\ x2.idx = x.idx /\ x2.last = x.last /\ x2.chksum = x.chksum
        /\ x2.stored = x.stored /\ x2.ack = x.ack
    BY <1>12 DEF EndType
  <2> QED
    BY <1>4, <1>5, <1>6, <1>8, <1>10, <1>12, <2>1 DEF LastInv, AnsweredInv, h, q
<1>13. CASE /\ h.id # x.last
            /\ x2 = [pc |-> ack, idx |-> x.idx, last |-> h.id, chksum |-> h.chksum,
                     stored |-> Append(x.stored, h), ack |-> h.id]
  <2>1. /\ x2.pc = ack /\ x2.idx = x.idx /\ x2.last = h.id /\ x2.chksum = h.chksum
        /\ x2.stored = Append(x.stored, h) /\ x2.ack = h.id
    BY <1>13 DEF EndType
  <2>2. /\ Keeps(x2.stored, 1) <=> Keeps(x.stored, 1) \/ h.seq = 1
        /\ Keeps(x2.stored, 2) <=> Keeps(x.stored, 2) \/ h.seq = 2
    BY <1>7, <2>1
  <2>3. /\ Keeps(x2.stored, 1)
        /\ Keeps(x2.stored, 2) <=> Keeps(x.stored, 2) \/ h = EndFrame(q)
        /\ h.id = 0 \/ (h.id = 1 /\ Keeps(x2.stored, 2))
    <3>1. h.seq = 2 <=> h = EndFrame(q)
      BY <1>4, <1>8
    <3>2. Keeps(x.stored, 1) \/ h.seq = 1
      BY <1>4, <1>6, <1>8
    <3>3. h.id = 0 \/ (h.id = 1 /\ h.seq = 2)
      BY <1>4
    <3> QED
      BY <2>2, <3>1, <3>2, <3>3
  <2>4. LastInv(x2)
    BY <1>3, <2>1, <2>3 DEF LastInv
  <2>5. Keeps(x2.stored, x2.ack + 1)
    BY <1>9, <2>1, <2>3
  <2>6. Keeps(x.stored, 1) \/ (x2.pc = "ack" /\ x2.ack = 0)
    BY <1>4, <1>6, <1>8, <1>10, <2>1
  <2> QED
    BY <2>1, <2>3, <2>4, <2>5, <2>6 DEF AnsweredInv, h, q
<1>14. Answers(x, h, loop, ack, x2)
  BY DEF h
<1> QED
  BY <1>11, <1>12, <1>13, <1>14, Zenon DEF Answers

\* A frame that is not an ACK to act on, in either loop.
LEMMA PassOnKeeps ==
  ASSUME SafeSetting, NEW p \in Peer, NEW x \in EndType, NEW y \in EndType,
         NEW u \in Seq(FrameType), NEW v \in Seq(FrameType), NEW loop, NEW ack, NEW x2,
         Pair(p, x, u, y, v), u # <<>>, PassesOn(x, Head(u), loop, ack),
         Answers(x, Head(u), loop, ack, x2)
  PROVE  Pair(p, x2, Tail(u), y, v)
<1> DEFINE q == Other(p)
           F == EndFrame(q)
           u2 == Tail(u)
<1>1. q \in Peer /\ Other(q) = p
  BY Ends
<1>2. Half(p, x, u, y) /\ Half(q, y, v, x)
  BY DEF Pair
<1>3. /\ x2.idx = x.idx /\ x2.pc \in {loop, ack} /\ LastInv(x2)
      /\ Keeps(x2.stored, 1)
      /\ Keeps(x2.stored, 2) <=> Keeps(x.stored, 2) \/ Head(u) = F
      /\ x2.pc = ack => Keeps(x2.stored, x2.ack + 1)
      /\ Keeps(x.stored, 1) \/ (x2.pc = "ack" /\ x2.ack = 0)
  <2>1. AnsweredInv(p, x, Head(u), loop, ack, x2)
    BY AnsweredFrame
  <2> QED
    BY <2>1 DEF AnsweredInv
<1>4. /\ \A g : On(u, g) <=> Head(u) = g \/ On(u2, g)
      /\ \A g, h : Leads(u, g, h) => Head(u) # h /\ (Head(u) # g => Leads(u2, g, h))
  BY OnTail
<1>5. /\ Head(u) = AckFrame(0) => x.idx >= 1
      /\ Head(u) = F => x.idx >= 1 /\ y.idx >= 1
  BY <1>1, <1>2, PassedOn, FourFrames DEF Half, PlaceInv
<1>6. \/ x.pc = "recv" /\ x.idx < 2 /\ loop = "send" /\ ack = "ack"
      \/ x.pc = "drain" /\ x.idx = 2 /\ loop = "drain" /\ ack = "drain_ack"
  BY <1>2 DEF PassesOn, Half, PlaceInv
<1>7. Half(p, x2, u2, y)
  <2>1. \A i \in 1..Len(u2) : u2[i] \in FramesTo(p)
    BY <1>2, Taken DEF Half
  <2>2. AcksInv(x2, u2, y)
    BY <1>2, <1>3, <1>4, <1>6 DEF Half, AcksInv
  <2>3. LastInv(x2) /\ FirstInv(p, x2, u2, y)
    BY <1>3 DEF FirstInv
  <2>4. AckFirstInv(p, x2, u2, y)
    BY <1>2, <1>3, <1>4, <1>5, <1>6 DEF Half, AckFirstInv, Left
  <2>5. EndFirstInv(p, x2, u2, y)
    BY <1>2, <1>3, <1>4, <1>5, <1>6 DEF Half, EndFirstInv, Left
  <2>6. PlaceInv(x2, y)
    BY <1>2, <1>3, <1>6 DEF Half, PlaceInv
  <2> QED
    BY <2>1, <2>2, <2>3, <2>4, <2>5, <2>6 DEF Half
<1>8. Half(q, y, v, x2)
  <2>1. AcksInv(y, v, x2) /\ FirstInv(q, y, v, x2)
    BY <1>2, <1>3, <1>6 DEF Half, AcksInv, FirstInv, Left
  <2>2. AckFirstInv(q, y, v, x2)
    BY <1>1, <1>2, <1>3, <1>6 DEF Half, AckFirstInv, Left
  <2>3. EndFirstInv(q, y, v, x2)
    BY <1>1, <1>2, <1>3, <1>6 DEF Half, EndFirstInv, Left
  <2>4. PlaceInv(y, x2)
    BY <1>2, <1>3, <1>6 DEF Half, PlaceInv
  <2> QED
    BY <1>2, <2>1, <2>2, <2>3, <2>4 DEF Half
<1> QED
  BY <1>7, <1>8 DEF Pair

\* The drain loop reads an ACK and does nothing with it.
LEMMA IgnoreKeeps ==
  ASSUME SafeSetting, NEW p \in Peer, NEW x \in EndType, NEW y \in EndType,
         NEW u \in Seq(FrameType), NEW v \in Seq(FrameType),
         Pair(p, x, u, y, v), x.pc = "drain", u # <<>>, Head(u).flag = "ack"
  PROVE  Pair(p, x, Tail(u), y, v)
<1> DEFINE q == Other(p)
           F == EndFrame(q)
           u2 == Tail(u)
<1>1. q \in Peer /\ Other(q) = p
  BY Ends
<1>2. Half(p, x, u, y) /\ Half(q, y, v, x)
  BY DEF Pair
<1>3. Head(u) # DataFrame(q) /\ Head(u) # F
  BY <1>1, OneChunkFrames DEF Frame
<1>4. /\ \A g : On(u, g) <=> Head(u) = g \/ On(u2, g)
      /\ \A g, h : Leads(u, g, h) => Head(u) # h /\ (Head(u) # g => Leads(u2, g, h))
  BY OnTail
<1>5. x.idx = 2 /\ Keeps(x.stored, 1) /\ Keeps(x.stored, 2)
  BY <1>2 DEF Half, PlaceInv, EndFirstInv, FirstInv
<1>6. \A i \in 1..Len(u2) : u2[i] \in FramesTo(p)
  BY <1>2, Taken DEF Half
<1>7. AcksInv(x, u2, y) /\ FirstInv(p, x, u2, y) /\ AckFirstInv(p, x, u2, y)
  BY <1>2, <1>4, <1>5 DEF Half, AcksInv, FirstInv, AckFirstInv
<1>8. EndFirstInv(p, x, u2, y)
  BY <1>2, <1>3, <1>4, <1>5 DEF Half, EndFirstInv
<1> QED
  BY <1>2, <1>6, <1>7, <1>8 DEF Pair, Half

\* A timeout of the main loop.
LEMMA TimeoutKeeps ==
  ASSUME NEW p \in Peer, NEW x \in EndType, NEW y \in EndType, NEW u, NEW v, NEW x2,
         Pair(p, x, u, y, v), x.pc = "recv", x2 = [x EXCEPT !.pc = "send"]
  PROVE  Pair(p, x2, u, y, v)
<1>1. Other(Other(p)) = p
  BY Ends
<1>2. /\ x2.pc = "send" /\ x2.idx = x.idx /\ x2.last = x.last /\ x2.chksum = x.chksum
      /\ x2.stored = x.stored /\ x2.ack = x.ack
  BY DEF EndType
<1>3. Half(p, x, u, y) /\ Half(Other(p), y, v, x)
  BY DEF Pair
<1>4. Half(p, x2, u, y)
  BY <1>2, <1>3
     DEF Half, AcksInv, LastInv, FirstInv, AckFirstInv, EndFirstInv, PlaceInv, Left
<1>5. Half(Other(p), y, v, x2)
  BY <1>1, <1>2, <1>3
     DEF Half, AcksInv, LastInv, FirstInv, AckFirstInv, EndFirstInv, PlaceInv, Left
<1> QED
  BY <1>4, <1>5 DEF Pair

\* An end leaves, with its output only if it drained or the other one has left.
LEMMA LeaveKeeps ==
  ASSUME NEW p \in Peer, NEW x \in EndType, NEW y \in EndType, NEW u, NEW v, NEW x2,
         NEW how \in {"done", "crashed", "interrupted"},
         Pair(p, x, u, y, v), ~Left(x), x2 = [x EXCEPT !.pc = how],
         how = "done" => x.pc = "drain" \/ Left(y)
  PROVE  Pair(p, x2, u, y, v)
<1>1. Other(Other(p)) = p
  BY Ends
<1>2. /\ x2.pc = how /\ x2.idx = x.idx /\ x2.last = x.last /\ x2.chksum = x.chksum
      /\ x2.stored = x.stored /\ x2.ack = x.ack
  BY DEF EndType
<1>3. Half(p, x, u, y) /\ Half(Other(p), y, v, x)
  BY DEF Pair
<1>4. Half(p, x2, u, y)
  BY <1>2, <1>3
     DEF Half, AcksInv, LastInv, FirstInv, AckFirstInv, EndFirstInv, PlaceInv, Left
<1>5. Half(Other(p), y, v, x2)
  BY <1>1, <1>2, <1>3
     DEF Half, AcksInv, LastInv, FirstInv, AckFirstInv, EndFirstInv, PlaceInv, Left
<1> QED
  BY <1>4, <1>5 DEF Pair

-----------------------------------------------------------------------------
(* Steps of the model *)

LEMMA EndTypes ==
  ASSUME TypeOK, NEW p \in Peer
  PROVE  end(p) \in EndType /\ wire[p] \in Seq(FrameType) /\ (Left(end(p)) <=> Gone(p))
BY DEF TypeOK, end, EndType, Left, Gone

LEMMA PairOf ==
  ASSUME Complete, NEW p \in Peer
  PROVE  Pair(p, end(p), wire[p], end(Other(p)), wire[Other(p)])
<1>1. Half(p, end(p), wire[p], end(Other(p)))
  BY DEF Complete
<1>2. Other(p) \in Peer /\ Other(Other(p)) = p
  BY Ends
<1>3. Half(Other(p), end(Other(p)), wire[Other(p)], end(p))
  BY <1>2 DEF Complete
<1> QED
  BY <1>1, <1>3 DEF Pair

\* A step of p leaves what the other end keeps alone.
LEMMA CompleteNext ==
  ASSUME NEW p \in Peer, NEW x2, NEW y, NEW u2, NEW v2, Pair(p, x2, u2, y, v2),
         end(p)' = x2, end(Other(p))' = y, wire'[p] = u2, wire'[Other(p)] = v2
  PROVE  Complete'
<1>1. Other(p) \in Peer /\ Other(Other(p)) = p /\ \A q \in Peer : q = p \/ q = Other(p)
  BY Ends
<1>2. Half(p, end(p)', wire'[p], end(Other(p))')
  BY DEF Pair
<1>3. Half(Other(p), end(Other(p))', wire'[Other(p)], end(p)')
  BY DEF Pair
<1>4. ASSUME NEW r \in Peer PROVE Half(r, end(r), wire[r], end(Other(r)))'
  <2>1. CASE r = p
    BY <1>2, <2>1
  <2>2. CASE r = Other(p)
    BY <1>1, <1>3, <2>2
  <2> QED
    BY <1>1, <2>1, <2>2
<1> QED
  BY <1>4 DEF Complete

\* sendall adds the frame while the other end is there.
LEMMA SendallPuts ==
  ASSUME TypeOK, NEW p \in Peer, NEW f, sendall(p, f)
  PROVE  /\ Puts(f, end(Other(p)), wire[Other(p)], wire'[Other(p)])
         /\ wire'[p] = wire[p]
<1>1. Other(p) \in Peer /\ Other(p) # p
  BY Ends
<1>2. Left(end(Other(p))) <=> Gone(Other(p))
  BY <1>1, EndTypes
<1> QED
  BY <1>1, <1>2 DEF sendall, Puts, TypeOK

LEMMA TakeTails ==
  ASSUME TypeOK, NEW p \in Peer, Take(p)
  PROVE  /\ wire[p] # <<>> /\ wire'[p] = Tail(wire[p])
         /\ wire'[Other(p)] = wire[Other(p)]
BY Ends DEF Take, TypeOK

\* The state of p with another place, field by field.
LEMMA EndFields ==
  ASSUME NEW p \in Peer
  PROVE  \A c : [end(p) EXCEPT !.pc = c] =
               [pc |-> c, idx |-> send_idx[p], last |-> last_id[p],
                chksum |-> last_chksum[p], stored |-> recv_frames[p], ack |-> ack_id[p]]
BY DEF end

\* A step of p changes the state of p alone.
LEMMA OtherEnd ==
  ASSUME TypeOK, NEW p \in Peer,
         \E c : pc' = [pc EXCEPT ![p] = c],
         send_idx' = send_idx \/ \E c : send_idx' = [send_idx EXCEPT ![p] = c],
         last_id' = last_id \/ \E c : last_id' = [last_id EXCEPT ![p] = c],
         last_chksum' = last_chksum \/ \E c : last_chksum' = [last_chksum EXCEPT ![p] = c],
         recv_frames' = recv_frames \/ \E c : recv_frames' = [recv_frames EXCEPT ![p] = c],
         ack_id' = ack_id \/ \E c : ack_id' = [ack_id EXCEPT ![p] = c]
  PROVE  end(Other(p))' = end(Other(p))
<1>1. Other(p) \in Peer /\ Other(p) # p
  BY Ends
<1>2. /\ pc'[Other(p)] = pc[Other(p)] /\ send_idx'[Other(p)] = send_idx[Other(p)]
      /\ last_id'[Other(p)] = last_id[Other(p)]
      /\ last_chksum'[Other(p)] = last_chksum[Other(p)]
      /\ recv_frames'[Other(p)] = recv_frames[Other(p)]
      /\ ack_id'[Other(p)] = ack_id[Other(p)]
  BY <1>1 DEF TypeOK
<1> QED
  BY <1>2 DEF end

\* Nothing misleads an end: what is in flight to it is intact.
Unharmed == \A p \in Peer : ~astray[p] /\ ~AtInput(p)

LEMMA NotMisled ==
  ASSUME SafeSetting, TypeOK, Complete, Unharmed, NEW p \in Peer
  PROVE  ~Misled(p)
<1>1. wire[p] \in Seq(FrameType) /\ Half(p, end(p), wire[p], end(Other(p)))
  BY DEF TypeOK, Complete
<1>2. wire[p] # <<>> => Head(wire[p]).intact
  BY <1>1, Taken, FrameFacts DEF Half
<1> QED
  BY <1>2 DEF Misled, Unharmed

\* So no read gives up but one that has taken nothing, and none is misled.
LEMMA ReadsWhole ==
  ASSUME SafeSetting, TypeOK, Complete, Unharmed, NEW p \in Peer
  PROVE  /\ ~Block(p) /\ ~RecvDamaged(p) /\ ~Key(p) /\ ~NoKey(p)
         /\ GiveUp(p) => UNCHANGED <<wire, astray, damage>>
         /\ ReadsPastEnd(p) => Gone(Other(p)) /\ wire' = wire
<1>1. ~Misled(p) /\ ~AtInput(p) /\ ~(damage < MaxDamage)
  BY NotMisled DEF Unharmed, SafeSetting, TypeOK
<1>2. ~Block(p) /\ ~RecvDamaged(p) /\ ~Key(p) /\ ~NoKey(p)
  BY <1>1 DEF Block, RecvDamaged, Key, NoKey
<1>3. GiveUp(p) => UNCHANGED <<wire, astray, damage>>
  BY <1>1 DEF GiveUp
<1>4. ReadsPastEnd(p) => Gone(Other(p)) /\ wire' = wire
  BY <1>1 DEF ReadsPastEnd, TypeOK
<1> QED
  BY <1>2, <1>3, <1>4

LEMMA NextUnharmed ==
  ASSUME SafeSetting, TypeOK, Complete, Unharmed, [Next]_vars
  PROVE  Unharmed'
<1> USE DEF local
<1>1. ASSUME NEW p \in Peer, SendData(p) \/ SendAck(p) PROVE Unharmed'
  BY <1>1 DEF SendData, SendAck, sendall, Unharmed, AtInput, TypeOK
<1>2. ASSUME NEW p \in Peer, RecvAck(p) \/ DrainIgnore(p) PROVE Unharmed'
  BY <1>2 DEF RecvAck, DrainIgnore, Take, Unharmed, AtInput, TypeOK
<1>3. ASSUME NEW p \in Peer, RecvFrame(p) \/ DrainFrame(p) PROVE Unharmed'
  BY <1>3 DEF RecvFrame, DrainFrame, Take, Answer, Unharmed, AtInput, TypeOK
<1>4. ASSUME NEW p \in Peer, RecvTimeout(p) \/ DrainTimeout(p) PROVE Unharmed'
  BY <1>4, ReadsWhole DEF RecvTimeout, DrainTimeout, Leave, Unharmed, AtInput, TypeOK
<1>5. ASSUME NEW p \in Peer, Eof(p) PROVE Unharmed'
  BY <1>5 DEF Eof, ReadsPastEnd, Leave, Unharmed, AtInput, TypeOK
<1>6. ASSUME NEW p \in Peer, Reset(p) \/ Interrupt(p) PROVE Unharmed'
  BY <1>6 DEF Reset, Interrupt, Leave, Unharmed, AtInput, TypeOK
<1>7. ASSUME NEW p \in Peer, Damage(p) PROVE FALSE
  BY <1>7 DEF Damage, SafeSetting, TypeOK
<1>8. CASE UNCHANGED vars
  BY <1>8 DEF vars, Unharmed, AtInput
<1>9. "client" \in Peer /\ "server" \in Peer
  BY DEF Peer
<1> QED
  BY <1>1, <1>2, <1>3, <1>4, <1>5, <1>6, <1>7, <1>8, <1>9, ReadsWhole
     DEF Next, ClientRun, ServerRun, Run, Read, User

LEMMA NextComplete ==
  ASSUME SafeSetting, TypeOK, Complete, Unharmed, [Next]_vars
  PROVE  Complete'
<1> USE DEF local
<1>1. ASSUME NEW p \in Peer
      PROVE  /\ Other(p) \in Peer /\ Other(p) # p
             /\ end(p) \in EndType /\ wire[p] \in Seq(FrameType)
             /\ end(Other(p)) \in EndType /\ wire[Other(p)] \in Seq(FrameType)
             /\ Pair(p, end(p), wire[p], end(Other(p)), wire[Other(p)])
  BY <1>1, Ends, EndTypes, PairOf
<1>2. ASSUME NEW p \in Peer
      PROVE  /\ end(p).pc = pc[p] /\ end(p).idx = send_idx[p] /\ end(p).ack = ack_id[p]
             /\ end(p).last = last_id[p] /\ end(p).chksum = last_chksum[p]
             /\ end(p).stored = recv_frames[p]
  BY DEF end
<1>3. ASSUME NEW p \in Peer, SendData(p) PROVE Complete'
  <2>1. end(p)' = [end(p) EXCEPT !.pc = "recv"] /\ end(Other(p))' = end(Other(p))
    <3>1. end(p)' = [end(p) EXCEPT !.pc = "recv"]
      BY <1>3, EndFields DEF SendData, end, TypeOK
    <3>2. end(Other(p))' = end(Other(p))
      BY <1>3, OtherEnd DEF SendData
    <3> QED
      BY <3>1, <3>2
  <2>2. /\ Puts(send_frames(p, send_idx[p]), end(Other(p)), wire[Other(p)], wire'[Other(p)])
        /\ wire'[p] = wire[p] /\ pc[p] = "send"
    BY <1>3, SendallPuts DEF SendData
  <2>3. Pair(p, end(p)', wire[p], end(Other(p)), wire'[Other(p)])
    BY <1>1, <1>2, <2>1, <2>2, SendDataKeeps
  <2> QED
    BY <2>1, <2>2, <2>3, CompleteNext
<1>4. ASSUME NEW p \in Peer, SendAck(p) PROVE Complete'
  <2>1. /\ end(p)' = [end(p) EXCEPT !.pc = IF pc[p] = "ack" THEN "send" ELSE "drain"]
        /\ end(Other(p))' = end(Other(p))
    <3>1. end(p)' = [end(p) EXCEPT !.pc = IF pc[p] = "ack" THEN "send" ELSE "drain"]
      BY <1>4, EndFields DEF SendAck, end, TypeOK
    <3>2. end(Other(p))' = end(Other(p))
      BY <1>4, OtherEnd DEF SendAck
    <3> QED
      BY <3>1, <3>2
  <2>2. /\ Puts(AckFrame(ack_id[p]), end(Other(p)), wire[Other(p)], wire'[Other(p)])
        /\ wire'[p] = wire[p] /\ pc[p] \in {"ack", "drain_ack"}
    BY <1>4, SendallPuts DEF SendAck
  <2>3. Pair(p, end(p)', wire[p], end(Other(p)), wire'[Other(p)])
    BY <1>1, <1>2, <2>1, <2>2, SendAckKeeps
  <2> QED
    BY <2>1, <2>2, <2>3, CompleteNext
<1>5. ASSUME NEW p \in Peer, Block(p) \/ RecvDamaged(p) \/ Key(p) \/ NoKey(p) PROVE FALSE
  BY <1>5, ReadsWhole
<1>6. ASSUME NEW p \in Peer, RecvAck(p) PROVE Complete'
  <2>1. NumFrames(p) = 2
    BY OneChunkFrames
  <2>2. /\ end(p)' = [pc |-> IF send_idx[p] + 1 = 2 THEN "drain" ELSE "send",
                      idx |-> send_idx[p] + 1, last |-> last_id[p],
                      chksum |-> last_chksum[p], stored |-> recv_frames[p],
                      ack |-> ack_id[p]]
        /\ end(Other(p))' = end(Other(p))
    <3>1. /\ pc'[p] = IF send_idx[p] + 1 = 2 THEN "drain" ELSE "send"
          /\ send_idx'[p] = send_idx[p] + 1
          /\ UNCHANGED <<last_id, last_chksum, recv_frames, ack_id>>
      BY <1>6, <2>1 DEF RecvAck, TypeOK
    <3>2. end(Other(p))' = end(Other(p))
      BY <1>6, OtherEnd DEF RecvAck
    <3> QED
      BY <3>1, <3>2 DEF end
  <2>3. /\ wire[p] # <<>> /\ wire'[p] = Tail(wire[p])
        /\ wire'[Other(p)] = wire[Other(p)]
    BY <1>6, TakeTails DEF RecvAck
  <2>4. pc[p] = "recv" /\ Head(wire[p]).flag = "ack" /\ Head(wire[p]).id = send_idx[p] % 2
    BY <1>6 DEF RecvAck, IsCurrentAck
  <2>5. Pair(p, end(p)', Tail(wire[p]), end(Other(p)), wire[Other(p)])
    BY <1>1, <1>2, <2>2, <2>3, <2>4, CurrentAckKeeps
  <2> QED
    BY <2>2, <2>3, <2>5, CompleteNext
<1>7. ASSUME NEW p \in Peer, NEW loop, NEW ack, Take(p), UNCHANGED send_idx,
             Answer(p, Head(wire[p]), loop, ack),
             PassesOn(end(p), Head(wire[p]), loop, ack)
      PROVE  Complete'
  <2>1. Answers(end(p), Head(wire[p]), loop, ack, end(p)')
    <3> DEFINE h == Head(wire[p])
    <3>1. CASE /\ IsDuplicate(p, h) /\ ack_id' = [ack_id EXCEPT ![p] = last_id[p]]
               /\ pc' = [pc EXCEPT ![p] = ack]
               /\ UNCHANGED <<last_id, last_chksum, recv_frames>>
      <4>1. pc'[p] = ack /\ ack_id'[p] = last_id[p]
        BY <3>1 DEF TypeOK
      <4> QED
        BY <1>2, <1>7, <3>1, <4>1 DEF IsDuplicate, Answers, end
    <3>2. CASE /\ IsMismatch(p, h) /\ pc' = [pc EXCEPT ![p] = loop]
               /\ UNCHANGED <<last_id, last_chksum, recv_frames, ack_id>>
      <4>1. pc'[p] = loop
        BY <3>2 DEF TypeOK
      <4> QED
        BY <1>2, <1>7, <3>2, <4>1 DEF IsMismatch, Answers, end
    <3>3. CASE /\ ~IsDuplicate(p, h) /\ ~IsMismatch(p, h) /\ Store(p, h)
               /\ ack_id' = [ack_id EXCEPT ![p] = h.id] /\ pc' = [pc EXCEPT ![p] = ack]
      <4>1. /\ pc'[p] = ack /\ ack_id'[p] = h.id /\ last_id'[p] = h.id
            /\ last_chksum'[p] = h.chksum /\ recv_frames'[p] = Append(recv_frames[p], h)
        BY <3>3 DEF Store, TypeOK
      <4>2. h.id # last_id[p]
        BY <3>3 DEF IsDuplicate, IsMismatch
      <4> QED
        BY <1>2, <1>7, <4>1, <4>2 DEF Answers, end
    <3> QED
      BY <1>7, <3>1, <3>2, <3>3 DEF Answer
  <2>2. end(Other(p))' = end(Other(p))
    BY <1>7, OtherEnd DEF Answer, Store
  <2>3. /\ wire[p] # <<>> /\ wire'[p] = Tail(wire[p])
        /\ wire'[Other(p)] = wire[Other(p)]
    BY <1>7, TakeTails
  <2>4. Pair(p, end(p)', Tail(wire[p]), end(Other(p)), wire[Other(p)])
    BY <1>1, <1>7, <2>1, <2>3, PassOnKeeps
  <2> QED
    BY <2>2, <2>3, <2>4, CompleteNext
<1>8. ASSUME NEW p \in Peer, RecvFrame(p) PROVE Complete'
  <2>1. PassesOn(end(p), Head(wire[p]), "send", "ack")
    BY <1>2, <1>8 DEF RecvFrame, IsCurrentAck, PassesOn
  <2> QED
    BY <1>7, <1>8, <2>1 DEF RecvFrame
<1>9. ASSUME NEW p \in Peer, DrainFrame(p) PROVE Complete'
  <2>1. PassesOn(end(p), Head(wire[p]), "drain", "drain_ack")
    BY <1>2, <1>9 DEF DrainFrame, PassesOn
  <2> QED
    BY <1>7, <1>9, <2>1 DEF DrainFrame
<1>10. ASSUME NEW p \in Peer, DrainIgnore(p) PROVE Complete'
  <2>1. /\ wire[p] # <<>> /\ wire'[p] = Tail(wire[p])
        /\ wire'[Other(p)] = wire[Other(p)]
    BY <1>10, TakeTails DEF DrainIgnore
  <2>2. end(p)' = end(p) /\ end(Other(p))' = end(Other(p))
    BY <1>10 DEF DrainIgnore, end
  <2>4. pc[p] = "drain" /\ Head(wire[p]).flag = "ack"
    BY <1>10 DEF DrainIgnore
  <2>5. Pair(p, end(p), Tail(wire[p]), end(Other(p)), wire[Other(p)])
    BY <1>1, <1>2, <2>1, <2>4, IgnoreKeeps
  <2> QED
    BY <2>1, <2>2, <2>5, CompleteNext
<1>11. ASSUME NEW p \in Peer, RecvTimeout(p) PROVE Complete'
  <2>1. end(p)' = [end(p) EXCEPT !.pc = "send"] /\ end(Other(p))' = end(Other(p))
    <3>1. end(p)' = [end(p) EXCEPT !.pc = "send"]
      BY <1>11, EndFields DEF RecvTimeout, end, TypeOK
    <3>2. end(Other(p))' = end(Other(p))
      BY <1>11, OtherEnd DEF RecvTimeout
    <3> QED
      BY <3>1, <3>2
  <2>2. Pair(p, end(p)', wire[p], end(Other(p)), wire[Other(p)])
    BY <1>1, <1>2, <1>11, <2>1, TimeoutKeeps DEF RecvTimeout
  <2>3. wire' = wire
    BY <1>11, ReadsWhole DEF RecvTimeout
  <2> QED
    BY <2>1, <2>2, <2>3, CompleteNext
<1>12. ASSUME NEW p \in Peer, NEW how \in {"done", "crashed", "interrupted"},
              Leave(p, how), wire' = wire, ~Gone(p), how = "done" => pc[p] = "drain" \/ Gone(Other(p))
       PROVE  Complete'
  <2>1. end(p)' = [end(p) EXCEPT !.pc = how] /\ end(Other(p))' = end(Other(p))
    <3>1. end(p)' = [end(p) EXCEPT !.pc = how]
      BY <1>12, EndFields DEF Leave, end, TypeOK
    <3>2. end(Other(p))' = end(Other(p))
      BY <1>12, OtherEnd DEF Leave
    <3> QED
      BY <3>1, <3>2
  <2>2. ~Left(end(p)) /\ (how = "done" => pc[p] = "drain" \/ Left(end(Other(p))))
    BY <1>1, <1>12, EndTypes
  <2>3. Pair(p, end(p)', wire[p], end(Other(p)), wire[Other(p)])
    BY <1>1, <1>2, <2>1, <2>2, LeaveKeeps
  <2> QED
    BY <1>12, <2>1, <2>3, CompleteNext DEF Leave
<1>13. ASSUME NEW p \in Peer, DrainTimeout(p) \/ Eof(p) \/ Reset(p) \/ Interrupt(p)
       PROVE  Complete'
  <2>1. CASE DrainTimeout(p) \/ Eof(p)
    BY <1>12, <2>1, ReadsWhole DEF DrainTimeout, Eof, Gone
  <2>2. CASE Reset(p) \/ Interrupt(p)
    BY <1>12, <2>2 DEF Reset, Interrupt
  <2> QED
    BY <1>13, <2>1, <2>2
<1>14. ASSUME NEW p \in Peer, Damage(p) PROVE FALSE
  BY <1>14 DEF Damage, SafeSetting, TypeOK
<1>15. CASE UNCHANGED vars
  BY <1>15 DEF vars, Complete, end
<1>16. "client" \in Peer /\ "server" \in Peer
  BY DEF Peer
<1> QED
  BY <1>3, <1>4, <1>5, <1>6, <1>8, <1>9, <1>10, <1>11, <1>13, <1>14, <1>15, <1>16
     DEF Next, ClientRun, ServerRun, Run, Read, User

LEMMA InitComplete == Init => Complete
<1> SUFFICES ASSUME Init, NEW p \in Peer
             PROVE  Half(p, end(p), wire[p], end(Other(p)))
  BY DEF Complete
<1>1. Other(p) \in Peer
  BY Ends
<1>2. /\ end(p).pc = "send" /\ end(p).idx = 0 /\ end(p).last = 1
      /\ end(p).chksum = NoChksum /\ end(p).stored = <<>> /\ wire[p] = <<>>
  BY DEF Init, end
<1>3. /\ end(Other(p)).pc = "send" /\ end(Other(p)).idx = 0
      /\ end(Other(p)).stored = <<>>
  BY <1>1 DEF Init, end
<1>4. \A f, g : ~Keeps(<<>>, f) /\ ~On(<<>>, f) /\ Leads(<<>>, f, g)
  BY DEF Keeps, On, Leads
<1>5. /\ \A i : ~Keeps(end(p).stored, i) /\ ~Keeps(end(Other(p)).stored, i)
      /\ \A f, g : ~On(wire[p], f) /\ Leads(wire[p], f, g)
  BY <1>2, <1>3, <1>4
<1>6. \A i \in 1..Len(wire[p]) : wire[p][i] \in FramesTo(p)
  BY <1>2
<1>7. AcksInv(end(p), wire[p], end(Other(p))) /\ LastInv(end(p))
  BY <1>2, <1>3, <1>5 DEF AcksInv, LastInv
<1>8. FirstInv(p, end(p), wire[p], end(Other(p)))
  BY <1>2, <1>3 DEF FirstInv
<1>9. AckFirstInv(p, end(p), wire[p], end(Other(p)))
  BY <1>2, <1>5 DEF AckFirstInv
<1>10. EndFirstInv(p, end(p), wire[p], end(Other(p)))
  BY <1>2, <1>3, <1>5 DEF EndFirstInv
<1>11. PlaceInv(end(p), end(Other(p)))
  BY <1>2 DEF PlaceInv
<1> QED
  BY <1>6, <1>7, <1>8, <1>9, <1>10, <1>11 DEF Half

LEMMA AlwaysComplete ==
  ASSUME SafeSetting
  PROVE  Spec => []Complete
<1>1. Init => TypeOK /\ Complete /\ Unharmed
  BY InitType, InitComplete DEF Init, Unharmed, AtInput
<1>2. TypeOK /\ Complete /\ Unharmed /\ [Next]_vars => (TypeOK /\ Complete /\ Unharmed)'
  BY NextType, NextComplete, NextUnharmed
<1> QED
  BY <1>1, <1>2, PTL DEF Spec

-----------------------------------------------------------------------------
(* What the link promises in this setting *)

\* An end moves past a frame only after the other end has stored it: with files of one
\* chunk and nothing damaged, no ACK is ever taken for that of another frame, however
\* late it comes and however often frames are resent.
THEOREM AcksAreTrue ==
  MaxDamage = 0 /\ (\A p \in Peer : Len(Input[p]) = 1) => (Spec => []AckMeansStored)
<1> SUFFICES ASSUME SafeSetting PROVE Spec => []AckMeansStored
  BY DEF SafeSetting
<1>1. Complete => AckMeansStored
  <2> SUFFICES ASSUME Complete, NEW p \in Peer, NEW i \in 1..send_idx[p]
               PROVE  HasStored(Other(p), i)
    BY DEF AckMeansStored
  <2>1. Pair(p, end(p), wire[p], end(Other(p)), wire[Other(p)])
    BY PairOf
  <2>2. end(p).idx \in 0..2 /\ end(p).idx = send_idx[p]
    BY <2>1 DEF Pair, Half, PlaceInv, end
  <2>3. end(Other(p)).stored = recv_frames[Other(p)]
    BY DEF end
  <2>4. i = 1 \/ (i = 2 /\ send_idx[p] = 2)
    BY <2>2
  <2> QED
    BY <2>1, <2>2, <2>3, <2>4 DEF Pair, Half, AcksInv, Keeps, HasStored
<1> QED
  BY <1>1, AlwaysComplete, PTL

\* When both ends have written their output, each has the whole file of the other one:
\* an end that stops draining, or sees the other one close, leaves nothing behind.
THEOREM BothEndsComplete ==
  MaxDamage = 0 /\ (\A p \in Peer : Len(Input[p]) = 1) => (Spec => []BothComplete)
<1> SUFFICES ASSUME SafeSetting PROVE Spec => []BothComplete
  BY DEF SafeSetting
<1>1. Complete => BothComplete
  <2> SUFFICES ASSUME Complete, \A p \in Peer : pc[p] = "done",
                      NEW p \in Peer, NEW i \in 1..NumFrames(Other(p))
               PROVE  HasStored(p, i)
    BY DEF BothComplete
  <2>1. Other(p) \in Peer /\ Other(Other(p)) = p
    BY Ends
  <2>2. i \in {1, 2}
    BY <2>1, OneChunkFrames
  <2>3. /\ Half(p, end(p), wire[p], end(Other(p)))
        /\ Half(Other(p), end(Other(p)), wire[Other(p)], end(p))
    BY PairOf DEF Pair
  <2>4. end(p).pc = "done" /\ end(Other(p)).pc = "done" /\ end(p).stored = recv_frames[p]
    BY <2>1 DEF end
  <2>5. end(p).idx = 2 \/ end(Other(p)).idx = 2
    BY <2>3, <2>4 DEF Half, PlaceInv
  <2>6. Keeps(end(p).stored, 1) /\ Keeps(end(p).stored, 2)
    BY <2>3, <2>5 DEF Half, AcksInv, EndFirstInv, FirstInv
  <2> QED
    BY <2>2, <2>4, <2>6 DEF Keeps, HasStored
<1> QED
  BY <1>1, AlwaysComplete, PTL
=============================================================================

---------------------------- MODULE DccnetStream ----------------------------
(***************************************************************************)
(* Frames of TP02 as the hexadecimal digits that the connection carries:   *)
(* how a frame is built and its checksum filled in, and how search_frame   *)
(* finds, reads and verifies one, when digits are late or damaged.         *)
(***************************************************************************)
EXTENDS Naturals, Sequences, FiniteSets, SequencesExt

CONSTANTS
  Payload,      \* payloads of the frames to send, in turn: digits, two for each byte
  MaxFrames,    \* frames of data sent
  MaxAcks,      \* ACK frames sent among them
  Ahead,        \* digits under way when the sender waits
  Noise,        \* digits that the medium puts in place of others
  MaxFaults     \* digits damaged, and timeouts in the middle of something

Digit == 0..15

MAX_LENGTH == 65535

ASSUME StreamAssumption ==
  /\ Payload \in Seq(Seq(Digit)) /\ Payload # <<>>
  /\ \A i \in 1..Len(Payload) :
       Len(Payload[i]) % 2 = 0 /\ Payload[i] # <<>> /\ Len(Payload[i]) <= 2 * MAX_LENGTH
  /\ Noise \subseteq Digit
  /\ {MaxFrames, MaxAcks, Ahead, MaxFaults} \subseteq Nat

VARIABLES
  line,      \* digits under way
  pos,       \* how many digits were taken off the line
  sent,      \* history: <<position, frame>> of the frames sent
  damaged,   \* history: positions damaged, counted from the first digit ever sent
  timeouts,  \* timeouts in the middle of something
  pc, header,\* the reader: where it is in search_frame, what it read of the frame
  returned,  \* history: <<position, frame>> of the frames search_frame returned
  skipped    \* history: digits taken since the last frame returned, or disturbance

vars == <<line, pos, sent, damaged, timeouts, pc, header, returned, skipped>>

-----------------------------------------------------------------------------
(* Frames *)

\* The digits of a field of one or two bytes, and the number that such a field holds.
PackB(n) == <<(n \div 16) % 16, n % 16>>
PackH(n) == <<(n \div 4096) % 16, (n \div 256) % 16, (n \div 16) % 16, n % 16>>
UnpackB(d, i) == 16 * d[i] + d[i + 1]
UnpackH(d, i) == 4096 * d[i] + 256 * d[i + 1] + 16 * d[i + 2] + d[i + 3]

SYNC_BYTES == <<13, 12, 12, 0, 2, 3, 12, 2, 13, 12, 12, 0, 2, 3, 12, 2>>

Word == 65536

\* Mutant of FoldCarry: what the addition of the carry carries is cut off.
FoldCarryOnce(sum) == ((sum \div Word) + (sum % Word)) % Word

\* Carries are added at the low end until 16 bits are left.
FoldCarry(sum) ==
  LET fold[n \in Nat] == IF n < Word THEN n ELSE fold[(n \div Word) + (n % Word)]
  IN  fold[sum]

\* The 16 bit words of a frame, the last one filled up with a byte 0.
Words(frame) ==
  LET padded == frame \o (IF Len(frame) % 4 = 0 THEN <<>> ELSE <<0, 0>>)
  IN  [i \in 1..Len(padded) \div 4 |-> UnpackH(padded, 4 * i - 3)]

\* The sum of the first n words.
SumOf(words, n) ==
  LET sum[i \in 0..Len(words)] == IF i = 0 THEN 0 ELSE sum[i - 1] + words[i]
  IN  sum[n]

compute_checksum(frame) ==
  LET words == Words(frame) IN Word - 1 - FoldCarry(SumOf(words, Len(words)))

fill_checksum_field(frame) ==
  SubSeq(frame, 1, 20) \o PackH(compute_checksum(frame)) \o SubSeq(frame, 25, Len(frame))

\* Mutant of verify_frame_integrity: every frame is taken.
no_verification(frame) == TRUE

\* Mutant of verify_frame_integrity: the low byte of the checksum only is looked at.
low_byte_integrity(frame) == compute_checksum(frame) % 256 = 0

verify_frame_integrity(frame) == compute_checksum(frame) = 0

\* A frame with this identifier, flags and payload, its checksum filled in.
Frame(id, flags, data) ==
  fill_checksum_field(
    SYNC_BYTES \o PackH(Len(data) \div 2) \o PackH(0) \o PackB(id) \o PackB(flags) \o data)

END == 64
ACK == 128

\* Mutant of CreateFrame: payloads are filled up to whole words.
CreateFramePadded(i) ==
  IF i = MaxFrames THEN Frame(i % 2, END, <<>>)
  ELSE LET data == Payload[(i % Len(Payload)) + 1]
       IN  Frame(i % 2, 0, data \o (IF Len(data) % 4 = 0 THEN <<>> ELSE <<0, 0>>))

\* create_frames: the frame number i; END comes after MaxFrames frames of data.
CreateFrame(i) ==
  IF i = MaxFrames THEN Frame(i % 2, END, <<>>)
  ELSE Frame(i % 2, 0, Payload[(i % Len(Payload)) + 1])

\* The fields of a header.
LengthOf(h) == UnpackH(h, 17)
IdOf(h) == UnpackB(h, 25)
FlagsOf(h) == UnpackB(h, 27)

\* Mutant of Plausible: any flags will do.
PlausibleFlags(h) ==
  IdOf(h) \in {0, 1} /\ (LengthOf(h) = 0 <=> FlagsOf(h) # 0)

\* What search_frame tests before it reads the payload.
Plausible(h) ==
  /\ IdOf(h) \in {0, 1}
  /\ FlagsOf(h) \in {0, END, ACK}
  /\ LengthOf(h) = 0 <=> FlagsOf(h) # 0

-----------------------------------------------------------------------------
(* The connection *)

Init ==
  /\ line = <<>> /\ pos = 0
  /\ sent = <<>> /\ damaged = {} /\ timeouts = 0
  /\ pc = "sync" /\ header = <<>>
  /\ returned = <<>> /\ skipped = 0

Faults == Cardinality(damaged) + timeouts

Acks == Cardinality({i \in DOMAIN sent : FlagsOf(sent[i][2]) = ACK})

\* send_data_frame with the next frame, or send_ack_frame between two of them.
Send ==
  /\ Len(line) < Ahead
  /\ \E frame \in {CreateFrame(i) : i \in {Len(sent) - Acks} \cap 0..MaxFrames}
                  \cup {Frame(id, ACK, <<>>) : id \in {n \in 0..1 : Acks < MaxAcks}} :
       sent' = Append(sent, <<pos + Len(line), frame>>) /\ line' = line \o frame
  /\ UNCHANGED <<pos, damaged, timeouts, pc, header, returned, skipped>>

Damage ==
  /\ Faults < MaxFaults
  /\ \E i \in 1..Len(line) :
       /\ \E d \in Noise \ {line[i]} : line' = [line EXCEPT ![i] = d]
       /\ damaged' = damaged \cup {pos + i}
  /\ UNCHANGED <<pos, sent, timeouts, pc, header, returned, skipped>>

\* n digits are taken off the line.  Reading a damaged one is a disturbance.
Take(n) ==
  /\ line' = SubSeq(line, n + 1, Len(line))
  /\ pos' = pos + n
  /\ skipped' = IF damaged \cap (pos + 1)..(pos + n) = {} THEN skipped + n ELSE 0

-----------------------------------------------------------------------------
(* search_frame *)

\* What the current recv_expected_length asks for.
Wanted ==
  CASE pc = "sync" -> 16 [] pc = "rest" -> 12 [] pc = "data" -> 2 * LengthOf(header)

Read == SubSeq(line, 1, Wanted)

\* recv_expected_length returns what it was asked for.
Recv(place) ==
  /\ pc = place /\ Len(line) >= Wanted
  /\ UNCHANGED <<sent, damaged, timeouts>>

ReadSync ==
  /\ Recv("sync")
  /\ Take(16)
  /\ IF Read = SYNC_BYTES
     THEN pc' = "rest" /\ header' = Read
     ELSE pc' = "input" /\ UNCHANGED header
  /\ UNCHANGED returned

\* The input() after each block that is not a sync sequence: a key is pressed.
Key ==
  /\ pc = "input" /\ pc' = "sync"
  /\ UNCHANGED <<line, pos, sent, damaged, timeouts, header, returned, skipped>>

\* An implausible header ends the search; its payload stays on the line.
ReadRest ==
  /\ Recv("rest")
  /\ Take(12)
  /\ header' = header \o Read
  /\ pc' = IF Plausible(header') THEN "data" ELSE "sync"
  /\ UNCHANGED returned

\* Mutant of ReadData: the payload of a frame that is not verified is left on the line.
ReadDataLeft ==
  LET frame == header \o Read IN
  /\ Recv("data")
  /\ IF verify_frame_integrity(frame)
     THEN /\ line' = SubSeq(line, Wanted + 1, Len(line)) /\ pos' = pos + Wanted
          /\ returned' = Append(returned, <<pos - 28, frame>>) /\ skipped' = 0
     ELSE UNCHANGED <<line, pos, returned, skipped>>
  /\ pc' = "sync" /\ UNCHANGED header

\* The frame, or None.
ReadData ==
  LET frame == header \o Read IN
  /\ Recv("data")
  /\ line' = SubSeq(line, Wanted + 1, Len(line)) /\ pos' = pos + Wanted
  /\ IF verify_frame_integrity(frame)
     THEN returned' = Append(returned, <<pos - 28, frame>>) /\ skipped' = 0
     ELSE UNCHANGED returned /\ Take(Wanted)
  /\ pc' = "sync" /\ UNCHANGED header

\* A second without a digit in the middle of something: what this call has read is lost.
Timeout ==
  /\ pc # "input" /\ Faults < MaxFaults
  /\ \E n \in 0..Len(line) :
       /\ n < Wanted /\ (pc = "sync" => n > 0)
       /\ line' = SubSeq(line, n + 1, Len(line)) /\ pos' = pos + n
  /\ timeouts' = timeouts + 1 /\ skipped' = 0
  /\ pc' = "sync"
  /\ UNCHANGED <<sent, damaged, header, returned>>

Next == Send \/ Damage \/ ReadSync \/ Key \/ ReadRest \/ ReadData \/ Timeout

Spec == Init /\ [][Next]_vars

-----------------------------------------------------------------------------
(* Properties *)

\* The digits under way are those sent and not taken, and the reader waits for a payload
\* only with a header that can be that of a frame.
TypeOK ==
  /\ line \in Seq(Digit)
  /\ sent # <<>> => pos + Len(line) = Last(sent)[1] + Len(Last(sent)[2])
  /\ damaged \subseteq 1..(pos + Len(line)) /\ timeouts \in 0..MaxFaults
  /\ pc \in {"sync", "input", "rest", "data"}
  /\ pc = "rest" => header = SYNC_BYTES
  /\ pc = "data" => <<LengthOf(header) > 0, FlagsOf(header)>>
                      \in {<<TRUE, 0>>, <<FALSE, END>>, <<FALSE, ACK>>}

\* As long as no digit read was damaged and no read was late, search_frame returns every
\* frame sent, END and ACKs included, each once and in order, never stops at its input(), and
\* begins each search at the beginning of a frame, whatever is damaged further on.  The
\* checksum that a sender fills in is one its reader accepts whatever carries the sum of the
\* words has.
InStep ==
  timeouts = 0 /\ damaged \cap 1..pos = {} =>
    /\ pc # "input"
    /\ IsPrefix(returned, sent)
    /\ pc = "sync" =>
         IF returned = sent THEN line = <<>> ELSE pos = sent[Len(returned) + 1][1]

\* The digits that a reader finds its way by: the sync sequence, length, identifier and flags
\* of each frame.
Vital == UNION {{sent[k][1] + i : i \in (1..20) \cup (25..28)} : k \in DOMAIN sent}

Whole(k) == damaged \cap (sent[k][1] + 1)..(sent[k][1] + Len(sent[k][2])) = {}

\* Damage to checksums and payloads, however much, costs no frame but those that it is in: as
\* long as no other digit read was damaged and no read late, each search begins at the
\* beginning of a frame, every frame before it that was not damaged has been returned, and
\* what was returned came from different places, in their order.
DamageIsLocal ==
  timeouts = 0 /\ damaged \cap Vital \cap 1..pos = {} =>
    /\ pc # "input"
    /\ \A i, j \in DOMAIN returned : i < j => returned[i][1] < returned[j][1]
    /\ pc = "sync" =>
         \E next \in 1..(Len(sent) + 1) :
           /\ IF next > Len(sent) THEN line = <<>> ELSE pos = sent[next][1]
           /\ \A k \in 1..(next - 1) : Whole(k) => sent[k] \in ToSet(returned)

\* A frame that search_frame returns was sent, at that place and with those digits: one
\* damaged digit, or a part of the stream lost by a timeout, never makes a frame of its own,
\* wherever the reader goes on.  (Two damaged digits may cancel out in the checksum.)
Genuine ==
  Cardinality(damaged) <= 1 =>
    ToSet(returned) \subseteq ToSet(sent)

\* When the frame that a payload completes differs in one digit from a frame that was sent,
\* whichever digit of its header, checksum or payload it is, search_frame returns nothing.
OneDigitRefused ==
  [][\A k \in DOMAIN sent :
       LET f == sent[k][2]
           frame == header \o Read
       IN  /\ pc = "data" /\ Len(line) >= Wanted /\ Len(frame) = Len(f)
           /\ \E i \in DOMAIN f : frame[i] # f[i] /\ frame = [f EXCEPT ![i] = frame[i]]
           => returned' = returned]_vars

FrameLength == 28 + Len(Payload[1])

\* The digits that say how long frames are.
Lengths == UNION {{sent[k][1] + i : i \in 17..20} : k \in DOMAIN sent}

\* A reader out of step looks for SYNC in blocks of 16 digits.  When all frames of data are
\* as long and leave 2 digits of a block over or 10, as frames of MAX_LENGTH bytes do, the
\* blocks move along the frames and one meets a SYNC again: after a fault the reader takes no
\* more than the digits of nine frames without returning one.  An ACK among them sets the
\* blocks back: that costs two frames more, and the ACK.  Only when no length was damaged,
\* for then the reader takes as much as that says, and when whole bytes were lost: an odd
\* digit is never made up for.
FoundAgain ==
  /\ pos % 2 = 0
  /\ damaged \cap Lengths = {}
  /\ \A i \in DOMAIN Payload : Len(Payload[i]) = Len(Payload[1])
  /\ FrameLength % 8 = 2
  => skipped <= (9 + 3 * Acks) * FrameLength
=============================================================================

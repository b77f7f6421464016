# Verification of Redes-de-Computadores

The repository holds three course assignments, each a small networked system:

| part | program | what it does |
|------|---------|--------------|
| TP01 | `server.c`, `client.c`, `location_array.c` | a server that stores map locations and one client at a time that adds, removes, lists and queries them |
| TP02 | `dcc023c2.py`, `utils/` | a link emulator: two ends exchange a file each by stop-and-wait over one TCP connection, frames in base16 with a checksum |
| TP03 | `server.py`, `sender.py`, `displayer.py` | a message server that relays messages from emitters to exhibitors |

`servidor-cliente-base/` is the echo example the assignments start from;
`TP02/old_version.py` and `utils/common.py` are an earlier version that
`dcc023c2.py` does not use.  Neither is modelled.  Of `TP02/checksum.py` the two
example frames are used, as known answers for the checksum.

## Inventory

### TP02, the link (`base.py`, `client.py`, `server.py`)

*State of an end:* the list of frames to send and `send_idx`; `last_id` and
`last_chksum` of the last frame stored; `recv_frames`; where it is in `run()`.
*Between the ends:* one TCP connection, two FIFOs of bounded size.
*Operations:* build the frames, with their checksums; send the current frame; read a
frame (look for its sync sequence, read the rest of its header, judge it, read its
payload, verify the checksum), with a timeout of one second
(`select`); act on it (move on, acknowledge a duplicate, drop, store and
acknowledge); after the last ACK, a second loop that only receives until a silent
second; write the output file.
*Hard:* resends race late ACKs with ids of one bit; both ends send before they
read; a frame may be damaged, or lose its beginning to a timeout, and the reader
must find the next one; one end may leave first.
*Correct means:* what is stored is what was sent, in order; a frame is left behind
only when it is stored; both ends finish.

### TP03, the message server (`server.py`) and its clients

*State of the server:* `available_sockets`, `senders`, `displayers` (three
dictionaries that describe the same clients), `sender_ids` and `displayer_ids`
(free ids), and the list that the last `select` returned.  *State of a client:*
its id, its sequence number and the call it is in.
*Operations of the server:* accept a client (`create_client`); FLW of an exhibitor
(`process_displayer`); FLW, MSG, CREQ and FILE of an emitter (`process_sender`),
each relayed to the exhibitors of `get_send_to_list`, one after the other, waiting
for each one's OK.  After FILE the server reads as many chunks as it announces and
relays each in the same way; an exhibitor that was sent FILE reads as many.
*Interaction:* the single server thread blocks in `recv_ok_message`; an exhibitor
may send FLW (Ctrl-C) at that moment; an emitter may leave while it waits.
*Hard:* stale entries of the three tables and of the ready list, messages that cross,
answers taken for other answers, three programs that must agree where in a stream of
bytes they are, exceptions that nothing catches.
*Correct means:* ids are neither lost nor shared, the tables agree, OK means shown, what
is written is the file that was sent, a file reported as sent has arrived,
everybody gets an answer, clients that leave in an offered way do no harm.

### TP01, the location server

*State:* `location_array_t` (a fill count and 50 cells), the client being served, the
rest of the message being executed; in the client, how many answers it still expects.
*Operations:* add, remove, list, query; accept, receive, execute line by line, answer,
close, kill.
*Hard:* the bounds of the array, ties and an unset minimum in the search; client and
server count messages in different ways; one client is served, the others queue, and any
of them may leave while an answer is due.
*Correct means:* the array is a list without repetition, every entry gets exactly its
answers, nobody waits for ever.

## Modules

| module | models | checked with | proofs |
|--------|--------|--------------|--------|
| `DccnetLink` | both ends of TP02 and the connection | `MCDccnetLink` | `DccnetLinkProofs` |
| `DccnetStream` | the frames of TP02 as digits, and the search for them | `MCDccnetStream` | `DccnetStreamProofs` |
| `MessageServer` | the server of TP03, emitters and exhibitors | `MCMessageServer` | `MessageServerProofs`, `MessageServerRelayProofs` |
| `FileTransfer` | FILE and FILE_CHUNK of TP03, through emitter, server and exhibitors | `MCFileTransfer` | `FileTransferProofs`, `FileTransferRelayProofs` |
| `LocationList` | what the storage of TP01 promises (abstract) | through `LocationArray` | |
| `LocationArray` | `location_array.c` | `MCLocationArray` | `LocationArrayProofs` |
| `LocationServer` | `server.c` and `client.c` of TP01, over `LocationList` | `MCLocationServer` | `LocationServerProofs` |

`PROJECT.json` maps each definition to the lines it stands for.  Definitions whose
comment begins with "Mutant of" are plausible bugs; nothing uses them, they record
which property notices which bug.

### DccnetLink

`Client.run` and `Server.run` are the same text, so each action takes the end `p`.
`pc[p]` is the place in `run()`: `send` (top of the main loop), `recv` (its
`search_frame`), `ack` (`send_ack_frame`), `drain` and `drain_ack` (second loop), `input`
and `drain_input` (the `input()` that the search calls after every block of 16 digits that is
no sync sequence), and `done`, `crashed` or `interrupted`.

- A frame is atomic for a reader that begins where it begins: `Take` is then a whole
  `search_frame`.  A reader that goes by damaged digits (`intact = FALSE`), or that has lost the
  beginning of a frame (`astray`), stops anywhere: just behind some frame, or inside the next
  (`Pass`).  `RecvDamaged` is a search that found a header and returns `None`, with the payload
  left on the connection or with as many digits taken as the length field says; `Block` is a
  block that is no sync sequence, after which a key has to be pressed (`Key`) or, at the end of
  the input, `EOFError` ends the program (`NoKey`).  A read that times out half-way is one of
  the faults that `MaxDamage` counts.
- How many digits a reader takes exactly, and whether it finds a frame again, is
  `DccnetStream`.  Two things of it are assumed here: a damaged frame does not verify by luck,
  and what a reader out of step meets is no whole frame inside another.
- The checksum is a number: the sum of the words of the frame modulo 65535, but for the sync
  words, which all frames share.  Checksums of a data frame and of an END frame or an ACK may be
  equal, and the chunks of the runs are chosen so that they are.
- `wire[p]` is what is under way to `p`; `sendall` blocks at `Cap` frames.
- `seq` in a frame is not in the program: it says which frame of the file this is, so
  that the properties can tell frames with equal contents apart.  No action reads it.
- `RecvTimeout` and `DrainTimeout` are possible at any time, also when the other end has left:
  a frame under way, or the end of the connection, may take longer than a second.
- An end that leaves with frames unread resets the connection; sending to an end that
  has left may also bring a reset (`rst`).  `Reset` is then the exception that no
  handler catches, `Eof` the orderly end of file.

### DccnetStream

One direction of a connection, as the hexadecimal digits that base16 puts on it.  `line` is
what is under way, `pos` how much the reader has taken; `Send` appends a frame of
`create_frames` or an ACK, checksum filled in.  `pc` is the `recv_expected_length` that
`search_frame` is in: 16 digits of a sync sequence, 12 of the rest of the header, the
payload; or `input`, the `input()` after every block that is not a sync sequence.

- Digits arrive one at a time in TCP; a read succeeds when enough are there.  `Timeout` is a
  read that gives up: it may have taken any number of digits short of what it wanted, and
  they are lost.  (A timeout with nothing taken, between frames, changes nothing.)
- `Damage` replaces a digit under way by another digit.
- A payload is what `create_frames` cuts: whole bytes, at least one and at most `MAX_LENGTH`,
  which also is what the length field can hold.
- `sent`, `damaged`, `returned` and `skipped` are histories.
- Frames follow each other without regard to what the reader answers: the stop-and-wait loop
  decides which frames are sent, and is `DccnetLink`'s.  The two modules are not composed.

### MessageServer

`srv` is the place of the server: in `select`, in the loop over the ready sockets
(`round`), waiting in `recv_ok_message` for one exhibitor (`wait`, with the relay in
`job`), or `crashed` with the exception in `failure`.  The three dictionaries keep their
names, as functions over all clients and ids with `None` for an absent key.  `cpc[c]` is
the place of a client: waiting for the answer to OI, at its prompt or in `recv` (`ready`),
waiting for an answer (`reply`), between reading and answering (`answer`), waiting for
the answer to FLW (`bye`), ended.

- A message is its header; bodies are left out.  Ids popped from a set, sockets served
  in a round and exhibitors reached by a broadcast come in any order.
- A relay sends to one exhibitor per step and waits for it, so clients move meanwhile.
- `shown` and `acked` are history variables.
- Clients end the ways their programs offer: FLW, Ctrl-C, ERRO, the end of the server.
  Killing one outright (which ends the server at once, hazard at
  `utils/common.py:32`) is left out: every property about leaving would be about that.
  Ctrl-C is possible where the program waits: at the prompt, in `recv`, between
  reading a message and answering it.
- An exhibitor sends nothing but OK and FLW, as `displayer.py` does.
- What the server sends to a client that has ended is lost, and its next read of that
  socket ends the server.  Whether that read reports the end of the connection or a reset
  is not told apart: both exceptions leave the program.
- FILE transfers are in `FileTransfer`.

### FileTransfer

Connections carry 16 bit words, because the point of this module is that a reader takes the
words it expects and not the message somebody sent: `HasHeader`, `HasBody` and the operators
beside them are `recv_expected_length` followed by `unpack`.  `em`, `ex[x]` and `srv` are the
state of the programs, with `pc` the call each is in: the emitter at its prompt, waiting
for the OK of FILE, between chunks, waiting for the OK of a chunk, waiting for that of FLW; an
exhibitor in its main loop, about to answer, in `recv_file_chunks`, about to write the file,
waiting for the OK of FLW; the server in `select`, reading a request, waiting for the OK of an
exhibitor (`relay`), reading a chunk, or ended by an exception.

- The clients are connected already; the emitter has no displayer of its own.  Those cases
  are in `MessageServer`.  A change of `displayers` during a transfer is impossible, since the
  single thread is in the transfer.
- The contents of files are words that no two files share; an extension is one word.
- A request that is read out of step may be anything.  What can come up with the bounds given is
  covered: types without a branch, unknown types (`UnknownType`, `ReadOther`), ids of others.
- `MAX_FIELD` is the largest number that a field of 16 bits holds, for sequence numbers and
  counts of chunks: past it `pack` raises, and the emitter ends (`CommandRaises`, `PackRaises`).
- The exhibitor writes into a folder that is not part of the repository.  Where it cannot, it
  ends with an exception and without FLW (`SaveRaises`), after it has acknowledged every chunk.
- `Undisturbed` says that no relay has failed, the emitter has not broken off a transfer or
  ended by an exception, and no exhibitor has ended by a file it could not write.  All
  properties are about such behaviours, and the next section says what happens in the others.

### LocationList, LocationArray, LocationServer

`LocationList` is a sequence and the answer to the last operation.  `LocationArray` is
the C code: the cells beyond `size` hold anything, as the array lies on the stack;
`search` is a `get_closest_location` under way, one step per round of its loop, with
`None` for the unset `xmin` and `ymin`.  Its refinement mapping is `Contents`, the first
`size` cells; the search stutters until it answers.  The answer of a query is kept together
with the location asked for, so that the refinement relates the two.  The refinement is proved, so
`LocationServer` uses `LocationList` for the storage.

In `LocationServer` a line of a message is a command, an invalid line, a blank one or
one that makes the message too long; texts and their parsing are left out.
`Receive(c)` takes any number of answers that have arrived, since TCP may deliver them
together, and `ReceiveMessage(c)` any number of lines: `receive_message` returns at any part
that ends in a newline.  `client.c` itself sends one line at a time (`fgets`); its comment and the
server allow several, so the entries of the runs have several too.  A line that is longer than
`fgets` takes goes out in parts, of which the server makes one message; a client whose input has
ended goes round its prompt without sending anything, and is a user that enters no more.  A user may end the client
at any moment (`Quit`).  A client that ends with an answer unread, or is sent one later, resets
the connection (`Reset`): the server's `recv` then returns -1, in practice followed by
0 (`ClientEnded`), and its `send` may fail or raise SIGPIPE, which ends it (`SendFails`).
Answers fit their buffers: a list of 50 locations has 500 characters.  Several answers
that arrive together may not, which matters only to clients that send several lines.

## Runs

Passing runs:

| run | bounds | what it shows |
|-----|--------|---------------|
| `link_undamaged` | one chunk and END each way, 6 frames in flight, no damage | resends alone lose nothing when ids do not repeat: `AckMeansStored`, `BothComplete` |
| `link_damaged` | 2 chunks and 1, 3 in flight, 1 damaged or late half-way | whatever happens, stored frames are genuine and in order: `InOrder`, with the invariant `LineInv` of the connection; `EndsOrWedges`, `LeavesTogether` |
| `server_two_emitters` | 2 exhibitors for 1 id, 2 emitters, an id for each | a full server, an id used again, an exhibitor taken over: `IdsConserved`, `TablesAgree`, `DisplayerHasItsSender` |
| `server_broadcast` | 2 exhibitors, 1 emitter, 1 request | `AckedIsShown`, `RoundIsCurrent`, `RequestAnswered` |
| `file_transfer` | 2 exhibitors, files of 0 and 5 words in chunks of 2, 2 files, numbers up to 7 | until something fails in a transfer: `WrittenIsSent`, `ReportedIsReceived`, `InStep`, `SurvivesTransfers`, `Answered` |
| `stream` | 12 frames of 3 bytes, END, an ACK, up to two of them under way; a digit damaged into 0, 1, 8 or F, or one timeout | `InStep`, `DamageIsLocal`, `OneDigitRefused`, `Genuine`, `FoundAgain` |
| `array` | 4 locations (the corners of the map), 3 cells | `Distinct`, `IsLocationList` |
| `locations` | 2 clients, 2 entries each of up to 3 lines, 4 locations, 2 cells | `InStep`, `LeavingIsHarmless`, `Answered`, `NobodyLeftWaiting` |

Why the bounds suffice.  Three frames give each id of one bit a second use; three frames
in flight hold a frame, a resend of it and an ACK; one damaged frame
is enough to separate a resend for damage from one for lateness.  `InOrder` and `LineInv` also hold
with 4 in flight, which hold the ACKs of both (1.3 million states).  `link_undamaged` gives
the same result with room for 5 and for 7 frames; with a damaged frame `BothComplete` fails, and
with two chunks `AckMeansStored` (`link_frame_lost`).

Two emitters and one exhibitor are the smallest case in which an association is taken over, two exhibitors the smallest broadcast that can fail
half-way; `AckedIsShown` and `RoundIsCurrent` also hold with two exhibitors and two emitters
(12 million states, too long for a regular run).  `server_two_emitters` identifies states that
differ in the names of exhibitors or of emitters only; it has no temporal property.

In `file_transfer` a file without chunks and one with two whole chunks and a rest are the cases
of `chunkfy`; two files show what the first leaves behind for the second.  The ids are real
ones, 1 for the emitter and 4096 for an exhibitor, since an id may be mistaken for the number
of a chunk.  With numbers up to 7 a second file of three chunks ends the emitter before its last
chunk.  The properties also hold with files of 0, 3 and 5 words and numbers up to 8, which two
whole files need (1.8 million states).  In `stream`
the payload FEF800 makes the carry carry again, which almost no frame does, and one fault is
enough to put a reader out of step at any digit; with two frames under way a length damaged
into 0013 takes effect, and the reader swallows the frame behind and goes on in the middle of the
next (for a larger one it waits for more than the run sends).  `FoundAgain` allows a reader to miss
306 digits, or 408 with an ACK, and 464 are sent: with 8 instead of 9 frames, or one frame
instead of three for the ACK, the run finds a reader that is later.

Three cells and four locations reach a full array, one more addition, and removal at each end and in the middle; the corners give ties,
distance 0 and the largest distance.

Runs that show a disagreement of the code with what its comments say (each with an entry in
`PROJECT.json`, "findings"):

| run | property violated | in short |
|-----|-------------------|----------|
| `link_frame_lost` | `AckMeansStored` | with two chunks ids repeat, and an old ACK moves the sender past a frame |
| `server_ctrl_c` | `ServerSurvives` | an exhibitor's Ctrl-C crosses a message, and its closed socket ends the server |
| `server_goodbye` | `GoodbyeIsRemoved` | the OK of a request is taken for the OK of FLW |
| `locations_empty_line` | `Answered` | a blank line leaves client and server waiting for each other |

`AckMeansStored` and `Answered` appear in both tables: the runs differ in the inputs, and
together they show where the promise ends.

The models have further behaviours that no property forbids, because the code is like that.
In `DccnetLink` a late ACK of the other id is stored as if it were data; after that a resent
frame is not recognised as a duplicate and is stored twice (already with one chunk each
way); a reset ends an end without its output.  In `MessageServer` an exhibitor whose FLW
was read in place of an OK waits for an answer that never comes; and an association is not
always one to one, as the comment at `server.py:28` assumes: a second emitter that names an
exhibitor takes it over, and the first keeps its `displayer_id`.  This is why
`InOrder` lets a frame occur twice, `BothComplete` asks only that nothing is missing, and no
property says that an exhibitor that leaves ends.

`FileTransfer` shows what follows when a transfer is disturbed; without `Undisturbed` each of
its properties but `TypeOK` is violated:

- One of two exhibitors leaves (Ctrl-C) during a broadcast.  The server answers ERRO and returns
  to `select`; the other exhibitor stays in `recv_file_chunks`, reads the next FILE as a
  chunk, answers OK to it, and writes a file that nobody sent.  Every program goes on, and the
  emitter reports both files as sent.
- It then reads the first chunk in its main loop, takes the body of that chunk for a header, and
  waits for more; the server waits for its OK, for ever.
- After ERRO for a chunk the emitter sends the next one, the server reads it as a request and,
  its header refused, reads the body as another.  When the number of the chunk equals the
  emitter's id, the file id is taken for a type; 0 has no decoder, and the server ends.
- An emitter interrupted in a transfer sends FLW, which the server reads as the header of a
  chunk: it waits for the rest, and serves nobody else until the emitter is gone, which ends it.
- A FILE command with a name that has no dot ends the emitter with an exception, and the end of
  its connection ends the server.  (A file that is not in the folder, and a message that is not
  ASCII, are refused and the emitter goes on.)
- An exhibitor that cannot open the file to write ends after it has acknowledged every chunk; the
  emitter reports the file as sent, and the server ends when it reads the closed connection.

In `DccnetStream` a reader that loses an odd number of digits never finds a frame again.  When
every frame has an even number of bytes, one that loses an even number of digits may not either;
`FoundAgain` names the case in which it does.  Frames
of `MAX_LENGTH` bytes have 65549 bytes, an odd number.  Each block it skips meanwhile waits for a
key.  Two damaged digits may cancel out in the checksum.  A damaged length leaves a reader in the
payload for up to 2 * 65535 digits, whatever frames those are; `FoundAgain` leaves it out.

In `LocationServer` a client that sends several lines at once and ends while it still waits for
two answers or more may end the server for everybody (`SendFails`).

Deadlock is checked for `array` alone.  The other systems really stop: ends that have
written their output, clients that have ended, a server that was killed or crashed.

## Fairness

`FairSpec` gives weak fairness to each process as a whole: the two `run()` loops, the server
loop, the part of a client that needs no user.  Each is a thread that the system
schedules whenever its call can return; a `select` with a timeout always can.  There is no
fairness for users, for damage or for interrupts.

In `DccnetLink` a timeout is possible even while a frame, or the end of the connection, is under
way.  Strong fairness of `Read(p)` says that what was sent arrives at last: TCP delivers it, and
an end that comes back to its `recv` again and again does not time out on it each time.  Nothing
makes anybody press a key, and nothing brings a reader that is out of step back to where a frame
begins.  `EndsOrWedges` therefore has as a premise that each end is in step again and again (an
end that waits for a key for ever, or reads out of step for ever, has no more to promise), and
`LeavesTogether` that the end left behind does not wait for a key for ever.  An end that is out of step
otherwise follows the other, since the end of the connection stops any read.  In `FileTransfer` the processes are
the server, the emitter and each exhibitor; in `DccnetStream` nothing is asserted to happen.

## Proofs

TLAPS checks every proof, from the named assumptions on the constants only.

`DccnetLinkProofs`.  `InOrder` is not inductive: what is stored next comes from the
connection.  `IInv` adds that the connection holds genuine frames in order, none before a
stored one (`LineInv`), and that an end in its main loop has a frame left (`IndexInv`), so
that what it sends is one of its frames and no earlier than those it sent.  `EndInv(p)` is this
for one direction; a step of one end touches the direction it sends on
(`SendKeeps`) or the one it reads from (`TakeKeeps`, `AnswerKeeps`, and `PassKeeps` for a reader
out of step, which takes frames but stores none), and leaves the other alone.
The result holds for any files, capacity and amount of damage.

The second part of the module has `AckMeansStored` and `BothComplete` with files of one chunk and
nothing damaged, whatever the chunks and the capacity; no reader is misled then, and every read
is of whole frames (`NotMisled`, `ReadsWhole`).  With longer files `AckMeansStored` fails
(`link_frame_lost`); `BothComplete` fails with one damaged frame, `AckMeansStored` with two.
For two chunks and nothing damaged TLC finds no failure of `BothComplete` up to a capacity of 6; with
room for 7 frames an END frame may be passed over by an old ACK; nothing is proved.

With one chunk nothing else keeps an old ACK or a frame dropped as a mismatch from doing harm but the order of the connection, so `Complete` is about order: the first
frame an end reads is the data frame (`FirstInv`); the ACK of its own data frame comes before the
other end's END frame (`AckFirstInv`); and that END frame before the ACK of its own
(`EndFirstInv`).  Hence an END frame is never read while it would be dropped for having the
initial `last_id`, ACK 1 is never taken for data, and whoever drains has everything.  What an end
remembers stays true when it stores an old ACK 0 (`LastInv`).  `Half` is this for one direction,
stated of the values that the two ends and the connection have; a step of an end is a lemma on
those values (`SendDataKeeps`, `SendAckKeeps`, `CurrentAckKeeps`, `PassOnKeeps`, `IgnoreKeeps`,
`TimeoutKeeps`, `LeaveKeeps`).

`DccnetStreamProofs`.  The first half is about frames, without any behaviour.  That the carries end
(`FoldCarryIs`) needs no induction over data: the function that answers `Folded(n)`, the
remainder modulo 65535 that is 0 for 0 only, satisfies the equation of `FoldCarry`, and two
functions that satisfy it agree, since they would differ first somewhere.  In the same way
`SumOfIs` finds the partial sums, and `SumDiffers` that a change of one word changes the
sum by just that much.  So `compute_checksum` is given by the sum modulo 65535, and only the words
0 and 65535 are equal modulo that; one digit does not make one of the other, hence
`OneDigitNoticed`.  `FramesAreGood` is the other direction: a frame with the checksum filled in
passes the checks, whatever its payload.

In the second half `IInv` has four parts.  `SentInv`: the frames sent are good and lie one behind
the other.  `TypeInv`: what the reader holds, and where the line ends.  `Under`: the line carries
the digits of the frames sent at their places, but for the damaged ones, whatever has gone
wrong.  `StepInv`: an undisturbed reader is at the place in the frame that it is to return next.
`InStep` follows from `StepInv`, and `OneDigitRefused` from `SentInv` and `OneDigitNoticed`.

`DamageIsLocal` is about a reader that has met damage, but in checksums and payloads only; then
`StepInv` says nothing.  `AlignInv` adds where the search under way began: at some frame `next`,
whose header the reader has but for the digits damaged (`Search`), with all frames before it
returned but for those damaged (`Passed`).  Since what a reader goes by is whole, it takes as many
digits as the frame has, and the next search begins at the next frame.  All for any payloads, any number of frames, ACKs and faults, and any noise.

`MessageServerProofs`.  `Inv` is `TypeOK`, the three facts on the tables, `Fresh` (a client
not accepted yet has no id) and `Waiting` (while a relay waits, its sender and its
displayers stay in their tables, because the single thread serves nobody else).  Without
`Waiting` the end of a relay could remove an entry twice; without `Fresh` accepting a
client could give one socket two ids.  Each way of changing the tables is a lemma
(`DisplayerAdded`, `SenderAdded`, `DisplayerRemoved`, `SenderRemoved`), and each action cites
one.

`MessageServerRelayProofs`.  That an exhibitor has shown a message is not in the tables: the server
learns it from whatever it reads next.  `RelayInv` therefore says what can be under way.  Nothing
is asked of an exhibitor, and it is `Idle`, unless the relay waits for it; then it is `Asked`: the
message is on its way, being shown or answered, or the exhibitor is leaving and the server will
read FLW.  So the answer that ends a wait is always that of the message relayed.  `Round` adds that
whoever is still to be served in a round is registered, and is an exhibitor only when it leaves;
`Relaying`, that the displayers a relay is past have shown the message; `Kinds` and
`Connections`, that exhibitors have ids of displayers and that a client not accepted yet has sent
its OI and no more.

`FileTransferProofs` and `FileTransferRelayProofs`.  Connections are sequences of words, so the
first lemmas say that what was written comes apart again: a header and a body put together are
read as that header and that body (`AMessage`, `ReadBody`), and chunks put together are the file
(`JoinChunk`, `UptoEnds`).  None of the four invariants is inductive.  `IInv` adds where everybody
is in the transfer.  `Emits`: at each place of the emitter, what is under way in both
directions and what the server does.  `Exhibits`: an exhibitor the transfer is for has all
but the chunks the server still expects (`After`), or one more while the relay has not reached it
(`Before`), or is being asked (`Asked`); any other is `Free`; and it may have said goodbye
at any of these points.  `DeliveryInv` and `SavingInv` carry that to the report and the written
file.  All of it holds while `Undisturbed`, which no step restores (`StaysDisturbed`), so a
disturbed state needs no proof.  FILE, FILE_CHUNK and each answer go on with the same relay; what it does is
one lemma (`RelayStep`), cited by all three.  Every step is stated of the values a
program and its connection have, and what another program keeps is then a matter of equality.
The results hold for any exhibitors, any of them leaving at any time, and any sizes of files
and chunks.

`LocationArrayProofs`.  `DistanceBelowInf` bounds every squared distance by 2 * 9999^2,
below INF.  With it `SearchInv` says that a search under way has the first nearest of the
cells it has seen, so its answer is the one `Nearest` asks for; `Shifted` says what
`shift_left` does to `Contents`.  `ArrayImplementsList` is the refinement, for any capacity.

`LocationServerProofs`.  Neither `InStep` nor `LeavingIsHarmless` is inductive.  `IInv` counts: a
client expects at least the lines it sent, those still to serve and the answers on their way
(`CountInv`), so that at 0 all three are empty.  An answer that is unread and a line that is still to
be served are two answers the client waits for, and a send fails only in that case.  The
results hold for any clients, any entries that are not empty, any capacity.

Each inductive invariant was checked by TLC on small instances before it was proved.

Model-checked only: liveness (`EndsOrWedges`, `LeavesTogether`, `RequestAnswered`, `Answered`,
`NobodyLeftWaiting`), as no prover here does fairness or ENABLED; and `Genuine` and `FoundAgain` of
`DccnetStream`.  These two speak of a reader that is out of step and looks for a sync sequence
in the middle of what was sent.  They depend on what is sent: a payload may hold the digits of a whole
frame, which such a reader returns, and whether it meets a frame again depends on the lengths of
them all.  They are not true of every payload, so there is nothing to prove for all of them; the
run shows them for frames that hold no sync sequence but their own.  `KnownChecksums`
evaluates the checksum on the frames of `checksum.py`.

## Plan

1. FILE together with takeovers of exhibitors, and with clients that connect during a transfer.
2. Conditions on a payload under which `Genuine` holds for every length, and a proof from them.

## Not modelled

Command lines, sockets and their options, printing, the text parsers of `sender.py` and TP01's
`server.c`, and the unit test: they keep no state that another part depends on.  The template and
the first version of TP02 (`old_version.py`, `utils/common.py`): no program of the assignments
runs them, and what the first version does, `base.py`, `client.py` and `server.py` do again.  The
composition of `DccnetStream` with `DccnetLink`: digits, timers and resends of both ends together
are beyond TLC at bounds where ids repeat.  Sizes of answers and failed `recv` in TP01 beyond what
is said above.

---------------------------- MODULE FileTransfer ----------------------------
(***************************************************************************)
(* FILE transfers of TP03: an emitter cuts a file into chunks, the server  *)
(* relays FILE and then each FILE_CHUNK to the exhibitors addressed, and   *)
(* each exhibitor joins the chunks and writes the file.                    *)
(*                                                                         *)
(* Connections carry 16 bit words, the unit every field is packed in: a    *)
(* reader takes the words it expects, whatever they were written as.  The  *)
(* clients are connected already; the emitter has no displayer of its own. *)
(***************************************************************************)
EXTENDS Naturals, Sequences

CONSTANTS
  Sender,         \* the emitter, by the id the server gave it
  Exhibitor,      \* the exhibitors, by their ids
  SERVER_ID,
  Zero,           \* receiver 0: every exhibitor
  FileSize,       \* sizes of the files to send, in words
  MAX_CHUNK_SIZE, \* words in a chunk
  MAX_FIELD,      \* the last number that fits a field for counting requests or chunks
  MaxFiles        \* FILE commands the user types

Client == {Sender} \cup Exhibitor

type_encoder ==
  [OK |-> 1, ERRO |-> 2, OI |-> 3, FLW |-> 4, MSG |-> 5, CREQ |-> 6,
   CLIST |-> 7, FILE |-> 8, FILE_CHUNK |-> 9]

Known == {type_encoder[t] : t \in DOMAIN type_encoder}

\* A file_id is read as a message type when a chunk is read as a request; so few
\* files bring up no other type than OK, ERRO and OI that way.
ASSUME TransferAssumption ==
  /\ {Sender, SERVER_ID, Zero} \cup Exhibitor \cup FileSize \subseteq Nat
  /\ Sender \notin Exhibitor /\ {SERVER_ID, Zero} \cap Client = {}
  /\ MAX_CHUNK_SIZE \in Nat \ {0} /\ MAX_FIELD \in Nat
  /\ MaxFiles \in 1..type_encoder.FLW

VARIABLES
  toServer, toClient, \* the two directions of each connection, in words
  em,       \* the emitter: where it is, its file and its numbers
  ex,       \* each exhibitor: where it is, what it is to answer, what it received
  srv       \* the server: where it is, its clients, and the relay it is at

vars == <<toServer, toClient, em, ex, srv>>

-----------------------------------------------------------------------------
(* Words on a connection *)

Header(type, src, dst, seq) == <<type_encoder[type], src, dst, seq>>

\* The content of file f: no two words of any two files are equal.
Content(f, size) == [i \in 1..size |-> 100 * (f + 1) + i]

\* Mutant of NumChunks: the rest of the file is forgotten.
NumWholeChunks(size) == size \div MAX_CHUNK_SIZE

\* chunkfy: how many chunks, and the words of chunk k.
NumChunks(size) ==
  size \div MAX_CHUNK_SIZE + (IF size % MAX_CHUNK_SIZE # 0 THEN 1 ELSE 0)

Chunk(f, size, k) ==
  LET begin == k * MAX_CHUNK_SIZE
      end   == begin + MAX_CHUNK_SIZE
  IN  SubSeq(Content(f, size), begin + 1, IF end < size THEN end ELSE size)

\* Mutant of FileBody: one chunk is not announced.
FileBodyShort(f, n) == <<f, IF n = 0 THEN 0 ELSE n - 1, 1, 99>>

\* After the header come three words, the third the length of what follows them: the
\* extension (one word) or the data of a chunk.
FileBody(f, n) == <<f, n, 1, 99>>
ChunkBody(f, k, data) == <<f, k, Len(data)>> \o data

\* recv_expected_length: a header, or a header and such a body, are there to read.
HasHeader(s) == Len(s) >= 4
HasBody(s) == Len(s) >= 7 /\ Len(s) >= 7 + s[7]
HeaderOf(s) == SubSeq(s, 1, 4)
BodyOf(s) == SubSeq(s, 5, 7 + s[7])
DataOf(s) == SubSeq(s, 8, 7 + s[7])
AfterHeader(s) == SubSeq(s, 5, Len(s))
AfterBody(s) == SubSeq(s, 8 + s[7], Len(s))

Gone(c) == (IF c = Sender THEN em.pc ELSE ex[c].pc) \in {"left", "failed", "unsaved"}

SendToServer(c, words) ==
  toServer' = [toServer EXCEPT ![c] = @ \o words] /\ UNCHANGED toClient

\* A client reads: rest is what stays on its connection.
ReadFromServer(c, rest) ==
  toClient' = [toClient EXCEPT ![c] = rest] /\ UNCHANGED toServer

\* The server reads from c, and sends to d; what is sent to a client that has ended
\* is lost.
ReadAndSend(c, rest, d, words) ==
  /\ toServer' = [toServer EXCEPT ![c] = rest]
  /\ toClient' = [toClient EXCEPT ![d] = IF Gone(d) THEN @ ELSE @ \o words]

Quiet == UNCHANGED <<toServer, toClient>>

\* The process that moves.
Em(e) == em' = e /\ UNCHANGED <<ex, srv>>
Ex(x, e) == ex' = [ex EXCEPT ![x] = e] /\ UNCHANGED <<em, srv>>
Srv(s) == srv' = s /\ UNCHANGED <<em, ex>>

Init ==
  /\ toServer = [c \in Client |-> <<>>] /\ toClient = [c \in Client |-> <<>>]
  /\ em = [pc |-> "prompt", seq_number |-> 1, file_id |-> 0, chunk_id |-> 0, size |-> 0,
           dst |-> Zero, tries |-> 0, reported |-> {}, brokeOff |-> FALSE]
  /\ ex = [x \in Exhibitor |->
            [pc |-> "main", seq_number |-> 0, missing |-> 0, chunks |-> <<>>, written |-> {}]]
  /\ srv = [pc |-> "select", turn |-> Sender, registered |-> Client, failure |-> "none",
            type |-> "FILE", seq_number |-> 0, body |-> <<>>, n_chunks |-> 0,
            send_to_list |-> {}, at |-> Sender, left |-> {}, gaveUp |-> FALSE]

-----------------------------------------------------------------------------
(* The emitter *)

\* pack takes these numbers.
Fits(n) == n <= MAX_FIELD

SendFile ==
  /\ em.pc = "prompt" /\ em.tries < MaxFiles /\ Fits(em.seq_number)
  /\ \E size \in FileSize, dst \in Exhibitor \cup {Zero} :
       /\ Fits(NumChunks(size))
       /\ SendToServer(Sender, Header("FILE", Sender, dst, em.seq_number)
                                 \o FileBody(em.file_id, NumChunks(size)))
       /\ Em([em EXCEPT !.pc = "file", !.size = size, !.dst = dst, !.tries = @ + 1])

\* An exception that nothing catches: the emitter ends without FLW.
Raise == Em([em EXCEPT !.pc = "failed", !.brokeOff = TRUE]) /\ Quiet

\* FILE with a name that has no extension: IndexError.  FILE of too many chunks, or FILE or
\* FLW with a sequence number past its field: struct.error.
CommandRaises ==
  /\ em.pc = "prompt" /\ (em.tries < MaxFiles \/ ~Fits(em.seq_number))
  /\ Raise

\* struct.error of the next chunk, or of the FLW after Ctrl-C.
PackRaises ==
  /\ em.pc = "sending" /\ ~Fits(em.seq_number)
  /\ Raise

SendChunk ==
  /\ em.pc = "sending" /\ em.chunk_id < NumChunks(em.size) /\ Fits(em.seq_number)
  /\ SendToServer(Sender,
       Header("FILE_CHUNK", Sender, em.dst, em.seq_number)
         \o ChunkBody(em.file_id, em.chunk_id, Chunk(em.file_id, em.size, em.chunk_id)))
  /\ Em([em EXCEPT !.pc = "chunk"])

\* "file sent successfully": every chunk went out.
Report ==
  /\ em.pc = "sending" /\ em.chunk_id = NumChunks(em.size)
  /\ Em([em EXCEPT !.pc = "prompt", !.file_id = @ + 1,
           !.reported = @ \cup {[id |-> em.file_id, size |-> em.size, dst |-> em.dst]}])
  /\ Quiet

\* recv_ok_message: the next header is the OK to the request last sent.
IsMyOk(words) == words = Header("OK", SERVER_ID, Sender, em.seq_number)

\* Without its OK a FILE ends at the prompt; a chunk is followed by the next one.
GetReply ==
  LET ok == IsMyOk(HeaderOf(toClient[Sender])) IN
  /\ em.pc \in {"file", "chunk"}
  /\ HasHeader(toClient[Sender])
  /\ ReadFromServer(Sender, AfterHeader(toClient[Sender]))
  /\ Em([em EXCEPT !.pc = IF em.pc = "file" /\ ~ok THEN "prompt" ELSE "sending",
                   !.seq_number = IF ok THEN @ + 1 ELSE @,
                   !.chunk_id = IF em.pc = "file" THEN 0 ELSE @ + 1])

\* The FLW command at the prompt, or Ctrl-C anywhere.
EmitterLeaves ==
  /\ em.pc \in {"prompt", "file", "sending", "chunk"} /\ Fits(em.seq_number)
  /\ SendToServer(Sender, Header("FLW", Sender, SERVER_ID, em.seq_number))
  /\ Em([em EXCEPT !.pc = "bye", !.brokeOff = em.pc # "prompt"])

EmitterGoodbye ==
  /\ em.pc = "bye"
  /\ HasHeader(toClient[Sender])
  /\ ReadFromServer(Sender, AfterHeader(toClient[Sender]))
  /\ Em([em EXCEPT !.pc = IF IsMyOk(HeaderOf(toClient[Sender])) THEN "left" ELSE "failed"])

\* The server has ended: RuntimeError.
EmitterLost ==
  /\ em.pc \in {"file", "chunk", "bye"}
  /\ srv.pc = "crashed" /\ ~HasHeader(toClient[Sender])
  /\ Em([em EXCEPT !.pc = "failed"])
  /\ Quiet

-----------------------------------------------------------------------------
(* An exhibitor *)

\* FILE: how many chunks to expect.
ReadFile(x) ==
  LET s == toClient[x] IN
  /\ ex[x].pc = "main"
  /\ HasBody(s) /\ s[1] = type_encoder.FILE
  /\ ReadFromServer(x, AfterBody(s))
  /\ Ex(x, [ex[x] EXCEPT !.pc = "answer", !.seq_number = s[4], !.missing = s[6],
                         !.chunks = <<>>])

\* recv_file_chunks: whatever comes is a chunk.
ReadChunk(x) ==
  LET s == toClient[x] IN
  /\ ex[x].pc = "chunks"
  /\ HasBody(s)
  /\ ReadFromServer(x, AfterBody(s))
  /\ Ex(x, [ex[x] EXCEPT !.pc = "answer", !.seq_number = s[4], !.missing = @ - 1,
                         !.chunks = @ \o DataOf(s)])

\* Mutant of AfterOk: a file without chunks waits for one.
AfterOkOfChunk(x) == IF ex[x].missing = 0 /\ ex[x].chunks # <<>> THEN "save" ELSE "chunks"

AfterOk(x) == IF ex[x].missing = 0 THEN "save" ELSE "chunks"

AnswerOk(x) ==
  /\ ex[x].pc = "answer"
  /\ SendToServer(x, Header("OK", x, SERVER_ID, ex[x].seq_number))
  /\ Ex(x, [ex[x] EXCEPT !.pc = AfterOk(x)])

Save(x) ==
  /\ ex[x].pc = "save"
  /\ Ex(x, [ex[x] EXCEPT !.pc = "main", !.written = @ \cup {ex[x].chunks}])
  /\ Quiet

\* The file cannot be opened or written (its folder is not there, say): the exhibitor ends
\* without FLW, after it has acknowledged every chunk.
SaveRaises(x) ==
  /\ ex[x].pc = "save"
  /\ Ex(x, [ex[x] EXCEPT !.pc = "unsaved"])
  /\ Quiet

\* A header of another type has no branch, and an unknown type no decoder: KeyError.
\* (FLW, MSG and CLIST have one; this emitter sends nothing that becomes one of them.)
ReadOther(x) ==
  LET s == toClient[x] IN
  /\ ex[x].pc = "main"
  /\ HasHeader(s) /\ s[1] # type_encoder.FILE
  /\ ReadFromServer(x, AfterHeader(s))
  /\ Ex(x, [ex[x] EXCEPT !.pc = IF s[1] \in Known THEN "main" ELSE "failed"])

\* Ctrl-C.
ExhibitorLeaves(x) ==
  /\ ex[x].pc \in {"main", "answer", "chunks", "save"}
  /\ SendToServer(x, Header("FLW", x, SERVER_ID, 1))
  /\ Ex(x, [ex[x] EXCEPT !.pc = "bye"])

ExhibitorGoodbye(x) ==
  LET s == toClient[x] IN
  /\ ex[x].pc = "bye"
  /\ HasHeader(s)
  /\ ReadFromServer(x, AfterHeader(s))
  /\ Ex(x, [ex[x] EXCEPT
       !.pc = IF HeaderOf(s) = Header("OK", SERVER_ID, x, 1) THEN "left" ELSE "failed"])

ExhibitorLost(x) ==
  /\ ex[x].pc \in {"main", "chunks", "bye"}
  /\ srv.pc = "crashed"
  /\ IF ex[x].pc = "chunks" THEN ~HasBody(toClient[x]) ELSE ~HasHeader(toClient[x])
  /\ Ex(x, [ex[x] EXCEPT !.pc = "failed"])
  /\ Quiet

-----------------------------------------------------------------------------
(* The server *)

\* select: the next ready client; from here on the server waits for its words only.
Select(c) ==
  /\ srv.pc = "select"
  /\ c \in srv.registered /\ (toServer[c] # <<>> \/ Gone(c))
  /\ Srv([srv EXCEPT !.pc = "request", !.turn = c])
  /\ Quiet

\* The server reads the request of c.
Request(c) == srv.pc = "request" /\ srv.turn = c /\ HasHeader(toServer[c])

\* FLW of an emitter or an exhibitor.
Goodbye(c) ==
  LET s == toServer[c] IN
  /\ Request(c)
  /\ HeaderOf(s) = Header("FLW", c, SERVER_ID, s[4])
  /\ ReadAndSend(c, AfterHeader(s), c, Header("OK", SERVER_ID, c, s[4]))
  /\ Srv([srv EXCEPT !.pc = "select", !.registered = @ \ {c}])

\* Mutant of Erro: the emitter is told nothing.
NoErro(seq) == <<>>

Erro(seq) == Header("ERRO", SERVER_ID, Sender, seq)

\* process_sender: a message of another client, or one that is no request.
RefuseRequest ==
  LET s == toServer[Sender] IN
  /\ Request(Sender)
  /\ s[2] # Sender \/ s[1] \in {type_encoder[t] : t \in {"OK", "ERRO", "OI", "CLIST", "FILE_CHUNK"}}
  /\ ReadAndSend(Sender, AfterHeader(s), Sender, Erro(s[4]))
  /\ Srv([srv EXCEPT !.pc = "select"])

\* Mutant of send_to_list: exhibitors that have left are among the receivers.
send_to_listAll(dst) == IF dst = Zero THEN Exhibitor ELSE {dst}

\* Mutant of send_to_list: a broadcast goes to one exhibitor.
send_to_listOne(dst) ==
  srv.registered \cap {IF dst = Zero THEN CHOOSE x \in Exhibitor : TRUE ELSE dst}

\* get_send_to_list, for receiver 0 and for an exhibitor.
send_to_list(dst) == srv.registered \cap (IF dst = Zero THEN Exhibitor ELSE {dst})

\* Relay what job holds to the next exhibitor in left, or answer OK when none is left;
\* rest is what stays on the connection that was read.
Relay(job, c, rest) ==
  IF job.left = {}
  THEN /\ ReadAndSend(c, rest, Sender, Header("OK", SERVER_ID, Sender, job.seq_number))
       /\ Srv([job EXCEPT !.pc = IF job.n_chunks = 0 THEN "select" ELSE "chunk"])
  ELSE \E d \in job.left :
       /\ ReadAndSend(c, rest, d, Header(job.type, Sender, d, job.seq_number) \o job.body)
       /\ Srv([job EXCEPT !.pc = "relay", !.at = d, !.left = @ \ {d}])

\* process_sender_file_message: no such receiver, or relay FILE to the receivers.
FileRequest ==
  LET s  == toServer[Sender]
      to == send_to_list(s[3])
  IN
  /\ Request(Sender)
  /\ s[2] = Sender /\ s[1] = type_encoder.FILE /\ HasBody(s)
  /\ \/ /\ s[3] # Zero /\ to = {}
        /\ ReadAndSend(Sender, AfterBody(s), Sender, Erro(s[4]))
        /\ Srv([srv EXCEPT !.pc = "select"])
     \/ /\ s[3] = Zero \/ to # {}
        /\ Relay([srv EXCEPT !.type = "FILE", !.seq_number = s[4], !.body = BodyOf(s),
                             !.n_chunks = s[6], !.send_to_list = to, !.left = to],
                 Sender, AfterBody(s))

\* The next chunk, read as a header and a body whatever it is.
RelayChunk ==
  LET s == toServer[Sender] IN
  /\ srv.pc = "chunk"
  /\ HasBody(s)
  /\ Relay([srv EXCEPT !.type = "FILE_CHUNK", !.seq_number = s[4], !.body = BodyOf(s),
                       !.n_chunks = @ - 1, !.left = srv.send_to_list],
           Sender, AfterBody(s))

\* recv_ok_message: the OK of the exhibitor, and the next one's turn; or anything else:
\* ERRO, and the rest of the transfer is nobody's business.
RelayAnswered ==
  LET s == toServer[srv.at] IN
  /\ srv.pc = "relay"
  /\ HasHeader(s)
  /\ \/ /\ HeaderOf(s) = Header("OK", srv.at, SERVER_ID, srv.seq_number)
        /\ Relay(srv, srv.at, AfterHeader(s))
     \/ /\ HeaderOf(s) # Header("OK", srv.at, SERVER_ID, srv.seq_number)
        /\ ReadAndSend(srv.at, AfterHeader(s), Sender, Erro(srv.seq_number))
        /\ Srv([srv EXCEPT !.pc = "select", !.gaveUp = TRUE])

\* An exception leaves the server: a connection at its end (RuntimeError), or a type
\* that has no decoder (KeyError).
Crash(exception) ==
  Srv([srv EXCEPT !.pc = "crashed", !.failure = exception]) /\ Quiet

ConnectionLost ==
  /\ \/ srv.pc = "request" /\ Gone(srv.turn) /\ ~HasHeader(toServer[srv.turn])
     \/ srv.pc = "chunk" /\ Gone(Sender) /\ ~HasBody(toServer[Sender])
     \/ srv.pc = "relay" /\ Gone(srv.at) /\ ~HasHeader(toServer[srv.at])
  /\ Crash("RuntimeError")

UnknownType ==
  /\ Request(Sender)
  /\ toServer[Sender][2] = Sender /\ toServer[Sender][1] \notin Known
  /\ Crash("KeyError")

-----------------------------------------------------------------------------

Server ==
  \/ RefuseRequest \/ FileRequest \/ RelayChunk \/ RelayAnswered
  \/ ConnectionLost \/ UnknownType
  \/ \E c \in Client : Select(c) \/ Goodbye(c)

\* What the programs do without their users.
Emitter == SendChunk \/ PackRaises \/ Report \/ GetReply \/ EmitterGoodbye \/ EmitterLost

Displayer(x) ==
  \/ ReadFile(x) \/ ReadChunk(x) \/ AnswerOk(x) \/ Save(x) \/ ReadOther(x)
  \/ ExhibitorGoodbye(x) \/ ExhibitorLost(x)

Next ==
  \/ Server \/ Emitter \/ SendFile \/ CommandRaises \/ EmitterLeaves
  \/ \E x \in Exhibitor : Displayer(x) \/ ExhibitorLeaves(x) \/ SaveRaises(x)

Spec == Init /\ [][Next]_vars

FairSpec ==
  Spec /\ WF_vars(Server) /\ WF_vars(Emitter) /\ \A x \in Exhibitor : WF_vars(Displayer(x))

-----------------------------------------------------------------------------
(* Properties *)

Words == Seq(Nat)

TypeOK ==
  /\ toServer \in [Client -> Words] /\ toClient \in [Client -> Words]
  /\ em \in [pc : {"prompt", "file", "sending", "chunk", "bye", "left", "failed"},
             seq_number : Nat, file_id : Nat, chunk_id : Nat, size : FileSize \cup {0},
             dst : Exhibitor \cup {Zero}, tries : 0..MaxFiles, brokeOff : BOOLEAN,
             reported : SUBSET [id : Nat, size : FileSize, dst : Exhibitor \cup {Zero}]]
  /\ \A x \in Exhibitor :
       /\ ex[x].pc \in {"main", "answer", "chunks", "save", "bye", "left", "failed", "unsaved"}
       /\ ex[x].missing \in Nat /\ ex[x].chunks \in Words
       /\ ex[x].pc = "chunks" => ex[x].missing > 0
  /\ srv.pc \in {"select", "request", "chunk", "relay", "crashed"}
  /\ srv.registered \subseteq Client /\ srv.left \subseteq srv.send_to_list
  /\ srv.n_chunks \in Nat
  /\ srv.pc = "chunk" => srv.n_chunks > 0

\* No relay has failed, the emitter was neither interrupted in a transfer nor ended by an
\* exception, and no exhibitor was ended by a file that it could not write.  After that the
\* three programs no longer agree on where in the stream they are, or the server reads the
\* end of a connection.
Undisturbed ==
  /\ ~srv.gaveUp /\ ~em.brokeOff
  /\ \A x \in Exhibitor : ex[x].pc # "unsaved"

\* What an exhibitor joins from the items it reads is a file that the emitter cut, whole
\* and in order.
WrittenIsSent ==
  Undisturbed =>
    \A x \in Exhibitor : \A words \in ex[x].written :
      \E f \in 0..em.file_id, size \in FileSize : words = Content(f, size)

HasFile(x, r) ==
  \/ Content(r.id, r.size) \in ex[x].written
  \/ ex[x].pc = "save" /\ ex[x].chunks = Content(r.id, r.size)

\* A file the emitter reports as sent has reached every exhibitor it is for that is not
\* leaving, though the emitter counts the chunks it sent, not the OKs it got.
ReportedIsReceived ==
  Undisturbed =>
    \A r \in em.reported, x \in Exhibitor :
      r.dst \in {x, Zero} /\ ex[x].pc \notin {"bye", "left", "failed"} => HasFile(x, r)

\* Server and emitter stay in step: an answer is there only while the emitter waits for
\* it, and never a second one.
InStep ==
  Undisturbed /\ toClient[Sender] # <<>> =>
    em.pc \in {"file", "chunk", "bye"} /\ Len(toClient[Sender]) = 4

\* Exhibitors that leave, and transfers to those that stay, do not end the server: it takes
\* a relay that fails, an emitter that breaks off, or a file that cannot be written.
SurvivesTransfers == Undisturbed => srv.failure = "none"

\* Every FILE and every chunk is answered.
Answered ==
  em.pc \in {"file", "chunk"} ~> (em.pc \notin {"file", "chunk"} \/ ~Undisturbed)
=============================================================================

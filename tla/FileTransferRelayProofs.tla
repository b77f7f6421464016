------------------------ MODULE FileTransferRelayProofs ------------------------
(***************************************************************************)
(* Emitter, server and exhibitors agree on where in a transfer they are,   *)
(* for any exhibitors, any sizes of files and chunks, and any exhibitors   *)
(* that leave, until a relay fails, the emitter breaks off or an exhibitor *)
(* cannot write its file.                                                  *)
(*                                                                         *)
(* What the invariant says of a client is said of values: e is em, p is    *)
(* ex[x], up and down are the two directions of a connection, s is srv.    *)
(***************************************************************************)
EXTENDS FileTransferProofs

-----------------------------------------------------------------------------
(* The inductive invariant: the emitter and the server *)

\* The server serves no transfer; it may be at the request of an exhibitor.
Between(s) == s.pc \in {"select", "request"} /\ (s.pc = "request" => s.turn # Sender)

\* The server expects n more chunks, or, after the last, a request of anybody.
Expects(s, n) == IF n = 0 THEN Between(s) ELSE s.pc = "chunk" /\ s.n_chunks = n

\* What the emitter is at: FILE and its chunk, and how many chunks are missing after it.
FileOf(e) == FileBody(e.file_id, NumChunks(e.size))
ChunkOf(e) == ChunkBody(e.file_id, e.chunk_id, Chunk(e.file_id, e.size, e.chunk_id))
Remaining(e) == NumChunks(e.size) - e.chunk_id

\* The job of s is the message the emitter waits to see answered.
Carries(e, s) ==
  /\ s.seq_number = e.seq_number
  /\ \/ /\ e.pc = "file" /\ s.type = "FILE"
        /\ s.body = FileOf(e) /\ s.n_chunks = NumChunks(e.size)
     \/ /\ e.pc = "chunk" /\ s.type = "FILE_CHUNK"
        /\ s.body = ChunkOf(e) /\ s.n_chunks = Remaining(e) - 1

OkTo(e) == Header("OK", SERVER_ID, Sender, e.seq_number)

AtPrompt(e, up, down, s) == e.pc = "prompt" => up = <<>> /\ down = <<>> /\ Between(s)

AtFile(e, up, down, s) ==
  e.pc = "file" =>
    \/ /\ Joins(up, Header("FILE", Sender, e.dst, e.seq_number), FileOf(e)) /\ down = <<>>
       /\ s.pc \in {"select", "request"}
    \/ up = <<>> /\ down = <<>> /\ s.pc = "relay" /\ Carries(e, s)
    \/ up = <<>> /\ down = OkTo(e) /\ Expects(s, NumChunks(e.size))
    \/ up = <<>> /\ down = Erro(e.seq_number) /\ Between(s)

AtSending(e, up, down, s) ==
  e.pc = "sending" =>
    e.chunk_id <= NumChunks(e.size) /\ up = <<>> /\ down = <<>> /\ Expects(s, Remaining(e))

AtChunk(e, up, down, s) ==
  e.pc = "chunk" =>
    /\ e.chunk_id < NumChunks(e.size)
    /\ \/ /\ Joins(up, Header("FILE_CHUNK", Sender, e.dst, e.seq_number), ChunkOf(e))
          /\ down = <<>> /\ Expects(s, Remaining(e))
       \/ up = <<>> /\ down = <<>> /\ s.pc = "relay" /\ Carries(e, s)
       \/ up = <<>> /\ down = OkTo(e) /\ Expects(s, Remaining(e) - 1)

AtGoodbye(e, up, down, s) ==
  /\ e.pc \in {"prompt", "file", "sending", "chunk"} => Sender \in s.registered
  /\ e.pc = "bye" =>
       \/ /\ up = Header("FLW", Sender, SERVER_ID, e.seq_number) /\ down = <<>>
          /\ Sender \in s.registered /\ s.pc \in {"select", "request"}
       \/ up = <<>> /\ down = OkTo(e) /\ Sender \notin s.registered /\ Between(s)
  /\ e.pc = "left" => down = <<>> /\ Sender \notin s.registered /\ Between(s)
  /\ e.pc # "failed"

\* The emitter, its connection and the server, at each place of the emitter.
Emits(e, up, down, s) ==
  /\ AtPrompt(e, up, down, s) /\ AtFile(e, up, down, s) /\ AtSending(e, up, down, s)
  /\ AtChunk(e, up, down, s) /\ AtGoodbye(e, up, down, s)

EmitterInv == Emits(em, toServer[Sender], toClient[Sender], srv)

-----------------------------------------------------------------------------
(* The inductive invariant: the exhibitors; the file is f, of size words *)

Flw(x) == Header("FLW", x, SERVER_ID, 1)
Ok(x, seq) == Header("OK", x, SERVER_ID, seq)

Leaving(p) == p.pc \in {"bye", "left", "failed"}

\* x left while nothing was asked of it: its FLW is all there is to read.
SaysGoodbye(x, p, up, down) == p.pc = "bye" /\ up = Flw(x) /\ down = <<>>

\* The exhibitor has all but n of the chunks.
Joined(p, f, size, n) ==
  /\ p.missing = n /\ n <= NumChunks(size)
  /\ p.chunks = Content(f, Upto(size, NumChunks(size) - n))

\* The exhibitor has the whole file, and wrote it or is about to.
Whole(p, f, size) ==
  \/ Content(f, size) \in p.written
  \/ p.pc = "save" /\ p.chunks = Content(f, size)

\* It waits for the next n chunks, or waits for none.
Has(p, f, size, n) ==
  IF n = 0 THEN p.pc \in {"main", "save"} /\ Whole(p, f, size)
           ELSE p.pc = "chunks" /\ Joined(p, f, size, n)

Free(x, p, up, down) ==
  \/ up = <<>> /\ down = <<>> /\ p.pc \in {"main", "save"}
  \/ SaysGoodbye(x, p, up, down)

\* Before and after x gets the message of the relay s.
Ahead(p, s, f, size) ==
  IF s.type = "FILE" THEN p.pc \in {"main", "save"} ELSE Has(p, f, size, s.n_chunks + 1)

Before(x, p, up, down, s, f, size) ==
  \/ up = <<>> /\ down = <<>> /\ Ahead(p, s, f, size)
  \/ SaysGoodbye(x, p, up, down)

After(x, p, up, down, s, f, size) ==
  \/ up = <<>> /\ down = <<>> /\ Has(p, f, size, s.n_chunks)
  \/ SaysGoodbye(x, p, up, down)

\* The relay is at x: the message is under way, or being answered, or the answer is;
\* or x left, before or after it answered.
Asked(x, p, up, down, s, f, size) ==
  \/ /\ up = <<>> /\ Joins(down, Header(s.type, Sender, x, s.seq_number), s.body)
     /\ Ahead(p, s, f, size)
  \/ /\ up = <<>> /\ down = <<>> /\ p.pc = "answer"
     /\ p.seq_number = s.seq_number /\ Joined(p, f, size, s.n_chunks)
  \/ up = Ok(x, s.seq_number) /\ down = <<>> /\ Has(p, f, size, s.n_chunks)
  \/ Joins(up, Ok(x, s.seq_number), Flw(x)) /\ down = <<>> /\ p.pc = "bye"
  \/ up = Flw(x) /\ Leaving(p)

InTransfer(s) == s.pc \in {"chunk", "relay"}

\* Where the exhibitor x is, as the server goes on.
Exhibits(x, p, up, down, s, f, size) ==
  IF x \notin s.registered THEN Leaving(p)
  ELSE IF ~InTransfer(s) \/ x \notin s.send_to_list THEN Free(x, p, up, down)
  ELSE IF s.pc = "relay" /\ x = s.at THEN Asked(x, p, up, down, s, f, size)
  ELSE IF s.pc = "relay" /\ x \in s.left THEN Before(x, p, up, down, s, f, size)
  ELSE After(x, p, up, down, s, f, size)

ExhibitorInv ==
  \A x \in Exhibitor :
    Exhibits(x, ex[x], toServer[x], toClient[x], srv, em.file_id, em.size)

-----------------------------------------------------------------------------
(* The inductive invariant: what relates them *)

Receivers(registered, dst) == registered \cap (IF dst = Zero THEN Exhibitor ELSE {dst})

\* While a transfer goes on the exhibitors it is for stay registered.
Transfers(s, dst) ==
  /\ InTransfer(s) => s.send_to_list = Receivers(s.registered, dst)
  /\ s.pc = "relay" => s.at \in s.send_to_list /\ s.at \notin s.left

TransferInv == Transfers(srv, em.dst)

\* The client whose request the server reads has sent one.
TurnInv ==
  srv.pc = "request" =>
    /\ srv.turn \in srv.registered
    /\ IF srv.turn = Sender THEN toServer[Sender] # <<>>
       ELSE SaysGoodbye(srv.turn, ex[srv.turn], toServer[srv.turn], toClient[srv.turn])

\* The last answer has come, or is there: whoever is to have the file has it.
Delivered(e, down) ==
  \/ e.pc = "sending" /\ e.chunk_id = NumChunks(e.size)
  \/ e.pc = "chunk" /\ e.chunk_id + 1 = NumChunks(e.size) /\ down # <<>>
  \/ e.pc = "file" /\ NumChunks(e.size) = 0 /\ down = OkTo(e)

DeliveryInv ==
  Delivered(em, toClient[Sender]) =>
    \A x \in Exhibitor :
      em.dst \in {x, Zero} /\ ~Leaving(ex[x]) => Whole(ex[x], em.file_id, em.size)

\* What an exhibitor is about to write is a file that was cut.
Cut(words, last) == \E f \in 0..last, size \in FileSize : words = Content(f, size)

SavingInv == \A x \in Exhibitor : ex[x].pc = "save" => Cut(ex[x].chunks, em.file_id)

Alive == srv.pc # "crashed" /\ srv.failure = "none"

Relation ==
  /\ EmitterInv /\ TransferInv /\ ExhibitorInv /\ TurnInv /\ DeliveryInv /\ SavingInv
  /\ Alive

\* Who breaks off a transfer sends no more.
BrokenOff == em.brokeOff => em.pc \in {"bye", "left", "failed"}

IInv ==
  /\ Types /\ BrokenOff
  /\ Undisturbed => Relation
  /\ WrittenIsSent /\ ReportedIsReceived

-----------------------------------------------------------------------------
(* What is read *)

LEMMA SrvFields ==
  ASSUME NEW s \in SrvType
  PROVE  /\ s.pc \in {"select", "request", "chunk", "relay", "crashed"}
         /\ s.registered \subseteq Client /\ s.type \in {"FILE", "FILE_CHUNK"}
         /\ s.seq_number \in Nat /\ s.body \in Words /\ s.n_chunks \in Nat
         /\ s.send_to_list \subseteq Client /\ s.at \in Client /\ s.left \subseteq Client
BY DEF SrvType

\* The FILE of the emitter, sent to dst.
LEMMA TheFile ==
  ASSUME NEW e \in EmType, NEW dst \in Nat, NEW seq \in Nat, NEW words,
         Joins(words, Header("FILE", Sender, dst, seq), FileOf(e))
  PROVE  /\ IsMessage(words, "FILE", Sender, dst, seq, FileOf(e))
         /\ words[6] = NumChunks(e.size)
<1>1. PICK n \in Nat, id \in Nat : n = NumChunks(e.size) /\ id = e.file_id
  BY EmFields, ChunkBounds
<1>2. Joins(words, Header("FILE", Sender, dst, seq), FileBody(id, n))
  BY <1>1 DEF FileOf
<1>3. Sender \in Nat
  BY Ids
<1>4. IsMessage(words, "FILE", Sender, dst, seq, FileBody(id, n)) /\ words[6] = n
  BY <1>2, <1>3, FileMessage
<1> QED
  BY <1>1, <1>4 DEF FileOf

\* Its next chunk, sent to dst.
LEMMA TheChunk ==
  ASSUME NEW e \in EmType, e.chunk_id < NumChunks(e.size),
         NEW dst \in Nat, NEW seq \in Nat, NEW words,
         Joins(words, Header("FILE_CHUNK", Sender, dst, seq), ChunkOf(e))
  PROVE  /\ IsMessage(words, "FILE_CHUNK", Sender, dst, seq, ChunkOf(e))
         /\ DataOf(words) = Chunk(e.file_id, e.size, e.chunk_id)
<1>1. PICK k \in Nat, id \in Nat, size \in Nat :
        k = e.chunk_id /\ id = e.file_id /\ size = e.size
  BY EmFields
<1>2. PICK data \in Words : data = Chunk(id, size, k)
  BY <1>1, JoinChunk
<1>3. ChunkOf(e) = ChunkBody(id, k, data)
  BY <1>1, <1>2 DEF ChunkOf
<1>4. Sender \in Nat
  BY Ids
<1>5. Joins(words, Header("FILE_CHUNK", Sender, dst, seq), ChunkBody(id, k, data))
  BY <1>3
<1>6. /\ IsMessage(words, "FILE_CHUNK", Sender, dst, seq, ChunkBody(id, k, data))
      /\ DataOf(words) = data
  BY <1>4, <1>5, ChunkMessage
<1> QED
  BY <1>1, <1>2, <1>3, <1>6

\* What the server relays to x.
LEMMA TheRelayed ==
  ASSUME NEW e \in EmType, NEW s \in SrvType, Carries(e, s),
         e.pc = "chunk" => e.chunk_id < NumChunks(e.size),
         NEW x \in Exhibitor, NEW words,
         Joins(words, Header(s.type, Sender, x, s.seq_number), s.body)
  PROVE  /\ IsMessage(words, s.type, Sender, x, s.seq_number, s.body)
         /\ s.type = "FILE" => words[6] = NumChunks(e.size) /\ s.n_chunks = NumChunks(e.size)
         /\ s.type = "FILE_CHUNK" =>
              /\ DataOf(words) = Chunk(e.file_id, e.size, e.chunk_id)
              /\ e.chunk_id < NumChunks(e.size)
              /\ s.n_chunks + 1 = NumChunks(e.size) - e.chunk_id
<1>1. x \in Nat /\ s.seq_number \in Nat
  BY Ids, SrvFields
<1>2. CASE s.type = "FILE"
  <2>1. s.body = FileOf(e) /\ s.n_chunks = NumChunks(e.size)
    BY <1>2 DEF Carries
  <2>2. Joins(words, Header("FILE", Sender, x, s.seq_number), FileOf(e))
    BY <1>2, <2>1
  <2> QED
    BY <1>1, <1>2, <2>1, <2>2, TheFile
<1>3. CASE s.type = "FILE_CHUNK"
  <2>1. s.body = ChunkOf(e) /\ s.n_chunks = Remaining(e) - 1 /\ e.chunk_id < NumChunks(e.size)
    BY <1>3 DEF Carries
  <2>2. Joins(words, Header("FILE_CHUNK", Sender, x, s.seq_number), ChunkOf(e))
    BY <1>3, <2>1
  <2>3. NumChunks(e.size) \in Nat /\ e.chunk_id \in Nat
    BY EmFields, ChunkBounds
  <2>4. s.n_chunks + 1 = NumChunks(e.size) - e.chunk_id
    BY <2>1, <2>3 DEF Remaining
  <2> QED
    BY <1>1, <1>3, <2>1, <2>2, <2>4, TheChunk
<1> QED
  BY <1>2, <1>3, SrvFields

\* The farewell of x, and its OK.
LEMMA Answers ==
  ASSUME NEW x \in Client, NEW seq \in Nat
  PROVE  /\ IsHeader(Flw(x), "FLW", x, SERVER_ID, 1)
         /\ IsHeader(Ok(x, seq), "OK", x, SERVER_ID, seq)
         /\ Flw(x) # Ok(x, seq)
         /\ \A words : Joins(words, Ok(x, seq), Flw(x)) =>
              /\ HasHeader(words) /\ HeaderOf(words) = Ok(x, seq)
              /\ AfterHeader(words) = Flw(x)
<1>1. x \in Nat /\ SERVER_ID \in Nat
  BY Ids
<1>2. /\ IsHeader(Flw(x), "FLW", x, SERVER_ID, 1)
      /\ IsHeader(Ok(x, seq), "OK", x, SERVER_ID, seq)
  BY <1>1, AHeader, Encoder DEF Flw, Ok
<1>3. Flw(x) # Ok(x, seq)
  BY <1>2, Encoder DEF IsHeader
<1>4. ASSUME NEW words, Joins(words, Ok(x, seq), Flw(x))
      PROVE  HasHeader(words) /\ HeaderOf(words) = Ok(x, seq) /\ AfterHeader(words) = Flw(x)
  <2>1. Ok(x, seq) \in Words /\ Len(Ok(x, seq)) = 4 /\ Flw(x) \in Words
    BY <1>2 DEF IsHeader
  <2>2. words = Ok(x, seq) \o Flw(x)
    BY <1>4 DEF Joins
  <2> QED
    BY <2>1, <2>2, ReadHeader
<1> QED
  BY <1>2, <1>3, <1>4

\* While the server relays, the emitter waits, and the job is its message.
LEMMA RelayCarries ==
  ASSUME NEW e \in EmType, NEW up, NEW down, NEW s, Emits(e, up, down, s), s.pc = "relay"
  PROVE  /\ Carries(e, s) /\ up = <<>> /\ down = <<>>
         /\ e.pc = "chunk" => e.chunk_id < NumChunks(e.size)
         /\ e.pc \in {"file", "chunk"}
<1>1. e.pc \in {"prompt", "file", "sending", "chunk", "bye", "left", "failed"}
  BY DEF EmType
<1> QED
  BY <1>1 DEF Emits, AtPrompt, AtFile, AtSending, AtChunk, AtGoodbye, Expects, Between

-----------------------------------------------------------------------------
(* An exhibitor moves *)

\* What is left alone.
LEMMA ExhibitorFrame ==
  ASSUME Types, NEW x \in Exhibitor, Displayer(x) \/ ExhibitorLeaves(x)
  PROVE  /\ em' = em /\ srv' = srv
         /\ \A y \in Exhibitor : y # x => ex'[y] = ex[y]
         /\ \A c \in Client : c # x => toServer'[c] = toServer[c] /\ toClient'[c] = toClient[c]
<1>1. /\ toServer \in [Client -> Words] /\ toClient \in [Client -> Words]
      /\ ex \in [Exhibitor -> ExType]
  BY DEF Types
<1>2. PICK p : Ex(x, p)
  BY DEF Displayer, ReadFile, ReadChunk, AnswerOk, Save, ReadOther, ExhibitorGoodbye,
     ExhibitorLost, ExhibitorLeaves
<1>3. \/ \E rest : ReadFromServer(x, rest)
      \/ \E words : SendToServer(x, words)
      \/ UNCHANGED <<toServer, toClient>>
  BY DEF Displayer, ReadFile, ReadChunk, AnswerOk, Save, ReadOther, ExhibitorGoodbye,
     ExhibitorLost, ExhibitorLeaves, Quiet
<1>4. \A c \in Client : c # x => toServer'[c] = toServer[c] /\ toClient'[c] = toClient[c]
  BY <1>1, <1>3 DEF ReadFromServer, SendToServer
<1> QED
  BY <1>1, <1>2, <1>4 DEF Ex

\* The steps of an exhibitor, p before and q after, up and down before, up2 and down2 after.
Leaves(x, p, up, down, q, up2, down2) ==
  /\ p.pc \in {"main", "answer", "chunks", "save"} /\ q = [p EXCEPT !.pc = "bye"]
  /\ up2 = up \o Flw(x) /\ down2 = down

Saves(p, up, down, q, up2, down2) ==
  /\ p.pc = "save" /\ q = [p EXCEPT !.pc = "main", !.written = @ \cup {p.chunks}]
  /\ up2 = up /\ down2 = down

Reads(p, up, down, q, up2, down2) ==
  /\ up2 = up /\ HasHeader(down)
  /\ \/ /\ p.pc = "main" /\ HasBody(down) /\ down2 = AfterBody(down)
        /\ q = [p EXCEPT !.pc = "answer", !.seq_number = down[4], !.missing = down[6],
                         !.chunks = <<>>]
     \/ /\ p.pc = "chunks" /\ HasBody(down) /\ down2 = AfterBody(down)
        /\ q = [p EXCEPT !.pc = "answer", !.seq_number = down[4], !.missing = @ - 1,
                         !.chunks = @ \o DataOf(down)]
     \/ /\ p.pc = "main" /\ down[1] # type_encoder.FILE
        /\ q.pc \in {"main", "failed"} /\ q.written = p.written /\ q.chunks = p.chunks

SaysOk(x, p, up, down, q, up2, down2) ==
  /\ p.pc = "answer" /\ q = [p EXCEPT !.pc = IF p.missing = 0 THEN "save" ELSE "chunks"]
  /\ up2 = up \o Ok(x, p.seq_number) /\ down2 = down

Ends(p, up, down, q, up2, down2) ==
  /\ p.pc = "bye" /\ HasHeader(down)
  /\ q.pc \in {"left", "failed"} /\ q.written = p.written /\ up2 = up

Moves(x, p, up, down, q, up2, down2) ==
  \/ Leaves(x, p, up, down, q, up2, down2) \/ Saves(p, up, down, q, up2, down2)
  \/ Reads(p, up, down, q, up2, down2) \/ SaysOk(x, p, up, down, q, up2, down2)
  \/ Ends(p, up, down, q, up2, down2)

LEMMA ExhibitorSteps ==
  ASSUME Types, srv.pc # "crashed", NEW x \in Exhibitor, Displayer(x) \/ ExhibitorLeaves(x),
         NEW p, p = ex[x], NEW up, up = toServer[x], NEW down, down = toClient[x],
         NEW q, q = ex'[x], NEW up2, up2 = toServer'[x], NEW down2, down2 = toClient'[x]
  PROVE  Moves(x, p, up, down, q, up2, down2)
<1>t. /\ toServer \in [Client -> Words] /\ toClient \in [Client -> Words]
      /\ ex \in [Exhibitor -> ExType] /\ p \in ExType /\ x \in Client
      /\ down \in Words
  BY Ids DEF Types
<1>x. ASSUME NEW r, Ex(x, r) PROVE q = r
  BY <1>t, <1>x DEF Ex
<1>s. ASSUME NEW words, SendToServer(x, words) PROVE up2 = up \o words /\ down2 = down
  BY <1>t, <1>s DEF SendToServer
<1>r. ASSUME NEW rest, ReadFromServer(x, rest) PROVE up2 = up /\ down2 = rest
  BY <1>t, <1>r DEF ReadFromServer
<1>1. CASE ReadFile(x)
  <2>1. /\ p.pc = "main" /\ HasBody(down)
        /\ ReadFromServer(x, AfterBody(down))
        /\ Ex(x, [p EXCEPT !.pc = "answer", !.seq_number = down[4], !.missing = down[6],
                           !.chunks = <<>>])
    BY <1>1 DEF ReadFile
  <2>2. HasHeader(down)
    BY <1>t, <2>1, BodyTypes
  <2> QED
    BY <1>r, <1>x, <2>1, <2>2 DEF Reads, Moves
<1>2. CASE ReadChunk(x)
  <2>1. /\ p.pc = "chunks" /\ HasBody(down)
        /\ ReadFromServer(x, AfterBody(down))
        /\ Ex(x, [p EXCEPT !.pc = "answer", !.seq_number = down[4], !.missing = @ - 1,
                           !.chunks = @ \o DataOf(down)])
    BY <1>2 DEF ReadChunk
  <2>2. HasHeader(down)
    BY <1>t, <2>1, BodyTypes
  <2> QED
    BY <1>r, <1>x, <2>1, <2>2 DEF Reads, Moves
<1>3. CASE AnswerOk(x)
  BY <1>3, <1>s, <1>x DEF AnswerOk, AfterOk, SaysOk, Ok, Moves
<1>4. CASE Save(x)
  BY <1>4, <1>x DEF Save, Quiet, Saves, Moves
<1>5. CASE ReadOther(x)
  <2>1. PICK pc \in {"main", "failed"} :
          /\ p.pc = "main" /\ HasHeader(down) /\ down[1] # type_encoder.FILE
          /\ ReadFromServer(x, AfterHeader(down)) /\ Ex(x, [p EXCEPT !.pc = pc])
    BY <1>5 DEF ReadOther
  <2>2. q = [p EXCEPT !.pc = pc]
    BY <1>x, <2>1
  <2>3. q.pc \in {"main", "failed"} /\ q.written = p.written /\ q.chunks = p.chunks
    BY <1>t, <2>2 DEF ExType
  <2> QED
    BY <1>r, <2>1, <2>3 DEF Reads, Moves
<1>6. CASE ExhibitorGoodbye(x)
  <2>1. PICK pc \in {"left", "failed"} :
          /\ p.pc = "bye" /\ HasHeader(down)
          /\ ReadFromServer(x, AfterHeader(down)) /\ Ex(x, [p EXCEPT !.pc = pc])
    BY <1>6 DEF ExhibitorGoodbye
  <2>2. q = [p EXCEPT !.pc = pc]
    BY <1>x, <2>1
  <2>3. q.pc \in {"left", "failed"} /\ q.written = p.written
    BY <1>t, <2>2 DEF ExType
  <2> QED
    BY <1>r, <2>1, <2>3 DEF Ends, Moves
<1>7. CASE ExhibitorLost(x)
  BY <1>7 DEF ExhibitorLost
<1>8. CASE ExhibitorLeaves(x)
  BY <1>8, <1>s, <1>x DEF ExhibitorLeaves, Leaves, Flw, Moves
<1> QED
  BY <1>1, <1>2, <1>3, <1>4, <1>5, <1>6, <1>7, <1>8 DEF Displayer, Moves

\* What an exhibitor has it keeps, and it writes what it has joined.
LEMMA KeepsWritten ==
  ASSUME NEW x, NEW p \in ExType, NEW up, NEW down, NEW q, NEW up2, NEW down2,
         Moves(x, p, up, down, q, up2, down2)
  PROVE  /\ Leaving(p) => Leaving(q)
         /\ \A f, size : Whole(p, f, size) /\ ~Leaving(q) => Whole(q, f, size)
         /\ \A words \in q.written : words \in p.written \/ (p.pc = "save" /\ words = p.chunks)
         /\ q.pc = "save" => p.pc = "answer" /\ p.missing = 0 /\ q.chunks = p.chunks
<1>1. CASE Leaves(x, p, up, down, q, up2, down2)
  BY <1>1 DEF Leaves, Leaving, Whole, ExType
<1>2. CASE Saves(p, up, down, q, up2, down2)
  BY <1>2 DEF Saves, Leaving, Whole, ExType
<1>3. CASE Reads(p, up, down, q, up2, down2)
  BY <1>3 DEF Reads, Leaving, Whole, ExType
<1>4. CASE SaysOk(x, p, up, down, q, up2, down2)
  BY <1>4 DEF SaysOk, Leaving, Whole, ExType
<1>5. CASE Ends(p, up, down, q, up2, down2)
  BY <1>5 DEF Ends, Leaving, Whole, ExType
<1> QED
  BY <1>1, <1>2, <1>3, <1>4, <1>5 DEF Moves

\* Of whom nothing is asked it saves, or leaves.
LEMMA FreeKept ==
  ASSUME NEW x \in Exhibitor, NEW p \in ExType, NEW up, NEW down, NEW q, NEW up2, NEW down2,
         Moves(x, p, up, down, q, up2, down2), Free(x, p, up, down)
  PROVE  /\ Free(x, q, up2, down2) /\ ~SaysGoodbye(x, p, up, down)
         /\ q.pc # "save"
<1>1. ~HasHeader(<<>>)
  BY NothingToRead
<1>2. \/ Leaves(x, p, up, down, q, up2, down2) \/ Saves(p, up, down, q, up2, down2)
  BY <1>1 DEF Moves, Reads, SaysOk, Ends, Free, SaysGoodbye
<1>3. up = <<>> /\ down = <<>> /\ p.pc \in {"main", "save"} /\ ~SaysGoodbye(x, p, up, down)
  BY <1>2 DEF Free, SaysGoodbye, Leaves, Saves
<1>4. CASE Leaves(x, p, up, down, q, up2, down2)
  <2>1. up2 = Flw(x)
    <3>1. x \in Client
      BY Ids
    <3>2. Flw(x) \in Words
      BY <3>1, Answers DEF IsHeader
    <3> QED
      BY <1>3, <1>4, <3>2, SentAlone DEF Leaves
  <2> QED
    BY <1>3, <1>4, <2>1 DEF Leaves, Free, SaysGoodbye, ExType
<1>5. CASE Saves(p, up, down, q, up2, down2)
  BY <1>3, <1>5 DEF Saves, Free, ExType
<1> QED
  BY <1>2, <1>3, <1>4, <1>5

\* The same, when it has its part of a file.
LEMMA AfterKept ==
  ASSUME NEW x \in Exhibitor, NEW p \in ExType, NEW up, NEW down, NEW q, NEW up2, NEW down2,
         Moves(x, p, up, down, q, up2, down2),
         NEW f, NEW size, NEW s, After(x, p, up, down, s, f, size)
  PROVE  After(x, q, up2, down2, s, f, size) /\ q.pc # "save"
<1>1. ~HasHeader(<<>>)
  BY NothingToRead
<1>2. \/ Leaves(x, p, up, down, q, up2, down2) \/ Saves(p, up, down, q, up2, down2)
  BY <1>1 DEF Moves, Reads, SaysOk, Ends, After, Has, SaysGoodbye
<1>3. up = <<>> /\ down = <<>> /\ Has(p, f, size, s.n_chunks)
  BY <1>2 DEF After, SaysGoodbye, Leaves, Saves
<1>4. CASE Leaves(x, p, up, down, q, up2, down2)
  <2>1. up2 = Flw(x)
    <3>1. x \in Client
      BY Ids
    <3>2. Flw(x) \in Words
      BY <3>1, Answers DEF IsHeader
    <3> QED
      BY <1>3, <1>4, <3>2, SentAlone DEF Leaves
  <2> QED
    BY <1>3, <1>4, <2>1 DEF Leaves, After, SaysGoodbye, ExType
<1>5. CASE Saves(p, up, down, q, up2, down2)
  <2>1. q.pc = "main" /\ up2 = <<>> /\ down2 = <<>> /\ s.n_chunks = 0
    BY <1>3, <1>5 DEF Saves, Has, ExType
  <2>2. Whole(q, f, size)
    <3>1. Whole(p, f, size) /\ ~Leaving(q)
      BY <1>3, <2>1 DEF Has, Leaving
    <3> QED
      BY <3>1, KeepsWritten
  <2> QED
    BY <2>1, <2>2 DEF After, Has
<1> QED
  BY <1>2, <1>4, <1>5

\* And when the message is still to come.
LEMMA BeforeKept ==
  ASSUME NEW x \in Exhibitor, NEW p \in ExType, NEW up, NEW down, NEW q, NEW up2, NEW down2,
         Moves(x, p, up, down, q, up2, down2),
         NEW f, NEW size, NEW s \in SrvType, Before(x, p, up, down, s, f, size)
  PROVE  Before(x, q, up2, down2, s, f, size) /\ q.pc # "save"
<1>1. ~HasHeader(<<>>) /\ s.n_chunks + 1 # 0
  BY NothingToRead, SrvFields
<1>2. \/ Leaves(x, p, up, down, q, up2, down2) \/ Saves(p, up, down, q, up2, down2)
  BY <1>1 DEF Moves, Reads, SaysOk, Ends, Before, Ahead, Has, SaysGoodbye
<1>3. up = <<>> /\ down = <<>> /\ Ahead(p, s, f, size)
  BY <1>2 DEF Before, SaysGoodbye, Leaves, Saves
<1>4. CASE Leaves(x, p, up, down, q, up2, down2)
  <2>1. up2 = Flw(x)
    <3>1. x \in Client
      BY Ids
    <3>2. Flw(x) \in Words
      BY <3>1, Answers DEF IsHeader
    <3> QED
      BY <1>3, <1>4, <3>2, SentAlone DEF Leaves
  <2> QED
    BY <1>3, <1>4, <2>1 DEF Leaves, Before, SaysGoodbye, ExType
<1>5. CASE Saves(p, up, down, q, up2, down2)
  BY <1>1, <1>3, <1>5 DEF Saves, Before, Ahead, Has, ExType
<1> QED
  BY <1>2, <1>4, <1>5

\* The exhibitor the relay is at reads the message, answers it, or leaves.
LEMMA AskedKept ==
  ASSUME NEW x \in Exhibitor, NEW p \in ExType, NEW up, NEW down, NEW q, NEW up2, NEW down2,
         Moves(x, p, up, down, q, up2, down2),
         NEW e \in EmType, NEW s \in SrvType, Carries(e, s),
         e.pc = "chunk" => e.chunk_id < NumChunks(e.size),
         Asked(x, p, up, down, s, e.file_id, e.size)
  PROVE  /\ Asked(x, q, up2, down2, s, e.file_id, e.size)
         /\ q.pc = "save" => q.chunks = Content(e.file_id, e.size)
<1> PICK f \in Nat, size \in Nat : f = e.file_id /\ size = e.size
  BY EmFields
<1> PICK n \in Nat, N \in Nat : n = s.n_chunks /\ N = NumChunks(size)
  BY SrvFields, ChunkBounds
<1>1. ~HasHeader(<<>>) /\ n + 1 # 0 /\ x \in Client /\ s.seq_number \in Nat
  BY NothingToRead, SrvFields, Ids
<1>2. /\ Flw(x) \in Words /\ Ok(x, s.seq_number) \in Words
      /\ <<>> \o Flw(x) = Flw(x) /\ <<>> \o Ok(x, s.seq_number) = Ok(x, s.seq_number)
  BY <1>1, Answers, SentAlone DEF IsHeader
<1>3. CASE /\ up = <<>> /\ Joins(down, Header(s.type, Sender, x, s.seq_number), s.body)
           /\ Ahead(p, s, f, size)
  <2>1. /\ IsMessage(down, s.type, Sender, x, s.seq_number, s.body)
        /\ s.type = "FILE" => down[6] = N /\ n = N
        /\ s.type = "FILE_CHUNK" =>
             /\ DataOf(down) = Chunk(f, size, e.chunk_id)
             /\ e.chunk_id < N /\ n + 1 = N - e.chunk_id
    BY <1>3, TheRelayed
  <2>2. s.type \in {"FILE", "FILE_CHUNK"}
    BY SrvFields
  <2>3. p.pc \in {"main", "save", "chunks"}
    BY <1>1, <1>3 DEF Ahead, Has
  <2>4. CASE Leaves(x, p, up, down, q, up2, down2)
    BY <1>2, <1>3, <2>4 DEF Leaves, Asked, Leaving, ExType
  <2>5. CASE Saves(p, up, down, q, up2, down2)
    BY <1>1, <1>3, <2>5 DEF Saves, Asked, Ahead, Has, ExType
  <2>6. CASE Reads(p, up, down, q, up2, down2)
    <3>1. down[4] = s.seq_number /\ AfterBody(down) = <<>> /\ down[1] = type_encoder[s.type]
      BY <2>1 DEF IsMessage
    <3>2. CASE s.type = "FILE"
      <4>1. p.pc = "main" /\ down[1] = type_encoder.FILE
        BY <1>3, <2>6, <3>1, <3>2 DEF Ahead, Reads
      <4>2. /\ q = [p EXCEPT !.pc = "answer", !.seq_number = down[4], !.missing = down[6],
                             !.chunks = <<>>]
            /\ up2 = <<>> /\ down2 = <<>>
        BY <1>3, <2>6, <3>1, <4>1 DEF Reads
      <4>3. /\ q.pc = "answer" /\ q.seq_number = s.seq_number /\ q.missing = n
            /\ q.chunks = <<>> /\ n = N
        BY <2>1, <3>1, <3>2, <4>2 DEF ExType
      <4>4. Content(f, Upto(size, N - n)) = <<>>
        <5>1. N - n = 0
          BY <4>3
        <5>2. Upto(size, 0) = 0 /\ Content(f, 0) = <<>>
          BY UptoEnds, ContentOfNothing
        <5> QED
          BY <5>1, <5>2
      <4>5. Joined(q, f, size, n)
        BY <4>3, <4>4 DEF Joined
      <4> QED
        BY <4>2, <4>3, <4>5 DEF Asked
    <3>3. CASE s.type = "FILE_CHUNK"
      <4>1. p.pc = "chunks" /\ Joined(p, f, size, n + 1)
        BY <1>1, <1>3, <3>3 DEF Ahead, Has
      <4>2. /\ q = [p EXCEPT !.pc = "answer", !.seq_number = down[4], !.missing = @ - 1,
                             !.chunks = @ \o DataOf(down)]
            /\ up2 = <<>> /\ down2 = <<>>
        BY <1>3, <2>6, <3>1, <4>1 DEF Reads
      <4>3. PICK k \in Nat : k = e.chunk_id
        BY EmFields
      <4>4. n + 1 = N - k /\ k < N /\ N - (n + 1) = k /\ N - n = k + 1 /\ n <= N
        BY <2>1, <3>3, <4>3
      <4>5. p.missing = n + 1 /\ p.chunks = Content(f, Upto(size, k))
        BY <4>1, <4>4 DEF Joined
      <4>6. Joins(Content(f, Upto(size, k + 1)), Content(f, Upto(size, k)), Chunk(f, size, k))
        <5>1. k < NumChunks(size)
          BY <4>4
        <5> QED
          BY <5>1, JoinChunk
      <4>7. q.chunks = p.chunks \o DataOf(down) /\ q.missing = p.missing - 1
            /\ q.pc = "answer" /\ q.seq_number = s.seq_number
        BY <3>1, <4>2 DEF ExType
      <4>8. q.chunks = Content(f, Upto(size, N - n))
        <5>1. DataOf(down) = Chunk(f, size, k) /\ N - n = k + 1
          BY <2>1, <3>3, <4>3, <4>4
        <5> QED
          BY <4>5, <4>6, <4>7, <5>1, Zenon DEF Joins
      <4>9. q.missing = n
        BY <4>5, <4>7
      <4>10. Joined(q, f, size, n)
        BY <4>4, <4>8, <4>9 DEF Joined
      <4> QED
        BY <4>2, <4>7, <4>10 DEF Asked
    <3> QED
      BY <2>2, <3>2, <3>3
  <2> QED
    BY <2>3, <2>4, <2>5, <2>6 DEF Moves, SaysOk, Ends
<1>4. CASE /\ up = <<>> /\ down = <<>> /\ p.pc = "answer"
           /\ p.seq_number = s.seq_number /\ Joined(p, f, size, n)
  <2>1. CASE Leaves(x, p, up, down, q, up2, down2)
    BY <1>2, <1>4, <2>1 DEF Leaves, Asked, Leaving, ExType
  <2>2. CASE SaysOk(x, p, up, down, q, up2, down2)
    <3>1. up2 = Ok(x, s.seq_number) /\ down2 = <<>>
      BY <1>2, <1>4, <2>2 DEF SaysOk
    <3>2. /\ q.pc = (IF n = 0 THEN "save" ELSE "chunks") /\ Joined(q, f, size, n)
      BY <1>4, <2>2 DEF SaysOk, Joined, ExType
    <3>3. n = 0 => q.chunks = Content(f, size)
      <4>1. N - 0 = N /\ Upto(size, N) = size
        BY UptoEnds
      <4> QED
        BY <3>2, <4>1 DEF Joined
    <3>4. Has(q, f, size, n)
      BY <3>2, <3>3 DEF Has, Whole
    <3> QED
      BY <3>1, <3>2, <3>3, <3>4 DEF Asked
  <2> QED
    BY <1>1, <1>4, <2>1, <2>2 DEF Moves, Saves, Reads, Ends
<1>5. CASE up = Ok(x, s.seq_number) /\ down = <<>> /\ Has(p, f, size, n)
  <2>1. CASE Leaves(x, p, up, down, q, up2, down2)
    BY <1>5, <2>1 DEF Leaves, Joins, Asked, ExType
  <2>2. CASE Saves(p, up, down, q, up2, down2)
    <3>1. q.pc = "main" /\ up2 = up /\ down2 = <<>> /\ n = 0
      BY <1>5, <2>2 DEF Saves, Has, ExType
    <3>2. Whole(p, f, size) /\ ~Leaving(q)
      BY <1>5, <3>1 DEF Has, Leaving
    <3>3. Whole(q, f, size)
      BY <3>2, KeepsWritten
    <3> QED
      BY <1>5, <3>1, <3>3 DEF Asked, Has
  <2> QED
    BY <1>1, <1>5, <2>1, <2>2 DEF Moves, Reads, SaysOk, Ends, Has
<1>6. CASE Joins(up, Ok(x, s.seq_number), Flw(x)) /\ down = <<>> /\ p.pc = "bye"
  BY <1>1, <1>6 DEF Moves, Leaves, Saves, Reads, SaysOk, Ends
<1>7. CASE up = Flw(x) /\ Leaving(p)
  BY <1>7 DEF Moves, Leaves, Saves, Reads, SaysOk, Ends, Leaving, Asked
<1> QED
  BY <1>3, <1>4, <1>5, <1>6, <1>7 DEF Asked

LEMMA ExhibitsKept ==
  ASSUME NEW x \in Exhibitor, NEW p \in ExType, NEW up, NEW down, NEW q, NEW up2, NEW down2,
         Moves(x, p, up, down, q, up2, down2),
         NEW e \in EmType, NEW s \in SrvType,
         s.pc = "relay" => Carries(e, s) /\ (e.pc = "chunk" => e.chunk_id < NumChunks(e.size)),
         Exhibits(x, p, up, down, s, e.file_id, e.size)
  PROVE  /\ Exhibits(x, q, up2, down2, s, e.file_id, e.size)
         /\ q.pc = "save" => s.pc = "relay" /\ q.chunks = Content(e.file_id, e.size)
         /\ s.pc = "request" => ~SaysGoodbye(x, p, up, down) \/ x \notin s.registered
<1>1. CASE x \notin s.registered
  <2>1. Leaving(q)
    BY <1>1, KeepsWritten DEF Exhibits
  <2> QED
    BY <1>1, <2>1 DEF Exhibits, Leaving
<1>2. CASE x \in s.registered /\ (~InTransfer(s) \/ x \notin s.send_to_list)
  <2>1. Free(x, p, up, down)
    BY <1>2 DEF Exhibits
  <2>2. /\ Free(x, q, up2, down2) /\ ~SaysGoodbye(x, p, up, down) /\ q.pc # "save"
    BY <2>1, FreeKept
  <2> QED
    BY <1>2, <2>2 DEF Exhibits
<1>3. CASE /\ x \in s.registered /\ InTransfer(s) /\ x \in s.send_to_list
           /\ s.pc = "relay" /\ x = s.at
  <2>1. Asked(x, p, up, down, s, e.file_id, e.size)
    BY <1>3 DEF Exhibits
  <2>2. /\ Asked(x, q, up2, down2, s, e.file_id, e.size)
        /\ q.pc = "save" => q.chunks = Content(e.file_id, e.size)
    BY <1>3, <2>1, AskedKept
  <2> QED
    BY <1>3, <2>2 DEF Exhibits
<1>4. CASE /\ x \in s.registered /\ InTransfer(s) /\ x \in s.send_to_list
           /\ s.pc = "relay" /\ x # s.at /\ x \in s.left
  <2>1. Before(x, p, up, down, s, e.file_id, e.size)
    BY <1>4 DEF Exhibits
  <2>2. Before(x, q, up2, down2, s, e.file_id, e.size) /\ q.pc # "save"
    BY <2>1, BeforeKept
  <2> QED
    BY <1>4, <2>2 DEF Exhibits
<1>5. CASE /\ x \in s.registered /\ InTransfer(s) /\ x \in s.send_to_list
           /\ ~(s.pc = "relay" /\ (x = s.at \/ x \in s.left))
  <2>1. After(x, p, up, down, s, e.file_id, e.size)
    BY <1>5 DEF Exhibits
  <2>2. After(x, q, up2, down2, s, e.file_id, e.size) /\ q.pc # "save"
    BY <2>1, AfterKept
  <2> QED
    BY <1>5, <2>2 DEF Exhibits, InTransfer
<1> QED
  BY <1>1, <1>2, <1>3, <1>4, <1>5

-----------------------------------------------------------------------------
(* What was written, and what was reported, without the condition *)

Written ==
  \A x \in Exhibitor : \A words \in ex[x].written : Cut(words, em.file_id)

Reported ==
  \A r \in em.reported, x \in Exhibitor :
    r.dst \in {x, Zero} /\ ~Leaving(ex[x]) => Whole(ex[x], r.id, r.size)

LEMMA Conditions ==
  /\ WrittenIsSent <=> (Undisturbed => Written)
  /\ ReportedIsReceived <=> (Undisturbed => Reported)
BY DEF WrittenIsSent, ReportedIsReceived, Written, Reported, Cut, Leaving, Whole, HasFile

\* What holds while the transfers go undisturbed.
Agree == Relation /\ Written /\ Reported

-----------------------------------------------------------------------------
(* The step of an exhibitor *)

LEMMA ExhibitorStep ==
  ASSUME Types, Agree, NEW x \in Exhibitor, Displayer(x) \/ ExhibitorLeaves(x)
  PROVE  Agree'
<1>1. /\ em' = em /\ srv' = srv
      /\ \A y \in Exhibitor : y # x => ex'[y] = ex[y]
      /\ \A c \in Client : c # x => toServer'[c] = toServer[c] /\ toClient'[c] = toClient[c]
  BY ExhibitorFrame
<1>2. /\ em \in EmType /\ srv \in SrvType /\ \A y \in Exhibitor : ex[y] \in ExType
  BY DEF Types
<1>3. /\ EmitterInv /\ TransferInv /\ ExhibitorInv /\ TurnInv /\ DeliveryInv /\ SavingInv
      /\ Alive /\ Written /\ Reported
  BY DEF Agree, Relation
<1>4. /\ Sender \in Client /\ x # Sender /\ \A y \in Exhibitor : y \in Client /\ y # Sender
  BY Ids
<1>5. toServer'[Sender] = toServer[Sender] /\ toClient'[Sender] = toClient[Sender]
  BY <1>1, <1>4
<1>6. srv.pc = "relay" =>
        Carries(em, srv) /\ (em.pc = "chunk" => em.chunk_id < NumChunks(em.size))
  BY <1>2, <1>3, RelayCarries DEF EmitterInv
<1> PICK p \in ExType : p = ex[x]
  BY <1>2
<1>7. PICK up, down, q, up2, down2 :
        /\ p = ex[x] /\ up = toServer[x] /\ down = toClient[x]
        /\ q = ex'[x] /\ up2 = toServer'[x] /\ down2 = toClient'[x]
  BY <1>2
<1>8. Moves(x, p, up, down, q, up2, down2)
  BY <1>3, <1>7, ExhibitorSteps DEF Alive
<1>9. Exhibits(x, p, up, down, srv, em.file_id, em.size)
  BY <1>3, <1>7 DEF ExhibitorInv
<1>10. /\ Exhibits(x, q, up2, down2, srv, em.file_id, em.size)
       /\ q.pc = "save" => srv.pc = "relay" /\ q.chunks = Content(em.file_id, em.size)
       /\ srv.pc = "request" => ~SaysGoodbye(x, p, up, down) \/ x \notin srv.registered
  BY <1>2, <1>6, <1>8, <1>9, ExhibitsKept
<1>11. /\ Leaving(p) => Leaving(q)
       /\ \A f, size : Whole(p, f, size) /\ ~Leaving(q) => Whole(q, f, size)
       /\ \A words \in q.written : words \in p.written \/ (p.pc = "save" /\ words = p.chunks)
  BY <1>8, KeepsWritten
<1>12. EmitterInv' /\ TransferInv' /\ Alive'
  BY <1>1, <1>3, <1>5 DEF EmitterInv, TransferInv, Alive
<1>13. ExhibitorInv'
  <2>1. ASSUME NEW y \in Exhibitor
        PROVE  Exhibits(y, ex'[y], toServer'[y], toClient'[y], srv', em'.file_id, em'.size)
    <3>1. CASE y = x
      BY <1>1, <1>7, <1>10, <3>1
    <3>2. CASE y # x
      BY <1>1, <1>3, <1>4, <3>2 DEF ExhibitorInv
    <3> QED
      BY <3>1, <3>2
  <2> QED
    BY <2>1 DEF ExhibitorInv
<1>14. TurnInv'
  <2>1. ASSUME srv.pc = "request", srv.turn # Sender PROVE srv.turn \in Client /\ srv.turn # x
    <3>1. SaysGoodbye(srv.turn, ex[srv.turn], toServer[srv.turn], toClient[srv.turn])
          /\ srv.turn \in srv.registered
      BY <1>3, <2>1 DEF TurnInv
    <3>2. srv.turn # x
      BY <1>7, <1>10, <2>1, <3>1
    <3> QED
      BY <1>2, <3>1, <3>2, SrvFields
  <2>2. ASSUME srv.pc = "request", srv.turn # Sender
        PROVE  /\ ex'[srv.turn] = ex[srv.turn] /\ toServer'[srv.turn] = toServer[srv.turn]
               /\ toClient'[srv.turn] = toClient[srv.turn]
    <3>1. srv.turn \in Exhibitor
      BY <2>1, <2>2 DEF Client
    <3> QED
      BY <1>1, <2>1, <2>2, <3>1
  <2> QED
    BY <1>1, <1>3, <1>5, <2>2 DEF TurnInv
<1>15. DeliveryInv'
  <2>1. ASSUME Delivered(em, toClient[Sender]), NEW y \in Exhibitor, em.dst \in {y, Zero},
               ~Leaving(ex'[y])
        PROVE  Whole(ex'[y], em.file_id, em.size)
    <3>1. CASE y = x
      BY <1>3, <1>7, <1>11, <2>1, <3>1 DEF DeliveryInv
    <3>2. CASE y # x
      BY <1>1, <1>3, <2>1, <3>2 DEF DeliveryInv
    <3> QED
      BY <3>1, <3>2
  <2> QED
    BY <1>1, <1>5, <2>1 DEF DeliveryInv
<1>16. SavingInv'
  <2>1. ASSUME NEW y \in Exhibitor, ex'[y].pc = "save" PROVE Cut(ex'[y].chunks, em.file_id)
    <3>1. CASE y = x
      <4>1. srv.pc = "relay" /\ q.chunks = Content(em.file_id, em.size)
        BY <1>7, <1>10, <2>1, <3>1
      <4>2. em.pc \in {"file", "chunk"}
        BY <1>2, <1>3, <4>1, RelayCarries DEF EmitterInv
      <4>3. em.size \in FileSize
        BY <4>2 DEF Types
      <4>4. em.file_id \in 0..em.file_id
        BY <1>2, EmFields
      <4> QED
        BY <1>7, <3>1, <4>1, <4>3, <4>4 DEF Cut
    <3>2. CASE y # x
      BY <1>1, <1>3, <2>1, <3>2 DEF SavingInv
    <3> QED
      BY <3>1, <3>2
  <2> QED
    BY <1>1, <2>1 DEF SavingInv
<1>17. Written'
  <2>1. ASSUME NEW y \in Exhibitor, NEW words \in ex'[y].written PROVE Cut(words, em.file_id)
    <3>1. CASE y = x
      BY <1>3, <1>7, <1>11, <2>1, <3>1 DEF Written, SavingInv
    <3>2. CASE y # x
      BY <1>1, <1>3, <2>1, <3>2 DEF Written
    <3> QED
      BY <3>1, <3>2
  <2> QED
    BY <1>1, <2>1 DEF Written
<1>18. Reported'
  <2>1. ASSUME NEW r \in em.reported, NEW y \in Exhibitor, r.dst \in {y, Zero},
               ~Leaving(ex'[y])
        PROVE  Whole(ex'[y], r.id, r.size)
    <3>1. CASE y = x
      BY <1>3, <1>7, <1>11, <2>1, <3>1 DEF Reported
    <3>2. CASE y # x
      BY <1>1, <1>3, <2>1, <3>2 DEF Reported
    <3> QED
      BY <3>1, <3>2
  <2> QED
    BY <1>1, <2>1 DEF Reported
<1> QED
  BY <1>12, <1>13, <1>14, <1>15, <1>16, <1>17, <1>18 DEF Agree, Relation

-----------------------------------------------------------------------------
(* The steps of the emitter *)

\* What the emitter leaves alone.
LEMMA EmitterFrame ==
  ASSUME Types, Emitter \/ SendFile \/ CommandRaises \/ EmitterLeaves
  PROVE  /\ ex' = ex /\ srv' = srv
         /\ \A x \in Exhibitor : toServer'[x] = toServer[x] /\ toClient'[x] = toClient[x]
<1>1. toServer \in [Client -> Words] /\ toClient \in [Client -> Words]
  BY DEF Types
<1>2. \A x \in Exhibitor : x \in Client /\ x # Sender
  BY Ids
<1>3. ex' = ex /\ srv' = srv
  BY DEF Emitter, SendChunk, Report, GetReply, EmitterGoodbye, EmitterLost, SendFile,
     PackRaises, CommandRaises, Raise, EmitterLeaves, Em
<1>4. \/ \E rest : ReadFromServer(Sender, rest)
      \/ \E words : SendToServer(Sender, words)
      \/ UNCHANGED <<toServer, toClient>>
  BY DEF Emitter, SendChunk, Report, GetReply, EmitterGoodbye, EmitterLost, SendFile,
     PackRaises, CommandRaises, Raise, EmitterLeaves, Quiet
<1>5. ASSUME NEW x \in Exhibitor
      PROVE  toServer'[x] = toServer[x] /\ toClient'[x] = toClient[x]
  BY <1>1, <1>2, <1>4 DEF ReadFromServer, SendToServer
<1> QED
  BY <1>3, <1>5

LEMMA CutLater ==
  ASSUME NEW words, NEW last \in Nat, NEW later \in Nat, last <= later, Cut(words, last)
  PROVE  Cut(words, later)
<1>1. 0..last \subseteq 0..later
  OBVIOUS
<1> QED
  BY <1>1 DEF Cut

\* What there is to show of a step of the emitter.
LEMMA EmitterMoves ==
  ASSUME Types, Types', Agree, Emitter \/ SendFile \/ CommandRaises \/ EmitterLeaves,
         EmitterInv', TransferInv',
         InTransfer(srv) => em'.file_id = em.file_id /\ em'.size = em.size,
         srv.pc = "request" /\ srv.turn = Sender => toServer'[Sender] # <<>>,
         DeliveryInv', em'.file_id >= em.file_id,
         \A r \in em'.reported : r \in em.reported \/
            \A x \in Exhibitor : r.dst \in {x, Zero} /\ ~Leaving(ex[x]) => Whole(ex[x], r.id, r.size)
  PROVE  Agree'
<1>1. /\ ex' = ex /\ srv' = srv
      /\ \A x \in Exhibitor : toServer'[x] = toServer[x] /\ toClient'[x] = toClient[x]
  BY EmitterFrame
<1>2. ExhibitorInv /\ TurnInv /\ SavingInv /\ Alive /\ Written /\ Reported
  BY DEF Agree, Relation
<1>3. em.file_id \in Nat /\ em'.file_id \in Nat
  <2>1. em \in EmType /\ em' \in EmType
    BY DEF Types
  <2> QED
    BY <2>1, EmFields
<1>4. ExhibitorInv'
  <2>1. ASSUME NEW x \in Exhibitor
        PROVE  Exhibits(x, ex[x], toServer[x], toClient[x], srv, em'.file_id, em'.size)
    <3>1. Exhibits(x, ex[x], toServer[x], toClient[x], srv, em.file_id, em.size)
      BY <1>2 DEF ExhibitorInv
    <3>2. CASE InTransfer(srv)
      BY <3>1, <3>2
    <3>3. CASE ~InTransfer(srv)
      BY <3>1, <3>3 DEF Exhibits
    <3> QED
      BY <3>2, <3>3
  <2> QED
    BY <1>1, <2>1 DEF ExhibitorInv
<1>5. TurnInv'
  <2>1. ASSUME srv.pc = "request", srv.turn # Sender PROVE srv.turn \in Exhibitor
    <3>1. srv.turn \in srv.registered /\ srv.registered \subseteq Client
      BY <1>2, <2>1 DEF TurnInv, Types, SrvType
    <3> QED
      BY <2>1, <3>1 DEF Client
  <2> QED
    BY <1>1, <1>2, <2>1 DEF TurnInv
<1>6. SavingInv' /\ Alive'
  BY <1>1, <1>2, <1>3, CutLater DEF SavingInv, Alive
<1>7. Written'
  BY <1>1, <1>2, <1>3, CutLater DEF Written
<1>8. Reported'
  BY <1>1, <1>2 DEF Reported
<1> QED
  BY <1>4, <1>5, <1>6, <1>7, <1>8 DEF Agree, Relation

\* The emitter's connection, when it sends on it.
LEMMA EmitterSends ==
  ASSUME Types, NEW words \in Words, SendToServer(Sender, words)
  PROVE  /\ toServer[Sender] = <<>> => toServer'[Sender] = words
         /\ toClient'[Sender] = toClient[Sender]
<1>1. Sender \in Client /\ toServer \in [Client -> Words]
  BY Ids DEF Types
<1>2. toServer'[Sender] = toServer[Sender] \o words /\ toClient' = toClient
  BY <1>1 DEF SendToServer
<1>3. <<>> \o words = words
  BY SentAlone
<1> QED
  BY <1>2, <1>3

LEMMA SendChunkStep == ASSUME Types, Types', Agree, SendChunk PROVE Agree'
<1>0. em \in EmType /\ srv \in SrvType
  BY DEF Types
<1> PICK e \in EmType, s \in SrvType : e = em /\ s = srv
  BY <1>0
<1> PICK up, down : up = toServer[Sender] /\ down = toClient[Sender]
  OBVIOUS
<1>1. /\ e.pc = "sending" /\ e.chunk_id < NumChunks(e.size)
      /\ em' = [e EXCEPT !.pc = "chunk"] /\ srv' = s
      /\ SendToServer(Sender, Header("FILE_CHUNK", Sender, e.dst, e.seq_number) \o ChunkOf(e))
  BY DEF SendChunk, Em, ChunkOf
<1>2. Emits(e, up, down, s) /\ Transfers(s, e.dst)
  BY DEF Agree, Relation, EmitterInv, TransferInv
<1>3. /\ up = <<>> /\ down = <<>> /\ Expects(s, Remaining(e)) /\ Sender \in s.registered
  BY <1>1, <1>2 DEF Emits, AtSending, AtGoodbye
<1>4. PICK words \in Words :
        /\ SendToServer(Sender, words)
        /\ Joins(words, Header("FILE_CHUNK", Sender, e.dst, e.seq_number), ChunkOf(e))
  <2>1. Chunk(e.file_id, e.size, e.chunk_id) \in Words
    BY <1>1, EmFields, JoinChunk
  <2>2. /\ Header("FILE_CHUNK", Sender, e.dst, e.seq_number) \in Words /\ ChunkOf(e) \in Words
    BY <2>1, EmFields, Ids, SentWords, Encoder DEF ChunkOf
  <2> QED
    BY <1>1, <2>2, ConcatWords, Zenon DEF Joins
<1>5. toServer'[Sender] = words /\ toClient'[Sender] = <<>>
  BY <1>3, <1>4, EmitterSends
<1>6. PICK g : g = em'
  OBVIOUS
<1>7. /\ g.pc = "chunk" /\ g.chunk_id = e.chunk_id /\ g.size = e.size /\ g.dst = e.dst
      /\ g.file_id = e.file_id /\ g.reported = e.reported /\ g.seq_number = e.seq_number
  BY <1>1, <1>6 DEF EmType
<1>8. Emits(g, words, <<>>, s)
  <2>1. ChunkOf(g) = ChunkOf(e) /\ Remaining(g) = Remaining(e)
    BY <1>7 DEF ChunkOf, Remaining
  <2>2. AtChunk(g, words, <<>>, s)
    BY <1>1, <1>3, <1>4, <1>7, <2>1 DEF AtChunk
  <2> QED
    BY <1>3, <1>7, <2>2 DEF Emits, AtPrompt, AtFile, AtSending, AtGoodbye
<1>9. ~(s.pc = "request" /\ s.turn = Sender)
  BY <1>3 DEF Expects, Between
<1>10. EmitterInv' /\ TransferInv'
  BY <1>1, <1>2, <1>5, <1>6, <1>7, <1>8 DEF EmitterInv, TransferInv
<1>11. DeliveryInv'
  BY <1>5, <1>6, <1>7 DEF DeliveryInv, Delivered
<1>12. g.file_id >= e.file_id
  BY <1>7, EmFields
<1> QED
  BY <1>6, <1>7, <1>9, <1>10, <1>11, <1>12, EmitterMoves DEF Emitter

LEMMA ReportStep == ASSUME Types, Types', Agree, Report PROVE Agree'
<1>0. em \in EmType /\ srv \in SrvType
  BY DEF Types
<1> PICK e \in EmType, s \in SrvType : e = em /\ s = srv
  BY <1>0
<1> PICK up, down : up = toServer[Sender] /\ down = toClient[Sender]
  OBVIOUS
<1>1. /\ e.pc = "sending" /\ e.chunk_id = NumChunks(e.size)
      /\ em' = [e EXCEPT !.pc = "prompt", !.file_id = @ + 1,
                  !.reported = @ \cup {[id |-> e.file_id, size |-> e.size, dst |-> e.dst]}]
      /\ srv' = s /\ toServer'[Sender] = up /\ toClient'[Sender] = down
  BY DEF Report, Em, Quiet
<1>2. Emits(e, up, down, s) /\ Transfers(s, e.dst) /\ DeliveryInv
  BY DEF Agree, Relation, EmitterInv, TransferInv
<1>3. up = <<>> /\ down = <<>> /\ Between(s) /\ Sender \in s.registered
  <2>1. NumChunks(e.size) \in Nat /\ Remaining(e) = 0
    BY <1>1, EmFields, ChunkBounds DEF Remaining
  <2> QED
    BY <1>1, <1>2, <2>1 DEF Emits, AtSending, AtGoodbye, Expects
<1>4. PICK g : g = em'
  OBVIOUS
<1>5. /\ g.pc = "prompt" /\ g.dst = e.dst /\ g.file_id = e.file_id + 1
      /\ g.reported = e.reported \cup {[id |-> e.file_id, size |-> e.size, dst |-> e.dst]}
  BY <1>1, <1>4 DEF EmType
<1>6. Emits(g, up, down, s)
  BY <1>3, <1>5 DEF Emits, AtPrompt, AtFile, AtSending, AtChunk, AtGoodbye
<1>7. EmitterInv' /\ TransferInv'
  BY <1>1, <1>2, <1>4, <1>5, <1>6 DEF EmitterInv, TransferInv
<1>8. DeliveryInv'
  BY <1>4, <1>5 DEF DeliveryInv, Delivered
<1>9. ~InTransfer(s) /\ ~(s.pc = "request" /\ s.turn = Sender)
  BY <1>3 DEF InTransfer, Between
<1>10. \A x \in Exhibitor : e.dst \in {x, Zero} /\ ~Leaving(ex[x]) => Whole(ex[x], e.file_id, e.size)
  BY <1>1, <1>2 DEF DeliveryInv, Delivered
<1>11. \A r \in g.reported : r \in e.reported \/
         \A x \in Exhibitor : r.dst \in {x, Zero} /\ ~Leaving(ex[x]) => Whole(ex[x], r.id, r.size)
  BY <1>5, <1>10
<1>12. g.file_id >= e.file_id
  BY <1>5, EmFields
<1> QED
  BY <1>4, <1>7, <1>8, <1>9, <1>11, <1>12, EmitterMoves DEF Emitter

\* And when it reads from it.
LEMMA EmitterReads ==
  ASSUME Types, NEW rest, ReadFromServer(Sender, rest)
  PROVE  toClient'[Sender] = rest /\ toServer'[Sender] = toServer[Sender]
BY Ids DEF Types, ReadFromServer

\* The answers to the emitter, and its farewell.
LEMMA EmitterAnswers ==
  ASSUME NEW e \in EmType
  PROVE  /\ IsHeader(OkTo(e), "OK", SERVER_ID, Sender, e.seq_number)
         /\ IsHeader(Erro(e.seq_number), "ERRO", SERVER_ID, Sender, e.seq_number)
         /\ IsHeader(Header("FLW", Sender, SERVER_ID, e.seq_number),
                     "FLW", Sender, SERVER_ID, e.seq_number)
         /\ OkTo(e) # Erro(e.seq_number)
<1>1. Sender \in Nat /\ SERVER_ID \in Nat /\ e.seq_number \in Nat
  BY Ids, EmFields
<1>2. /\ IsHeader(OkTo(e), "OK", SERVER_ID, Sender, e.seq_number)
      /\ IsHeader(Erro(e.seq_number), "ERRO", SERVER_ID, Sender, e.seq_number)
      /\ IsHeader(Header("FLW", Sender, SERVER_ID, e.seq_number),
                  "FLW", Sender, SERVER_ID, e.seq_number)
  BY <1>1, AHeader, Encoder DEF OkTo, Erro
<1>3. OkTo(e) # Erro(e.seq_number)
  BY <1>2, Encoder DEF IsHeader
<1> QED
  BY <1>2, <1>3

LEMMA GetReplyStep == ASSUME Types, Types', Agree, GetReply PROVE Agree'
<1>0. em \in EmType /\ srv \in SrvType
  BY DEF Types
<1> PICK e \in EmType, s \in SrvType : e = em /\ s = srv
  BY <1>0
<1> PICK up, down : up = toServer[Sender] /\ down = toClient[Sender]
  OBVIOUS
<1>1. PICK ok \in BOOLEAN :
        /\ ok <=> HeaderOf(down) = OkTo(e)
        /\ e.pc \in {"file", "chunk"} /\ HasHeader(down)
        /\ ReadFromServer(Sender, AfterHeader(down))
        /\ em' = [e EXCEPT !.pc = IF e.pc = "file" /\ ~ok THEN "prompt" ELSE "sending",
                           !.seq_number = IF ok THEN @ + 1 ELSE @,
                           !.chunk_id = IF e.pc = "file" THEN 0 ELSE @ + 1]
        /\ srv' = s
  BY DEF GetReply, Em, IsMyOk, OkTo
<1>2. Emits(e, up, down, s) /\ Transfers(s, e.dst) /\ DeliveryInv
  BY DEF Agree, Relation, EmitterInv, TransferInv
<1>3. PICK g : g = em'
  OBVIOUS
<1>4. PICK down2 : down2 = AfterHeader(down)
  OBVIOUS
<1>5. toServer'[Sender] = up /\ toClient'[Sender] = down2
  BY <1>1, <1>4, EmitterReads
<1>6. /\ g.pc = (IF e.pc = "file" /\ ~ok THEN "prompt" ELSE "sending")
      /\ g.chunk_id = (IF e.pc = "file" THEN 0 ELSE e.chunk_id + 1)
      /\ g.size = e.size /\ g.dst = e.dst /\ g.file_id = e.file_id /\ g.reported = e.reported
  BY <1>1, <1>3 DEF EmType
<1>7. ~HasHeader(<<>>)
  BY NothingToRead
<1>8. /\ IsHeader(OkTo(e), "OK", SERVER_ID, Sender, e.seq_number)
      /\ IsHeader(Erro(e.seq_number), "ERRO", SERVER_ID, Sender, e.seq_number)
      /\ OkTo(e) # Erro(e.seq_number)
  BY EmitterAnswers
<1>9. NumChunks(e.size) \in Nat /\ e.chunk_id \in Nat
  BY EmFields, ChunkBounds
<1>10. Sender \in s.registered
  BY <1>1, <1>2 DEF Emits, AtGoodbye
<1>11. /\ up = <<>> /\ down2 = <<>>
       /\ \/ e.pc = "file" /\ ok /\ down = OkTo(e) /\ Expects(s, NumChunks(e.size))
          \/ e.pc = "file" /\ ~ok /\ Between(s)
          \/ /\ e.pc = "chunk" /\ down = OkTo(e) /\ Expects(s, Remaining(e) - 1)
             /\ e.chunk_id < NumChunks(e.size)
  <2>1. CASE e.pc = "file"
    <3>1. \/ up = <<>> /\ down = OkTo(e) /\ Expects(s, NumChunks(e.size))
          \/ up = <<>> /\ down = Erro(e.seq_number) /\ Between(s)
      BY <1>1, <1>2, <1>7, <2>1 DEF Emits, AtFile
    <3> QED
      BY <1>1, <1>4, <1>8, <2>1, <3>1 DEF IsHeader
  <2>2. CASE e.pc = "chunk"
    <3>1. /\ up = <<>> /\ down = OkTo(e) /\ Expects(s, Remaining(e) - 1)
          /\ e.chunk_id < NumChunks(e.size)
      BY <1>1, <1>2, <1>7, <2>2 DEF Emits, AtChunk
    <3> QED
      BY <1>1, <1>4, <1>8, <2>2, <3>1 DEF IsHeader
  <2> QED
    BY <1>1, <2>1, <2>2
<1>12. Emits(g, up, down2, s)
  <2>1. CASE e.pc = "file" /\ ok /\ down = OkTo(e) /\ Expects(s, NumChunks(e.size))
    <3>1. g.pc = "sending" /\ g.chunk_id = 0 /\ Remaining(g) = NumChunks(e.size)
      BY <1>6, <1>9, <2>1 DEF Remaining
    <3>2. AtSending(g, up, down2, s)
      BY <1>6, <1>9, <1>11, <2>1, <3>1 DEF AtSending
    <3> QED
      BY <1>10, <3>1, <3>2 DEF Emits, AtPrompt, AtFile, AtChunk, AtGoodbye
  <2>2. CASE e.pc = "file" /\ ~ok /\ Between(s)
    BY <1>6, <1>10, <1>11, <2>2 DEF Emits, AtPrompt, AtFile, AtSending, AtChunk, AtGoodbye
  <2>3. CASE /\ e.pc = "chunk" /\ Expects(s, Remaining(e) - 1)
             /\ e.chunk_id < NumChunks(e.size)
    <3>1. g.pc = "sending" /\ g.chunk_id = e.chunk_id + 1 /\ Remaining(g) = Remaining(e) - 1
          /\ g.chunk_id <= NumChunks(g.size)
      BY <1>6, <1>9, <2>3 DEF Remaining
    <3>2. AtSending(g, up, down2, s)
      BY <1>11, <2>3, <3>1 DEF AtSending
    <3> QED
      BY <1>10, <3>1, <3>2 DEF Emits, AtPrompt, AtFile, AtChunk, AtGoodbye
  <2> QED
    BY <1>11, <2>1, <2>2, <2>3
<1>13. EmitterInv' /\ TransferInv'
  BY <1>1, <1>2, <1>3, <1>5, <1>6, <1>12 DEF EmitterInv, TransferInv
<1>14. ~(s.pc = "request" /\ s.turn = Sender)
  BY <1>11 DEF Expects, Between
<1>15. DeliveryInv'
  <2>1. ASSUME Delivered(g, down2) PROVE Delivered(e, down)
    <3>1. g.pc = "sending" /\ g.chunk_id = NumChunks(e.size)
      BY <1>6, <2>1 DEF Delivered
    <3>2. CASE e.pc = "file"
      BY <1>6, <1>11, <3>1, <3>2 DEF Delivered
    <3>3. CASE e.pc = "chunk"
      BY <1>6, <1>8, <1>11, <3>1, <3>3 DEF Delivered, IsHeader
    <3> QED
      BY <1>1, <3>2, <3>3
  <2>2. ex' = ex
    BY EmitterFrame DEF Emitter
  <2> QED
    BY <1>2, <1>3, <1>5, <1>6, <2>1, <2>2 DEF DeliveryInv
<1>16. g.file_id >= e.file_id
  BY <1>6, EmFields
<1> QED
  BY <1>3, <1>6, <1>13, <1>14, <1>15, <1>16, EmitterMoves DEF Emitter

LEMMA EmitterGoodbyeStep == ASSUME Types, Types', Agree, EmitterGoodbye PROVE Agree'
<1>0. em \in EmType /\ srv \in SrvType
  BY DEF Types
<1> PICK e \in EmType, s \in SrvType : e = em /\ s = srv
  BY <1>0
<1> PICK up, down : up = toServer[Sender] /\ down = toClient[Sender]
  OBVIOUS
<1>1. /\ e.pc = "bye" /\ HasHeader(down) /\ ReadFromServer(Sender, AfterHeader(down))
      /\ em' = [e EXCEPT !.pc = IF HeaderOf(down) = OkTo(e) THEN "left" ELSE "failed"]
      /\ srv' = s
  BY DEF EmitterGoodbye, Em, IsMyOk, OkTo
<1>2. Emits(e, up, down, s) /\ Transfers(s, e.dst)
  BY DEF Agree, Relation, EmitterInv, TransferInv
<1>3. up = <<>> /\ down = OkTo(e) /\ Sender \notin s.registered /\ Between(s)
  BY <1>1, <1>2, NothingToRead DEF Emits, AtGoodbye
<1>4. AfterHeader(down) = <<>> /\ HeaderOf(down) = OkTo(e)
  BY <1>3, EmitterAnswers DEF IsHeader
<1>5. toServer'[Sender] = up /\ toClient'[Sender] = <<>>
  BY <1>1, <1>4, EmitterReads
<1>6. PICK g : g = em'
  OBVIOUS
<1>7. /\ g.pc = "left" /\ g.dst = e.dst /\ g.file_id = e.file_id /\ g.size = e.size
      /\ g.reported = e.reported
  BY <1>1, <1>4, <1>6 DEF EmType
<1>8. Emits(g, up, <<>>, s)
  BY <1>3, <1>7 DEF Emits, AtPrompt, AtFile, AtSending, AtChunk, AtGoodbye
<1>9. EmitterInv' /\ TransferInv'
  BY <1>1, <1>2, <1>5, <1>6, <1>7, <1>8 DEF EmitterInv, TransferInv
<1>10. DeliveryInv'
  BY <1>6, <1>7 DEF DeliveryInv, Delivered
<1>11. ~(s.pc = "request" /\ s.turn = Sender) /\ g.file_id >= e.file_id
  BY <1>3, <1>7, EmFields DEF Between
<1> QED
  BY <1>6, <1>7, <1>9, <1>10, <1>11, EmitterMoves DEF Emitter

LEMMA SendFileStep == ASSUME Types, Types', Agree, SendFile PROVE Agree'
<1>0. em \in EmType /\ srv \in SrvType
  BY DEF Types
<1> PICK e \in EmType, s \in SrvType : e = em /\ s = srv
  BY <1>0
<1> PICK up, down : up = toServer[Sender] /\ down = toClient[Sender]
  OBVIOUS
<1>1. PICK size \in FileSize, dst \in Exhibitor \cup {Zero} :
        /\ e.pc = "prompt"
        /\ SendToServer(Sender, Header("FILE", Sender, dst, e.seq_number)
                                  \o FileBody(e.file_id, NumChunks(size)))
        /\ em' = [e EXCEPT !.pc = "file", !.size = size, !.dst = dst, !.tries = @ + 1]
        /\ srv' = s
  BY DEF SendFile, Em
<1>2. Emits(e, up, down, s) /\ Transfers(s, e.dst)
  BY DEF Agree, Relation, EmitterInv, TransferInv
<1>3. up = <<>> /\ down = <<>> /\ Between(s) /\ Sender \in s.registered
  BY <1>1, <1>2 DEF Emits, AtPrompt, AtGoodbye
<1>4. PICK g : g = em'
  OBVIOUS
<1>5. /\ g.pc = "file" /\ g.dst = dst /\ g.file_id = e.file_id /\ g.size = size
      /\ g.reported = e.reported /\ g.seq_number = e.seq_number
  BY <1>1, <1>4 DEF EmType
<1>6. PICK words \in Words :
        /\ SendToServer(Sender, words)
        /\ Joins(words, Header("FILE", Sender, g.dst, g.seq_number), FileOf(g))
  <2>1. size \in Nat /\ dst \in Nat /\ Sender \in Nat
    BY Ids
  <2>2. NumChunks(size) \in Nat /\ e.file_id \in Nat /\ e.seq_number \in Nat
    BY <2>1, ChunkBounds, EmFields
  <2>3. /\ Header("FILE", Sender, dst, e.seq_number) \in Words
        /\ FileBody(e.file_id, NumChunks(size)) \in Words
    BY <2>1, <2>2, SentWords, Encoder
  <2>4. FileOf(g) = FileBody(e.file_id, NumChunks(size))
    BY <1>5 DEF FileOf
  <2> QED
    BY <1>1, <1>5, <2>3, <2>4, ConcatWords, Zenon DEF Joins
<1>7. toServer'[Sender] = words /\ toClient'[Sender] = <<>>
  BY <1>3, <1>6, EmitterSends
<1>8. Emits(g, words, <<>>, s)
  <2>1. AtFile(g, words, <<>>, s)
    BY <1>3, <1>6 DEF AtFile, Between
  <2> QED
    BY <1>3, <1>5, <2>1 DEF Emits, AtPrompt, AtSending, AtChunk, AtGoodbye
<1>9. ~InTransfer(s) /\ ~(s.pc = "request" /\ s.turn = Sender) /\ s.pc # "relay"
  BY <1>3 DEF Between, InTransfer
<1>10. EmitterInv' /\ TransferInv'
  BY <1>1, <1>4, <1>7, <1>8, <1>9 DEF EmitterInv, TransferInv, Transfers
<1>11. DeliveryInv'
  <2>1. <<>> # OkTo(g)
    <3>1. g \in EmType
      BY <1>4 DEF Types
    <3> QED
      BY <3>1, EmitterAnswers DEF IsHeader
  <2> QED
    BY <1>4, <1>5, <1>7, <2>1 DEF DeliveryInv, Delivered
<1>12. g.file_id >= e.file_id
  BY <1>5, EmFields
<1> QED
  BY <1>4, <1>5, <1>9, <1>10, <1>11, <1>12, EmitterMoves

\* At the prompt: elsewhere it breaks off a transfer.
LEMMA EmitterLeavesStep ==
  ASSUME Types, Types', Agree, EmitterLeaves, ~em'.brokeOff
  PROVE  Agree'
<1>0. em \in EmType /\ srv \in SrvType
  BY DEF Types
<1> PICK e \in EmType, s \in SrvType : e = em /\ s = srv
  BY <1>0
<1> PICK up, down : up = toServer[Sender] /\ down = toClient[Sender]
  OBVIOUS
<1>1. /\ SendToServer(Sender, Header("FLW", Sender, SERVER_ID, e.seq_number))
      /\ em' = [e EXCEPT !.pc = "bye", !.brokeOff = e.pc # "prompt"]
      /\ srv' = s
  BY DEF EmitterLeaves, Em
<1>2. PICK g : g = em'
  OBVIOUS
<1>3. /\ e.pc = "prompt" /\ g.pc = "bye" /\ g.dst = e.dst /\ g.file_id = e.file_id
      /\ g.size = e.size /\ g.reported = e.reported /\ g.seq_number = e.seq_number
  BY <1>1, <1>2 DEF EmType
<1>4. Emits(e, up, down, s) /\ Transfers(s, e.dst)
  BY DEF Agree, Relation, EmitterInv, TransferInv
<1>5. up = <<>> /\ down = <<>> /\ Between(s) /\ Sender \in s.registered
  BY <1>3, <1>4 DEF Emits, AtPrompt, AtGoodbye
<1>6. PICK words \in Words : words = Header("FLW", Sender, SERVER_ID, g.seq_number)
  BY <1>3, EmitterAnswers DEF IsHeader
<1>7. toServer'[Sender] = words /\ toClient'[Sender] = <<>>
  BY <1>1, <1>3, <1>5, <1>6, EmitterSends
<1>8. Emits(g, words, <<>>, s)
  <2>1. AtGoodbye(g, words, <<>>, s)
    BY <1>3, <1>5, <1>6 DEF AtGoodbye, Between
  <2> QED
    BY <1>3, <2>1 DEF Emits, AtPrompt, AtFile, AtSending, AtChunk
<1>9. ~(s.pc = "request" /\ s.turn = Sender)
  BY <1>5 DEF Between
<1>10. EmitterInv' /\ TransferInv'
  BY <1>1, <1>2, <1>3, <1>4, <1>7, <1>8 DEF EmitterInv, TransferInv
<1>11. DeliveryInv'
  BY <1>2, <1>3 DEF DeliveryInv, Delivered
<1>12. g.file_id >= e.file_id
  BY <1>3, EmFields
<1> QED
  BY <1>2, <1>3, <1>9, <1>10, <1>11, <1>12, EmitterMoves

LEMMA EmitterStep ==
  ASSUME Types, Types', Agree, Emitter \/ SendFile \/ CommandRaises \/ EmitterLeaves,
         ~em'.brokeOff
  PROVE  Agree'
<1>1. ~EmitterLost
  BY DEF EmitterLost, Agree, Relation, Alive
<1>2. ~CommandRaises /\ ~PackRaises
  BY DEF CommandRaises, PackRaises, Raise, Em, Types, EmType
<1> QED
  BY <1>1, <1>2, SendChunkStep, ReportStep, GetReplyStep, EmitterGoodbyeStep, SendFileStep,
     EmitterLeavesStep DEF Emitter

-----------------------------------------------------------------------------
(* The relay goes on *)

\* What there is to show of a step of the server.
LEMMA ServerMoves ==
  ASSUME Agree, em' = em, ex' = ex,
         EmitterInv', TransferInv', ExhibitorInv', TurnInv', DeliveryInv', Alive'
  PROVE  Agree'
BY DEF Agree, Relation, SavingInv, Written, Reported

\* The connections, when the server reads from c and sends to d.
LEMMA ServerSends ==
  ASSUME Types, NEW c \in Client, NEW d \in Client, NEW rest, NEW words \in Words,
         ReadAndSend(c, rest, d, words)
  PROVE  /\ \A y \in Client : toServer'[y] = IF y = c THEN rest ELSE toServer[y]
         /\ \A y \in Client : y # d => toClient'[y] = toClient[y]
         /\ toClient[d] = <<>> /\ ~Gone(d) => toClient'[d] = words
<1>1. toServer \in [Client -> Words] /\ toClient \in [Client -> Words]
  BY DEF Types
<1>2. <<>> \o words = words
  BY SentAlone
<1> QED
  BY <1>1, <1>2 DEF ReadAndSend

\* Before the relay goes on: what the exhibitor x is at.
Ready(x, p, up, down, job, f, size) ==
  /\ x \notin job.registered => Leaving(p)
  /\ x \in job.registered /\ x \notin job.send_to_list => Free(x, p, up, down)
  /\ x \in job.left => Before(x, p, up, down, job, f, size)
  /\ x \in job.send_to_list /\ x \notin job.left => After(x, p, up, down, job, f, size)

\* The job is the message of the emitter, which waits; c is the client that was read.
Prepared(job, c, rest) ==
  /\ Carries(em, job) /\ (em.pc = "chunk" => em.chunk_id < NumChunks(em.size))
  /\ em.pc \in {"file", "chunk"} /\ Sender \in job.registered /\ job.failure = "none"
  /\ job.send_to_list = Receivers(job.registered, em.dst)
  /\ job.left \subseteq job.send_to_list
  /\ toClient[Sender] = <<>> /\ (IF c = Sender THEN rest ELSE toServer[Sender]) = <<>>
  /\ \A x \in Exhibitor :
       Ready(x, ex[x], IF x = c THEN rest ELSE toServer[x], toClient[x], job,
             em.file_id, em.size)

\* Every exhibitor has the message: OK to the emitter.
LEMMA RelayEnds ==
  ASSUME Types, Agree, NEW job \in SrvType, NEW c \in Client, NEW rest,
         Relay(job, c, rest), Prepared(job, c, rest), job.left = {}
  PROVE  Agree'
<1> PICK e \in EmType : e = em
  BY DEF Types
<1>1. PICK s : s = [job EXCEPT !.pc = IF job.n_chunks = 0 THEN "select" ELSE "chunk"]
  OBVIOUS
<1>2. /\ s.pc = (IF job.n_chunks = 0 THEN "select" ELSE "chunk")
      /\ s.registered = job.registered /\ s.send_to_list = job.send_to_list
      /\ s.n_chunks = job.n_chunks /\ s.failure = job.failure
  BY <1>1 DEF SrvType
<1>3. /\ srv' = s /\ em' = em /\ ex' = ex
      /\ ReadAndSend(c, rest, Sender, Header("OK", SERVER_ID, Sender, job.seq_number))
  BY <1>1 DEF Relay, Srv
<1>4. /\ Carries(e, job) /\ (e.pc = "chunk" => e.chunk_id < NumChunks(e.size))
      /\ e.pc \in {"file", "chunk"} /\ Sender \in s.registered /\ s.failure = "none"
      /\ s.send_to_list = Receivers(s.registered, e.dst)
      /\ toClient[Sender] = <<>> /\ (IF c = Sender THEN rest ELSE toServer[Sender]) = <<>>
  BY <1>2 DEF Prepared
<1>5. PICK words \in Words : words = OkTo(e) /\ words # <<>>
  BY EmitterAnswers DEF IsHeader
<1>6. ReadAndSend(c, rest, Sender, words)
  BY <1>3, <1>4, <1>5 DEF OkTo, Carries
<1>7. /\ \A y \in Client : toServer'[y] = IF y = c THEN rest ELSE toServer[y]
      /\ \A x \in Exhibitor : toClient'[x] = toClient[x]
      /\ toServer'[Sender] = <<>> /\ toClient'[Sender] = words
  <2>1. Sender \in Client /\ \A x \in Exhibitor : x \in Client /\ x # Sender
    BY Ids
  <2>2. ~Gone(Sender)
    BY <1>4 DEF Gone
  <2> QED
    BY <1>4, <1>6, <2>1, <2>2, ServerSends
<1>8. e.pc = "file" => job.n_chunks = NumChunks(e.size)
  BY <1>4 DEF Carries
<1>9. e.pc = "chunk" => job.n_chunks = Remaining(e) - 1
  BY <1>4 DEF Carries
<1>10. Expects(s, job.n_chunks)
  BY <1>2 DEF Expects, Between
<1>11. EmitterInv'
  <2>1. Emits(e, <<>>, words, s)
    BY <1>4, <1>5, <1>8, <1>9, <1>10
    DEF Emits, AtPrompt, AtFile, AtSending, AtChunk, AtGoodbye
  <2> QED
    BY <1>3, <1>7, <2>1 DEF EmitterInv
<1>12. TransferInv'
  BY <1>2, <1>3, <1>4 DEF TransferInv, Transfers
<1>13. ASSUME NEW x \in Exhibitor
       PROVE  Ready(x, ex[x], toServer'[x], toClient'[x], job, em.file_id, em.size)
  <2>1. x \in Client
    BY Ids
  <2> QED
    BY <1>7, <2>1 DEF Prepared
<1>14. ExhibitorInv'
  <2>1. ASSUME NEW x \in Exhibitor
        PROVE  Exhibits(x, ex[x], toServer'[x], toClient'[x], s, em.file_id, em.size)
    <3>1. Ready(x, ex[x], toServer'[x], toClient'[x], job, em.file_id, em.size)
      BY <1>13
    <3>2. CASE job.n_chunks = 0
      BY <1>2, <3>1, <3>2 DEF Ready, Exhibits, InTransfer, After, Has, Free
    <3>3. CASE job.n_chunks # 0
      BY <1>2, <3>1, <3>3 DEF Ready, Exhibits, InTransfer, After
    <3> QED
      BY <3>2, <3>3
  <2> QED
    BY <1>3, <2>1 DEF ExhibitorInv
<1>15. DeliveryInv'
  <2>1. ASSUME Delivered(e, words), NEW x \in Exhibitor, e.dst \in {x, Zero},
               ~Leaving(ex[x])
        PROVE  Whole(ex[x], em.file_id, em.size)
    <3>1. job.n_chunks = 0
      <4>1. NumChunks(e.size) \in Nat /\ e.chunk_id \in Nat
        BY EmFields, ChunkBounds
      <4> QED
        BY <1>4, <1>8, <1>9, <2>1, <4>1 DEF Delivered, Remaining
    <3>2. Ready(x, ex[x], toServer'[x], toClient'[x], job, em.file_id, em.size)
      BY <1>13
    <3>3. x \in job.registered
      BY <2>1, <3>2 DEF Ready
    <3>4. x \in job.send_to_list
      BY <1>2, <1>4, <2>1, <3>3 DEF Receivers
    <3>5. After(x, ex[x], toServer'[x], toClient'[x], job, em.file_id, em.size)
      BY <3>2, <3>4 DEF Ready
    <3> QED
      BY <2>1, <3>1, <3>5 DEF After, Has, SaysGoodbye, Leaving
  <2> QED
    BY <1>3, <1>7, <2>1 DEF DeliveryInv
<1>16. TurnInv' /\ Alive'
  BY <1>2, <1>3, <1>4 DEF TurnInv, Alive
<1> QED
  BY <1>3, <1>11, <1>12, <1>14, <1>15, <1>16, ServerMoves

\* The message goes to the next exhibitor.
LEMMA RelayGoesOn ==
  ASSUME Types, Agree, NEW job \in SrvType, NEW c \in Client, NEW rest,
         Relay(job, c, rest), Prepared(job, c, rest), job.left # {}
  PROVE  Agree'
<1> PICK e \in EmType : e = em
  BY DEF Types
<1>1. PICK d \in job.left :
        /\ ReadAndSend(c, rest, d, Header(job.type, Sender, d, job.seq_number) \o job.body)
        /\ Srv([job EXCEPT !.pc = "relay", !.at = d, !.left = @ \ {d}])
  BY DEF Relay
<1>2. PICK s : s = [job EXCEPT !.pc = "relay", !.at = d, !.left = @ \ {d}]
  OBVIOUS
<1>3. /\ s.pc = "relay" /\ s.at = d /\ s.left = job.left \ {d}
      /\ s.registered = job.registered /\ s.send_to_list = job.send_to_list
      /\ s.n_chunks = job.n_chunks /\ s.failure = job.failure /\ s.type = job.type
      /\ s.body = job.body /\ s.seq_number = job.seq_number
  BY <1>2 DEF SrvType
<1>4. srv' = s /\ em' = em /\ ex' = ex
  BY <1>1, <1>2 DEF Srv
<1>5. /\ Carries(e, job) /\ (e.pc = "chunk" => e.chunk_id < NumChunks(e.size))
      /\ e.pc \in {"file", "chunk"} /\ Sender \in s.registered /\ s.failure = "none"
      /\ s.send_to_list = Receivers(s.registered, e.dst)
      /\ job.left \subseteq job.send_to_list
      /\ toClient[Sender] = <<>> /\ (IF c = Sender THEN rest ELSE toServer[Sender]) = <<>>
  BY <1>3 DEF Prepared
<1>6. d \in Exhibitor /\ d \in job.send_to_list /\ d \in job.registered
  <2>1. e.dst \in Exhibitor \cup {Zero} /\ Zero \notin Client /\ d \in Receivers(s.registered, e.dst)
    BY <1>3, <1>5, EmFields, Ids
  <2> QED
    BY <1>3, <1>5, <2>1 DEF Receivers
<1>7. PICK words \in Words :
        /\ Joins(words, Header(s.type, Sender, d, s.seq_number), s.body)
        /\ ReadAndSend(c, rest, d, words)
  <2>1. /\ job.type \in DOMAIN type_encoder /\ job.seq_number \in Nat /\ job.body \in Words
        /\ d \in Nat /\ Sender \in Nat
    BY <1>6, SrvFields, Encoder, Ids
  <2>2. Header(job.type, Sender, d, job.seq_number) \in Words
    BY <2>1, SentWords
  <2> QED
    BY <1>1, <1>3, <2>1, <2>2, ConcatWords, Zenon DEF Joins
<1>8. /\ d \in Client /\ d # Sender /\ Sender \in Client
      /\ \A x \in Exhibitor : x \in Client /\ x # Sender
  BY <1>6, Ids
<1>9. /\ \A y \in Client : toServer'[y] = IF y = c THEN rest ELSE toServer[y]
      /\ \A y \in Client : y # d => toClient'[y] = toClient[y]
      /\ toClient[d] = <<>> /\ ~Gone(d) => toClient'[d] = words
  BY <1>7, <1>8, ServerSends
<1>10. toServer'[Sender] = <<>> /\ toClient'[Sender] = <<>>
  BY <1>5, <1>8, <1>9
<1>11. EmitterInv'
  <2>1. Carries(e, s)
    BY <1>3, <1>5 DEF Carries
  <2>2. Emits(e, <<>>, <<>>, s)
    BY <1>3, <1>5, <2>1 DEF Emits, AtPrompt, AtFile, AtSending, AtChunk, AtGoodbye
  <2> QED
    BY <1>4, <1>10, <2>2 DEF EmitterInv
<1>12. TransferInv'
  BY <1>3, <1>4, <1>5, <1>6 DEF TransferInv, Transfers
<1>13. ASSUME NEW x \in Exhibitor
       PROVE  Ready(x, ex[x], toServer'[x], toClient[x], job, em.file_id, em.size)
  BY <1>8, <1>9, <1>13 DEF Prepared
<1>14. ExhibitorInv'
  <2>1. ASSUME NEW x \in Exhibitor
        PROVE  Exhibits(x, ex[x], toServer'[x], toClient'[x], s, em.file_id, em.size)
    <3>1. Ready(x, ex[x], toServer'[x], toClient[x], job, em.file_id, em.size)
      BY <1>13
    <3>2. CASE x # d
      <4>1. toClient'[x] = toClient[x]
        BY <1>8, <1>9, <3>2
      <4> QED
        BY <1>3, <3>1, <3>2, <4>1 DEF Ready, Exhibits, InTransfer, Before, After, Ahead
    <3>3. CASE x = d
      <4>1. Before(d, ex[d], toServer'[d], toClient[d], job, em.file_id, em.size)
        BY <3>1, <3>3 DEF Ready
      <4>2. CASE SaysGoodbye(d, ex[d], toServer'[d], toClient[d])
        <5>1. Asked(d, ex[d], toServer'[d], toClient'[d], s, em.file_id, em.size)
          BY <4>2 DEF SaysGoodbye, Asked, Leaving
        <5> QED
          BY <1>3, <1>6, <3>3, <5>1 DEF Exhibits, InTransfer
      <4>3. CASE /\ toServer'[d] = <<>> /\ toClient[d] = <<>>
                 /\ Ahead(ex[d], job, em.file_id, em.size)
        <5>1. ~Gone(d)
          BY <1>8, <4>3 DEF Ahead, Has, Gone
        <5>2. toClient'[d] = words /\ Ahead(ex[d], s, em.file_id, em.size)
          BY <1>3, <1>9, <4>3, <5>1 DEF Ahead
        <5>3. Asked(d, ex[d], toServer'[d], toClient'[d], s, em.file_id, em.size)
          BY <1>7, <4>3, <5>2 DEF Asked
        <5> QED
          BY <1>3, <1>6, <3>3, <5>3 DEF Exhibits, InTransfer
      <4> QED
        BY <4>1, <4>2, <4>3 DEF Before
    <3> QED
      BY <3>2, <3>3
  <2> QED
    BY <1>4, <2>1 DEF ExhibitorInv
<1>15. DeliveryInv'
  <2>1. <<>> # OkTo(e)
    BY EmitterAnswers DEF IsHeader
  <2> QED
    BY <1>4, <1>5, <1>10, <2>1 DEF DeliveryInv, Delivered
<1>16. TurnInv' /\ Alive'
  BY <1>3, <1>4, <1>5 DEF TurnInv, Alive
<1> QED
  BY <1>4, <1>11, <1>12, <1>14, <1>15, <1>16, ServerMoves

LEMMA RelayStep ==
  ASSUME Types, Agree, NEW job \in SrvType, NEW c \in Client, NEW rest,
         Relay(job, c, rest), Prepared(job, c, rest)
  PROVE  Agree'
BY RelayEnds, RelayGoesOn

-----------------------------------------------------------------------------
(* The steps of the server *)

\* A request the server reads from the emitter is the FILE or the farewell it waits for
\* the answer of.
LEMMA EmitterAsks ==
  ASSUME NEW e \in EmType, NEW up, NEW down, NEW s, Emits(e, up, down, s), up # <<>>,
         s.pc \in {"select", "request"}
  PROVE  \/ /\ e.pc = "file" /\ down = <<>>
            /\ Joins(up, Header("FILE", Sender, e.dst, e.seq_number), FileOf(e))
         \/ /\ e.pc = "bye" /\ down = <<>>
            /\ up = Header("FLW", Sender, SERVER_ID, e.seq_number)
         \/ e.pc = "left"
<1>1. e.pc \in {"prompt", "file", "sending", "chunk", "bye", "left", "failed"}
  BY DEF EmType
<1>2. ASSUME e.pc = "chunk" PROVE Remaining(e) # 0
  <2>1. NumChunks(e.size) \in Nat /\ e.chunk_id \in Nat
    BY EmFields, ChunkBounds
  <2> QED
    BY <1>2, <2>1 DEF Emits, AtChunk, Remaining
<1> QED
  BY <1>1, <1>2 DEF Emits, AtPrompt, AtFile, AtSending, AtChunk, AtGoodbye, Expects

LEMMA SenderAsks ==
  ASSUME Types, Agree, Request(Sender)
  PROVE  \/ /\ em.pc = "file" /\ toClient[Sender] = <<>>
            /\ Joins(toServer[Sender], Header("FILE", Sender, em.dst, em.seq_number), FileOf(em))
         \/ /\ em.pc = "bye" /\ toClient[Sender] = <<>>
            /\ toServer[Sender] = Header("FLW", Sender, SERVER_ID, em.seq_number)
<1>1. em \in EmType
  BY DEF Types
<1>2. Emits(em, toServer[Sender], toClient[Sender], srv) /\ TurnInv
  BY DEF Agree, Relation, EmitterInv
<1>3. srv.pc = "request" /\ srv.turn = Sender
  BY DEF Request
<1>4. toServer[Sender] # <<>> /\ Sender \in srv.registered
  BY <1>2, <1>3 DEF TurnInv
<1>5. em.pc # "left"
  BY <1>2, <1>4 DEF Emits, AtGoodbye
<1> QED
  BY <1>1, <1>2, <1>3, <1>4, <1>5, EmitterAsks

\* The relay is at an exhibitor that it is for.
LEMMA AtExhibitor ==
  ASSUME Types, TransferInv, srv.pc = "relay"
  PROVE  /\ srv.at \in Exhibitor /\ srv.at # Sender /\ srv.at \in srv.registered
         /\ srv.at \in srv.send_to_list /\ srv.at \notin srv.left
<1>1. em \in EmType /\ srv \in SrvType
  BY DEF Types
<1>2. /\ srv.at \in Receivers(srv.registered, em.dst)
      /\ srv.at \in srv.send_to_list /\ srv.at \notin srv.left
  BY DEF TransferInv, Transfers, InTransfer
<1>3. srv.registered \subseteq Client /\ em.dst \in Exhibitor \cup {Zero} /\ Zero \notin Client
      /\ Sender \notin Exhibitor
  BY <1>1, SrvFields, EmFields, Ids
<1> QED
  BY <1>2, <1>3 DEF Receivers

\* What the server could not go on with does not come.
LEMMA NothingStrange ==
  ASSUME Types, Agree
  PROVE  ~RefuseRequest /\ ~UnknownType /\ ~ConnectionLost
<1>1. em \in EmType /\ srv \in SrvType
  BY DEF Types
<1>2. /\ EmitterInv /\ TransferInv /\ ExhibitorInv /\ TurnInv
  BY DEF Agree, Relation
<1>3. ASSUME Request(Sender)
      PROVE  /\ toServer[Sender][2] = Sender
             /\ toServer[Sender][1] \in {type_encoder["FILE"], type_encoder["FLW"]}
  <2>1. CASE Joins(toServer[Sender], Header("FILE", Sender, em.dst, em.seq_number), FileOf(em))
    <3>1. em.dst \in Nat /\ em.seq_number \in Nat
      BY <1>1, EmFields
    <3> QED
      BY <1>1, <2>1, <3>1, TheFile DEF IsMessage
  <2>2. CASE toServer[Sender] = Header("FLW", Sender, SERVER_ID, em.seq_number)
    BY <1>1, <2>2, EmitterAnswers DEF IsHeader
  <2> QED
    BY <1>3, <2>1, <2>2, SenderAsks
<1>4. ~RefuseRequest
  BY <1>3, Encoder DEF RefuseRequest, type_encoder
<1>5. ~UnknownType
  <2>1. {type_encoder["FILE"], type_encoder["FLW"]} \subseteq Known
    BY Encoder DEF Known
  <2> QED
    BY <1>3, <2>1 DEF UnknownType
<1>6. ~(srv.pc = "request" /\ Gone(srv.turn))
  <2>1. ASSUME srv.pc = "request", srv.turn = Sender PROVE ~Gone(Sender)
    <3>1. toServer[Sender] # <<>> /\ Sender \in srv.registered
      BY <1>2, <2>1 DEF TurnInv
    <3>2. em.pc # "left" /\ em.pc # "failed" /\ em.pc # "unsaved"
      BY <1>2, <3>1 DEF EmitterInv, Emits, AtGoodbye, Types, EmType
    <3> QED
      BY <3>2 DEF Gone
  <2>2. ASSUME srv.pc = "request", srv.turn # Sender PROVE ~Gone(srv.turn)
    BY <1>2, <2>2 DEF TurnInv, SaysGoodbye, Gone
  <2> QED
    BY <2>1, <2>2
<1>7. ~(srv.pc = "chunk" /\ Gone(Sender))
  BY <1>2 DEF EmitterInv, Emits, AtGoodbye, Between, Gone, Types, EmType
<1>8. ~(srv.pc = "relay" /\ Gone(srv.at) /\ ~HasHeader(toServer[srv.at]))
  <2>1. SUFFICES ASSUME srv.pc = "relay", Gone(srv.at) PROVE HasHeader(toServer[srv.at])
    OBVIOUS
  <2>2. /\ srv.at \in Exhibitor /\ srv.at # Sender /\ srv.at \in srv.registered
        /\ srv.at \in srv.send_to_list
    BY <1>1, <1>2, <2>1, AtExhibitor
  <2>3. Asked(srv.at, ex[srv.at], toServer[srv.at], toClient[srv.at], srv,
              em.file_id, em.size)
    BY <1>2, <2>1, <2>2 DEF ExhibitorInv, Exhibits, InTransfer
  <2>4. ex[srv.at].pc \in {"left", "failed", "unsaved"}
    BY <2>1, <2>2 DEF Gone
  <2>5. toServer[srv.at] = Flw(srv.at)
    BY <2>3, <2>4 DEF Asked, Ahead, Has
  <2>6. srv.at \in Client /\ srv.seq_number \in Nat
    BY <1>1, SrvFields
  <2> QED
    BY <2>5, <2>6, Answers DEF IsHeader
<1> QED
  BY <1>4, <1>5, <1>6, <1>7, <1>8 DEF ConnectionLost

LEMMA FileRequestStep == ASSUME Types, Agree, FileRequest PROVE Agree'
<1>0. em \in EmType /\ srv \in SrvType /\ toServer[Sender] \in Words
  BY Ids DEF Types
<1> PICK e \in EmType, s \in SrvType, up \in Words :
      e = em /\ s = srv /\ up = toServer[Sender]
  BY <1>0
<1>1. /\ Request(Sender) /\ up[1] = type_encoder.FILE /\ HasBody(up)
  BY DEF FileRequest
<1>2. /\ EmitterInv /\ TransferInv /\ ExhibitorInv /\ TurnInv /\ DeliveryInv /\ Alive
  BY DEF Agree, Relation
<1>3. /\ e.pc = "file" /\ toClient[Sender] = <<>>
      /\ Joins(up, Header("FILE", Sender, e.dst, e.seq_number), FileOf(e))
  <2>1. up # Header("FLW", Sender, SERVER_ID, e.seq_number)
    BY <1>1, EmitterAnswers, Encoder DEF IsHeader
  <2> QED
    BY <1>1, <2>1, SenderAsks
<1>4. e.dst \in Nat /\ e.seq_number \in Nat
  BY EmFields
<1>5. IsMessage(up, "FILE", Sender, e.dst, e.seq_number, FileOf(e)) /\ up[6] = NumChunks(e.size)
  BY <1>3, <1>4, TheFile
<1>6. /\ up[3] = e.dst /\ up[4] = e.seq_number /\ BodyOf(up) = FileOf(e) /\ AfterBody(up) = <<>>
      /\ FileOf(e) \in Words
  BY <1>5 DEF IsMessage
<1>7. PICK to : to = Receivers(s.registered, e.dst)
  OBVIOUS
<1>8. send_to_list(up[3]) = to
  BY <1>6, <1>7 DEF send_to_list, Receivers
<1>9. s.pc = "request" /\ s.turn = Sender /\ Sender \in s.registered
  BY <1>1, <1>2 DEF Request, TurnInv
<1>10. CASE /\ ReadAndSend(Sender, <<>>, Sender, Erro(e.seq_number))
            /\ Srv([s EXCEPT !.pc = "select"])
  <2>1. PICK s2 : s2 = [s EXCEPT !.pc = "select"]
    OBVIOUS
  <2>2. s2.pc = "select" /\ s2.registered = s.registered /\ s2.failure = s.failure
    BY <2>1 DEF SrvType
  <2>3. srv' = s2 /\ em' = em /\ ex' = ex
    BY <1>10, <2>1 DEF Srv
  <2>4. PICK words \in Words : words = Erro(e.seq_number) /\ words # OkTo(e)
    BY EmitterAnswers DEF IsHeader
  <2>5. /\ toServer'[Sender] = <<>> /\ toClient'[Sender] = words
        /\ \A x \in Exhibitor : toServer'[x] = toServer[x] /\ toClient'[x] = toClient[x]
    <3>1. Sender \in Client /\ \A x \in Exhibitor : x \in Client /\ x # Sender
      BY Ids
    <3>2. ~Gone(Sender)
      BY <1>3 DEF Gone
    <3>3. ReadAndSend(Sender, <<>>, Sender, words)
      BY <1>10, <2>4
    <3> QED
      BY <1>3, <3>1, <3>2, <3>3, ServerSends
  <2>6. EmitterInv'
    <3>1. Emits(e, <<>>, words, s2)
      BY <1>3, <1>9, <2>2, <2>4
      DEF Emits, AtPrompt, AtFile, AtSending, AtChunk, AtGoodbye, Between
    <3> QED
      BY <2>3, <2>5, <3>1 DEF EmitterInv
  <2>7. ExhibitorInv'
    <3>1. ASSUME NEW x \in Exhibitor
          PROVE  Exhibits(x, ex[x], toServer[x], toClient[x], s2, em.file_id, em.size)
      <4>1. Exhibits(x, ex[x], toServer[x], toClient[x], s, em.file_id, em.size)
        BY <1>2 DEF ExhibitorInv
      <4> QED
        BY <1>9, <2>2, <4>1 DEF Exhibits, InTransfer
    <3> QED
      BY <2>3, <2>5, <3>1 DEF ExhibitorInv
  <2>8. TransferInv' /\ TurnInv' /\ Alive'
    BY <1>2, <2>2, <2>3 DEF TransferInv, Transfers, InTransfer, TurnInv, Alive
  <2>9. DeliveryInv'
    BY <1>3, <2>3, <2>4, <2>5 DEF DeliveryInv, Delivered
  <2> QED
    BY <2>3, <2>6, <2>7, <2>8, <2>9, ServerMoves
<1>11. CASE Relay([s EXCEPT !.type = "FILE", !.seq_number = e.seq_number, !.body = FileOf(e),
                            !.n_chunks = NumChunks(e.size), !.send_to_list = to, !.left = to],
                  Sender, <<>>)
  <2>1. PICK job : job = [s EXCEPT !.type = "FILE", !.seq_number = e.seq_number,
                            !.body = FileOf(e), !.n_chunks = NumChunks(e.size),
                            !.send_to_list = to, !.left = to]
    OBVIOUS
  <2>2. NumChunks(e.size) \in Nat /\ to \in SUBSET Client
    BY <1>7, EmFields, ChunkBounds, SrvFields DEF Receivers
  <2>3. job \in SrvType
    BY <1>4, <1>6, <2>1, <2>2, ZenonT(40) DEF SrvType
  <2>4. /\ job.type = "FILE" /\ job.seq_number = e.seq_number /\ job.body = FileOf(e)
        /\ job.n_chunks = NumChunks(e.size) /\ job.send_to_list = to /\ job.left = to
        /\ job.registered = s.registered /\ job.failure = s.failure
    BY <2>1 DEF SrvType
  <2>5. ASSUME NEW x \in Exhibitor
        PROVE  Ready(x, ex[x], IF x = Sender THEN <<>> ELSE toServer[x], toClient[x], job,
                     em.file_id, em.size)
    <3>1. x # Sender
      BY Ids
    <3>2. Exhibits(x, ex[x], toServer[x], toClient[x], s, em.file_id, em.size)
      BY <1>2 DEF ExhibitorInv
    <3>3. /\ x \notin s.registered => Leaving(ex[x])
          /\ x \in s.registered => Free(x, ex[x], toServer[x], toClient[x])
      BY <1>9, <3>2 DEF Exhibits, InTransfer
    <3>4. to \subseteq s.registered
      BY <1>7 DEF Receivers
    <3> QED
      BY <2>4, <3>1, <3>3, <3>4 DEF Ready, Free, Before, Ahead
  <2>6. Prepared(job, Sender, <<>>)
    BY <1>2, <1>3, <1>7, <1>9, <2>4, <2>5 DEF Prepared, Carries, Alive
  <2>7. Relay(job, Sender, <<>>)
    BY <1>11, <2>1
  <2> QED
    BY <2>3, <2>6, <2>7, Ids, RelayStep
<1> QED
  BY <1>5, <1>6, <1>8, <1>10, <1>11 DEF FileRequest

LEMMA RelayChunkStep == ASSUME Types, Agree, RelayChunk PROVE Agree'
<1>0. em \in EmType /\ srv \in SrvType /\ toServer[Sender] \in Words
  BY Ids DEF Types
<1> PICK e \in EmType, s \in SrvType, up \in Words :
      e = em /\ s = srv /\ up = toServer[Sender]
  BY <1>0
<1>1. PICK job :
        /\ job = [s EXCEPT !.type = "FILE_CHUNK", !.seq_number = up[4], !.body = BodyOf(up),
                     !.n_chunks = @ - 1, !.left = s.send_to_list]
        /\ s.pc = "chunk" /\ HasBody(up) /\ Relay(job, Sender, AfterBody(up))
  BY DEF RelayChunk
<1>2. /\ EmitterInv /\ TransferInv /\ ExhibitorInv /\ Alive
  BY DEF Agree, Relation
<1>3. NumChunks(e.size) \in Nat /\ e.chunk_id \in Nat /\ e.dst \in Nat /\ e.seq_number \in Nat
  BY EmFields, ChunkBounds
<1>4. /\ e.pc = "chunk" /\ e.chunk_id < NumChunks(e.size) /\ toClient[Sender] = <<>>
      /\ Joins(up, Header("FILE_CHUNK", Sender, e.dst, e.seq_number), ChunkOf(e))
      /\ Expects(s, Remaining(e)) /\ Sender \in s.registered
  <2>1. up # <<>>
    BY <1>1, NothingToRead
  <2>2. e.pc \in {"prompt", "file", "sending", "chunk", "bye", "left", "failed"}
    BY DEF EmType
  <2> QED
    BY <1>1, <1>2, <2>1, <2>2
    DEF EmitterInv, Emits, AtPrompt, AtFile, AtSending, AtChunk, AtGoodbye, Between
<1>5. IsMessage(up, "FILE_CHUNK", Sender, e.dst, e.seq_number, ChunkOf(e))
  BY <1>3, <1>4, TheChunk
<1>6. up[4] = e.seq_number /\ BodyOf(up) = ChunkOf(e) /\ AfterBody(up) = <<>> /\ ChunkOf(e) \in Words
  BY <1>5 DEF IsMessage
<1>7. s.n_chunks = Remaining(e) /\ Remaining(e) - 1 \in Nat /\ s.n_chunks - 1 \in Nat
  <2>1. Remaining(e) \in Nat /\ Remaining(e) # 0
    BY <1>3, <1>4 DEF Remaining
  <2>2. s.n_chunks = Remaining(e)
    BY <1>4, <2>1 DEF Expects
  <2> QED
    BY <2>1, <2>2
<1>8. /\ job.type = "FILE_CHUNK" /\ job.seq_number = e.seq_number /\ job.body = ChunkOf(e)
      /\ job.n_chunks = Remaining(e) - 1 /\ job.n_chunks + 1 = s.n_chunks
      /\ job.send_to_list = s.send_to_list /\ job.left = s.send_to_list
      /\ job.registered = s.registered /\ job.failure = s.failure
  <2>1. /\ job.type = "FILE_CHUNK" /\ job.seq_number = up[4] /\ job.body = BodyOf(up)
        /\ job.n_chunks = s.n_chunks - 1
        /\ job.send_to_list = s.send_to_list /\ job.left = s.send_to_list
        /\ job.registered = s.registered /\ job.failure = s.failure
    BY <1>1 DEF SrvType
  <2>2. (s.n_chunks - 1) + 1 = s.n_chunks
    BY SrvFields
  <2> QED
    BY <1>6, <1>7, <2>1, <2>2
<1>9. job \in SrvType
  <2>1. s.send_to_list \in SUBSET Client
    BY SrvFields
  <2>2. PICK n \in Nat : n = s.n_chunks - 1
    BY <1>7
  <2>3. job = [s EXCEPT !.type = "FILE_CHUNK", !.seq_number = e.seq_number,
                     !.body = ChunkOf(e), !.n_chunks = n, !.left = s.send_to_list]
    BY <1>1, <1>6, <2>2 DEF SrvType
  <2> QED
    BY <1>3, <1>6, <2>1, <2>3, ZenonT(40) DEF SrvType
<1>10. s.send_to_list = Receivers(s.registered, e.dst)
  BY <1>1, <1>2 DEF TransferInv, Transfers, InTransfer
<1>11. ASSUME NEW x \in Exhibitor
       PROVE  Ready(x, ex[x], IF x = Sender THEN <<>> ELSE toServer[x], toClient[x], job,
                    em.file_id, em.size)
  <2>1. x # Sender
    BY Ids
  <2>2. Exhibits(x, ex[x], toServer[x], toClient[x], s, em.file_id, em.size)
    BY <1>2 DEF ExhibitorInv
  <2>3. /\ x \notin s.registered => Leaving(ex[x])
        /\ x \in s.registered /\ x \notin s.send_to_list
             => Free(x, ex[x], toServer[x], toClient[x])
        /\ x \in s.registered /\ x \in s.send_to_list
             => After(x, ex[x], toServer[x], toClient[x], s, em.file_id, em.size)
    BY <1>1, <2>2 DEF Exhibits, InTransfer
  <2>4. s.send_to_list \subseteq s.registered
    BY <1>10 DEF Receivers
  <2>5. job.type # "FILE"
    BY <1>8
  <2> QED
    BY <1>8, <2>1, <2>3, <2>4, <2>5 DEF Ready, After, Before, Ahead
<1>12. Prepared(job, Sender, <<>>)
  BY <1>2, <1>4, <1>8, <1>10, <1>11 DEF Prepared, Carries, Alive
<1> QED
  BY <1>1, <1>6, <1>9, <1>12, Ids, RelayStep

\* The exhibitor said OK: it has the message.  Anything else ends the relay.
LEMMA RelayAnsweredStep ==
  ASSUME Types, Agree, RelayAnswered, ~srv'.gaveUp
  PROVE  Agree'
<1>0. em \in EmType /\ srv \in SrvType
  BY DEF Types
<1> PICK e \in EmType, s \in SrvType : e = em /\ s = srv
  BY <1>0
<1> PICK a, up : a = s.at /\ up = toServer[a]
  OBVIOUS
<1>1. s.pc = "relay" /\ HasHeader(up)
  BY DEF RelayAnswered
<1>2. /\ HeaderOf(up) = Ok(a, s.seq_number) /\ Relay(s, a, AfterHeader(up))
  <2>1. ~Srv([s EXCEPT !.pc = "select", !.gaveUp = TRUE])
    BY DEF Srv, SrvType
  <2> QED
    BY <2>1 DEF RelayAnswered, Ok
<1>3. /\ EmitterInv /\ TransferInv /\ ExhibitorInv /\ Alive
  BY DEF Agree, Relation
<1>4. /\ a \in Exhibitor /\ a # Sender /\ a \in s.registered /\ a \in s.send_to_list
      /\ a \notin s.left /\ a \in Client
  BY <1>1, <1>3, AtExhibitor, Ids
<1>5. Asked(a, ex[a], up, toClient[a], s, em.file_id, em.size)
  BY <1>1, <1>3, <1>4 DEF ExhibitorInv, Exhibits, InTransfer
<1>6. After(a, ex[a], AfterHeader(up), toClient[a], s, em.file_id, em.size)
  <2>1. s.seq_number \in Nat /\ ~HasHeader(<<>>)
    BY SrvFields, NothingToRead
  <2>2. CASE up = Ok(a, s.seq_number) /\ toClient[a] = <<>>
             /\ Has(ex[a], em.file_id, em.size, s.n_chunks)
    <3>1. AfterHeader(up) = <<>>
      BY <1>4, <2>1, <2>2, Answers DEF IsHeader
    <3> QED
      BY <2>2, <3>1 DEF After
  <2>3. CASE /\ Joins(up, Ok(a, s.seq_number), Flw(a)) /\ toClient[a] = <<>>
             /\ ex[a].pc = "bye"
    <3>1. AfterHeader(up) = Flw(a)
      BY <1>4, <2>1, <2>3, Answers
    <3> QED
      BY <2>3, <3>1 DEF After, SaysGoodbye
  <2>4. up # Flw(a)
    BY <1>2, <1>4, <2>1, Answers DEF IsHeader
  <2> QED
    BY <1>1, <1>5, <2>1, <2>2, <2>3, <2>4 DEF Asked
<1>7. /\ Carries(e, s) /\ toServer[Sender] = <<>> /\ toClient[Sender] = <<>>
      /\ e.pc = "chunk" => e.chunk_id < NumChunks(e.size)
      /\ e.pc \in {"file", "chunk"}
  BY <1>1, <1>3, RelayCarries DEF EmitterInv
<1>8. Sender \in s.registered
  BY <1>3, <1>7 DEF EmitterInv, Emits, AtGoodbye
<1>9. ASSUME NEW x \in Exhibitor
      PROVE  Ready(x, ex[x], IF x = a THEN AfterHeader(up) ELSE toServer[x], toClient[x], s,
                   em.file_id, em.size)
  <2>1. s.send_to_list \subseteq s.registered /\ s.left \subseteq s.send_to_list
    BY <1>1, <1>3 DEF TransferInv, Transfers, InTransfer, Receivers, Types
  <2>2. CASE x = a
    BY <1>4, <1>6, <2>2 DEF Ready
  <2>3. CASE x # a
    <3>1. Exhibits(x, ex[x], toServer[x], toClient[x], s, em.file_id, em.size)
      BY <1>3 DEF ExhibitorInv
    <3> QED
      BY <1>1, <2>1, <2>3, <3>1 DEF Exhibits, InTransfer, Ready
  <2> QED
    BY <2>2, <2>3
<1>10. Prepared(s, a, AfterHeader(up))
  <2>1. s.send_to_list = Receivers(s.registered, e.dst) /\ s.left \subseteq s.send_to_list
    BY <1>1, <1>3 DEF TransferInv, Transfers, InTransfer, Types
  <2> QED
    BY <1>3, <1>4, <1>7, <1>8, <1>9, <2>1 DEF Prepared, Alive
<1> QED
  BY <1>2, <1>4, <1>10, RelayStep

\* To select a client changes only what the server is at.
LEMMA SelectRest ==
  ASSUME Agree, NEW e, e = em, NEW s, s = srv, NEW s2, s2 = srv',
         s.pc = "select", s2.pc = "request", s2.registered = s.registered,
         s2.failure = s.failure,
         em' = em, ex' = ex, toServer' = toServer, toClient' = toClient,
         Emits(e, toServer[Sender], toClient[Sender], s2), TurnInv'
  PROVE  Agree'
<1>1. ExhibitorInv /\ DeliveryInv /\ Alive
  BY DEF Agree, Relation
<1>2. EmitterInv' /\ TransferInv' /\ DeliveryInv' /\ Alive'
  BY <1>1 DEF EmitterInv, TransferInv, Transfers, InTransfer, DeliveryInv, Alive
<1>3. ExhibitorInv'
  <2>1. ASSUME NEW x \in Exhibitor
        PROVE  Exhibits(x, ex[x], toServer[x], toClient[x], s2, em.file_id, em.size)
    <3>1. Exhibits(x, ex[x], toServer[x], toClient[x], s, em.file_id, em.size)
      BY <1>1 DEF ExhibitorInv
    <3> QED
      BY <3>1 DEF Exhibits, InTransfer
  <2> QED
    BY <2>1 DEF ExhibitorInv
<1> QED
  BY <1>2, <1>3, ServerMoves

LEMMA SelectStep ==
  ASSUME Types, Agree, NEW c \in Client, Select(c)
  PROVE  Agree'
<1>0. em \in EmType /\ srv \in SrvType
  BY DEF Types
<1> PICK e \in EmType, s \in SrvType : e = em /\ s = srv
  BY <1>0
<1>1. /\ s.pc = "select" /\ c \in s.registered /\ (toServer[c] # <<>> \/ Gone(c))
      /\ srv' = [s EXCEPT !.pc = "request", !.turn = c]
      /\ em' = em /\ ex' = ex /\ toServer' = toServer /\ toClient' = toClient
  BY DEF Select, Srv, Quiet
<1>2. /\ EmitterInv /\ TransferInv /\ ExhibitorInv /\ TurnInv /\ DeliveryInv /\ Alive
  BY DEF Agree, Relation
<1>3. PICK s2 : s2 = srv'
  OBVIOUS
<1>4. /\ s2.pc = "request" /\ s2.turn = c /\ s2.registered = s.registered
      /\ s2.failure = s.failure
  BY <1>1, <1>3 DEF SrvType
<1>5. Emits(e, toServer[Sender], toClient[Sender], s)
  BY <1>2 DEF EmitterInv
<1>6. CASE c = Sender
  <2>1. toServer[Sender] # <<>> /\ e.pc # "left"
    BY <1>1, <1>5, <1>6 DEF Gone, Emits, AtGoodbye, EmType
  <2>2. \/ /\ e.pc = "file" /\ toClient[Sender] = <<>>
           /\ Joins(toServer[Sender], Header("FILE", Sender, e.dst, e.seq_number), FileOf(e))
        \/ /\ e.pc = "bye" /\ toClient[Sender] = <<>>
           /\ toServer[Sender] = Header("FLW", Sender, SERVER_ID, e.seq_number)
    BY <1>1, <1>5, <2>1, EmitterAsks
  <2>3. Emits(e, toServer[Sender], toClient[Sender], s2)
    BY <1>1, <1>4, <1>5, <1>6, <2>2 DEF Emits, AtPrompt, AtFile, AtSending, AtChunk, AtGoodbye
  <2>4. TurnInv'
    BY <1>1, <1>3, <1>4, <1>6, <2>1 DEF TurnInv
  <2> QED
    BY <1>1, <1>2, <1>3, <1>4, <2>3, <2>4, SelectRest
<1>7. CASE c # Sender
  <2>1. c \in Exhibitor
    BY <1>7 DEF Client
  <2>2. Exhibits(c, ex[c], toServer[c], toClient[c], s, em.file_id, em.size)
    BY <1>2, <2>1 DEF ExhibitorInv
  <2>3. SaysGoodbye(c, ex[c], toServer[c], toClient[c])
    BY <1>1, <1>7, <2>2 DEF Exhibits, InTransfer, Free, Gone
  <2>4. TurnInv'
    BY <1>1, <1>3, <1>4, <1>7, <2>3 DEF TurnInv
  <2>5. \A n : Expects(s, n) => Expects(s2, n)
    BY <1>1, <1>4, <1>7 DEF Expects, Between
  <2>6. Between(s2)
    BY <1>4, <1>7 DEF Between
  <2>7. Emits(e, toServer[Sender], toClient[Sender], s2)
    BY <1>1, <1>4, <1>5, <2>5, <2>6
    DEF Emits, AtPrompt, AtFile, AtSending, AtChunk, AtGoodbye
  <2> QED
    BY <1>1, <1>2, <1>3, <1>4, <2>4, <2>7, SelectRest
<1> QED
  BY <1>6, <1>7

LEMMA GoodbyeStep ==
  ASSUME Types, Agree, NEW c \in Client, Goodbye(c)
  PROVE  Agree'
<1>0. em \in EmType /\ srv \in SrvType
  BY DEF Types
<1> PICK e \in EmType, s \in SrvType : e = em /\ s = srv
  BY <1>0
<1>1. /\ s.pc = "request" /\ s.turn = c /\ HasHeader(toServer[c])
      /\ HeaderOf(toServer[c]) = Header("FLW", c, SERVER_ID, toServer[c][4])
      /\ ReadAndSend(c, AfterHeader(toServer[c]), c,
                     Header("OK", SERVER_ID, c, toServer[c][4]))
      /\ srv' = [s EXCEPT !.pc = "select", !.registered = @ \ {c}]
      /\ em' = em /\ ex' = ex
  BY DEF Goodbye, Request, Srv
<1>2. /\ EmitterInv /\ TransferInv /\ ExhibitorInv /\ TurnInv /\ DeliveryInv /\ Alive
  BY DEF Agree, Relation
<1>3. PICK s2 : s2 = srv'
  OBVIOUS
<1>4. /\ s2.pc = "select" /\ s2.registered = s.registered \ {c} /\ s2.failure = s.failure
  BY <1>1, <1>3 DEF SrvType
<1>5. Emits(e, toServer[Sender], toClient[Sender], s)
  BY <1>2 DEF EmitterInv
<1>6. \A y \in Client : y # c => toServer'[y] = toServer[y] /\ toClient'[y] = toClient[y]
  BY <1>1 DEF ReadAndSend, Types
<1>7. /\ Sender \in Client /\ \A x \in Exhibitor : x \in Client /\ x # Sender
  BY Ids
<1>8. TransferInv' /\ TurnInv' /\ Alive'
  BY <1>2, <1>3, <1>4 DEF TransferInv, Transfers, InTransfer, TurnInv, Alive
<1>9. ExhibitorInv'
  <2>1. ASSUME NEW x \in Exhibitor
        PROVE  Exhibits(x, ex[x], toServer'[x], toClient'[x], s2, em.file_id, em.size)
    <3>1. Exhibits(x, ex[x], toServer[x], toClient[x], s, em.file_id, em.size)
      BY <1>2 DEF ExhibitorInv
    <3>2. CASE x = c
      <4>1. Leaving(ex[x])
        BY <1>1, <1>2, <1>7, <3>2 DEF TurnInv, SaysGoodbye, Leaving
      <4> QED
        BY <1>4, <3>2, <4>1 DEF Exhibits
    <3>3. CASE x # c
      <4>1. toServer'[x] = toServer[x] /\ toClient'[x] = toClient[x]
        BY <1>6, <1>7, <3>3
      <4> QED
        BY <1>1, <1>4, <3>1, <3>3, <4>1 DEF Exhibits, InTransfer
    <3> QED
      BY <3>2, <3>3
  <2> QED
    BY <1>1, <1>3, <2>1 DEF ExhibitorInv
<1>10. CASE c # Sender
  <2>1. toServer'[Sender] = toServer[Sender] /\ toClient'[Sender] = toClient[Sender]
    BY <1>6, <1>7, <1>10
  <2>2. \A n : Expects(s, n) => Expects(s2, n)
    BY <1>1, <1>4 DEF Expects, Between
  <2>3. Between(s2)
    BY <1>4 DEF Between
  <2>4. Sender \in s2.registered <=> Sender \in s.registered
    BY <1>4, <1>10
  <2>5. Emits(e, toServer[Sender], toClient[Sender], s2)
    BY <1>1, <1>4, <1>5, <2>2, <2>3, <2>4
    DEF Emits, AtPrompt, AtFile, AtSending, AtChunk, AtGoodbye
  <2>6. EmitterInv'
    BY <1>1, <1>3, <2>1, <2>5 DEF EmitterInv
  <2>7. DeliveryInv'
    BY <1>1, <1>2, <2>1 DEF DeliveryInv
  <2> QED
    BY <1>1, <1>8, <1>9, <2>6, <2>7, ServerMoves
<1>11. CASE c = Sender
  <2>1. /\ e.pc = "bye" /\ toClient[Sender] = <<>>
        /\ toServer[Sender] = Header("FLW", Sender, SERVER_ID, e.seq_number)
    <3>1. Request(Sender)
      BY <1>1, <1>11 DEF Request
    <3>2. ~Joins(toServer[Sender], Header("FILE", Sender, e.dst, e.seq_number), FileOf(e))
      <4>1. SUFFICES ASSUME Joins(toServer[Sender], Header("FILE", Sender, e.dst, e.seq_number),
                                  FileOf(e))
                     PROVE  FALSE
        OBVIOUS
      <4>2. e.dst \in Nat /\ e.seq_number \in Nat /\ Sender \in Nat /\ SERVER_ID \in Nat
        BY EmFields, Ids
      <4>3. HeaderOf(toServer[Sender]) = Header("FILE", Sender, e.dst, e.seq_number)
            /\ toServer[Sender][4] = e.seq_number
        BY <4>1, <4>2, TheFile DEF IsMessage
      <4>4. Header("FILE", Sender, e.dst, e.seq_number)
              = Header("FLW", Sender, SERVER_ID, e.seq_number)
        BY <1>1, <1>11, <4>3
      <4> QED
        <5>1. type_encoder["FILE"] = type_encoder["FLW"]
          BY <4>4 DEF Header
        <5> QED
          BY <5>1, Encoder
    <3> QED
      BY <3>1, <3>2, SenderAsks
  <2>2. toServer[Sender][4] = e.seq_number /\ AfterHeader(toServer[Sender]) = <<>>
    BY <2>1, EmitterAnswers DEF IsHeader
  <2>3. PICK words \in Words : words = OkTo(e)
    BY EmitterAnswers DEF IsHeader
  <2>4. ReadAndSend(Sender, <<>>, Sender, words)
    BY <1>1, <1>11, <2>2, <2>3 DEF OkTo
  <2>5. toServer'[Sender] = <<>> /\ toClient'[Sender] = words
    <3>1. ~Gone(Sender)
      BY <2>1 DEF Gone
    <3> QED
      BY <1>7, <2>1, <2>4, <3>1, ServerSends
  <2>6. Emits(e, <<>>, words, s2)
    <3>1. Between(s2) /\ Sender \notin s2.registered
      BY <1>4, <1>11 DEF Between
    <3> QED
      BY <2>1, <2>3, <3>1 DEF Emits, AtPrompt, AtFile, AtSending, AtChunk, AtGoodbye
  <2>7. EmitterInv'
    BY <1>1, <1>3, <2>5, <2>6 DEF EmitterInv
  <2>8. DeliveryInv'
    BY <1>1, <2>1 DEF DeliveryInv, Delivered
  <2> QED
    BY <1>1, <1>8, <1>9, <2>7, <2>8, ServerMoves
<1> QED
  BY <1>10, <1>11

LEMMA ServerStep ==
  ASSUME Types, Agree, Server, ~srv'.gaveUp
  PROVE  Agree'
BY NothingStrange, FileRequestStep, RelayChunkStep, RelayAnsweredStep, SelectStep, GoodbyeStep
DEF Server

-----------------------------------------------------------------------------
(* The invariant holds *)

LEMMA Initially == ASSUME Init PROVE Agree /\ BrokenOff
<1>1. /\ em.pc = "prompt" /\ em.reported = {} /\ em.brokeOff = FALSE
      /\ srv.pc = "select" /\ srv.registered = Client /\ srv.failure = "none"
      /\ \A c \in Client : toServer[c] = <<>> /\ toClient[c] = <<>>
      /\ \A x \in Exhibitor : ex[x].pc = "main" /\ ex[x].written = {}
  BY DEF Init
<1>2. Sender \in Client /\ \A x \in Exhibitor : x \in Client
  BY Ids
<1>3. EmitterInv
  BY <1>1, <1>2
  DEF EmitterInv, Emits, AtPrompt, AtFile, AtSending, AtChunk, AtGoodbye, Between
<1>4. ExhibitorInv
  BY <1>1, <1>2 DEF ExhibitorInv, Exhibits, InTransfer, Free
<1>5. TransferInv /\ TurnInv /\ DeliveryInv /\ SavingInv /\ Alive
  BY <1>1 DEF TransferInv, Transfers, InTransfer, TurnInv, DeliveryInv, Delivered, SavingInv,
     Alive
<1>6. Written /\ Reported /\ BrokenOff
  BY <1>1 DEF Written, Reported, BrokenOff
<1> QED
  BY <1>3, <1>4, <1>5, <1>6 DEF Agree, Relation

\* Once disturbed, the transfers stay disturbed.
LEMMA StaysDisturbed ==
  ASSUME Types, BrokenOff, Next
  PROVE  /\ BrokenOff' /\ (Undisturbed' => Undisturbed)
<1>1. em \in EmType /\ srv \in SrvType
  BY DEF Types
<1>2. CASE Emitter \/ SendFile \/ CommandRaises \/ EmitterLeaves
  <2>1. srv' = srv /\ ex' = ex
    BY <1>2, EmitterFrame
  <2>2. BrokenOff' /\ (~em'.brokeOff => ~em.brokeOff)
    BY <1>1, <1>2 DEF Emitter, SendChunk, Report, GetReply, EmitterGoodbye, EmitterLost,
       SendFile, PackRaises, CommandRaises, Raise, EmitterLeaves, Em, BrokenOff, EmType
  <2> QED
    BY <2>1, <2>2 DEF Undisturbed
<1>3. ASSUME NEW x \in Exhibitor, Displayer(x) \/ ExhibitorLeaves(x)
      PROVE  BrokenOff' /\ (Undisturbed' => Undisturbed)
  <2>1. em' = em /\ srv' = srv /\ \A y \in Exhibitor : y # x => ex'[y] = ex[y]
    BY <1>3, ExhibitorFrame
  <2>2. ex[x].pc # "unsaved"
    BY <1>3 DEF Displayer, ReadFile, ReadChunk, AnswerOk, Save, ReadOther, ExhibitorGoodbye,
       ExhibitorLost, ExhibitorLeaves
  <2> QED
    BY <2>1, <2>2 DEF BrokenOff, Undisturbed
<1>4. ASSUME NEW x \in Exhibitor, SaveRaises(x)
      PROVE  BrokenOff' /\ ~Undisturbed'
  <2>1. em' = em /\ ex'[x].pc = "unsaved"
    BY <1>4 DEF SaveRaises, Ex, Types, ExType
  <2> QED
    BY <2>1 DEF BrokenOff, Undisturbed
<1>5. CASE Server
  <2>1. \A job \in SrvType : \A c, rest : Relay(job, c, rest) => em' = em /\ srv'.gaveUp = job.gaveUp
    BY DEF Relay, Srv, SrvType
  <2>2. em' = em /\ (~srv'.gaveUp => ~srv.gaveUp)
    <3>1. CASE FileRequest
      <4>1. CASE Srv([srv EXCEPT !.pc = "select"])
        BY <1>1, <4>1 DEF Srv, SrvType
      <4>2. CASE ~Srv([srv EXCEPT !.pc = "select"])
        <5>1. PICK job, rest :
                /\ job \in SrvType /\ job.gaveUp = srv.gaveUp
                /\ Relay(job, Sender, rest)
          <6>1. PICK s, to : s = toServer[Sender] /\ to = send_to_list(s[3])
            OBVIOUS
          <6>2. PICK job : job = [srv EXCEPT !.type = "FILE", !.seq_number = s[4],
                                    !.body = BodyOf(s), !.n_chunks = s[6],
                                    !.send_to_list = to, !.left = to]
            OBVIOUS
          <6>3. HasBody(s) /\ Relay(job, Sender, AfterBody(s))
            BY <3>1, <4>2, <6>1, <6>2 DEF FileRequest
          <6>4. s \in Words
            BY <6>1, Ids DEF Types
          <6>5. /\ s[4] \in Nat /\ s[6] \in Nat /\ BodyOf(s) \in Words
                /\ to \in SUBSET Client
            <7>1. HasHeader(s) /\ s[6] \in Nat /\ BodyOf(s) \in Words
              BY <6>3, <6>4, BodyTypes
            <7>2. s[4] \in Nat
              BY <6>4, <7>1, HeaderTypes
            <7>3. to \in SUBSET Client
              BY <1>1, <6>1, SrvFields DEF send_to_list
            <7> QED
              BY <7>1, <7>2, <7>3
          <6>6. job \in SrvType /\ job.gaveUp = srv.gaveUp
            BY <1>1, <6>2, <6>5 DEF SrvType
          <6> QED
            BY <6>3, <6>6
        <5> QED
          BY <2>1, <5>1
      <4> QED
        BY <4>1, <4>2
    <3>2. CASE RelayChunk
      <4>1. PICK s : s = toServer[Sender]
        OBVIOUS
      <4>2. PICK job :
              /\ job = [srv EXCEPT !.type = "FILE_CHUNK", !.seq_number = s[4],
                          !.body = BodyOf(s), !.n_chunks = @ - 1, !.left = srv.send_to_list]
              /\ srv.pc = "chunk" /\ HasBody(s) /\ Relay(job, Sender, AfterBody(s))
        BY <3>2, <4>1 DEF RelayChunk
      <4>3. em' = em /\ srv'.gaveUp = srv.gaveUp
        BY <1>1, <4>2 DEF Relay, Srv, SrvType
      <4> QED
        BY <4>3
    <3>3. CASE RelayAnswered
      <4>1. CASE Srv([srv EXCEPT !.pc = "select", !.gaveUp = TRUE])
        BY <1>1, <4>1 DEF Srv, SrvType
      <4>2. CASE Relay(srv, srv.at, AfterHeader(toServer[srv.at]))
        BY <1>1, <2>1, <4>2
      <4> QED
        BY <3>3, <4>1, <4>2 DEF RelayAnswered
    <3>4. CASE RefuseRequest \/ ConnectionLost \/ UnknownType
      BY <1>1, <3>4 DEF RefuseRequest, ConnectionLost, UnknownType, Crash, Srv, SrvType
    <3>5. ASSUME NEW c \in Client, Select(c) \/ Goodbye(c)
          PROVE  em' = em /\ srv'.gaveUp = srv.gaveUp
      BY <1>1, <3>5 DEF Select, Goodbye, Srv, SrvType
    <3> QED
      BY <1>5, <3>1, <3>2, <3>3, <3>4, <3>5 DEF Server
  <2>3. ex' = ex
    BY <1>5 DEF Server, RefuseRequest, FileRequest, RelayChunk, RelayAnswered, ConnectionLost,
       UnknownType, Select, Goodbye, Relay, Crash, Srv
  <2> QED
    BY <2>2, <2>3 DEF BrokenOff, Undisturbed
<1> QED
  BY <1>2, <1>3, <1>5, <1>4 DEF Next

LEMMA IInvStep == ASSUME IInv, [Next]_vars PROVE IInv'
<1>1. Types /\ BrokenOff /\ (Undisturbed => Agree)
  BY Conditions DEF IInv, Agree
<1>2. Types'
  BY <1>1, TypesStep
<1>3. CASE Next
  <2>1. BrokenOff' /\ (Undisturbed' => Undisturbed)
    BY <1>1, <1>3, StaysDisturbed
  <2>2. ASSUME Undisturbed' PROVE Agree'
    <3>1. Agree /\ ~em'.brokeOff /\ ~srv'.gaveUp
      BY <1>1, <2>1, <2>2 DEF Undisturbed
    <3>2. \A x \in Exhibitor : ~SaveRaises(x)
      BY <1>1, <2>2 DEF Undisturbed, SaveRaises, Ex, Types, ExType
    <3> QED
      BY <1>1, <1>2, <1>3, <3>1, <3>2, EmitterStep, ExhibitorStep, ServerStep DEF Next
  <2>3. (Undisturbed' => Relation') /\ WrittenIsSent' /\ ReportedIsReceived'
    <3>1. (Undisturbed => Agree)' => (Undisturbed => Relation)' /\ WrittenIsSent' /\ ReportedIsReceived'
      BY DEF WrittenIsSent, ReportedIsReceived, Written, Reported, Cut, Leaving, Whole, HasFile,
         Agree
    <3> QED
      BY <2>2, <3>1
  <2> QED
    BY <1>2, <2>1, <2>3 DEF IInv
<1>4. CASE UNCHANGED vars
  BY <1>4 DEF vars, IInv, Types, BrokenOff, Undisturbed, WrittenIsSent, ReportedIsReceived, HasFile,
     Relation, EmitterInv, TransferInv, ExhibitorInv, TurnInv, DeliveryInv, SavingInv, Alive
<1> QED
  BY <1>3, <1>4

LEMMA Invariance == Spec => []IInv
<1>1. Init => IInv
  <2>1. SUFFICES ASSUME Init PROVE IInv
    OBVIOUS
  <2> QED
    BY <2>1, InitTypes, Initially, Conditions DEF IInv, Agree
<1>2. IInv /\ [Next]_vars => IInv'
  BY IInvStep
<1> QED
  BY <1>1, <1>2, PTL DEF Spec

-----------------------------------------------------------------------------
(* What the transfers promise *)

\* What an exhibitor joins from FILE and FILE_CHUNK and writes is a file that the emitter
\* cut, whole and in order, as long as Undisturbed holds: for any exhibitors, any of them
\* leaving at any time, and any sizes of files and chunks.
THEOREM WrittenFilesAreSent == Spec => []WrittenIsSent
<1>1. IInv => WrittenIsSent
  BY DEF IInv
<1> QED
  BY <1>1, Invariance, PTL

\* A file the emitter reports as sent is with every exhibitor it was for that is not
\* leaving, though the emitter only counts chunks.
THEOREM ReportedFilesArrived == Spec => []ReportedIsReceived
<1>1. IInv => ReportedIsReceived
  BY DEF IInv
<1> QED
  BY <1>1, Invariance, PTL

\* Words of an answer are there for the emitter only while it waits for them, and never
\* those of a second answer.
THEOREM OneAnswerAtATime == Spec => []InStep
<1>1. IInv => InStep
  <2>1. SUFFICES ASSUME IInv, Undisturbed, toClient[Sender] # <<>>
                 PROVE  em.pc \in {"file", "chunk", "bye"} /\ Len(toClient[Sender]) = 4
    BY DEF InStep
  <2>2. em \in EmType /\ Emits(em, toServer[Sender], toClient[Sender], srv)
    BY <2>1 DEF IInv, Types, Relation, EmitterInv
  <2>3. em.pc \in {"prompt", "file", "sending", "chunk", "bye", "left", "failed"}
    BY <2>2 DEF EmType
  <2>4. /\ em.pc \in {"file", "chunk", "bye"}
        /\ toClient[Sender] = OkTo(em) \/ toClient[Sender] = Erro(em.seq_number)
    BY <2>1, <2>2, <2>3 DEF Emits, AtPrompt, AtFile, AtSending, AtChunk, AtGoodbye
  <2> QED
    BY <2>2, <2>4, EmitterAnswers DEF IsHeader
<1> QED
  BY <1>1, Invariance, PTL

\* Exhibitors that leave, at any point of a transfer, do not end the server: only a
\* failed relay, an emitter that breaks off a transfer, or an exhibitor that cannot write
\* its file may.
THEOREM TransfersAreSurvived == Spec => []SurvivesTransfers
<1>1. IInv => SurvivesTransfers
  BY DEF IInv, Relation, Alive, SurvivesTransfers
<1> QED
  BY <1>1, Invariance, PTL
=============================================================================

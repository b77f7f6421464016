-------------------------- MODULE FileTransferProofs --------------------------
(***************************************************************************)
(* Proofs about FileTransfer, for any exhibitors and any sizes of files    *)
(* and chunks: what is put together from words comes apart again, the      *)
(* chunks of a file join to the file, and the variables keep their types.  *)
(***************************************************************************)
EXTENDS FileTransfer, SequenceTheorems, TLAPS

-----------------------------------------------------------------------------
(* The types of the variables *)

EmType ==
  [pc : {"prompt", "file", "sending", "chunk", "bye", "left", "failed"},
   seq_number : Nat, file_id : Nat, chunk_id : Nat, size : FileSize \cup {0},
   dst : Exhibitor \cup {Zero}, tries : 0..MaxFiles, brokeOff : BOOLEAN,
   reported : SUBSET [id : Nat, size : FileSize, dst : Exhibitor \cup {Zero}]]

ExType ==
  [pc : {"main", "answer", "chunks", "save", "bye", "left", "failed", "unsaved"},
   seq_number : Nat, missing : Nat, chunks : Words, written : SUBSET Words]

SrvType ==
  [pc : {"select", "request", "chunk", "relay", "crashed"}, turn : Client,
   registered : SUBSET Client, failure : {"none", "RuntimeError", "KeyError"},
   type : {"FILE", "FILE_CHUNK"}, seq_number : Nat, body : Words, n_chunks : Nat,
   send_to_list : SUBSET Client, at : Client, left : SUBSET Client,
   gaveUp : BOOLEAN]

Types ==
  /\ toServer \in [Client -> Words] /\ toClient \in [Client -> Words]
  /\ em \in EmType /\ ex \in [Exhibitor -> ExType] /\ srv \in SrvType
  /\ em.pc \in {"file", "sending", "chunk"} => em.size \in FileSize
  /\ \A x \in Exhibitor : ex[x].pc = "chunks" => ex[x].missing > 0
  /\ srv.left \subseteq srv.send_to_list
  /\ srv.pc = "chunk" => srv.n_chunks > 0

-----------------------------------------------------------------------------
(* Words *)

LEMMA Encoder ==
  /\ \A t \in DOMAIN type_encoder : type_encoder[t] \in Nat
  /\ {"OK", "ERRO", "OI", "FLW", "CLIST", "FILE", "FILE_CHUNK"} \subseteq DOMAIN type_encoder
  /\ type_encoder["OK"] = 1 /\ type_encoder["ERRO"] = 2 /\ type_encoder["OI"] = 3
  /\ type_encoder["FLW"] = 4 /\ type_encoder["CLIST"] = 7
  /\ type_encoder["FILE"] = 8 /\ type_encoder["FILE_CHUNK"] = 9
BY DEF type_encoder

LEMMA HeaderWords ==
  ASSUME NEW t \in DOMAIN type_encoder, NEW src \in Nat, NEW dst \in Nat, NEW seq \in Nat
  PROVE  /\ Header(t, src, dst, seq) \in Words /\ Len(Header(t, src, dst, seq)) = 4
         /\ Header(t, src, dst, seq)[1] = type_encoder[t]
         /\ Header(t, src, dst, seq)[2] = src /\ Header(t, src, dst, seq)[3] = dst
         /\ Header(t, src, dst, seq)[4] = seq
BY Encoder DEF Header, Words

LEMMA ConcatWords ==
  ASSUME NEW s \in Words, NEW t \in Words
  PROVE  /\ s \o t \in Words /\ Len(s \o t) = Len(s) + Len(t)
         /\ Len(s) \in Nat /\ Len(t) \in Nat
         /\ \A i \in 1..Len(s) : (s \o t)[i] = s[i]
         /\ \A i \in 1..Len(t) : (s \o t)[Len(s) + i] = t[i]
<1>1. s \in Seq(Nat) /\ t \in Seq(Nat)
  BY DEF Words
<1>2. /\ s \o t \in Seq(Nat) /\ Len(s \o t) = Len(s) + Len(t)
      /\ \A i \in 1..Len(s) + Len(t) : (s \o t)[i] = IF i <= Len(s) THEN s[i] ELSE t[i - Len(s)]
  BY <1>1, ConcatProperties, Zenon
<1>3. Len(s) \in Nat /\ Len(t) \in Nat
  BY <1>1, LenProperties
<1>4. ASSUME NEW i \in 1..Len(s) PROVE (s \o t)[i] = s[i]
  BY <1>2, <1>3
<1>5. ASSUME NEW i \in 1..Len(t) PROVE (s \o t)[Len(s) + i] = t[i]
  <2>1. /\ Len(s) + i \in 1..Len(s) + Len(t) /\ ~(Len(s) + i <= Len(s))
        /\ (Len(s) + i) - Len(s) = i
    BY <1>3
  <2> QED
    BY <1>2, <2>1
<1> QED
  BY <1>2, <1>3, <1>4, <1>5 DEF Words

LEMMA SubWords ==
  ASSUME NEW s \in Words, NEW m \in 1..Len(s) + 1, NEW n \in m - 1..Len(s)
  PROVE  /\ SubSeq(s, m, n) \in Words /\ Len(SubSeq(s, m, n)) = n - m + 1
         /\ \A i \in 1..n - m + 1 : SubSeq(s, m, n)[i] = s[m + i - 1]
<1>1. s \in Seq(Nat) /\ Len(s) \in Nat
  BY LenProperties DEF Words
<1>2. m \in Int /\ n \in Int /\ m >= 1 /\ n <= Len(s) /\ n >= m - 1
  BY <1>1
<1>3. \A i \in m..n : s[i] \in Nat
  <2>1. \A i \in m..n : i \in 1..Len(s)
    BY <1>1, <1>2
  <2> QED
    BY <1>1, <2>1, ElementOfSeq
<1>4. /\ SubSeq(s, m, n) \in Seq(Nat)
      /\ Len(SubSeq(s, m, n)) = IF m <= n THEN n - m + 1 ELSE 0
      /\ \A i \in 1..n - m + 1 : SubSeq(s, m, n)[i] = s[m + i - 1]
  <2> PICK r : r = Len(s)
    OBVIOUS
  <2> HIDE <1>1
  <2> QED
    BY <1>2, <1>3, SubSeqProperties
<1>5. n - m + 1 = IF m <= n THEN n - m + 1 ELSE 0
  BY <1>2
<1> QED
  BY <1>4, <1>5 DEF Words

\* What was put together comes apart again.
LEMMA PartsOfConcat ==
  ASSUME NEW s \in Words, NEW t \in Words
  PROVE  /\ SubSeq(s \o t, 1, Len(s)) = s
         /\ SubSeq(s \o t, Len(s) + 1, Len(s \o t)) = t
<1> PICK u : u = s \o t
  OBVIOUS
<1>1. /\ u \in Words /\ Len(u) = Len(s) + Len(t) /\ Len(s) \in Nat /\ Len(t) \in Nat
      /\ \A i \in 1..Len(s) : u[i] = s[i]
      /\ \A i \in 1..Len(t) : u[Len(s) + i] = t[i]
  BY ConcatWords
<1>2. SubSeq(u, 1, Len(s)) = s
  <2>1. 1 \in 1..Len(u) + 1 /\ Len(s) \in 1 - 1..Len(u)
    BY <1>1
  <2>2. /\ SubSeq(u, 1, Len(s)) \in Words /\ Len(SubSeq(u, 1, Len(s))) = Len(s) - 1 + 1
        /\ \A i \in 1..Len(s) - 1 + 1 : SubSeq(u, 1, Len(s))[i] = u[1 + i - 1]
    BY <1>1, <2>1, SubWords, Zenon
  <2>3. Len(s) - 1 + 1 = Len(s) /\ \A i \in 1..Len(s) : 1 + i - 1 = i
    BY <1>1
  <2>4. \A i \in 1..Len(s) : SubSeq(u, 1, Len(s))[i] = s[i]
    BY <1>1, <2>2, <2>3
  <2> QED
    BY <2>2, <2>3, <2>4, SeqEqual DEF Words
<1>3. SubSeq(u, Len(s) + 1, Len(u)) = t
  <2> PICK m, n : m = Len(s) + 1 /\ n = Len(u)
    OBVIOUS
  <2>1. m \in 1..Len(u) + 1 /\ n \in m - 1..Len(u)
    BY <1>1
  <2>2. /\ SubSeq(u, m, n) \in Words /\ Len(SubSeq(u, m, n)) = n - m + 1
        /\ \A i \in 1..n - m + 1 : SubSeq(u, m, n)[i] = u[m + i - 1]
    BY <1>1, <2>1, SubWords, Zenon
  <2>3. n - m + 1 = Len(t) /\ \A i \in 1..Len(t) : m + i - 1 = Len(s) + i
    BY <1>1
  <2>4. \A i \in 1..Len(t) : SubSeq(u, m, n)[i] = t[i]
    BY <1>1, <2>2, <2>3
  <2> QED
    BY <2>2, <2>3, <2>4, SeqEqual DEF Words
<1> QED
  BY <1>2, <1>3

\* A header, and what follows it.
LEMMA ReadHeader ==
  ASSUME NEW h \in Words, Len(h) = 4, NEW rest \in Words
  PROVE  /\ h \o rest \in Words /\ HasHeader(h \o rest) /\ HeaderOf(h \o rest) = h
         /\ AfterHeader(h \o rest) = rest
         /\ \A i \in 1..4 : (h \o rest)[i] = h[i]
<1>1. /\ h \o rest \in Words /\ Len(h \o rest) >= 4
      /\ \A i \in 1..4 : (h \o rest)[i] = h[i]
  <2> PICK u : u = h \o rest
    OBVIOUS
  <2>1. /\ u \in Words /\ Len(u) = Len(h) + Len(rest) /\ Len(rest) \in Nat
        /\ \A i \in 1..Len(h) : u[i] = h[i]
    BY ConcatWords, Zenon
  <2> QED
    BY <2>1
<1>2. SubSeq(h \o rest, 1, 4) = h /\ SubSeq(h \o rest, 4 + 1, Len(h \o rest)) = rest
  BY PartsOfConcat
<1> QED
  BY <1>1, <1>2 DEF HasHeader, HeaderOf, AfterHeader

LEMMA ReadOnlyHeader ==
  ASSUME NEW h \in Words, Len(h) = 4
  PROVE  HasHeader(h) /\ HeaderOf(h) = h /\ AfterHeader(h) = <<>> /\ h # <<>>
<1>1. h \o <<>> = h /\ <<>> \in Words
  BY ConcatEmptySeq DEF Words
<1>2. HasHeader(h) /\ HeaderOf(h) = h /\ AfterHeader(h) = <<>>
  BY <1>1, ReadHeader
<1> QED
  BY <1>2

LEMMA NothingToRead == ~HasHeader(<<>>) /\ ~HasBody(<<>>)
BY DEF HasHeader, HasBody

\* u is s and then t.
Parts(u, s, t) ==
  /\ u \in Words /\ Len(u) = Len(s) + Len(t)
  /\ \A i \in 1..Len(s) : u[i] = s[i]
  /\ \A i \in 1..Len(t) : u[Len(s) + i] = t[i]
  /\ SubSeq(u, 1, Len(s)) = s /\ SubSeq(u, Len(s) + 1, Len(u)) = t

LEMMA ConcatParts ==
  ASSUME NEW s \in Words, NEW t \in Words
  PROVE  Parts(s \o t, s, t)
BY ConcatWords, PartsOfConcat, Zenon DEF Parts

LEMMA BodyParts ==
  ASSUME NEW h \in Words, NEW b \in Words, NEW data \in Words,
         NEW body \in Words, NEW hb \in Words, NEW s \in Words,
         Len(h) = 4, Len(b) = 3, b[3] = Len(data), Len(data) \in Nat,
         Parts(body, b, data), Parts(hb, h, b), Parts(s, h, body), Parts(s, hb, data)
  PROVE  /\ HasHeader(s) /\ HasBody(s) /\ HeaderOf(s) = h
         /\ BodyOf(s) = body /\ DataOf(s) = data /\ AfterBody(s) = <<>>
         /\ \A i \in 1..4 : s[i] = h[i]
         /\ s[5] = b[1] /\ s[6] = b[2]
<1>1. /\ Len(body) = 3 + Len(data) /\ Len(hb) = 7 /\ Len(s) = 7 + Len(data)
      /\ 1 \in 1..Len(b) /\ 2 \in 1..Len(b) /\ 3 \in 1..Len(b)
      /\ 1 \in 1..Len(body) /\ 2 \in 1..Len(body) /\ 3 \in 1..Len(body)
  BY DEF Parts
<1>2. body[1] = b[1] /\ body[2] = b[2] /\ body[3] = Len(data)
  BY <1>1, Zenon DEF Parts
<1>3. s[4 + 1] = body[1] /\ s[4 + 2] = body[2] /\ s[4 + 3] = body[3]
  BY <1>1, ZenonT(40) DEF Parts
<1>4. s[5] = b[1] /\ s[6] = b[2] /\ s[7] = Len(data)
  BY <1>2, <1>3
<1>5. HeaderOf(s) = h /\ \A i \in 1..4 : s[i] = h[i]
  BY Zenon DEF Parts, HeaderOf
<1>6. SubSeq(s, 4 + 1, Len(s)) = body
  BY Zenon DEF Parts
<1>7. BodyOf(s) = body
  BY <1>1, <1>4, <1>6 DEF BodyOf
<1>8. SubSeq(s, 7 + 1, Len(s)) = data
  BY <1>1, Zenon DEF Parts
<1>9. DataOf(s) = data
  BY <1>1, <1>4, <1>8 DEF DataOf
<1>10. AfterBody(s) = <<>>
  <2>1. 8 + Len(data) \in Int /\ 7 + Len(data) \in Int /\ 7 + Len(data) < 8 + Len(data)
    OBVIOUS
  <2>2. SubSeq(s, 8 + Len(data), 7 + Len(data)) = <<>>
    BY <2>1, SubSeqEmpty
  <2> QED
    BY <1>1, <1>4, <2>2 DEF AfterBody
<1>11. HasHeader(s) /\ HasBody(s)
  BY <1>1, <1>4 DEF HasHeader, HasBody
<1> QED
  BY <1>4, <1>5, <1>7, <1>9, <1>10, <1>11

\* u is put together from s and t.
Joins(u, s, t) == u = s \o t

\* A header and a body, all of which is read together.
LEMMA ReadBody ==
  ASSUME NEW h \in Words, Len(h) = 4, NEW b \in Words, Len(b) = 3,
         NEW data \in Words, b[3] = Len(data),
         NEW body, Joins(body, b, data), NEW s, Joins(s, h, body)
  PROVE  /\ body \in Words /\ s \in Words
         /\ HasHeader(s) /\ HasBody(s) /\ HeaderOf(s) = h
         /\ BodyOf(s) = body /\ DataOf(s) = data /\ AfterBody(s) = <<>>
         /\ \A i \in 1..4 : s[i] = h[i]
         /\ s[5] = b[1] /\ s[6] = b[2]
<1>1. h \in Seq(Nat) /\ b \in Seq(Nat) /\ data \in Seq(Nat)
  BY DEF Words
<1>2. PICK hb : hb = h \o b
  OBVIOUS
<1>3. hb \o data = s
  <2>1. (h \o b) \o data = h \o (b \o data)
    BY <1>1, ConcatAssociative
  <2> QED
    BY <1>2, <2>1, Zenon DEF Joins
<1>4. body \in Words /\ hb \in Words /\ Len(data) \in Nat
  BY <1>2, ConcatWords, Zenon DEF Joins
<1>5. s \in Words
  BY <1>4, ConcatWords, Zenon DEF Joins
<1>6. Parts(body, b, data) /\ Parts(hb, h, b) /\ Parts(s, h, body) /\ Parts(s, hb, data)
  BY <1>2, <1>3, <1>4, ConcatParts, Zenon DEF Joins
<1>7. /\ HasHeader(s) /\ HasBody(s) /\ HeaderOf(s) = h
      /\ BodyOf(s) = body /\ DataOf(s) = data /\ AfterBody(s) = <<>>
      /\ \A i \in 1..4 : s[i] = h[i]
      /\ s[5] = b[1] /\ s[6] = b[2]
  BY <1>4, <1>5, <1>6, BodyParts, SMTT(30)
<1> QED
  BY <1>4, <1>5, <1>7, Zenon

-----------------------------------------------------------------------------
(* Chunks *)

LEMMA ContentWords ==
  ASSUME NEW f \in Nat, NEW size \in Nat
  PROVE  Content(f, size) \in Words /\ Len(Content(f, size)) = size
<1>1. \A i \in 1..size : 100 * (f + 1) + i \in Nat
  OBVIOUS
<1>2. Content(f, size) \in [1..size -> Nat]
  BY <1>1 DEF Content
<1> QED
  BY <1>2 DEF Words

\* Where the chunks end: in the file, and the last one at its end.
LEMMA ChunkBounds ==
  ASSUME NEW size \in Nat
  PROVE  /\ NumChunks(size) \in Nat
         /\ \A k \in Nat : k < NumChunks(size) => k * MAX_CHUNK_SIZE < size
         /\ NumChunks(size) * MAX_CHUNK_SIZE >= size
<1> PICK m : m = MAX_CHUNK_SIZE
  OBVIOUS
<1>1. m \in Nat /\ m > 0
  BY TransferAssumption
<1> PICK q, r : q = size \div m /\ r = size % m
  OBVIOUS
<1>2. q \in Nat /\ r \in Nat /\ r < m /\ size = m * q + r
  BY <1>1
<1>3. NumChunks(size) = q + (IF r # 0 THEN 1 ELSE 0)
  BY DEF NumChunks
<1>4. ASSUME NEW k \in Nat, k < NumChunks(size) PROVE k * m < size
  <2>1. CASE k < q
    <3>1. PICK d \in Nat : q = k + 1 + d
      <4>1. q - (k + 1) \in Nat /\ q = k + 1 + (q - (k + 1))
        BY <1>2, <2>1
      <4> QED
        BY <4>1
    <3>2. m * q = k * m + m + m * d /\ m * d \in Nat /\ k * m \in Nat
      BY <1>1, <3>1
    <3> QED
      BY <1>1, <1>2, <3>2
  <2>2. CASE k = q /\ r # 0
    <3>1. m * q = k * m /\ k * m \in Nat
      BY <1>1, <2>2
    <3> QED
      BY <1>2, <2>2, <3>1
  <2> QED
    BY <1>2, <1>3, <1>4, <2>1, <2>2
<1>5. NumChunks(size) * m >= size
  <2>1. CASE r = 0
    <3>1. NumChunks(size) = q
      BY <1>2, <1>3, <2>1
    <3> QED
      BY <1>1, <1>2, <2>1, <3>1
  <2>2. CASE r # 0
    <3>1. NumChunks(size) = q + 1
      BY <1>3, <2>2
    <3>2. (q + 1) * m = m * q + m /\ m * q \in Nat
      BY <1>1, <1>2
    <3> QED
      BY <1>1, <1>2, <3>1, <3>2
  <2> QED
    BY <2>1, <2>2
<1> QED
  BY <1>2, <1>3, <1>4, <1>5

\* The words of the first k chunks.
Upto(size, k) == IF k * MAX_CHUNK_SIZE < size THEN k * MAX_CHUNK_SIZE ELSE size

LEMMA UptoBounds ==
  ASSUME NEW size \in Nat, NEW k \in Nat
  PROVE  Upto(size, k) \in Nat /\ Upto(size, k) <= size /\ k * MAX_CHUNK_SIZE \in Nat
<1>1. k * MAX_CHUNK_SIZE \in Nat
  BY TransferAssumption
<1> QED
  BY <1>1 DEF Upto

LEMMA UptoEnds ==
  ASSUME NEW size \in Nat
  PROVE  Upto(size, 0) = 0 /\ Upto(size, NumChunks(size)) = size
<1>1. 0 * MAX_CHUNK_SIZE = 0
  BY TransferAssumption
<1>2. /\ NumChunks(size) * MAX_CHUNK_SIZE >= size
      /\ NumChunks(size) * MAX_CHUNK_SIZE \in Nat
  BY ChunkBounds, UptoBounds
<1>3. Upto(size, 0) = 0
  BY <1>1 DEF Upto
<1>4. Upto(size, NumChunks(size)) = size
  BY <1>2 DEF Upto
<1> QED
  BY <1>3, <1>4

LEMMA ContentOfNothing == ASSUME NEW f PROVE Content(f, 0) = <<>>
BY DEF Content

\* Joined to the words of the chunks before it, a chunk makes the words of one chunk more.
LEMMA JoinChunk ==
  ASSUME NEW f \in Nat, NEW size \in Nat, NEW k \in Nat, k < NumChunks(size)
  PROVE  /\ Chunk(f, size, k) \in Words
         /\ Joins(Content(f, Upto(size, k + 1)), Content(f, Upto(size, k)), Chunk(f, size, k))
<1>0. PICK p, e : p = Upto(size, k) /\ e = Upto(size, k + 1)
  OBVIOUS
<1>1. /\ p = k * MAX_CHUNK_SIZE /\ p \in Nat /\ p < size
      /\ e = IF p + MAX_CHUNK_SIZE < size THEN p + MAX_CHUNK_SIZE ELSE size
      /\ e \in Nat /\ p <= e /\ e <= size
  <2>1. MAX_CHUNK_SIZE \in Nat /\ MAX_CHUNK_SIZE > 0
    BY TransferAssumption
  <2>2. k * MAX_CHUNK_SIZE < size /\ k * MAX_CHUNK_SIZE \in Nat
    BY ChunkBounds, UptoBounds
  <2>3. (k + 1) * MAX_CHUNK_SIZE = k * MAX_CHUNK_SIZE + MAX_CHUNK_SIZE
    BY <2>1
  <2>4. p = k * MAX_CHUNK_SIZE
    BY <1>0, <2>2 DEF Upto
  <2>5. e = IF p + MAX_CHUNK_SIZE < size THEN p + MAX_CHUNK_SIZE ELSE size
    BY <1>0, <2>3, <2>4 DEF Upto
  <2> HIDE <2>3
  <2> QED
    BY <2>1, <2>2, <2>4, <2>5
<1>2. Chunk(f, size, k) = SubSeq(Content(f, size), p + 1, e)
  BY <1>1 DEF Chunk
<1>3. /\ Content(f, p) \in Words /\ Len(Content(f, p)) = p
      /\ Content(f, e) \in Words /\ Len(Content(f, e)) = e
      /\ Content(f, size) \in Words /\ Len(Content(f, size)) = size
      /\ \A i \in 1..p : Content(f, p)[i] = Content(f, e)[i]
      /\ \A i \in 1..e : Content(f, e)[i] = Content(f, size)[i]
  <2>1. /\ Content(f, p) \in Words /\ Len(Content(f, p)) = p
        /\ Content(f, e) \in Words /\ Len(Content(f, e)) = e
        /\ Content(f, size) \in Words /\ Len(Content(f, size)) = size
    BY <1>1, ContentWords, Zenon
  <2>2. \A n : \A i \in 1..n : Content(f, n)[i] = 100 * (f + 1) + i
    BY DEF Content
  <2>3. \A i \in 1..p : i \in 1..e
    BY <1>1
  <2>4. \A i \in 1..e : i \in 1..size
    BY <1>1
  <2>5. \A i \in 1..p : Content(f, p)[i] = Content(f, e)[i]
    BY <2>2, <2>3, Zenon
  <2>6. \A i \in 1..e : Content(f, e)[i] = Content(f, size)[i]
    BY <2>2, <2>4, Zenon
  <2> QED
    BY <2>1, <2>5, <2>6, Zenon
<1>c. PICK c : c = Chunk(f, size, k)
  OBVIOUS
<1>4. /\ c \in Words /\ Len(c) = e - p
      /\ \A i \in 1..e - p : c[i] = Content(f, size)[p + i]
  <2>0. PICK g, m : g = Content(f, size) /\ m = p + 1
    OBVIOUS
  <2>1. g \in Words /\ m \in 1..Len(g) + 1 /\ e \in m - 1..Len(g)
    BY <1>1, <1>3, <2>0
  <2>2. /\ SubSeq(g, m, e) \in Words /\ Len(SubSeq(g, m, e)) = e - m + 1
        /\ \A i \in 1..e - m + 1 : SubSeq(g, m, e)[i] = g[m + i - 1]
    BY <2>1, SubWords, Zenon
  <2>3. e - m + 1 = e - p /\ \A i \in 1..e - p : m + i - 1 = p + i
    BY <1>1, <2>0
  <2>4. SubSeq(g, m, e) = c
    BY <1>2, <1>c, <2>0
  <2>5. \A i \in 1..e - p : c[i] = g[p + i]
    BY <2>2, <2>3, <2>4
  <2> QED
    BY <2>0, <2>2, <2>3, <2>4, <2>5
<1>u. PICK u : u = Content(f, p) \o c
  OBVIOUS
<1>5. /\ u \in Words /\ Len(u) = e
      /\ \A i \in 1..p : u[i] = Content(f, p)[i]
      /\ \A i \in 1..e - p : u[p + i] = c[i]
  <2>1. Parts(u, Content(f, p), c)
    BY <1>3, <1>4, <1>u, ConcatParts, Zenon
  <2>2. p + (e - p) = e
    BY <1>1
  <2> QED
    BY <1>3, <1>4, <2>1, <2>2, Zenon DEF Parts
<1>6. ASSUME NEW i \in 1..e PROVE u[i] = Content(f, e)[i]
  <2>1. CASE i <= p
    <3>1. i \in 1..p
      BY <1>1, <2>1
    <3> QED
      BY <1>3, <1>5, <3>1, Zenon
  <2>2. CASE i > p
    <3> PICK j : j = i - p
      OBVIOUS
    <3>1. j \in 1..e - p /\ i = p + j
      BY <1>1, <2>2
    <3>2. u[i] = c[j] /\ c[j] = Content(f, size)[i]
      BY <1>4, <1>5, <3>1, Zenon
    <3> QED
      BY <1>3, <3>2, Zenon
  <2> QED
    BY <1>1, <2>1, <2>2
<1>7. u = Content(f, e)
  BY <1>3, <1>5, <1>6, SeqEqual DEF Words
<1> QED
  BY <1>0, <1>4, <1>7, <1>c, <1>u, Zenon DEF Joins

-----------------------------------------------------------------------------
(* Messages *)

LEMMA Ids ==
  /\ Sender \in Nat /\ SERVER_ID \in Nat /\ Zero \in Nat /\ Client \subseteq Nat
  /\ Exhibitor \subseteq Client /\ Sender \in Client /\ FileSize \subseteq Nat
  /\ Sender \notin Exhibitor /\ SERVER_ID \notin Client /\ Zero \notin Client
  /\ MaxFiles \in Nat
<1>1. MaxFiles \in Nat
  BY TransferAssumption, Encoder
<1> QED
  BY <1>1, TransferAssumption DEF Client

\* s is a message: a header, and a body that is read with it.
IsMessage(s, type, src, dst, seq, body) ==
  /\ s \in Words /\ body \in Words /\ s # <<>> /\ HasHeader(s) /\ HasBody(s)
  /\ HeaderOf(s) = Header(type, src, dst, seq)
  /\ s[1] = type_encoder[type] /\ s[2] = src /\ s[3] = dst /\ s[4] = seq
  /\ BodyOf(s) = body /\ AfterBody(s) = <<>>

LEMMA AMessage ==
  ASSUME NEW type \in DOMAIN type_encoder, NEW src \in Nat, NEW dst \in Nat, NEW seq \in Nat,
         NEW b \in Words, Len(b) = 3, NEW data \in Words, b[3] = Len(data),
         NEW body, Joins(body, b, data), NEW s, Joins(s, Header(type, src, dst, seq), body)
  PROVE  IsMessage(s, type, src, dst, seq, body) /\ s[6] = b[2] /\ DataOf(s) = data
<1>1. PICK h : h = Header(type, src, dst, seq)
  OBVIOUS
<1>2. /\ h \in Words /\ Len(h) = 4
      /\ h[1] = type_encoder[type] /\ h[2] = src /\ h[3] = dst /\ h[4] = seq
  BY <1>1, HeaderWords
<1>3. Joins(s, h, body)
  BY <1>1, Zenon
<1>4. /\ body \in Words /\ s \in Words /\ HasHeader(s) /\ HasBody(s) /\ HeaderOf(s) = h
      /\ BodyOf(s) = body /\ DataOf(s) = data /\ AfterBody(s) = <<>>
      /\ \A i \in 1..4 : s[i] = h[i]
      /\ s[6] = b[2]
  BY <1>2, <1>3, ReadBody
<1>5. s[1] = h[1] /\ s[2] = h[2] /\ s[3] = h[3] /\ s[4] = h[4]
  <2>1. 1 \in 1..4 /\ 2 \in 1..4 /\ 3 \in 1..4 /\ 4 \in 1..4
    OBVIOUS
  <2> QED
    BY <1>4, <2>1, Zenon
<1>6. s # <<>>
  BY <1>4, NothingToRead
<1>7. IsMessage(s, type, src, dst, seq, body)
  BY <1>1, <1>2, <1>4, <1>5, <1>6, Zenon DEF IsMessage
<1> QED
  BY <1>4, <1>7, Zenon

LEMMA FileMessage ==
  ASSUME NEW src \in Nat, NEW dst \in Nat, NEW seq \in Nat, NEW f \in Nat, NEW n \in Nat,
         NEW s, Joins(s, Header("FILE", src, dst, seq), FileBody(f, n))
  PROVE  IsMessage(s, "FILE", src, dst, seq, FileBody(f, n)) /\ s[6] = n
<1>1. PICK b, data : b = <<f, n, 1>> /\ data = <<99>>
  OBVIOUS
<1>2. b \in Words /\ data \in Words /\ Len(b) = 3 /\ b[3] = 1 /\ b[2] = n /\ Len(data) = 1
  BY <1>1 DEF Words
<1>3. Joins(FileBody(f, n), b, data)
  <2>1. PICK u : u = b \o data
    OBVIOUS
  <2>2. /\ u \in Words /\ Len(u) = Len(b) + Len(data)
        /\ \A i \in 1..Len(b) : u[i] = b[i]
        /\ \A i \in 1..Len(data) : u[Len(b) + i] = data[i]
    BY <1>2, <2>1, ConcatWords, Zenon
  <2>3. Len(u) = 4 /\ u[1] = f /\ u[2] = n /\ u[3] = 1 /\ u[3 + 1] = 99
    <3>1. \A i \in 1..1 : u[3 + i] = data[i]
      BY <1>2, <2>2
    <3>2. \A i \in 1..3 : u[i] = b[i]
      BY <1>2, <2>2
    <3> QED
      BY <1>1, <1>2, <2>2, <3>1, <3>2
  <2>4. u = <<f, n, 1, 99>>
    <3>1. PICK v : v = <<f, n, 1, 99>>
      OBVIOUS
    <3>2. /\ v \in Seq(Nat) /\ Len(v) = 4
          /\ v[1] = f /\ v[2] = n /\ v[3] = 1 /\ v[4] = 99
      BY <3>1
    <3>3. u \in Seq(Nat) /\ Len(u) = Len(v)
      BY <2>2, <2>3, <3>2, Zenon DEF Words
    <3>5. u[1] = v[1] /\ u[2] = v[2] /\ u[3] = v[3] /\ u[4] = v[4]
      BY <2>3, <3>2
    <3>6. \A i \in 1..Len(v) : i = 1 \/ i = 2 \/ i = 3 \/ i = 4
      BY <3>2
    <3>7. \A i \in 1..Len(v) : u[i] = v[i]
      BY <3>5, <3>6, Zenon
    <3>4. u = v
      BY <3>2, <3>3, <3>7, SeqEqual, ZenonT(40)
    <3> QED
      BY <3>1, <3>4
  <2> QED
    BY <2>1, <2>4 DEF FileBody, Joins
<1>4. "FILE" \in DOMAIN type_encoder
  BY Encoder
<1>5. b[3] = Len(data)
  BY <1>2
<1>6. b \in Words /\ data \in Words /\ FileBody(f, n) = FileBody(f, n) /\ Len(b) = 3 /\ b[2] = n
  BY <1>2
<1> HIDE <1>1, <1>2
<1> QED
  BY <1>3, <1>4, <1>5, <1>6, AMessage

LEMMA ChunkMessage ==
  ASSUME NEW src \in Nat, NEW dst \in Nat, NEW seq \in Nat, NEW f \in Nat, NEW k \in Nat,
         NEW data \in Words,
         NEW s, Joins(s, Header("FILE_CHUNK", src, dst, seq), ChunkBody(f, k, data))
  PROVE  /\ IsMessage(s, "FILE_CHUNK", src, dst, seq, ChunkBody(f, k, data))
         /\ DataOf(s) = data
<1>1. PICK b : b = <<f, k, Len(data)>>
  OBVIOUS
<1>2. b \in Words /\ Len(b) = 3 /\ b[3] = Len(data)
  BY <1>1, LenProperties DEF Words
<1>3. Joins(ChunkBody(f, k, data), b, data)
  BY <1>1 DEF ChunkBody, Joins
<1>4. "FILE_CHUNK" \in DOMAIN type_encoder
  BY Encoder
<1> QED
  BY <1>2, <1>3, <1>4, AMessage

\* s is one header, and nothing after it.
IsHeader(s, type, src, dst, seq) ==
  /\ s = Header(type, src, dst, seq)
  /\ s \in Words /\ s # <<>> /\ Len(s) = 4 /\ HasHeader(s) /\ HeaderOf(s) = s
  /\ AfterHeader(s) = <<>>
  /\ s[1] = type_encoder[type] /\ s[2] = src /\ s[3] = dst /\ s[4] = seq

LEMMA AHeader ==
  ASSUME NEW type \in DOMAIN type_encoder, NEW src \in Nat, NEW dst \in Nat, NEW seq \in Nat
  PROVE  IsHeader(Header(type, src, dst, seq), type, src, dst, seq)
<1>1. PICK h : h = Header(type, src, dst, seq)
  OBVIOUS
<1>2. /\ h \in Words /\ Len(h) = 4
      /\ h[1] = type_encoder[type] /\ h[2] = src /\ h[3] = dst /\ h[4] = seq
  BY <1>1, HeaderWords
<1>3. HasHeader(h) /\ HeaderOf(h) = h /\ AfterHeader(h) = <<>> /\ h # <<>>
  BY <1>2, ReadOnlyHeader, Zenon
<1> QED
  BY <1>1, <1>2, <1>3, Zenon DEF IsHeader

\* What was sent on an empty connection is all there is.
LEMMA SentAlone == ASSUME NEW s \in Words PROVE <<>> \o s = s
BY ConcatEmptySeq DEF Words

\* What the words that are read are, whatever they were written as.
LEMMA HeaderTypes ==
  ASSUME NEW s \in Words, HasHeader(s)
  PROVE  /\ s[1] \in Nat /\ s[2] \in Nat /\ s[3] \in Nat /\ s[4] \in Nat
         /\ AfterHeader(s) \in Words
<1>1. Len(s) \in Nat /\ Len(s) >= 4
  BY LenProperties DEF HasHeader, Words
<1>2. \A i \in 1..Len(s) : s[i] \in Nat
  BY ElementOfSeq DEF Words
<1>3. s[1] \in Nat /\ s[2] \in Nat /\ s[3] \in Nat /\ s[4] \in Nat
  BY <1>1, <1>2
<1>4. 5 \in 1..Len(s) + 1 /\ Len(s) \in 5 - 1..Len(s)
  BY <1>1
<1>5. SubSeq(s, 5, Len(s)) \in Words
  BY <1>4, SubWords, Zenon
<1> QED
  BY <1>3, <1>5 DEF AfterHeader

LEMMA BodyTypes ==
  ASSUME NEW s \in Words, HasBody(s)
  PROVE  /\ HasHeader(s) /\ s[6] \in Nat
         /\ BodyOf(s) \in Words /\ DataOf(s) \in Words /\ AfterBody(s) \in Words
<1>1. Len(s) \in Nat /\ Len(s) >= 7 /\ Len(s) >= 7 + s[7]
  BY LenProperties DEF HasBody, Words
<1>2. \A i \in 1..Len(s) : s[i] \in Nat
  BY ElementOfSeq DEF Words
<1>3. s[6] \in Nat /\ s[7] \in Nat
  BY <1>1, <1>2
<1>4. PICK m, n : m = 7 + s[7] /\ n = 8 + s[7]
  OBVIOUS
<1>5. /\ 5 \in 1..Len(s) + 1 /\ 8 \in 1..Len(s) + 1 /\ n \in 1..Len(s) + 1
      /\ m \in 5 - 1..Len(s) /\ m \in 8 - 1..Len(s) /\ Len(s) \in n - 1..Len(s)
  BY <1>1, <1>3, <1>4
<1>6. SubSeq(s, 5, m) \in Words /\ SubSeq(s, 8, m) \in Words /\ SubSeq(s, n, Len(s)) \in Words
  BY <1>5, SubWords, Zenon
<1> QED
  BY <1>1, <1>3, <1>4, <1>6 DEF HasHeader, BodyOf, DataOf, AfterBody

-----------------------------------------------------------------------------
(* Types *)

LEMMA InitTypes == ASSUME Init PROVE Types
<1>1. <<>> \in Words /\ {} \in SUBSET Words
  BY DEF Words
<1>2. toServer \in [Client -> Words] /\ toClient \in [Client -> Words]
  BY <1>1 DEF Init
<1>3. em \in EmType /\ em.pc = "prompt"
  BY TransferAssumption DEF Init, EmType, type_encoder
<1>4. ex \in [Exhibitor -> ExType] /\ \A x \in Exhibitor : ex[x].pc = "main"
  BY <1>1 DEF Init, ExType
<1>5. srv \in SrvType /\ srv.left = {} /\ srv.pc = "select"
  <2>1. Client \in SUBSET Client /\ Sender \in Client /\ "FILE" \in {"FILE", "FILE_CHUNK"}
    BY Ids
  <2> QED
    BY <1>1, <2>1 DEF Init, SrvType
<1> QED
  BY <1>2, <1>3, <1>4, <1>5 DEF Types

LEMMA SendTypes ==
  ASSUME toServer \in [Client -> Words], toClient \in [Client -> Words],
         NEW c \in Client, NEW words \in Words, SendToServer(c, words)
  PROVE  toServer' \in [Client -> Words] /\ toClient' \in [Client -> Words]
<1>1. toServer[c] \o words \in Words
  BY ConcatWords, Zenon
<1> QED
  BY <1>1 DEF SendToServer

LEMMA ReadTypes ==
  ASSUME toServer \in [Client -> Words], toClient \in [Client -> Words],
         NEW c \in Client, NEW rest \in Words, ReadFromServer(c, rest)
  PROVE  toServer' \in [Client -> Words] /\ toClient' \in [Client -> Words]
BY DEF ReadFromServer

LEMMA ReadAndSendTypes ==
  ASSUME toServer \in [Client -> Words], toClient \in [Client -> Words],
         NEW c \in Client, NEW d \in Client, NEW rest \in Words, NEW words \in Words,
         ReadAndSend(c, rest, d, words)
  PROVE  toServer' \in [Client -> Words] /\ toClient' \in [Client -> Words]
<1>1. toClient[d] \o words \in Words
  BY ConcatWords, Zenon
<1> QED
  BY <1>1 DEF ReadAndSend

\* The headers, and the two bodies, the programs send.
LEMMA SentWords ==
  /\ \A type \in DOMAIN type_encoder : \A src \in Nat, dst \in Nat, seq \in Nat :
       Header(type, src, dst, seq) \in Words
  /\ \A f \in Nat, n \in Nat : FileBody(f, n) \in Words
  /\ \A f \in Nat, k \in Nat, data \in Words : ChunkBody(f, k, data) \in Words
<1>1. ASSUME NEW f \in Nat, NEW n \in Nat PROVE FileBody(f, n) \in Words
  BY DEF FileBody, Words
<1>2. ASSUME NEW f \in Nat, NEW k \in Nat, NEW data \in Words
      PROVE ChunkBody(f, k, data) \in Words
  <2>1. Len(data) \in Nat
    BY LenProperties DEF Words
  <2>2. <<f, k, Len(data)>> \in Words
    BY <2>1 DEF Words
  <2> QED
    BY <2>2, ConcatWords, Zenon DEF ChunkBody
<1> QED
  BY <1>1, <1>2, HeaderWords

LEMMA EmFields ==
  ASSUME NEW e \in EmType
  PROVE  /\ e.seq_number \in Nat /\ e.file_id \in Nat /\ e.chunk_id \in Nat
         /\ e.size \in Nat /\ e.dst \in Nat /\ e.dst \in Exhibitor \cup {Zero}
         /\ e.tries \in Nat
         /\ e.reported \in SUBSET [id : Nat, size : FileSize, dst : Exhibitor \cup {Zero}]
<1>1. /\ e.seq_number \in Nat /\ e.file_id \in Nat /\ e.chunk_id \in Nat
      /\ e.size \in FileSize \cup {0} /\ e.dst \in Exhibitor \cup {Zero}
      /\ e.tries \in 0..MaxFiles
      /\ e.reported \in SUBSET [id : Nat, size : FileSize, dst : Exhibitor \cup {Zero}]
  BY DEF EmType
<1>2. FileSize \subseteq Nat /\ Exhibitor \subseteq Nat /\ Zero \in Nat /\ MaxFiles \in Nat
  BY Ids
<1>3. e.size \in Nat
  <2>1. FileSize \cup {0} \subseteq Nat
    BY <1>2
  <2> QED
    BY <1>1, <2>1, Zenon
<1>4. e.dst \in Nat
  BY <1>1, <1>2
<1>5. e.tries \in Nat
  BY <1>1, <1>2
<1> QED
  BY <1>1, <1>3, <1>4, <1>5

\* The emitter moves: em and its connection change, and nothing else.
LEMMA EmitterTypes ==
  ASSUME Types, Emitter \/ SendFile \/ CommandRaises \/ EmitterLeaves
  PROVE  Types'
<1> USE DEF Types
<1>t. /\ em.seq_number \in Nat /\ em.file_id \in Nat /\ em.chunk_id \in Nat
      /\ em.size \in Nat /\ em.dst \in Nat /\ em.dst \in Exhibitor \cup {Zero}
      /\ em.tries \in Nat
      /\ em.reported \in SUBSET [id : Nat, size : FileSize, dst : Exhibitor \cup {Zero}]
      /\ Sender \in Nat /\ SERVER_ID \in Nat /\ Sender \in Client
      /\ toClient[Sender] \in Words
  BY EmFields, Ids
<1>i. ASSUME em' \in EmType, em'.pc \in {"file", "sending", "chunk"} => em'.size \in FileSize,
             toServer' \in [Client -> Words], toClient' \in [Client -> Words],
             UNCHANGED <<ex, srv>>
      PROVE  Types'
  BY <1>i
<1>1. CASE SendChunk
  <2>1. Chunk(em.file_id, em.size, em.chunk_id) \in Words
    BY <1>1, <1>t, JoinChunk DEF SendChunk
  <2>2. PICK words \in Words : SendToServer(Sender, words)
    <3>1. /\ Header("FILE_CHUNK", Sender, em.dst, em.seq_number) \in Words
          /\ ChunkBody(em.file_id, em.chunk_id, Chunk(em.file_id, em.size, em.chunk_id)) \in Words
      BY <1>t, <2>1, SentWords, Encoder
    <3> QED
      BY <1>1, <3>1, ConcatWords, Zenon DEF SendChunk
  <2>3. toServer' \in [Client -> Words] /\ toClient' \in [Client -> Words]
    BY <1>t, <2>2, SendTypes
  <2>4. em' = [em EXCEPT !.pc = "chunk"] /\ em.pc = "sending" /\ UNCHANGED <<ex, srv>>
    BY <1>1 DEF SendChunk, Em
  <2>5. em' \in EmType /\ em'.size \in FileSize
    BY <2>4 DEF EmType
  <2> QED
    BY <1>i, <2>3, <2>4, <2>5
<1>2. CASE Report
  <2>1. /\ em' = [em EXCEPT !.pc = "prompt", !.file_id = @ + 1,
                    !.reported = @ \cup {[id |-> em.file_id, size |-> em.size, dst |-> em.dst]}]
        /\ em.size \in FileSize /\ UNCHANGED <<ex, srv, toServer, toClient>>
    BY <1>2 DEF Report, Em, Quiet
  <2>2. /\ em.file_id + 1 \in Nat
        /\ em.reported \cup {[id |-> em.file_id, size |-> em.size, dst |-> em.dst]}
             \in SUBSET [id : Nat, size : FileSize, dst : Exhibitor \cup {Zero}]
    <3>1. [id |-> em.file_id, size |-> em.size, dst |-> em.dst]
            \in [id : Nat, size : FileSize, dst : Exhibitor \cup {Zero}]
      BY <1>t, <2>1
    <3> QED
      BY <1>t, <3>1
  <2>3. em' \in EmType /\ em'.pc = "prompt"
    BY <2>1, <2>2 DEF EmType
  <2> QED
    BY <1>i, <2>1, <2>3
<1>3. CASE GetReply
  <2>1. HasHeader(toClient[Sender]) /\ ReadFromServer(Sender, AfterHeader(toClient[Sender]))
    BY <1>3 DEF GetReply
  <2>2. toServer' \in [Client -> Words] /\ toClient' \in [Client -> Words]
    BY <1>t, <2>1, HeaderTypes, ReadTypes
  <2>3. /\ em' \in EmType /\ em'.size \in FileSize
        /\ UNCHANGED <<ex, srv>>
    <3>1. PICK pc \in {"prompt", "sending"}, seq \in Nat, k \in Nat :
            em' = [em EXCEPT !.pc = pc, !.seq_number = seq, !.chunk_id = k]
      <4>1. PICK pc, seq, k, ok :
              /\ pc = IF em.pc = "file" /\ ~ok THEN "prompt" ELSE "sending"
              /\ seq = IF ok THEN em.seq_number + 1 ELSE em.seq_number
              /\ k = IF em.pc = "file" THEN 0 ELSE em.chunk_id + 1
              /\ em' = [em EXCEPT !.pc = pc, !.seq_number = seq, !.chunk_id = k]
        BY <1>3 DEF GetReply, Em
      <4>2. pc \in {"prompt", "sending"} /\ seq \in Nat /\ k \in Nat
        BY <1>t, <4>1
      <4> QED
        BY <4>1, <4>2
    <3>2. em.size \in FileSize /\ UNCHANGED <<ex, srv>>
      BY <1>3 DEF GetReply, Em
    <3> QED
      BY <3>1, <3>2 DEF EmType
  <2> QED
    BY <1>i, <2>2, <2>3
<1>4. CASE EmitterGoodbye
  <2>1. HasHeader(toClient[Sender]) /\ ReadFromServer(Sender, AfterHeader(toClient[Sender]))
    BY <1>4 DEF EmitterGoodbye
  <2>2. toServer' \in [Client -> Words] /\ toClient' \in [Client -> Words]
    BY <1>t, <2>1, HeaderTypes, ReadTypes
  <2>3. em' \in EmType /\ em'.pc \in {"left", "failed"} /\ UNCHANGED <<ex, srv>>
    BY <1>4 DEF EmitterGoodbye, Em, EmType
  <2> QED
    BY <1>i, <2>2, <2>3
<1>5. CASE EmitterLost \/ PackRaises
  BY <1>5, <1>i DEF EmitterLost, PackRaises, Raise, Em, Quiet, EmType
<1>6. CASE SendFile
  <2>1. PICK size \in FileSize, dst \in Exhibitor \cup {Zero} :
          /\ SendToServer(Sender, Header("FILE", Sender, dst, em.seq_number)
                                    \o FileBody(em.file_id, NumChunks(size)))
          /\ em' = [em EXCEPT !.pc = "file", !.size = size, !.dst = dst, !.tries = @ + 1]
          /\ UNCHANGED <<ex, srv>>
    BY <1>6 DEF SendFile, Em
  <2>2. dst \in Nat /\ size \in Nat /\ NumChunks(size) \in Nat /\ em.tries + 1 \in 0..MaxFiles
    <3>1. dst \in Nat /\ size \in Nat
      BY Ids
    <3>2. em.tries < MaxFiles /\ MaxFiles \in Nat
      BY <1>6, Ids DEF SendFile
    <3> QED
      BY <1>t, <3>1, <3>2, ChunkBounds
  <2>3. PICK words \in Words : SendToServer(Sender, words)
    <3>1. /\ Header("FILE", Sender, dst, em.seq_number) \in Words
          /\ FileBody(em.file_id, NumChunks(size)) \in Words
      BY <1>t, <2>2, SentWords, Encoder
    <3> QED
      BY <2>1, <3>1, ConcatWords, Zenon
  <2>4. toServer' \in [Client -> Words] /\ toClient' \in [Client -> Words]
    BY <1>t, <2>3, SendTypes
  <2>5. em' \in EmType /\ em'.size \in FileSize
    BY <2>1, <2>2 DEF EmType
  <2> QED
    BY <1>i, <2>1, <2>4, <2>5
<1>7. CASE CommandRaises
  BY <1>7, <1>i DEF CommandRaises, Raise, Em, Quiet, EmType
<1>8. CASE EmitterLeaves
  <2>1. PICK words \in Words : SendToServer(Sender, words)
    <3>1. Header("FLW", Sender, SERVER_ID, em.seq_number) \in Words
      BY <1>t, SentWords, Encoder
    <3> QED
      BY <1>8, <3>1, Zenon DEF EmitterLeaves
  <2>2. toServer' \in [Client -> Words] /\ toClient' \in [Client -> Words]
    BY <1>t, <2>1, SendTypes
  <2>3. em' \in EmType /\ em'.pc = "bye" /\ UNCHANGED <<ex, srv>>
    <3>1. PICK b \in BOOLEAN : em' = [em EXCEPT !.pc = "bye", !.brokeOff = b]
      BY <1>8 DEF EmitterLeaves, Em
    <3>2. UNCHANGED <<ex, srv>>
      BY <1>8 DEF EmitterLeaves, Em
    <3> QED
      BY <3>1, <3>2 DEF EmType
  <2> QED
    BY <1>i, <2>2, <2>3
<1> QED
  BY <1>1, <1>2, <1>3, <1>4, <1>5, <1>6, <1>7, <1>8 DEF Emitter

\* An exhibitor moves: what it is at and its connection change, and nothing else.
LEMMA ExhibitorTypes ==
  ASSUME Types, NEW x \in Exhibitor, Displayer(x) \/ ExhibitorLeaves(x) \/ SaveRaises(x)
  PROVE  Types'
<1>t. /\ toServer \in [Client -> Words] /\ toClient \in [Client -> Words]
      /\ ex \in [Exhibitor -> ExType] /\ ex[x] \in ExType
      /\ ex[x].seq_number \in Nat /\ ex[x].missing \in Nat /\ ex[x].chunks \in Words
      /\ ex[x].written \in SUBSET Words
      /\ ex[x].pc \in {"main", "answer", "chunks", "save", "bye", "left", "failed", "unsaved"}
      /\ ex[x].pc = "chunks" => ex[x].missing > 0
      /\ x \in Client /\ x \in Nat /\ SERVER_ID \in Nat
      /\ toClient[x] \in Words
  BY Ids DEF Types, ExType
<1>i. ASSUME NEW e \in ExType, Ex(x, e), e.pc = "chunks" => e.missing > 0,
             toServer' \in [Client -> Words], toClient' \in [Client -> Words]
      PROVE  Types'
  <2>1. ex' \in [Exhibitor -> ExType] /\ UNCHANGED <<em, srv>>
    BY <1>i, <1>t DEF Ex
  <2>2. \A y \in Exhibitor : ex'[y].pc = "chunks" => ex'[y].missing > 0
    <3>1. \A y \in Exhibitor : ex'[y] = IF y = x THEN e ELSE ex[y]
      BY <1>i, <1>t DEF Ex
    <3>2. \A y \in Exhibitor : ex[y].pc = "chunks" => ex[y].missing > 0
      BY DEF Types
    <3> QED
      BY <1>i, <3>1, <3>2
  <2> QED
    BY <1>i, <2>1, <2>2 DEF Types
<1>1. CASE ReadFile(x)
  <2>1. PICK s : s = toClient[x]
    OBVIOUS
  <2>2. /\ HasBody(s) /\ ReadFromServer(x, AfterBody(s))
        /\ Ex(x, [ex[x] EXCEPT !.pc = "answer", !.seq_number = s[4], !.missing = s[6],
                               !.chunks = <<>>])
    BY <1>1, <2>1 DEF ReadFile
  <2>3. s[4] \in Nat /\ s[6] \in Nat /\ AfterBody(s) \in Words /\ <<>> \in Words
    <3>1. HasHeader(s) /\ s[6] \in Nat /\ AfterBody(s) \in Words
      BY <1>t, <2>1, <2>2, BodyTypes
    <3>2. s[4] \in Nat
      BY <1>t, <2>1, <3>1, HeaderTypes
    <3> QED
      BY <3>1, <3>2 DEF Words
  <2>4. toServer' \in [Client -> Words] /\ toClient' \in [Client -> Words]
    BY <1>t, <2>2, <2>3, ReadTypes
  <2>5. [ex[x] EXCEPT !.pc = "answer", !.seq_number = s[4], !.missing = s[6],
                      !.chunks = <<>>] \in ExType
    BY <1>t, <2>3 DEF ExType
  <2>6. [ex[x] EXCEPT !.pc = "answer", !.seq_number = s[4], !.missing = s[6],
                      !.chunks = <<>>].pc = "answer"
    BY <1>t DEF ExType
  <2> QED
    BY <1>i, <2>2, <2>4, <2>5, <2>6
<1>2. CASE ReadChunk(x)
  <2>1. PICK s : s = toClient[x]
    OBVIOUS
  <2>2. /\ HasBody(s) /\ ReadFromServer(x, AfterBody(s)) /\ ex[x].pc = "chunks"
        /\ Ex(x, [ex[x] EXCEPT !.pc = "answer", !.seq_number = s[4], !.missing = @ - 1,
                         !.chunks = @ \o DataOf(s)])
    BY <1>2, <2>1 DEF ReadChunk
  <2>3. PICK seq \in Nat, n \in Nat, chunks \in Words :
          seq = s[4] /\ n = ex[x].missing - 1 /\ chunks = ex[x].chunks \o DataOf(s)
    <3>1. HasHeader(s) /\ DataOf(s) \in Words
      BY <1>t, <2>1, <2>2, BodyTypes
    <3>2. s[4] \in Nat
      BY <1>t, <2>1, <3>1, HeaderTypes
    <3>3. ex[x].missing - 1 \in Nat
      BY <1>t, <2>2
    <3>4. ex[x].chunks \o DataOf(s) \in Words
      BY <1>t, <3>1, ConcatWords, Zenon
    <3> QED
      BY <3>2, <3>3, <3>4
  <2>4. AfterBody(s) \in Words
    BY <1>t, <2>1, <2>2, BodyTypes
  <2>5. toServer' \in [Client -> Words] /\ toClient' \in [Client -> Words]
    BY <1>t, <2>2, <2>4, ReadTypes
  <2>6. PICK e : e = [ex[x] EXCEPT !.pc = "answer", !.seq_number = seq, !.missing = n,
                                   !.chunks = chunks]
    OBVIOUS
  <2>7. e \in ExType /\ e.pc = "answer"
    BY <1>t, <2>6 DEF ExType
  <2>8. Ex(x, e)
    BY <1>t, <2>2, <2>3, <2>6 DEF ExType
  <2> QED
    BY <1>i, <2>5, <2>7, <2>8
<1>3. CASE AnswerOk(x)
  <2>1. Header("OK", x, SERVER_ID, ex[x].seq_number) \in Words
    BY <1>t, SentWords, Encoder
  <2>2. toServer' \in [Client -> Words] /\ toClient' \in [Client -> Words]
    BY <1>3, <1>t, <2>1, SendTypes DEF AnswerOk
  <2>3. PICK pc : /\ pc = IF ex[x].missing = 0 THEN "save" ELSE "chunks"
                  /\ Ex(x, [ex[x] EXCEPT !.pc = pc])
    BY <1>3 DEF AnswerOk, AfterOk
  <2>4. /\ [ex[x] EXCEPT !.pc = pc] \in ExType
        /\ [ex[x] EXCEPT !.pc = pc].pc = "chunks" => [ex[x] EXCEPT !.pc = pc].missing > 0
    BY <1>t, <2>3 DEF ExType
  <2> QED
    BY <1>i, <2>2, <2>3, <2>4
<1>4. CASE Save(x)
  <2>1. PICK w \in SUBSET Words : w = ex[x].written \cup {ex[x].chunks}
    BY <1>t
  <2>2. PICK e : e = [ex[x] EXCEPT !.pc = "main", !.written = w]
    OBVIOUS
  <2>3. e \in ExType /\ e.pc = "main" /\ Ex(x, e) /\ UNCHANGED <<toServer, toClient>>
    BY <1>4, <1>t, <2>1, <2>2 DEF ExType, Save, Quiet
  <2> QED
    BY <1>i, <1>t, <2>3
<1>5. CASE ReadOther(x) \/ ExhibitorGoodbye(x)
  <2>1. PICK pc \in {"main", "failed", "left"} :
          /\ HasHeader(toClient[x]) /\ ReadFromServer(x, AfterHeader(toClient[x]))
          /\ Ex(x, [ex[x] EXCEPT !.pc = pc])
    BY <1>5 DEF ReadOther, ExhibitorGoodbye
  <2>2. toServer' \in [Client -> Words] /\ toClient' \in [Client -> Words]
    BY <1>t, <2>1, HeaderTypes, ReadTypes
  <2>3. /\ [ex[x] EXCEPT !.pc = pc] \in ExType
        /\ [ex[x] EXCEPT !.pc = pc].pc # "chunks"
    BY <1>t DEF ExType
  <2> QED
    BY <1>i, <2>1, <2>2, <2>3
<1>6. CASE ExhibitorLost(x)
  <2>1. /\ [ex[x] EXCEPT !.pc = "failed"] \in ExType
        /\ [ex[x] EXCEPT !.pc = "failed"].pc = "failed"
    BY <1>t DEF ExType
  <2> QED
    BY <1>6, <1>i, <1>t, <2>1 DEF ExhibitorLost, Quiet
<1>7. CASE SaveRaises(x)
  <2>1. /\ [ex[x] EXCEPT !.pc = "unsaved"] \in ExType
        /\ [ex[x] EXCEPT !.pc = "unsaved"].pc = "unsaved"
    BY <1>t DEF ExType
  <2> QED
    BY <1>7, <1>i, <1>t, <2>1 DEF SaveRaises, Quiet
<1>8. CASE ExhibitorLeaves(x)
  <2>1. Header("FLW", x, SERVER_ID, 1) \in Words
    BY <1>t, SentWords, Encoder
  <2>2. toServer' \in [Client -> Words] /\ toClient' \in [Client -> Words]
    BY <1>8, <1>t, <2>1, SendTypes DEF ExhibitorLeaves
  <2>3. /\ [ex[x] EXCEPT !.pc = "bye"] \in ExType /\ [ex[x] EXCEPT !.pc = "bye"].pc = "bye"
    BY <1>t DEF ExType
  <2> QED
    BY <1>8, <1>i, <2>2, <2>3 DEF ExhibitorLeaves
<1> QED
  BY <1>1, <1>2, <1>3, <1>4, <1>5, <1>6, <1>7, <1>8 DEF Displayer

\* A job: what the server holds of a relay.
Job == {job \in SrvType : job.left \subseteq job.send_to_list}

\* The relay goes on: to the next exhibitor, or to the emitter.
LEMMA RelayTypes ==
  ASSUME Types, NEW job \in Job, NEW c \in Client, NEW rest \in Words, Relay(job, c, rest)
  PROVE  Types'
<1>t. /\ toServer \in [Client -> Words] /\ toClient \in [Client -> Words]
      /\ job \in SrvType /\ job.left \subseteq job.send_to_list
      /\ job.seq_number \in Nat /\ job.body \in Words /\ job.type \in DOMAIN type_encoder
      /\ job.n_chunks \in Nat /\ job.left \subseteq Client
      /\ SERVER_ID \in Nat /\ Sender \in Nat /\ Sender \in Client
  BY Ids, Encoder DEF Types, SrvType, Job
<1>i. ASSUME NEW s \in SrvType, Srv(s), s.left \subseteq s.send_to_list,
             s.pc = "chunk" => s.n_chunks > 0,
             toServer' \in [Client -> Words], toClient' \in [Client -> Words]
      PROVE  Types'
  BY <1>i DEF Types, Srv
<1>1. CASE job.left = {}
  <2>1. PICK words \in Words : ReadAndSend(c, rest, Sender, words)
    <3>1. Header("OK", SERVER_ID, Sender, job.seq_number) \in Words
      BY <1>t, SentWords, Encoder
    <3> QED
      BY <1>1, <3>1 DEF Relay
  <2>2. toServer' \in [Client -> Words] /\ toClient' \in [Client -> Words]
    BY <1>t, <2>1, ReadAndSendTypes
  <2>3. PICK pc : /\ pc = IF job.n_chunks = 0 THEN "select" ELSE "chunk"
                  /\ Srv([job EXCEPT !.pc = pc])
    BY <1>1 DEF Relay
  <2>4. /\ [job EXCEPT !.pc = pc] \in SrvType
        /\ [job EXCEPT !.pc = pc].left \subseteq [job EXCEPT !.pc = pc].send_to_list
        /\ [job EXCEPT !.pc = pc].pc = "chunk" => [job EXCEPT !.pc = pc].n_chunks > 0
    BY <1>t, <2>3 DEF SrvType
  <2> QED
    BY <1>i, <2>2, <2>3, <2>4
<1>2. CASE job.left # {}
  <2>1. PICK d \in job.left :
          /\ ReadAndSend(c, rest, d, Header(job.type, Sender, d, job.seq_number) \o job.body)
          /\ Srv([job EXCEPT !.pc = "relay", !.at = d, !.left = @ \ {d}])
    BY <1>2 DEF Relay
  <2>2. d \in Client /\ d \in Nat
    BY <1>t, Ids
  <2>3. Header(job.type, Sender, d, job.seq_number) \o job.body \in Words
    <3>1. Header(job.type, Sender, d, job.seq_number) \in Words
      BY <1>t, <2>2, SentWords
    <3> QED
      BY <1>t, <3>1, ConcatWords, Zenon
  <2>4. toServer' \in [Client -> Words] /\ toClient' \in [Client -> Words]
    BY <1>t, <2>1, <2>2, <2>3, ReadAndSendTypes
  <2>5. PICK s : s = [job EXCEPT !.pc = "relay", !.at = d, !.left = @ \ {d}]
    OBVIOUS
  <2>6. s \in SrvType /\ s.left \subseteq s.send_to_list /\ s.pc = "relay"
    BY <1>t, <2>2, <2>5 DEF SrvType
  <2> QED
    BY <1>i, <2>1, <2>4, <2>5, <2>6
<1> QED
  BY <1>1, <1>2

\* The server moves.
LEMMA ServerTypes ==
  ASSUME Types, Server
  PROVE  Types'
<1>t. /\ toServer \in [Client -> Words] /\ toClient \in [Client -> Words]
      /\ srv \in SrvType /\ srv.left \subseteq srv.send_to_list
      /\ srv.seq_number \in Nat /\ srv.n_chunks \in Nat /\ srv.registered \subseteq Client
      /\ srv.send_to_list \subseteq Client /\ srv.at \in Client
      /\ srv.pc = "chunk" => srv.n_chunks > 0
      /\ SERVER_ID \in Nat /\ Sender \in Nat /\ Sender \in Client /\ Client \subseteq Nat
      /\ toServer[Sender] \in Words /\ toServer[srv.at] \in Words
  BY Ids DEF Types, SrvType
<1>i. ASSUME NEW s \in SrvType, Srv(s), s.left \subseteq s.send_to_list,
             s.pc = "chunk" => s.n_chunks > 0,
             toServer' \in [Client -> Words], toClient' \in [Client -> Words]
      PROVE  Types'
  BY <1>i DEF Types, Srv
<1>a. ASSUME NEW c \in Client, NEW d \in Client, NEW words \in Words, HasHeader(toServer[c]),
             ReadAndSend(c, AfterHeader(toServer[c]), d, words)
      PROVE  toServer' \in [Client -> Words] /\ toClient' \in [Client -> Words]
  BY <1>a, <1>t, HeaderTypes, ReadAndSendTypes
<1>e. \A seq \in Nat : Erro(seq) \in Words
  BY <1>t, SentWords, Encoder DEF Erro
<1>s. [srv EXCEPT !.pc = "select"] \in SrvType /\ [srv EXCEPT !.pc = "select"].pc = "select"
      /\ [srv EXCEPT !.pc = "select"].left \subseteq [srv EXCEPT !.pc = "select"].send_to_list
  BY <1>t DEF SrvType
<1>1. CASE RefuseRequest
  <2>1. /\ HasHeader(toServer[Sender]) /\ Srv([srv EXCEPT !.pc = "select"])
        /\ ReadAndSend(Sender, AfterHeader(toServer[Sender]), Sender, Erro(toServer[Sender][4]))
    BY <1>1 DEF RefuseRequest, Request
  <2>2. Erro(toServer[Sender][4]) \in Words
    BY <1>e, <1>t, <2>1, HeaderTypes
  <2> QED
    BY <1>a, <1>i, <1>s, <1>t, <2>1, <2>2
<1>2. CASE FileRequest
  <2>1. PICK s, to : s = toServer[Sender] /\ to = send_to_list(s[3])
    OBVIOUS
  <2>2. /\ HasBody(s)
        /\ \/ /\ ReadAndSend(Sender, AfterBody(s), Sender, Erro(s[4]))
              /\ Srv([srv EXCEPT !.pc = "select"])
           \/ Relay([srv EXCEPT !.type = "FILE", !.seq_number = s[4], !.body = BodyOf(s),
                             !.n_chunks = s[6], !.send_to_list = to, !.left = to],
                    Sender, AfterBody(s))
    BY <1>2, <2>1 DEF FileRequest
  <2>3. /\ s[4] \in Nat /\ s[6] \in Nat /\ BodyOf(s) \in Words /\ AfterBody(s) \in Words
        /\ to \subseteq Client
    <3>1. HasHeader(s) /\ s[6] \in Nat /\ BodyOf(s) \in Words /\ AfterBody(s) \in Words
      BY <1>t, <2>1, <2>2, BodyTypes
    <3>2. s[4] \in Nat
      BY <1>t, <2>1, <3>1, HeaderTypes
    <3> QED
      BY <1>t, <2>1, <3>1, <3>2 DEF send_to_list
  <2>4. CASE /\ ReadAndSend(Sender, AfterBody(s), Sender, Erro(s[4]))
             /\ Srv([srv EXCEPT !.pc = "select"])
    <3>1. toServer' \in [Client -> Words] /\ toClient' \in [Client -> Words]
      BY <1>e, <1>t, <2>3, <2>4, ReadAndSendTypes
    <3> QED
      BY <1>i, <1>s, <2>4, <3>1
  <2>5. CASE Relay([srv EXCEPT !.type = "FILE", !.seq_number = s[4], !.body = BodyOf(s),
                             !.n_chunks = s[6], !.send_to_list = to, !.left = to],
                   Sender, AfterBody(s))
    <3>1. PICK job : job = [srv EXCEPT !.type = "FILE", !.seq_number = s[4],
                              !.body = BodyOf(s), !.n_chunks = s[6],
                              !.send_to_list = to, !.left = to]
      OBVIOUS
    <3>2. job \in Job
      BY <1>t, <2>3, <3>1 DEF Job, SrvType
    <3>3. Relay(job, Sender, AfterBody(s))
      BY <2>5, <3>1
    <3> QED
      BY <1>t, <2>3, <3>2, <3>3, RelayTypes
  <2> QED
    BY <2>2, <2>4, <2>5
<1>3. CASE RelayChunk
  <2>1. PICK s : s = toServer[Sender]
    OBVIOUS
  <2>2. PICK job :
          /\ job = [srv EXCEPT !.type = "FILE_CHUNK", !.seq_number = s[4], !.body = BodyOf(s),
                       !.n_chunks = @ - 1, !.left = srv.send_to_list]
          /\ HasBody(s) /\ srv.pc = "chunk" /\ Relay(job, Sender, AfterBody(s))
    BY <1>3, <2>1 DEF RelayChunk
  <2>3. s[4] \in Nat /\ BodyOf(s) \in Words /\ AfterBody(s) \in Words
    <3>1. HasHeader(s) /\ BodyOf(s) \in Words /\ AfterBody(s) \in Words
      BY <1>t, <2>1, <2>2, BodyTypes
    <3> QED
      BY <1>t, <2>1, <3>1, HeaderTypes
  <2>4. srv.n_chunks - 1 \in Nat
    BY <1>t, <2>2
  <2>5. job \in Job
    BY <1>t, <2>2, <2>3, <2>4 DEF Job, SrvType
  <2> QED
    BY <1>t, <2>2, <2>3, <2>5, RelayTypes
<1>4. CASE RelayAnswered
  <2>1. HasHeader(toServer[srv.at]) /\ srv.pc = "relay"
    BY <1>4 DEF RelayAnswered
  <2>2. CASE Relay(srv, srv.at, AfterHeader(toServer[srv.at]))
    <3>1. srv \in Job /\ AfterHeader(toServer[srv.at]) \in Words
      BY <1>t, <2>1, HeaderTypes DEF Job
    <3> QED
      BY <1>t, <2>2, <3>1, RelayTypes
  <2>3. CASE /\ ReadAndSend(srv.at, AfterHeader(toServer[srv.at]), Sender, Erro(srv.seq_number))
             /\ Srv([srv EXCEPT !.pc = "select", !.gaveUp = TRUE])
    <3>1. toServer' \in [Client -> Words] /\ toClient' \in [Client -> Words]
      BY <1>a, <1>e, <1>t, <2>1, <2>3
    <3>2. PICK s : s = [srv EXCEPT !.pc = "select", !.gaveUp = TRUE]
      OBVIOUS
    <3>3. s \in SrvType /\ s.pc = "select" /\ s.left \subseteq s.send_to_list
      BY <1>t, <3>2 DEF SrvType
    <3> QED
      BY <1>i, <2>3, <3>1, <3>2, <3>3
  <2> QED
    BY <1>4, <2>2, <2>3 DEF RelayAnswered
<1>5. CASE ConnectionLost \/ UnknownType
  <2>1. PICK f \in {"RuntimeError", "KeyError"} :
          Srv([srv EXCEPT !.pc = "crashed", !.failure = f]) /\ UNCHANGED <<toServer, toClient>>
    BY <1>5 DEF ConnectionLost, UnknownType, Crash, Quiet
  <2>2. PICK s : s = [srv EXCEPT !.pc = "crashed", !.failure = f]
    OBVIOUS
  <2>3. s \in SrvType /\ s.pc = "crashed" /\ s.left \subseteq s.send_to_list
    BY <1>t, <2>2 DEF SrvType
  <2> QED
    BY <1>i, <1>t, <2>1, <2>2, <2>3
<1>6. ASSUME NEW c \in Client, Select(c) PROVE Types'
  <2>1. PICK s : s = [srv EXCEPT !.pc = "request", !.turn = c]
    OBVIOUS
  <2>2. s \in SrvType /\ s.pc = "request" /\ s.left \subseteq s.send_to_list
    BY <1>t, <2>1 DEF SrvType
  <2> QED
    BY <1>6, <1>i, <1>t, <2>1, <2>2 DEF Select, Quiet
<1>7. ASSUME NEW c \in Client, Goodbye(c) PROVE Types'
  <2>1. /\ HasHeader(toServer[c])
        /\ ReadAndSend(c, AfterHeader(toServer[c]), c, Header("OK", SERVER_ID, c, toServer[c][4]))
        /\ Srv([srv EXCEPT !.pc = "select", !.registered = @ \ {c}])
    BY <1>7 DEF Goodbye, Request
  <2>2. Header("OK", SERVER_ID, c, toServer[c][4]) \in Words
    <3>1. toServer[c] \in Words /\ c \in Nat
      BY <1>t
    <3>2. toServer[c][4] \in Nat
      BY <2>1, <3>1, HeaderTypes
    <3> QED
      BY <1>t, <3>1, <3>2, SentWords, Encoder
  <2>3. toServer' \in [Client -> Words] /\ toClient' \in [Client -> Words]
    BY <1>a, <2>1, <2>2
  <2>4. PICK s : s = [srv EXCEPT !.pc = "select", !.registered = @ \ {c}]
    OBVIOUS
  <2>5. s \in SrvType /\ s.pc = "select" /\ s.left \subseteq s.send_to_list
    BY <1>t, <2>4 DEF SrvType
  <2> QED
    BY <1>i, <2>1, <2>3, <2>4, <2>5
<1> QED
  BY <1>1, <1>2, <1>3, <1>4, <1>5, <1>6, <1>7 DEF Server

LEMMA TypesStep == ASSUME Types, [Next]_vars PROVE Types'
<1>1. CASE Next
  BY <1>1, EmitterTypes, ExhibitorTypes, ServerTypes DEF Next
<1>2. CASE UNCHANGED vars
  BY <1>2 DEF vars, Types
<1> QED
  BY <1>1, <1>2

\* The variables of the model keep their types: the places of the programs, the words on
\* the connections, and the numbers of chunks, of which none is expected below zero.
THEOREM TypeCorrect == Spec => []TypeOK
<1>1. Init => Types
  BY InitTypes
<1>2. Types /\ [Next]_vars => Types'
  BY TypesStep
<1>3. Types => TypeOK
  BY DEF Types, TypeOK, EmType, ExType, SrvType
<1> QED
  BY <1>1, <1>2, <1>3, PTL DEF Spec
=============================================================================

------------------------- MODULE LocationServerProofs -------------------------
(***************************************************************************)
(* Proofs about LocationServer: its type, that a client at its prompt has  *)
(* had all its answers, and that users who end client.c do no harm.        *)
(***************************************************************************)
EXTENDS LocationServer, TLAPS

Result == {"limit exceeded", "already exists", "added", "does not exist", "removed",
           "list", "none", "closest"}

-----------------------------------------------------------------------------
(* The inductive invariant *)

\* Lines of the client being served that are still to serve.
Rest(c) == IF client_socket = c THEN Len(sequence) ELSE 0

\* A client expects an answer to every line that is under way to the server or to be served,
\* and counts those it received.
CountInv ==
  \A c \in Client : expected[c] >= Len(toServer[c]) + Rest(c) + Len(toClient[c])

ServerInv ==
  /\ client_socket = None => sequence = <<>>
  /\ server_closed => client_socket = None
  /\ failed => server_closed

IInv == TypeOK /\ CountInv /\ ServerInv /\ LeavingIsHarmless

-----------------------------------------------------------------------------
(* The storage *)

LEMMA AnswerIsTyped ==
  ASSUME NEW result \in Result, NEW points \in Seq(Point2D_t)
  PROVE  Answer(result, points) \in AnswerType
BY DEF Answer, AnswerType, Result

\* Every operation of the storage keeps a list of locations and answers about locations.
LEMMA OperateType ==
  ASSUME locations \in Seq(Point2D_t), NEW line \in Line, Operate(line)
  PROVE  locations' \in Seq(Point2D_t) /\ status' \in AnswerType
<1> DEFINE P == Point2D_t
<1>1. \A q \in P : <<q>> \in Seq(P)
  OBVIOUS
<1>2. <<>> \in Seq(P)
  OBVIOUS
<1>3. \A i \in 1..Len(locations) : locations[i] \in P
  OBVIOUS
<1>4. ASSUME line.cmd \in {"add", "rm", "query"}
      PROVE  line.at \in P
  BY <1>4 DEF Line, Command
<1> HIDE DEF P
<1>5. CASE line.cmd = "list" /\ List
  <2>1. status' = Answer("list", locations) /\ locations' = locations
    BY <1>5 DEF List
  <2> QED
    BY <2>1, AnswerIsTyped DEF Result
<1>6. CASE line.cmd = "add" /\ Add(line.at)
  <2>1. line.at \in P
    BY <1>4, <1>6
  <2>2. PICK result \in Result, points \in Seq(P) : status' = Answer(result, points)
    BY <1>1, <1>2, <1>6, <2>1 DEF Add, Result
  <2>3. locations' = locations \/ locations' = Append(locations, line.at)
    BY <1>6 DEF Add
  <2> QED
    BY <2>1, <2>2, <2>3, AnswerIsTyped DEF P
<1>7. CASE line.cmd = "rm" /\ Remove(line.at)
  <2>1. line.at \in P
    BY <1>4, <1>7
  <2>2. PICK result \in Result, points \in Seq(P) : status' = Answer(result, points)
    BY <1>1, <1>7, <2>1 DEF Remove, Result
  <2>3. \/ locations' = locations
        \/ \E i \in 1..Len(locations) :
             locations' = SubSeq(locations, 1, i - 1) \o SubSeq(locations, i + 1, Len(locations))
    BY <1>7 DEF Remove
  <2>4. ASSUME NEW i \in 1..Len(locations)
        PROVE  SubSeq(locations, 1, i - 1) \o SubSeq(locations, i + 1, Len(locations)) \in Seq(P)
    <3>1. SubSeq(locations, 1, i - 1) \in Seq(P)
      BY <1>3
    <3>2. SubSeq(locations, i + 1, Len(locations)) \in Seq(P)
      BY <1>3
    <3> QED
      BY <3>1, <3>2
  <2>5. locations' \in Seq(P)
    BY <2>3, <2>4 DEF P
  <2> QED
    BY <2>2, <2>5, AnswerIsTyped DEF P
<1>8. CASE line.cmd = "query" /\ Query(line.at)
  <2>1. line.at \in P
    BY <1>4, <1>8
  <2>2. \A i \in 1..Len(locations) : <<line.at, locations[i]>> \in Seq(P)
    BY <1>3, <2>1
  <2>3. PICK result \in Result, points \in Seq(P) : status' = Answer(result, points)
    BY <1>2, <1>8, <2>2 DEF Query, Result
  <2>4. locations' = locations
    BY <1>8 DEF Query
  <2> QED
    BY <2>3, <2>4, AnswerIsTyped DEF P
<1> QED
  BY <1>5, <1>6, <1>7, <1>8 DEF Operate

-----------------------------------------------------------------------------
(* The invariant is inductive *)

LEMMA InitIInv == Init => IInv
<1> SUFFICES ASSUME Init
             PROVE  IInv
  OBVIOUS
<1> USE DEF Init
<1>1. TypeOK
  <2>1. locations = <<>>
    BY DEF ListInit
  <2>2. locations \in Seq(Point2D_t)
    BY <2>1
  <2>3. sequence \in Seq(Line) /\ backlog \in Seq(Client)
    OBVIOUS
  <2>4. toServer \in [Client -> Seq(Line)] /\ toClient \in [Client -> Seq(AnswerType)]
    OBVIOUS
  <2>5. expected \in [Client -> Nat] /\ entries \in [Client -> 0..MaxEntries]
    BY ClientAssumption
  <2> QED
    BY <2>2, <2>3, <2>4, <2>5 DEF TypeOK
<1>2. CountInv
  BY DEF CountInv, Rest
<1>3. ServerInv /\ LeavingIsHarmless
  BY DEF ServerInv, LeavingIsHarmless
<1> QED
  BY <1>1, <1>2, <1>3 DEF IInv

\* The lines and answers counted are numbers.
LEMMA Numbers ==
  ASSUME TypeOK, NEW d \in Client
  PROVE  /\ expected[d] \in Nat /\ Rest(d) \in Nat
         /\ Len(toServer[d]) \in Nat /\ Len(toClient[d]) \in Nat
         /\ toServer[d] \in Seq(Line) /\ toClient[d] \in Seq(AnswerType)
BY DEF TypeOK, Rest

\* Sums of numbers.
LEMMA Sums ==
  /\ \A e, s, r, a \in Nat : e >= s + r + a /\ r > 0 /\ a > 0 => e > 1
  /\ \A e, s, r, a, n \in Nat : e >= s + r + a /\ r = 0 => e >= (s - n) + n + a
  /\ \A e, s, r, a, q \in Nat : e >= s + r + a /\ q <= r => e >= s + q + a
  /\ \A e, s, r, a \in Nat : e >= s + r + a /\ r > 0 => e >= s + (r - 1) + (a + 1)
  /\ \A e, s, r, a, n \in Nat : e >= s + r + a => e - n >= s + r + (a - n)
OBVIOUS

\* What ended the server stays what it was: a client that has ended does nothing more.
LEMMA HarmlessKeeps ==
  ASSUME LeavingIsHarmless, failed' => failed,
         \A d \in Client : connection[d] = "done" =>
           connection'[d] = "done" /\ expected'[d] = expected[d]
  PROVE  LeavingIsHarmless'
BY DEF LeavingIsHarmless

LEMMA ConnectKeeps ==
  ASSUME IInv, NEW c \in Client, Connect(c)
  PROVE  IInv'
<1> USE DEF Connect, listVars, net, users
<1>1. TypeOK'
  BY DEF IInv, TypeOK
<1>2. CountInv'
  BY DEF IInv, CountInv, Rest
<1>3. LeavingIsHarmless'
  BY HarmlessKeeps DEF IInv, TypeOK
<1>4. ServerInv'
  BY DEF IInv, ServerInv
<1> QED
  BY <1>1, <1>2, <1>3, <1>4 DEF IInv

LEMMA EnterKeeps ==
  ASSUME IInv, NEW c \in Client, Enter(c)
  PROVE  IInv'
<1> USE DEF Enter, listVars, server
<1>1. PICK e \in Entry :
        /\ toServer' = [toServer EXCEPT ![c] = IF connection[c] = "open" THEN @ \o e ELSE @]
        /\ expected' = [expected EXCEPT ![c] = Len(e)]
  BY DEF count_messages
<1>2. e \in Seq(Line) /\ Len(e) \in Nat
  BY EntryAssumption
<1>3. TypeOK /\ expected[c] = 0
  BY DEF IInv
\* Nothing of c is under way before.
<1>4. Len(toServer[c]) = 0 /\ Rest(c) = 0 /\ Len(toClient[c]) = 0 /\ toServer[c] \in Seq(Line)
  <2>1. expected[c] >= Len(toServer[c]) + Rest(c) + Len(toClient[c])
    BY DEF IInv, CountInv
  <2> QED
    BY <1>3, <2>1, Numbers
<1>5. /\ toServer'[c] \in Seq(Line) /\ Len(toServer'[c]) <= Len(e) /\ expected'[c] = Len(e)
      /\ Len(toServer'[c]) \in Nat
  <2>1. toServer[c] \o e \in Seq(Line) /\ Len(toServer[c] \o e) = Len(e)
    BY <1>2, <1>4
  <2>2. toServer'[c] = IF connection[c] = "open" THEN toServer[c] \o e ELSE toServer[c]
    BY <1>1, <1>3 DEF TypeOK
  <2>3. expected'[c] = Len(e)
    BY <1>1, <1>3 DEF TypeOK
  <2> HIDE DEF Enter
  <2>4. CASE connection[c] = "open"
    BY <1>2, <2>1, <2>2, <2>3, <2>4
  <2>5. CASE connection[c] # "open"
    BY <1>2, <1>4, <2>2, <2>3, <2>5
  <2> QED
    BY <2>4, <2>5
<1>6. \A d \in Client \ {c} : toServer'[d] = toServer[d] /\ expected'[d] = expected[d]
  BY <1>1, <1>3 DEF TypeOK
<1>7. TypeOK'
  <2>1. toServer' \in [Client -> Seq(Line)]
    <3>1. toServer' = [toServer EXCEPT ![c] = toServer'[c]]
      BY <1>1, <1>3 DEF TypeOK
    <3> HIDE DEF Enter
    <3> QED
      BY <1>3, <1>5, <3>1 DEF TypeOK
  <2>2. expected' \in [Client -> Nat]
    BY <1>1, <1>2, <1>3 DEF TypeOK
  <2>3. entries' \in [Client -> 0..MaxEntries]
    BY <1>3, ClientAssumption DEF TypeOK
  <2> QED
    BY <1>3, <2>1, <2>2, <2>3 DEF TypeOK
<1>8. CountInv'
  <2>1. \A d \in Client : Rest(d)' = Rest(d) /\ toClient'[d] = toClient[d]
    BY DEF Rest
  <2>2. expected'[c] >= Len(toServer'[c]) + Rest(c) + Len(toClient[c])
    BY <1>2, <1>4, <1>5
  <2> QED
    BY <1>6, <2>1, <2>2 DEF IInv, CountInv
<1>9. LeavingIsHarmless'
  BY <1>6, HarmlessKeeps DEF IInv
<1>10. ServerInv'
  BY DEF IInv, ServerInv
<1> QED
  BY <1>7, <1>8, <1>9, <1>10 DEF IInv

\* What is left of a sequence without its first n elements.
LEMMA RestOfSeq ==
  ASSUME NEW S, NEW q \in Seq(S), NEW n \in 0..Len(q)
  PROVE  /\ SubSeq(q, n + 1, Len(q)) \in Seq(S)
         /\ Len(SubSeq(q, n + 1, Len(q))) = Len(q) - n
         /\ SubSeq(q, 1, n) \in Seq(S) /\ Len(SubSeq(q, 1, n)) = n
OBVIOUS

LEMMA ReceiveKeeps ==
  ASSUME IInv, NEW c \in Client, Receive(c)
  PROVE  IInv'
<1> USE DEF Receive, listVars, server
<1>1. PICK n \in 1..Len(toClient[c]) :
        /\ toClient' = [toClient EXCEPT ![c] = SubSeq(@, n + 1, Len(@))]
        /\ expected' = [expected EXCEPT ![c] = @ - n]
  OBVIOUS
<1>2. TypeOK
  BY DEF IInv
<1>3. /\ toClient[c] \in Seq(AnswerType) /\ Len(toClient[c]) \in Nat /\ expected[c] \in Nat
      /\ Len(toServer[c]) \in Nat /\ Rest(c) \in Nat /\ n \in Nat
  BY <1>2, Numbers
<1>4. expected[c] >= Len(toServer[c]) + Rest(c) + Len(toClient[c])
  BY DEF IInv, CountInv
<1>5. /\ toClient'[c] \in Seq(AnswerType)
      /\ Len(toClient'[c]) = Len(toClient[c]) - n
      /\ expected'[c] = expected[c] - n
  <2>1. toClient'[c] = SubSeq(toClient[c], n + 1, Len(toClient[c]))
    BY <1>1, <1>2 DEF TypeOK
  <2>2. expected'[c] = expected[c] - n
    BY <1>1, <1>2 DEF TypeOK
  <2>3. n \in 0..Len(toClient[c])
    BY <1>3
  <2>4. /\ SubSeq(toClient[c], n + 1, Len(toClient[c])) \in Seq(AnswerType)
        /\ Len(SubSeq(toClient[c], n + 1, Len(toClient[c]))) = Len(toClient[c]) - n
    BY <1>3, <2>3, RestOfSeq
  <2> QED
    BY <2>1, <2>2, <2>4
<1>6. \A d \in Client \ {c} : toClient'[d] = toClient[d] /\ expected'[d] = expected[d]
  BY <1>1, <1>2 DEF TypeOK
<1>7. TypeOK'
  <2>1. expected'[c] \in Nat
    BY <1>3, <1>4, <1>5
  <2>2. toClient' \in [Client -> Seq(AnswerType)]
    BY <1>1, <1>2, <1>5 DEF TypeOK
  <2>3. expected' \in [Client -> Nat]
    BY <1>1, <1>2, <2>1 DEF TypeOK
  <2> QED
    BY <1>2, <2>2, <2>3 DEF TypeOK
<1>8. \A d \in Client : toServer'[d] = toServer[d] /\ Rest(d)' = Rest(d)
  BY DEF Rest
<1>9. CountInv'
  <2>1. ASSUME NEW d \in Client
        PROVE  expected'[d] >= Len(toServer'[d]) + Rest(d)' + Len(toClient'[d])
    <3> HIDE DEF Receive
    <3>1. CASE d = c
      <4>1. expected[c] - n >= Len(toServer[c]) + Rest(c) + (Len(toClient[c]) - n)
        BY <1>3, <1>4, Sums
      <4> QED
        BY <1>5, <1>8, <3>1, <4>1
    <3>2. CASE d # c
      <4>1. expected[d] >= Len(toServer[d]) + Rest(d) + Len(toClient[d])
        BY DEF IInv, CountInv
      <4> QED
        BY <1>6, <1>8, <3>2, <4>1
    <3> QED
      BY <3>1, <3>2
  <2> QED
    BY <2>1 DEF CountInv
<1>10. LeavingIsHarmless'
  BY <1>6, HarmlessKeeps DEF IInv
<1>11. ServerInv'
  BY DEF IInv, ServerInv
<1> QED
  BY <1>7, <1>9, <1>10, <1>11 DEF IInv

\* Ends a connection for its client: Disconnected and Quit.
LEMMA LeaveKeeps ==
  ASSUME IInv, NEW c \in Client, Disconnected(c) \/ Quit(c)
  PROVE  IInv'
<1> USE DEF Disconnected, Quit, listVars, server, net, users
<1>1. connection' = [connection EXCEPT ![c] = "done"]
  OBVIOUS
<1>2. TypeOK'
  BY <1>1 DEF IInv, TypeOK
<1>3. CountInv'
  BY DEF IInv, CountInv, Rest
<1>4. LeavingIsHarmless'
  BY <1>1, HarmlessKeeps DEF IInv, TypeOK
<1>5. ServerInv'
  BY DEF IInv, ServerInv
<1> QED
  BY <1>2, <1>3, <1>4, <1>5 DEF IInv

LEMMA AcceptKeeps ==
  ASSUME IInv, Accept
  PROVE  IInv'
<1> USE DEF Accept, listVars, net, users
<1>1. TypeOK
  BY DEF IInv
<1>2. Head(backlog) \in Client /\ Tail(backlog) \in Seq(Client)
  BY <1>1 DEF TypeOK
<1>3. TypeOK'
  BY <1>1, <1>2 DEF TypeOK
<1>4. sequence = <<>> /\ sequence' = <<>> /\ client_socket = None /\ client_socket' # None
  BY <1>2, ClientAssumption DEF IInv, ServerInv
<1>5. \A c \in Client : Rest(c) = 0 /\ Rest(c)' = 0
  BY <1>4 DEF Rest
<1>6. CountInv'
  BY <1>5 DEF IInv, CountInv
<1>7. LeavingIsHarmless'
  BY HarmlessKeeps DEF IInv
<1>8. ServerInv'
  BY <1>4 DEF IInv, ServerInv
<1> QED
  BY <1>3, <1>6, <1>7, <1>8 DEF IInv

\* The server ends a connection: no more lines of it will be answered.
LEMMA CloseKeeps ==
  ASSUME IInv, NEW c \in Client, client_socket = c, Close(c), UNCHANGED users,
         toServer' \in [Client -> Seq(Line)], toClient' = toClient,
         \A d \in Client : Len(toServer'[d]) <= Len(toServer[d])
  PROVE  /\ CountInv' /\ client_socket' \in Client \cup {None} /\ sequence' \in Seq(Line)
         /\ connection' \in [Client -> {"none", "open", "closed", "done"}]
         /\ \A d \in Client : connection[d] = "done" => connection'[d] = "done"
         /\ client_socket' = None /\ sequence' = <<>>
<1>1. TypeOK
  BY DEF IInv
<1>2. client_socket' = None /\ sequence' = <<>> /\ expected' = expected
  BY DEF Close, users
<1>3. ASSUME NEW d \in Client
      PROVE  expected'[d] >= Len(toServer'[d]) + Rest(d)' + Len(toClient'[d])
  <2>1. Rest(d)' = 0
    BY <1>2, ClientAssumption DEF Rest
  <2>2. expected[d] >= Len(toServer[d]) + Rest(d) + Len(toClient[d])
    BY DEF IInv, CountInv
  <2>3. Len(toServer'[d]) \in Nat
    <3>1. toServer'[d] \in Seq(Line)
      OBVIOUS
    <3> QED
      BY <3>1
  <2>4. Len(toServer'[d]) <= Len(toServer[d])
    OBVIOUS
  <2> QED
    BY <1>1, <1>2, <2>1, <2>2, <2>3, <2>4, Numbers
<1>4. connection' = [connection EXCEPT ![c] = IF @ = "done" THEN @ ELSE "closed"]
  BY DEF Close
<1> QED
  BY <1>1, <1>2, <1>3, <1>4 DEF CountInv, TypeOK

LEMMA ReceiveMessageKeeps ==
  ASSUME IInv, NEW c \in Client, ReceiveMessage(c)
  PROVE  IInv'
<1>1. TypeOK /\ client_socket = c /\ sequence = <<>>
  BY DEF IInv, ReceiveMessage
<1>2. PICK n \in 1..Len(toServer[c]) :
        /\ toServer' = [toServer EXCEPT ![c] = SubSeq(@, n + 1, Len(@))]
        /\ \/ Close(c)
           \/ /\ sequence' = SubSeq(toServer[c], 1, n)
              /\ UNCHANGED <<client_socket, connection>>
  BY DEF ReceiveMessage
<1>3. UNCHANGED <<locations, server_closed, failed, backlog, toClient, users>>
  BY DEF ReceiveMessage, listVars
<1>4. /\ n \in 0..Len(toServer[c]) /\ n \in Nat /\ toServer[c] \in Seq(Line)
      /\ Len(toServer[c]) \in Nat
  BY <1>1, Numbers
<1>5. /\ SubSeq(toServer[c], n + 1, Len(toServer[c])) \in Seq(Line)
      /\ Len(SubSeq(toServer[c], n + 1, Len(toServer[c]))) = Len(toServer[c]) - n
      /\ SubSeq(toServer[c], 1, n) \in Seq(Line) /\ Len(SubSeq(toServer[c], 1, n)) = n
  BY <1>4, RestOfSeq
<1>6. /\ toServer'[c] = SubSeq(toServer[c], n + 1, Len(toServer[c]))
      /\ \A d \in Client \ {c} : toServer'[d] = toServer[d]
  BY <1>1, <1>2 DEF TypeOK
<1>7. toServer' \in [Client -> Seq(Line)] /\ Len(toServer'[c]) = Len(toServer[c]) - n
  <2>1. toServer' = [toServer EXCEPT ![c] = toServer'[c]]
    BY <1>2, <1>6
  <2>2. toServer'[c] \in Seq(Line) /\ Len(toServer'[c]) = Len(toServer[c]) - n
    BY <1>5, <1>6
  <2> QED
    BY <1>1, <2>1, <2>2 DEF TypeOK
<1>8. ~server_closed /\ ~failed /\ client_socket # None
  BY <1>1, ClientAssumption DEF IInv, ServerInv
<1>9. LeavingIsHarmless'
  BY <1>3, <1>8 DEF LeavingIsHarmless
<1>10. CASE Close(c)
  <2>1. \A d \in Client : Len(toServer'[d]) <= Len(toServer[d])
    <3>1. \A d \in Client : Len(toServer[d]) \in Nat
      BY <1>1, Numbers
    <3> QED
      BY <1>4, <1>6, <1>7, <3>1
  <2>2. /\ CountInv' /\ client_socket' \in Client \cup {None} /\ sequence' \in Seq(Line)
        /\ connection' \in [Client -> {"none", "open", "closed", "done"}]
        /\ client_socket' = None /\ sequence' = <<>>
    BY <1>1, <1>3, <1>7, <1>10, <2>1, CloseKeeps
  <2>3. TypeOK'
    BY <1>1, <1>3, <1>7, <2>2 DEF TypeOK, users
  <2>4. ServerInv'
    BY <1>3, <1>8, <2>2 DEF ServerInv
  <2> QED
    BY <1>9, <2>2, <2>3, <2>4 DEF IInv
<1>11. CASE sequence' = SubSeq(toServer[c], 1, n) /\ UNCHANGED <<client_socket, connection>>
  <2>1. sequence' \in Seq(Line) /\ Len(sequence') = n
    BY <1>5, <1>11
  <2>2. TypeOK'
    BY <1>1, <1>3, <1>7, <1>11, <2>1 DEF TypeOK, users
  <2>3. /\ Rest(c) = 0 /\ Rest(c)' = n /\ \A d \in Client \ {c} : Rest(d)' = Rest(d)
    BY <1>1, <1>11, <2>1 DEF Rest
  <2>4. CountInv'
    <3>1. \A d \in Client : expected[d] >= Len(toServer[d]) + Rest(d) + Len(toClient[d])
      BY DEF IInv, CountInv
    <3>2. expected'[c] >= Len(toServer'[c]) + Rest(c)' + Len(toClient'[c])
      <4>1. expected[c] \in Nat /\ Rest(c) \in Nat /\ Len(toClient[c]) \in Nat
        BY <1>1, Numbers
      <4>2. expected[c] >= (Len(toServer[c]) - n) + n + Len(toClient[c])
        BY <1>4, <2>3, <3>1, <4>1, Sums
      <4>3. expected' = expected /\ toClient' = toClient
        BY <1>3 DEF users
      <4> QED
        BY <1>7, <2>3, <4>2, <4>3
    <3>3. \A d \in Client \ {c} : expected'[d] >= Len(toServer'[d]) + Rest(d)' + Len(toClient'[d])
      BY <1>3, <1>6, <2>3, <3>1 DEF users
    <3> QED
      BY <3>2, <3>3 DEF CountInv
  <2>5. ServerInv'
    BY <1>3, <1>8, <1>11 DEF ServerInv
  <2> QED
    BY <1>9, <2>2, <2>4, <2>5 DEF IInv
<1> QED
  BY <1>2, <1>10, <1>11

LEMMA ClientEndedKeeps ==
  ASSUME IInv, NEW c \in Client, ClientEnded(c)
  PROVE  IInv'
<1>1. TypeOK /\ client_socket = c /\ Close(c) /\ toServer' = [toServer EXCEPT ![c] = <<>>]
  BY DEF IInv, ClientEnded
<1>2. UNCHANGED <<locations, server_closed, failed, backlog, toClient, users>>
  BY DEF ClientEnded, listVars
<1>3. toServer' \in [Client -> Seq(Line)]
  BY <1>1 DEF TypeOK
<1>4. \A d \in Client : Len(toServer'[d]) <= Len(toServer[d])
  <2>1. \A d \in Client : Len(toServer[d]) \in Nat
    BY <1>1, Numbers
  <2>2. toServer'[c] = <<>> /\ \A d \in Client \ {c} : toServer'[d] = toServer[d]
    BY <1>1 DEF TypeOK
  <2> QED
    BY <2>1, <2>2
<1>5. /\ CountInv' /\ client_socket' \in Client \cup {None} /\ sequence' \in Seq(Line)
      /\ connection' \in [Client -> {"none", "open", "closed", "done"}]
      /\ \A d \in Client : connection[d] = "done" => connection'[d] = "done"
      /\ client_socket' = None /\ sequence' = <<>>
  BY <1>1, <1>2, <1>3, <1>4, CloseKeeps
<1>6. TypeOK'
  BY <1>1, <1>2, <1>3, <1>5 DEF TypeOK, users
<1>7. LeavingIsHarmless'
  BY <1>2, <1>5, HarmlessKeeps DEF IInv, users
<1>8. ServerInv'
  BY <1>2, <1>5 DEF IInv, ServerInv
<1> QED
  BY <1>5, <1>6, <1>7, <1>8 DEF IInv

\* The connection is closed with nothing received or sent.
LEMMA EndKeeps ==
  ASSUME IInv, NEW c \in Client, InvalidCommand(c) \/ Kill(c) \/ SendFails(c)
  PROVE  IInv'
<1> USE DEF InvalidCommand, Kill, SendFails, listVars
<1>1. TypeOK
  BY DEF IInv
<1>2. /\ Close(c) /\ client_socket = c /\ UNCHANGED <<net, users, backlog>>
  OBVIOUS
<1>3. locations' \in Seq(Point2D_t)
  <2>1. CASE SendFails(c)
    <3>1. Head(sequence) \in Line
      BY <1>1, <2>1 DEF TypeOK
    <3> QED
      BY <1>1, <2>1, <3>1, OperateType DEF TypeOK
  <2> QED
    BY <1>1, <2>1 DEF TypeOK
<1>4. server_closed' \in BOOLEAN /\ failed' \in BOOLEAN
  BY <1>1 DEF TypeOK
<1>5. /\ toServer' = toServer /\ toClient' = toClient /\ UNCHANGED users
      /\ toServer \in [Client -> Seq(Line)]
      /\ \A d \in Client : Len(toServer'[d]) <= Len(toServer[d])
  <2>1. \A d \in Client : Len(toServer[d]) \in Nat
    BY <1>1, Numbers
  <2> QED
    BY <1>1, <1>2, <2>1 DEF net, TypeOK
<1>6. /\ CountInv' /\ client_socket' \in Client \cup {None} /\ sequence' \in Seq(Line)
      /\ connection' \in [Client -> {"none", "open", "closed", "done"}]
      /\ \A d \in Client : connection[d] = "done" => connection'[d] = "done"
      /\ client_socket' = None /\ sequence' = <<>>
  BY <1>2, <1>5, CloseKeeps
<1>7. TypeOK'
  BY <1>1, <1>2, <1>3, <1>4, <1>5, <1>6 DEF TypeOK, users
<1>8. ServerInv'
  BY <1>6 DEF IInv, ServerInv
\* SendFails: an answer is unread and a line still to serve, and both are counted.
<1>9. LeavingIsHarmless'
  <2>1. CASE SendFails(c)
    <3>1. connection[c] = "done" /\ toClient[c] # <<>> /\ sequence # <<>>
      BY <2>1 DEF Reset
    <3>2. Len(toClient[c]) > 0 /\ Rest(c) > 0
      BY <1>1, <1>2, <3>1 DEF TypeOK, Rest
    <3>3. expected[c] > 1
      <4>1. expected[c] >= Len(toServer[c]) + Rest(c) + Len(toClient[c])
        BY DEF IInv, CountInv
      <4>2. /\ expected[c] \in Nat /\ Rest(c) \in Nat
            /\ Len(toServer[c]) \in Nat /\ Len(toClient[c]) \in Nat
        BY <1>1, Numbers
      <4> QED
        BY <3>2, <4>1, <4>2, Sums
    <3>4. connection'[c] = "done" /\ expected' = expected
      BY <1>5, <1>6, <3>1 DEF users
    <3>5. expected'[c] > 1
      BY <3>3, <3>4
    <3> HIDE DEF InvalidCommand, Kill, SendFails
    <3> QED
      BY <3>4, <3>5 DEF LeavingIsHarmless
  <2>2. CASE InvalidCommand(c) \/ Kill(c)
    <3>1. failed' = failed
      BY <2>2
    <3>2. \A d \in Client : connection[d] = "done" =>
            connection'[d] = "done" /\ expected'[d] = expected[d]
      BY <1>5, <1>6 DEF users
    <3> HIDE DEF InvalidCommand, Kill, SendFails
    <3> QED
      BY <3>1, <3>2, HarmlessKeeps DEF IInv
  <2> QED
    BY <2>1, <2>2
<1> QED
  BY <1>6, <1>7, <1>8, <1>9 DEF IInv

LEMMA SkipEmptyKeeps ==
  ASSUME IInv, NEW c \in Client, SkipEmpty(c)
  PROVE  IInv'
<1> USE DEF SkipEmpty, listVars, net, users
<1>1. TypeOK
  BY DEF IInv
<1>2. /\ sequence' = Tail(sequence) /\ sequence' \in Seq(Line)
      /\ Len(sequence') = Len(sequence) - 1 /\ Len(sequence) \in Nat
  BY <1>1 DEF TypeOK
<1>3. TypeOK'
  BY <1>1, <1>2 DEF TypeOK
<1>4. \A d \in Client : Rest(d)' <= Rest(d) /\ Rest(d)' \in Nat
  BY <1>2 DEF Rest
<1>5. CountInv'
  <2>1. ASSUME NEW d \in Client
        PROVE  expected[d] >= Len(toServer[d]) + Rest(d)' + Len(toClient[d])
    <3>1. expected[d] >= Len(toServer[d]) + Rest(d) + Len(toClient[d])
      BY DEF IInv, CountInv
    <3>2. /\ expected[d] \in Nat /\ Rest(d) \in Nat
          /\ Len(toServer[d]) \in Nat /\ Len(toClient[d]) \in Nat
      BY <1>1, Numbers
    <3> HIDE DEF SkipEmpty
    <3> QED
      BY <1>4, <3>1, <3>2, Sums
  <2> QED
    BY <2>1 DEF CountInv
<1>6. LeavingIsHarmless'
  BY HarmlessKeeps DEF IInv
<1>7. ServerInv'
  BY ClientAssumption DEF IInv, ServerInv
<1> QED
  BY <1>3, <1>5, <1>6, <1>7 DEF IInv

LEMMA ServeKeeps ==
  ASSUME IInv, NEW c \in Client, Serve(c)
  PROVE  IInv'
<1> USE DEF Serve, users
<1>1. TypeOK
  BY DEF IInv
<1>2. /\ sequence' = Tail(sequence) /\ sequence' \in Seq(Line)
      /\ Len(sequence') = Len(sequence) - 1 /\ Len(sequence) \in Nat \ {0}
      /\ Head(sequence) \in Line
  BY <1>1 DEF TypeOK
<1>3. locations' \in Seq(Point2D_t) /\ status' \in AnswerType
  BY <1>1, <1>2, OperateType DEF TypeOK
<1>4. /\ toClient' \in [Client -> Seq(AnswerType)]
      /\ Len(toClient'[c]) = Len(toClient[c]) + 1
      /\ \A d \in Client \ {c} : toClient'[d] = toClient[d]
  BY <1>1, <1>3 DEF TypeOK
<1>5. TypeOK'
  BY <1>1, <1>2, <1>3, <1>4 DEF TypeOK
<1>6. /\ Rest(c) = Len(sequence) /\ Rest(c)' = Len(sequence) - 1
      /\ \A d \in Client \ {c} : Rest(d)' = Rest(d)
  BY <1>2 DEF Rest
<1>7. CountInv'
  <2>1. ASSUME NEW d \in Client
        PROVE  expected[d] >= Len(toServer[d]) + Rest(d)' + Len(toClient'[d])
    <3>1. expected[d] >= Len(toServer[d]) + Rest(d) + Len(toClient[d])
      BY DEF IInv, CountInv
    <3>2. CASE d = c
      <4>1. /\ expected[d] \in Nat /\ Rest(d) \in Nat
            /\ Len(toServer[d]) \in Nat /\ Len(toClient[d]) \in Nat
        BY <1>1, Numbers
      <4>2. Rest(d) > 0 /\ Rest(d)' = Rest(d) - 1 /\ Len(toClient'[d]) = Len(toClient[d]) + 1
        BY <1>2, <1>4, <1>6, <3>2
      <4>3. expected[d] >= Len(toServer[d]) + (Rest(d) - 1) + (Len(toClient[d]) + 1)
        BY <3>1, <4>1, <4>2, Sums
      <4> QED
        BY <4>2, <4>3
    <3>3. CASE d # c
      BY <1>4, <1>6, <3>1, <3>3
    <3> QED
      BY <3>2, <3>3
  <2> QED
    BY <2>1 DEF CountInv
<1>8. LeavingIsHarmless'
  BY HarmlessKeeps DEF IInv
<1>9. ServerInv'
  BY ClientAssumption DEF IInv, ServerInv
<1> QED
  BY <1>5, <1>7, <1>8, <1>9 DEF IInv

LEMMA NextIInv == IInv /\ [Next]_vars => IInv'
<1> SUFFICES ASSUME IInv, [Next]_vars
             PROVE  IInv'
  OBVIOUS
<1>1. CASE UNCHANGED vars
  <2> USE <1>1 DEF vars, listVars, server, net, users
  <2>1. TypeOK'
    BY DEF IInv, TypeOK
  <2>2. CountInv'
    BY DEF IInv, CountInv, Rest
  <2>3. (ServerInv /\ LeavingIsHarmless)'
    BY DEF IInv, ServerInv, LeavingIsHarmless
  <2> QED
    BY <2>1, <2>2, <2>3 DEF IInv
<1>2. CASE Server
  BY <1>2, AcceptKeeps, ReceiveMessageKeeps, ClientEndedKeeps, EndKeeps, SkipEmptyKeeps, ServeKeeps
     DEF Server
<1>3. ASSUME NEW c \in Client, Connect(c) \/ Enter(c) \/ Quit(c) \/ ClientProgram(c)
      PROVE  IInv'
  BY <1>3, ConnectKeeps, EnterKeeps, LeaveKeeps, ReceiveKeeps DEF ClientProgram
<1> QED
  BY <1>1, <1>2, <1>3 DEF Next

-----------------------------------------------------------------------------
(* Theorems *)

\* The invariant holds in every reachable state.
LEMMA Invariance == Spec => []IInv
<1>1. Init => IInv
  BY InitIInv
<1>2. IInv /\ [Next]_vars => IInv'
  BY NextIInv
<1> QED
  BY <1>1, <1>2, PTL DEF Spec

\* The state of the server and of its clients keeps its type; the answers are about
\* locations that parse_message lets through.
THEOREM TypeCorrect == Spec => []TypeOK
<1>1. IInv => TypeOK
  BY DEF IInv
<1> QED
  BY <1>1, Invariance, PTL

\* A client of server.c that is back at its prompt has no answer left to come, whatever
\* lines its user and the others entered and whoever left.
THEOREM StaysInStep == Spec => []InStep
<1>1. ASSUME IInv
      PROVE  InStep
  <2> SUFFICES ASSUME NEW c \in Client, connection[c] = "open", expected[c] = 0
               PROVE  /\ toServer[c] = <<>> /\ toClient[c] = <<>>
                      /\ client_socket = c => sequence = <<>>
    BY DEF InStep
  <2>1. TypeOK
    BY <1>1 DEF IInv
  <2>2. expected[c] >= Len(toServer[c]) + Rest(c) + Len(toClient[c])
    BY <1>1 DEF IInv, CountInv
  <2>3. Len(toServer[c]) = 0 /\ Rest(c) = 0 /\ Len(toClient[c]) = 0
    BY <2>1, <2>2, Numbers
  <2>4. toServer[c] \in Seq(Line) /\ toClient[c] \in Seq(AnswerType) /\ sequence \in Seq(Line)
    BY <2>1 DEF TypeOK
  <2> QED
    BY <2>3, <2>4 DEF Rest
<1> QED
  BY <1>1, Invariance, PTL

\* No client that leaves ends the server through a send that fails, unless it still waited
\* for two answers or more: client.c, which sends one line at a time, never does.
THEOREM LeavingDoesNoHarm == Spec => []LeavingIsHarmless
<1>1. IInv => LeavingIsHarmless
  BY DEF IInv
<1> QED
  BY <1>1, Invariance, PTL

=============================================================================

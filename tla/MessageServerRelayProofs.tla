----------------------- MODULE MessageServerRelayProofs -----------------------
(***************************************************************************)
(* Proofs about the relays of MessageServer: what is under way between the *)
(* server and the exhibitors while a message is relayed.  They rest on the *)
(* facts about the tables that MessageServerProofs proves.                 *)
(***************************************************************************)
EXTENDS MessageServerProofs

-----------------------------------------------------------------------------
(* The inductive invariant *)

\* An exhibitor registers as a displayer, an emitter as a sender.
Kinds ==
  /\ \A x \in Exhibitor : available_sockets[x] \notin SenderId
  /\ \A e \in Emitter : available_sockets[e] \notin DisplayerId

\* A connection not accepted yet holds its OI, and nothing has come back.
Pending(c) ==
  /\ cpc[c] = "oi" /\ toClient[c] = <<>>
  /\ Len(toServer[c]) = 1
  /\ toServer[c][1].src = Zero <=> c \in Exhibitor

Connections ==
  /\ \A i \in 1..Len(backlog) : Pending(backlog[i])
  /\ \A c \in Client : cpc[c] = "off" => toServer[c] = <<>> /\ toClient[c] = <<>>

Out(x) == cpc[x] \in {"bye", "left", "failed"}

\* All that the server may still read of x from position n on is its FLW.
FlwFrom(x, n) == \A i \in n..Len(toServer[x]) : toServer[x][i].type = "FLW"

\* Nothing is asked of exhibitor x: it is leaving, or waits for a message.
Idle(x) ==
  \/ Out(x) /\ FlwFrom(x, 1)
  \/ /\ toServer[x] = <<>>
     /\ \/ cpc[x] = "ready" /\ toClient[x] = <<>>
        \/ cpc[x] = "oi" /\ Len(toClient[x]) = 1

\* x has shown the message that is being relayed.
Seen(x) == job.type # "FLW" => <<job.sender, job.seq>> \in shown[x]

Asking == Forward(job.sender, job.type, job.at, job.seq)

\* The relay waits for exhibitor x: x is leaving, or the message is under way, or being
\* shown, or the answer is under way.
Asked(x) ==
  \/ Out(x) /\ FlwFrom(x, 1)
  \/ /\ toServer[x] = <<>>
     /\ \/ cpc[x] = "oi" /\ Len(toClient[x]) = 2 /\ toClient[x][2] = Asking
        \/ cpc[x] = "ready" /\ Len(toClient[x]) = 1 /\ toClient[x][1] = Asking
        \/ cpc[x] = "answer" /\ toClient[x] = <<>> /\ cur[x] = Asking /\ Seen(x)
  \/ /\ Seen(x) /\ x \notin ready
     /\ \/ cpc[x] = "ready" /\ toClient[x] = <<>> /\ Len(toServer[x]) = 1
        \/ Out(x) /\ Len(toServer[x]) > 0 /\ FlwFrom(x, 2)

Waited(x) == srv = "wait" /\ AtSock = x

Exhibitors ==
  \A x \in Exhibitor : Registered(x) => IF Waited(x) THEN Asked(x) ELSE Idle(x)

\* Who is still to be served in this round: exhibitors only when they leave.
Round ==
  srv \in {"round", "wait"} =>
    /\ \A c \in ready \ {SERVER_ID} : Registered(c)
    /\ \A x \in ready \cap Exhibitor : Out(x) /\ FlwFrom(x, 1)

\* The relay: its sender has had its turn, and the displayers it is past have shown
\* the message.
Relaying ==
  srv = "wait" =>
    /\ job.at \notin job.left
    /\ senders[job.sender].sock \notin ready
    /\ \A d \in job.targets \ (job.left \cup {job.at}) : Seen(displayers[d].sock)

\* A server that has crashed serves nobody any more.
Serving == srv # "crashed" => Connections /\ Exhibitors /\ Round /\ Relaying

\* Every client has a history, and requests go to clients.
Histories == DOMAIN shown = Client
Receivers == \A a \in acked : a.to \subseteq Client

RelayInv == Kinds /\ Histories /\ Serving /\ Receivers /\ AckedIsShown

LEMMA InitRelay == Init => RelayInv
<1> SUFFICES ASSUME Init PROVE RelayInv
  OBVIOUS
<1> USE DEF Init
<1>1. Kinds
  BY ServerAssumption DEF Kinds, Client
<1>2. Connections /\ Exhibitors
  BY DEF Connections, Exhibitors, Registered, Client
<1>3. Round /\ Relaying /\ Receivers /\ AckedIsShown
  BY DEF Round, Relaying, Receivers, AckedIsShown
<1>4. Histories
  BY DEF Histories
<1> QED
  BY <1>1, <1>2, <1>3, <1>4 DEF RelayInv, Serving

-----------------------------------------------------------------------------
(* Clients move *)

\* Nothing of client x changes.
Still(x) ==
  /\ cpc'[x] = cpc[x] /\ cur'[x] = cur[x] /\ shown'[x] = shown[x]
  /\ toServer'[x] = toServer[x] /\ toClient'[x] = toClient[x]

LEMMA StillIdle ==
  ASSUME NEW x, Still(x)
  PROVE  /\ Idle(x) => Idle(x)'
         /\ Out(x) /\ FlwFrom(x, 1) => (Out(x) /\ FlwFrom(x, 1))'
         /\ Pending(x) => Pending(x)'
BY DEF Still, Idle, Out, FlwFrom, Pending

LEMMA StillAsked ==
  ASSUME NEW x, Still(x), Asked(x), UNCHANGED job, ready' \subseteq ready
  PROVE  Asked(x)'
BY DEF Still, Asked, Out, FlwFrom, Seen, Asking

\* A client's step touches its own connection and the connections not accepted yet.
LEMMA OthersStill ==
  ASSUME TypeOK, Histories, NEW c \in Client, ClientProgram(c) \/ User(c),
         NEW x \in Client \ {c}
  PROVE  Still(x)
<1> USE DEF Still, TypeOK, Histories
<1>1. CASE Connect(c) \/ Request(c) \/ EmitterLeaves(c) \/ ExhibitorLeaves(c)
  <2>1. \E m : SendToServer(c, m)
    BY <1>1 DEF Connect, Request, EmitterLeaves, ExhibitorLeaves
  <2>2. toServer'[x] = toServer[x]
    BY <2>1 DEF SendToServer
  <2>3. cpc'[x] = cpc[x] /\ cur'[x] = cur[x] /\ UNCHANGED <<shown, toClient>>
    BY <1>1 DEF Connect, Request, EmitterLeaves, ExhibitorLeaves
  <2> QED
    BY <2>2, <2>3
<1>2. CASE Welcome(c) \/ GetReply(c) \/ GetGoodbye(c) \/ Show(c)
  <2>1. RecvFromServer(c) /\ UNCHANGED toServer
    BY <1>2 DEF Welcome, GetReply, GetGoodbye, Show
  <2>2. toClient'[x] = toClient[x]
    BY <2>1 DEF RecvFromServer
  <2>3. cur'[x] = cur[x] /\ cpc'[x] = cpc[x]
    BY <1>2 DEF Welcome, GetReply, GetGoodbye, Show
  <2>4. shown'[x] = shown[x]
    BY <1>2 DEF Welcome, GetReply, GetGoodbye, Show
  <2> QED
    BY <2>1, <2>2, <2>3, <2>4
<1>3. CASE Answer(c) \/ ServerLost(c)
  BY <1>3 DEF Answer, ServerLost, SendToServer
<1> QED
  BY <1>1, <1>2, <1>3 DEF ClientProgram, User

\* What a client's step leaves alone.
LEMMA ServerStill ==
  ASSUME NEW c \in Client, ClientProgram(c) \/ User(c)
  PROVE  /\ UNCHANGED <<available_sockets, senders, displayers, srv, ready, job, failure, acked>>
         /\ ~Connect(c) => UNCHANGED backlog
BY DEF ClientProgram, User, Connect, Request, EmitterLeaves, ExhibitorLeaves, Welcome,
   GetReply, GetGoodbye, Show, Answer, ServerLost, tables, server

\* What an exhibitor has shown stays shown.
LEMMA ShownGrows ==
  ASSUME Histories, Next
  PROVE  Histories' /\ \A x \in Client : shown[x] \subseteq shown'[x]
<1> USE DEF Histories
<1>1. ASSUME NEW c \in Client, Show(c)
      PROVE  Histories' /\ \A x \in Client : shown[x] \subseteq shown'[x]
  BY <1>1 DEF Show
<1>2. ASSUME NEW c \in Client, ClientProgram(c) \/ User(c), ~Show(c)
      PROVE  UNCHANGED shown
  BY <1>2 DEF ClientProgram, User, Connect, Request, EmitterLeaves, ExhibitorLeaves, Welcome,
     GetReply, GetGoodbye, Answer, ServerLost
<1>3. CASE ServerNext
  <2>1. UNCHANGED client
    BY <1>3 DEF ServerNext, Select, RelayNext, RelayDone, RelayFails, RelayLost, EndRelay, Crash,
       CreateDisplayer, CreateSender, RefuseClient, Accept, DisplayerFlw, ClientLost,
       RefuseRequest, StartRelay, LookupFails, RelayToNobody
  <2> QED
    BY <2>1 DEF client
<1> QED
  BY <1>1, <1>2, <1>3 DEF Next

\* The first message goes, the others move up.
LEMMA TailOf ==
  ASSUME NEW S, NEW s \in Seq(S), s # <<>>
  PROVE  /\ Tail(s) \in Seq(S) /\ Len(Tail(s)) = Len(s) - 1 /\ Len(s) \in Nat \ {0}
         /\ Head(s) = s[1]
         /\ \A i \in 1..Len(s) - 1 : Tail(s)[i] = s[i + 1]
         /\ Len(s) = 1 => Tail(s) = <<>>
<1>1. \A t \in Seq(S) : Len(t) = 0 => t = <<>>
  OBVIOUS
<1>2. Tail(s) \in Seq(S) /\ Len(Tail(s)) = Len(s) - 1 /\ Len(s) \in Nat \ {0}
  OBVIOUS
<1>3. Len(s) = 1 => Tail(s) = <<>>
  <2> SUFFICES ASSUME Len(s) = 1 PROVE Tail(s) = <<>>
    OBVIOUS
  <2>1. Len(Tail(s)) = 0
    BY <1>2
  <2> QED
    BY <1>1, <1>2, <2>1, Zenon
<1>4. Head(s) = s[1] /\ \A i \in 1..Len(s) - 1 : Tail(s)[i] = s[i + 1]
  OBVIOUS
<1> QED
  BY <1>2, <1>3, <1>4

LEMMA AppendOf ==
  ASSUME NEW S, NEW s \in Seq(S), NEW m \in S
  PROVE  /\ Append(s, m) \in Seq(S) /\ Len(Append(s, m)) = Len(s) + 1 /\ Len(s) \in Nat
         /\ Append(s, m)[Len(s) + 1] = m
         /\ \A i \in 1..Len(s) : Append(s, m)[i] = s[i]
OBVIOUS

\* An exhibitor that is leaving sends nothing more.
LEMMA OutStays ==
  ASSUME TypeOK, NEW x \in Exhibitor, ClientProgram(x) \/ User(x), srv # "crashed", Out(x)
  PROVE  Out(x)' /\ toServer' = toServer
<1> USE DEF Out, TypeOK, Client
<1>1. x \notin Emitter
  BY ServerAssumption
<1>2. GetGoodbye(x)
  BY <1>1 DEF ClientProgram, User, Connect, Request, EmitterLeaves, ExhibitorLeaves, Welcome,
     GetReply, Show, Answer, ServerLost
<1> QED
  BY <1>2 DEF GetGoodbye

LEMMA LeavingStays ==
  ASSUME TypeOK, NEW x \in Exhibitor, ClientProgram(x) \/ User(x), srv # "crashed",
         Out(x) /\ FlwFrom(x, 1)
  PROVE  (Out(x) /\ FlwFrom(x, 1))'
BY OutStays DEF FlwFrom

\* An exhibitor of which nothing is asked takes its welcome, or leaves.
LEMMA IdleMoves ==
  ASSUME TypeOK, NEW x \in Exhibitor, ClientProgram(x) \/ User(x), srv # "crashed", Idle(x)
  PROVE  Idle(x)'
<1>1. x \in Client /\ x \notin Emitter
  BY ServerAssumption DEF Client
<1>2. toClient[x] \in Seq(MessageType) /\ toServer[x] \in Seq(MessageType)
  BY <1>1 DEF TypeOK
<1>3. CASE Out(x) /\ FlwFrom(x, 1)
  BY <1>3, LeavingStays DEF Idle
<1>4. CASE toServer[x] = <<>> /\ cpc[x] = "ready" /\ toClient[x] = <<>>
  <2>1. ExhibitorLeaves(x)
    BY <1>1, <1>4 DEF ClientProgram, User, Connect, Request, EmitterLeaves, Welcome,
       GetReply, GetGoodbye, Show, Answer, ServerLost, RecvFromServer
  <2> DEFINE m == Message("FLW", client_id[x], SERVER_ID, 1)
  <2>2. toServer'[x] = Append(<<>>, m) /\ cpc'[x] = "bye" /\ m.type = "FLW"
    BY <1>1, <1>4, <2>1 DEF ExhibitorLeaves, SendToServer, Message, TypeOK
  <2> HIDE DEF m
  <2>3. toServer'[x] = <<m>>
    BY <2>2
  <2> QED
    BY <2>2, <2>3 DEF Idle, Out, FlwFrom
<1>5. CASE toServer[x] = <<>> /\ cpc[x] = "oi" /\ Len(toClient[x]) = 1
  <2>1. Welcome(x)
    BY <1>1, <1>5 DEF ClientProgram, User, Connect, Request, EmitterLeaves, ExhibitorLeaves,
       GetReply, GetGoodbye, Show, Answer, ServerLost
  <2>2. toClient[x] # <<>> /\ toClient'[x] = Tail(toClient[x]) /\ toServer'[x] = <<>>
    BY <1>1, <1>5, <2>1 DEF Welcome, RecvFromServer, TypeOK
  <2>3. toClient'[x] = <<>>
    BY <1>2, <1>5, <2>2, TailOf
  <2>4. cpc'[x] \in {"ready", "failed"}
    BY <1>1, <2>1 DEF Welcome, TypeOK
  <2>5. FlwFrom(x, 1)'
    BY <2>2 DEF FlwFrom
  <2> QED
    BY <2>2, <2>3, <2>4, <2>5 DEF Idle, Out
<1> QED
  BY <1>3, <1>4, <1>5 DEF Idle

\* An exhibitor that the relay waits for takes the message one step on, or leaves.
LEMMA AskedMoves ==
  ASSUME TypeOK, Waiting, Histories, Round, srv = "wait",
         NEW x \in Exhibitor, ClientProgram(x) \/ User(x), Asked(x)
  PROVE  Asked(x)'
<1>1. x \in Client /\ x \notin Emitter
  BY ServerAssumption DEF Client
<1>2. toClient[x] \in Seq(MessageType) /\ toServer[x] \in Seq(MessageType)
  BY <1>1 DEF TypeOK
<1>3. UNCHANGED <<job, ready>>
  BY <1>1, ServerStill
<1>4. job.type \in {"FLW", "MSG", "CREQ"} /\ Asking = Forward(job.sender, job.type, job.at, job.seq)
  BY DEF Waiting, Asking
<1>5. (Asking.src = job.sender /\ Asking.seq = job.seq /\ Asking.type # "FLW") \/ job.type = "FLW"
  BY <1>4 DEF Forward, Message
<1>6. Asking' = Asking /\ (Seen(x) => Seen(x)')
  BY <1>1, <1>3, ShownGrows DEF Asking, Seen, Next
<1>7. CASE Out(x) /\ FlwFrom(x, 1)
  BY <1>7, LeavingStays DEF Asked
<1>8. CASE toServer[x] = <<>> /\ cpc[x] = "oi" /\ Len(toClient[x]) = 2 /\ toClient[x][2] = Asking
  <2>1. Welcome(x)
    BY <1>1, <1>8 DEF ClientProgram, User, Connect, Request, EmitterLeaves, ExhibitorLeaves,
       GetReply, GetGoodbye, Show, Answer, ServerLost
  <2>2. toClient[x] # <<>> /\ toClient'[x] = Tail(toClient[x]) /\ toServer'[x] = <<>>
    BY <1>1, <1>8, <2>1 DEF Welcome, RecvFromServer, TypeOK
  <2>3. Len(toClient'[x]) = 1 /\ toClient'[x][1] = Asking
    BY <1>2, <1>8, <2>2, TailOf
  <2>4. cpc'[x] \in {"ready", "failed"}
    BY <1>1, <2>1 DEF Welcome, TypeOK
  <2>5. FlwFrom(x, 1)'
    BY <2>2 DEF FlwFrom
  <2> QED
    BY <1>6, <2>2, <2>3, <2>4, <2>5 DEF Asked, Out
\* Both before and after it shows the message, Ctrl-C sends FLW in place of the OK.
<1>9. ASSUME toServer[x] = <<>>, ExhibitorLeaves(x)
      PROVE  Asked(x)'
  <2> DEFINE m == Message("FLW", client_id[x], SERVER_ID, 1)
  <2>1. toServer'[x] = Append(<<>>, m) /\ cpc'[x] = "bye" /\ m.type = "FLW"
    BY <1>1, <1>9 DEF ExhibitorLeaves, SendToServer, Message, TypeOK
  <2> HIDE DEF m
  <2>2. toServer'[x] = <<m>>
    BY <2>1
  <2> QED
    BY <2>1, <2>2 DEF Asked, Out, FlwFrom
<1>10. CASE toServer[x] = <<>> /\ cpc[x] = "ready" /\ Len(toClient[x]) = 1 /\ toClient[x][1] = Asking
  <2>1. Show(x) \/ ExhibitorLeaves(x)
    BY <1>1, <1>10 DEF ClientProgram, User, Connect, Request, EmitterLeaves, Welcome,
       GetReply, GetGoodbye, Answer, ServerLost
  <2>2. CASE Show(x)
    <3>1. toClient[x] # <<>> /\ toClient'[x] = Tail(toClient[x]) /\ toServer'[x] = <<>>
      BY <1>1, <1>10, <2>2 DEF Show, RecvFromServer, TypeOK
    <3>2. toClient'[x] = <<>> /\ Head(toClient[x]) = Asking
      BY <1>2, <1>10, <3>1, TailOf
    <3>3. cur'[x] = Asking /\ cpc'[x] = "answer"
      BY <1>1, <2>2, <3>2 DEF Show, TypeOK
    <3>4. Seen(x)'
      BY <1>1, <1>3, <1>5, <2>2, <3>2 DEF Show, Histories, Seen
    <3> QED
      BY <1>6, <3>1, <3>2, <3>3, <3>4 DEF Asked
  <2> QED
    BY <1>9, <1>10, <2>1, <2>2
<1>11. CASE /\ toServer[x] = <<>> /\ cpc[x] = "answer" /\ toClient[x] = <<>>
            /\ cur[x] = Asking /\ Seen(x)
  <2>1. Answer(x) \/ ExhibitorLeaves(x)
    BY <1>1, <1>11 DEF ClientProgram, User, Connect, Request, EmitterLeaves, Welcome,
       GetReply, GetGoodbye, Show, ServerLost
  <2>2. CASE Answer(x)
    <3> DEFINE m == Message("OK", client_id[x], SERVER_ID, cur[x].seq)
    <3>1. toServer'[x] = Append(<<>>, m) /\ toClient'[x] = <<>>
      BY <1>1, <1>11, <2>2 DEF Answer, SendToServer, TypeOK
    <3>2. cpc'[x] \in {"left", "ready"}
      BY <1>1, <2>2 DEF Answer, TypeOK
    <3>3. x \notin ready
      BY <1>11 DEF Round, Out
    <3> HIDE DEF m
    <3>4. toServer'[x] = <<m>>
      BY <3>1
    <3> QED
      BY <1>3, <1>6, <1>11, <3>1, <3>2, <3>3, <3>4 DEF Asked, Out, FlwFrom
  <2> QED
    BY <1>9, <1>11, <2>1, <2>2
<1>12. CASE /\ Seen(x) /\ x \notin ready
            /\ cpc[x] = "ready" /\ toClient[x] = <<>> /\ Len(toServer[x]) = 1
  <2>1. ExhibitorLeaves(x)
    BY <1>1, <1>12 DEF ClientProgram, User, Connect, Request, EmitterLeaves, Welcome,
       GetReply, GetGoodbye, Show, Answer, ServerLost, RecvFromServer
  <2> DEFINE m == Message("FLW", client_id[x], SERVER_ID, 1)
  <2>2. toServer'[x] = Append(toServer[x], m) /\ cpc'[x] = "bye" /\ m.type = "FLW"
    BY <1>1, <2>1 DEF ExhibitorLeaves, SendToServer, Message, TypeOK
  <2>3. m \in MessageType
    BY <1>1, MessageIsTyped DEF TypeOK, Type, Id
  <2> HIDE DEF m
  <2>4. Len(toServer'[x]) = 2 /\ toServer'[x][2] = m
    BY <1>2, <1>12, <2>2, <2>3, AppendOf
  <2> QED
    BY <1>3, <1>6, <1>12, <2>2, <2>4 DEF Asked, Out, FlwFrom
<1>13. CASE /\ Seen(x) /\ x \notin ready
            /\ Out(x) /\ Len(toServer[x]) > 0 /\ FlwFrom(x, 2)
  <2>1. Out(x)' /\ toServer' = toServer
    BY <1>13, OutStays
  <2> QED
    BY <1>3, <1>6, <1>13, <2>1 DEF Asked, FlwFrom
<1> QED
  BY <1>7, <1>8, <1>10, <1>11, <1>12, <1>13 DEF Asked

\* Only a client that is not waiting to be accepted moves.
LEMMA BackloggedStill ==
  ASSUME Connections, srv # "crashed", NEW c \in Client, ClientProgram(c) \/ User(c)
  PROVE  \A i \in 1..Len(backlog) : backlog[i] # c
<1> SUFFICES ASSUME NEW i \in 1..Len(backlog), c = backlog[i] PROVE FALSE
  OBVIOUS
<1>1. cpc[c] = "oi" /\ toClient[c] = <<>>
  BY DEF Connections, Pending
<1> QED
  BY <1>1 DEF ClientProgram, User, Connect, Request, EmitterLeaves, ExhibitorLeaves, Welcome,
     GetReply, GetGoodbye, Show, Answer, ServerLost, RecvFromServer

LEMMA ClientConnections ==
  ASSUME TypeOK, Histories, Connections, srv # "crashed",
         NEW c \in Client, ClientProgram(c) \/ User(c)
  PROVE  Connections'
<1>1. \A x \in Client \ {c} : Still(x)
  BY OthersStill
<1>2. \A i \in 1..Len(backlog) : backlog[i] \in Client \ {c} /\ Pending(backlog[i])
  BY BackloggedStill DEF TypeOK, Connections
<1>3. \A x \in Client \ {c} : Pending(x) => Pending(x)'
  BY <1>1, StillIdle
<1>4. cpc'[c] # "off"
  BY DEF ClientProgram, User, Connect, Request, EmitterLeaves, ExhibitorLeaves, Welcome,
     GetReply, GetGoodbye, Show, Answer, ServerLost, TypeOK
<1>5. \A x \in Client : cpc'[x] = "off" => toServer'[x] = <<>> /\ toClient'[x] = <<>>
  BY <1>1, <1>4 DEF Still, Connections
<1>6. CASE Connect(c)
  <2>1. PICK src \in IF c \in Exhibitor THEN {Zero} ELSE {None} \cup DisplayerId :
          SendToServer(c, Message("OI", src, SERVER_ID, 0))
    BY <1>6 DEF Connect
  <2> DEFINE m == Message("OI", src, SERVER_ID, 0)
  <2>2. m.src = Zero <=> c \in Exhibitor
    BY <2>1, ServerAssumption DEF Message
  <2>3. toServer[c] = <<>> /\ toClient'[c] = <<>> /\ cpc'[c] = "oi"
    BY <1>6 DEF Connect, Connections, TypeOK
  <2>4. toServer'[c] = Append(<<>>, m)
    BY <2>1, <2>3 DEF SendToServer, TypeOK
  <2> HIDE DEF m
  <2>5. Len(toServer'[c]) = 1 /\ toServer'[c][1] = m
    BY <2>4
  <2>6. Pending(c)'
    BY <2>2, <2>3, <2>5 DEF Pending
  <2>7. backlog \in Seq(Client) /\ backlog' = Append(backlog, c)
    BY <1>6 DEF Connect, TypeOK
  <2>8. Len(backlog') = Len(backlog) + 1 /\ Len(backlog) \in Nat /\ backlog'[Len(backlog) + 1] = c
        /\ \A i \in 1..Len(backlog) : backlog'[i] = backlog[i]
    BY <2>7, AppendOf
  <2>9. ASSUME NEW i \in 1..Len(backlog') PROVE i \in 1..Len(backlog) \/ i = Len(backlog) + 1
    BY <2>8
  <2>10. ASSUME NEW i \in 1..Len(backlog'), NEW x, x = backlog'[i] PROVE Pending(x)'
    <3>1. CASE i \in 1..Len(backlog)
      BY <1>2, <1>3, <2>8, <2>10, <3>1
    <3>2. CASE i = Len(backlog) + 1
      BY <2>6, <2>8, <2>10, <3>2
    <3> QED
      BY <2>9, <3>1, <3>2
  <2>11. \A i \in 1..Len(backlog') : Pending(backlog[i])'
    BY <2>10 DEF Pending
  <2> QED
    BY <1>5, <2>11 DEF Connections
<1>7. CASE ~Connect(c)
  <2>1. UNCHANGED backlog
    BY <1>7, ServerStill
  <2>2. ASSUME NEW i \in 1..Len(backlog), NEW x, x = backlog[i] PROVE Pending(x)'
    BY <1>2, <1>3, <2>2
  <2>3. \A i \in 1..Len(backlog') : Pending(backlog[i])'
    BY <2>1, <2>2 DEF Pending
  <2> QED
    BY <1>5, <2>3 DEF Connections
<1> QED
  BY <1>6, <1>7

\* What is asked of the exhibitors stands while the clients move.
LEMMA ClientExhibitors ==
  ASSUME TypeOK, Waiting, Histories, Exhibitors, Round, srv # "crashed",
         NEW c \in Client, ClientProgram(c) \/ User(c)
  PROVE  Exhibitors' /\ Round'
<1>1. \A x \in Client \ {c} : Still(x)
  BY OthersStill
<1>2. UNCHANGED <<available_sockets, senders, displayers, srv, ready, job>>
  BY ServerStill
<1>3. \A x : (Registered(x)' <=> Registered(x)) /\ (Waited(x)' <=> Waited(x))
  BY <1>2 DEF Registered, Waited, AtSock
<1>4. ASSUME NEW x \in Exhibitor, Waited(x), Asked(x)
      PROVE  Asked(x)'
  <2>1. CASE x = c
    BY <1>4, <2>1, AskedMoves DEF Waited
  <2>2. CASE x # c
    <3>1. Still(x)
      BY <1>1, <2>2 DEF Client
    <3> QED
      BY <1>2, <1>4, <3>1, StillAsked
  <2> QED
    BY <2>1, <2>2
<1>5. ASSUME NEW x \in Exhibitor, Idle(x)
      PROVE  Idle(x)'
  <2>1. CASE x = c
    BY <1>5, <2>1, IdleMoves
  <2>2. CASE x # c
    <3>1. Still(x)
      BY <1>1, <2>2 DEF Client
    <3> QED
      BY <1>5, <3>1, StillIdle
  <2> QED
    BY <2>1, <2>2
<1>6. ASSUME NEW x \in Exhibitor, Out(x), FlwFrom(x, 1)
      PROVE  Out(x)' /\ FlwFrom(x, 1)'
  <2>1. CASE x = c
    BY <1>6, <2>1, LeavingStays
  <2>2. CASE x # c
    <3>1. Still(x)
      BY <1>1, <2>2 DEF Client
    <3> QED
      BY <1>6, <3>1, StillIdle
  <2> QED
    BY <2>1, <2>2
<1>7. Exhibitors'
  BY <1>3, <1>4, <1>5 DEF Exhibitors
<1>8. Round'
  BY <1>2, <1>3, <1>6 DEF Round
<1> QED
  BY <1>7, <1>8

LEMMA ClientServing ==
  ASSUME Inv, Histories, Serving, NEW c \in Client, ClientProgram(c) \/ User(c)
  PROVE  Serving'
<1> SUFFICES ASSUME srv' # "crashed" PROVE (Connections /\ Exhibitors /\ Round /\ Relaying)'
  BY DEF Serving
<1>1. UNCHANGED <<senders, displayers, srv, ready, job>>
  BY ServerStill
<1>2. Connections /\ Exhibitors /\ Round /\ Relaying
  BY <1>1 DEF Serving
<1>3. Connections' /\ Exhibitors' /\ Round'
  BY <1>1, <1>2, ClientConnections, ClientExhibitors DEF Inv
<1>4. ASSUME srv = "wait" PROVE Relaying'
  <2>1. \A x \in Client : shown[x] \subseteq shown'[x]
    BY ShownGrows DEF Next
  <2>2. \A d \in job.targets : displayers[d].sock \in Client
    BY <1>4, Entries DEF Inv, Waiting, JobType
  <2>3. \A d \in job.targets : Seen(displayers[d].sock) => Seen(displayers[d].sock)'
    BY <1>1, <2>1, <2>2 DEF Seen
  <2> QED
    BY <1>1, <1>2, <1>4, <2>3 DEF Relaying, Seen
<1>5. Relaying'
  BY <1>1, <1>4 DEF Relaying
<1> QED
  BY <1>3, <1>5

-----------------------------------------------------------------------------
(* The server moves *)

LEMMA KindsKeep ==
  ASSUME Kinds, \A c \in Client : available_sockets'[c] \in {available_sockets[c], None}
  PROVE  Kinds'
BY ServerAssumption DEF Kinds, Client

\* What is sent between the server and registered clients leaves the others alone.
LEMMA ConnectionsKeep ==
  ASSUME TypeOK, Fresh, Connections, UNCHANGED <<backlog, cpc>>,
         \A c \in Client : ~Registered(c) =>
           toServer'[c] = toServer[c] /\ toClient'[c] = toClient[c]
  PROVE  Connections'
<1>1. ASSUME NEW i \in 1..Len(backlog), NEW x, x = backlog[i] PROVE Pending(x)'
  <2>1. x \in Client /\ ~Registered(x) /\ Pending(x)
    BY <1>1 DEF TypeOK, Fresh, Connections
  <2> QED
    BY <2>1 DEF Pending
<1>2. \A i \in 1..Len(backlog') : Pending(backlog[i])'
  BY <1>1 DEF Pending
<1>3. \A c \in Client : cpc'[c] = "off" => toServer'[c] = <<>> /\ toClient'[c] = <<>>
  BY DEF Fresh, Connections
<1> QED
  BY <1>2, <1>3 DEF Connections

\* The socket of a displayer is an exhibitor's, and that of a sender an emitter's.
LEMMA SocketOf ==
  ASSUME TypeOK, Tables, Kinds
  PROVE  /\ \A d \in DisplayerId : displayers[d] # None =>
              /\ displayers[d].sock \in Exhibitor
              /\ available_sockets[displayers[d].sock] = d
              /\ Registered(displayers[d].sock)
         /\ \A s \in SenderId : senders[s] # None =>
              /\ senders[s].sock \in Emitter
              /\ available_sockets[senders[s].sock] = s
              /\ Registered(senders[s].sock)
<1>1. ASSUME NEW d \in DisplayerId, displayers[d] # None
      PROVE  /\ displayers[d].sock \in Exhibitor
             /\ available_sockets[displayers[d].sock] = d
             /\ Registered(displayers[d].sock)
  <2>1. displayers[d].sock \in Client
    BY <1>1, Entries
  <2>2. available_sockets[displayers[d].sock] = d
    BY <1>1, <2>1 DEF Tables, TablesAgree
  <2> QED
    BY <2>1, <2>2, ServerAssumption DEF Kinds, Client, Registered
<1>2. ASSUME NEW s \in SenderId, senders[s] # None
      PROVE  /\ senders[s].sock \in Emitter
             /\ available_sockets[senders[s].sock] = s
             /\ Registered(senders[s].sock)
  <2>1. senders[s].sock \in Client
    BY <1>2, Entries
  <2>2. available_sockets[senders[s].sock] = s
    BY <1>2, <2>1 DEF Tables, TablesAgree
  <2> QED
    BY <2>1, <2>2, ServerAssumption DEF Kinds, Client, Registered
<1> QED
  BY <1>1, <1>2

\* select reports an exhibitor only when it is leaving.
LEMMA SelectServing ==
  ASSUME Inv, Serving, Select
  PROVE  Serving'
<1>1. Connections /\ Exhibitors
  BY DEF Select, Serving
<1>2. /\ srv = "select" /\ srv' = "round"
      /\ ready' = {c \in Client : Registered(c) /\ (toServer[c] # <<>> \/ Gone(c))}
                    \cup (IF backlog # <<>> THEN {SERVER_ID} ELSE {})
      /\ UNCHANGED <<available_sockets, backlog, toServer, toClient, cpc, cur, shown>>
  BY DEF Select, tables, client
<1>3. Connections'
  BY <1>1, <1>2, ConnectionsKeep DEF Inv
<1>4. \A x \in Exhibitor : Still(x)
  BY <1>2 DEF Still
<1>5. Exhibitors'
  <2>1. ASSUME NEW x \in Exhibitor, Registered(x)' PROVE Idle(x)'
    <3>1. Idle(x)
      BY <1>1, <1>2, <2>1 DEF Exhibitors, Waited, Registered
    <3> QED
      BY <1>4, <3>1, StillIdle
  <2> QED
    BY <1>2, <2>1 DEF Exhibitors, Waited
<1>6. \A c \in ready' \ {SERVER_ID} : Registered(c)'
  BY <1>2 DEF Registered
<1>7. ASSUME NEW x \in ready' \cap Exhibitor PROVE Out(x)' /\ FlwFrom(x, 1)'
  <2>1. x \in Client /\ x # SERVER_ID
    BY ServerAssumption DEF Client
  <2>2. Registered(x) /\ (toServer[x] # <<>> \/ Gone(x))
    BY <1>2, <2>1
  <2>3. Idle(x)
    BY <1>1, <1>2, <2>2 DEF Exhibitors, Waited
  <2>4. Out(x) /\ FlwFrom(x, 1)
    BY <2>2, <2>3 DEF Idle, Gone
  <2> QED
    BY <1>4, <2>4, StillIdle
<1>8. Round'
  BY <1>6, <1>7 DEF Round
<1> QED
  BY <1>2, <1>3, <1>5, <1>8 DEF Serving, Relaying

\* A turn is over: the client served is an emitter, or is registered no more.
LEMMA TurnServing ==
  ASSUME Inv, Serving, NEW c \in Client, srv = "round", c \in ready, Registered(c),
         UNCHANGED <<cpc, backlog>>, ready' = ready \ {c}, srv' \in {"select", "round"},
         \A x \in Client \ {c} : Still(x) /\ available_sockets'[x] = available_sockets[x],
         c \in Exhibitor => ~Registered(c)'
  PROVE  Serving'
<1>1. Connections /\ Exhibitors /\ Round
  BY DEF Serving
<1>2. Connections'
  BY <1>1, ConnectionsKeep DEF Inv, Still
<1>3. ASSUME NEW x \in Exhibitor, Registered(x)' PROVE Idle(x)'
  <2>1. x \in Client \ {c}
    BY <1>3 DEF Client
  <2>2. Still(x) /\ Idle(x)
    BY <1>1, <1>3, <2>1 DEF Exhibitors, Waited, Registered
  <2> QED
    BY <2>2, StillIdle
<1>4. Exhibitors'
  BY <1>3 DEF Exhibitors, Waited
<1>5. \A b \in ready' \ {SERVER_ID} : Registered(b)'
  BY <1>1 DEF Inv, TypeOK, Round, Registered
<1>6. ASSUME NEW x \in ready' \cap Exhibitor PROVE Out(x)' /\ FlwFrom(x, 1)'
  <2>1. x \in Client \ {c} /\ Out(x) /\ FlwFrom(x, 1)
    BY <1>1 DEF Round, Client
  <2>2. Still(x)
    BY <2>1
  <2> QED
    BY <2>1, <2>2, StillIdle
<1>7. Round'
  BY <1>5, <1>6 DEF Round
<1> QED
  BY <1>2, <1>4, <1>7 DEF Serving, Relaying

\* What a turn leaves of the other clients.
LEMMA TurnStill ==
  ASSUME TypeOK, NEW c \in Client, NEW m, NEW x \in Client \ {c},
         RecvFromClient(c), SendToClient(c, m), UNCHANGED client
  PROVE  Still(x)
BY DEF TypeOK, RecvFromClient, SendToClient, client, Still

LEMMA TurnsServing ==
  ASSUME Inv, Kinds, Serving, NEW c \in Client,
         DisplayerFlw(c) \/ RefuseRequest(c) \/ RelayToNobody(c)
  PROVE  Serving'
<1>1. /\ srv = "round" /\ c \in ready /\ Registered(c) /\ RecvFromClient(c)
      /\ ready' = ready \ {c} /\ srv' \in {"select", "round"}
      /\ UNCHANGED <<cpc, backlog>> /\ UNCHANGED client
  BY DEF DisplayerFlw, RefuseRequest, RelayToNobody, SenderTurn, Turn, EndTurn, client
<1>2. \E m : SendToClient(c, m)
  BY DEF DisplayerFlw, RefuseRequest, RelayToNobody
<1>3. \A x \in Client \ {c} : Still(x)
  BY <1>1, <1>2, TurnStill DEF Inv
<1>4. /\ \A x \in Client \ {c} : available_sockets'[x] = available_sockets[x]
      /\ c \in Exhibitor => ~Registered(c)'
  <2>1. CASE DisplayerFlw(c)
    BY <2>1 DEF DisplayerFlw, Unregister, Registered
  <2>2. CASE RefuseRequest(c) \/ RelayToNobody(c)
    <3> DEFINE id == available_sockets[c]
    <3>1. id \in SenderId /\ c \notin Exhibitor
      BY <2>2 DEF RefuseRequest, RelayToNobody, SenderTurn, Kinds
    <3>2. senders[id].sock = c
      BY <3>1 DEF Inv, Tables, TablesAgree
    <3>3. \A x \in Client \ {c} : available_sockets'[x] = available_sockets[x]
      BY <2>2, <3>2 DEF RefuseRequest, RelayToNobody, Finish, Unregister, tables
    <3> QED
      BY <3>1, <3>3
  <2> QED
    BY <2>1, <2>2
<1> QED
  BY <1>1, <1>3, <1>4, TurnServing

\* A client that is accepted gets one answer to its OI.
LEMMA AcceptServing ==
  ASSUME Inv, Serving, NEW c \in Client,
         CreateDisplayer(c) \/ CreateSender(c) \/ RefuseClient(c)
  PROVE  Serving'
<1>1. Accept(c) /\ RecvFromClient(c) /\ srv = "round" /\ UNCHANGED client
  BY DEF CreateDisplayer, CreateSender, RefuseClient, Accept
<1>2. Connections /\ Exhibitors /\ Round
  BY <1>1 DEF Serving
<1>3. backlog \in Seq(Client) /\ backlog # <<>> /\ c = Head(backlog) /\ backlog' = Tail(backlog)
  BY <1>1 DEF Accept, Inv, TypeOK
<1>4. /\ Len(backlog') = Len(backlog) - 1 /\ Len(backlog) \in Nat \ {0} /\ c = backlog[1]
      /\ \A i \in 1..Len(backlog) - 1 : backlog'[i] = backlog[i + 1]
  BY <1>3, TailOf
<1>5. ~Registered(c) /\ Pending(c)
  BY <1>1, <1>2, <1>4, AcceptFresh DEF Inv, Connections
<1>6. PICK m \in MessageType : SendToClient(c, m)
  <2>1. Head(toServer[c]) \in MessageType
    BY <1>1, AcceptType DEF Inv
  <2>2. \A id \in displayer_ids \cup sender_ids : Message("OK", SERVER_ID, id, 0) \in MessageType
    BY MessageIsTyped DEF Inv, TypeOK, Type, Id
  <2>3. Message("ERRO", SERVER_ID, Head(toServer[c]).src, 0) \in MessageType
    BY <2>1, MessageIsTyped DEF MessageType, Type, Id
  <2> QED
    BY <2>2, <2>3 DEF CreateDisplayer, CreateSender, RefuseClient
<1>7. \A x \in Client \ {c} : Still(x) /\ available_sockets'[x] = available_sockets[x]
  <2>1. \A x \in Client \ {c} : Still(x)
    BY <1>1, <1>6, TurnStill DEF Inv
  <2>2. \A x \in Client \ {c} : available_sockets'[x] = available_sockets[x]
    BY DEF CreateDisplayer, CreateSender, RefuseClient, tables, Inv, TypeOK
  <2> QED
    BY <2>1, <2>2
<1>8. Idle(c)' /\ cpc'[c] = "oi"
  <2>1. toServer[c] \in Seq(MessageType) /\ toServer[c] # <<>> /\ toServer'[c] = Tail(toServer[c])
    BY <1>1 DEF RecvFromClient, Inv, TypeOK
  <2>2. toServer'[c] = <<>>
    BY <1>5, <2>1, TailOf DEF Pending
  <2>3. toClient'[c] = Append(<<>>, m)
    BY <1>5, <1>6 DEF Pending, SendToClient, Gone, Inv, TypeOK
  <2>4. Len(toClient'[c]) = 1 /\ cpc'[c] = "oi"
    BY <1>1, <1>5, <2>3 DEF Pending, client
  <2> QED
    BY <2>2, <2>4 DEF Idle
<1>9. Connections'
  <2>1. ASSUME NEW i \in 1..Len(backlog'), NEW x, x = backlog'[i] PROVE Pending(x)'
    <3>1. i + 1 \in 1..Len(backlog) /\ 1 \in 1..Len(backlog) /\ i + 1 # 1 /\ x = backlog[i + 1]
      BY <1>4, <2>1
    <3>2. x \in Client \ {c}
      BY <1>3, <1>4, <3>1 DEF Inv, Fresh
    <3>3. Pending(x) /\ Still(x)
      BY <1>2, <1>7, <3>1, <3>2 DEF Connections
    <3> QED
      BY <3>3, StillIdle
  <2>2. \A i \in 1..Len(backlog') : Pending(backlog[i])'
    BY <2>1 DEF Pending
  <2>3. \A x \in Client : cpc'[x] = "off" => toServer'[x] = <<>> /\ toClient'[x] = <<>>
    BY <1>2, <1>7, <1>8 DEF Connections, Still
  <2> QED
    BY <2>2, <2>3 DEF Connections
<1>10. ready' = ready \ {SERVER_ID} /\ srv' \in {"select", "round"}
  BY <1>1 DEF Accept, EndTurn
<1>11. ASSUME NEW x \in Exhibitor, Registered(x)' PROVE Idle(x)'
  <2>1. CASE x = c
    BY <1>8, <2>1
  <2>2. CASE x # c
    <3>1. Still(x) /\ Registered(x)
      BY <1>7, <1>11, <2>2 DEF Registered, Client
    <3>2. Idle(x)
      BY <1>1, <1>2, <3>1 DEF Exhibitors, Waited
    <3> QED
      BY <3>1, <3>2, StillIdle
  <2> QED
    BY <2>1, <2>2
<1>12. Exhibitors'
  BY <1>10, <1>11 DEF Exhibitors, Waited
<1>13. ASSUME NEW b \in ready \ {SERVER_ID}
       PROVE  b \in Client \ {c} /\ Registered(b)'
  <2>1. b \in Client /\ Registered(b)
    BY <1>1, <1>2 DEF Inv, TypeOK, Round
  <2> QED
    BY <1>5, <1>7, <2>1 DEF Registered
<1>14. ASSUME NEW x \in ready' \cap Exhibitor PROVE Out(x)' /\ FlwFrom(x, 1)'
  <2>1. Still(x) /\ Out(x) /\ FlwFrom(x, 1)
    BY <1>1, <1>2, <1>7, <1>10, <1>13 DEF Round
  <2> QED
    BY <2>1, StillIdle
<1>15. Round'
  BY <1>10, <1>13, <1>14 DEF Round
<1> QED
  BY <1>9, <1>10, <1>12, <1>15 DEF Serving, Relaying

\* An OI that names displayer 0 is an exhibitor's, and it registers as a displayer.
LEMMA KindsStep ==
  ASSUME Inv, Kinds, Serving, Next
  PROVE  Kinds'
<1> USE DEF Inv
<1>1. ASSUME NEW c \in Client, CreateDisplayer(c) \/ CreateSender(c)
      PROVE  Kinds'
  <2>1. srv = "round" /\ backlog # <<>> /\ c = Head(backlog)
    BY <1>1 DEF CreateDisplayer, CreateSender, Accept
  <2>2. Pending(c)
    <3>1. backlog \in Seq(Client) /\ c = backlog[1] /\ 1 \in 1..Len(backlog)
      BY <2>1 DEF TypeOK
    <3> QED
      BY <2>1, <3>1 DEF Serving, Connections
  <2>3. Head(toServer[c]).src = Zero <=> c \in Exhibitor
    <3>1. toServer[c] \in Seq(MessageType) /\ toServer[c] # <<>>
      BY <1>1 DEF CreateDisplayer, CreateSender, Accept, RecvFromClient, TypeOK
    <3>2. Head(toServer[c]) = toServer[c][1]
      BY <3>1, TailOf
    <3> QED
      BY <2>2, <3>2 DEF Pending
  <2>4. CASE CreateDisplayer(c)
    <3>1. PICK id \in displayer_ids : available_sockets' = [available_sockets EXCEPT ![c] = id]
      BY <2>4 DEF CreateDisplayer
    <3>2. c \in Exhibitor /\ c \notin Emitter /\ id \notin SenderId
      BY <2>3, <2>4, ServerAssumption DEF CreateDisplayer, TypeOK
    <3> QED
      BY <3>1, <3>2 DEF Kinds, TypeOK, Client
  <2>5. CASE CreateSender(c)
    <3>1. PICK id \in sender_ids : available_sockets' = [available_sockets EXCEPT ![c] = id]
      BY <2>5 DEF CreateSender
    <3>2. c \notin Exhibitor /\ id \notin DisplayerId
      BY <2>3, <2>5, ServerAssumption DEF CreateSender, TypeOK
    <3> QED
      BY <3>1, <3>2 DEF Kinds, TypeOK, Client
  <2> QED
    BY <1>1, <2>4, <2>5
<1>2. ASSUME NEW id, NEW type, NEW seq, NEW targets, Finish(id, type, seq, targets)
      PROVE  \A b \in Client : available_sockets'[b] \in {available_sockets[b], None}
  BY <1>2 DEF Finish, Unregister, tables
<1>3. CASE Select \/ RelayNext \/ RelayFails \/ RelayLost
  BY <1>3, KindsKeep DEF Select, RelayNext, RelayFails, RelayLost, Crash, tables
<1>4. CASE RelayDone
  BY <1>2, <1>4, KindsKeep DEF RelayDone
<1>5. ASSUME NEW c \in Client,
             \/ RefuseClient(c) \/ ClientLost(c)
             \/ RefuseRequest(c) \/ StartRelay(c) \/ LookupFails(c)
      PROVE  Kinds'
  BY <1>5, KindsKeep DEF RefuseClient, ClientLost, RefuseRequest, StartRelay, LookupFails,
     Crash, tables
<1>6. ASSUME NEW c \in Client, DisplayerFlw(c)
      PROVE  Kinds'
  BY <1>6, KindsKeep DEF DisplayerFlw, Unregister
<1>7. ASSUME NEW c \in Client, RelayToNobody(c)
      PROVE  Kinds'
  BY <1>2, <1>7, KindsKeep DEF RelayToNobody
<1>8. ASSUME NEW c \in Client, ClientProgram(c) \/ User(c)
      PROVE  Kinds'
  BY <1>8, ServerStill, KindsKeep
<1> QED
  BY <1>1, <1>3, <1>4, <1>5, <1>6, <1>7, <1>8 DEF Next, ServerNext

\* The message goes to a displayer of which nothing was asked.
LEMMA NowAsked ==
  ASSUME TypeOK, NEW y \in Exhibitor, Idle(y), UNCHANGED client, toServer'[y] = toServer[y],
         NEW m \in MessageType, m = Asking', SendToClient(y, m)
  PROVE  Asked(y)'
<1>1. y \in Client /\ toClient[y] \in Seq(MessageType) /\ UNCHANGED cpc
  BY DEF Client, TypeOK, client
<1>2. CASE Out(y) /\ FlwFrom(y, 1)
  <2>1. Out(y)' /\ FlwFrom(y, 1)'
    BY <1>1, <1>2 DEF Out, FlwFrom
  <2> QED
    BY <2>1 DEF Asked
<1>3. CASE toServer[y] = <<>> /\ ~Out(y)
  <2>1. toClient'[y] = Append(toClient[y], m)
    BY <1>1, <1>3 DEF SendToClient, Gone, Out, TypeOK
  <2>2. Len(toClient'[y]) = Len(toClient[y]) + 1 /\ toClient'[y][Len(toClient[y]) + 1] = m
    BY <1>1, <2>1, AppendOf
  <2>3. CASE cpc[y] = "ready" /\ toClient[y] = <<>>
    BY <1>1, <1>3, <2>2, <2>3 DEF Asked
  <2>4. CASE cpc[y] = "oi" /\ Len(toClient[y]) = 1
    BY <1>1, <1>3, <2>2, <2>4 DEF Asked
  <2> QED
    BY <1>2, <1>3, <2>3, <2>4 DEF Idle
<1> QED
  BY <1>2, <1>3 DEF Idle, Out

\* The server reads an answer: then nothing is asked of the exhibitor any more.
LEMMA Answered ==
  ASSUME TypeOK, NEW x \in Exhibitor, Asked(x), RecvFromClient(x), UNCHANGED client,
         toClient'[x] = toClient[x]
  PROVE  /\ Idle(x)'
         /\ \/ Head(toServer[x]).type = "FLW" /\ (Out(x) /\ FlwFrom(x, 1))'
            \/ Seen(x) /\ x \notin ready
<1>1. /\ x \in Client /\ toServer[x] \in Seq(MessageType) /\ toServer[x] # <<>>
      /\ toServer'[x] = Tail(toServer[x]) /\ UNCHANGED cpc
  BY DEF Client, TypeOK, RecvFromClient, client
<1>2. /\ Len(toServer'[x]) = Len(toServer[x]) - 1 /\ Len(toServer[x]) \in Nat \ {0}
      /\ Head(toServer[x]) = toServer[x][1]
      /\ \A i \in 1..Len(toServer[x]) - 1 : toServer'[x][i] = toServer[x][i + 1]
      /\ Len(toServer[x]) = 1 => toServer'[x] = <<>>
  BY <1>1, TailOf
<1>3. ASSUME Out(x), FlwFrom(x, 2) PROVE (Out(x) /\ FlwFrom(x, 1))' /\ Idle(x)'
  <2>1. Out(x)'
    BY <1>1, <1>3 DEF Out
  <2>2. FlwFrom(x, 1)'
    BY <1>2, <1>3 DEF FlwFrom
  <2> QED
    BY <2>1, <2>2 DEF Idle
<1>4. CASE Out(x) /\ FlwFrom(x, 1)
  <2>1. FlwFrom(x, 2) /\ Head(toServer[x]).type = "FLW"
    BY <1>2, <1>4 DEF FlwFrom
  <2> QED
    BY <1>3, <1>4, <2>1
<1>5. CASE Seen(x) /\ x \notin ready /\ cpc[x] = "ready" /\ toClient[x] = <<>> /\ Len(toServer[x]) = 1
  BY <1>1, <1>2, <1>5 DEF Idle
<1>6. CASE Seen(x) /\ x \notin ready /\ Out(x) /\ FlwFrom(x, 2)
  BY <1>3, <1>6
<1> QED
  BY <1>1, <1>4, <1>5, <1>6 DEF Asked

\* A relay starts with a displayer of which nothing is asked, after its sender's turn.
LEMMA StartServing ==
  ASSUME Inv, Kinds, Serving, NEW c \in Client, StartRelay(c)
  PROVE  Serving'
<1> DEFINE id == available_sockets[c]
           m  == Head(toServer[c])
<1>1. /\ srv = "round" /\ c \in ready /\ Registered(c) /\ RecvFromClient(c)
      /\ id \in SenderId /\ Served(id, m) /\ \A d \in Targets(id, m) : displayers[d] # None
      /\ ready' = ready \ {c} /\ UNCHANGED <<cpc, backlog, shown, senders, displayers, available_sockets>>
      /\ UNCHANGED client /\ srv' = "wait"
  BY DEF StartRelay, SenderTurn, Turn, client, tables
<1>2. PICK d \in Targets(id, m) :
        /\ SendToClient(displayers[d].sock, Forward(id, m.type, d, m.seq))
        /\ job' = [sender |-> id, type |-> m.type, seq |-> m.seq,
                   targets |-> Targets(id, m), at |-> d, left |-> Targets(id, m) \ {d}]
  BY DEF StartRelay
<1>3. senders[id] # None /\ senders[id].sock = c /\ m \in MessageType
  BY <1>1, RecvFromClientType DEF Inv, Tables, TablesAgree
<1>4. Targets(id, m) \in SUBSET DisplayerId
  BY <1>1, <1>3, TargetsType DEF Inv
<1> PICK y, f : y = displayers[d].sock /\ f = Forward(id, m.type, d, m.seq)
  OBVIOUS
<1>5. d \in DisplayerId /\ y \in Exhibitor /\ Registered(y) /\ available_sockets[y] = d
  BY <1>1, <1>2, <1>4, SocketOf DEF Inv
<1>6. c \notin Exhibitor /\ y # c
  BY <1>1, <1>5 DEF Kinds
<1>7. f \in MessageType
  BY <1>1, <1>3, <1>5, ForwardType DEF Served, MessageType
<1>8. /\ job'.sender = id /\ job'.type = m.type /\ job'.seq = m.seq /\ job'.at = d
      /\ job'.targets = Targets(id, m) /\ job'.left = Targets(id, m) \ {d}
  BY <1>2
<1>9. f = Asking'
  BY <1>8 DEF Asking
<1>10. AtSock' = y
  BY <1>1, <1>8 DEF AtSock
<1>11. SendToClient(y, f)
  BY <1>2
<1> HIDE DEF id, m
<1>12. /\ \A x \in Client \ {c} : toServer'[x] = toServer[x]
       /\ \A x \in Client \ {y} : toClient'[x] = toClient[x]
  BY <1>1, <1>11 DEF RecvFromClient, SendToClient, Inv, TypeOK
<1>13. Connections /\ Exhibitors /\ Round
  BY <1>1 DEF Serving
<1>14. Connections'
  BY <1>1, <1>5, <1>12, <1>13, ConnectionsKeep DEF Inv
<1>15. \A x \in Client \ {c, y} : Still(x)
  BY <1>1, <1>12 DEF Still, client
<1>16. Asked(y)'
  <2>1. Idle(y) /\ toServer'[y] = toServer[y]
    BY <1>1, <1>5, <1>6, <1>12, <1>13 DEF Exhibitors, Waited, Client
  <2> QED
    BY <1>1, <1>5, <1>7, <1>9, <1>11, <2>1, NowAsked DEF Inv
<1>17. ASSUME NEW x \in Exhibitor, x # y, Registered(x) PROVE Idle(x)'
  <2>1. Still(x) /\ Idle(x)
    BY <1>1, <1>6, <1>13, <1>15, <1>17 DEF Exhibitors, Waited, Client
  <2> QED
    BY <2>1, StillIdle
<1>18. Exhibitors'
  <2>1. ASSUME NEW x \in Exhibitor, Registered(x)'
        PROVE  IF Waited(x)' THEN Asked(x)' ELSE Idle(x)'
    <3>1. Registered(x) /\ (Waited(x)' <=> x = y)
      BY <1>1, <1>10, <2>1 DEF Registered, Waited
    <3> QED
      BY <1>16, <1>17, <3>1
  <2> QED
    BY <2>1 DEF Exhibitors
<1>19. \A b \in ready' \ {SERVER_ID} : Registered(b)'
  BY <1>1, <1>13 DEF Round, Registered
<1>20. ASSUME NEW x \in ready' \cap Exhibitor PROVE Out(x)' /\ FlwFrom(x, 1)'
  <2>1. Out(x) /\ FlwFrom(x, 1) /\ x \in Client \ {c}
    BY <1>1, <1>6, <1>13 DEF Round, Client
  <2>2. toServer'[x] = toServer[x]
    BY <1>12, <2>1
  <2> QED
    BY <1>1, <2>1, <2>2 DEF Out, FlwFrom
<1>21. Round'
  BY <1>19, <1>20 DEF Round
<1>22. Relaying'
  BY <1>1, <1>3, <1>8 DEF Relaying
<1> QED
  BY <1>14, <1>18, <1>21, <1>22 DEF Serving

\* The displayer the relay waits for, and the sender it serves.
LEMMA RelayOf ==
  ASSUME Inv, Kinds, Serving, srv = "wait"
  PROVE  /\ Connections /\ Exhibitors /\ Round /\ Relaying
         /\ job.at \in DisplayerId /\ available_sockets[AtSock] = job.at
         /\ AtSock \in Exhibitor /\ Registered(AtSock) /\ Asked(AtSock)
         /\ senders[job.sender].sock \in Emitter /\ Registered(senders[job.sender].sock)
         /\ senders[job.sender].sock \notin ready
<1>1. Connections /\ Exhibitors /\ Round /\ Relaying
  BY DEF Serving
<1>2. /\ job.at \in DisplayerId /\ displayers[job.at] # None
      /\ job.sender \in SenderId /\ senders[job.sender] # None
  BY DEF Inv, Waiting, JobType
<1>3. /\ AtSock \in Exhibitor /\ Registered(AtSock) /\ available_sockets[AtSock] = job.at
      /\ senders[job.sender].sock \in Emitter /\ Registered(senders[job.sender].sock)
  BY <1>2, SocketOf DEF Inv, AtSock
<1>4. Asked(AtSock)
  BY <1>1, <1>3 DEF Exhibitors, Waited
<1> QED
  BY <1>1, <1>2, <1>3, <1>4 DEF Relaying

\* A relay that ends asks nothing more of anybody; whom it unregisters has had its turn.
LEMMA EndServing ==
  ASSUME Inv, Kinds, Serving, srv = "wait",
         RecvFromClient(AtSock), NEW m, SendToClient(senders[job.sender].sock, m),
         UNCHANGED <<client, backlog, ready>>, srv' \in {"select", "round"},
         \A x \in Client : \/ available_sockets'[x] = available_sockets[x]
                           \/ available_sockets'[x] = None /\ x \notin ready
  PROVE  Serving'
<1> PICK a, s : a = AtSock /\ s = senders[job.sender].sock
  OBVIOUS
<1>1. /\ Connections /\ Exhibitors /\ Round
      /\ a \in Exhibitor /\ Registered(a) /\ Asked(a)
      /\ s \in Emitter /\ Registered(s)
  BY RelayOf
<1>2. s # a /\ s \notin Exhibitor /\ \A x \in Exhibitor : x \in Client
  BY <1>1, ServerAssumption DEF Client
<1>3. /\ \A x \in Client \ {a} : toServer'[x] = toServer[x]
      /\ \A x \in Client \ {s} : toClient'[x] = toClient[x]
  BY <1>1 DEF RecvFromClient, SendToClient, Inv, TypeOK
<1>4. Connections'
  BY <1>1, <1>3, ConnectionsKeep DEF Inv, client
<1>5. \A x \in Exhibitor \ {a} : Still(x)
  BY <1>2, <1>3 DEF Still, client
<1>6. Idle(a)' /\ (a \in ready => (Out(a) /\ FlwFrom(a, 1))')
  BY <1>1, <1>2, <1>3, Answered DEF Inv
<1>7. ASSUME NEW x \in Exhibitor, Registered(x)' PROVE Idle(x)'
  <2>1. CASE x = a
    BY <1>6, <2>1
  <2>2. CASE x # a
    <3>1. Registered(x) /\ ~Waited(x)
      BY <1>2, <1>7, <2>2 DEF Registered, Waited
    <3>2. Still(x) /\ Idle(x)
      BY <1>1, <1>5, <2>2, <3>1 DEF Exhibitors
    <3> QED
      BY <3>2, StillIdle
  <2> QED
    BY <2>1, <2>2
<1>8. Exhibitors'
  BY <1>7 DEF Exhibitors, Waited
<1>9. \A b \in ready' \ {SERVER_ID} : Registered(b)'
  BY <1>1 DEF Round, Registered, Inv, TypeOK
<1>10. ASSUME NEW x \in ready' \cap Exhibitor PROVE Out(x)' /\ FlwFrom(x, 1)'
  <2>1. CASE x = a
    BY <1>6, <2>1
  <2>2. CASE x # a
    <3>1. Still(x) /\ Out(x) /\ FlwFrom(x, 1)
      BY <1>1, <1>5, <2>2 DEF Round
    <3> QED
      BY <3>1, StillIdle
  <2> QED
    BY <2>1, <2>2
<1>11. Round'
  BY <1>9, <1>10 DEF Round
<1> QED
  BY <1>4, <1>8, <1>11 DEF Serving, Relaying

LEMMA FailsServing ==
  ASSUME Inv, Kinds, Serving, RelayFails
  PROVE  Serving'
<1>1. /\ srv = "wait" /\ RecvFromClient(AtSock) /\ UNCHANGED <<client, backlog, ready>>
      /\ srv' \in {"select", "round"} /\ UNCHANGED available_sockets
  BY DEF RelayFails, EndRelay, tables
<1>2. \E m : SendToClient(senders[job.sender].sock, m)
  BY DEF RelayFails
<1> QED
  BY <1>1, <1>2, EndServing

\* The displayer answered OK: it has shown the message, and has had its turn.
LEMMA AtHasShown ==
  ASSUME Inv, Kinds, Serving, srv = "wait", NEW a, a = AtSock, RecvFromClient(a),
         IsExpectedOk(Head(toServer[a])), UNCHANGED client, toClient'[a] = toClient[a]
  PROVE  Idle(a)' /\ Seen(a) /\ a \notin ready
<1>1. a \in Exhibitor /\ Asked(a)
  BY RelayOf
<1>2. Head(toServer[a]).type = "OK"
  BY DEF IsExpectedOk, Message
<1> QED
  BY <1>1, <1>2, Answered DEF Inv

LEMMA DoneServing ==
  ASSUME Inv, Kinds, Serving, Receivers, AckedIsShown, RelayDone
  PROVE  Serving' /\ Receivers' /\ AckedIsShown'
<1> PICK a, s : a = AtSock /\ s = senders[job.sender].sock
  OBVIOUS
<1>1. /\ srv = "wait" /\ RecvFromClient(a) /\ UNCHANGED <<client, backlog, ready>>
      /\ srv' \in {"select", "round"} /\ job.left = {} /\ UNCHANGED shown
      /\ IsExpectedOk(Head(toServer[a]))
      /\ Finish(job.sender, job.type, job.seq, job.targets)
  BY DEF RelayDone, EndRelay, client
<1>2. PICK m : SendToClient(s, m)
  BY DEF RelayDone
<1>3. /\ Relaying /\ a \in Exhibitor /\ s \in Emitter /\ s # a /\ s \notin ready
      /\ job.at \in DisplayerId
  BY <1>1, RelayOf, ServerAssumption
<1>4. toClient'[a] = toClient[a]
  BY <1>2, <1>3 DEF SendToClient, Inv, TypeOK, Client
<1>5. Seen(a) /\ a \notin ready
  BY <1>1, <1>4, AtHasShown
<1>6. CASE job.type = "FLW"
  <2>1. {displayers[d].sock : d \in job.targets} = {a}
    <3>1. job.targets = {job.at}
      BY <1>1, <1>6 DEF Inv, Waiting
    <3> QED
      BY <3>1 DEF AtSock
  <2>2. \A x \in Client : available_sockets'[x] =
          IF x \in {s} \cup {a} THEN None ELSE available_sockets[x]
    BY <1>1, <1>6, <2>1 DEF Finish, Unregister
  <2>3. \A x \in Client : \/ available_sockets'[x] = available_sockets[x]
                          \/ available_sockets'[x] = None /\ x \notin ready
    BY <1>3, <1>5, <2>2
  <2>4. Serving'
    BY <1>1, <1>2, <2>3, EndServing
  <2>5. Receivers' /\ AckedIsShown'
    BY <1>1, <1>6 DEF Finish, Receivers, AckedIsShown
  <2> QED
    BY <2>4, <2>5
<1>7. CASE job.type # "FLW"
  <2> DEFINE new == [sender |-> job.sender, seq |-> job.seq,
                     to |-> {displayers[d].sock : d \in job.targets}]
  <2>1. acked' = acked \cup {new} /\ UNCHANGED available_sockets
    BY <1>1, <1>7 DEF Finish, tables
  <2>2. Serving'
    BY <1>1, <1>2, <2>1, EndServing
  <2>3. \A d \in job.targets : Seen(displayers[d].sock)
    BY <1>1, <1>3, <1>5 DEF Relaying, AtSock
  <2>4. \A c \in new.to : <<new.sender, new.seq>> \in shown[c]
    BY <1>7, <2>3 DEF Seen
  <2>5. new.to \subseteq Client
    BY <1>1, Entries DEF Inv, Waiting, JobType
  <2> HIDE DEF new
  <2>6. Receivers' /\ AckedIsShown'
    BY <1>1, <2>1, <2>4, <2>5 DEF Receivers, AckedIsShown
  <2> QED
    BY <2>2, <2>6
<1> QED
  BY <1>6, <1>7

\* The relay goes on to a displayer of which nothing is asked yet.
LEMMA NextServing ==
  ASSUME Inv, Kinds, Serving, RelayNext
  PROVE  Serving'
<1> PICK a, s : a = AtSock /\ s = senders[job.sender].sock
  OBVIOUS
<1>1. /\ srv = "wait" /\ RecvFromClient(a) /\ IsExpectedOk(Head(toServer[a]))
      /\ UNCHANGED <<client, backlog, ready, srv, shown>>
      /\ UNCHANGED <<available_sockets, senders, displayers>>
  BY DEF RelayNext, client, tables
<1>2. PICK d \in job.left :
        /\ SendToClient(displayers[d].sock, Forward(job.sender, job.type, d, job.seq))
        /\ job' = [job EXCEPT !.at = d, !.left = @ \ {d}]
  BY DEF RelayNext
<1> PICK y, f : y = displayers[d].sock /\ f = Forward(job.sender, job.type, d, job.seq)
  OBVIOUS
<1>3. /\ Connections /\ Exhibitors /\ Round /\ Relaying
      /\ a \in Exhibitor /\ Registered(a) /\ available_sockets[a] = job.at
      /\ s \notin ready
  BY <1>1, RelayOf
<1>4. /\ job \in JobType /\ job.type \in {"FLW", "MSG", "CREQ"}
      /\ d \in DisplayerId /\ displayers[d] # None /\ d # job.at
  BY <1>1, <1>3 DEF Inv, Waiting, JobType, Relaying
<1>5. /\ y \in Exhibitor /\ Registered(y) /\ available_sockets[y] = d /\ y # a
  BY <1>3, <1>4, SocketOf DEF Inv
<1>6. /\ job'.sender = job.sender /\ job'.type = job.type /\ job'.seq = job.seq
      /\ job'.targets = job.targets /\ job'.at = d /\ job'.left = job.left \ {d}
  BY <1>2, <1>4 DEF JobType
<1>7. f \in MessageType
  BY <1>4, ForwardType DEF JobType
<1>8. f = Asking'
  BY <1>6 DEF Asking
<1>9. AtSock' = y
  BY <1>1, <1>6 DEF AtSock
<1>10. SendToClient(y, f)
  BY <1>2
<1>11. /\ \A x \in Client \ {a} : toServer'[x] = toServer[x]
       /\ \A x \in Client \ {y} : toClient'[x] = toClient[x]
  BY <1>1, <1>10 DEF RecvFromClient, SendToClient, Inv, TypeOK
<1>12. Idle(a)' /\ Seen(a) /\ a \notin ready
  BY <1>1, <1>3, <1>5, <1>11, AtHasShown DEF Client
<1>13. Connections'
  BY <1>1, <1>3, <1>5, <1>11, ConnectionsKeep DEF Inv, client
<1>14. \A x \in Exhibitor \ {a, y} : Still(x)
  BY <1>1, <1>11 DEF Still, client, Client
<1>15. Asked(y)'
  <2>1. Idle(y) /\ toServer'[y] = toServer[y]
    BY <1>3, <1>5, <1>11 DEF Exhibitors, Waited, Client
  <2> QED
    BY <1>1, <1>5, <1>7, <1>8, <1>10, <2>1, NowAsked DEF Inv
<1>16. ASSUME NEW x \in Exhibitor, x # y, Registered(x) PROVE Idle(x)'
  <2>1. CASE x = a
    BY <1>12, <2>1
  <2>2. CASE x # a
    <3>1. Still(x) /\ Idle(x)
      BY <1>3, <1>14, <1>16, <2>2 DEF Exhibitors, Waited
    <3> QED
      BY <3>1, StillIdle
  <2> QED
    BY <2>1, <2>2
<1>17. Exhibitors'
  <2>1. ASSUME NEW x \in Exhibitor, Registered(x)'
        PROVE  IF Waited(x)' THEN Asked(x)' ELSE Idle(x)'
    <3>1. Registered(x) /\ (Waited(x)' <=> x = y)
      BY <1>1, <1>9, <2>1 DEF Registered, Waited
    <3> QED
      BY <1>15, <1>16, <3>1
  <2> QED
    BY <2>1 DEF Exhibitors
<1>18. ASSUME NEW x \in ready' \cap Exhibitor PROVE Out(x)' /\ FlwFrom(x, 1)'
  <2>1. Out(x) /\ FlwFrom(x, 1) /\ x \in Client \ {a}
    BY <1>1, <1>3, <1>12 DEF Round, Client
  <2>2. toServer'[x] = toServer[x] /\ UNCHANGED cpc
    BY <1>1, <1>11, <2>1 DEF client
  <2> QED
    BY <2>1, <2>2 DEF Out, FlwFrom
<1>19. Round'
  BY <1>1, <1>3, <1>18 DEF Round, Registered
<1>20. Relaying'
  <2>1. \A t \in job.targets \ job.left : Seen(displayers[t].sock)
    BY <1>1, <1>3, <1>12 DEF Relaying, AtSock
  <2>2. \A t \in job.targets \ job.left : Seen(displayers[t].sock)'
    BY <1>1, <1>6, <2>1 DEF Seen
  <2> QED
    BY <1>1, <1>3, <1>6, <2>2 DEF Relaying, Seen
<1> QED
  BY <1>13, <1>17, <1>19, <1>20 DEF Serving

-----------------------------------------------------------------------------
(* The theorems *)

LEMMA ServingStep ==
  ASSUME Inv, RelayInv, Next
  PROVE  Serving' /\ Receivers' /\ AckedIsShown'
<1> USE DEF RelayInv
<1>1. ASSUME srv' = "crashed" \/ Serving', UNCHANGED acked
      PROVE  Serving' /\ Receivers' /\ AckedIsShown'
  <2>1. Serving'
    BY <1>1 DEF Serving
  <2>2. ASSUME NEW a \in acked, NEW c \in a.to PROVE <<a.sender, a.seq>> \in shown'[c]
    <3>1. <<a.sender, a.seq>> \in shown[c]
      BY DEF AckedIsShown
    <3>2. c \in Client
      BY DEF Receivers
    <3> QED
      BY <3>1, <3>2, ShownGrows
  <2> QED
    BY <1>1, <2>1, <2>2 DEF Receivers, AckedIsShown
<1>2. CASE Select \/ RelayNext \/ RelayFails
  <2>1. UNCHANGED acked
    BY <1>2 DEF Select, RelayNext, RelayFails
  <2> QED
    BY <1>1, <1>2, <2>1, SelectServing, NextServing, FailsServing
<1>3. CASE RelayDone
  BY <1>3, DoneServing
<1>4. CASE RelayLost
  BY <1>1, <1>4 DEF RelayLost, Crash
<1>5. ASSUME NEW c \in Client, ClientLost(c) \/ LookupFails(c)
      PROVE  Serving' /\ Receivers' /\ AckedIsShown'
  BY <1>1, <1>5 DEF ClientLost, LookupFails, Crash
<1>6. ASSUME NEW c \in Client, CreateDisplayer(c) \/ CreateSender(c) \/ RefuseClient(c)
      PROVE  Serving' /\ Receivers' /\ AckedIsShown'
  <2>1. UNCHANGED acked
    BY <1>6 DEF CreateDisplayer, CreateSender, RefuseClient, Accept
  <2> QED
    BY <1>1, <1>6, <2>1, AcceptServing
<1>7. ASSUME NEW c \in Client, DisplayerFlw(c) \/ RefuseRequest(c)
      PROVE  Serving' /\ Receivers' /\ AckedIsShown'
  <2>1. UNCHANGED acked
    BY <1>7 DEF DisplayerFlw, RefuseRequest
  <2> QED
    BY <1>1, <1>7, <2>1, TurnsServing
\* A broadcast to nobody is acknowledged, and there is nobody who must have shown it.
<1>8. ASSUME NEW c \in Client, RelayToNobody(c)
      PROVE  Serving' /\ Receivers' /\ AckedIsShown'
  <2>1. Serving'
    BY <1>8, TurnsServing
  <2>2. UNCHANGED shown
    BY <1>8 DEF RelayToNobody, client
  <2>3. \A a \in acked' : a \in acked \/ a.to = {}
    BY <1>8 DEF RelayToNobody, Finish
  <2> QED
    BY <2>1, <2>2, <2>3 DEF Receivers, AckedIsShown
<1>9. ASSUME NEW c \in Client, StartRelay(c)
      PROVE  Serving' /\ Receivers' /\ AckedIsShown'
  <2>1. UNCHANGED acked
    BY <1>9 DEF StartRelay
  <2> QED
    BY <1>1, <1>9, <2>1, StartServing
<1>10. ASSUME NEW c \in Client, ClientProgram(c) \/ User(c)
       PROVE  Serving' /\ Receivers' /\ AckedIsShown'
  <2>1. UNCHANGED acked
    BY <1>10, ServerStill
  <2> QED
    BY <1>1, <1>10, <2>1, ClientServing
<1> QED
  BY <1>2, <1>3, <1>4, <1>5, <1>6, <1>7, <1>8, <1>9, <1>10 DEF Next, ServerNext

LEMMA RelayStutter ==
  ASSUME RelayInv, UNCHANGED vars
  PROVE  RelayInv'
<1> USE DEF vars, tables, server, client
<1>1. Kinds' /\ Histories' /\ Receivers' /\ AckedIsShown'
  BY DEF RelayInv, Kinds, Histories, Receivers, AckedIsShown
<1>2. ASSUME Connections PROVE Connections'
  BY <1>2 DEF Connections, Pending
<1>3. ASSUME Exhibitors PROVE Exhibitors'
  <2>1. \A x : Idle(x)' <=> Idle(x)
    BY DEF Idle, Out, FlwFrom
  <2>2. Asking' = Asking /\ \A x : Seen(x)' <=> Seen(x)
    BY DEF Asking, Seen
  <2>3. \A x : Asked(x)' <=> Asked(x)
    BY <2>2 DEF Asked, Out, FlwFrom
  <2>4. \A x : (Registered(x)' <=> Registered(x)) /\ (Waited(x)' <=> Waited(x))
    BY DEF Registered, Waited, AtSock
  <2> QED
    BY <1>3, <2>1, <2>3, <2>4 DEF Exhibitors
<1>4. ASSUME Round PROVE Round'
  BY <1>4 DEF Round, Registered, Out, FlwFrom
<1>5. ASSUME Relaying PROVE Relaying'
  BY <1>5 DEF Relaying, Seen
<1>6. Serving'
  BY <1>2, <1>3, <1>4, <1>5 DEF RelayInv, Serving
<1> QED
  BY <1>1, <1>6 DEF RelayInv

LEMMA RelayInvariance == Spec => []RelayInv
<1>1. Inv /\ RelayInv /\ [Next]_vars => RelayInv'
  <2> SUFFICES ASSUME Inv, RelayInv, [Next]_vars PROVE RelayInv'
    OBVIOUS
  <2>1. CASE Next
    <3>1. Kinds'
      BY <2>1, KindsStep DEF RelayInv
    <3>2. Histories'
      BY <2>1, ShownGrows DEF RelayInv
    <3>3. Serving' /\ Receivers' /\ AckedIsShown'
      BY <2>1, ServingStep
    <3> QED
      BY <3>1, <3>2, <3>3 DEF RelayInv
  <2>2. CASE UNCHANGED vars
    BY <2>2, RelayStutter
  <2> QED
    BY <2>1, <2>2
<1> QED
  BY <1>1, InitRelay, Invariance, PTL DEF Spec

\* A request is acknowledged only after every displayer it went to has shown it: the OK
\* the server reads from a displayer is never the answer to an earlier relay.
THEOREM AcknowledgedMeansShown == Spec => []AckedIsShown
<1>1. RelayInv => AckedIsShown
  BY DEF RelayInv
<1> QED
  BY <1>1, RelayInvariance, PTL

\* No handler of a round finds its socket removed by an earlier one: the displayer that
\* a relay waits for, or removes with its sender, has nothing left to be served.
THEOREM RoundsAreCurrent == Spec => []RoundIsCurrent
<1>1. RelayInv => RoundIsCurrent
  BY DEF RelayInv, Serving, Round, RoundIsCurrent
<1> QED
  BY <1>1, RelayInvariance, PTL
=============================================================================

------------------------- MODULE MessageServerProofs -------------------------
(***************************************************************************)
(* Proofs about the tables of MessageServer, for any clients and any ids.  *)
(***************************************************************************)
EXTENDS MessageServer, TLAPS

-----------------------------------------------------------------------------
(* Types *)

LEMMA MessageIsTyped ==
  ASSUME NEW type \in Type, NEW src \in Id, NEW dst \in Id, NEW seq \in Nat
  PROVE  Message(type, src, dst, seq) \in MessageType
BY DEF Message, MessageType

LEMMA RecvFromServerType ==
  ASSUME TypeOK, NEW c \in Client, RecvFromServer(c)
  PROVE  Head(toClient[c]) \in MessageType /\ toClient' \in [Client -> Seq(MessageType)]
<1>1. toClient[c] \in Seq(MessageType) /\ toClient[c] # <<>>
  BY DEF TypeOK, RecvFromServer
<1>2. Head(toClient[c]) \in MessageType /\ Tail(toClient[c]) \in Seq(MessageType)
  BY <1>1
<1> QED
  BY <1>2 DEF TypeOK, RecvFromServer

LEMMA RecvFromClientType ==
  ASSUME TypeOK, NEW c \in Client, RecvFromClient(c)
  PROVE  Head(toServer[c]) \in MessageType /\ toServer' \in [Client -> Seq(MessageType)]
<1>1. toServer[c] \in Seq(MessageType) /\ toServer[c] # <<>>
  BY DEF TypeOK, RecvFromClient
<1>2. Head(toServer[c]) \in MessageType /\ Tail(toServer[c]) \in Seq(MessageType)
  BY <1>1
<1> QED
  BY <1>2 DEF TypeOK, RecvFromClient

LEMMA SendToServerType ==
  ASSUME TypeOK, NEW c \in Client, NEW m \in MessageType, SendToServer(c, m)
  PROVE  toServer' \in [Client -> Seq(MessageType)]
<1>1. Append(toServer[c], m) \in Seq(MessageType)
  BY DEF TypeOK
<1> QED
  BY <1>1 DEF TypeOK, SendToServer

LEMMA SendToClientType ==
  ASSUME TypeOK, NEW c, NEW m \in MessageType, SendToClient(c, m)
  PROVE  toClient' \in [Client -> Seq(MessageType)]
<1>1. CASE c \in Client
  <2>1. Append(toClient[c], m) \in Seq(MessageType)
    BY <1>1 DEF TypeOK
  <2> QED
    BY <1>1, <2>1 DEF TypeOK, SendToClient
<1>2. CASE c \notin Client
  BY <1>2 DEF TypeOK, SendToClient
<1> QED
  BY <1>1, <1>2

\* What a client does keeps the types; it never touches the server's own state.
LEMMA ClientType ==
  ASSUME TypeOK, NEW c \in Client, ClientProgram(c) \/ User(c)
  PROVE  TypeOK'
<1> USE DEF tables, server
<1>1. CASE Connect(c)
  <2>1. PICK src \in {Zero, None} \cup DisplayerId :
          SendToServer(c, Message("OI", src, SERVER_ID, 0))
    BY <1>1 DEF Connect
  <2>2. Message("OI", src, SERVER_ID, 0) \in MessageType
    BY MessageIsTyped DEF Type, Id
  <2>3. toServer' \in [Client -> Seq(MessageType)]
    BY <2>1, <2>2, SendToServerType
  <2>4. backlog' \in Seq(Client)
    BY <1>1 DEF Connect, TypeOK
  <2> QED
    BY <1>1, <2>3, <2>4 DEF Connect, TypeOK
<1>2. CASE Welcome(c)
  <2>1. Head(toClient[c]) \in MessageType /\ toClient' \in [Client -> Seq(MessageType)]
    BY <1>2, RecvFromServerType DEF Welcome
  <2> QED
    BY <1>2, <2>1 DEF Welcome, TypeOK, MessageType
<1>3. CASE Request(c)
  <2>1. PICK type \in {"MSG", "CREQ"}, dst \in SenderId \cup DisplayerId \cup {Zero} :
          SendToServer(c, Message(type, client_id[c], dst, seq_number[c]))
    BY <1>3 DEF Request
  <2>2. Message(type, client_id[c], dst, seq_number[c]) \in MessageType
    BY MessageIsTyped DEF Type, Id, TypeOK
  <2>3. toServer' \in [Client -> Seq(MessageType)]
    BY <2>1, <2>2, SendToServerType
  <2>4. /\ cpc' = [cpc EXCEPT ![c] = "reply"]
        /\ UNCHANGED <<tables, server, backlog, toClient, client_id, seq_number, cur>>
    BY <1>3 DEF Request
  <2> QED
    BY <2>3, <2>4 DEF TypeOK
<1>4. CASE GetReply(c)
  <2>1. toClient' \in [Client -> Seq(MessageType)]
    BY <1>4, RecvFromServerType DEF GetReply
  <2>2. seq_number' \in [Client -> Nat]
    BY <1>4 DEF GetReply, TypeOK
  <2>3. /\ cpc' = [cpc EXCEPT ![c] = "ready"]
        /\ UNCHANGED <<tables, server, backlog, toServer, client_id, cur>>
    BY <1>4 DEF GetReply
  <2> QED
    BY <2>1, <2>2, <2>3 DEF TypeOK
<1>5. CASE EmitterLeaves(c)
  <2>1. Message("FLW", client_id[c], SERVER_ID, seq_number[c]) \in MessageType
    BY MessageIsTyped DEF Type, Id, TypeOK
  <2>2. toServer' \in [Client -> Seq(MessageType)]
    BY <1>5, <2>1, SendToServerType DEF EmitterLeaves
  <2> QED
    BY <1>5, <2>2 DEF EmitterLeaves, TypeOK
<1>6. CASE ExhibitorLeaves(c)
  <2>1. Message("FLW", client_id[c], SERVER_ID, 1) \in MessageType
    BY MessageIsTyped DEF Type, Id, TypeOK
  <2>2. toServer' \in [Client -> Seq(MessageType)]
    BY <1>6, <2>1, SendToServerType DEF ExhibitorLeaves
  <2> QED
    BY <1>6, <2>2 DEF ExhibitorLeaves, TypeOK
<1>7. CASE GetGoodbye(c)
  BY <1>7, RecvFromServerType DEF GetGoodbye, TypeOK
<1>8. CASE Show(c)
  BY <1>8, RecvFromServerType DEF Show, TypeOK
<1>9. CASE ServerLost(c)
  BY <1>9 DEF ServerLost, TypeOK
<1>10. CASE Answer(c)
  <2>1. cur[c] \in MessageType
    BY <1>10 DEF Answer, TypeOK
  <2>2. Message("OK", client_id[c], SERVER_ID, cur[c].seq) \in MessageType
    BY <2>1, MessageIsTyped DEF Type, Id, TypeOK, MessageType
  <2>3. toServer' \in [Client -> Seq(MessageType)]
    BY <1>10, <2>2, SendToServerType DEF Answer
  <2> QED
    BY <1>10, <2>3 DEF Answer, TypeOK
<1> QED
  BY <1>1, <1>2, <1>3, <1>4, <1>5, <1>6, <1>7, <1>8, <1>9, <1>10 DEF ClientProgram, User

\* What the server sends and reads is well formed.
LEMMA ForwardType ==
  ASSUME NEW id \in SenderId, NEW type \in {"FLW", "MSG", "CREQ"},
         NEW d \in DisplayerId, NEW seq \in Nat
  PROVE  Forward(id, type, d, seq) \in MessageType
BY MessageIsTyped DEF Forward, Type, Id

LEMMA EndTurnType ==
  ASSUME TypeOK, NEW k, EndTurn(k)
  PROVE  ready' \subseteq Client \cup {SERVER_ID} /\ srv' \in {"select", "round"}
         /\ UNCHANGED <<job, failure>>
BY DEF EndTurn, TypeOK

\* Accepting a connection.
LEMMA AcceptType ==
  ASSUME TypeOK, NEW c \in Client, Accept(c)
  PROVE  /\ backlog \in Seq(Client) /\ backlog # <<>> /\ backlog' \in Seq(Client)
         /\ Head(toServer[c]) \in MessageType
         /\ toServer' \in [Client -> Seq(MessageType)]
         /\ ready' \subseteq Client \cup {SERVER_ID} /\ srv' \in {"select", "round"}
         /\ UNCHANGED <<job, failure, client>>
<1>1. backlog \in Seq(Client) /\ backlog # <<>> /\ backlog' = Tail(backlog)
  BY DEF Accept, TypeOK
<1>2. backlog' \in Seq(Client)
  BY <1>1
<1>3. RecvFromClient(c) /\ EndTurn(SERVER_ID) /\ UNCHANGED client
  BY DEF Accept
<1> QED
  BY <1>1, <1>2, <1>3, RecvFromClientType, EndTurnType

\* The clients' variables, which the server leaves alone, keep their types.
ClientVarsOK ==
  /\ cpc \in [Client -> {"off", "oi", "ready", "reply", "answer", "bye", "left", "failed"}]
  /\ client_id \in [Client -> Id]
  /\ seq_number \in [Client -> Nat]
  /\ cur \in [Client -> MessageType \cup {None}]
  /\ \A c \in Client : cpc[c] = "answer" => cur[c] \in MessageType

LEMMA ClientVarsKeep ==
  ASSUME TypeOK, UNCHANGED client
  PROVE  ClientVarsOK'
BY DEF TypeOK, ClientVarsOK, client

-----------------------------------------------------------------------------
(* The inductive invariant *)

\* A connection that waits to be accepted, or was never made, is not registered.
Fresh ==
  /\ \A i \in 1..Len(backlog) : cpc[backlog[i]] # "off" /\ ~Registered(backlog[i])
  /\ \A i, j \in 1..Len(backlog) : i # j => backlog[i] # backlog[j]
  /\ \A c \in Client : cpc[c] = "off" => ~Registered(c)

\* While a relay waits, its sender and its displayers stay in their tables: nothing
\* else is served.
Waiting ==
  srv = "wait" =>
    /\ job \in JobType /\ job.type \in {"FLW", "MSG", "CREQ"}
    /\ senders[job.sender] # None
    /\ job.at \in job.targets /\ job.left \subseteq job.targets
    /\ \A d \in job.targets : displayers[d] # None
    /\ job.type = "FLW" => job.targets = {senders[job.sender].displayer_id} \ {None}

Tables == IdsConserved /\ TablesAgree /\ DisplayerHasItsSender

Inv == TypeOK /\ Tables /\ Fresh /\ Waiting

LEMMA InitInv == Init => Inv
<1> SUFFICES ASSUME Init PROVE Inv
  OBVIOUS
<1> USE DEF Init
<1>1. TypeOK
  BY DEF TypeOK, Id
<1>2. Tables
  BY ServerAssumption DEF Tables, IdsConserved, TablesAgree, DisplayerHasItsSender
<1>3. Fresh /\ Waiting
  BY DEF Fresh, Waiting, Registered
<1> QED
  BY <1>1, <1>2, <1>3 DEF Inv

\* The socket and the partner that a table holds for an id.
LEMMA Entries ==
  ASSUME TypeOK
  PROVE  /\ \A s \in SenderId : senders[s] # None =>
              senders[s].sock \in Client /\ senders[s].displayer_id \in DisplayerId \cup {None}
         /\ \A d \in DisplayerId : displayers[d] # None =>
              displayers[d].sock \in Client /\ displayers[d].sender_id \in SenderId \cup {None}
BY DEF TypeOK, SenderEntry, DisplayerEntry

-----------------------------------------------------------------------------
(* The five changes of the tables *)

\* CreateDisplayer takes a free id for an unregistered socket.
LEMMA DisplayerAdded ==
  ASSUME TypeOK, Tables, NEW c \in Client, ~Registered(c), NEW id \in displayer_ids,
         displayer_ids' = displayer_ids \ {id},
         available_sockets' = [available_sockets EXCEPT ![c] = id],
         displayers' = [displayers EXCEPT ![id] = [sock |-> c, sender_id |-> None]],
         UNCHANGED <<senders, sender_ids>>
  PROVE  Tables'
<1> DEFINE e == [sock |-> c, sender_id |-> None]
<1>1. id \in DisplayerId /\ e \in DisplayerEntry /\ e # None
  BY ServerAssumption DEF TypeOK, DisplayerEntry
<1>2. displayers[id] = None
  BY DEF Tables, IdsConserved
<1>3. IdsConserved'
  BY <1>1, <1>2 DEF Tables, IdsConserved, TypeOK
<1>4. TablesAgree'
  BY <1>1, <1>2, ServerAssumption DEF Tables, TablesAgree, TypeOK, Registered
<1>5. DisplayerHasItsSender'
  BY <1>1, <1>2 DEF Tables, DisplayerHasItsSender, TypeOK
<1> QED
  BY <1>3, <1>4, <1>5 DEF Tables

\* CreateSender takes a free id, and perhaps a displayer that had a sender already.
LEMMA SenderAdded ==
  ASSUME TypeOK, Tables, NEW c \in Client, ~Registered(c), NEW id \in sender_ids, NEW src,
         src \in DisplayerId => displayers[src] # None,
         sender_ids' = sender_ids \ {id},
         available_sockets' = [available_sockets EXCEPT ![c] = id],
         senders' = [senders EXCEPT ![id] =
            [sock |-> c, displayer_id |-> IF src \in DisplayerId THEN src ELSE None]],
         Associate(id, src),
         UNCHANGED displayer_ids
  PROVE  Tables'
<1> DEFINE e == [sock |-> c, displayer_id |-> IF src \in DisplayerId THEN src ELSE None]
           f == [sock |-> displayers[src].sock, sender_id |-> id]
<1>1. id \in SenderId /\ e \in SenderEntry /\ e # None
  BY ServerAssumption DEF TypeOK, SenderEntry
<1>2. senders[id] = None
  BY DEF Tables, IdsConserved
<1>3. src \in DisplayerId => f \in DisplayerEntry /\ f # None
  BY <1>1, Entries, ServerAssumption DEF DisplayerEntry
<1>4. senders' = [senders EXCEPT ![id] = e]
  OBVIOUS
<1>5. displayers' = IF src \in DisplayerId THEN [displayers EXCEPT ![src] = f] ELSE displayers
  BY DEF Associate
<1>6. IdsConserved'
  BY <1>1, <1>2, <1>3, <1>4, <1>5 DEF Tables, IdsConserved, TypeOK
<1>7. TablesAgree'
  <2>1. \A d \in DisplayerId : /\ (displayers[d])' = None <=> displayers[d] = None
                               /\ displayers[d] # None => (displayers[d])'.sock = displayers[d].sock
    BY <1>3, <1>5 DEF TypeOK
  <2>2. \A b \in Client : available_sockets'[b] = IF b = c THEN id ELSE available_sockets[b]
    BY DEF TypeOK
  <2>3. \A b \in Client, d \in DisplayerId :
          available_sockets'[b] = d <=> displayers'[d] # None /\ displayers'[d].sock = b
    <3>1. available_sockets[c] = None
      BY DEF Registered
    <3> QED
      BY <1>1, <2>1, <2>2, <3>1, ServerAssumption DEF Tables, TablesAgree
  <2>4. \A b \in Client, s \in SenderId :
          available_sockets'[b] = s <=> senders'[s] # None /\ senders'[s].sock = b
    BY <1>1, <1>2, <1>4, <2>2, ServerAssumption DEF Tables, TablesAgree, TypeOK, Registered
  <2> QED
    BY <2>3, <2>4 DEF TablesAgree
<1>8. DisplayerHasItsSender'
  BY <1>1, <1>2, <1>3, <1>4, <1>5, ServerAssumption DEF Tables, DisplayerHasItsSender, TypeOK
<1> QED
  BY <1>6, <1>7, <1>8 DEF Tables

\* process_displayer removes the displayer of c and unlinks its sender.
LEMMA DisplayerRemoved ==
  ASSUME TypeOK, Tables, NEW c \in Client, NEW id \in DisplayerId,
         available_sockets[c] = id,
         RemoveDisplayer(id), Unlink(displayers[id].sender_id), Unregister({c}),
         UNCHANGED sender_ids
  PROVE  Tables' /\ senders' \in [SenderId -> SenderEntry \cup {None}]
<1> DEFINE p == displayers[id].sender_id
           e == [sock |-> senders[p].sock, displayer_id |-> None]
<1>1. displayers[id] # None /\ displayers[id].sock = c /\ p \in SenderId \cup {None}
  BY Entries DEF Tables, TablesAgree
<1>2. p # None => /\ p \in SenderId /\ senders[p] # None /\ senders[p].displayer_id = id
                  /\ e \in SenderEntry /\ e # None
  BY <1>1, Entries, ServerAssumption DEF Tables, DisplayerHasItsSender, SenderEntry
<1>3. senders' = IF p = None THEN senders ELSE [senders EXCEPT ![p] = e]
  BY DEF Unlink
<1>4. senders' \in [SenderId -> SenderEntry \cup {None}]
  BY <1>2, <1>3 DEF TypeOK
<1>5. \A s \in SenderId : /\ senders'[s] = None <=> senders[s] = None
                          /\ senders[s] # None => senders'[s].sock = senders[s].sock
                          /\ s # p => senders'[s] = senders[s]
  BY <1>2, <1>3 DEF TypeOK
<1>6. \A d \in DisplayerId : displayers'[d] = IF d = id THEN None ELSE displayers[d]
  BY DEF RemoveDisplayer, TypeOK
<1>7. IdsConserved'
  BY <1>5, <1>6 DEF Tables, IdsConserved, RemoveDisplayer
<1>8. \A b \in Client : available_sockets'[b] = IF b = c THEN None ELSE available_sockets[b]
  BY DEF Unregister
<1>9. TablesAgree'
  <2>1. \A b \in Client, d \in DisplayerId :
          available_sockets'[b] = d <=> displayers'[d] # None /\ displayers'[d].sock = b
    BY <1>1, <1>6, <1>8, ServerAssumption DEF Tables, TablesAgree
  <2>2. \A b \in Client, s \in SenderId :
          available_sockets'[b] = s <=> senders'[s] # None /\ senders'[s].sock = b
    BY <1>1, <1>5, <1>8, ServerAssumption DEF Tables, TablesAgree
  <2> QED
    BY <2>1, <2>2 DEF TablesAgree
<1>10. DisplayerHasItsSender'
  <2> SUFFICES ASSUME NEW d \in DisplayerId, displayers'[d] # None,
                      displayers'[d].sender_id # None
               PROVE  /\ senders'[displayers'[d].sender_id] # None
                      /\ senders'[displayers'[d].sender_id].displayer_id = d
    BY DEF DisplayerHasItsSender
  <2>1. d # id /\ displayers'[d] = displayers[d]
    BY <1>6
  <2>2. /\ displayers[d].sender_id \in SenderId
        /\ senders[displayers[d].sender_id] # None
        /\ senders[displayers[d].sender_id].displayer_id = d
    BY <2>1, Entries DEF Tables, DisplayerHasItsSender
  <2>3. displayers[d].sender_id # p
    BY <1>2, <2>1, <2>2, ServerAssumption
  <2> QED
    BY <1>5, <2>1, <2>2, <2>3
<1> QED
  BY <1>4, <1>7, <1>9, <1>10 DEF Tables

\* A sender that leaves is removed with the displayer it has, if it has one.
LEMMA SenderRemoved ==
  ASSUME TypeOK, Tables, NEW id \in SenderId, senders[id] # None, NEW seq,
         NEW targets \in SUBSET DisplayerId,
         targets = {senders[id].displayer_id} \ {None},
         \A d \in targets : displayers[d] # None,
         Finish(id, "FLW", seq, targets)
  PROVE  Tables'
<1>1. \A s \in SenderId : senders'[s] = IF s = id THEN None ELSE senders[s]
  BY DEF Finish, RemoveSender, TypeOK
<1>2. \A d \in DisplayerId : displayers'[d] = IF d \in targets THEN None ELSE displayers[d]
  BY DEF Finish
<1>3. IdsConserved'
  BY <1>1, <1>2 DEF Tables, IdsConserved, Finish, RemoveSender
<1>4. \A b \in Client : available_sockets'[b] =
        IF b \in {senders[id].sock} \cup {displayers[d].sock : d \in targets}
        THEN None ELSE available_sockets[b]
  BY DEF Finish, Unregister
<1>5. TablesAgree'
  <2>1. \A b \in Client, d \in DisplayerId :
          available_sockets'[b] = d <=> displayers'[d] # None /\ displayers'[d].sock = b
    BY <1>2, <1>4, Entries, ServerAssumption DEF Tables, TablesAgree
  <2>2. \A b \in Client, s \in SenderId :
          available_sockets'[b] = s <=> senders'[s] # None /\ senders'[s].sock = b
    BY <1>1, <1>4, Entries, ServerAssumption DEF Tables, TablesAgree
  <2> QED
    BY <2>1, <2>2 DEF TablesAgree
<1>6. DisplayerHasItsSender'
  <2> SUFFICES ASSUME NEW d \in DisplayerId, displayers'[d] # None,
                      displayers'[d].sender_id # None
               PROVE  /\ senders'[displayers'[d].sender_id] # None
                      /\ senders'[displayers'[d].sender_id].displayer_id = d
    BY DEF DisplayerHasItsSender
  <2>1. d \notin targets /\ displayers'[d] = displayers[d]
    BY <1>2
  <2>2. /\ displayers[d].sender_id \in SenderId
        /\ senders[displayers[d].sender_id] # None
        /\ senders[displayers[d].sender_id].displayer_id = d
    BY <2>1, Entries DEF Tables, DisplayerHasItsSender
  <2>3. displayers[d].sender_id # id
    BY <2>1, <2>2, ServerAssumption
  <2> QED
    BY <1>1, <2>1, <2>2, <2>3
<1> QED
  BY <1>3, <1>5, <1>6 DEF Tables

-----------------------------------------------------------------------------
(* What the server does keeps the types *)

LEMMA TurnType ==
  ASSUME TypeOK, NEW c \in Client, Turn(c)
  PROVE  /\ Head(toServer[c]) \in MessageType
         /\ toServer' \in [Client -> Seq(MessageType)]
BY RecvFromClientType DEF Turn

\* The displayers of a request that is served.
LEMMA TargetsType ==
  ASSUME TypeOK, NEW id \in SenderId, senders[id] # None,
         NEW m \in MessageType, Served(id, m)
  PROVE  /\ Targets(id, m) \in SUBSET DisplayerId
         /\ m.type = "FLW" => Targets(id, m) = {senders[id].displayer_id} \ {None}
<1>1. senders[id].displayer_id \in DisplayerId \cup {None}
  BY Entries
<1>2. CASE m.type = "FLW"
  BY <1>1, <1>2 DEF Targets
<1>3. CASE m.type # "FLW"
  <2>1. HasReceivers(m.dst) /\ Targets(id, m) = send_to_list(m.dst)
    BY <1>3 DEF Served, Targets
  <2>2. send_to_list(m.dst) \in SUBSET DisplayerId
    BY <2>1, Entries, ServerAssumption DEF HasReceivers, send_to_list
  <2> QED
    BY <1>3, <2>1, <2>2
<1> QED
  BY <1>2, <1>3

\* A relay that ends.
LEMMA FinishType ==
  ASSUME TypeOK, NEW id \in SenderId, NEW type, NEW seq,
         NEW targets \in SUBSET DisplayerId, Finish(id, type, seq, targets)
  PROVE  /\ available_sockets' \in [Client -> SenderId \cup DisplayerId \cup {None}]
         /\ senders' \in [SenderId -> SenderEntry \cup {None}]
         /\ displayers' \in [DisplayerId -> DisplayerEntry \cup {None}]
         /\ sender_ids' \subseteq SenderId /\ displayer_ids' \subseteq DisplayerId
BY DEF TypeOK, Finish, RemoveSender, Unregister, tables

\* Connections: a socket and, for a sender, the displayer of the OI.
LEMMA ConnectionType ==
  ASSUME TypeOK, NEW c \in Client,
         CreateDisplayer(c) \/ CreateSender(c) \/ RefuseClient(c)
  PROVE  TypeOK'
<1>1. Accept(c)
  BY DEF CreateDisplayer, CreateSender, RefuseClient
<1>2. ClientVarsOK'
  BY <1>1, ClientVarsKeep DEF Accept
<1>3. /\ backlog' \in Seq(Client)
      /\ Head(toServer[c]) \in MessageType
      /\ toServer' \in [Client -> Seq(MessageType)]
      /\ ready' \subseteq Client \cup {SERVER_ID} /\ srv' \in {"select", "round"}
      /\ UNCHANGED <<job, failure>>
  BY <1>1, AcceptType
<1>4. CASE CreateDisplayer(c)
  <2>1. PICK id \in displayer_ids :
          /\ displayer_ids' = displayer_ids \ {id}
          /\ available_sockets' = [available_sockets EXCEPT ![c] = id]
          /\ displayers' = [displayers EXCEPT ![id] = [sock |-> c, sender_id |-> None]]
          /\ SendToClient(c, Message("OK", SERVER_ID, id, 0))
    BY <1>4 DEF CreateDisplayer
  <2>2. Message("OK", SERVER_ID, id, 0) \in MessageType
    BY MessageIsTyped DEF TypeOK, Type, Id
  <2>3. toClient' \in [Client -> Seq(MessageType)]
    BY <2>1, <2>2, SendToClientType
  <2>4. UNCHANGED <<senders, sender_ids>>
    BY <1>4 DEF CreateDisplayer
  <2> QED
    BY <1>2, <1>3, <2>1, <2>3, <2>4 DEF TypeOK, ClientVarsOK, DisplayerEntry
<1>5. CASE CreateSender(c)
  <2> DEFINE src == Head(toServer[c]).src
  <2>1. PICK id \in sender_ids :
          /\ sender_ids' = sender_ids \ {id}
          /\ available_sockets' = [available_sockets EXCEPT ![c] = id]
          /\ senders' = [senders EXCEPT ![id] =
               [sock |-> c, displayer_id |-> IF src \in DisplayerId THEN src ELSE None]]
          /\ Associate(id, src)
          /\ SendToClient(c, Message("OK", SERVER_ID, id, 0))
    BY <1>5 DEF CreateSender
  <2>2. Message("OK", SERVER_ID, id, 0) \in MessageType
    BY MessageIsTyped DEF TypeOK, Type, Id
  <2>3. toClient' \in [Client -> Seq(MessageType)]
    BY <2>1, <2>2, SendToClientType
  <2>4. UNCHANGED displayer_ids /\ (src \in DisplayerId => displayers[src] # None)
    BY <1>5 DEF CreateSender
  <2>5. displayers' \in [DisplayerId -> DisplayerEntry \cup {None}]
    <3>1. CASE src \in DisplayerId
      <4>1. [sock |-> displayers[src].sock, sender_id |-> id] \in DisplayerEntry
        BY <2>1, <2>4, <3>1, Entries DEF TypeOK, DisplayerEntry
      <4> QED
        BY <2>1, <3>1, <4>1 DEF Associate, TypeOK
    <3>2. CASE src \notin DisplayerId
      BY <2>1, <3>2 DEF Associate, TypeOK
    <3> QED
      BY <3>1, <3>2
  <2>6. senders' \in [SenderId -> SenderEntry \cup {None}]
    BY <2>1 DEF TypeOK, SenderEntry
  <2>7. /\ available_sockets' \in [Client -> SenderId \cup DisplayerId \cup {None}]
        /\ sender_ids' \subseteq SenderId
    BY <2>1 DEF TypeOK
  <2> QED
    BY <1>2, <1>3, <2>3, <2>4, <2>5, <2>6, <2>7 DEF TypeOK, ClientVarsOK
<1>6. CASE RefuseClient(c)
  <2>1. SendToClient(c, Message("ERRO", SERVER_ID, Head(toServer[c]).src, 0)) /\ UNCHANGED tables
    BY <1>6 DEF RefuseClient
  <2>2. Message("ERRO", SERVER_ID, Head(toServer[c]).src, 0) \in MessageType
    BY <1>3, MessageIsTyped DEF MessageType, Type, Id
  <2>3. toClient' \in [Client -> Seq(MessageType)]
    BY <2>1, <2>2, SendToClientType
  <2> QED
    BY <1>2, <1>3, <2>1, <2>3 DEF TypeOK, ClientVarsOK, tables
<1> QED
  BY <1>4, <1>5, <1>6

\* A client's turn: the id it is registered under has an entry.
LEMMA TurnEntry ==
  ASSUME TypeOK, Tables, NEW c \in Client, Registered(c)
  PROVE  /\ available_sockets[c] \in SenderId \cup DisplayerId
         /\ available_sockets[c] \in SenderId => senders[available_sockets[c]] # None
         /\ available_sockets[c] \in DisplayerId => displayers[available_sockets[c]] # None
BY DEF TypeOK, Tables, TablesAgree, Registered

LEMMA TurnsType ==
  ASSUME TypeOK, Tables, NEW c \in Client,
         \/ DisplayerFlw(c) \/ ClientLost(c)
         \/ RefuseRequest(c) \/ StartRelay(c) \/ LookupFails(c) \/ RelayToNobody(c)
  PROVE  TypeOK'
<1> DEFINE id == available_sockets[c]
           m  == Head(toServer[c])
<1>1. CASE DisplayerFlw(c)
  <2>1. /\ Turn(c) /\ id \in DisplayerId /\ EndTurn(c)
        /\ RemoveDisplayer(id) /\ Unlink(displayers[id].sender_id) /\ Unregister({c})
        /\ SendToClient(c, Message("OK", SERVER_ID, id, m.seq))
        /\ UNCHANGED <<sender_ids, acked, backlog, client>>
    BY <1>1 DEF DisplayerFlw
  <2>2. m \in MessageType /\ toServer' \in [Client -> Seq(MessageType)]
    BY <2>1, TurnType
  <2>3. Message("OK", SERVER_ID, id, m.seq) \in MessageType
    BY <2>1, <2>2, MessageIsTyped DEF MessageType, Type, Id
  <2>4. toClient' \in [Client -> Seq(MessageType)]
    BY <2>1, <2>3, SendToClientType
  <2>5. senders' \in [SenderId -> SenderEntry \cup {None}]
    BY <2>1, DisplayerRemoved
  <2>6. /\ available_sockets' \in [Client -> SenderId \cup DisplayerId \cup {None}]
        /\ displayers' \in [DisplayerId -> DisplayerEntry \cup {None}]
        /\ displayer_ids' \subseteq DisplayerId
    BY <2>1 DEF TypeOK, Unregister, RemoveDisplayer
  <2> QED
    BY <2>1, <2>2, <2>4, <2>5, <2>6, EndTurnType, ClientVarsKeep DEF TypeOK, ClientVarsOK
<1>2. CASE ClientLost(c)
  BY <1>2 DEF ClientLost, Crash, tables, client, TypeOK
<1>3. CASE LookupFails(c)
  BY <1>3 DEF LookupFails, Crash, tables, client, TypeOK
<1>4. CASE RefuseRequest(c)
  <2>1. /\ Turn(c) /\ id \in SenderId /\ EndTurn(c)
        /\ SendToClient(c, Message("ERRO", SERVER_ID, id, m.seq))
        /\ UNCHANGED <<tables, acked, backlog, client>>
    BY <1>4 DEF RefuseRequest, SenderTurn
  <2>2. m \in MessageType /\ toServer' \in [Client -> Seq(MessageType)]
    BY <2>1, TurnType
  <2>3. Message("ERRO", SERVER_ID, id, m.seq) \in MessageType
    BY <2>1, <2>2, MessageIsTyped DEF MessageType, Type, Id
  <2>4. toClient' \in [Client -> Seq(MessageType)]
    BY <2>1, <2>3, SendToClientType
  <2> QED
    BY <2>1, <2>2, <2>4, EndTurnType, ClientVarsKeep DEF TypeOK, ClientVarsOK, tables
<1>5. CASE StartRelay(c)
  <2>1. /\ Turn(c) /\ id \in SenderId /\ Served(id, m)
        /\ srv' = "wait" /\ ready' = ready \ {c}
        /\ UNCHANGED <<tables, failure, acked, backlog, client>>
    BY <1>5 DEF StartRelay, SenderTurn
  <2>2. m \in MessageType /\ toServer' \in [Client -> Seq(MessageType)]
    BY <2>1, TurnType
  <2>3. Targets(id, m) \in SUBSET DisplayerId
    BY <2>1, <2>2, TargetsType, TurnEntry DEF Turn
  <2>4. PICK d \in Targets(id, m) :
          /\ SendToClient(displayers[d].sock, Forward(id, m.type, d, m.seq))
          /\ job' = [sender |-> id, type |-> m.type, seq |-> m.seq,
                     targets |-> Targets(id, m), at |-> d, left |-> Targets(id, m) \ {d}]
    BY <1>5 DEF StartRelay
  <2>5. Forward(id, m.type, d, m.seq) \in MessageType
    BY <2>1, <2>2, <2>3, ForwardType DEF MessageType, Served
  <2>6. toClient' \in [Client -> Seq(MessageType)]
    BY <2>4, <2>5, SendToClientType
  <2>7. job' \in JobType
    BY <2>1, <2>2, <2>3, <2>4 DEF JobType, MessageType
  <2> QED
    BY <2>1, <2>2, <2>6, <2>7, ClientVarsKeep DEF TypeOK, ClientVarsOK, tables
<1>6. CASE RelayToNobody(c)
  <2>1. /\ Turn(c) /\ id \in SenderId /\ EndTurn(c)
        /\ Finish(id, m.type, m.seq, {})
        /\ SendToClient(c, Message("OK", SERVER_ID, id, m.seq))
        /\ UNCHANGED <<backlog, client>>
    BY <1>6 DEF RelayToNobody, SenderTurn
  <2>2. m \in MessageType /\ toServer' \in [Client -> Seq(MessageType)]
    BY <2>1, TurnType
  <2>3. Message("OK", SERVER_ID, id, m.seq) \in MessageType
    BY <2>1, <2>2, MessageIsTyped DEF MessageType, Type, Id
  <2>4. toClient' \in [Client -> Seq(MessageType)]
    BY <2>1, <2>3, SendToClientType
  <2>5. {} \in SUBSET DisplayerId
    OBVIOUS
  <2>6. /\ available_sockets' \in [Client -> SenderId \cup DisplayerId \cup {None}]
        /\ senders' \in [SenderId -> SenderEntry \cup {None}]
        /\ displayers' \in [DisplayerId -> DisplayerEntry \cup {None}]
        /\ sender_ids' \subseteq SenderId /\ displayer_ids' \subseteq DisplayerId
    BY <2>1, <2>5, FinishType
  <2> QED
    BY <2>1, <2>2, <2>4, <2>6, EndTurnType, ClientVarsKeep DEF TypeOK, ClientVarsOK
<1> QED
  BY <1>1, <1>2, <1>3, <1>4, <1>5, <1>6

\* The server waits for a displayer that is there.
LEMMA AtSockType ==
  ASSUME TypeOK, Waiting, srv = "wait"
  PROVE  /\ AtSock \in Client /\ job \in JobType
         /\ senders[job.sender] # None /\ senders[job.sender].sock \in Client
<1>1. job \in JobType /\ job.at \in DisplayerId /\ job.sender \in SenderId
  BY DEF Waiting, JobType
<1>2. displayers[job.at] # None /\ senders[job.sender] # None
  BY DEF Waiting
<1> QED
  BY <1>1, <1>2, Entries DEF AtSock

LEMMA RelayType ==
  ASSUME TypeOK, Waiting, RelayNext \/ RelayDone \/ RelayFails \/ RelayLost
  PROVE  TypeOK'
<1>1. srv = "wait"
  BY DEF RelayNext, RelayDone, RelayFails, RelayLost
<1>2. /\ AtSock \in Client /\ job \in JobType
      /\ senders[job.sender] # None /\ senders[job.sender].sock \in Client
  BY <1>1, AtSockType
<1>3. /\ job.sender \in SenderId /\ job.seq \in Nat /\ job.targets \in SUBSET DisplayerId
      /\ job.left \in SUBSET DisplayerId /\ job.type \in {"FLW", "MSG", "CREQ"}
  BY <1>1, <1>2 DEF JobType, Waiting
<1>4. CASE RelayNext
  <2>1. toServer' \in [Client -> Seq(MessageType)]
    BY <1>2, <1>4, RecvFromClientType DEF RelayNext
  <2>2. PICK d \in job.left :
          /\ SendToClient(displayers[d].sock, Forward(job.sender, job.type, d, job.seq))
          /\ job' = [job EXCEPT !.at = d, !.left = @ \ {d}]
    BY <1>4 DEF RelayNext
  <2>3. Forward(job.sender, job.type, d, job.seq) \in MessageType
    BY <1>3, <2>2, ForwardType
  <2>4. toClient' \in [Client -> Seq(MessageType)]
    BY <2>2, <2>3, SendToClientType
  <2>5. job' \in JobType
    BY <1>2, <1>3, <2>2 DEF JobType
  <2>6. UNCHANGED <<tables, srv, ready, failure, acked, backlog, client>>
    BY <1>4 DEF RelayNext
  <2> QED
    BY <2>1, <2>4, <2>5, <2>6, ClientVarsKeep DEF TypeOK, ClientVarsOK, tables
<1>5. CASE RelayDone
  <2>1. toServer' \in [Client -> Seq(MessageType)]
    BY <1>2, <1>5, RecvFromClientType DEF RelayDone
  <2>2. Message("OK", SERVER_ID, job.sender, job.seq) \in MessageType
    BY <1>3, MessageIsTyped DEF Type, Id
  <2>3. toClient' \in [Client -> Seq(MessageType)]
    BY <1>2, <1>5, <2>2, SendToClientType DEF RelayDone
  <2>4. Finish(job.sender, job.type, job.seq, job.targets) /\ EndRelay
    BY <1>5 DEF RelayDone
  <2>5. /\ available_sockets' \in [Client -> SenderId \cup DisplayerId \cup {None}]
        /\ senders' \in [SenderId -> SenderEntry \cup {None}]
        /\ displayers' \in [DisplayerId -> DisplayerEntry \cup {None}]
        /\ sender_ids' \subseteq SenderId /\ displayer_ids' \subseteq DisplayerId
    BY <1>3, <2>4, FinishType
  <2>6. UNCHANGED <<ready, failure, backlog, client>> /\ job' = None /\ srv' \in {"select", "round"}
    BY <2>4 DEF EndRelay
  <2> QED
    BY <2>1, <2>3, <2>5, <2>6, ClientVarsKeep DEF TypeOK, ClientVarsOK
<1>6. CASE RelayFails
  <2>1. toServer' \in [Client -> Seq(MessageType)]
    BY <1>2, <1>6, RecvFromClientType DEF RelayFails
  <2>2. Message("ERRO", SERVER_ID, job.sender, job.seq) \in MessageType
    BY <1>3, MessageIsTyped DEF Type, Id
  <2>3. toClient' \in [Client -> Seq(MessageType)]
    BY <1>2, <1>6, <2>2, SendToClientType DEF RelayFails
  <2>4. /\ UNCHANGED <<tables, ready, failure, backlog, client>>
        /\ job' = None /\ srv' \in {"select", "round"}
    BY <1>6 DEF RelayFails, EndRelay
  <2> QED
    BY <2>1, <2>3, <2>4, ClientVarsKeep DEF TypeOK, ClientVarsOK, tables
<1>7. CASE RelayLost
  BY <1>7 DEF RelayLost, Crash, tables, client, TypeOK
<1> QED
  BY <1>4, <1>5, <1>6, <1>7

LEMMA TypeStep ==
  ASSUME TypeOK, Tables, Waiting, Next
  PROVE  TypeOK'
<1>1. CASE Select
  BY <1>1 DEF Select, tables, client, TypeOK
<1>2. CASE RelayNext \/ RelayDone \/ RelayFails \/ RelayLost
  BY <1>2, RelayType
<1>3. ASSUME NEW c \in Client, CreateDisplayer(c) \/ CreateSender(c) \/ RefuseClient(c)
      PROVE  TypeOK'
  BY <1>3, ConnectionType
<1>4. ASSUME NEW c \in Client,
             \/ DisplayerFlw(c) \/ ClientLost(c)
             \/ RefuseRequest(c) \/ StartRelay(c) \/ LookupFails(c) \/ RelayToNobody(c)
      PROVE  TypeOK'
  BY <1>4, TurnsType
<1>5. ASSUME NEW c \in Client, ClientProgram(c) \/ User(c)
      PROVE  TypeOK'
  BY <1>5, ClientType
<1> QED
  BY <1>1, <1>2, <1>3, <1>4, <1>5 DEF Next, ServerNext

-----------------------------------------------------------------------------
(* The tables stay consistent *)

LEMMA TablesKeep ==
  ASSUME Tables, UNCHANGED tables
  PROVE  Tables'
<1>1. UNCHANGED <<available_sockets, senders, displayers, sender_ids, displayer_ids>>
  BY DEF tables
<1>2. IdsConserved'
  BY <1>1 DEF Tables, IdsConserved
<1>3. TablesAgree'
  BY <1>1 DEF Tables, TablesAgree
<1>4. DisplayerHasItsSender'
  BY <1>1 DEF Tables, DisplayerHasItsSender
<1> QED
  BY <1>2, <1>3, <1>4 DEF Tables

\* The end of a relay changes the tables only when it is a sender's FLW.
LEMMA FinishTables ==
  ASSUME TypeOK, Tables, NEW id \in SenderId, senders[id] # None, NEW type, NEW seq,
         NEW targets \in SUBSET DisplayerId,
         \A d \in targets : displayers[d] # None,
         type = "FLW" => targets = {senders[id].displayer_id} \ {None},
         Finish(id, type, seq, targets)
  PROVE  Tables'
<1>1. CASE type = "FLW"
  <2>1. Finish(id, "FLW", seq, targets)
    BY <1>1
  <2> QED
    BY <1>1, <2>1, SenderRemoved
<1>2. CASE type # "FLW"
  BY <1>2, TablesKeep DEF Finish
<1> QED
  BY <1>1, <1>2

\* The client a connection is accepted from.
LEMMA AcceptFresh ==
  ASSUME TypeOK, Fresh, NEW c \in Client, Accept(c)
  PROVE  ~Registered(c)
<1>1. backlog \in Seq(Client) /\ backlog # <<>> /\ c = backlog[1]
  BY DEF Accept, TypeOK
<1>2. 1 \in 1..Len(backlog)
  BY <1>1
<1> QED
  BY <1>1, <1>2 DEF Fresh

LEMMA TablesStep ==
  ASSUME Inv, Next
  PROVE  Tables'
<1> USE DEF Inv
<1>1. CASE Select
  BY <1>1, TablesKeep DEF Select
<1>2. CASE RelayNext \/ RelayFails \/ RelayLost
  BY <1>2, TablesKeep DEF RelayNext, RelayFails, RelayLost, Crash
<1>3. CASE RelayDone
  <2>1. srv = "wait" /\ Finish(job.sender, job.type, job.seq, job.targets)
    BY <1>3 DEF RelayDone
  <2>2. /\ job.sender \in SenderId /\ senders[job.sender] # None
        /\ job.targets \in SUBSET DisplayerId
        /\ \A d \in job.targets : displayers[d] # None
        /\ job.type = "FLW" => job.targets = {senders[job.sender].displayer_id} \ {None}
    BY <2>1 DEF Waiting, JobType
  <2> QED
    BY <2>1, <2>2, FinishTables
<1>4. ASSUME NEW c \in Client, CreateDisplayer(c)
      PROVE  Tables'
  <2>1. ~Registered(c) /\ UNCHANGED <<senders, sender_ids>>
    BY <1>4, AcceptFresh DEF CreateDisplayer
  <2>2. PICK id \in displayer_ids :
          /\ displayer_ids' = displayer_ids \ {id}
          /\ available_sockets' = [available_sockets EXCEPT ![c] = id]
          /\ displayers' = [displayers EXCEPT ![id] = [sock |-> c, sender_id |-> None]]
    BY <1>4 DEF CreateDisplayer
  <2> QED
    BY <2>1, <2>2, DisplayerAdded
<1>5. ASSUME NEW c \in Client, CreateSender(c)
      PROVE  Tables'
  <2> DEFINE src == Head(toServer[c]).src
  <2>1. /\ ~Registered(c) /\ UNCHANGED displayer_ids
        /\ src \in DisplayerId => displayers[src] # None
    BY <1>5, AcceptFresh DEF CreateSender
  <2>2. PICK id \in sender_ids :
          /\ sender_ids' = sender_ids \ {id}
          /\ available_sockets' = [available_sockets EXCEPT ![c] = id]
          /\ senders' = [senders EXCEPT ![id] =
               [sock |-> c, displayer_id |-> IF src \in DisplayerId THEN src ELSE None]]
          /\ Associate(id, src)
    BY <1>5 DEF CreateSender
  <2> QED
    BY <2>1, <2>2, SenderAdded
<1>6. ASSUME NEW c \in Client, RefuseClient(c) \/ ClientLost(c) \/ RefuseRequest(c)
                                \/ StartRelay(c) \/ LookupFails(c)
      PROVE  Tables'
  BY <1>6, TablesKeep DEF RefuseClient, ClientLost, RefuseRequest, StartRelay, LookupFails, Crash
<1>7. ASSUME NEW c \in Client, DisplayerFlw(c)
      PROVE  Tables'
  BY <1>7, DisplayerRemoved DEF DisplayerFlw
<1>8. ASSUME NEW c \in Client, RelayToNobody(c)
      PROVE  Tables'
  <2> DEFINE id == available_sockets[c]
             m  == Head(toServer[c])
  <2>1. /\ Turn(c) /\ id \in SenderId /\ Served(id, m) /\ Targets(id, m) = {}
        /\ Finish(id, m.type, m.seq, {})
    BY <1>8 DEF RelayToNobody, SenderTurn
  <2>2. senders[id] # None /\ m \in MessageType
    BY <2>1, TurnEntry, TurnType DEF Turn
  <2>3. m.type = "FLW" => {} = {senders[id].displayer_id} \ {None}
    BY <2>1, <2>2, TargetsType
  <2> QED
    BY <2>1, <2>2, <2>3, FinishTables
<1>9. ASSUME NEW c \in Client, ClientProgram(c) \/ User(c)
      PROVE  Tables'
  BY <1>9, TablesKeep DEF ClientProgram, User, Connect, Welcome, Request, GetReply,
     EmitterLeaves, ExhibitorLeaves, GetGoodbye, Show, Answer, ServerLost
<1> QED
  BY <1>1, <1>2, <1>3, <1>4, <1>5, <1>6, <1>7, <1>8, <1>9 DEF Next, ServerNext

-----------------------------------------------------------------------------
(* Connections that wait, and the relay that waits *)

\* The server registers nobody but the connection it accepts.
LEMMA FreshStep ==
  ASSUME Inv, Next
  PROVE  Fresh'
<1> USE DEF Inv
<1>1. ASSUME NEW c \in Client, CreateDisplayer(c) \/ CreateSender(c) \/ RefuseClient(c)
      PROVE  Fresh'
  <2>1. /\ backlog \in Seq(Client) /\ backlog # <<>>
        /\ c = backlog[1] /\ backlog' = Tail(backlog) /\ UNCHANGED cpc
    BY <1>1 DEF CreateDisplayer, CreateSender, RefuseClient, Accept, client, TypeOK
  <2>2. \A b \in Client : b # c => available_sockets'[b] = available_sockets[b]
    BY <1>1 DEF CreateDisplayer, CreateSender, RefuseClient, tables, TypeOK
  <2>3. cpc[c] # "off"
    <3>1. 1 \in 1..Len(backlog)
      BY <2>1
    <3> QED
      BY <2>1, <3>1 DEF Fresh
  <2>4. ASSUME NEW i \in 1..Len(backlog')
        PROVE  /\ i + 1 \in 1..Len(backlog) /\ backlog'[i] = backlog[i + 1]
               /\ backlog'[i] \in Client /\ backlog'[i] # c
    <3>1. i + 1 \in 1..Len(backlog) /\ backlog'[i] = backlog[i + 1]
      BY <2>1
    <3>2. backlog[i + 1] \in Client /\ 1 \in 1..Len(backlog) /\ i + 1 # 1
      BY <2>1, <3>1
    <3> QED
      BY <2>1, <3>1, <3>2 DEF Fresh
  <2>5. ASSUME NEW i \in 1..Len(backlog')
        PROVE  cpc'[backlog'[i]] # "off" /\ available_sockets'[backlog'[i]] = None
    BY <2>1, <2>2, <2>4 DEF Fresh, Registered
  <2>6. ASSUME NEW i \in 1..Len(backlog'), NEW j \in 1..Len(backlog'), i # j
        PROVE  backlog'[i] # backlog'[j]
    <3>1. i + 1 # j + 1
      BY <2>6
    <3> QED
      BY <2>4, <3>1 DEF Fresh
  <2>7. ASSUME NEW b \in Client, cpc'[b] = "off"
        PROVE  available_sockets'[b] = None
    BY <2>1, <2>2, <2>3, <2>7 DEF Fresh, Registered
  <2> QED
    BY <2>5, <2>6, <2>7 DEF Fresh, Registered
<1>2. ASSUME UNCHANGED <<backlog, cpc>>,
             \A b \in Client : available_sockets'[b] \in {available_sockets[b], None}
      PROVE  Fresh'
  <2>1. \A i \in 1..Len(backlog) : backlog[i] \in Client
    BY DEF TypeOK
  <2> QED
    BY <1>2, <2>1 DEF Fresh, Registered
<1>3. ASSUME NEW id, NEW type, NEW seq, NEW targets, Finish(id, type, seq, targets)
      PROVE  \A b \in Client : available_sockets'[b] \in {available_sockets[b], None}
  BY <1>3 DEF Finish, Unregister, tables
<1>4. CASE Select \/ RelayNext \/ RelayFails \/ RelayLost
  BY <1>4, <1>2 DEF Select, RelayNext, RelayFails, RelayLost, EndRelay, Crash, tables, client
<1>5. CASE RelayDone
  BY <1>2, <1>3, <1>5 DEF RelayDone, EndRelay, client
<1>6. ASSUME NEW c \in Client,
             ClientLost(c) \/ RefuseRequest(c) \/ StartRelay(c) \/ LookupFails(c)
      PROVE  Fresh'
  BY <1>6, <1>2 DEF ClientLost, RefuseRequest, StartRelay, LookupFails, Crash, tables, client
<1>7. ASSUME NEW c \in Client, DisplayerFlw(c)
      PROVE  Fresh'
  BY <1>7, <1>2 DEF DisplayerFlw, Unregister, client
<1>8. ASSUME NEW c \in Client, RelayToNobody(c)
      PROVE  Fresh'
  BY <1>8, <1>2, <1>3 DEF RelayToNobody, client
<1>9. ASSUME NEW c \in Client, Connect(c)
      PROVE  Fresh'
  <2>1. /\ cpc[c] = "off" /\ cpc' = [cpc EXCEPT ![c] = "oi"]
        /\ backlog' = Append(backlog, c) /\ UNCHANGED available_sockets
    BY <1>9 DEF Connect, tables
  <2>2. ~Registered(c) /\ \A i \in 1..Len(backlog) : backlog[i] \in Client /\ backlog[i] # c
    BY <2>1 DEF Fresh, TypeOK
  <2>3. ASSUME NEW i \in 1..Len(backlog')
        PROVE  IF i = Len(backlog) + 1 THEN backlog'[i] = c
               ELSE i \in 1..Len(backlog) /\ backlog'[i] = backlog[i]
    BY <2>1 DEF TypeOK
  <2>4. ASSUME NEW i \in 1..Len(backlog')
        PROVE  cpc'[backlog'[i]] # "off" /\ available_sockets'[backlog'[i]] = None
    BY <2>1, <2>2, <2>3, SMTT(30) DEF Fresh, Registered, TypeOK
  <2>5. ASSUME NEW i \in 1..Len(backlog'), NEW j \in 1..Len(backlog'), i # j
        PROVE  backlog'[i] # backlog'[j]
    BY <2>2, <2>3, <2>5 DEF Fresh
  <2>6. ASSUME NEW b \in Client, cpc'[b] = "off"
        PROVE  available_sockets'[b] = None
    BY <2>1, <2>6 DEF Fresh, Registered, TypeOK
  <2> QED
    BY <2>4, <2>5, <2>6 DEF Fresh, Registered
<1>10. ASSUME NEW c \in Client,
              \/ ClientProgram(c)
              \/ Request(c) \/ EmitterLeaves(c) \/ ExhibitorLeaves(c)
       PROVE  Fresh'
  <2>1. UNCHANGED <<backlog, available_sockets>>
    BY <1>10 DEF ClientProgram, Welcome, Request, GetReply, EmitterLeaves,
       ExhibitorLeaves, GetGoodbye, Show, Answer, ServerLost, tables
  <2>2. \E pc \in {"ready", "reply", "answer", "bye", "left", "failed"} :
          cpc' = [cpc EXCEPT ![c] = pc]
    BY <1>10 DEF ClientProgram, Welcome, Request, GetReply, EmitterLeaves,
       ExhibitorLeaves, GetGoodbye, Show, Answer, ServerLost
  <2>3. \A b \in Client : cpc'[b] = "off" => cpc[b] = "off"
    BY <2>2 DEF TypeOK
  <2>4. \A i \in 1..Len(backlog) : backlog[i] \in Client
    BY DEF TypeOK
  <2> QED
    BY <2>1, <2>3, <2>4 DEF Fresh, Registered
<1> QED
  BY <1>1, <1>4, <1>5, <1>6, <1>7, <1>8, <1>9, <1>10 DEF Next, ServerNext, User

\* Only the relay itself moves while the server waits.
LEMMA WaitingStep ==
  ASSUME Inv, Next
  PROVE  Waiting'
<1> USE DEF Inv
<1>1. CASE srv' # "wait"
  BY <1>1 DEF Waiting
<1>2. CASE UNCHANGED <<srv, job, senders, displayers>>
  BY <1>2 DEF Waiting
<1>3. CASE RelayNext
  <2>1. /\ srv = "wait" /\ UNCHANGED <<senders, displayers>>
    BY <1>3 DEF RelayNext, tables
  <2>2. PICK d \in job.left : job' = [job EXCEPT !.at = d, !.left = @ \ {d}]
    BY <1>3 DEF RelayNext
  <2>3. job \in JobType /\ job.left \subseteq job.targets /\ job.targets \subseteq DisplayerId
    BY <2>1 DEF Waiting, JobType
  <2>4. /\ job' \in JobType /\ job'.sender = job.sender /\ job'.type = job.type
        /\ job'.targets = job.targets /\ job'.at = d /\ job'.left = job.left \ {d}
    BY <2>2, <2>3 DEF JobType
  <2> QED
    BY <2>1, <2>3, <2>4 DEF Waiting
<1>4. ASSUME NEW c \in Client, StartRelay(c)
      PROVE  Waiting'
  <2> DEFINE id == available_sockets[c]
             m  == Head(toServer[c])
  <2>1. /\ Turn(c) /\ id \in SenderId /\ Served(id, m) /\ UNCHANGED <<senders, displayers>>
        /\ \A d \in Targets(id, m) : displayers[d] # None
    BY <1>4 DEF StartRelay, SenderTurn, tables
  <2>2. PICK d \in Targets(id, m) :
          job' = [sender |-> id, type |-> m.type, seq |-> m.seq,
                  targets |-> Targets(id, m), at |-> d, left |-> Targets(id, m) \ {d}]
    BY <1>4 DEF StartRelay
  <2>3. senders[id] # None /\ m \in MessageType
    BY <2>1, TurnEntry, TurnType DEF Turn
  <2>4. /\ Targets(id, m) \in SUBSET DisplayerId
        /\ m.type = "FLW" => Targets(id, m) = {senders[id].displayer_id} \ {None}
    BY <2>1, <2>3, TargetsType
  <2>5. m.type \in {"FLW", "MSG", "CREQ"}
    BY <2>1 DEF Served
  <2>6. job' \in JobType
    BY <2>1, <2>2, <2>3, <2>4 DEF JobType, MessageType
  <2>7. /\ job'.sender = id /\ job'.type = m.type /\ job'.targets = Targets(id, m)
        /\ job'.at = d /\ job'.left = Targets(id, m) \ {d}
    BY <2>2
  <2> QED
    BY <2>1, <2>2, <2>3, <2>4, <2>5, <2>6, <2>7 DEF Waiting
<1>5. CASE Select \/ RelayDone \/ RelayFails \/ RelayLost
  <2>1. srv' # "wait"
    BY <1>5 DEF Select, RelayDone, RelayFails, RelayLost, EndRelay, Crash
  <2> QED
    BY <1>1, <2>1
<1>6. ASSUME NEW c \in Client,
             \/ CreateDisplayer(c) \/ CreateSender(c) \/ RefuseClient(c)
             \/ DisplayerFlw(c) \/ ClientLost(c)
             \/ RefuseRequest(c) \/ LookupFails(c) \/ RelayToNobody(c)
      PROVE  Waiting'
  <2>1. srv' # "wait"
    BY <1>6 DEF CreateDisplayer, CreateSender, RefuseClient, DisplayerFlw, ClientLost,
       RefuseRequest, LookupFails, RelayToNobody, Accept, EndTurn, Crash
  <2> QED
    BY <1>1, <2>1
<1>7. ASSUME NEW c \in Client, ClientProgram(c) \/ User(c)
      PROVE  Waiting'
  BY <1>2, <1>7 DEF ClientProgram, User, Connect, Welcome, Request, GetReply,
     EmitterLeaves, ExhibitorLeaves, GetGoodbye, Show, Answer, ServerLost, tables, server
<1> QED
  BY <1>3, <1>4, <1>5, <1>6, <1>7 DEF Next, ServerNext

-----------------------------------------------------------------------------
(* The theorems *)

LEMMA Invariance == Spec => []Inv
<1>1. Inv /\ [Next]_vars => Inv'
  <2> SUFFICES ASSUME Inv, [Next]_vars PROVE Inv'
    OBVIOUS
  <2>1. CASE Next
    BY <2>1, TypeStep, TablesStep, FreshStep, WaitingStep DEF Inv
  <2>2. CASE UNCHANGED vars
    <3> USE <2>2 DEF vars, tables, server, client
    <3>1. TypeOK'
      BY DEF Inv, TypeOK
    <3>2. Tables'
      BY TablesKeep DEF Inv
    <3>3. Fresh'
      BY DEF Inv, Fresh, Registered
    <3>4. Waiting'
      BY DEF Inv, Waiting
    <3> QED
      BY <3>1, <3>2, <3>3, <3>4 DEF Inv
  <2> QED
    BY <2>1, <2>2
<1> QED
  BY <1>1, InitInv, PTL DEF Spec

\* Every variable of the server and of its clients keeps its type: among others, no
\* id other than the ones it was given ever enters a table.
THEOREM TypeCorrect == Spec => []TypeOK
<1>1. Inv => TypeOK
  BY DEF Inv
<1> QED
  BY <1>1, Invariance, PTL

\* Whatever clients come and go, an id is free exactly when no client has it.
THEOREM IdsAreConserved == Spec => []IdsConserved
<1>1. Inv => IdsConserved
  BY DEF Inv, Tables
<1> QED
  BY <1>1, Invariance, PTL

\* available_sockets, senders and displayers never disagree on who is connected.
THEOREM TablesStayInAgreement == Spec => []TablesAgree
<1>1. Inv => TablesAgree
  BY DEF Inv, Tables
<1> QED
  BY <1>1, Invariance, PTL

\* The sender a displayer names is connected and names that displayer.
THEOREM DisplayersHaveTheirSender == Spec => []DisplayerHasItsSender
<1>1. Inv => DisplayerHasItsSender
  BY DEF Inv, Tables
<1> QED
  BY <1>1, Invariance, PTL

=============================================================================

---------------------------- MODULE MessageServer ----------------------------
(***************************************************************************)
(* The messaging system of TP03: one server, the sender programs (emitters)*)
(* and the displayer programs (exhibitors) connected to it.  The server is *)
(* a single thread around select: it serves one ready socket at a time and,*)
(* while it relays a message, blocks until each displayer answers OK.      *)
(*                                                                         *)
(* A message is its 8 byte header; its body is left out.  FILE transfers   *)
(* are not part of this module.                                            *)
(***************************************************************************)
EXTENDS Naturals, Sequences, FiniteSets

CONSTANTS
  Exhibitor,    \* processes that run displayer.py
  Emitter,      \* processes that run sender.py
  SenderId, DisplayerId,   \* the ids the server hands out
  SERVER_ID,    \* id of the server, and of its listening socket
  Zero,         \* id 0: every displayer, or a displayer that has no id yet
  None,
  MaxSeq        \* sequence numbers an emitter uses for its requests

Client == Exhibitor \cup Emitter

SenderEntry == [sock : Client, displayer_id : DisplayerId \cup {None}]
DisplayerEntry == [sock : Client, sender_id : SenderId \cup {None}]

ASSUME ServerAssumption ==
  /\ Exhibitor \cap Emitter = {}
  /\ SenderId \cap DisplayerId = {}
  /\ None \notin SenderId \cup DisplayerId \cup Client \cup SenderEntry \cup DisplayerEntry
  /\ Zero \notin SenderId \cup DisplayerId \cup {None}
  /\ SERVER_ID \notin SenderId \cup DisplayerId \cup Client \cup {None, Zero}
  /\ MaxSeq \in Nat

VARIABLES
  available_sockets,  \* id under which each client's socket is registered, or None
  senders,            \* per sender id, its socket and its displayer, or None
  displayers,         \* per displayer id, its socket and its sender, or None
  sender_ids,         \* sender ids still free
  displayer_ids,      \* displayer ids still free
  srv,                \* where the server is
  ready,              \* sockets of this round of select still to serve
  job,                \* the relay the server is waiting for, or None
  failure,            \* the exception that ended the server, or None
  backlog,            \* connections not accepted yet
  toServer, toClient, \* the two directions of each connection
  cpc,                \* where each client is
  client_id,          \* the id each client was given
  seq_number,         \* the sequence number of each client's next request
  cur,                \* the message a displayer is about to answer, or None
  shown,              \* history: <<source, seq>> of what each displayer showed
  acked               \* history: the relays the server answered with OK

tables == <<available_sockets, senders, displayers, sender_ids, displayer_ids>>
server == <<srv, ready, job, failure, acked>>
client == <<cpc, client_id, seq_number, cur, shown>>
vars == <<tables, server, backlog, toServer, toClient, client>>

-----------------------------------------------------------------------------
(* Messages and connections *)

Message(type, src, dst, seq) == [type |-> type, src |-> src, dst |-> dst, seq |-> seq]

Id == SenderId \cup DisplayerId \cup {SERVER_ID, Zero, None}
Type == {"OI", "OK", "ERRO", "FLW", "MSG", "CREQ", "CLIST"}
MessageType == [type : Type, src : Id, dst : Id, seq : Nat]

\* A client program that ended closed its socket: "left" after an OK, "failed"
\* after anything else.
Gone(c) == cpc[c] \in {"left", "failed"}

SendToServer(c, m) == toServer' = [toServer EXCEPT ![c] = Append(@, m)]

\* What is sent to a closed socket is lost; the failure shows at the next read.
SendToClient(c, m) ==
  toClient' = [toClient EXCEPT ![c] = IF Gone(c) THEN @ ELSE Append(@, m)]

RecvFromServer(c) == toClient[c] # <<>> /\ toClient' = [toClient EXCEPT ![c] = Tail(@)]
RecvFromClient(c) == toServer[c] # <<>> /\ toServer' = [toServer EXCEPT ![c] = Tail(@)]

Init ==
  /\ available_sockets = [c \in Client |-> None]
  /\ senders = [s \in SenderId |-> None]
  /\ displayers = [d \in DisplayerId |-> None]
  /\ sender_ids = SenderId
  /\ displayer_ids = DisplayerId
  /\ srv = "select"
  /\ ready = {}
  /\ job = None
  /\ failure = None
  /\ backlog = <<>>
  /\ toServer = [c \in Client |-> <<>>]
  /\ toClient = [c \in Client |-> <<>>]
  /\ cpc = [c \in Client |-> "off"]
  /\ client_id = [c \in Client |-> None]
  /\ seq_number = [c \in Client |-> 1]
  /\ cur = [c \in Client |-> None]
  /\ shown = [c \in Client |-> {}]
  /\ acked = {}

-----------------------------------------------------------------------------
(* Clients *)

\* initialize_client: connect and send OI, naming 0 for a displayer, the displayer
\* to associate with, or neither (None stands for the default source id 1).
Connect(c) ==
  /\ cpc[c] = "off"
  /\ cpc' = [cpc EXCEPT ![c] = "oi"]
  /\ backlog' = Append(backlog, c)
  /\ \E src \in IF c \in Exhibitor THEN {Zero} ELSE {None} \cup DisplayerId :
       SendToServer(c, Message("OI", src, SERVER_ID, 0))
  /\ UNCHANGED <<tables, server, toClient, client_id, seq_number, cur, shown>>

\* The OK tells the client its id; anything else ends it.
Welcome(c) ==
  /\ cpc[c] = "oi"
  /\ RecvFromServer(c)
  /\ \/ /\ Head(toClient[c]).type = "OK"
        /\ client_id' = [client_id EXCEPT ![c] = Head(toClient[c]).dst]
        /\ cpc' = [cpc EXCEPT ![c] = "ready"]
     \/ /\ Head(toClient[c]).type # "OK"
        /\ cpc' = [cpc EXCEPT ![c] = "failed"]
        /\ UNCHANGED client_id
  /\ UNCHANGED <<tables, server, backlog, toServer, seq_number, cur, shown>>

\* The emitter's user asks for a MSG or a CREQ, for any receiver.
Request(c) ==
  /\ c \in Emitter
  /\ cpc[c] = "ready" /\ seq_number[c] <= MaxSeq
  /\ \E type \in {"MSG", "CREQ"}, dst \in SenderId \cup DisplayerId \cup {Zero} :
       SendToServer(c, Message(type, client_id[c], dst, seq_number[c]))
  /\ cpc' = [cpc EXCEPT ![c] = "reply"]
  /\ UNCHANGED <<tables, server, backlog, toClient, client_id, seq_number, cur, shown>>

\* recv_ok_message: is it the OK with my id and my sequence number?
IsMyOk(c, m) == m = Message("OK", SERVER_ID, client_id[c], seq_number[c])

GetReply(c) ==
  /\ cpc[c] = "reply"
  /\ RecvFromServer(c)
  /\ seq_number' =
       [seq_number EXCEPT ![c] = IF IsMyOk(c, Head(toClient[c])) THEN @ + 1 ELSE @]
  /\ cpc' = [cpc EXCEPT ![c] = "ready"]
  /\ UNCHANGED <<tables, server, backlog, toServer, client_id, cur, shown>>

\* The emitter's FLW command, or Ctrl-C at the prompt or while it waits for a reply.
EmitterLeaves(c) ==
  /\ c \in Emitter
  /\ cpc[c] \in {"ready", "reply"}
  /\ SendToServer(c, Message("FLW", client_id[c], SERVER_ID, seq_number[c]))
  /\ cpc' = [cpc EXCEPT ![c] = "bye"]
  /\ UNCHANGED <<tables, server, backlog, toClient, client_id, seq_number, cur, shown>>

\* The exhibitor's Ctrl-C, while it waits for a message or before it answers one.
ExhibitorLeaves(c) ==
  /\ c \in Exhibitor
  /\ cpc[c] \in {"ready", "answer"}
  /\ SendToServer(c, Message("FLW", client_id[c], SERVER_ID, 1))
  /\ cpc' = [cpc EXCEPT ![c] = "bye"]
  /\ cur' = [cur EXCEPT ![c] = None]
  /\ UNCHANGED <<tables, server, backlog, toClient, client_id, seq_number, shown>>

\* After its FLW a client reads one message and ends, whatever it reads.
GetGoodbye(c) ==
  /\ cpc[c] = "bye"
  /\ RecvFromServer(c)
  /\ cpc' = [cpc EXCEPT ![c] = IF IsMyOk(c, Head(toClient[c])) THEN "left" ELSE "failed"]
  /\ UNCHANGED <<tables, server, backlog, toServer, client_id, seq_number, cur, shown>>

\* The exhibitor reads a message and shows it.
Show(c) ==
  /\ c \in Exhibitor
  /\ cpc[c] = "ready"
  /\ RecvFromServer(c)
  /\ cur' = [cur EXCEPT ![c] = Head(toClient[c])]
  /\ shown' =
       [shown EXCEPT ![c] =
          IF Head(toClient[c]).type = "FLW" THEN @
          ELSE @ \cup {<<Head(toClient[c]).src, Head(toClient[c]).seq>>}]
  /\ cpc' = [cpc EXCEPT ![c] = "answer"]
  /\ UNCHANGED <<tables, server, backlog, toServer, client_id, seq_number>>

\* It answers OK, and ends if the message was FLW.
Answer(c) ==
  /\ cpc[c] = "answer"
  /\ SendToServer(c, Message("OK", client_id[c], SERVER_ID, cur[c].seq))
  /\ cpc' = [cpc EXCEPT ![c] = IF cur[c].type = "FLW" THEN "left" ELSE "ready"]
  /\ cur' = [cur EXCEPT ![c] = None]
  /\ UNCHANGED <<tables, server, backlog, toClient, client_id, seq_number, shown>>

\* The server's process ended: a client that reads gets the end of its connection.
ServerLost(c) ==
  /\ srv = "crashed"
  /\ \/ cpc[c] \in {"oi", "reply", "bye"}
     \/ c \in Exhibitor /\ cpc[c] = "ready"
  /\ toClient[c] = <<>>
  /\ cpc' = [cpc EXCEPT ![c] = "failed"]
  /\ UNCHANGED <<tables, server, backlog, toServer, toClient,
                 client_id, seq_number, cur, shown>>

-----------------------------------------------------------------------------
(* The server: select, and connections *)

Registered(c) == available_sockets[c] # None

\* A socket is readable when something arrived or the client closed it.  The
\* sockets of a round are served in any order.
Select ==
  /\ srv = "select"
  /\ ready' = {c \in Client : Registered(c) /\ (toServer[c] # <<>> \/ Gone(c))}
                \cup (IF backlog # <<>> THEN {SERVER_ID} ELSE {})
  /\ ready' # {}
  /\ srv' = "round"
  /\ UNCHANGED <<tables, job, failure, acked, backlog, toServer, toClient, client>>

\* The handler of socket k returns.
EndTurn(k) ==
  /\ ready' = ready \ {k}
  /\ srv' = IF ready' = {} THEN "select" ELSE "round"
  /\ UNCHANGED <<job, failure>>

\* An exception leaves the handler, and nothing catches it.
Crash(exception) ==
  /\ srv' = "crashed"
  /\ failure' = exception
  /\ UNCHANGED <<tables, ready, job, acked, backlog, toServer, toClient, client>>

\* create_client accepts c and reads its OI.
Accept(c) ==
  /\ srv = "round" /\ SERVER_ID \in ready
  /\ backlog # <<>> /\ c = Head(backlog)
  /\ backlog' = Tail(backlog)
  /\ RecvFromClient(c)
  /\ EndTurn(SERVER_ID)
  /\ UNCHANGED <<acked, client>>

CreateDisplayer(c) ==
  /\ Accept(c)
  /\ Head(toServer[c]).src = Zero
  /\ \E id \in displayer_ids :
       /\ displayer_ids' = displayer_ids \ {id}
       /\ available_sockets' = [available_sockets EXCEPT ![c] = id]
       /\ displayers' = [displayers EXCEPT ![id] = [sock |-> c, sender_id |-> None]]
       /\ SendToClient(c, Message("OK", SERVER_ID, id, 0))
  /\ UNCHANGED <<senders, sender_ids>>

\* Mutant of Associate: the displayer remembers the sender's displayer, not its id.
AssociateItself(id, src) ==
  displayers' =
    IF src \in DisplayerId
    THEN [displayers EXCEPT ![src] = [sock |-> displayers[src].sock, sender_id |-> src]]
    ELSE displayers

\* The displayer named in the OI gets this sender, whether it had one or not.
Associate(id, src) ==
  displayers' =
    IF src \in DisplayerId
    THEN [displayers EXCEPT ![src] = [sock |-> displayers[src].sock, sender_id |-> id]]
    ELSE displayers

CreateSender(c) ==
  /\ Accept(c)
  /\ Head(toServer[c]).src # Zero
  /\ Head(toServer[c]).src \in DisplayerId => displayers[Head(toServer[c]).src] # None
  /\ \E id \in sender_ids :
       /\ sender_ids' = sender_ids \ {id}
       /\ available_sockets' = [available_sockets EXCEPT ![c] = id]
       /\ senders' = [senders EXCEPT ![id] =
            [sock |-> c, displayer_id |->
               IF Head(toServer[c]).src \in DisplayerId THEN Head(toServer[c]).src ELSE None]]
       /\ Associate(id, Head(toServer[c]).src)
       /\ SendToClient(c, Message("OK", SERVER_ID, id, 0))
  /\ UNCHANGED displayer_ids

\* No free id, or no such displayer.
Refused(src) ==
  \/ src = Zero /\ displayer_ids = {}
  \/ src # Zero /\ sender_ids = {}
  \/ src \in DisplayerId /\ displayers[src] = None

RefuseClient(c) ==
  /\ Accept(c)
  /\ Refused(Head(toServer[c]).src)
  /\ SendToClient(c, Message("ERRO", SERVER_ID, Head(toServer[c]).src, 0))
  /\ UNCHANGED tables

-----------------------------------------------------------------------------
(* The server: what clients send *)

\* The turn of client c: the server reads Head(toServer[c]).
Turn(c) ==
  /\ srv = "round" /\ c \in ready /\ Registered(c)
  /\ RecvFromClient(c)

\* Nothing to read, ever: recv_expected_length raises RuntimeError.
ClientLost(c) ==
  /\ srv = "round" /\ c \in ready /\ Registered(c)
  /\ toServer[c] = <<>> /\ Gone(c)
  /\ Crash("RuntimeError")

\* Mutant of Unregister: the sockets stay in available_sockets.
UnregisterNothing(socks) == UNCHANGED available_sockets

Unregister(socks) ==
  available_sockets' =
    [c \in Client |-> IF c \in socks THEN None ELSE available_sockets[c]]

\* Mutant of RemoveDisplayer: the id is not given back.
RemoveDisplayerAndId(d) ==
  /\ displayers' = [displayers EXCEPT ![d] = None]
  /\ UNCHANGED displayer_ids

RemoveDisplayer(d) ==
  /\ displayers' = [displayers EXCEPT ![d] = None]
  /\ displayer_ids' = displayer_ids \cup {d}

RemoveSender(s) ==
  /\ senders' = [senders EXCEPT ![s] = None]
  /\ sender_ids' = sender_ids \cup {s}

\* The sender of a displayer that leaves has no displayer any more.
Unlink(s) ==
  senders' =
    IF s = None THEN senders
    ELSE [senders EXCEPT ![s] = [sock |-> senders[s].sock, displayer_id |-> None]]

\* process_displayer: FLW is all an exhibitor may send out of turn.
DisplayerFlw(c) ==
  LET id == available_sockets[c] IN
  /\ Turn(c)
  /\ id \in DisplayerId /\ Head(toServer[c]).type = "FLW"
  /\ RemoveDisplayer(id)
  /\ Unlink(displayers[id].sender_id)
  /\ Unregister({c})
  /\ SendToClient(c, Message("OK", SERVER_ID, id, Head(toServer[c]).seq))
  /\ EndTurn(c)
  /\ UNCHANGED <<sender_ids, acked, backlog, client>>

\* get_send_to_list returns a list, and which displayers are in it.
HasReceivers(dst) ==
  \/ dst = Zero
  \/ dst \in DisplayerId /\ displayers[dst] # None
  \/ dst \in SenderId /\ senders[dst] # None /\ senders[dst].displayer_id # None

send_to_list(dst) ==
  IF dst = Zero THEN {d \in DisplayerId : displayers[d] # None}
  ELSE {IF dst \in DisplayerId THEN dst ELSE senders[dst].displayer_id}

\* Mutant of Targets: a sender that leaves does not take its displayer with it.
TargetsOfRequests(id, m) == IF m.type = "FLW" THEN {} ELSE send_to_list(m.dst)

\* The displayers that the request m of sender id is relayed to.
Targets(id, m) ==
  IF m.type = "FLW" THEN {senders[id].displayer_id} \ {None} ELSE send_to_list(m.dst)

SenderTurn(c) == Turn(c) /\ available_sockets[c] \in SenderId

\* process_sender: the sender's own request, with a receiver.
Served(id, m) ==
  /\ m.src = id
  /\ \/ m.type = "FLW" /\ m.dst = SERVER_ID
     \/ m.type \in {"MSG", "CREQ"} /\ HasReceivers(m.dst)

\* Mutant of RefuseRequest: returns without the ERRO.
RefuseSilently(c) ==
  /\ SenderTurn(c)
  /\ ~Served(available_sockets[c], Head(toServer[c]))
  /\ EndTurn(c)
  /\ UNCHANGED <<tables, acked, backlog, toClient, client>>

\* A MSG or CREQ without a valid receiver, or a message of no use here.
RefuseRequest(c) ==
  /\ SenderTurn(c)
  /\ ~Served(available_sockets[c], Head(toServer[c]))
  /\ SendToClient(c, Message("ERRO", SERVER_ID, available_sockets[c], Head(toServer[c]).seq))
  /\ EndTurn(c)
  /\ UNCHANGED <<tables, acked, backlog, client>>

\* FLW goes on as FLW of the server, MSG as it is and CREQ as the client list.
Forward(id, type, d, seq) ==
  CASE type = "FLW"  -> Message("FLW", SERVER_ID, d, seq)
    [] type = "MSG"  -> Message("MSG", id, d, seq)
    [] type = "CREQ" -> Message("CLIST", id, d, seq)

\* A relay starts with one of its targets; every displayer in dst must be there.
StartRelay(c) ==
  LET id == available_sockets[c]
      m  == Head(toServer[c])
  IN
  /\ SenderTurn(c)
  /\ Served(id, m)
  /\ \A d \in Targets(id, m) : displayers[d] # None
  /\ \E d \in Targets(id, m) :
       /\ SendToClient(displayers[d].sock, Forward(id, m.type, d, m.seq))
       /\ job' = [sender |-> id, type |-> m.type, seq |-> m.seq,
                  targets |-> Targets(id, m), at |-> d, left |-> Targets(id, m) \ {d}]
  /\ srv' = "wait"
  /\ ready' = ready \ {c}
  /\ UNCHANGED <<tables, failure, acked, backlog, client>>

\* A displayer the server still names is gone from its table: KeyError.
LookupFails(c) ==
  /\ srv = "round" /\ c \in ready /\ Registered(c)
  /\ toServer[c] # <<>> /\ available_sockets[c] \in SenderId
  /\ LET m == Head(toServer[c]) IN
     /\ Served(available_sockets[c], m)
     /\ \E d \in Targets(available_sockets[c], m) : displayers[d] = None
  /\ Crash("KeyError")

\* Every target answered OK.  A sender that leaves takes its displayer with it.
Finish(id, type, seq, targets) ==
  /\ IF type = "FLW"
     THEN /\ RemoveSender(id)
          /\ displayers' = [d \in DisplayerId |-> IF d \in targets THEN None ELSE displayers[d]]
          /\ displayer_ids' = displayer_ids \cup targets
          /\ Unregister({senders[id].sock} \cup {displayers[d].sock : d \in targets})
          /\ UNCHANGED acked
     ELSE /\ acked' = acked \cup {[sender |-> id, seq |-> seq,
                                   to |-> {displayers[d].sock : d \in targets}]}
          /\ UNCHANGED tables

\* No displayer to relay to: a FLW without one, or a broadcast to nobody.
RelayToNobody(c) ==
  LET id == available_sockets[c]
      m  == Head(toServer[c])
  IN
  /\ SenderTurn(c)
  /\ Served(id, m)
  /\ Targets(id, m) = {}
  /\ Finish(id, m.type, m.seq, {})
  /\ SendToClient(c, Message("OK", SERVER_ID, id, m.seq))
  /\ EndTurn(c)
  /\ UNCHANGED <<backlog, client>>

-----------------------------------------------------------------------------
(* The server: waiting for the OK of a displayer *)

AtSock == displayers[job.at].sock

\* Mutant of IsExpectedOk: only the length is read, as recv_file_chunks does.
IsAnyMessage(m) == m \in MessageType

\* recv_ok_message: what arrives is the OK of this displayer to this message.
IsExpectedOk(m) == m = Message("OK", job.at, SERVER_ID, job.seq)

\* The relay ends and the round goes on.
EndRelay ==
  /\ job' = None
  /\ srv' = IF ready = {} THEN "select" ELSE "round"
  /\ UNCHANGED <<ready, failure, backlog, client>>

RelayNext ==
  /\ srv = "wait" /\ job.left # {}
  /\ RecvFromClient(AtSock)
  /\ IsExpectedOk(Head(toServer[AtSock]))
  /\ \E d \in job.left :
       /\ SendToClient(displayers[d].sock, Forward(job.sender, job.type, d, job.seq))
       /\ job' = [job EXCEPT !.at = d, !.left = @ \ {d}]
  /\ UNCHANGED <<tables, srv, ready, failure, acked, backlog, client>>

RelayDone ==
  /\ srv = "wait" /\ job.left = {}
  /\ RecvFromClient(AtSock)
  /\ IsExpectedOk(Head(toServer[AtSock]))
  /\ Finish(job.sender, job.type, job.seq, job.targets)
  /\ SendToClient(senders[job.sender].sock, Message("OK", SERVER_ID, job.sender, job.seq))
  /\ EndRelay

\* Anything but that OK gives the relay up; the displayer stays registered.
RelayFails ==
  /\ srv = "wait"
  /\ RecvFromClient(AtSock)
  /\ ~IsExpectedOk(Head(toServer[AtSock]))
  /\ SendToClient(senders[job.sender].sock, Message("ERRO", SERVER_ID, job.sender, job.seq))
  /\ EndRelay
  /\ UNCHANGED <<tables, acked>>

RelayLost ==
  /\ srv = "wait"
  /\ toServer[AtSock] = <<>> /\ Gone(AtSock)
  /\ Crash("RuntimeError")

-----------------------------------------------------------------------------

ServerNext ==
  \/ Select
  \/ RelayNext \/ RelayDone \/ RelayFails \/ RelayLost
  \/ \E c \in Client :
       \/ CreateDisplayer(c) \/ CreateSender(c) \/ RefuseClient(c)
       \/ DisplayerFlw(c) \/ ClientLost(c)
       \/ RefuseRequest(c) \/ StartRelay(c) \/ LookupFails(c) \/ RelayToNobody(c)

\* What a client program does without its user.
ClientProgram(c) ==
  Welcome(c) \/ GetReply(c) \/ GetGoodbye(c) \/ Show(c) \/ Answer(c) \/ ServerLost(c)

\* What its user does: start it, type a request, end it.
User(c) == Connect(c) \/ Request(c) \/ EmitterLeaves(c) \/ ExhibitorLeaves(c)

Next == ServerNext \/ \E c \in Client : ClientProgram(c) \/ User(c)

Spec == Init /\ [][Next]_vars

\* The processes keep running; users need not do anything.
FairSpec == Spec /\ WF_vars(ServerNext) /\ \A c \in Client : WF_vars(ClientProgram(c))

-----------------------------------------------------------------------------
(* Properties *)

JobType ==
  [sender : SenderId, type : Type, seq : Nat, targets : SUBSET DisplayerId,
   at : DisplayerId, left : SUBSET DisplayerId]

TypeOK ==
  /\ available_sockets \in [Client -> SenderId \cup DisplayerId \cup {None}]
  /\ senders \in [SenderId -> SenderEntry \cup {None}]
  /\ displayers \in [DisplayerId -> DisplayerEntry \cup {None}]
  /\ sender_ids \subseteq SenderId /\ displayer_ids \subseteq DisplayerId
  /\ srv \in {"select", "round", "wait", "crashed"}
  /\ ready \subseteq Client \cup {SERVER_ID}
  /\ job \in JobType \cup {None}
  /\ failure \in {None, "RuntimeError", "KeyError"}
  /\ backlog \in Seq(Client)
  /\ toServer \in [Client -> Seq(MessageType)]
  /\ toClient \in [Client -> Seq(MessageType)]
  /\ cpc \in [Client -> {"off", "oi", "ready", "reply", "answer", "bye", "left", "failed"}]
  /\ client_id \in [Client -> Id]
  /\ seq_number \in [Client -> Nat]
  /\ cur \in [Client -> MessageType \cup {None}]
  /\ \A c \in Client : cpc[c] = "answer" => cur[c] \in MessageType

\* An id is either free or in use, never both and never lost, so that a full server
\* is full of clients and no two clients have one id.
IdsConserved ==
  /\ sender_ids = {s \in SenderId : senders[s] = None}
  /\ displayer_ids = {d \in DisplayerId : displayers[d] = None}

\* The three dictionaries agree: a socket is registered under an id exactly when
\* the table of that kind has the id with that socket.
TablesAgree ==
  /\ \A c \in Client, s \in SenderId :
       available_sockets[c] = s <=> senders[s] # None /\ senders[s].sock = c
  /\ \A c \in Client, d \in DisplayerId :
       available_sockets[c] = d <=> displayers[d] # None /\ displayers[d].sock = c

\* The sender a displayer is associated with is connected and has this displayer,
\* so the lookup of a leaving displayer's sender always succeeds.
DisplayerHasItsSender ==
  \A d \in DisplayerId :
    displayers[d] # None /\ displayers[d].sender_id # None =>
      /\ senders[displayers[d].sender_id] # None
      /\ senders[displayers[d].sender_id].displayer_id = d

\* A round never serves a socket that an earlier handler of the round removed.
RoundIsCurrent ==
  srv \in {"round", "wait"} => \A c \in ready \ {SERVER_ID} : Registered(c)

\* A request is answered OK only after every displayer it went to has shown it.
AckedIsShown ==
  \A a \in acked : \A c \in a.to : <<a.sender, a.seq>> \in shown[c]

\* An emitter that got the OK to its FLW is not registered any more.
GoodbyeIsRemoved == \A c \in Emitter : cpc[c] = "left" => ~Registered(c)

\* Clients that leave the way their programs offer do not take the server down.
ServerSurvives == failure # "RuntimeError"

\* A request is answered, or the server has crashed.
RequestAnswered == \A c \in Emitter : cpc[c] = "reply" ~> cpc[c] # "reply"
=============================================================================

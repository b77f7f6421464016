----------------------------- MODULE LocationServer -----------------------------
(***************************************************************************)
(* The server of TP01 and its clients.  The server is a single thread that *)
(* serves one connection until it ends, then the next; a client sends what *)
(* its user enters and waits for as many answers as it sent lines.  The    *)
(* storage is LocationList, which LocationArray implements.                *)
(***************************************************************************)
EXTENDS LocationList, FiniteSets

CONSTANTS
  Client,
  Entry,        \* what a client may send at once: sequences of lines
  MaxEntries,   \* entries that each user makes
  None

\* A line of an entry: a command, one that parse_message rejects, an empty line, or
\* one that makes the message longer than 500 bytes.
Command == [cmd : {"add", "rm", "query"}, at : Point2D_t] \cup [cmd : {"list", "kill"}]
Line == Command \cup [cmd : {"invalid", "blank", "long"}]

ASSUME EntryAssumption == Entry \subseteq Seq(Line) \ {<<>>}
ASSUME ClientAssumption == None \notin Client /\ MaxEntries \in Nat

VARIABLES
  client_socket,   \* the client being served, or None
  server_closed,
  failed,          \* send failed, and logexit ended the server
  sequence,        \* lines of the message received that are still to serve
  backlog,         \* connections not accepted yet
  toServer, toClient,
  connection,      \* per client: "none", "open", "closed" by the server, or "done"
  expected,        \* expected_number_messages of each client
  entries          \* entries each user has made

net == <<toServer, toClient>>
users == <<expected, entries>>
server == <<client_socket, server_closed, failed, sequence, backlog>>
vars == <<listVars, server, net, connection, users>>

Init ==
  /\ ListInit
  /\ client_socket = None
  /\ server_closed = FALSE /\ failed = FALSE
  /\ sequence = <<>>
  /\ backlog = <<>>
  /\ toServer = [c \in Client |-> <<>>]
  /\ toClient = [c \in Client |-> <<>>]
  /\ connection = [c \in Client |-> "none"]
  /\ expected = [c \in Client |-> 0]
  /\ entries = [c \in Client |-> 0]

-----------------------------------------------------------------------------
(* A client *)

Connect(c) ==
  /\ connection[c] = "none" /\ ~server_closed
  /\ connection' = [connection EXCEPT ![c] = "open"]
  /\ backlog' = Append(backlog, c)
  /\ UNCHANGED <<listVars, client_socket, server_closed, failed, sequence, net, users>>

\* Mutant of count_messages: one answer is expected whatever was sent.
CountOne(lines) == 1

\* Mutant of count_messages: the last newline is not counted.
CountBetween(lines) == Len(lines) - 1

\* Every line ends in a newline, the empty one too.
count_messages(lines) == Len(lines)

\* send_message, at the prompt.  fgets gives client.c one line at a time (one that is too
\* long for its buffer in parts, which the server waits for as for one line); the server
\* takes several lines in one message from any client that sends them.  What is sent to a
\* closed socket is lost.  Where the input has ended nothing is sent and no answer is
\* waited for: the prompt of a user that enters no more.
Enter(c) ==
  /\ connection[c] \in {"open", "closed"}
  /\ expected[c] = 0 /\ entries[c] < MaxEntries
  /\ \E e \in Entry :
       /\ toServer' = [toServer EXCEPT ![c] = IF connection[c] = "open" THEN @ \o e ELSE @]
       /\ expected' = [expected EXCEPT ![c] = count_messages(e)]
  /\ entries' = [entries EXCEPT ![c] = @ + 1]
  /\ UNCHANGED <<listVars, server, toClient, connection>>

\* Mutant of Receive: one answer is counted, however many arrived together.
ReceiveOne(c) ==
  /\ connection[c] \in {"open", "closed"} /\ expected[c] # 0
  /\ \E n \in 1..Len(toClient[c]) :
       /\ toClient' = [toClient EXCEPT ![c] = SubSeq(@, n + 1, Len(@))]
       /\ expected' = [expected EXCEPT ![c] = @ - 1]
  /\ UNCHANGED <<listVars, server, toServer, connection, entries>>

\* receive_message returns what arrived, up to the end of some answer.
Receive(c) ==
  /\ connection[c] \in {"open", "closed"} /\ expected[c] # 0
  /\ \E n \in 1..Len(toClient[c]) :
       /\ toClient' = [toClient EXCEPT ![c] = SubSeq(@, n + 1, Len(@))]
       /\ expected' = [expected EXCEPT ![c] = @ - n]
  /\ UNCHANGED <<listVars, server, toServer, connection, entries>>

\* Mutant of Disconnected: the 0 that receive_message returns is not looked at.
IgnoreTheEnd(c) ==
  /\ expected[c] # 0 /\ toClient[c] = <<>>
  /\ \/ connection[c] = "closed"
     \/ connection[c] = "open" /\ server_closed
  /\ UNCHANGED vars

\* The server ended the connection, or ended before it accepted it.
Disconnected(c) ==
  /\ expected[c] # 0 /\ toClient[c] = <<>>
  /\ \/ connection[c] = "closed"
     \/ connection[c] = "open" /\ server_closed
  /\ connection' = [connection EXCEPT ![c] = "done"]
  /\ UNCHANGED <<listVars, server, net, users>>

\* The user ends the program, at the prompt or while it waits.
Quit(c) ==
  /\ connection[c] \in {"open", "closed"}
  /\ connection' = [connection EXCEPT ![c] = "done"]
  /\ UNCHANGED <<listVars, server, net, users>>

-----------------------------------------------------------------------------
(* The server *)

Accept ==
  /\ client_socket = None /\ ~server_closed
  /\ backlog # <<>>
  /\ client_socket' = Head(backlog)
  /\ backlog' = Tail(backlog)
  /\ UNCHANGED <<listVars, server_closed, failed, sequence, net, connection, users>>

\* The inner loop ends and the connection is closed.
Close(c) ==
  /\ client_socket' = None
  /\ sequence' = <<>>
  /\ connection' = [connection EXCEPT ![c] = IF @ = "done" THEN @ ELSE "closed"]

\* receive_message gives what has arrived, up to the end of some line, or nothing once the
\* client has ended.
TooLong(lines) == \E i \in 1..Len(lines) : lines[i].cmd = "long"

ReceiveMessage(c) ==
  /\ client_socket = c /\ sequence = <<>>
  /\ \E n \in 1..Len(toServer[c]) :
       LET message == SubSeq(toServer[c], 1, n) IN
       /\ toServer' = [toServer EXCEPT ![c] = SubSeq(@, n + 1, Len(@))]
       /\ \/ TooLong(message) /\ Close(c)
          \/ ~TooLong(message) /\ sequence' = message /\ UNCHANGED <<client_socket, connection>>
  /\ UNCHANGED <<listVars, server_closed, failed, backlog, toClient, users>>

\* A client that ended with an answer unread has reset the connection.
Reset(c) == connection[c] = "done" /\ toClient[c] # <<>>

\* Nothing comes any more.  A reset discards what has not been received.
ClientEnded(c) ==
  /\ client_socket = c /\ sequence = <<>>
  /\ connection[c] = "done" /\ (toServer[c] = <<>> \/ Reset(c))
  /\ toServer' = [toServer EXCEPT ![c] = <<>>]
  /\ Close(c)
  /\ UNCHANGED <<listVars, server_closed, failed, backlog, toClient, users>>

\* strtok_r takes no token from an empty line.
SkipEmpty(c) ==
  /\ client_socket = c /\ sequence # <<>>
  /\ Head(sequence).cmd = "blank"
  /\ sequence' = Tail(sequence)
  /\ UNCHANGED <<listVars, client_socket, server_closed, failed, backlog, net,
                 connection, users>>

\* An unknown command, or one with the wrong parameters: the connection is closed
\* and the rest of the message is dropped.
InvalidCommand(c) ==
  /\ client_socket = c /\ sequence # <<>>
  /\ Head(sequence).cmd = "invalid"
  /\ Close(c)
  /\ UNCHANGED <<listVars, server_closed, failed, backlog, net, users>>

Kill(c) ==
  /\ client_socket = c /\ sequence # <<>>
  /\ Head(sequence).cmd = "kill"
  /\ server_closed' = TRUE
  /\ Close(c)
  /\ UNCHANGED <<listVars, failed, backlog, net, users>>

\* One operation of the storage, and its answer.
Operate(line) ==
  \/ line.cmd = "list" /\ List
  \/ line.cmd = "add" /\ Add(line.at)
  \/ line.cmd = "rm" /\ Remove(line.at)
  \/ line.cmd = "query" /\ Query(line.at)

Serve(c) ==
  /\ client_socket = c /\ sequence # <<>>
  /\ Operate(Head(sequence))
  /\ toClient' = [toClient EXCEPT ![c] = Append(@, status')]
  /\ sequence' = Tail(sequence)
  /\ UNCHANGED <<client_socket, server_closed, failed, backlog,
                 toServer, connection, users>>

\* The answer goes to a connection that was reset: send fails, or SIGPIPE comes, and the
\* server ends.
SendFails(c) ==
  /\ client_socket = c /\ sequence # <<>>
  /\ Reset(c)
  /\ Operate(Head(sequence))
  /\ server_closed' = TRUE /\ failed' = TRUE
  /\ Close(c)
  /\ UNCHANGED <<backlog, net, users>>

-----------------------------------------------------------------------------

Server ==
  \/ Accept
  \/ \E c \in Client : \/ ReceiveMessage(c) \/ ClientEnded(c) \/ SkipEmpty(c)
                         \/ InvalidCommand(c) \/ Kill(c) \/ Serve(c) \/ SendFails(c)

\* What a client does without its user.
ClientProgram(c) == Receive(c) \/ Disconnected(c)

Next == Server \/ \E c \in Client : Connect(c) \/ Enter(c) \/ Quit(c) \/ ClientProgram(c)

Spec == Init /\ [][Next]_vars

\* The programs keep running; users need not do anything.
FairSpec == Spec /\ WF_vars(Server) /\ \A c \in Client : WF_vars(ClientProgram(c))

-----------------------------------------------------------------------------
(* Properties *)

AnswerType ==
  [result : {"limit exceeded", "already exists", "added", "does not exist", "removed",
             "list", "none", "closest"},
   points : Seq(Point2D_t)]

TypeOK ==
  /\ locations \in Seq(Point2D_t)
  /\ client_socket \in Client \cup {None}
  /\ server_closed \in BOOLEAN /\ failed \in BOOLEAN
  /\ sequence \in Seq(Line)
  /\ backlog \in Seq(Client)
  /\ toServer \in [Client -> Seq(Line)]
  /\ toClient \in [Client -> Seq(AnswerType)]
  /\ connection \in [Client -> {"none", "open", "closed", "done"}]
  /\ expected \in [Client -> Nat]
  /\ entries \in [Client -> 0..MaxEntries]

\* A client at its prompt has had every answer to what it sent: none is left over to be
\* taken for the answer to its next line.
InStep ==
  \A c \in Client :
    connection[c] = "open" /\ expected[c] = 0 =>
      /\ toServer[c] = <<>> /\ toClient[c] = <<>>
      /\ client_socket = c => sequence = <<>>

\* A client that ends at any moment ends the server only if it still waited for two answers
\* or more: a user of client.c, who sends one line at a time, does not.  A client that sends
\* several lines together, and leaves, does end it for everybody.
LeavingIsHarmless == failed => \E c \in Client : connection[c] = "done" /\ expected[c] > 1

\* Every message the client being served sends is answered, or the connection ends.
Answered ==
  \A c \in Client :
    (client_socket = c /\ expected[c] # 0) ~> (expected[c] = 0 \/ connection[c] = "done")

\* After a kill nobody waits for ever, not even the clients that were never accepted.
NobodyLeftWaiting ==
  \A c \in Client : server_closed ~> (expected[c] = 0 \/ connection[c] = "done")
=============================================================================

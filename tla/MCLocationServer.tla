--------------------------- MODULE MCLocationServer ---------------------------
(* Entries for TLC. *)
EXTENDS LocationServer

CONSTANTS c1, c2

TwoClients == {c1, c2}
OneClient == {c1}

OneRow == {0, 1}

p == [x |-> 0, y |-> 0]
q == [x |-> 1, y |-> 1]

Line1(cmd) == [cmd |-> cmd]
LineAt(cmd, at) == [cmd |-> cmd, at |-> at]

\* One line, as fgets gives it, and entries of several lines, as in the example that
\* client.c gives; an empty line comes only before one that ends the connection.
Entries ==
  { <<LineAt("add", p)>>, <<LineAt("add", q)>>, <<LineAt("rm", p)>>, <<LineAt("query", q)>>,
    <<Line1("list")>>, <<Line1("kill")>>, <<Line1("invalid")>>, <<Line1("long")>>,
    <<LineAt("add", p), LineAt("add", q)>>, <<LineAt("rm", p), Line1("invalid"), Line1("list")>>,
    <<Line1("blank"), Line1("invalid")>> }

\* The user just presses Enter.
EmptyLine == { <<LineAt("add", p)>>, <<Line1("blank")>> }
=============================================================================

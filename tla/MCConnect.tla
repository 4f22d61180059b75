----------------------------- MODULE MCConnect ------------------------------
(* Requests: what port 22 is for against the choices of ports, and picked  *)
(* paths whose names collide in every way three paths can.                 *)
EXTENDS Connect

CONSTANTS t1, t2, t3

File == [base |-> <<1>>, dir |-> FALSE]
Dir == [base |-> <<1>>, dir |-> TRUE]
Numbered == [base |-> <<1, 2>>, dir |-> FALSE]

Request(gui, files, picks, ssh, ports, all) ==
  [gui |-> gui, files |-> files, picks |-> picks, ssh |-> ssh, ports |-> ports, all |-> all]

Two == <<File, Dir>>

Three == {<<File, File, Numbered>>, <<File, Numbered, File>>, <<Numbered, File, Dir>>, <<File, Dir, File>>}

MCArg ==
  {Request(g, f, <<>>, s, p, a) : g \in BOOLEAN, f \in {"none", "ro", "rw", "wo"}, s \in BOOLEAN,
                                  p \in {{}, {22}, {1, 80}}, a \in BOOLEAN}
  \cup {Request(TRUE, "none", Two, s, p, FALSE) : s \in BOOLEAN, p \in {{}, {1}}}
  \cup {Request(TRUE, "none", k, FALSE, {}, FALSE) : k \in Three}
  \cup {Request(TRUE, "ro", Two, FALSE, {}, FALSE)}

\* Nothing, and a list that is full, with and without the peer that is probed.
MCKept == {<<>>,
           <<[token |-> t2, alias |-> TRUE], [token |-> t1, alias |-> TRUE]>>,
           <<[token |-> t2, alias |-> TRUE], [token |-> t3, alias |-> FALSE]>>}
=============================================================================
